\* The commands that select slots next to the flags, one invocation at a time.
SPECIFICATION HealthSpec
CONSTANTS
    Procs = {p1}
    Exclusive = TRUE
    Commands = {"update_file", "commit_update", "rollback_update", "switch_fw_slot", "apply_update"}
    Bundles = {{"fw", "app"}}
    Faults = {"marker", "reboot", "power", "boot", "flag"}
    WithAgent = TRUE
INVARIANTS
    RollbackClaimIsTrue
    RejectedIsNoSwitch
