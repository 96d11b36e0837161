\* --apply_update dies between its write and its reboot.
SPECIFICATION Spec
CONSTANTS
    Procs = {p1}
    Exclusive = TRUE
    Commands = {"update_file", "rollback_update", "apply_update"}
    Bundles = {{"fw"}}
    Faults = {"kill"}
    WithAgent = FALSE
INVARIANT
    RollbackClaimIsTrue
