\* Two invocations side by side, an ADU agent, reboots that fail, power cuts.
SPECIFICATION SessionSpec
CONSTANTS
    Procs = {p1, p2}
    Exclusive = FALSE
    Commands = {"update_file", "commit_update", "rollback_update", "apply_update"}
    Bundles = {{"fw", "app"}}
    Faults = {"reboot", "power", "boot"}
    WithAgent = TRUE
SYMMETRY Symmetry
INVARIANTS
    SweptRebootsHaveCause
    SweptSignalsArePending
PROPERTY
    SweptCommitIsFinal
