\* The boot loader falls back and the update is to be rolled back.
SPECIFICATION Spec
CONSTANTS
    Procs = {p1}
    Exclusive = TRUE
    Commands = {"update_file", "rollback_update", "apply_update"}
    Bundles = {{"fw"}}
    Faults = {"boot"}
    WithAgent = FALSE
INVARIANT
    FailedCanBeRolledBack
