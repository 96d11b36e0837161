\* --rollback_update is called a second time; nothing fails.
SPECIFICATION Spec
CONSTANTS
    Procs = {p1}
    Exclusive = TRUE
    Commands = {"update_file", "rollback_update", "apply_update"}
    Bundles = {{"fw"}}
    Faults = {}
    WithAgent = FALSE
INVARIANT
    RollbackStaysApplicable
