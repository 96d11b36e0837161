\* The signals of a session that is over; nothing fails.
SPECIFICATION Spec
CONSTANTS
    Procs = {p1}
    Exclusive = TRUE
    Commands = {"update_file", "commit_update", "apply_update"}
    Bundles = {{"fw"}}
    Faults = {}
    WithAgent = FALSE
INVARIANT
    NoIdleReboot
