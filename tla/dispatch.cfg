\* Every command line of at most two actions, every failure.
SPECIFICATION Spec
CONSTANTS
    CommandLines <- UpToTwo
    Faults = {"console", "setup", "handler"}
CHECK_DEADLOCK FALSE
INVARIANTS
    TypeOK
    OneHandler
    PortIsReady
