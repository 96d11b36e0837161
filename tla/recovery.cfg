\* Every command and failure, then an operator who goes by the exit codes.
SPECIFICATION OpSpec
CONSTANTS
    Procs = {p1}
    Exclusive = TRUE
    Commands <- AllCommands
    Bundles <- EveryBundle
    Faults <- AllFaults
    WithAgent = TRUE
INVARIANTS
    TypeOK
    PreparedInFull
PROPERTIES
    CommitIsFinal
    LifecycleSpec
    Recovers
