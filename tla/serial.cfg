\* Two threads, a port that may be missing or fail.
SPECIFICATION Spec
CONSTANTS
    t1 = t1
    t2 = t2
    Threads = {t1, t2}
    NoThread = NoThread
    LineLength = 3
    Faults = {"open", "port"}
INVARIANTS
    TypeOK
    NoCircularWait
PROPERTIES
    LinesWhole
    ErrorsGetOut
