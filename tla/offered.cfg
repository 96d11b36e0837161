\* Downloads at any time, every failure but that of a marker; the operator repeats every command.
SPECIFICATION FairSpec
CONSTANTS
    Wide = 65536
    HalfInt = 128
    Procs = {p1}
    Packages = {"firmware", "both"}
    Size <- SomeSizes
    Faults = {"kill", "download", "restart"}
PROPERTY
    OfferLeadsOn
