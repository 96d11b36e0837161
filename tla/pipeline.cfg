\* Two invocations side by side, every failure, Downloads at any time.
SPECIFICATION OvertakenSpec
SYMMETRY Symmetry
CONSTANTS
    Wide = 65536
    HalfInt = 128
    Procs = {p1, p2}
    Packages = {"firmware", "application"}
    Size <- SomeSizes
    Faults = {"marker", "kill", "download", "restart"}
INVARIANTS
    TypeOK
    PromptSignalsMatch
PROPERTIES
    PromptCompleteIsTrue
    PromptAnnouncedIsTrue
    DeploymentSpec
