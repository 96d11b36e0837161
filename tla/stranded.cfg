\* One command and a Download that begins between its look and its signal.
SPECIFICATION Spec
CONSTANTS
    Wide = 65536
    HalfInt = 128
    Procs = {p1}
    Packages = {"firmware", "both"}
    Size <- SomeSizes
    Faults = {}
INVARIANT
    SignalsMatchFiles
