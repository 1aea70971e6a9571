SPECIFICATION Spec

CONSTANTS
    MaxKeypairs = 3
    Keys = {k1, k2, k3, k4}
    NoKey = NoKey
    Fits = 3
    FaultKinds = {"write", "alloc", "crash"}
    MaxFaults = 1

SYMMETRY Symmetry
INVARIANTS
    TypeOK
    KeyMatch
    ListsReadable
PROPERTIES
    LosesAtMostOne
