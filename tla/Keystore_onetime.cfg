SPECIFICATION Spec

CONSTANTS
    MaxKeypairs = 2
    Keys = {k1, k2, k3}
    NoKey = NoKey
    Fits = 2
    FaultKinds = {}
    MaxFaults = 0

SYMMETRY Symmetry
INVARIANTS
    OnetimeErased
