SPECIFICATION Spec

CONSTANTS
    MaxKeypairs = 3
    Keys = {k1, k2, k3, k4}
    NoKey = NoKey
    Fits = 2
    FaultKinds = {"write", "alloc"}
    MaxFaults = 1

PROPERTIES
    ImplementsVault
