SPECIFICATION Spec
CONSTANTS
    Devices = {p1, p2}
    Identity <- SameDriver
    Kernels = {k1, k2, k3}
    MaxSize = 2
    MaxAttempts = 2
    MaxCalls = 1
INVARIANTS
    TypeOK
    FileIsWhole
    NothingMissed
PROPERTIES
    SavesAreSound
SYMMETRY Symmetry
