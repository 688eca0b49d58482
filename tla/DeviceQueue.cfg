SPECIFICATION Spec
CONSTANTS
    NoOne = NoOne
    Creations <- CreationOrders
    Goroutines = {g1, g2}
    Buffers = {b1}
    Recorders = {r1, r2}
    Kinds = {"transfer", "record", "submit", "abort", "wait", "poll", "closeBuffer", "closeDevice"}
    Apart = {}
    Failures = {"native", "queue", "fence", "idle"}
INVARIANTS
    TypeOK
    ReferencesCountHolders
    InFlightIsProtected
    CloseReclaims
    CloseIsExclusive
PROPERTY ResultIsFinal
CHECK_DEADLOCK FALSE
SYMMETRY Symmetry
