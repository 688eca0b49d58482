SPECIFICATION FairSpec
CONSTANTS
    NoOne = NoOne
    Creations <- OneOrder
    Goroutines = {g1, g2, g3}
    Buffers = {b1}
    Recorders = {r1}
    Kinds = {"transfer", "record", "submitAndWait", "closeDevice"}
    Apart = {}
    Failures = {}
PROPERTY CloseReturns
CHECK_DEADLOCK FALSE
