SPECIFICATION FairSpec
CONSTANTS
    NoOne = NoOne
    Creations <- OneOrder
    Goroutines = {g1}
    Buffers = {b1}
    Recorders = {r1, r2}
    Kinds = {"record", "submit", "wait"}
    Apart = {}
    Failures = {}
PROPERTY SubmitReturns
CHECK_DEADLOCK FALSE
