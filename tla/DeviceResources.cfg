SPECIFICATION FairSpec
CONSTANTS
    Goroutines = {g1, g2, g3}
    Kernels = {k1}
    Buffers = {b1, b2}
    Sets = {s1}
    Recorders = {r1}
    KernelOf <- OneKernel
    BuffersOf <- OneTwice
    WritesOf <- AllBuffersWritten
INVARIANTS
    TypeOK
    UsedResourcesExist
    CountsAreHolders
    NothingLeaks
PROPERTY EveryCallReturns
CHECK_DEADLOCK FALSE
