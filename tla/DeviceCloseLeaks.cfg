SPECIFICATION Spec
CONSTANTS
    Goroutines = {g1}
    Kernels = {k1}
    Buffers = {b1}
    Sets = {s1}
    Recorders = {r1}
    KernelOf <- OneKernel
    BuffersOf <- AllBuffers
    WritesOf <- AllBuffersWritten
INVARIANT ClosesAllChildren
CHECK_DEADLOCK FALSE
