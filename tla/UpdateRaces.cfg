SPECIFICATION Spec
CONSTANTS
    r1 = r1
    r2 = r2
    b1 = b1
    b2 = b2
    Recorders = {r1, r2}
    Buffers = {b1, b2}
    BindingSets <- MCBindingSets
    DeviceBits = {0}
    WordBits = 3
    MaxTimestampSpans = 0
    MaxCommands = 2
SYMMETRY Symmetry
CHECK_DEADLOCK FALSE
INVARIANT UpdatesWaitForDownloads
