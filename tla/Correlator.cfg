CONSTANTS
    i1 = i1
    i2 = i2
    ImagePairs <- MCImagePairs
    WorkgroupSize = 3
    PeakWorkgroups = 3
    MaxSizes <- MCMaxSizes
    CallSizes <- MCCallSizes
    OptionLists <- MCOptionLists
    GroupLimits = {0, 5}
    MaxShaderArea = 20
    MaxExactIndex = 16
    Numbers <- MCNumbers
    MaxCalls = 2
SPECIFICATION Spec
SYMMETRY Symmetry
CHECK_DEADLOCK FALSE
INVARIANTS
    TypeOK
    NothingLeaks
    PipelineOrdered
    AnswerIsReference
    VerdictsAreSound
PROPERTY
    LentDeviceStaysOpen
