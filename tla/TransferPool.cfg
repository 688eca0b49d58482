SPECIFICATION Spec
CONSTANTS
    r1 = r1
    r2 = r2
    b1 = b1
    x1 = x1
    x2 = x2
    x3 = x3
    Recorders = {r1, r2}
    Buffers = {b1}
    Resources = {x1, x2, x3}
    Sizes = {1, 3}
    BufferSize = 2
    Granule = 2
    Devices <- MCDevices
    MaxIdleTransferResources = 2
    MaxIdleTransferBytes = 6
    MaxTransfers = 2
SYMMETRY Symmetry
CHECK_DEADLOCK FALSE
INVARIANTS
    TypeOK
    ExclusiveOwner
    InFlightStaysHeld
    PoolAccount
    TransferFits
    ReadsAreInvalidated
    CloseFreesAll
PROPERTIES
    HostWritesIdleMemory
