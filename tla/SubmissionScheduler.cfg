SPECIFICATION FairSpec
CONSTANTS
    Reservations = {r1, r2, r3}
    Buffers = {b1, b2}
    Requests <- MCRequests
INVARIANTS
    TypeOK
    ActiveCompatible
    NoLostWakeup
PROPERTIES
    EveryCallReturns
    ImplementsOrder
