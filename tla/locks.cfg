CONSTANTS
    lender = lender
    Users = {lender, ann}
    Books = {k1}
    RequestIds = {r1}
    Handlers = {h1, h2}
    Readers = {q1}
    Owner <- LenderOwnsAll
    SignedUp <- AllSignedUp
    OwnerPatches = {TRUE}
    PoolSize = 2
SPECIFICATION LockedSpec
CHECK_DEADLOCK FALSE
INVARIANTS
    LocksIInv
    OnlyDeletesDeadlock
PROPERTIES
    ImplementsBoibritto
    EveryCallEnds
