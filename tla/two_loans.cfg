CONSTANTS
    lender = lender
    Users = {lender, ann, bob}
    Books = {k1}
    RequestIds = {r1, r2}
    Handlers = {h1}
    Owner <- LenderOwnsAll
    SignedUp <- AllSignedUp
    OwnerPatches <- NoPatches
SPECIFICATION Spec
CHECK_DEADLOCK FALSE
INVARIANTS
    ActiveBookIsUnavailable
