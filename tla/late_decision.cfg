CONSTANTS
    lender = lender
    Users = {lender, ann}
    Books = {k1}
    RequestIds = {r1}
    Handlers = {h1, h2}
    Owner <- LenderOwnsAll
    SignedUp <- AllSignedUp
    OwnerPatches <- NoPatches
SPECIFICATION Spec
CHECK_DEADLOCK FALSE
PROPERTIES
    DecidedOnlyWhilePending
