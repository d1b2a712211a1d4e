CONSTANTS
    lender = lender
    Users = {lender, ann, bob}
    Books = {k1}
    RequestIds = {r1, r2}
    Handlers = {h1, h2}
    Owner <- LenderOwnsAll
    SignedUp <- AllSignedUp
    OwnerPatches = {TRUE}
SPECIFICATION SerialSpec
SYMMETRY Symmetry
CHECK_DEADLOCK FALSE
PROPERTIES
    ImplementsLending
