CONSTANTS
    lender = lender
    Users = {lender, ann}
    Books = {k1}
    RequestIds = {r1}
    Handlers = {h1, h2}
    Senders = {s1, s2}
    MessageIds = {m1, m2}
    Owner <- LenderOwnsAll
    SignedUp <- AllSignedUp
    OwnerPatches <- NoPatches
SPECIFICATION SerialChatSpec
SYMMETRY ChatSymmetry
CHECK_DEADLOCK FALSE
PROPERTIES
    ImplementsConversation
