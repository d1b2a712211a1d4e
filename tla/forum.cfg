CONSTANTS
    lender = lender
    Users = {lender, ann}
    Books = {k1, k2}
    RequestIds <- NoRequests
    Handlers = {h1}
    Posters = {s1, s2}
    PostIds = {p1, p2}
    MaxEdits = 2
    Owner <- LenderOwnsAll
    SignedUp <- NamesOnly
    OwnerPatches <- NoPatches
SPECIFICATION ForumSpec
SYMMETRY ForumSymmetry
CHECK_DEADLOCK FALSE
INVARIANTS
    ForumIInv
    AnswersHold
PROPERTIES
    PostsAreTheirAuthors
