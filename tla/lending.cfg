CONSTANTS
    lender = lender
    Users = {lender, ann}
    Books = {k1}
    RequestIds = {r1, r2}
    Handlers = {h1, h2}
    Owner <- LenderOwnsAll
    SignedUp <- NamesOnly
    OwnerPatches = {TRUE}
SPECIFICATION ObservedSpec
SYMMETRY Symmetry
CHECK_DEADLOCK FALSE
INVARIANTS
    HandoffConfirmed
    ReminderIsFounded
    ContactableLender
    UnavailableWasHandedOver
    IInv
    StaleIsOvertaken
PROPERTIES
    PendingIsLeftOnce
    AvailabilityFollowsStatus
    ActivationIsLostInARace
    PendingTwiceByARace
    StrandedByARace
