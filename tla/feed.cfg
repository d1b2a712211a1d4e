CONSTANTS
    sent = sent
    accepted = accepted
    Events = {b1, b2, b3, sent, accepted}
    SourceOf <- SentAndAccepted
    BookLimit = 2
    FetchCap = 2
    ShowCap = 2
    MaxTime = 2
SPECIFICATION ActivitySpec
SYMMETRY EventSymmetry
CHECK_DEADLOCK FALSE
INVARIANTS
    FeedShowsNewest
