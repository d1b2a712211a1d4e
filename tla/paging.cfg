CONSTANTS
    Rows = {i1, i2, i3, i4}
    PageSize = 2
    MaxTime = 2
SPECIFICATION FairPagingSpec
CHECK_DEADLOCK FALSE
INVARIANTS
    PagesDescend
    OnlyTiesAreMissed
PROPERTIES
    ReadingEnds
