CONSTANTS
    Clients = {c1, c2}
    Grace = 2
SPECIFICATION ServerSpec
CHECK_DEADLOCK FALSE
INVARIANTS
    CleanExit
    CutOffOnlyAfterGrace
    PushesOutliveRequests
PROPERTIES
    NoNewConnections
    StopsInTheEnd
