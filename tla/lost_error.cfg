CONSTANTS
    Clients = {c1}
    Grace = 1
SPECIFICATION ServerSpec
CHECK_DEADLOCK FALSE
INVARIANTS
    FailureIsReported
