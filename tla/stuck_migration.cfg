CONSTANTS
    Clients = {c1}
    Grace = 1
SPECIFICATION ServerSpec
CHECK_DEADLOCK FALSE
PROPERTIES
    SignalStops
