CONSTANTS
    broken = broken
    Users = {ann, bob}
    Devices = {phone, tablet, broken}
    Senders = {s1}
    Faulty = {broken}
SPECIFICATION FairPushSpec
INVARIANTS
    OnlyTheirDevices
    OthersAreReached
PROPERTIES
    DevicesAreServed
