CONSTANTS
    broken = broken
    Users = {ann, bob}
    Devices = {phone, tablet}
    Senders = {s1}
    Faulty = {}
SPECIFICATION PushSpec
INVARIANTS
    EveryDeviceIsReached
