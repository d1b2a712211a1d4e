CONSTANTS
    ann = ann
    bob = bob
    cat = cat
    Uids = {bob, cat}
    Handlers = {h1, h2, h3}
    EmailOf <- BobTwice
    Throttle = 1
    MaxTime = 2
SPECIFICATION FairAuthSpec
INVARIANTS
    OneRowPerStudent
    LastActiveIsAccurate
PROPERTIES
    RetryFindsTheRow
    ProvisionedInTheEnd
