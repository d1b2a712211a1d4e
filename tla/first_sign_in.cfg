CONSTANTS
    ann = ann
    bob = bob
    cat = cat
    Uids = {ann}
    Handlers = {h1, h2}
    EmailOf <- OwnEmails
    Throttle = 1
    MaxTime = 0
SPECIFICATION AuthSpec
INVARIANTS
    FirstSignInIsServed
