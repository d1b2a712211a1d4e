CONSTANTS
    ann = ann
    bob = bob
    cat = cat
    Uids = {ann, bob}
    Handlers = {h1}
    EmailOf <- NoEmails
    Throttle = 1
    MaxTime = 0
SPECIFICATION AuthSpec
INVARIANTS
    FirstSignInIsServed
