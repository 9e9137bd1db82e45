\* Fair scheduling: three requests, two users, one contended slug. No symmetry.
CONSTANTS
    u1 = u1
    u2 = u2
    s1 = s1
    s2 = s2
    r1 = r1
    r2 = r2
    r3 = r3
    Users = {u1, u2}
    Slugs = {s1}
    Requests = {r1, r2, r3}
    Inputs <- PlainInputs
    Plans = {"FREE"}
    FreeLimit = 1
    NoSlug = NoSlug
    NoRequest = NoRequest
SPECIFICATION FairSpec
PROPERTIES
    EventuallyAnswered
