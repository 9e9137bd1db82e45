\* Three racing requests, two users, FREE limit 1, two plans.
CONSTANTS
    u1 = u1
    u2 = u2
    s1 = s1
    s2 = s2
    r1 = r1
    r2 = r2
    r3 = r3
    Users = {u1, u2}
    Slugs = {s1, s2}
    Requests = {r1, r2, r3}
    Inputs <- ContendingInputs
    Plans = {"FREE", "BUSINESS"}
    FreeLimit = 1
    NoSlug = NoSlug
    NoRequest = NoRequest
SPECIFICATION Spec
SYMMETRY RequestSymmetry
INVARIANTS
    IInv
    QuotaExact
    AnswerTruthful
    PaidFeaturesOnly
PROPERTIES
    FreeQuotaRespected
    ImplementsQuota
