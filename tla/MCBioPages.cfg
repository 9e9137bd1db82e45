\* Two requests of two users for two slugs and two links.
CONSTANTS
    u1 = u1
    u2 = u2
    s1 = s1
    s2 = s2
    r1 = r1
    l1 = l1
    l2 = l2
    Users = {u1, u2}
    Slugs = {s1, s2}
    Links = {l1, l2}
    LinkOwner <- Owners
    Requests = {r1, r2}
    Inputs <- PageInputs
    Plans = {"FREE", "PRO"}
    None = None
SPECIFICATION FairSpec
INVARIANTS
    WellFormed
PROPERTIES
    FreePageAlone
    PageAnswered
\* Every request has ended.
CHECK_DEADLOCK FALSE
