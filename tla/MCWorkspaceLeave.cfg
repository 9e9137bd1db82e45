\* Two owners leave at the same time.
CONSTANTS
    u1 = u1
    u2 = u2
    u3 = u3
    Users = {u1, u2, u3}
    Calls = {c1, c2, c3, c4}
    Inputs <- TwoOwnersLeave
    NoCall = NoCall
SPECIFICATION Spec
SYMMETRY CallSymmetry
INVARIANTS
    OwnerRemains
\* When every call has ended nothing happens.
CHECK_DEADLOCK FALSE
