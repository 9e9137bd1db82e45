\* Three calls of two users that may all overlap.
CONSTANTS
    u1 = u1
    u2 = u2
    u3 = u3
    Users = {u1, u2}
    Calls = {c1, c2, c3}
    Inputs <- MixedInputs
    NoCall = NoCall
SPECIFICATION FairSpec
INVARIANTS
    WellFormed
PROPERTIES
    OrderlyIsSafe
    DeletionIsFinal
    CallsEnd
\* Every call has ended.
CHECK_DEADLOCK FALSE
