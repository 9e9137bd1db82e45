\* Four requests of two users with a token each; a session and its end.
CONSTANTS
    u1 = u1
    u2 = u2
    t1 = t1
    t2 = t2
    r1 = r1
    r2 = r2
    Tokens = {t1, t2}
    TokenUser <- Owners
    Requests = {r1, r2, r3, r4}
    Inputs <- SessionInputs
    TokenTTL = 1
    SessionTTL = 2
    MaxTime = 2
    None = None
SPECIFICATION Spec
INVARIANTS
    VerifiedByToken
    TokenOnce
    ServedAreVerified
    LateCallsRefused
\* Every request has ended and the clock stands still.
CHECK_DEADLOCK FALSE
