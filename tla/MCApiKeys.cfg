\* Three requests with one key, one place a day, two days.
CONSTANTS
    Keys = {k1}
    Requests = {r1, r2, r3}
    Burst = 1
    Quota = 1
    DayLength = 2
    MaxTime = 2
    None = None
SPECIFICATION FairSpec
INVARIANTS
    UsageExact
    RateHeld
PROPERTIES
    ImplementsDailyQuota
    EventuallyAnswered
\* Every request has ended and the clock stands still.
CHECK_DEADLOCK FALSE
