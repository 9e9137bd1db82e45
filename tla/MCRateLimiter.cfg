\* Two clients; a bucket of two requests that takes four ticks to fill.
CONSTANTS
    IPs = {i1, i2}
    Cost = 2
    Cap = 4
    IdleTTL = 3
    MaxTime = 10
    MaxCalls = 4
SPECIFICATION Spec
SYMMETRY IPSymmetry
INVARIANTS
    IInv
    NeverOverdrawn
PROPERTIES
    PatienceRewarded
    IdleForgotten
    ImplementsBuckets
\* The clock and the number of calls are bounded.
CHECK_DEADLOCK FALSE
