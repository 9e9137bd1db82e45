\* Three redirects, two slots in the click channel, the shutdown.
CONSTANTS
    Visits = {v1, v2, v3}
    Capacity = 2
    NoVisit = NoVisit
SPECIFICATION HandlersSpec
INVARIANTS
    OnlyRedirectsCount
PROPERTIES
    ImplementsLog
    ImplementsLifecycle
    RedirectsNeverWait
    ClicksAreSettled
\* The process has ended.
CHECK_DEADLOCK FALSE
