\* Two registrations for one or two addresses, one slot in the mail channel, the shutdown.
CONSTANTS
    Requests = {r1, r2}
    Emails = {e1, e2}
    Capacity = 1
    NoRequest = NoRequest
SPECIFICATION HandlersSpec
INVARIANTS
    AccountsWhole
    AnswerTruthful
PROPERTIES
    ImplementsLifecycle
    ShutdownDrains
    RegistrationsNeverWait
    ShutdownReturns
\* The process has ended.
CHECK_DEADLOCK FALSE
