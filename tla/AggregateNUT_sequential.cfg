SPECIFICATION Spec
CONSTANTS
    Requests = {r1, r2}
    Addrs = {a1, a2}
    Canonical = {a2}
    DefaultAddr = a1
    MainCtx = MainCtx
    None = None
    NoAddr = NoAddr
    Concurrent = FALSE
    Faulty = TRUE
INVARIANTS
    DisabledMeansClosed
    OpenIsOwned
    FlagMatchesListener
    ListensWhereConfigured
CHECK_DEADLOCK FALSE
