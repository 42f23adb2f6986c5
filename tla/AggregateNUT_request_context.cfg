SPECIFICATION Spec
CONSTANTS
    Requests = {r1}
    Addrs = {a1, a2}
    Canonical = {a2}
    DefaultAddr = a1
    MainCtx = MainCtx
    None = None
    NoAddr = NoAddr
    Concurrent = FALSE
    Faulty = FALSE
INVARIANTS
    RunningAsConfigured
CHECK_DEADLOCK FALSE
