SPECIFICATION Spec
CONSTANTS
    Nodes = {n1, n2}
    UPSes = {u1}
    None = None
    MaxCalls = 2
    MaxActs = 4
    Environments <- WanderEnvironment
INVARIANTS
    NoAnswerForPreviousNode
CHECK_DEADLOCK FALSE
