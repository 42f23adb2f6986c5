SPECIFICATION FairSpec
CONSTANTS
    Nodes = {n1, n2}
    UPSes = {u1, u2}
    None = None
    MaxCalls = 2
    MaxActs = 4
    Environments <- DialogEnvironments
INVARIANTS
    DialogShowsOpen
    ActionsHitShown
    ClosingStaysOnPage
PROPERTIES
    DialogCatchesUp
CHECK_DEADLOCK FALSE
