SPECIFICATION FairSpec
CONSTANTS
    Devices = {1, 2}
    Vars = {v1, v2}
    Values = {x, y}
    Initial = x
    Calls = {c1, c2}
    NoUPS = NoUPS
    NoVar = NoVar
    NoDetail = NoDetail
    NoCall = NoCall
    MaxActs = 3
    Environments <- DashboardEnvironments
INVARIANTS
    DirtyMatchesInputs
    ShownIsSelected
    
PROPERTIES
    SelectionRecovers
    LiveValuesCatchUp
CHECK_DEADLOCK FALSE
