SPECIFICATION FairSpec
CONSTANTS
    Preferences = {"system", "dark"}
    System = "system"
    MaxVersion = 1
    MaxCalls = 2
    MaxActs = 4
    Environments <- PageEnvironments
INVARIANTS
    RestingPageIsCurrent
    ThemeSurvivesReload
PROPERTIES
    PageCatchesUp
CHECK_DEADLOCK FALSE
