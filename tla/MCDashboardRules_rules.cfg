SPECIFICATION RulesSpec
CONSTANTS
    ErrorTokens = {OB}
    WarningTokens = {RB}
    OKTokens = {OL}
    OtherTokens = {HB}
    MaxTokens = 2
    MaxNodes = 2
    Times <- SampleTimes
    Ends <- DrawTimes
    Readings <- SampleReadings
    NoValue = NoValue
    MaxSamples = 3
    WindowLength = 4
    TickInterval = 2
    Nothing = Nothing
INVARIANTS
    SeverityIsMostSevere
    AlertsAreOnCards
    ChartsEndWithNewest
PROPERTIES
    HoverFollowsPointer
CHECK_DEADLOCK FALSE
