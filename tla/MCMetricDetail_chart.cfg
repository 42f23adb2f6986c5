SPECIFICATION FairSpec
CONSTANTS
    Labels = {cpu, disk}
    Narrow = w10m
    Wide = {w1h, w24h}
    Calls = {c1, c2}
    NoLabel = NoLabel
    NoChart = NoChart
    MaxSamples = 1
    MaxActs = 4
    Environments <- DetailEnvironments
INVARIANTS
    DrawnIsSelected
    
PROPERTIES
    MarkerOnPolyline
    WideChartCatchesUp
