\* One symbol, a loop of two cycles across midnight, one failure.
CONSTANTS
    Configs <- MCConfigs
    HasKey = TRUE
    Interval = 2
    Retries = 1
    MaxWait = 2
    Path <- AllPaths
    LastDay = 4
    MaxFaults = 1
    Universe = 1
    Cap = 100
    Iterations = 2
    MaxLoops = 1
    Weekend = {1}
    FirstDay = 3
    Histories <- MCHistories
    Points <- MCPoints
    Articles <- MCArticles
    Bars <- MCBars
    Markets <- MCMarkets
SPECIFICATION FairSpec
INVARIANTS
    TypeOK
    NoVetoOverruled
    BrakeHolds
    RequestBudget
PROPERTIES
    OverlaysOnlyReduce
    LoopEnds
CHECK_DEADLOCK FALSE
