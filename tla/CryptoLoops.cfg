\* The loops over two symbols, and the change of day.
CONSTANTS
    Symbols <- TwoSymbols
    Cli = {c1}
    Dash = dash
    Commands <- Loops
    Configs <- OneConfig
    Cash0 = 1
    MaxIter = 1
    MaxPlaced = 2
    MaxDay = 1
    MaxLost = 0
    MaxPreview = 0
    MaxReset = 0
SPECIFICATION FairSpec
INVARIANTS
    CountConserved
    DailyCapOvershoot
PROPERTIES
    LoopsStop
