\* A terminal and the dashboard side by side: supervised and bounded orders.
CONSTANTS
    Symbols <- OneSymbol
    Cli = {c1}
    Dash = dash
    Commands <- Supervisable
    Configs <- OneConfig
    Cash0 = 2
    MaxIter = 1
    MaxPlaced = 2
    MaxDay = 0
    MaxLost = 1
    MaxPreview = 1
    MaxReset = 1
SPECIFICATION Spec
INVARIANTS
    TypeOK
    CountConserved
    DailyCapOvershoot
    BrakeBound
