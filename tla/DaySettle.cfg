\* Five days: scouts, an alerter and the sweep across midnight.
CONSTANTS
    Play <- MCPlay
    Scouts = {"options"}
    Alerters = {a1}
    Settler = sweep
    Writes <- AnyScout
    LevelsOf <- MCLevels
    Markets <- MCMarkets
    Horizon = 2
    Lookback = 3
    MaxDay = 5
    MaxStarts = 2
    MaxFaults = 1
SPECIFICATION Spec
INVARIANTS
    TypeOK
    SettlesPastDays
    WinsEarned
    CalibrationUnderstates
PROPERTIES
    OutcomesSurvive
CHECK_DEADLOCK FALSE
