\* One day: two scouts that may run again, two alerter cycles side by side.
CONSTANTS
    Play <- MCPlay
    Scouts = {"options", "smallcap"}
    Alerters = {a1, a2}
    Settler = sweep
    Writes <- TwoScouts
    LevelsOf <- MCLevels
    Markets <- NoMove
    Horizon = 1
    Lookback = 1
    MaxDay = 1
    MaxStarts = 6
    MaxFaults = 2
SPECIFICATION Spec
INVARIANTS
    AlertsBounded
CHECK_DEADLOCK FALSE
