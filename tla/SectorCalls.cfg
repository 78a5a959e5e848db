\* Four runs over two days, two at a time, with three faults.
CONSTANTS
    Fund = {f1}
    Run = {p1, p2}
    Disk = disk
    LastDay = 1
    MaxRuns = 4
    MaxFaults = 3
SPECIFICATION Spec
INVARIANTS
    TypeOK
    NothingLost
PROPERTIES
    IsRegister
CHECK_DEADLOCK FALSE
