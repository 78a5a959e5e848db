\* Two processes, two executions of up to two cycles, side by side or in turn, one death, one foreign row.
CONSTANTS
    Symbol = {s1}
    Proc = {p1, p2}
    Cap = 2
    Fee = 1
    Cash0 = 2
    Iterations = 2
    MaxRuns = 2
    MaxLost = 1
    MaxOther = 1
SPECIFICATION Spec
SYMMETRY Symmetric
INVARIANTS
    TypeOK
    CleanIsEarned
    AlarmIsExplained
    OverdraftBounded
    StopHolds
