\* Two processes, three executions side by side or in turn, one death.
CONSTANTS
    Contract = {c1, c2}
    Proc = {p1, p2}
    PremiumCap = 2
    Cash0 = 1
    Iterations = 1
    MaxRuns = 3
    MaxLost = 1
SPECIFICATION Spec
SYMMETRY Symmetric
INVARIANTS
    TypeOK
    CleanIsEarned
    AlarmIsExplained
    PremiumBound
