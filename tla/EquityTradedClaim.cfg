\* One process, so that nothing runs beside an execution; one row of the crypto lane.
CONSTANTS
    Symbol = {s1}
    Proc = {p1}
    Cap = 1
    Fee = 0
    Cash0 = 2
    Iterations = 1
    MaxRuns = 1
    MaxLost = 0
    MaxOther = 1
SPECIFICATION Spec
INVARIANTS
    CleanRunTraded
