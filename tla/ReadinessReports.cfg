\* Every pair of edits, before or during a report of either lane.
CONSTANTS
    Tuned <- OneOfEach
    MaxEdits = 2
SPECIFICATION ReportsSpec
INVARIANTS
    ReportsTypeOK
    VerdictWasTrue
