\* Two sessions, three orders, two days before expiry.
CONSTANTS
    MaxDebit = 1
    TotalCap = 1
    Multiplier = 1
    MinDte = 2
    AllowZeroDte = FALSE
    MaxContracts = 5
    Contract = {c1, c2}
    Expiry <- MCExpiry
    Proc = {p1, p2}
    MaxIntents = 3
    MaxLost = 1
    LastDay = 3
SPECIFICATION Spec
SYMMETRY Symmetric
INVARIANTS
    TypeOK
    CapOvershoot
    LateOrders
    OncePerIntent
