\* Friday, a weekend, a holiday, Tuesday; one share at a time.
CONSTANTS
    Holidays <- MCHolidays
    PdtWindow = 2
    PdtLimit = 1
    Threshold = 2
    Lookback = 6
    Symbol = {s1}
    Cash0 = 1
    Amounts = {1}
    MaxTrades = 2
    FirstDay = 4
    LastDay = 8
    MaxOrders = 4
    MaxLost = 1
    MaxCycles = 1
SPECIFICATION Spec
INVARIANTS
    TypeOK
    DayTradesBounded
    FundedFromSettled
CHECK_DEADLOCK FALSE
