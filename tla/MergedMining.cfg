CONSTANTS
    Interval = 2
    CountMod = 5
    Needed = 3
    Jumps = {0, 1, 2}
    MaxHeight = 5
    MaxCalls = 4
    MaxPeriods = 6
    MaxCrash = 2
    MaxLost = 1
    EMPTY = EMPTY
SPECIFICATION MiningSpec
INVARIANTS
    HistoryInRange
    PeriodCounted
    RetargetHasPrevious
    NoOvercount
CHECK_DEADLOCK FALSE
