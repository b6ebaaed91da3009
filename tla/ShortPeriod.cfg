CONSTANTS
    Interval = 3
    CountMod = 7
    Needed = 2
    Jumps = {1}
    MaxHeight = 6
    MaxCalls = 6
    MaxPeriods = 2
    MaxCrash = 1
    MaxLost = 0
    EMPTY = EMPTY
SPECIFICATION MiningSpec
INVARIANT
    PeriodComplete
CHECK_DEADLOCK FALSE
