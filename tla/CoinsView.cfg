SPECIFICATION Spec
CONSTANTS
    c1 = c1
    c2 = c2
    ta = ta
    tb = tb
    NONE = NONE
    Tx <- MCTx
    Out = {0, 1}
    CoinBase <- MCCoinBase
    Input <- MCInput
    Output <- MCOutput
    Maturity = 1
    MaxBlocks = 3
    MaxSeen = 3
    MaxFile = 1
INVARIANTS
    UndoExact
    DiskExact
    UndoClean
    FreshSound
    NeverThrows
    DiskUndoable
PROPERTY
    CoinsSpec
CHECK_DEADLOCK FALSE
