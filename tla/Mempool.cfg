CONSTANTS
    Tx <- MCTx
    Vin <- MCVin
    CoinBase <- MCCoinBase
    Base <- MCBase
    Size <- MCSize
    Fee <- MCFee
    LockTime <- MCLockTime
    Replaceable = {"a", "b"}
    LowPriority = {"a", "b"}
    Old = {"a"}
    Blocks <- MCBlocks
    Maturity = 2
    MaxAncestors = 3
    MaxAncestorSize = 4
    MaxDescendants = 3
    MaxDescendantSize = 4
    MaxReplaced = 3
    MaxMempool = 4
    Incremental = 1000
    Prioritised = {"b", "d"}
    Deltas <- MCDeltas
    MaxDelta = 2
SPECIFICATION Spec
INVARIANTS
    PoolExact
    TotalsFollowLinks
    InputsAvailable
    NextBlockValid
PROPERTIES
    NoCheapReentry
