CONSTANTS
    Master = m
    Worker = {w1, w2}
    Check = {c1, c2, c3, c4}
    Bad = {c4}
    nBatchSize = 2
SPECIFICATION FairSpec
INVARIANTS
    ResultExact
    NothingLeft
PROPERTY
    MasterReturns
