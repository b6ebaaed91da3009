CONSTANTS
    Block = {0, 1, 2, 3, 4, 5, 6, 7, 8}
    Genesis = 0
    Parent <- MCParent
    Work <- MCWork
    BadContext = {7}
    BadConnect = {2}
    MinBlocksToKeep = 1
    Thread = {t1, t2}
    Rpc = {"reconsider"}
    MaxSeq = 20
    MaxPrecious = 2
    NULL = NULL
SPECIFICATION Spec
INVARIANTS
    NoBadBlockActive
    BestIsCandidate
