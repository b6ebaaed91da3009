CONSTANTS
    Block = {0, 1, 2, 3}
    Genesis = 0
    Parent <- MCParent
    Work <- MCWork
    BadContext = {}
    BadConnect = {}
    MinBlocksToKeep = 1
    Thread = {t1}
    Rpc = {"invalidate"}
    MaxSeq = 20
    MaxPrecious = 2
    NULL = NULL
SPECIFICATION Spec
INVARIANTS
    LinkedExact
