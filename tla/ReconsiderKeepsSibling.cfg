CONSTANTS
    Block = {0, 1, 2, 3, 7}
    Genesis = 0
    Parent <- MCParent
    Work <- MCWork
    BadContext = {}
    BadConnect = {}
    MinBlocksToKeep = 1
    Thread = {t1}
    Rpc = {"invalidate", "reconsider"}
    MaxSeq = 20
    MaxPrecious = 2
    NULL = NULL
SPECIFICATION Spec
INVARIANTS
    FailedHasCause
