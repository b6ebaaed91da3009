CONSTANTS
    Block = {0, 1, 2, 3, 4, 5}
    Genesis = 0
    Parent <- MCParent
    Work <- MCWork
    BadContext = {5}
    BadConnect = {3}
    MinBlocksToKeep = 1
    Thread = {t1}
    Rpc = {"precious"}
    MaxSeq = 20
    MaxPrecious = 2
    NULL = NULL
SPECIFICATION FairSpec
INVARIANTS
    BestChainActive
    LinkedExact
    CandidatesExact
PROPERTIES
    NoRegression
    PruneLeavesCandidate
    ActivationTerminates
