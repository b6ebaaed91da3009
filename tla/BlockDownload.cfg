SPECIFICATION FairSpec
CONSTANTS
    Peer = {"r", "s"}
    Preferred = {"r", "s"}
    Settings <- MCSettings
    Reliable = "r"
    Best = "b3"
    Block = {"g", "b1", "b2", "b3", "x", "y"}
    Genesis = "g"
    Parent <- MCParent
    Work <- MCWork
    BadBlock = {"x"}
    Window = 1
    MaxTransit = 1
    MaxHeaders = 2
    MaxPending = 2
    MaxConnect = 1
    NULL = "none"
INVARIANT InFlightExact
INVARIANT StallersOwe
PROPERTY ChainDownloaded
