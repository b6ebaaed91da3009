SPECIFICATION FairSpec
CONSTANTS
    Thread = {"t1", "t2"}
    Pools = {{"t1"}, {"t1", "t2"}}
    Task = {"a", "b"}
    Repeating = {"a"}
    Delta = 1
    MaxAhead = 1
    MaxLate = 1
    NoTask = "none"
INVARIANT TasksExact
INVARIANT AtOrAfter
PROPERTY ServedOrEnded
CHECK_DEADLOCK FALSE
