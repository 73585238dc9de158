SPECIFICATION FdSpec
CONSTANTS
    Fds = {3, 4}
    Events = {"in", "out"}
    CalmEvents = {"in"}
    MaxWaitNest = 2
    WorkerEvents = {"in"}
INVARIANTS SetsFollowArray
PROPERTY ReadyServed
