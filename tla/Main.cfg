SPECIFICATION FairSpec
CONSTANTS
    Radars = {"A"}
    Workers = {"w1"}
    OutWorkers = {"solve"}
    QueueBound = 1
    TaskBound = 1
INVARIANT NothingDestroyedInUse
PROPERTY MainReturns
CHECK_DEADLOCK FALSE
