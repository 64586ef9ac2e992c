SPECIFICATION FairSpec
CONSTANTS
    Blocks = 2
    MinNonZero = 2
    CountCap = 2
    MaxPoints = 2
    TimeMod = 64
    BaseTime = 4
    MaxData = 3
    MaxDev = 1
    QueueBound = 1
INVARIANTS
    TypeOK
    FramesAreSweeps
    BadFrameOnlyIfOvertaken
PROPERTIES
    FramesInOrder
    TimeForward
    SweepsReachAcquirer
CHECK_DEADLOCK FALSE
