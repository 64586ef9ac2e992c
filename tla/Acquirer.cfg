SPECIFICATION FairSpec
CONSTANTS
    MaxRetry = 1
    QueueBound = 1
    StableCount = 2
    StableDist = 2
    Cameras = {"camera1"}
    Centres = {0, 1, 3}
    MaxFrames = 3
INVARIANT MonitorHasBackground
PROPERTY AcquirerStops
CHECK_DEADLOCK FALSE
