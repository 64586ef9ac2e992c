\* Four frames per lidar; a pass needs two cached frames of each, so passes
\* with pairs, mismatches, fallbacks and evictions all occur.
CONSTANTS
    MatchNs = 2
    MaxCacheFrame = 3
    FrameCache = 1
    QInBound = 1
    QOutBound = 1
    MaxStamp = 3
    FramesA = 4
    FramesB = 4
SPECIFICATION FairSpec
INVARIANTS TypeOK EveryPassOutputs PairingIsMaximum
PROPERTIES OutputMonotone NoMatchableDrop StopTerminates
CHECK_DEADLOCK FALSE
