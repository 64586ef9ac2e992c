\* Two frames, of either lidar alone.
CONSTANTS
    Workers = {w1, w2}
    IntervalMin = 1
    Clock = {0, 1}
    MaxFrames = 2
SPECIFICATION Spec
INVARIANT BAgainstB
CHECK_DEADLOCK FALSE
