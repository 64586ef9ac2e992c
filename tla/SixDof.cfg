\* Clock readings on both sides of one and two refresh intervals (60 s).
CONSTANTS
    Workers = {w1, w2}
    IntervalMin = 1
    Clock = {0, 1, 60, 61, 120}
    MaxFrames = 4
SPECIFICATION Spec
INVARIANTS PoseHasLength PointsGetPose
PROPERTY BaseTimeForward
CHECK_DEADLOCK FALSE
