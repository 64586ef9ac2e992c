\* Two workers, a task queue and a result queue that both overflow.
CONSTANTS
    Workers = {w1, w2}
    MaxQueueSize = 2
    MaxRetryQueue = 1
    OutBound = 1
    MaxFrames = 4
SPECIFICATION FairSpec
INVARIANTS WorkConserving AtMostOneStranded
PROPERTIES ImplementsLedger StopReturns EveryFrameSettles
CHECK_DEADLOCK FALSE
