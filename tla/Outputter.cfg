\* Queues of one place, so that all of them overflow, and one warning.
CONSTANTS
    Results = {1, 2}
    SixBound = 1
    SolveMax = 2
    MqttMax = 2
    ErrMax = 2
    MaxHist = 1
    MaxWarnings = 1
SPECIFICATION FairSpec
PROPERTIES ImplementsPipe ResultsGetThrough ShutdownCompletes
CHECK_DEADLOCK FALSE
