\* stop() at any moment, with a broker that keeps its connections open.
CONSTANT Limits = {0}
SPECIFICATION StopSpec
PROPERTY StopEndsThread
CHECK_DEADLOCK FALSE
