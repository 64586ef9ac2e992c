\* No limit on the attempts (0, which works like the default -1), and one that is reached.
CONSTANT Limits = {0, 2}
SPECIFICATION RetrySpec
INVARIANTS ClientsBalanced PublishUsesLiveClient
PROPERTY Reconnects
CHECK_DEADLOCK FALSE
