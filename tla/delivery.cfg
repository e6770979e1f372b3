SPECIFICATION FairSpec
CONSTANTS
    Records = {1, 2}
    Relays = {w1}
    BatchSize = 2
    MaxAttempts = 3
    Poison = {}
    MaxOutages = 1
    MaxRelayCrashes = 0
    Workers = {k1, k2}
    Ttl = 2
    MaxTime = 1
    MaxThrows = 1
    MaxReplays = 1
    MaxRebalances = 1
    MaxWorkerCrashes = 1
PROPERTIES AtMostOnce EventuallyHandled
CHECK_DEADLOCK FALSE
