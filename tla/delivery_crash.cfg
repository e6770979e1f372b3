SPECIFICATION FairSpec
CONSTANTS
    Records = {1}
    Relays = {w1}
    BatchSize = 2
    MaxAttempts = 3
    Poison = {}
    MaxOutages = 0
    MaxRelayCrashes = 0
    Workers = {k1, k2}
    Ttl = 2
    MaxTime = 1
    MaxThrows = 1
    MaxReplays = 0
    MaxRebalances = 0
    MaxWorkerCrashes = 1
PROPERTIES ImplementsEventFeed
CHECK_DEADLOCK FALSE
