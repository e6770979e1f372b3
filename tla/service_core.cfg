SPECIFICATION CoreSpec
CONSTANTS
    Calls = {c1, c2, c3, c4}
    FailureThreshold = 3
    SuccessThreshold = 2
    ResetTimeout = 2
    Records = {1, 2, 3}
    Relays = {w1, w2}
    BatchSize = 2
    MaxAttempts = 2
    Poison = {2}
    MaxOutages = 2
    MaxCrashes = 1
    Attempts = 10
    BaseDelay = 1
    MaxDelay = 10
    WakeTimes = {0, 30, 56, 70}
INVARIANTS CountersBelowThreshold
PROPERTIES StateCycle ComesBack EventuallyPublished
