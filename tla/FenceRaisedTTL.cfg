CONSTANTS
    w1 = w1
    w2 = w2
    Workers = {w1, w2}
    Reconcilable = TRUE
    ArgsHash <- SameHash
    ToolTimeout <- SameTimeout
    TTL <- RaisedTTL
    Skew <- SameClock
    InvokedAt = 0
    StaleGrace = 3
    ExpiryMargin = 1
    PollInterval = 1
    MaxClaimRaces = 2
    RetryAttempts = 2
    OpDelay = 1
    CommandLife = 1
    Responsive = TRUE
    SharedLedger = FALSE
    LastStart = 8
    MaxTime = 10
SPECIFICATION Spec
CHECK_DEADLOCK FALSE
INVARIANT AtMostOnceEffect
