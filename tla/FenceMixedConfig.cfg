CONSTANTS
    w1 = w1
    w2 = w2
    w3 = w3
    Workers = {w1, w2}
    Reconcilable = TRUE
    ArgsHash <- SameHash
    ToolTimeout <- MixedTimeout
    TTL <- MixedTTL
    Skew <- MixedClock
    InvokedAt = 0
    StaleGrace = 6
    ExpiryMargin = 1
    PollInterval = 1
    MaxClaimRaces = 2
    RetryAttempts = 1
    OpDelay = 1
    CommandLife = 2
    Responsive = TRUE
    SharedLedger = TRUE
    LastStart = 11
    MaxTime = 26
SPECIFICATION FairSpec
CHECK_DEADLOCK FALSE
INVARIANTS AtMostOnceEffect CachedOutcomeIsTrue
PROPERTY RunReturns
