CONSTANTS
    w1 = w1
    w2 = w2
    w3 = w3
    Workers = {w1, w2}
    Reconcilable = TRUE
    ArgsHash <- SameHash
    ToolTimeout <- SameTimeout
    TTL <- SameTTL
    Skew <- SameClock
    InvokedAt = 0
    StaleGrace = 4
    ExpiryMargin = 1
    PollInterval = 1
    MaxClaimRaces = 2
    RetryAttempts = 2
    OpDelay = 1
    CommandLife = 2
    Responsive = TRUE
    SharedLedger = FALSE
    LastStart = 7
    MaxTime = 12
SPECIFICATION Spec
CHECK_DEADLOCK FALSE
SYMMETRY Symmetry
INVARIANTS TypeOK PromiseInv AtMostOnceEffect CachedOutcomeIsTrue
PROPERTIES ExecuteHoldsClaim ClaimIsRespected KeepsPromise
