CONSTANTS
    w1 = w1
    w2 = w2
    w3 = w3
    Workers = {w1, w2, w3}
    Reconcilable = FALSE
    ArgsHash <- RedeployedHash
    ToolTimeout <- SameTimeout
    TTL <- SameTTL
    Skew <- SameClock
    InvokedAt = 0
    StaleGrace = 4
    ExpiryMargin = 1
    PollInterval = 1
    MaxClaimRaces = 2
    RetryAttempts = 1
    OpDelay = 1
    CommandLife = 1
    Responsive = TRUE
    SharedLedger = FALSE
    LastStart = 8
    MaxTime = 10
SPECIFICATION Spec
CHECK_DEADLOCK FALSE
SYMMETRY Peers
INVARIANTS PromiseInv
PROPERTIES CalledUnderFirstClaim KeepsPromise
