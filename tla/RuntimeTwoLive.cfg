CONSTANTS
    w1 = w1
    w2 = w2
    Workers = {w1, w2}
    Invoker = w1
    Responses <- EndTurn
    MaxSteps = 1
    PublishMaxAttempts = 1
    LateWrites = FALSE
    MaxFaults = 2
    MaxCalls = 2
    Reconcilable = TRUE
    ArgsHash <- SameHash
    ToolTimeout <- SameTimeout
    TTL <- SameTTL
    Skew <- SameClock
    StaleGrace = 4
    ExpiryMargin = 1
    PollInterval = 1
    MaxClaimRaces = 2
    RetryAttempts = 1
    OpDelay = 1
    CommandLife = 1
    LastStart = 7
    MaxTime = 10
SPECIFICATION Spec
CHECK_DEADLOCK FALSE
INVARIANTS OneEffect SuccessIsTrue
PROPERTIES ImplementsLoop
