CONSTANTS
    w1 = w1
    w2 = w2
    w3 = w3
    Workers = {w1, w2}
    Registered <- SameBuild
    SideEffecting = {"open_pr"}
    Responses <- FewResponses
    MaxSteps = 2
    PublishMaxAttempts = 2
    OneAtATime = TRUE
    LateWrites = TRUE
    MaxFaults = 2
    MaxCalls = 2
SPECIFICATION Spec
CHECK_DEADLOCK FALSE
INVARIANT JournalReplays
