CONSTANTS
    w1 = w1
    w2 = w2
    w3 = w3
    Workers = {w1, w2}
    Registered <- SameBuild
    SideEffecting = {"open_pr"}
    Responses <- FewResponses
    MaxSteps = 2
    PublishMaxAttempts = 2
    OneAtATime = TRUE
    LateWrites = FALSE
    MaxFaults = 1
    MaxCalls = 3
SPECIFICATION FairSpec
CHECK_DEADLOCK FALSE
PROPERTIES RunTerminates
