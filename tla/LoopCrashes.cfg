CONSTANTS
    w1 = w1
    w2 = w2
    w3 = w3
    Workers = {w1, w2, w3}
    Registered <- Redeployed
    SideEffecting = {"open_pr"}
    Responses <- AllResponses
    MaxSteps = 2
    PublishMaxAttempts = 2
    OneAtATime = TRUE
    LateWrites = FALSE
    MaxFaults = 2
    MaxCalls = 2
SPECIFICATION Spec
SYMMETRY Symmetry
CHECK_DEADLOCK FALSE
INVARIANTS TypeOK JournalReplays LiveMatchesJournal EffectIsJournaled ResultIsTrue PromptIsComplete
PROPERTIES ExitIsHonest
