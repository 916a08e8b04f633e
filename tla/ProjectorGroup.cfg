CONSTANTS
    p1 = p1
    p2 = p2
    r1 = r1
    r2 = r2
    Projectors = {p1, p2}
    Runs = {r1, r2}
    Conflicts = TRUE
    BadPayloads = FALSE
    MaxLog = 4
    MaxFaults = 2
SPECIFICATION FairSpec
CHECK_DEADLOCK FALSE
INVARIANTS TypeOK RowsFollowLog RunsMatchReplay
PROPERTIES TerminalRowIsFinal CatchesUp
