CONSTANTS
    p1 = p1
    p2 = p2
    r1 = r1
    r2 = r2
    Projectors = {p1, p2}
    Runs = {r1}
    Conflicts = FALSE
    BadPayloads = TRUE
    MaxLog = 2
    MaxFaults = 1
SPECIFICATION FairSpec
CHECK_DEADLOCK FALSE
PROPERTY PoisonStops
