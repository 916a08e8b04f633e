CONSTANTS
    t1 = t1
    t2 = t2
    Tools = {t1, t2}
    LocalZone = "EDT"
    MaxSteps = 1
    MaxEvents = 6
    MaxExtras = 1
SPECIFICATION Spec
CHECK_DEADLOCK FALSE
SYMMETRY Symmetry
INVARIANTS ReplayAgrees DigestsAgree UpToSeqIsExact OnlyLastStepOpen NextActionFits
PROPERTIES TerminalIsFinal
