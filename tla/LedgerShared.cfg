CONSTANTS
    c1 = c1
    c2 = c2
    c3 = c3
    c4 = c4
    Callers = {c1, c2, c3, c4}
    Run <- RunOf
    Tool <- ToolOf
    Key <- KeyOf
SPECIFICATION Spec
CHECK_DEADLOCK FALSE
INVARIANTS AbsenceIsTrue ErrorMeansNoEffect EffectsExitIsHonest
PROPERTIES TestsStayFixed FenceView
