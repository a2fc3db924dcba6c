SPECIFICATION FairSpec
CONSTANTS
    c1 = c1
    c2 = c2
    run = run
    Conns = {c1, c2}
    MaxDepth = 1
    Runner = run
INVARIANTS
    SuccessIsClean
    UnmappedUnderNobody
    OnlyLateHijacksSurvive
PROPERTIES
    StopTerminates
CHECK_DEADLOCK FALSE
