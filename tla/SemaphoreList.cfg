SPECIFICATION ListSpec
CONSTANTS
    Names = {s1, s2, s3}
    Nodes = {n1, n2, n3}
    Null = NULL
    MaxValue = 1
    Callers = {p1}
    SEM_ID = s1
    Loops = 0
CHECK_DEADLOCK FALSE
INVARIANTS
    ListedAreAllocated
PROPERTIES
    TwiceFromLast
    OnlyOpenCutsOff
