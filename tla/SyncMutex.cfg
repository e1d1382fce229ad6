SPECIFICATION SyncSpec
CONSTANTS
    Names = {s1}
    Nodes = {n1, n2, n3, n4}
    Null = NULL
    MaxValue = 7
    Callers = {p1, p2, p3}
    SEM_ID = s1
    Loops = 2
CHECK_DEADLOCK FALSE
INVARIANTS
    MutualExclusion
