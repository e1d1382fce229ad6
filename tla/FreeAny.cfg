SPECIFICATION Spec
CONSTANTS
    Total = 16
    BlockSize = 3
    Requests = {1, 6}
    MaxLive = 4
    Null = NULL
    Data = DATA
CHECK_DEADLOCK FALSE
INVARIANTS
    AllocatedDisjoint
