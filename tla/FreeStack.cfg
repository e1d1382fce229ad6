SPECIFICATION StackSpec
CONSTANTS
    Total = 24
    BlockSize = 3
    Requests = {1, 3, 6}
    MaxLive = 6
    Null = NULL
    Data = DATA
INVARIANTS
    AllocatedDisjoint
    ListCoversMemory
    AllMerged
