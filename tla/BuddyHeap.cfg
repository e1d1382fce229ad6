SPECIFICATION Spec
CONSTANTS
    Total = 31
    BLOCK = 2
    Null = NULL
    Clear = CLEAR
    Data = DATA
    Wild = WILD
    Procs = {sh, a}
    init = sh
    Requests = {2, 4}
    StackSize = 4
    MaxHeld = 2
INVARIANTS
    TreeSound
    FreeIsUsable
    OwnersKnown
CONSTRAINT Bounded
CHECK_DEADLOCK FALSE
