SPECIFICATION TableSpec
CONSTANTS
    Nodes = {init, idle, a, b}
    InitNode = init
    IdleNode = idle
    Null = NULL
    PidLimit = 4
    KeyLimit = 2
    PdSize = 4
SYMMETRY Forkable
INVARIANTS
    TypeOK
    PlacementSound
    UniqueIds
    NoneExited
    ForegroundSound
    TimersSound
    FamilyReaderNotStranded
    OnlyReadyLost
