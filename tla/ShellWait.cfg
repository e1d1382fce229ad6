SPECIFICATION ShellSpec
CONSTANTS
    Nodes = {init, idle, a, b}
    InitNode = init
    IdleNode = idle
    Null = NULL
    PidLimit = 6
    KeyLimit = 1
    PdSize = 4
PROPERTIES
    WaitReturns
