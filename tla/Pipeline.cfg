SPECIFICATION PipelineSpec
CONSTANTS
    Procs = {sh, a, b}
    Opener = sh
    Writer = a
    Reader = b
    Null = NULL
    BuffSize = 6
    MaxBytes = 4
    PdSize = 3
CHECK_DEADLOCK FALSE
INVARIANTS
    OnlyReaderLost
PROPERTIES
    EndsUnlessLost
