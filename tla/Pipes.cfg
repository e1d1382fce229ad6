SPECIFICATION Spec
CONSTANTS
    Procs = {sh, a, b}
    Opener = sh
    Writer = a
    Reader = b
    Null = NULL
    BuffSize = 5
    MaxBytes = 3
    PdSize = 3
CHECK_DEADLOCK FALSE
INVARIANTS
    EofSound
    ReaderNotStranded
    ReferencesMatch
    FreedWithLast
PROPERTIES
    IsByteStream
