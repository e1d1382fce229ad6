SPECIFICATION Spec
CONSTANTS
    Keys = {"c", "d", "space", "backslash", "seven", "enter", "backspace", "tab", "up"}
    KEYS <- MCKEYS
    SHIFTED <- MCSHIFTED
    LineLength = 8
    Commands = {"c", "d"}
    MAX_ARGS_COUNT = 2
    Children = {p, q}
INVARIANTS
    ArgumentsArrive
    ShellReadsAlone
    WaitsForForeground
    ModifiersReleased
CONSTRAINT Bounded
SYMMETRY Alike
