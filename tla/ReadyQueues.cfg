CONSTANTS
    a = a
    b = b
    InitNode = sh
    Procs = {sh, a, b}
    Idle = idle
    Quantum = 1
    Elapsed = {1}
    Uptime = 4
    Priorities = {2}
    Readers = {a}
SPECIFICATION MCSpec
INVARIANTS QueuesSound LeveledByAging
PROPERTIES OrderKept HogsStayHigh ProgramServed
