-------------------------- MODULE MCProcessControl --------------------------
(* ProcessControl on small tables, and the workloads that more processes     *)
(* make affordable.                                                          *)
EXTENDS ProcessControl, TLC

VARIABLE workload   \* which calls the programs keep to

Family == workload = "family"

\* The nodes that fork hands out are interchangeable.
Forkable == Permutations(Nodes \ {InitNode, IdleNode})

\* The calls of the shell, of kill and of the programs that read.
FamilyNext ==
    \/ TimerTick  \/ CtrlC  \/ sysFork  \/ arqSysExit  \/ arqSysKill
    \/ arqSysWait \/ WaitAgain
    \/ arqSysRead \/ ReadAgain \/ addKey
    \/ arqSysSetToForeground \/ arqSysSetToBackground

\* The calls of programs that sleep: one of them can be lost inside sleep, another
\* one get its pid and sleep too.
SleepersNext ==
    \/ TimerTick  \/ sysFork  \/ arqSysExit  \/ arqSysKill
    \/ sleep      \/ SleepEnd

\* One program at a time that may do anything, a family of two, or two sleepers.
TableNext ==
    /\ \/ workload = "any" /\ Next /\ Cardinality(kernel'.allocated) <= 3
       \/ Family /\ FamilyNext
       \/ workload = "sleepers" /\ SleepersNext
    /\ UNCHANGED workload
TableInit == Init /\ workload \in {"any", "family", "sleepers"}
TableSpec == TableInit /\ [][TableNext]_<<vars, workload>>

\* No lost wake-up on the keyboard, in families: other programs can set a
\* process that has just been woken to BLOCKED again.
FamilyReaderNotStranded == Family => ReaderNotStranded

\* The shell after its first read: init has been blocked and picked again, so it
\* is RUNNING.  (At boot the scheduler takes it as READY, and the first tick
\* before it blocks would lose it.)
Started ==
    /\ workload = "any"
    /\ kernel = [pcb |-> [n \in Nodes |->
                    CASE n = InitNode -> [Blank EXCEPT !.id = InitId, !.foreground = TRUE,
                                                       !.state = "RUNNING", !.stdin = TRUE]
                      [] n = IdleNode -> [Blank EXCEPT !.id = IdleId, !.foreground = TRUE]
                      [] OTHER        -> Blank],
                 allocated |-> {InitNode, IdleNode},
                 ready |-> {}, blocked |-> {}, current |-> InitNode,
                 foreground |-> InitNode,
                 timers |-> {}, keys |-> 0, readers |-> {InitNode}]
    /\ cont = [n \in Nodes |-> "user"]

\* runProgram of sh.c with programs that end by themselves: init forks, yields
\* and waits; a program yields, is preempted and exits.
ShellNext ==
    \/ TimerTick
    \/ arqSysYield
    \/ cur = InitNode /\ (sysFork \/ arqSysWait)
    \/ cur # InitNode /\ arqSysExit
    \/ WaitAgain

\* The ready queues serve every process that stays in them; kernel code runs to
\* its end; a program that gets the processor again and again ends.
ShellFairness ==
    /\ WF_vars(WaitAgain)
    /\ \A n \in Nodes \ {IdleNode} : SF_vars(TimerTick /\ cur' = n)
    /\ \A n \in Nodes \ {InitNode, IdleNode} :
        []<>(cur = n) => []<><<cur = n /\ arqSysExit>>_vars

ShellSpec == Started /\ [][ShellNext /\ UNCHANGED workload]_<<vars, workload>> /\ ShellFairness

\* A shell that waits for its programs gets the processor back.
WaitReturns == cont[InitNode] = "wait" ~> cont[InitNode] = "user"

=============================================================================
