---------------------------- MODULE ReadyQueues ----------------------------
(***************************************************************************)
(* Who runs next: the six ready queues and the blocked list of scheduler.c *)
(* in their order, quanta, and the aging that chooses the level of a       *)
(* process.  ProcessControl keeps what each process is doing and leaves    *)
(* time out; here it is the other way round.  A process may block, yield,  *)
(* die or be woken at any time, and any process may be the parent that a   *)
(* death wakes, so what holds here holds for every program.                *)
(*                                                                         *)
(* A list is a sequence.  nice on the caller itself, which links the       *)
(* running process into a queue so that two lists share its `next`, is     *)
(* left out: sequences cannot share a tail.                                *)
(***************************************************************************)
EXTENDS Integers, SequencesExt

CONSTANTS Procs,        \* the PCB nodes of processes
          InitNode,     \* the node of init
          Idle,         \* the node of the idle process
          Quantum,      \* QUANTUM_SIZE: milliseconds of aging per level
          Elapsed,      \* milliseconds a process can run between two scheduler calls
          Uptime,       \* what it seems to have run when counterInit is 0
          Priorities,   \* arguments of nice
          Readers       \* processes that a key on the standard input wakes

ASSUME NodesAssumption == InitNode \in Procs /\ Idle \notin Procs /\ Readers \subseteq Procs
ASSUME TimeAssumption  == /\ Quantum \in Nat \ {0}
                          /\ Elapsed \subseteq 0..Quantum   \* there is a tick per quantum
                          /\ Uptime \in Nat
                          /\ Priorities \subseteq 0..5

VARIABLES sched         \* the scheduler's data structures, a Scheds record

vars == <<sched>>

Levels  == 0..5         \* level0Queue .. level5Queue
Blocked == 6            \* blockedList
Lists   == Levels \cup {Blocked}

\* quantums below 1 are all the same to the code: they stop at 0.
Pcbs == [state    : {"READY", "RUNNING", "BLOCKED", "YIELDED", "EXITED"},
         aging    : Nat,        \* agingInterval
         quantums : 0..6,
         priority : Levels]

Scheds == [pcb     : [Procs \cup {Idle} -> Pcbs],
           queue   : [Lists -> Seq(Procs)],
           current : Procs \cup {Idle},
           live    : SUBSET Procs,      \* nodes that are not freed
           zero    : BOOLEAN]           \* counterInit of current is 0

Running == sched.current

-----------------------------------------------------------------------------
(* The lists.                                                               *)

Members(q) == {q[k] : k \in DOMAIN q}
InQueues(s) == UNION {Members(s.queue[i]) : i \in Lists}

\* exists and getEntry find the processes in the lists and the current one.
Found(s) == (InQueues(s) \cup {s.current}) \ {Idle}

Update(s, n, entry) ==
    [s EXCEPT !.pcb = [m \in Procs \cup {Idle} |-> IF m = n THEN entry ELSE s.pcb[m]]]

Restate(s, S, state) ==
    [s EXCEPT !.pcb = [m \in Procs \cup {Idle} |->
        IF m \in S THEN [s.pcb[m] EXCEPT !.state = state] ELSE s.pcb[m]]]

levelFor(aging) ==
    CHOOSE i \in Levels : /\ i = 5 \/ aging <= Quantum * (i + 1)
                          /\ \A j \in Levels : j < i => aging > Quantum * (j + 1)

defaultQuantums(i) == i + 1

\* What insertInQueue writes into the process.
Ranked(entry) ==
    [entry EXCEPT !.quantums = defaultQuantums(levelFor(entry.aging)),
                  !.priority = levelFor(entry.aging)]

\* Mutant: in front.
EnqueueFirst(s, n, i) == [s EXCEPT !.queue = [s.queue EXCEPT ![i] = <<n>> \o @]]

Enqueue(s, n, i) == [s EXCEPT !.queue = [s.queue EXCEPT ![i] = Append(@, n)]]

\* Mutant: the level that was last shown is taken for the level.
insertByPriority(s, n) ==
    Enqueue(Update(s, n, Ranked(s.pcb[n])), n, s.pcb[n].priority)

insertInQueue(s, n) ==
    Enqueue(Update(s, n, Ranked(s.pcb[n])), n, levelFor(s.pcb[n].aging))

insertLast(s, n)           == Enqueue(s, n, 5)
insertInBlockedQueue(s, n) == Enqueue(s, n, Blocked)

\* Mutant: the blocked list is not searched.
removeFromReadyQueue(s, n) ==
    [s EXCEPT !.queue = [i \in Lists |-> IF i = Blocked THEN s.queue[i]
                                         ELSE RemoveFirst(s.queue[i], n)]]

removeFromQueue(s, n) == [s EXCEPT !.queue = [i \in Lists |-> RemoveFirst(s.queue[i], n)]]

\* A node of the blocked list that is not BLOCKED any more goes to the end of the
\* queue of its level.
Unlinked(s, n) ==
    IF s.pcb[n].state = "BLOCKED" THEN s
    ELSE insertInQueue([s EXCEPT !.queue = [s.queue EXCEPT ![Blocked] = RemoveFirst(@, n)]], n)

\* The loop over the blocked list, as it was before the loop.
checkBlocked(s) ==
    LET q == s.queue[Blocked]
        after[k \in 0..Len(q)] == IF k = 0 THEN s ELSE Unlinked(after[k - 1], q[k])
    IN  after[Len(q)]

-----------------------------------------------------------------------------
(* scheduler().                                                             *)

\* The head of the first queue that is not empty, or idle.
PickNext(s) ==
    IF \A i \in Levels : s.queue[i] = << >>
    THEN [Update(s, Idle, [s.pcb[Idle] EXCEPT !.aging = 0, !.quantums = 1,
                                              !.state = "RUNNING"])
            EXCEPT !.current = Idle]
    ELSE LET i == CHOOSE j \in Levels : /\ s.queue[j] # << >>
                                        /\ \A h \in Levels : h < j => s.queue[h] = << >>
             n == Head(s.queue[i])
         IN  [Restate(s, {n}, "RUNNING")
                EXCEPT !.queue = [s.queue EXCEPT ![i] = Tail(@)], !.current = n]

\* A current process that is READY (or freed) is linked nowhere.
nextProcess(s) ==
    LET c == s.current
        rested == Restate(s, {c}, "READY")
    IN  PickNext(CASE c = Idle -> rested
                   [] c # Idle /\ s.pcb[c].state = "BLOCKED" -> insertInBlockedQueue(s, c)
                   [] c # Idle /\ s.pcb[c].state = "RUNNING" -> insertInQueue(rested, c)
                   [] c # Idle /\ s.pcb[c].state = "YIELDED" -> insertLast(rested, c)
                   [] OTHER -> s)

\* Nothing is read again of a freed node but that it is EXITED.
Freed == [state |-> "EXITED", aging |-> 0, quantums |-> 1, priority |-> 0]

\* A parent that is found is set to READY.
deleteProcess(s, n, parent) ==
    Update(Restate([s EXCEPT !.live = @ \ {n}], {parent} \cap Found(s), "READY"), n, Freed)

\* At most one process is EXITED when the scheduler runs.
Dead(s) == {n \in InQueues(s) : s.pcb[n].state = "EXITED"}

ReapQueued(s, parent) ==
    IF Dead(s) = {} THEN s
    ELSE LET d == CHOOSE n \in Procs : n \in Dead(s)
         IN  deleteProcess(removeFromQueue(s, d), d, parent)

checkExited(s, parent) ==
    LET r == ReapQueued(s, parent)
    IN  IF r.pcb[r.current].state = "EXITED"
        THEN nextProcess(checkBlocked(deleteProcess(r, r.current, parent)))
        ELSE r

\* Mutant: the old interval counts in full.
AgeWhole(s, elapsed) ==
    LET entry == s.pcb[s.current]
    IN  IF s.current = Idle THEN s ELSE Update(s, s.current, [entry EXCEPT !.aging =
            @ + (IF s.zero THEN Uptime ELSE elapsed)])

\* Half of the old interval, plus the time since the process was picked; nobody
\* looks at the aging of idle.
Age(s, elapsed) ==
    LET entry == s.pcb[s.current]
    IN  IF s.current = Idle THEN s ELSE Update(s, s.current, [entry EXCEPT !.aging =
            @ \div 2 + (IF s.zero THEN Uptime ELSE elapsed)])

\* Mutant: only who blocks or yields leaves the processor.
ChargeNothing(s) ==
    IF s.current = Idle \/ s.pcb[s.current].state \in {"BLOCKED", "YIELDED"}
    THEN nextProcess(s) ELSE s

\* quantums-- and the test after it; a process picked by checkExited is charged too.
ChargeQuantum(s) ==
    LET c == s.current
        t == Update(s, c, [s.pcb[c] EXCEPT !.quantums = IF @ = 0 THEN 0 ELSE @ - 1])
    IN  IF t.pcb[c].quantums < 1 \/ t.pcb[c].state \in {"BLOCKED", "YIELDED"}
        THEN nextProcess(t) ELSE t

Sleepers(s) == {n \in Found(s) : s.pcb[n].state = "BLOCKED"}

\* updateTimers: the time of a sleeper, or of none, has come.
AfterTimers(s) ==
    {checkBlocked(Restate(t, due, "READY")) :
        t \in {Age(s, elapsed) : elapsed \in Elapsed},
        due \in {{}} \cup {{n} : n \in Sleepers(s)}}

\* What it may make of the data structures, whoever is the parent of a dead one.
scheduler(s) ==
    {[ChargeQuantum(r) EXCEPT !.zero = FALSE] :
        r \in {checkExited(t, parent) : t \in AfterTimers(s), parent \in Procs}}

\* `int 20h` with the data structures as the handler leaves them.
Int20h(s) == sched' \in scheduler(s)

-----------------------------------------------------------------------------
(* Who calls it.                                                            *)

TimerTick == Int20h(sched)

InProcess == Running \in Procs

\* setProcessState of the caller, then `int 20h`: sleep, read and wait block,
\* yield yields, exit ends.
Leave(state) == InProcess /\ Int20h(Restate(sched, {Running}, state))

Block       == Leave("BLOCKED")
arqSysYield == Leave("YIELDED")
arqSysExit  == Running # InitNode /\ Leave("EXITED")

\* A process is set to another state by another one, in whatever list it is.
arqSysBlock   == InProcess /\ \E n \in Found(sched) \ {InitNode} :
                                Int20h(Restate(sched, {n}, "BLOCKED"))
arqSysUnblock == InProcess /\ \E n \in Found(sched) \ {InitNode} :
                                Int20h(Restate(sched, {n}, "READY"))
arqSysKill    == InProcess /\ \E n \in Found(sched) \ {InitNode} :
                                Int20h(Restate(sched, {n}, "EXITED"))

\* addKey on Ctrl-C, in the interrupt of whoever runs, idle included: the process in
\* front, which can be any, ends.  (For init it is only the call, as in TimerTick.)
CtrlC == \E n \in Found(sched) \ {InitNode} : Int20h(Restate(sched, {n}, "EXITED"))

\* addKey: a reader, running or not, is set to READY; no scheduler call follows.
WakeReader == \E n \in Found(sched) \cap Readers : sched' = Restate(sched, {n}, "READY")

agingOf(priority) == Quantum * CASE priority = 0 -> 1  [] priority = 1 -> 2
                                 [] priority = 2 -> 4  [] priority = 3 -> 8
                                 [] priority = 4 -> 16 [] priority = 5 -> 32

changePriority(n, priority) ==
    LET entry == [sched.pcb[n] EXCEPT !.aging = agingOf(priority), !.priority = priority,
                                      !.quantums = defaultQuantums(priority)]
        s == Update(removeFromQueue(sched, n), n, entry)
    IN  /\ InProcess
        /\ n \in InQueues(sched) \ {InitNode, Running}
        /\ sched' = IF entry.state = "BLOCKED" THEN insertInBlockedQueue(s, n)
                    ELSE insertInQueue(s, n)

arqSysPriority == \E n \in Procs, priority \in Priorities : changePriority(n, priority)

\* The child is as old as its parent and goes to the end of its level, in the
\* state of its parent.
sysFork ==
    /\ InProcess
    /\ \E n \in Procs \ sched.live :
        sched' = [insertInQueue(Update(sched, n, sched.pcb[Running]), n)
                    EXCEPT !.live = @ \cup {n}]

sysExecve ==
    /\ InProcess
    /\ sched' = [Update(sched, Running, [sched.pcb[Running] EXCEPT
                            !.aging = 0, !.priority = 0, !.quantums = 1])
                   EXCEPT !.zero = TRUE]

-----------------------------------------------------------------------------
(* The specification.                                                       *)

\* createInit and the first call of scheduler, which takes init as it is.
Init == sched = [pcb     |-> [n \in Procs \cup {Idle} |->
                                [Freed EXCEPT !.state = IF n \in {InitNode, Idle} THEN "READY" ELSE @]],
                 queue   |-> [i \in Lists |-> << >>],
                 current |-> InitNode,
                 live    |-> {InitNode},
                 zero    |-> TRUE]

Next ==
    \/ TimerTick      \/ WakeReader     \/ CtrlC
    \/ Block          \/ arqSysYield    \/ arqSysExit
    \/ arqSysBlock    \/ arqSysUnblock  \/ arqSysKill
    \/ arqSysPriority \/ sysFork        \/ sysExecve

\* The timer interrupt comes again and again.
Spec == Init /\ [][Next]_vars /\ WF_vars(TimerTick)

-----------------------------------------------------------------------------
(* Properties.                                                              *)

\* Every field holds a value of its C type; lists hold processes.
TypeOK == sched \in Scheds

\* In how many lists, and how often, a process is linked.
Places(n) == UNION {{<<i, k>> : k \in {j \in DOMAIN sched.queue[i] : sched.queue[i][j] = n}} :
                        i \in Lists}

\* Whatever the order of forks, deaths, wake-ups and nice: a live process is
\* current or linked once in one list, never twice; a dead one is linked
\* nowhere and does not run; only a READY process can have fallen out of all.
QueuesSound ==
    /\ TypeOK
    /\ \A n \in Procs \ {Running} : Cardinality(Places(n)) <= 1
    /\ \A n \in Procs : Places(n) # {} \/ Running = n => n \in sched.live
    /\ Places(Running) = {}
    /\ \A n \in sched.live \ {Running} : Places(n) = {} => sched.pcb[n].state = "READY"
    /\ \A n \in sched.live : sched.pcb[n].state # "EXITED"

\* A ready process stands where its aging says, and shows that as its priority;
\* only the lowest level holds others, which have yielded.
LeveledByAging ==
    \A i \in 0..4 : \A n \in Members(sched.queue[i]) :
        levelFor(sched.pcb[n].aging) = i /\ sched.pcb[n].priority = i

Before(q, m, n) == \E j, k \in DOMAIN q : j < k /\ q[j] = m /\ q[k] = n

Niced(n)     == \E priority \in Priorities : changePriority(n, priority)
SomeoneDies  == ~(sched.live \subseteq sched'.live)

\* Whoever waits in a level keeps his place: no step puts anybody in front of him, by
\* a tick, a wake-up, a fork or nice.  Only he himself can lose it, to the end of the
\* level: when he is given another priority, or when the current process has died and
\* checkExited picks him, for then he is charged a quantum at once.
OrderKept ==
    [][\A i \in Levels : \A n \in Procs, m \in Members(sched.queue[i]) :
        Before(sched'.queue[i], n, m) /\ ~Before(sched.queue[i], n, m) =>
            \/ Niced(m)
            \/ SomeoneDies /\ m = Last(sched'.queue[i])]_vars

\* A process that only computes stays in the two highest levels: halving bounds
\* the aging by two quanta, unless nice sets it or execve makes the next
\* interval reach back to the start of the machine.
HogsStayHigh ==
    [][\A n \in Procs :
        (/\ n \in sched.live \cap sched'.live
         /\ sched.pcb[n].aging <= 2 * Quantum
         /\ sched'.pcb[n].aging > 2 * Quantum) =>
            \/ sched.zero /\ n = Running
            \/ Niced(n)]_vars

\* The level of the queue that holds a ready process; 7 when none does.
Standing(n) == IF \E i \in Levels : n \in Members(sched.queue[i])
               THEN CHOOSE i \in Levels : n \in Members(sched.queue[i]) ELSE 7
Overtaken(n) == Running # Idle /\ levelFor(sched.pcb[Running].aging) < Standing(n)

\* A process waits for ever in a ready queue only if processes of a higher level
\* keep coming, or it is niced, or others die, again and again.
ServedUnlessOvertaken(n) ==
    <>[](Standing(n) \in Levels) =>
        \/ []<>Overtaken(n)
        \/ []<><<Niced(n)>>_vars
        \/ []<><<SomeoneDies>>_vars

=============================================================================
