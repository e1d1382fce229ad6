---------------------------- MODULE ProcessControl ----------------------------
(***************************************************************************)
(* The process table of the kernel: PCB nodes, the ready queues, the       *)
(* blocked list, the current and the foreground process, the sleep timers, *)
(* and every system call and interrupt handler that moves a process        *)
(* between them (scheduler.c, syscallsDispatcher.c, timer.c, keyboard.c).  *)
(*                                                                         *)
(* All gates are interrupt gates, so kernel code runs with interrupts off  *)
(* from the trap to the `int 20h` that calls the scheduler: one handler,   *)
(* up to and including its scheduler call, is one action.  A system call   *)
(* that goes on after `int 20h` (wait, sleep, read) leaves a continuation  *)
(* in `cont`; when the process is picked again that continuation is the    *)
(* only thing that can run.                                                *)
(*                                                                         *)
(* Abstracted here: time (quantum and aging counters, timer deadlines),    *)
(* hence the order of the ready queues, and the bytes of the standard      *)
(* input.                                                                  *)
(***************************************************************************)
EXTENDS Naturals, FiniteSets

CONSTANTS Nodes,      \* the PCB nodes allocPCB can hand out
          InitNode,   \* the node of init, the shell
          IdleNode,   \* the node of the idle process
          Null,       \* the NULL pointer
          PidLimit,   \* bound: no process gets a larger pid
          KeyLimit,   \* characters the standard input holds before it refuses one
          PdSize      \* PD_SIZE: references a buffer can record

NoId   == 0           \* "no process": an empty childsIds entry, init's parent
InitId == 1
IdleId == 2

ASSUME NodesAssumption == /\ {InitNode, IdleNode} \subseteq Nodes
                          /\ InitNode # IdleNode
                          /\ Null \notin Nodes
ASSUME LimitsAssumption == /\ PidLimit \in Nat /\ PidLimit >= IdleId
                           /\ KeyLimit \in Nat \ {0}
                           /\ PdSize \in Nat \ {0}

VARIABLES kernel,     \* the data structures of the kernel, a Kernels record
          cont        \* where each process continues when it is picked

vars == <<kernel, cont>>

Pids   == 1..PidLimit

Pcbs == [id            : {NoId} \cup Pids,
         state         : {"READY", "RUNNING", "BLOCKED", "YIELDED", "EXITED"},
         foreground    : BOOLEAN,
         manualBlocked : BOOLEAN,
         parentId      : {NoId} \cup Pids,
         childsIds     : SUBSET Pids,
         stdin         : BOOLEAN]       \* some pdTable entry is the standard input

\* A timer names its sleeper and, apart from that, the sleeper's pid; it is the
\* turn-th of the timers with this pid in the list.
Timers == [node : Nodes, pid : {NoId} \cup Pids, turn : Nat \ {0}]
TimerLists == {T \in SUBSET Timers : IsFiniteSet(T)}

Kernels == [pcb        : [Nodes -> Pcbs],
            allocated  : SUBSET Nodes,  \* nodes not given back by freePCB
            ready      : SUBSET Nodes,  \* nodes linked in level0Queue .. level5Queue
            blocked    : SUBSET Nodes,  \* nodes linked in blockedList
            current    : Nodes,
            foreground : Nodes \cup {Null},
            timers     : TimerLists,    \* linked in the list of timer.c
            keys       : 0..KeyLimit,   \* characters waiting in the standard input
            readers    : SUBSET Nodes]  \* stdin.references

\* A node of zeroed memory.
Blank == [id |-> NoId, state |-> "READY", foreground |-> FALSE, manualBlocked |-> FALSE,
          parentId |-> NoId, childsIds |-> {}, stdin |-> FALSE]

Conts == {"user", "wait", "sleep", "read", "fault"}

-----------------------------------------------------------------------------
(* Looking processes up.                                                    *)

Placed(k) == k.ready \cup k.blocked \cup {k.current}

Exists(k, pid) == \E n \in Placed(k) \cup {IdleNode} : k.pcb[n].id = pid

Holders(k, pid) == {n \in Placed(k) : k.pcb[n].id = pid}

getEntry(k, pid) == IF Holders(k, pid) = {} THEN Null
                    ELSE CHOOSE n \in Nodes : n \in Holders(k, pid)

\* Mutant: the pid of idle is not skipped.
unusedIDWithIdle(k) ==
    LET ids == {k.pcb[n].id : n \in Placed(k)}
    IN  (CHOOSE m \in ids : \A i \in ids : i <= m) + 1

\* One more than the largest pid in the queues; the pid of idle is skipped.
unusedID(k) ==
    LET ids == {k.pcb[n].id : n \in Placed(k)}
        max == CHOOSE m \in ids : \A i \in ids : i <= m
    IN  IF max + 1 = IdleId THEN IdleId + 1 ELSE max + 1

\* Mutant: a child that has gone to the background still counts as open.
hasChilds(k, n) ==
    \E c \in Nodes : k.pcb[c].id \in k.pcb[n].childsIds /\ k.pcb[c].state # "EXITED"

hasOpenChilds(k, n) ==
    \E c \in Placed(k) : /\ k.pcb[c].id \in k.pcb[n].childsIds
                         /\ k.pcb[c].state # "EXITED"
                         /\ k.pcb[c].foreground

-----------------------------------------------------------------------------
(* Changing the state of processes.                                         *)

Update(k, n, entry) ==
    [k EXCEPT !.pcb = [m \in Nodes |-> IF m = n THEN entry ELSE k.pcb[m]]]

Restate(k, S, state, manual) ==
    [k EXCEPT !.pcb = [n \in Nodes |->
        IF n \in S THEN [k.pcb[n] EXCEPT !.state = state, !.manualBlocked = manual]
        ELSE k.pcb[n]]]

\* The processes of S that setProcessState does not refuse to put in `state`.
Settable(k, S, state) ==
    {n \in S : /\ Exists(k, k.pcb[n].id)
               /\ ~(k.pcb[n].id <= IdleId /\ state = "EXITED")}

setProcessState(k, S, state) == Restate(k, Settable(k, S, state), state, FALSE)

setProcessToForeground(k, n) ==
    [Update(k, n, [k.pcb[n] EXCEPT !.foreground = TRUE])
        EXCEPT !.foreground = IF @ = Null THEN n ELSE @]

\* Mutant: the foreground pointer stays on the process.
setProcessToBackgroundOnly(k, n) == Update(k, n, [k.pcb[n] EXCEPT !.foreground = FALSE])

setProcessToBackground(k, n) ==
    [Update(k, n, [k.pcb[n] EXCEPT !.foreground = FALSE])
        EXCEPT !.foreground = IF @ # Null /\ k.pcb[@].id = k.pcb[n].id THEN Null ELSE @]

Count(T, pid) == Cardinality({t \in T : t.pid = pid})

\* insertInList, at the end.
Link(T, n, pid) == T \cup {[node |-> n, pid |-> pid, turn |-> 1 + Count(T, pid)]}

\* removeFromList, once for each timer of `gone`.  It goes by the pid and takes the
\* first timer that has it, whosever that is: a sleeper that has fallen out of all
\* lists leaves its timer behind, and its pid is handed out again.
Unlink(T, gone) ==
    {[t EXCEPT !.turn = @ - Count(gone, t.pid)] :
        t \in {u \in T : u.turn > Count(gone, u.pid)}}

\* The sleepers to wake: `due` are those whose deadline has passed.
Ringing(k, due) ==
    {n \in due : /\ \E t \in k.timers : t.node = n
                 /\ k.pcb[n].state # "EXITED"
                 /\ ~k.pcb[n].manualBlocked}

\* Mutant: the timers of dead processes stay linked.
updateTimersOfAll(k, due) == setProcessState(k, Ringing(k, due), "READY")

\* The timers of the dead go.  (Each of them is freed, even when removeFromList has
\* unlinked another one; what allocTimer then does to the list is left out: the
\* timers keep what they hold.)
updateTimers(k, due) ==
    [setProcessState(k, Ringing(k, due), "READY") EXCEPT
        !.timers = Unlink(@, {t \in @ : k.pcb[t.node].state = "EXITED"})]

checkBlocked(k) ==
    LET woken == {n \in k.blocked : k.pcb[n].state # "BLOCKED"}
    IN  [k EXCEPT !.blocked = @ \ woken, !.ready = @ \cup woken]

-----------------------------------------------------------------------------
(* The end of a process.                                                    *)

closePDs(k, n) ==
    IF k.pcb[n].stdin
    THEN [Update(k, n, [k.pcb[n] EXCEPT !.stdin = FALSE])
            EXCEPT !.readers = {r \in @ : k.pcb[r].id # k.pcb[n].id}]
    ELSE k

\* The children it recorded get its parent; its parent does not record them.
\* (Where getEntry gives NULL the code reads and writes address 0, where the
\* descriptors of the interrupts lie: it finds no pid and no state there, as if
\* there were nobody.)
checkChilds(k, n) ==
    LET parent == getEntry(k, k.pcb[n].parentId)
        heir   == IF parent = Null THEN NoId ELSE k.pcb[parent].id
        orphan == {c \in Placed(k) : k.pcb[c].id \in k.pcb[n].childsIds}
    IN  [k EXCEPT !.pcb = [c \in Nodes |->
            IF c \in orphan THEN [k.pcb[c] EXCEPT !.parentId = heir] ELSE k.pcb[c]]]

\* Mutant: the parent is not woken.
forgetChild(k, n) ==
    LET parent == getEntry(k, k.pcb[n].parentId)
    IN  IF parent = Null THEN k
        ELSE Update(k, parent, [k.pcb[parent] EXCEPT !.childsIds = @ \ {k.pcb[n].id}])

setParentReady(k, n) ==
    LET parent == getEntry(k, k.pcb[n].parentId)
    IN  IF parent = Null THEN k
        ELSE setProcessState(Update(k, parent,
                                 [k.pcb[parent] EXCEPT !.childsIds = @ \ {k.pcb[n].id}]),
                             {parent}, "READY")

\* The node keeps what it holds: references of the standard input and timers may
\* still lead to it.
freePCB(k, n) == [k EXCEPT !.allocated = @ \ {n}]

deleteProcess(k, n, due) ==
    LET k1 == [k EXCEPT !.foreground = IF @ = n THEN Null ELSE @]
        k2 == updateTimers(k1, due)
        k3 == closePDs(k2, n)
        k4 == checkChilds(k3, n)
    IN  freePCB(setParentReady(k4, n), n)

-----------------------------------------------------------------------------
(* The scheduler.  Which ready process runs next depends on the queues and  *)
(* on time, so nextProcess and its callers give the set of kernels that may *)
(* follow.                                                                  *)

\* Mutant: the current process is always put back into a ready queue.
RequeueReady(k) ==
    [Update(k, k.current, [k.pcb[k.current] EXCEPT !.state = "READY"])
        EXCEPT !.ready = @ \cup {k.current}]

\* Mutant: a blocked process is not linked anywhere.
RequeueRunning(k) ==
    LET c == k.current
    IN  IF c # IdleNode /\ k.pcb[c].state \in {"RUNNING", "YIELDED"}
        THEN [Update(k, c, [k.pcb[c] EXCEPT !.state = "READY"])
                EXCEPT !.ready = @ \cup {c}]
        ELSE k

\* Where nextProcess leaves the current process: a READY one goes nowhere.
Requeue(k) ==
    LET c == k.current
        s == k.pcb[c].state
        rested == Update(k, c, [k.pcb[c] EXCEPT !.state = "READY"])
    IN  CASE c = IdleNode -> rested
          [] c # IdleNode /\ s = "BLOCKED" -> [k EXCEPT !.blocked = @ \cup {c}]
          [] c # IdleNode /\ s \in {"RUNNING", "YIELDED"} ->
                [rested EXCEPT !.ready = @ \cup {c}]
          [] OTHER -> k

Dispatch(k, n) ==
    [Update(k, n, [k.pcb[n] EXCEPT !.state = "RUNNING"])
        EXCEPT !.ready = @ \ {n}, !.current = n,
               !.foreground = IF k.pcb[n].foreground /\ n # IdleNode THEN n ELSE @]

nextProcess(k) ==
    LET r == Requeue(k)
    IN  {Dispatch(r, n) : n \in IF r.ready = {} THEN {IdleNode} ELSE r.ready}

\* checkExited walks the queues, then looks at the current process.  At most
\* one process is EXITED when it runs (OneExited), so one deletion is enough.
Dead(k) == {n \in k.ready \cup k.blocked : k.pcb[n].state = "EXITED"}

ReapQueued(k, due) ==
    IF Dead(k) = {} THEN k
    ELSE LET d == CHOOSE n \in Nodes : n \in Dead(k)
         IN  deleteProcess([k EXCEPT !.ready = @ \ {d}, !.blocked = @ \ {d}], d, due)

\* Mutant: the current process is not looked at.
checkExitedQueues(k, due) == {ReapQueued(k, due)}

checkExited(k, due) ==
    LET r == ReapQueued(k, due)
    IN  IF r.pcb[r.current].state = "EXITED"
        THEN nextProcess(checkBlocked(deleteProcess(r, r.current, due)))
        ELSE {r}

\* quantums-- and the test after it: whether the quantum is over is time; the
\* quantum of idle always is.
CheckQuantum(k) ==
    nextProcess(k) \cup
    (IF k.current = IdleNode \/ k.pcb[k.current].state \in {"BLOCKED", "YIELDED"}
     THEN {} ELSE {k})

scheduler(k, due) ==
    UNION {CheckQuantum(s) : s \in checkExited(checkBlocked(updateTimers(k, due)), due)}

\* `int 20h` with the data structures as the handler leaves them.
Int20h(k) == \E due \in SUBSET {t.node : t \in k.timers} : kernel' \in scheduler(k, due)

-----------------------------------------------------------------------------
(* Who can act.  Interrupts are on only in user code (and in hlt).          *)

cur        == kernel.current
InUser     == cont[cur] = "user"
InSyscall  == InUser /\ cur # IdleNode
Goes(c)    == cont' = [cont EXCEPT ![cur] = c]
Stays      == UNCHANGED cont

TimerTick == InUser /\ Int20h(kernel) /\ Stays

sysFork ==
    /\ InSyscall
    /\ unusedID(kernel) <= PidLimit
    /\ \E n \in Nodes \ kernel.allocated :
        LET me == kernel.pcb[cur]
            id == unusedID(kernel)
            \* childsIds keeps what the node held before
            child  == [me EXCEPT !.id = id, !.parentId = me.id,
                                 !.childsIds = kernel.pcb[n].childsIds]
            parent == [me EXCEPT !.childsIds = @ \cup {id}]
        IN  /\ kernel' = [Update(Update(kernel, n, child), cur, parent)
                  EXCEPT !.allocated = @ \cup {n},
                         !.ready     = @ \cup {n},
                         !.readers   = IF me.stdin /\ Cardinality(@) < PdSize
                                       THEN @ \cup {n} ELSE @]
            /\ cont' = [cont EXCEPT ![n] = "user"]

arqSysExit == InSyscall /\ Int20h(setProcessState(kernel, {cur}, "EXITED")) /\ Stays

arqSysKill ==
    /\ InSyscall
    /\ \E n \in Placed(kernel) :
        /\ kernel.pcb[n].id > IdleId
        /\ Int20h(setProcessState(kernel, {n}, "EXITED"))
    /\ Stays

\* init and idle are left alone, but the caller still gives up the processor.
ManualTargets(n) == IF kernel.pcb[n].id <= IdleId THEN {} ELSE {n}

arqSysBlock ==
    /\ InSyscall
    /\ \E n \in Placed(kernel) : Int20h(Restate(kernel, ManualTargets(n), "BLOCKED", TRUE))
    /\ Stays

arqSysUnblock ==
    /\ InSyscall
    /\ \E n \in Placed(kernel) : Int20h(Restate(kernel, ManualTargets(n), "READY", FALSE))
    /\ Stays

arqSysChangeState ==
    /\ InSyscall
    /\ \E n \in Placed(kernel) :
        LET s == kernel.pcb[n].state
        IN  \/ s = "BLOCKED" /\ Int20h(setProcessState(kernel, {n}, "READY"))
            \/ s = "READY"   /\ Int20h(setProcessState(kernel, {n}, "BLOCKED"))
            \/ s \notin {"BLOCKED", "READY"} /\ Int20h(kernel)
    /\ Stays

\* changePriority moves the process to the queue its state asks for.  Called for
\* the caller itself it links the current process into a queue, where the sets
\* of this module cannot follow: left out.
arqSysPriority ==
    /\ InSyscall
    /\ \E n \in kernel.ready \cup kernel.blocked :
        /\ kernel.pcb[n].id > IdleId
        /\ kernel' = IF kernel.pcb[n].state = "BLOCKED"
                     THEN [kernel EXCEPT !.ready = @ \ {n}, !.blocked = @ \cup {n}]
                     ELSE [kernel EXCEPT !.ready = @ \cup {n}, !.blocked = @ \ {n}]
    /\ Stays

arqSysYield == InSyscall /\ Int20h(setProcessState(kernel, {cur}, "YIELDED")) /\ Stays

arqSysSetToForeground ==
    InSyscall /\ kernel' = setProcessToForeground(kernel, cur) /\ Stays

arqSysSetToBackground ==
    InSyscall /\ kernel' = setProcessToBackground(kernel, cur) /\ Stays

\* A process blocks itself inside a system call and will go on at `c`.
BlockAt(k, c) == Int20h(setProcessState(k, {cur}, "BLOCKED")) /\ Goes(c)

\* The loop of wait: `k` is the kernel at its test.
WaitLoop(k) ==
    \/ hasOpenChilds(k, cur) /\ BlockAt(k, "wait")
    \/ /\ ~hasOpenChilds(k, cur)
       /\ kernel' = setProcessToForeground(k, cur)
       /\ Goes("user")

arqSysWait == InSyscall /\ WaitLoop(setProcessToBackground(kernel, cur))
WaitAgain  == cont[cur] = "wait" /\ WaitLoop(kernel)

sleep ==
    /\ InSyscall
    /\ BlockAt([kernel EXCEPT !.timers = Link(@, cur, kernel.pcb[cur].id)], "sleep")

SleepEnd ==
    /\ cont[cur] = "sleep"
    /\ kernel' = [kernel EXCEPT !.timers = Unlink(@, {[pid |-> kernel.pcb[cur].id]})]
    /\ Goes("user")

-----------------------------------------------------------------------------
(* The standard input and the keyboard.                                     *)

\* Without data, block; with data, take some of it (none if it is an EOF that
\* other characters follow).
ReadLoop(c) ==
    \/ kernel.keys = 0 /\ BlockAt(kernel, c)
    \/ /\ kernel.keys > 0
       /\ \E left \in 0..kernel.keys : kernel' = [kernel EXCEPT !.keys = left]
       /\ Goes("user")

arqSysRead == InSyscall /\ kernel.pcb[cur].stdin /\ ReadLoop("read")
ReadAgain  == cont[cur] = "read" /\ ReadLoop("read")

\* sysClosePd forgets the buffer but only for a pipe its reference.
arqSysClosePd ==
    /\ InSyscall
    /\ kernel.pcb[cur].stdin
    /\ kernel' = Update(kernel, cur, [kernel.pcb[cur] EXCEPT !.stdin = FALSE])
    /\ Stays

\* Mutant: nobody is woken.
addKeySilently ==
    /\ InUser
    /\ kernel.keys < KeyLimit
    /\ kernel' = [kernel EXCEPT !.keys = @ + 1]
    /\ Stays

\* Mutant: the capacity of the buffer is not checked.
addKeyUnbounded ==
    /\ InUser
    /\ kernel.keys <= KeyLimit
    /\ kernel' = [kernel EXCEPT !.keys = @ + 1]
    /\ Stays

addKey ==
    /\ InUser
    /\ kernel.keys < KeyLimit
    /\ LET wake == IF kernel.keys = 0
                   THEN {n \in kernel.readers : kernel.pcb[n].foreground} ELSE {}
       IN  kernel' = [setProcessState(kernel, wake, "READY") EXCEPT !.keys = @ + 1]
    /\ Stays

CtrlC ==
    /\ InUser
    /\ kernel.foreground # Null
    /\ Int20h(setProcessState(kernel, {kernel.foreground}, "EXITED"))
    /\ Stays

\* "Press any key to continue": one character is read, then the process that
\* faulted is killed.
FaultExit ==
    /\ \E left \in {kernel.keys, IF kernel.keys = 0 THEN 0 ELSE kernel.keys - 1} :
        Int20h(setProcessState([kernel EXCEPT !.keys = left], {cur}, "EXITED"))
    /\ Goes("user")

exceptionDispatcher ==
    /\ InSyscall
    /\ IF kernel.pcb[cur].stdin /\ kernel.keys = 0
       THEN BlockAt(kernel, "fault")
       ELSE FaultExit
FaultAgain ==
    /\ cont[cur] = "fault"
    /\ IF kernel.keys = 0 THEN BlockAt(kernel, "fault") ELSE FaultExit

-----------------------------------------------------------------------------
(* The specification.                                                       *)

\* createInit, then the first call of scheduler, which takes init as it is.
Init ==
    /\ kernel = [pcb |-> [n \in Nodes |->
                    CASE n = InitNode -> [Blank EXCEPT !.id = InitId, !.foreground = TRUE,
                                                       !.stdin = TRUE]
                      [] n = IdleNode -> [Blank EXCEPT !.id = IdleId, !.foreground = TRUE]
                      [] OTHER        -> Blank],
                 allocated |-> {InitNode, IdleNode},
                 ready |-> {}, blocked |-> {}, current |-> InitNode,
                 foreground |-> InitNode,
                 timers |-> {}, keys |-> 0, readers |-> {InitNode}]
    /\ cont = [n \in Nodes |-> "user"]

Next ==
    \/ TimerTick          \/ addKey                \/ CtrlC
    \/ sysFork            \/ arqSysExit            \/ arqSysKill
    \/ arqSysBlock        \/ arqSysUnblock         \/ arqSysChangeState
    \/ arqSysPriority     \/ arqSysYield
    \/ arqSysSetToForeground                       \/ arqSysSetToBackground
    \/ arqSysWait         \/ WaitAgain
    \/ sleep              \/ SleepEnd
    \/ arqSysRead         \/ ReadAgain             \/ arqSysClosePd
    \/ exceptionDispatcher                         \/ FaultAgain

Spec == Init /\ [][Next]_vars

-----------------------------------------------------------------------------
(* Properties.                                                              *)

\* Every field holds a value of its C type, and every link leads to a node.
TypeOK == kernel \in Kernels /\ cont \in [Nodes -> Conts]

\* The lists are disjoint: a process is in the ready queues, or blocked, or
\* current, never in two of them; idle is in none, and neither the lists nor
\* `current` lead to a node that freePCB has taken back (a use after free).  The
\* references of the standard input may: closing it keeps the reference, and the
\* next key writes to the freed PCB.
PlacementSound ==
    /\ kernel.ready \cap kernel.blocked = {}
    /\ cur \notin kernel.ready \cup kernel.blocked
    /\ IdleNode \notin kernel.ready \cup kernel.blocked
    /\ Placed(kernel) \cup {InitNode, IdleNode} \subseteq kernel.allocated

\* getEntry finds the process it is asked for: no two processes in the queues
\* have the same pid, although pids are handed out again.
UniqueIds ==
    \A m, n \in Placed(kernel) \cup {IdleNode} :
        kernel.pcb[m].id = kernel.pcb[n].id => m = n

\* Every process set to EXITED is deleted by the scheduler call of the same
\* handler: no dead process is left in a queue or on the processor.
NoneExited == \A n \in Placed(kernel) : kernel.pcb[n].state # "EXITED"

\* `foreground`, which Ctrl-C kills, is NULL or a live process that is marked
\* as foreground; it never outlives its process.
ForegroundSound ==
    kernel.foreground # Null => /\ kernel.foreground \in kernel.allocated
                                /\ kernel.pcb[kernel.foreground].foreground

Lost == kernel.allocated \ (Placed(kernel) \cup {IdleNode})

\* The list of timers is that of the sleepers: each process inside sleep has one
\* timer, with its pid, until it returns, so it can be woken and updateTimers
\* follows no pointer to a freed PCB.  That holds until a sleeper falls out of all
\* lists (it is woken while it still runs): then its timer stays, and once its
\* pid is handed out again the two timers are taken for each other.
TimersSound ==
    (\A n \in Lost : cont[n] # "sleep") =>
        kernel.timers = {[node |-> n, pid |-> kernel.pcb[n].id, turn |-> 1] :
                            n \in {m \in Placed(kernel) : cont[m] = "sleep"}}

\* A process that has fallen out of every list was READY when it was current
\* (or was killed afterwards under a pid it no longer owns): the blocked list
\* and the ready queues themselves lose nobody.
OnlyReadyLost == \A n \in Lost : kernel.pcb[n].state \in {"READY", "EXITED"}

\* No lost wake-up on the keyboard: a foreground process that waits for a
\* character is not left blocked while there is one.
ReaderNotStranded ==
    \A n \in kernel.blocked :
        (/\ cont[n] \in {"read", "fault"}
         /\ kernel.pcb[n].state = "BLOCKED"
         /\ kernel.pcb[n].foreground
         /\ ~kernel.pcb[n].manualBlocked) => kernel.keys = 0

=============================================================================
