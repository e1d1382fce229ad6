------------------------------ MODULE SyncTest ------------------------------
(***************************************************************************)
(* The callers run my_process_inc of test_sync.c with a semaphore: each     *)
(* decrements a shared counter Loops times, between a wait and a post.      *)
(***************************************************************************)
EXTENDS Semaphores, Integers

CONSTANTS Callers,    \* the processes that use it
          SEM_ID,     \* the name of their semaphore
          Loops       \* n: how often each of them decrements

ASSUME SemIdAssumption == SEM_ID \in Names
ASSUME LoopsAssumption == Loops \in Nat

VARIABLES pc,         \* where a process is
          i,          \* its loop counter
          aux,        \* its copy of the shared counter
          global      \* the shared counter

local == <<pc, i, aux, global>>

Goto(p, from, to) == pc[p] = from /\ pc' = [pc EXCEPT ![p] = to]

SyncInit ==
    /\ Init
    /\ pc = [p \in Callers |-> "open"] /\ i = [p \in Callers |-> 0]
    /\ aux = [p \in Callers |-> 0] /\ global = 0

Open(p) == Goto(p, "open", "loop") /\ semOpen(SEM_ID, 1) /\ UNCHANGED <<i, aux, global>>

Down(p) ==
    /\ i[p] < Loops
    /\ Goto(p, "loop", "load")
    /\ semWait(SEM_ID)
    /\ UNCHANGED <<i, aux, global>>

\* slowInc: a timer tick may come between the load and the store.
Load(p) ==
    /\ Goto(p, "load", "store")
    /\ aux' = [aux EXCEPT ![p] = global]
    /\ UNCHANGED <<vars, i, global>>

Store(p) ==
    /\ Goto(p, "store", "up")
    /\ global' = aux[p] - 1
    /\ UNCHANGED <<vars, i, aux>>

Up(p) ==
    /\ Goto(p, "up", "loop")
    /\ i' = [i EXCEPT ![p] = @ + 1]
    /\ semPost(SEM_ID)
    /\ UNCHANGED <<aux, global>>

Close(p) ==
    /\ i[p] = Loops
    /\ Goto(p, "loop", "done")
    /\ semClose(SEM_ID)
    /\ UNCHANGED <<i, aux, global>>

SyncNext == ~hung /\ \E p \in Callers :
    Open(p) \/ Down(p) \/ Load(p) \/ Store(p) \/ Up(p) \/ Close(p)

SyncSpec == SyncInit /\ [][SyncNext]_<<vars, local>>

-----------------------------------------------------------------------------

\* sh.c:349: the argument of test_sync says "if should use mutex or no"; with
\* one, no two processes are between their wait and their post.
MutualExclusion ==
    \A p, q \in Callers : p # q => ~(pc[p] \in {"load", "store", "up"}
                                   /\ pc[q] \in {"load", "store", "up"})

=============================================================================
