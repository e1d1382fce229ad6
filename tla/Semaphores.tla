----------------------------- MODULE Semaphores -----------------------------
(***************************************************************************)
(* The named semaphores of sync.c: a list of nodes from semaphoreQueue.head *)
(* on, and _semLock / _semUnlock of semaphore.asm on the value of a node.   *)
(*                                                                          *)
(* Every call is a system call and runs with interrupts off, so the spin    *)
(* lock on `mutex` is always free (gcc without optimisation leaves its      *)
(* address in rdx, where the assembly reads it) and a call is one step.     *)
(***************************************************************************)
EXTENDS Naturals, FiniteSets

CONSTANTS Names,      \* names of semaphores
          Nodes,      \* memory for nodes: bounds the semaphores ever created
          Null,       \* the NULL pointer
          MaxValue    \* bound: value of a semaphore

ASSUME NullAssumption == Null \notin Nodes
ASSUME MaxValueAssumption == MaxValue \in Nat

VARIABLES head, tail,   \* semaphoreQueue
          node,         \* the memory of the nodes
          used,         \* the nodes that are allocated
          opened,       \* the names opened and not closed since, for the callers
          hung          \* a page fault has stopped the machine

vars == <<head, tail, node, used, opened, hung>>

Pointers == Nodes \cup {Null}

SemNodes == [name : Names, value : 0..MaxValue, nextNode : Pointers]

TypeOK ==
    /\ head \in Pointers /\ tail \in Pointers
    /\ node \in [Nodes -> SemNodes]
    /\ used \in SUBSET Nodes
    /\ opened \in SUBSET Names
    /\ hung \in BOOLEAN

Init ==
    /\ head = Null /\ tail = Null
    /\ node \in [Nodes -> {[name |-> s, value |-> 0, nextNode |-> Null] : s \in Names}]
    /\ used = {} /\ opened = {} /\ hung = FALSE

-----------------------------------------------------------------------------
(* The list.                                                                *)

Closed(S) == \A n \in S : node[n].nextNode \in S \cup {Null}

\* The nodes from n on: the least set with n that contains its successors.
From(n) == {m \in Nodes : \A S \in SUBSET Nodes : n \in S /\ Closed(S) => m \in S}

Listed == IF head = Null THEN {} ELSE From(head)

\* The first of the listed nodes S, in the order of the list.
First(S) == CHOOSE n \in S : S \subseteq From(n)

\* The later nodes are compared the wrong way round: the first of them with
\* another name is returned.
getSemById(s) ==
    LET others == {n \in Listed \ {head} : node[n].name # s}
    IN  IF node[head].name = s THEN head
        ELSE IF others # {} THEN First(others) ELSE Null

\* Mutant: it looks from the second node on.
FoundBehindHead(s) == \E n \in Listed \ {head} : node[n].name = s

\* semOpen looks for the name in all nodes but the last one.
FoundByOpen(s) == \E n \in Listed : node[n].nextNode # Null /\ node[n].name = s

CreateFirst(s, v, new) ==
    /\ head = Null
    /\ head' = new /\ tail' = new
    /\ node' = [node EXCEPT ![new] = [name |-> s, value |-> v, nextNode |-> Null]]
    /\ used' = used \cup {new} /\ opened' = opened \cup {s}
    /\ UNCHANGED hung

\* The tail does not move: what was behind it is cut off, without being closed.
CreateLater(s, v, new) ==
    /\ head # Null /\ ~FoundByOpen(s)
    /\ node' = [n \in Nodes |->
          IF n = new THEN [name |-> s, value |-> v, nextNode |-> Null]
          ELSE IF n = tail THEN [node[n] EXCEPT !.nextNode = new] ELSE node[n]]
    /\ used' = used \cup {new} /\ opened' = opened \cup {s}
    /\ UNCHANGED <<head, tail, hung>>

AlreadyOpen(s) ==
    /\ head # Null /\ FoundByOpen(s)
    /\ opened' = opened \cup {s}
    /\ UNCHANGED <<head, tail, node, used, hung>>

\* The bound on Nodes stands for the memory of the kernel.
semOpen(s, v) ==
    \/ \E new \in Nodes \ used : CreateFirst(s, v, new) \/ CreateLater(s, v, new)
    \/ AlreadyOpen(s)

-----------------------------------------------------------------------------
(* The operations on a semaphore.  Before the first semOpen they would       *)
(* follow a NULL head, which the callers never do.                           *)

\* _semLock: a semaphore at 0 does not stop the caller.
semWait(s) ==
    /\ head # Null
    /\ LET sem == getSemById(s)
       IN  node' = IF sem = Null \/ node[sem].value = 0 THEN node
                   ELSE [node EXCEPT ![sem].value = @ - 1]
    /\ UNCHANGED <<head, tail, used, opened, hung>>

semPost(s) ==
    /\ head # Null
    /\ LET sem == getSemById(s)
       IN  /\ sem # Null => node[sem].value < MaxValue
           /\ node' = IF sem = Null THEN node ELSE [node EXCEPT ![sem].value = @ + 1]
    /\ UNCHANGED <<head, tail, used, opened, hung>>

\* Mutant: the names are not compared.
BeforeClosedAny(s) == head

\* The node before the one that is closed, or the last node.
BeforeClosed(s) ==
    First({n \in Listed : \/ node[n].nextNode = Null
                          \/ node[node[n].nextNode].name = s})

\* Mutant: the node is freed and stays in the list.
semCloseInPlace(s) ==
    /\ head # Null
    /\ LET before == BeforeClosed(s)
       IN  used' = used \ {node[before].nextNode}
    /\ opened' = opened \ {s}
    /\ UNCHANGED <<head, tail, node, hung>>

\* The first node is not looked at; what is freed is the node after the one that is
\* unlinked.  For NULL the free list manager writes to a header below address 0.  The
\* page fault is exception 0x0E, for which loadIDT has no handler (it enters the one
\* it calls so at 0x0D): the gate of the boot loader takes it and never returns.  The
\* buddy manager finds nothing to free.
semClose(s) ==
    /\ head # Null
    /\ LET before == BeforeClosed(s)
           toClose == node[before].nextNode
       IN  IF toClose = Null THEN UNCHANGED <<node, used, hung>>
           ELSE /\ node' = [node EXCEPT ![before].nextNode = node[toClose].nextNode]
                /\ used' = used \ {node[toClose].nextNode}
                /\ \/ UNCHANGED hung
                   \/ node[toClose].nextNode = Null /\ hung' = TRUE
    /\ opened' = opened \ {s}
    /\ UNCHANGED <<head, tail>>

Next == ~hung /\ \E s \in Names :
    \/ \E v \in 0..MaxValue : semOpen(s, v)
    \/ semWait(s) \/ semPost(s) \/ semClose(s)

Spec == Init /\ [][Next]_vars

-----------------------------------------------------------------------------
(* Properties.                                                              *)

\* semClose frees after it has relinked, and not the node it unlinked: still no
\* node of the list is ever free, so that none can be handed out twice, whichever
\* calls end in a page fault half way.
ListedAreAllocated == Listed \subseteq used

Twice(s) == \E m, n \in Listed : m # n /\ node[m].name = s /\ node[n].name = s

\* "Chequeamos que ninguno de los semaforos tenga el mismo nombre", semOpen says, and
\* leaves out the last one: a name comes into the list a second time only when the
\* last semaphore has it.
TwiceFromLast ==
    [][\A s \in Names : Twice(s)' /\ ~Twice(s) =>
         \E n \in Listed : node[n].nextNode = Null /\ node[n].name = s]_vars

\* An open semaphore leaves the list only when semOpen creates another one, which
\* cuts it off; no wait or post, and no close of another name loses it.
OnlyOpenCutsOff ==
    [][\A s \in opened \cap opened' :
         (\E n \in Listed : node[n].name = s) =>
            \/ (\E n \in Listed : node[n].name = s)'
            \/ \E n \in used' \ used : node'[n].name # s]_vars

=============================================================================
