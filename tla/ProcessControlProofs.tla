------------------------- MODULE ProcessControlProofs -------------------------
(***************************************************************************)
(* Proofs about ProcessControl for every number of nodes and every bound.  *)
(*                                                                         *)
(* The handlers are compositions of the operators of the kernel, so the    *)
(* proof goes operator by operator: `Table` is what the data structures    *)
(* satisfy even in the middle of a scheduler call, when the current        *)
(* process may already be deleted; `Settled` is what they satisfy when a   *)
(* handler hands them to the scheduler, and again when it returns.         *)
(***************************************************************************)
EXTENDS MCProcessControl, OrderLemmas, FiniteSetTheorems, TLAPS

Listed(k) == k.ready \cup k.blocked

Lists(k) == /\ k.ready \cap k.blocked = {}
            /\ IdleNode \notin Listed(k)
            /\ Listed(k) \cup {InitNode, IdleNode} \subseteq k.allocated

\* The pids in the lists are unique, and init and idle keep theirs.
Ids(k) == /\ \A m, n \in Listed(k) \cup {IdleNode} : k.pcb[m].id = k.pcb[n].id => m = n
          /\ k.pcb[InitNode].id = InitId
          /\ k.pcb[IdleNode].id = IdleId

Immortal(k) == k.pcb[InitNode].state # "EXITED" /\ k.pcb[IdleNode].state # "EXITED"

Fore(k) == k.foreground # Null => /\ k.foreground \in k.allocated
                                  /\ k.pcb[k.foreground].foreground

Table(k) == k \in Kernels /\ Lists(k) /\ Ids(k) /\ Immortal(k) /\ Fore(k)

\* The current process is alive, in no list, and has a pid of its own.
CurrentSound(k) ==
    /\ k.current \notin Listed(k)
    /\ k.current \in k.allocated
    /\ \A n \in Listed(k) \cup {IdleNode} : k.pcb[n].id = k.pcb[k.current].id => n = k.current

OneExited(k) ==
    \A m, n \in Placed(k) : k.pcb[m].state = "EXITED" /\ k.pcb[n].state = "EXITED" => m = n

Alive(k) == \A n \in Placed(k) : k.pcb[n].state # "EXITED"

Settled(k) == Table(k) /\ CurrentSound(k) /\ Alive(k)

-----------------------------------------------------------------------------
(* Records: what the EXCEPT expressions of the model are.                    *)

States == {"READY", "RUNNING", "BLOCKED", "YIELDED", "EXITED"}

\* Replacing the PCBs leaves the other fields alone.
LEMMA WithPcb ==
    ASSUME NEW k \in Kernels, NEW f \in [Nodes -> Pcbs]
    PROVE  LET r == [k EXCEPT !.pcb = f]
           IN  /\ r \in Kernels
               /\ r.pcb = f
               /\ r.allocated = k.allocated /\ r.ready = k.ready
               /\ r.blocked = k.blocked     /\ r.current = k.current
               /\ r.foreground = k.foreground /\ r.timers = k.timers
               /\ r.keys = k.keys           /\ r.readers = k.readers
  BY DEF Kernels

\* A PCB with another state is a PCB.
StateManual(p, s, b) == [p EXCEPT !.state = s, !.manualBlocked = b]

LEMMA WithStateManual ==
    ASSUME NEW p \in Pcbs, NEW s \in States, NEW b \in BOOLEAN
    PROVE  /\ StateManual(p, s, b) \in Pcbs
           /\ StateManual(p, s, b).id = p.id /\ StateManual(p, s, b).foreground = p.foreground
           /\ StateManual(p, s, b).state = s
  BY DEF StateManual, Pcbs, States

LEMMA WithState ==
    ASSUME NEW p \in Pcbs, NEW s \in States
    PROVE  LET q == [p EXCEPT !.state = s]
           IN  q \in Pcbs /\ q.id = p.id /\ q.foreground = p.foreground /\ q.state = s
  BY DEF Pcbs, States

\* r is k with other PCBs.
SameButPcb(k, r) ==
    /\ r \in Kernels
    /\ r.allocated = k.allocated /\ r.ready = k.ready
    /\ r.blocked = k.blocked     /\ r.current = k.current
    /\ r.foreground = k.foreground /\ r.timers = k.timers
    /\ r.keys = k.keys           /\ r.readers = k.readers

\* r is k with the state s at the nodes of S.
Restated(k, r, S, s) ==
    /\ SameButPcb(k, r)
    /\ \A n \in Nodes :
          /\ r.pcb[n].id = k.pcb[n].id
          /\ r.pcb[n].foreground = k.pcb[n].foreground
          /\ r.pcb[n].state = IF n \in S THEN s ELSE k.pcb[n].state

LEMMA UpdateType ==
    ASSUME NEW k \in Kernels, NEW n \in Nodes, NEW e \in Pcbs
    PROVE  /\ SameButPcb(k, Update(k, n, e))
           /\ \A m \in Nodes : Update(k, n, e).pcb[m] = IF m = n THEN e ELSE k.pcb[m]
  <1> DEFINE f == [m \in Nodes |-> IF m = n THEN e ELSE k.pcb[m]]
  <1>1. f \in [Nodes -> Pcbs]
    BY DEF Kernels
  <1>2. \A m \in Nodes : f[m] = IF m = n THEN e ELSE k.pcb[m]
    OBVIOUS
  <1> HIDE DEF f
  <1>3. QED
    BY <1>1, <1>2, WithPcb DEF Update, f, SameButPcb

LEMMA RestateType ==
    ASSUME NEW k \in Kernels, NEW S, NEW s \in States, NEW b \in BOOLEAN
    PROVE  Restated(k, Restate(k, S, s, b), S, s)
  <1> DEFINE f == [n \in Nodes |->
                      IF n \in S THEN [k.pcb[n] EXCEPT !.state = s, !.manualBlocked = b]
                      ELSE k.pcb[n]]
  <1>1. \A n \in Nodes : k.pcb[n] \in Pcbs
    BY DEF Kernels
  <1>2. \A n \in Nodes : /\ f[n] \in Pcbs
                         /\ f[n].id = k.pcb[n].id
                         /\ f[n].foreground = k.pcb[n].foreground
                         /\ f[n].state = IF n \in S THEN s ELSE k.pcb[n].state
    <2> TAKE n \in Nodes
    <2> DEFINE q == StateManual(k.pcb[n], s, b)
    <2>1. q \in Pcbs /\ q.id = k.pcb[n].id /\ q.foreground = k.pcb[n].foreground /\ q.state = s
      BY <1>1, WithStateManual
    <2>2. f[n] = IF n \in S THEN q ELSE k.pcb[n]
      BY DEF StateManual
    <2> HIDE DEF q, f
    <2>3. QED
      BY <1>1, <2>1, <2>2
  <1>3. f \in [Nodes -> Pcbs]
    <2>1. \A n \in Nodes : f[n] \in Pcbs
      BY <1>2
    <2>2. f = [n \in Nodes |-> f[n]]
      OBVIOUS
    <2> HIDE DEF f
    <2>3. QED
      BY <2>1, <2>2
  <1>4. Restate(k, S, s, b) = [k EXCEPT !.pcb = f]
    BY DEF Restate
  <1> HIDE DEF f
  <1>5. QED
    BY <1>2, <1>3, <1>4, WithPcb DEF Restated, SameButPcb

-----------------------------------------------------------------------------
(* The list of timers.                                                       *)

LEMMA TimerFacts ==
    ASSUME NEW T \in TimerLists
    PROVE  /\ IsFiniteSet(T)
           /\ \A t \in T : /\ t \in Timers
                           /\ t.node \in Nodes /\ t.pid \in {NoId} \cup Pids
                           /\ t.turn \in Nat /\ t.turn # 0
  BY DEF TimerLists, Timers

LEMMA CountType ==
    ASSUME NEW S, IsFiniteSet(S), NEW pid
    PROVE  /\ Count(S, pid) \in Nat
           /\ Count(S, pid) = 0 <=> \A t \in S : t.pid # pid
  <1> DEFINE R == {t \in S : t.pid = pid}
  <1>1. IsFiniteSet(R)
    BY FS_Subset
  <1>2. Cardinality(R) \in Nat /\ (Cardinality(R) = 0 <=> R = {})
    BY <1>1, FS_CardinalityType, FS_EmptySet
  <1>3. QED
    BY <1>2 DEF Count

WithTurn(t, i) == [t EXCEPT !.turn = i]

LEMMA WithTurnType ==
    ASSUME NEW t \in Timers, NEW i \in Nat, i # 0
    PROVE  /\ WithTurn(t, i) \in Timers
           /\ t.turn = i => WithTurn(t, i) = t
  BY DEF WithTurn, Timers

LEMMA UnlinkType ==
    ASSUME NEW T \in TimerLists, NEW gone, IsFiniteSet(gone)
    PROVE  Unlink(T, gone) \in TimerLists
  <1> DEFINE S == {u \in T : u.turn > Count(gone, u.pid)}
             f == [t \in S |-> WithTurn(t, t.turn - Count(gone, t.pid))]
             R == Unlink(T, gone)
  <1>1. IsFiniteSet(S)
    BY TimerFacts, FS_Subset
  <1>2. \A t \in S : f[t] \in Timers
    <2> TAKE t \in S
    <2>1. /\ t \in Timers /\ t.turn \in Nat /\ Count(gone, t.pid) \in Nat
          /\ t.turn > Count(gone, t.pid)
      BY TimerFacts, CountType
    <2>2. t.turn - Count(gone, t.pid) \in Nat /\ t.turn - Count(gone, t.pid) # 0
      BY <2>1
    <2>3. QED
      BY <2>1, <2>2, WithTurnType
  <1>3. R = {f[t] : t \in S}
    BY DEF Unlink, WithTurn
  <1>4. R \subseteq Timers
    BY <1>2, <1>3
  <1>5. f \in Surjection(S, R)
    BY <1>3 DEF Surjection
  <1>6. IsFiniteSet(R)
    BY <1>1, <1>5, FS_Surjection
  <1>7. QED
    BY <1>4, <1>6 DEF TimerLists

LEMMA LinkType ==
    ASSUME NEW T \in TimerLists, NEW n \in Nodes, NEW pid \in {NoId} \cup Pids
    PROVE  Link(T, n, pid) \in TimerLists
  <1> DEFINE t == [node |-> n, pid |-> pid, turn |-> 1 + Count(T, pid)]
  <1>1. IsFiniteSet(T) /\ T \subseteq Timers
    BY TimerFacts
  <1>2. Count(T, pid) \in Nat
    BY <1>1, CountType
  <1>3. t \in Timers
    BY <1>2 DEF Timers
  <1> HIDE DEF t
  <1>4. IsFiniteSet(T \cup {t})
    BY <1>1, FS_AddElement
  <1>5. QED
    BY <1>1, <1>3, <1>4 DEF Link, TimerLists, t

\* Each timer is the only one with its pid.
Single(T) == \A t \in T : t.turn = 1 /\ \A u \in T : u.pid = t.pid => u = t

LEMMA UnlinkFirst ==
    ASSUME NEW T \in TimerLists, Single(T), NEW gone, IsFiniteSet(gone)
    PROVE  Unlink(T, gone) = {t \in T : \A u \in gone : u.pid # t.pid}
  <1> DEFINE S == {u \in T : u.turn > Count(gone, u.pid)}
  <1>1. \A t \in T : /\ t \in S <=> Count(gone, t.pid) = 0
                     /\ Count(gone, t.pid) = 0 <=> \A u \in gone : u.pid # t.pid
    BY CountType DEF Single
  <1>2. \A t \in S : [t EXCEPT !.turn = @ - Count(gone, t.pid)] = t
    <2> TAKE t \in S
    <2>1. t \in Timers /\ t.turn = 1 /\ Count(gone, t.pid) = 0
      BY <1>1, TimerFacts DEF Single
    <2>2. WithTurn(t, t.turn - Count(gone, t.pid)) = t
      BY <2>1, WithTurnType
    <2>3. QED
      BY <2>2 DEF WithTurn
  <1>3. Unlink(T, gone) = S
    BY <1>2 DEF Unlink
  <1>4. QED
    BY <1>1, <1>3

LEMMA UnlinkSingle ==
    ASSUME NEW T \in TimerLists, Single(T), NEW gone \in SUBSET T
    PROVE  Unlink(T, gone) = T \ gone
  <1>1. IsFiniteSet(gone)
    BY TimerFacts, FS_Subset
  <1>2. QED
    BY <1>1, UnlinkFirst DEF Single

-----------------------------------------------------------------------------
(* Mild steps: pids, lists, foreground marks stay, and a state changes only  *)
(* to READY.                                                                 *)

Mild(k, r) ==
    /\ r \in Kernels
    /\ r.ready = k.ready /\ r.blocked = k.blocked /\ r.current = k.current
    /\ r.allocated = k.allocated /\ r.foreground = k.foreground
    /\ \A n \in Nodes : /\ r.pcb[n].id = k.pcb[n].id
                        /\ r.pcb[n].foreground = k.pcb[n].foreground
                        /\ r.pcb[n].state \in {k.pcb[n].state, "READY"}

LEMMA MildTransitive ==
    ASSUME NEW k, NEW r, NEW s, Mild(k, r), Mild(r, s)
    PROVE  Mild(k, s)
  BY DEF Mild

LEMMA KernelNodes ==
    ASSUME NEW k \in Kernels
    PROVE  /\ Listed(k) \subseteq Nodes /\ k.allocated \subseteq Nodes
           /\ k.current \in Nodes /\ InitNode \in Nodes /\ IdleNode \in Nodes
           /\ k.foreground # Null => k.foreground \in Nodes
           /\ Placed(k) = Listed(k) \cup {k.current}
           /\ k.timers \in TimerLists
  BY NodesAssumption DEF Kernels, Listed, Placed

LEMMA MildKeeps ==
    ASSUME NEW k \in Kernels, NEW r, Mild(k, r)
    PROVE  /\ Table(k) => Table(r)
           /\ CurrentSound(k) => CurrentSound(r)
           /\ OneExited(k) => OneExited(r)
           /\ Alive(k) => Alive(r)
  <1>1. Listed(r) = Listed(k) /\ Placed(r) = Placed(k) /\ Placed(k) \subseteq Nodes
    BY KernelNodes DEF Mild, Listed, Placed
  <1>2. Table(k) => Table(r)
    BY <1>1, KernelNodes DEF Mild, Table, Lists, Ids, Immortal, Fore
  <1>3. CurrentSound(k) => CurrentSound(r)
    BY <1>1, KernelNodes DEF Mild, CurrentSound
  <1>4. OneExited(k) => OneExited(r)
    BY <1>1 DEF Mild, OneExited
  <1>5. Alive(k) => Alive(r)
    BY <1>1 DEF Mild, Alive
  <1>6. QED
    BY <1>2, <1>3, <1>4, <1>5

\* Waking is mild.
LEMMA SetReady ==
    ASSUME NEW k \in Kernels, NEW S
    PROVE  Mild(k, setProcessState(k, S, "READY"))
  <1>1. "READY" \in States
    BY DEF States
  <1>2. Restated(k, setProcessState(k, S, "READY"), Settable(k, S, "READY"), "READY")
    BY <1>1, RestateType DEF setProcessState
  <1>3. QED
    BY <1>2 DEF Restated, SameButPcb, Mild

LEMMA UpdateTimersMild ==
    ASSUME NEW k \in Kernels, NEW due
    PROVE  Mild(k, updateTimers(k, due))
  <1> DEFINE r    == setProcessState(k, Ringing(k, due), "READY")
             gone == {t \in r.timers : k.pcb[t.node].state = "EXITED"}
             T    == Unlink(r.timers, gone)
  <1>1. Mild(k, r)
    BY SetReady
  <1>2. r \in Kernels /\ r.timers \in TimerLists
    BY <1>1, KernelNodes DEF Mild
  <1>3. updateTimers(k, due) = [r EXCEPT !.timers = T]
    BY DEF updateTimers
  <1> HIDE DEF r
  <1>4. IsFiniteSet(gone)
    BY <1>2, TimerFacts, FS_Subset
  <1> HIDE DEF gone
  <1>5. T \in TimerLists
    BY <1>2, <1>4, UnlinkType
  <1> HIDE DEF T
  <1>6. Mild(r, [r EXCEPT !.timers = T])
    BY <1>2, <1>5 DEF Mild, Kernels
  <1>7. QED
    BY <1>1, <1>3, <1>6, MildTransitive

LEMMA ClosePDsMild ==
    ASSUME NEW k \in Kernels, NEW n \in Nodes
    PROVE  Mild(k, closePDs(k, n))
  <1> DEFINE e == [k.pcb[n] EXCEPT !.stdin = FALSE]
             r == Update(k, n, e)
             S == {m \in k.readers : k.pcb[m].id # k.pcb[n].id}
  <1>1. k.pcb[n] \in Pcbs
    BY DEF Kernels
  <1>2. e \in Pcbs /\ e.id = k.pcb[n].id /\ e.foreground = k.pcb[n].foreground
                   /\ e.state = k.pcb[n].state
    BY <1>1 DEF Pcbs
  <1> HIDE DEF e
  <1>3. Mild(k, r) /\ r.readers = k.readers
    BY <1>2, UpdateType DEF SameButPcb, Mild
  <1>4. r \in Kernels /\ S \subseteq Nodes
    BY <1>3 DEF Mild, Kernels
  <1>5. Mild(k, k)
    BY DEF Mild
  <1> HIDE DEF r
  <1>6. Mild(r, [r EXCEPT !.readers = S])
    BY <1>4 DEF Mild, Kernels
  <1>7. Mild(k, [r EXCEPT !.readers = S])
    BY <1>3, <1>6, MildTransitive
  <1>8. [r EXCEPT !.readers = {m \in @ : k.pcb[m].id # k.pcb[n].id}]
            = [r EXCEPT !.readers = S]
    BY <1>3
  <1>9. QED
    BY <1>5, <1>7, <1>8 DEF closePDs, r, e

LEMMA EntryType ==
    ASSUME NEW k \in Kernels, NEW pid
    PROVE  getEntry(k, pid) # Null => getEntry(k, pid) \in Nodes
  <1>1. Holders(k, pid) \subseteq Nodes
    BY KernelNodes DEF Holders
  <1>2. CASE Holders(k, pid) = {}
    BY <1>2 DEF getEntry
  <1>3. CASE Holders(k, pid) # {}
    BY <1>1, <1>3 DEF getEntry
  <1>4. QED
    BY <1>2, <1>3

LEMMA CheckChildsMild ==
    ASSUME NEW k \in Kernels, NEW n \in Nodes
    PROVE  Mild(k, checkChilds(k, n))
  <1> DEFINE parent == getEntry(k, k.pcb[n].parentId)
             heir   == IF parent = Null THEN NoId ELSE k.pcb[parent].id
             orphan == {c \in Placed(k) : k.pcb[c].id \in k.pcb[n].childsIds}
             f      == [c \in Nodes |-> IF c \in orphan
                                        THEN [k.pcb[c] EXCEPT !.parentId = heir]
                                        ELSE k.pcb[c]]
  <1>1. \A c \in Nodes : k.pcb[c] \in Pcbs
    BY DEF Kernels
  <1>2. heir \in {NoId} \cup Pids
    BY <1>1, EntryType DEF Pcbs
  <1>3. checkChilds(k, n) = [k EXCEPT !.pcb = f]
    BY DEF checkChilds
  <1> HIDE DEF heir, orphan
  <1>4. \A c \in Nodes : /\ f[c] \in Pcbs
                         /\ f[c].id = k.pcb[c].id
                         /\ f[c].foreground = k.pcb[c].foreground
                         /\ f[c].state = k.pcb[c].state
    <2> TAKE c \in Nodes
    <2> DEFINE q == [k.pcb[c] EXCEPT !.parentId = heir]
    <2>1. /\ q \in Pcbs /\ q.id = k.pcb[c].id /\ q.foreground = k.pcb[c].foreground
          /\ q.state = k.pcb[c].state
      BY <1>1, <1>2 DEF Pcbs
    <2>2. f[c] = IF c \in orphan THEN q ELSE k.pcb[c]
      OBVIOUS
    <2> HIDE DEF q, f
    <2>3. QED
      BY <1>1, <2>1, <2>2
  <1>5. f \in [Nodes -> Pcbs]
    BY <1>4
  <1> HIDE DEF f
  <1>6. QED
    BY <1>3, <1>4, <1>5, WithPcb DEF Mild

LEMMA SetParentReadyMild ==
    ASSUME NEW k \in Kernels, NEW n \in Nodes
    PROVE  Mild(k, setParentReady(k, n))
  <1> DEFINE parent == getEntry(k, k.pcb[n].parentId)
             e == [k.pcb[parent] EXCEPT !.childsIds = @ \ {k.pcb[n].id}]
             r == Update(k, parent, e)
  <1>1. CASE parent = Null
    BY <1>1 DEF setParentReady, Mild
  <1>2. CASE parent # Null
    <2>1. parent \in Nodes
      BY <1>2, EntryType
    <2>2. k.pcb[parent] \in Pcbs
      BY <2>1 DEF Kernels
    <2> HIDE DEF parent
    <2>3. e \in Pcbs /\ e.id = k.pcb[parent].id /\ e.state = k.pcb[parent].state
                     /\ e.foreground = k.pcb[parent].foreground
      BY <2>2 DEF Pcbs
    <2> HIDE DEF e
    <2>4. Mild(k, r)
      BY <2>1, <2>3, UpdateType DEF SameButPcb, Mild
    <2>5. Mild(r, setProcessState(r, {parent}, "READY"))
      BY <2>4, SetReady DEF Mild
    <2>6. setParentReady(k, n) = setProcessState(r, {parent}, "READY")
      BY <1>2 DEF setParentReady, parent, e
    <2>7. QED
      BY <2>4, <2>5, <2>6, MildTransitive
  <1>3. QED
    BY <1>1, <1>2

-----------------------------------------------------------------------------
(* Deleting a process.                                                       *)

Deleted(k, r, d) ==
    /\ r \in Kernels
    /\ r.ready = k.ready /\ r.blocked = k.blocked /\ r.current = k.current
    /\ r.allocated = k.allocated \ {d}
    /\ r.foreground = IF k.foreground = d THEN Null ELSE k.foreground
    /\ \A n \in Nodes : /\ r.pcb[n].id = k.pcb[n].id
                        /\ r.pcb[n].foreground = k.pcb[n].foreground
                        /\ r.pcb[n].state \in {k.pcb[n].state, "READY"}

LEMMA FreePCBType ==
    ASSUME NEW k \in Kernels, NEW d \in Nodes, k.foreground # d
    PROVE  Deleted(k, freePCB(k, d), d)
  <1> DEFINE t == [k EXCEPT !.allocated = @ \ {d}]
  <1>1. /\ t \in Kernels /\ t.pcb = k.pcb /\ t.ready = k.ready /\ t.blocked = k.blocked
        /\ t.current = k.current /\ t.allocated = k.allocated \ {d}
        /\ t.foreground = k.foreground
    BY DEF Kernels
  <1>2. freePCB(k, d) = t
    BY DEF freePCB
  <1> HIDE DEF t
  <1>3. QED
    BY <1>1, <1>2 DEF Deleted

LEMMA DeleteType ==
    ASSUME NEW k \in Kernels, NEW d \in Nodes, NEW due
    PROVE  Deleted(k, deleteProcess(k, d, due), d)
  <1> DEFINE k1 == [k EXCEPT !.foreground = IF @ = d THEN Null ELSE @]
             k2 == updateTimers(k1, due)
             k3 == closePDs(k2, d)
             k4 == checkChilds(k3, d)
             k5 == setParentReady(k4, d)
  <1>1. /\ k1 \in Kernels /\ k1.pcb = k.pcb /\ k1.ready = k.ready /\ k1.blocked = k.blocked
        /\ k1.current = k.current /\ k1.allocated = k.allocated
        /\ k1.foreground = IF k.foreground = d THEN Null ELSE k.foreground
    BY DEF Kernels
  <1>2. deleteProcess(k, d, due) = freePCB(k5, d)
    BY DEF deleteProcess
  <1> HIDE DEF k1
  <1>3. Mild(k1, k2)
    BY <1>1, UpdateTimersMild
  <1> HIDE DEF k2
  <1>4. Mild(k2, k3)
    BY <1>3, ClosePDsMild DEF Mild
  <1> HIDE DEF k3
  <1>5. Mild(k3, k4)
    BY <1>4, CheckChildsMild DEF Mild
  <1> HIDE DEF k4
  <1>6. Mild(k4, k5)
    BY <1>5, SetParentReadyMild DEF Mild
  <1> HIDE DEF k5
  <1>7. Mild(k1, k5)
    BY <1>3, <1>4, <1>5, <1>6, MildTransitive
  <1>8. k5 \in Kernels /\ k5.foreground # d
    BY <1>1, <1>7, NodesAssumption DEF Mild
  <1>9. Deleted(k5, freePCB(k5, d), d)
    BY <1>8, FreePCBType
  <1>10. QED
    BY <1>1, <1>2, <1>7, <1>8, <1>9 DEF Mild, Deleted

\* No process in a list is dead.
ListedAlive(k) == \A n \in Listed(k) : k.pcb[n].state # "EXITED"

\* Deleting a process that is in no list keeps the table sound.
LEMMA DeletedKeeps ==
    ASSUME NEW k, Table(k), NEW d \in Nodes, d \notin Listed(k) \cup {InitNode, IdleNode},
           NEW r, Deleted(k, r, d)
    PROVE  /\ Table(r)
           /\ ListedAlive(k) => ListedAlive(r)
           /\ d # k.current /\ CurrentSound(k) => CurrentSound(r)
  <1>1. k \in Kernels /\ Listed(r) = Listed(k)
    BY DEF Table, Deleted, Listed
  <1>2. /\ Listed(k) \subseteq Nodes /\ InitNode \in Nodes /\ IdleNode \in Nodes
        /\ k.current \in Nodes /\ (k.foreground # Null => k.foreground \in Nodes)
    BY <1>1, KernelNodes
  <1>3. Lists(r)
    BY <1>1 DEF Table, Lists, Deleted
  <1>4. Ids(r)
    BY <1>1, <1>2 DEF Table, Ids, Deleted
  <1>5. Immortal(r)
    BY <1>2 DEF Table, Immortal, Deleted
  <1>6. Fore(r)
    BY <1>2 DEF Table, Fore, Deleted
  <1>7. ListedAlive(k) => ListedAlive(r)
    BY <1>1, <1>2 DEF ListedAlive, Deleted
  <1>8. d # k.current /\ CurrentSound(k) => CurrentSound(r)
    BY <1>1, <1>2 DEF CurrentSound, Deleted
  <1>9. QED
    BY <1>3, <1>4, <1>5, <1>6, <1>7, <1>8 DEF Table, Deleted

-----------------------------------------------------------------------------
(* The scheduler.                                                            *)

\* What a handler may hand to the scheduler: at most one process is dead.
Fit(k) == Table(k) /\ CurrentSound(k) /\ OneExited(k)

\* What nextProcess may find: the current process is sound or just deleted.
Pickable(k) ==
    /\ Table(k) /\ ListedAlive(k)
    /\ CurrentSound(k) \/ k.pcb[k.current].state \in {"READY", "EXITED"}

LEMMA CheckBlockedKeeps ==
    ASSUME NEW k \in Kernels
    PROVE  LET r == checkBlocked(k)
           IN  /\ Fit(k) => Fit(r)
               /\ Pickable(k) => Pickable(r)
  <1> DEFINE woken == {n \in k.blocked : k.pcb[n].state # "BLOCKED"}
             r == [k EXCEPT !.blocked = @ \ woken, !.ready = @ \cup woken]
  <1>1. /\ r \in Kernels /\ r.pcb = k.pcb /\ r.allocated = k.allocated
        /\ r.current = k.current /\ r.foreground = k.foreground
        /\ r.ready = k.ready \cup woken /\ r.blocked = k.blocked \ woken
    BY DEF Kernels
  <1>2. woken \subseteq k.blocked
    OBVIOUS
  <1>3. checkBlocked(k) = r
    BY DEF checkBlocked
  <1> HIDE DEF woken, r
  <1>4. Listed(r) = Listed(k) /\ Placed(r) = Placed(k)
    BY <1>1, <1>2 DEF Listed, Placed
  <1>5. Table(k) => Table(r)
    BY <1>1, <1>2, <1>4 DEF Table, Lists, Ids, Immortal, Fore
  <1>6. CurrentSound(k) => CurrentSound(r)
    BY <1>1, <1>4 DEF CurrentSound
  <1>7. QED
    BY <1>1, <1>3, <1>4, <1>5, <1>6 DEF Fit, Pickable, OneExited, ListedAlive

LEMMA RequeueKeeps ==
    ASSUME NEW k \in Kernels, Pickable(k)
    PROVE  Table(Requeue(k)) /\ ListedAlive(Requeue(k))
  <1> DEFINE c == k.current
             s == k.pcb[c].state
             e == [k.pcb[c] EXCEPT !.state = "READY"]
             rested == Update(k, c, e)
  <1>1. c \in Nodes /\ k.pcb[c] \in Pcbs /\ "READY" \in States
    BY KernelNodes DEF Kernels, States
  <1>2. e \in Pcbs /\ e.id = k.pcb[c].id /\ e.foreground = k.pcb[c].foreground
                   /\ e.state = "READY"
    BY <1>1, WithState
  <1> HIDE DEF e
  <1>3. Mild(k, rested)
    <2>1. k \in Kernels
      BY DEF Pickable
    <2>2. /\ SameButPcb(k, rested)
          /\ \A m \in Nodes : rested.pcb[m] = IF m = c THEN e ELSE k.pcb[m]
      BY <1>1, <1>2, <2>1, UpdateType
    <2> HIDE DEF rested
    <2>3. QED
      BY <1>1, <1>2, <2>2 DEF SameButPcb, Mild
  <1>4. Table(rested) /\ ListedAlive(rested) /\ rested \in Kernels
    BY <1>3, MildKeeps, KernelNodes DEF Pickable, ListedAlive, Mild, Listed
  <1>5. CASE c = IdleNode
    BY <1>4, <1>5 DEF Requeue, e
  <1>6. CASE c # IdleNode /\ s = "BLOCKED"
    <2> DEFINE r == [k EXCEPT !.blocked = @ \cup {c}]
    <2>1. /\ r \in Kernels /\ r.pcb = k.pcb /\ r.ready = k.ready
          /\ r.blocked = k.blocked \cup {c} /\ r.allocated = k.allocated
          /\ r.foreground = k.foreground
      BY <1>1 DEF Kernels
    <2>2. Requeue(k) = r
      BY <1>6 DEF Requeue
    <2> HIDE DEF r
    <2>3. Table(k) /\ ListedAlive(k) /\ CurrentSound(k)
      BY <1>6 DEF Pickable
    <2>4. Listed(r) = Listed(k) \cup {c}
      BY <2>1 DEF Listed
    <2>5. Lists(r)
      BY <1>6, <2>1, <2>3, <2>4 DEF Table, Lists, CurrentSound, Listed
    <2>6. Ids(r)
      BY <2>1, <2>3, <2>4 DEF Table, Ids, CurrentSound
    <2>7. Immortal(r) /\ Fore(r)
      BY <2>1, <2>3 DEF Table, Immortal, Fore
    <2>8. ListedAlive(r)
      BY <1>6, <2>1, <2>3, <2>4 DEF ListedAlive
    <2>9. QED
      BY <2>1, <2>2, <2>5, <2>6, <2>7, <2>8 DEF Table
  <1>7. CASE c # IdleNode /\ s \in {"RUNNING", "YIELDED"}
    <2> DEFINE r == [rested EXCEPT !.ready = @ \cup {c}]
    <2>1. Requeue(k) = r
      BY <1>7 DEF Requeue, e
    <2>2. CurrentSound(k)
      BY <1>7 DEF Pickable
    <2>3. CurrentSound(rested) /\ rested.current = c
      BY <1>3, <2>2, MildKeeps DEF Mild
    <2>4. rested.pcb[c].state = "READY"
      BY <1>1, <1>2, UpdateType
    <2> HIDE DEF rested
    <2>5. /\ r \in Kernels /\ r.pcb = rested.pcb /\ r.ready = rested.ready \cup {c}
          /\ r.blocked = rested.blocked /\ r.allocated = rested.allocated
          /\ r.foreground = rested.foreground
      BY <1>1, <1>4 DEF Kernels
    <2> HIDE DEF r
    <2>6. Listed(r) = Listed(rested) \cup {c}
      BY <2>5 DEF Listed
    <2>7. Lists(r)
      BY <1>4, <1>7, <2>3, <2>5, <2>6 DEF Table, Lists, CurrentSound, Listed
    <2>8. Ids(r)
      BY <1>4, <2>3, <2>5, <2>6 DEF Table, Ids, CurrentSound
    <2>9. Immortal(r) /\ Fore(r)
      BY <1>4, <2>5 DEF Table, Immortal, Fore
    <2>10. ListedAlive(r)
      BY <1>4, <2>4, <2>5, <2>6 DEF ListedAlive
    <2>11. QED
      BY <2>1, <2>5, <2>7, <2>8, <2>9, <2>10 DEF Table
  <1>8. CASE c # IdleNode /\ s \notin {"BLOCKED", "RUNNING", "YIELDED"}
    BY <1>8 DEF Requeue, Pickable
  <1>9. QED
    BY <1>5, <1>6, <1>7, <1>8

LEMMA DispatchSettles ==
    ASSUME NEW k \in Kernels, Table(k), ListedAlive(k),
           NEW n \in Nodes, n \in k.ready \/ n = IdleNode
    PROVE  Settled(Dispatch(k, n))
  <1> DEFINE e == [k.pcb[n] EXCEPT !.state = "RUNNING"]
             r == Update(k, n, e)
             fore == IF k.pcb[n].foreground /\ n # IdleNode THEN n ELSE k.foreground
             t == [r EXCEPT !.ready = @ \ {n}, !.current = n, !.foreground = fore]
  <1>1. k.pcb[n] \in Pcbs /\ "RUNNING" \in States
    BY DEF Kernels, States
  <1>2. e \in Pcbs /\ e.id = k.pcb[n].id /\ e.foreground = k.pcb[n].foreground
                   /\ e.state = "RUNNING"
    BY <1>1, WithState
  <1> HIDE DEF e
  <1>3. SameButPcb(k, r) /\ \A m \in Nodes : r.pcb[m] = IF m = n THEN e ELSE k.pcb[m]
    BY <1>2, UpdateType
  <1>4. Dispatch(k, n) = t
    <2>1. [r EXCEPT !.ready = @ \ {n}, !.current = n,
               !.foreground = IF k.pcb[n].foreground /\ n # IdleNode THEN n ELSE @] = t
      BY <1>3 DEF SameButPcb
    <2>2. QED
      BY <2>1 DEF Dispatch, e
  <1> HIDE DEF r
  <1>5. fore \in Nodes \cup {Null}
    BY KernelNodes
  <1> HIDE DEF fore
  <1>6. /\ t \in Kernels /\ t.pcb = r.pcb /\ t.ready = r.ready \ {n}
        /\ t.blocked = r.blocked /\ t.allocated = r.allocated
        /\ t.current = n /\ t.foreground = fore
    BY <1>3, <1>5 DEF SameButPcb, Kernels
  <1> HIDE DEF t
  <1>7. /\ t.ready = k.ready \ {n} /\ t.blocked = k.blocked /\ t.allocated = k.allocated
        /\ \A m \in Nodes : /\ t.pcb[m].id = k.pcb[m].id
                            /\ t.pcb[m].foreground = k.pcb[m].foreground
                            /\ t.pcb[m].state = IF m = n THEN "RUNNING" ELSE k.pcb[m].state
    BY <1>2, <1>3, <1>6 DEF SameButPcb
  <1>8. n \in k.allocated /\ n \in Listed(k) \cup {IdleNode} /\ n \notin k.blocked
    BY DEF Table, Lists, Listed
  <1>9. Listed(t) = Listed(k) \ {n} /\ Listed(k) \subseteq Nodes
        /\ InitNode \in Nodes /\ IdleNode \in Nodes
    BY <1>7, <1>8, KernelNodes DEF Listed
  <1>10. Lists(t)
    BY <1>7, <1>9 DEF Table, Lists
  <1>11. Ids(t)
    BY <1>7, <1>9 DEF Table, Ids
  <1>12. Immortal(t)
    BY <1>7, <1>9 DEF Table, Immortal
  <1>13. Fore(t)
    <2>1. k.foreground # Null => k.foreground \in Nodes
      BY KernelNodes
    <2>2. QED
      BY <1>6, <1>7, <1>8, <2>1 DEF Table, Fore, fore
  <1>14. CurrentSound(t)
    BY <1>6, <1>7, <1>8, <1>9 DEF Table, Ids, CurrentSound
  <1>15. Alive(t)
    BY <1>6, <1>7, <1>9 DEF ListedAlive, Alive, Placed, Listed
  <1>16. QED
    BY <1>4, <1>6, <1>10, <1>11, <1>12, <1>13, <1>14, <1>15 DEF Settled, Table

LEMMA NextProcessSettles ==
    ASSUME NEW k \in Kernels, Pickable(k), NEW s \in nextProcess(k)
    PROVE  Settled(s)
  <1>1. Table(Requeue(k)) /\ ListedAlive(Requeue(k)) /\ Requeue(k) \in Kernels
    BY RequeueKeeps DEF Table
  <1>2. PICK n \in IF Requeue(k).ready = {} THEN {IdleNode} ELSE Requeue(k).ready :
            s = Dispatch(Requeue(k), n)
    BY DEF nextProcess
  <1>3. n \in Nodes /\ (n \in Requeue(k).ready \/ n = IdleNode)
    BY <1>1, <1>2, KernelNodes DEF Listed
  <1>4. QED
    BY <1>1, <1>2, <1>3, DispatchSettles

LEMMA ReapQueuedKeeps ==
    ASSUME NEW k \in Kernels, Fit(k), NEW due
    PROVE  Fit(ReapQueued(k, due)) /\ ListedAlive(ReapQueued(k, due))
  <1>1. CASE Dead(k) = {}
    BY <1>1 DEF ReapQueued, Dead, ListedAlive, Listed
  <1>2. CASE Dead(k) # {}
    <2>1. PICK d \in Dead(k) : ReapQueued(k, due)
              = deleteProcess([k EXCEPT !.ready = @ \ {d}, !.blocked = @ \ {d}], d, due)
      <3>1. Dead(k) \subseteq Nodes
        BY KernelNodes DEF Dead, Listed
      <3>2. (CHOOSE n \in Nodes : n \in Dead(k)) \in Dead(k)
        BY <1>2, <3>1
      <3>3. QED
        BY <1>2, <3>2 DEF ReapQueued
    <2> DEFINE b == [k EXCEPT !.ready = @ \ {d}, !.blocked = @ \ {d}]
               r == deleteProcess(b, d, due)
    <2>2. /\ b \in Kernels /\ b.pcb = k.pcb /\ b.ready = k.ready \ {d}
          /\ b.blocked = k.blocked \ {d} /\ b.allocated = k.allocated
          /\ b.current = k.current /\ b.foreground = k.foreground
      BY DEF Kernels
    <2> HIDE DEF b
    <2>3. d \in Listed(k) /\ k.pcb[d].state = "EXITED"
      BY DEF Dead, Listed
    <2>4. Listed(b) = Listed(k) \ {d}
      BY <2>2 DEF Listed
    <2>5. d \in Nodes /\ Placed(k) = Listed(k) \cup {k.current} /\ k.current # d
          /\ d \notin {InitNode, IdleNode}
      BY <2>3, KernelNodes DEF Fit, Table, Immortal, CurrentSound
    <2>6. Table(b)
      BY <2>2, <2>4 DEF Fit, Table, Lists, Ids, Immortal, Fore
    <2>7. CurrentSound(b)
      BY <2>2, <2>4 DEF Fit, CurrentSound
    <2>8. ListedAlive(b) /\ b.pcb[b.current].state # "EXITED"
      BY <2>2, <2>3, <2>4, <2>5 DEF Fit, OneExited, ListedAlive
    <2>9. Deleted(b, r, d)
      BY <2>2, <2>5, DeleteType
    <2> HIDE DEF r
    <2>10. Table(r) /\ ListedAlive(r) /\ CurrentSound(r)
      BY <2>2, <2>4, <2>5, <2>6, <2>7, <2>8, <2>9, DeletedKeeps
    <2>11. OneExited(r)
      <3>1. r.current = b.current /\ r.pcb[r.current].state # "EXITED"
        BY <2>2, <2>5, <2>8, <2>9, KernelNodes DEF Deleted
      <3>2. QED
        BY <2>10, <3>1 DEF OneExited, ListedAlive, Placed, Listed
    <2>12. QED
      BY <2>1, <2>10, <2>11 DEF Fit, r, b
  <1>3. QED
    BY <1>1, <1>2

LEMMA CheckExitedSettles ==
    ASSUME NEW k \in Kernels, Fit(k), NEW due, NEW s \in checkExited(k, due)
    PROVE  Settled(s)
  <1> DEFINE r == ReapQueued(k, due)
             d == deleteProcess(r, r.current, due)
  <1>1. Fit(r) /\ ListedAlive(r) /\ r \in Kernels
    BY ReapQueuedKeeps DEF Fit, Table
  <1> HIDE DEF r
  <1>2. CASE r.pcb[r.current].state = "EXITED"
    <2>1. r.current \in Nodes /\ r.current \notin Listed(r) \cup {InitNode, IdleNode}
      BY <1>1, <1>2, KernelNodes DEF Fit, Table, Immortal, CurrentSound
    <2>2. Deleted(r, d, r.current)
      BY <1>1, <2>1, DeleteType
    <2>3. Table(d) /\ ListedAlive(d)
      BY <1>1, <2>1, <2>2, DeletedKeeps DEF Fit
    <2>4. d.pcb[d.current].state \in {"READY", "EXITED"}
      BY <1>2, <2>1, <2>2 DEF Deleted
    <2> HIDE DEF d
    <2>5. Pickable(d) /\ d \in Kernels
      BY <2>3, <2>4 DEF Pickable, Table
    <2>6. Pickable(checkBlocked(d)) /\ checkBlocked(d) \in Kernels
      BY <2>5, CheckBlockedKeeps DEF Pickable, Table
    <2>7. s \in nextProcess(checkBlocked(d))
      BY <1>2 DEF checkExited, r, d
    <2>8. QED
      BY <2>6, <2>7, NextProcessSettles
  <1>3. CASE r.pcb[r.current].state # "EXITED"
    <2>1. s = r
      BY <1>3 DEF checkExited, r
    <2>2. QED
      BY <1>1, <1>3, <2>1 DEF Fit, Settled, Alive, ListedAlive, Placed, Listed
  <1>4. QED
    BY <1>2, <1>3

LEMMA SettledPickable ==
    ASSUME NEW k, Settled(k)
    PROVE  k \in Kernels /\ Fit(k) /\ Pickable(k)
  BY DEF Settled, Table, Fit, Pickable, Alive, ListedAlive, OneExited, Placed, Listed

\* The scheduler settles whatever a handler hands to it, with any timers due.
LEMMA SchedulerSettles ==
    ASSUME NEW k \in Kernels, Fit(k), NEW due, NEW s \in scheduler(k, due)
    PROVE  Settled(s)
  <1> DEFINE a == updateTimers(k, due)
             b == checkBlocked(a)
  <1>1. Mild(k, a)
    BY UpdateTimersMild
  <1> HIDE DEF a
  <1>2. a \in Kernels /\ Fit(a)
    BY <1>1, MildKeeps DEF Fit, Mild
  <1>3. b \in Kernels /\ Fit(b)
    BY <1>2, CheckBlockedKeeps DEF Fit, Table
  <1> HIDE DEF b
  <1>4. PICK m \in checkExited(b, due) : s \in CheckQuantum(m)
    BY DEF scheduler, a, b
  <1>5. Settled(m)
    BY <1>3, <1>4, CheckExitedSettles
  <1>6. CASE s = m
    BY <1>5, <1>6
  <1>7. CASE s \in nextProcess(m)
    BY <1>5, <1>7, SettledPickable, NextProcessSettles
  <1>8. QED
    BY <1>4, <1>6, <1>7 DEF CheckQuantum

-----------------------------------------------------------------------------
(* A new pid.                                                                *)

LEMMA UnusedIdFresh ==
    ASSUME NEW k, Settled(k)
    PROVE  /\ unusedID(k) \in Nat \ {0}
           /\ \A n \in Placed(k) \cup {IdleNode} : k.pcb[n].id # unusedID(k)
  <1> DEFINE ids == {k.pcb[n].id : n \in Placed(k)}
             max == CHOOSE m \in ids : \A i \in ids : i <= m
  <1>1. /\ k \in Kernels /\ k.current \in Placed(k) /\ Placed(k) \subseteq Nodes
        /\ k.pcb[IdleNode].id = IdleId
    BY KernelNodes DEF Settled, Table, Ids, Placed
  <1>2. ids # {}
    BY <1>1
  <1>3. ids \in SUBSET (0..PidLimit) /\ PidLimit \in Nat
    <2>1. \A n \in Nodes : k.pcb[n].id \in 0..PidLimit
      BY <1>1, LimitsAssumption DEF Kernels, Pcbs, Pids, NoId, IdleId
    <2>2. QED
      BY <1>1, <2>1, LimitsAssumption
  <1>4. unusedID(k) = IF max + 1 = IdleId THEN IdleId + 1 ELSE max + 1
    BY DEF unusedID
  <1>5. \A n \in Placed(k) : k.pcb[n].id \in ids
    OBVIOUS
  <1> HIDE DEF ids
  <1>6. max \in ids /\ \A i \in ids : i <= max
    <2>1. \E m \in ids : \A i \in ids : i <= m
      BY <1>2, <1>3, LargestExists
    <2>2. QED
      BY <2>1
  <1> HIDE DEF max
  <1>7. max \in Nat /\ \A n \in Placed(k) : k.pcb[n].id \in Nat /\ k.pcb[n].id <= max
    <2>1. \A i \in ids : i \in Nat
      BY <1>3
    <2>2. QED
      BY <1>5, <1>6, <2>1
  <1>8. QED
    BY <1>1, <1>4, <1>7 DEF IdleId

-----------------------------------------------------------------------------
(* What the handlers do before they call the scheduler.                      *)

LEMMA MildSettled ==
    ASSUME NEW k, Settled(k), NEW r, Mild(k, r)
    PROVE  Settled(r) /\ r.current = k.current
  BY MildKeeps DEF Settled, Table, Mild

LEMMA RestatedSettled ==
    ASSUME NEW k, Settled(k), NEW S, NEW s \in States, s # "EXITED", NEW b \in BOOLEAN
    PROVE  Settled(Restate(k, S, s, b)) /\ Restate(k, S, s, b).current = k.current
  <1> DEFINE r == Restate(k, S, s, b)
  <1>1. k \in Kernels
    BY DEF Settled, Table
  <1>2. Restated(k, r, S, s)
    BY <1>1, RestateType
  <1> HIDE DEF r
  <1>3. Listed(r) = Listed(k) /\ Placed(r) = Placed(k) /\ r.current = k.current
    BY <1>2 DEF Restated, SameButPcb, Listed, Placed
  <1>4. /\ Placed(k) \subseteq Nodes /\ Listed(k) \subseteq Nodes /\ InitNode \in Nodes
        /\ IdleNode \in Nodes /\ k.current \in Nodes
        /\ k.foreground # Null => k.foreground \in Nodes
    BY <1>1, KernelNodes DEF Placed
  <1>5. Table(r)
    BY <1>2, <1>3, <1>4
    DEF Restated, SameButPcb, Settled, Table, Lists, Ids, Immortal, Fore
  <1>6. CurrentSound(r)
    BY <1>2, <1>3, <1>4 DEF Restated, SameButPcb, Settled, CurrentSound
  <1>7. Alive(r)
    BY <1>2, <1>3, <1>4 DEF Restated, Settled, Alive
  <1>8. QED
    BY <1>3, <1>5, <1>6, <1>7 DEF Settled, r

LEMMA SetStateSettled ==
    ASSUME NEW k, Settled(k), NEW S, NEW s \in States, s # "EXITED"
    PROVE  /\ Settled(setProcessState(k, S, s))
           /\ setProcessState(k, S, s).current = k.current
  BY RestatedSettled DEF setProcessState

\* Killing one process: init and idle are refused.
LEMMA KillFit ==
    ASSUME NEW k, Settled(k), NEW n \in Nodes
    PROVE  Fit(setProcessState(k, {n}, "EXITED"))
  <1> DEFINE S == Settable(k, {n}, "EXITED")
             r == setProcessState(k, {n}, "EXITED")
  <1>1. k \in Kernels /\ "EXITED" \in States
    BY DEF Settled, Table, States
  <1>2. Restated(k, r, S, "EXITED")
    BY <1>1, RestateType DEF setProcessState
  <1>3. S \subseteq {n} /\ InitNode \notin S /\ IdleNode \notin S
    BY DEF Settable, Settled, Table, Ids, InitId, IdleId
  <1> HIDE DEF r, S
  <1>4. Listed(r) = Listed(k) /\ Placed(r) = Placed(k)
    BY <1>2 DEF Restated, SameButPcb, Listed, Placed
  <1>5. /\ Placed(k) \subseteq Nodes /\ Listed(k) \subseteq Nodes /\ InitNode \in Nodes
        /\ IdleNode \in Nodes /\ k.current \in Nodes
        /\ k.foreground # Null => k.foreground \in Nodes
    BY <1>1, KernelNodes DEF Placed
  <1>6. Table(r)
    BY <1>2, <1>3, <1>4, <1>5
    DEF Restated, SameButPcb, Settled, Table, Lists, Ids, Immortal, Fore
  <1>7. CurrentSound(r)
    BY <1>2, <1>4, <1>5 DEF Restated, SameButPcb, Settled, CurrentSound
  <1>8. OneExited(r)
    BY <1>2, <1>3, <1>4, <1>5 DEF Restated, Settled, Alive, OneExited
  <1>9. QED
    BY <1>6, <1>7, <1>8 DEF Fit, r

\* The fields the table does not depend on.
LEMMA TimersMild ==
    ASSUME NEW k \in Kernels, NEW T \in TimerLists
    PROVE  Mild(k, [k EXCEPT !.timers = T])
  BY DEF Mild, Kernels

LEMMA KeysMild ==
    ASSUME NEW k \in Kernels, NEW left \in 0..KeyLimit
    PROVE  Mild(k, [k EXCEPT !.keys = left])
  BY DEF Mild, Kernels

LEMMA ForegroundSettled ==
    ASSUME NEW k, Settled(k)
    PROVE  /\ Settled(setProcessToForeground(k, k.current))
           /\ Settled(setProcessToBackground(k, k.current))
           /\ setProcessToBackground(k, k.current).current = k.current
  <1>1. k \in Kernels /\ k.current \in Nodes /\ k.pcb[k.current] \in Pcbs
    BY KernelNodes DEF Settled, Table, Kernels
  <1> DEFINE Marked(b, f) ==
        [Update(k, k.current, [k.pcb[k.current] EXCEPT !.foreground = b])
            EXCEPT !.foreground = f]
  <1>2. ASSUME NEW b \in BOOLEAN, NEW f \in Nodes \cup {Null},
               f # Null => /\ f \in k.allocated
                           /\ IF f = k.current THEN b ELSE k.pcb[f].foreground
        PROVE  Settled(Marked(b, f)) /\ Marked(b, f).current = k.current
    <2> DEFINE e == [k.pcb[k.current] EXCEPT !.foreground = b]
               u == Update(k, k.current, e)
               t == [u EXCEPT !.foreground = f]
    <2>1. e \in Pcbs /\ e.id = k.pcb[k.current].id /\ e.state = k.pcb[k.current].state
                     /\ e.foreground = b
      BY <1>1, <1>2 DEF Pcbs
    <2> HIDE DEF e
    <2>2. SameButPcb(k, u)
          /\ \A m \in Nodes : u.pcb[m] = IF m = k.current THEN e ELSE k.pcb[m]
      BY <1>1, <2>1, UpdateType
    <2> HIDE DEF u
    <2>3. /\ t \in Kernels /\ t.pcb = u.pcb /\ t.ready = u.ready /\ t.blocked = u.blocked
          /\ t.current = u.current /\ t.allocated = u.allocated /\ t.foreground = f
      BY <1>2, <2>2 DEF SameButPcb, Kernels
    <2> HIDE DEF t
    <2>4. /\ Listed(t) = Listed(k) /\ Placed(t) = Placed(k) /\ t.current = k.current
          /\ t.allocated = k.allocated /\ t.ready = k.ready /\ t.blocked = k.blocked
          /\ \A m \in Nodes : /\ t.pcb[m].id = k.pcb[m].id
                              /\ t.pcb[m].state = k.pcb[m].state
                              /\ t.pcb[m].foreground
                                    = IF m = k.current THEN b ELSE k.pcb[m].foreground
      BY <2>1, <2>2, <2>3 DEF SameButPcb, Listed, Placed
    <2>5. Placed(k) \subseteq Nodes /\ Listed(k) \subseteq Nodes /\ InitNode \in Nodes
          /\ IdleNode \in Nodes
      BY <1>1, KernelNodes DEF Placed
    <2>6. Lists(t) /\ Ids(t) /\ Immortal(t)
      BY <2>4, <2>5 DEF Settled, Table, Lists, Ids, Immortal
    <2>7. Fore(t)
      BY <1>2, <2>3, <2>4 DEF Fore
    <2>8. CurrentSound(t)
      BY <1>1, <2>4, <2>5 DEF Settled, CurrentSound
    <2>9. Alive(t)
      BY <2>4, <2>5 DEF Settled, Alive
    <2>10. QED
      BY <2>3, <2>4, <2>6, <2>7, <2>8, <2>9 DEF Settled, Table, t, u, e
  <1>3. ASSUME NEW b \in BOOLEAN
        PROVE  SameButPcb(k, Update(k, k.current, [k.pcb[k.current] EXCEPT !.foreground = b]))
    <2>1. [k.pcb[k.current] EXCEPT !.foreground = b] \in Pcbs
      BY <1>1 DEF Pcbs
    <2>2. QED
      BY <1>1, <2>1, UpdateType
  <1>4. TRUE \in BOOLEAN /\ FALSE \in BOOLEAN
    OBVIOUS
  <1> DEFINE f == IF k.foreground = Null THEN k.current ELSE k.foreground
             g == IF k.foreground # Null /\ k.pcb[k.foreground].id = k.pcb[k.current].id
                  THEN Null ELSE k.foreground
  <1>5. setProcessToForeground(k, k.current) = Marked(TRUE, f)
    BY <1>3, <1>4 DEF setProcessToForeground, SameButPcb
  <1>6. setProcessToBackground(k, k.current) = Marked(FALSE, g)
    BY <1>3, <1>4 DEF setProcessToBackground, SameButPcb
  <1> HIDE DEF Marked
  <1>7. /\ f \in Nodes \cup {Null}
        /\ f # Null => /\ f \in k.allocated
                       /\ IF f = k.current THEN TRUE ELSE k.pcb[f].foreground
    BY <1>1, KernelNodes DEF Settled, Table, Fore, CurrentSound
  <1>8. /\ g \in Nodes \cup {Null}
        /\ g # Null => /\ g \in k.allocated
                       /\ IF g = k.current THEN FALSE ELSE k.pcb[g].foreground
    BY <1>1, KernelNodes DEF Settled, Table, Fore
  <1> HIDE DEF f, g
  <1>9. QED
    BY <1>2, <1>5, <1>6, <1>7, <1>8

-----------------------------------------------------------------------------
(* The steps.                                                                *)

\* The inductive invariant: between two handlers the table is settled.
Inv == Settled(kernel) /\ cont \in [Nodes -> Conts]

LEMMA InitInv == Init => Inv
  <1> SUFFICES ASSUME Init PROVE Inv
    OBVIOUS
  <1> DEFINE b == [Blank EXCEPT !.id = InitId, !.foreground = TRUE, !.stdin = TRUE]
             i == [Blank EXCEPT !.id = IdleId, !.foreground = TRUE]
             f == [n \in Nodes |-> CASE n = InitNode -> b
                                     [] n = IdleNode -> i
                                     [] OTHER        -> Blank]
  <1>1. /\ Blank \in Pcbs /\ Blank.state = "READY"
        /\ b \in Pcbs /\ b.id = InitId /\ b.state = "READY" /\ b.foreground
        /\ i \in Pcbs /\ i.id = IdleId /\ i.state = "READY"
    <2>1. {NoId, InitId, IdleId} \subseteq {NoId} \cup Pids
      BY LimitsAssumption DEF Pids, NoId, InitId, IdleId
    <2>2. Blank \in Pcbs /\ Blank.state = "READY"
      BY <2>1 DEF Blank, Pcbs
    <2>3. b \in Pcbs /\ b.id = InitId /\ b.state = "READY" /\ b.foreground
      BY <2>1, <2>2 DEF Pcbs
    <2>4. i \in Pcbs /\ i.id = IdleId /\ i.state = "READY"
      BY <2>1, <2>2 DEF Pcbs
    <2>5. QED
      BY <2>2, <2>3, <2>4
  <1>2. kernel = [pcb |-> f, allocated |-> {InitNode, IdleNode},
                  ready |-> {}, blocked |-> {}, current |-> InitNode,
                  foreground |-> InitNode,
                  timers |-> {}, keys |-> 0, readers |-> {InitNode}]
    BY DEF Init
  <1> HIDE DEF b, i
  <1>3. /\ f \in [Nodes -> Pcbs]
        /\ f[InitNode] = b /\ f[IdleNode] = i
        /\ \A n \in Nodes : f[n].state = "READY"
    BY <1>1, NodesAssumption
  <1> HIDE DEF f
  <1>4. kernel \in Kernels
    <2>1. {} \in TimerLists
      BY FS_EmptySet DEF TimerLists
    <2>2. QED
      BY <1>2, <1>3, <2>1, NodesAssumption, LimitsAssumption DEF Kernels
  <1>5. /\ kernel.pcb = f /\ kernel.allocated = {InitNode, IdleNode} /\ kernel.ready = {}
        /\ kernel.blocked = {} /\ kernel.current = InitNode /\ kernel.foreground = InitNode
    BY <1>2
  <1>6. Listed(kernel) = {} /\ Placed(kernel) = {InitNode}
    BY <1>5 DEF Listed, Placed
  <1>7. Lists(kernel) /\ Ids(kernel) /\ Immortal(kernel) /\ Fore(kernel)
    BY <1>1, <1>3, <1>5, <1>6, NodesAssumption
    DEF Lists, Ids, Immortal, Fore
  <1>8. CurrentSound(kernel) /\ Alive(kernel)
    BY <1>1, <1>3, <1>5, <1>6, NodesAssumption
    DEF CurrentSound, Alive, InitId, IdleId
  <1>9. cont \in [Nodes -> Conts]
    BY DEF Init, Conts
  <1>10. QED
    BY <1>4, <1>7, <1>8, <1>9 DEF Inv, Settled, Table

LEMMA CallSettles ==
    ASSUME NEW k, Fit(k), Int20h(k)
    PROVE  Settled(kernel')
  BY SchedulerSettles DEF Int20h, Fit, Table

LEMMA SettledCallSettles ==
    ASSUME NEW k, Settled(k), Int20h(k)
    PROVE  Settled(kernel')
  BY SettledPickable, CallSettles

LEMMA GoesType ==
    ASSUME Inv, NEW c \in Conts, Goes(c)
    PROVE  cont' \in [Nodes -> Conts]
  BY KernelNodes DEF Inv, Goes

\* The child is a process of its own: a new node in a ready queue, a new pid.
LEMMA ForkStep ==
    ASSUME Inv, sysFork
    PROVE  Inv'
  <1> DEFINE id == unusedID(kernel)
             me == kernel.pcb[cur]
             Child(n) == [me EXCEPT !.id = id, !.parentId = me.id,
                                    !.childsIds = kernel.pcb[n].childsIds]
             parent == [me EXCEPT !.childsIds = @ \cup {id}]
  <1>1. PICK n \in Nodes \ kernel.allocated :
            /\ kernel' = [Update(Update(kernel, n, Child(n)), cur, parent)
                  EXCEPT !.allocated = @ \cup {n},
                         !.ready     = @ \cup {n},
                         !.readers   = IF me.stdin /\ Cardinality(@) < PdSize
                                       THEN @ \cup {n} ELSE @]
            /\ cont' = [cont EXCEPT ![n] = "user"]
    BY DEF sysFork
  <1>2. /\ kernel \in Kernels /\ cur \in Nodes /\ cur = kernel.current
        /\ cur \in kernel.allocated
        /\ \A m \in Nodes : kernel.pcb[m] \in Pcbs
        /\ Placed(kernel) \subseteq Nodes /\ Listed(kernel) \subseteq Nodes
        /\ Placed(kernel) = Listed(kernel) \cup {cur}
        /\ InitNode \in Nodes /\ IdleNode \in Nodes
        /\ kernel.foreground # Null => kernel.foreground \in Nodes
    BY KernelNodes DEF Inv, Settled, Table, CurrentSound, Kernels, cur, Placed
  <1>3. id \in Pids /\ \A m \in Placed(kernel) \cup {IdleNode} : kernel.pcb[m].id # id
    BY UnusedIdFresh, LimitsAssumption DEF Inv, sysFork, Pids
  <1> HIDE DEF id
  <1>4. me \in Pcbs /\ me.state # "EXITED"
    BY <1>2 DEF Inv, Settled, Alive
  <1> DEFINE child == Child(n)
  <1>5. child \in Pcbs /\ child.id = id /\ child.state = me.state
    BY <1>2, <1>3, <1>4 DEF Pcbs
  <1>6. parent \in Pcbs /\ parent.id = me.id /\ parent.state = me.state
                        /\ parent.foreground = me.foreground
    BY <1>3, <1>4 DEF Pcbs
  <1> DEFINE u1 == Update(kernel, n, child)
             u2 == Update(u1, cur, parent)
  <1>7. kernel' = [u2 EXCEPT !.allocated = @ \cup {n}, !.ready = @ \cup {n},
                             !.readers = IF me.stdin /\ Cardinality(@) < PdSize
                                         THEN @ \cup {n} ELSE @]
    BY <1>1
  <1> HIDE DEF child, parent
  <1>8. SameButPcb(kernel, u1)
        /\ \A m \in Nodes : u1.pcb[m] = IF m = n THEN child ELSE kernel.pcb[m]
    BY <1>2, <1>5, UpdateType
  <1> HIDE DEF u1
  <1>9. SameButPcb(u1, u2)
        /\ \A m \in Nodes : u2.pcb[m] = IF m = cur THEN parent ELSE u1.pcb[m]
    <2>1. u1 \in Kernels
      BY <1>8 DEF SameButPcb
    <2>2. QED
      BY <1>2, <1>6, <2>1, UpdateType
  <1> HIDE DEF u2
  <1> DEFINE rd == IF me.stdin /\ Cardinality(u2.readers) < PdSize
                   THEN u2.readers \cup {n} ELSE u2.readers
  <1>10. u2 \in Kernels /\ n \in Nodes /\ rd \in SUBSET Nodes
    BY <1>9 DEF SameButPcb, Kernels
  <1>11. kernel' = [u2 EXCEPT !.allocated = @ \cup {n}, !.ready = @ \cup {n}, !.readers = rd]
    BY <1>7, <1>10 DEF Kernels
  <1> HIDE DEF rd, me
  <1>12. /\ kernel' \in Kernels /\ kernel'.pcb = u2.pcb
         /\ kernel'.allocated = u2.allocated \cup {n} /\ kernel'.ready = u2.ready \cup {n}
         /\ kernel'.blocked = u2.blocked /\ kernel'.current = u2.current
         /\ kernel'.foreground = u2.foreground
    BY <1>10, <1>11 DEF Kernels
  <1>13. /\ kernel'.allocated = kernel.allocated \cup {n}
         /\ kernel'.ready = kernel.ready \cup {n} /\ kernel'.blocked = kernel.blocked
         /\ kernel'.current = cur /\ kernel'.foreground = kernel.foreground
         /\ kernel'.pcb[n].id = id /\ kernel'.pcb[n].state = me.state
         /\ \A m \in Nodes \ {n} : /\ kernel'.pcb[m].id = kernel.pcb[m].id
                                   /\ kernel'.pcb[m].state = kernel.pcb[m].state
                                   /\ kernel'.pcb[m].foreground = kernel.pcb[m].foreground
    BY <1>2, <1>5, <1>6, <1>8, <1>9, <1>12 DEF SameButPcb, me
  <1>14. Listed(kernel') = Listed(kernel) \cup {n} /\ Placed(kernel') = Placed(kernel) \cup {n}
    BY <1>2, <1>13 DEF Listed, Placed
  <1>15. n \notin Placed(kernel) \cup {InitNode, IdleNode}
    BY <1>2 DEF Inv, Settled, Table, Lists
  <1>16. Lists(kernel')
    BY <1>2, <1>13, <1>14, <1>15 DEF Inv, Settled, Table, Lists, Listed
  <1>17. Ids(kernel')
    BY <1>2, <1>3, <1>13, <1>14, <1>15 DEF Inv, Settled, Table, Ids
  <1>18. Immortal(kernel')
    BY <1>2, <1>13, <1>15 DEF Inv, Settled, Table, Immortal
  <1>19. Fore(kernel')
    BY <1>2, <1>13 DEF Inv, Settled, Table, Fore
  <1>20. CurrentSound(kernel')
    BY <1>2, <1>3, <1>13, <1>14, <1>15 DEF Inv, Settled, CurrentSound
  <1>21. Alive(kernel')
    BY <1>2, <1>4, <1>13, <1>14 DEF Inv, Settled, Alive
  <1>22. cont' \in [Nodes -> Conts]
    BY <1>1 DEF Inv, Conts
  <1>23. QED
    BY <1>12, <1>16, <1>17, <1>18, <1>19, <1>20, <1>21, <1>22 DEF Inv, Settled, Table

\* priority moves a process from one list to the other.
LEMMA PriorityStep ==
    ASSUME Inv, arqSysPriority
    PROVE  Inv'
  <1> DEFINE k == kernel
  <1>1. PICK n \in k.ready \cup k.blocked :
            \/ kernel' = [k EXCEPT !.ready = @ \ {n}, !.blocked = @ \cup {n}]
            \/ kernel' = [k EXCEPT !.ready = @ \cup {n}, !.blocked = @ \ {n}]
    BY DEF arqSysPriority
  <1>2. k \in Kernels /\ n \in Listed(k) /\ Listed(k) \subseteq Nodes
    BY KernelNodes DEF Inv, Settled, Table, Listed
  <1>3. /\ kernel' \in Kernels /\ kernel'.pcb = k.pcb /\ kernel'.allocated = k.allocated
        /\ kernel'.current = k.current /\ kernel'.foreground = k.foreground
        /\ \/ kernel'.ready = k.ready \ {n} /\ kernel'.blocked = k.blocked \cup {n}
           \/ kernel'.ready = k.ready \cup {n} /\ kernel'.blocked = k.blocked \ {n}
    <2>1. n \in Nodes
      BY <1>2
    <2>2. CASE kernel' = [k EXCEPT !.ready = @ \ {n}, !.blocked = @ \cup {n}]
      BY <1>2, <2>1, <2>2 DEF Kernels
    <2>3. CASE kernel' = [k EXCEPT !.ready = @ \cup {n}, !.blocked = @ \ {n}]
      BY <1>2, <2>1, <2>3 DEF Kernels
    <2>4. QED
      BY <1>1, <2>2, <2>3
  <1>4. Listed(kernel') = Listed(k) /\ Placed(kernel') = Placed(k)
        /\ kernel'.ready \cap kernel'.blocked = {}
    BY <1>2, <1>3 DEF Inv, Settled, Table, Lists, Listed, Placed
  <1>5. Settled(kernel')
    BY <1>3, <1>4 DEF Inv, Settled, Table, Lists, Ids, Immortal, Fore, CurrentSound, Alive
  <1>6. QED
    BY <1>5 DEF Inv, arqSysPriority, Stays

\* The loop of wait and the loop of read, entered with a settled table.
LEMMA BlockAtStep ==
    ASSUME Inv, NEW k, Settled(k), NEW c \in Conts, BlockAt(k, c)
    PROVE  Inv'
  <1>1. "BLOCKED" \in States /\ "BLOCKED" # "EXITED"
    BY DEF States
  <1>2. Settled(setProcessState(k, {cur}, "BLOCKED"))
    BY <1>1, SetStateSettled
  <1>3. QED
    BY <1>2, SettledCallSettles, GoesType DEF BlockAt, Inv

LEMMA WaitLoopStep ==
    ASSUME Inv, NEW k, Settled(k), k.current = cur, WaitLoop(k)
    PROVE  Inv'
  <1>1. {"wait", "user"} \subseteq Conts
    BY DEF Conts
  <1>2. CASE BlockAt(k, "wait")
    BY <1>1, <1>2, BlockAtStep
  <1>3. CASE kernel' = setProcessToForeground(k, cur) /\ Goes("user")
    BY <1>1, <1>3, ForegroundSettled, GoesType DEF Inv
  <1>4. QED
    BY <1>2, <1>3 DEF WaitLoop

LEMMA ReadLoopStep ==
    ASSUME Inv, ReadLoop("read")
    PROVE  Inv'
  <1>1. {"read", "user"} \subseteq Conts /\ kernel \in Kernels
    BY DEF Conts, Inv, Settled, Table
  <1>2. CASE BlockAt(kernel, "read")
    BY <1>1, <1>2, BlockAtStep DEF Inv
  <1>3. ASSUME NEW left \in 0..kernel.keys, kernel' = [kernel EXCEPT !.keys = left],
               Goes("user")
        PROVE  Inv'
    <2>1. left \in 0..KeyLimit
      BY <1>1, LimitsAssumption DEF Kernels
    <2>2. Settled(kernel')
      BY <1>1, <1>3, <2>1, KeysMild, MildSettled DEF Inv
    <2>3. QED
      BY <1>1, <1>3, <2>2, GoesType DEF Inv
  <1>4. QED
    BY <1>2, <1>3 DEF ReadLoop

LEMMA FaultExitStep ==
    ASSUME Inv, FaultExit
    PROVE  Inv'
  <1>1. PICK left \in {kernel.keys, IF kernel.keys = 0 THEN 0 ELSE kernel.keys - 1} :
            Int20h(setProcessState([kernel EXCEPT !.keys = left], {cur}, "EXITED"))
    BY DEF FaultExit
  <1>2. kernel \in Kernels /\ left \in 0..KeyLimit /\ cur \in Nodes
    <2>1. kernel \in Kernels
      BY DEF Inv, Settled, Table
    <2>2. kernel.keys \in 0..KeyLimit /\ cur \in Nodes
      BY <2>1, KernelNodes DEF Kernels, cur
    <2>3. QED
      BY <1>1, <2>1, <2>2, LimitsAssumption
  <1> DEFINE k == [kernel EXCEPT !.keys = left]
  <1>3. Settled(k)
    BY <1>2, KeysMild, MildSettled DEF Inv
  <1> HIDE DEF k
  <1>4. Settled(kernel')
    BY <1>1, <1>2, <1>3, KillFit, CallSettles DEF k
  <1>5. "user" \in Conts
    BY DEF Conts
  <1>6. QED
    BY <1>4, <1>5, GoesType DEF FaultExit, Inv

LEMMA AddKeyStep ==
    ASSUME Inv, addKey
    PROVE  Inv'
  <1>1. PICK wake : kernel' = [setProcessState(kernel, wake, "READY") EXCEPT !.keys = @ + 1]
    BY DEF addKey
  <1> DEFINE r == setProcessState(kernel, wake, "READY")
  <1>2. kernel \in Kernels /\ "READY" \in States
    BY DEF Inv, Settled, Table, States
  <1>3. Mild(kernel, r) /\ r.keys = kernel.keys
    <2>1. Restated(kernel, r, Settable(kernel, wake, "READY"), "READY")
      BY <1>2, RestateType DEF setProcessState
    <2> HIDE DEF r
    <2>2. QED
      BY <2>1 DEF Restated, SameButPcb, Mild
  <1> HIDE DEF r
  <1>4. Settled(r) /\ r \in Kernels
    BY <1>3, MildSettled DEF Inv, Mild
  <1>5. r.keys + 1 \in 0..KeyLimit
    BY <1>2, <1>3, LimitsAssumption DEF addKey, Kernels
  <1>6. kernel' = [r EXCEPT !.keys = r.keys + 1]
    BY <1>1, <1>4 DEF r
  <1>7. Settled(kernel')
    BY <1>4, <1>5, <1>6, KeysMild, MildSettled
  <1>8. QED
    BY <1>7 DEF Inv, addKey, Stays

LEMMA ClosePdStep ==
    ASSUME Inv, arqSysClosePd
    PROVE  Inv'
  <1> DEFINE e == [kernel.pcb[cur] EXCEPT !.stdin = FALSE]
  <1>1. kernel \in Kernels /\ cur \in Nodes /\ kernel.pcb[cur] \in Pcbs
    BY KernelNodes DEF Inv, Settled, Table, Kernels, cur
  <1>2. e \in Pcbs /\ e.id = kernel.pcb[cur].id /\ e.state = kernel.pcb[cur].state
                   /\ e.foreground = kernel.pcb[cur].foreground
    BY <1>1 DEF Pcbs
  <1>3. kernel' = Update(kernel, cur, e)
    BY DEF arqSysClosePd
  <1> HIDE DEF e
  <1>4. Mild(kernel, kernel')
    <2>1. PICK k : k = kernel'
      OBVIOUS
    <2>2. /\ SameButPcb(kernel, k)
          /\ \A m \in Nodes : k.pcb[m] = IF m = cur THEN e ELSE kernel.pcb[m]
      BY <1>1, <1>2, <1>3, <2>1, UpdateType
    <2>3. Mild(kernel, k)
      BY <1>2, <2>2 DEF SameButPcb, Mild
    <2>4. QED
      BY <2>1, <2>3
  <1>5. QED
    BY <1>4, MildSettled DEF Inv, arqSysClosePd, Stays

LEMMA NextInv == Inv /\ [Next]_vars => Inv'
  <1> SUFFICES ASSUME Inv, [Next]_vars PROVE Inv'
    OBVIOUS
  <1>0. /\ Settled(kernel) /\ kernel \in Kernels /\ cur \in Nodes /\ kernel.current = cur
        /\ Placed(kernel) \subseteq Nodes /\ cont \in [Nodes -> Conts]
        /\ {"READY", "BLOCKED", "YIELDED"} \subseteq States \ {"EXITED"}
        /\ {"user", "sleep", "fault"} \subseteq Conts
    BY KernelNodes DEF Inv, Settled, Table, cur, States, Conts, Placed
  <1>1. CASE TimerTick
    BY <1>0, <1>1, SettledCallSettles DEF TimerTick, Stays, Inv
  <1>2. CASE addKey
    BY <1>2, AddKeyStep
  <1>3. CASE CtrlC
    BY <1>0, <1>3, KernelNodes, KillFit, CallSettles DEF CtrlC, Stays, Inv
  <1>4. CASE sysFork
    BY <1>4, ForkStep
  <1>5. CASE arqSysExit
    BY <1>0, <1>5, KillFit, CallSettles DEF arqSysExit, Stays, Inv
  <1>6. CASE arqSysKill
    BY <1>0, <1>6, KillFit, CallSettles DEF arqSysKill, Stays, Inv
  <1>7. CASE arqSysBlock
    <2>1. PICK n \in Placed(kernel) : Int20h(Restate(kernel, ManualTargets(n), "BLOCKED", TRUE))
      BY <1>7 DEF arqSysBlock
    <2>2. Settled(kernel')
      BY <1>0, <2>1, RestatedSettled, SettledCallSettles
    <2>3. QED
      BY <1>0, <1>7, <2>2 DEF arqSysBlock, Stays, Inv
  <1>8. CASE arqSysUnblock
    <2>1. PICK n \in Placed(kernel) : Int20h(Restate(kernel, ManualTargets(n), "READY", FALSE))
      BY <1>8 DEF arqSysUnblock
    <2>2. Settled(kernel')
      BY <1>0, <2>1, RestatedSettled, SettledCallSettles
    <2>3. QED
      BY <1>0, <1>8, <2>2 DEF arqSysUnblock, Stays, Inv
  <1>9. CASE arqSysChangeState
    <2>1. PICK n \in Placed(kernel) :
              \/ Int20h(setProcessState(kernel, {n}, "READY"))
              \/ Int20h(setProcessState(kernel, {n}, "BLOCKED"))
              \/ Int20h(kernel)
      BY <1>9 DEF arqSysChangeState
    <2>2. Settled(kernel')
      BY <1>0, <2>1, SetStateSettled, SettledCallSettles
    <2>3. QED
      BY <1>0, <1>9, <2>2 DEF arqSysChangeState, Stays, Inv
  <1>10. CASE arqSysPriority
    BY <1>10, PriorityStep
  <1>11. CASE arqSysYield
    <2>1. Settled(kernel')
      BY <1>0, <1>11, SetStateSettled, SettledCallSettles DEF arqSysYield
    <2>2. QED
      BY <1>0, <1>11, <2>1 DEF arqSysYield, Stays, Inv
  <1>12. CASE arqSysSetToForeground
    BY <1>0, <1>12, ForegroundSettled DEF arqSysSetToForeground, Stays, Inv
  <1>13. CASE arqSysSetToBackground
    BY <1>0, <1>13, ForegroundSettled DEF arqSysSetToBackground, Stays, Inv
  <1>14. CASE arqSysWait
    BY <1>0, <1>14, ForegroundSettled, WaitLoopStep DEF arqSysWait
  <1>15. CASE WaitAgain
    BY <1>0, <1>15, WaitLoopStep DEF WaitAgain
  <1>16. CASE sleep
    <2> DEFINE T == Link(kernel.timers, cur, kernel.pcb[cur].id)
               k == [kernel EXCEPT !.timers = T]
    <2>1. T \in TimerLists
      <3>1. kernel.timers \in TimerLists /\ cur \in Nodes
            /\ kernel.pcb[cur].id \in {NoId} \cup Pids
        BY <1>0, KernelNodes DEF Kernels, Pcbs, cur
      <3>2. QED
        BY <3>1, LinkType
    <2>2. BlockAt(k, "sleep")
      BY <1>16 DEF sleep
    <2> HIDE DEF T
    <2>3. Settled(k)
      BY <1>0, <2>1, TimersMild, MildSettled
    <2> HIDE DEF k
    <2>4. QED
      BY <1>0, <2>2, <2>3, BlockAtStep
  <1>17. CASE SleepEnd
    <2>1. Unlink(kernel.timers, {[pid |-> kernel.pcb[cur].id]}) \in TimerLists
      BY <1>0, KernelNodes, FS_Singleton, UnlinkType
    <2>2. Settled(kernel')
      BY <1>0, <1>17, <2>1, TimersMild, MildSettled DEF SleepEnd
    <2>3. QED
      BY <1>0, <1>17, <2>2, GoesType DEF SleepEnd, Inv
  <1>18. CASE arqSysRead
    BY <1>18, ReadLoopStep DEF arqSysRead
  <1>19. CASE ReadAgain
    BY <1>19, ReadLoopStep DEF ReadAgain
  <1>20. CASE arqSysClosePd
    BY <1>20, ClosePdStep
  <1>21. CASE exceptionDispatcher
    BY <1>0, <1>21, BlockAtStep, FaultExitStep DEF exceptionDispatcher
  <1>22. CASE FaultAgain
    BY <1>0, <1>22, BlockAtStep, FaultExitStep DEF FaultAgain
  <1>23. CASE UNCHANGED vars
    BY <1>23 DEF vars, Inv
  <1>24. QED
    BY <1>1, <1>2, <1>3, <1>4, <1>5, <1>6, <1>7, <1>8, <1>9, <1>10, <1>11, <1>12,
       <1>13, <1>14, <1>15, <1>16, <1>17, <1>18, <1>19, <1>20, <1>21, <1>22, <1>23
    DEF Next

-----------------------------------------------------------------------------
(* The theorems.                                                             *)

\* The inductive invariant holds in every reachable state: whatever the system
\* calls, the interrupts and the due timers, every handler of scheduler.c and
\* syscallsDispatcher.c leaves the process table settled.
THEOREM Settles == Spec => []Inv
  BY InitInv, NextInv, PTL DEF Spec

\* Every field of every PCB and every list of the kernel keeps its type: no link
\* of scheduler.c leads outside the PCB nodes.
THEOREM TypeCorrect == Spec => []TypeOK
  <1>1. Inv => TypeOK
    BY DEF Inv, Settled, Table, TypeOK
  <1>2. QED
    BY <1>1, Settles, PTL

\* For any number of processes the lists of scheduler.c stay disjoint, idle is in
\* none, and none leads to a PCB that deleteProcess has freed.
THEOREM Placement == Spec => []PlacementSound
  <1>1. Inv => PlacementSound
    BY KernelNodes
    DEF Inv, Settled, Table, Lists, CurrentSound, PlacementSound, Listed, cur
  <1>2. QED
    BY <1>1, Settles, PTL

\* unusedID and deleteProcess never leave two processes in the lists with one
\* pid, so getEntry finds the process it is asked for.
THEOREM PidsUnique == Spec => []UniqueIds
  <1>1. Inv => UniqueIds
    <2> SUFFICES ASSUME Inv, NEW m \in Placed(kernel) \cup {IdleNode},
                        NEW n \in Placed(kernel) \cup {IdleNode},
                        kernel.pcb[m].id = kernel.pcb[n].id
                 PROVE  m = n
      BY DEF UniqueIds
    <2>1. Placed(kernel) = Listed(kernel) \cup {kernel.current}
      BY KernelNodes DEF Inv, Settled, Table
    <2>2. QED
      BY <2>1 DEF Inv, Settled, Table, Ids, CurrentSound
  <1>2. QED
    BY <1>1, Settles, PTL

\* Every process that a handler sets to EXITED is deleted by the scheduler call
\* that ends the handler.
THEOREM DeadAreDeleted == Spec => []NoneExited
  <1>1. Inv => NoneExited
    BY DEF Inv, Settled, Alive, NoneExited
  <1>2. QED
    BY <1>1, Settles, PTL

\* The foreground pointer, which Ctrl-C kills, never outlives its process.
THEOREM ForegroundSafe == Spec => []ForegroundSound
  <1>1. Inv => ForegroundSound
    BY DEF Inv, Settled, Table, Fore, ForegroundSound
  <1>2. QED
    BY <1>1, Settles, PTL

-----------------------------------------------------------------------------
(***************************************************************************)
(* Which processes a scheduler call may drop from the timers and from the  *)
(* lists.  As long as no sleeper falls out of all lists each one keeps its *)
(* timer (TimersSound): the pids in the lists are unique, so removeFromList *)
(* finds the right one.  And the only process that can fall out of every   *)
(* list is a current one that was READY (OnlyReadyLost).                   *)
(***************************************************************************)

LostIn(k) == k.allocated \ (Placed(k) \cup {IdleNode})

SleeperLost(k, c) == \E n \in LostIn(k) : c[n] = "sleep"

Matched(k, c) ==
    /\ \A t \in k.timers : /\ t.node \in Placed(k) /\ c[t.node] = "sleep"
                           /\ t.pid = k.pcb[t.node].id /\ t.turn = 1
    /\ \A n \in Placed(k) : c[n] = "sleep" => \E t \in k.timers : t.node = n

\* The timers and the continuations agree, until a sleeper is lost.
Sleepers(k, c) == SleeperLost(k, c) \/ Matched(k, c)

LostReady(k) == \A n \in LostIn(k) : k.pcb[n].state \in {"READY", "EXITED"}

Exited(k, n) == k.pcb[n].state = "EXITED"

\* What a part of a scheduler call may do: it drops timers (as long as they can be
\* told by their pids) and gives back nodes of the dead only, nobody dies or gets
\* another pid, and it links no process that was not linked.
Passes(k, t) ==
    /\ k \in Kernels /\ t \in Kernels
    /\ \A n \in Nodes : t.pcb[n].id = k.pcb[n].id
    /\ Single(k.timers) => /\ t.timers \subseteq k.timers
                           /\ \A u \in k.timers : Exited(k, u.node) \/ u \in t.timers
    /\ \A n \in Nodes : Exited(t, n) => Exited(k, n)
    /\ t.allocated \subseteq k.allocated
    /\ \A n \in k.allocated \ t.allocated : Exited(k, n) /\ n \in Placed(k) \cup {IdleNode}
    /\ Placed(t) \subseteq Placed(k) \cup {IdleNode}

LEMMA PassesTransitive ==
    ASSUME NEW k, NEW r, NEW t, Passes(k, r), Passes(r, t)
    PROVE  Passes(k, t)
  <1>1. k.allocated \subseteq Nodes /\ r.allocated \subseteq Nodes /\ k.timers \in TimerLists
    BY KernelNodes DEF Passes
  <1>2. ASSUME Single(k.timers)
        PROVE  /\ t.timers \subseteq k.timers
               /\ \A u \in k.timers : Exited(k, u.node) \/ u \in t.timers
    <2>1. r.timers \subseteq k.timers
      BY <1>2 DEF Passes
    <2>2. Single(r.timers)
      BY <1>2, <2>1 DEF Single
    <2>3. \A u \in k.timers : u.node \in Nodes
      BY <1>1, TimerFacts
    <2>4. QED
      BY <1>2, <2>1, <2>2, <2>3 DEF Passes
  <1>3. \A n \in k.allocated \ t.allocated : Exited(k, n) /\ n \in Placed(k) \cup {IdleNode}
    BY <1>1 DEF Passes
  <1>4. QED
    BY <1>2, <1>3 DEF Passes

LEMMA MildPasses ==
    ASSUME NEW k \in Kernels, NEW r, Mild(k, r), r.timers = k.timers
    PROVE  Passes(k, r)
  BY DEF Mild, Passes, Exited, Placed

LEMMA MildLost ==
    ASSUME NEW k \in Kernels, NEW r, Mild(k, r), LostReady(k)
    PROVE  LostReady(r)
  BY KernelNodes DEF Mild, LostReady, LostIn, Placed

-----------------------------------------------------------------------------
(* The operators of the scheduler.                                           *)

\* updateTimers unlinks the timers of the dead, and revives nobody.
LEMMA UpdateTimersPasses ==
    ASSUME NEW k \in Kernels, NEW due
    PROVE  LET r == updateTimers(k, due)
           IN  /\ Passes(k, r)
               /\ Single(k.timers) => r.timers = {u \in k.timers : ~Exited(k, u.node)}
               /\ \A n \in Nodes : Exited(k, n) => Exited(r, n)
  <1> DEFINE S == Settable(k, Ringing(k, due), "READY")
             r == setProcessState(k, Ringing(k, due), "READY")
             gone == {u \in k.timers : k.pcb[u.node].state = "EXITED"}
             T == Unlink(k.timers, gone)
             t == [r EXCEPT !.timers = T]
  <1>1. Restated(k, r, S, "READY")
    BY RestateType DEF setProcessState, States
  <1>2. \A n \in S : ~Exited(k, n)
    BY DEF Settable, Ringing, Exited
  <1>3. k.timers \in TimerLists /\ gone \in SUBSET k.timers /\ IsFiniteSet(gone)
    BY KernelNodes, TimerFacts, FS_Subset
  <1>4. updateTimers(k, due) = t
    BY <1>1 DEF updateTimers, Restated, SameButPcb
  <1>5. k.timers \ gone = {u \in k.timers : ~Exited(k, u.node)}
    BY DEF Exited
  <1> HIDE DEF r, S, gone
  <1>6. T \in TimerLists /\ (Single(k.timers) => T = k.timers \ gone)
    BY <1>3, UnlinkType, UnlinkSingle
  <1> HIDE DEF T
  <1>7. /\ t \in Kernels /\ t.timers = T /\ t.pcb = r.pcb /\ t.allocated = r.allocated
        /\ t.ready = r.ready /\ t.blocked = r.blocked /\ t.current = r.current
    BY <1>1, <1>6 DEF Restated, SameButPcb, Kernels
  <1> HIDE DEF t
  <1>8. \A n \in Nodes : (Exited(t, n) <=> Exited(k, n)) /\ t.pcb[n].id = k.pcb[n].id
    BY <1>1, <1>2, <1>7 DEF Restated, Exited
  <1>9. Placed(t) = Placed(k) /\ t.allocated = k.allocated
    BY <1>1, <1>7 DEF Restated, SameButPcb, Placed
  <1>10. Passes(k, t)
    BY <1>5, <1>6, <1>7, <1>8, <1>9 DEF Passes
  <1>11. QED
    BY <1>4, <1>5, <1>6, <1>7, <1>8, <1>10

\* The other parts of deleteProcess leave the timers alone.
LEMMA ClosePDsTimers ==
    ASSUME NEW k \in Kernels, NEW n
    PROVE  closePDs(k, n).timers = k.timers
  BY DEF closePDs, Update, Kernels

LEMMA CheckChildsTimers ==
    ASSUME NEW k \in Kernels, NEW n
    PROVE  checkChilds(k, n).timers = k.timers
  BY DEF checkChilds, Kernels

LEMMA SetParentReadyTimers ==
    ASSUME NEW k \in Kernels, NEW n
    PROVE  setParentReady(k, n).timers = k.timers
  BY DEF setParentReady, setProcessState, Restate, Update, Kernels

LEMMA FreePCBTimers ==
    ASSUME NEW k \in Kernels, NEW n
    PROVE  freePCB(k, n).timers = k.timers
  BY DEF freePCB, Kernels

LEMMA DeleteTimers ==
    ASSUME NEW k \in Kernels, NEW d \in Nodes, NEW due, Single(k.timers)
    PROVE  deleteProcess(k, d, due).timers = {u \in k.timers : ~Exited(k, u.node)}
  <1> DEFINE k1 == [k EXCEPT !.foreground = IF @ = d THEN Null ELSE @]
             k2 == updateTimers(k1, due)
             k3 == closePDs(k2, d)
             k4 == checkChilds(k3, d)
             k5 == setParentReady(k4, d)
             r  == deleteProcess(k, d, due)
  <1>1. k1 \in Kernels /\ k1.pcb = k.pcb /\ k1.timers = k.timers
    BY DEF Kernels
  <1>2. r = freePCB(k5, d)
    BY DEF deleteProcess
  <1> HIDE DEF k1, r
  <1>4. k2 \in Kernels /\ k2.timers = {u \in k.timers : ~Exited(k, u.node)}
    BY <1>1, UpdateTimersPasses DEF Passes, Exited
  <1> HIDE DEF k2
  <1>5. k3 \in Kernels /\ k3.timers = k2.timers
    BY <1>4, ClosePDsTimers, ClosePDsMild DEF Mild
  <1> HIDE DEF k3
  <1>6. k4 \in Kernels /\ k4.timers = k3.timers
    BY <1>5, CheckChildsTimers, CheckChildsMild DEF Mild
  <1> HIDE DEF k4
  <1>7. k5 \in Kernels /\ k5.timers = k4.timers
    BY <1>6, SetParentReadyTimers, SetParentReadyMild DEF Mild
  <1> HIDE DEF k5
  <1>8. r.timers = {u \in k.timers : ~Exited(k, u.node)}
    BY <1>2, <1>4, <1>5, <1>6, <1>7, FreePCBTimers
  <1>9. QED
    BY <1>8 DEF r

LEMMA DeletePasses ==
    ASSUME NEW k \in Kernels, NEW d \in Placed(k), Exited(k, d), NEW due
    PROVE  Passes(k, deleteProcess(k, d, due))
  <1> DEFINE r == deleteProcess(k, d, due)
  <1>1. d \in Nodes
    BY KernelNodes DEF Placed
  <1>2. Deleted(k, r, d)
    BY <1>1, DeleteType
  <1>3. Single(k.timers) => r.timers = {u \in k.timers : ~Exited(k, u.node)}
    BY <1>1, DeleteTimers
  <1> HIDE DEF r
  <1>4. \A n \in Nodes : (Exited(r, n) => Exited(k, n)) /\ r.pcb[n].id = k.pcb[n].id
    BY <1>2 DEF Deleted, Exited
  <1>5. Placed(r) = Placed(k)
    BY <1>2 DEF Deleted, Placed
  <1>6. Passes(k, r)
    BY <1>2, <1>3, <1>4, <1>5 DEF Deleted, Passes
  <1>7. QED
    BY <1>6 DEF r

\* Deleting the one process that fell out of the lists.
LEMMA DeleteLost ==
    ASSUME NEW k \in Kernels, NEW d \in Nodes, NEW due,
           \A n \in LostIn(k) \ {d} : k.pcb[n].state \in {"READY", "EXITED"}
    PROVE  LostReady(deleteProcess(k, d, due))
  <1>1. Deleted(k, deleteProcess(k, d, due), d)
    BY DeleteType
  <1>2. QED
    BY <1>1, KernelNodes DEF Deleted, LostReady, LostIn, Placed

LEMMA CheckBlockedPasses ==
    ASSUME NEW k \in Kernels
    PROVE  /\ Passes(k, checkBlocked(k))
           /\ LostReady(k) => LostReady(checkBlocked(k))
           /\ checkBlocked(k).allocated = k.allocated
           /\ \A n \in Nodes : Exited(k, n) <=> Exited(checkBlocked(k), n)
           /\ Placed(checkBlocked(k)) = Placed(k)
  <1> DEFINE woken == {n \in k.blocked : k.pcb[n].state # "BLOCKED"}
             r == [k EXCEPT !.blocked = @ \ woken, !.ready = @ \cup woken]
  <1>1. /\ r \in Kernels /\ r.pcb = k.pcb /\ r.allocated = k.allocated
        /\ r.current = k.current /\ r.timers = k.timers
        /\ r.ready = k.ready \cup woken /\ r.blocked = k.blocked \ woken
    BY DEF Kernels
  <1>2. woken \subseteq k.blocked
    OBVIOUS
  <1>3. checkBlocked(k) = r
    BY DEF checkBlocked
  <1> HIDE DEF woken, r
  <1>4. Placed(r) = Placed(k)
    BY <1>1, <1>2 DEF Placed
  <1>5. QED
    BY <1>1, <1>3, <1>4 DEF Passes, Exited, LostReady, LostIn

\* Where nextProcess leaves the current process.
LEMMA RequeuePasses ==
    ASSUME NEW k \in Kernels, LostReady(k)
    PROVE  LET r == Requeue(k)
           IN  /\ r \in Kernels
               /\ r.timers = k.timers /\ r.allocated = k.allocated /\ r.current = k.current
               /\ Listed(r) \subseteq Listed(k) \cup {k.current}
               /\ \A n \in Nodes : (Exited(r, n) => Exited(k, n)) /\ r.pcb[n].id = k.pcb[n].id
               /\ \A n \in k.allocated \ (Listed(r) \cup {IdleNode}) :
                     r.pcb[n].state \in {"READY", "EXITED"}
  <1> DEFINE c == k.current
             s == k.pcb[c].state
             e == [k.pcb[c] EXCEPT !.state = "READY"]
             rested == Update(k, c, e)
             r == Requeue(k)
  <1>1. c \in Nodes /\ k.pcb[c] \in Pcbs /\ "READY" \in States /\ k.allocated \subseteq Nodes
        /\ s \in States
    BY KernelNodes DEF Kernels, Pcbs, States
  <1>2. e \in Pcbs /\ e.state = "READY" /\ e.id = k.pcb[c].id
    BY <1>1, WithState
  <1>3. /\ SameButPcb(k, rested)
        /\ \A m \in Nodes : rested.pcb[m] = IF m = c THEN e ELSE k.pcb[m]
    BY <1>1, <1>2, UpdateType
  <1>4. \A n \in k.allocated \ (Listed(k) \cup {IdleNode, c}) :
            k.pcb[n].state \in {"READY", "EXITED"}
    BY KernelNodes DEF LostReady, LostIn
  <1>5. CASE c = IdleNode
    <2>1. r = rested
      BY <1>5 DEF Requeue
    <2> HIDE DEF e, rested, r
    <2>2. Listed(r) = Listed(k)
      BY <1>3, <2>1 DEF SameButPcb, Listed
    <2>3. QED
      BY <1>1, <1>2, <1>3, <1>4, <1>5, <2>1, <2>2 DEF SameButPcb, Exited, r
  <1>6. CASE c # IdleNode /\ s = "BLOCKED"
    <2>1. r = [k EXCEPT !.blocked = @ \cup {c}]
      BY <1>6 DEF Requeue
    <2> HIDE DEF r
    <2>2. /\ r \in Kernels /\ r.pcb = k.pcb /\ r.ready = k.ready
          /\ r.blocked = k.blocked \cup {c} /\ r.allocated = k.allocated
          /\ r.timers = k.timers /\ r.current = k.current
      BY <1>1, <2>1 DEF Kernels
    <2>3. Listed(r) = Listed(k) \cup {c}
      BY <2>2 DEF Listed
    <2>4. QED
      BY <1>4, <2>2, <2>3 DEF Exited, r
  <1>7. CASE c # IdleNode /\ s \in {"RUNNING", "YIELDED"}
    <2>1. r = [rested EXCEPT !.ready = @ \cup {c}]
      BY <1>7 DEF Requeue
    <2> HIDE DEF e, rested, r
    <2>2. /\ r \in Kernels /\ r.pcb = rested.pcb /\ r.ready = rested.ready \cup {c}
          /\ r.blocked = rested.blocked /\ r.allocated = rested.allocated
          /\ r.timers = rested.timers /\ r.current = rested.current
      BY <1>1, <1>3, <2>1 DEF SameButPcb, Kernels
    <2>3. Listed(r) = Listed(k) \cup {c}
      BY <1>3, <2>2 DEF SameButPcb, Listed
    <2>4. QED
      BY <1>1, <1>2, <1>3, <1>4, <2>2, <2>3 DEF SameButPcb, Exited, r
  <1>8. CASE c # IdleNode /\ s \in {"READY", "EXITED"}
    <2>1. r = k
      BY <1>8 DEF Requeue
    <2>2. QED
      BY <1>4, <1>8, <2>1 DEF Exited
  <1>9. QED
    BY <1>1, <1>5, <1>6, <1>7, <1>8 DEF States

LEMMA DispatchFields ==
    ASSUME NEW k \in Kernels, NEW n \in Nodes
    PROVE  LET t == Dispatch(k, n)
           IN  /\ t.timers = k.timers /\ t.allocated = k.allocated
               /\ Placed(t) = Listed(k) \cup {n}
               /\ \A m \in Nodes :
                     /\ t.pcb[m].id = k.pcb[m].id
                     /\ t.pcb[m].state = IF m = n THEN "RUNNING" ELSE k.pcb[m].state
  <1> DEFINE e == [k.pcb[n] EXCEPT !.state = "RUNNING"]
             r == Update(k, n, e)
             fore == IF k.pcb[n].foreground /\ n # IdleNode THEN n ELSE r.foreground
             t == [r EXCEPT !.ready = @ \ {n}, !.current = n, !.foreground = fore]
  <1>1. k.pcb[n] \in Pcbs /\ "RUNNING" \in States
    BY DEF Kernels, States
  <1>2. e \in Pcbs /\ e.state = "RUNNING" /\ e.id = k.pcb[n].id
    BY <1>1, WithState
  <1>3. Dispatch(k, n) = t
    BY DEF Dispatch
  <1> HIDE DEF e
  <1>4. SameButPcb(k, r) /\ \A m \in Nodes : r.pcb[m] = IF m = n THEN e ELSE k.pcb[m]
    BY <1>2, UpdateType
  <1> HIDE DEF r, fore
  <1>5. /\ t.pcb = r.pcb /\ t.ready = r.ready \ {n} /\ t.blocked = r.blocked
        /\ t.allocated = r.allocated /\ t.timers = r.timers /\ t.current = n
    BY <1>4 DEF SameButPcb, Kernels
  <1> HIDE DEF t
  <1>6. Placed(t) = Listed(k) \cup {n}
    BY <1>4, <1>5 DEF SameButPcb, Placed, Listed
  <1>7. QED
    BY <1>2, <1>3, <1>4, <1>5, <1>6 DEF SameButPcb

LEMMA NextProcessPasses ==
    ASSUME NEW k \in Kernels, Pickable(k), LostReady(k), NEW s \in nextProcess(k)
    PROVE  Passes(k, s) /\ LostReady(s)
  <1> DEFINE r == Requeue(k)
  <1>1. /\ r \in Kernels
        /\ r.timers = k.timers /\ r.allocated = k.allocated /\ r.current = k.current
        /\ Listed(r) \subseteq Listed(k) \cup {k.current}
        /\ \A n \in Nodes : (Exited(r, n) => Exited(k, n)) /\ r.pcb[n].id = k.pcb[n].id
        /\ \A n \in k.allocated \ (Listed(r) \cup {IdleNode}) :
              r.pcb[n].state \in {"READY", "EXITED"}
    BY RequeuePasses
  <1>2. PICK n \in IF r.ready = {} THEN {IdleNode} ELSE r.ready : s = Dispatch(r, n)
    BY DEF nextProcess
  <1> HIDE DEF r
  <1>3. n \in Nodes /\ n \in Listed(r) \cup {IdleNode} /\ k.allocated \subseteq Nodes
    BY <1>1, <1>2, KernelNodes DEF Listed
  <1>4. s \in Kernels
    BY NextProcessSettles DEF Settled, Table
  <1>5. /\ s.timers = r.timers /\ s.allocated = r.allocated
        /\ Placed(s) = Listed(r) \cup {n}
        /\ \A m \in Nodes :
              /\ s.pcb[m].id = r.pcb[m].id
              /\ s.pcb[m].state = IF m = n THEN "RUNNING" ELSE r.pcb[m].state
    BY <1>1, <1>2, <1>3, DispatchFields
  <1>6. Placed(s) \subseteq Placed(k) \cup {IdleNode}
    BY <1>1, <1>3, <1>5, KernelNodes
  <1>7. Passes(k, s)
    BY <1>1, <1>4, <1>5, <1>6 DEF Passes, Exited
  <1>8. LostReady(s)
    BY <1>1, <1>3, <1>5 DEF LostReady, LostIn
  <1>9. QED
    BY <1>7, <1>8

\* checkExited, the queues: the dead process found there is given back.
LEMMA ReapQueuedPasses ==
    ASSUME NEW k \in Kernels, Fit(k), LostReady(k), NEW due
    PROVE  LET r == ReapQueued(k, due)
           IN  /\ Passes(k, r) /\ LostReady(r)
               /\ \A n \in Placed(k) : Exited(k, n) =>
                     \/ n \notin r.allocated
                     \/ n = r.current /\ Exited(r, n)
  <1>1. Placed(k) = Listed(k) \cup {k.current} /\ Placed(k) \subseteq Nodes
    BY KernelNodes DEF Placed
  <1>2. CASE Dead(k) = {}
    <2>1. ReapQueued(k, due) = k
      BY <1>2 DEF ReapQueued
    <2>2. Passes(k, k)
      BY DEF Passes
    <2>3. \A n \in Placed(k) : Exited(k, n) => n = k.current
      BY <1>1, <1>2 DEF Dead, Exited, Listed
    <2>4. QED
      BY <2>1, <2>2, <2>3
  <1>3. CASE Dead(k) # {}
    <2>1. PICK d \in Dead(k) : ReapQueued(k, due)
              = deleteProcess([k EXCEPT !.ready = @ \ {d}, !.blocked = @ \ {d}], d, due)
      <3>1. Dead(k) \subseteq Nodes
        BY KernelNodes DEF Dead, Listed
      <3>2. (CHOOSE n \in Nodes : n \in Dead(k)) \in Dead(k)
        BY <1>3, <3>1
      <3>3. QED
        BY <1>3, <3>2 DEF ReapQueued
    <2> DEFINE b == [k EXCEPT !.ready = @ \ {d}, !.blocked = @ \ {d}]
               r == deleteProcess(b, d, due)
    <2>2. /\ b \in Kernels /\ b.pcb = k.pcb /\ b.ready = k.ready \ {d}
          /\ b.blocked = k.blocked \ {d} /\ b.allocated = k.allocated
          /\ b.current = k.current /\ b.timers = k.timers
      BY DEF Kernels
    <2> HIDE DEF b
    <2>3. d \in Listed(k) /\ Exited(k, d) /\ d \in Placed(k) /\ d \in Nodes
      BY <1>1 DEF Dead, Exited, Listed
    <2>4. d # k.current
      BY <2>3 DEF Fit, CurrentSound
    <2>5. Placed(b) = Placed(k) \ {d}
      BY <2>2, <2>4 DEF Placed
    <2>6. Deleted(b, r, d)
      BY <2>2, <2>3, DeleteType
    <2>7. \A n \in LostIn(b) \ {d} : b.pcb[n].state \in {"READY", "EXITED"}
      BY <2>2, <2>5 DEF LostReady, LostIn
    <2>8. LostReady(r)
      BY <2>2, <2>3, <2>7, DeleteLost
    <2>9. Single(k.timers) => r.timers = {u \in k.timers : ~Exited(k, u.node)}
      <3>1. \A n : Exited(b, n) <=> Exited(k, n)
        BY <2>2 DEF Exited
      <3>2. QED
        BY <2>2, <2>3, <3>1, DeleteTimers
    <2>10. d \notin r.allocated
      BY <2>6 DEF Deleted
    <2>11. \A n \in Placed(k) : Exited(k, n) => n = d
      BY <2>3 DEF Fit, OneExited, Exited
    <2> HIDE DEF r
    <2>12. Passes(k, r)
      <3>1. \A n \in Nodes : (Exited(r, n) => Exited(k, n)) /\ r.pcb[n].id = k.pcb[n].id
        BY <2>2, <2>6 DEF Deleted, Exited
      <3>2. Placed(r) \subseteq Placed(k)
        BY <2>5, <2>6 DEF Deleted, Placed
      <3>3. r.allocated = k.allocated \ {d} /\ r \in Kernels
        BY <2>2, <2>6 DEF Deleted
      <3>4. QED
        BY <2>3, <2>9, <3>1, <3>2, <3>3 DEF Passes
    <2>13. QED
      BY <2>1, <2>8, <2>10, <2>11, <2>12 DEF r, b
  <1>4. QED
    BY <1>2, <1>3

LEMMA CheckExitedPasses ==
    ASSUME NEW k \in Kernels, Fit(k), LostReady(k), NEW due, NEW s \in checkExited(k, due)
    PROVE  /\ Passes(k, s) /\ LostReady(s)
           /\ \A n \in Placed(k) : Exited(k, n) => n \notin s.allocated
  <1> DEFINE r == ReapQueued(k, due)
             d == deleteProcess(r, r.current, due)
             c == checkBlocked(d)
  <1>1. /\ Passes(k, r) /\ LostReady(r)
        /\ \A n \in Placed(k) : Exited(k, n) =>
              n \notin r.allocated \/ (n = r.current /\ Exited(r, n))
    BY ReapQueuedPasses
  <1>2. Fit(r) /\ ListedAlive(r) /\ r \in Kernels
    BY ReapQueuedKeeps DEF Fit, Table
  <1>3. CASE ~Exited(r, r.current)
    <2>1. s = r
      BY <1>3 DEF checkExited, Exited
    <2> HIDE DEF r
    <2>2. QED
      BY <1>1, <1>3, <2>1
  <1>4. CASE Exited(r, r.current)
    <2>1. s \in nextProcess(c)
      BY <1>4 DEF checkExited, Exited
    <2> HIDE DEF r
    <2>2. r.current \in Nodes /\ r.current \notin Listed(r) \cup {InitNode, IdleNode}
      BY <1>2, <1>4, KernelNodes DEF Fit, Table, Immortal, CurrentSound, Exited
    <2>3. Deleted(r, d, r.current)
      BY <1>2, <2>2, DeleteType
    <2>4. Passes(r, d) /\ LostReady(d)
      BY <1>1, <1>2, <1>4, <2>2, DeletePasses, DeleteLost DEF LostReady, Placed
    <2> HIDE DEF d
    <2>5. Pickable(d) /\ d \in Kernels
      BY <1>2, <1>4, <2>2, <2>3, DeletedKeeps DEF Fit, Pickable, Deleted, Exited
    <2>6. Pickable(c) /\ c \in Kernels
      BY <2>5, CheckBlockedKeeps DEF Pickable, Table
    <2>7. Passes(d, c) /\ LostReady(c) /\ c.allocated = d.allocated
      BY <2>4, <2>5, CheckBlockedPasses
    <2> HIDE DEF c
    <2>8. Passes(c, s) /\ LostReady(s)
      BY <2>1, <2>6, <2>7, NextProcessPasses
    <2>9. Passes(k, s)
      BY <1>1, <2>4, <2>7, <2>8, PassesTransitive
    <2>10. \A n \in Placed(k) : Exited(k, n) => n \notin d.allocated
      BY <1>1, <2>3 DEF Deleted
    <2>11. QED
      BY <2>7, <2>8, <2>9, <2>10 DEF Passes
  <1>5. QED
    BY <1>3, <1>4

\* Matched timers can be told by their pids.
LEMMA MatchedSingle ==
    ASSUME NEW k \in Kernels, Ids(k), CurrentSound(k), NEW c, Matched(k, c)
    PROVE  Single(k.timers)
  <1>1. \A m, n \in Placed(k) : k.pcb[m].id = k.pcb[n].id => m = n
    BY KernelNodes DEF Ids, CurrentSound
  <1>2. k.timers \in TimerLists
    BY KernelNodes
  <1>3. ASSUME NEW t \in k.timers, NEW u \in k.timers, u.pid = t.pid
        PROVE  u = t
    <2>1. t.node = u.node /\ t.turn = u.turn /\ t \in Timers /\ u \in Timers
      BY <1>1, <1>2, <1>3, TimerFacts DEF Matched
    <2>2. QED
      BY <1>3, <2>1 DEF Timers
  <1>4. QED
    BY <1>3 DEF Single, Matched

\* A whole call of scheduler: sleepers keep their timers, the dead lose theirs,
\* and who falls out of the lists was READY.
LEMMA SchedulerPasses ==
    ASSUME NEW k \in Kernels, Fit(k), LostReady(k), NEW due, NEW t \in scheduler(k, due)
    PROVE  /\ LostReady(t)
           /\ \A c : Sleepers(k, c) /\ c[IdleNode] = "user" => Sleepers(t, c)
  <1> DEFINE a == updateTimers(k, due)
             b == checkBlocked(a)
  <1>1. Mild(k, a)
    BY UpdateTimersMild
  <1>2. /\ Passes(k, a)
        /\ Single(k.timers) => a.timers = {u \in k.timers : ~Exited(k, u.node)}
        /\ \A n \in Nodes : Exited(k, n) => Exited(a, n)
    BY UpdateTimersPasses
  <1>3. PICK m \in checkExited(b, due) : t \in CheckQuantum(m)
    BY DEF scheduler
  <1> HIDE DEF a
  <1>4. a \in Kernels /\ Fit(a) /\ LostReady(a) /\ Placed(a) = Placed(k)
    BY <1>1, MildKeeps, MildLost DEF Fit, Mild, Placed
  <1>5. /\ b \in Kernels /\ Fit(b) /\ Passes(a, b) /\ LostReady(b) /\ Placed(b) = Placed(a)
        /\ \A n \in Nodes : Exited(a, n) <=> Exited(b, n)
    BY <1>4, CheckBlockedKeeps, CheckBlockedPasses DEF Fit, Table
  <1> HIDE DEF b
  <1>6. /\ Passes(b, m) /\ LostReady(m)
        /\ \A n \in Placed(b) : Exited(b, n) => n \notin m.allocated
    BY <1>3, <1>5, CheckExitedPasses
  <1>7. Settled(m)
    BY <1>3, <1>5, CheckExitedSettles
  <1>8. Passes(m, t) /\ LostReady(t) /\ Settled(t)
    <2>1. Passes(m, m)
      BY <1>6 DEF Passes
    <2>2. ASSUME t \in nextProcess(m) PROVE Passes(m, t) /\ LostReady(t) /\ Settled(t)
      BY <1>6, <1>7, <2>2, SettledPickable, NextProcessPasses, NextProcessSettles
    <2>3. QED
      BY <1>3, <1>6, <1>7, <2>1, <2>2 DEF CheckQuantum
  <1>9. Passes(a, t) /\ Passes(k, t)
    BY <1>2, <1>5, <1>6, <1>8, PassesTransitive
  <1>10. /\ Placed(k) \subseteq Nodes /\ IdleNode \in Nodes /\ k.allocated \subseteq Nodes
         /\ \A u \in k.timers : u.node \in Nodes
    BY KernelNodes, TimerFacts DEF Placed
  <1>11. Single(k.timers) => t.timers \subseteq {u \in k.timers : ~Exited(k, u.node)}
    <2>1. Single(k.timers) => Single(a.timers)
      BY <1>2 DEF Single
    <2>2. QED
      BY <1>2, <1>9, <2>1 DEF Passes
  <1>12. \A n \in Placed(t) \ {IdleNode} : n \in Placed(k) /\ ~Exited(k, n)
    <2>1. t.allocated \subseteq m.allocated
      BY <1>8 DEF Passes
    <2>2. Placed(t) \subseteq t.allocated
      BY <1>8 DEF Settled, Table, Lists, CurrentSound, Placed, Listed
    <2>3. QED
      BY <1>2, <1>4, <1>5, <1>6, <1>9, <1>10, <2>1, <2>2 DEF Passes
  <1>13. ASSUME NEW c, Sleepers(k, c), c[IdleNode] = "user"
         PROVE  Sleepers(t, c)
    <2>1. CASE SleeperLost(k, c)
      <3>1. LostIn(k) \subseteq LostIn(t)
        BY <1>9 DEF Passes, LostIn
      <3>2. QED
        BY <2>1, <3>1 DEF SleeperLost, Sleepers
    <2>2. CASE Matched(k, c) /\ ~SleeperLost(t, c)
      <3>1. Single(k.timers)
        BY <2>2, MatchedSingle DEF Fit, Table
      <3>2. ASSUME NEW u \in t.timers
            PROVE  /\ u.node \in Placed(t) /\ c[u.node] = "sleep"
                   /\ u.pid = t.pcb[u.node].id /\ u.turn = 1
        <4>1. u \in k.timers /\ ~Exited(k, u.node) /\ u.node \in Nodes
          BY <1>10, <1>11, <3>1, <3>2
        <4>2. /\ u.node \in Placed(k) /\ c[u.node] = "sleep" /\ u.pid = k.pcb[u.node].id
              /\ u.turn = 1
          BY <2>2, <4>1 DEF Matched
        <4>3. u.node \in k.allocated
          BY <4>2 DEF Fit, Table, Lists, CurrentSound, Placed, Listed
        <4>4. u.node \in t.allocated /\ t.pcb[u.node].id = k.pcb[u.node].id
          BY <1>9, <4>1, <4>3 DEF Passes
        <4>5. u.node # IdleNode
          BY <1>13, <4>2
        <4>6. u.node \in Placed(t)
          BY <2>2, <4>2, <4>4, <4>5 DEF SleeperLost, LostIn
        <4>7. QED
          BY <4>2, <4>4, <4>6
      <3>3. ASSUME NEW n \in Placed(t), c[n] = "sleep"
            PROVE  \E u \in t.timers : u.node = n
        <4>1. n # IdleNode
          BY <1>13, <3>3
        <4>2. n \in Placed(k) /\ ~Exited(k, n)
          BY <1>12, <4>1
        <4>3. PICK u \in k.timers : u.node = n
          BY <2>2, <3>3, <4>2 DEF Matched
        <4>4. QED
          BY <1>9, <3>1, <4>2, <4>3 DEF Passes
      <3>4. QED
        BY <3>2, <3>3 DEF Sleepers, Matched
    <2>3. QED
      BY <1>13, <2>1, <2>2 DEF Sleepers
  <1>14. QED
    BY <1>8, <1>13

-----------------------------------------------------------------------------
(* The steps.                                                                *)

\* With Inv, the inductive invariant of this module.  The idle process makes no
\* system call, so it is never inside sleep.
ListsInv == /\ Sleepers(kernel, cont)
            /\ LostReady(kernel)
            /\ cont[IdleNode] = "user"

LEMMA CallLists ==
    ASSUME NEW k, Fit(k), LostReady(k), Sleepers(k, cont'), cont'[IdleNode] = "user",
           Int20h(k)
    PROVE  ListsInv'
  <1>1. PICK due : kernel' \in scheduler(k, due)
    BY DEF Int20h
  <1>2. LostReady(kernel') /\ Sleepers(kernel', cont')
    BY <1>1, SchedulerPasses DEF Fit, Table
  <1>3. QED
    BY <1>2 DEF ListsInv

\* Who is lost, and whom a timer belongs to, depends on few fields.
LEMMA SameSleepers ==
    ASSUME NEW k \in Kernels, NEW r, r.timers = k.timers, r.allocated = k.allocated,
           Placed(r) = Placed(k), \A n \in Nodes : r.pcb[n].id = k.pcb[n].id,
           NEW c, Sleepers(k, c)
    PROVE  Sleepers(r, c)
  <1>1. \A t \in k.timers : t.node \in Nodes
    BY KernelNodes, TimerFacts
  <1>2. LostIn(r) = LostIn(k)
    BY DEF LostIn
  <1>3. QED
    BY <1>1, <1>2 DEF Sleepers, SleeperLost, Matched

\* Setting states other than BLOCKED, or states of listed processes only.
LEMMA RestateLists ==
    ASSUME NEW k \in Kernels, LostReady(k), NEW S, NEW s \in States, NEW b \in BOOLEAN,
           s \in {"READY", "EXITED"} \/ S \subseteq Placed(k)
    PROVE  /\ LostReady(Restate(k, S, s, b))
           /\ \A c : Sleepers(k, c) => Sleepers(Restate(k, S, s, b), c)
  <1> DEFINE r == Restate(k, S, s, b)
  <1>1. Restated(k, r, S, s)
    BY RestateType
  <1> HIDE DEF r
  <1>2. Placed(r) = Placed(k) /\ r.allocated = k.allocated /\ r.timers = k.timers
    BY <1>1 DEF Restated, SameButPcb, Placed
  <1>3. LostReady(r)
    BY <1>1, <1>2, KernelNodes DEF Restated, LostReady, LostIn
  <1>4. \A n \in Nodes : r.pcb[n].id = k.pcb[n].id
    BY <1>1 DEF Restated
  <1>5. QED
    BY <1>2, <1>3, <1>4, SameSleepers DEF r

LEMMA SetStateLists ==
    ASSUME NEW k \in Kernels, LostReady(k), NEW S, NEW s \in States,
           s \in {"READY", "EXITED"} \/ S \subseteq Placed(k)
    PROVE  /\ LostReady(setProcessState(k, S, s))
           /\ \A c : Sleepers(k, c) => Sleepers(setProcessState(k, S, s), c)
  <1>1. Settable(k, S, s) \subseteq S
    BY DEF Settable
  <1>2. QED
    BY <1>1, RestateLists DEF setProcessState

\* Other fields of the PCBs, the keys and the foreground pointer do not matter.
LEMMA SameLists ==
    ASSUME NEW k \in Kernels, NEW r, r.timers = k.timers, r.allocated = k.allocated,
           Placed(r) = Placed(k),
           \A n \in Nodes : r.pcb[n].state = k.pcb[n].state /\ r.pcb[n].id = k.pcb[n].id
    PROVE  /\ LostReady(k) => LostReady(r)
           /\ \A c : Sleepers(k, c) => Sleepers(r, c)
  <1>1. LostReady(k) => LostReady(r)
    BY KernelNodes DEF LostReady, LostIn
  <1>2. \A c : Sleepers(k, c) => Sleepers(r, c)
    BY SameSleepers
  <1>3. QED
    BY <1>1, <1>2

LEMMA KeysLists ==
    ASSUME NEW k \in Kernels, NEW left
    PROVE  LET r == [k EXCEPT !.keys = left]
           IN  /\ LostReady(k) => LostReady(r)
               /\ \A c : Sleepers(k, c) => Sleepers(r, c)
  <1> DEFINE r == [k EXCEPT !.keys = left]
  <1>1. r.timers = k.timers /\ r.allocated = k.allocated /\ r.pcb = k.pcb
        /\ r.ready = k.ready /\ r.blocked = k.blocked /\ r.current = k.current
    BY DEF Kernels
  <1> HIDE DEF r
  <1>2. QED
    BY <1>1, SameLists DEF Placed, r

LEMMA ForegroundLists ==
    ASSUME NEW k \in Kernels
    PROVE  LET f == setProcessToForeground(k, k.current)
               g == setProcessToBackground(k, k.current)
           IN  /\ LostReady(k) => LostReady(f) /\ LostReady(g)
               /\ \A c : Sleepers(k, c) => Sleepers(f, c) /\ Sleepers(g, c)
  <1> DEFINE n == k.current
  <1>1. ASSUME NEW b \in BOOLEAN, NEW p
        PROVE  LET r == [Update(k, n, [k.pcb[n] EXCEPT !.foreground = b])
                            EXCEPT !.foreground = p]
               IN  /\ LostReady(k) => LostReady(r)
                   /\ \A c : Sleepers(k, c) => Sleepers(r, c)
    <2> DEFINE e == [k.pcb[n] EXCEPT !.foreground = b]
               u == Update(k, n, e)
               r == [u EXCEPT !.foreground = p]
    <2>1. n \in Nodes /\ k.pcb[n] \in Pcbs
      BY KernelNodes DEF Kernels
    <2>2. e \in Pcbs /\ e.state = k.pcb[n].state /\ e.id = k.pcb[n].id
      BY <2>1 DEF Pcbs
    <2> HIDE DEF e
    <2>3. SameButPcb(k, u) /\ \A m \in Nodes : u.pcb[m] = IF m = n THEN e ELSE k.pcb[m]
      BY <2>1, <2>2, UpdateType
    <2> HIDE DEF u
    <2>4. r.timers = u.timers /\ r.allocated = u.allocated /\ r.pcb = u.pcb
          /\ r.ready = u.ready /\ r.blocked = u.blocked /\ r.current = u.current
      BY <2>3 DEF SameButPcb, Kernels
    <2> HIDE DEF r
    <2>5. /\ LostReady(k) => LostReady(r)
          /\ \A c : Sleepers(k, c) => Sleepers(r, c)
      BY <2>2, <2>3, <2>4, SameLists DEF SameButPcb, Placed
    <2>6. QED
      BY <2>5 DEF r, u, e
  <1>2. PICK p, q :
           /\ setProcessToForeground(k, n)
                = [Update(k, n, [k.pcb[n] EXCEPT !.foreground = TRUE]) EXCEPT !.foreground = p]
           /\ setProcessToBackground(k, n)
                = [Update(k, n, [k.pcb[n] EXCEPT !.foreground = FALSE]) EXCEPT !.foreground = q]
    BY DEF setProcessToForeground, setProcessToBackground
  <1>3. TRUE \in BOOLEAN /\ FALSE \in BOOLEAN
    OBVIOUS
  <1> DEFINE f == setProcessToForeground(k, n)
             g == setProcessToBackground(k, n)
  <1>4. (LostReady(k) => LostReady(f)) /\ \A c : Sleepers(k, c) => Sleepers(f, c)
    BY <1>1, <1>2, <1>3
  <1>5. (LostReady(k) => LostReady(g)) /\ \A c : Sleepers(k, c) => Sleepers(g, c)
    BY <1>1, <1>2, <1>3
  <1> HIDE DEF f, g
  <1>6. QED
    BY <1>4, <1>5 DEF f, g

\* A process that is not inside sleep, and does not enter it, has no timer.
LEMMA GoesLists ==
    ASSUME Inv, ListsInv, NEW c \in Conts \ {"sleep"}, Goes(c), cont[cur] # "sleep",
           cur # IdleNode \/ c = "user"
    PROVE  Sleepers(kernel, cont') /\ cont'[IdleNode] = "user"
  <1>1. cont \in [Nodes -> Conts] /\ kernel \in Kernels
    BY DEF Inv, Settled, Table
  <1>2. /\ Placed(kernel) \subseteq Nodes /\ IdleNode \in Nodes /\ LostIn(kernel) \subseteq Nodes
        /\ cur \in Nodes /\ cur \in Placed(kernel)
    BY <1>1, KernelNodes DEF Placed, cur, LostIn
  <1>3. \A n \in Nodes : cont'[n] = IF n = cur THEN c ELSE cont[n]
    BY <1>1, <1>2 DEF Goes
  <1>4. cont'[IdleNode] = "user"
    BY <1>2, <1>3 DEF ListsInv
  <1>5. CASE SleeperLost(kernel, cont)
    BY <1>2, <1>3, <1>4, <1>5 DEF SleeperLost, Sleepers, LostIn
  <1>6. CASE Matched(kernel, cont)
    <2>1. \A t \in kernel.timers : cont'[t.node] = "sleep"
      BY <1>2, <1>3, <1>6 DEF Matched
    <2>2. \A n \in Placed(kernel) : cont'[n] = "sleep" => cont[n] = "sleep"
      BY <1>2, <1>3
    <2>3. QED
      BY <1>4, <1>6, <2>1, <2>2 DEF Matched, Sleepers
  <1>7. QED
    BY <1>5, <1>6 DEF ListsInv, Sleepers

\* A process blocks itself inside a system call other than sleep.
LEMMA BlockAtLists ==
    ASSUME Inv, NEW k, Settled(k), k.current = cur, LostReady(k), Sleepers(k, cont'),
           cont'[IdleNode] = "user", NEW c, BlockAt(k, c)
    PROVE  ListsInv'
  <1> DEFINE r == setProcessState(k, {cur}, "BLOCKED")
  <1>1. k \in Kernels /\ {cur} \subseteq Placed(k) /\ "BLOCKED" \in States
    BY DEF Settled, Table, Placed, States
  <1>2. Settled(r)
    BY <1>1, SetStateSettled
  <1>3. LostReady(r) /\ Sleepers(r, cont')
    BY <1>1, SetStateLists
  <1>4. Int20h(r)
    BY DEF BlockAt
  <1> HIDE DEF r
  <1>5. QED
    BY <1>2, <1>3, <1>4, SettledPickable, CallLists

\* The number of the child.
LEMMA ForkPid ==
    ASSUME Inv, sysFork
    PROVE  unusedID(kernel) \in Pids
  <1>1. Settled(kernel)
    BY DEF Inv
  <1>2. unusedID(kernel) \in Nat \ {0}
    BY <1>1, UnusedIdFresh
  <1>3. unusedID(kernel) <= PidLimit
    BY DEF sysFork
  <1>4. QED
    BY <1>2, <1>3, LimitsAssumption DEF Pids

\* The child of a fork is ready, and starts outside sleep.
LEMMA ForkLists ==
    ASSUME Inv, ListsInv, sysFork
    PROVE  ListsInv'
  <1> DEFINE id == unusedID(kernel)
             me == kernel.pcb[cur]
             Child(n) == [me EXCEPT !.id = id, !.parentId = me.id,
                                    !.childsIds = kernel.pcb[n].childsIds]
             parent == [me EXCEPT !.childsIds = @ \cup {id}]
  <1>1. PICK n \in Nodes \ kernel.allocated :
            /\ kernel' = [Update(Update(kernel, n, Child(n)), cur, parent)
                  EXCEPT !.allocated = @ \cup {n},
                         !.ready     = @ \cup {n},
                         !.readers   = IF me.stdin /\ Cardinality(@) < PdSize
                                       THEN @ \cup {n} ELSE @]
            /\ cont' = [cont EXCEPT ![n] = "user"]
    BY DEF sysFork
  <1>2. /\ kernel \in Kernels /\ cur \in Nodes /\ cur = kernel.current /\ cont \in [Nodes -> Conts]
        /\ \A m \in Nodes : kernel.pcb[m] \in Pcbs
        /\ Placed(kernel) \subseteq kernel.allocated /\ IdleNode \in kernel.allocated
        /\ kernel.allocated \subseteq Nodes
    <2>1. kernel \in Kernels /\ Table(kernel) /\ cont \in [Nodes -> Conts] /\ cur = kernel.current
      BY DEF Inv, Settled, Table, cur
    <2>2. /\ cur \in Nodes /\ kernel.allocated \subseteq Nodes
          /\ \A m \in Nodes : kernel.pcb[m] \in Pcbs
      BY <2>1, KernelNodes DEF Kernels
    <2>3. Lists(kernel) /\ CurrentSound(kernel)
      BY DEF Inv, Settled, Table
    <2>4. Placed(kernel) \subseteq kernel.allocated /\ IdleNode \in kernel.allocated
      BY <2>3 DEF Lists, CurrentSound, Placed, Listed
    <2>5. QED
      BY <2>1, <2>2, <2>4
  <1>3. id \in Pids
    BY ForkPid
  <1> HIDE DEF id
  <1> DEFINE child == Child(n)
  <1>4. /\ child \in Pcbs /\ parent \in Pcbs /\ parent.state = me.state
        /\ parent.id = me.id
    <2>1. me \in Pcbs /\ kernel.pcb[n] \in Pcbs
      BY <1>2
    <2>2. child \in Pcbs
      BY <1>3, <2>1 DEF Pcbs
    <2>3. parent \in Pcbs /\ parent.state = me.state /\ parent.id = me.id
      BY <1>3, <2>1 DEF Pcbs
    <2>4. QED
      BY <2>2, <2>3
  <1> DEFINE u1 == Update(kernel, n, child)
             u2 == Update(u1, cur, parent)
             rd == IF me.stdin /\ Cardinality(u2.readers) < PdSize
                   THEN u2.readers \cup {n} ELSE u2.readers
  <1>5. kernel' = [u2 EXCEPT !.allocated = @ \cup {n}, !.ready = @ \cup {n}, !.readers = rd]
    BY <1>1
  <1> HIDE DEF child, parent, rd
  <1>6. SameButPcb(kernel, u1)
        /\ \A m \in Nodes : u1.pcb[m] = IF m = n THEN child ELSE kernel.pcb[m]
    BY <1>2, <1>4, UpdateType
  <1> HIDE DEF u1
  <1>7. SameButPcb(u1, u2)
        /\ \A m \in Nodes : u2.pcb[m] = IF m = cur THEN parent ELSE u1.pcb[m]
    <2>1. u1 \in Kernels
      BY <1>6 DEF SameButPcb
    <2>2. QED
      BY <1>2, <1>4, <2>1, UpdateType
  <1> HIDE DEF u2
  <1>8. /\ kernel'.pcb = u2.pcb /\ kernel'.allocated = u2.allocated \cup {n}
        /\ kernel'.ready = u2.ready \cup {n} /\ kernel'.blocked = u2.blocked
        /\ kernel'.current = u2.current /\ kernel'.timers = u2.timers
    BY <1>5, <1>7 DEF SameButPcb, Kernels
  <1>9. /\ kernel'.allocated = kernel.allocated \cup {n}
        /\ kernel'.timers = kernel.timers
        /\ Placed(kernel') = Placed(kernel) \cup {n}
        /\ \A m \in Nodes \ {n} : /\ kernel'.pcb[m].state = kernel.pcb[m].state
                                  /\ kernel'.pcb[m].id = kernel.pcb[m].id
    BY <1>2, <1>4, <1>6, <1>7, <1>8 DEF SameButPcb, Placed
  <1>10. /\ \A m \in kernel.allocated : cont'[m] = cont[m]
         /\ cont'[n] = "user"
    BY <1>1, <1>2
  <1>11. Sleepers(kernel', cont')
    <2>1. LostIn(kernel') = LostIn(kernel) /\ n \notin Placed(kernel)
      BY <1>2, <1>9 DEF LostIn
    <2>2. CASE SleeperLost(kernel, cont)
      BY <1>10, <2>1, <2>2 DEF SleeperLost, Sleepers, LostIn
    <2>3. CASE Matched(kernel, cont)
      <3>1. \A t \in kernel.timers : t.node \in Placed(kernel) /\ t.node \in Nodes \ {n}
        BY <1>2, <2>1, <2>3 DEF Matched
      <3>2. \A t \in kernel'.timers :
                /\ t.node \in Placed(kernel') /\ cont'[t.node] = "sleep"
                /\ t.pid = kernel'.pcb[t.node].id /\ t.turn = 1
        BY <1>2, <1>9, <1>10, <2>3, <3>1 DEF Matched
      <3>3. \A m \in Placed(kernel') : cont'[m] = "sleep" => \E t \in kernel'.timers : t.node = m
        BY <1>2, <1>9, <1>10, <2>3 DEF Matched
      <3>4. QED
        BY <3>2, <3>3 DEF Matched, Sleepers
    <2>4. QED
      BY <2>2, <2>3 DEF ListsInv, Sleepers
  <1>12. LostReady(kernel')
    BY <1>2, <1>9 DEF ListsInv, LostReady, LostIn
  <1>13. QED
    BY <1>2, <1>10, <1>11, <1>12 DEF ListsInv

LEMMA PriorityLists ==
    ASSUME Inv, ListsInv, arqSysPriority
    PROVE  ListsInv'
  <1> DEFINE k == kernel
  <1>1. PICK n \in k.ready \cup k.blocked :
            \/ kernel' = [k EXCEPT !.ready = @ \ {n}, !.blocked = @ \cup {n}]
            \/ kernel' = [k EXCEPT !.ready = @ \cup {n}, !.blocked = @ \ {n}]
    BY DEF arqSysPriority
  <1>2. k \in Kernels
    BY DEF Inv, Settled, Table
  <1>3. /\ kernel'.pcb = k.pcb /\ kernel'.allocated = k.allocated
        /\ kernel'.current = k.current /\ kernel'.timers = k.timers
        /\ kernel'.ready \cup kernel'.blocked = k.ready \cup k.blocked
    <2>1. CASE kernel' = [k EXCEPT !.ready = @ \ {n}, !.blocked = @ \cup {n}]
      BY <1>1, <1>2, <2>1 DEF Kernels
    <2>2. CASE kernel' = [k EXCEPT !.ready = @ \cup {n}, !.blocked = @ \ {n}]
      BY <1>1, <1>2, <2>2 DEF Kernels
    <2>3. QED
      BY <1>1, <2>1, <2>2
  <1>4. LostReady(kernel') /\ Sleepers(kernel', cont)
    BY <1>2, <1>3, SameLists DEF ListsInv, Placed
  <1>5. QED
    BY <1>4 DEF ListsInv, arqSysPriority, Stays

LEMMA SleepLists ==
    ASSUME Inv, ListsInv, sleep
    PROVE  ListsInv'
  <1> DEFINE pid == kernel.pcb[cur].id
             T == Link(kernel.timers, cur, pid)
             k == [kernel EXCEPT !.timers = T]
  <1>1. /\ kernel \in Kernels /\ Settled(kernel) /\ cur \in Nodes /\ cur \in Placed(kernel)
        /\ cur # IdleNode /\ kernel.current = cur /\ cont \in [Nodes -> Conts]
        /\ cont[cur] = "user" /\ LostIn(kernel) \subseteq Nodes
        /\ Placed(kernel) \subseteq Nodes /\ kernel.timers \in TimerLists /\ IdleNode \in Nodes
    BY KernelNodes DEF Inv, Settled, Table, cur, sleep, InSyscall, InUser, Placed, LostIn
  <1>2. pid \in {NoId} \cup Pids
    BY <1>1 DEF Kernels, Pcbs
  <1>3. BlockAt(k, "sleep")
    BY DEF sleep
  <1> HIDE DEF pid
  <1>4. T \in TimerLists
    BY <1>1, <1>2, LinkType
  <1> HIDE DEF T
  <1>5. /\ k.pcb = kernel.pcb /\ k.allocated = kernel.allocated /\ k.ready = kernel.ready
        /\ k.blocked = kernel.blocked /\ k.current = kernel.current /\ k.timers = T
    BY <1>1 DEF Kernels
  <1>6. Settled(k)
    BY <1>1, <1>4, TimersMild, MildSettled
  <1> HIDE DEF k
  <1>7. \A n \in Nodes : cont'[n] = IF n = cur THEN "sleep" ELSE cont[n]
    BY <1>1, <1>3 DEF BlockAt, Goes
  <1>8. Placed(k) = Placed(kernel) /\ LostIn(k) = LostIn(kernel)
    BY <1>5 DEF Placed, LostIn
  <1>9. LostReady(k)
    BY <1>5, <1>8 DEF ListsInv, LostReady
  <1>10. CASE SleeperLost(kernel, cont)
    <2>1. SleeperLost(k, cont')
      BY <1>1, <1>7, <1>8, <1>10 DEF SleeperLost
    <2>2. QED
      BY <1>1, <1>3, <1>5, <1>6, <1>7, <1>9, <2>1, BlockAtLists DEF ListsInv, Sleepers
  <1>11. CASE Matched(kernel, cont)
    <2>1. \A t \in kernel.timers : t.pid # pid
      <3>1. Ids(kernel) /\ CurrentSound(kernel)
        BY <1>1 DEF Settled, Table
      <3>2. \A n \in Placed(kernel) : kernel.pcb[n].id = pid => n = cur
        BY <1>1, <3>1, KernelNodes DEF CurrentSound, pid
      <3>3. QED
        BY <1>1, <1>11, <3>2 DEF Matched
    <2>2. Count(kernel.timers, pid) = 0
      BY <1>1, <2>1, TimerFacts, CountType
    <2>3. T = kernel.timers \cup {[node |-> cur, pid |-> pid, turn |-> 1]}
      BY <2>2 DEF Link, T
    <2>4. \A t \in k.timers : /\ t.node \in Placed(k) /\ cont'[t.node] = "sleep"
                              /\ t.pid = k.pcb[t.node].id /\ t.turn = 1
      <3>1. TAKE t \in k.timers
      <3>2. CASE t \in kernel.timers
        BY <1>1, <1>5, <1>7, <1>8, <1>11, <3>2 DEF Matched
      <3>3. CASE t = [node |-> cur, pid |-> pid, turn |-> 1]
        BY <1>1, <1>5, <1>7, <1>8, <3>3 DEF pid
      <3>4. QED
        BY <1>5, <2>3, <3>2, <3>3
    <2>5. ASSUME NEW n \in Placed(k), cont'[n] = "sleep"
          PROVE  \E t \in k.timers : t.node = n
      <3>1. CASE n = cur
        <4> DEFINE own == [node |-> cur, pid |-> pid, turn |-> 1]
        <4>1. own \in k.timers
          BY <1>5, <2>3
        <4>2. own.node = n
          BY <3>1
        <4> HIDE DEF own
        <4>3. QED
          BY <4>1, <4>2
      <3>2. CASE n # cur
        BY <1>1, <1>5, <1>7, <1>8, <1>11, <2>3, <2>5, <3>2 DEF Matched
      <3>3. QED
        BY <3>1, <3>2
    <2>6. QED
      BY <1>1, <1>3, <1>5, <1>6, <1>7, <1>9, <2>4, <2>5, BlockAtLists
      DEF ListsInv, Sleepers, Matched
  <1>12. QED
    BY <1>10, <1>11 DEF ListsInv, Sleepers

LEMMA SleepEndLists ==
    ASSUME Inv, ListsInv, SleepEnd
    PROVE  ListsInv'
  <1> DEFINE pid == kernel.pcb[cur].id
             T == Unlink(kernel.timers, {[pid |-> pid]})
  <1>1. /\ kernel \in Kernels /\ cur \in Nodes /\ cont \in [Nodes -> Conts]
        /\ cur \in Placed(kernel) /\ LostIn(kernel) \subseteq Nodes /\ kernel.current = cur
        /\ Placed(kernel) \subseteq Nodes /\ kernel.timers \in TimerLists /\ IdleNode \in Nodes
    BY KernelNodes DEF Inv, Settled, Table, cur, Placed, LostIn
  <1>2. /\ kernel'.pcb = kernel.pcb /\ kernel'.allocated = kernel.allocated
        /\ kernel'.ready = kernel.ready /\ kernel'.blocked = kernel.blocked
        /\ kernel'.current = kernel.current /\ kernel'.timers = T
    BY <1>1 DEF SleepEnd, Kernels
  <1> HIDE DEF T
  <1>3. \A n \in Nodes : cont'[n] = IF n = cur THEN "user" ELSE cont[n]
    BY <1>1 DEF SleepEnd, Goes
  <1>4. Placed(kernel') = Placed(kernel) /\ LostIn(kernel') = LostIn(kernel)
    BY <1>2 DEF Placed, LostIn
  <1>5. LostReady(kernel') /\ cont'[IdleNode] = "user"
    BY <1>1, <1>2, <1>3, <1>4 DEF ListsInv, LostReady
  <1>6. CASE SleeperLost(kernel, cont)
    BY <1>1, <1>3, <1>4, <1>5, <1>6 DEF SleeperLost, Sleepers, ListsInv, LostIn
  <1>7. CASE Matched(kernel, cont)
    <2>1. Ids(kernel) /\ CurrentSound(kernel)
      BY DEF Inv, Settled, Table
    <2>2. Single(kernel.timers)
      BY <1>1, <1>7, <2>1, MatchedSingle
    <2> DEFINE gone == {[pid |-> pid]}
    <2>3. IsFiniteSet(gone)
          /\ \A t \in kernel.timers : (\A u \in gone : u.pid # t.pid) <=> t.pid # pid
      <3>1. IsFiniteSet(gone)
        BY FS_Singleton
      <3>2. \A u : u \in gone <=> u = [pid |-> pid]
        OBVIOUS
      <3>3. [pid |-> pid].pid = pid
        OBVIOUS
      <3> HIDE DEF gone, pid
      <3>4. QED
        BY <3>1, <3>2, <3>3
    <2>4. T = {t \in kernel.timers : t.pid # pid}
      <3>1. T = Unlink(kernel.timers, gone)
        BY DEF T
      <3> HIDE DEF gone
      <3>2. Unlink(kernel.timers, gone) = {t \in kernel.timers : \A u \in gone : u.pid # t.pid}
        BY <1>1, <2>2, <2>3, UnlinkFirst
      <3>3. QED
        BY <2>3, <3>1, <3>2
    <2>5. \A n \in Placed(kernel) : kernel.pcb[n].id = pid => n = cur
      BY <1>1, <2>1, KernelNodes DEF CurrentSound
    <2>6. \A t \in kernel.timers : t.pid # pid <=> t.node # cur
      BY <1>1, <1>7, <2>5 DEF Matched
    <2> HIDE DEF pid
    <2>7. \A t \in kernel'.timers :
              /\ t.node \in Placed(kernel') /\ cont'[t.node] = "sleep"
              /\ t.pid = kernel'.pcb[t.node].id /\ t.turn = 1
      BY <1>1, <1>2, <1>3, <1>4, <1>7, <2>4, <2>6 DEF Matched
    <2>8. \A n \in Placed(kernel') : cont'[n] = "sleep" => \E t \in kernel'.timers : t.node = n
      BY <1>1, <1>2, <1>3, <1>4, <1>7, <2>4, <2>6 DEF Matched
    <2>9. QED
      BY <1>5, <2>7, <2>8 DEF ListsInv, Sleepers, Matched
  <1>8. QED
    BY <1>6, <1>7 DEF ListsInv, Sleepers

LEMMA WaitLoopLists ==
    ASSUME Inv, ListsInv, cur # IdleNode, cont[cur] # "sleep", NEW k, Settled(k),
           k.current = cur, LostReady(k), WaitLoop(k),
           \A c : Sleepers(kernel, c) => Sleepers(k, c)
    PROVE  ListsInv'
  <1>1. {"wait", "user"} \subseteq Conts \ {"sleep"} /\ k \in Kernels
    BY DEF Conts, Settled, Table
  <1>2. CASE BlockAt(k, "wait")
    <2>1. Sleepers(k, cont') /\ cont'[IdleNode] = "user"
      BY <1>1, <1>2, GoesLists DEF BlockAt
    <2>2. QED
      BY <1>2, <2>1, BlockAtLists
  <1>3. CASE kernel' = setProcessToForeground(k, cur) /\ Goes("user")
    <2>1. Sleepers(k, cont') /\ cont'[IdleNode] = "user"
      BY <1>1, <1>3, GoesLists
    <2>2. QED
      BY <1>1, <1>3, <2>1, ForegroundLists DEF ListsInv
  <1>4. QED
    BY <1>2, <1>3 DEF WaitLoop

LEMMA ReadLoopLists ==
    ASSUME Inv, ListsInv, cur # IdleNode, cont[cur] # "sleep", ReadLoop("read")
    PROVE  ListsInv'
  <1>1. {"read", "user"} \subseteq Conts \ {"sleep"} /\ kernel \in Kernels /\ Settled(kernel)
        /\ kernel.current = cur
    BY DEF Conts, Inv, Settled, Table, cur
  <1>2. CASE BlockAt(kernel, "read")
    <2>1. Sleepers(kernel, cont') /\ cont'[IdleNode] = "user"
      BY <1>1, <1>2, GoesLists DEF BlockAt
    <2>2. QED
      BY <1>1, <1>2, <2>1, BlockAtLists DEF ListsInv
  <1>3. ASSUME NEW left, kernel' = [kernel EXCEPT !.keys = left], Goes("user")
        PROVE  ListsInv'
    <2>1. Sleepers(kernel, cont') /\ cont'[IdleNode] = "user"
      BY <1>1, <1>3, GoesLists
    <2>2. QED
      BY <1>1, <1>3, <2>1, KeysLists DEF ListsInv
  <1>4. QED
    BY <1>2, <1>3 DEF ReadLoop

LEMMA FaultLists ==
    ASSUME Inv, ListsInv, cur # IdleNode, cont[cur] # "sleep",
           BlockAt(kernel, "fault") \/ FaultExit
    PROVE  ListsInv'
  <1>1. {"fault", "user"} \subseteq Conts \ {"sleep"} /\ kernel \in Kernels /\ Settled(kernel)
        /\ kernel.current = cur /\ cur \in Nodes /\ "EXITED" \in States
    BY KernelNodes DEF Conts, Inv, Settled, Table, cur, States
  <1>2. CASE BlockAt(kernel, "fault")
    <2>1. Sleepers(kernel, cont') /\ cont'[IdleNode] = "user"
      BY <1>1, <1>2, GoesLists DEF BlockAt
    <2>2. QED
      BY <1>1, <1>2, <2>1, BlockAtLists DEF ListsInv
  <1>3. CASE FaultExit
    <2>1. Sleepers(kernel, cont') /\ cont'[IdleNode] = "user"
      BY <1>1, <1>3, GoesLists DEF FaultExit
    <2>2. PICK left \in {kernel.keys, IF kernel.keys = 0 THEN 0 ELSE kernel.keys - 1} :
              Int20h(setProcessState([kernel EXCEPT !.keys = left], {cur}, "EXITED"))
      BY <1>3 DEF FaultExit
    <2> DEFINE k == [kernel EXCEPT !.keys = left]
    <2>3. left \in 0..KeyLimit
      <3>1. kernel.keys \in 0..KeyLimit
        BY <1>1 DEF Kernels
      <3>2. QED
        BY <2>2, <3>1, LimitsAssumption
    <2>4. Settled(k)
      BY <1>1, <2>3, KeysMild, MildSettled
    <2>5. LostReady(k) /\ Sleepers(k, cont')
      BY <1>1, <2>1, KeysLists DEF ListsInv
    <2>6. Int20h(setProcessState(k, {cur}, "EXITED"))
      BY <2>2
    <2> HIDE DEF k
    <2>7. k \in Kernels
      BY <2>4 DEF Settled, Table
    <2>8. Fit(setProcessState(k, {cur}, "EXITED"))
      BY <1>1, <2>4, KillFit
    <2>9. LostReady(setProcessState(k, {cur}, "EXITED"))
          /\ Sleepers(setProcessState(k, {cur}, "EXITED"), cont')
      BY <1>1, <2>5, <2>7, SetStateLists
    <2>10. QED
      BY <2>1, <2>6, <2>8, <2>9, CallLists
  <1>4. QED
    BY <1>2, <1>3

\* The calls and interrupts that leave the continuations alone and only set the
\* states of listed processes, or kill, before they call the scheduler.
LEMMA SettledCallLists ==
    ASSUME ListsInv, Stays, NEW k, Settled(k), Int20h(k), LostReady(k),
           \A c : Sleepers(kernel, c) => Sleepers(k, c)
    PROVE  ListsInv'
  BY SettledPickable, CallLists DEF ListsInv, Stays

LEMMA KillLists ==
    ASSUME Inv, ListsInv, Stays, NEW n \in Nodes,
           Int20h(setProcessState(kernel, {n}, "EXITED"))
    PROVE  ListsInv'
  <1> DEFINE k == setProcessState(kernel, {n}, "EXITED")
  <1>1. kernel \in Kernels /\ "EXITED" \in States
    BY DEF Inv, Settled, Table, States
  <1>2. Fit(k)
    BY KillFit DEF Inv
  <1>3. LostReady(k) /\ Sleepers(k, cont)
    BY <1>1, SetStateLists DEF ListsInv
  <1> HIDE DEF k
  <1>4. Int20h(k)
    BY DEF k
  <1>5. QED
    BY <1>2, <1>3, <1>4, CallLists DEF ListsInv, Stays

LEMMA NextLists == Inv /\ ListsInv /\ [Next]_vars => ListsInv'
  <1> SUFFICES ASSUME Inv, ListsInv, [Next]_vars PROVE ListsInv'
    OBVIOUS
  <1>0. /\ Settled(kernel) /\ kernel \in Kernels /\ cur \in Nodes /\ kernel.current = cur
        /\ cur \in Placed(kernel) /\ Placed(kernel) \subseteq Nodes
        /\ {"READY", "BLOCKED", "YIELDED", "EXITED"} \subseteq States
        /\ LostReady(kernel) /\ Sleepers(kernel, cont) /\ cont[IdleNode] = "user"
    BY KernelNodes DEF Inv, Settled, Table, cur, States, Placed, ListsInv
  <1> DEFINE Call(k) == /\ Settled(k) /\ Int20h(k) /\ LostReady(k)
                        /\ \A c : Sleepers(kernel, c) => Sleepers(k, c)
  <1>1. CASE TimerTick
    BY <1>0, <1>1, SettledCallLists DEF TimerTick
  <1>2. CASE addKey
    <2>1. PICK wake : kernel' = [setProcessState(kernel, wake, "READY") EXCEPT !.keys = @ + 1]
      BY <1>2 DEF addKey
    <2> DEFINE r == setProcessState(kernel, wake, "READY")
    <2>2. LostReady(r) /\ Sleepers(r, cont) /\ r \in Kernels
      BY <1>0, SetStateLists, SetReady DEF Mild
    <2>3. kernel' = [r EXCEPT !.keys = r.keys + 1]
      BY <2>1
    <2> HIDE DEF r
    <2>4. LostReady(kernel') /\ Sleepers(kernel', cont)
      BY <2>2, <2>3, KeysLists
    <2>5. QED
      BY <1>0, <1>2, <2>4 DEF addKey, Stays, ListsInv
  <1>3. CASE CtrlC
    BY <1>0, <1>3, KernelNodes, KillLists DEF CtrlC
  <1>4. CASE sysFork
    BY <1>4, ForkLists
  <1>5. CASE arqSysExit
    BY <1>0, <1>5, KillLists DEF arqSysExit
  <1>6. CASE arqSysKill
    BY <1>0, <1>6, KillLists DEF arqSysKill
  <1>7. CASE arqSysBlock
    <2>1. PICK n \in Placed(kernel) : Int20h(Restate(kernel, ManualTargets(n), "BLOCKED", TRUE))
      BY <1>7 DEF arqSysBlock
    <2>2. ManualTargets(n) \subseteq Placed(kernel)
      BY <2>1 DEF ManualTargets
    <2>3. Call(Restate(kernel, ManualTargets(n), "BLOCKED", TRUE))
      BY <1>0, <2>1, <2>2, RestatedSettled, RestateLists
    <2>4. QED
      BY <1>7, <2>3, SettledCallLists DEF arqSysBlock
  <1>8. CASE arqSysUnblock
    <2>1. PICK n \in Placed(kernel) : Int20h(Restate(kernel, ManualTargets(n), "READY", FALSE))
      BY <1>8 DEF arqSysUnblock
    <2>2. Call(Restate(kernel, ManualTargets(n), "READY", FALSE))
      BY <1>0, <2>1, RestatedSettled, RestateLists
    <2>3. QED
      BY <1>8, <2>2, SettledCallLists DEF arqSysUnblock
  <1>9. CASE arqSysChangeState
    <2>1. PICK n \in Placed(kernel) :
              \/ Int20h(setProcessState(kernel, {n}, "READY"))
              \/ Int20h(setProcessState(kernel, {n}, "BLOCKED"))
              \/ Int20h(kernel)
      BY <1>9 DEF arqSysChangeState
    <2>2. {n} \subseteq Placed(kernel)
      BY <2>1
    <2>3. \E k : Call(k)
      <3>1. CASE Int20h(setProcessState(kernel, {n}, "READY"))
        BY <1>0, <3>1, SetStateSettled, SetStateLists
      <3>2. CASE Int20h(setProcessState(kernel, {n}, "BLOCKED"))
        BY <1>0, <2>2, <3>2, SetStateSettled, SetStateLists
      <3>3. CASE Int20h(kernel)
        BY <1>0, <3>3
      <3>4. QED
        BY <2>1, <3>1, <3>2, <3>3
    <2>4. QED
      BY <1>9, <2>3, SettledCallLists DEF arqSysChangeState
  <1>10. CASE arqSysPriority
    BY <1>10, PriorityLists
  <1>11. CASE arqSysYield
    <2>1. {cur} \subseteq Placed(kernel) /\ Int20h(setProcessState(kernel, {cur}, "YIELDED"))
      BY <1>0, <1>11 DEF arqSysYield
    <2>2. Call(setProcessState(kernel, {cur}, "YIELDED"))
      BY <1>0, <2>1, SetStateSettled, SetStateLists
    <2>3. QED
      BY <1>11, <2>2, SettledCallLists DEF arqSysYield
  <1>12. CASE arqSysSetToForeground
    BY <1>0, <1>12, ForegroundLists DEF arqSysSetToForeground, Stays, ListsInv
  <1>13. CASE arqSysSetToBackground
    BY <1>0, <1>13, ForegroundLists DEF arqSysSetToBackground, Stays, ListsInv
  <1>14. CASE arqSysWait
    <2> DEFINE k == setProcessToBackground(kernel, cur)
    <2>1. Settled(k) /\ k.current = cur /\ LostReady(k)
          /\ \A c : Sleepers(kernel, c) => Sleepers(k, c)
      BY <1>0, ForegroundSettled, ForegroundLists
    <2>2. WaitLoop(k) /\ cur # IdleNode /\ cont[cur] # "sleep"
      BY <1>14 DEF arqSysWait, InSyscall, InUser
    <2> HIDE DEF k
    <2>3. QED
      BY <2>1, <2>2, WaitLoopLists
  <1>15. CASE WaitAgain
    <2>1. WaitLoop(kernel) /\ cur # IdleNode /\ cont[cur] # "sleep"
      BY <1>0, <1>15 DEF WaitAgain
    <2>2. QED
      BY <1>0, <2>1, WaitLoopLists
  <1>16. CASE sleep
    BY <1>16, SleepLists
  <1>17. CASE SleepEnd
    BY <1>17, SleepEndLists
  <1>18. CASE arqSysRead
    BY <1>18, ReadLoopLists DEF arqSysRead, InSyscall, InUser
  <1>19. CASE ReadAgain
    <2>1. cur # IdleNode /\ cont[cur] # "sleep"
      BY <1>0, <1>19 DEF ReadAgain
    <2>2. QED
      BY <1>19, <2>1, ReadLoopLists DEF ReadAgain
  <1>20. CASE arqSysClosePd
    <2> DEFINE e == [kernel.pcb[cur] EXCEPT !.stdin = FALSE]
    <2>1. kernel.pcb[cur] \in Pcbs
      BY <1>0 DEF Kernels
    <2>2. e \in Pcbs /\ e.state = kernel.pcb[cur].state /\ e.id = kernel.pcb[cur].id
      BY <2>1 DEF Pcbs
    <2>3. kernel' = Update(kernel, cur, e)
      BY <1>20 DEF arqSysClosePd
    <2> HIDE DEF e
    <2>4. SameButPcb(kernel, kernel')
          /\ \A m \in Nodes : kernel'.pcb[m] = IF m = cur THEN e ELSE kernel.pcb[m]
      BY <1>0, <2>2, <2>3, UpdateType
    <2>5. LostReady(kernel') /\ Sleepers(kernel', cont)
      BY <1>0, <2>2, <2>4, SameLists DEF SameButPcb, Placed
    <2>6. QED
      BY <1>0, <1>20, <2>5 DEF arqSysClosePd, Stays, ListsInv
  <1>21. CASE exceptionDispatcher
    <2>1. cur # IdleNode /\ cont[cur] # "sleep"
      BY <1>21 DEF exceptionDispatcher, InSyscall, InUser
    <2>2. QED
      BY <1>21, <2>1, FaultLists DEF exceptionDispatcher
  <1>22. CASE FaultAgain
    <2>1. cur # IdleNode /\ cont[cur] # "sleep"
      BY <1>0, <1>22 DEF FaultAgain
    <2>2. QED
      BY <1>22, <2>1, FaultLists DEF FaultAgain
  <1>23. CASE UNCHANGED vars
    BY <1>23 DEF vars, ListsInv
  <1>24. QED
    BY <1>1, <1>2, <1>3, <1>4, <1>5, <1>6, <1>7, <1>8, <1>9, <1>10, <1>11, <1>12,
       <1>13, <1>14, <1>15, <1>16, <1>17, <1>18, <1>19, <1>20, <1>21, <1>22, <1>23
    DEF Next

LEMMA InitLists == Init => ListsInv
  <1> SUFFICES ASSUME Init PROVE ListsInv
    OBVIOUS
  <1>1. /\ kernel.allocated = {InitNode, IdleNode} /\ kernel.ready = {} /\ kernel.blocked = {}
        /\ kernel.current = InitNode /\ kernel.timers = {}
        /\ \A n \in Nodes : cont[n] = "user"
    BY DEF Init
  <1>2. LostIn(kernel) = {} /\ Placed(kernel) = {InitNode}
    BY <1>1, NodesAssumption DEF LostIn, Placed
  <1>3. QED
    BY <1>1, <1>2, NodesAssumption DEF ListsInv, Sleepers, Matched, LostReady

-----------------------------------------------------------------------------
(* The theorems.                                                             *)

\* Whatever the calls, the interrupts and the due timers: until a process inside
\* sleep is lost, the timers agree with the continuations, by node and by pid, and
\* nobody but READY processes has fallen out of the lists.
THEOREM ListsKept == Spec => []ListsInv
  <1>1. Init => Inv /\ ListsInv
    BY InitInv, InitLists
  <1>2. Inv /\ ListsInv /\ [Next]_vars => (Inv /\ ListsInv)'
    BY NextInv, NextLists
  <1>3. QED
    BY <1>1, <1>2, PTL DEF Spec

\* Although timer.c unlinks by pid and pids are handed out again: as long as no
\* sleeper has fallen out of all lists, a process inside sleep keeps its own timer
\* until it returns or dies, and no timer outlives its process, also when the
\* scheduler frees the PCB.
THEOREM SleepersKeepTimers == Spec => []TimersSound
  <1>1. Inv /\ ListsInv => TimersSound
    <2> SUFFICES ASSUME Inv, ListsInv, \A n \in Lost : cont[n] # "sleep"
                 PROVE  kernel.timers =
                          {[node |-> n, pid |-> kernel.pcb[n].id, turn |-> 1] :
                              n \in {m \in Placed(kernel) : cont[m] = "sleep"}}
      BY DEF TimersSound
    <2> DEFINE Own(n) == [node |-> n, pid |-> kernel.pcb[n].id, turn |-> 1]
    <2>1. Matched(kernel, cont)
      BY DEF ListsInv, Sleepers, SleeperLost, Lost, LostIn
    <2>2. kernel.timers \subseteq Timers
      BY KernelNodes, TimerFacts DEF Inv, Settled, Table
    <2>3. \A t \in kernel.timers : t = Own(t.node)
      BY <2>1, <2>2 DEF Matched, Timers
    <2>4. QED
      BY <2>1, <2>3 DEF Matched
  <1>2. Spec => []Inv
    BY Settles
  <1>3. QED
    BY <1>1, <1>2, ListsKept, PTL

\* nextProcess drops a process from every list only when it is READY: BLOCKED,
\* RUNNING and YIELDED processes are always in a list or on the processor.
THEOREM LossesAreReady == Spec => []OnlyReadyLost
  <1>1. ListsInv => OnlyReadyLost
    BY DEF ListsInv, LostReady, LostIn, OnlyReadyLost, Lost
  <1>2. QED
    BY <1>1, ListsKept, PTL

-----------------------------------------------------------------------------
(***************************************************************************)
(* No lost wake-up on the keyboard.  A scheduler call blocks nobody, marks *)
(* nobody as foreground, reads no key and opens no standard input; it      *)
(* forgets a reader only when that process is deleted, because the pids in *)
(* the lists are unique.                                                   *)
(***************************************************************************)

\* From k to t nobody becomes a waiting reader, whatever the lists are.
Calm(k, t) ==
    /\ k \in Kernels /\ t \in Kernels
    /\ t.keys = k.keys
    /\ t.readers \subseteq k.readers
    /\ \A n \in Nodes :
          /\ t.pcb[n].state = "BLOCKED" => /\ k.pcb[n].state = "BLOCKED"
                                           /\ t.pcb[n].foreground = k.pcb[n].foreground
          /\ t.pcb[n].stdin => k.pcb[n].stdin

\* Also nobody enters the lists, and who stays in them stays recorded.
Serves(k, t) ==
    /\ Calm(k, t)
    /\ Placed(t) \subseteq Placed(k) \cup {IdleNode}
    /\ \A n \in Placed(t) \ {IdleNode} : n \in k.readers => n \in t.readers

LEMMA CalmTransitive ==
    ASSUME NEW k, NEW r, NEW t, Calm(k, r), Calm(r, t)
    PROVE  Calm(k, t)
  BY DEF Calm

LEMMA ServesTransitive ==
    ASSUME NEW k, NEW r, NEW t, Serves(k, r), Serves(r, t)
    PROVE  Serves(k, t)
  <1>1. Calm(k, t)
    BY CalmTransitive DEF Serves
  <1>2. QED
    BY <1>1 DEF Serves

\* A step that leaves the lists and the readers alone.
LEMMA MildServes ==
    ASSUME NEW k, NEW r, Mild(k, r), Calm(k, r), r.readers = k.readers
    PROVE  Serves(k, r)
  BY DEF Mild, Serves, Placed

\* Setting states and replacing a PCB.
LEMMA RestateReaders ==
    ASSUME NEW k \in Kernels, NEW S, NEW s \in States, NEW b \in BOOLEAN
    PROVE  LET r == Restate(k, S, s, b)
           IN  /\ r \in Kernels /\ r.keys = k.keys /\ r.readers = k.readers
               /\ \A n \in Nodes : r.pcb[n].stdin = k.pcb[n].stdin
               /\ s # "BLOCKED" => Calm(k, r)
  <1> DEFINE r == Restate(k, S, s, b)
  <1>1. Restated(k, r, S, s)
    BY RestateType
  <1>2. \A n \in Nodes : r.pcb[n].stdin = k.pcb[n].stdin
    <2>1. \A n \in Nodes : r.pcb[n] = IF n \in S
                                      THEN [k.pcb[n] EXCEPT !.state = s, !.manualBlocked = b]
                                      ELSE k.pcb[n]
      BY DEF Restate, Kernels
    <2>2. \A n \in Nodes : k.pcb[n] \in Pcbs
      BY DEF Kernels
    <2> HIDE DEF r
    <2>3. QED
      BY <2>1, <2>2 DEF Pcbs
  <1> HIDE DEF r
  <1>3. QED
    BY <1>1, <1>2 DEF Restated, SameButPcb, Calm, r

LEMMA UpdateCalm ==
    ASSUME NEW k \in Kernels, NEW n \in Nodes, NEW e \in Pcbs,
           e.state = "BLOCKED" => /\ k.pcb[n].state = "BLOCKED"
                                  /\ e.foreground = k.pcb[n].foreground,
           e.stdin => k.pcb[n].stdin
    PROVE  Calm(k, Update(k, n, e)) /\ Update(k, n, e).readers = k.readers
  BY UpdateType DEF SameButPcb, Calm

LEMMA SetStateCalm ==
    ASSUME NEW k \in Kernels, NEW S, NEW s \in States, s # "BLOCKED"
    PROVE  LET r == setProcessState(k, S, s)
           IN  Calm(k, r) /\ r.readers = k.readers
  BY RestateReaders DEF setProcessState

LEMMA UpdateTimersServes ==
    ASSUME NEW k \in Kernels, NEW due
    PROVE  Serves(k, updateTimers(k, due)) /\ updateTimers(k, due).readers = k.readers
  <1> DEFINE r    == setProcessState(k, Ringing(k, due), "READY")
             gone == {u \in r.timers : k.pcb[u.node].state = "EXITED"}
             T    == Unlink(r.timers, gone)
             t    == [r EXCEPT !.timers = T]
  <1>1. Calm(k, r) /\ r.readers = k.readers
    BY SetStateCalm DEF States
  <1>2. r \in Kernels /\ T \in TimerLists
    <2>1. r \in Kernels /\ r.timers \in TimerLists
      BY <1>1, KernelNodes DEF Calm
    <2>2. IsFiniteSet(gone)
      BY <2>1, TimerFacts, FS_Subset
    <2>3. QED
      BY <2>1, <2>2, UnlinkType
  <1>3. updateTimers(k, due) = t
    BY DEF updateTimers
  <1> HIDE DEF r, gone, T
  <1>4. t \in Kernels /\ t.pcb = r.pcb /\ t.keys = r.keys /\ t.readers = r.readers
    BY <1>2 DEF Kernels
  <1> HIDE DEF t
  <1>5. Calm(k, t) /\ t.readers = k.readers
    BY <1>1, <1>4 DEF Calm
  <1>6. QED
    BY <1>3, <1>5, UpdateTimersMild, MildServes

-----------------------------------------------------------------------------
(* deleteProcess.                                                            *)

LEMMA ClosePDsCalm ==
    ASSUME NEW k \in Kernels, NEW d \in Nodes
    PROVE  LET r == closePDs(k, d)
           IN  /\ Calm(k, r)
               /\ \A n \in Nodes : n \in k.readers /\ k.pcb[n].id # k.pcb[d].id
                                      => n \in r.readers
  <1> DEFINE e == [k.pcb[d] EXCEPT !.stdin = FALSE]
             u == Update(k, d, e)
             S == {m \in u.readers : k.pcb[m].id # k.pcb[d].id}
             r == [u EXCEPT !.readers = S]
  <1>1. CASE ~k.pcb[d].stdin
    BY <1>1 DEF closePDs, Calm
  <1>2. CASE k.pcb[d].stdin
    <2>1. k.pcb[d] \in Pcbs
      BY DEF Kernels
    <2>2. e \in Pcbs /\ e.state = k.pcb[d].state /\ e.foreground = k.pcb[d].foreground
                     /\ ~e.stdin
      BY <2>1 DEF Pcbs
    <2>3. closePDs(k, d) = r
      BY <1>2 DEF closePDs
    <2> HIDE DEF e
    <2>4. Calm(k, u) /\ u.readers = k.readers
      BY <2>2, UpdateCalm
    <2>5. u \in Kernels /\ S \in SUBSET Nodes
      BY <2>4 DEF Calm, Kernels
    <2> HIDE DEF u
    <2>6. r \in Kernels /\ r.pcb = u.pcb /\ r.keys = u.keys /\ r.readers = S
      BY <2>5 DEF Kernels
    <2> HIDE DEF r
    <2>7. QED
      BY <2>3, <2>4, <2>6 DEF Calm
  <1>3. QED
    BY <1>1, <1>2

LEMMA CheckChildsCalm ==
    ASSUME NEW k \in Kernels, NEW d \in Nodes
    PROVE  Calm(k, checkChilds(k, d)) /\ checkChilds(k, d).readers = k.readers
  <1> DEFINE parent == getEntry(k, k.pcb[d].parentId)
             heir   == IF parent = Null THEN NoId ELSE k.pcb[parent].id
             orphan == {c \in Placed(k) : k.pcb[c].id \in k.pcb[d].childsIds}
             f      == [c \in Nodes |-> IF c \in orphan
                                        THEN [k.pcb[c] EXCEPT !.parentId = heir]
                                        ELSE k.pcb[c]]
             r      == [k EXCEPT !.pcb = f]
  <1>1. checkChilds(k, d) = r
    BY DEF checkChilds
  <1>2. checkChilds(k, d) \in Kernels
    BY CheckChildsMild DEF Mild
  <1> HIDE DEF heir, orphan
  <1>3. \A c \in Nodes : k.pcb[c] \in Pcbs
    BY DEF Kernels
  <1>4. \A c \in Nodes : /\ f[c].state = k.pcb[c].state
                         /\ f[c].foreground = k.pcb[c].foreground
                         /\ f[c].stdin = k.pcb[c].stdin
    BY <1>3 DEF Pcbs
  <1> HIDE DEF f
  <1>5. r.pcb = f /\ r.keys = k.keys /\ r.readers = k.readers
    BY DEF Kernels
  <1> HIDE DEF r
  <1>6. QED
    BY <1>1, <1>2, <1>4, <1>5 DEF Calm

LEMMA SetParentReadyCalm ==
    ASSUME NEW k \in Kernels, NEW d \in Nodes
    PROVE  Calm(k, setParentReady(k, d)) /\ setParentReady(k, d).readers = k.readers
  <1> DEFINE parent == getEntry(k, k.pcb[d].parentId)
             e == [k.pcb[parent] EXCEPT !.childsIds = @ \ {k.pcb[d].id}]
             r == Update(k, parent, e)
  <1>1. CASE parent = Null
    BY <1>1 DEF setParentReady, Calm
  <1>2. CASE parent # Null
    <2>1. parent \in Nodes
      BY <1>2, EntryType
    <2>2. k.pcb[parent] \in Pcbs
      BY <2>1 DEF Kernels
    <2>3. setParentReady(k, d) = setProcessState(r, {parent}, "READY")
      BY <1>2 DEF setParentReady
    <2> HIDE DEF parent
    <2>4. e \in Pcbs /\ e.state = k.pcb[parent].state /\ e.stdin = k.pcb[parent].stdin
                     /\ e.foreground = k.pcb[parent].foreground
      BY <2>2 DEF Pcbs
    <2> HIDE DEF e
    <2>5. Calm(k, r) /\ r.readers = k.readers
      BY <2>1, <2>4, UpdateCalm
    <2> HIDE DEF r
    <2>6. LET t == setProcessState(r, {parent}, "READY")
          IN  Calm(r, t) /\ t.readers = r.readers
      BY <2>5, SetStateCalm DEF Calm, States
    <2>7. QED
      BY <2>3, <2>5, <2>6, CalmTransitive
  <1>3. QED
    BY <1>1, <1>2

LEMMA FreePCBCalm ==
    ASSUME NEW k \in Kernels, NEW d \in Nodes
    PROVE  Calm(k, freePCB(k, d)) /\ freePCB(k, d).readers = k.readers
  <1> DEFINE t == [k EXCEPT !.allocated = @ \ {d}]
  <1>1. freePCB(k, d) = t
    BY DEF freePCB
  <1>2. t \in Kernels /\ t.pcb = k.pcb /\ t.keys = k.keys /\ t.readers = k.readers
    BY DEF Kernels
  <1> HIDE DEF t
  <1>3. QED
    BY <1>1, <1>2 DEF Calm

\* Only the readers with the pid of the deleted process are forgotten.
LEMMA DeleteCalm ==
    ASSUME NEW k \in Kernels, NEW d \in Nodes, NEW due
    PROVE  LET r == deleteProcess(k, d, due)
           IN  /\ Calm(k, r)
               /\ \A n \in Nodes : n \in k.readers /\ k.pcb[n].id # k.pcb[d].id
                                      => n \in r.readers
  <1> DEFINE k1 == [k EXCEPT !.foreground = IF @ = d THEN Null ELSE @]
             k2 == updateTimers(k1, due)
             k3 == closePDs(k2, d)
             k4 == checkChilds(k3, d)
             k5 == setParentReady(k4, d)
             r  == deleteProcess(k, d, due)
  <1>1. k1 \in Kernels /\ k1.pcb = k.pcb /\ k1.keys = k.keys /\ k1.readers = k.readers
    BY DEF Kernels
  <1>2. r = freePCB(k5, d)
    BY DEF deleteProcess
  <1>3. Calm(k, k1)
    BY <1>1 DEF Calm
  <1> HIDE DEF k1, r
  <1>4. /\ Calm(k1, k2) /\ k2.readers = k1.readers
        /\ \A n \in Nodes : k2.pcb[n].id = k1.pcb[n].id
    BY <1>1, UpdateTimersServes, UpdateTimersMild DEF Serves, Mild
  <1> HIDE DEF k2
  <1>5. /\ Calm(k2, k3)
        /\ \A n \in Nodes : n \in k2.readers /\ k2.pcb[n].id # k2.pcb[d].id
                               => n \in k3.readers
    BY <1>4, ClosePDsCalm DEF Calm
  <1> HIDE DEF k3
  <1>6. Calm(k3, k4) /\ k4.readers = k3.readers
    BY <1>5, CheckChildsCalm DEF Calm
  <1> HIDE DEF k4
  <1>7. Calm(k4, k5) /\ k5.readers = k4.readers
    BY <1>6, SetParentReadyCalm DEF Calm
  <1> HIDE DEF k5
  <1>8. Calm(k5, r) /\ r.readers = k5.readers
    BY <1>2, <1>7, FreePCBCalm DEF Calm
  <1>9. Calm(k, r)
    BY <1>3, <1>4, <1>5, <1>6, <1>7, <1>8, CalmTransitive
  <1>10. QED
    BY <1>1, <1>4, <1>5, <1>6, <1>7, <1>8, <1>9 DEF r

-----------------------------------------------------------------------------
(* The scheduler.                                                            *)

LEMMA CheckBlockedServes ==
    ASSUME NEW k \in Kernels
    PROVE  LET r == checkBlocked(k)
           IN  /\ Serves(k, r) /\ r.readers = k.readers /\ Listed(r) = Listed(k)
               /\ r.current = k.current /\ r.pcb = k.pcb
  <1> DEFINE woken == {n \in k.blocked : k.pcb[n].state # "BLOCKED"}
             r == [k EXCEPT !.blocked = @ \ woken, !.ready = @ \cup woken]
  <1>1. /\ r \in Kernels /\ r.pcb = k.pcb /\ r.current = k.current
        /\ r.keys = k.keys /\ r.readers = k.readers
        /\ r.ready = k.ready \cup woken /\ r.blocked = k.blocked \ woken
    BY DEF Kernels
  <1>2. woken \subseteq k.blocked
    OBVIOUS
  <1>3. checkBlocked(k) = r
    BY DEF checkBlocked
  <1> HIDE DEF woken, r
  <1>4. Listed(r) = Listed(k) /\ Placed(r) = Placed(k)
    BY <1>1, <1>2 DEF Listed, Placed
  <1>5. QED
    BY <1>1, <1>3, <1>4 DEF Serves, Calm

\* nextProcess takes such a process for none.
Over(k, n) == k.pcb[n].state \in {"READY", "EXITED"}

LEMMA RequeueCalm ==
    ASSUME NEW k \in Kernels
    PROVE  LET r == Requeue(k)
           IN  /\ Calm(k, r) /\ r.readers = k.readers
               /\ Listed(r) \subseteq Placed(k)
               /\ k.current # IdleNode /\ Over(k, k.current) => Listed(r) = Listed(k)
  <1> DEFINE c == k.current
             e == [k.pcb[c] EXCEPT !.state = "READY"]
             rested == Update(k, c, e)
             r == Requeue(k)
  <1>1. c \in Nodes /\ k.pcb[c] \in Pcbs /\ "READY" \in States
        /\ Placed(k) = Listed(k) \cup {c}
    BY KernelNodes DEF Kernels, States
  <1>2. e \in Pcbs /\ e.state = "READY" /\ e.stdin = k.pcb[c].stdin
    BY <1>1 DEF Pcbs
  <1>3. SameButPcb(k, rested)
    BY <1>1, <1>2, UpdateType
  <1>4. Calm(k, rested) /\ rested.readers = k.readers
    <2> HIDE DEF e
    <2>1. QED
      BY <1>1, <1>2, UpdateCalm
  <1>5. CASE r = rested /\ c = IdleNode
    <2> HIDE DEF e, rested, r
    <2>1. Listed(r) = Listed(k)
      BY <1>3, <1>5 DEF SameButPcb, Listed
    <2>2. QED
      BY <1>1, <1>4, <1>5, <2>1 DEF r
  <1>6. CASE r = [k EXCEPT !.blocked = @ \cup {c}] /\ ~Over(k, c)
    <2> HIDE DEF r
    <2>1. /\ r \in Kernels /\ r.pcb = k.pcb /\ r.ready = k.ready
          /\ r.blocked = k.blocked \cup {c} /\ r.keys = k.keys /\ r.readers = k.readers
      BY <1>1, <1>6 DEF Kernels
    <2>2. Listed(r) = Placed(k)
      BY <1>1, <2>1 DEF Listed
    <2>3. QED
      BY <1>6, <2>1, <2>2 DEF Calm, r
  <1>7. CASE r = [rested EXCEPT !.ready = @ \cup {c}] /\ ~Over(k, c)
    <2> HIDE DEF e, rested, r
    <2>1. /\ r \in Kernels /\ r.pcb = rested.pcb /\ r.ready = rested.ready \cup {c}
          /\ r.blocked = rested.blocked /\ r.keys = rested.keys
          /\ r.readers = rested.readers
      BY <1>1, <1>3, <1>7 DEF SameButPcb, Kernels
    <2>2. Listed(r) = Placed(k)
      BY <1>1, <1>3, <2>1 DEF SameButPcb, Listed
    <2>3. QED
      BY <1>4, <1>7, <2>1, <2>2 DEF Calm, r
  <1>8. CASE r = k
    BY <1>1, <1>8 DEF Calm
  <1>9. QED
    BY <1>5, <1>6, <1>7, <1>8 DEF Requeue, Over

LEMMA DispatchCalm ==
    ASSUME NEW k \in Kernels, NEW n \in Nodes
    PROVE  LET t == Dispatch(k, n)
           IN  Calm(k, t) /\ t.readers = k.readers
  <1> DEFINE e == [k.pcb[n] EXCEPT !.state = "RUNNING"]
             r == Update(k, n, e)
             fore == IF k.pcb[n].foreground /\ n # IdleNode THEN n ELSE r.foreground
             t == [r EXCEPT !.ready = @ \ {n}, !.current = n, !.foreground = fore]
  <1>1. k.pcb[n] \in Pcbs
    BY DEF Kernels
  <1>2. e \in Pcbs /\ e.state = "RUNNING" /\ e.stdin = k.pcb[n].stdin
    BY <1>1 DEF Pcbs
  <1>3. Dispatch(k, n) = t
    BY DEF Dispatch
  <1> HIDE DEF e
  <1>4. Calm(k, r) /\ r.readers = k.readers
    BY <1>2, UpdateCalm
  <1>5. r \in Kernels /\ fore \in Nodes \cup {Null}
    BY <1>4 DEF Calm, Kernels
  <1> HIDE DEF r, fore
  <1>6. t \in Kernels /\ t.pcb = r.pcb /\ t.keys = r.keys /\ t.readers = r.readers
    BY <1>5 DEF Kernels
  <1> HIDE DEF t
  <1>7. QED
    BY <1>3, <1>4, <1>6 DEF Calm

LEMMA NextProcessServes ==
    ASSUME NEW k \in Kernels, NEW s \in nextProcess(k)
    PROVE  /\ Serves(k, s) /\ s.readers = k.readers
           /\ k.current # IdleNode /\ Over(k, k.current)
                 => Placed(s) \subseteq Listed(k) \cup {IdleNode}
  <1> DEFINE r == Requeue(k)
  <1>1. /\ Calm(k, r) /\ r.readers = k.readers /\ r \in Kernels
        /\ Listed(r) \subseteq Placed(k)
        /\ k.current # IdleNode /\ Over(k, k.current) => Listed(r) = Listed(k)
    BY RequeueCalm DEF Calm
  <1>2. PICK n \in IF r.ready = {} THEN {IdleNode} ELSE r.ready : s = Dispatch(r, n)
    BY DEF nextProcess
  <1> HIDE DEF r
  <1>3. n \in Nodes /\ n \in Listed(r) \cup {IdleNode}
    BY <1>1, <1>2, KernelNodes DEF Listed
  <1>4. Calm(r, s) /\ s.readers = r.readers
    BY <1>1, <1>2, <1>3, DispatchCalm
  <1>5. Placed(s) = Listed(r) \cup {n}
    BY <1>1, <1>2, <1>3, DispatchFields
  <1>6. Calm(k, s)
    BY <1>1, <1>4, CalmTransitive
  <1>7. QED
    BY <1>1, <1>3, <1>4, <1>5, <1>6 DEF Serves

LEMMA ReapQueuedServes ==
    ASSUME NEW k \in Kernels, Fit(k), NEW due
    PROVE  Serves(k, ReapQueued(k, due))
  <1>1. Placed(k) = Listed(k) \cup {k.current} /\ Placed(k) \subseteq Nodes
    BY KernelNodes DEF Placed
  <1>2. CASE Dead(k) = {}
    BY <1>2 DEF ReapQueued, Serves, Calm
  <1>3. CASE Dead(k) # {}
    <2>1. PICK d \in Dead(k) : ReapQueued(k, due)
              = deleteProcess([k EXCEPT !.ready = @ \ {d}, !.blocked = @ \ {d}], d, due)
      <3>1. Dead(k) \subseteq Nodes
        BY KernelNodes DEF Dead, Listed
      <3>2. (CHOOSE n \in Nodes : n \in Dead(k)) \in Dead(k)
        BY <1>3, <3>1
      <3>3. QED
        BY <1>3, <3>2 DEF ReapQueued
    <2> DEFINE b == [k EXCEPT !.ready = @ \ {d}, !.blocked = @ \ {d}]
               r == deleteProcess(b, d, due)
    <2>2. /\ b \in Kernels /\ b.pcb = k.pcb /\ b.ready = k.ready \ {d}
          /\ b.blocked = k.blocked \ {d} /\ b.current = k.current
          /\ b.keys = k.keys /\ b.readers = k.readers
      BY DEF Kernels
    <2> HIDE DEF b
    <2>3. d \in Listed(k) /\ d \in Nodes /\ d # k.current
      BY <1>1 DEF Dead, Listed, Fit, CurrentSound
    <2>4. Placed(b) = Placed(k) \ {d}
      BY <2>2, <2>3 DEF Placed
    <2>5. Serves(k, b)
      BY <2>2, <2>4 DEF Serves, Calm
    <2>6. /\ Calm(b, r)
          /\ \A n \in Nodes : n \in b.readers /\ b.pcb[n].id # b.pcb[d].id => n \in r.readers
      BY <2>2, <2>3, DeleteCalm
    <2>7. Placed(r) = Placed(b)
      <3>1. Deleted(b, r, d)
        BY <2>2, <2>3, DeleteType
      <3> HIDE DEF r
      <3>2. QED
        BY <3>1 DEF Deleted, Placed
    <2>8. \A n \in Placed(b) : b.pcb[n].id # b.pcb[d].id
      BY <1>1, <2>2, <2>3, <2>4 DEF Fit, Table, Ids, CurrentSound
    <2> HIDE DEF r
    <2>9. Serves(b, r)
      BY <1>1, <2>4, <2>6, <2>7, <2>8 DEF Serves
    <2>10. QED
      BY <2>1, <2>5, <2>9, ServesTransitive DEF r, b
  <1>4. QED
    BY <1>2, <1>3

LEMMA CheckExitedServes ==
    ASSUME NEW k \in Kernels, Fit(k), NEW due, NEW s \in checkExited(k, due)
    PROVE  Serves(k, s)
  <1> DEFINE r == ReapQueued(k, due)
             d == deleteProcess(r, r.current, due)
             c == checkBlocked(d)
  <1>1. Serves(k, r)
    BY ReapQueuedServes
  <1>2. Fit(r) /\ r \in Kernels
    BY ReapQueuedKeeps DEF Fit, Table
  <1>3. CASE ~Exited(r, r.current)
    <2>1. s = r
      BY <1>3 DEF checkExited, Exited
    <2>2. QED
      BY <1>1, <2>1
  <1>4. CASE Exited(r, r.current)
    <2>1. s \in nextProcess(c)
      BY <1>4 DEF checkExited, Exited
    <2> HIDE DEF r
    <2>2. r.current \in Nodes /\ r.current # IdleNode /\ Listed(r) \subseteq Nodes
          /\ Placed(r) = Listed(r) \cup {r.current}
      BY <1>2, <1>4, KernelNodes DEF Fit, Table, Immortal, Exited
    <2>3. Deleted(r, d, r.current)
      BY <1>2, <2>2, DeleteType
    <2>4. /\ Calm(r, d)
          /\ \A n \in Nodes : n \in r.readers /\ r.pcb[n].id # r.pcb[r.current].id
                                 => n \in d.readers
      BY <1>2, <2>2, DeleteCalm
    <2> HIDE DEF d
    <2>5. Listed(d) = Listed(r) /\ d.current = r.current /\ Over(d, d.current)
          /\ d \in Kernels
      BY <1>4, <2>2, <2>3 DEF Deleted, Listed, Exited, Over
    <2>6. /\ Serves(d, c) /\ c.readers = d.readers /\ Listed(c) = Listed(d)
          /\ c.current = d.current /\ c.pcb = d.pcb
      BY <2>5, CheckBlockedServes
    <2> HIDE DEF c
    <2>7. c \in Kernels /\ c.current # IdleNode /\ Over(c, c.current)
      BY <2>2, <2>5, <2>6 DEF Serves, Calm, Over
    <2>8. /\ Serves(c, s) /\ s.readers = c.readers
          /\ Placed(s) \subseteq Listed(c) \cup {IdleNode}
      BY <2>1, <2>7, NextProcessServes
    <2>9. \A n \in Listed(r) : r.pcb[n].id # r.pcb[r.current].id
      BY <1>2 DEF Fit, CurrentSound
    <2>10. Calm(r, s)
      BY <2>4, <2>6, <2>8, CalmTransitive DEF Serves
    <2>11. Serves(r, s)
      BY <2>2, <2>4, <2>5, <2>6, <2>8, <2>9, <2>10 DEF Serves
    <2>12. QED
      BY <1>1, <2>11, ServesTransitive DEF r
  <1>5. QED
    BY <1>3, <1>4

\* A whole call of scheduler.
LEMMA SchedulerServes ==
    ASSUME NEW k \in Kernels, Fit(k), NEW due, NEW t \in scheduler(k, due)
    PROVE  Serves(k, t)
  <1> DEFINE a == updateTimers(k, due)
             b == checkBlocked(a)
  <1>1. Mild(k, a) /\ Serves(k, a)
    BY UpdateTimersMild, UpdateTimersServes
  <1>2. PICK m \in checkExited(b, due) : t \in CheckQuantum(m)
    BY DEF scheduler
  <1> HIDE DEF a
  <1>3. a \in Kernels /\ Fit(a)
    BY <1>1, MildKeeps DEF Fit, Mild
  <1>4. b \in Kernels /\ Fit(b) /\ Serves(a, b)
    BY <1>3, CheckBlockedKeeps, CheckBlockedServes DEF Fit, Table
  <1> HIDE DEF b
  <1>5. Serves(b, m) /\ m \in Kernels
    BY <1>2, <1>4, CheckExitedServes DEF Serves, Calm
  <1>6. Serves(m, t)
    <2>1. Serves(m, m)
      BY <1>5 DEF Serves, Calm
    <2>2. QED
      BY <1>2, <1>5, <2>1, NextProcessServes DEF CheckQuantum
  <1>7. QED
    BY <1>1, <1>4, <1>5, <1>6, ServesTransitive

-----------------------------------------------------------------------------
(* The steps of a family.                                                    *)

\* A recorded reader that waits has nothing to read.
Heard(k, c) ==
    \A n \in Placed(k) \ {IdleNode} :
        (/\ n \in k.readers /\ c[n] = "read"
         /\ k.pcb[n].state = "BLOCKED" /\ k.pcb[n].foreground) => k.keys = 0

\* The standard input of a process in the lists records it.
Recorded(k, c) ==
    \A n \in Placed(k) \ {IdleNode} : k.pcb[n].stdin \/ c[n] = "read" => n \in k.readers

\* `references` of the standard input never fills up.
EnoughPlaces == IsFiniteSet(Nodes) /\ Cardinality(Nodes) <= PdSize

LEMMA ServesKeeps ==
    ASSUME NEW k, NEW t, Serves(k, t), NEW c
    PROVE  /\ Heard(k, c) => Heard(t, c)
           /\ Recorded(k, c) => Recorded(t, c)
  <1>1. Placed(k) \subseteq Nodes /\ Placed(t) \subseteq Nodes
    BY KernelNodes DEF Serves, Calm, Placed
  <1>2. QED
    BY <1>1 DEF Serves, Calm, Heard, Recorded

LEMMA CallServes ==
    ASSUME NEW k, Fit(k), Int20h(k), NEW c
    PROVE  /\ Heard(k, c) => Heard(kernel', c)
           /\ Recorded(k, c) => Recorded(kernel', c)
  <1>1. PICK due : kernel' \in scheduler(k, due)
    BY DEF Int20h
  <1>2. Serves(k, kernel')
    BY <1>1, SchedulerServes DEF Fit, Table
  <1>3. QED
    BY <1>2, ServesKeeps

\* Killing one process.
LEMMA KillServes ==
    ASSUME Inv, NEW n \in Nodes, Int20h(setProcessState(kernel, {n}, "EXITED")), NEW c
    PROVE  /\ Heard(kernel, c) => Heard(kernel', c)
           /\ Recorded(kernel, c) => Recorded(kernel', c)
  <1> DEFINE r == setProcessState(kernel, {n}, "EXITED")
  <1>1. kernel \in Kernels /\ "EXITED" \in States
    BY DEF Inv, Settled, Table, States
  <1>2. Calm(kernel, r) /\ r.readers = kernel.readers
    BY <1>1, SetStateCalm
  <1>3. Placed(r) = Placed(kernel)
    <2>1. Restated(kernel, r, Settable(kernel, {n}, "EXITED"), "EXITED")
      BY <1>1, RestateType DEF setProcessState
    <2> HIDE DEF r
    <2>2. QED
      BY <2>1 DEF Restated, SameButPcb, Placed
  <1>4. Fit(r) /\ Int20h(r)
    BY KillFit DEF Inv
  <1> HIDE DEF r
  <1>5. Serves(kernel, r)
    BY <1>2, <1>3 DEF Serves
  <1>6. QED
    BY <1>4, <1>5, ServesKeeps, CallServes

\* Nobody waits in vain when there is nothing to read: a process blocks itself
\* in the loop of wait, or in that of read without keys.
LEMMA BlockAtServes ==
    ASSUME Inv, NEW k, Settled(k), k.current = cur, NEW d, BlockAt(k, d)
    PROVE  /\ k.keys = 0 => Heard(kernel', cont')
           /\ d # "read" /\ Heard(k, cont) => Heard(kernel', cont')
           /\ Recorded(k, cont) /\ (d = "read" => cur \in k.readers)
                 => Recorded(kernel', cont')
  <1> DEFINE r == setProcessState(k, {cur}, "BLOCKED")
  <1>1. k \in Kernels /\ "BLOCKED" \in States /\ cur \in Nodes /\ "BLOCKED" # "EXITED"
        /\ Placed(k) \subseteq Nodes
    BY KernelNodes DEF Settled, Table, States, Placed
  <1>2. /\ r.keys = k.keys /\ r.readers = k.readers
        /\ \A n \in Nodes : r.pcb[n].stdin = k.pcb[n].stdin
    <2>1. PICK S : r = Restate(k, S, "BLOCKED", FALSE)
      BY DEF setProcessState
    <2> HIDE DEF r
    <2>2. QED
      BY <1>1, <2>1, RestateReaders
  <1>3. Restated(k, r, Settable(k, {cur}, "BLOCKED"), "BLOCKED")
    BY <1>1, RestateType DEF setProcessState
  <1>4. Settable(k, {cur}, "BLOCKED") \subseteq {cur}
    BY DEF Settable
  <1>5. Fit(r)
    BY <1>1, SetStateSettled, SettledPickable
  <1>6. Int20h(r) /\ \A n \in Nodes : cont'[n] = IF n = cur THEN d ELSE cont[n]
    BY <1>1 DEF BlockAt, Goes, Inv
  <1> HIDE DEF r
  <1>7. Placed(r) = Placed(k)
    BY <1>3 DEF Restated, SameButPcb, Placed
  <1>8. k.keys = 0 => Heard(r, cont')
    BY <1>2 DEF Heard
  <1>9. d # "read" /\ Heard(k, cont) => Heard(r, cont')
    <2> SUFFICES ASSUME d # "read", Heard(k, cont), NEW n \in Placed(k) \ {IdleNode},
                        n \in k.readers, cont'[n] = "read",
                        r.pcb[n].state = "BLOCKED", r.pcb[n].foreground
                 PROVE  k.keys = 0
      BY <1>2, <1>7 DEF Heard
    <2>1. n \in Nodes /\ n # cur /\ cont[n] = "read"
      BY <1>1, <1>6
    <2>2. k.pcb[n].state = "BLOCKED" /\ k.pcb[n].foreground
      BY <1>3, <1>4, <2>1 DEF Restated
    <2>3. QED
      BY <2>1, <2>2 DEF Heard
  <1>10. Recorded(k, cont) /\ (d = "read" => cur \in k.readers) => Recorded(r, cont')
    BY <1>1, <1>2, <1>6, <1>7 DEF Recorded
  <1>11. QED
    BY <1>5, <1>6, <1>8, <1>9, <1>10, CallServes

\* Marking the caller, which is not reading.
LEMMA ForegroundServes ==
    ASSUME Inv, NEW k, k \in Kernels, k.current = cur, cont[cur] # "read",
           NEW t, t \in {setProcessToForeground(k, cur), setProcessToBackground(k, cur)}
    PROVE  /\ Heard(k, cont) => Heard(t, cont)
           /\ Recorded(k, cont) => Recorded(t, cont)
  <1> DEFINE e(b) == [k.pcb[cur] EXCEPT !.foreground = b]
             u(b) == Update(k, cur, e(b))
  <1>1. cur \in Nodes /\ k.pcb[cur] \in Pcbs /\ Placed(k) \subseteq Nodes
    BY KernelNodes DEF Kernels, Placed
  <1>2. PICK b \in BOOLEAN : \E p : t = [u(b) EXCEPT !.foreground = p]
    BY DEF setProcessToForeground, setProcessToBackground
  <1>3. PICK p : t = [u(b) EXCEPT !.foreground = p]
    BY <1>2
  <1>4. e(b) \in Pcbs /\ e(b).state = k.pcb[cur].state /\ e(b).stdin = k.pcb[cur].stdin
    BY <1>1 DEF Pcbs
  <1> HIDE DEF e
  <1>5. SameButPcb(k, u(b))
        /\ \A m \in Nodes : u(b).pcb[m] = IF m = cur THEN e(b) ELSE k.pcb[m]
    BY <1>1, <1>4, UpdateType
  <1> HIDE DEF u
  <1>6. /\ t.pcb = u(b).pcb /\ t.ready = u(b).ready /\ t.blocked = u(b).blocked
        /\ t.current = u(b).current /\ t.keys = u(b).keys /\ t.readers = u(b).readers
    BY <1>3, <1>5 DEF SameButPcb, Kernels
  <1>7. Placed(t) = Placed(k)
    BY <1>5, <1>6 DEF SameButPcb, Placed
  <1>8. QED
    BY <1>1, <1>4, <1>5, <1>6, <1>7 DEF SameButPcb, Heard, Recorded

\* A key that arrives finds every reader that waits.
LEMMA AddKeyServes ==
    ASSUME Inv, addKey
    PROVE  /\ Heard(kernel, cont) => Heard(kernel', cont')
           /\ Recorded(kernel, cont) => Recorded(kernel', cont')
  <1> DEFINE wake == IF kernel.keys = 0
                     THEN {n \in kernel.readers : kernel.pcb[n].foreground} ELSE {}
             r == setProcessState(kernel, wake, "READY")
             S == Settable(kernel, wake, "READY")
  <1>1. kernel \in Kernels /\ "READY" \in States /\ Placed(kernel) \subseteq Nodes
    BY KernelNodes DEF Inv, Settled, Table, States, Placed
  <1>2. kernel' = [r EXCEPT !.keys = @ + 1] /\ cont' = cont
    BY DEF addKey, Stays
  <1>3. Restated(kernel, r, S, "READY")
    BY <1>1, RestateType DEF setProcessState
  <1>4. /\ r \in Kernels /\ r.keys = kernel.keys /\ r.readers = kernel.readers
        /\ \A n \in Nodes : r.pcb[n].stdin = kernel.pcb[n].stdin
    <2>1. r = Restate(kernel, S, "READY", FALSE)
      BY DEF setProcessState
    <2> HIDE DEF r, S
    <2>2. QED
      BY <1>1, <2>1, RestateReaders
  <1>5. \A n \in Placed(kernel) : n \in wake => n \in S
    BY DEF Settable, Exists
  <1> HIDE DEF r, S
  <1>6. /\ kernel'.pcb = r.pcb /\ kernel'.readers = r.readers
        /\ kernel'.ready = r.ready /\ kernel'.blocked = r.blocked
        /\ kernel'.current = r.current
    BY <1>2, <1>4 DEF Kernels
  <1>7. Placed(kernel') = Placed(kernel)
    BY <1>3, <1>6 DEF Restated, SameButPcb, Placed
  <1>8. ASSUME Heard(kernel, cont) PROVE Heard(kernel', cont')
    <2> SUFFICES ASSUME NEW n \in Placed(kernel) \ {IdleNode}, n \in kernel.readers,
                        cont[n] = "read", kernel'.pcb[n].state = "BLOCKED",
                        kernel'.pcb[n].foreground
                 PROVE  FALSE
      BY <1>2, <1>4, <1>6, <1>7 DEF Heard
    <2>1. n \notin S /\ kernel.pcb[n].state = "BLOCKED" /\ kernel.pcb[n].foreground
      BY <1>1, <1>3, <1>6 DEF Restated
    <2>2. kernel.keys = 0
      BY <1>8, <2>1 DEF Heard
    <2>3. QED
      BY <1>5, <2>1, <2>2
  <1>9. Recorded(kernel, cont) => Recorded(kernel', cont')
    BY <1>1, <1>2, <1>4, <1>6, <1>7 DEF Recorded
  <1>10. QED
    BY <1>8, <1>9

\* The child of a fork is not reading; with enough places it is recorded where
\* its parent is.
LEMMA ForkServes ==
    ASSUME Inv, sysFork
    PROVE  /\ Heard(kernel, cont) => Heard(kernel', cont')
           /\ EnoughPlaces /\ Recorded(kernel, cont) => Recorded(kernel', cont')
  <1> DEFINE id == unusedID(kernel)
             me == kernel.pcb[cur]
             Child(n) == [me EXCEPT !.id = id, !.parentId = me.id,
                                    !.childsIds = kernel.pcb[n].childsIds]
             parent == [me EXCEPT !.childsIds = @ \cup {id}]
  <1>1. PICK n \in Nodes \ kernel.allocated :
            /\ kernel' = [Update(Update(kernel, n, Child(n)), cur, parent)
                  EXCEPT !.allocated = @ \cup {n},
                         !.ready     = @ \cup {n},
                         !.readers   = IF me.stdin /\ Cardinality(@) < PdSize
                                       THEN @ \cup {n} ELSE @]
            /\ cont' = [cont EXCEPT ![n] = "user"]
    BY DEF sysFork
  <1>2. /\ kernel \in Kernels /\ cur \in Nodes /\ cur = kernel.current /\ cont \in [Nodes -> Conts]
        /\ \A m \in Nodes : kernel.pcb[m] \in Pcbs
        /\ Placed(kernel) \subseteq kernel.allocated /\ cur \in Placed(kernel)
        /\ kernel.allocated \subseteq Nodes /\ kernel.readers \subseteq Nodes
        /\ cur # IdleNode
    <2>1. kernel \in Kernels /\ Table(kernel) /\ cont \in [Nodes -> Conts] /\ cur = kernel.current
      BY DEF Inv, Settled, Table, cur
    <2>2. /\ cur \in Nodes /\ kernel.allocated \subseteq Nodes /\ kernel.readers \subseteq Nodes
          /\ \A m \in Nodes : kernel.pcb[m] \in Pcbs
      BY <2>1, KernelNodes DEF Kernels
    <2>3. Lists(kernel) /\ CurrentSound(kernel)
      BY DEF Inv, Settled, Table
    <2>4. Placed(kernel) \subseteq kernel.allocated /\ cur \in Placed(kernel)
      BY <2>1, <2>3 DEF Lists, CurrentSound, Placed, Listed
    <2>5. cur # IdleNode
      BY DEF sysFork, InSyscall
    <2>6. QED
      BY <2>1, <2>2, <2>4, <2>5
  <1>3. id \in Pids
    BY ForkPid
  <1> HIDE DEF id
  <1> DEFINE child == Child(n)
  <1>4. child \in Pcbs /\ parent \in Pcbs /\ parent.state = me.state
        /\ parent.foreground = me.foreground /\ parent.stdin = me.stdin
        /\ child.stdin = me.stdin
    <2>1. me \in Pcbs /\ kernel.pcb[n] \in Pcbs
      BY <1>2
    <2>2. child \in Pcbs /\ child.stdin = me.stdin
      BY <1>3, <2>1 DEF Pcbs
    <2>3. parent \in Pcbs /\ parent.state = me.state
          /\ parent.foreground = me.foreground /\ parent.stdin = me.stdin
      BY <1>3, <2>1 DEF Pcbs
    <2>4. QED
      BY <2>2, <2>3
  <1> DEFINE u1 == Update(kernel, n, child)
             u2 == Update(u1, cur, parent)
             rd == IF me.stdin /\ Cardinality(u2.readers) < PdSize
                   THEN u2.readers \cup {n} ELSE u2.readers
  <1>5. kernel' = [u2 EXCEPT !.allocated = @ \cup {n}, !.ready = @ \cup {n}, !.readers = rd]
    BY <1>1
  <1> HIDE DEF child, parent
  <1>6. SameButPcb(kernel, u1)
        /\ \A m \in Nodes : u1.pcb[m] = IF m = n THEN child ELSE kernel.pcb[m]
    BY <1>2, <1>4, UpdateType
  <1> HIDE DEF u1
  <1>7. SameButPcb(u1, u2)
        /\ \A m \in Nodes : u2.pcb[m] = IF m = cur THEN parent ELSE u1.pcb[m]
    <2>1. u1 \in Kernels
      BY <1>6 DEF SameButPcb
    <2>2. QED
      BY <1>2, <1>4, <2>1, UpdateType
  <1> HIDE DEF u2
  <1>8. u2.readers = kernel.readers /\ u2.keys = kernel.keys
    BY <1>6, <1>7 DEF SameButPcb
  <1>9. /\ kernel.readers \subseteq rd /\ rd \subseteq kernel.readers \cup {n}
        /\ me.stdin /\ Cardinality(kernel.readers) < PdSize => n \in rd
    BY <1>8
  <1> HIDE DEF rd, me
  <1>10. /\ kernel'.pcb = u2.pcb /\ kernel'.ready = u2.ready \cup {n}
         /\ kernel'.blocked = u2.blocked /\ kernel'.current = u2.current
         /\ kernel'.keys = u2.keys /\ kernel'.readers = rd
    BY <1>5, <1>7 DEF SameButPcb, Kernels
  <1>11. /\ Placed(kernel') = Placed(kernel) \cup {n}
         /\ kernel'.pcb[n].stdin = me.stdin
         /\ \A m \in Nodes \ {n} : /\ kernel'.pcb[m].state = kernel.pcb[m].state
                                   /\ kernel'.pcb[m].foreground = kernel.pcb[m].foreground
                                   /\ kernel'.pcb[m].stdin = kernel.pcb[m].stdin
    BY <1>2, <1>4, <1>6, <1>7, <1>10 DEF SameButPcb, Placed, me
  <1>12. cont'[n] = "user" /\ \A m \in Nodes \ {n} : cont'[m] = cont[m]
    BY <1>1, <1>2
  <1>13. n \in Nodes /\ n \notin Placed(kernel) /\ Placed(kernel) \subseteq Nodes
    BY <1>2
  <1>14. ASSUME Heard(kernel, cont) PROVE Heard(kernel', cont')
    <2>1. \A m \in Placed(kernel) : m \in rd => m \in kernel.readers
      BY <1>9, <1>13
    <2>2. QED
      BY <1>8, <1>10, <1>11, <1>12, <1>13, <1>14, <2>1 DEF Heard
  <1>15. ASSUME EnoughPlaces, me.stdin PROVE n \in rd
    <2>1. CASE n \in kernel.readers
      BY <1>9, <2>1
    <2>2. CASE n \notin kernel.readers
      <3>1. kernel.readers \subseteq Nodes \ {n} /\ IsFiniteSet(Nodes \ {n})
            /\ IsFiniteSet(kernel.readers)
        BY <1>2, <1>15, <2>2, FS_Subset DEF EnoughPlaces
      <3>2. /\ Cardinality(kernel.readers) <= Cardinality(Nodes \ {n})
            /\ Cardinality(kernel.readers) \in Nat
        BY <3>1, FS_Subset, FS_CardinalityType
      <3>3. Cardinality(Nodes \ {n}) = Cardinality(Nodes) - 1 /\ Cardinality(Nodes) \in Nat
        BY <1>13, <1>15, FS_RemoveElement, FS_CardinalityType DEF EnoughPlaces
      <3>4. Cardinality(kernel.readers) < PdSize
        BY <1>15, <3>2, <3>3, LimitsAssumption DEF EnoughPlaces
      <3>5. QED
        BY <1>9, <1>15, <3>4
    <2>3. QED
      BY <2>1, <2>2
  <1>16. ASSUME EnoughPlaces, Recorded(kernel, cont) PROVE Recorded(kernel', cont')
    BY <1>9, <1>10, <1>11, <1>12, <1>13, <1>15, <1>16 DEF Recorded
  <1>17. QED
    BY <1>14, <1>16

LEMMA WaitLoopServes ==
    ASSUME Inv, NEW k, Settled(k), k.current = cur, WaitLoop(k), cont[cur] # "read"
    PROVE  /\ Heard(k, cont) => Heard(kernel', cont')
           /\ Recorded(k, cont) => Recorded(kernel', cont')
  <1>1. CASE BlockAt(k, "wait")
    BY <1>1, BlockAtServes
  <1>2. CASE kernel' = setProcessToForeground(k, cur) /\ Goes("user")
    <2>1. k \in Kernels /\ cur \in Nodes
      BY KernelNodes DEF Settled, Table
    <2>2. \A n \in Nodes : cont'[n] = IF n = cur THEN "user" ELSE cont[n]
      BY <1>2, <2>1 DEF Goes, Inv
    <2>3. /\ Heard(k, cont) => Heard(kernel', cont)
          /\ Recorded(k, cont) => Recorded(kernel', cont)
      BY <1>2, <2>1, ForegroundServes
    <2>4. Settled(kernel') /\ Placed(kernel') \subseteq Nodes
      <3>1. Settled(kernel')
        BY <1>2, ForegroundSettled
      <3>2. QED
        BY <3>1, KernelNodes DEF Settled, Table, Placed
    <2>5. QED
      BY <2>2, <2>3, <2>4 DEF Heard, Recorded
  <1>3. QED
    BY <1>1, <1>2 DEF WaitLoop

LEMMA ReadLoopServes ==
    ASSUME Inv, ReadLoop("read")
    PROVE  /\ Heard(kernel, cont) => Heard(kernel', cont')
           /\ Recorded(kernel, cont) /\ cur \in kernel.readers => Recorded(kernel', cont')
  <1>1. kernel \in Kernels /\ cur \in Nodes /\ kernel.current = cur /\ Settled(kernel)
        /\ Placed(kernel) \subseteq Nodes
    BY KernelNodes DEF Inv, Settled, Table, cur, Placed
  <1>2. CASE kernel.keys = 0 /\ BlockAt(kernel, "read")
    BY <1>1, <1>2, BlockAtServes
  <1>3. ASSUME kernel.keys > 0, NEW left \in 0..kernel.keys,
               kernel' = [kernel EXCEPT !.keys = left], Goes("user")
        PROVE  /\ Heard(kernel, cont) => Heard(kernel', cont')
               /\ Recorded(kernel, cont) => Recorded(kernel', cont')
    <2>1. \A n \in Nodes : cont'[n] = IF n = cur THEN "user" ELSE cont[n]
      BY <1>1, <1>3 DEF Goes, Inv
    <2>2. /\ kernel'.pcb = kernel.pcb /\ kernel'.readers = kernel.readers
          /\ kernel'.ready = kernel.ready /\ kernel'.blocked = kernel.blocked
          /\ kernel'.current = kernel.current
      BY <1>1, <1>3 DEF Kernels
    <2>3. Placed(kernel') = Placed(kernel) /\ kernel.keys # 0
      BY <1>1, <1>3, <2>2 DEF Placed, Kernels
    <2>4. QED
      BY <1>1, <2>1, <2>2, <2>3 DEF Heard, Recorded
  <1>4. QED
    BY <1>2, <1>3 DEF ReadLoop

-----------------------------------------------------------------------------

\* The invariants of a family, with Inv: no program of a family faults, and the
\* idle process makes no system call.
Hears   == /\ Heard(kernel, cont)
           /\ \A n \in Nodes : cont[n] # "fault"
           /\ cont[IdleNode] = "user"
Listens == Recorded(kernel, cont)

\* FamilyNext is a part of Next.
LEMMA FamilyIsProgram == [TableNext]_<<vars, workload>> => [Next]_vars /\ UNCHANGED workload
  BY DEF TableNext, FamilyNext, SleepersNext, Next, vars

LEMMA FamilyStep ==
    ASSUME Inv, Hears, FamilyNext
    PROVE  /\ Hears'
           /\ EnoughPlaces /\ Listens => Listens'
  <1>0. /\ Settled(kernel) /\ kernel \in Kernels /\ cur \in Nodes /\ kernel.current = cur
        /\ Placed(kernel) \subseteq Nodes /\ cont \in [Nodes -> Conts]
        /\ Heard(kernel, cont) /\ cur \in Placed(kernel) /\ Fit(kernel)
    BY KernelNodes, SettledPickable DEF Inv, Settled, Table, cur, Placed, Hears
  <1>1. (\A n \in Nodes : cont'[n] # "fault") /\ cont'[IdleNode] = "user"
    <2>1. IdleNode \in Nodes /\ IdleNode \in kernel.allocated
      BY <1>0, KernelNodes DEF Settled, Table, Lists
    <2>2. ASSUME NEW c \in {"user", "wait", "read"}, Goes(c), cur # IdleNode
          PROVE  (\A n \in Nodes : cont'[n] # "fault") /\ cont'[IdleNode] = "user"
      BY <1>0, <2>1, <2>2 DEF Goes, Hears
    <2>3. CASE Stays
      BY <2>3 DEF Stays, Hears
    <2>4. CASE sysFork
      BY <1>0, <2>1, <2>4 DEF sysFork, Hears
    <2>5. CASE arqSysWait \/ WaitAgain \/ arqSysRead \/ ReadAgain
      <3>1. cur # IdleNode
        BY <2>5 DEF arqSysWait, WaitAgain, arqSysRead, ReadAgain, InSyscall, Hears
      <3>2. Goes("user") \/ Goes("wait") \/ Goes("read")
        BY <2>5 DEF arqSysWait, WaitAgain, WaitLoop, arqSysRead, ReadAgain, ReadLoop, BlockAt
      <3>3. QED
        BY <2>2, <3>1, <3>2
    <2>6. QED
      BY <2>3, <2>4, <2>5 DEF FamilyNext, TimerTick, addKey, CtrlC, arqSysExit,
         arqSysKill, arqSysSetToForeground, arqSysSetToBackground
  <1> SUFFICES /\ Heard(kernel', cont')
               /\ EnoughPlaces /\ Recorded(kernel, cont) => Recorded(kernel', cont')
    BY <1>1 DEF Hears, Listens
  <1>2. CASE TimerTick
    BY <1>0, <1>2, CallServes DEF TimerTick, Stays
  <1>3. CASE addKey
    BY <1>0, <1>3, AddKeyServes
  <1>4. CASE CtrlC
    BY <1>0, <1>4, KernelNodes, KillServes DEF CtrlC, Stays
  <1>5. CASE sysFork
    BY <1>0, <1>5, ForkServes
  <1>6. CASE arqSysExit
    BY <1>0, <1>6, KillServes DEF arqSysExit, Stays
  <1>7. CASE arqSysKill
    BY <1>0, <1>7, KillServes DEF arqSysKill, Stays
  <1>8. CASE arqSysWait
    <2> DEFINE k == setProcessToBackground(kernel, cur)
    <2>1. Settled(k) /\ k.current = cur
      BY <1>0, ForegroundSettled
    <2>2. cont[cur] # "read" /\ WaitLoop(k)
      BY <1>8 DEF arqSysWait, InSyscall, InUser
    <2>3. Heard(k, cont) /\ (Recorded(kernel, cont) => Recorded(k, cont))
      BY <1>0, <2>2, ForegroundServes
    <2> HIDE DEF k
    <2>4. QED
      BY <2>1, <2>2, <2>3, WaitLoopServes
  <1>9. CASE WaitAgain
    <2>1. cont[cur] # "read" /\ WaitLoop(kernel)
      BY <1>9 DEF WaitAgain
    <2>2. QED
      BY <1>0, <2>1, WaitLoopServes
  <1>10. CASE arqSysRead
    <2>1. Recorded(kernel, cont) => cur \in kernel.readers
      BY <1>0, <1>10 DEF arqSysRead, InSyscall, Recorded
    <2>2. QED
      BY <1>0, <1>10, <2>1, ReadLoopServes DEF arqSysRead
  <1>11. CASE ReadAgain
    <2>1. cur # IdleNode
      BY <1>11 DEF ReadAgain, Hears
    <2>2. Recorded(kernel, cont) => cur \in kernel.readers
      BY <1>0, <1>11, <2>1 DEF ReadAgain, Recorded
    <2>3. QED
      BY <1>0, <1>11, <2>2, ReadLoopServes DEF ReadAgain
  <1>12. CASE arqSysSetToForeground
    BY <1>0, <1>12, ForegroundServes DEF arqSysSetToForeground, InSyscall, InUser, Stays
  <1>13. CASE arqSysSetToBackground
    BY <1>0, <1>13, ForegroundServes DEF arqSysSetToBackground, InSyscall, InUser, Stays
  <1>14. QED
    BY <1>2, <1>3, <1>4, <1>5, <1>6, <1>7, <1>8, <1>9, <1>10, <1>11, <1>12, <1>13
    DEF FamilyNext

LEMMA InitHears == Init => Hears /\ Listens
  <1> SUFFICES ASSUME Init PROVE Hears /\ Listens
    OBVIOUS
  <1>1. /\ kernel.ready = {} /\ kernel.blocked = {} /\ kernel.current = InitNode
        /\ kernel.keys = 0 /\ kernel.readers = {InitNode}
        /\ \A n \in Nodes : cont[n] = "user"
    BY DEF Init
  <1>2. Placed(kernel) = {InitNode} /\ IdleNode \in Nodes
    BY <1>1, NodesAssumption DEF Placed
  <1>3. QED
    BY <1>1, <1>2 DEF Hears, Listens, Heard, Recorded

-----------------------------------------------------------------------------
(* The theorems.                                                             *)

\* In a family of programs that fork, read, wait, exit and kill, as many as there
\* are, addKey wakes every process that `references` records: none of them sleeps
\* in the foreground while there is a character.
THEOREM RecordedReadersHear == TableSpec => [](Family => Hears)
  <1>1. TableInit => Inv /\ (Family => Hears)
    BY InitInv, InitHears DEF TableInit
  <1>2. Inv /\ (Family => Hears) /\ [TableNext]_<<vars, workload>> => (Inv /\ (Family => Hears))'
    <2> SUFFICES ASSUME Inv, Family => Hears, [TableNext]_<<vars, workload>>
                 PROVE  Inv' /\ (Family' => Hears')
      OBVIOUS
    <2>1. Inv' /\ (Family' <=> Family)
      BY FamilyIsProgram, NextInv DEF Family
    <2>2. CASE Family /\ FamilyNext
      BY <2>1, <2>2, FamilyStep
    <2>3. CASE UNCHANGED vars
      BY <2>1, <2>3 DEF vars, Hears
    <2>4. CASE ~Family
      BY <2>1, <2>4
    <2>5. QED
      BY <2>2, <2>3, <2>4 DEF TableNext, Family
  <1>3. QED
    BY <1>1, <1>2, PTL DEF TableSpec

\* No lost wake-up on the keyboard, for any number of processes, as long as
\* PD_SIZE has a place for each of them: a child that fork could not record would
\* never be woken.
THEOREM ReadersAreWoken ==
    ASSUME EnoughPlaces
    PROVE  TableSpec => []FamilyReaderNotStranded
  <1> DEFINE I == Inv /\ (Family => Hears /\ Listens)
  <1>1. TableInit => I
    BY InitInv, InitHears DEF TableInit
  <1>2. I /\ [TableNext]_<<vars, workload>> => I'
    <2> SUFFICES ASSUME Inv, Family => Hears /\ Listens, [TableNext]_<<vars, workload>>
                 PROVE  Inv' /\ (Family' => Hears' /\ Listens')
      OBVIOUS
    <2>1. Inv' /\ (Family' <=> Family)
      BY FamilyIsProgram, NextInv DEF Family
    <2>2. CASE Family /\ FamilyNext
      BY <2>1, <2>2, EnoughPlaces, FamilyStep
    <2>3. CASE UNCHANGED vars
      BY <2>1, <2>3 DEF vars, Hears, Listens
    <2>4. CASE ~Family
      BY <2>1, <2>4
    <2>5. QED
      BY <2>2, <2>3, <2>4 DEF TableNext, Family
  <1>3. I => FamilyReaderNotStranded
    <2> SUFFICES ASSUME Inv, Hears, Listens PROVE ReaderNotStranded
      BY DEF FamilyReaderNotStranded
    <2>1. kernel.blocked \subseteq Placed(kernel) \ {IdleNode} /\ Placed(kernel) \subseteq Nodes
      BY KernelNodes DEF Inv, Settled, Table, Lists, Listed, Placed
    <2>2. QED
      BY <2>1 DEF ReaderNotStranded, Hears, Listens, Heard, Recorded
  <1>4. QED
    BY <1>1, <1>2, <1>3, PTL DEF TableSpec
=============================================================================
