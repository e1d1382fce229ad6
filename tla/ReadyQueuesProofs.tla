------------------------- MODULE ReadyQueuesProofs -------------------------
(***************************************************************************)
(* HogsStayHigh, and then QueuesSound, LeveledByAging and OrderKept, for   *)
(* every number of processes and every quantum.                            *)
(*                                                                         *)
(* Only the scheduler call of the running process lets its aging grow, and *)
(* there it is halved first: a/2 + q <= 2q when a <= 2q.  For this TypeOK  *)
(* is invariant enough:                                                    *)
(* a lemma per function of the scheduler says what it does to types        *)
(* and agings.                                                             *)
(*                                                                         *)
(* checkBlocked is a loop, and the loop a recursive function: that there   *)
(* is such a function (LoopExists), and what it keeps, is shown by looking *)
(* at the least number of rounds after which it would not be so.           *)
(***************************************************************************)
EXTENDS ReadyQueues, OrderLemmas, SequenceTheorems, FiniteSetTheorems

Nodes == Procs \cup {Idle}

States == {"READY", "RUNNING", "BLOCKED", "YIELDED", "EXITED"}

-----------------------------------------------------------------------------
(* The fields of the scheduler's data structures.                           *)

\* Who runs, who is alive and the clock of who runs are the same in s and t.
SameRun(s, t) == t.current = s.current /\ t.live = s.live /\ t.zero = s.zero

LEMMA FieldsOf ==
    ASSUME NEW s \in Scheds
    PROVE  /\ s.pcb \in [Nodes -> Pcbs]       /\ s.queue \in [Lists -> Seq(Procs)]
           /\ s.current \in Nodes             /\ s.live \in SUBSET Procs
           /\ s.zero \in BOOLEAN
BY DEF Scheds, Nodes

LEMMA SetTable ==
    ASSUME NEW s \in Scheds, NEW p \in [Nodes -> Pcbs], NEW t, t = [s EXCEPT !.pcb = p]
    PROVE  t \in Scheds /\ t.pcb = p /\ t.queue = s.queue /\ SameRun(s, t)
BY DEF Scheds, Nodes, SameRun

LEMMA SetLists ==
    ASSUME NEW s \in Scheds, NEW q \in [Lists -> Seq(Procs)], NEW t, t = [s EXCEPT !.queue = q]
    PROVE  t \in Scheds /\ t.pcb = s.pcb /\ t.queue = q /\ SameRun(s, t)
BY DEF Scheds, SameRun

LEMMA SetCurrent ==
    ASSUME NEW s \in Scheds, NEW c \in Nodes, NEW t, t = [s EXCEPT !.current = c]
    PROVE  /\ t \in Scheds /\ t.pcb = s.pcb /\ t.queue = s.queue
           /\ t.current = c /\ t.live = s.live /\ t.zero = s.zero
BY DEF Scheds, Nodes

LEMMA SetLive ==
    ASSUME NEW s \in Scheds, NEW l \in SUBSET Procs, NEW t, t = [s EXCEPT !.live = l]
    PROVE  /\ t \in Scheds /\ t.pcb = s.pcb /\ t.queue = s.queue
           /\ t.current = s.current /\ t.live = l /\ t.zero = s.zero
BY DEF Scheds

LEMMA SetZero ==
    ASSUME NEW s \in Scheds, NEW z \in BOOLEAN, NEW t, t = [s EXCEPT !.zero = z]
    PROVE  /\ t \in Scheds /\ t.pcb = s.pcb /\ t.queue = s.queue
           /\ t.current = s.current /\ t.live = s.live /\ t.zero = z
BY DEF Scheds

LEMMA UpdateIs ==
    ASSUME NEW s \in Scheds, NEW n, NEW entry, n \in Nodes => entry \in Pcbs,
           NEW t, t = Update(s, n, entry)
    PROVE  /\ t \in Scheds /\ t.queue = s.queue /\ SameRun(s, t)
           /\ \A m \in Nodes : t.pcb[m] = IF m = n THEN entry ELSE s.pcb[m]
<1> DEFINE p == [m \in Nodes |-> IF m = n THEN entry ELSE s.pcb[m]]
<1>1. p \in [Nodes -> Pcbs]
    BY FieldsOf
<1>2. t = [s EXCEPT !.pcb = p]
    BY DEF Update, Nodes
<1>3. \A m \in Nodes : p[m] = IF m = n THEN entry ELSE s.pcb[m]
    OBVIOUS
<1> HIDE DEF p
<1>4. QED
    BY <1>1, <1>2, <1>3, SetTable

LEMMA RestateIs ==
    ASSUME NEW s \in Scheds, NEW S, NEW state \in States, NEW t, t = Restate(s, S, state)
    PROVE  /\ t \in Scheds /\ t.queue = s.queue /\ SameRun(s, t)
           /\ \A m \in Nodes : /\ t.pcb[m].state = IF m \in S THEN state ELSE s.pcb[m].state
                               /\ t.pcb[m].aging = s.pcb[m].aging
                               /\ t.pcb[m].priority = s.pcb[m].priority
<1> DEFINE p == [m \in Nodes |->
                    IF m \in S THEN [s.pcb[m] EXCEPT !.state = state] ELSE s.pcb[m]]
<1>1. ASSUME NEW e \in Pcbs
      PROVE  LET x == [e EXCEPT !.state = state]
             IN  x \in Pcbs /\ x.state = state /\ x.aging = e.aging /\ x.priority = e.priority
    BY DEF Pcbs, States
<1>2. p \in [Nodes -> Pcbs]
    BY <1>1, FieldsOf
<1>3. t = [s EXCEPT !.pcb = p]
    BY DEF Restate, Nodes
<1>4. \A m \in Nodes : s.pcb[m] \in Pcbs
    BY FieldsOf
<1>5. \A m \in Nodes : /\ p[m].state = IF m \in S THEN state ELSE s.pcb[m].state
                       /\ p[m].aging = s.pcb[m].aging
                       /\ p[m].priority = s.pcb[m].priority
    BY <1>1, <1>4
<1> HIDE DEF p
<1>6. QED
    BY <1>2, <1>3, <1>5, SetTable

LEMMA EnqueueIs ==
    ASSUME NEW s \in Scheds, NEW n \in Procs, NEW i \in Lists, NEW t, t = Enqueue(s, n, i)
    PROVE  /\ t \in Scheds /\ t.pcb = s.pcb /\ SameRun(s, t)
           /\ \A j \in Lists : t.queue[j] = IF j = i THEN Append(s.queue[i], n) ELSE s.queue[j]
<1> DEFINE q == [s.queue EXCEPT ![i] = Append(s.queue[i], n)]
<1>1. s.queue \in [Lists -> Seq(Procs)] /\ Append(s.queue[i], n) \in Seq(Procs)
    BY FieldsOf, AppendProperties
<1>2. q \in [Lists -> Seq(Procs)]
    BY <1>1
<1>3. \A j \in Lists : q[j] = IF j = i THEN Append(s.queue[i], n) ELSE s.queue[j]
    BY <1>1
<1>4. t = [s EXCEPT !.queue = q]
    BY DEF Enqueue
<1> HIDE DEF q
<1>5. QED
    BY <1>2, <1>3, <1>4, SetLists

\* What RemoveFirst leaves is a list of processes.
LEMMA RemoveFirstTyped ==
    ASSUME NEW q \in Seq(Procs), NEW n
    PROVE  RemoveFirst(q, n) \in Seq(Procs)
<1> DEFINE I == {i \in 1..Len(q) : q[i] = n}
           m == Min(I)
<1>1. CASE I = {}
    BY <1>1 DEF RemoveFirst
<1>2. CASE I # {}
  <2>1. I \in SUBSET Nat /\ Len(q) \in Nat
      BY LenProperties
  <2>2. \E x \in I : \A y \in I : x <= y
      BY <1>2, <2>1, LeastExists
  <2>3. m \in I
      BY <2>2 DEF Min
  <2>4. RemoveFirst(q, n) = SubSeq(q, 1, m - 1) \o SubSeq(q, m + 1, Len(q))
      BY <1>2 DEF RemoveFirst, RemoveAt, SelectInSeq
  <2>5. m \in 1..Len(q)
      BY <2>3
  <2> HIDE DEF m, I
  <2>6. SubSeq(q, 1, m - 1) \in Seq(Procs) /\ SubSeq(q, m + 1, Len(q)) \in Seq(Procs)
    <3>1. /\ 1 \in 1..(Len(q) + 1) /\ m - 1 \in 0..Len(q)
          /\ m + 1 \in 1..(Len(q) + 1) /\ Len(q) \in 0..Len(q)
        BY <2>1, <2>5
    <3>2. /\ \A i \in 1..(m - 1) : q[i] \in Procs
          /\ \A i \in (m + 1)..Len(q) : q[i] \in Procs
        BY <2>1, <2>5, ElementOfSeq
    <3>3. QED
        BY <3>1, <3>2, SubSeqProperties
  <2>7. QED
      BY <2>4, <2>6, ConcatProperties
<1>3. QED
    BY <1>1, <1>2

LEMMA RemoveIs ==
    ASSUME NEW s \in Scheds, NEW n, NEW t, t = removeFromQueue(s, n)
    PROVE  /\ t \in Scheds /\ t.pcb = s.pcb /\ SameRun(s, t)
           /\ \A i \in Lists : t.queue[i] = RemoveFirst(s.queue[i], n)
<1> DEFINE q == [i \in Lists |-> RemoveFirst(s.queue[i], n)]
<1>1. q \in [Lists -> Seq(Procs)]
    BY FieldsOf, RemoveFirstTyped
<1>2. t = [s EXCEPT !.queue = q]
    BY DEF removeFromQueue
<1>3. \A i \in Lists : q[i] = RemoveFirst(s.queue[i], n)
    OBVIOUS
<1> HIDE DEF q
<1>4. QED
    BY <1>1, <1>2, <1>3, SetLists

-----------------------------------------------------------------------------
(* Levels.                                                                  *)

\* A list of the blocked is a list.
LEMMA BlockedIsList == Blocked \in Lists /\ Levels \subseteq Lists /\ 5 \in Levels
BY DEF Blocked, Lists, Levels

LEMMA LevelInRange ==
    ASSUME NEW aging \in Nat
    PROVE  levelFor(aging) \in Levels
<1> DEFINE Fits(i) == /\ i = 5 \/ aging <= Quantum * (i + 1)
                      /\ \A j \in Levels : j < i => aging > Quantum * (j + 1)
<1>1. Quantum \in Nat \ {0}
    BY TimeAssumption
<1>2. \E i \in Levels : Fits(i)
    BY <1>1 DEF Levels
<1>3. QED
    BY <1>2 DEF levelFor

LEMMA RankedEntry ==
    ASSUME NEW entry \in Pcbs
    PROVE  /\ Ranked(entry) \in Pcbs
           /\ Ranked(entry).aging = entry.aging /\ Ranked(entry).state = entry.state
           /\ Ranked(entry).priority = levelFor(entry.aging)
<1>1. levelFor(entry.aging) \in Levels
    BY LevelInRange DEF Pcbs
<1>2. defaultQuantums(levelFor(entry.aging)) \in 0..6
    BY <1>1 DEF Levels, defaultQuantums
<1>3. QED
    BY <1>1, <1>2 DEF Ranked, Pcbs

LEMMA InsertIs ==
    ASSUME NEW s \in Scheds, NEW n \in Procs, NEW t, t = insertInQueue(s, n)
    PROVE  /\ t \in Scheds /\ SameRun(s, t)
           /\ levelFor(s.pcb[n].aging) \in Levels
           /\ \A j \in Lists : t.queue[j] = IF j = levelFor(s.pcb[n].aging)
                                            THEN Append(s.queue[j], n) ELSE s.queue[j]
           /\ \A m \in Nodes : t.pcb[m] = IF m = n THEN Ranked(s.pcb[n]) ELSE s.pcb[m]
<1> DEFINE u == Update(s, n, Ranked(s.pcb[n]))
           i == levelFor(s.pcb[n].aging)
<1>1. s.pcb[n] \in Pcbs
    BY FieldsOf DEF Nodes
<1>2. i \in Levels
    BY <1>1, LevelInRange DEF Pcbs
<1>3. Ranked(s.pcb[n]) \in Pcbs
    BY <1>1, RankedEntry
<1>4. t = Enqueue(u, n, i)
    BY DEF insertInQueue
<1>5. i \in Lists
    BY <1>2, BlockedIsList
<1> HIDE DEF u, i
<1>6. /\ u \in Scheds /\ u.queue = s.queue /\ SameRun(s, u)
      /\ \A m \in Nodes : u.pcb[m] = IF m = n THEN Ranked(s.pcb[n]) ELSE s.pcb[m]
    BY <1>3, UpdateIs DEF u
<1>7. /\ t \in Scheds /\ t.pcb = u.pcb /\ SameRun(u, t)
      /\ \A j \in Lists : t.queue[j] = IF j = i THEN Append(u.queue[i], n) ELSE u.queue[j]
    BY <1>4, <1>5, <1>6, EnqueueIs
<1>8. QED
    BY <1>2, <1>6, <1>7 DEF SameRun, i

-----------------------------------------------------------------------------
(* The loop of checkBlocked.                                                *)

\* f[k] is what k rounds over q make of s.
Rounds(f, s, q, N) == f = [k \in 0..N |-> IF k = 0 THEN s ELSE Unlinked(f[k - 1], q[k])]

LEMMA LoopExists ==
    ASSUME NEW s, NEW q, NEW N \in Nat
    PROVE  \E f : Rounds(f, s, q, N)
<1> DEFINE Loop(n, f) == f = [k \in 0..n |-> IF k = 0 THEN s ELSE Unlinked(f[k - 1], q[k])]
           K == {n \in 0..N : \E f : Loop(n, f)}
<1>1. 0 \in K
  <2> DEFINE f == [k \in 0..0 |-> s]
  <2>1. f = [k \in 0..0 |-> IF k = 0 THEN s ELSE Unlinked(f[k - 1], q[k])]
      OBVIOUS
  <2> HIDE DEF f
  <2>2. Loop(0, f)
      BY <2>1
  <2> HIDE DEF Loop
  <2>3. QED
      BY <2>2
<1>2. ASSUME NEW n \in K, n < N
      PROVE  n + 1 \in K
  <2>1. PICK f : Loop(n, f)
      BY <1>2
  <2>2. n \in Nat /\ n + 1 \in 0..N
      BY <1>2
  <2> DEFINE g == [k \in 0..(n + 1) |-> IF k = n + 1 THEN Unlinked(f[n], q[n + 1]) ELSE f[k]]
  <2>3. \A k \in 0..n : f[k] = IF k = 0 THEN s ELSE Unlinked(f[k - 1], q[k])
      BY <2>1
  <2>4. g = [k \in 0..(n + 1) |-> g[k]]
      OBVIOUS
  <2>5. (\A k \in 0..n : g[k] = f[k]) /\ g[n + 1] = Unlinked(f[n], q[n + 1])
      BY <2>2
  <2> HIDE DEF g, K
  <2>6. ASSUME NEW k \in 0..(n + 1)
        PROVE  g[k] = IF k = 0 THEN s ELSE Unlinked(g[k - 1], q[k])
    <3>1. CASE k = n + 1
      <4>1. k # 0 /\ k - 1 = n /\ n \in 0..n
          BY <2>2, <3>1
      <4>2. QED
          BY <2>5, <3>1, <4>1
    <3>2. CASE k # n + 1
      <4>1. k \in 0..n /\ (k # 0 => k - 1 \in 0..n)
          BY <2>2, <3>2
      <4>2. QED
          BY <2>3, <2>5, <4>1
    <3>3. QED
        BY <3>1, <3>2
  <2>7. Loop(n + 1, g)
      BY <2>4, <2>6
  <2>8. QED
      BY <2>2, <2>7 DEF K
<1> HIDE DEF Loop
<1>3. \A n \in 0..N : n \in K
  <2>1. K \in SUBSET (0..N)
      OBVIOUS
  <2> HIDE DEF K
  <2>2. QED
      BY <1>1, <1>2, <2>1, Climb
<1>4. N \in K
    BY <1>3
<1>5. QED
    BY <1>4 DEF Loop, Rounds

LEMMA LoopOf ==
    ASSUME NEW s \in Scheds
    PROVE  \E f : /\ f[0] = s
                  /\ \A k \in 1..Len(s.queue[Blocked]) :
                        f[k] = Unlinked(f[k - 1], s.queue[Blocked][k])
                  /\ checkBlocked(s) = f[Len(s.queue[Blocked])]
<1> DEFINE q == s.queue[Blocked]
           F == CHOOSE f : Rounds(f, s, q, Len(q))
<1>1. q \in Seq(Procs) /\ Len(q) \in Nat
    BY FieldsOf, BlockedIsList, LenProperties
<1>2. checkBlocked(s) = F[Len(q)]
    BY DEF checkBlocked, Rounds
<1> HIDE DEF q, F
<1>3. \E f : Rounds(f, s, q, Len(q))
    BY <1>1, LoopExists
<1>4. F = [k \in 0..Len(q) |-> IF k = 0 THEN s ELSE Unlinked(F[k - 1], q[k])]
    BY <1>3 DEF F, Rounds
<1>5. F[0] = s /\ \A k \in 1..Len(q) : F[k] = Unlinked(F[k - 1], q[k])
  <2>1. 0 \in 0..Len(q) /\ \A k \in 1..Len(q) : k \in 0..Len(q) /\ k # 0
      BY <1>1
  <2>2. QED
      BY <1>4, <2>1
<1>6. QED
    BY <1>2, <1>5 DEF q

-----------------------------------------------------------------------------
(* The functions of the scheduler change no aging.                          *)

\* From s to t no aging changes, unless to 0.
Ageless(s, t) ==
    /\ t \in Scheds
    /\ \A n \in Nodes : t.pcb[n].aging \in {s.pcb[n].aging, 0}

LEMMA AgelessTrans ==
    ASSUME NEW s, NEW t, NEW u, Ageless(s, t), Ageless(t, u)
    PROVE  Ageless(s, u)
BY DEF Ageless

LEMMA AgelessTyped ==
    ASSUME NEW s, NEW t, Ageless(s, t)
    PROVE  t \in Scheds
BY DEF Ageless

LEMMA SamePcbs ==
    ASSUME NEW s, NEW t \in Scheds, t.pcb = s.pcb
    PROVE  Ageless(s, t)
BY DEF Ageless

LEMMA UpdateAgeless ==
    ASSUME NEW s \in Scheds, NEW n, NEW entry,
           n \in Nodes => entry \in Pcbs /\ entry.aging \in {s.pcb[n].aging, 0}
    PROVE  Ageless(s, Update(s, n, entry))
BY UpdateIs DEF Ageless

LEMMA RestateAgeless ==
    ASSUME NEW s \in Scheds, NEW S, NEW state \in States
    PROVE  Ageless(s, Restate(s, S, state))
BY RestateIs DEF Ageless

LEMMA InsertAgeless ==
    ASSUME NEW s \in Scheds, NEW n \in Procs
    PROVE  /\ Ageless(s, insertInQueue(s, n))
           /\ Ageless(s, insertLast(s, n))
           /\ Ageless(s, insertInBlockedQueue(s, n))
<1>1. s.pcb[n] \in Pcbs
    BY FieldsOf DEF Nodes
<1>2. Ageless(s, insertInQueue(s, n))
    BY <1>1, InsertIs, RankedEntry DEF Ageless
<1>3. \A i \in Lists : Ageless(s, Enqueue(s, n, i))
    BY EnqueueIs, SamePcbs
<1>4. QED
    BY <1>2, <1>3, BlockedIsList DEF insertLast, insertInBlockedQueue

LEMMA UnlinkedAgeless ==
    ASSUME NEW s \in Scheds, NEW n \in Procs
    PROVE  Ageless(s, Unlinked(s, n))
<1> DEFINE q == [s.queue EXCEPT ![Blocked] = RemoveFirst(s.queue[Blocked], n)]
           u == [s EXCEPT !.queue = q]
<1>1. q \in [Lists -> Seq(Procs)]
    BY FieldsOf, RemoveFirstTyped, BlockedIsList
<1>2. Unlinked(s, n) \in {s, insertInQueue(u, n)}
    BY DEF Unlinked
<1> HIDE DEF q
<1>3. u \in Scheds /\ Ageless(s, u)
    BY <1>1, SetLists, SamePcbs
<1> HIDE DEF u
<1>4. Ageless(s, insertInQueue(u, n))
    BY <1>3, InsertAgeless, AgelessTrans
<1>5. QED
    BY <1>2, <1>4, SamePcbs

LEMMA CheckBlockedAgeless ==
    ASSUME NEW s \in Scheds
    PROVE  Ageless(s, checkBlocked(s))
<1> DEFINE q == s.queue[Blocked]
           N == Len(q)
<1>1. q \in Seq(Procs) /\ N \in Nat /\ \A k \in 1..N : q[k] \in Procs
    BY FieldsOf, BlockedIsList, LenProperties, ElementOfSeq
<1>2. PICK f : /\ f[0] = s
               /\ \A k \in 1..N : f[k] = Unlinked(f[k - 1], q[k])
               /\ checkBlocked(s) = f[N]
    BY LoopOf
<1> DEFINE K == {k \in 0..N : Ageless(s, f[k])}
<1> HIDE DEF q, N
<1>3. 0 \in K
    BY <1>1, <1>2, SamePcbs
<1>4. ASSUME NEW k \in K, k < N PROVE k + 1 \in K
  <2>1. k + 1 \in 1..N /\ k + 1 \in 0..N /\ (k + 1) - 1 = k
      BY <1>1, <1>4
  <2>2. Ageless(s, f[k]) /\ f[k] \in Scheds
      BY AgelessTyped
  <2>3. f[k + 1] = Unlinked(f[k], q[k + 1])
      BY <1>2, <2>1
  <2>4. Ageless(f[k], f[k + 1])
      BY <1>1, <2>1, <2>2, <2>3, UnlinkedAgeless
  <2>5. Ageless(s, f[k + 1])
      BY <2>2, <2>4, AgelessTrans
  <2>6. QED
      BY <2>1, <2>5
<1>5. K \in SUBSET (0..N)
    OBVIOUS
<1> HIDE DEF K
<1>6. \A k \in 0..N : k \in K
    BY <1>1, <1>3, <1>4, <1>5, Climb
<1>7. N \in K
    BY <1>1, <1>6
<1>8. QED
    BY <1>2, <1>7 DEF K

\* nextProcess's second half: idle when all levels are empty, or the head of one.
LEMMA PickNextIs ==
    ASSUME NEW s \in Scheds, NEW t, t = PickNext(s)
    PROVE  /\ t \in Scheds /\ t.live = s.live /\ t.zero = s.zero
           /\ \/ /\ \A i \in Levels : s.queue[i] = << >>
                 /\ t.current = Idle /\ t.queue = s.queue
                 /\ t.pcb[Idle].state = "RUNNING" /\ t.pcb[Idle].aging = 0
                 /\ \A m \in Procs : t.pcb[m] = s.pcb[m]
              \/ \E i \in Levels :
                 /\ s.queue[i] # << >> /\ t.current = Head(s.queue[i])
                 /\ \A j \in Lists : t.queue[j] = IF j = i THEN Tail(s.queue[i]) ELSE s.queue[j]
                 /\ \A m \in Nodes :
                        /\ t.pcb[m].state = IF m = t.current THEN "RUNNING" ELSE s.pcb[m].state
                        /\ t.pcb[m].aging = s.pcb[m].aging
                        /\ t.pcb[m].priority = s.pcb[m].priority
<1>1. CASE \A i \in Levels : s.queue[i] = << >>
  <2> DEFINE resting == [s.pcb[Idle] EXCEPT !.aging = 0, !.quantums = 1, !.state = "RUNNING"]
             u == Update(s, Idle, resting)
  <2>1. ASSUME NEW e \in Pcbs, NEW state \in States
        PROVE  /\ [e EXCEPT !.aging = 0, !.quantums = 1, !.state = state] \in Pcbs
               /\ [e EXCEPT !.aging = 0, !.quantums = 1, !.state = state].aging = 0
               /\ [e EXCEPT !.aging = 0, !.quantums = 1, !.state = state].state = state
    <3>1. [e EXCEPT !.aging = 0, !.quantums = 1, !.state = state] \in Pcbs
      <4>1. Pcbs = [state : States, aging : Nat, quantums : 0..6, priority : Levels]
          BY DEF Pcbs, States
      <4>2. ASSUME NEW a \in Nat, NEW b \in 0..6
            PROVE  [e EXCEPT !.aging = a, !.quantums = b, !.state = state] \in Pcbs
          BY <4>1
      <4>3. 0 \in Nat /\ 1 \in 0..6
          OBVIOUS
      <4>4. QED
          BY <4>2, <4>3
    <3>2. [e EXCEPT !.aging = 0, !.quantums = 1, !.state = state].aging = 0
        BY DEF Pcbs
    <3>3. [e EXCEPT !.aging = 0, !.quantums = 1, !.state = state].state = state
        BY DEF Pcbs
    <3>4. QED
        BY <3>1, <3>2, <3>3
  <2>2. s.pcb[Idle] \in Pcbs /\ "RUNNING" \in States
      BY FieldsOf DEF Nodes, States
  <2>3. resting \in Pcbs /\ resting.aging = 0 /\ resting.state = "RUNNING"
      BY <2>1, <2>2
  <2>4. t = [u EXCEPT !.current = Idle]
      BY <1>1 DEF PickNext
  <2> HIDE DEF resting
  <2>5. /\ u \in Scheds /\ u.queue = s.queue /\ SameRun(s, u)
        /\ \A m \in Nodes : u.pcb[m] = IF m = Idle THEN resting ELSE s.pcb[m]
      BY <2>3, UpdateIs
  <2> HIDE DEF u
  <2>6. Idle \in Nodes /\ \A m \in Procs : m \in Nodes /\ m # Idle
      BY NodesAssumption DEF Nodes
  <2>7. /\ t \in Scheds /\ t.pcb = u.pcb /\ t.queue = u.queue
        /\ t.current = Idle /\ t.live = u.live /\ t.zero = u.zero
      BY <2>4, <2>5, <2>6, SetCurrent
  <2>8. QED
      BY <1>1, <2>3, <2>5, <2>6, <2>7 DEF SameRun
<1>2. CASE ~ \A i \in Levels : s.queue[i] = << >>
  <2> DEFINE First(j) == /\ s.queue[j] # << >>
                         /\ \A h \in Levels : h < j => s.queue[h] = << >>
             i == CHOOSE j \in Levels : First(j)
             n == Head(s.queue[i])
             q == [s.queue EXCEPT ![i] = Tail(s.queue[i])]
             u == Restate(s, {n}, "RUNNING")
             v == [u EXCEPT !.queue = q]
  <2>1. \E j \in Levels : First(j)
    <3> DEFINE I == {j \in Levels : s.queue[j] # << >>}
    <3>1. I \in SUBSET Nat /\ I # {}
        BY <1>2 DEF Levels
    <3>2. PICK j \in I : \A h \in I : j <= h
        BY <3>1, LeastExists
    <3>3. \A h \in Levels : h < j => ~(j <= h)
        BY <3>1 DEF Levels
    <3>4. QED
        BY <3>2, <3>3
  <2>2. i \in Levels /\ First(i)
      BY <2>1
  <2>3. t = [u EXCEPT !.queue = q, !.current = n]
      BY <1>2 DEF PickNext
  <2> HIDE DEF i
  <2>4. i \in Lists /\ s.queue[i] # << >> /\ s.queue[i] \in Seq(Procs)
      BY <2>2, BlockedIsList, FieldsOf
  <2>5. n \in Procs /\ Tail(s.queue[i]) \in Seq(Procs)
      BY <2>4, HeadTailProperties
  <2>6. q \in [Lists -> Seq(Procs)]
      BY <2>5, FieldsOf
  <2>7. \A j \in Lists : q[j] = IF j = i THEN Tail(s.queue[i]) ELSE s.queue[j]
      BY <2>4, FieldsOf
  <2>8. "RUNNING" \in States
      BY DEF States
  <2> HIDE DEF n
  <2> DEFINE S == {n}
  <2> HIDE DEF S
  <2>9. /\ u \in Scheds /\ u.queue = s.queue /\ SameRun(s, u)
        /\ \A m \in Nodes : /\ u.pcb[m].state = IF m \in S THEN "RUNNING" ELSE s.pcb[m].state
                            /\ u.pcb[m].aging = s.pcb[m].aging
                            /\ u.pcb[m].priority = s.pcb[m].priority
      BY <2>8, RestateIs DEF S
  <2> HIDE DEF u, q
  <2>10. v \in Scheds /\ v.pcb = u.pcb /\ v.queue = q /\ SameRun(u, v)
      BY <2>6, <2>9, SetLists
  <2>11. t = [v EXCEPT !.current = n]
      BY <2>3, <2>9 DEF Scheds, v
  <2> HIDE DEF v
  <2>12. /\ t \in Scheds /\ t.pcb = v.pcb /\ t.queue = v.queue
         /\ t.current = n /\ t.live = v.live /\ t.zero = v.zero
      BY <2>5, <2>10, <2>11, SetCurrent DEF Nodes
  <2>13. \A m \in Nodes : t.pcb[m].state = IF m = t.current THEN "RUNNING" ELSE s.pcb[m].state
      BY <2>9, <2>10, <2>12 DEF S
  <2>14. t.live = s.live /\ t.zero = s.zero
      BY <2>9, <2>10, <2>12 DEF SameRun
  <2>15. t.current = Head(s.queue[i])
      BY <2>12 DEF n
  <2> HIDE DEF First
  <2>16. QED
      BY <2>2, <2>4, <2>7, <2>9, <2>10, <2>12, <2>13, <2>14, <2>15
<1>3. QED
    BY <1>1, <1>2

LEMMA PickNextAgeless ==
    ASSUME NEW s \in Scheds
    PROVE  Ageless(s, PickNext(s))
<1>1. \A m \in Nodes : m \in Procs \/ m = Idle
    BY DEF Nodes
<1>2. QED
    BY <1>1, PickNextIs DEF Ageless

LEMMA NextProcessAgeless ==
    ASSUME NEW s \in Scheds
    PROVE  Ageless(s, nextProcess(s))
<1> DEFINE c == s.current
           S == {c}
           rested == Restate(s, S, "READY")
<1>1. "READY" \in States
    BY DEF States
<1>2. c \in Nodes /\ (c # Idle => c \in Procs)
    BY FieldsOf DEF Nodes
<1>3. nextProcess(s) \in
        {PickNext(rested), PickNext(s)}
            \cup (IF c = Idle THEN {} ELSE {PickNext(insertInBlockedQueue(s, c)),
                        PickNext(insertInQueue(rested, c)), PickNext(insertLast(rested, c))})
    BY DEF nextProcess
<1> HIDE DEF S, c
<1>4. Ageless(s, rested) /\ rested \in Scheds
    BY <1>1, RestateAgeless, AgelessTyped
<1> HIDE DEF rested
<1>5. ASSUME NEW t, Ageless(s, t)
      PROVE  Ageless(s, PickNext(t))
    BY <1>5, PickNextAgeless, AgelessTyped, AgelessTrans
<1>6. ASSUME c # Idle
      PROVE  /\ Ageless(s, insertInBlockedQueue(s, c))
             /\ Ageless(s, insertInQueue(rested, c)) /\ Ageless(s, insertLast(rested, c))
    BY <1>2, <1>4, <1>6, InsertAgeless, AgelessTrans
<1>7. Ageless(s, s)
    BY SamePcbs
<1>8. QED
    BY <1>3, <1>4, <1>5, <1>6, <1>7

LEMMA DeleteIs ==
    ASSUME NEW s \in Scheds, NEW n \in Nodes, NEW parent, NEW t, t = deleteProcess(s, n, parent)
    PROVE  /\ t \in Scheds /\ t.queue = s.queue
           /\ t.current = s.current /\ t.live = s.live \ {n} /\ t.zero = s.zero
           /\ t.pcb[n].state = "EXITED" /\ t.pcb[n].aging = 0
           /\ \A m \in Nodes \ {n} :
                /\ t.pcb[m].state \in {s.pcb[m].state, "READY"}
                /\ t.pcb[m].aging = s.pcb[m].aging
                /\ t.pcb[m].priority = s.pcb[m].priority
<1> DEFINE l == s.live \ {n}
           u == [s EXCEPT !.live = l]
           S == {parent} \cap Found(s)
           v == Restate(u, S, "READY")
<1>1. "READY" \in States /\ Freed \in Pcbs /\ Freed.aging = 0 /\ Freed.state = "EXITED"
    BY DEF States, Freed, Pcbs, Levels
<1>2. l \in SUBSET Procs
    BY FieldsOf
<1>3. t = Update(v, n, Freed)
    BY DEF deleteProcess
<1> HIDE DEF l, S
<1>4. /\ u \in Scheds /\ u.pcb = s.pcb /\ u.queue = s.queue
      /\ u.current = s.current /\ u.live = l /\ u.zero = s.zero
    BY <1>2, SetLive
<1> HIDE DEF u
<1>5. /\ v \in Scheds /\ v.queue = u.queue /\ SameRun(u, v)
      /\ \A m \in Nodes : /\ v.pcb[m].state = IF m \in S THEN "READY" ELSE u.pcb[m].state
                          /\ v.pcb[m].aging = u.pcb[m].aging
                          /\ v.pcb[m].priority = u.pcb[m].priority
    BY <1>1, <1>4, RestateIs
<1> HIDE DEF v
<1>6. /\ t \in Scheds /\ t.queue = v.queue /\ SameRun(v, t)
      /\ \A m \in Nodes : t.pcb[m] = IF m = n THEN Freed ELSE v.pcb[m]
    BY <1>1, <1>3, <1>5, UpdateIs
<1>7. QED
    BY <1>1, <1>2, <1>4, <1>5, <1>6 DEF SameRun, l

LEMMA DeleteAgeless ==
    ASSUME NEW s \in Scheds, NEW n \in Nodes, NEW parent
    PROVE  Ageless(s, deleteProcess(s, n, parent))
BY DeleteIs DEF Ageless

\* checkExited takes out a dead process that is linked, if there is one.
LEMMA ReapIs ==
    ASSUME NEW s \in Scheds, NEW parent
    PROVE  \/ Dead(s) = {} /\ ReapQueued(s, parent) = s
           \/ \E d \in Dead(s) \cap Procs :
                ReapQueued(s, parent) = deleteProcess(removeFromQueue(s, d), d, parent)
<1> DEFINE d == CHOOSE n \in Procs : n \in Dead(s)
<1>1. ASSUME NEW i \in Lists, NEW n \in Members(s.queue[i])
      PROVE  n \in Procs
  <2>1. s.queue[i] \in Seq(Procs)
      BY FieldsOf
  <2>2. QED
      BY <2>1, ElementOfSeq, LenProperties DEF Members
<1>2. Dead(s) \subseteq Procs
    BY <1>1 DEF Dead, InQueues
<1>3. Dead(s) # {} => d \in Dead(s) \cap Procs
    BY <1>2
<1>4. Dead(s) # {} => ReapQueued(s, parent) = deleteProcess(removeFromQueue(s, d), d, parent)
    BY DEF ReapQueued
<1>5. Dead(s) = {} => ReapQueued(s, parent) = s
    BY DEF ReapQueued
<1> HIDE DEF d
<1>6. QED
    BY <1>3, <1>4, <1>5

LEMMA CheckExitedAgeless ==
    ASSUME NEW s \in Scheds, NEW parent
    PROVE  Ageless(s, checkExited(s, parent))
<1> DEFINE r == ReapQueued(s, parent)
           u == deleteProcess(r, r.current, parent)
<1>1. Ageless(s, r) /\ r \in Scheds
  <2>1. ASSUME NEW d \in Procs, r = deleteProcess(removeFromQueue(s, d), d, parent)
        PROVE  Ageless(s, r)
    <3> DEFINE t == removeFromQueue(s, d)
    <3>1. t \in Scheds /\ t.pcb = s.pcb /\ d \in Nodes
        BY RemoveIs DEF Nodes
    <3>2. Ageless(t, deleteProcess(t, d, parent))
        BY <3>1, DeleteAgeless
    <3>3. QED
        BY <2>1, <3>1, <3>2, SamePcbs, AgelessTrans
  <2>2. QED
      BY <2>1, ReapIs, SamePcbs, AgelessTyped
<1>2. checkExited(s, parent) \in {nextProcess(checkBlocked(u)), r}
    BY DEF checkExited
<1> HIDE DEF r
<1>3. Ageless(s, u) /\ u \in Scheds
    BY <1>1, FieldsOf, DeleteAgeless, AgelessTrans, AgelessTyped
<1> HIDE DEF u
<1>4. Ageless(s, checkBlocked(u)) /\ checkBlocked(u) \in Scheds
    BY <1>3, CheckBlockedAgeless, AgelessTrans, AgelessTyped
<1>5. Ageless(s, nextProcess(checkBlocked(u)))
    BY <1>4, NextProcessAgeless, AgelessTrans
<1>6. QED
    BY <1>1, <1>2, <1>5

LEMMA ChargedEntry ==
    ASSUME NEW e \in Pcbs, NEW x, x = [e EXCEPT !.quantums = IF @ = 0 THEN 0 ELSE @ - 1]
    PROVE  /\ x \in Pcbs /\ x.aging = e.aging
           /\ x.state = e.state /\ x.priority = e.priority
<1>1. (IF e.quantums = 0 THEN 0 ELSE e.quantums - 1) \in 0..6
    BY DEF Pcbs
<1>2. QED
    BY <1>1 DEF Pcbs

LEMMA ChargeAgeless ==
    ASSUME NEW s \in Scheds
    PROVE  Ageless(s, ChargeQuantum(s))
<1> DEFINE c == s.current
           entry == [s.pcb[c] EXCEPT !.quantums = IF @ = 0 THEN 0 ELSE @ - 1]
           t == Update(s, c, entry)
<1>1. c \in Nodes /\ s.pcb[c] \in Pcbs
    BY FieldsOf
<1>2. ChargeQuantum(s) \in {nextProcess(t), t}
    BY DEF ChargeQuantum
<1>3. entry \in Pcbs /\ entry.aging = s.pcb[c].aging
    BY <1>1, ChargedEntry
<1> HIDE DEF entry, c
<1>4. Ageless(s, t) /\ t \in Scheds
    BY <1>3, UpdateAgeless, AgelessTyped
<1> HIDE DEF t
<1>5. Ageless(s, nextProcess(t))
    BY <1>4, NextProcessAgeless, AgelessTrans
<1>6. QED
    BY <1>2, <1>4, <1>5

-----------------------------------------------------------------------------
(* Where an aging may grow.                                                 *)

\* From s to t nobody crosses the bound but who was current with its clock at 0.
Tame(s, t) ==
    /\ t \in Scheds
    /\ \A n \in Nodes : s.pcb[n].aging <= 2 * Quantum =>
            t.pcb[n].aging <= 2 * Quantum \/ (s.zero /\ n = s.current)

LEMMA AgelessIsTame ==
    ASSUME NEW s, NEW t, Ageless(s, t)
    PROVE  Tame(s, t)
<1>1. 0 <= 2 * Quantum
    BY TimeAssumption
<1>2. QED
    BY <1>1 DEF Tame, Ageless

LEMMA TameThenAgeless ==
    ASSUME NEW s, NEW t, NEW u, Tame(s, t), Ageless(t, u)
    PROVE  Tame(s, u)
<1>1. 0 <= 2 * Quantum
    BY TimeAssumption
<1>2. QED
    BY <1>1 DEF Tame, Ageless

\* What Age does to the entry of the current process.
LEMMA AgeIs ==
    ASSUME NEW s \in Scheds, NEW elapsed \in Elapsed, NEW t, t = Age(s, elapsed)
    PROVE  /\ t \in Scheds /\ t.queue = s.queue /\ SameRun(s, t)
           /\ \A m \in Nodes :
                /\ t.pcb[m].state = s.pcb[m].state
                /\ m # s.current => t.pcb[m] = s.pcb[m]
                /\ \/ s.zero /\ m = s.current
                   \/ s.pcb[m].aging <= 2 * Quantum => t.pcb[m].aging <= 2 * Quantum
<1> DEFINE c == s.current
           x == IF s.zero THEN Uptime ELSE elapsed
           entry == [s.pcb[c] EXCEPT !.aging = s.pcb[c].aging \div 2 + x]
<1>1. elapsed \in 0..Quantum /\ Quantum \in Nat /\ Uptime \in Nat
    BY TimeAssumption
<1>2. x \in Nat /\ (~s.zero => x <= Quantum)
    BY <1>1
<1>3. t \in {s, Update(s, c, entry)}
    BY DEF Age
<1> HIDE DEF x
<1>4. /\ entry \in Pcbs /\ entry.state = s.pcb[c].state
      /\ s.pcb[c].aging <= 2 * Quantum => entry.aging <= 2 * Quantum \/ s.zero
  <2>1. PICK e \in Pcbs : e = s.pcb[c]
      BY FieldsOf
  <2>2. PICK a \in Nat : a = e.aging
      BY DEF Pcbs
  <2>3. a \div 2 + x \in Nat /\ (a <= 2 * Quantum /\ ~s.zero => a \div 2 + x <= 2 * Quantum)
      BY <1>1, <1>2
  <2>4. PICK b \in Nat : b = a \div 2 + x
      BY <2>3
  <2>5. /\ [e EXCEPT !.aging = b] \in Pcbs /\ [e EXCEPT !.aging = b].aging = b
        /\ [e EXCEPT !.aging = b].state = e.state
      BY DEF Pcbs
  <2>6. entry = [e EXCEPT !.aging = b]
      BY <2>1, <2>2, <2>4
  <2>7. QED
      BY <2>1, <2>2, <2>3, <2>4, <2>5, <2>6
<1> HIDE DEF entry
<1>5. CASE t = s
    BY <1>5 DEF SameRun
<1>6. CASE t = Update(s, c, entry)
  <2>1. /\ t \in Scheds /\ t.queue = s.queue /\ SameRun(s, t)
        /\ \A m \in Nodes : t.pcb[m] = IF m = c THEN entry ELSE s.pcb[m]
      BY <1>4, <1>6, UpdateIs
  <2>2. QED
      BY <1>4, <2>1
<1>7. QED
    BY <1>3, <1>5, <1>6

\* A result of scheduler, taken apart.
LEMMA SchedulerIs ==
    ASSUME NEW s, NEW t \in scheduler(s)
    PROVE  \E elapsed \in Elapsed, due \in {{}} \cup {{n} : n \in Sleepers(s)},
              parent \in Procs :
                t = [ChargeQuantum(checkExited(checkBlocked(
                        Restate(Age(s, elapsed), due, "READY")), parent)) EXCEPT !.zero = FALSE]
BY DEF scheduler, AfterTimers

LEMMA SchedulerIsTame ==
    ASSUME NEW s \in Scheds, NEW t \in scheduler(s)
    PROVE  Tame(s, t)
<1>1. PICK elapsed \in Elapsed, due \in {{}} \cup {{n} : n \in Sleepers(s)},
          parent \in Procs :
            t = [ChargeQuantum(checkExited(checkBlocked(
                    Restate(Age(s, elapsed), due, "READY")), parent)) EXCEPT !.zero = FALSE]
    BY SchedulerIs
<1> DEFINE v == Age(s, elapsed)
           w == Restate(v, due, "READY")
           u == checkBlocked(w)
           r == checkExited(u, parent)
           q == ChargeQuantum(r)
<1>2. t = [q EXCEPT !.zero = FALSE]
    BY <1>1
<1>3. Tame(s, v) /\ v \in Scheds
    BY AgeIs DEF Tame
<1> HIDE DEF v
<1>4. "READY" \in States
    BY DEF States
<1>5. Ageless(v, w) /\ w \in Scheds
    BY <1>3, <1>4, RestateAgeless, AgelessTyped
<1> HIDE DEF w
<1>6. Ageless(v, u) /\ u \in Scheds
    BY <1>5, CheckBlockedAgeless, AgelessTrans, AgelessTyped
<1> HIDE DEF u
<1>7. Ageless(v, r) /\ r \in Scheds
    BY <1>6, CheckExitedAgeless, AgelessTrans, AgelessTyped
<1> HIDE DEF r
<1>8. Ageless(v, q) /\ q \in Scheds
    BY <1>7, ChargeAgeless, AgelessTrans, AgelessTyped
<1> HIDE DEF q
<1>9. t \in Scheds /\ t.pcb = q.pcb
    BY <1>2, <1>8, SetZero
<1>10. Ageless(v, t)
    BY <1>8, <1>9 DEF Ageless
<1>11. QED
    BY <1>3, <1>10, TameThenAgeless

-----------------------------------------------------------------------------
(* The specification.                                                       *)

LEMMA InitTyped == Init => TypeOK
<1> SUFFICES ASSUME Init PROVE TypeOK
    OBVIOUS
<1> DEFINE p == [n \in Nodes |->
                    [Freed EXCEPT !.state = IF n \in {InitNode, Idle} THEN "READY" ELSE @]]
           q == [i \in Lists |-> << >>]
<1>1. Freed \in Pcbs /\ \A state \in States : [Freed EXCEPT !.state = state] \in Pcbs
    BY DEF Freed, Pcbs, States, Levels
<1>2. Freed.state \in States /\ "READY" \in States
    BY DEF Freed, States
<1>3. p \in [Nodes -> Pcbs]
    BY <1>1, <1>2
<1>4. q \in [Lists -> Seq(Procs)]
    BY EmptySeq
<1>5. sched = [pcb |-> p, queue |-> q, current |-> InitNode, live |-> {InitNode}, zero |-> TRUE]
    BY DEF Init, Nodes
<1> HIDE DEF p, q
<1>6. QED
    BY <1>3, <1>4, <1>5, NodesAssumption DEF Scheds, Nodes, TypeOK

\* Restating the table before the scheduler call changes neither who is current
\* nor its clock.
LEMMA RestateThenSchedule ==
    ASSUME TypeOK, NEW S, NEW state \in States, Int20h(Restate(sched, S, state))
    PROVE  Tame(sched, sched')
<1> DEFINE s == Restate(sched, S, state)
<1>1. sched \in Scheds
    BY DEF TypeOK
<1>2. /\ s \in Scheds /\ SameRun(sched, s)
      /\ \A n \in Nodes : s.pcb[n].aging = sched.pcb[n].aging
    BY <1>1, RestateIs
<1>3. sched' \in scheduler(s)
    BY DEF Int20h
<1> HIDE DEF s
<1>4. Tame(s, sched')
    BY <1>2, <1>3, SchedulerIsTame
<1>5. QED
    BY <1>2, <1>4 DEF Tame, SameRun

\* The entry that changePriority writes.
LEMMA NicedEntry ==
    ASSUME NEW e \in Pcbs, NEW priority \in Priorities, NEW x,
           x = [e EXCEPT !.aging = agingOf(priority), !.priority = priority,
                         !.quantums = defaultQuantums(priority)]
    PROVE  x \in Pcbs /\ x.state = e.state
<1>1. priority \in 0..5 /\ Quantum \in Nat
    BY TimeAssumption
<1>2. agingOf(priority) \in Nat /\ defaultQuantums(priority) \in 0..6 /\ priority \in Levels
    BY <1>1 DEF agingOf, defaultQuantums, Levels
<1>3. ASSUME NEW a \in Nat, NEW b \in Levels, NEW c \in 0..6,
             x = [e EXCEPT !.aging = a, !.priority = b, !.quantums = c]
      PROVE  x \in Pcbs /\ x.state = e.state
    BY <1>3 DEF Pcbs
<1>4. QED
    BY <1>2, <1>3

LEMMA PriorityTame ==
    ASSUME TypeOK, NEW n \in Procs, NEW priority \in Priorities, changePriority(n, priority)
    PROVE  /\ TypeOK'
           /\ \A m \in Nodes \ {n} : sched.pcb[m].aging <= 2 * Quantum =>
                    sched'.pcb[m].aging <= 2 * Quantum
<1> DEFINE r == removeFromQueue(sched, n)
           entry == [sched.pcb[n] EXCEPT !.aging = agingOf(priority), !.priority = priority,
                                         !.quantums = defaultQuantums(priority)]
           s == Update(r, n, entry)
<1>1. sched \in Scheds /\ n \in Nodes /\ sched.pcb[n] \in Pcbs
    BY FieldsOf DEF TypeOK, Nodes
<1>2. entry \in Pcbs
    BY <1>1, NicedEntry
<1>3. sched' \in {insertInBlockedQueue(s, n), insertInQueue(s, n)}
    BY DEF changePriority
<1>4. r \in Scheds /\ r.pcb = sched.pcb
    BY <1>1, RemoveIs
<1> HIDE DEF entry, r
<1>5. s \in Scheds /\ \A m \in Nodes \ {n} : s.pcb[m] = r.pcb[m]
    BY <1>2, <1>4, UpdateIs
<1> HIDE DEF s
<1>6. Ageless(s, sched')
    BY <1>3, <1>5, InsertAgeless
<1>7. 0 <= 2 * Quantum
    BY TimeAssumption
<1>8. QED
    BY <1>4, <1>5, <1>6, <1>7 DEF Ageless, TypeOK

LEMMA ForkTame ==
    ASSUME TypeOK, NEW n \in Procs \ sched.live, InProcess,
           sched' = [insertInQueue(Update(sched, n, sched.pcb[Running]), n)
                        EXCEPT !.live = @ \cup {n}]
    PROVE  /\ TypeOK'
           /\ \A m \in Nodes \ {n} : sched.pcb[m].aging <= 2 * Quantum =>
                    sched'.pcb[m].aging <= 2 * Quantum
<1> DEFINE s == Update(sched, n, sched.pcb[Running])
           t == insertInQueue(s, n)
           l == t.live \cup {n}
<1>1. sched \in Scheds /\ sched.pcb[Running] \in Pcbs
    BY FieldsOf DEF TypeOK, InProcess, Nodes
<1>2. sched' = [t EXCEPT !.live = l]
    OBVIOUS
<1>3. s \in Scheds /\ \A m \in Nodes \ {n} : s.pcb[m] = sched.pcb[m]
    BY <1>1, UpdateIs
<1> HIDE DEF s
<1>4. Ageless(s, t) /\ t \in Scheds
    BY <1>3, InsertAgeless, AgelessTyped
<1>5. l \in SUBSET Procs
    BY <1>4, FieldsOf
<1> HIDE DEF t, l
<1>6. sched' \in Scheds /\ sched'.pcb = t.pcb
  <2>1. PICK v : v = [t EXCEPT !.live = l]
      OBVIOUS
  <2>2. t \in Scheds
      BY <1>4
  <2>3. v \in Scheds /\ v.pcb = t.pcb
      BY ONLY <1>5, <2>1, <2>2, SetLive
  <2>4. sched' = v
      BY <1>2, <2>1
  <2>5. QED
      BY <2>3, <2>4
<1>7. 0 <= 2 * Quantum
    BY TimeAssumption
<1>8. QED
    BY <1>3, <1>4, <1>6, <1>7 DEF Ageless, TypeOK

\* The entry of a process that has replaced itself.
LEMMA FreshEntry ==
    ASSUME NEW e \in Pcbs, NEW x, x = [e EXCEPT !.aging = 0, !.priority = 0, !.quantums = 1]
    PROVE  x \in Pcbs /\ x.aging = 0 /\ x.state = e.state
<1>1. 0 \in Nat /\ 0 \in Levels /\ 1 \in 0..6
    BY DEF Levels
<1>2. ASSUME NEW a \in Nat, NEW b \in Levels, NEW c \in 0..6,
             x = [e EXCEPT !.aging = a, !.priority = b, !.quantums = c]
      PROVE  x \in Pcbs /\ x.aging = a /\ x.state = e.state
    BY <1>2 DEF Pcbs
<1>3. QED
    BY <1>1, <1>2

LEMMA ExecveIs ==
    ASSUME TypeOK, sysExecve
    PROVE  /\ sched' \in Scheds /\ sched'.queue = sched.queue /\ Running \in Procs
           /\ sched'.current = sched.current /\ sched'.live = sched.live
           /\ \A m \in Nodes : /\ m # Running => sched'.pcb[m] = sched.pcb[m]
                               /\ sched'.pcb[m].state = sched.pcb[m].state
                               /\ sched'.pcb[m].aging \in {sched.pcb[m].aging, 0}
<1> DEFINE entry == [sched.pcb[Running] EXCEPT !.aging = 0, !.priority = 0, !.quantums = 1]
           s == Update(sched, Running, entry)
<1>1. sched \in Scheds /\ Running \in Procs /\ sched.pcb[Running] \in Pcbs
    BY FieldsOf DEF TypeOK, sysExecve, InProcess, Nodes
<1>2. sched' = [s EXCEPT !.zero = TRUE]
    BY DEF sysExecve
<1>3. entry \in Pcbs /\ entry.aging = 0 /\ entry.state = sched.pcb[Running].state
    BY <1>1, FreshEntry
<1> HIDE DEF entry
<1>4. /\ s \in Scheds /\ s.queue = sched.queue /\ SameRun(sched, s)
      /\ \A m \in Nodes : s.pcb[m] = IF m = Running THEN entry ELSE sched.pcb[m]
    BY <1>1, <1>3, UpdateIs
<1> HIDE DEF s
<1>5. /\ sched' \in Scheds /\ sched'.pcb = s.pcb /\ sched'.queue = s.queue
      /\ sched'.current = s.current /\ sched'.live = s.live
    BY <1>2, <1>4, SetZero
<1>6. QED
    BY <1>1, <1>3, <1>4, <1>5 DEF SameRun

\* The step of HogsStayHigh.
HogsStep ==
    \A n \in Procs :
        (/\ n \in sched.live \cap sched'.live
         /\ sched.pcb[n].aging <= 2 * Quantum
         /\ sched'.pcb[n].aging > 2 * Quantum) =>
            \/ sched.zero /\ n = Running
            \/ \E priority \in Priorities : changePriority(n, priority)

LEMMA AgingsAre ==
    ASSUME NEW s \in Scheds, NEW m \in Nodes
    PROVE  s.pcb[m].aging \in Nat
BY FieldsOf DEF Pcbs

LEMMA TameStep ==
    ASSUME Tame(sched, sched')
    PROVE  TypeOK' /\ HogsStep
<1>1. sched' \in Scheds
    BY DEF Tame
<1>2. \A n \in Nodes : sched'.pcb[n].aging \in Nat
    BY <1>1, AgingsAre
<1>3. 2 * Quantum \in Nat
    BY TimeAssumption
<1>4. QED
    BY <1>1, <1>2, <1>3 DEF Tame, HogsStep, Running, Nodes, TypeOK

LEMMA NextStep ==
    ASSUME TypeOK, [Next]_vars
    PROVE  TypeOK' /\ HogsStep
<1>1. States = {"READY", "RUNNING", "BLOCKED", "YIELDED", "EXITED"} /\ 2 * Quantum \in Nat
    BY TimeAssumption DEF States
<1>2. sched \in Scheds
    BY DEF TypeOK
<1>3. ASSUME NEW S, NEW state \in States, Int20h(Restate(sched, S, state))
      PROVE  TypeOK' /\ HogsStep
    BY <1>3, RestateThenSchedule, TameStep
<1>4. CASE TimerTick
    BY <1>2, <1>4, SchedulerIsTame, TameStep DEF TimerTick, Int20h
<1>5. CASE WakeReader
  <2>1. PICK n : sched' = Restate(sched, {n}, "READY")
      BY <1>5 DEF WakeReader
  <2>2. Ageless(sched, sched')
      BY <1>1, <1>2, <2>1, RestateAgeless
  <2>3. QED
      BY <2>2, AgelessIsTame, TameStep
<1>6. CASE Block \/ arqSysYield \/ arqSysExit
    BY <1>1, <1>3, <1>6 DEF Block, arqSysYield, arqSysExit, Leave
<1>7. CASE arqSysBlock \/ arqSysUnblock \/ arqSysKill \/ CtrlC
    BY <1>1, <1>3, <1>7 DEF arqSysBlock, arqSysUnblock, arqSysKill, CtrlC
<1>8. CASE arqSysPriority
  <2>1. PICK n \in Procs, priority \in Priorities : changePriority(n, priority)
      BY <1>8 DEF arqSysPriority
  <2>2. /\ TypeOK'
        /\ \A m \in Nodes \ {n} : sched.pcb[m].aging <= 2 * Quantum =>
                sched'.pcb[m].aging <= 2 * Quantum
      BY <2>1, PriorityTame
  <2>3. \A m \in Nodes : sched'.pcb[m].aging \in Nat
      BY <2>2, AgingsAre DEF TypeOK
  <2>4. QED
      BY <1>1, <2>1, <2>2, <2>3 DEF HogsStep, Nodes
<1>9. CASE sysFork
  <2>1. PICK n \in Procs \ sched.live :
            sched' = [insertInQueue(Update(sched, n, sched.pcb[Running]), n)
                        EXCEPT !.live = @ \cup {n}]
      BY <1>9 DEF sysFork
  <2>2. /\ TypeOK'
        /\ \A m \in Nodes \ {n} : sched.pcb[m].aging <= 2 * Quantum =>
                sched'.pcb[m].aging <= 2 * Quantum
      BY <1>9, <2>1, ForkTame DEF sysFork
  <2>3. \A m \in Nodes : sched'.pcb[m].aging \in Nat
      BY <2>2, AgingsAre DEF TypeOK
  <2>4. QED
      BY <1>1, <2>2, <2>3 DEF HogsStep, Nodes
<1>10. CASE sysExecve
  <2>1. Ageless(sched, sched')
      BY <1>10, ExecveIs DEF Ageless
  <2>2. QED
      BY <2>1, AgelessIsTame, TameStep
<1>11. CASE UNCHANGED vars
    BY <1>2, <1>11, SamePcbs, AgelessIsTame, TameStep DEF vars
<1>12. QED
    BY <1>4, <1>5, <1>6, <1>7, <1>8, <1>9, <1>10, <1>11 DEF Next

\* Every field of the scheduler's data structures holds a value of its type, and
\* every list a list of processes.
THEOREM TypesKept == Spec => []TypeOK
<1>1. Init => TypeOK
    BY InitTyped
<1>2. TypeOK /\ [Next]_vars => TypeOK'
    BY NextStep
<1>3. QED
    BY <1>1, <1>2, PTL DEF Spec

\* A process that only computes never leaves the two highest levels, for every
\* number of processes, every quantum and every program: only nice and the first
\* interval after execve (or after boot) let its aging exceed two quanta.
THEOREM HogsStayHighHolds == Spec => HogsStayHigh
<1>1. TypeOK /\ [Next]_vars => [HogsStep]_vars
    BY NextStep
<1>2. HogsStayHigh <=> [][HogsStep]_vars
    BY DEF HogsStayHigh, HogsStep, Niced
<1>3. QED
    BY <1>1, <1>2, TypesKept, PTL DEF Spec

-----------------------------------------------------------------------------
(***************************************************************************)
(* The lists.  Whatever is forked, killed, woken and niced in whatever     *)
(* order, a live process is current or linked once, or has got lost in the *)
(* state READY, and each level but the lowest holds the processes of its   *)
(* age.                                                                    *)
(*                                                                         *)
(* The invariant is Housed with Placed and NoneDead.  Inside a call of     *)
(* scheduler they hold in part only: checkExited takes out the one process *)
(* that may be dead, nextProcess takes the current one to where it belongs *)
(* and puts another one in its place.                                      *)
(*                                                                         *)
(* The order within a level is kept (Ordered) by each of these functions.  *)
(* Such steps can be put together as long as nobody leaves a level who may *)
(* come back (Grown): in a call without a death only the last function     *)
(* takes somebody out.                                                     *)
(***************************************************************************)

-----------------------------------------------------------------------------
(* Lists that hold nobody twice.                                            *)

OneEach(q) == \A j, k \in DOMAIN q : q[j] = q[k] => j = k

\* From q to r nobody who is in q is overtaken.
InOrder(q, r) == \A m, n : Before(r, n, m) => Before(q, n, m) \/ m \notin Members(q)

LEMMA AppendMembers ==
    ASSUME NEW q \in Seq(Procs), NEW n \in Procs
    PROVE  /\ Members(Append(q, n)) = Members(q) \cup {n}
           /\ n \notin Members(q) /\ OneEach(q) => OneEach(Append(q, n))
           /\ n \notin Members(q) => InOrder(q, Append(q, n))
<1> DEFINE r == Append(q, n)
<1>1. /\ Len(q) \in Nat /\ DOMAIN q = 1..Len(q) /\ Len(r) = Len(q) + 1
      /\ r \in Seq(Procs) /\ r[Len(q) + 1] = n
      /\ \A i \in 1..Len(q) : r[i] = q[i]
    BY LenProperties, AppendProperties
<1>2. DOMAIN r = 1..(Len(q) + 1)
    BY <1>1, LenProperties
<1> HIDE DEF r
<1>3. /\ \A i \in 1..(Len(q) + 1) : i \in 1..Len(q) \/ i = Len(q) + 1
      /\ \A i \in 1..Len(q) : i \in 1..(Len(q) + 1)
      /\ Len(q) + 1 \in 1..(Len(q) + 1)
    BY <1>1
<1>4. Members(r) = Members(q) \cup {n}
    BY <1>1, <1>2, <1>3 DEF Members
<1>5. n \notin Members(q) /\ OneEach(q) => OneEach(r)
    BY <1>1, <1>2, <1>3 DEF Members, OneEach
<1>6. ASSUME n \notin Members(q), NEW x, NEW y, Before(r, x, y)
      PROVE  Before(q, x, y) \/ y \notin Members(q)
  <2>1. PICK j \in 1..(Len(q) + 1), k \in 1..(Len(q) + 1) : j < k /\ r[j] = x /\ r[k] = y
      BY <1>2, <1>6 DEF Before
  <2>2. CASE k = Len(q) + 1
      BY <1>1, <1>6, <2>1, <2>2
  <2>3. CASE k \in 1..Len(q)
    <3>1. j \in 1..Len(q)
        BY <1>1, <2>1, <2>3
    <3>2. q[j] = x /\ q[k] = y
        BY <1>1, <2>1, <2>3, <3>1
    <3>3. QED
        BY <1>1, <2>1, <2>3, <3>1, <3>2 DEF Before
  <2>4. QED
      BY <1>3, <2>1, <2>2, <2>3
<1>7. QED
    BY <1>4, <1>5, <1>6 DEF r, InOrder

LEMMA TailMembers ==
    ASSUME NEW q \in Seq(Procs), q # << >>, OneEach(q)
    PROVE  /\ Head(q) \in Members(q)
           /\ Members(Tail(q)) = Members(q) \ {Head(q)}
           /\ OneEach(Tail(q))
           /\ \A x, y : Before(Tail(q), x, y) => Before(q, x, y)
<1> DEFINE r == Tail(q)
<1>1. /\ Len(q) \in Nat /\ DOMAIN q = 1..Len(q) /\ r \in Seq(Procs)
      /\ Len(r) = Len(q) - 1 /\ \A i \in 1..Len(r) : r[i] = q[i + 1]
    BY LenProperties, HeadTailProperties
<1>2. Len(q) # 0
    BY <1>1, EmptySeq
<1>3. Head(q) = q[1] /\ 1 \in 1..Len(q)
    BY <1>1, <1>2, HeadTailProperties
<1>4. DOMAIN r = 1..(Len(q) - 1)
    BY <1>1, LenProperties
<1> HIDE DEF r
<1>5. /\ \A i \in 1..(Len(q) - 1) : i + 1 \in 1..Len(q) /\ i + 1 # 1 /\ r[i] = q[i + 1]
      /\ \A i \in 1..Len(q) : i # 1 => i - 1 \in 1..(Len(q) - 1) /\ r[i - 1] = q[i]
    BY <1>1
<1>6. \A i \in DOMAIN r : r[i] \in Members(q) /\ r[i] # q[1]
    BY <1>1, <1>3, <1>4, <1>5 DEF OneEach, Members
<1>7. \A i \in DOMAIN q : q[i] # q[1] => q[i] \in Members(r)
    BY <1>1, <1>4, <1>5 DEF Members
<1>8. Members(r) = Members(q) \ {Head(q)}
    BY <1>3, <1>6, <1>7 DEF Members
<1>9. ASSUME NEW j \in DOMAIN r, NEW k \in DOMAIN r, r[j] = r[k] PROVE j = k
  <2>1. j + 1 \in DOMAIN q /\ k + 1 \in DOMAIN q /\ q[j + 1] = q[k + 1]
      BY <1>1, <1>4, <1>5, <1>9
  <2>2. j + 1 = k + 1
      BY <2>1 DEF OneEach
  <2>3. QED
      BY <1>1, <1>4, <2>2
<1>10. ASSUME NEW x, NEW y, Before(r, x, y) PROVE Before(q, x, y)
  <2>1. PICK j \in DOMAIN r, k \in DOMAIN r : j < k /\ r[j] = x /\ r[k] = y
      BY <1>10 DEF Before
  <2>2. /\ j + 1 \in DOMAIN q /\ k + 1 \in DOMAIN q /\ j + 1 < k + 1
        /\ q[j + 1] = x /\ q[k + 1] = y
      BY <1>1, <1>4, <1>5, <2>1
  <2>3. QED
      BY <2>2 DEF Before
<1>11. QED
    BY <1>1, <1>3, <1>8, <1>9, <1>10 DEF Members, OneEach, r

\* Taking out the only place m of n: what is behind it moves up.
LEMMA RemoveAtPlace ==
    ASSUME NEW q \in Seq(Procs), NEW n, OneEach(q), NEW m \in 1..Len(q), q[m] = n,
           NEW r, r = RemoveFirst(q, n)
    PROVE  /\ r \in Seq(Procs) /\ Len(r) = Len(q) - 1
           /\ \A i \in 1..(Len(q) - 1) : r[i] = IF i < m THEN q[i] ELSE q[i + 1]
<1> DEFINE N == Len(q)
<1>1. N \in Nat /\ DOMAIN q = 1..N
    BY LenProperties
<1>2. /\ r \in Seq(Procs) /\ Len(r) = N - 1
      /\ \A i \in 1..(N - 1) : r[i] = IF i < m THEN q[i] ELSE q[i + 1]
  <2> DEFINE I == {i \in 1..N : q[i] = n}
             a == SubSeq(q, 1, m - 1)
             b == SubSeq(q, m + 1, N)
  <2>1. I = {m}
      BY <1>1 DEF OneEach
  <2>2. Min(I) = m
    <3>1. \A x \in I : (\A y \in I : x <= y) => x = m
        BY <2>1
    <3>2. m \in I /\ \A y \in I : m <= y
        BY <1>1, <2>1
    <3> HIDE DEF I
    <3>3. QED
        BY <3>1, <3>2 DEF Min
  <2>3. r = a \o b
      BY <1>1, <2>1, <2>2 DEF RemoveFirst, RemoveAt, SelectInSeq
  <2>4. /\ 1 \in 1..(N + 1) /\ m - 1 \in 0..N
        /\ m + 1 \in 1..(N + 1) /\ N \in 0..N
      BY <1>1
  <2>5. (\A i \in 1..(m - 1) : q[i] \in Procs) /\ (\A i \in (m + 1)..N : q[i] \in Procs)
      BY <1>1, ElementOfSeq
  <2>6. /\ a \in Seq(Procs) /\ b \in Seq(Procs)
        /\ Len(a) = m - 1 /\ Len(b) = N - m
        /\ \A i \in 1..(m - 1) : a[i] = q[i]
        /\ \A i \in 1..(N - m) : b[i] = q[m + i]
    <3>1. /\ a \in Seq(Procs)
          /\ Len(a) = IF 1 <= m - 1 THEN (m - 1) - 1 + 1 ELSE 0
          /\ \A i \in 1..((m - 1) - 1 + 1) : a[i] = q[1 + i - 1]
        BY <2>4, <2>5, SubSeqProperties
    <3>2. /\ b \in Seq(Procs)
          /\ Len(b) = IF m + 1 <= N THEN N - (m + 1) + 1 ELSE 0
          /\ \A i \in 1..(N - (m + 1) + 1) : b[i] = q[(m + 1) + i - 1]
        BY <2>4, <2>5, SubSeqProperties
    <3> HIDE DEF a, b
    <3>3. /\ (m - 1) - 1 + 1 = m - 1 /\ N - (m + 1) + 1 = N - m
          /\ \A i \in 1..(m - 1) : 1 + i - 1 = i
          /\ \A i \in 1..(N - m) : (m + 1) + i - 1 = m + i
        BY <1>1
    <3>4. Len(a) = m - 1 /\ Len(b) = N - m
      <4>1. N \in Nat /\ m \in 1..N
          BY <1>1
      <4> HIDE DEF N
      <4>2. (IF 1 <= m - 1 THEN (m - 1) - 1 + 1 ELSE 0) = m - 1
          BY <4>1
      <4>3. (IF m + 1 <= N THEN N - (m + 1) + 1 ELSE 0) = N - m
          BY <4>1
      <4>4. QED
          BY <3>1, <3>2, <4>2, <4>3
    <3>5. QED
        BY <3>1, <3>2, <3>3, <3>4
  <2> HIDE DEF a, b
  <2>7. /\ r \in Seq(Procs) /\ Len(r) = N - 1
        /\ \A i \in 1..(N - 1) : r[i] = IF i < m THEN q[i] ELSE q[i + 1]
    <3>1. r \in Seq(Procs) /\ Len(r) = Len(a) + Len(b)
        BY <2>3, <2>6, ConcatProperties
    <3>2. \A i \in 1..Len(r) : r[i] = IF i <= Len(a) THEN a[i] ELSE b[i - Len(a)]
        BY <2>3, <2>6, ConcatProperties
    <3>3. Len(a) + Len(b) = N - 1
        BY <1>1, <2>6
    <3>4. ASSUME NEW i \in 1..(N - 1)
          PROVE  r[i] = IF i < m THEN q[i] ELSE q[i + 1]
      <4>1. CASE i < m
        <5>1. i <= m - 1 /\ i \in 1..(m - 1)
            BY <1>1, <4>1
        <5>2. r[i] = a[i]
            BY <2>6, <3>1, <3>2, <3>3, <5>1
        <5>3. QED
            BY <2>6, <4>1, <5>1, <5>2
      <4>2. CASE ~(i < m)
        <5>1. ~(i <= m - 1) /\ i - (m - 1) \in 1..(N - m) /\ m + (i - (m - 1)) = i + 1
            BY <1>1, <4>2
        <5>2. r[i] = b[i - (m - 1)]
            BY <2>6, <3>1, <3>2, <3>3, <5>1
        <5>3. b[i - (m - 1)] = q[m + (i - (m - 1))]
            BY <2>6, <5>1
        <5>4. QED
            BY <4>2, <5>1, <5>2, <5>3
      <4>3. QED
          BY <4>1, <4>2
    <3>5. QED
        BY <3>1, <3>3, <3>4
  <2>8. QED
      BY <2>7
<1>3. QED
    BY <1>2

LEMMA RemoveMembers ==
    ASSUME NEW q \in Seq(Procs), NEW n, OneEach(q)
    PROVE  /\ Members(RemoveFirst(q, n)) = Members(q) \ {n}
           /\ OneEach(RemoveFirst(q, n))
           /\ InOrder(q, RemoveFirst(q, n))
<1> DEFINE N == Len(q)
           r == RemoveFirst(q, n)
<1>1. N \in Nat /\ DOMAIN q = 1..N
    BY LenProperties
<1>2. CASE \A i \in 1..N : q[i] # n
    BY <1>1, <1>2 DEF RemoveFirst, Members, InOrder
<1>3. ASSUME NEW m \in 1..N, q[m] = n
      PROVE  Members(r) = Members(q) \ {n} /\ OneEach(r) /\ InOrder(q, r)
  <2>1. /\ r \in Seq(Procs) /\ Len(r) = N - 1
        /\ \A i \in 1..(N - 1) : r[i] = IF i < m THEN q[i] ELSE q[i + 1]
      BY <1>3, RemoveAtPlace
  <2> HIDE DEF r
  <2>2. DOMAIN r = 1..(N - 1)
      BY <2>1, LenProperties
  <2> DEFINE at(i) == IF i < m THEN i ELSE i + 1
  <2>3. /\ \A i \in 1..(N - 1) : at(i) \in 1..N /\ at(i) # m /\ r[i] = q[at(i)]
        /\ \A i, j \in 1..(N - 1) : at(i) = at(j) => i = j
        /\ \A i, j \in 1..(N - 1) : i < j => at(i) < at(j)
      BY <1>1, <2>1
  <2>4. \A k \in 1..N : k # m => \E i \in 1..(N - 1) : at(i) = k
    <3>1. SUFFICES ASSUME NEW k \in 1..N, k # m PROVE \E i \in 1..(N - 1) : at(i) = k
        OBVIOUS
    <3>2. CASE k < m
      <4>1. k \in 1..(N - 1) /\ at(k) = k
          BY <1>1, <3>2
      <4>2. QED
          BY <4>1
    <3>3. CASE k > m
      <4>1. k - 1 \in 1..(N - 1) /\ at(k - 1) = k
          BY <1>1, <3>3
      <4>2. QED
          BY <4>1
    <3>4. QED
        BY <1>1, <3>1, <3>2, <3>3
  <2> HIDE DEF at
  <2>5. Members(r) = Members(q) \ {n}
    <3>1. \A i \in DOMAIN r : r[i] \in Members(q) /\ r[i] # n
        BY <1>1, <1>3, <2>2, <2>3 DEF Members, OneEach
    <3>2. \A k \in DOMAIN q : q[k] # n => q[k] \in Members(r)
      <4>1. SUFFICES ASSUME NEW k \in DOMAIN q, q[k] # n PROVE q[k] \in Members(r)
          OBVIOUS
      <4>2. PICK i \in 1..(N - 1) : at(i) = k
          BY <1>1, <1>3, <2>4, <4>1
      <4>3. QED
          BY <2>2, <2>3, <4>2 DEF Members
    <3>3. QED
        BY <3>1, <3>2 DEF Members
  <2>6. OneEach(r)
      BY <1>1, <2>2, <2>3 DEF OneEach
  <2>7. InOrder(q, r)
      BY <1>1, <2>2, <2>3 DEF InOrder, Before
  <2>8. QED
      BY <2>5, <2>6, <2>7
<1>4. QED
    BY <1>2, <1>3

\* From s to t nobody is overtaken in a level.
Ordered(s, t) == \A i \in Levels : InOrder(s.queue[i], t.queue[i])

\* Nor does anybody leave it.
Grown(s, t) ==
    /\ Ordered(s, t)
    /\ \A i \in Levels : Members(s.queue[i]) \subseteq Members(t.queue[i])

LEMMA GrownTrans ==
    ASSUME NEW s, NEW t, NEW u, Grown(s, t), Ordered(t, u)
    PROVE  Ordered(s, u) /\ (Grown(t, u) => Grown(s, u))
<1>1. ASSUME NEW i \in Levels
      PROVE  InOrder(s.queue[i], u.queue[i])
  <2>1. /\ InOrder(s.queue[i], t.queue[i]) /\ InOrder(t.queue[i], u.queue[i])
        /\ Members(s.queue[i]) \subseteq Members(t.queue[i])
      BY DEF Grown, Ordered
  <2>2. QED
      BY <2>1 DEF InOrder
<1>2. \A i \in Levels : Grown(t, u) => Members(s.queue[i]) \subseteq Members(u.queue[i])
    BY DEF Grown
<1>3. QED
    BY <1>1, <1>2 DEF Grown, Ordered

\* From s to t, n is put at the end of list i.
Appended(s, n, t, i) ==
    \A j \in Lists : t.queue[j] = IF j = i THEN Append(s.queue[j], n) ELSE s.queue[j]

\* In whatever level n is, he is the last one.
LastOrAway(n, t) == \A j \in Levels : n \in Members(t.queue[j]) => n = Last(t.queue[j])

\* Who is put at the end of a list is the last one in the list where he is.
LEMMA AppendLast ==
    ASSUME NEW s \in Scheds, NEW n \in Procs, n \notin InQueues(s), NEW t, NEW i \in Lists,
           Appended(s, n, t, i)
    PROVE  LastOrAway(n, t)
<1>1. ASSUME NEW j \in Levels, n \in Members(t.queue[j])
      PROVE  n = Last(t.queue[j])
  <2>1. j \in Lists /\ s.queue[j] \in Seq(Procs) /\ n \notin Members(s.queue[j])
      BY FieldsOf, BlockedIsList DEF InQueues
  <2>2. j = i /\ t.queue[j] = Append(s.queue[j], n)
      BY <1>1, <2>1 DEF Appended
  <2>3. /\ Len(Append(s.queue[j], n)) = Len(s.queue[j]) + 1
        /\ Append(s.queue[j], n)[Len(s.queue[j]) + 1] = n
      BY <2>1, AppendProperties
  <2>4. QED
      BY <2>2, <2>3 DEF Last
<1>2. QED
    BY <1>1 DEF LastOrAway

\* The last one stays the last one when the first one goes.
LEMMA TailLast ==
    ASSUME NEW q \in Seq(Procs), q # << >>, NEW m \in Members(Tail(q)), m = Last(q)
    PROVE  m = Last(Tail(q))
<1> DEFINE r == Tail(q)
<1>1. /\ Len(q) \in Nat /\ r \in Seq(Procs) /\ Len(r) = Len(q) - 1
      /\ DOMAIN r = 1..Len(r) /\ \A i \in 1..Len(r) : r[i] = q[i + 1]
    BY LenProperties, HeadTailProperties
<1>2. PICK k \in DOMAIN r : r[k] = m
    BY DEF Members
<1> HIDE DEF r
<1>3. Len(r) \in 1..Len(r) /\ Len(r) + 1 = Len(q)
    BY <1>1, <1>2
<1>4. r[Len(r)] = q[Len(q)]
    BY <1>1, <1>3
<1>5. QED
    BY <1>4 DEF Last, r

LEMMA SameListsGrown ==
    ASSUME NEW s, NEW t, \A i \in Levels : t.queue[i] = s.queue[i]
    PROVE  Grown(s, t)
BY DEF Grown, Ordered, InOrder

\* Somebody who is not in the lists is put at the end of one of them.
LEMMA AppendGrown ==
    ASSUME NEW s \in Scheds, NEW n \in Procs, n \notin InQueues(s), NEW t, NEW i \in Lists,
           \A j \in Lists : t.queue[j] = IF j = i THEN Append(s.queue[i], n) ELSE s.queue[j]
    PROVE  Grown(s, t)
<1>1. ASSUME NEW j \in Levels
      PROVE  /\ InOrder(s.queue[j], t.queue[j])
             /\ Members(s.queue[j]) \subseteq Members(t.queue[j])
  <2>1. j \in Lists /\ s.queue[j] \in Seq(Procs) /\ n \notin Members(s.queue[j])
      BY FieldsOf, BlockedIsList DEF InQueues
  <2>2. CASE j = i
      BY <2>1, <2>2, AppendMembers
  <2>3. CASE j # i
      BY <2>1, <2>3 DEF InOrder
  <2>4. QED
      BY <2>2, <2>3
<1>2. QED
    BY <1>1 DEF Grown, Ordered

-----------------------------------------------------------------------------
(* The lists apart from each other.                                         *)

\* Nobody is linked twice, and who is linked in one of the upper levels belongs there.
Apart(s) ==
    /\ s \in Scheds
    /\ \A i \in Lists : OneEach(s.queue[i])
    /\ \A i, j \in Lists : i # j => Members(s.queue[i]) \cap Members(s.queue[j]) = {}
    /\ \A i \in 0..4 : \A n \in Members(s.queue[i]) :
            levelFor(s.pcb[n].aging) = i /\ s.pcb[n].priority = i

LEMMA ListFacts ==
    /\ 0..4 \subseteq Lists /\ 0..4 \subseteq Levels /\ Levels \subseteq Lists
    /\ Blocked \in Lists /\ Blocked \notin 0..4 /\ 5 \in Lists /\ 5 \notin 0..4
BY DEF Lists, Levels, Blocked

LEMMA LinkedIsProc ==
    ASSUME NEW s \in Scheds
    PROVE  InQueues(s) \subseteq Procs /\ Idle \notin InQueues(s)
<1>1. ASSUME NEW i \in Lists, NEW n \in Members(s.queue[i])
      PROVE  n \in Procs
  <2>1. s.queue[i] \in Seq(Procs)
      BY FieldsOf
  <2>2. QED
      BY <2>1, ElementOfSeq, LenProperties DEF Members
<1>2. QED
    BY <1>1, NodesAssumption DEF InQueues

\* The lists are the same, and so is what decides on the level of who is linked.
LEMMA SameListsApart ==
    ASSUME NEW s, Apart(s), NEW t \in Scheds, t.queue = s.queue,
           \A n \in InQueues(s) : /\ t.pcb[n].aging = s.pcb[n].aging
                                  /\ t.pcb[n].priority = s.pcb[n].priority
    PROVE  Apart(t) /\ InQueues(t) = InQueues(s)
<1>1. \A i \in Lists : \A n \in Members(s.queue[i]) : n \in InQueues(s)
    BY DEF InQueues
<1>2. InQueues(t) = InQueues(s)
    BY DEF InQueues
<1>3. QED
    BY <1>1, <1>2, ListFacts DEF Apart

\* n, linked nowhere, goes to the end of list i.
LEMMA LinkApart ==
    ASSUME NEW s, Apart(s), NEW t \in Scheds, NEW n \in Procs, n \notin InQueues(s),
           NEW i \in Lists,
           \A j \in Lists : t.queue[j] = IF j = i THEN Append(s.queue[j], n) ELSE s.queue[j],
           \A m \in InQueues(s) : t.pcb[m] = s.pcb[m],
           i \in 0..4 => levelFor(t.pcb[n].aging) = i /\ t.pcb[n].priority = i
    PROVE  Apart(t) /\ InQueues(t) = InQueues(s) \cup {n} /\ n \in Members(t.queue[i])
<1>1. \A j \in Lists : s.queue[j] \in Seq(Procs) /\ n \notin Members(s.queue[j])
    BY FieldsOf DEF Apart, InQueues
<1>2. /\ Members(t.queue[i]) = Members(s.queue[i]) \cup {n} /\ OneEach(t.queue[i])
      /\ \A j \in Lists \ {i} : t.queue[j] = s.queue[j]
    BY <1>1, AppendMembers DEF Apart
<1>3. \A j \in Lists : OneEach(t.queue[j])
    BY <1>2 DEF Apart
<1>4. \A j, k \in Lists : j # k => Members(t.queue[j]) \cap Members(t.queue[k]) = {}
  <2>1. \A j \in Lists : \A m \in Members(t.queue[j]) :
            m \in Members(s.queue[j]) \/ (m = n /\ j = i)
      BY <1>2
  <2>2. ASSUME NEW j \in Lists, NEW k \in Lists, j # k,
               NEW m \in Members(t.queue[j]), m \in Members(t.queue[k])
        PROVE  FALSE
    <3>1. \/ m \in Members(s.queue[j]) /\ m \in Members(s.queue[k])
          \/ m = n /\ (m \in Members(s.queue[j]) \/ m \in Members(s.queue[k]))
        BY <2>1, <2>2
    <3>2. Members(s.queue[j]) \cap Members(s.queue[k]) = {}
        BY <2>2 DEF Apart
    <3>3. QED
        BY <1>1, <3>1, <3>2
  <2>3. QED
      BY <2>2
<1>5. InQueues(t) = InQueues(s) \cup {n}
    BY <1>2 DEF InQueues
<1>6. ASSUME NEW j \in 0..4, NEW m \in Members(t.queue[j])
      PROVE  levelFor(t.pcb[m].aging) = j /\ t.pcb[m].priority = j
  <2>1. j \in Lists
      BY ListFacts
  <2>2. m \in Members(s.queue[j]) \/ (j = i /\ m = n)
      BY <1>2, <2>1
  <2>3. CASE m \in Members(s.queue[j])
    <3>1. t.pcb[m] = s.pcb[m]
        BY <2>1, <2>3 DEF InQueues
    <3>2. QED
        BY <2>3, <3>1 DEF Apart
  <2>4. QED
      BY <2>2, <2>3
<1>7. QED
    BY <1>2, <1>3, <1>4, <1>5, <1>6 DEF Apart

\* All who are linked in s but n are linked in t where they were, with their
\* aging and priority.
Without(s, t, n) ==
    /\ t \in Scheds
    /\ \A j \in Lists : /\ OneEach(t.queue[j])
                        /\ Members(t.queue[j]) = Members(s.queue[j]) \ {n}
    /\ \A m \in InQueues(s) : /\ t.pcb[m].aging = s.pcb[m].aging
                              /\ t.pcb[m].priority = s.pcb[m].priority

LEMMA UnlinkApart ==
    ASSUME NEW s, Apart(s), NEW t, NEW n, Without(s, t, n)
    PROVE  Apart(t) /\ InQueues(t) = InQueues(s) \ {n}
<1> USE DEF Without
<1>1. InQueues(t) = InQueues(s) \ {n}
    BY DEF InQueues
<1>2. \A j, k \in Lists : j # k => Members(t.queue[j]) \cap Members(t.queue[k]) = {}
    BY DEF Apart
<1>3. ASSUME NEW j \in 0..4, NEW m \in Members(t.queue[j])
      PROVE  levelFor(t.pcb[m].aging) = j /\ t.pcb[m].priority = j
  <2>1. j \in Lists
      BY ListFacts
  <2>2. m \in Members(s.queue[j]) /\ m \in InQueues(s)
      BY <2>1 DEF InQueues
  <2>3. QED
      BY <2>2 DEF Apart
<1>4. QED
    BY <1>1, <1>2, <1>3 DEF Apart

LEMMA InsertApart ==
    ASSUME NEW s, Apart(s), NEW n \in Procs, n \notin InQueues(s), NEW t,
           t = insertInQueue(s, n)
    PROVE  /\ Apart(t) /\ InQueues(t) = InQueues(s) \cup {n} /\ SameRun(s, t)
           /\ \A m \in Nodes : t.pcb[m].state = s.pcb[m].state
           /\ t.queue[Blocked] = s.queue[Blocked] /\ Grown(s, t)
<1> DEFINE i == levelFor(s.pcb[n].aging)
<1>1. s \in Scheds
    BY DEF Apart
<1>2. /\ t \in Scheds /\ SameRun(s, t) /\ i \in Levels
      /\ \A j \in Lists : t.queue[j] = IF j = i THEN Append(s.queue[j], n) ELSE s.queue[j]
      /\ \A m \in Nodes : t.pcb[m] = IF m = n THEN Ranked(s.pcb[n]) ELSE s.pcb[m]
    BY <1>1, InsertIs
<1>3. s.pcb[n] \in Pcbs /\ n \in Nodes
    BY <1>1, FieldsOf DEF Nodes
<1>4. /\ t.pcb[n].aging = s.pcb[n].aging /\ t.pcb[n].state = s.pcb[n].state
      /\ t.pcb[n].priority = i
    BY <1>2, <1>3, RankedEntry
<1> HIDE DEF i
<1>5. levelFor(t.pcb[n].aging) = i
    BY <1>4 DEF i
<1>6. \A m \in InQueues(s) : t.pcb[m] = s.pcb[m]
    BY <1>1, <1>2, LinkedIsProc DEF Nodes
<1>7. i \in Lists /\ i # Blocked
    BY <1>2 DEF Lists, Levels, Blocked
<1>8. Apart(t) /\ InQueues(t) = InQueues(s) \cup {n}
    BY <1>2, <1>4, <1>5, <1>6, <1>7, LinkApart
<1>9. Grown(s, t)
    BY <1>1, <1>2, <1>7, AppendGrown
<1>10. QED
    BY <1>2, <1>4, <1>7, <1>8, <1>9, ListFacts

\* insertLast and insertInBlockedQueue.
LEMMA EnqueueApart ==
    ASSUME NEW s, Apart(s), NEW n \in Procs, n \notin InQueues(s), NEW i \in {5, Blocked},
           NEW t, t = Enqueue(s, n, i)
    PROVE  /\ Apart(t) /\ InQueues(t) = InQueues(s) \cup {n} /\ SameRun(s, t)
           /\ t.pcb = s.pcb /\ Grown(s, t)
<1>1. s \in Scheds /\ i \in Lists /\ i \notin 0..4
    BY ListFacts DEF Apart
<1>2. /\ t \in Scheds /\ t.pcb = s.pcb /\ SameRun(s, t)
      /\ \A j \in Lists : t.queue[j] = IF j = i THEN Append(s.queue[i], n) ELSE s.queue[j]
    BY <1>1, EnqueueIs
<1>3. QED
    BY <1>1, <1>2, LinkApart, AppendGrown

\* n is taken out of all lists, as removeFromQueue does.
LEMMA RemoveApart ==
    ASSUME NEW s, Apart(s), NEW n, NEW t \in Scheds, t.pcb = s.pcb,
           \A i \in Lists : t.queue[i] = RemoveFirst(s.queue[i], n)
    PROVE  /\ Apart(t) /\ InQueues(t) = InQueues(s) \ {n} /\ Ordered(s, t)
           /\ \A i \in Lists : Members(t.queue[i]) = Members(s.queue[i]) \ {n}
<1>1. s \in Scheds
    BY DEF Apart
<1>2. \A i \in Lists : /\ OneEach(t.queue[i]) /\ InOrder(s.queue[i], t.queue[i])
                       /\ Members(t.queue[i]) = Members(s.queue[i]) \ {n}
    BY <1>1, FieldsOf, RemoveMembers DEF Apart
<1>3. Ordered(s, t)
    BY <1>2, BlockedIsList DEF Ordered
<1>4. Without(s, t, n)
    BY <1>2 DEF Without
<1>5. QED
    BY <1>2, <1>3, <1>4, UnlinkApart

-----------------------------------------------------------------------------
(* checkBlocked moves processes from one list to another.                   *)

\* Where t comes from s by moves only.
Moved(s, t) ==
    /\ Apart(t) /\ InQueues(t) = InQueues(s) /\ SameRun(s, t) /\ Grown(s, t)
    /\ \A m \in Nodes : t.pcb[m].state = s.pcb[m].state

LEMMA UnlinkedMoves ==
    ASSUME NEW s, Apart(s), NEW n \in Members(s.queue[Blocked]), NEW t, t = Unlinked(s, n)
    PROVE  Moved(s, t) /\ Members(s.queue[Blocked]) \ {n} \subseteq Members(t.queue[Blocked])
<1> DEFINE q == [s.queue EXCEPT ![Blocked] = RemoveFirst(s.queue[Blocked], n)]
           u == [s EXCEPT !.queue = q]
<1>1. s \in Scheds /\ Blocked \in Lists
    BY ListFacts DEF Apart
<1>2. s.queue \in [Lists -> Seq(Procs)]
    BY <1>1, FieldsOf
<1>3. n \in Procs /\ n \in InQueues(s)
    BY <1>1, LinkedIsProc DEF InQueues
<1>4. q \in [Lists -> Seq(Procs)]
    BY <1>1, <1>2, RemoveFirstTyped
<1>5. \A j \in Lists : q[j] = IF j = Blocked THEN RemoveFirst(s.queue[Blocked], n)
                                             ELSE s.queue[j]
    BY <1>1, <1>2
<1>6. t = s \/ t = insertInQueue(u, n)
    BY DEF Unlinked
<1> HIDE DEF q
<1>7. u \in Scheds /\ u.pcb = s.pcb /\ u.queue = q /\ SameRun(s, u)
    BY <1>1, <1>4, SetLists
<1> HIDE DEF u
<1>8. /\ OneEach(u.queue[Blocked])
      /\ Members(u.queue[Blocked]) = Members(s.queue[Blocked]) \ {n}
    BY <1>1, <1>2, <1>5, <1>7, RemoveMembers DEF Apart
<1>9. \A j \in Lists \ {Blocked} : n \notin Members(s.queue[j])
    BY <1>1 DEF Apart
<1>10. \A j \in Lists : OneEach(u.queue[j]) /\ Members(u.queue[j]) = Members(s.queue[j]) \ {n}
    BY <1>5, <1>7, <1>8, <1>9 DEF Apart
<1>11. Apart(u) /\ InQueues(u) = InQueues(s) \ {n}
    BY <1>7, <1>10, UnlinkApart DEF Without
<1>12. CASE t = s
    BY <1>12, SameListsGrown DEF Moved, SameRun
<1>13. CASE t = insertInQueue(u, n)
  <2>1. /\ Apart(t) /\ InQueues(t) = InQueues(u) \cup {n} /\ SameRun(u, t)
        /\ \A m \in Nodes : t.pcb[m].state = u.pcb[m].state
        /\ t.queue[Blocked] = u.queue[Blocked] /\ Grown(u, t)
      BY <1>3, <1>11, <1>13, InsertApart
  <2>2. \A j \in Levels : u.queue[j] = s.queue[j]
      BY <1>5, <1>7, ListFacts DEF Levels, Blocked
  <2>3. Grown(s, t)
      BY <2>1, <2>2, SameListsGrown, GrownTrans DEF Grown
  <2>4. QED
      BY <1>3, <1>7, <1>8, <1>11, <2>1, <2>3 DEF Moved, SameRun
<1>14. QED
    BY <1>6, <1>12, <1>13

LEMMA CheckBlockedMoves ==
    ASSUME NEW s, Apart(s)
    PROVE  Moved(s, checkBlocked(s))
<1> DEFINE q == s.queue[Blocked]
           N == Len(q)
<1>1. s \in Scheds /\ q \in Seq(Procs) /\ OneEach(q)
    BY FieldsOf, ListFacts DEF Apart
<1>2. N \in Nat /\ DOMAIN q = 1..N
    BY <1>1, LenProperties
<1>3. PICK f : /\ f[0] = s
               /\ \A k \in 1..N : f[k] = Unlinked(f[k - 1], q[k])
               /\ checkBlocked(s) = f[N]
    BY <1>1, LoopOf
<1> DEFINE Coming(k) == {q[j] : j \in (k + 1)..N}
           K == {k \in 0..N : /\ Apart(f[k]) /\ Moved(s, f[k])
                              /\ Coming(k) \subseteq Members(f[k].queue[Blocked])}
<1>4. 0 \in K
  <2>1. Moved(s, f[0])
      BY <1>3, SameListsGrown DEF Moved, SameRun
  <2>2. Coming(0) \subseteq Members(f[0].queue[Blocked])
      BY <1>2, <1>3 DEF Members
  <2>3. QED
      BY <1>2, <1>3, <2>1, <2>2
<1> HIDE DEF N, q
<1>5. ASSUME NEW k \in K, k < N PROVE k + 1 \in K
  <2>1. k \in Nat /\ k + 1 \in 1..N /\ k + 1 \in 0..N /\ (k + 1) - 1 = k
      BY <1>2, <1>5
  <2> DEFINE n == q[k + 1]
             s1 == f[k]
             t1 == f[k + 1]
  <2>2. /\ Apart(s1) /\ Moved(s, s1) /\ Coming(k) \subseteq Members(s1.queue[Blocked])
      OBVIOUS
  <2>3. t1 = Unlinked(s1, n)
      BY <1>3, <2>1
  <2>4. n \in Coming(k)
      BY <2>1
  <2>5. Coming(k + 1) \subseteq Coming(k) \ {n}
    <3>1. ASSUME NEW j \in ((k + 1) + 1)..N
          PROVE  j \in (k + 1)..N /\ j # k + 1 /\ j \in 1..N
        BY <1>2, <2>1
    <3>2. \A j \in ((k + 1) + 1)..N : q[j] # n
        BY <1>1, <1>2, <2>1, <3>1 DEF OneEach
    <3>3. QED
        BY <3>1, <3>2
  <2> HIDE DEF s1, t1, n, Coming
  <2>6. /\ Moved(s1, t1)
        /\ Members(s1.queue[Blocked]) \ {n} \subseteq Members(t1.queue[Blocked])
      BY <2>2, <2>3, <2>4, UnlinkedMoves
  <2>7. Moved(s, t1) /\ Apart(t1)
    <3>1. Grown(s, t1)
        BY <2>2, <2>6, GrownTrans DEF Moved, Grown
    <3>2. QED
        BY <2>2, <2>6, <3>1 DEF Moved, SameRun
  <2>8. Coming(k + 1) \subseteq Members(t1.queue[Blocked])
      BY <2>2, <2>5, <2>6
  <2>9. QED
      BY <2>1, <2>7, <2>8 DEF t1
<1>6. K \in SUBSET (0..N)
    OBVIOUS
<1>7. \A k \in K : Moved(s, f[k])
    OBVIOUS
<1> HIDE DEF K
<1>8. \A k \in 0..N : k \in K
    BY <1>2, <1>4, <1>5, <1>6, Climb
<1>9. N \in K
    BY <1>2, <1>8
<1>10. QED
    BY <1>3, <1>7, <1>9

-----------------------------------------------------------------------------
(* Everybody has a place.                                                   *)

\* The lists hold the living, without the current process; who else is alive and
\* in no list is READY: it got lost.
Housed(s) ==
    /\ Apart(s)
    /\ InQueues(s) \subseteq s.live
    /\ s.current \notin InQueues(s)
    /\ s.pcb[Idle].state # "EXITED"
    /\ \A n \in s.live \ {s.current} : n \in InQueues(s) \/ s.pcb[n].state = "READY"

Placed(s) == s.current \in s.live \cup {Idle}

NoneDead(s) == \A n \in s.live : s.pcb[n].state # "EXITED"

\* What a handler may leave to the scheduler.
OneDead(s) ==
    \A m, n \in s.live : s.pcb[m].state = "EXITED" /\ s.pcb[n].state = "EXITED" => m = n

Sound(s) == Housed(s) /\ Placed(s) /\ NoneDead(s)

LEMMA StateNames ==
    States = {"READY", "RUNNING", "BLOCKED", "YIELDED", "EXITED"}
BY DEF States

LEMMA HousedTypes ==
    ASSUME NEW s, Housed(s)
    PROVE  /\ s \in Scheds /\ s.live \subseteq Procs /\ s.current \in Nodes
           /\ Idle \notin s.live /\ s.live \subseteq Nodes
           /\ \A n \in Nodes : s.pcb[n].state \in States
<1>1. s \in Scheds
    BY DEF Housed, Apart
<1>2. \A n \in Nodes : s.pcb[n].state \in States
    BY <1>1, FieldsOf DEF Pcbs, States
<1>3. QED
    BY <1>1, <1>2, FieldsOf, NodesAssumption DEF Nodes

\* The lists, and who runs and lives, are the same.
LEMMA SameListsHoused ==
    ASSUME NEW s, Housed(s), NEW t \in Scheds, t.queue = s.queue, SameRun(s, t),
           \A n \in InQueues(s) : /\ t.pcb[n].aging = s.pcb[n].aging
                                  /\ t.pcb[n].priority = s.pcb[n].priority,
           t.pcb[Idle].state # "EXITED",
           \A n \in s.live \ {s.current} : n \in InQueues(s) \/ t.pcb[n].state = "READY"
    PROVE  Housed(t) /\ InQueues(t) = InQueues(s)
<1>1. Apart(t) /\ InQueues(t) = InQueues(s)
    BY SameListsApart DEF Housed
<1>2. QED
    BY <1>1 DEF Housed, SameRun

LEMMA RestateHoused ==
    ASSUME NEW s, Housed(s), NEW S, S \subseteq Found(s) \cup {s.current}, Idle \notin S,
           NEW state \in States, NEW t, t = Restate(s, S, state)
    PROVE  /\ Housed(t) /\ InQueues(t) = InQueues(s) /\ SameRun(s, t) /\ t.queue = s.queue
           /\ \A m \in Nodes : t.pcb[m].state = IF m \in S THEN state ELSE s.pcb[m].state
<1>1. /\ s \in Scheds /\ s.live \subseteq Nodes /\ Idle \in Nodes
      /\ InQueues(s) \subseteq Nodes
    BY HousedTypes, LinkedIsProc DEF Nodes
<1>2. /\ t \in Scheds /\ t.queue = s.queue /\ SameRun(s, t)
      /\ \A m \in Nodes : /\ t.pcb[m].state = IF m \in S THEN state ELSE s.pcb[m].state
                          /\ t.pcb[m].aging = s.pcb[m].aging
                          /\ t.pcb[m].priority = s.pcb[m].priority
    BY <1>1, RestateIs
<1>3. t.pcb[Idle].state # "EXITED"
    BY <1>1, <1>2 DEF Housed
<1>4. ASSUME NEW n \in s.live \ {s.current}, n \notin InQueues(s)
      PROVE  t.pcb[n].state = "READY"
  <2>1. n \notin S
      BY <1>4 DEF Found
  <2>2. QED
      BY <1>1, <1>2, <1>4, <2>1 DEF Housed
<1>5. \A n \in InQueues(s) : /\ t.pcb[n].aging = s.pcb[n].aging
                             /\ t.pcb[n].priority = s.pcb[n].priority
    BY <1>1, <1>2
<1>6. t \in Scheds /\ t.queue = s.queue /\ SameRun(s, t)
    BY <1>2
<1>7. Housed(t) /\ InQueues(t) = InQueues(s)
    BY <1>3, <1>4, <1>5, <1>6, SameListsHoused
<1>8. QED
    BY <1>2, <1>7

LEMMA MovedHoused ==
    ASSUME NEW s, Housed(s), NEW t, Moved(s, t)
    PROVE  Housed(t)
<1>1. s.live \subseteq Nodes /\ Idle \in Nodes
    BY HousedTypes DEF Nodes
<1>2. QED
    BY <1>1 DEF Housed, Moved, SameRun

-----------------------------------------------------------------------------
(* The functions of the scheduler.                                          *)

\* The head n of list i is taken out.
LEMMA PickedApart ==
    ASSUME NEW s, Apart(s), NEW t \in Scheds, NEW i \in Levels, NEW n,
           s.queue[i] # << >>, n = Head(s.queue[i]),
           \A j \in Lists : t.queue[j] = IF j = i THEN Tail(s.queue[i]) ELSE s.queue[j],
           \A m \in InQueues(s) : /\ t.pcb[m].aging = s.pcb[m].aging
                                  /\ t.pcb[m].priority = s.pcb[m].priority
    PROVE  Apart(t) /\ InQueues(t) = InQueues(s) \ {n} /\ n \in InQueues(s)
<1>1. i \in Lists /\ s.queue[i] \in Seq(Procs) /\ OneEach(s.queue[i])
    BY FieldsOf, ListFacts DEF Apart
<1>2. /\ n \in Members(s.queue[i]) /\ OneEach(t.queue[i])
      /\ Members(t.queue[i]) = Members(s.queue[i]) \ {n}
    BY <1>1, TailMembers
<1>3. \A j \in Lists \ {i} : t.queue[j] = s.queue[j] /\ n \notin Members(s.queue[j])
    BY <1>1, <1>2 DEF Apart
<1>4. \A j \in Lists : /\ OneEach(t.queue[j])
                       /\ Members(t.queue[j]) = Members(s.queue[j]) \ {n}
    BY <1>2, <1>3 DEF Apart
<1>5. n \in InQueues(s)
    BY <1>1, <1>2 DEF InQueues
<1>6. Without(s, t, n)
    BY <1>4 DEF Without
<1>7. QED
    BY <1>5, <1>6, UnlinkApart

LEMMA PickNextSound ==
    ASSUME NEW s, Apart(s), InQueues(s) \subseteq s.live, NoneDead(s),
           \A n \in s.live : n \in InQueues(s) \/ s.pcb[n].state = "READY",
           s.pcb[Idle].state # "EXITED"
    PROVE  Sound(PickNext(s)) /\ PickNext(s).live = s.live /\ Ordered(s, PickNext(s))
<1> DEFINE t == PickNext(s)
<1>1. s \in Scheds /\ s.live \subseteq Procs /\ Idle \notin Procs /\ InQueues(s) \subseteq Procs
    BY FieldsOf, LinkedIsProc, NodesAssumption DEF Apart
<1>2. t \in Scheds /\ t.live = s.live
    BY <1>1, PickNextIs
<1>3. ASSUME t.current = Idle, t.queue = s.queue, t.pcb[Idle].state = "RUNNING",
             \A m \in Procs : t.pcb[m] = s.pcb[m]
      PROVE  Sound(t) /\ Ordered(s, t)
  <2> HIDE DEF t
  <2>1. Apart(t) /\ InQueues(t) = InQueues(s) /\ Ordered(s, t)
      BY <1>1, <1>2, <1>3, SameListsApart, SameListsGrown DEF Grown
  <2>2. QED
      BY <1>1, <1>2, <1>3, <2>1 DEF Sound, Housed, Placed, NoneDead
<1>4. ASSUME NEW i \in Levels, s.queue[i] # << >>, t.current = Head(s.queue[i]),
             \A j \in Lists : t.queue[j] = IF j = i THEN Tail(s.queue[i]) ELSE s.queue[j],
             \A m \in Nodes :
                /\ t.pcb[m].state = IF m = t.current THEN "RUNNING" ELSE s.pcb[m].state
                /\ t.pcb[m].aging = s.pcb[m].aging
                /\ t.pcb[m].priority = s.pcb[m].priority
      PROVE  Sound(t) /\ Ordered(s, t)
  <2> DEFINE n == t.current
  <2> HIDE DEF t
  <2>1. \A m \in InQueues(s) : /\ t.pcb[m].aging = s.pcb[m].aging
                               /\ t.pcb[m].priority = s.pcb[m].priority
      BY <1>1, <1>4 DEF Nodes
  <2>2. Apart(t) /\ InQueues(t) = InQueues(s) \ {n} /\ n \in InQueues(s)
      BY <1>2, <1>4, <2>1, PickedApart
  <2>3. n \in s.live /\ n # Idle
      BY <1>1, <2>2
  <2>4. \A m \in s.live \cup {Idle} :
            t.pcb[m].state = IF m = n THEN "RUNNING" ELSE s.pcb[m].state
      BY <1>1, <1>4 DEF Nodes
  <2>5. Ordered(s, t)
    <3>1. ASSUME NEW j \in Levels PROVE InOrder(s.queue[j], t.queue[j])
      <4>1. j \in Lists /\ s.queue[j] \in Seq(Procs) /\ OneEach(s.queue[j])
          BY <1>1, FieldsOf, ListFacts DEF Apart
      <4>2. CASE j = i
        <5>1. \A x, y : Before(Tail(s.queue[i]), x, y) => Before(s.queue[i], x, y)
            BY <1>4, <4>1, <4>2, TailMembers
        <5>2. t.queue[i] = Tail(s.queue[i])
            BY <1>4, <4>1, <4>2
        <5>3. QED
            BY <4>2, <5>1, <5>2 DEF InOrder
      <4>3. CASE j # i
          BY <1>4, <4>1, <4>3 DEF InOrder
      <4>4. QED
          BY <4>2, <4>3
    <3>2. QED
        BY <3>1 DEF Ordered
  <2>6. Sound(t)
      BY <1>1, <1>2, <2>2, <2>3, <2>4 DEF Sound, Housed, Placed, NoneDead
  <2>7. QED
      BY <2>5, <2>6
<1>5. (Sound(t) /\ Ordered(s, t)) /\ t.live = s.live
    BY <1>1, <1>2, <1>3, <1>4, PickNextIs
<1>6. QED
    BY <1>5

\* Who leaves a level is picked, and the last one of a level stays the last one.
LEMMA PickNextLeaves ==
    ASSUME NEW s, Apart(s), NEW t, t = PickNext(s), NEW i \in Levels
    PROVE  /\ Members(s.queue[i]) \ {t.current} \subseteq Members(t.queue[i])
           /\ \A m \in Members(t.queue[i]) : m = Last(s.queue[i]) => m = Last(t.queue[i])
<1>1. s \in Scheds /\ i \in Lists /\ s.queue[i] \in Seq(Procs) /\ OneEach(s.queue[i])
    BY FieldsOf, ListFacts DEF Apart
<1>2. CASE t.queue[i] = s.queue[i]
    BY <1>2
<1>3. CASE /\ s.queue[i] # << >> /\ t.current = Head(s.queue[i])
           /\ t.queue[i] = Tail(s.queue[i])
    BY <1>1, <1>3, TailMembers, TailLast
<1>4. QED
    BY <1>1, <1>2, <1>3, PickNextIs

\* nextProcess takes the current process to its place, whether it is alive or has
\* just been deleted.
LEMMA NextProcessSound ==
    ASSUME NEW s, Housed(s), NoneDead(s),
           Placed(s) \/ (s.current \notin s.live /\ s.pcb[s.current].state = "EXITED")
    PROVE  LET t == nextProcess(s) IN Sound(t) /\ t.live = s.live /\ Ordered(s, t)
<1> DEFINE Result(t) == Sound(t) /\ t.live = s.live /\ Ordered(s, t)
           c == s.current
           S == {c}
           rested == Restate(s, S, "READY")
           a == insertInBlockedQueue(s, c)
           b == insertInQueue(rested, c)
           d == insertLast(rested, c)
<1>1. /\ s \in Scheds /\ s.live \subseteq Procs /\ s.live \subseteq Nodes
      /\ Idle \notin s.live /\ c \in Nodes /\ s.pcb[c].state \in States /\ Idle \in Nodes
      /\ InQueues(s) \subseteq Procs /\ (\A n \in Procs : n \in Nodes /\ n # Idle)
    BY HousedTypes, LinkedIsProc, NodesAssumption DEF Nodes
<1>2. /\ c = Idle => nextProcess(s) = PickNext(rested)
      /\ c # Idle /\ s.pcb[c].state = "BLOCKED" => nextProcess(s) = PickNext(a)
      /\ c # Idle /\ s.pcb[c].state = "RUNNING" => nextProcess(s) = PickNext(b)
      /\ c # Idle /\ s.pcb[c].state = "YIELDED" => nextProcess(s) = PickNext(d)
      /\ c # Idle /\ s.pcb[c].state \notin {"BLOCKED", "RUNNING", "YIELDED"} =>
            nextProcess(s) = PickNext(s)
    BY DEF nextProcess
<1>3. "READY" \in States
    BY StateNames
<1>4. /\ rested \in Scheds /\ rested.queue = s.queue /\ SameRun(s, rested)
      /\ \A m \in Nodes : /\ rested.pcb[m].state = IF m = c THEN "READY" ELSE s.pcb[m].state
                          /\ rested.pcb[m].aging = s.pcb[m].aging
                          /\ rested.pcb[m].priority = s.pcb[m].priority
  <2> HIDE DEF S
  <2>1. /\ rested \in Scheds /\ rested.queue = s.queue /\ SameRun(s, rested)
        /\ \A m \in Nodes : /\ rested.pcb[m].state = IF m \in S THEN "READY"
                                                                ELSE s.pcb[m].state
                            /\ rested.pcb[m].aging = s.pcb[m].aging
                            /\ rested.pcb[m].priority = s.pcb[m].priority
      BY <1>1, <1>3, RestateIs
  <2>2. \A m : m \in S <=> m = c
      BY DEF S
  <2>3. QED
      BY <2>1, <2>2
<1> HIDE DEF c, S, rested
<1>5. /\ Apart(s) /\ c \notin InQueues(s) /\ InQueues(s) \subseteq s.live
      /\ s.pcb[Idle].state # "EXITED"
      /\ \A n \in s.live \ {c} : n \in InQueues(s) \/ s.pcb[n].state = "READY"
    BY DEF Housed, c
<1>6. Apart(rested) /\ InQueues(rested) = InQueues(s) /\ Grown(s, rested)
    BY <1>1, <1>4, <1>5, SameListsApart, SameListsGrown
<1>7. rested.live = s.live
    BY <1>4 DEF SameRun
<1>8. \A n \in s.live \cup {Idle} : rested.pcb[n].state \in {s.pcb[n].state, "READY"}
    BY <1>1, <1>4
<1>9. NoneDead(rested) /\ rested.pcb[Idle].state # "EXITED"
    BY <1>5, <1>7, <1>8 DEF NoneDead
<1>10. \A n \in s.live : n \in InQueues(s) \/ rested.pcb[n].state = "READY"
    BY <1>1, <1>4, <1>5
<1>11. c # Idle /\ s.pcb[c].state # "EXITED" => c \in s.live /\ c \in Procs
    BY <1>1 DEF Placed, c
<1>12. CASE c = Idle
  <2>1. Result(PickNext(rested))
      BY <1>5, <1>6, <1>7, <1>9, <1>10, PickNextSound, GrownTrans
  <2>2. QED
      BY <1>2, <1>12, <2>1
<1>13. CASE c # Idle /\ s.pcb[c].state = "BLOCKED"
  <2>1. a = Enqueue(s, c, Blocked) /\ c \in Procs /\ c \in s.live
      BY <1>11, <1>13 DEF insertInBlockedQueue
  <2>2. /\ Apart(a) /\ InQueues(a) = InQueues(s) \cup {c} /\ SameRun(s, a)
        /\ a.pcb = s.pcb /\ Grown(s, a)
      BY <1>5, <2>1, EnqueueApart
  <2> HIDE DEF a
  <2>3. a.live = s.live /\ NoneDead(a)
      BY <2>2 DEF SameRun, NoneDead
  <2>4. Result(PickNext(a))
      BY <1>5, <2>1, <2>2, <2>3, PickNextSound, GrownTrans
  <2>5. QED
      BY <1>2, <1>13, <2>4
<1>14. CASE c # Idle /\ s.pcb[c].state = "RUNNING"
  <2>1. c \in Procs /\ c \in s.live
      BY <1>11, <1>14
  <2>2. /\ Apart(b) /\ InQueues(b) = InQueues(s) \cup {c} /\ SameRun(rested, b)
        /\ \A m \in Nodes : b.pcb[m].state = rested.pcb[m].state
        /\ Grown(rested, b)
      BY <1>5, <1>6, <2>1, InsertApart
  <2> HIDE DEF b
  <2>3. Grown(s, b)
      BY <1>6, <2>2, GrownTrans DEF Grown
  <2>4. b.live = s.live
      BY <1>7, <2>2 DEF SameRun
  <2>5. /\ NoneDead(b) /\ b.pcb[Idle].state # "EXITED"
        /\ \A n \in b.live : n \in InQueues(b) \/ b.pcb[n].state = "READY"
      BY <1>1, <1>7, <1>9, <1>10, <2>2, <2>4 DEF NoneDead
  <2>6. Result(PickNext(b))
      BY <1>5, <2>1, <2>2, <2>3, <2>4, <2>5, PickNextSound, GrownTrans
  <2>7. QED
      BY <1>2, <1>14, <2>6
<1>15. CASE c # Idle /\ s.pcb[c].state = "YIELDED"
  <2>1. d = Enqueue(rested, c, 5) /\ c \in Procs /\ c \in s.live
      BY <1>11, <1>15 DEF insertLast
  <2>2. /\ Apart(d) /\ InQueues(d) = InQueues(s) \cup {c} /\ SameRun(rested, d)
        /\ d.pcb = rested.pcb /\ Grown(rested, d)
      BY <1>5, <1>6, <2>1, EnqueueApart
  <2> HIDE DEF d
  <2>3. Grown(s, d)
      BY <1>6, <2>2, GrownTrans DEF Grown
  <2>4. d.live = s.live
      BY <1>7, <2>2 DEF SameRun
  <2>5. /\ NoneDead(d) /\ d.pcb[Idle].state # "EXITED"
        /\ \A n \in d.live : n \in InQueues(d) \/ d.pcb[n].state = "READY"
      BY <1>7, <1>9, <1>10, <2>2, <2>4 DEF NoneDead
  <2>6. Result(PickNext(d))
      BY <1>5, <2>1, <2>2, <2>3, <2>4, <2>5, PickNextSound, GrownTrans
  <2>7. QED
      BY <1>2, <1>15, <2>6
<1>16. CASE c # Idle /\ s.pcb[c].state \notin {"BLOCKED", "RUNNING", "YIELDED"}
  <2>1. s.pcb[c].state \in {"READY", "EXITED"}
      BY <1>1, <1>16, StateNames
  <2>2. \A n \in s.live : n \in InQueues(s) \/ s.pcb[n].state = "READY"
      BY <1>5, <2>1 DEF NoneDead
  <2>3. Result(PickNext(s))
      BY <1>5, <2>2, PickNextSound
  <2>4. QED
      BY <1>2, <1>16, <2>3
<1>17. QED
    BY <1>12, <1>13, <1>14, <1>15, <1>16

\* Wherever nextProcess puts the process it takes off the processor, it is the last one.
LEMMA NextProcessLast ==
    ASSUME NEW s, Housed(s), NEW t, t = nextProcess(s), NEW i \in Levels,
           s.current \in Members(t.queue[i])
    PROVE  s.current = Last(t.queue[i])
<1> DEFINE c == s.current
           S == {c}
           rested == Restate(s, S, "READY")
           Placed1(u) == Apart(u) /\ \A j \in Levels :
                            c \in Members(u.queue[j]) => c = Last(u.queue[j])
<1>1. /\ s \in Scheds /\ c \in Nodes /\ "READY" \in States
      /\ Apart(s) /\ c \notin InQueues(s)
    BY HousedTypes, StateNames DEF Housed
<1>2. /\ rested \in Scheds /\ rested.queue = s.queue
      /\ \A m \in Nodes : /\ rested.pcb[m].aging = s.pcb[m].aging
                          /\ rested.pcb[m].priority = s.pcb[m].priority
    BY <1>1, RestateIs
<1>3. \E u : Placed1(u) /\ t = PickNext(u)
  <2>1. /\ c = Idle => t = PickNext(rested)
        /\ c # Idle /\ s.pcb[c].state = "BLOCKED" => t = PickNext(insertInBlockedQueue(s, c))
        /\ c # Idle /\ s.pcb[c].state = "RUNNING" => t = PickNext(insertInQueue(rested, c))
        /\ c # Idle /\ s.pcb[c].state = "YIELDED" => t = PickNext(insertLast(rested, c))
        /\ c # Idle /\ s.pcb[c].state \notin {"BLOCKED", "RUNNING", "YIELDED"} =>
              t = PickNext(s)
      BY DEF nextProcess
  <2> HIDE DEF rested, S
  <2>2. Apart(rested) /\ InQueues(rested) = InQueues(s)
    <3>1. \A m \in InQueues(s) : m \in Nodes
        BY <1>1, LinkedIsProc DEF Nodes
    <3>2. QED
        BY <1>1, <1>2, <3>1, SameListsApart
  <2>3. \A u : Apart(u) /\ c \notin InQueues(u) => Placed1(u)
      BY ListFacts DEF InQueues
  <2>4. ASSUME NEW r, Apart(r), c \notin InQueues(r), c # Idle
        PROVE  /\ Placed1(insertInQueue(r, c)) /\ Placed1(insertLast(r, c))
               /\ Placed1(insertInBlockedQueue(r, c))
    <3>1. c \in Procs /\ r \in Scheds
        BY <1>1, <2>4 DEF Nodes, Apart
    <3>2. Placed1(insertInQueue(r, c))
      <4>1. PICK j \in Levels : Appended(r, c, insertInQueue(r, c), j)
          BY <3>1, InsertIs DEF Appended
      <4>2. j \in Lists /\ Apart(insertInQueue(r, c))
          BY <2>4, <3>1, InsertApart, ListFacts
      <4>3. LastOrAway(c, insertInQueue(r, c))
          BY <2>4, <3>1, <4>1, <4>2, AppendLast
      <4>4. QED
          BY <4>2, <4>3 DEF LastOrAway
    <3>3. ASSUME NEW j \in {5, Blocked} PROVE Placed1(Enqueue(r, c, j))
      <4>1. j \in Lists /\ Apart(Enqueue(r, c, j))
          BY <2>4, <3>1, <3>3, EnqueueApart, ListFacts
      <4>2. Appended(r, c, Enqueue(r, c, j), j)
          BY <3>1, <4>1, EnqueueIs DEF Appended
      <4>3. LastOrAway(c, Enqueue(r, c, j))
          BY <2>4, <3>1, <4>1, <4>2, AppendLast
      <4>4. QED
          BY <4>1, <4>3 DEF LastOrAway
    <3>4. QED
        BY <3>2, <3>3 DEF insertLast, insertInBlockedQueue
  <2> HIDE DEF Placed1
  <2>5. c = Idle \/ c # Idle
      OBVIOUS
  <2>6. QED
      BY <1>1, <2>1, <2>2, <2>3, <2>4, <2>5
<1>4. PICK u : Placed1(u) /\ t = PickNext(u)
    BY <1>3
<1>5. /\ Members(u.queue[i]) \ {t.current} \subseteq Members(t.queue[i])
      /\ c = Last(u.queue[i]) => c = Last(t.queue[i])
    BY <1>4, PickNextLeaves
<1>6. c \in Members(u.queue[i])
  <2>1. Apart(u) /\ u \in Scheds /\ i \in Lists
      BY <1>4, ListFacts DEF Apart
  <2>2. u.queue[i] \in Seq(Procs) /\ OneEach(u.queue[i])
      BY <2>1, FieldsOf DEF Apart
  <2>3. Members(t.queue[i]) \subseteq Members(u.queue[i])
      BY <1>4, <2>1, <2>2, PickNextIs, TailMembers
  <2>4. QED
      BY <2>3
<1>7. QED
    BY <1>4, <1>5, <1>6

\* From s to t nobody is overtaken in a level, and who leaves it is dead.
LosesDead(s, t) ==
    /\ Ordered(s, t)
    /\ \A i \in Levels : \A m \in Members(s.queue[i]) :
            m \in Members(t.queue[i]) \/ m \notin t.live

\* The same, but one of those who live may have been picked.
Thinned(s, t) ==
    /\ Ordered(s, t)
    /\ \A i \in Levels : \A m \in Members(s.queue[i]) :
            m \in Members(t.queue[i]) \/ m = t.current \/ m \notin t.live

\* The dead process that is linked is taken out; then only the current one may be dead.
LEMMA ReapSound ==
    ASSUME NEW s, Housed(s), Placed(s), OneDead(s), NEW parent, NEW r,
           r = ReapQueued(s, parent)
    PROVE  /\ Housed(r) /\ Placed(r)
           /\ \A n \in r.live : r.pcb[n].state = "EXITED" => n = r.current
           /\ r = s \/ \E d \in s.live : r.live = s.live \ {d}
           /\ LosesDead(s, r)
<1>1. /\ s \in Scheds /\ s.live \subseteq Procs /\ InQueues(s) \subseteq s.live
      /\ Apart(s) /\ s.current \notin InQueues(s)
    BY HousedTypes DEF Housed
<1>2. CASE Dead(s) = {} /\ r = s
  <2>1. LosesDead(s, r)
      BY <1>2, SameListsGrown DEF LosesDead, Grown
  <2>2. QED
      BY <1>2, <2>1 DEF Housed, Dead
<1>3. ASSUME NEW d \in Dead(s) \cap Procs,
             r = deleteProcess(removeFromQueue(s, d), d, parent)
      PROVE  /\ Housed(r) /\ Placed(r) /\ NoneDead(r) /\ LosesDead(s, r)
             /\ \E e \in s.live : r.live = s.live \ {e}
  <2> DEFINE t == removeFromQueue(s, d)
  <2>1. /\ t \in Scheds /\ t.pcb = s.pcb /\ SameRun(s, t)
        /\ \A i \in Lists : t.queue[i] = RemoveFirst(s.queue[i], d)
      BY <1>1, RemoveIs
  <2>2. r = deleteProcess(t, d, parent) /\ d \in Nodes
      BY <1>3 DEF Nodes
  <2> HIDE DEF t
  <2>3. /\ Apart(t) /\ InQueues(t) = InQueues(s) \ {d} /\ Ordered(s, t)
        /\ \A i \in Lists : Members(t.queue[i]) = Members(s.queue[i]) \ {d}
      BY <1>1, <2>1, RemoveApart
  <2>4. /\ r \in Scheds /\ r.queue = t.queue
        /\ r.current = t.current /\ r.live = t.live \ {d}
        /\ \A m \in Nodes \ {d} : /\ r.pcb[m].state \in {t.pcb[m].state, "READY"}
                                  /\ r.pcb[m].aging = t.pcb[m].aging
                                  /\ r.pcb[m].priority = t.pcb[m].priority
      BY <2>1, <2>2, DeleteIs
  <2>5. d \in InQueues(s) /\ d \in s.live /\ d # s.current /\ s.pcb[d].state = "EXITED"
      BY <1>1 DEF Dead
  <2>6. \A m \in InQueues(t) : m \in Nodes \ {d}
      BY <1>1, <2>3 DEF Nodes
  <2>7. Apart(r) /\ InQueues(r) = InQueues(t)
    <3>1. \A m \in InQueues(t) : /\ r.pcb[m].aging = t.pcb[m].aging
                                 /\ r.pcb[m].priority = t.pcb[m].priority
        BY <2>4, <2>6
    <3>2. QED
        BY <2>3, <2>4, <3>1, SameListsApart
  <2>8. r.live = s.live \ {d} /\ r.current = s.current
      BY <2>1, <2>4 DEF SameRun
  <2>9. \A m \in (s.live \ {d}) \cup {Idle} :
              m \in Nodes \ {d} /\ r.pcb[m].state \in {s.pcb[m].state, "READY"}
      BY <1>1, <2>1, <2>4, NodesAssumption DEF Nodes
  <2>10. NoneDead(r)
      BY <2>5, <2>8, <2>9 DEF NoneDead, OneDead
  <2>11. r.pcb[Idle].state # "EXITED"
      BY <2>9 DEF Housed
  <2>12. \A n \in r.live \ {r.current} : n \in InQueues(r) \/ r.pcb[n].state = "READY"
      BY <2>3, <2>7, <2>8, <2>9 DEF Housed
  <2>13. Housed(r)
      BY <1>1, <2>3, <2>7, <2>8, <2>11, <2>12 DEF Housed
  <2>14. Placed(r)
      BY <2>5, <2>8 DEF Placed
  <2>15. LosesDead(s, r)
    <3>1. Ordered(s, r)
        BY <2>3, <2>4 DEF Ordered
    <3>2. \A i \in Levels : \A m \in Members(s.queue[i]) :
              m \in Members(r.queue[i]) \/ m = d
        BY <2>3, <2>4, ListFacts
    <3>3. d \notin r.live
        BY <2>8
    <3>4. QED
        BY <3>1, <3>2, <3>3 DEF LosesDead
  <2>16. QED
      BY <2>5, <2>8, <2>10, <2>13, <2>14, <2>15
<1>4. CASE ~(Dead(s) = {} /\ r = s)
  <2>1. /\ Housed(r) /\ Placed(r) /\ NoneDead(r) /\ LosesDead(s, r)
        /\ \E d \in s.live : r.live = s.live \ {d}
      BY <1>1, <1>3, <1>4, ReapIs
  <2>2. QED
      BY <2>1 DEF NoneDead
<1>5. QED
    BY <1>2, <1>4

LEMMA CheckExitedSound ==
    ASSUME NEW s, Housed(s), Placed(s), OneDead(s), NEW parent
    PROVE  LET t == checkExited(s, parent)
           IN  Sound(t) /\ (t = s \/ (~(s.live \subseteq t.live) /\ Thinned(s, t)))
<1> DEFINE r == ReapQueued(s, parent)
           c == r.current
           u == deleteProcess(r, c, parent)
           v == checkBlocked(u)
<1>1. /\ r.pcb[c].state = "EXITED" => checkExited(s, parent) = nextProcess(v)
      /\ r.pcb[c].state # "EXITED" => checkExited(s, parent) = r
    BY DEF checkExited
<1>2. /\ Housed(r) /\ Placed(r)
      /\ \A n \in r.live : r.pcb[n].state = "EXITED" => n = c
      /\ r = s \/ \E d \in s.live : r.live = s.live \ {d}
      /\ LosesDead(s, r)
    BY ReapSound
<1> HIDE DEF r
<1>3. CASE r.pcb[c].state # "EXITED"
  <2>1. NoneDead(r)
      BY <1>2, <1>3 DEF NoneDead
  <2>2. Thinned(s, r)
      BY <1>2 DEF Thinned, LosesDead
  <2>3. QED
      BY <1>1, <1>2, <1>3, <2>1, <2>2 DEF Sound
<1>4. CASE r.pcb[c].state = "EXITED"
  <2>1. /\ r \in Scheds /\ c \in Nodes /\ c # Idle /\ r.live \subseteq Nodes /\ Idle \in Nodes
        /\ Apart(r) /\ InQueues(r) \subseteq r.live /\ c \notin InQueues(r)
      BY <1>2, <1>4, HousedTypes DEF Housed, Nodes
  <2>2. /\ u \in Scheds /\ u.queue = r.queue
        /\ u.current = r.current /\ u.live = r.live \ {c}
        /\ u.pcb[c].state = "EXITED"
        /\ \A m \in Nodes \ {c} : /\ u.pcb[m].state \in {r.pcb[m].state, "READY"}
                                  /\ u.pcb[m].aging = r.pcb[m].aging
                                  /\ u.pcb[m].priority = r.pcb[m].priority
      BY <2>1, DeleteIs
  <2> HIDE DEF u
  <2>3. \A m \in InQueues(r) : /\ u.pcb[m].aging = r.pcb[m].aging
                               /\ u.pcb[m].priority = r.pcb[m].priority
      BY <2>1, <2>2
  <2>4. Apart(u) /\ InQueues(u) = InQueues(r)
      BY <2>1, <2>2, <2>3, SameListsApart
  <2>5. \A m \in (r.live \ {c}) \cup {Idle} : u.pcb[m].state \in {r.pcb[m].state, "READY"}
      BY <2>1, <2>2
  <2>6. NoneDead(u)
      BY <1>2, <2>2, <2>5 DEF NoneDead
  <2>7. u.pcb[Idle].state # "EXITED"
      BY <1>2, <2>5 DEF Housed
  <2>8. \A n \in u.live \ {u.current} : n \in InQueues(u) \/ u.pcb[n].state = "READY"
      BY <1>2, <2>2, <2>4, <2>5 DEF Housed
  <2>9. Housed(u)
      BY <2>1, <2>2, <2>4, <2>7, <2>8 DEF Housed
  <2>10. Moved(u, v)
      BY <2>4, CheckBlockedMoves
  <2> HIDE DEF v
  <2>11. Housed(v)
      BY <2>9, <2>10, MovedHoused
  <2>12. v.current = c /\ v.live = r.live \ {c}
      BY <2>2, <2>10 DEF Moved, SameRun
  <2>13. NoneDead(v) /\ v.pcb[c].state = "EXITED"
      BY <2>1, <2>2, <2>6, <2>10, <2>12 DEF Moved, NoneDead
  <2> DEFINE w == nextProcess(v)
  <2>14. Sound(w) /\ w.live = r.live \ {c} /\ Ordered(v, w)
      BY <2>11, <2>12, <2>13, NextProcessSound
  <2>15. c \in r.live /\ r.live \subseteq s.live
      BY <1>2, <2>1 DEF Placed
  <2>16. w = PickNext(v)
      BY <2>1, <2>12, <2>13 DEF nextProcess
  <2>17. \A i \in Levels : Members(v.queue[i]) \ {w.current} \subseteq Members(w.queue[i])
      BY <2>11, <2>16, PickNextLeaves DEF Housed
  <2> HIDE DEF w
  <2>18. Grown(r, v)
      BY <2>2, <2>10, SameListsGrown, GrownTrans DEF Moved, Grown
  <2>19. Ordered(r, w)
      BY <2>14, <2>18, GrownTrans
  <2>20. ASSUME NEW i \in Levels, NEW m \in Members(s.queue[i]),
                m \notin Members(w.queue[i]), m # w.current
         PROVE  m \notin w.live
    <3>1. m \notin Members(r.queue[i])
        BY <2>17, <2>18, <2>20 DEF Grown
    <3>2. QED
        BY <1>2, <2>14, <2>20, <3>1 DEF LosesDead
  <2>21. ASSUME NEW i \in Levels, NEW n, NEW m \in Members(s.queue[i]),
                Before(w.queue[i], n, m)
         PROVE  Before(s.queue[i], n, m)
    <3>1. m \in Members(w.queue[i])
        BY <2>21 DEF Before, Members
    <3>2. m \in InQueues(w)
        BY <3>1, ListFacts DEF InQueues
    <3>3. m \in r.live
        BY <2>14, <3>2 DEF Sound, Housed
    <3>4. m \in Members(r.queue[i])
        BY <1>2, <2>21, <3>3 DEF LosesDead
    <3>5. Before(r.queue[i], n, m)
        BY <2>19, <2>21, <3>4 DEF Ordered, InOrder
    <3>6. QED
        BY <1>2, <2>21, <3>5 DEF LosesDead, Ordered, InOrder
  <2>22. Thinned(s, w)
      BY <2>20, <2>21 DEF Thinned, Ordered, InOrder
  <2>23. QED
      BY <1>1, <1>4, <2>14, <2>15, <2>22 DEF w
<1>5. QED
    BY <1>3, <1>4

LEMMA ChargeSound ==
    ASSUME NEW s, Sound(s)
    PROVE  LET t == ChargeQuantum(s) IN Sound(t) /\ t.live = s.live /\ Ordered(s, t)
<1> DEFINE c == s.current
           entry == [s.pcb[c] EXCEPT !.quantums = IF @ = 0 THEN 0 ELSE @ - 1]
           t == Update(s, c, entry)
<1>1. /\ Housed(s) /\ s \in Scheds /\ c \in Nodes /\ s.pcb[c] \in Pcbs
      /\ s.live \subseteq Nodes /\ Idle \in Nodes /\ InQueues(s) \subseteq s.live
    BY HousedTypes, FieldsOf DEF Sound, Housed, Nodes
<1>2. ChargeQuantum(s) \in {nextProcess(t), t}
    BY DEF ChargeQuantum
<1>3. /\ entry \in Pcbs /\ entry.aging = s.pcb[c].aging
      /\ entry.state = s.pcb[c].state /\ entry.priority = s.pcb[c].priority
    BY <1>1, ChargedEntry
<1> HIDE DEF entry, c
<1>4. /\ t \in Scheds /\ t.queue = s.queue /\ SameRun(s, t)
      /\ \A m \in Nodes : t.pcb[m] = IF m = c THEN entry ELSE s.pcb[m]
    BY <1>1, <1>3, UpdateIs
<1> HIDE DEF t
<1>5. \A m \in Nodes : /\ t.pcb[m].aging = s.pcb[m].aging /\ t.pcb[m].state = s.pcb[m].state
                       /\ t.pcb[m].priority = s.pcb[m].priority
    BY <1>3, <1>4
<1>6. /\ \A n \in InQueues(s) : /\ t.pcb[n].aging = s.pcb[n].aging
                                /\ t.pcb[n].priority = s.pcb[n].priority
      /\ t.pcb[Idle].state # "EXITED"
      /\ \A n \in s.live \ {s.current} : n \in InQueues(s) \/ t.pcb[n].state = "READY"
    BY <1>1, <1>5 DEF Housed
<1>7. Housed(t)
    BY <1>1, <1>4, <1>6, SameListsHoused
<1>8. Placed(t) /\ NoneDead(t)
    BY <1>1, <1>4, <1>5 DEF Sound, Placed, NoneDead, SameRun
<1>9. Grown(s, t) /\ Ordered(s, t) /\ t.live = s.live
    BY <1>4, SameListsGrown DEF Grown, SameRun
<1>10. /\ Sound(nextProcess(t)) /\ nextProcess(t).live = s.live
       /\ Ordered(s, nextProcess(t))
    BY <1>7, <1>8, <1>9, NextProcessSound, GrownTrans
<1>11. QED
    BY <1>2, <1>7, <1>8, <1>9, <1>10 DEF Sound

\* A process that is charged and goes back into a queue is the last one there.
LEMMA ChargeLast ==
    ASSUME NEW s, Sound(s), NEW t, t = ChargeQuantum(s), NEW i \in Levels,
           s.current \in Members(t.queue[i])
    PROVE  s.current = Last(t.queue[i])
<1> DEFINE c == s.current
           entry == [s.pcb[c] EXCEPT !.quantums = IF @ = 0 THEN 0 ELSE @ - 1]
           u == Update(s, c, entry)
<1>1. /\ Housed(s) /\ s \in Scheds /\ c \in Nodes /\ s.pcb[c] \in Pcbs
      /\ s.live \subseteq Nodes /\ Idle \in Nodes /\ InQueues(s) \subseteq s.live
      /\ c \notin InQueues(s)
    BY HousedTypes, FieldsOf DEF Sound, Housed, Nodes
<1>2. t = nextProcess(u) \/ t = u
    BY DEF ChargeQuantum
<1>3. /\ entry \in Pcbs /\ entry.aging = s.pcb[c].aging
      /\ entry.state = s.pcb[c].state /\ entry.priority = s.pcb[c].priority
    BY <1>1, ChargedEntry
<1> HIDE DEF entry, c
<1>4. /\ u \in Scheds /\ u.queue = s.queue /\ SameRun(s, u)
      /\ \A m \in Nodes : u.pcb[m] = IF m = c THEN entry ELSE s.pcb[m]
    BY <1>1, <1>3, UpdateIs
<1> HIDE DEF u
<1>5. \A m \in Nodes : /\ u.pcb[m].aging = s.pcb[m].aging /\ u.pcb[m].state = s.pcb[m].state
                       /\ u.pcb[m].priority = s.pcb[m].priority
    BY <1>3, <1>4
<1>6. /\ \A n \in InQueues(s) : /\ u.pcb[n].aging = s.pcb[n].aging
                                /\ u.pcb[n].priority = s.pcb[n].priority
      /\ u.pcb[Idle].state # "EXITED"
      /\ \A n \in s.live \ {s.current} : n \in InQueues(s) \/ u.pcb[n].state = "READY"
    BY <1>1, <1>5 DEF Housed
<1>7. Housed(u) /\ u.current = c
    BY <1>1, <1>4, <1>6, SameListsHoused DEF SameRun, c
<1>8. CASE t = u
    BY <1>1, <1>4, <1>8, ListFacts DEF InQueues, c
<1>9. CASE t = nextProcess(u)
    BY <1>7, <1>9, NextProcessLast DEF c
<1>10. QED
    BY <1>2, <1>8, <1>9

LEMMA AgeHoused ==
    ASSUME NEW s, Housed(s), NEW elapsed \in Elapsed, NEW t, t = Age(s, elapsed)
    PROVE  /\ Housed(t) /\ InQueues(t) = InQueues(s) /\ SameRun(s, t)
           /\ \A m \in Nodes : t.pcb[m].state = s.pcb[m].state
           /\ t.queue = s.queue
<1>1. /\ s \in Scheds /\ s.live \subseteq Nodes /\ Idle \in Nodes
      /\ InQueues(s) \subseteq s.live /\ s.current \notin InQueues(s)
    BY HousedTypes DEF Housed, Nodes
<1>2. /\ t \in Scheds /\ t.queue = s.queue /\ SameRun(s, t)
      /\ \A m \in Nodes : /\ t.pcb[m].state = s.pcb[m].state
                          /\ m # s.current => t.pcb[m] = s.pcb[m]
    BY <1>1, AgeIs
<1>3. /\ \A n \in InQueues(s) : /\ t.pcb[n].aging = s.pcb[n].aging
                                /\ t.pcb[n].priority = s.pcb[n].priority
      /\ t.pcb[Idle].state # "EXITED"
      /\ \A n \in s.live \ {s.current} : n \in InQueues(s) \/ t.pcb[n].state = "READY"
    BY <1>1, <1>2 DEF Housed
<1>4. Housed(t) /\ InQueues(t) = InQueues(s)
    BY <1>2, <1>3, SameListsHoused
<1>5. QED
    BY <1>2, <1>4

\* Nobody is overtaken but who goes to the end of the level.
OrderedButLast(s, t) ==
    \A i \in Levels : \A x, m : Before(t.queue[i], x, m) =>
        Before(s.queue[i], x, m) \/ m \notin Members(s.queue[i]) \/ m = Last(t.queue[i])

\* Nobody is overtaken within a level, unless somebody dies.
Steady(s, t) == Ordered(s, t) \/ (~(s.live \subseteq t.live) /\ OrderedButLast(s, t))

\* The whole call, after a handler that leaves at most one process dead.
LEMMA SchedulerSound ==
    ASSUME NEW s, Housed(s), Placed(s), OneDead(s), NEW t \in scheduler(s)
    PROVE  Sound(t) /\ Steady(s, t)
<1>1. PICK elapsed \in Elapsed, due \in {{}} \cup {{n} : n \in Sleepers(s)},
          parent \in Procs :
            t = [ChargeQuantum(checkExited(checkBlocked(
                    Restate(Age(s, elapsed), due, "READY")), parent)) EXCEPT !.zero = FALSE]
    BY SchedulerIs
<1> DEFINE v == Age(s, elapsed)
           w == Restate(v, due, "READY")
           u == checkBlocked(w)
           r == checkExited(u, parent)
           q == ChargeQuantum(r)
<1>2. t = [q EXCEPT !.zero = FALSE]
    BY <1>1
<1>3. s.live \subseteq Nodes /\ Idle \in Nodes
    BY HousedTypes DEF Nodes
<1>4. /\ Housed(v) /\ InQueues(v) = InQueues(s) /\ SameRun(s, v)
      /\ \A m \in Nodes : v.pcb[m].state = s.pcb[m].state
      /\ v.queue = s.queue
    BY AgeHoused
<1> HIDE DEF v
<1>5. due \subseteq Found(v) \cup {v.current} /\ Idle \notin due /\ "READY" \in States
    BY <1>4, StateNames DEF Sleepers, Found, SameRun
<1>6. /\ Housed(w) /\ SameRun(v, w) /\ w.queue = v.queue
      /\ \A m \in Nodes : w.pcb[m].state = IF m \in due THEN "READY" ELSE v.pcb[m].state
    BY <1>4, <1>5, RestateHoused
<1> HIDE DEF w
<1>7. Moved(w, u)
    BY <1>6, CheckBlockedMoves DEF Housed
<1> HIDE DEF u
<1>8. Housed(u)
    BY <1>6, <1>7, MovedHoused
<1>9. u.current = s.current /\ u.live = s.live
    BY <1>4, <1>6, <1>7 DEF Moved, SameRun
<1>10. \A m \in Nodes : u.pcb[m].state \in {s.pcb[m].state, "READY"}
    BY <1>4, <1>6, <1>7 DEF Moved
<1>11. Placed(u) /\ OneDead(u)
    BY <1>3, <1>9, <1>10 DEF Placed, OneDead
<1>12. Sound(r) /\ (r = u \/ (~(s.live \subseteq r.live) /\ Thinned(u, r)))
    BY <1>8, <1>9, <1>11, CheckExitedSound
<1> HIDE DEF r
<1>13. /\ Sound(q) /\ q.live = r.live /\ Ordered(r, q)
       /\ \A i \in Levels : r.current \in Members(q.queue[i]) => r.current = Last(q.queue[i])
    BY <1>12, ChargeSound, ChargeLast
<1> HIDE DEF q
<1>14. /\ t \in Scheds /\ t.pcb = q.pcb /\ t.queue = q.queue
       /\ t.current = q.current /\ t.live = q.live
    BY <1>2, <1>13, SetZero, HousedTypes DEF Sound
<1>15. InQueues(t) = InQueues(q) /\ Apart(t)
    BY <1>13, <1>14, SameListsApart DEF Sound, Housed
<1>16. Sound(t)
    BY <1>13, <1>14, <1>15 DEF Sound, Housed, Placed, NoneDead
<1>17. Grown(s, u)
    BY <1>4, <1>6, <1>7, SameListsGrown, GrownTrans DEF Moved, Grown
<1>18. r = u => Ordered(s, q)
    BY <1>13, <1>17, GrownTrans
<1>19. Thinned(u, r) => OrderedButLast(s, q)
  <2>1. SUFFICES ASSUME Thinned(u, r), NEW i \in Levels, NEW x, NEW m,
                        Before(q.queue[i], x, m), m \in Members(s.queue[i]),
                        m # Last(q.queue[i])
                 PROVE  Before(s.queue[i], x, m)
      BY DEF OrderedButLast
  <2>2. m \in Members(q.queue[i])
      BY <2>1 DEF Before, Members
  <2>3. m \in InQueues(q)
      BY <2>2, ListFacts DEF InQueues
  <2>4. m \in r.live
      BY <1>13, <2>3 DEF Sound, Housed
  <2>5. m \in Members(u.queue[i])
      BY <1>17, <2>1 DEF Grown
  <2>6. m \in Members(r.queue[i])
      BY <1>13, <2>1, <2>2, <2>4, <2>5 DEF Thinned
  <2>7. Before(r.queue[i], x, m)
      BY <1>13, <2>1, <2>6 DEF Ordered, InOrder
  <2>8. Before(u.queue[i], x, m)
      BY <2>1, <2>5, <2>7 DEF Thinned, Ordered, InOrder
  <2>9. QED
      BY <1>17, <2>1, <2>8 DEF Grown, Ordered, InOrder
<1>20. Steady(s, t)
    BY <1>12, <1>13, <1>14, <1>18, <1>19 DEF Steady, Ordered, OrderedButLast
<1>21. QED
    BY <1>16, <1>20

-----------------------------------------------------------------------------
(* The steps.                                                               *)

\* A process is set to another state and the scheduler runs.
LEMMA HandlerSound ==
    ASSUME Sound(sched), NEW n \in Found(sched), NEW state \in States,
           Int20h(Restate(sched, {n}, state))
    PROVE  Sound(sched') /\ Steady(sched, sched')
<1> DEFINE S == {n}
           s == Restate(sched, S, state)
<1>1. /\ Housed(sched) /\ sched.live \subseteq Nodes
      /\ S \subseteq Found(sched) \cup {sched.current} /\ Idle \notin S
    BY HousedTypes DEF Sound, Found
<1> HIDE DEF S
<1>2. /\ Housed(s) /\ SameRun(sched, s) /\ s.queue = sched.queue
      /\ \A m \in Nodes : s.pcb[m].state = IF m \in S THEN state ELSE sched.pcb[m].state
    BY <1>1, RestateHoused
<1>3. sched' \in scheduler(s)
    BY DEF Int20h, S
<1> HIDE DEF s
<1>4. Placed(s) /\ OneDead(s)
    BY <1>1, <1>2 DEF Sound, Placed, OneDead, NoneDead, SameRun, S
<1>5. Sound(sched') /\ Steady(s, sched')
    BY <1>2, <1>3, <1>4, SchedulerSound
<1>6. QED
    BY <1>2, <1>5 DEF Steady, Ordered, OrderedButLast, SameRun

LEMMA WakeReaderSound ==
    ASSUME Sound(sched), WakeReader
    PROVE  Sound(sched') /\ Ordered(sched, sched')
<1>1. PICK n \in Found(sched) : sched' = Restate(sched, {n}, "READY")
    BY DEF WakeReader
<1> DEFINE S == {n}
<1>2. /\ Housed(sched) /\ sched.live \subseteq Nodes /\ "READY" \in States
      /\ S \subseteq Found(sched) \cup {sched.current} /\ Idle \notin S
    BY HousedTypes, StateNames DEF Sound, Found
<1> HIDE DEF S
<1>3. /\ Housed(sched') /\ SameRun(sched, sched') /\ sched'.queue = sched.queue
      /\ \A m \in Nodes : sched'.pcb[m].state = IF m \in S THEN "READY" ELSE sched.pcb[m].state
  <2>1. sched' = Restate(sched, S, "READY")
      BY <1>1 DEF S
  <2>2. QED
      BY <1>2, <2>1, RestateHoused
<1>4. Placed(sched') /\ NoneDead(sched')
    BY <1>2, <1>3 DEF Sound, Placed, NoneDead, SameRun
<1>5. QED
    BY <1>3, <1>4, SameListsGrown DEF Sound, Grown

\* Nobody but n is overtaken.
OrderedBut(s, t, n) ==
    \A i \in Levels : \A x, m : Before(t.queue[i], x, m) =>
        Before(s.queue[i], x, m) \/ m \notin Members(s.queue[i]) \/ m = n

\* The process is taken out of its list and goes to the one of its new priority,
\* or stays blocked.
LEMMA PrioritySound ==
    ASSUME Sound(sched), NEW n \in Procs, NEW priority \in Priorities,
           changePriority(n, priority)
    PROVE  Sound(sched') /\ OrderedBut(sched, sched', n)
<1> DEFINE entry == [sched.pcb[n] EXCEPT !.aging = agingOf(priority), !.priority = priority,
                                         !.quantums = defaultQuantums(priority)]
           r == removeFromQueue(sched, n)
           s == Update(r, n, entry)
           a == insertInBlockedQueue(s, n)
           b == insertInQueue(s, n)
<1>1. n \in InQueues(sched) /\ n # sched.current /\ sched' \in {a, b}
    BY DEF changePriority, Running
<1>2. /\ Housed(sched) /\ Apart(sched) /\ sched \in Scheds /\ sched.live \subseteq Nodes
      /\ Idle \in Nodes /\ n \in Nodes /\ n # Idle /\ sched.pcb[n] \in Pcbs
      /\ InQueues(sched) \subseteq sched.live /\ sched.current \notin InQueues(sched)
    BY HousedTypes, FieldsOf, NodesAssumption DEF Sound, Housed, Nodes
<1>3. entry \in Pcbs /\ entry.state = sched.pcb[n].state
    BY <1>2, NicedEntry
<1>4. /\ r \in Scheds /\ r.pcb = sched.pcb /\ SameRun(sched, r)
      /\ \A i \in Lists : r.queue[i] = RemoveFirst(sched.queue[i], n)
    BY <1>2, RemoveIs
<1> HIDE DEF entry, r
<1>5. /\ Apart(r) /\ InQueues(r) = InQueues(sched) \ {n} /\ Ordered(sched, r)
      /\ \A i \in Lists : Members(r.queue[i]) = Members(sched.queue[i]) \ {n}
    BY <1>2, <1>4, RemoveApart
<1>6. /\ s \in Scheds /\ s.queue = r.queue /\ SameRun(r, s)
      /\ \A m \in Nodes : s.pcb[m] = IF m = n THEN entry ELSE r.pcb[m]
    BY <1>3, <1>4, UpdateIs
<1> HIDE DEF s
<1>7. Apart(s) /\ InQueues(s) = InQueues(r)
  <2>1. \A m \in InQueues(r) : s.pcb[m] = r.pcb[m]
      BY <1>2, <1>5, <1>6
  <2>2. QED
      BY <1>5, <1>6, <2>1, SameListsApart
<1>8. /\ s.current = sched.current /\ s.live = sched.live
      /\ \A m \in Nodes : s.pcb[m].state = sched.pcb[m].state
    BY <1>3, <1>4, <1>6 DEF SameRun
<1>9. ASSUME NEW t, Apart(t), InQueues(t) = InQueues(s) \cup {n}, SameRun(s, t),
             \A m \in Nodes : t.pcb[m].state = s.pcb[m].state, Grown(s, t)
      PROVE  Sound(t) /\ OrderedBut(sched, t, n)
  <2>1. /\ t.current = sched.current /\ t.live = sched.live
        /\ InQueues(t) = InQueues(sched)
        /\ \A m \in Nodes : t.pcb[m].state = sched.pcb[m].state
      BY <1>1, <1>5, <1>7, <1>8, <1>9 DEF SameRun
  <2>2. Sound(t)
      BY <1>2, <1>9, <2>1 DEF Sound, Housed, Placed, NoneDead
  <2>3. ASSUME NEW i \in Levels, NEW x, NEW m, Before(t.queue[i], x, m),
               m \in Members(sched.queue[i]), m # n
        PROVE  Before(sched.queue[i], x, m)
    <3>1. i \in Lists /\ s.queue[i] = r.queue[i]
        BY <1>6, ListFacts
    <3>2. m \in Members(s.queue[i])
        BY <1>5, <2>3, <3>1
    <3>3. InOrder(s.queue[i], t.queue[i]) /\ InOrder(sched.queue[i], r.queue[i])
        BY <1>5, <1>9 DEF Grown, Ordered
    <3>4. QED
        BY <2>3, <3>1, <3>2, <3>3 DEF InOrder
  <2>4. QED
      BY <2>2, <2>3 DEF OrderedBut
<1>10. n \notin InQueues(s)
    BY <1>5, <1>7
<1>11. CASE sched' = a
  <2>1. a = Enqueue(s, n, Blocked) /\ Blocked \in {5, Blocked}
      BY DEF insertInBlockedQueue
  <2>2. /\ Apart(a) /\ InQueues(a) = InQueues(s) \cup {n} /\ SameRun(s, a)
        /\ a.pcb = s.pcb /\ Grown(s, a)
      BY <1>7, <1>10, <2>1, EnqueueApart
  <2> HIDE DEF a
  <2>3. QED
      BY <1>9, <1>11, <2>2
<1>12. CASE sched' = b
  <2>1. /\ Apart(b) /\ InQueues(b) = InQueues(s) \cup {n} /\ SameRun(s, b)
        /\ \A m \in Nodes : b.pcb[m].state = s.pcb[m].state
        /\ Grown(s, b)
      BY <1>7, <1>10, InsertApart
  <2> HIDE DEF b
  <2>2. QED
      BY <1>9, <1>12, <2>1
<1>13. QED
    BY <1>1, <1>11, <1>12

\* The child takes a node that is free, so that it is linked nowhere yet.
LEMMA ForkSound ==
    ASSUME Sound(sched), sysFork
    PROVE  Sound(sched') /\ Steady(sched, sched')
<1>1. PICK n \in Procs \ sched.live :
          sched' = [insertInQueue(Update(sched, n, sched.pcb[Running]), n)
                      EXCEPT !.live = @ \cup {n}]
    BY DEF sysFork
<1> DEFINE entry == sched.pcb[sched.current]
           s == Update(sched, n, entry)
           t == insertInQueue(s, n)
           l == t.live \cup {n}
<1>2. sched' = [t EXCEPT !.live = l]
    BY <1>1 DEF Running
<1>3. /\ Housed(sched) /\ Apart(sched) /\ sched \in Scheds /\ sched.live \subseteq Nodes
      /\ Idle \in Nodes /\ n \in Nodes /\ n # Idle /\ entry \in Pcbs
      /\ InQueues(sched) \subseteq sched.live /\ sched.current \notin InQueues(sched)
      /\ sched.live \subseteq Procs /\ sched.current \in sched.live
    BY HousedTypes, FieldsOf, NodesAssumption DEF Sound, Housed, Placed, Nodes, sysFork,
       InProcess, Running
<1>4. entry.state # "EXITED"
    BY <1>3 DEF Sound, NoneDead
<1> HIDE DEF entry
<1>5. /\ s \in Scheds /\ s.queue = sched.queue /\ SameRun(sched, s)
      /\ \A m \in Nodes : s.pcb[m] = IF m = n THEN entry ELSE sched.pcb[m]
    BY <1>3, UpdateIs
<1> HIDE DEF s
<1>6. Apart(s) /\ InQueues(s) = InQueues(sched) /\ n \notin InQueues(sched)
  <2>1. \A m \in InQueues(sched) : s.pcb[m] = sched.pcb[m]
      BY <1>3, <1>5
  <2>2. QED
      BY <1>3, <1>5, <2>1, SameListsApart
<1>7. /\ Apart(t) /\ InQueues(t) = InQueues(s) \cup {n} /\ SameRun(s, t)
      /\ \A m \in Nodes : t.pcb[m].state = s.pcb[m].state
      /\ Grown(s, t)
    BY <1>6, InsertApart
<1> HIDE DEF t
<1>8. t \in Scheds /\ t.live = sched.live /\ t.current = sched.current /\ l \in SUBSET Procs
    BY <1>3, <1>5, <1>7 DEF Apart, SameRun
<1>9. /\ sched' \in Scheds /\ sched'.pcb = t.pcb /\ sched'.queue = t.queue
      /\ sched'.current = t.current /\ sched'.live = l
    BY <1>2, <1>8, SetLive
<1>10. Apart(sched') /\ InQueues(sched') = InQueues(t)
    BY <1>7, <1>9, SameListsApart
<1>11. \A m \in sched.live \cup {Idle} : sched'.pcb[m].state = sched.pcb[m].state
    BY <1>3, <1>5, <1>7, <1>9
<1>12. sched'.pcb[n].state # "EXITED"
    BY <1>3, <1>4, <1>5, <1>7, <1>9
<1>13. /\ sched'.live = sched.live \cup {n} /\ sched'.current = sched.current
       /\ InQueues(sched') = InQueues(sched) \cup {n}
    BY <1>6, <1>7, <1>8, <1>9, <1>10
<1>14. Steady(sched, sched')
    BY <1>5, <1>7, <1>9 DEF Steady, Grown, Ordered
<1>15. QED
    BY <1>3, <1>10, <1>11, <1>12, <1>13, <1>14 DEF Sound, Housed, Placed, NoneDead

LEMMA ExecveSound ==
    ASSUME Sound(sched), sysExecve
    PROVE  Sound(sched') /\ Ordered(sched, sched')
<1>1. /\ Housed(sched) /\ sched \in Scheds /\ sched.live \subseteq Nodes /\ Idle \in Nodes
      /\ InQueues(sched) \subseteq sched.live /\ sched.current \notin InQueues(sched)
    BY HousedTypes DEF Sound, Housed, Nodes
<1>2. /\ sched' \in Scheds /\ sched'.queue = sched.queue
      /\ sched'.current = sched.current /\ sched'.live = sched.live
      /\ \A m \in Nodes : /\ m # sched.current => sched'.pcb[m] = sched.pcb[m]
                          /\ sched'.pcb[m].state = sched.pcb[m].state
    BY <1>1, ExecveIs DEF TypeOK, Running
<1>3. Apart(sched') /\ InQueues(sched') = InQueues(sched)
    BY <1>1, <1>2, SameListsApart DEF Housed
<1>4. Ordered(sched, sched')
    BY <1>2, SameListsGrown DEF Grown
<1>5. QED
    BY <1>1, <1>2, <1>3, <1>4 DEF Sound, Housed, Placed, NoneDead

LEMMA InitSound == Init => Sound(sched)
<1> SUFFICES ASSUME Init PROVE Sound(sched)
    OBVIOUS
<1>1. sched \in Scheds
    BY InitTyped DEF TypeOK
<1>2. /\ sched.current = InitNode /\ sched.live = {InitNode}
      /\ \A i \in Lists : sched.queue[i] = << >>
    BY DEF Init
<1>3. \A n \in {InitNode, Idle} : sched.pcb[n].state = "READY"
    BY NodesAssumption DEF Init, Freed
<1>4. \A i \in Lists : Members(sched.queue[i]) = {} /\ OneEach(sched.queue[i])
    BY <1>2 DEF Members, OneEach
<1>5. InQueues(sched) = {} /\ Apart(sched)
    BY <1>1, <1>4, ListFacts DEF InQueues, Apart
<1>6. QED
    BY <1>2, <1>3, <1>5 DEF Sound, Housed, Placed, NoneDead

LEMMA NextSound ==
    ASSUME Sound(sched), [Next]_vars
    PROVE  /\ Sound(sched')
           /\ \/ Steady(sched, sched')
              \/ \E n \in Procs, priority \in Priorities :
                    changePriority(n, priority) /\ OrderedBut(sched, sched', n)
<1>1. InProcess => Running \in Found(sched)
    BY NodesAssumption DEF InProcess, Found, Running
<1>2. CASE TimerTick
  <2>1. OneDead(sched)
      BY DEF Sound, NoneDead, OneDead
  <2>2. QED
      BY <1>2, <2>1, SchedulerSound DEF Sound, TimerTick, Int20h
<1>3. CASE WakeReader
    BY <1>3, WakeReaderSound DEF Steady
<1>4. CASE Block \/ arqSysYield \/ arqSysExit
    BY <1>1, <1>4, HandlerSound, StateNames DEF Block, arqSysYield, arqSysExit, Leave
<1>5. CASE arqSysBlock \/ arqSysUnblock \/ arqSysKill \/ CtrlC
    BY <1>5, HandlerSound, StateNames DEF arqSysBlock, arqSysUnblock, arqSysKill, CtrlC
<1>6. CASE arqSysPriority
    BY <1>6, PrioritySound DEF arqSysPriority
<1>7. CASE sysFork
    BY <1>7, ForkSound
<1>8. CASE sysExecve
    BY <1>8, ExecveSound DEF Steady
<1>9. CASE UNCHANGED vars
    BY <1>9, SameListsGrown DEF vars, Grown, Steady
<1>10. QED
    BY <1>2, <1>3, <1>4, <1>5, <1>6, <1>7, <1>8, <1>9 DEF Next

-----------------------------------------------------------------------------
(* What follows.                                                            *)

\* In how many places a process is linked.
LEMMA PlacesAre ==
    ASSUME Apart(sched), NEW n
    PROVE  /\ Places(n) # {} <=> n \in InQueues(sched)
           /\ Cardinality(Places(n)) <= 1
<1>1. \A p : p \in Places(n) <=> \E i \in Lists : \E k \in DOMAIN sched.queue[i] :
                                    sched.queue[i][k] = n /\ p = <<i, k>>
    BY DEF Places
<1>2. Places(n) # {} <=> n \in InQueues(sched)
  <2>1. n \in InQueues(sched) <=> \E i \in Lists : \E k \in DOMAIN sched.queue[i] :
                                        sched.queue[i][k] = n
      BY DEF InQueues, Members
  <2>2. Places(n) # {} <=> \E p : p \in Places(n)
      OBVIOUS
  <2>3. QED
      BY <1>1, <2>1, <2>2
<1>3. ASSUME NEW p \in Places(n), NEW q \in Places(n)
      PROVE  p = q
  <2>1. PICK i \in Lists : \E k \in DOMAIN sched.queue[i] :
                sched.queue[i][k] = n /\ p = <<i, k>>
      BY <1>1
  <2>2. PICK j \in Lists : \E k \in DOMAIN sched.queue[j] :
                sched.queue[j][k] = n /\ q = <<j, k>>
      BY <1>1
  <2>3. n \in Members(sched.queue[i]) /\ n \in Members(sched.queue[j])
      BY <2>1, <2>2 DEF Members
  <2>4. i = j
      BY <2>3 DEF Apart
  <2>5. QED
      BY <2>1, <2>2, <2>4 DEF Apart, OneEach
<1>4. CASE Places(n) = {}
    BY <1>2, <1>4, FS_EmptySet
<1>5. ASSUME NEW p \in Places(n) PROVE Cardinality(Places(n)) <= 1
  <2>1. Places(n) = {p}
      BY <1>3
  <2>2. QED
      BY <2>1, FS_Singleton
<1>6. QED
    BY <1>2, <1>4, <1>5

LEMMA SoundIsSound == Sound(sched) => QueuesSound /\ LeveledByAging
<1> SUFFICES ASSUME Sound(sched) PROVE QueuesSound /\ LeveledByAging
    OBVIOUS
<1>1. /\ Apart(sched) /\ TypeOK /\ sched.live \subseteq Procs /\ Idle \notin sched.live
      /\ InQueues(sched) \subseteq sched.live /\ Running \notin InQueues(sched)
      /\ Running \in sched.live \cup {Idle} /\ Idle \notin Procs
    BY HousedTypes, NodesAssumption DEF Sound, Housed, Placed, Running, TypeOK
<1>2. \A n : (Places(n) # {} <=> n \in InQueues(sched)) /\ Cardinality(Places(n)) <= 1
    BY <1>1, PlacesAre
<1>3. \A n \in sched.live \ {Running} : n \in InQueues(sched) \/ sched.pcb[n].state = "READY"
    BY DEF Sound, Housed, Running
<1>4. QueuesSound
    BY <1>1, <1>2, <1>3 DEF QueuesSound, Sound, NoneDead
<1>5. LeveledByAging
    BY <1>1 DEF Apart, LeveledByAging
<1>6. QED
    BY <1>4, <1>5

\* OrderKept for one step.
OrderStep ==
    \A i \in Levels : \A n \in Procs, m \in Members(sched.queue[i]) :
        Before(sched'.queue[i], n, m) /\ ~Before(sched.queue[i], n, m) =>
            \/ Niced(m)
            \/ SomeoneDies /\ m = Last(sched'.queue[i])

LEMMA NextOrder ==
    ASSUME Sound(sched), [Next]_vars
    PROVE  OrderStep
<1>1. SUFFICES ASSUME NEW i \in Levels, NEW n \in Procs, NEW m \in Members(sched.queue[i]),
                      Before(sched'.queue[i], n, m), ~Before(sched.queue[i], n, m),
                      ~Niced(m)
               PROVE  SomeoneDies /\ m = Last(sched'.queue[i])
    BY DEF OrderStep
<1>2. CASE Steady(sched, sched')
    BY <1>1, <1>2 DEF Steady, Ordered, InOrder, OrderedButLast, SomeoneDies
<1>3. ASSUME NEW p \in Procs, NEW priority \in Priorities, changePriority(p, priority),
             OrderedBut(sched, sched', p)
      PROVE  FALSE
  <2>1. m = p
      BY <1>1, <1>3 DEF OrderedBut
  <2>2. QED
      BY <1>1, <1>3, <2>1 DEF Niced
<1>4. QED
    BY <1>2, <1>3, NextSound

\* The inductive invariant: between two calls everybody has a place, or has got
\* lost in the state READY, and nobody is dead.
THEOREM EverybodyPlaced == Spec => []Sound(sched)
<1>1. Sound(sched) /\ [Next]_vars => Sound(sched)'
    BY NextSound
<1>2. QED
    BY <1>1, InitSound, PTL DEF Spec

\* For every number of processes and every order of forks, deaths, wake-ups and
\* nice: a live process is current or linked once in one list of the scheduler,
\* a dead one is linked nowhere and does not run, and only a READY process can
\* have fallen out of all lists.
THEOREM QueuesStaySound == Spec => []QueuesSound
BY EverybodyPlaced, SoundIsSound, PTL

\* Every process in one of the five upper queues is of the aging of that level,
\* whatever nice, fork and the scheduler did to it, and shows it as its priority.
THEOREM LevelsFollowAging == Spec => []LeveledByAging
BY EverybodyPlaced, SoundIsSound, PTL

\* For every number of processes: whoever is forked, blocks, yields, is woken, niced or
\* charged, nobody comes to stand before a process that waits in a level; only nice on
\* that process, or its being picked when the current one dies, takes it to the end.
THEOREM OrderStaysKept == Spec => OrderKept
<1>1. Sound(sched) /\ [Next]_vars => [OrderStep]_vars
    BY NextOrder
<1>2. OrderKept <=> [][OrderStep]_vars
    BY DEF OrderKept, OrderStep
<1>3. QED
    BY <1>1, <1>2, EverybodyPlaced, PTL DEF Spec

=============================================================================
