------------------------------ MODULE PipeProofs ------------------------------
(***************************************************************************)
(* Proofs about Pipe for every number of processes and every size of the   *)
(* buffers.  Two bounds of the code become hypotheses, because the code    *)
(* does not keep its promises beyond them: a buffer has a place for every  *)
(* process (PD_SIZE), and fewer bytes go through the pipe than fill it.    *)
(***************************************************************************)
EXTENDS Pipeline, OrderLemmas, FiniteSetTheorems, SequenceTheorems

EnoughPlaces == IsFiniteSet(Procs) /\ Cardinality(Procs) <= PdSize

NeverFull == MaxBytes + 2 <= BuffSize

-----------------------------------------------------------------------------
(* References.                                                               *)

\* No process has two places in the buffer.
OneEach(b) == \A i, j \in 1..PdSize :
                 b.references[i] = b.references[j] /\ b.references[i] # Null => i = j

LEMMA PlaceFree ==
    ASSUME EnoughPlaces, NEW b \in Buffers, OneEach(b), NEW p \in Procs \ Referrers(b)
    PROVE  Free(b) # {}
  <1> SUFFICES ASSUME Free(b) = {} PROVE FALSE
    OBVIOUS
  <1> DEFINE f == b.references
             S == 1..PdSize
             T == Procs \ {p}
  <1>1. f \in [S -> Procs \cup {Null}]
    BY DEF Buffers
  <1>2. \A i \in S : f[i] # Null /\ f[i] # p
    BY DEF Free, Referrers
  <1>3. f \in [S -> T]
    BY <1>1, <1>2
  <1>4. IsFiniteSet(T) /\ Cardinality(T) = Cardinality(Procs) - 1 /\ Cardinality(Procs) \in Nat
    BY FS_RemoveElement, FS_CardinalityType DEF EnoughPlaces
  <1>5. IsFiniteSet(S) /\ Cardinality(S) = PdSize
    BY FS_Interval, SizesAssumption
  <1>6. Cardinality(T) < Cardinality(S)
    BY <1>4, <1>5, SizesAssumption DEF EnoughPlaces
  <1> HIDE DEF f, S, T
  <1>7. \E i, j \in S : i # j /\ f[i] = f[j]
    BY <1>3, <1>4, <1>5, <1>6, FS_PigeonHole
  <1>8. QED
    BY <1>2, <1>7 DEF OneEach, f, S

LEMMA WithReferences ==
    ASSUME NEW b \in Buffers, NEW f \in [1..PdSize -> Procs \cup {Null}]
    PROVE  LET r == [b EXCEPT !.references = f]
           IN  /\ r \in Buffers /\ r.references = f /\ r.data = b.data /\ r.cursor = b.cursor
               /\ r.overrun = b.overrun /\ r.state = b.state
  BY DEF Buffers

\* r is b with other references.
SameContents(b, r) == /\ r \in Buffers /\ r.data = b.data /\ r.cursor = b.cursor
                      /\ r.overrun = b.overrun /\ r.state = b.state

LEMMA AddReference ==
    ASSUME EnoughPlaces, NEW b \in Buffers, OneEach(b), NEW p \in Procs \ Referrers(b)
    PROVE  LET r == addReference(b, p)
           IN  /\ SameContents(b, r) /\ OneEach(r)
               /\ Referrers(r) = Referrers(b) \cup {p}
  <1> DEFINE first == CHOOSE i \in Free(b) : \A j \in Free(b) : i <= j
             f == [b.references EXCEPT ![first] = p]
             r == addReference(b, p)
  <1>1. Free(b) # {} /\ Free(b) \in SUBSET Nat
    BY PlaceFree, SizesAssumption DEF Free
  <1>2. first \in Free(b)
    <2>1. \E i \in Free(b) : \A j \in Free(b) : i <= j
      BY <1>1, LeastExists
    <2>2. QED
      BY <2>1
  <1>3. r = [b EXCEPT !.references = f]
    BY <1>1 DEF addReference
  <1> HIDE DEF first
  <1>4. first \in 1..PdSize /\ b.references[first] = Null
    BY <1>2 DEF Free
  <1>5. /\ b.references \in [1..PdSize -> Procs \cup {Null}]
        /\ f \in [1..PdSize -> Procs \cup {Null}]
        /\ \A i \in 1..PdSize : f[i] = IF i = first THEN p ELSE b.references[i]
    BY <1>4 DEF Buffers
  <1> HIDE DEF f, r
  <1>6. SameContents(b, r) /\ r.references = f
    BY <1>3, <1>5, WithReferences DEF SameContents
  <1>7. \A i \in 1..PdSize : b.references[i] # p
    BY SizesAssumption DEF Referrers
  <1>8. OneEach(r)
    BY <1>5, <1>6, <1>7 DEF OneEach
  <1>9. Referrers(r) = Referrers(b) \cup {p}
    BY <1>4, <1>5, <1>6, SizesAssumption DEF Referrers
  <1>10. QED
    BY <1>6, <1>8, <1>9 DEF r

LEMMA DropReference ==
    ASSUME NEW b \in Buffers, OneEach(b), NEW p \in Procs
    PROVE  LET r == dropReference(b, p)
           IN  /\ SameContents(b, r) /\ OneEach(r)
               /\ Referrers(r) = Referrers(b) \ {p}
  <1> DEFINE f == [i \in 1..PdSize |-> IF b.references[i] = p THEN Null ELSE b.references[i]]
             r == dropReference(b, p)
  <1>1. r = [b EXCEPT !.references = f]
    BY DEF dropReference
  <1>2. /\ f \in [1..PdSize -> Procs \cup {Null}]
        /\ \A i \in 1..PdSize : f[i] = IF b.references[i] = p THEN Null ELSE b.references[i]
    BY DEF Buffers
  <1> HIDE DEF f, r
  <1>3. SameContents(b, r) /\ r.references = f
    BY <1>1, <1>2, WithReferences DEF SameContents
  <1>4. OneEach(r)
    BY <1>2, <1>3 DEF OneEach
  <1>5. Referrers(r) = Referrers(b) \ {p}
    BY <1>2, <1>3, SizesAssumption DEF Referrers
  <1>6. QED
    BY <1>3, <1>4, <1>5 DEF r

-----------------------------------------------------------------------------
(* Contents.                                                                 *)

\* r is b with other bytes.
SameReferences(b, r) == r \in Buffers /\ r.references = b.references /\ r.state = b.state

LEMMA CopyTo ==
    ASSUME NEW b \in Buffers, NEW s \in Seq(Nat)
    PROVE  LET r == copyToBuffer(b, s)
               n == Least(Len(s), BuffSize - Dim(b))
           IN  /\ SameReferences(b, r) /\ r.cursor = b.cursor
               /\ Dim(b) < BuffSize - 1 =>
                     /\ n \in 0..Len(s)
                     /\ r.data = b.data \o SubSeq(s, 1, n)
                     /\ r.overrun = (b.overrun \/ b.cursor + Dim(b) + n > BuffSize)
               /\ ~(Dim(b) < BuffSize - 1) => r = b
  <1> DEFINE n == Least(Len(s), BuffSize - Dim(b))
             d == b.data \o SubSeq(s, 1, n)
             o == b.overrun \/ b.cursor + Dim(b) + n > BuffSize
             r == [b EXCEPT !.data = d, !.overrun = o]
  <1>1. b.data \in Seq(Nat) /\ Dim(b) \in Nat /\ BuffSize \in Nat
    BY SizesAssumption DEF Buffers, Dim
  <1>2. CASE ~(Dim(b) < BuffSize - 1)
    BY <1>2 DEF copyToBuffer, SameReferences
  <1>3. CASE Dim(b) < BuffSize - 1
    <2>1. n \in 0..Len(s)
      BY <1>1, <1>3 DEF Least
    <2>2. copyToBuffer(b, s) = r
      BY <1>3 DEF copyToBuffer
    <2>3. SubSeq(s, 1, n) \in Seq(Nat)
      BY <2>1, SubSeqProperties
    <2>4. d \in Seq(Nat)
      BY <1>1, <2>3, ConcatProperties
    <2>5. o \in BOOLEAN
      BY DEF Buffers
    <2> HIDE DEF n, d, o
    <2>6. /\ r \in Buffers /\ r.data = d /\ r.overrun = o /\ r.cursor = b.cursor
          /\ r.references = b.references /\ r.state = b.state
      BY <2>4, <2>5 DEF Buffers
    <2> HIDE DEF r
    <2>7. QED
      BY <1>3, <2>1, <2>2, <2>6 DEF SameReferences, n, d, o
  <1>4. QED
    BY <1>2, <1>3

LEMMA DropType ==
    ASSUME NEW b \in Buffers, NEW n \in 0..Dim(b)
    PROVE  LET r == Drop(b, n)
           IN  /\ SameReferences(b, r) /\ r.overrun = b.overrun
               /\ r.cursor = b.cursor + n
               /\ r.data = SubSeq(b.data, n + 1, Len(b.data))
               /\ Dim(r) = Dim(b) - n
  <1> DEFINE d == SubSeq(b.data, n + 1, Len(b.data))
             c == b.cursor + n
             r == Drop(b, n)
  <1>1. b.data \in Seq(Nat) /\ Len(b.data) \in Nat /\ b.cursor \in Nat /\ n \in Nat
        /\ n <= Len(b.data)
    BY DEF Buffers, Dim
  <1>2. d \in Seq(Nat) /\ Len(d) = Len(b.data) - n
    <2>1. ASSUME NEW s \in Seq(Nat), NEW m \in Nat, m <= Len(s)
          PROVE  SubSeq(s, m + 1, Len(s)) \in Seq(Nat)
                 /\ Len(SubSeq(s, m + 1, Len(s))) = Len(s) - m
      BY <2>1
    <2>2. QED
      BY <1>1, <2>1
  <1>3. c \in Nat
    BY <1>1
  <1>4. r = [b EXCEPT !.data = d, !.cursor = c]
    BY DEF Drop
  <1> HIDE DEF d, c
  <1>5. /\ r \in Buffers /\ r.data = d /\ r.cursor = c /\ r.overrun = b.overrun
        /\ r.references = b.references /\ r.state = b.state
    BY <1>2, <1>3, <1>4 DEF Buffers
  <1> HIDE DEF r
  <1>6. QED
    BY <1>2, <1>5 DEF SameReferences, Dim, r, d, c

\* A read takes a prefix without an end of file, and at least a byte if one is
\* there; it takes an end of file that is alone in the buffer.
LEMMA ReadType ==
    ASSUME NEW b \in Buffers, Dim(b) > 0, NEW count \in Nat \ {0},
           \A i \in 1..Dim(b) : b.data[i] = EOF => i = Dim(b)
    PROVE  LET got == readBuffer(b, count)
           IN  \E n \in 1..Dim(b) :
                  /\ got.rest = Drop(b, n)
                  /\ \/ b.data = <<EOF>> /\ n = 1 /\ got.bytes = <<>>
                     \/ /\ \A i \in 1..n : b.data[i] # EOF
                        /\ got.bytes = SubSeq(b.data, 1, n)
  <1> DEFINE beforeEOF == {n \in 0..Dim(b) : \A i \in 1..n : b.data[i] # EOF}
             most == CHOOSE m \in beforeEOF : \A i \in beforeEOF : i <= m
             n == Least(most, count)
             got == readBuffer(b, count)
  <1>1. b.data \in Seq(Nat) /\ Dim(b) \in Nat /\ Dim(b) = Len(b.data) /\ EOF = 0
    BY DEF Buffers, Dim, EOF
  <1>2. CASE b.data = <<EOF>>
    <2>1. got = [bytes |-> <<>>, rest |-> Drop(b, 1)]
      BY <1>2 DEF readBuffer
    <2>2. 1 \in 1..Dim(b)
      BY <1>1
    <2> HIDE DEF got
    <2>3. QED
      BY <1>2, <2>1, <2>2 DEF got
  <1>3. CASE b.data # <<EOF>>
    <2>1. got = [bytes |-> SubSeq(b.data, 1, n), rest |-> Drop(b, n)]
      BY <1>3 DEF readBuffer
    <2>2. b.data[1] # EOF
      <3> SUFFICES ASSUME b.data[1] = EOF PROVE FALSE
        OBVIOUS
      <3>1. 1 \in 1..Dim(b)
        BY <1>1
      <3>2. Len(b.data) = 1
        BY <1>1, <3>1
      <3>3. b.data = <<EOF>>
        BY <1>1, <3>2
      <3>4. QED
        BY <1>3, <3>3
    <2>3. 1 \in beforeEOF /\ beforeEOF \in SUBSET (0..Dim(b))
      BY <1>1, <2>2
    <2>4. most \in beforeEOF /\ \A i \in beforeEOF : i <= most
      <3>1. \E m \in beforeEOF : \A i \in beforeEOF : i <= m
        BY <1>1, <2>3, LargestExists
      <3>2. QED
        BY <3>1
    <2> HIDE DEF most
    <2>5. most \in 1..Dim(b) /\ \A i \in 1..most : b.data[i] # EOF
      BY <1>1, <2>3, <2>4
    <2>6. n \in 1..Dim(b) /\ n <= most
      BY <1>1, <2>5 DEF Least
    <2> HIDE DEF n
    <2>7. \A i \in 1..n : b.data[i] # EOF
      BY <1>1, <2>5, <2>6
    <2> HIDE DEF got
    <2>8. got.bytes = SubSeq(b.data, 1, n) /\ got.rest = Drop(b, n)
      BY <2>1
    <2>9. QED
      BY <2>6, <2>7, <2>8 DEF got
  <1>4. QED
    BY <1>2, <1>3

-----------------------------------------------------------------------------
(* Closing an end.                                                           *)

ProcStates == {"unborn", "user", "marked", "blocked", "woken", "lost", "dead"}

PipeStates == [end : [Ends -> Buffers], proc : [Procs -> ProcStates],
               freed : BOOLEAN, runner : Procs \cup {Null}]

LEMMA OtherEnd ==
    /\ Ends = {"r", "w"} /\ "r" # "w" /\ Other("r") = "w" /\ Other("w") = "r"
    /\ \A e \in Ends : Other(e) \in Ends /\ Other(e) # e
  BY DEF Ends, Other

LEMMA WakeType ==
    ASSUME NEW b, NEW ps \in [Procs -> ProcStates], NEW runner
    PROVE  LET ws == wake(b, ps, runner)
           IN  /\ ws \in [Procs -> ProcStates]
               /\ \A p \in Procs :
                     ws[p] = IF p \notin Referrers(b) THEN ps[p]
                             ELSE IF p = runner THEN "marked"
                             ELSE IF ps[p] = "blocked" THEN "woken" ELSE ps[p]
  BY DEF wake, ProcStates

LEMMA DropFields ==
    ASSUME NEW k \in PipeStates, NEW which \in Ends, NEW b \in Buffers
    PROVE  LET r == [k EXCEPT !.end[which] = b]
           IN  /\ r \in PipeStates
               /\ \A e \in Ends : r.end[e] = IF e = which THEN b ELSE k.end[e]
               /\ r.proc = k.proc /\ r.freed = k.freed /\ r.runner = k.runner
  BY DEF PipeStates

LEMMA WithClosed ==
    ASSUME NEW b \in Buffers
    PROVE  LET r == [b EXCEPT !.state = "CLOSED"]
           IN  /\ r \in Buffers /\ r.data = b.data /\ r.cursor = b.cursor
               /\ r.overrun = b.overrun /\ r.references = b.references /\ r.state = "CLOSED"
  BY DEF Buffers, BufferStates

LEMMA ClosePipeFields ==
    ASSUME NEW k \in PipeStates, NEW which \in Ends
    PROVE  LET r == closePipe(k, which)
               o == Other(which)
           IN  /\ r \in PipeStates /\ r.runner = k.runner
               /\ r.end[which] = [k.end[which] EXCEPT !.state = "CLOSED"]
               /\ r.end[o] = IF which = "w" THEN copyToBuffer(k.end[o], <<EOF>>) ELSE k.end[o]
               /\ r.proc = wake(k.end[o], k.proc, k.runner)
               /\ r.freed = (k.end[o].state = "CLOSED")
  <1> DEFINE o == Other(which)
             b == [k.end[which] EXCEPT !.state = "CLOSED"]
             c == IF which = "w" THEN copyToBuffer(k.end[o], <<EOF>>) ELSE k.end[o]
             f == [k.end EXCEPT ![which] = b, ![o] = c]
             ws == wake(k.end[o], k.proc, k.runner)
             fr == k.end[o].state = "CLOSED"
             r == [k EXCEPT !.end = f, !.proc = ws, !.freed = fr]
  <1>1. o \in Ends /\ o # which
    BY OtherEnd
  <1>2. k.end[which] \in Buffers /\ k.end[o] \in Buffers /\ k.proc \in [Procs -> ProcStates]
    BY <1>1 DEF PipeStates
  <1>3. b \in Buffers
    BY <1>2, WithClosed
  <1>4. c \in Buffers
    <2>1. <<EOF>> \in Seq(Nat)
      BY DEF EOF
    <2>2. copyToBuffer(k.end[o], <<EOF>>) \in Buffers
      BY <1>2, <2>1, CopyTo DEF SameReferences
    <2>3. QED
      BY <1>2, <2>2
  <1>5. ws \in [Procs -> ProcStates]
    BY <1>2, WakeType
  <1>6. closePipe(k, which) = r
    BY <1>1 DEF closePipe, PipeStates
  <1> HIDE DEF o, b, c, ws, fr
  <1>7. f \in [Ends -> Buffers] /\ f[which] = b /\ f[o] = c
    BY <1>1, <1>3, <1>4 DEF PipeStates
  <1>8. fr \in BOOLEAN
    BY DEF fr
  <1> HIDE DEF f
  <1>9. /\ r \in PipeStates /\ r.end = f /\ r.proc = ws /\ r.freed = fr
        /\ r.runner = k.runner
    BY <1>5, <1>7, <1>8 DEF PipeStates
  <1> HIDE DEF r
  <1>10. QED
    BY <1>6, <1>7, <1>9 DEF o, b, c, ws, fr

LEMMA CopyEOF ==
    ASSUME NEW b \in Buffers
    PROVE  LET r == copyToBuffer(b, <<EOF>>)
           IN  /\ SameReferences(b, r) /\ r.cursor = b.cursor
               /\ Dim(b) < BuffSize - 1 =>
                     /\ Dim(r) = Dim(b) + 1
                     /\ \A i \in 1..Dim(b) : r.data[i] = b.data[i]
                     /\ r.data[Dim(b) + 1] = EOF
                     /\ r.overrun = (b.overrun \/ b.cursor + Dim(b) + 1 > BuffSize)
               /\ ~(Dim(b) < BuffSize - 1) => r = b
  <1> DEFINE s == <<EOF>>
             r == copyToBuffer(b, s)
             n == Least(Len(s), BuffSize - Dim(b))
  <1>1. s \in Seq(Nat) /\ Len(s) = 1 /\ s[1] = EOF
    BY DEF EOF
  <1>2. b.data \in Seq(Nat) /\ Dim(b) \in Nat /\ Len(b.data) = Dim(b) /\ BuffSize \in Nat
    BY SizesAssumption DEF Buffers, Dim
  <1>3. /\ SameReferences(b, r) /\ r.cursor = b.cursor
        /\ Dim(b) < BuffSize - 1 =>
              /\ r.data = b.data \o SubSeq(s, 1, n)
              /\ r.overrun = (b.overrun \/ b.cursor + Dim(b) + n > BuffSize)
        /\ ~(Dim(b) < BuffSize - 1) => r = b
    BY <1>1, CopyTo
  <1>4. ASSUME Dim(b) < BuffSize - 1
        PROVE  n = 1 /\ SubSeq(s, 1, n) = s
    <2>1. n = 1
      BY <1>1, <1>2, <1>4 DEF Least
    <2>2. SubSeq(s, 1, Len(s)) = s
      BY <1>1, SubSeqFull
    <2>3. QED
      BY <1>1, <2>1, <2>2
  <1> HIDE DEF r, s, n
  <1>5. ASSUME Dim(b) < BuffSize - 1
        PROVE  /\ Len(r.data) = Dim(b) + 1
               /\ \A i \in 1..Dim(b) : r.data[i] = b.data[i]
               /\ r.data[Dim(b) + 1] = EOF
    <2>1. r.data = b.data \o s
      BY <1>3, <1>4, <1>5
    <2>2. /\ Len(b.data \o s) = Len(b.data) + Len(s)
          /\ \A i \in 1..Len(b.data) + Len(s) :
                (b.data \o s)[i] = IF i <= Len(b.data) THEN b.data[i] ELSE s[i - Len(b.data)]
      BY <1>1, <1>2, ConcatProperties
    <2>3. QED
      BY <1>1, <1>2, <2>1, <2>2
  <1>6. QED
    BY <1>3, <1>4, <1>5 DEF Dim, r, s

\* What removeReferences does: the process is forgotten, and with the last one
\* the end is closed.
Removed(k, r, p, which) ==
    LET o == Other(which)
        last == p \in Referrers(k.end[which]) /\ Referrers(k.end[which]) \subseteq {p}
    IN  /\ r \in PipeStates /\ r.runner = k.runner
        /\ \A e \in Ends : /\ OneEach(r.end[e])
                           /\ Referrers(r.end[e]) = Referrers(k.end[e])
                                                       \ (IF e = which THEN {p} ELSE {})
        /\ r.end[which].data = k.end[which].data
        /\ r.end[which].cursor = k.end[which].cursor
        /\ r.end[which].overrun = k.end[which].overrun
        /\ r.end[o].state = k.end[o].state
        /\ last => /\ r.end[which].state = "CLOSED"
                   /\ r.end[o] = IF which = "w" THEN copyToBuffer(k.end[o], <<EOF>>)
                                 ELSE k.end[o]
                   /\ r.proc = wake(k.end[o], k.proc, k.runner)
                   /\ r.freed = (k.end[o].state = "CLOSED")
        /\ ~last => /\ r.end[which].state = k.end[which].state
                    /\ r.end[o] = k.end[o]
                    /\ r.proc = k.proc
                    /\ r.freed = k.freed

LEMMA SameReferrers ==
    ASSUME NEW b, NEW r, r.references = b.references
    PROVE  Referrers(r) = Referrers(b) /\ (OneEach(b) => OneEach(r))
  BY DEF Referrers, OneEach

LEMMA RemoveReferences ==
    ASSUME NEW k \in PipeStates, \A e \in Ends : OneEach(k.end[e]),
           NEW p \in Procs, NEW which \in Ends
    PROVE  Removed(k, removeReferences(k, p, which), p, which)
  <1> DEFINE o == Other(which)
             b == dropReference(k.end[which], p)
             rest == [k EXCEPT !.end[which] = b]
             c == closePipe(rest, which)
             last == p \in Referrers(k.end[which]) /\ Referrers(k.end[which]) \subseteq {p}
  <1>1. o \in Ends /\ o # which /\ \A e \in Ends : e = which \/ e = o
    BY OtherEnd
  <1>2. k.end[which] \in Buffers /\ k.end[o] \in Buffers
    BY <1>1 DEF PipeStates
  <1>3. /\ SameContents(k.end[which], b) /\ OneEach(b)
        /\ Referrers(b) = Referrers(k.end[which]) \ {p}
    BY <1>2, DropReference
  <1>4. b \in Buffers
    BY <1>3 DEF SameContents
  <1>5. removeReferences(k, p, which)
           = IF p \in Referrers(k.end[which]) /\ Referrers(rest.end[which]) = {}
             THEN c ELSE rest
    BY <1>2 DEF removeReferences, PipeStates
  <1> HIDE DEF b
  <1>6. /\ rest \in PipeStates /\ rest.end[which] = b /\ rest.end[o] = k.end[o]
        /\ rest.proc = k.proc /\ rest.freed = k.freed /\ rest.runner = k.runner
    BY <1>1, <1>4, DropFields
  <1> HIDE DEF rest, o
  <1>7. CASE last
    <2>1. removeReferences(k, p, which) = c
      BY <1>3, <1>5, <1>6, <1>7
    <2>2. /\ c \in PipeStates /\ c.runner = rest.runner
          /\ c.end[which] = [b EXCEPT !.state = "CLOSED"]
          /\ c.end[o] = IF which = "w" THEN copyToBuffer(k.end[o], <<EOF>>) ELSE k.end[o]
          /\ c.proc = wake(k.end[o], k.proc, k.runner)
          /\ c.freed = (k.end[o].state = "CLOSED")
      BY <1>6, ClosePipeFields DEF o
    <2>3. /\ c.end[which].data = b.data /\ c.end[which].cursor = b.cursor
          /\ c.end[which].overrun = b.overrun /\ c.end[which].references = b.references
          /\ c.end[which].state = "CLOSED"
      BY <1>4, <2>2, WithClosed
    <2>4. c.end[o].references = k.end[o].references /\ c.end[o].state = k.end[o].state
      BY <1>2, <2>2, CopyEOF DEF SameReferences
    <2> HIDE DEF c
    <2>5. /\ Referrers(c.end[which]) = Referrers(k.end[which]) \ {p} /\ OneEach(c.end[which])
          /\ Referrers(c.end[o]) = Referrers(k.end[o]) /\ OneEach(c.end[o])
      BY <1>1, <1>3, <2>3, <2>4, SameReferrers
    <2>6. Removed(k, c, p, which)
      BY <1>1, <1>3, <1>6, <1>7, <2>2, <2>3, <2>4, <2>5 DEF Removed, SameContents, o
    <2>7. QED
      BY <2>1, <2>6
  <1>8. CASE ~last
    <2>1. removeReferences(k, p, which) = rest
      BY <1>3, <1>5, <1>6, <1>8
    <2>2. Removed(k, rest, p, which)
      BY <1>1, <1>3, <1>6, <1>8 DEF Removed, SameContents, o
    <2>3. QED
      BY <2>1, <2>2
  <1>9. QED
    BY <1>7, <1>8

-----------------------------------------------------------------------------
(* The parts of the inductive invariant.  E are the two ends, P the processes, *)
(* D the pdTables, e the ends of file told, w the bytes written; the processes *)
(* of X are about to die or are running, and wait for nothing.                 *)

\* The buffers and the pdTables agree, and an end is closed with its last user.
Recorded(E, D) ==
    \A v \in Ends : /\ OneEach(E[v])
                    /\ Referrers(E[v]) = {p \in Procs : v \in D[p]}
                    /\ E[v].state = "CLOSED" <=> \A p \in Procs : v \notin D[p]

Gone(E, F) == F <=> \A v \in Ends : E[v].state = "CLOSED"

\* Who has not started or has ended uses nothing; who is inside read can read.
Users(P, D, X) ==
    /\ \A p \in Procs : P[p] \in {"unborn", "dead"} => D[p] = {}
    /\ \A p \in Procs \ X : P[p] \in {"blocked", "woken"} => "r" \in D[p]

\* The write end is always empty; the end of file comes last, and once.
Contents(E, e) ==
    /\ E["w"].data = <<>>
    /\ \A i \in 1..Dim(E["r"]) :
          /\ E["r"].data[i] \in 0..MaxBytes
          /\ E["r"].data[i] = EOF => /\ i = Dim(E["r"])
                                     /\ E["w"].state = "CLOSED"
                                     /\ e = 0
    /\ e # 0 => e = 1 /\ E["w"].state = "CLOSED" /\ E["r"].data = <<>>

\* While the buffers cannot fill, no index has passed their end, and a closed
\* write end has left its end of file.
Plenty(E, e, w) ==
    /\ ~E["w"].overrun /\ ~E["r"].overrun
    /\ E["w"].cursor <= w
    /\ E["r"].cursor + Dim(E["r"]) <= w + (IF E["w"].state = "CLOSED" THEN 1 ELSE 0)
    /\ E["w"].state = "CLOSED" /\ e = 0 =>
          Dim(E["r"]) > 0 /\ E["r"].data[Dim(E["r"])] = EOF

\* Nobody sleeps on data.
Awake(E, P, e, X) == \A p \in Procs \ X : P[p] = "blocked" /\ e = 0 => E["r"].data = <<>>

Sound(k, D, X, e, w) ==
    /\ k \in PipeStates /\ D \in [Procs -> SUBSET Ends] /\ e \in Nat /\ w \in 0..MaxBytes
    /\ Recorded(k.end, D) /\ Gone(k.end, k.freed) /\ Users(k.proc, D, X)
    /\ Contents(k.end, e)
    /\ NeverFull => Plenty(k.end, e, w) /\ Awake(k.end, k.proc, e, X)

\* What closing does to the stream.
Closes(k, r) ==
    /\ Bytes(r.end["r"].data) = Bytes(k.end["r"].data)
    /\ k.end["w"].state = "CLOSED" => r.end["w"].state = "CLOSED"

\* What it does to the processes.
Wakes(k, r) ==
    \A q \in Procs : \/ r.proc[q] \in {k.proc[q], "marked"}
                     \/ k.proc[q] = "blocked" /\ r.proc[q] = "woken"

LEMMA BytesOfAppended ==
    ASSUME NEW s \in Seq(Nat), NEW t \in Seq(Nat), Len(t) = Len(s) + 1,
           \A i \in 1..Len(s) : t[i] = s[i] /\ s[i] # EOF, t[Len(s) + 1] = EOF
    PROVE  Bytes(t) = Bytes(s)
  <1>1. Bytes(s) = s
    <2>1. s # <<>> => Len(s) \in 1..Len(s)
      OBVIOUS
    <2>2. QED
      BY <2>1 DEF Bytes
  <1>2. Bytes(t) = SubSeq(t, 1, Len(s))
    <2>1. t # <<>> /\ t[Len(t)] = EOF /\ Len(t) - 1 = Len(s)
      OBVIOUS
    <2>2. QED
      BY <2>1 DEF Bytes
  <1>3. SubSeq(t, 1, Len(s)) = s
    <2> DEFINE u == SubSeq(t, 1, Len(s))
    <2>1. \A i \in 1..Len(s) : t[i] \in Nat
      OBVIOUS
    <2>2. u \in Seq(Nat) /\ Len(u) = Len(s) /\ \A i \in 1..Len(s) : u[i] = t[i]
      BY <2>1, SubSeqProperties
    <2> HIDE DEF u
    <2>3. u = s
      BY <2>2, SeqEqual
    <2>4. QED
      BY <2>3 DEF u
  <1>4. QED
    BY <1>1, <1>2, <1>3

LEMMA RemoveSound ==
    ASSUME NEW k, NEW D, NEW X, NEW e, NEW w, Sound(k, D, X, e, w),
           NEW p \in Procs, p \in X, NEW which \in Ends
    PROVE  LET r == removeReferences(k, p, which)
           IN  /\ Sound(r, [D EXCEPT ![p] = @ \ {which}], X, e, w)
               /\ Closes(k, r) /\ Wakes(k, r)
  <1> DEFINE o == Other(which)
             r == removeReferences(k, p, which)
             last == p \in Referrers(k.end[which]) /\ Referrers(k.end[which]) \subseteq {p}
             G == [D EXCEPT ![p] = @ \ {which}]
  <1>1. /\ o \in Ends /\ o # which /\ (\A v \in Ends : v = which \/ v = o)
        /\ "r" \in Ends /\ "w" \in Ends /\ "r" # "w"
        /\ (which = "w" => o = "r") /\ (which = "r" => o = "w") /\ which \in {"r", "w"}
    BY OtherEnd
  <1>2. k \in PipeStates /\ D \in [Procs -> SUBSET Ends] /\ e \in Nat /\ w \in 0..MaxBytes
        /\ \A v \in Ends : k.end[v] \in Buffers
    BY DEF Sound, PipeStates
  <1>3. Removed(k, r, p, which)
    BY <1>2, RemoveReferences DEF Sound, Recorded
  <1>4. /\ G \in [Procs -> SUBSET Ends]
        /\ \A q \in Procs, v \in Ends :
              v \in G[q] <=> v \in D[q] /\ ~(q = p /\ v = which)
    BY <1>2
  <1> HIDE DEF r, o, G
  <1>5. r \in PipeStates /\ \A v \in Ends : r.end[v] \in Buffers
    BY <1>3 DEF Removed, PipeStates
  <1>6. /\ last <=> which \in D[p] /\ \A q \in Procs : which \notin G[q]
        /\ ~last => (which \in D[p] => \E q \in Procs : which \in G[q])
    BY <1>1, <1>4 DEF Sound, Recorded
  <1>7. Recorded(r.end, G)
    <2>1. \A v \in Ends : OneEach(r.end[v]) /\ Referrers(r.end[v]) = {q \in Procs : v \in G[q]}
      BY <1>1, <1>3, <1>4 DEF Sound, Recorded, Removed
    <2>2. r.end[which].state = "CLOSED" <=> \A q \in Procs : which \notin G[q]
      BY <1>3, <1>4, <1>6 DEF Sound, Recorded, Removed
    <2>3. r.end[o].state = "CLOSED" <=> \A q \in Procs : o \notin G[q]
      BY <1>1, <1>3, <1>4 DEF Sound, Recorded, Removed, o
    <2>4. QED
      BY <1>1, <2>1, <2>2, <2>3 DEF Recorded
  <1>8. Gone(r.end, r.freed)
    BY <1>1, <1>3 DEF Sound, Gone, Removed, o
  <1>9. /\ Wakes(k, r)
        /\ \A q \in Procs : r.proc[q] # k.proc[q] => D[q] # {} /\ G[q] # {}
    <2>1. CASE ~last
      BY <1>3, <2>1 DEF Removed, Wakes
    <2>2. CASE last
      <3>1. k.proc \in [Procs -> ProcStates]
        BY <1>2 DEF PipeStates
      <3>2. \A q \in Procs :
               r.proc[q] = IF q \notin Referrers(k.end[o]) THEN k.proc[q]
                           ELSE IF q = k.runner THEN "marked"
                           ELSE IF k.proc[q] = "blocked" THEN "woken" ELSE k.proc[q]
        BY <1>3, <2>2, <3>1, WakeType DEF Removed, o
      <3>3. \A q \in Referrers(k.end[o]) : o \in D[q] /\ o \in G[q]
        <4>1. Referrers(k.end[o]) = {q \in Procs : o \in D[q]}
          BY <1>1 DEF Sound, Recorded
        <4>2. \A q \in Procs : o \in D[q] => o \in G[q]
          BY <1>1, <1>4
        <4>3. QED
          BY <4>1, <4>2
      <3>4. Wakes(k, r)
        <4> SUFFICES ASSUME NEW q \in Procs
                     PROVE  \/ r.proc[q] \in {k.proc[q], "marked"}
                            \/ k.proc[q] = "blocked" /\ r.proc[q] = "woken"
          BY DEF Wakes
        <4>1. CASE q \notin Referrers(k.end[o])
          BY <3>2, <4>1
        <4>2. CASE q \in Referrers(k.end[o])
          BY <3>2, <4>2
        <4>3. QED
          BY <4>1, <4>2
      <3>5. ASSUME NEW q \in Procs, r.proc[q] # k.proc[q]
            PROVE  D[q] # {} /\ G[q] # {}
        BY <3>2, <3>3, <3>5
      <3>6. QED
        BY <3>4, <3>5
    <2>3. QED
      BY <2>1, <2>2
  <1>10. Users(r.proc, G, X)
    <2>1. \A q \in Procs : r.proc[q] \in {"unborn", "dead"} => G[q] = {}
      <3>1. \A q \in Procs : r.proc[q] \in {"unborn", "dead"} => r.proc[q] = k.proc[q]
        BY <1>9 DEF Wakes
      <3>2. \A q \in Procs : D[q] = {} => G[q] = {}
        BY <1>2, <1>4
      <3>3. QED
        BY <3>1, <3>2 DEF Sound, Users
    <2>2. \A q \in Procs \ X : r.proc[q] \in {"blocked", "woken"} => "r" \in G[q]
      BY <1>1, <1>4, <1>9 DEF Wakes, Sound, Users
    <2>3. QED
      BY <2>1, <2>2 DEF Users
  <1>11. CASE last /\ which = "w"
    <2> DEFINE b == k.end["r"]
               c == r.end["r"]
    <2>1. b \in Buffers /\ c = copyToBuffer(b, <<EOF>>) /\ c \in Buffers
      BY <1>1, <1>2, <1>3, <1>5, <1>11 DEF Removed, o
    <2>2. /\ k.end["w"].state # "CLOSED" /\ r.end["w"].state = "CLOSED"
          /\ r.end["w"].data = k.end["w"].data /\ r.end["w"].cursor = k.end["w"].cursor
          /\ r.end["w"].overrun = k.end["w"].overrun
      BY <1>1, <1>3, <1>6, <1>11 DEF Removed, Sound, Recorded
    <2>3. e = 0 /\ \A i \in 1..Dim(b) : b.data[i] \in 0..MaxBytes /\ b.data[i] # EOF
      BY <2>2 DEF Sound, Contents
    <2> HIDE DEF b, c
    <2>4. /\ c.cursor = b.cursor
          /\ Dim(b) < BuffSize - 1 =>
                /\ Dim(c) = Dim(b) + 1
                /\ \A i \in 1..Dim(b) : c.data[i] = b.data[i]
                /\ c.data[Dim(b) + 1] = EOF
                /\ c.overrun = (b.overrun \/ b.cursor + Dim(b) + 1 > BuffSize)
          /\ ~(Dim(b) < BuffSize - 1) => c = b
      BY <2>1, CopyEOF
    <2>5. b.data \in Seq(Nat) /\ c.data \in Seq(Nat) /\ Dim(b) = Len(b.data) /\ Dim(b) \in Nat
          /\ Dim(c) = Len(c.data) /\ b.cursor \in Nat /\ BuffSize \in Nat /\ MaxBytes \in Nat
      BY <2>1, SizesAssumption, OpenerAssumption DEF Buffers, Dim
    <2>6. Bytes(c.data) = Bytes(b.data)
      BY <2>3, <2>4, <2>5, BytesOfAppended
    <2>7. \A i \in 1..Dim(c) : c.data[i] \in 0..MaxBytes /\ (c.data[i] = EOF => i = Dim(c))
      <3>1. CASE ~(Dim(b) < BuffSize - 1)
        BY <2>3, <2>4, <3>1
      <3>2. CASE Dim(b) < BuffSize - 1
        <4>1. EOF \in 0..MaxBytes
          BY <2>5 DEF EOF
        <4>2. \A i \in 1..Dim(c) : i \in 1..Dim(b) \/ i = Dim(b) + 1
          BY <2>4, <2>5, <3>2
        <4>3. QED
          BY <2>3, <2>4, <3>2, <4>1, <4>2
      <3>3. QED
        BY <3>1, <3>2
    <2>8. Contents(r.end, e)
      BY <2>2, <2>3, <2>7 DEF Sound, Contents, c
    <2>9. ASSUME NeverFull
          PROVE  Plenty(r.end, e, w) /\ Awake(r.end, r.proc, e, X)
      <3>1. Plenty(k.end, e, w) /\ Awake(k.end, k.proc, e, X)
        BY <2>9 DEF Sound
      <3>2. b.cursor + Dim(b) <= w /\ ~b.overrun
        BY <2>2, <2>5, <3>1, <1>2 DEF Plenty, b
      <3>3. Dim(b) < BuffSize - 1 /\ b.cursor + Dim(b) + 1 <= BuffSize
        BY <1>2, <2>5, <2>9, <3>2 DEF NeverFull
      <3>4. Dim(c) > 0 /\ c.data[Dim(c)] = EOF /\ ~c.overrun /\ c.cursor + Dim(c) <= w + 1
        <4>1. Dim(c) = Dim(b) + 1 /\ c.cursor = b.cursor /\ c.data[Dim(b) + 1] = EOF
          BY <2>4, <3>3
        <4>2. ~(b.cursor + Dim(b) + 1 > BuffSize)
          BY <2>5, <3>3
        <4>3. ~c.overrun
          BY <2>4, <3>2, <3>3, <4>2
        <4>4. Dim(c) > 0 /\ c.cursor + Dim(c) <= w + 1
          BY <1>2, <2>5, <3>2, <4>1
        <4>5. QED
          BY <4>1, <4>3, <4>4
      <3>5. Plenty(r.end, e, w)
        BY <2>2, <3>1, <3>4 DEF Plenty, c
      <3>6. \A q \in Procs \ X : r.proc[q] # "blocked"
        <4> SUFFICES ASSUME NEW q \in Procs \ X, r.proc[q] = "blocked" PROVE FALSE
          OBVIOUS
        <4>1. k.proc \in [Procs -> ProcStates]
          BY <1>2 DEF PipeStates
        <4>2. r.proc = wake(b, k.proc, k.runner)
          BY <1>1, <1>3, <1>11 DEF Removed, o, b
        <4>3. k.proc[q] = "blocked" /\ q \notin Referrers(b)
          <5>1. PICK ps, ws : ps = k.proc /\ ws = r.proc
            OBVIOUS
          <5>2. ws[q] = IF q \notin Referrers(b) THEN ps[q]
                        ELSE IF q = k.runner THEN "marked"
                        ELSE IF ps[q] = "blocked" THEN "woken" ELSE ps[q]
            BY <4>1, <4>2, <5>1, WakeType
          <5>3. QED
            BY <5>1, <5>2
        <4>4. "r" \in D[q]
          BY <4>3 DEF Sound, Users
        <4>5. q \in Referrers(b)
          BY <1>1, <4>4 DEF Sound, Recorded, b
        <4>6. QED
          BY <4>3, <4>5
      <3>7. QED
        BY <3>5, <3>6 DEF Awake
    <2>10. Closes(k, r)
      BY <2>2, <2>6 DEF Closes, b, c
    <2>11. QED
      BY <1>2, <1>4, <1>5, <1>7, <1>8, <1>9, <1>10, <2>8, <2>9, <2>10 DEF Sound, r, G
  <1>12. CASE ~(last /\ which = "w")
    <2>1. /\ r.end["w"].state = k.end["w"].state \/ which = "w"
          /\ r.end["w"].state = k.end["w"].state
      BY <1>1, <1>3, <1>12 DEF Removed, o
    <2>2. /\ r.end["w"].data = k.end["w"].data /\ r.end["w"].cursor = k.end["w"].cursor
          /\ r.end["w"].overrun = k.end["w"].overrun
          /\ r.end["r"].data = k.end["r"].data /\ r.end["r"].cursor = k.end["r"].cursor
          /\ r.end["r"].overrun = k.end["r"].overrun
      BY <1>1, <1>3, <1>12 DEF Removed, o
    <2>3. Contents(r.end, e) /\ (NeverFull => Plenty(r.end, e, w))
      BY <2>1, <2>2 DEF Sound, Contents, Plenty, Dim
    <2>4. NeverFull => Awake(r.end, r.proc, e, X)
      BY <1>9, <2>2 DEF Wakes, Sound, Awake
    <2>5. Closes(k, r)
      BY <2>1, <2>2 DEF Closes
    <2>6. QED
      BY <1>2, <1>4, <1>5, <1>7, <1>8, <1>9, <1>10, <2>3, <2>4, <2>5 DEF Sound, r, G
  <1>13. QED
    BY <1>11, <1>12

LEMMA GiveUpSound ==
    ASSUME NEW k, NEW D, NEW X, NEW e, NEW w, Sound(k, D, X, e, w),
           NEW p \in Procs, p \in X, NEW S \in SUBSET Ends
    PROVE  LET r == GiveUp(k, p, S)
           IN  /\ Sound(r, [D EXCEPT ![p] = @ \ S], X, e, w)
               /\ Closes(k, r) /\ Wakes(k, r)
  <1> DEFINE k1 == IF "r" \in S THEN removeReferences(k, p, "r") ELSE k
             D1 == IF "r" \in S THEN [D EXCEPT ![p] = @ \ {"r"}] ELSE D
             r == IF "w" \in S THEN removeReferences(k1, p, "w") ELSE k1
             D2 == IF "w" \in S THEN [D1 EXCEPT ![p] = @ \ {"w"}] ELSE D1
  <1>1. {"r", "w"} \subseteq Ends /\ Ends = {"r", "w"}
    BY OtherEnd
  <1>2. GiveUp(k, p, S) = r
    BY DEF GiveUp
  <1>3. Closes(k, k) /\ Wakes(k, k)
    BY DEF Closes, Wakes
  <1>4. Sound(k1, D1, X, e, w) /\ Closes(k, k1) /\ Wakes(k, k1)
    <2>1. CASE "r" \in S
      BY <1>1, <2>1, RemoveSound
    <2>2. CASE "r" \notin S
      BY <1>3, <2>2
    <2>3. QED
      BY <2>1, <2>2
  <1>5. D \in [Procs -> SUBSET Ends]
    BY DEF Sound
  <1>6. D2 = [D EXCEPT ![p] = @ \ S]
    <2>1. \A q \in Procs : D2[q] = IF q = p THEN D[q] \ S ELSE D[q]
      BY <1>1, <1>5
    <2>2. D2 \in [Procs -> SUBSET Ends]
      BY <1>1, <1>5
    <2> HIDE DEF D2
    <2>3. QED
      BY <1>5, <2>1, <2>2
  <1> HIDE DEF k1, D1
  <1>7. Closes(k1, k1) /\ Wakes(k1, k1)
    BY DEF Closes, Wakes
  <1>8. Sound(r, D2, X, e, w) /\ Closes(k1, r) /\ Wakes(k1, r)
    <2>1. CASE "w" \in S
      BY <1>1, <1>4, <2>1, RemoveSound
    <2>2. CASE "w" \notin S
      BY <1>4, <1>7, <2>2
    <2>3. QED
      BY <2>1, <2>2
  <1> HIDE DEF r, D2
  <1>9. Closes(k, r)
    BY <1>4, <1>8 DEF Closes
  <1>10. Wakes(k, r)
    BY <1>4, <1>8 DEF Wakes
  <1>11. QED
    BY <1>2, <1>6, <1>8, <1>9, <1>10

-----------------------------------------------------------------------------
(* The steps.  Each keeps the invariant, and is a step of the byte stream.   *)

PInv == Sound(PipeBy(Null), pds, {}, eofs, written) /\ received \in Seq(1..MaxBytes)

Streams == NeverFull => [Stream!Next]_(Stream!vars)

LEMMA PipeByFields ==
    ASSUME NEW q
    PROVE  /\ PipeBy(q).end = end /\ PipeBy(q).proc = proc
           /\ PipeBy(q).freed = freed /\ PipeBy(q).runner = q
  BY DEF PipeBy

\* Who runs the handler, and who is exempt from waiting, can be chosen.
LEMMA SoundBy ==
    ASSUME NEW q \in Procs \cup {Null}, NEW X
    PROVE  PInv => Sound(PipeBy(q), pds, X, eofs, written)
  <1> SUFFICES ASSUME PInv PROVE Sound(PipeBy(q), pds, X, eofs, written)
    OBVIOUS
  <1>1. PipeBy(q) \in PipeStates
    BY DEF PInv, Sound, PipeBy, PipeStates
  <1>2. QED
    BY <1>1, PipeByFields DEF PInv, Sound, Users, Awake

LEMMA PInvFacts ==
    ASSUME PInv
    PROVE  /\ end \in [Ends -> Buffers] /\ end["r"] \in Buffers /\ end["w"] \in Buffers
           /\ proc \in [Procs -> ProcStates] /\ freed \in BOOLEAN
           /\ pds \in [Procs -> SUBSET Ends] /\ eofs \in Nat /\ written \in 0..MaxBytes
           /\ received \in Seq(1..MaxBytes)
           /\ Recorded(end, pds) /\ Gone(end, freed) /\ Users(proc, pds, {})
           /\ Contents(end, eofs)
           /\ NeverFull => Plenty(end, eofs, written) /\ Awake(end, proc, eofs, {})
  <1>1. PipeBy(Null) \in PipeStates
    BY DEF PInv, Sound
  <1>2. end \in [Ends -> Buffers] /\ proc \in [Procs -> ProcStates] /\ freed \in BOOLEAN
    BY <1>1, PipeByFields DEF PipeStates
  <1>3. QED
    BY <1>2, OtherEnd, PipeByFields DEF PInv, Sound

\* The invariant, field by field.
Fields ==
    /\ end \in [Ends -> Buffers] /\ proc \in [Procs -> ProcStates] /\ freed \in BOOLEAN
    /\ pds \in [Procs -> SUBSET Ends] /\ eofs \in Nat /\ written \in 0..MaxBytes
    /\ received \in Seq(1..MaxBytes)
    /\ Recorded(end, pds) /\ Gone(end, freed) /\ Users(proc, pds, {})
    /\ Contents(end, eofs)
    /\ NeverFull => Plenty(end, eofs, written) /\ Awake(end, proc, eofs, {})

LEMMA FieldByField == PInv <=> Fields
  <1>1. PInv => Fields
    BY PInvFacts DEF Fields
  <1>2. Fields => PInv
    <2>1. Fields => PipeBy(Null) \in PipeStates
      BY DEF Fields, PipeBy, PipeStates
    <2>2. QED
      BY <2>1, PipeByFields DEF Fields, PInv, Sound
  <1>3. QED
    BY <1>1, <1>2

LEMMA NextFields == PInv' <=> Fields'
  BY FieldByField, PTL

LEMMA SameStream ==
    ASSUME UNCHANGED <<end, written, received, eofs>>
    PROVE  Streams
  BY DEF Streams, Stream!vars, Bytes

LEMMA TwoEnds ==
    ASSUME NEW a \in Buffers, NEW b \in Buffers
    PROVE  LET f == [r |-> a, w |-> b]
           IN  f \in [Ends -> Buffers] /\ f["r"] = a /\ f["w"] = b
  BY DEF Ends

LEMMA EmptyBuffer ==
    ASSUME EnoughPlaces, NEW s \in BufferStates, NEW p \in Procs
    PROVE  LET b == addReference(createEmptyBuffer(s), p)
           IN  /\ b \in Buffers /\ OneEach(b) /\ Referrers(b) = {p}
               /\ b.data = <<>> /\ b.cursor = 0 /\ b.overrun = FALSE /\ b.state = s
  <1> DEFINE n == createEmptyBuffer(s)
             b == addReference(n, p)
  <1>1. n \in Buffers
    BY DEF createEmptyBuffer, Buffers
  <1>2. OneEach(n) /\ Referrers(n) = {}
    BY DEF createEmptyBuffer, OneEach, Referrers
  <1>3. n.data = <<>> /\ n.cursor = 0 /\ n.overrun = FALSE /\ n.state = s
    BY DEF createEmptyBuffer
  <1> HIDE DEF n
  <1>4. /\ SameContents(n, b) /\ OneEach(b)
        /\ Referrers(b) = Referrers(n) \cup {p}
    BY <1>1, <1>2, AddReference
  <1> HIDE DEF b
  <1>5. QED
    BY <1>2, <1>3, <1>4 DEF SameContents, b, n

LEMMA InitInv ==
    ASSUME EnoughPlaces, Init
    PROVE  PInv
  <1>1. /\ end["r"] \in Buffers /\ OneEach(end["r"]) /\ Referrers(end["r"]) = {Opener}
        /\ end["r"].data = <<>> /\ end["r"].cursor = 0 /\ end["r"].overrun = FALSE
        /\ end["r"].state = "READ"
    BY EmptyBuffer, OpenerAssumption DEF Init, BufferStates
  <1>2. /\ end["w"] \in Buffers /\ OneEach(end["w"]) /\ Referrers(end["w"]) = {Opener}
        /\ end["w"].data = <<>> /\ end["w"].cursor = 0 /\ end["w"].overrun = FALSE
        /\ end["w"].state = "WRITE"
    BY EmptyBuffer, OpenerAssumption DEF Init, BufferStates
  <1>3. end \in [Ends -> Buffers]
    <2>1. end = [r |-> end["r"], w |-> end["w"]]
      BY DEF Init
    <2>2. QED
      BY <1>1, <1>2, <2>1, TwoEnds
  <1>4. /\ pds \in [Procs -> SUBSET Ends] /\ proc \in [Procs -> ProcStates]
        /\ pds[Opener] = Ends /\ proc[Opener] = "user" /\ Opener \in Procs
        /\ \A p \in Procs : p # Opener => pds[p] = {} /\ proc[p] = "unborn"
    BY OpenerAssumption DEF Init, ProcStates
  <1>5. Recorded(end, pds)
    <2>1. \A v \in Ends : {p \in Procs : v \in pds[p]} = {Opener}
      BY <1>4
    <2>2. QED
      BY <1>1, <1>2, <1>4, <2>1 DEF Recorded, Ends
  <1>6. Gone(end, freed) /\ freed \in BOOLEAN
    BY <1>1, <1>2 DEF Gone, Init, Ends
  <1>7. Users(proc, pds, {})
    BY <1>4 DEF Users
  <1>8. written = 0 /\ written \in 0..MaxBytes /\ eofs = 0 /\ received \in Seq(1..MaxBytes)
    BY OpenerAssumption DEF Init
  <1>9. Contents(end, eofs)
    BY <1>1, <1>2, <1>8 DEF Contents, Dim
  <1>10. Plenty(end, eofs, written) /\ Awake(end, proc, eofs, {})
    BY <1>1, <1>2, <1>4, <1>8 DEF Plenty, Awake, Dim
  <1>11. QED
    BY <1>3, <1>4, <1>5, <1>6, <1>7, <1>8, <1>9, <1>10, FieldByField DEF Fields

\* Steps that only move processes.
LEMMA OnlyProc ==
    ASSUME PInv, UNCHANGED <<end, freed, pds, written, received, eofs>>,
           NEW p \in Procs, NEW st \in ProcStates, proc' = [proc EXCEPT ![p] = st],
           st \in {"unborn", "dead"} => pds[p] = {},
           st \in {"blocked", "woken"} => "r" \in pds[p],
           NeverFull /\ st = "blocked" /\ eofs = 0 => end["r"].data = <<>>
    PROVE  PInv' /\ Streams
  <1>1. Fields
    BY FieldByField
  <1>2. /\ proc' \in [Procs -> ProcStates]
        /\ \A q \in Procs : proc'[q] = IF q = p THEN st ELSE proc[q]
    BY <1>1 DEF Fields
  <1>3. Users(proc', pds', {})
    BY <1>1, <1>2 DEF Fields, Users
  <1>4. NeverFull => Awake(end', proc', eofs', {})
    BY <1>1, <1>2 DEF Fields, Awake
  <1>5. Fields'
    BY <1>1, <1>2, <1>3, <1>4 DEF Fields
  <1>6. QED
    BY <1>5, NextFields, SameStream

LEMMA PreemptSound ==
    ASSUME PInv, NEW p \in Procs, Preempt(p)
    PROVE  PInv' /\ Streams
  <1>1. "lost" \in ProcStates
    BY DEF ProcStates
  <1>2. QED
    BY <1>1, OnlyProc DEF Preempt

LEMMA YieldSound ==
    ASSUME PInv, NEW p \in Procs, arqSysYield(p)
    PROVE  PInv' /\ Streams
  <1>1. "user" \in ProcStates
    BY DEF ProcStates
  <1>2. QED
    BY <1>1, OnlyProc DEF arqSysYield

LEMMA SetReadySound ==
    ASSUME PInv, NEW p \in Procs, SetReady(p)
    PROVE  PInv' /\ Streams
  <1> DEFINE st == IF proc[p] = "blocked" THEN "woken" ELSE "marked"
  <1>1. st \in ProcStates /\ st # "unborn" /\ st # "dead" /\ st # "blocked"
    BY DEF ProcStates
  <1>2. proc[p] = "blocked" => "r" \in pds[p]
    BY PInvFacts DEF Users
  <1>3. proc' = [proc EXCEPT ![p] = st]
    BY DEF SetReady
  <1>4. st = "woken" => proc[p] = "blocked"
    OBVIOUS
  <1>5. UNCHANGED <<end, freed, pds, written, received, eofs>>
    BY DEF SetReady
  <1> HIDE DEF st
  <1>6. QED
    BY <1>1, <1>2, <1>3, <1>4, <1>5, OnlyProc

LEMMA ForkSound ==
    ASSUME EnoughPlaces, PInv, NEW p \in Procs, NEW child \in Procs, sysFork(p, child)
    PROVE  PInv' /\ Streams
  <1>1. Fields
    BY FieldByField
  <1>2. /\ pds[child] = {} /\ p # child /\ Runs(p) /\ pds[p] \in SUBSET Ends
        /\ UNCHANGED <<freed, written, received, eofs>>
    BY <1>1 DEF Fields, Users, sysFork, Runs
  <1>3. ASSUME NEW v \in Ends
        PROVE  /\ v \in pds[p] =>
                     /\ SameContents(end[v], end'[v]) /\ OneEach(end'[v])
                     /\ Referrers(end'[v]) = Referrers(end[v]) \cup {child}
               /\ v \notin pds[p] => end'[v] = end[v]
    <2>1. end[v] \in Buffers /\ OneEach(end[v]) /\ child \in Procs \ Referrers(end[v])
      BY <1>1, <1>2 DEF Fields, Recorded
    <2>2. end'[v] = IF v \in pds[p] THEN addReference(end[v], child) ELSE end[v]
      BY DEF sysFork
    <2>3. QED
      BY <2>1, <2>2, AddReference
  <1>4. \A v \in Ends : SameContents(end[v], end'[v]) /\ OneEach(end'[v])
    <2>1. \A v \in Ends : SameContents(end[v], end[v]) /\ OneEach(end[v])
      BY <1>1 DEF Fields, Recorded, SameContents
    <2>2. QED
      BY <1>3, <2>1
  <1>5. end' \in [Ends -> Buffers]
    <2>1. \A v \in Ends : end'[v] \in Buffers
      BY <1>4 DEF SameContents
    <2>2. end' = [v \in Ends |-> end'[v]]
      BY DEF sysFork
    <2>3. QED
      BY <2>1, <2>2
  <1>6. /\ pds' \in [Procs -> SUBSET Ends] /\ proc' \in [Procs -> ProcStates]
        /\ \A q \in Procs : /\ pds'[q] = IF q = child THEN pds[p] ELSE pds[q]
                            /\ proc'[q] = IF q = child THEN "user" ELSE proc[q]
    BY <1>1, <1>2 DEF Fields, sysFork, ProcStates
  <1>7. Recorded(end', pds')
    <2> SUFFICES ASSUME NEW v \in Ends
                 PROVE  /\ OneEach(end'[v])
                        /\ Referrers(end'[v]) = {q \in Procs : v \in pds'[q]}
                        /\ end'[v].state = "CLOSED" <=> \A q \in Procs : v \notin pds'[q]
      BY DEF Recorded
    <2>1. /\ Referrers(end[v]) = {q \in Procs : v \in pds[q]}
          /\ end[v].state = "CLOSED" <=> \A q \in Procs : v \notin pds[q]
      BY <1>1 DEF Fields, Recorded
    <2>2. end'[v].state = end[v].state
      BY <1>4 DEF SameContents
    <2>3. Referrers(end'[v]) = {q \in Procs : v \in pds'[q]}
      BY <1>2, <1>3, <1>6, <2>1
    <2>4. (\A q \in Procs : v \notin pds'[q]) <=> \A q \in Procs : v \notin pds[q]
      BY <1>2, <1>6
    <2>5. QED
      BY <1>4, <2>1, <2>2, <2>3, <2>4
  <1>8. Gone(end', freed') /\ Users(proc', pds', {})
    <2>1. Gone(end', freed')
      BY <1>1, <1>2, <1>4 DEF Fields, Gone, SameContents
    <2>2. \A q \in Procs : q # child => proc'[q] = proc[q] /\ pds'[q] = pds[q]
      BY <1>6
    <2>3. proc'[child] = "user"
      BY <1>6
    <2>4. Users(proc, pds, {})
      BY <1>1 DEF Fields
    <2>5. QED
      BY <2>1, <2>2, <2>3, <2>4 DEF Users
  <1>9. \A v \in Ends : /\ end'[v].data = end[v].data /\ end'[v].cursor = end[v].cursor
                      /\ end'[v].overrun = end[v].overrun /\ end'[v].state = end[v].state
    BY <1>4 DEF SameContents
  <1>10. Contents(end', eofs')
    BY <1>1, <1>2, <1>9, OtherEnd DEF Fields, Contents, Dim
  <1>11. NeverFull => Plenty(end', eofs', written')
    BY <1>1, <1>2, <1>9, OtherEnd DEF Fields, Plenty, Dim
  <1>12. NeverFull => Awake(end', proc', eofs', {})
    <2>1. \A q \in Procs : proc'[q] = "blocked" => proc[q] = "blocked"
      BY <1>6
    <2>2. NeverFull => Awake(end, proc, eofs, {})
      BY <1>1 DEF Fields
    <2>3. end'["r"].data = end["r"].data /\ eofs' = eofs
      BY <1>2, <1>9, OtherEnd
    <2>4. QED
      BY <2>1, <2>2, <2>3 DEF Awake
  <1>13. Fields'
    BY <1>1, <1>2, <1>5, <1>6, <1>7, <1>8, <1>10, <1>11, <1>12 DEF Fields
  <1>14. Streams
    BY <1>2, <1>9, OtherEnd DEF Streams, Stream!vars, Bytes
  <1>15. QED
    BY <1>13, <1>14, NextFields

\* What giving up ends does to the variables, when the process that does it goes
\* on, or dies and gives up all it has.
LEMMA GivenUp ==
    ASSUME PInv, NEW runner \in Procs \cup {Null}, NEW p \in Procs, NEW S \in SUBSET Ends,
           LET r == GiveUp(PipeBy(runner), p, S)
           IN  /\ end' = r.end /\ freed' = r.freed
               /\ \A q \in Procs \ {p} : proc'[q] = r.proc[q],
           pds' = [pds EXCEPT ![p] = @ \ S],
           proc' \in [Procs -> ProcStates],
           proc'[p] \in {"user", "marked"} \/ (proc'[p] = "dead" /\ pds[p] \subseteq S),
           UNCHANGED <<written, received, eofs>>
    PROVE  PInv' /\ Streams
  <1> DEFINE k == PipeBy(runner)
             r == GiveUp(k, p, S)
             D == [pds EXCEPT ![p] = @ \ S]
  <1>1. Sound(k, pds, {p}, eofs, written)
    BY SoundBy
  <1>2. Sound(r, D, {p}, eofs, written) /\ Closes(k, r)
    BY <1>1, GiveUpSound
  <1>3. k.end = end
    BY PipeByFields
  <1>4. /\ end' = r.end /\ freed' = r.freed /\ pds' = D
        /\ \A q \in Procs \ {p} : proc'[q] = r.proc[q]
        /\ eofs' = eofs /\ written' = written /\ received' = received
    OBVIOUS
  <1>5. Fields
    BY FieldByField
  <1>6. pds' \in [Procs -> SUBSET Ends] /\ pds'[p] = pds[p] \ S
    BY <1>5 DEF Fields
  <1> HIDE DEF k, r, D
  <1>7. end' \in [Ends -> Buffers] /\ freed' \in BOOLEAN
    BY <1>2, <1>4 DEF Sound, PipeStates
  <1>8. /\ Recorded(end', pds') /\ Gone(end', freed') /\ Contents(end', eofs')
        /\ NeverFull => Plenty(end', eofs', written')
    BY <1>2, <1>4 DEF Sound
  <1>9. Users(proc', pds', {})
    <2>1. proc'[p] = "dead" => pds'[p] = {}
      BY <1>6
    <2>2. Users(r.proc, pds', {p})
      BY <1>2, <1>4 DEF Sound
    <2>3. QED
      BY <1>4, <2>1, <2>2 DEF Users
  <1>10. NeverFull => Awake(end', proc', eofs', {})
    <2>1. NeverFull => Awake(end', r.proc, eofs', {p})
      BY <1>2, <1>4 DEF Sound
    <2>2. QED
      BY <1>4, <2>1 DEF Awake
  <1>11. Fields'
    BY <1>4, <1>5, <1>6, <1>7, <1>8, <1>9, <1>10 DEF Fields
  <1>12. Streams
    <2>1. /\ Bytes(end'["r"].data) = Bytes(end["r"].data)
          /\ end["w"].state = "CLOSED" => end'["w"].state = "CLOSED"
      BY <1>2, <1>3, <1>4 DEF Closes
    <2>2. end["w"].state # "CLOSED" => eofs = 0
      BY <1>5 DEF Fields, Contents
    <2>3. CASE end'["w"].state = "CLOSED" <=> end["w"].state = "CLOSED"
      BY <1>4, <2>1, <2>3 DEF Streams, Stream!vars
    <2>4. CASE end["w"].state # "CLOSED" /\ end'["w"].state = "CLOSED"
      <3>1. Stream!Shut
        BY <1>4, <2>1, <2>2, <2>4 DEF Stream!Shut
      <3>2. QED
        BY <3>1 DEF Streams, Stream!Next
    <2>5. QED
      BY <2>1, <2>3, <2>4
  <1>13. QED
    BY <1>11, <1>12, NextFields

LEMMA ClosePdSound ==
    ASSUME PInv, NEW p \in Procs, NEW which \in Ends, arqSysClosePd(p, which)
    PROVE  PInv' /\ Streams
  <1> DEFINE k == PipeBy(p)
             r == GiveUp(k, p, {which})
  <1>1. /\ end' = r.end /\ proc' = r.proc /\ freed' = r.freed
        /\ pds' = [pds EXCEPT ![p] = @ \ {which}]
        /\ UNCHANGED <<written, received, eofs>>
        /\ proc[p] \in {"user", "marked"}
    BY DEF arqSysClosePd, Runs
  <1>2. Sound(k, pds, {p}, eofs, written)
    BY SoundBy
  <1>3. Sound(r, [pds EXCEPT ![p] = @ \ {which}], {p}, eofs, written) /\ Wakes(k, r)
    BY <1>2, GiveUpSound
  <1>4. k.proc = proc
    BY PipeByFields
  <1> HIDE DEF k
  <1>5. proc' \in [Procs -> ProcStates]
    <2>1. r \in PipeStates
      BY <1>3 DEF Sound
    <2> HIDE DEF r
    <2>2. QED
      BY <1>1, <2>1 DEF PipeStates
  <1>6. proc'[p] \in {"user", "marked"}
    BY <1>1, <1>3, <1>4 DEF Wakes
  <1>7. {which} \in SUBSET Ends /\ p \in Procs \cup {Null}
    OBVIOUS
  <1> HIDE DEF r
  <1>8. /\ end' = r.end /\ freed' = r.freed /\ pds' = [pds EXCEPT ![p] = @ \ {which}]
        /\ \A q \in Procs \ {p} : proc'[q] = r.proc[q]
        /\ UNCHANGED <<written, received, eofs>>
    BY <1>1
  <1>9. QED
    BY <1>5, <1>6, <1>7, <1>8, GivenUp DEF k, r

LEMMA DeleteSound ==
    ASSUME PInv, NEW p \in Procs, NEW runner \in Procs \cup {Null}, deleteProcess(p, runner)
    PROVE  PInv' /\ Streams
  <1> DEFINE k == PipeBy(runner)
             S == pds[p]
             r == GiveUp(k, p, S)
  <1>1. /\ end' = r.end /\ proc' = [r.proc EXCEPT ![p] = "dead"] /\ freed' = r.freed
        /\ pds' = [pds EXCEPT ![p] = {}]
        /\ UNCHANGED <<written, received, eofs>>
    BY DEF deleteProcess
  <1>2. S \in SUBSET Ends
    BY PInvFacts
  <1>3. Sound(k, pds, {p}, eofs, written)
    BY SoundBy
  <1>4. Sound(r, [pds EXCEPT ![p] = @ \ S], {p}, eofs, written)
    BY <1>2, <1>3, GiveUpSound
  <1>5. r.proc \in [Procs -> ProcStates]
    <2>1. r \in PipeStates
      BY <1>4 DEF Sound
    <2> HIDE DEF r
    <2>2. QED
      BY <2>1 DEF PipeStates
  <1>6. pds' = [pds EXCEPT ![p] = @ \ S]
    <2>1. pds[p] \ S = {}
      OBVIOUS
    <2>2. QED
      BY <1>1, <2>1
  <1> HIDE DEF r, k
  <1>7. /\ proc' \in [Procs -> ProcStates] /\ proc'[p] = "dead"
        /\ \A q \in Procs \ {p} : proc'[q] = r.proc[q]
    BY <1>1, <1>5 DEF ProcStates
  <1>8. /\ end' = r.end /\ freed' = r.freed /\ pds[p] \subseteq S
        /\ UNCHANGED <<written, received, eofs>>
    BY <1>1
  <1> HIDE DEF S
  <1>9. QED
    BY <1>2, <1>6, <1>7, <1>8, GivenUp DEF r, k

\* Nothing that waits is an end of file: all of it is bytes.
LEMMA AllBytes ==
    ASSUME NEW s \in Seq(Nat), \A i \in 1..Len(s) : s[i] # EOF
    PROVE  Bytes(s) = s
  <1>1. s # <<>> => Len(s) \in 1..Len(s)
    OBVIOUS
  <1>2. QED
    BY <1>1 DEF Bytes

LEMMA Slice ==
    ASSUME NEW s \in Seq(Nat), NEW a \in Nat, NEW b \in Nat, a <= b, b <= Len(s)
    PROVE  LET u == SubSeq(s, a + 1, b)
           IN  u \in Seq(Nat) /\ Len(u) = b - a /\ \A i \in 1..(b - a) : u[i] = s[a + i]
  OBVIOUS

\* A prefix without an end of file is a prefix of the bytes, and the rest of the
\* buffer has the rest of them.
LEMMA BytesOfRest ==
    ASSUME NEW s \in Seq(Nat), NEW n \in 1..Len(s), \A i \in 1..n : s[i] # EOF
    PROVE  /\ n \in 1..Len(Bytes(s))
           /\ SubSeq(Bytes(s), 1, n) = SubSeq(s, 1, n)
           /\ Bytes(SubSeq(s, n + 1, Len(s))) = SubSeq(Bytes(s), n + 1, Len(Bytes(s)))
  <1> DEFINE L == Len(s)
             t == SubSeq(s, n + 1, L)
             b == Bytes(s)
  <1>1. L \in Nat /\ n \in Nat /\ 1 <= n /\ n <= L /\ s # <<>>
    OBVIOUS
  <1>2. t \in Seq(Nat) /\ Len(t) = L - n /\ \A i \in 1..(L - n) : t[i] = s[n + i]
    BY <1>1, Slice
  <1> HIDE DEF t
  <1>3. t # <<>> => L - n \in 1..(L - n) /\ t[Len(t)] = s[L]
    <2>1. t # <<>> => L - n \in 1..(L - n) /\ n + (L - n) = L
      BY <1>1, <1>2
    <2> HIDE DEF L
    <2>2. QED
      BY <1>2, <2>1
  <1>4. CASE s[L] # EOF
    <2>1. b = s
      BY <1>1, <1>4 DEF Bytes
    <2>2. Bytes(t) = t
      BY <1>3, <1>4 DEF Bytes
    <2>3. QED
      BY <1>1, <2>1, <2>2 DEF t
  <1>5. CASE s[L] = EOF
    <2>1. n # L
      BY <1>1, <1>5
    <2>2. n <= L - 1 /\ L - 1 \in Nat /\ L - n - 1 \in Nat /\ L - n - 1 = (L - n) - 1
      BY <1>1, <2>1
    <2>3. b = SubSeq(s, 1, L - 1)
      BY <1>1, <1>5 DEF Bytes
    <2>4. b \in Seq(Nat) /\ Len(b) = L - 1 /\ \A i \in 1..(L - 1) : b[i] = s[i]
      <3> DEFINE u == SubSeq(s, 0 + 1, L - 1)
      <3>1. u \in Seq(Nat) /\ Len(u) = L - 1 - 0 /\ \A i \in 1..(L - 1 - 0) : u[i] = s[0 + i]
        BY <1>1, <2>2, Slice
      <3>2. b = u
        BY <2>3
      <3> HIDE DEF b, u
      <3>3. QED
        BY <1>1, <3>1, <3>2
    <2>5. t # <<>>
      BY <1>2, <2>2
    <2>6. Bytes(t) = SubSeq(t, 1, L - n - 1)
      BY <1>2, <1>3, <1>5, <2>5 DEF Bytes
    <2> HIDE DEF b, L
    <2>7. SubSeq(t, 1, L - n - 1) = SubSeq(b, n + 1, L - 1)
      <3> DEFINE u == SubSeq(t, 1, L - n - 1)
                 v == SubSeq(b, n + 1, L - 1)
      <3>1. u \in Seq(Nat) /\ Len(u) = L - n - 1 /\ \A i \in 1..(L - n - 1) : u[i] = t[0 + i]
        BY <1>1, <1>2, <2>2, Slice, 0 + 1 = 1
      <3>2. v \in Seq(Nat) /\ Len(v) = L - n - 1 /\ \A i \in 1..(L - n - 1) : v[i] = b[n + i]
        BY <1>1, <2>2, <2>4, Slice
      <3> HIDE DEF u, v
      <3>3. \A i \in 1..Len(u) : u[i] = v[i]
        <4> SUFFICES ASSUME NEW i \in 1..(L - n - 1) PROVE u[i] = v[i]
          BY <3>1
        <4>1. u[i] = t[0 + i] /\ v[i] = b[n + i]
          BY <3>1, <3>2
        <4>2. 0 + i = i /\ i \in 1..(L - n) /\ n + i \in 1..(L - 1)
          BY <1>1, <2>2
        <4>3. QED
          BY <1>2, <2>4, <4>1, <4>2
      <3>4. u = v
        BY <3>1, <3>2, <3>3, SeqEqual
      <3>5. QED
        BY <3>4 DEF u, v
    <2>8. SubSeq(b, 1, n) = SubSeq(s, 1, n)
      <3> DEFINE u == SubSeq(b, 1, n)
                 v == SubSeq(s, 1, n)
      <3>1. u \in Seq(Nat) /\ Len(u) = n /\ \A i \in 1..n : u[i] = b[0 + i]
        BY <1>1, <2>2, <2>4, Slice, 0 + 1 = 1, n - 0 = n
      <3>2. v \in Seq(Nat) /\ Len(v) = n /\ \A i \in 1..n : v[i] = s[0 + i]
        BY <1>1, <2>2, Slice, 0 + 1 = 1, n - 0 = n DEF L
      <3> HIDE DEF u, v
      <3>3. \A i \in 1..Len(u) : u[i] = v[i]
        <4> SUFFICES ASSUME NEW i \in 1..n PROVE u[i] = v[i]
          BY <1>1, <3>1
        <4>1. u[i] = b[0 + i] /\ v[i] = s[0 + i]
          BY <1>1, <3>1, <3>2
        <4>2. 0 + i = i /\ i \in 1..(L - 1)
          BY <1>1, <2>2
        <4>3. QED
          BY <2>4, <4>1, <4>2
      <3>4. u = v
        BY <3>1, <3>2, <3>3, SeqEqual
      <3>5. QED
        BY <3>4 DEF u, v
    <2>9. n \in 1..Len(b)
      BY <1>1, <2>2, <2>4
    <2>10. Bytes(t) = SubSeq(b, n + 1, Len(b))
      BY <2>4, <2>6, <2>7
    <2>11. QED
      BY <2>8, <2>9, <2>10 DEF t, b, L
  <1>6. QED
    BY <1>4, <1>5

\* What is left after n bytes.
LEMMA DropElements ==
    ASSUME NEW b \in Buffers, NEW n \in 1..Dim(b)
    PROVE  LET c == Drop(b, n)
           IN  /\ c \in Buffers /\ c.references = b.references /\ c.state = b.state
               /\ c.overrun = b.overrun /\ c.cursor + Dim(c) = b.cursor + Dim(b)
               /\ c.data = SubSeq(b.data, n + 1, Len(b.data))
               /\ Dim(c) \in Nat /\ Dim(b) \in Nat /\ n \in Nat /\ Dim(c) = Dim(b) - n
               /\ \A i \in 1..Dim(c) : /\ n + i \in 1..Dim(b) /\ c.data[i] = b.data[n + i]
                                       /\ n + i = Dim(b) => i = Dim(c)
               /\ Dim(c) = 0 => c.data = <<>>
  <1> DEFINE c == Drop(b, n)
  <1>1. b.data \in Seq(Nat) /\ Len(b.data) = Dim(b) /\ Len(b.data) \in Nat /\ n \in Nat
        /\ n <= Len(b.data) /\ b.cursor \in Nat /\ n \in 0..Dim(b)
    BY DEF Buffers, Dim
  <1>2. /\ SameReferences(b, c) /\ c.overrun = b.overrun /\ c.cursor = b.cursor + n
        /\ c.data = SubSeq(b.data, n + 1, Len(b.data)) /\ Dim(c) = Dim(b) - n
    BY <1>1, DropType
  <1> HIDE DEF c
  <1>3. \A i \in 1..(Len(b.data) - n) : c.data[i] = b.data[n + i]
    BY <1>1, <1>2, Slice
  <1>4. ASSUME NEW i \in 1..Dim(c)
        PROVE  /\ n + i \in 1..Dim(b) /\ c.data[i] = b.data[n + i]
               /\ n + i = Dim(b) => i = Dim(c)
    <2> DEFINE L == Len(b.data)
    <2>1. L \in Nat /\ n \in Nat /\ n <= L /\ Dim(c) = L - n /\ Dim(b) = L
      BY <1>1, <1>2
    <2> HIDE DEF L
    <2>2. i \in 1..(L - n)
      BY <2>1
    <2>3. n + i \in 1..L /\ (n + i = L => i = L - n)
      BY <2>1, <2>2
    <2>4. QED
      BY <1>3, <2>1, <2>2, <2>3 DEF L
  <1>5. Dim(c) = 0 => c.data = <<>>
    <2>1. c.data \in Seq(Nat)
      BY <1>2 DEF SameReferences, Buffers
    <2>2. QED
      BY <2>1 DEF Dim
  <1>6. Dim(c) \in Nat /\ c.cursor + Dim(c) = b.cursor + Dim(b)
    <2> DEFINE x == Dim(b)
               y == b.cursor
    <2>1. x \in Nat /\ y \in Nat /\ n \in Nat /\ n <= x
      BY <1>1
    <2>2. Dim(c) = x - n /\ c.cursor = y + n
      BY <1>2
    <2> HIDE DEF x, y
    <2>3. x - n \in Nat /\ (y + n) + (x - n) = y + x
      BY <2>1
    <2>4. QED
      BY <2>2, <2>3 DEF x, y
  <1>7. QED
    BY <1>1, <1>2, <1>4, <1>5, <1>6 DEF SameReferences, c

\* What is taken out of a read end leaves it sound.
LEMMA TakeSound ==
    ASSUME PInv, NEW n \in 1..Dim(end["r"]), NEW p \in Procs, NEW after \in {"user", "marked"},
           end' = [end EXCEPT !["r"] = Drop(@, n)],
           proc' = [proc EXCEPT ![p] = after],
           UNCHANGED <<freed, pds, written>>,
           received' \in Seq(1..MaxBytes),
           \/ end["r"].data = <<EOF>> /\ n = 1 /\ eofs' = eofs + 1
           \/ (\A i \in 1..n : end["r"].data[i] # EOF) /\ eofs' = eofs
    PROVE  PInv'
  <1> DEFINE b == end["r"]
             c == end'["r"]
  <1>1. Fields
    BY FieldByField
  <1>2. /\ end \in [Ends -> Buffers] /\ b \in Buffers /\ end["w"] \in Buffers
        /\ proc \in [Procs -> ProcStates] /\ eofs \in Nat /\ written \in 0..MaxBytes
    BY <1>1, OtherEnd DEF Fields
  <1>3. c = Drop(b, n) /\ end'["w"] = end["w"]
    BY <1>2, OtherEnd
  <1> HIDE DEF b
  <1>4. /\ b.data \in Seq(Nat) /\ Dim(b) = Len(b.data)
        /\ 1 <= n /\ n <= Dim(b) /\ n \in 1..Dim(b)
    BY <1>2 DEF Buffers, Dim, b
  <1> HIDE DEF c
  <1>5. /\ c \in Buffers /\ c.references = b.references /\ c.state = b.state
        /\ c.overrun = b.overrun /\ c.cursor + Dim(c) = b.cursor + Dim(b)
        /\ Dim(c) \in Nat /\ Dim(b) \in Nat /\ n \in Nat /\ Dim(c) = Dim(b) - n
        /\ Dim(c) = 0 => c.data = <<>>
        /\ \A i \in 1..Dim(c) : /\ n + i \in 1..Dim(b) /\ c.data[i] = b.data[n + i]
                                /\ n + i = Dim(b) => i = Dim(c)
    <2>1. b \in Buffers /\ n \in 1..Dim(b) /\ c = Drop(b, n)
      BY <1>2, <1>3, <1>4
    <2>2. QED
      BY <2>1, DropElements
  <1>6. end' \in [Ends -> Buffers]
    <2>1. Drop(b, n) \in Buffers
      BY <1>3, <1>5
    <2>2. QED
      BY <1>2, <2>1, OtherEnd DEF b
  <1>7. \A i \in 1..Dim(c) : /\ n + i \in 1..Dim(b) /\ c.data[i] = b.data[n + i]
                             /\ n + i = Dim(b) => i = Dim(c)
    BY <1>5
  <1>8. /\ proc' \in [Procs -> ProcStates]
        /\ \A q \in Procs : proc'[q] = IF q = p THEN after ELSE proc[q]
    BY <1>2 DEF ProcStates
  <1>9. Recorded(end', pds') /\ Gone(end', freed')
    <2>1. Referrers(c) = Referrers(b) /\ (OneEach(b) => OneEach(c))
      BY <1>5, SameReferrers
    <2>2. \A v \in Ends : /\ Referrers(end'[v]) = Referrers(end[v])
                          /\ (OneEach(end[v]) => OneEach(end'[v]))
                          /\ end'[v].state = end[v].state
      BY <1>3, <1>5, <2>1, OtherEnd DEF b, c
    <2>3. QED
      BY <1>1, <2>2 DEF Fields, Recorded, Gone
  <1>10. Users(proc', pds', {})
    BY <1>1, <1>8 DEF Fields, Users
  <1>11. Contents(end, eofs)
    BY <1>1 DEF Fields
  <1>12. eofs = 0
    <2>1. b.data # <<>>
      BY <1>4
    <2>2. QED
      BY <1>11, <2>1 DEF Contents, b
  <1>13. /\ \A i \in 1..Dim(c) : /\ c.data[i] \in 0..MaxBytes
                                 /\ c.data[i] = EOF => i = Dim(c) /\ end["w"].state = "CLOSED"
         /\ Dim(c) # 0 => eofs' = eofs
    <2>1. \A i \in 1..Dim(b) : /\ b.data[i] \in 0..MaxBytes
                               /\ b.data[i] = EOF => i = Dim(b) /\ end["w"].state = "CLOSED"
      BY <1>11 DEF Contents, b
    <2>2. b.data = <<EOF>> => Dim(b) = 1
      BY <1>4
    <2>3. Dim(c) # 0 => eofs' = eofs
      <3>1. b.data = <<EOF>> /\ n = 1 => Dim(c) = 0
        BY <1>5, <2>2
      <3>2. QED
        BY <3>1 DEF b
    <2>4. QED
      BY <1>7, <2>1, <2>3
  <1>14. Contents(end', eofs')
    <2>1. CASE eofs' = eofs
      BY <1>3, <1>11, <1>12, <1>13, <2>1 DEF Contents, c
    <2>2. CASE end["r"].data = <<EOF>> /\ n = 1 /\ eofs' = eofs + 1
      <3>1. Dim(b) = 1 /\ b.data[1] = EOF
        BY <1>4, <2>2 DEF b
      <3>2. end["w"].state = "CLOSED"
        BY <1>11, <3>1 DEF Contents, b
      <3>3. Dim(c) = 0 /\ c.data = <<>>
        BY <1>5, <2>2, <3>1
      <3>4. end'["w"].data = <<>>
        BY <1>3, <1>11 DEF Contents
      <3>5. QED
        BY <1>3, <1>12, <2>2, <3>2, <3>3, <3>4 DEF Contents, c
    <2>3. QED
      BY <2>1, <2>2
  <1>15. ASSUME NeverFull
         PROVE  Plenty(end', eofs', written') /\ Awake(end', proc', eofs', {})
    <2>1. Plenty(end, eofs, written) /\ Awake(end, proc, eofs, {})
      BY <1>1, <1>15 DEF Fields
    <2>2. c.cursor + Dim(c) = b.cursor + Dim(b)
      BY <1>5
    <2>3. end["w"].state = "CLOSED" /\ eofs' = 0 => Dim(c) > 0 /\ c.data[Dim(c)] = EOF
      <3> SUFFICES ASSUME end["w"].state = "CLOSED", eofs' = 0
                   PROVE  Dim(c) > 0 /\ c.data[Dim(c)] = EOF
        OBVIOUS
      <3>1. b.data[Dim(b)] = EOF
        BY <1>12, <2>1 DEF Plenty, b
      <3>2. \A i \in 1..n : b.data[i] # EOF
        BY <1>12 DEF b
      <3>3. n # Dim(b)
        BY <1>4, <3>1, <3>2
      <3>4. Dim(c) > 0 /\ Dim(c) \in 1..Dim(c) /\ n + Dim(c) = Dim(b)
        BY <1>4, <1>5, <3>3
      <3>5. QED
        BY <1>7, <3>1, <3>4
    <2>4. Plenty(end', eofs', written')
      BY <1>3, <1>5, <2>1, <2>2, <2>3 DEF Plenty, b, c
    <2>5. \A q \in Procs : proc'[q] # "blocked"
      <3>1. b.data # <<>>
        BY <1>4
      <3>2. \A q \in Procs : proc[q] # "blocked"
        BY <1>12, <2>1, <3>1 DEF Awake, b
      <3>3. QED
        BY <1>8, <3>2
    <2>6. Awake(end', proc', eofs', {})
      BY <2>5 DEF Awake
    <2>7. QED
      BY <2>4, <2>6
  <1>16. eofs' \in Nat
    BY <1>2
  <1>17. Fields'
    BY <1>1, <1>6, <1>8, <1>9, <1>10, <1>14, <1>15, <1>16 DEF Fields
  <1>18. QED
    BY <1>17, NextFields

LEMMA ReadSound ==
    ASSUME PInv, NEW p \in Procs, NEW count \in Nat \ {0}, NEW after \in {"user", "marked"},
           "r" \in pds[p], ReadLoop(p, count, after)
    PROVE  PInv' /\ Streams
  <1> DEFINE b == end["r"]
  <1>1. /\ b \in Buffers /\ end \in [Ends -> Buffers] /\ Contents(end, eofs)
        /\ received \in Seq(1..MaxBytes) /\ eofs \in Nat
    BY PInvFacts
  <1>2. b.data \in Seq(Nat) /\ Dim(b) = Len(b.data) /\ Dim(b) \in Nat
    BY <1>1 DEF Buffers, Dim
  <1>3. CASE Dim(b) = 0
    <2>1. b.data = <<>>
      <3>1. b.data \in Seq(Nat) /\ Len(b.data) = 0
        BY <1>2, <1>3
      <3>2. QED
        BY <3>1, EmptySeq
    <2>2. /\ proc' = [proc EXCEPT ![p] = "blocked"]
          /\ UNCHANGED <<end, freed, pds, written, received, eofs>>
      BY <1>3 DEF ReadLoop
    <2>3. "blocked" \in ProcStates
      BY DEF ProcStates
    <2>4. QED
      BY <2>1, <2>2, <2>3, OnlyProc
  <1>4. CASE Dim(b) > 0
    <2> DEFINE got == readBuffer(b, count)
    <2>1. /\ end' = [end EXCEPT !["r"] = got.rest]
          /\ received' = received \o got.bytes
          /\ eofs' = IF got.bytes = <<>> THEN eofs + 1 ELSE eofs
          /\ proc' = [proc EXCEPT ![p] = after]
          /\ UNCHANGED <<freed, pds, written>>
      BY <1>2, <1>4 DEF ReadLoop
    <2>2. \A i \in 1..Dim(b) : /\ b.data[i] \in 0..MaxBytes
                               /\ b.data[i] = EOF => i = Dim(b)
      BY <1>1 DEF Contents
    <2>3. PICK n \in 1..Dim(b) :
             /\ got.rest = Drop(b, n)
             /\ \/ b.data = <<EOF>> /\ n = 1 /\ got.bytes = <<>>
                \/ /\ \A i \in 1..n : b.data[i] # EOF
                   /\ got.bytes = SubSeq(b.data, 1, n)
      BY <1>1, <1>4, <2>2, ReadType
    <2> HIDE DEF got
    <2>4. end' = [end EXCEPT !["r"] = Drop(@, n)]
      BY <2>1, <2>3
    <2>5. end'["w"] = end["w"] /\ end'["r"] = Drop(b, n)
      BY <1>1, <2>4, OtherEnd
    <2>6. end'["r"].data = SubSeq(b.data, n + 1, Len(b.data))
      <3>1. b \in Buffers
        BY <1>1
      <3> HIDE DEF b
      <3>2. Drop(b, n).data = SubSeq(b.data, n + 1, Len(b.data))
        BY <3>1, DropElements
      <3>3. QED
        BY <2>5, <3>2
    <2>7. CASE b.data = <<EOF>> /\ n = 1 /\ got.bytes = <<>>
      <3>1. eofs' = eofs + 1 /\ received' = received
        BY <1>1, <2>1, <2>7
      <3>2. PInv'
        BY <1>1, <2>1, <2>4, <2>7, <3>1, TakeSound
      <3>3. end["w"].state = "CLOSED" /\ eofs = 0
        <4>1. Dim(b) = 1 /\ 1 \in 1..Dim(b) /\ b.data[1] = EOF
          BY <1>2, <2>7
        <4>2. QED
          BY <1>1, <4>1 DEF Contents
      <3>4. Bytes(b.data) = <<>> /\ Bytes(end'["r"].data) = <<>>
        <4>1. Len(b.data) = 1
          BY <1>2, <2>7
        <4>2. Bytes(b.data) = SubSeq(<<EOF>>, 1, 0)
          BY <2>7 DEF Bytes
        <4>3. end'["r"].data = SubSeq(<<EOF>>, 2, 1)
          BY <2>6, <2>7, <4>1
        <4>4. SubSeq(<<EOF>>, 1, 0) = <<>> /\ SubSeq(<<EOF>>, 2, 1) = <<>>
          BY SubSeqEmpty DEF EOF
        <4>5. QED
          BY <4>2, <4>3, <4>4 DEF Bytes
      <3>5. Stream!End
        BY <2>1, <2>5, <3>1, <3>3, <3>4 DEF Stream!End
      <3>6. QED
        BY <3>2, <3>5 DEF Streams, Stream!Next
    <2>8. CASE /\ \A i \in 1..n : b.data[i] # EOF
               /\ got.bytes = SubSeq(b.data, 1, n)
      <3> DEFINE s == b.data
      <3>1. n \in 1..Len(s) /\ n \in Nat /\ 1 <= n /\ n <= Len(s) /\ s \in Seq(Nat)
        BY <1>2
      <3>2. got.bytes \in Seq(1..MaxBytes) /\ Len(got.bytes) = n
        <4>1. \A i \in 1..n : s[i] \in 1..MaxBytes
          BY <1>2, <2>2, <2>8, OpenerAssumption DEF EOF
        <4>2. \A i \in 1..n : i \in 1..Len(s)
          BY <3>1
        <4> HIDE DEF s
        <4>3. SubSeq(s, 1, n) \in Seq(1..MaxBytes) /\ Len(SubSeq(s, 1, n)) = n
          <5>1. n \in Int /\ 1 \in Int /\ n - 1 + 1 = n
            BY <3>1
          <5>2. QED
            BY <3>1, <4>1, <5>1, SubSeqProperties
        <4>4. QED
          BY <2>8, <4>3 DEF s
      <3>3. received' \in Seq(1..MaxBytes)
        BY <1>1, <2>1, <3>2, ConcatProperties
      <3>4. eofs' = eofs
        BY <2>1, <3>1, <3>2
      <3>5. PInv'
        BY <1>1, <2>1, <2>4, <2>8, <3>3, <3>4, TakeSound
      <3>6. /\ n \in 1..Len(Bytes(s)) /\ SubSeq(Bytes(s), 1, n) = SubSeq(s, 1, n)
            /\ Bytes(SubSeq(s, n + 1, Len(s))) = SubSeq(Bytes(s), n + 1, Len(Bytes(s)))
        BY <2>8, <3>1, BytesOfRest
      <3>7. /\ Bytes(end'["r"].data) = SubSeq(Bytes(s), n + 1, Len(Bytes(s)))
            /\ received' = received \o SubSeq(Bytes(s), 1, n)
        BY <2>1, <2>6, <2>8, <3>6
      <3>8. Stream!Take
        BY <2>1, <2>5, <3>4, <3>6, <3>7 DEF Stream!Take
      <3>9. QED
        BY <3>5, <3>8 DEF Streams, Stream!Next
    <2>9. QED
      BY <2>3, <2>7, <2>8
  <1>5. QED
    BY <1>2, <1>3, <1>4

\* The bytes of a write, numbered after those before them.
LEMMA NewBytes ==
    ASSUME NEW w \in Nat, NEW count \in Nat \ {0}, w + count <= MaxBytes
    PROVE  LET s == [i \in 1..count |-> w + i]
           IN  /\ s \in Seq(Nat) /\ Len(s) = count
               /\ \A i \in 1..count : s[i] \in 1..MaxBytes
               /\ SubSeq(s, 1, count) = s
  <1> DEFINE s == [i \in 1..count |-> w + i]
  <1>1. \A i \in 1..count : w + i \in Nat /\ w + i \in 1..MaxBytes
    BY OpenerAssumption
  <1>2. s \in Seq(Nat) /\ Len(s) = count
    BY <1>1
  <1>3. \A i \in 1..count : s[i] \in 1..MaxBytes
    BY <1>1
  <1> HIDE DEF s
  <1>4. SubSeq(s, 1, count) = s
    BY <1>2, SubSeqFull
  <1>5. QED
    BY <1>2, <1>3, <1>4 DEF s

\* What the write end passes on, and what it keeps.
LEMMA ThroughWriteEnd ==
    ASSUME NEW b \in Buffers, b.data = <<>>, NEW s \in Seq(Nat)
    PROVE  LET c == copyToBuffer(b, s)
               n == Least(Len(s), BuffSize)
               d == copyFromBuffer(c)
           IN  /\ d \in Buffers /\ d.data = <<>> /\ d.references = b.references
               /\ d.state = b.state
               /\ n \in 0..Len(s)
               /\ 0 < BuffSize - 1 =>
                     /\ c.data = SubSeq(s, 1, n) /\ d.cursor = b.cursor + n
                     /\ d.overrun = (b.overrun \/ b.cursor + n > BuffSize)
               /\ ~(0 < BuffSize - 1) => c.data = <<>>
  <1> DEFINE c == copyToBuffer(b, s)
             n == Least(Len(s), BuffSize)
             d == copyFromBuffer(c)
  <1>1. Dim(b) = 0 /\ b.cursor \in Nat /\ BuffSize \in Nat
    BY SizesAssumption DEF Dim, Buffers
  <1>2. n \in 0..Len(s)
    BY <1>1 DEF Least
  <1>3. Least(Len(s), BuffSize - Dim(b)) = n /\ BuffSize - 0 = BuffSize
    BY <1>1
  <1> HIDE DEF n
  <1>4. /\ SameReferences(b, c) /\ c.cursor = b.cursor
        /\ 0 < BuffSize - 1 =>
              /\ c.data = b.data \o SubSeq(s, 1, n)
              /\ c.overrun = (b.overrun \/ b.cursor + 0 + n > BuffSize)
        /\ ~(0 < BuffSize - 1) => c = b
    BY <1>1, <1>3, CopyTo
  <1> HIDE DEF c
  <1>5. c \in Buffers /\ Dim(c) \in 0..Dim(c) /\ Dim(c) \in Nat
    BY <1>4 DEF SameReferences, Buffers, Dim
  <1>6. /\ SameReferences(c, d) /\ d.overrun = c.overrun /\ d.cursor = c.cursor + Dim(c)
        /\ Dim(d) = Dim(c) - Dim(c)
    BY <1>5, DropType DEF copyFromBuffer
  <1> HIDE DEF d
  <1>7. d.data = <<>>
    <2>1. d.data \in Seq(Nat) /\ Len(d.data) = 0
      BY <1>5, <1>6 DEF SameReferences, Buffers, Dim
    <2>2. QED
      BY <2>1, EmptySeq
  <1>8. SubSeq(s, 1, n) \in Seq(Nat) /\ Len(SubSeq(s, 1, n)) = n
    <2>1. n \in Nat /\ n <= Len(s)
      BY <1>2
    <2>2. QED
      BY <2>1, Slice, 0 + 1 = 1, n - 0 = n
  <1>9. 0 < BuffSize - 1 => c.data = SubSeq(s, 1, n) /\ Dim(c) = n
    <2>1. <<>> \o SubSeq(s, 1, n) = SubSeq(s, 1, n)
      BY <1>8, ConcatEmptySeq
    <2>2. QED
      BY <1>4, <1>8, <2>1 DEF Dim
  <1>10. b.cursor + 0 + n = b.cursor + n
    BY <1>1, <1>2
  <1>11. QED
    BY <1>2, <1>4, <1>6, <1>7, <1>9, <1>10 DEF SameReferences, c, d, n

LEMMA Retyped ==
    ASSUME NEW R, NEW s \in Seq(R), NEW S, \A i \in 1..Len(s) : s[i] \in S
    PROVE  s \in Seq(S)
  <1>1. Len(s) \in Nat /\ 1 \in Int
    OBVIOUS
  <1>2. SubSeq(s, 1, Len(s)) \in Seq(S)
    BY <1>1, SubSeqProperties
  <1>3. SubSeq(s, 1, Len(s)) = s
    BY SubSeqFull
  <1>4. QED
    BY <1>2, <1>3

\* A buffer of bytes that takes bytes is a buffer of bytes.
LEMMA CopyBytes ==
    ASSUME NEW b \in Buffers, NEW S \in SUBSET Nat, b.data \in Seq(S), NEW s \in Seq(S)
    PROVE  copyToBuffer(b, s).data \in Seq(S)
  <1> DEFINE r == copyToBuffer(b, s)
             n == Least(Len(s), BuffSize - Dim(b))
  <1>1. s \in Seq(Nat)
    <2>1. \A i \in 1..Len(s) : s[i] \in Nat
      BY ElementOfSeq
    <2>2. QED
      BY <2>1, Retyped
  <1>2. /\ Dim(b) < BuffSize - 1 => n \in 0..Len(s) /\ r.data = b.data \o SubSeq(s, 1, n)
        /\ ~(Dim(b) < BuffSize - 1) => r = b
    BY <1>1, CopyTo
  <1> HIDE DEF r, n
  <1>3. CASE ~(Dim(b) < BuffSize - 1)
    BY <1>2, <1>3 DEF r
  <1>4. CASE Dim(b) < BuffSize - 1
    <2>1. n \in Int /\ 1 \in Int /\ \A i \in 1..n : s[i] \in S
      BY <1>2, <1>4
    <2>2. SubSeq(s, 1, n) \in Seq(S)
      BY <2>1, SubSeqProperties
    <2>3. r.data \in Seq(S)
      BY <1>2, <1>4, <2>2, ConcatProperties
    <2>4. QED
      BY <2>3 DEF r
  <1>5. QED
    BY <1>3, <1>4

LEMMA WriteSound ==
    ASSUME PInv, NEW p \in Procs, NEW count \in {1, 2}, arqSysWrite(p, count)
    PROVE  PInv' /\ Streams
  <1> DEFINE a == end["w"]
             b == end["r"]
             s == [i \in 1..count |-> written + i]
             c == copyToBuffer(a, s)
             d == copyFromBuffer(c)
             r == copyToBuffer(b, c.data)
             n == Least(count, BuffSize)
             m == Least(Len(c.data), BuffSize - Dim(b))
  <1>1. /\ end' = [w |-> d, r |-> r]
        /\ proc' = wake(b, proc, p)
        /\ written' = written + count /\ written + count <= MaxBytes
        /\ UNCHANGED <<freed, pds, received, eofs>>
        /\ proc[p] \in {"user", "marked"} /\ "w" \in pds[p]
    BY DEF arqSysWrite, Runs
  <1>2. Fields
    BY FieldByField
  <1>3. /\ a \in Buffers /\ b \in Buffers /\ written \in Nat /\ count \in Nat \ {0}
        /\ count \in Nat /\ proc \in [Procs -> ProcStates] /\ BuffSize \in Nat
        /\ MaxBytes \in Nat
    BY <1>2, OtherEnd, OpenerAssumption, SizesAssumption DEF Fields
  <1>4. a.state # "CLOSED"
    BY <1>1, <1>2, OtherEnd DEF Fields, Recorded
  <1>5. /\ a.data = <<>> /\ eofs = 0
        /\ \A i \in 1..Dim(b) : b.data[i] \in 0..MaxBytes /\ b.data[i] # EOF
    BY <1>2, <1>4 DEF Fields, Contents
  <1>6. b.data \in Seq(1..MaxBytes) /\ b.data \in Seq(Nat)
    <2>1. b.data \in Seq(Nat) /\ Dim(b) = Len(b.data)
      BY <1>3 DEF Buffers, Dim
    <2>2. \A i \in 1..Len(b.data) : b.data[i] \in 1..MaxBytes
      BY <1>3, <1>5, <2>1 DEF EOF
    <2>3. QED
      BY <2>1, <2>2, Retyped
  <1>7. /\ s \in Seq(Nat) /\ Len(s) = count /\ SubSeq(s, 1, count) = s
        /\ s \in Seq(1..MaxBytes)
    <2>1. /\ s \in Seq(Nat) /\ Len(s) = count /\ SubSeq(s, 1, count) = s
          /\ \A i \in 1..count : s[i] \in 1..MaxBytes
      BY <1>1, <1>3, NewBytes
    <2> HIDE DEF s
    <2>2. QED
      BY <2>1, Retyped
  <1> HIDE DEF s
  <1>8. /\ d \in Buffers /\ d.data = <<>> /\ d.references = a.references /\ d.state = a.state
        /\ 0 < BuffSize - 1 =>
              /\ c.data = SubSeq(s, 1, n) /\ d.cursor = a.cursor + n
              /\ d.overrun = (a.overrun \/ a.cursor + n > BuffSize)
    BY <1>3, <1>5, <1>7, ThroughWriteEnd
  <1>9. c.data \in Seq(1..MaxBytes) /\ c.data \in Seq(Nat)
    <2>1. a.data \in Seq(1..MaxBytes)
      BY <1>5
    <2>2. 1..MaxBytes \in SUBSET Nat
      BY <1>3
    <2> HIDE DEF a
    <2>3. c.data \in Seq(1..MaxBytes)
      BY <1>3, <1>7, <2>1, <2>2, CopyBytes
    <2> HIDE DEF c
    <2>4. \A i \in 1..Len(c.data) : c.data[i] \in Nat
      BY <2>2, <2>3, ElementOfSeq
    <2>5. QED
      BY <2>3, <2>4, Retyped
  <1> HIDE DEF a, b, c, d
  <1>10. /\ SameReferences(b, r) /\ r.cursor = b.cursor
         /\ Dim(b) < BuffSize - 1 =>
               /\ r.data = b.data \o SubSeq(c.data, 1, m)
               /\ r.overrun = (b.overrun \/ b.cursor + Dim(b) + m > BuffSize)
    BY <1>3, <1>9, CopyTo
  <1>11. r.data \in Seq(1..MaxBytes)
    <2>1. 1..MaxBytes \in SUBSET Nat
      BY <1>3
    <2>2. QED
      BY <1>3, <1>6, <1>9, <2>1, CopyBytes
  <1> HIDE DEF r, n, m
  <1>12. end' \in [Ends -> Buffers] /\ end'["r"] = r /\ end'["w"] = d
    BY <1>1, <1>8, <1>10, TwoEnds DEF SameReferences
  <1>13. /\ proc' \in [Procs -> ProcStates]
         /\ \A q \in Procs :
               proc'[q] = IF q \notin Referrers(b) THEN proc[q]
                          ELSE IF q = p THEN "marked"
                          ELSE IF proc[q] = "blocked" THEN "woken" ELSE proc[q]
    BY <1>1, <1>3, WakeType
  <1>14. Recorded(end', pds') /\ Gone(end', freed')
    <2>1. \A v \in Ends : /\ end'[v].references = end[v].references
                          /\ end'[v].state = end[v].state
      BY <1>8, <1>10, <1>12, OtherEnd DEF SameReferences, a, b
    <2>2. \A v \in Ends : /\ Referrers(end'[v]) = Referrers(end[v])
                          /\ OneEach(end[v]) => OneEach(end'[v])
      BY <2>1, SameReferrers
    <2>3. QED
      BY <1>1, <1>2, <2>1, <2>2 DEF Fields, Recorded, Gone
  <1>15. Referrers(b) = {q \in Procs : "r" \in pds[q]}
    BY <1>2, OtherEnd DEF Fields, Recorded, b
  <1>16. Users(proc', pds', {})
    <2>1. Users(proc, pds, {})
      BY <1>2 DEF Fields
    <2>2. \A q \in Procs : \/ proc'[q] = proc[q]
                           \/ "r" \in pds[q] /\ proc'[q] \notin {"unborn", "dead"}
      <3> SUFFICES ASSUME NEW q \in Procs, proc'[q] # proc[q]
                   PROVE  "r" \in pds[q] /\ proc'[q] \notin {"unborn", "dead"}
        OBVIOUS
      <3>1. q \in Referrers(b) /\ proc'[q] \in {"marked", "woken"}
        BY <1>13
      <3>2. QED
        BY <1>15, <3>1
    <2>3. QED
      BY <1>1, <2>1, <2>2 DEF Users
  <1>17. Contents(end', eofs')
    <2>1. \A i \in 1..Len(r.data) : r.data[i] \in 1..MaxBytes
      BY <1>11, ElementOfSeq
    <2>2. \A i \in 1..Dim(r) : r.data[i] \in 0..MaxBytes /\ r.data[i] # EOF
      BY <1>3, <2>1 DEF Dim, EOF
    <2>3. QED
      BY <1>1, <1>5, <1>8, <1>12, <2>2 DEF Contents
  <1>18. \A q \in Procs : proc'[q] # "blocked"
    <2> SUFFICES ASSUME NEW q \in Procs, proc'[q] = "blocked" PROVE FALSE
      OBVIOUS
    <2>1. q \notin Referrers(b) /\ proc[q] = "blocked"
      BY <1>13
    <2>2. QED
      BY <1>2, <1>15, <2>1 DEF Fields, Users
  <1>19. written' \in 0..MaxBytes
    BY <1>1, <1>3
  <1>20. ASSUME NeverFull
         PROVE  Plenty(end', eofs', written') /\ r.data = b.data \o s
    <2>1. /\ ~a.overrun /\ ~b.overrun /\ a.cursor <= written
          /\ b.cursor + Dim(b) <= written
      <3>1. b.cursor \in Nat /\ Dim(b) \in Nat
        BY <1>3 DEF Buffers, Dim
      <3>2. b.cursor + Dim(b) <= written + 0
        BY <1>2, <1>4, <1>20 DEF Fields, Plenty, a, b
      <3>3. ~a.overrun /\ ~b.overrun /\ a.cursor <= written
        BY <1>2, <1>20 DEF Fields, Plenty, a, b
      <3>4. QED
        BY <1>3, <3>1, <3>2, <3>3
    <2>2. a.cursor \in Nat /\ b.cursor \in Nat /\ Dim(b) \in Nat
      BY <1>3 DEF Buffers, Dim
    <2>3. MaxBytes + 2 <= BuffSize
      BY <1>20 DEF NeverFull
    <2>4. n = count /\ 0 < BuffSize - 1
      BY <1>1, <1>3, <2>3 DEF Least, n
    <2>5. c.data = s /\ d.cursor = a.cursor + count
          /\ d.overrun = (a.overrun \/ a.cursor + count > BuffSize)
      BY <1>7, <1>8, <2>4
    <2>6. Dim(b) < BuffSize - 1 /\ count <= BuffSize - Dim(b)
          /\ ~(a.cursor + count > BuffSize) /\ ~(b.cursor + Dim(b) + count > BuffSize)
          /\ a.cursor + count <= written + count
          /\ b.cursor + (Dim(b) + count) <= written + count
      BY <1>1, <1>3, <2>1, <2>2, <2>3
    <2>7. m = count
      BY <1>3, <1>7, <2>2, <2>5, <2>6 DEF Least, m
    <2>8. r.data = b.data \o s /\ r.overrun = FALSE
      BY <1>7, <1>10, <2>1, <2>5, <2>6, <2>7
    <2>9. Dim(r) = Dim(b) + count
      BY <1>6, <1>7, <2>8, ConcatProperties DEF Dim
    <2>10. d.state # "CLOSED"
      BY <1>4, <1>8
    <2>11. r.cursor + Dim(r) <= written' + 0
      BY <1>1, <1>3, <1>10, <2>2, <2>6, <2>9
    <2>12. d.cursor <= written' /\ ~d.overrun
      BY <1>1, <2>1, <2>5, <2>6
    <2>13. Plenty(end', eofs', written')
      BY <1>12, <2>8, <2>10, <2>11, <2>12 DEF Plenty
    <2>14. QED
      BY <2>8, <2>13
  <1>21. Awake(end', proc', eofs', {})
    BY <1>18 DEF Awake
  <1>22. Fields'
    BY <1>1, <1>2, <1>12, <1>13, <1>14, <1>16, <1>17, <1>19, <1>20, <1>21 DEF Fields
  <1>23. Streams
    <2> SUFFICES ASSUME NeverFull PROVE Stream!Next
      BY DEF Streams
    <2>1. r.data = b.data \o s
      BY <1>20
    <2>2. Bytes(b.data) = b.data
      BY <1>5, <1>6, AllBytes DEF Dim
    <2>3. Bytes(r.data) = r.data
      <3>1. r.data \in Seq(Nat)
        BY <1>10 DEF SameReferences, Buffers
      <3>2. \A i \in 1..Len(r.data) : r.data[i] \in 1..MaxBytes
        BY <1>11, ElementOfSeq
      <3>3. \A i \in 1..Len(r.data) : r.data[i] # EOF
        BY <1>3, <3>2 DEF EOF
      <3>4. QED
        BY <3>1, <3>3, AllBytes
    <2>4. end'["w"].state # "CLOSED"
      BY <1>4, <1>8, <1>12
    <2>5. Bytes(end'["r"].data) = Bytes(end["r"].data) \o [i \in 1..count |-> written + i]
      BY <1>12, <2>1, <2>2, <2>3 DEF b, s
    <2>6. count \in 1..2
      OBVIOUS
    <2>7. Stream!Put
      BY <1>1, <1>4, <1>5, <2>4, <2>5, <2>6 DEF Stream!Put, a
    <2>8. QED
      BY <2>7 DEF Stream!Next
  <1>24. QED
    BY <1>22, <1>23, NextFields

LEMMA NextSound ==
    ASSUME EnoughPlaces, PInv, [Next]_vars
    PROVE  PInv' /\ Streams
  <1>1. CASE UNCHANGED vars
    <2>1. UNCHANGED <<end, freed, pds, proc, written, received, eofs>>
      BY <1>1 DEF vars
    <2>2. Fields'
      BY <2>1, FieldByField DEF Fields
    <2>3. QED
      BY <2>1, <2>2, NextFields, SameStream
  <1>2. CASE Next
    <2>1. PICK p \in Procs : Step(p)
      BY <1>2 DEF Next
    <2>2. CASE \E child \in Procs : sysFork(p, child)
      BY <2>2, ForkSound
    <2>3. CASE \E which \in Ends : arqSysClosePd(p, which)
      BY <2>3, ClosePdSound
    <2>4. CASE \E count \in 1..2 : arqSysWrite(p, count)
      <3>1. 1..2 = {1, 2}
        OBVIOUS
      <3>2. QED
        BY <2>4, <3>1, WriteSound
    <2>5. CASE \E count \in 1..2 : arqSysRead(p, count)
      <3>1. PICK count \in 1..2 : arqSysRead(p, count)
        BY <2>5
      <3>2. /\ proc[p] \in {"user", "marked"} /\ "r" \in pds[p]
            /\ ReadLoop(p, count, proc[p]) /\ count \in Nat \ {0}
        BY <3>1 DEF arqSysRead, Runs
      <3>3. QED
        BY <3>2, ReadSound
    <2>6. CASE \E count \in 1..2 : ReadAgain(p, count)
      <3>1. PICK count \in 1..2 : ReadAgain(p, count)
        BY <2>6
      <3>2. proc[p] = "woken" /\ ReadLoop(p, count, "user") /\ count \in Nat \ {0}
        BY <3>1 DEF ReadAgain
      <3>3. "r" \in pds[p]
        BY <3>2, PInvFacts DEF Users
      <3>4. QED
        BY <3>2, <3>3, ReadSound
    <2>7. CASE arqSysExit(p)
      BY <2>7, DeleteSound DEF arqSysExit
    <2>8. CASE arqSysYield(p)
      BY <2>8, YieldSound
    <2>9. CASE \E q \in Procs : arqSysKill(p, q)
      BY <2>9, DeleteSound DEF arqSysKill
    <2>10. CASE Preempt(p)
      BY <2>10, PreemptSound
    <2>11. CASE SetReady(p)
      BY <2>11, SetReadySound
    <2>12. CASE KillOnIdle(p)
      BY <2>12, DeleteSound DEF KillOnIdle
    <2>13. QED
      BY <2>1, <2>2, <2>3, <2>4, <2>5, <2>6, <2>7, <2>8, <2>9, <2>10, <2>11, <2>12 DEF Step
  <1>3. QED
    BY <1>1, <1>2

-----------------------------------------------------------------------------
(* The theorems.                                                             *)

LEMMA AlwaysPInv ==
    ASSUME EnoughPlaces
    PROVE  Spec => []PInv
  <1>1. Init => PInv
    BY InitInv
  <1>2. PInv /\ [Next]_vars => PInv'
    BY NextSound
  <1>3. QED
    BY <1>1, <1>2, PTL DEF Spec

\* The buffers know exactly the processes that have them in their pdTables, as
\* long as there is a place in a buffer for every process.
THEOREM ReferencesAlwaysMatch ==
    ASSUME EnoughPlaces
    PROVE  Spec => []ReferencesMatch
  <1>1. PInv => ReferencesMatch
    BY PInvFacts DEF ReferencesMatch, TypeOK, Recorded, ProcStates
  <1>2. QED
    BY <1>1, AlwaysPInv, PTL

\* closePipe frees the buffers with the last pdTable entry and not before: no
\* process is left with freed memory, and nothing leaks.
THEOREM FreedWithTheLast ==
    ASSUME EnoughPlaces
    PROVE  Spec => []FreedWithLast
  <1>1. PInv => FreedWithLast
    <2> SUFFICES ASSUME PInv PROVE FreedWithLast
      OBVIOUS
    <2>1. \A v \in Ends : end[v].state = "CLOSED" <=> \A p \in Procs : v \notin pds[p]
      BY PInvFacts DEF Recorded
    <2>2. (\A p \in Procs : pds[p] = {}) <=> \A v \in Ends, p \in Procs : v \notin pds[p]
      BY PInvFacts
    <2>3. QED
      BY <2>1, <2>2, PInvFacts DEF FreedWithLast, Gone
  <1>2. QED
    BY <1>1, AlwaysPInv, PTL

\* An end of file is told after everything else, only when no writer is left,
\* and once -- also of a pipe that lost bytes because it was full.
THEOREM EofAlwaysSound ==
    ASSUME EnoughPlaces
    PROVE  Spec => []EofSound
  <1>1. PInv => EofSound
    <2> SUFFICES ASSUME PInv PROVE EofSound
      OBVIOUS
    <2>1. Contents(end, eofs) /\ eofs \in Nat
      BY PInvFacts
    <2>2. QED
      BY <2>1 DEF EofSound, Contents
  <1>2. QED
    BY <1>1, AlwaysPInv, PTL

\* A pipe that never fills loses no wake-up: while a reader sleeps and the end of
\* file was not told, there is nothing to read and somebody can still write.
THEOREM NobodyStranded ==
    ASSUME EnoughPlaces, NeverFull
    PROVE  Spec => []ReaderNotStranded
  <1>1. PInv => ReaderNotStranded
    <2> SUFFICES ASSUME PInv, NEW p \in Procs, proc[p] = "blocked", eofs = 0
                 PROVE  end["r"].data = <<>> /\ end["w"].state # "CLOSED"
      BY DEF ReaderNotStranded
    <2>1. Plenty(end, eofs, written) /\ Awake(end, proc, eofs, {}) /\ end["r"] \in Buffers
      BY PInvFacts
    <2>2. end["r"].data = <<>>
      BY <2>1 DEF Awake
    <2>3. ~(Dim(end["r"]) > 0)
      BY <2>2 DEF Dim
    <2>4. QED
      BY <2>1, <2>2, <2>3 DEF Plenty
  <1>2. QED
    BY <1>1, AlwaysPInv, PTL

\* Nothing is stored past the end of a buffer while fewer than BUFF_SIZE bytes go
\* through the pipe in its life: the index is never taken modulo BUFF_SIZE.
THEOREM NeverOverruns ==
    ASSUME EnoughPlaces, NeverFull
    PROVE  Spec => []~Overrun
  <1>1. PInv => ~Overrun
    BY PInvFacts DEF Overrun, Ends, Plenty
  <1>2. QED
    BY <1>1, AlwaysPInv, PTL

\* The pipe that never fills is a byte stream: every byte written comes out, in
\* order and once, and then the end of file.
THEOREM PipeIsByteStream ==
    ASSUME EnoughPlaces, NeverFull
    PROVE  Spec => IsByteStream
  <1>1. Init => Stream!Init
    <2> SUFFICES ASSUME Init PROVE Stream!Init
      OBVIOUS
    <2>1. end["r"].data = <<>> /\ end["w"].state = "WRITE"
      BY EmptyBuffer, OpenerAssumption DEF Init, BufferStates
    <2>2. QED
      BY <2>1 DEF Init, Stream!Init, Bytes
  <1>2. PInv /\ [Next]_vars => [Stream!Next]_(Stream!vars)
    BY NextSound DEF Streams
  <1>3. QED
    BY <1>1, <1>2, AlwaysPInv, PTL DEF Spec, IsByteStream, Stream!Spec

-----------------------------------------------------------------------------
(* The pipeline of the shell.                                                *)

\* What closing an end may do to a process: wake it.
AtMostWoken(p, P, Q) == Q[p] = P[p] \/ (P[p] = "blocked" /\ Q[p] = "woken")

LEMMA ClosesOne ==
    ASSUME PInv, NEW p \in Procs, NEW which \in Ends,
           NEW r, r = GiveUp(PipeBy(p), p, {which})
    PROVE  /\ (\E q \in Procs \ {p} : which \in pds[q]) => r.proc = proc
           /\ \A q \in Procs \ {p} : AtMostWoken(q, proc, r.proc)
           /\ Other(which) \notin pds[p] => AtMostWoken(p, proc, r.proc)
  <1> DEFINE k == PipeBy(p)
             o == Other(which)
  <1>1. k \in PipeStates /\ k.end = end /\ k.proc = proc /\ k.runner = p
    BY SoundBy, PipeByFields DEF Sound
  <1>2. /\ Recorded(end, pds) /\ proc \in [Procs -> ProcStates]
        /\ o \in Ends /\ Ends = {"r", "w"} /\ "r" # "w"
    BY PInvFacts, OtherEnd
  <1>3. r = removeReferences(k, p, which)
    <2>1. CASE which = "r"
      BY <1>2, <2>1 DEF GiveUp
    <2>2. CASE which = "w"
      BY <1>2, <2>2 DEF GiveUp
    <2>3. QED
      BY <1>2, <2>1, <2>2
  <1>4. \A e \in Ends : OneEach(k.end[e])
    BY <1>1, <1>2 DEF Recorded
  <1> HIDE DEF k
  <1>5. Removed(k, r, p, which)
    BY <1>1, <1>3, <1>4, RemoveReferences
  <1>6. /\ Referrers(end[which]) = {q \in Procs : which \in pds[q]}
        /\ Referrers(end[o]) = {q \in Procs : o \in pds[q]}
    BY <1>2 DEF Recorded
  <1>7. r.proc = proc \/ r.proc = wake(end[o], proc, p)
    BY <1>1, <1>5 DEF Removed
  <1>8. (\E q \in Procs \ {p} : which \in pds[q]) => r.proc = proc
    BY <1>1, <1>5, <1>6 DEF Removed
  <1>9. \A q \in Procs : wake(end[o], proc, p)[q] =
            IF q \notin Referrers(end[o]) THEN proc[q]
            ELSE IF q = p THEN "marked"
            ELSE IF proc[q] = "blocked" THEN "woken" ELSE proc[q]
    BY <1>2, WakeType
  <1>10. \A q \in Procs \ {p} : AtMostWoken(q, proc, r.proc)
    BY <1>7, <1>9 DEF AtMostWoken
  <1>11. o \notin pds[p] => AtMostWoken(p, proc, r.proc)
    BY <1>6, <1>7, <1>9 DEF AtMostWoken
  <1>12. QED
    BY <1>8, <1>10, <1>11

\* Who has which end.  The reader keeps the read end until it was told the end of
\* file, and the shell keeps both until the reader has them: so nobody else closes
\* an end that he is still woken by.
PipelineInv ==
    /\ OnlyReaderLost
    /\ proc[Writer] = "unborn" => proc[Reader] = "unborn"
    /\ proc[Reader] = "unborn" => pds[Opener] = Ends
    /\ "w" \notin pds[Opener] => "r" \notin pds[Opener]
    /\ proc[Reader] \notin {"unborn", "dead"} => "r" \in pds[Reader]
    /\ proc[Writer] \notin {"unborn", "dead"} => "w" \in pds[Writer]
    /\ proc[Reader] = "dead" => eofs # 0

LEMMA PipelineInit ==
    ASSUME Init
    PROVE  PipelineInv
  <1>1. /\ Writer \in Procs /\ Reader \in Procs /\ Opener \in Procs
        /\ Opener # Writer /\ Opener # Reader
    BY ProgramsAssumption, OpenerAssumption
  <1>2. \A p \in Procs : proc[p] = IF p = Opener THEN "user" ELSE "unborn"
    BY DEF Init
  <1>3. pds[Opener] = Ends /\ "w" \in Ends
    BY <1>1, OtherEnd DEF Init
  <1>4. OnlyReaderLost
    BY <1>2 DEF OnlyReaderLost
  <1>5. QED
    BY <1>1, <1>2, <1>3, <1>4 DEF PipelineInv

\* When the end of file has been told, nobody has the write end.
LEMMA NoWriterAfterEof ==
    ASSUME PInv, eofs # 0
    PROVE  \A p \in Procs : "w" \notin pds[p]
  BY PInvFacts, OtherEnd DEF Contents, Recorded

\* The states of the other processes only change from blocked to woken.
LEMMA PipelineWakes ==
    ASSUME PInv, PipelineInv, NEW p \in Procs,
           proc' \in [Procs -> ProcStates], eofs' = eofs,
           \A q \in Procs \ {p} : AtMostWoken(q, proc, proc') /\ pds'[q] = pds[q],
           \/ AtMostWoken(p, proc, proc')
           \/ p = Reader /\ proc[p] \notin {"unborn", "dead"} /\ proc'[p] \notin {"unborn", "dead"}
           \/ p # Opener /\ proc[p] \notin {"unborn", "dead"} /\ proc'[p] = "dead" /\ (p = Reader => eofs # 0),
           p = Opener => /\ "w" \notin pds'[p] => "r" \notin pds'[p]
                         /\ proc[Reader] = "unborn" => pds'[p] = pds[p],
           p = Reader /\ proc'[p] # "dead" => ("r" \in pds[p] => "r" \in pds'[p]),
           p = Writer /\ proc'[p] # "dead" => ("w" \in pds[p] => "w" \in pds'[p])
    PROVE  PipelineInv'
  <1>1. \A q \in Procs : proc'[q] \in {"marked", "lost"} => q = Reader
    BY DEF PipelineInv, OnlyReaderLost, AtMostWoken
  <1>2. \A q \in Procs : proc[q] = "unborn" <=> proc'[q] = "unborn"
    BY DEF AtMostWoken
  <1>3. \A q \in Procs : proc'[q] # "dead" => proc[q] # "dead"
    BY DEF AtMostWoken
  <1>4. Writer \in Procs /\ Reader \in Procs /\ Opener \in Procs
    BY ProgramsAssumption, OpenerAssumption
  <1>5. proc'[Reader] = "dead" => eofs' # 0
    BY <1>4 DEF PipelineInv, AtMostWoken
  <1>6. proc'[Reader] = "unborn" => pds'[Opener] = Ends
    BY <1>2, <1>4 DEF PipelineInv
  <1>7. "w" \notin pds'[Opener] => "r" \notin pds'[Opener]
    BY <1>4 DEF PipelineInv
  <1>8. proc'[Reader] \notin {"unborn", "dead"} => "r" \in pds'[Reader]
    BY <1>2, <1>3, <1>4 DEF PipelineInv
  <1>9. proc'[Writer] \notin {"unborn", "dead"} => "w" \in pds'[Writer]
    BY <1>2, <1>3, <1>4 DEF PipelineInv
  <1>10. QED
    BY <1>1, <1>2, <1>4, <1>5, <1>6, <1>7, <1>8, <1>9 DEF PipelineInv, OnlyReaderLost

LEMMA PipelineFork ==
    ASSUME PInv, PipelineInv,
           NEW child \in {Writer, Reader}, sysFork(Opener, child),
           child = Reader => proc[Writer] # "unborn"
    PROVE  PipelineInv'
  <1>2. /\ proc[child] = "unborn" /\ proc' = [proc EXCEPT ![child] = "user"]
        /\ pds' = [pds EXCEPT ![child] = pds[Opener]] /\ eofs' = eofs
    BY DEF sysFork
  <1>3. /\ proc \in [Procs -> ProcStates] /\ pds \in [Procs -> SUBSET Ends]
        /\ Writer \in Procs /\ Reader \in Procs /\ Opener \in Procs
        /\ Writer # Reader /\ Opener # Writer /\ Opener # Reader /\ "r" \in Ends /\ "w" \in Ends
    BY PInvFacts, OtherEnd, ProgramsAssumption, OpenerAssumption
  <1>4. pds[Opener] = Ends
    BY <1>2 DEF PipelineInv
  <1>5. /\ \A q \in Procs : proc'[q] = IF q = child THEN "user" ELSE proc[q]
        /\ \A q \in Procs : pds'[q] = IF q = child THEN Ends ELSE pds[q]
    BY <1>2, <1>3, <1>4
  <1>6. \A q \in Procs : proc'[q] \in {"marked", "lost"} => q = Reader
    BY <1>5 DEF PipelineInv, OnlyReaderLost
  <1>7. QED
    BY <1>2, <1>3, <1>4, <1>5, <1>6 DEF PipelineInv, OnlyReaderLost

LEMMA PipelineCloses ==
    ASSUME PInv, PipelineInv, PInv', NEW p \in Procs, NEW which \in Ends, arqSysClosePd(p, which),
           \/ p = Opener /\ which = "r" /\ proc[Reader] # "unborn"
           \/ p = Opener /\ which = "w" /\ "r" \notin pds[p]
           \/ p = Writer /\ which = "r"
           \/ p = Reader /\ which = "w"
    PROVE  PipelineInv'
  <1>1. PICK r : r = GiveUp(PipeBy(p), p, {which})
    OBVIOUS
  <1>2. /\ Runs(p) /\ which \in pds[p] /\ proc' = r.proc
        /\ pds' = [pds EXCEPT ![p] = @ \ {which}] /\ eofs' = eofs
    BY <1>1 DEF arqSysClosePd
  <1>3. /\ pds \in [Procs -> SUBSET Ends] /\ proc' \in [Procs -> ProcStates]
        /\ Ends = {"r", "w"} /\ "r" # "w" /\ Other("r") = "w" /\ Other("w") = "r"
        /\ Writer \in Procs /\ Reader \in Procs /\ Opener \in Procs
        /\ Writer # Reader /\ Opener # Writer /\ Opener # Reader
    <2>1. proc' \in [Procs -> ProcStates]
      BY FieldByField, NextFields DEF Fields
    <2>2. QED
      BY <2>1, PInvFacts, OtherEnd, ProgramsAssumption, OpenerAssumption
  <1>4. /\ (\E q \in Procs \ {p} : which \in pds[q]) => proc' = proc
        /\ \A q \in Procs \ {p} : AtMostWoken(q, proc, proc')
        /\ Other(which) \notin pds[p] => AtMostWoken(p, proc, proc')
    BY <1>1, <1>2, ClosesOne
  <1>5. proc[p] \in {"user", "marked"}
    BY <1>2 DEF Runs
  <1>6. \A q \in Procs : pds'[q] = IF q = p THEN pds[q] \ {which} ELSE pds[q]
    BY <1>2, <1>3
  \* The reader still has the read end.
  <1>7. p # Reader /\ which = "r" => proc' = proc
    <2>1. SUFFICES ASSUME p # Reader, which = "r"
                   PROVE  \E q \in Procs \ {p} : "r" \in pds[q]
      BY <1>4
    <2>2. CASE proc[Reader] = "unborn"
      <3>1. p = Writer /\ pds[Opener] = Ends
        BY <1>3, <2>1, <2>2 DEF PipelineInv
      <3>2. QED
        BY <1>3, <3>1
    <2>3. CASE proc[Reader] = "dead"
      <3>1. \A q \in Procs : "w" \notin pds[q]
        BY <2>3, NoWriterAfterEof DEF PipelineInv
      <3>2. CASE p = Opener
        BY <1>2, <2>1, <3>1, <3>2 DEF PipelineInv
      <3>3. CASE p = Writer
        BY <1>3, <1>5, <3>1, <3>3 DEF PipelineInv
      <3>4. QED
        BY <2>1, <3>2, <3>3
    <2>4. CASE proc[Reader] \notin {"unborn", "dead"}
      BY <1>3, <2>1, <2>4 DEF PipelineInv
    <2>5. QED
      BY <2>2, <2>3, <2>4
  <1>8. \/ AtMostWoken(p, proc, proc')
        \/ p = Reader /\ proc'[p] \notin {"unborn", "dead"}
    <2>1. CASE p = Reader
      <3>1. proc'[p] \in {proc[p], "marked"}
        <4>1. PICK k : k = PipeBy(p)
          OBVIOUS
        <4>2. Sound(k, pds, {p}, eofs, written) /\ k.proc = proc
          BY <4>1, SoundBy, PipeByFields
        <4>3. Wakes(k, r)
          BY <1>1, <1>3, <4>1, <4>2, GiveUpSound
        <4>4. QED
          BY <1>2, <1>5, <4>2, <4>3 DEF Wakes
      <3>2. QED
        BY <1>5, <2>1, <3>1
    <2>2. CASE p # Reader /\ which = "r"
      BY <1>7, <2>2 DEF AtMostWoken
    <2>3. CASE p # Reader /\ which = "w"
      BY <1>3, <1>4, <2>3
    <2>4. QED
      BY <1>3, <2>1, <2>2, <2>3
  <1>9. \A q \in Procs \ {p} : AtMostWoken(q, proc, proc') /\ pds'[q] = pds[q]
    BY <1>4, <1>6
  <1>10. /\ p = Opener => /\ "w" \notin pds'[p] => "r" \notin pds'[p]
                          /\ proc[Reader] = "unborn" => pds'[p] = pds[p]
         /\ p = Reader => ("r" \in pds[p] => "r" \in pds'[p])
         /\ p = Writer => ("w" \in pds[p] => "w" \in pds'[p])
    <2>1. p = Opener => ("w" \notin pds'[p] => "r" \notin pds'[p])
      BY <1>3, <1>6 DEF PipelineInv
    <2>2. p = Opener /\ proc[Reader] = "unborn" => FALSE
      BY <1>3 DEF PipelineInv
    <2>3. QED
      BY <1>3, <1>6, <2>1, <2>2
  <1>11. QED
    BY <1>2, <1>3, <1>5, <1>8, <1>9, <1>10, PipelineWakes

LEMMA PipelineWrites ==
    ASSUME PInv, PipelineInv, PInv', "r" \notin pds[Writer], NEW count, arqSysWrite(Writer, count)
    PROVE  PipelineInv'
  <1>1. Writer \in Procs /\ Writer # Opener /\ Writer # Reader
    BY ProgramsAssumption
  <1>2. proc' = wake(end["r"], proc, Writer) /\ UNCHANGED <<pds, eofs>>
    BY DEF arqSysWrite
  <1>3. proc' \in [Procs -> ProcStates]
    BY FieldByField, NextFields DEF Fields
  <1>4. proc \in [Procs -> ProcStates] /\ Referrers(end["r"]) = {q \in Procs : "r" \in pds[q]}
    BY PInvFacts, OtherEnd DEF Recorded
  <1>5. \A q \in Procs : AtMostWoken(q, proc, proc')
    BY <1>1, <1>2, <1>4, WakeType DEF AtMostWoken
  <1>6. QED
    BY <1>1, <1>2, <1>3, <1>5, PipelineWakes

LEMMA PipelineExits ==
    ASSUME PInv, PipelineInv, PInv', NEW p \in {Writer, Reader}, arqSysExit(p),
           p = Writer => "r" \notin pds[p],
           p = Reader => "w" \notin pds[p] /\ eofs # 0
    PROVE  PipelineInv'
  <1>1. /\ p \in Procs /\ p # Opener /\ Writer # Reader
        /\ Ends = {"r", "w"} /\ "r" # "w" /\ Other("r") = "w" /\ Other("w") = "r"
        /\ pds \in [Procs -> SUBSET Ends] /\ proc \in [Procs -> ProcStates]
    BY ProgramsAssumption, PInvFacts, OtherEnd
  <1>2. proc[p] \in {"user", "marked"}
    BY DEF arqSysExit, Runs
  <1>3. PICK which \in Ends : pds[p] = {which}
    <2>1. pds[p] \subseteq {"r", "w"}
      BY <1>1
    <2>2. CASE p = Writer
      BY <1>1, <1>2, <2>1, <2>2 DEF PipelineInv
    <2>3. CASE p = Reader
      BY <1>1, <1>2, <2>1, <2>3 DEF PipelineInv
    <2>4. QED
      BY <2>2, <2>3
  <1>4. PICK r : r = GiveUp(PipeBy(p), p, {which})
    OBVIOUS
  <1>5. proc' = [r.proc EXCEPT ![p] = "dead"] /\ pds' = [pds EXCEPT ![p] = {}] /\ eofs' = eofs
    BY <1>3, <1>4 DEF arqSysExit, deleteProcess
  <1>6. \A q \in Procs \ {p} : AtMostWoken(q, proc, r.proc)
    BY <1>1, <1>4, ClosesOne
  <1>7. r.proc \in [Procs -> ProcStates]
    <2>1. PICK k : k = PipeBy(p)
      OBVIOUS
    <2>2. Sound(k, pds, {p}, eofs, written)
      BY <1>1, <2>1, SoundBy
    <2>3. Sound(r, [pds EXCEPT ![p] = @ \ {which}], {p}, eofs, written)
      BY <1>1, <1>4, <2>1, <2>2, GiveUpSound
    <2>4. QED
      BY <2>3 DEF Sound, PipeStates
  <1>8. \A q \in Procs \ {p} : AtMostWoken(q, proc, proc') /\ pds'[q] = pds[q]
    BY <1>1, <1>5, <1>6, <1>7 DEF AtMostWoken
  <1>9. proc'[p] = "dead"
    BY <1>1, <1>5, <1>7
  <1>10. proc' \in [Procs -> ProcStates]
    BY FieldByField, NextFields DEF Fields
  <1>11. QED
    BY <1>1, <1>2, <1>5, <1>8, <1>9, <1>10, PipelineWakes

LEMMA PipelineReads ==
    ASSUME PInv, PipelineInv, PInv', arqSysRead(Reader, 1) \/ ReadAgain(Reader, 1)
    PROVE  PipelineInv'
  <1>1. /\ Reader \in Procs /\ Reader # Opener /\ Reader # Writer /\ eofs \in Nat
        /\ proc \in [Procs -> ProcStates] /\ proc' \in [Procs -> ProcStates]
    BY ProgramsAssumption, FieldByField, NextFields DEF Fields
  <1>2. PICK after \in {"user", "marked"} : ReadLoop(Reader, 1, after)
    BY DEF arqSysRead, ReadAgain, Runs
  <1>3. proc[Reader] \notin {"unborn", "dead"}
    BY DEF arqSysRead, ReadAgain, Runs
  <1>4. PICK st : proc' = [proc EXCEPT ![Reader] = st] /\ st \notin {"unborn", "dead"}
    BY <1>2 DEF ReadLoop
  <1>5. pds' = pds /\ eofs' \in {eofs, eofs + 1}
    BY <1>2 DEF ReadLoop
  <1>6. \A q \in Procs : proc'[q] = IF q = Reader THEN st ELSE proc[q]
    BY <1>1, <1>4
  <1>7. \A q \in Procs : proc'[q] \in {"marked", "lost"} => q = Reader
    BY <1>6 DEF PipelineInv, OnlyReaderLost
  <1>8. Writer \in Procs /\ Opener \in Procs
    BY ProgramsAssumption, OpenerAssumption
  <1>9. QED
    BY <1>1, <1>3, <1>4, <1>5, <1>6, <1>7, <1>8 DEF PipelineInv, OnlyReaderLost

LEMMA PipelinePreempts ==
    ASSUME PInv, PipelineInv, NEW p \in Procs, Preempt(p)
    PROVE  PipelineInv'
  <1>1. /\ proc[p] = "marked" /\ proc' = [proc EXCEPT ![p] = "lost"] /\ UNCHANGED <<pds, eofs>>
        /\ proc \in [Procs -> ProcStates]
    BY PInvFacts DEF Preempt
  <1>2. p = Reader /\ Writer # Reader /\ Writer \in Procs /\ Opener \in Procs
    BY <1>1, ProgramsAssumption, OpenerAssumption DEF PipelineInv, OnlyReaderLost
  <1>3. \A q \in Procs : proc'[q] = IF q = Reader THEN "lost" ELSE proc[q]
    BY <1>1, <1>2
  <1>4. QED
    BY <1>1, <1>2, <1>3 DEF PipelineInv, OnlyReaderLost

\* Every step of a pipeline is a step of the pipe.
LEMMA PipelineIsPipe ==
    ASSUME PipelineNext
    PROVE  Next
  <1>1. Opener \in Procs /\ Writer \in Procs /\ Reader \in Procs /\ "r" \in Ends /\ "w" \in Ends
    BY ProgramsAssumption, OpenerAssumption, OtherEnd
  <1>2. 1 \in 1..2
    OBVIOUS
  <1>3. Shell => Step(Opener)
    BY <1>1 DEF Shell, Step
  <1>4. WriterStep => Step(Writer)
    BY <1>1 DEF WriterStep, Step
  <1>5. ReaderStep => Step(Reader)
    BY <1>1, <1>2 DEF ReaderStep, Step
  <1>6. \A p \in Procs : Preempt(p) => Step(p)
    BY DEF Step
  <1>7. QED
    BY <1>1, <1>3, <1>4, <1>5, <1>6 DEF PipelineNext, Next

LEMMA PipelineSound ==
    ASSUME EnoughPlaces, PInv, PipelineInv, [PipelineNext]_vars
    PROVE  PInv' /\ PipelineInv'
  <1>1. PInv'
    BY PipelineIsPipe, NextSound
  <1>2. CASE UNCHANGED vars
    <2>1. UNCHANGED <<pds, proc, eofs>>
      BY <1>2 DEF vars
    <2>2. QED
      BY <1>1, <2>1 DEF PipelineInv, OnlyReaderLost
  <1>3. CASE Shell
    <2>1. Opener \in Procs /\ "r" \in Ends /\ "w" \in Ends
      BY OpenerAssumption, OtherEnd
    <2>2. CASE sysFork(Opener, Writer)
      BY <1>1, <2>2, PipelineFork, ProgramsAssumption
    <2>3. CASE proc[Writer] # "unborn" /\ sysFork(Opener, Reader)
      BY <1>1, <2>3, PipelineFork
    <2>4. CASE proc[Reader] # "unborn" /\ arqSysClosePd(Opener, "r")
      BY <1>1, <2>1, <2>4, PipelineCloses
    <2>5. CASE "r" \notin pds[Opener] /\ arqSysClosePd(Opener, "w")
      BY <1>1, <2>1, <2>5, PipelineCloses
    <2>6. QED
      BY <1>3, <2>2, <2>3, <2>4, <2>5 DEF Shell
  <1>4. CASE WriterStep
    <2>1. Writer \in Procs /\ "r" \in Ends
      BY ProgramsAssumption, OtherEnd
    <2>2. CASE arqSysClosePd(Writer, "r")
      BY <1>1, <2>1, <2>2, PipelineCloses
    <2>3. ASSUME "r" \notin pds[Writer], NEW count \in 1..2, arqSysWrite(Writer, count)
          PROVE  PipelineInv'
      BY <1>1, <2>3, PipelineWrites
    <2>4. CASE "r" \notin pds[Writer] /\ arqSysExit(Writer)
      BY <1>1, <2>4, PipelineExits, ProgramsAssumption
    <2>5. QED
      BY <1>1, <1>4, <2>2, <2>3, <2>4 DEF WriterStep
  <1>5. CASE ReaderStep
    <2>1. Reader \in Procs /\ "w" \in Ends /\ eofs \in Nat
      BY ProgramsAssumption, OtherEnd, PInvFacts
    <2>2. eofs > 0 => eofs # 0
      BY <2>1
    <2>3. CASE arqSysClosePd(Reader, "w")
      BY <1>1, <2>1, <2>3, PipelineCloses
    <2>4. CASE arqSysRead(Reader, 1) \/ ReadAgain(Reader, 1)
      BY <1>1, <2>4, PipelineReads
    <2>5. CASE "w" \notin pds[Reader] /\ eofs # 0 /\ arqSysExit(Reader)
      BY <1>1, <2>5, PipelineExits, ProgramsAssumption
    <2>6. QED
      BY <1>1, <1>5, <2>2, <2>3, <2>4, <2>5 DEF ReaderStep
  <1>6. CASE \E p \in Procs : Preempt(p)
    BY <1>1, <1>6, PipelinePreempts
  <1>7. QED
    BY <1>1, <1>2, <1>3, <1>4, <1>5, <1>6 DEF PipelineNext

\* In a pipeline of the shell, whatever the programs are and however much they
\* write: only the second program can be lost, when it closes the last write end
\* while it has the read end itself.
THEOREM OnlyTheReaderIsLost ==
    ASSUME EnoughPlaces
    PROVE  PipelineSpec => []OnlyReaderLost
  <1>1. Init => PInv /\ PipelineInv
    BY InitInv, PipelineInit
  <1>2. PInv /\ PipelineInv /\ [PipelineNext]_vars => (PInv /\ PipelineInv)'
    BY PipelineSound
  <1>3. PInv /\ PipelineInv => OnlyReaderLost
    BY DEF PipelineInv
  <1>4. QED
    BY <1>1, <1>2, <1>3, PTL DEF PipelineSpec

=============================================================================
