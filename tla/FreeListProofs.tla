---------------------------- MODULE FreeListProofs ----------------------------
(***************************************************************************)
(* The free list under the discipline of a stack, for every size of the    *)
(* memory, of the blocks and of the requests.                               *)
(***************************************************************************)
EXTENDS MCFreeList, OrderLemmas

-----------------------------------------------------------------------------
(* The invariant, of a memory m, the set H of its headers and the blocks l *)
(* that are given out.                                                      *)

NodeEnd(m, a) == a + 1 + m[a].memSize

\* The nodes lie one behind the other, from the root to the end of the memory.
Chain(m, H) ==
    /\ H \subseteq Addresses /\ Root \in H
    /\ \A a \in H : m[a] \in MMNodes /\ NodeEnd(m, a) <= Total
    /\ \A a \in H : m[a].next = IF NodeEnd(m, a) = Total THEN Null ELSE NodeEnd(m, a)
    /\ \A a \in H : m[a].next # Null => m[a].next \in H
    /\ \A a, b \in H : a < b => NodeEnd(m, a) <= b

RootKept(m, H) == m[Root].memSize = 0 /\ ~m[Root].isFree /\ Root + 1 \in H

\* The `prev` of a free node leads to the node in front, which is in use: no two
\* free nodes are neighbours.
FreeLinked(m, H) ==
    \A a \in H : m[a].isFree => /\ m[a].prev \in H /\ ~m[m[a].prev].isFree
                                /\ m[m[a].prev].next = a

\* The blocks given out are the nodes in use.
Owners(m, H, l) ==
    /\ \A i \in 1..Len(l) : /\ l[i].addr \in H \ {Root} /\ ~m[l[i].addr].isFree
                            /\ l[i].size = m[l[i].addr].memSize
    /\ \A a \in H \ {Root} : m[a].isFree \/ \E i \in 1..Len(l) : a = l[i].addr
    /\ \A i, j \in 1..Len(l) : l[i].addr = l[j].addr => i = j

\* Block n is placed behind `o`: what lies between the two is free or younger than
\* n, and the `prev` of n leads to the first node that does, or else to o.
Behind(m, H, n, o, younger) ==
    /\ o < n
    /\ \A b \in H : o < b /\ b < n => m[b].isFree \/ b \in younger
    /\ m[n].prev = IF m[o].next = n THEN o ELSE m[o].next

Older(l, i) == {Root} \cup {l[j].addr : j \in 1..(i - 1)}
Younger(l, i) == {l[j].addr : j \in (i + 1)..Len(l)}

\* A block has its place behind the root or an older block.
Nested(m, H, l) ==
    \A i \in 1..Len(l) : \E o \in Older(l, i) : Behind(m, H, l[i].addr, o, Younger(l, i))

Sound(m, H, l) ==
    /\ Chain(m, H) /\ RootKept(m, H) /\ FreeLinked(m, H) /\ Owners(m, H, l) /\ Nested(m, H, l)

Blocks == [addr : Addresses, size : Nat]
Memories == [Addresses -> MMNodes \cup {Data}]

-----------------------------------------------------------------------------
(* The chain.                                                               *)

LEMMA SizesOf ==
    /\ Total \in Nat /\ Total > 2 /\ Root = 0 /\ Null \notin Nat /\ Data \notin MMNodes
    /\ BlockSize \in Nat /\ BlockSize > 0 /\ Requests \subseteq Nat
    /\ Addresses = 0..(Total - 1)
BY SizesAssumption, NullAssumption, DataAssumption DEF Root, Addresses

LEMMA NodeOf ==
    ASSUME NEW m, NEW H, Chain(m, H), NEW a \in H
    PROVE  /\ a \in Nat /\ a < Total /\ a \in Addresses /\ m[a] \in MMNodes
           /\ m[a].memSize \in Nat /\ m[a].isFree \in BOOLEAN /\ NodeEnd(m, a) = a + 1 + m[a].memSize
           /\ m[a].next \in Addresses \cup {Null} /\ m[a].prev \in Addresses \cup {Null}
BY SizesOf DEF Chain, MMNodes, NodeEnd

\* The next node of `a` is the first one behind it.
LEMMA NextIs ==
    ASSUME NEW m, NEW H, Chain(m, H), NEW a \in H, NEW b \in H, a < b
    PROVE  /\ m[a].next = NodeEnd(m, a) /\ m[a].next # Null /\ m[a].next \in H
           /\ m[a].next \in Nat /\ a < m[a].next /\ m[a].next <= b
<1>1. a \in Nat /\ b \in Nat /\ b < Total /\ m[a].memSize \in Nat
    BY NodeOf
<1>2. NodeEnd(m, a) <= b /\ NodeEnd(m, a) = a + 1 + m[a].memSize
    BY NodeOf DEF Chain
<1>3. NodeEnd(m, a) # Total /\ NodeEnd(m, a) \in Nat /\ a < NodeEnd(m, a)
    BY <1>1, <1>2, SizesOf
<1>4. m[a].next = NodeEnd(m, a) /\ m[a].next # Null
    BY <1>3, SizesOf DEF Chain
<1>5. QED
    BY <1>2, <1>3, <1>4 DEF Chain

LEMMA NextBehind ==
    ASSUME NEW m, NEW H, Chain(m, H), NEW a \in H, m[a].next # Null
    PROVE  /\ m[a].next \in H /\ m[a].next = NodeEnd(m, a) /\ a < m[a].next /\ m[a].next \in Nat
<1>1. m[a].next \in H /\ m[a].next = NodeEnd(m, a)
    BY DEF Chain
<1>2. NodeEnd(m, a) = a + 1 + m[a].memSize /\ a \in Nat /\ m[a].memSize \in Nat
    BY NodeOf
<1>3. QED
    BY <1>1, <1>2

LEMMA OnePrevious ==
    ASSUME NEW m, NEW H, Chain(m, H), NEW a \in H, NEW b \in H,
           m[a].next = m[b].next, m[a].next # Null
    PROVE  a = b
<1>1. a \in Nat /\ b \in Nat
    BY NodeOf
<1>2. ASSUME NEW c \in H, NEW d \in H, c < d, m[c].next = m[d].next, m[d].next # Null
      PROVE  FALSE
  <2>1. m[c].next <= d /\ m[c].next \in Nat
      BY <1>2, NextIs
  <2>2. d < m[d].next /\ d \in Nat
      BY <1>2, NextBehind, NodeOf
  <2>3. QED
      BY <1>2, <2>1, <2>2
<1>3. ~(a < b) /\ ~(b < a)
    BY <1>2
<1>4. QED
    BY <1>1, <1>3

\* What is behind the root has a node in front.
LEMMA PreviousExists ==
    ASSUME NEW m, NEW H, Chain(m, H), NEW b \in H, b # Root
    PROVE  \E a \in H : a < b /\ m[a].next = b
<1> DEFINE S == {a \in H : a < b}
<1>1. \A a \in H : a \in Nat /\ a < Total
    BY NodeOf
<1>2. S \in SUBSET (0..Total) /\ Root \in S /\ Total \in Nat
  <2>1. Total \in Nat /\ Root = 0 /\ Root \in H
      BY SizesOf DEF Chain
  <2>2. Root < b
      BY <1>1, <2>1
  <2>3. \A a \in S : a \in 0..Total
      BY <1>1, <2>1
  <2>4. QED
      BY <2>1, <2>2, <2>3
<1>3. PICK a \in S : \A c \in S : c <= a
    BY <1>2, LargestExists
<1>4. a \in H /\ a < b
    BY <1>3
<1>5. m[a].next \in H /\ m[a].next \in Nat /\ a < m[a].next /\ m[a].next <= b
    BY <1>4, NextIs
<1>6. ~(m[a].next < b)
    BY <1>1, <1>3, <1>5
<1>7. QED
    BY <1>1, <1>4, <1>5, <1>6

-----------------------------------------------------------------------------
(* A free node is taken.                                                    *)

LEMMA FieldsOf ==
    ASSUME NEW x \in MMNodes
    PROVE  /\ x.next \in Addresses \cup {Null} /\ x.prev \in Addresses \cup {Null}
           /\ x.memSize \in Nat /\ x.isFree \in BOOLEAN
BY DEF MMNodes

\* What Split makes of the headers.
Divided(m, f, size, n, r) ==
    /\ n \in Memories /\ n[f] \in MMNodes
    /\ n[f].isFree = FALSE /\ n[f].prev = m[f].prev
    /\ m[f].memSize = size =>
          /\ n[f].next = m[f].next /\ n[f].memSize = size
          /\ \A b \in Addresses \ {f} : n[b] = m[b]
    /\ m[f].memSize # size =>
          /\ r \in Addresses /\ r # f
          /\ n[f].next = r /\ n[f].memSize = size - 1
          /\ n[r] \in MMNodes
          /\ n[r].next = m[f].next /\ n[r].prev = f
          /\ n[r].memSize = m[f].memSize - size /\ n[r].isFree = TRUE
          /\ \A b \in Addresses \ {f, r} : n[b] = m[b]

LEMMA SplitIs ==
    ASSUME NEW m \in Memories, NEW H, Chain(m, H), NEW f \in H,
           NEW size \in Nat, size # 0, size <= m[f].memSize,
           NEW n, n = Split(m, f, size), NEW r, r = f + size
    PROVE  Divided(m, f, size, n, r)
<1>1. /\ f \in Nat /\ f \in Addresses /\ m[f] \in MMNodes /\ m[f].memSize \in Nat
      /\ NodeEnd(m, f) = f + 1 + m[f].memSize /\ NodeEnd(m, f) <= Total
    BY NodeOf DEF Chain
<1>2. m[f].next \in Addresses \cup {Null} /\ m[f].prev \in Addresses \cup {Null}
    BY <1>1, FieldsOf
<1>3. CASE m[f].memSize = size
  <2>1. n = [m EXCEPT ![f].isFree = FALSE]
      BY <1>3 DEF Split
  <2>2. [m[f] EXCEPT !.isFree = FALSE] \in MMNodes
      BY <1>1 DEF MMNodes
  <2>3. n[f] = [m[f] EXCEPT !.isFree = FALSE]
      BY <1>1, <2>1 DEF Memories
  <2>4. n[f].isFree = FALSE /\ n[f].prev = m[f].prev /\ n[f].next = m[f].next /\ n[f].memSize = size
      BY <1>1, <1>3, <2>3 DEF MMNodes
  <2>5. n \in Memories
      BY <2>1, <2>2 DEF Memories
  <2>6. \A b \in Addresses \ {f} : n[b] = m[b]
      BY <2>1 DEF Memories
  <2>7. QED
      BY <1>3, <2>2, <2>3, <2>4, <2>5, <2>6 DEF Divided
<1>4. CASE m[f].memSize # size
  <2> DEFINE x == [next |-> m[f].next, prev |-> f, memSize |-> m[f].memSize - size, isFree |-> TRUE]
             y == [m[f] EXCEPT !.next = f + size, !.memSize = size - 1, !.isFree = FALSE]
  <2>1. r \in Nat /\ r # f /\ r < Total /\ f < r /\ size - 1 \in Nat /\ m[f].memSize - size \in Nat
      BY <1>1, <1>4, SizesOf
  <2>2. r \in Addresses
      BY <2>1, SizesOf
  <2>3. n = [m EXCEPT ![f] = y, ![r] = x]
      BY <1>4 DEF Split
  <2>4. x \in MMNodes
      BY <1>1, <1>2, <2>1 DEF MMNodes
  <2>5. y \in MMNodes
      BY <1>1, <2>1, <2>2 DEF MMNodes
  <2>6. n[f] = y /\ n[r] = x /\ (\A b \in Addresses \ {f, r} : n[b] = m[b]) /\ n \in Memories
    <3> HIDE DEF x, y
    <3>1. QED
        BY <1>1, <2>1, <2>2, <2>3, <2>4, <2>5 DEF Memories
  <2>7. y.isFree = FALSE /\ y.prev = m[f].prev /\ y.next = r /\ y.memSize = size - 1
      BY <1>1 DEF MMNodes
  <2>8. x.next = m[f].next /\ x.prev = f /\ x.memSize = m[f].memSize - size /\ x.isFree = TRUE
      OBVIOUS
  <2> HIDE DEF x, y
  <2>9. n \in Memories /\ n[f] \in MMNodes /\ n[f].isFree = FALSE /\ n[f].prev = m[f].prev
      BY <2>5, <2>6, <2>7
  <2>10. /\ r \in Addresses /\ r # f /\ n[f].next = r /\ n[f].memSize = size - 1 /\ n[r] \in MMNodes
         /\ n[r].next = m[f].next /\ n[r].prev = f /\ n[r].memSize = m[f].memSize - size
         /\ n[r].isFree = TRUE /\ \A b \in Addresses \ {f, r} : n[b] = m[b]
      BY <2>1, <2>2, <2>4, <2>6, <2>7, <2>8
  <2>11. QED
      BY <1>4, <2>9, <2>10 DEF Divided
<1>5. QED
    BY <1>3, <1>4

\* The headers behind the node that is split.
Rest(m, f, size) == IF m[f].memSize = size THEN {} ELSE {f + size}

\* What becomes of the headers when a free node is taken, and written to or not.
Taken(m, H, f, size, n) ==
    /\ \A b \in H \ {f} : n[b] = m[b]
    /\ n[f] \in MMNodes /\ n[f].isFree = FALSE /\ n[f].prev = m[f].prev
    /\ m[f].memSize = size => n[f].next = m[f].next /\ n[f].memSize = size
    /\ m[f].memSize # size =>
          /\ n[f].next = f + size /\ n[f].memSize = size - 1
          /\ n[f + size] \in MMNodes
          /\ n[f + size].next = m[f].next /\ n[f + size].prev = f
          /\ n[f + size].memSize = m[f].memSize - size /\ n[f + size].isFree = TRUE

LEMMA TakenChain ==
    ASSUME NEW m, NEW H, Chain(m, H), NEW f \in H, NEW n,
           NEW size \in Nat \ {0}, size <= m[f].memSize, Taken(m, H, f, size, n)
    PROVE  /\ Chain(n, H \cup Rest(m, f, size))
           /\ m[f].memSize # size => f + size \notin H /\ f + size \in Nat /\ f < f + size
<1> DEFINE r == f + size
           G == H \cup Rest(m, f, size)
<1>1. /\ f \in Nat /\ f < Total /\ f \in Addresses /\ m[f] \in MMNodes /\ m[f].memSize \in Nat
      /\ NodeEnd(m, f) = f + 1 + m[f].memSize /\ NodeEnd(m, f) <= Total
    BY NodeOf DEF Chain
<1>2. \A a \in H : /\ a \in Nat /\ m[a] \in MMNodes /\ m[a].memSize \in Nat /\ NodeEnd(m, a) <= Total
                   /\ NodeEnd(m, a) \in Nat /\ a < NodeEnd(m, a)
  <2>1. TAKE a \in H
  <2>2. a \in Nat /\ m[a] \in MMNodes /\ m[a].memSize \in Nat /\ NodeEnd(m, a) = a + 1 + m[a].memSize
      BY NodeOf
  <2>3. QED
      BY <2>2 DEF Chain
<1>3. \A a \in H \ {f} : n[a] = m[a] /\ NodeEnd(n, a) = NodeEnd(m, a)
    BY DEF Taken, NodeEnd
<1>4. CASE m[f].memSize = size
  <2>1. G = H
      BY <1>4 DEF Rest
  <2>2. n[f] \in MMNodes /\ n[f].next = m[f].next /\ NodeEnd(n, f) = NodeEnd(m, f)
      BY <1>1, <1>4 DEF Taken, NodeEnd
  <2>3. \A a \in H : n[a] \in MMNodes /\ n[a].next = m[a].next /\ NodeEnd(n, a) = NodeEnd(m, a)
      BY <1>2, <1>3, <2>2
  <2>4. Chain(n, H)
      BY <2>3 DEF Chain
  <2>5. QED
      BY <1>4, <2>1, <2>4
<1>5. CASE m[f].memSize # size
  <2>1. G = H \cup {r} /\ r \in Nat /\ f < r /\ r < NodeEnd(m, f) /\ r \in Addresses
    <3>1. r \in Nat /\ f < r /\ r < NodeEnd(m, f) /\ r < Total
        BY <1>1, SizesOf
    <3>2. QED
        BY <1>5, <3>1, SizesOf DEF Rest
  <2>2. r \notin H
    <3>1. SUFFICES ASSUME r \in H PROVE FALSE
        OBVIOUS
    <3>2. NodeEnd(m, f) <= r
        BY <2>1, <3>1 DEF Chain
    <3>3. QED
        BY <1>2, <2>1, <3>2
  <2>3. /\ n[f] \in MMNodes /\ n[f].next = r /\ NodeEnd(n, f) = r
    <3>1. n[f] \in MMNodes /\ n[f].next = r /\ n[f].memSize = size - 1
        BY <1>5 DEF Taken
    <3>2. QED
        BY <1>1, <3>1 DEF NodeEnd
  <2>4. /\ n[r] \in MMNodes /\ n[r].next = m[f].next /\ NodeEnd(n, r) = NodeEnd(m, f)
    <3>1. n[r] \in MMNodes /\ n[r].next = m[f].next /\ n[r].memSize = m[f].memSize - size
        BY <1>5 DEF Taken
    <3>2. QED
        BY <1>1, <2>1, <3>1 DEF NodeEnd
  <2> HIDE DEF r, G
  <2>5. G \subseteq Addresses /\ Root \in G
      BY <2>1 DEF Chain
  <2>6. \A a \in G : n[a] \in MMNodes /\ NodeEnd(n, a) <= Total
      BY <1>1, <1>2, <1>3, <2>1, <2>3, <2>4, SizesOf
  <2>7. \A a \in G : n[a].next = IF NodeEnd(n, a) = Total THEN Null ELSE NodeEnd(n, a)
    <3>1. r # Total
        BY <1>1, <2>1, SizesOf
    <3>2. QED
        BY <1>3, <2>1, <2>3, <2>4, <3>1 DEF Chain
  <2>8. \A a \in G : n[a].next # Null => n[a].next \in G
      BY <1>3, <2>1, <2>3, <2>4 DEF Chain
  <2>9. ASSUME NEW a \in G, NEW b \in G, a < b
        PROVE  NodeEnd(n, a) <= b
    <3>1. CASE a = f /\ b = r
        BY <2>1, <2>3, <3>1
    <3>2. CASE a = f /\ b # r
      <4>1. b \in H /\ NodeEnd(m, f) <= b /\ b \in Nat
          BY <1>2, <2>1, <2>9, <3>2 DEF Chain
      <4>2. NodeEnd(m, f) \in Nat
          BY <1>2
      <4>3. QED
          BY <2>1, <2>3, <3>2, <4>1, <4>2
    <3>3. CASE a = r
      <4>1. b \in H /\ b \in Nat /\ f < b
          BY <1>1, <1>2, <2>1, <2>9, <3>3
      <4>2. NodeEnd(m, f) <= b
          BY <4>1 DEF Chain
      <4>3. QED
          BY <2>4, <3>3, <4>2
    <3>4. CASE a # f /\ a # r /\ b = r
      <4>1. a \in H /\ a \in Nat /\ NodeEnd(n, a) = NodeEnd(m, a) /\ NodeEnd(m, a) \in Nat
          BY <1>2, <1>3, <2>1, <3>4
      <4>2. CASE a < f
        <5>1. NodeEnd(m, a) <= f
            BY <4>1, <4>2 DEF Chain
        <5>2. QED
            BY <1>1, <2>1, <3>4, <4>1, <5>1
      <4>3. CASE ~(a < f)
        <5>1. f < a
            BY <1>1, <3>4, <4>1, <4>3
        <5>2. NodeEnd(m, f) <= a
            BY <4>1, <5>1 DEF Chain
        <5>3. QED
            BY <1>1, <1>2, <2>1, <2>9, <3>4, <4>1, <5>2
      <4>4. QED
          BY <4>2, <4>3
    <3>5. CASE a # f /\ a # r /\ b # r
      <4>1. a \in H /\ b \in H /\ NodeEnd(n, a) = NodeEnd(m, a)
          BY <1>3, <2>1, <3>5
      <4>2. QED
          BY <2>9, <4>1 DEF Chain
    <3>6. QED
        BY <3>1, <3>2, <3>3, <3>4, <3>5
  <2>10. Chain(n, G)
      BY <2>5, <2>6, <2>7, <2>8, <2>9 DEF Chain
  <2>11. QED
      BY <2>1, <2>2, <2>10 DEF r, G
<1>6. QED
    BY <1>4, <1>5

LEMMA AppendIs ==
    ASSUME NEW S, NEW l \in Seq(S), NEW x \in S
    PROVE  /\ Append(l, x) \in Seq(S) /\ Len(Append(l, x)) = Len(l) + 1 /\ Len(l) \in Nat
           /\ \A i \in 1..Len(l) : Append(l, x)[i] = l[i]
           /\ Append(l, x)[Len(l) + 1] = x
OBVIOUS

\* The node in front of the one that is taken stays as it is.
Followed(m, H, f, n) ==
    /\ n[f].prev = m[f].prev /\ m[f].prev \in H \ {f} /\ n[m[f].prev].next = f
    /\ ~m[m[f].prev].isFree

\* A free node is taken by the youngest block.
LEMMA TakenSound ==
    ASSUME NEW m, NEW H, NEW l \in Seq(Blocks), Sound(m, H, l),
           NEW f \in H, m[f].isFree, NEW n,
           NEW size \in Nat \ {0}, size <= m[f].memSize, Taken(m, H, f, size, n),
           NEW k, k = Append(l, [addr |-> f, size |-> n[f].memSize])
    PROVE  /\ k \in Seq(Blocks)
           /\ Sound(n, H \cup Rest(m, f, size), k)
           /\ Followed(m, H, f, n)
<1> DEFINE r == f + size
           G == H \cup Rest(m, f, size)
           x == [addr |-> f, size |-> n[f].memSize]
           p == m[f].prev
<1>1. Chain(m, H) /\ RootKept(m, H) /\ FreeLinked(m, H) /\ Owners(m, H, l) /\ Nested(m, H, l)
    BY DEF Sound
<1>2. /\ Chain(n, G)
      /\ m[f].memSize # size => r \notin H /\ r \in Nat /\ f < r
    BY <1>1, TakenChain
<1>3. \A a \in H : a \in Nat /\ a \in Addresses /\ m[a].isFree \in BOOLEAN
    BY <1>1, NodeOf
<1>4. \A a \in H \ {f} : n[a] = m[a]
    BY DEF Taken
<1>5. n[f].isFree = FALSE /\ n[f].prev = p /\ n[f].memSize \in Nat /\ n[f] \in MMNodes
    BY FieldsOf DEF Taken
<1>6. k \in Seq(Blocks) /\ Len(k) = Len(l) + 1 /\ Len(l) \in Nat
      /\ (\A i \in 1..Len(l) : k[i] = l[i]) /\ k[Len(l) + 1] = x
  <2>1. x \in Blocks
      BY <1>3, <1>5 DEF Blocks
  <2>2. k = Append(l, x)
      OBVIOUS
  <2> HIDE DEF x
  <2>3. QED
      BY <2>1, <2>2, AppendIs
<1>7. x.addr = f /\ x.size = n[f].memSize
    OBVIOUS
<1> HIDE DEF x
<1>8. f # Root /\ Root \in H
    BY <1>1 DEF RootKept, Chain
<1>9. p \in H /\ ~m[p].isFree /\ m[p].next = f /\ p # f /\ p < f
  <2>1. p \in H /\ ~m[p].isFree /\ m[p].next = f
      BY <1>1 DEF FreeLinked
  <2>2. m[p].next # Null
      BY <1>3, <2>1, SizesOf
  <2>3. p < f
      BY <1>1, <2>1, <2>2, NextBehind
  <2>4. QED
      BY <2>1, <2>3
<1>10. \A b \in G : b \in H \/ (b = r /\ m[f].memSize # size)
    BY DEF Rest
<1>11. m[f].memSize # size =>
          n[r].isFree = TRUE /\ n[r].prev = f /\ n[f].next = r /\ n[r].next = m[f].next /\ r \in G
    BY DEF Taken, Rest
<1>12. m[f].memSize = size => n[f].next = m[f].next
    BY DEF Taken
<1> HIDE DEF r, G, p
<1>13. H \subseteq G
    BY DEF G
<1>14. RootKept(n, G)
    BY <1>1, <1>4, <1>8, <1>13 DEF RootKept
<1>15. FreeLinked(n, G)
  <2>1. SUFFICES ASSUME NEW a \in G, n[a].isFree
                 PROVE  n[a].prev \in G /\ ~n[n[a].prev].isFree /\ n[n[a].prev].next = a
      BY DEF FreeLinked
  <2>2. CASE a = r /\ m[f].memSize # size
      BY <1>5, <1>11, <1>13, <2>2
  <2>3. CASE a \in H
    <3>1. a # f
        BY <1>5, <2>1
    <3>2. n[a] = m[a] /\ m[a].isFree
        BY <1>4, <2>1, <2>3, <3>1
    <3>3. m[a].prev \in H /\ ~m[m[a].prev].isFree /\ m[m[a].prev].next = a
        BY <1>1, <2>3, <3>2 DEF FreeLinked
    <3>4. m[a].prev # f
        BY <3>3
    <3>5. QED
        BY <1>4, <1>13, <3>2, <3>3, <3>4
  <2>4. QED
      BY <1>10, <2>2, <2>3
<1>16. Owners(n, G, k)
  <2>1. \A i \in 1..Len(l) : /\ l[i].addr \in H \ {Root} /\ ~m[l[i].addr].isFree
                             /\ l[i].size = m[l[i].addr].memSize
                             /\ l[i].addr # f /\ n[l[i].addr] = m[l[i].addr]
      BY <1>1, <1>4 DEF Owners
  <2>2. \A i \in 1..Len(k) : i \in 1..Len(l) \/ i = Len(l) + 1
      BY <1>6
  <2>3. \A i \in 1..Len(k) : /\ k[i].addr \in G \ {Root} /\ ~n[k[i].addr].isFree
                             /\ k[i].size = n[k[i].addr].memSize
    <3>1. TAKE i \in 1..Len(k)
    <3>2. CASE i \in 1..Len(l)
        BY <1>6, <1>13, <2>1, <3>2
    <3>3. CASE i = Len(l) + 1
        BY <1>5, <1>6, <1>7, <1>8, <1>13, <3>3
    <3>4. QED
        BY <2>2, <3>2, <3>3
  <2>4. ASSUME NEW a \in G \ {Root}
        PROVE  n[a].isFree \/ \E i \in 1..Len(k) : a = k[i].addr
    <3>1. CASE a = r /\ m[f].memSize # size
        BY <1>11, <3>1
    <3>2. CASE a = f
      <4>1. Len(l) + 1 \in 1..Len(k)
          BY <1>6
      <4>2. QED
          BY <1>6, <1>7, <3>2, <4>1
    <3>3. CASE a \in H /\ a # f
      <4>1. n[a] = m[a]
          BY <1>4, <3>3
      <4>2. m[a].isFree \/ \E i \in 1..Len(l) : a = l[i].addr
          BY <1>1, <3>3 DEF Owners
      <4>3. \A i \in 1..Len(l) : i \in 1..Len(k) /\ k[i].addr = l[i].addr
          BY <1>6
      <4>4. QED
          BY <4>1, <4>2, <4>3
    <3>4. QED
        BY <1>10, <3>1, <3>2, <3>3
  <2>5. ASSUME NEW i \in 1..Len(k), NEW j \in 1..Len(k), k[i].addr = k[j].addr
        PROVE  i = j
    <3>1. CASE i \in 1..Len(l) /\ j \in 1..Len(l)
      <4>1. l[i].addr = l[j].addr
          BY <1>6, <2>5, <3>1
      <4>2. QED
          BY <1>1, <3>1, <4>1 DEF Owners
    <3>2. \A h \in 1..Len(l) : k[h].addr # f
        BY <1>6, <2>1
    <3>3. k[Len(l) + 1].addr = f
        BY <1>6, <1>7
    <3>4. QED
        BY <2>2, <2>5, <3>1, <3>2, <3>3
  <2>6. QED
      BY <2>3, <2>4, <2>5 DEF Owners
<1>17. Nested(n, G, k)
  <2>1. SUFFICES ASSUME NEW i \in 1..Len(k)
                 PROVE  \E o \in Older(k, i) : Behind(n, G, k[i].addr, o, Younger(k, i))
      BY DEF Nested
  <2>2. CASE i = Len(l) + 1
    <3>1. k[i].addr = f
        BY <1>6, <1>7, <2>2
    <3>2. p \in Older(k, i)
      <4>1. CASE p = Root
          BY <4>1 DEF Older
      <4>2. CASE p # Root
        <5>1. PICK j \in 1..Len(l) : p = l[j].addr
            BY <1>1, <1>9, <4>2 DEF Owners
        <5>2. j \in 1..(i - 1) /\ p = k[j].addr
            BY <1>6, <2>2, <5>1
        <5>3. QED
            BY <5>2 DEF Older
      <4>3. QED
          BY <4>1, <4>2
    <3>3. ASSUME NEW b \in G, p < b, b < f
          PROVE  FALSE
      <4>1. b \in H
          BY <1>2, <1>3, <1>10, <3>3
      <4>2. m[p].next <= b
          BY <1>1, <1>9, <3>3, <4>1, NextIs
      <4>3. QED
          BY <1>3, <1>9, <3>3, <4>1, <4>2
    <3>4. n[p].next = f
        BY <1>4, <1>9
    <3>5. Behind(n, G, f, p, Younger(k, i))
        BY <1>5, <1>9, <3>3, <3>4 DEF Behind
    <3>6. QED
        BY <3>1, <3>2, <3>5
  <2>3. CASE i \in 1..Len(l)
    <3> DEFINE c == l[i].addr
    <3>1. k[i].addr = c /\ c \in H /\ c # f /\ ~m[c].isFree /\ n[c] = m[c]
        BY <1>1, <1>4, <1>6, <2>3 DEF Owners
    <3>2. PICK o \in Older(l, i) : Behind(m, H, c, o, Younger(l, i))
        BY <1>1, <2>3 DEF Nested
    <3>3. o \in Older(k, i)
      <4>1. \A j \in 1..(i - 1) : k[j] = l[j]
          BY <1>6, <2>3
      <4>2. QED
          BY <3>2, <4>1 DEF Older
    <3>4. o \in H /\ ~m[o].isFree
      <4>1. \A j \in 1..(i - 1) : j \in 1..Len(l)
          BY <1>6, <2>3
      <4>2. QED
          BY <1>1, <1>8, <3>2, <4>1 DEF Older, Owners, RootKept
    <3>5. n[o] = m[o]
        BY <1>4, <3>4
    <3>6. \A b \in Younger(l, i) : b \in Younger(k, i) /\ b \in H /\ b # f
      <4>1. \A j \in (i + 1)..Len(l) : j \in 1..Len(l) /\ j \in (i + 1)..Len(k)
          BY <1>6, <2>3
      <4>2. QED
          BY <1>1, <1>6, <4>1 DEF Younger, Owners
    <3>7. f \in Younger(k, i)
      <4>1. Len(l) + 1 \in (i + 1)..Len(k)
          BY <1>6, <2>3
      <4>2. QED
          BY <1>6, <1>7, <4>1 DEF Younger
    <3>8. ASSUME NEW b \in G, o < b, b < c
          PROVE  n[b].isFree \/ b \in Younger(k, i)
      <4>1. CASE b = f
          BY <3>7, <4>1
      <4>2. CASE b = r /\ m[f].memSize # size
          BY <1>11, <4>2
      <4>3. CASE b \in H /\ b # f
        <5>1. m[b].isFree \/ b \in Younger(l, i)
            BY <3>2, <3>8, <4>3 DEF Behind
        <5>2. QED
            BY <1>4, <3>6, <4>3, <5>1
      <4>4. QED
          BY <1>10, <4>1, <4>2, <4>3
    <3>9. Behind(n, G, c, o, Younger(k, i))
        BY <3>1, <3>2, <3>5, <3>8 DEF Behind
    <3>10. QED
        BY <3>1, <3>3, <3>9
  <2>4. QED
      BY <1>6, <2>2, <2>3
<1>18. Sound(n, G, k)
    BY <1>2, <1>14, <1>15, <1>16, <1>17 DEF Sound
<1>19. n[p].next = f
    BY <1>4, <1>9
<1>20. QED
    BY <1>5, <1>6, <1>9, <1>18, <1>19 DEF G, p, Followed

-----------------------------------------------------------------------------
(* A block is given back.                                                   *)

Merges(m, a) == m[a].next # Null /\ m[m[a].next].isFree

\* The headers that end up inside the merged node, the node itself, and the one that
\* was the last of its parts.
Absorbed(m, a) ==
    (IF Merges(m, a) THEN {m[a].next} ELSE {}) \cup (IF m[m[a].prev].isFree THEN {a} ELSE {})
Merger(m, a) == IF m[m[a].prev].isFree THEN m[a].prev ELSE a
LastPart(m, a) == IF Merges(m, a) THEN m[a].next ELSE a

Merged(m, H, a, n) ==
    /\ \A b \in H \ {a, Merger(m, a)} : n[b] = m[b]
    /\ n[Merger(m, a)] \in MMNodes /\ n[Merger(m, a)].isFree = TRUE
    /\ n[Merger(m, a)].prev = m[Merger(m, a)].prev
    /\ n[Merger(m, a)].next = m[LastPart(m, a)].next
    /\ NodeEnd(n, Merger(m, a)) = NodeEnd(m, LastPart(m, a))

Grown(e, s, next) == [e EXCEPT !.memSize = s, !.next = next]
Put(m, a, e) == [m EXCEPT ![a] = e]

LEMMA GrownIs ==
    ASSUME NEW e \in MMNodes, NEW s \in Nat, NEW next \in Addresses \cup {Null}
    PROVE  /\ Grown(e, s, next) \in MMNodes
           /\ Grown(e, s, next).next = next /\ Grown(e, s, next).memSize = s
           /\ Grown(e, s, next).prev = e.prev /\ Grown(e, s, next).isFree = e.isFree
BY DEF MMNodes, Grown

LEMMA PutIs ==
    ASSUME NEW m \in Memories, NEW a \in Addresses, NEW e \in MMNodes
    PROVE  /\ Put(m, a, e) \in Memories /\ Put(m, a, e)[a] = e
           /\ \A b \in Addresses \ {a} : Put(m, a, e)[b] = m[b]
BY DEF Memories, Put

LEMMA MergeNextIs ==
    ASSUME NEW m, NEW a, NEW x, m[a].next = x
    PROVE  /\ x # Null /\ m[x].isFree =>
                  MergeNext(m, a) = Put(m, a, Grown(m[a], m[a].memSize + m[x].memSize + 1, m[x].next))
           /\ ~(x # Null /\ m[x].isFree) => MergeNext(m, a) = m
BY DEF MergeNext, Put, Grown

LEMMA MergePrevIs ==
    ASSUME NEW m, NEW a, NEW p, m[a].prev = p, p # Null
    PROVE  /\ m[p].isFree =>
                  MergePrev(m, a) = Put(m, p, Grown(m[p], m[p].memSize + m[a].memSize + 1, m[a].next))
           /\ ~m[p].isFree => MergePrev(m, a) = m
BY DEF MergePrev, Put, Grown

LEMMA FreedIs ==
    ASSUME NEW m \in Memories, NEW H, Chain(m, H), NEW a \in H,
           m[a].prev \in H, m[m[a].prev].next = a
    PROVE  Freed(m, a) \in Memories /\ Merged(m, H, a, Freed(m, a))
<1> DEFINE m1 == [m EXCEPT ![a].isFree = TRUE]
<1>0. PICK p, x : p = m[a].prev /\ x = m[a].next
    OBVIOUS
<1>1. /\ a \in Nat /\ a \in Addresses /\ m[a] \in MMNodes /\ m[a].memSize \in Nat
      /\ p \in Addresses \cup {Null} /\ x \in Addresses \cup {Null}
      /\ NodeEnd(m, a) = a + 1 + m[a].memSize
    BY <1>0, NodeOf
<1>2. /\ p \in H /\ p \in Nat /\ p \in Addresses /\ m[p] \in MMNodes /\ m[p].memSize \in Nat /\ p # Null
      /\ NodeEnd(m, p) = p + 1 + m[p].memSize /\ m[p].isFree \in BOOLEAN /\ m[p].next = a
    BY <1>0, NodeOf, SizesOf
<1>3. p < a /\ NodeEnd(m, p) = a
  <2>1. m[p].next # Null
      BY <1>1, <1>2, SizesOf
  <2>2. QED
      BY <1>2, <2>1, NextBehind
<1>4. x # Null => x \in H /\ x = NodeEnd(m, a) /\ a < x /\ x \in Nat /\ x \in Addresses
                  /\ m[x] \in MMNodes /\ m[x].memSize \in Nat /\ m[x].isFree \in BOOLEAN
                  /\ NodeEnd(m, x) = x + 1 + m[x].memSize /\ m[x].next \in Addresses \cup {Null}
  <2>1. SUFFICES ASSUME x # Null
                 PROVE  x \in H /\ x = NodeEnd(m, a) /\ a < x /\ x \in Nat
      BY NodeOf
  <2>2. QED
      BY <1>0, <2>1, NextBehind
<1>5. /\ m1 \in Memories /\ m1[a] \in MMNodes
      /\ m1[a].next = x /\ m1[a].prev = p /\ m1[a].memSize = m[a].memSize /\ m1[a].isFree = TRUE
      /\ \A b \in Addresses \ {a} : m1[b] = m[b]
  <2>1. [m[a] EXCEPT !.isFree = TRUE] \in MMNodes
      BY <1>1 DEF MMNodes
  <2>2. m1[a] = [m[a] EXCEPT !.isFree = TRUE] /\ (\A b \in Addresses \ {a} : m1[b] = m[b])
      BY <1>1 DEF Memories
  <2>3. m1 \in Memories
      BY <2>1 DEF Memories
  <2>4. QED
      BY <1>0, <1>1, <2>1, <2>2, <2>3 DEF MMNodes
<1> HIDE DEF m1
<1>6. PICK size, next, m2 :
          /\ size = IF Merges(m, a) THEN m[a].memSize + m[x].memSize + 1 ELSE m[a].memSize
          /\ next = m[LastPart(m, a)].next
          /\ m2 = MergeNext(m1, a)
    OBVIOUS
<1>7. size \in Nat /\ next \in Addresses \cup {Null} /\ a + 1 + size = NodeEnd(m, LastPart(m, a))
  <2>1. CASE Merges(m, a)
      BY <1>0, <1>1, <1>4, <1>6, <2>1 DEF Merges, LastPart
  <2>2. CASE ~Merges(m, a)
      BY <1>0, <1>1, <1>6, <2>2 DEF LastPart
  <2>3. QED
      BY <2>1, <2>2
<1>8. /\ m2 \in Memories /\ m2[a] \in MMNodes
      /\ m2[a].next = next /\ m2[a].prev = p /\ m2[a].memSize = size /\ m2[a].isFree = TRUE
      /\ \A b \in Addresses \ {a} : m2[b] = m[b]
  <2>1. CASE Merges(m, a)
    <3>1. x # Null /\ x # a /\ m1[x] = m[x] /\ m[x].isFree
        BY <1>0, <1>1, <1>4, <1>5, <2>1 DEF Merges
    <3>2. m2 = Put(m1, a, Grown(m1[a], m1[a].memSize + m1[x].memSize + 1, m1[x].next))
        BY <1>5, <1>6, <3>1, MergeNextIs
    <3>3. m1[a].memSize + m1[x].memSize + 1 = size /\ m1[x].next = next
        BY <1>0, <1>5, <1>6, <2>1, <3>1 DEF LastPart
    <3>4. PICK y : y = Grown(m1[a], size, next)
        OBVIOUS
    <3>5. y \in MMNodes /\ y.next = next /\ y.prev = p /\ y.memSize = size /\ y.isFree = TRUE
        BY <1>5, <1>7, <3>4, GrownIs
    <3>6. m1 \in Memories /\ a \in Addresses /\ y \in MMNodes /\ m2 = Put(m1, a, y)
        BY <1>1, <1>5, <3>2, <3>3, <3>4, <3>5
    <3>7. m2[a] = y /\ (\A b \in Addresses \ {a} : m2[b] = m1[b]) /\ m2 \in Memories
        BY <3>6, PutIs
    <3>8. QED
        BY <1>5, <3>5, <3>7
  <2>2. CASE ~Merges(m, a)
    <3>1. x # Null => m1[x] = m[x] /\ ~m[x].isFree
        BY <1>0, <1>1, <1>4, <1>5, <2>2 DEF Merges
    <3>2. m2 = m1
        BY <1>5, <1>6, <3>1, MergeNextIs
    <3>3. next = x /\ size = m[a].memSize
        BY <1>0, <1>6, <2>2 DEF LastPart
    <3>4. QED
        BY <1>5, <3>2, <3>3
  <2>3. QED
      BY <2>1, <2>2
<1>9. Freed(m, a) = MergePrev(m2, a)
    BY <1>6 DEF Freed, m1
<1>10. p # a /\ m2[p] = m[p]
    BY <1>1, <1>2, <1>3, <1>8
<1>11. CASE m[p].isFree
  <2>1. PICK y, n : y = Grown(m[p], m[p].memSize + size + 1, next) /\ n = Put(m2, p, y)
      OBVIOUS
  <2>2. MergePrev(m2, a) = n
      BY <1>2, <1>8, <1>10, <1>11, <2>1, MergePrevIs
  <2>3. m[p].memSize + size + 1 \in Nat
      BY <1>2, <1>7
  <2>4. y \in MMNodes /\ y.next = next /\ y.prev = m[p].prev /\ y.memSize = m[p].memSize + size + 1
        /\ y.isFree = m[p].isFree
    <3>1. PICK e, s : e = m[p] /\ s = m[p].memSize + size + 1
        OBVIOUS
    <3>2. e \in MMNodes /\ s \in Nat /\ y = Grown(e, s, next)
        BY <1>2, <2>1, <2>3, <3>1
    <3>3. /\ y \in MMNodes /\ y.next = next /\ y.memSize = s
          /\ y.prev = e.prev /\ y.isFree = e.isFree
        BY <1>7, <3>2, GrownIs
    <3>4. QED
        BY <3>1, <3>3
  <2>5. n[p] = y /\ (\A b \in Addresses \ {p} : n[b] = m2[b]) /\ n \in Memories
      BY <1>2, <1>8, <2>1, <2>4, PutIs
  <2>6. Merger(m, a) = p
      BY <1>0, <1>11 DEF Merger
  <2>7. NodeEnd(n, p) = NodeEnd(m, LastPart(m, a))
      BY <1>1, <1>2, <1>3, <1>7, <2>4, <2>5 DEF NodeEnd
  <2>8. \A b \in H \ {a, p} : n[b] = m[b]
      BY <1>8, <2>5, NodeOf
  <2>9. y.isFree = TRUE
      BY <1>2, <1>11, <2>4
  <2>10. Merged(m, H, a, n)
      BY <1>6, <2>4, <2>5, <2>6, <2>7, <2>8, <2>9 DEF Merged
  <2>11. QED
      BY <1>9, <2>2, <2>5, <2>10
<1>12. CASE ~m[p].isFree
  <2>1. MergePrev(m2, a) = m2
      BY <1>2, <1>8, <1>10, <1>12, MergePrevIs
  <2>2. Merger(m, a) = a
      BY <1>0, <1>12 DEF Merger
  <2>3. NodeEnd(m2, a) = NodeEnd(m, LastPart(m, a))
      BY <1>7, <1>8 DEF NodeEnd
  <2>4. \A b \in H \ {a} : m2[b] = m[b]
      BY <1>8, NodeOf
  <2>5. Merged(m, H, a, m2)
      BY <1>0, <1>6, <1>8, <2>2, <2>3, <2>4 DEF Merged
  <2>6. QED
      BY <1>8, <1>9, <2>1, <2>5
<1>13. QED
    BY <1>11, <1>12

LEMMA MergedChain ==
    ASSUME NEW m, NEW H, Chain(m, H), NEW a \in H,
           m[a].prev \in H, m[m[a].prev].next = a, a # Root, ~m[Root].isFree,
           NEW n, Merged(m, H, a, n)
    PROVE  /\ Chain(n, H \ Absorbed(m, a)) /\ Merger(m, a) \in H \ Absorbed(m, a)
           /\ \A b \in Absorbed(m, a) : b \in H /\ b # Root
<1> DEFINE p == m[a].prev
           x == m[a].next
           q == Merger(m, a)
           z == LastPart(m, a)
           G == H \ Absorbed(m, a)
<1>1. \A b \in H : /\ b \in Nat /\ m[b] \in MMNodes /\ m[b].memSize \in Nat /\ NodeEnd(m, b) <= Total
                   /\ NodeEnd(m, b) \in Nat /\ b < NodeEnd(m, b) /\ b \in Addresses
  <2>1. TAKE b \in H
  <2>2. /\ b \in Nat /\ m[b] \in MMNodes /\ m[b].memSize \in Nat /\ NodeEnd(m, b) = b + 1 + m[b].memSize
        /\ b \in Addresses
      BY NodeOf
  <2>3. QED
      BY <2>2 DEF Chain
<1>2. p \in H /\ p < a /\ m[p].next = a /\ m[p].next # Null
  <2>1. m[p].next # Null
      BY <1>1, SizesOf
  <2>2. QED
      BY <2>1, NextBehind
<1>3. x # Null => x \in H /\ a < x
    BY NextBehind
<1>4. z \in H /\ (z = a \/ (z = x /\ x # Null /\ Merges(m, a)))
    BY <1>3 DEF LastPart, Merges
<1>5. q \in H /\ (q = a \/ (q = p /\ m[p].isFree))
    BY <1>2 DEF Merger
<1>6. \A b \in Absorbed(m, a) : \/ b = x /\ Merges(m, a) /\ z = x /\ x # Null
                                \/ b = a /\ q = p /\ m[p].isFree
    BY DEF Absorbed, Merger, LastPart, Merges
<1>7. /\ Merges(m, a) => x \in Absorbed(m, a) /\ z = x
      /\ m[p].isFree => a \in Absorbed(m, a) /\ q = p
      /\ ~m[p].isFree => q = a
      /\ ~Merges(m, a) => z = a
    BY DEF Absorbed, Merger, LastPart
<1>8. \A b \in H \ {a, q} : n[b] = m[b] /\ NodeEnd(n, b) = NodeEnd(m, b)
    BY DEF Merged, NodeEnd
<1>9. n[q] \in MMNodes /\ n[q].next = m[z].next /\ NodeEnd(n, q) = NodeEnd(m, z)
    BY DEF Merged
<1> HIDE DEF p, x, q, z
<1>10. \A b \in Absorbed(m, a) : b \in H /\ b # Root
  <2>1. Root \in H /\ Root = 0 /\ a \in Nat
      BY <1>1, SizesOf DEF Chain
  <2>2. x # Null => x # Root
      BY <1>1, <1>3, <2>1
  <2>3. QED
      BY <1>3, <1>6, <2>2
<1>11. q \in G /\ \A b \in G : b = q \/ (b \in H \ {a, q})
  <2>1. q \notin Absorbed(m, a)
    <3>1. q # x \/ x = Null
        BY <1>1, <1>2, <1>3, <1>5
    <3>2. q = p => q # a
        BY <1>1, <1>2
    <3>3. QED
        BY <1>6, <3>1, <3>2
  <2>2. \A b \in G : b = a => q = a
      BY <1>5, <1>7
  <2>3. QED
      BY <1>5, <2>1, <2>2
<1>12. ASSUME NEW b \in G, q < b
       PROVE  NodeEnd(m, z) <= b
  <2>1. b \in H /\ b \in Nat /\ b \notin Absorbed(m, a) /\ q \in Nat /\ z \in Nat
      BY <1>1, <1>4, <1>5
  <2>2. a <= b
    <3>1. CASE q = a
        BY <1>1, <1>12, <2>1, <3>1
    <3>2. CASE q = p
        BY <1>2, <1>12, <2>1, <3>2, NextIs
    <3>3. QED
        BY <1>5, <3>1, <3>2
  <2>3. a # b
    <3>1. CASE q = a
        BY <1>12, <2>1, <3>1
    <3>2. CASE q = p /\ m[p].isFree
        BY <1>7, <2>1, <3>2
    <3>3. QED
        BY <1>5, <3>1, <3>2
  <2>4. a < b
      BY <1>1, <2>1, <2>2, <2>3
  <2>5. CASE Merges(m, a)
    <3>1. x <= b /\ x \in Nat
        BY <2>1, <2>4, NextIs DEF x
    <3>2. x # b
        BY <1>7, <2>1, <2>5
    <3>3. x < b /\ z = x /\ x \in H
        BY <1>4, <1>7, <2>1, <2>5, <3>1, <3>2
    <3>4. QED
        BY <2>1, <3>3 DEF Chain
  <2>6. CASE ~Merges(m, a)
      BY <1>7, <2>1, <2>4, <2>6 DEF Chain
  <2>7. QED
      BY <2>5, <2>6
<1>13. ASSUME NEW b \in G, n[b].next # Null
       PROVE  n[b].next \in G
  <2>1. CASE b = q
    <3>1. m[z].next \in H /\ z < m[z].next /\ m[z].next \in Nat
        BY <1>4, <1>9, <1>13, <2>1, NextBehind
    <3>2. m[z].next \notin Absorbed(m, a)
      <4>1. a <= z /\ z \in Nat
          BY <1>1, <1>3, <1>4
      <4>2. a < m[z].next
          BY <1>1, <3>1, <4>1
      <4>3. QED
          BY <1>1, <1>6, <3>1, <4>2
    <3>3. QED
        BY <1>9, <2>1, <3>1, <3>2
  <2>2. CASE b \in H \ {a, q}
    <3>1. n[b].next = m[b].next /\ m[b].next \in H
        BY <1>8, <1>13, <2>2 DEF Chain
    <3>2. m[b].next = x => b = a
        BY <1>8, <1>13, <2>2, OnePrevious DEF x
    <3>3. m[b].next = a => b = p
        BY <1>2, <1>8, <1>13, <2>2, OnePrevious
    <3>4. m[b].next \notin Absorbed(m, a)
        BY <1>6, <2>2, <3>2, <3>3
    <3>5. QED
        BY <3>1, <3>4
  <2>3. QED
      BY <1>11, <2>1, <2>2
<1>14. Chain(n, G)
  <2>1. G \subseteq Addresses /\ Root \in G
      BY <1>10 DEF Chain
  <2>2. \A b \in G : n[b] \in MMNodes /\ NodeEnd(n, b) <= Total
      BY <1>1, <1>4, <1>8, <1>9, <1>11
  <2>3. \A b \in G : n[b].next = IF NodeEnd(n, b) = Total THEN Null ELSE NodeEnd(n, b)
      BY <1>4, <1>8, <1>9, <1>11 DEF Chain
  <2>4. ASSUME NEW b \in G, NEW c \in G, b < c
        PROVE  NodeEnd(n, b) <= c
    <3>1. CASE b = q
        BY <1>9, <1>12, <2>4, <3>1
    <3>2. CASE b \in H \ {a, q}
        BY <1>8, <2>4, <3>2 DEF Chain
    <3>3. QED
        BY <1>11, <3>1, <3>2
  <2>5. QED
      BY <1>13, <2>1, <2>2, <2>3, <2>4 DEF Chain
<1>15. QED
    BY <1>10, <1>11, <1>14 DEF q

LEMMA RemovedIs ==
    ASSUME NEW S, NEW l \in Seq(S), NEW i \in 1..Len(l)
    PROVE  /\ RemoveAt(l, i) \in Seq(S) /\ Len(RemoveAt(l, i)) = Len(l) - 1
           /\ \A h \in 1..(Len(l) - 1) : RemoveAt(l, i)[h] = IF h < i THEN l[h] ELSE l[h + 1]
<1> DEFINE s == SubSeq(l, 1, i - 1)
           t == SubSeq(l, i + 1, Len(l))
<1>1. Len(l) \in Nat /\ i \in Nat /\ 1 <= i /\ i <= Len(l)
    OBVIOUS
<1>2. s \in Seq(S) /\ Len(s) = i - 1 /\ \A h \in 1..(i - 1) : s[h] = l[h]
    BY <1>1
<1>3. t \in Seq(S) /\ Len(t) = Len(l) - i /\ \A h \in 1..(Len(l) - i) : t[h] = l[i + h]
    BY <1>1
<1>4. RemoveAt(l, i) = s \o t
    BY DEF RemoveAt
<1> HIDE DEF s, t
<1>5. s \o t \in Seq(S) /\ Len(s \o t) = Len(l) - 1
  <2>0. s \in Seq(S) /\ t \in Seq(S)
      BY <1>2, <1>3
  <2>1. s \o t \in Seq(S) /\ Len(s \o t) = Len(s) + Len(t)
      BY <2>0
  <2>2. Len(s) + Len(t) = Len(l) - 1
      BY <1>1, <1>2, <1>3
  <2>3. QED
      BY <2>1, <2>2
<1>6. ASSUME NEW h \in 1..(Len(l) - 1)
      PROVE  (s \o t)[h] = IF h < i THEN l[h] ELSE l[h + 1]
  <2>1. CASE h < i
    <3>1. h \in 1..(i - 1) /\ h <= Len(s)
        BY <1>1, <1>2, <2>1
    <3>2. (s \o t)[h] = s[h]
        BY <1>2, <1>3, <3>1
    <3>3. QED
        BY <1>2, <2>1, <3>1, <3>2
  <2>2. CASE ~(h < i)
    <3>1. h > Len(s) /\ h <= Len(s) + Len(t) /\ h - (i - 1) \in 1..(Len(l) - i) /\ i + (h - (i - 1)) = h + 1
        BY <1>1, <1>2, <1>3, <2>2
    <3>2. (s \o t)[h] = t[h - Len(s)]
      <4>1. s \in Seq(S) /\ t \in Seq(S) /\ Len(s) \in Nat /\ Len(t) = Len(l) - i
          BY <1>2, <1>3
      <4>2. h \in 1..(Len(s) + Len(t)) /\ ~(h <= Len(s))
          BY <1>1, <3>1, <4>1
      <4>3. QED
          BY ONLY <4>1, <4>2
    <3>3. t[h - (i - 1)] = l[h + 1]
        BY <1>3, <3>1
    <3>4. QED
        BY <1>2, <2>2, <3>2, <3>3
  <2>3. QED
      BY <2>1, <2>2
<1>7. QED
    BY <1>4, <1>5, <1>6

\* The block that is given back may be the youngest one, or the one before it when
\* the youngest one has just been taken.
LEMMA MergedSound ==
    ASSUME NEW m, NEW H, NEW l \in Seq(Blocks), Sound(m, H, l),
           NEW i \in 1..Len(l), Len(l) <= i + 1, NEW a, a = l[i].addr,
           m[a].prev \in H, m[m[a].prev].next = a,
           \A j \in (i + 1)..Len(l) :
              \/ \E o \in Older(l, j) \ {a} : Behind(m, H, l[j].addr, o, Younger(l, j))
              \/ m[a].next = l[j].addr /\ m[l[j].addr].prev = a /\ ~m[m[a].prev].isFree,
           NEW n, Merged(m, H, a, n)
    PROVE  RemoveAt(l, i) \in Seq(Blocks) /\ Sound(n, H \ Absorbed(m, a), RemoveAt(l, i))
<1> DEFINE k == RemoveAt(l, i)
           G == H \ Absorbed(m, a)
<1>0. PICK p, x, q : p = m[a].prev /\ x = m[a].next /\ q = Merger(m, a)
    OBVIOUS
<1>1. Chain(m, H) /\ RootKept(m, H) /\ FreeLinked(m, H) /\ Owners(m, H, l) /\ Nested(m, H, l)
    BY DEF Sound
<1>2. a \in H /\ a # Root /\ ~m[a].isFree
    BY <1>1 DEF Owners
<1>3. Chain(n, G) /\ q \in G /\ \A b \in Absorbed(m, a) : b \in H /\ b # Root
  <2>1. a \in H /\ a # Root /\ ~m[Root].isFree /\ Chain(m, H)
      BY <1>1, <1>2 DEF RootKept
  <2>2. /\ Chain(n, H \ Absorbed(m, a)) /\ Merger(m, a) \in H \ Absorbed(m, a)
        /\ \A b \in Absorbed(m, a) : b \in H /\ b # Root
      BY ONLY <2>1, MergedChain, m[a].prev \in H, m[m[a].prev].next = a, Merged(m, H, a, n)
  <2>3. QED
      BY <1>0, <2>2
<1>4. \A b \in H : b \in Nat /\ m[b].isFree \in BOOLEAN /\ b \in Addresses
    BY <1>1, NodeOf
<1>5. p \in H /\ p < a /\ m[p].next = a /\ p # a
  <2>1. m[p].next # Null /\ p \in H /\ m[p].next = a
      BY <1>0, <1>2, <1>4, SizesOf
  <2>2. p < a
      BY <1>1, <2>1, NextBehind
  <2>3. QED
      BY <1>2, <1>4, <2>1, <2>2
<1>6. x # Null => x \in H /\ a < x
    BY <1>0, <1>1, <1>2, NextBehind
<1>7. /\ \A b \in Absorbed(m, a) : \/ b = x /\ x # Null /\ m[x].isFree
                                   \/ b = a /\ q = p /\ m[p].isFree
      /\ x # Null /\ m[x].isFree => x \in Absorbed(m, a)
      /\ m[p].isFree => q = p /\ a \in Absorbed(m, a)
      /\ ~m[p].isFree => q = a
    BY <1>0 DEF Absorbed, Merger, Merges
<1>8. \A b \in H \ {a, q} : n[b] = m[b]
    BY <1>0 DEF Merged
<1>9. n[q].isFree = TRUE /\ n[q].prev = m[q].prev
    BY <1>0 DEF Merged
<1>10. /\ k \in Seq(Blocks) /\ Len(k) = Len(l) - 1 /\ Len(l) \in Nat
       /\ \A h \in 1..(Len(l) - 1) : k[h] = IF h < i THEN l[h] ELSE l[h + 1]
  <2>1. Len(l) \in Nat
      OBVIOUS
  <2> HIDE DEF G
  <2>2. QED
      BY <2>1, RemovedIs, Zenon
<1> HIDE DEF k, G
<1>11. G \subseteq H /\ \A b \in G : b = q \/ b \in H \ {a, q}
  <2>1. \A b \in G : b = a => q = a
      BY <1>7 DEF G
  <2>2. QED
      BY <2>1 DEF G
\* What is in use, but not given back, stays as it is.
<1>12. \A b \in H \ {a} : ~m[b].isFree => n[b] = m[b] /\ b \in G
  <2>1. \A b \in H \ {a} : ~m[b].isFree => b # q /\ b \notin Absorbed(m, a)
      BY <1>7
  <2>2. QED
      BY <1>8, <2>1 DEF G
<1>13. Root \in H /\ n[Root] = m[Root] /\ Root = 0
    BY <1>1, <1>2, <1>12, SizesOf DEF RootKept, Chain
<1>14. RootKept(n, G)
  <2>1. Root + 1 \notin Absorbed(m, a)
    <3>1. a \in Nat /\ a >= 1
        BY <1>2, <1>4, <1>13
    <3>2. ASSUME x # Null
          PROVE  x # Root + 1
      <4>1. x \in Nat /\ a < x
          BY <1>4, <1>6, <3>2
      <4>2. QED
          BY <1>13, <3>1, <4>1
    <3>3. a = Root + 1 => p = Root
      <4>1. p \in Nat /\ p < a
          BY <1>4, <1>5
      <4>2. Root = 0
          BY <1>13
      <4>3. QED
          BY <4>1, <4>2
    <3>4. QED
        BY <1>1, <1>7, <3>2, <3>3 DEF RootKept
  <2>2. QED
      BY <1>1, <1>13, <2>1 DEF RootKept, G
<1>15. FreeLinked(n, G)
  <2>1. SUFFICES ASSUME NEW b \in G, n[b].isFree
                 PROVE  n[b].prev \in G /\ ~n[n[b].prev].isFree /\ n[n[b].prev].next = b
      BY DEF FreeLinked
  <2>2. CASE b = q /\ ~m[p].isFree
    <3>1. b = a /\ n[b].prev = p
        BY <1>0, <1>7, <1>9, <2>2
    <3>2. n[p] = m[p] /\ p \in G
        BY <1>5, <1>12, <2>2
    <3>3. QED
        BY <1>5, <2>2, <3>1, <3>2
  <2>3. CASE b = q /\ m[p].isFree
    <3> DEFINE c == m[p].prev
    <3>1. q = p /\ c \in H /\ ~m[c].isFree /\ m[c].next = p
        BY <1>1, <1>5, <1>7, <2>3 DEF FreeLinked
    <3>2. m[c].next # Null
        BY <1>4, <1>5, <3>1, SizesOf
    <3>3. c < p
        BY <1>1, <3>1, <3>2, NextBehind
    <3>4. c # a
        BY <1>4, <1>5, <3>1, <3>3
    <3>5. n[c] = m[c] /\ c \in G
        BY <1>12, <3>1, <3>4
    <3>6. QED
        BY <1>9, <2>3, <3>1, <3>5
  <2>4. CASE b \in H \ {a, q}
    <3> DEFINE c == m[b].prev
    <3>1. n[b] = m[b] /\ c \in H /\ ~m[c].isFree /\ m[c].next = b
        BY <1>1, <1>8, <2>1, <2>4 DEF FreeLinked
    <3>2. c # a
      <4>1. SUFFICES ASSUME c = a PROVE FALSE
          OBVIOUS
      <4>2. x = b /\ x # Null /\ m[x].isFree
          BY <1>0, <1>4, <2>1, <2>4, <3>1, <4>1, SizesOf
      <4>3. QED
          BY <1>7, <2>1, <4>2 DEF G
    <3>3. QED
        BY <1>12, <3>1, <3>2
  <2>5. QED
      BY <1>11, <2>2, <2>3, <2>4
<1>16. \A e \in 1..Len(l) : e # i => /\ l[e].addr \in G \ {Root} /\ l[e].addr # a
                                     /\ n[l[e].addr] = m[l[e].addr] /\ ~m[l[e].addr].isFree
                                     /\ l[e].size = m[l[e].addr].memSize
  <2>1. TAKE e \in 1..Len(l)
  <2>2. HAVE e # i
  <2>3. /\ l[e].addr \in H \ {Root} /\ ~m[l[e].addr].isFree /\ l[e].addr # a
        /\ l[e].size = m[l[e].addr].memSize
      BY <1>1, <2>2 DEF Owners
  <2>4. QED
      BY <1>12, <2>3
\* Every block of k is another block of l, and the other way round.
<1>17. \A h \in 1..Len(k) : \E e \in 1..Len(l) : e # i /\ k[h] = l[e] /\ e = IF h < i THEN h ELSE h + 1
    BY <1>10
<1>18. \A e \in 1..Len(l) : e # i => \E h \in 1..Len(k) : k[h] = l[e] /\ h = IF e < i THEN e ELSE e - 1
  <2>1. TAKE e \in 1..Len(l)
  <2>2. HAVE e # i
  <2>3. CASE e < i
      BY <1>10, <2>3
  <2>4. CASE i < e
    <3>1. e - 1 \in 1..Len(k) /\ ~(e - 1 < i) /\ (e - 1) + 1 = e /\ ~(e < i)
        BY <1>10, <2>4
    <3>2. k[e - 1] = l[e]
        BY <1>10, <3>1
    <3>3. QED
        BY <3>1, <3>2
  <2>5. QED
      BY <2>2, <2>3, <2>4
<1>19. Owners(n, G, k)
  <2>1. \A h \in 1..Len(k) : /\ k[h].addr \in G \ {Root} /\ ~n[k[h].addr].isFree
                             /\ k[h].size = n[k[h].addr].memSize
      BY <1>16, <1>17
  <2>2. ASSUME NEW b \in G \ {Root}
        PROVE  n[b].isFree \/ \E h \in 1..Len(k) : b = k[h].addr
    <3>1. CASE b = q
        BY <1>9, <3>1
    <3>2. CASE b \in H \ {a, q}
      <4>1. m[b].isFree \/ \E e \in 1..Len(l) : b = l[e].addr
          BY <1>1, <3>2 DEF Owners
      <4>2. \A e \in 1..Len(l) : b = l[e].addr => e # i
          BY <3>2
      <4>3. QED
          BY <1>8, <1>18, <3>2, <4>1, <4>2
    <3>3. QED
        BY <1>11, <3>1, <3>2
  <2>3. ASSUME NEW g \in 1..Len(k), NEW h \in 1..Len(k), k[g].addr = k[h].addr
        PROVE  g = h
    <3>1. PICK d \in 1..Len(l) : k[g] = l[d] /\ d = IF g < i THEN g ELSE g + 1
        BY <1>17
    <3>2. PICK e \in 1..Len(l) : k[h] = l[e] /\ e = IF h < i THEN h ELSE h + 1
        BY <1>17
    <3>3. d = e
        BY <1>1, <2>3, <3>1, <3>2 DEF Owners
    <3>4. QED
        BY <1>10, <3>1, <3>2, <3>3
  <2>4. QED
      BY <2>1, <2>2, <2>3 DEF Owners
<1>20. Nested(n, G, k)
  <2>1. SUFFICES ASSUME NEW h \in 1..Len(k)
                 PROVE  \E o \in Older(k, h) : Behind(n, G, k[h].addr, o, Younger(k, h))
      BY DEF Nested
  <2>2. PICK e \in 1..Len(l) : e # i /\ k[h] = l[e] /\ e = IF h < i THEN h ELSE h + 1
      BY <1>17
  <2>3. PICK c : c = l[e].addr /\ c = k[h].addr
      BY <2>2
  <2>4. c \in G /\ n[c] = m[c] /\ c # a /\ c # Root /\ ~m[c].isFree
      BY <1>16, <2>2, <2>3
  <2>5. ASSUME NEW o \in Older(l, e) \ {a}, Behind(m, H, c, o, Younger(l, e))
        PROVE  o \in Older(k, h) /\ Behind(n, G, c, o, Younger(k, h))
    <3>1. o \in Older(k, h)
      <4>1. CASE o = Root
          BY <4>1 DEF Older
      <4>2. CASE o # Root
        <5>1. PICK j \in 1..(e - 1) : o = l[j].addr
            BY <2>5, <4>2 DEF Older
        <5>2. j \in 1..Len(l) /\ j # i
            BY <1>10, <2>5, <5>1
        <5>3. PICK d \in 1..Len(k) : k[d] = l[j] /\ d = IF j < i THEN j ELSE j - 1
            BY <1>18, <5>2
        <5>4. d \in 1..(h - 1)
            BY <1>10, <2>2, <5>1, <5>2, <5>3
        <5>5. QED
            BY <5>1, <5>3, <5>4 DEF Older
      <4>3. QED
          BY <4>1, <4>2
    <3>2. o \in H \ {a} /\ ~m[o].isFree
      <4>1. \A j \in 1..(e - 1) : j \in 1..Len(l)
          BY <1>10
      <4>2. QED
          BY <1>1, <1>13, <2>5, <4>1 DEF Older, Owners, RootKept
    <3>3. n[o] = m[o]
        BY <1>12, <3>2
    <3>4. ASSUME NEW b \in G, o < b, b < c
          PROVE  n[b].isFree \/ b \in Younger(k, h)
      <4>1. CASE b = q
          BY <1>9, <4>1
      <4>2. CASE b \in H \ {a, q}
        <5>1. m[b].isFree \/ b \in Younger(l, e)
            BY <2>5, <3>4, <4>2 DEF Behind
        <5>2. ASSUME b \in Younger(l, e)
              PROVE  b \in Younger(k, h)
          <6>1. PICK j \in (e + 1)..Len(l) : b = l[j].addr
              BY <5>2 DEF Younger
          <6>2. j \in 1..Len(l) /\ j # i
              BY <1>10, <4>2, <6>1
          <6>3. PICK d \in 1..Len(k) : k[d] = l[j] /\ d = IF j < i THEN j ELSE j - 1
              BY <1>18, <6>2
          <6>4. d \in (h + 1)..Len(k)
            <7>1. /\ Len(l) \in Nat /\ Len(k) = Len(l) - 1 /\ i \in 1..Len(l)
                  /\ h \in 1..Len(k) /\ j \in (e + 1)..Len(l) /\ e = IF h < i THEN h ELSE h + 1
                  /\ d \in 1..Len(k) /\ d = IF j < i THEN j ELSE j - 1
                BY <1>10, <2>2, <6>1, <6>3
            <7>2. QED
                BY ONLY <6>2, <7>1
          <6>5. QED
              BY <6>1, <6>3, <6>4 DEF Younger
        <5>3. QED
            BY <1>8, <4>2, <5>1, <5>2
      <4>3. QED
          BY <1>11, <3>4, <4>1, <4>2
    <3>5. QED
        BY <2>4, <2>5, <3>1, <3>3, <3>4 DEF Behind
  <2>6. CASE \E o \in Older(l, e) \ {a} : Behind(m, H, c, o, Younger(l, e))
      BY <2>3, <2>5, <2>6
  <2>7. CASE e < i
    <3>1. PICK o \in Older(l, e) : Behind(m, H, c, o, Younger(l, e))
        BY <1>1, <2>3 DEF Nested
    <3>2. \A j \in 1..(e - 1) : j \in 1..Len(l) /\ j # i
      <4>1. Len(l) \in Nat /\ i \in 1..Len(l) /\ e \in 1..Len(l)
          BY <1>10, <2>2
      <4>2. QED
          BY ONLY <2>7, <4>1
    <3>3. o # a
        BY <1>2, <1>16, <3>1, <3>2 DEF Older
    <3>4. QED
        BY <2>6, <3>1, <3>3
  <2>8. CASE m[a].next = c /\ m[c].prev = a /\ ~m[m[a].prev].isFree /\ i < e
    <3>1. x = c /\ m[c].prev = a /\ ~m[p].isFree /\ q = a
        BY <1>0, <1>7, <2>8
    <3>2. c \in H /\ c # Null /\ a < c
        BY <1>4, <1>6, <1>11, <2>4, <3>1, SizesOf
    <3>3. p \in Older(k, h)
      <4>1. CASE p = Root
          BY <4>1 DEF Older
      <4>2. CASE p # Root
        <5>1. PICK j \in 1..Len(l) : p = l[j].addr
            BY <1>1, <1>5, <3>1, <4>2 DEF Owners
        <5>2. j # i /\ j # e
          <6>1. p \in Nat /\ a \in Nat /\ c \in Nat
              BY <1>2, <1>4, <1>5, <3>2
          <6>2. p # c
              BY <1>5, <3>2, <6>1
          <6>3. QED
              BY <1>5, <2>3, <5>1, <6>2
        <5>3. e = i + 1 /\ h = i /\ j < i
            BY <1>10, <2>2, <2>8, <5>2
        <5>4. j \in 1..(h - 1) /\ k[j] = l[j]
            BY <1>10, <5>3
        <5>5. QED
            BY <5>1, <5>4 DEF Older
      <4>3. QED
          BY <4>1, <4>2
    <3>4. n[p] = m[p]
        BY <1>5, <1>12, <3>1
    <3>5. ASSUME NEW b \in G, p < b, b < c
          PROVE  n[b].isFree
      <4>1. b \in H /\ b \in Nat /\ a \in Nat /\ c \in Nat
          BY <1>2, <1>4, <1>11, <3>2
      <4>2. a <= b
          BY <1>1, <1>5, <3>5, <4>1, NextIs
      <4>3. ~(a < b)
        <5>1. SUFFICES ASSUME a < b PROVE FALSE
            OBVIOUS
        <5>2. m[a].next <= b
            BY <1>1, <1>2, <4>1, <5>1, NextIs
        <5>3. QED
            BY <2>8, <3>5, <4>1, <5>2
      <4>4. b = a
          BY <4>1, <4>2, <4>3
      <4>5. QED
          BY <1>9, <3>1, <4>4
    <3>6. p < c
        BY <1>2, <1>4, <1>5, <3>2
    <3>7. n[c].prev = IF n[p].next = c THEN p ELSE n[p].next
      <4>1. n[p].next = a /\ a # c
          BY <1>5, <2>4, <3>4
      <4>2. QED
          BY <2>4, <3>1, <4>1
    <3>8. Behind(n, G, c, p, Younger(k, h))
        BY <3>5, <3>6, <3>7 DEF Behind
    <3>9. QED
        BY <2>3, <3>3, <3>8
  <2>9. CASE i < e
    <3>1. e \in (i + 1)..Len(l)
        BY <1>10, <2>9
    <3>2. \/ \E o \in Older(l, e) \ {a} : Behind(m, H, c, o, Younger(l, e))
          \/ m[a].next = c /\ m[c].prev = a /\ ~m[m[a].prev].isFree
        BY <2>3, <3>1
    <3>3. QED
        BY <2>6, <2>8, <2>9, <3>2
  <2>10. QED
      BY <2>2, <2>7, <2>9
<1>21. Sound(n, G, k)
    BY <1>3, <1>14, <1>15, <1>19, <1>20 DEF Sound, G
<1>22. QED
    BY <1>10, <1>21 DEF k, G

-----------------------------------------------------------------------------
(* The walk along the list.                                                 *)

LEMMA LinkIs ==
    /\ Link[0] = mem[Root].next
    /\ \A n \in 1..Total : Link[n] = IF IsHeader(Link[n - 1]) THEN mem[Link[n - 1]].next ELSE Null
<1> DEFINE After(a) == IF IsHeader(a) THEN mem[a].next ELSE Null
           Walk(n, f) == f = [k \in 0..n |-> IF k = 0 THEN mem[Root].next ELSE After(f[k - 1])]
           K == {n \in 0..Total : \E f : Walk(n, f)}
<1>1. Total \in Nat
    BY SizesOf
<1> HIDE DEF After
<1>2. 0 \in K
  <2> DEFINE f == [k \in 0..0 |-> mem[Root].next]
  <2>1. f = [k \in 0..0 |-> IF k = 0 THEN mem[Root].next ELSE After(f[k - 1])]
      OBVIOUS
  <2> HIDE DEF f
  <2>2. Walk(0, f)
      BY <2>1
  <2> HIDE DEF Walk
  <2>3. QED
      BY <1>1, <2>2
<1>3. ASSUME NEW n \in K, n < Total
      PROVE  n + 1 \in K
  <2>1. PICK f : Walk(n, f)
      BY <1>3
  <2>2. n \in Nat /\ n + 1 \in 0..Total
      BY <1>1, <1>3
  <2> DEFINE g == [k \in 0..(n + 1) |-> IF k = n + 1 THEN After(f[n]) ELSE f[k]]
  <2>3. \A k \in 0..n : f[k] = IF k = 0 THEN mem[Root].next ELSE After(f[k - 1])
      BY <2>1
  <2>4. g = [k \in 0..(n + 1) |-> g[k]]
      OBVIOUS
  <2>5. (\A k \in 0..n : g[k] = f[k]) /\ g[n + 1] = After(f[n])
      BY <2>2
  <2> HIDE DEF g, K
  <2>6. ASSUME NEW k \in 0..(n + 1)
        PROVE  g[k] = IF k = 0 THEN mem[Root].next ELSE After(g[k - 1])
    <3>1. CASE k = n + 1
      <4>1. k # 0 /\ k - 1 = n /\ n \in 0..n
          BY <2>2, <3>1
      <4>2. QED
          BY <2>5, <3>1, <4>1
    <3>2. CASE k # n + 1
      <4>1. k \in 0..n /\ (k # 0 => k - 1 \in 0..n)
          BY <2>2, <3>2
      <4>2. QED
          BY <2>3, <2>5, <4>1
    <3>3. QED
        BY <3>1, <3>2
  <2>7. Walk(n + 1, g)
      BY <2>4, <2>6
  <2>8. QED
      BY <2>2, <2>7 DEF K
<1> HIDE DEF Walk
<1>4. \A n \in 0..Total : n \in K
  <2>1. K \in SUBSET (0..Total)
      OBVIOUS
  <2> HIDE DEF K
  <2>2. QED
      BY <1>1, <1>2, <1>3, <2>1, Climb
<1>5. \E f : Walk(Total, f)
    BY <1>1, <1>4
<1>6. Link = CHOOSE f : Walk(Total, f)
    BY DEF Link, Walk, After
<1>7. Walk(Total, Link)
    BY <1>5, <1>6
<1>8. Link = [k \in 0..Total |-> IF k = 0 THEN mem[Root].next ELSE After(Link[k - 1])]
    BY <1>7 DEF Walk
<1>9. 0 \in 0..Total /\ \A n \in 1..Total : n \in 0..Total /\ n # 0
    BY <1>1
<1>10. Link[0] = mem[Root].next /\ \A n \in 1..Total : Link[n] = After(Link[n - 1])
    BY <1>8, <1>9
<1>11. QED
    BY <1>10 DEF After

LEMMA LinkedIs ==
    ASSUME NEW H, Chain(mem, H)
    PROVE  Linked = H \ {Root}
<1> DEFINE K == {n \in 0..Total : Link[n] # Null => Link[n] \in H \ {Root} /\ n < Link[n]}
<1>1. Total \in Nat /\ Root \in H /\ Root = 0
    BY SizesOf DEF Chain
<1>2. \A a \in H : IsHeader(a) /\ a \in Nat /\ a < Total
  <2>1. TAKE a \in H
  <2>2. a \in Addresses /\ mem[a] \in MMNodes /\ a \in Nat /\ a < Total
      BY NodeOf
  <2>3. QED
      BY <2>2, SizesOf DEF IsHeader
<1>3. ~IsHeader(Null)
    BY SizesOf DEF IsHeader
<1>4. 0 \in K
  <2>1. mem[Root].next # Null => mem[Root].next \in H \ {Root} /\ 0 < mem[Root].next
      BY <1>1, NextBehind
  <2>2. QED
      BY <1>1, <2>1, LinkIs
<1>5. ASSUME NEW n \in K, n < Total
      PROVE  n + 1 \in K
  <2>1. n \in Nat /\ n + 1 \in 1..Total /\ n + 1 \in 0..Total /\ (n + 1) - 1 = n
      BY <1>1, <1>5
  <2>2. Link[n + 1] = IF IsHeader(Link[n]) THEN mem[Link[n]].next ELSE Null
      BY <2>1, LinkIs
  <2>3. CASE Link[n] = Null
      BY <1>3, <2>1, <2>2, <2>3
  <2>4. CASE Link[n] # Null
    <3>1. Link[n] \in H /\ n < Link[n] /\ Link[n] \in Nat
        BY <1>2, <1>5, <2>4
    <3>2. Link[n + 1] = mem[Link[n]].next
        BY <1>2, <2>2, <3>1
    <3>3. Link[n + 1] # Null => Link[n + 1] \in H /\ Link[n] < Link[n + 1] /\ Link[n + 1] \in Nat
        BY <3>1, <3>2, NextBehind
    <3>4. Link[n + 1] # Null => Link[n + 1] \in H \ {Root} /\ n + 1 < Link[n + 1]
        BY <1>1, <2>1, <3>1, <3>3
    <3>5. QED
        BY <2>1, <3>4
  <2>5. QED
      BY <2>3, <2>4
<1>6. \A n \in 0..Total : n \in K
  <2>1. K \in SUBSET (0..Total)
      OBVIOUS
  <2> HIDE DEF K
  <2>2. QED
      BY <1>1, <1>4, <1>5, <2>1, Climb
<1>7. \A n \in 0..Total : Link[n] # Null => Link[n] \in H \ {Root} /\ n < Link[n]
    BY <1>6
<1>8. Linked \subseteq H \ {Root}
    BY <1>7 DEF Linked
<1> DEFINE Rest0 == (H \ {Root}) \ Linked
<1>9. ASSUME Rest0 # {}
      PROVE  FALSE
  <2>1. Rest0 \in SUBSET Nat
      BY <1>2
  <2>2. PICK b \in Rest0 : \A c \in Rest0 : b <= c
      BY <1>9, <2>1, LeastExists
  <2>3. PICK a \in H : a < b /\ mem[a].next = b
      BY <2>2, PreviousExists
  <2>4. b \in H /\ b \in Nat /\ b # Null /\ b \notin Linked /\ a \in Nat
      BY <1>2, <2>2, SizesOf
  <2>5. CASE a = Root
    <3>1. Link[0] = b /\ 0 \in 0..Total
        BY <1>1, <2>3, <2>5, LinkIs
    <3>2. QED
        BY <2>4, <3>1 DEF Linked
  <2>6. CASE a # Root
    <3>1. a \in Linked
        BY <2>2, <2>3, <2>4, <2>6
    <3>2. PICK n \in 0..Total : Link[n] = a /\ a # Null
        BY <3>1 DEF Linked
    <3>3. n < a /\ a < Total
        BY <1>2, <1>7, <3>2
    <3>4. n + 1 \in 1..Total /\ (n + 1) - 1 = n /\ n + 1 \in 0..Total
        BY <1>1, <2>4, <3>3
    <3>5. Link[n + 1] = b
        BY <1>2, <2>3, <3>2, <3>4, LinkIs
    <3>6. QED
        BY <2>4, <3>4, <3>5 DEF Linked
  <2>7. QED
      BY <2>5, <2>6
<1>10. QED
    BY <1>8, <1>9

LEMMA FirstFitIs ==
    ASSUME NEW size, FirstFit(size) # Null
    PROVE  FirstFit(size) \in Linked /\ Fits(FirstFit(size), size)
<1> DEFINE fitting == {n \in 0..Total : Link[n] # Null /\ Fits(Link[n], size)}
<1>1. FirstFit(size) = IF fitting = {} THEN Null
                       ELSE Link[CHOOSE n \in fitting : \A m \in fitting : n <= m]
    BY DEF FirstFit
<1>2. fitting # {}
    BY <1>1
<1>3. fitting \in SUBSET Nat
    BY SizesOf
<1> DEFINE c == CHOOSE n \in fitting : \A m \in fitting : n <= m
<1>4. c \in fitting
  <2> HIDE DEF fitting
  <2>1. \E n \in fitting : \A m \in fitting : n <= m
      BY <1>2, <1>3, LeastExists
  <2>2. QED
      BY <2>1
<1>5. FirstFit(size) = Link[c]
    BY <1>1, <1>2
<1> HIDE DEF c
<1>6. QED
    BY <1>4, <1>5 DEF Linked

-----------------------------------------------------------------------------
(* The steps.                                                               *)

IInv == TypeOK /\ ~strayed /\ \E H : Sound(mem, H, live)

LEMMA BlocksForIs ==
    ASSUME NEW request \in Requests
    PROVE  BlocksFor(request) \in Nat \ {0}
<1>1. request \in Nat /\ BlockSize \in Nat /\ BlockSize > 0
    BY SizesOf
<1>2. (1 + request) \div BlockSize \in Nat
    BY <1>1
<1>3. ((1 + request) \div BlockSize) * BlockSize \in Nat
    BY <1>1, <1>2
<1>4. QED
    BY <1>1, <1>3 DEF BlocksFor

LEMMA TypesOf ==
    ASSUME TypeOK
    PROVE  mem \in Memories /\ live \in Seq(Blocks) /\ strayed \in BOOLEAN
BY DEF TypeOK, Memories, Blocks

\* The owner writes between its header and the next one.
LEMMA WrittenTaken ==
    ASSUME NEW m \in Memories, NEW H, Chain(m, H), NEW f \in H,
           NEW size \in Nat \ {0}, size <= m[f].memSize,
           NEW n \in {Split(m, f, size), Written(Split(m, f, size), f)}
    PROVE  n \in Memories /\ Taken(m, H, f, size, n) /\ n[f].memSize = Split(m, f, size)[f].memSize
<1> DEFINE G == H \cup Rest(m, f, size)
<1>0. PICK s : s = Split(m, f, size)
    OBVIOUS
<1>1. f \in Nat /\ f \in Addresses
    BY NodeOf
<1>2. s \in Memories /\ Taken(m, H, f, size, s)
  <2>1. \A b \in H : b \in Addresses /\ (m[f].memSize # size => b # f + size)
    <3>1. TAKE b \in H
    <3>2. b \in Addresses /\ b \in Nat
        BY NodeOf
    <3>3. ASSUME b = f + size
          PROVE  FALSE
      <4>1. f < b /\ m[f].memSize \in Nat /\ NodeEnd(m, f) = f + 1 + m[f].memSize
          BY <1>1, <3>3, NodeOf
      <4>2. NodeEnd(m, f) <= b
          BY <4>1 DEF Chain
      <4>3. QED
          BY <1>1, <3>3, <4>1, <4>2
    <3>4. QED
        BY <3>2, <3>3
  <2>2. /\ s \in Memories /\ s[f] \in MMNodes
        /\ s[f].isFree = FALSE /\ s[f].prev = m[f].prev
        /\ m[f].memSize = size =>
              /\ s[f].next = m[f].next /\ s[f].memSize = size
              /\ \A b \in Addresses \ {f} : s[b] = m[b]
        /\ m[f].memSize # size =>
              /\ s[f].next = f + size /\ s[f].memSize = size - 1
              /\ s[f + size] \in MMNodes
              /\ s[f + size].next = m[f].next /\ s[f + size].prev = f
              /\ s[f + size].memSize = m[f].memSize - size /\ s[f + size].isFree = TRUE
              /\ \A b \in Addresses \ {f, f + size} : s[b] = m[b]
    <3>1. PICK r : r = f + size
        OBVIOUS
    <3>2. size \in Nat /\ size # 0
        OBVIOUS
    <3>3. Divided(m, f, size, s, r)
        BY <1>0, <3>1, <3>2, SplitIs
    <3>4. QED
        BY <3>1, <3>3 DEF Divided
  <2>3. \A b \in H \ {f} : s[b] = m[b]
      BY <2>1, <2>2
  <2>4. QED
      BY <2>2, <2>3 DEF Taken
<1>3. Chain(s, G) /\ f \in G /\ H \subseteq G
    BY <1>2, TakenChain
<1>4. CASE n = s
    BY <1>0, <1>2, <1>4
<1>5. CASE n = Written(s, f)
  <2>1. n = [b \in Addresses |-> IF b > f /\ b <= f + s[f].memSize THEN Data ELSE s[b]]
      BY <1>5 DEF Written
  <2>2. n \in Memories
    <3>1. \A b \in Addresses : s[b] \in MMNodes \cup {Data}
        BY <1>2 DEF Memories
    <3>2. QED
        BY <2>1, <3>1 DEF Memories
  <2>3. \A b \in G : n[b] = s[b]
    <3>1. TAKE b \in G
    <3>2. b \in Addresses /\ b \in Nat /\ s[f].memSize \in Nat /\ NodeEnd(s, f) = f + 1 + s[f].memSize
        BY <1>3, NodeOf
    <3>3. ~(b > f /\ b <= f + s[f].memSize)
      <4>1. SUFFICES ASSUME b > f PROVE ~(b <= f + s[f].memSize)
          OBVIOUS
      <4>2. NodeEnd(s, f) <= b
          BY <1>1, <1>3, <3>2, <4>1 DEF Chain
      <4>3. QED
          BY <1>1, <3>2, <4>2
    <3>4. QED
        BY <2>1, <3>2, <3>3
  <2>4. n[f] = s[f] /\ (\A b \in H : n[b] = s[b])
      BY <1>3, <2>3
  <2>5. m[f].memSize # size => n[f + size] = s[f + size]
      BY <2>3 DEF Rest
  <2>6. Taken(m, H, f, size, n)
      BY <1>2, <2>4, <2>5 DEF Taken
  <2>7. QED
      BY <1>0, <2>2, <2>4, <2>6
<1>6. QED
    BY <1>0, <1>4, <1>5

\* The `prev` of the youngest block leads to the node in front.
LEMMA TopPlaced ==
    ASSUME NEW m, NEW H, NEW l \in Seq(Blocks), Sound(m, H, l), l # <<>>,
           NEW a, a = l[Len(l)].addr
    PROVE  a \in H /\ m[a].prev \in H /\ m[m[a].prev].next = a /\ ~m[a].isFree
<1>1. Chain(m, H) /\ FreeLinked(m, H) /\ Owners(m, H, l) /\ Nested(m, H, l) /\ RootKept(m, H)
    BY DEF Sound
<1>2. Len(l) \in Nat /\ Len(l) \in 1..Len(l)
    OBVIOUS
<1>3. a \in H /\ ~m[a].isFree
    BY <1>1, <1>2 DEF Owners
<1>4. PICK o \in Older(l, Len(l)) : Behind(m, H, a, o, Younger(l, Len(l)))
    BY <1>1, <1>2 DEF Nested
<1>5. o \in H
  <2>1. \A j \in 1..(Len(l) - 1) : j \in 1..Len(l)
      BY <1>2
  <2>2. QED
      BY <1>1, <1>4, <2>1 DEF Older, Owners, Chain
<1>6. Younger(l, Len(l)) = {}
  <2>1. \A j \in (Len(l) + 1)..Len(l) : FALSE
      BY <1>2
  <2>2. QED
      BY <2>1 DEF Younger
<1>7. o < a /\ (\A b \in H : o < b /\ b < a => m[b].isFree)
      /\ m[a].prev = IF m[o].next = a THEN o ELSE m[o].next
    BY <1>4, <1>6 DEF Behind
<1>8. CASE m[o].next = a
    BY <1>3, <1>5, <1>7, <1>8
<1>9. CASE m[o].next # a
  <2>1. PICK f : f = m[o].next
      OBVIOUS
  <2>2. f \in H /\ o < f /\ f <= a /\ f \in Nat /\ a \in Nat
      BY <1>1, <1>3, <1>5, <1>7, <2>1, NextIs, NodeOf
  <2>3. f < a
      BY <1>9, <2>1, <2>2
  <2>4. m[f].isFree
      BY <1>7, <2>2, <2>3
  <2>5. m[f].next \in H /\ f < m[f].next /\ m[f].next <= a /\ m[f].next # Null /\ m[f].next \in Nat
      BY <1>1, <1>3, <2>2, <2>3, NextIs
  <2>6. ~m[m[f].next].isFree
    <3>1. SUFFICES ASSUME m[m[f].next].isFree PROVE FALSE
        OBVIOUS
    <3>2. PICK c : c = m[m[f].next].prev
        OBVIOUS
    <3>3. c \in H /\ ~m[c].isFree /\ m[c].next = m[f].next
        BY <1>1, <2>5, <3>1, <3>2 DEF FreeLinked
    <3>4. c = f
        BY <1>1, <2>2, <2>5, <3>3, OnePrevious
    <3>5. QED
        BY <2>4, <3>3, <3>4
  <2>7. ~(m[f].next < a)
    <3>1. o \in Nat
        BY <1>1, <1>5, NodeOf
    <3>2. o < m[f].next
        BY <2>2, <2>5, <3>1
    <3>3. QED
        BY <1>7, <2>5, <2>6, <3>2
  <2>8. m[f].next = a
      BY <2>2, <2>5, <2>7
  <2>9. QED
      BY <1>3, <1>7, <1>9, <2>1, <2>2, <2>8
<1>10. QED
    BY <1>8, <1>9

\* Both nodes that genericFreeMemory looks at are headers.
LEMMA GiveBackIs ==
    ASSUME NEW m \in Memories, NEW H, Chain(m, H), NEW a \in H,
           m[a].prev \in H, m[m[a].prev].next = a, GiveBack(m, a)
    PROVE  mem' = Freed(m, a) /\ strayed' = strayed
<1>1. \A b \in {m[a].next, m[a].prev} \ {Null} : m[b] # Data
  <2>1. \A b \in {m[a].next, m[a].prev} \ {Null} : b \in H
      BY NextBehind
  <2>2. QED
      BY <2>1, NodeOf, SizesOf
<1>2. QED
    BY <1>1 DEF GiveBack

LEMMA AllocSound ==
    ASSUME IInv, NEW request \in Requests, alloc(request)
    PROVE  IInv'
<1>1. mem \in Memories /\ live \in Seq(Blocks) /\ ~strayed /\ strayed \in BOOLEAN
    BY TypesOf DEF IInv
<1>2. PICK a, size : a = FirstFit(BlocksFor(request)) /\ size = BlocksFor(request)
    OBVIOUS
<1>3. CASE a = Null
  <2>1. UNCHANGED <<mem, live, strayed>>
      BY <1>2, <1>3 DEF alloc
  <2>2. QED
      BY <2>1 DEF IInv, TypeOK
<1>4. CASE a # Null
  <2>1. PICK H : Sound(mem, H, live)
      BY DEF IInv
  <2>2. a \in H /\ mem[a].isFree /\ size <= mem[a].memSize /\ size \in Nat \ {0} /\ Chain(mem, H)
    <3>1. a \in Linked /\ mem[a].isFree /\ mem[a].memSize >= size
        BY <1>2, <1>4, FirstFitIs DEF Fits
    <3>2. Chain(mem, H) /\ Linked = H \ {Root}
        BY <2>1, LinkedIs DEF Sound
    <3>3. mem[a].memSize \in Nat
        BY <3>1, <3>2, NodeOf
    <3>4. size \in Nat \ {0}
        BY <1>2, BlocksForIs
    <3>5. QED
        BY <3>1, <3>2, <3>3, <3>4
  <2>3. /\ mem' \in {Split(mem, a, size), Written(Split(mem, a, size), a)}
        /\ live' = Append(live, [addr |-> a, size |-> Split(mem, a, size)[a].memSize])
        /\ strayed' = strayed
      BY <1>2, <1>4 DEF alloc
  <2>4. mem' \in Memories /\ Taken(mem, H, a, size, mem') /\ mem'[a].memSize = Split(mem, a, size)[a].memSize
      BY <1>1, <2>2, <2>3, WrittenTaken
  <2>5. live' = Append(live, [addr |-> a, size |-> mem'[a].memSize])
      BY <2>3, <2>4
  <2>6. live' \in Seq(Blocks) /\ Sound(mem', H \cup Rest(mem, a, size), live')
      BY <1>1, <2>1, <2>2, <2>4, <2>5, TakenSound
  <2>7. QED
      BY <1>1, <2>3, <2>4, <2>6 DEF IInv, TypeOK, Memories, Blocks
<1>5. QED
    BY <1>3, <1>4

\* The youngest block is given back.
LEMMA TopFreed ==
    ASSUME IInv, live # <<>>, GiveBack(mem, live[Len(live)].addr), live' = RemoveAt(live, Len(live))
    PROVE  IInv'
<1>1. mem \in Memories /\ live \in Seq(Blocks) /\ ~strayed /\ strayed \in BOOLEAN
    BY TypesOf DEF IInv
<1>2. PICK a, n, i : a = live[Len(live)].addr /\ n = Freed(mem, a) /\ i = Len(live)
    OBVIOUS
<1>3. PICK H : Sound(mem, H, live)
    BY DEF IInv
<1>4. Chain(mem, H) /\ a \in H /\ mem[a].prev \in H /\ mem[mem[a].prev].next = a
    BY <1>1, <1>2, <1>3, TopPlaced DEF Sound
<1>5. mem' = n /\ strayed' = strayed
    BY <1>1, <1>2, <1>4, GiveBackIs
<1>6. n \in Memories /\ Merged(mem, H, a, n)
    BY <1>1, <1>2, <1>4, FreedIs
<1>7. i \in 1..Len(live) /\ Len(live) <= i + 1 /\ (i + 1)..Len(live) = {}
    BY <1>1, <1>2
<1>8. RemoveAt(live, i) \in Seq(Blocks) /\ Sound(n, H \ Absorbed(mem, a), RemoveAt(live, i))
    BY <1>1, <1>2, <1>3, <1>4, <1>6, <1>7, MergedSound
<1>9. live' = RemoveAt(live, i)
    BY <1>2
<1>10. QED
    BY <1>1, <1>5, <1>6, <1>8, <1>9 DEF IInv, TypeOK, Memories, Blocks

LEMMA AppendRemoved ==
    ASSUME NEW S, NEW l \in Seq(S), l # <<>>, NEW x \in S
    PROVE  Append(RemoveAt(l, Len(l)), x) = RemoveAt(Append(l, x), Len(l))
<1> DEFINE n == Len(l)
           k == Append(l, x)
           s == Append(RemoveAt(l, n), x)
           t == RemoveAt(k, n)
<1>1. n \in Nat /\ n >= 1 /\ n \in 1..n
    OBVIOUS
<1>2. k \in Seq(S) /\ Len(k) = n + 1 /\ k[n + 1] = x /\ \A h \in 1..n : k[h] = l[h]
    BY AppendIs
<1> HIDE DEF n, k
<1>3. /\ RemoveAt(l, n) \in Seq(S) /\ Len(RemoveAt(l, n)) = n - 1
      /\ \A h \in 1..(n - 1) : RemoveAt(l, n)[h] = l[h]
  <2>1. n = Len(l)
      BY DEF n
  <2>2. QED
      BY <1>1, <2>1, RemovedIs
<1>4. s \in Seq(S) /\ Len(s) = n /\ s[n] = x /\ \A h \in 1..(n - 1) : s[h] = l[h]
  <2> HIDE DEF s
  <2>1. /\ s \in Seq(S) /\ Len(s) = (n - 1) + 1 /\ s[(n - 1) + 1] = x
        /\ \A h \in 1..(n - 1) : s[h] = RemoveAt(l, n)[h]
      BY <1>3, AppendIs DEF s
  <2>2. QED
      BY <1>1, <1>3, <2>1
<1>5. t \in Seq(S) /\ Len(t) = n /\ \A h \in 1..n : t[h] = IF h < n THEN k[h] ELSE k[h + 1]
  <2>1. n \in 1..Len(k) /\ Len(k) - 1 = n
      BY <1>1, <1>2
  <2>2. QED
      BY <1>2, <2>1, RemovedIs
<1> HIDE DEF s, t
<1>6. \A h \in 1..n : s[h] = t[h]
    BY <1>1, <1>2, <1>4, <1>5
<1>7. s = t
    BY <1>1, <1>4, <1>5, <1>6
<1>8. QED
    BY <1>7 DEF s, t, k, n

\* The youngest block gets another place, and the node it had is given back.
LEMMA TopMoved ==
    ASSUME IInv, live # <<>>, NEW request \in Requests,
           NEW a, a = live[Len(live)].addr, ~mem[mem[a].prev].isFree,
           NEW b, b = FirstFit(BlocksFor(request)), b # Null,
           NEW s, s = Split(mem, b, BlocksFor(request)), GiveBack(Written(s, b), a),
           live' = Append(RemoveAt(live, Len(live)), [addr |-> b, size |-> s[b].memSize])
    PROVE  IInv'
<1>1. mem \in Memories /\ live \in Seq(Blocks) /\ ~strayed /\ strayed \in BOOLEAN
    BY TypesOf DEF IInv
<1>2. PICK size, m, x, i, p : /\ size = BlocksFor(request) /\ m = Written(s, b) /\ i = Len(live)
                              /\ x = [addr |-> b, size |-> s[b].memSize] /\ p = mem[a].prev
    OBVIOUS
<1>3. PICK H : Sound(mem, H, live)
    BY DEF IInv
<1>4. b \in H /\ mem[b].isFree /\ size <= mem[b].memSize /\ size \in Nat \ {0} /\ Chain(mem, H)
  <2>1. b \in Linked /\ mem[b].isFree /\ mem[b].memSize >= size
      BY <1>2, FirstFitIs DEF Fits
  <2>2. Chain(mem, H) /\ Linked = H \ {Root}
      BY <1>3, LinkedIs DEF Sound
  <2>3. mem[b].memSize \in Nat
      BY <2>1, <2>2, NodeOf
  <2>4. size \in Nat \ {0}
      BY <1>2, BlocksForIs
  <2>5. QED
      BY <2>1, <2>2, <2>3, <2>4
<1>5. m \in Memories /\ Taken(mem, H, b, size, m) /\ m[b].memSize = s[b].memSize
    BY <1>1, <1>2, <1>4, WrittenTaken
<1>6. x = [addr |-> b, size |-> m[b].memSize]
    BY <1>2, <1>5
<1> DEFINE l == Append(live, x)
           G == H \cup Rest(mem, b, size)
           c == mem[b].prev
<1>7. /\ l \in Seq(Blocks) /\ Sound(m, G, l) /\ m[b].prev = c /\ c \in H \ {b} /\ m[c].next = b
      /\ ~mem[c].isFree
  <2>1. PICK k : k = Append(live, [addr |-> b, size |-> m[b].memSize])
      OBVIOUS
  <2>2. l = k
      BY <1>6, <2>1
  <2>3. k \in Seq(Blocks) /\ Sound(m, H \cup Rest(mem, b, size), k) /\ Followed(mem, H, b, m)
    <3> HIDE DEF l, G, c
    <3>1. live \in Seq(Blocks) /\ Sound(mem, H, live)
        BY <1>1, <1>3
    <3>2. QED
        BY <1>4, <1>5, <2>1, <3>1, TakenSound
  <2>4. QED
      BY <2>2, <2>3 DEF Followed
<1>8. a \in H /\ p \in H /\ mem[p].next = a /\ ~mem[a].isFree /\ ~mem[p].isFree
    BY <1>1, <1>2, <1>3, TopPlaced
<1>9. m[a] = mem[a] /\ m[p] = mem[p] /\ m[a].prev = p /\ m[p].next = a /\ ~m[p].isFree
      /\ a \in G /\ p \in G
  <2>1. b # a /\ b # p
      BY <1>4, <1>8
  <2>2. m[a] = mem[a] /\ m[p] = mem[p]
      BY <1>5, <1>8, <2>1 DEF Taken
  <2>3. QED
      BY <1>2, <1>8, <2>2
<1>10. /\ Len(l) = i + 1 /\ i \in Nat /\ i \in 1..i /\ l[i].addr = a /\ l[i + 1].addr = b
       /\ \A h \in 1..i : l[h] = live[h]
  <2>1. x \in Blocks
    <3>1. b \in Addresses /\ m[b].memSize \in Nat
        BY <1>4, <1>5, NodeOf, FieldsOf DEF Taken
    <3>2. QED
        BY <1>6, <3>1 DEF Blocks
  <2>2. Len(live) \in Nat /\ Len(live) >= 1
      BY <1>1
  <2>3. x.addr = b
      BY <1>2
  <2>4. QED
      BY <1>1, <1>2, <2>1, <2>2, <2>3, AppendIs
<1> HIDE DEF l, G, c
<1>11. Chain(m, G) /\ Owners(m, G, l)
    BY <1>7 DEF Sound
<1>12. mem' = Freed(m, a) /\ strayed' = strayed
    BY <1>2, <1>5, <1>9, <1>11, GiveBackIs
<1>13. Freed(m, a) \in Memories /\ Merged(m, G, a, Freed(m, a))
    BY <1>5, <1>9, <1>11, FreedIs
<1>14. ASSUME NEW j \in (i + 1)..Len(l)
       PROVE  \/ \E o \in Older(l, j) \ {a} : Behind(m, G, l[j].addr, o, Younger(l, j))
              \/ m[a].next = l[j].addr /\ m[l[j].addr].prev = a /\ ~m[m[a].prev].isFree
  <2>1. j = i + 1 /\ l[j].addr = b
      BY <1>10
  <2>2. CASE c = a
      BY <1>7, <1>9, <2>1, <2>2
  <2>3. CASE c # a
    <3>1. c \in G /\ b \in G /\ c \in Nat /\ b \in Nat
        BY <1>4, <1>7, NodeOf DEF G
    <3>2. c < b
      <4>1. m[c].next # Null
          BY <1>7, <3>1, SizesOf
      <4>2. QED
          BY <1>7, <1>11, <3>1, <4>1, NextBehind
    <3>3. ASSUME NEW d \in G, c < d, d < b
          PROVE  FALSE
      <4>1. m[c].next <= d /\ d \in Nat
          BY <1>11, <3>1, <3>3, NextIs, NodeOf
      <4>2. QED
          BY <1>7, <3>1, <3>3, <4>1
    <3>4. Behind(m, G, b, c, Younger(l, j))
        BY <1>7, <3>2, <3>3 DEF Behind
    <3>5. c \in Older(l, j)
      <4>1. CASE c = Root
          BY <4>1 DEF Older
      <4>2. CASE c # Root
        <5>1. m[c] = mem[c] /\ c \in G
            BY <1>5, <1>7, <3>1 DEF Taken
        <5>2. PICK h \in 1..Len(l) : c = l[h].addr
            BY <1>7, <1>11, <4>2, <5>1 DEF Owners
        <5>3. h # i + 1
            BY <1>7, <1>10, <5>2
        <5>4. h \in 1..(j - 1)
            BY <1>10, <2>1, <5>2, <5>3
        <5>5. QED
            BY <5>2, <5>4 DEF Older
      <4>3. QED
          BY <4>1, <4>2
    <3>6. QED
        BY <2>1, <2>3, <3>4, <3>5
  <2>4. QED
      BY <2>2, <2>3
<1>15. i \in 1..Len(l) /\ Len(l) <= i + 1
    BY <1>10
<1>16. RemoveAt(l, i) \in Seq(Blocks) /\ Sound(Freed(m, a), G \ Absorbed(m, a), RemoveAt(l, i))
    BY <1>7, <1>9, <1>10, <1>13, <1>14, <1>15, MergedSound
<1>17. live' = RemoveAt(l, i)
  <2>1. x \in Blocks
    <3>1. b \in Addresses /\ m[b].memSize \in Nat
        BY <1>4, <1>5, NodeOf, FieldsOf DEF Taken
    <3>2. QED
        BY <1>6, <3>1 DEF Blocks
  <2>2. Append(RemoveAt(live, i), x) = RemoveAt(Append(live, x), i)
      BY <1>1, <1>2, <2>1, AppendRemoved
  <2>3. QED
      BY <1>2, <2>2 DEF l
<1>18. QED
    BY <1>1, <1>12, <1>13, <1>16, <1>17 DEF IInv, TypeOK, Memories, Blocks

LEMMA InitSound ==
    ASSUME Init
    PROVE  IInv
<1> DEFINE H == {0, 1}
           root == [next |-> 1, prev |-> Null, memSize |-> 0, isFree |-> FALSE]
           first == [next |-> Null, prev |-> Root, memSize |-> Total - 2, isFree |-> TRUE]
<1>1. /\ 0 \in Addresses /\ 1 \in Addresses /\ Total - 2 \in Nat /\ 0 + 1 + 0 = 1
      /\ 1 + 1 + (Total - 2) = Total /\ 1 # Total
    BY SizesOf
<1>2. mem[0] = root /\ mem[1] = first
    BY <1>1, SizesOf DEF Init
<1>3. root \in MMNodes /\ first \in MMNodes
    BY <1>1, SizesOf DEF MMNodes
<1>4. mem \in Memories
  <2>1. \A a \in Addresses : mem[a] = IF a = 0 THEN root ELSE IF a = 1 THEN first ELSE Data
      BY SizesOf DEF Init
  <2>2. mem = [a \in Addresses |-> mem[a]]
      BY DEF Init
  <2> HIDE DEF root, first
  <2>3. \A a \in Addresses : mem[a] \in MMNodes \cup {Data}
      BY <1>3, <2>1
  <2>4. QED
      BY <2>2, <2>3 DEF Memories
<1>5. /\ mem[0].next = 1 /\ mem[0].memSize = 0 /\ mem[0].isFree = FALSE
      /\ mem[1].next = Null /\ mem[1].prev = 0 /\ mem[1].memSize = Total - 2 /\ mem[1].isFree = TRUE
    BY <1>2, SizesOf
<1>6. NodeEnd(mem, 0) = 1 /\ NodeEnd(mem, 1) = Total
    BY <1>1, <1>5 DEF NodeEnd
<1>7. Chain(mem, H)
  <2>1. H \subseteq Addresses /\ Root \in H
      BY <1>1, SizesOf
  <2>2. \A a \in H : mem[a] \in MMNodes /\ NodeEnd(mem, a) <= Total
      BY <1>2, <1>3, <1>6, SizesOf
  <2>3. \A a \in H : mem[a].next = IF NodeEnd(mem, a) = Total THEN Null ELSE NodeEnd(mem, a)
      BY <1>1, <1>5, <1>6
  <2>4. \A a \in H : mem[a].next # Null => mem[a].next \in H
      BY <1>5
  <2>5. \A a, b \in H : a < b => NodeEnd(mem, a) <= b
      BY <1>6
  <2>6. QED
      BY <2>1, <2>2, <2>3, <2>4, <2>5 DEF Chain
<1>8. RootKept(mem, H) /\ FreeLinked(mem, H)
    BY <1>5, SizesOf DEF RootKept, FreeLinked
<1>9. live = <<>> /\ Len(live) = 0 /\ live \in Seq(Blocks) /\ ~strayed /\ strayed \in BOOLEAN
  <2>1. live = <<>> /\ strayed = FALSE
      BY DEF Init
  <2>2. <<>> \in Seq(Blocks) /\ Len(<<>>) = 0
      OBVIOUS
  <2>3. QED
      BY <2>1, <2>2
<1>10. Owners(mem, H, live) /\ Nested(mem, H, live)
    BY <1>5, <1>9, SizesOf DEF Owners, Nested
<1>11. Sound(mem, H, live)
    BY <1>7, <1>8, <1>10 DEF Sound
<1>12. QED
    BY <1>4, <1>9, <1>11 DEF IInv, TypeOK, Memories, Blocks

LEMMA StepSound ==
    ASSUME IInv, [StackNext]_vars
    PROVE  IInv'
<1>1. CASE UNCHANGED vars
    BY <1>1 DEF IInv, TypeOK, vars
<1>2. CASE StackNext
  <2>1. ASSUME NEW request \in Requests, alloc(request)
        PROVE  IInv'
      BY <2>1, AllocSound
  <2>2. ASSUME live # <<>>, free(Len(live))
        PROVE  IInv'
      BY <2>2, TopFreed DEF free
  <2>3. ASSUME live # <<>>, ~mem[mem[live[Len(live)].addr].prev].isFree,
               NEW request \in Requests, realloc(Len(live), request)
        PROVE  IInv'
    <3>1. PICK a, b, s : /\ a = live[Len(live)].addr /\ b = FirstFit(BlocksFor(request))
                         /\ s = Split(mem, b, BlocksFor(request))
        OBVIOUS
    <3>2. \/ UNCHANGED <<mem, live, strayed>>
          \/ /\ b # Null
             /\ GiveBack(Written(s, b), a)
             /\ live' = Append(RemoveAt(live, Len(live)), [addr |-> b, size |-> s[b].memSize])
          \/ GiveBack(mem, a) /\ live' = RemoveAt(live, Len(live))
        BY <2>3, <3>1 DEF realloc
    <3>3. CASE UNCHANGED <<mem, live, strayed>>
        BY <3>3 DEF IInv, TypeOK
    <3>4. CASE /\ b # Null
               /\ GiveBack(Written(s, b), a)
               /\ live' = Append(RemoveAt(live, Len(live)), [addr |-> b, size |-> s[b].memSize])
        BY <2>3, <3>1, <3>4, TopMoved
    <3>5. CASE GiveBack(mem, a) /\ live' = RemoveAt(live, Len(live))
        BY <2>3, <3>1, <3>5, TopFreed
    <3>6. QED
        BY <3>2, <3>3, <3>4, <3>5
  <2>4. QED
      BY <1>2, <2>1, <2>2, <2>3 DEF StackNext
<1>3. QED
    BY <1>1, <1>2

-----------------------------------------------------------------------------
(* The theorems.                                                            *)

LEMMA BlocksDisjoint ==
    ASSUME IInv
    PROVE  AllocatedDisjoint
<1>1. PICK H : Sound(mem, H, live)
    BY DEF IInv
<1>2. live \in Seq(Blocks) /\ DOMAIN live = 1..Len(live)
    BY TypesOf DEF IInv
<1>3. Chain(mem, H) /\ Owners(mem, H, live)
    BY <1>1 DEF Sound
<1>4. ASSUME NEW i \in 1..Len(live), NEW j \in 1..Len(live), live[i].addr < live[j].addr
      PROVE  Cells(live[i]) \cap Cells(live[j]) = {}
  <2>1. PICK a, b : a = live[i].addr /\ b = live[j].addr
      OBVIOUS
  <2>2. a \in H /\ b \in H /\ live[i].size = mem[a].memSize /\ live[j].size = mem[b].memSize
      BY <1>3, <2>1 DEF Owners
  <2>3. a \in Nat /\ b \in Nat /\ mem[a].memSize \in Nat /\ mem[b].memSize \in Nat
      BY <1>3, <2>2, NodeOf
  <2>4. a + 1 + mem[a].memSize <= b
      BY <1>3, <1>4, <2>1, <2>2 DEF Chain, NodeEnd
  <2>5. Cells(live[i]) = a..(a + mem[a].memSize) /\ Cells(live[j]) = b..(b + mem[b].memSize)
      BY <2>1, <2>2 DEF Cells
  <2>6. QED
      BY <2>3, <2>4, <2>5
<1>5. \A i \in 1..Len(live) : live[i].addr \in Nat
    BY <1>3, NodeOf DEF Owners
<1>6. \A i, j \in 1..Len(live) : i # j => live[i].addr # live[j].addr
    BY <1>3 DEF Owners
<1>7. \A i, j \in 1..Len(live) : i # j => live[i].addr < live[j].addr \/ live[j].addr < live[i].addr
    BY <1>5, <1>6
<1>8. \A i, j \in 1..Len(live) : i # j => Cells(live[i]) \cap Cells(live[j]) = {}
    BY <1>4, <1>7
<1>9. QED
    BY <1>2, <1>8 DEF AllocatedDisjoint

LEMMA MemoryCovered ==
    ASSUME IInv
    PROVE  ListCoversMemory
<1>1. PICK H : Sound(mem, H, live)
    BY DEF IInv
<1>2. TypeOK /\ ~strayed /\ DOMAIN live = 1..Len(live)
    BY TypesOf DEF IInv
<1>3. Chain(mem, H) /\ Owners(mem, H, live)
    BY <1>1 DEF Sound
<1>4. Linked \cup {Root} = H
    BY <1>3, LinkedIs DEF Chain
<1>5. \A a \in H : IsHeader(a)
    BY <1>3, NodeOf, SizesOf DEF IsHeader
<1>6. \A i \in 1..Len(live) : live[i].addr \in H
    BY <1>3 DEF Owners
<1>7. Intact
    BY <1>2, <1>4, <1>5, <1>6 DEF Intact
<1>8. \A a \in H : mem[a].next = IF a + 1 + mem[a].memSize = Total THEN Null
                                 ELSE a + 1 + mem[a].memSize
    BY <1>3 DEF Chain, NodeEnd
<1>9. QED
    BY <1>2, <1>4, <1>7, <1>8 DEF ListCoversMemory

LEMMA MergedAtTheEnd ==
    ASSUME IInv
    PROVE  AllMerged
<1>1. SUFFICES ASSUME live = <<>>
               PROVE  mem[Root + 1].memSize = Total - 2 /\ mem[Root + 1].next = Null
    BY DEF AllMerged
<1>2. PICK H : Sound(mem, H, live)
    BY DEF IInv
<1>3. Chain(mem, H) /\ RootKept(mem, H) /\ FreeLinked(mem, H) /\ Owners(mem, H, live)
    BY <1>2 DEF Sound
<1>4. Root = 0 /\ 1 \in H /\ Root \in H /\ Total \in Nat
    BY <1>3, SizesOf DEF RootKept, Chain
<1>5. \A a \in H \ {Root} : mem[a].isFree
  <2>1. Len(live) = 0
      BY <1>1
  <2>2. QED
      BY <1>3, <2>1 DEF Owners
<1>6. mem[Root].next = 1
  <2>1. mem[Root].next = NodeEnd(mem, Root)
      BY <1>3, <1>4, NextIs
  <2>2. NodeEnd(mem, Root) = 1
      BY <1>3, <1>4 DEF NodeEnd, RootKept
  <2>3. QED
      BY <2>1, <2>2
<1>7. mem[1].next = Null
  <2>1. SUFFICES ASSUME mem[1].next # Null PROVE FALSE
      OBVIOUS
  <2>2. PICK x : x = mem[1].next
      OBVIOUS
  <2>3. x \in H /\ 1 < x /\ x \in Nat
      BY <1>3, <1>4, <2>1, <2>2, NextBehind
  <2>4. mem[x].isFree
      BY <1>4, <1>5, <2>3
  <2>5. mem[x].prev \in H /\ ~mem[mem[x].prev].isFree /\ mem[mem[x].prev].next = x
      BY <1>3, <2>3, <2>4 DEF FreeLinked
  <2>6. mem[x].prev = Root
      BY <1>5, <2>5
  <2>7. QED
      BY <1>6, <2>3, <2>5, <2>6
<1>8. NodeEnd(mem, 1) = Total
  <2>1. NodeEnd(mem, 1) \in Nat
      BY <1>3, <1>4, NodeOf
  <2>2. QED
      BY <1>3, <1>4, <1>7, <2>1, SizesOf DEF Chain
<1>9. mem[1].memSize = Total - 2
    BY <1>3, <1>4, <1>8, NodeOf
<1>10. QED
    BY <1>4, <1>7, <1>9

\* The inductive invariant: the nodes lie one behind the other, the nodes in use are
\* the blocks given out, each of them placed behind the root or an older one.
THEOREM StackKeepsList == StackSpec => []IInv
<1>1. QED
    BY InitSound, StepSound, PTL DEF StackSpec

\* Whoever gets a block from allocMemory or reAllocMemory shares no cell of it with
\* the owner of another one.
THEOREM StackAllocatedDisjoint == StackSpec => []AllocatedDisjoint
<1>1. QED
    BY StackKeepsList, BlocksDisjoint, PTL

\* The headers survive, genericFreeMemory finds a header wherever a link leads it,
\* and the nodes cover the memory without gap or overlap.
THEOREM StackCoversMemory == StackSpec => []ListCoversMemory
<1>1. QED
    BY StackKeepsList, MemoryCovered, PTL

\* Merging with the neighbours on both sides is enough for freeMemory to get the
\* whole memory back in one node.
THEOREM StackMergesAll == StackSpec => []AllMerged
<1>1. QED
    BY StackKeepsList, MergedAtTheEnd, PTL

=============================================================================
