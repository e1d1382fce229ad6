----------------------------- MODULE ImageProofs -----------------------------
(***************************************************************************)
(* Files on the disk, for every disk, every directory and every order of   *)
(* commands and kills: that no block belongs to two files, that create     *)
(* finds the room there is, that a file holds what was written to it last, *)
(* that the system stays in front of the files, and that a machine that is *)
(* started from the disk finds its modules.                                *)
(***************************************************************************)
EXTENDS Image, OrderLemmas, SequenceTheorems, FiniteSetTheorems

-----------------------------------------------------------------------------
(* Numbers.                                                                 *)

LEMMA MinOf ==
    ASSUME NEW S \in SUBSET Int, NEW m \in S, \A i \in S : m <= i
    PROVE  Min(S) = m
<1>1. \A x \in S : (\A y \in S : x <= y) => x = m
    OBVIOUS
<1>2. QED
    BY <1>1 DEF Min

LEMMA MinIn ==
    ASSUME NEW S \in SUBSET Nat, S # {}
    PROVE  Min(S) \in S /\ \A i \in S : Min(S) <= i
<1>1. PICK m \in S : \A i \in S : m <= i
    BY LeastExists
<1>2. QED
    BY <1>1, MinOf

LEMMA MaxOfTwo ==
    ASSUME NEW i \in Int, NEW j \in Int
    PROVE  /\ Max({i, j}) = IF i >= j THEN i ELSE j
           /\ Min({i, j}) = IF i <= j THEN i ELSE j
<1>1. \A x \in {i, j} : (\A y \in {i, j} : x >= y) => x = IF i >= j THEN i ELSE j
    OBVIOUS
<1>2. (IF i >= j THEN i ELSE j) \in {i, j} /\ \A y \in {i, j} : (IF i >= j THEN i ELSE j) >= y
    OBVIOUS
<1>3. Max({i, j}) = IF i >= j THEN i ELSE j
    BY <1>1, <1>2 DEF Max
<1>4. \A x \in {i, j} : (\A y \in {i, j} : x <= y) => x = IF i <= j THEN i ELSE j
    OBVIOUS
<1>5. (IF i <= j THEN i ELSE j) \in {i, j} /\ \A y \in {i, j} : (IF i <= j THEN i ELSE j) <= y
    OBVIOUS
<1>6. Min({i, j}) = IF i <= j THEN i ELSE j
    BY <1>4, <1>5 DEF Min
<1>7. QED
    BY <1>3, <1>6

\* A disk that grows has no fewer blocks.
LEMMA BlocksGrow ==
    ASSUME NEW m \in Nat, NEW n \in Nat, m <= n
    PROVE  /\ m \div BlockCells \in Nat /\ m \div BlockCells <= n \div BlockCells
           /\ (m \div BlockCells) * BlockCells <= m
<1>1. BlockCells \in Nat /\ BlockCells > 0
    BY DiskAssumption
<1>2. QED
    BY <1>1

-----------------------------------------------------------------------------
(* The directory.                                                           *)

Live(d) == {s \in Listed(d) : IsFile(d[s])}

\* A directory that has an end: the entries in front of it.
LEMMA ListedIs ==
    ASSUME NEW d, Listed(d) # Slots
    PROVE  \E m \in Slots : /\ Listed(d) = 0..(m - 1) /\ d[m].FileName = End
                            /\ Cardinality(Listed(d)) = m /\ num_used_entries(d) = m
<1> DEFINE E == {t \in Slots : d[t].FileName = End}
<1>1. MaxEntries \in Nat /\ E \in SUBSET Nat
    BY DiskAssumption DEF Slots
<1>2. E # {}
    BY <1>1 DEF Listed, Slots
<1>3. PICK m \in E : \A t \in E : m <= t
    BY <1>1, <1>2, LeastExists
<1>4. m \in Slots /\ m \in Nat /\ m < MaxEntries /\ d[m].FileName = End
    BY <1>1, <1>3 DEF Slots
<1>5. \A t \in Slots : t < m => d[t].FileName # End
    BY <1>1, <1>3 DEF Slots
<1>6. Listed(d) = 0..(m - 1)
  <2>1. \A s \in Slots : s < m => \A t \in 0..s : d[t].FileName # End
      BY <1>1, <1>4, <1>5 DEF Slots
  <2>2. \A s \in Slots : ~(s < m) => m \in 0..s
      BY <1>1, <1>4 DEF Slots
  <2>3. \A s : s \in Listed(d) <=> s \in Slots /\ s < m
      BY <1>4, <2>1, <2>2 DEF Listed
  <2>4. \A s : s \in Slots /\ s < m <=> s \in 0..(m - 1)
      BY <1>1, <1>4 DEF Slots
  <2>5. QED
      BY <2>3, <2>4
<1>7. Cardinality(0..(m - 1)) = m
    BY <1>4, FS_Interval
<1>8. QED
    BY <1>4, <1>6, <1>7 DEF num_used_entries

\* What qsort makes of it: all entries, once each, the files first and in the order
\* of their blocks.
LEMMA SortedIs ==
    ASSUME NEW d, NEW m \in Nat, num_used_entries(d) = m, NEW order \in Sorted(d)
    PROVE  /\ Len(order) = m /\ \A i \in 1..m : order[i] \in 0..(m - 1)
           /\ \A s \in 0..(m - 1) : \E i \in 1..m : order[i] = s
           /\ \A i, j \in 1..m : i < j => StartingBlockCmp(d[order[i]], d[order[j]])
           /\ \A i, j \in 1..m : order[i] = order[j] => i = j
<1> DEFINE S == 0..(m - 1)
           T == 1..m
<1>1. Cardinality(S) = m /\ IsFiniteSet(S)
    BY FS_Interval
<1>2. Cardinality(T) = m /\ IsFiniteSet(T)
    BY FS_Interval
<1>3. /\ order \in [1..Cardinality(S) -> S]
      /\ \A i, j \in 1..Cardinality(S) : i # j => order[i] # order[j]
      /\ \A i, j \in DOMAIN order : i < j => StartingBlockCmp(d[order[i]], d[order[j]])
    BY DEF Sorted, SetToSeqs
<1>4. /\ order \in [T -> S]
      /\ \A i, j \in T : order[i] = order[j] => i = j
      /\ \A i, j \in T : i < j => StartingBlockCmp(d[order[i]], d[order[j]])
    BY <1>1, <1>3
<1>5. order \in Seq(S) /\ Len(order) = m
    BY <1>4
<1> HIDE DEF S, T
<1>6. order \in Injection(T, S)
    BY <1>4 DEF Injection, IsInjective
<1>7. order \in Surjection(T, S)
    BY <1>1, <1>2, <1>6, FS_Injection
<1>8. \A s \in S : \E i \in T : order[i] = s
    BY <1>7 DEF Surjection
<1>9. QED
    BY <1>4, <1>5, <1>8 DEF S, T

-----------------------------------------------------------------------------
(* The gaps between the files.  Of m entries in the order of qsort those in *)
(* F are files; before[i] is where the room in front of the i-th begins,    *)
(* behind[i] where it ends.                                                 *)

Gaps(m, last, F, from, to, before, behind) ==
    /\ \A i \in 1..m : from[i] \in Nat /\ to[i] \in Nat
    /\ \A i \in 1..(m + 1) : before[i] \in Int /\ behind[i] \in Int
    /\ \A i \in F : 1 <= from[i] /\ from[i] < to[i] /\ to[i] <= last
    /\ \A i, j \in F : i < j => to[i] <= from[j]
    /\ \A i \in 1..m, j \in F : i < j => i \in F
    /\ before[1] = 1
    /\ \A i \in F : before[i + 1] = to[i]
    /\ \A i \in 1..(m + 1) : behind[i] = IF i \in F THEN from[i] ELSE last

FirstFree(m, last, F, from, to, before, behind, blocks) ==
    LET fits == {i \in 1..(m + 1) : \/ behind[i] - before[i] < 0
                                    \/ behind[i] - before[i] >= blocks}
        start == before[Min(fits)]
    IN  /\ fits # {}
        /\ 1 <= start /\ start + blocks <= last
        /\ \A i \in F : start + blocks <= from[i] \/ to[i] <= start

\* The first gap that seems to fit is free, if there is a free one: a deleted entry,
\* whose gap may only seem to, stands behind all files.
LEMMA FirstGapFree ==
    ASSUME NEW m \in Nat, NEW last \in Int, NEW F \in SUBSET (1..m),
           NEW from, NEW to, NEW before, NEW behind,
           Gaps(m, last, F, from, to, before, behind),
           NEW blocks \in Nat \ {0}, NEW b \in Nat, 1 <= b, b + blocks <= last,
           \A i \in F : b + blocks <= from[i] \/ to[i] <= b
    PROVE  FirstFree(m, last, F, from, to, before, behind, blocks)
<1> DEFINE fits == {i \in 1..(m + 1) : \/ behind[i] - before[i] < 0
                                       \/ behind[i] - before[i] >= blocks}
           over == {i \in 1..(m + 1) : i \in F => b + blocks <= from[i]}
<1>1. \A i \in F : i \in 1..m /\ from[i] \in Nat /\ to[i] \in Nat
    BY DEF Gaps
<1>2. \A i \in 1..(m + 1) : before[i] \in Int /\ behind[i] \in Int
    BY DEF Gaps
<1>3. m + 1 \in over /\ over \in SUBSET Nat
    OBVIOUS
<1>4. PICK n \in over : \A i \in over : n <= i
    BY <1>3, LeastExists
<1>5. n \in 1..(m + 1) /\ \A i \in 1..m : i < n => i \in F /\ to[i] <= b
    BY <1>4
<1>6. before[n] <= b
  <2>1. CASE n = 1
      BY <2>1 DEF Gaps
  <2>2. CASE n # 1
    <3>1. n - 1 \in 1..m /\ n - 1 < n /\ (n - 1) + 1 = n
        BY <1>5, <2>2
    <3>2. n - 1 \in F /\ to[n - 1] <= b /\ before[n] = to[n - 1]
        BY <1>5, <3>1 DEF Gaps
    <3>3. QED
        BY <3>2
  <2>3. QED
      BY <2>1, <2>2
<1>7. b + blocks <= behind[n]
    BY <1>4, <1>5 DEF Gaps
<1>8. n \in fits
  <2>1. behind[n] \in Int /\ before[n] \in Int
      BY <1>5, <1>2
  <2>2. behind[n] - before[n] >= blocks
      BY <1>6, <1>7, <2>1
  <2>3. QED
      BY <1>5, <2>2
<1>9. fits \in SUBSET Nat /\ fits # {}
    BY <1>8
<1>10. PICK k, start : k = Min(fits) /\ start = before[k]
    OBVIOUS
<1>11. k \in fits /\ k <= n
    BY <1>10, <1>8, <1>9, MinIn
<1>12. /\ k \in 1..(m + 1) /\ behind[k] \in Int /\ start \in Int
       /\ behind[k] - start < 0 \/ behind[k] - start >= blocks
  <2>1. k \in 1..(m + 1) /\ (behind[k] - start < 0 \/ behind[k] - start >= blocks)
      BY <1>10, <1>11
  <2>2. QED
      BY <1>2, <1>10, <2>1
<1>13. \/ k = 1 /\ start = 1
       \/ k - 1 \in F /\ start = to[k - 1]
  <2>1. CASE k = 1
      BY <1>10, <2>1 DEF Gaps
  <2>2. CASE k # 1
    <3>1. k - 1 \in 1..m /\ k - 1 < n /\ (k - 1) + 1 = k
        BY <1>5, <1>11, <1>12, <2>2
    <3>2. k - 1 \in F
        BY <1>5, <3>1
    <3>3. QED
        BY <1>10, <3>1, <3>2 DEF Gaps
  <2>3. QED
      BY <2>1, <2>2
<1>14. 1 <= start /\ start <= last /\ (k \in F => start <= from[k])
  <2>1. CASE k = 1 /\ start = 1
      BY <2>1 DEF Gaps
  <2>2. CASE k - 1 \in F /\ start = to[k - 1]
    <3>1. from[k - 1] \in Nat /\ to[k - 1] \in Nat
        BY <1>1, <2>2
    <3>2. 1 <= from[k - 1] /\ from[k - 1] < to[k - 1] /\ to[k - 1] <= last
        BY <2>2 DEF Gaps
    <3>3. k \in F => to[k - 1] <= from[k]
        BY <1>12, <2>2 DEF Gaps
    <3>4. QED
        BY <2>2, <3>1, <3>2, <3>3
  <2>3. QED
      BY <1>13, <2>1, <2>2
<1>15. start + blocks <= behind[k] /\ behind[k] <= last
  <2>1. behind[k] = IF k \in F THEN from[k] ELSE last
      BY <1>12 DEF Gaps
  <2>2. k \in F => from[k] \in Nat /\ to[k] \in Nat /\ from[k] < to[k] /\ to[k] <= last
      BY DEF Gaps
  <2>3. behind[k] >= start /\ behind[k] <= last
      BY <1>12, <1>14, <2>1, <2>2
  <2>4. QED
      BY <1>12, <2>3
<1>16. ASSUME NEW i \in F
       PROVE  start + blocks <= from[i] \/ to[i] <= start
  <2>1. from[i] \in Nat /\ to[i] \in Nat /\ i \in 1..m /\ k \in Nat /\ i \in Nat
      BY <1>12, <1>1
  <2>2. CASE i >= k
    <3>1. k \in 1..m
        BY <1>12, <2>1, <2>2
    <3>2. k \in F
        BY <2>1, <2>2, <3>1 DEF Gaps
    <3>3. from[k] \in Nat /\ to[k] \in Nat
        BY <1>1, <3>2
    <3>4. from[k] < to[k] /\ behind[k] = from[k]
        BY <1>12, <3>2 DEF Gaps
    <3>5. i = k \/ to[k] <= from[i]
        BY <2>1, <2>2, <3>2 DEF Gaps
    <3>6. from[k] <= from[i]
        BY ONLY <2>1, <3>3, <3>4, <3>5
    <3>7. start \in Int /\ blocks \in Nat
        BY <1>12
    <3>8. start + blocks <= from[i]
        BY ONLY <1>15, <2>1, <3>3, <3>4, <3>6, <3>7
    <3>9. QED
        BY <3>8
  <2>3. CASE i < k
    <3>1. k # 1 /\ k - 1 \in F /\ start = to[k - 1]
        BY <1>13, <2>1, <2>3
    <3>2. from[k - 1] \in Nat /\ to[k - 1] \in Nat
        BY <1>1, <3>1
    <3>3. from[k - 1] < to[k - 1]
        BY <3>1 DEF Gaps
    <3>4. i = k - 1 \/ i < k - 1
        BY <2>1, <2>3
    <3>5. i < k - 1 => to[i] <= from[k - 1]
        BY <3>1 DEF Gaps
    <3>6. to[i] <= to[k - 1]
        BY ONLY <2>1, <3>2, <3>3, <3>4, <3>5
    <3>7. QED
        BY <3>1, <3>6
  <2>4. QED
      BY <2>1, <2>2, <2>3
<1>17. QED
    BY <1>10, <1>9, <1>12, <1>14, <1>15, <1>16 DEF FirstFree

-----------------------------------------------------------------------------
(* The files that a directory d lists, on a disk of n blocks.               *)

EndOf(entry) == entry.StartingBlock + entry.ReservedBlocks

\* They lie behind the system, in front of the last block, and apart.
Parted(d, n) ==
    /\ \A s \in Live(d) : /\ 1 <= d[s].StartingBlock /\ d[s].StartingBlock < EndOf(d[s])
                          /\ EndOf(d[s]) <= n - 1
    /\ \A s, t \in Live(d) : s # t => \/ EndOf(d[s]) <= d[t].StartingBlock
                                      \/ EndOf(d[t]) <= d[s].StartingBlock

LEMMA EntryOf ==
    ASSUME NEW d \in [Slots -> Entries], NEW s \in Slots
    PROVE  /\ d[s] \in Entries /\ d[s].StartingBlock \in Nat /\ d[s].ReservedBlocks \in Nat
           /\ d[s].FileSize \in Nat /\ EndOf(d[s]) \in Nat
BY DEF Entries, EndOf

\* The order of qsort leaves the gaps that FirstGapFree is about.
LEMMA OrderGaps ==
    ASSUME NEW d \in [Slots -> Entries], num_blocks \in Nat, 1 <= num_blocks - 1,
           Parted(d, num_blocks),
           NEW m \in Slots, Listed(d) = 0..(m - 1), num_used_entries(d) = m,
           NEW order \in Sorted(d), NEW F, F = {i \in 1..m : IsFile(d[order[i]])},
           NEW from, from = [i \in 1..m |-> d[order[i]].StartingBlock],
           NEW to, to = [i \in 1..m |-> EndOf(d[order[i]])],
           NEW before, before = [i \in 1..(m + 1) |-> prev_file_end(d, order, i)],
           NEW behind, behind = [i \in 1..(m + 1) |-> this_file_start(d, order, i)]
    PROVE  Gaps(m, num_blocks - 1, F, from, to, before, behind)
<1>1. m \in Nat /\ \A s \in 0..(m - 1) : s \in Slots
    BY DiskAssumption DEF Slots
<1>2. /\ Len(order) = m /\ \A i \in 1..m : order[i] \in 0..(m - 1)
      /\ \A i, j \in 1..m : i < j => StartingBlockCmp(d[order[i]], d[order[j]])
      /\ \A i, j \in 1..m : order[i] = order[j] => i = j
    BY <1>1, SortedIs
<1>3. PICK last : last = num_blocks - 1
    OBVIOUS
<1>4. last \in Int /\ 1 <= last
    BY <1>3
<1>5. \A i \in 1..m : order[i] \in Slots
    BY <1>1, <1>2
<1>6. \A i \in 1..m : /\ from[i] = d[order[i]].StartingBlock /\ from[i] \in Nat
                      /\ to[i] = EndOf(d[order[i]]) /\ to[i] \in Nat
    BY <1>5, EntryOf
<1>7. \A i \in F : i \in 1..m /\ IsFile(d[order[i]]) /\ order[i] \in Live(d)
    BY <1>2 DEF Live
<1>8. \A i \in 1..m : i \in F <=> IsFile(d[order[i]])
    OBVIOUS
<1>9. \A i \in F : 1 <= from[i] /\ from[i] < to[i] /\ to[i] <= last
    BY <1>3, <1>6, <1>7 DEF Parted
<1>10. ASSUME NEW i \in F, NEW j \in F, i < j
       PROVE  to[i] <= from[j]
  <2>1. i \in 1..m /\ j \in 1..m /\ order[i] \in Live(d) /\ order[j] \in Live(d)
        /\ IsFile(d[order[j]])
      BY <1>7
  <2>2. StartingBlockCmp(d[order[i]], d[order[j]]) /\ order[i] # order[j]
      BY <1>2, <1>10, <2>1
  <2>3. d[order[i]].StartingBlock <= d[order[j]].StartingBlock
      BY <2>1, <2>2 DEF StartingBlockCmp
  <2>4. \/ EndOf(d[order[i]]) <= d[order[j]].StartingBlock
        \/ EndOf(d[order[j]]) <= d[order[i]].StartingBlock
      BY <2>1, <2>2 DEF Parted
  <2>5. from[i] <= from[j] /\ (to[i] <= from[j] \/ to[j] <= from[i])
      BY <1>6, <2>1, <2>3, <2>4
  <2>6. from[j] < to[j] /\ from[i] \in Nat /\ from[j] \in Nat /\ to[i] \in Nat /\ to[j] \in Nat
      BY <1>6, <1>9, <2>1
  <2>7. QED
      BY <2>5, <2>6
<1>11. ASSUME NEW i \in 1..m, NEW j \in F, i < j
       PROVE  i \in F
  <2>1. j \in 1..m /\ IsFile(d[order[j]])
      BY <1>7
  <2>2. StartingBlockCmp(d[order[i]], d[order[j]])
      BY <1>2, <1>11, <2>1
  <2>3. IsFile(d[order[i]])
      BY <2>1, <2>2 DEF StartingBlockCmp
  <2>4. QED
      BY <1>8, <2>3
<1>12. before[1] = 1
  <2>1. 1 \in 1..(m + 1)
      BY <1>1
  <2>2. QED
      BY <2>1 DEF prev_file_end
<1>13. ASSUME NEW i \in 1..m
       PROVE  before[i + 1] = to[i]
  <2>1. i + 1 \in 1..(m + 1) /\ i + 1 # 1 /\ (i + 1) - 1 = i
      BY <1>1
  <2>2. before[i + 1] = prev_file_end(d, order, i + 1)
      BY <2>1
  <2>3. prev_file_end(d, order, i + 1) = EndOf(d[order[i]])
      BY <2>1 DEF prev_file_end, EndOf
  <2>4. QED
      BY <1>6, <2>2, <2>3
<1>14. ASSUME NEW i \in 1..(m + 1)
       PROVE  behind[i] = IF i \in F THEN from[i] ELSE last
  <2>1. behind[i] = this_file_start(d, order, i)
      OBVIOUS
  <2>2. CASE i \in F
    <3>1. i \in 1..m /\ ~(i > Len(order)) /\ IsFile(d[order[i]])
        BY <1>1, <1>2, <1>7, <2>2
    <3>2. this_file_start(d, order, i) = d[order[i]].StartingBlock
        BY <3>1 DEF this_file_start
    <3>3. QED
        BY <1>6, <2>1, <2>2, <3>1, <3>2
  <2>3. CASE i \notin F
    <3>1. i > Len(order) \/ ~IsFile(d[order[i]])
        BY <1>1, <1>2, <1>8, <2>3
    <3>2. this_file_start(d, order, i) = last
        BY <1>3, <3>1 DEF this_file_start
    <3>3. QED
        BY <2>1, <2>3, <3>2
  <2>4. QED
      BY <2>2, <2>3
<1>15. \A i \in 1..(m + 1) : before[i] \in Int /\ behind[i] \in Int
  <2>1. TAKE i \in 1..(m + 1)
  <2>2. i = 1 \/ (i - 1 \in 1..m /\ (i - 1) + 1 = i)
      BY <1>1
  <2>3. before[i] \in Int
      BY <1>6, <1>12, <1>13, <2>2
  <2>4. behind[i] \in Int
      BY <1>4, <1>6, <1>7, <1>14
  <2>5. QED
      BY <2>3, <2>4
<1>16. QED
    BY <1>3, <1>6, <1>7, <1>9, <1>10, <1>11, <1>12, <1>13, <1>14, <1>15 DEF Gaps

\* When a directory has an end and the disk has room, create finds some, and nobody
\* has it.
LEMMA RoomGap ==
    ASSUME NEW d \in [Slots -> Entries], num_blocks \in Nat, Parted(d, num_blocks),
           NEW blocks \in Nat \ {0}, HasRoom(d, blocks), NEW order \in Sorted(d),
           NEW start, start = new_file_start(d, order, blocks)
    PROVE  start \in Nat /\ start # 0 /\ FreeAt(d, start, blocks)
<1>1. PICK m \in Slots : Listed(d) = 0..(m - 1) /\ num_used_entries(d) = m
    BY ListedIs DEF HasRoom
<1>2. PICK b \in 1..num_blocks : FreeAt(d, b, blocks)
    BY DEF HasRoom
<1>3. b \in Nat /\ 1 <= b /\ b + blocks <= num_blocks - 1 /\ 1 <= num_blocks - 1
    BY <1>2 DEF FreeAt
<1>4. PICK F, from, to, before, behind, last :
         /\ F = {i \in 1..m : IsFile(d[order[i]])}
         /\ from = [i \in 1..m |-> d[order[i]].StartingBlock]
         /\ to = [i \in 1..m |-> EndOf(d[order[i]])]
         /\ before = [i \in 1..(m + 1) |-> prev_file_end(d, order, i)]
         /\ behind = [i \in 1..(m + 1) |-> this_file_start(d, order, i)]
         /\ last = num_blocks - 1
    OBVIOUS
<1>5. Gaps(m, last, F, from, to, before, behind)
    BY <1>1, <1>3, <1>4, OrderGaps
<1>6. m \in Nat /\ last \in Int /\ F \in SUBSET (1..m)
    BY <1>4 DEF Slots
<1>7. /\ Len(order) = m /\ \A i \in 1..m : order[i] \in 0..(m - 1)
      /\ \A s \in 0..(m - 1) : \E i \in 1..m : order[i] = s
    BY <1>1, <1>6, SortedIs
<1>8. \A i \in F : i \in 1..m /\ order[i] \in Listed(d) /\ IsFile(d[order[i]])
                   /\ from[i] = d[order[i]].StartingBlock /\ to[i] = EndOf(d[order[i]])
    BY <1>1, <1>4, <1>7
<1>9. \A i \in F : b + blocks <= from[i] \/ to[i] <= b
  <2>1. TAKE i \in F
  <2>2. b + blocks <= d[order[i]].StartingBlock \/ b >= EndOf(d[order[i]])
      BY <1>2, <1>8 DEF FreeAt, EndOf
  <2>3. to[i] \in Nat
      BY <1>5, <1>8 DEF Gaps
  <2>4. QED
      BY <1>3, <1>8, <2>2, <2>3
<1>10. FirstFree(m, last, F, from, to, before, behind, blocks)
  <2>1. b + blocks <= last
      BY <1>3, <1>4
  <2>2. QED
      BY <1>3, <1>5, <1>6, <1>9, <2>1, FirstGapFree
<1>11. PICK fits : fits = {i \in 1..(m + 1) : \/ behind[i] - before[i] < 0
                                              \/ behind[i] - before[i] >= blocks}
    OBVIOUS
<1>12. /\ fits # {} /\ 1 <= before[Min(fits)] /\ before[Min(fits)] + blocks <= last
       /\ \A i \in F : before[Min(fits)] + blocks <= from[i] \/ to[i] <= before[Min(fits)]
    BY <1>10, <1>11 DEF FirstFree
<1>13. Min(fits) \in fits /\ Min(fits) \in 1..(m + 1)
  <2>1. fits \in SUBSET Nat
      BY <1>6, <1>11
  <2>2. Min(fits) \in fits
      BY <1>12, <2>1, MinIn
  <2>3. QED
      BY <1>11, <2>2
<1>14. fits = {i \in 1..(Len(order) + 1) : Fits(d, order, i, blocks)}
  <2>1. \A i \in 1..(m + 1) : /\ before[i] = prev_file_end(d, order, i)
                              /\ behind[i] = this_file_start(d, order, i)
      BY <1>4
  <2>2. \A i \in 1..(m + 1) : i \in fits <=> Fits(d, order, i, blocks)
      BY <1>11, <2>1 DEF Fits
  <2>3. fits \subseteq 1..(m + 1)
      BY <1>11
  <2>4. QED
      BY <1>7, <2>2, <2>3
<1>15. start = prev_file_end(d, order, Min(fits))
    BY <1>12, <1>14 DEF new_file_start
<1>16. start = before[Min(fits)] /\ start \in Int
    BY <1>4, <1>5, <1>13, <1>15 DEF Gaps
<1>17. ASSUME NEW s \in Listed(d), IsFile(d[s])
       PROVE  start + blocks <= d[s].StartingBlock \/ start >= d[s].StartingBlock + d[s].ReservedBlocks
  <2>1. PICK i \in 1..m : order[i] = s
      BY <1>1, <1>7
  <2>2. i \in F
      BY <1>4, <1>17, <2>1
  <2>3. start + blocks <= from[i] \/ to[i] <= start
      BY <1>12, <1>16, <2>2
  <2>4. from[i] = d[s].StartingBlock /\ to[i] = EndOf(d[s]) /\ to[i] \in Nat
      BY <1>5, <1>8, <2>1, <2>2 DEF Gaps
  <2>5. QED
      BY <1>16, <2>3, <2>4 DEF EndOf
<1>18. QED
    BY <1>4, <1>12, <1>16, <1>17 DEF FreeAt

-----------------------------------------------------------------------------
(* Contents.                                                                *)

IsContent(file) == file \in Seq(Range(file))

LEMMA ContentOf ==
    ASSUME NEW S, NEW f \in Seq(S)
    PROVE  IsContent(f) /\ Len(f) \in Nat /\ DOMAIN f = 1..Len(f) /\ f = [i \in 1..Len(f) |-> f[i]]
<1>1. Len(f) \in Nat /\ f \in [1..Len(f) -> S]
    BY LenProperties
<1>2. f \in [1..Len(f) -> Range(f)]
    BY <1>1 DEF Range
<1>3. f \in Seq(Range(f))
    BY <1>1, <1>2, SeqDef
<1>4. QED
    BY <1>1, <1>3 DEF IsContent

LEMMA ContentIs ==
    ASSUME NEW f, IsContent(f)
    PROVE  f \in Seq(Range(f)) /\ Len(f) \in Nat /\ DOMAIN f = 1..Len(f) /\ f = [i \in 1..Len(f) |-> f[i]]
BY ContentOf DEF IsContent

\* The cells that are written, and those that are left.
LEMMA CutIs ==
    ASSUME NEW f, IsContent(f), NEW n \in Nat \ {0}
    PROVE  /\ IsContent(FirstCells(f, n)) /\ Len(FirstCells(f, n)) = IF n <= Len(f) THEN n ELSE Len(f)
           /\ \A i \in 1..Len(FirstCells(f, n)) : FirstCells(f, n)[i] = f[i]
           /\ IsContent(OtherCells(f, n)) /\ Len(OtherCells(f, n)) = IF n <= Len(f) THEN Len(f) - n ELSE 0
           /\ \A i \in 1..Len(OtherCells(f, n)) : OtherCells(f, n)[i] = f[n + i]
<1>1. f \in Seq(Range(f)) /\ Len(f) \in Nat
    BY ContentIs
<1>2. PICK k, S : k = (IF n <= Len(f) THEN n ELSE Len(f)) /\ S = Range(f)
    OBVIOUS
<1>3. k \in Nat /\ k <= Len(f) /\ FirstCells(f, n) = SubSeq(f, 1, k)
  <2>1. Min({n, Len(f)}) = k
    <3>1. PICK len : len = Len(f)
        OBVIOUS
    <3>2. len \in Int /\ n \in Int
        BY <1>1, <3>1
    <3>3. Min({n, len}) = IF n <= len THEN n ELSE len
        BY <3>2, MaxOfTwo
    <3>4. QED
        BY <1>2, <3>1, <3>3
  <2>2. FirstCells(f, n) = SubSeq(f, 1, k)
      BY <2>1 DEF FirstCells
  <2>3. k \in Nat /\ k <= Len(f)
      BY <1>1, <1>2
  <2>4. QED
      BY <2>2, <2>3
<1>4. /\ SubSeq(f, 1, k) \in Seq(S) /\ Len(SubSeq(f, 1, k)) = k
      /\ \A i \in 1..k : SubSeq(f, 1, k)[i] = f[i]
    BY <1>1, <1>2, <1>3
<1>5. CASE n <= Len(f)
  <2>1. /\ SubSeq(f, n + 1, Len(f)) \in Seq(S) /\ Len(SubSeq(f, n + 1, Len(f))) = Len(f) - n
        /\ \A i \in 1..(Len(f) - n) : SubSeq(f, n + 1, Len(f))[i] = f[n + i]
      BY <1>1, <1>2, <1>5
  <2>2. QED
      BY <1>2, <1>3, <1>4, <1>5, <2>1, ContentOf DEF OtherCells
<1>6. CASE ~(n <= Len(f))
  <2>1. SubSeq(f, n + 1, Len(f)) \in Seq(S) /\ Len(SubSeq(f, n + 1, Len(f))) = 0
      BY <1>1, <1>2, <1>6
  <2>2. IsContent(OtherCells(f, n)) /\ Len(OtherCells(f, n)) = 0
      BY <2>1, ContentOf DEF OtherCells
  <2>3. \A i \in 1..Len(OtherCells(f, n)) : FALSE
      BY <2>2
  <2>4. IsContent(FirstCells(f, n))
      BY <1>3, <1>4, ContentOf
  <2>5. QED
      BY <1>2, <1>3, <1>4, <1>6, <2>2, <2>3, <2>4
<1>7. QED
    BY <1>5, <1>6

\* The disk only grows, and what is not written to stays.
LEMMA WriteCellsIs ==
    ASSUME diskSize \in Nat, DOMAIN cells = 0..(diskSize - 1),
           NEW at \in Nat, NEW content, IsContent(content), WriteCells(at, content)
    PROVE  /\ diskSize' \in Nat /\ diskSize <= diskSize' /\ at + Len(content) <= diskSize'
           /\ DOMAIN cells' = 0..(diskSize' - 1)
           /\ \A c \in 0..(diskSize' - 1) :
                cells'[c] = IF c >= at /\ c < at + Len(content) THEN content[c - at + 1]
                            ELSE IF c < diskSize THEN cells[c] ELSE Zero
<1>1. Len(content) \in Nat
    BY ContentIs
<1>2. PICK n, e : n = Len(content) /\ e = at + Len(content)
    OBVIOUS
<1>3. n \in Nat /\ e \in Nat /\ e = at + n
    BY <1>1, <1>2
<1>4. Max({diskSize, e}) = IF diskSize >= e THEN diskSize ELSE e
    BY <1>3, MaxOfTwo
<1>5. diskSize' = Max({diskSize, e})
    BY <1>2 DEF WriteCells
<1>6. diskSize' \in Nat /\ diskSize <= diskSize' /\ e <= diskSize'
    BY <1>3, <1>4, <1>5
<1>7. cells' = [c \in 0..(diskSize' - 1) |->
                  IF c >= at /\ c < at + Len(content) THEN content[c - at + 1]
                  ELSE IF c < diskSize THEN cells[c] ELSE Zero]
    BY <1>2, <1>5 DEF WriteCells
<1>8. QED
    BY <1>2, <1>6, <1>7

-----------------------------------------------------------------------------
(* The packed kernel.                                                       *)

\* h is f with g behind it.
Joins(h, f, g) ==
    /\ IsContent(h) /\ Len(h) = Len(f) + Len(g)
    /\ \A i \in 1..Len(f) : h[i] = f[i]
    /\ \A i \in 1..Len(g) : h[Len(f) + i] = g[i]

LEMMA Joined ==
    ASSUME NEW f, NEW g, IsContent(f), IsContent(g)
    PROVE  Joins(f \o g, f, g)
<1>1. PICK S : S = Range(f) \cup Range(g)
    OBVIOUS
<1>2. f \in Seq(Range(f)) /\ g \in Seq(Range(g)) /\ Len(f) \in Nat /\ Len(g) \in Nat
    BY ContentIs
<1>3. f \in Seq(S) /\ g \in Seq(S)
    BY <1>1, <1>2
<1>4. /\ f \o g \in Seq(S) /\ Len(f \o g) = Len(f) + Len(g)
      /\ \A i \in 1..(Len(f) + Len(g)) : (f \o g)[i] = IF i <= Len(f) THEN f[i] ELSE g[i - Len(f)]
    BY <1>3, ConcatProperties
<1>5. \A i \in 1..Len(f) : (f \o g)[i] = f[i]
    BY <1>2, <1>4
<1>6. \A i \in 1..Len(g) : (f \o g)[Len(f) + i] = g[i]
  <2>1. TAKE i \in 1..Len(g)
  <2>2. PICK j, l : j = Len(f) + i /\ l = Len(f)
      OBVIOUS
  <2>3. j \in 1..(Len(f) + Len(g)) /\ ~(j <= l) /\ j - l = i
      BY <1>2, <2>2
  <2>4. QED
      BY <1>4, <2>2, <2>3
<1>7. QED
    BY <1>4, <1>5, <1>6, ContentOf DEF Joins

LEMMA OneCell ==
    ASSUME NEW c
    PROVE  IsContent(<<c>>) /\ Len(<<c>>) = 1 /\ <<c>>[1] = c
<1>1. <<c>> \in Seq({c})
    OBVIOUS
<1>2. QED
    BY <1>1, ContentOf

\* The flattening of one sequence, and of two.
LEMMA FlattenRounds ==
    ASSUME NEW s, NEW N \in 1..2
    PROVE  \E f : f = [i \in 1..N |-> IF i = 1 THEN s[i] ELSE f[i - 1] \o s[i]]
<1>1. PICK both : both = s[1] \o s[2]
    OBVIOUS
<1>2. PICK g : g = [i \in 1..N |-> IF i = 1 THEN s[1] ELSE both]
    OBVIOUS
<1>3. \A i \in 1..N : g[i] = IF i = 1 THEN s[i] ELSE g[i - 1] \o s[i]
  <2>1. TAKE i \in 1..N
  <2>2. CASE i = 1
      BY <1>2, <2>2
  <2>3. CASE i # 1
    <3>1. i = 2 /\ i - 1 = 1 /\ 1 \in 1..N /\ 2 \in 1..N
        BY <2>3
    <3>2. g[2] = both /\ g[1] = s[1]
        BY <1>2, <3>1
    <3>3. g[i] = s[1] \o s[2] /\ g[i - 1] \o s[i] = s[1] \o s[2]
        BY <1>1, <3>1, <3>2
    <3>4. QED
        BY <2>3, <3>3
  <2>4. QED
      BY <2>2, <2>3
<1>4. [i \in 1..N |-> g[i]] = [i \in 1..N |-> IF i = 1 THEN s[i] ELSE g[i - 1] \o s[i]]
    BY <1>3
<1>5. g = [i \in 1..N |-> g[i]]
    BY <1>2
<1>6. g = [i \in 1..N |-> IF i = 1 THEN s[i] ELSE g[i - 1] \o s[i]]
    BY <1>4, <1>5
<1>7. QED
    BY <1>6

LEMMA FlattenIs ==
    ASSUME NEW s, NEW N \in 1..2, Len(s) = N
    PROVE  FlattenSeq(s) = IF N = 1 THEN s[1] ELSE s[1] \o s[2]
<1> DEFINE Flattens(f) == f = [i \in 1..N |-> IF i = 1 THEN s[i] ELSE f[i - 1] \o s[i]]
           F == CHOOSE f : Flattens(f)
<1>1. FlattenSeq(s) = F[N]
    BY DEF FlattenSeq
<1>2. Flattens(F)
    BY FlattenRounds
<1> HIDE DEF F
<1>3. 1 \in 1..N /\ F[1] = s[1]
  <2>1. 1 \in 1..N
      OBVIOUS
  <2>2. QED
      BY <1>2, <2>1
<1>4. N = 2 => F[2] = s[1] \o s[2]
  <2>1. HAVE N = 2
  <2>2. 2 \in 1..N /\ 2 # 1 /\ 2 - 1 = 1
      BY <2>1
  <2>3. F[2] = F[2 - 1] \o s[2]
      BY <1>2, <2>2
  <2>4. QED
      BY <1>3, <2>2, <2>3
<1>5. CASE N = 1
    BY <1>1, <1>3, <1>5
<1>6. CASE N = 2
    BY <1>1, <1>4, <1>6
<1>7. N = 1 \/ N = 2
    OBVIOUS
<1>8. QED
    BY <1>5, <1>6, <1>7

\* A module behind its size.
Sized(module) == <<uint32(Len(module))>> \o module

IsSized(f, module) ==
    /\ IsContent(f) /\ Len(f) = 1 + Len(module) /\ f[1] = uint32(Len(module))
    /\ \A j \in 1..Len(module) : f[1 + j] = module[j]

LEMMA SizedIs ==
    ASSUME NEW module, IsContent(module)
    PROVE  IsSized(Sized(module), module)
<1>1. PICK cell, f : cell = uint32(Len(module)) /\ f = <<cell>>
    OBVIOUS
<1>2. IsContent(f) /\ Len(f) = 1 /\ f[1] = cell
    BY <1>1, OneCell
<1>3. Joins(f \o module, f, module)
    BY <1>2, Joined
<1>4. Sized(module) = f \o module /\ 1 \in 1..1
    BY <1>1 DEF Sized
<1>5. QED
    BY <1>1, <1>2, <1>3, <1>4 DEF Joins, IsSized

\* Where the modules are in a packed kernel: behind c cells of the kernel are k of
\* them, the first with l cells and the second, if there is one, with n.
Packs(image, modules, c, k, l, n) ==
    /\ IsContent(image) /\ c \in Nat /\ k \in 1..2 /\ l \in Nat /\ n \in Nat
    /\ DOMAIN modules = 1..k /\ Len(modules[1]) = l /\ (k = 2 => Len(modules[2]) = n)
    /\ Len(image) = IF k = 1 THEN c + 2 + l ELSE c + 3 + l + n
    /\ image[c + 1] = uint32(k) /\ image[c + 2] = uint32(l)
    /\ \A j \in 1..l : image[c + 2 + j] = modules[1][j]
    /\ k = 2 => image[c + 3 + l] = uint32(n)
    /\ k = 2 => \A j \in 1..n : image[c + 3 + l + j] = modules[2][j]

LEMMA Packing ==
    ASSUME NEW modules, NEW start, NEW first, NEW second, NEW tail, NEW image,
           NEW c \in Nat, NEW k \in 1..2, NEW l \in Nat, NEW n \in Nat,
           DOMAIN modules = 1..k, Len(modules[1]) = l, k = 2 => Len(modules[2]) = n,
           IsContent(start), Len(start) = c + 1, start[c + 1] = uint32(k),
           IsSized(first, modules[1]), k = 2 => IsSized(second, modules[2]),
           k = 1 => tail = first, k = 2 => Joins(tail, first, second), Joins(image, start, tail)
    PROVE  Packs(image, modules, c, k, l, n)
<1>1. IsContent(first) /\ Len(first) = 1 + l /\ first[1] = uint32(l)
      /\ \A j \in 1..l : first[1 + j] = modules[1][j]
    BY DEF IsSized
<1>2. k = 2 => /\ Len(second) = 1 + n /\ second[1] = uint32(n)
               /\ \A j \in 1..n : second[1 + j] = modules[2][j]
    BY DEF IsSized
<1>3. /\ k = 1 => Len(tail) = 1 + l
      /\ k = 2 => Len(tail) = (1 + l) + (1 + n)
      /\ \A i \in 1..(1 + l) : tail[i] = first[i]
      /\ k = 2 => \A i \in 1..(1 + n) : tail[(1 + l) + i] = second[i]
  <2>1. CASE k = 1
      BY <1>1, <2>1
  <2>2. CASE k = 2
      BY <1>1, <1>2, <2>2 DEF Joins
  <2>3. QED
      BY <2>1, <2>2
<1>4. PICK m : m = Len(tail)
    OBVIOUS
<1>5. m \in Nat /\ m >= 1 + l /\ m = IF k = 1 THEN 1 + l ELSE (1 + l) + (1 + n)
    BY <1>3, <1>4
<1>6. /\ IsContent(image) /\ Len(image) = (c + 1) + m
      /\ \A i \in 1..(c + 1) : image[i] = start[i]
      /\ \A i \in 1..m : image[(c + 1) + i] = tail[i]
    BY <1>4 DEF Joins
<1>7. Len(image) = IF k = 1 THEN c + 2 + l ELSE c + 3 + l + n
  <2>1. PICK x : x = Len(image)
      OBVIOUS
  <2>2. x = (c + 1) + m
      BY <1>6, <2>1
  <2>3. x = IF k = 1 THEN c + 2 + l ELSE c + 3 + l + n
      BY <1>5, <2>2
  <2>4. QED
      BY <2>1, <2>3
<1>8. image[c + 1] = uint32(k)
  <2>1. c + 1 \in 1..(c + 1)
      OBVIOUS
  <2>2. QED
      BY <1>6, <2>1
<1>9. \A i \in 1..(1 + l) : image[(c + 1) + i] = first[i]
  <2>1. \A i \in 1..(1 + l) : i \in 1..m
      BY <1>5
  <2>2. QED
      BY <1>3, <1>6, <2>1
<1>10. image[c + 2] = uint32(l) /\ \A j \in 1..l : image[c + 2 + j] = modules[1][j]
  <2>1. 1 \in 1..(1 + l) /\ (c + 1) + 1 = c + 2
      OBVIOUS
  <2>2. \A j \in 1..l : 1 + j \in 1..(1 + l) /\ (c + 1) + (1 + j) = c + 2 + j
      OBVIOUS
  <2>3. QED
      BY <1>1, <1>9, <2>1, <2>2
<1>11. ASSUME k = 2
       PROVE  /\ image[c + 3 + l] = uint32(n)
              /\ \A j \in 1..n : image[c + 3 + l + j] = modules[2][j]
  <2>1. \A i \in 1..(1 + n) : (1 + l) + i \in 1..m /\ (c + 1) + ((1 + l) + i) = c + 2 + l + i
      BY <1>5, <1>11
  <2>2. \A i \in 1..(1 + n) : image[c + 2 + l + i] = second[i]
      BY <1>3, <1>6, <1>11, <2>1
  <2>3. 1 \in 1..(1 + n) /\ c + 2 + l + 1 = c + 3 + l
      OBVIOUS
  <2>4. \A j \in 1..n : 1 + j \in 1..(1 + n) /\ c + 2 + l + (1 + j) = c + 3 + l + j
      OBVIOUS
  <2>5. QED
      BY <1>2, <1>11, <2>2, <2>3, <2>4
<1>12. QED
    BY <1>6, <1>7, <1>8, <1>10, <1>11 DEF Packs

LEMMA ImageIs ==
    ASSUME NEW modules \in Modules
    PROVE  \E k, l, n : Packs(buildImage(modules), modules, Len(KernelBinary), k, l, n)
<1>1. PICK c, k, l, n : /\ c = Len(KernelBinary) /\ k = Len(modules) /\ l = Len(modules[1])
                        /\ n = IF k = 2 THEN Len(modules[2]) ELSE 0
    OBVIOUS
<1>2. /\ modules \in Seq(Range(modules)) /\ k \in 1..2 /\ IsContent(KernelBinary)
      /\ \A i \in DOMAIN modules : IsContent(modules[i])
    BY <1>1, ImageAssumption DEF IsContent
<1>3. DOMAIN modules = 1..k
    BY <1>1, <1>2, LenProperties
<1>4. c \in Nat /\ IsContent(modules[1]) /\ l \in Nat /\ (k = 2 => IsContent(modules[2])) /\ n \in Nat
  <2>1. 1 \in DOMAIN modules /\ (k = 2 => 2 \in DOMAIN modules)
      BY <1>2, <1>3
  <2>2. QED
      BY <1>1, <1>2, <2>1, ContentIs
<1>5. PICK first, second, sized, tail, start, cell, size :
        /\ first = Sized(modules[1]) /\ second = Sized(modules[2])
        /\ sized = [i \in 1..k |-> Sized(modules[i])] /\ tail = FlattenSeq(sized)
        /\ cell = uint32(k) /\ size = <<cell>> /\ start = KernelBinary \o size
    OBVIOUS
<1>6. buildImage(modules) = start \o tail
    BY <1>1, <1>5 DEF buildImage, Sized
<1>7. IsSized(first, modules[1]) /\ (k = 2 => IsSized(second, modules[2]))
    BY <1>4, <1>5, SizedIs
<1>8. Len(sized) = k /\ sized[1] = first /\ (k = 2 => sized[2] = second)
  <2>1. PICK S : S = {Sized(modules[i]) : i \in 1..k}
      OBVIOUS
  <2>2. sized \in [1..k -> S]
      BY <1>5, <2>1
  <2>3. sized \in Seq(S) /\ Len(sized) = k
      BY <1>2, <2>2, SeqDef, LenProperties
  <2>4. 1 \in 1..k /\ (k = 2 => 2 \in 1..k)
      BY <1>2
  <2>5. QED
      BY <1>5, <2>3, <2>4
<1>9. tail = IF k = 1 THEN first ELSE first \o second
  <2>1. tail = IF k = 1 THEN sized[1] ELSE sized[1] \o sized[2]
      BY <1>2, <1>5, <1>8, FlattenIs
  <2>2. CASE k = 1
      BY <1>8, <2>1, <2>2
  <2>3. CASE k = 2
      BY <1>8, <2>1, <2>3
  <2>4. k = 1 \/ k = 2
      BY <1>2
  <2>5. QED
      BY <2>2, <2>3, <2>4
<1>10. (k = 1 => tail = first) /\ (k = 2 => Joins(tail, first, second)) /\ IsContent(tail)
  <2>1. CASE k = 1
      BY <1>7, <1>9, <2>1 DEF IsSized
  <2>2. CASE k = 2
    <3>1. tail = first \o second /\ IsContent(first) /\ IsContent(second)
        BY <1>7, <1>9, <2>2 DEF IsSized
    <3>2. Joins(tail, first, second)
        BY <3>1, Joined
    <3>3. QED
        BY <2>2, <3>2 DEF Joins
  <2>3. QED
      BY <1>2, <2>1, <2>2
<1>11. IsContent(start) /\ Len(start) = c + 1 /\ start[c + 1] = uint32(k)
  <2>1. IsContent(size) /\ Len(size) = 1 /\ size[1] = cell
      BY <1>5, OneCell
  <2>2. Joins(start, KernelBinary, size)
      BY <1>2, <1>5, <2>1, Joined
  <2>3. 1 \in 1..1
      OBVIOUS
  <2>4. QED
      BY <1>1, <1>5, <2>1, <2>2, <2>3 DEF Joins
<1>12. Joins(buildImage(modules), start, tail)
    BY <1>6, <1>10, <1>11, Joined
<1>13. Len(modules[1]) = l /\ (k = 2 => Len(modules[2]) = n)
    BY <1>1
<1>14. Packs(buildImage(modules), modules, c, k, l, n)
    BY <1>2, <1>3, <1>4, <1>7, <1>10, <1>11, <1>12, <1>13, Packing
<1>15. QED
    BY <1>1, <1>14

-----------------------------------------------------------------------------
(* The types.  Only what a command is at makes them an invariant.           *)

LocalOK == \A f \in DOMAIN local : local[f] = None \/ IsContent(local[f])

MakesDisk == job = [op |-> job.op, string |-> job.string, parts |-> job.parts]
             /\ job.op \in {"fill", "clear"} /\ job.string \in SizeStrings /\ job.parts \in 0..3
             /\ \A i \in 1..job.parts : IsContent(local[System[i]])

WritesFile == job = [op |-> "write", name |-> job.name, left |-> job.left, at |-> job.at]
              /\ job.name \in Files /\ findfile(dir, job.name) # {} /\ IsContent(local[job.name])
              /\ IsContent(job.left) /\ job.at \in Nat

WritesSystem == job = [op |-> "system", string |-> job.string, parts |-> job.parts, at |-> job.at,
                       read |-> job.read, boot |-> job.boot, kernel |-> job.kernel]
                /\ job.at \in Nat /\ IsContent(job.boot) /\ IsContent(job.kernel)

JobOK == job \in {Idle, [op |-> "format"]} \/ MakesDisk \/ WritesFile \/ WritesSystem

Typed == TypeOK /\ LocalOK /\ JobOK

LEMMA TypesOf ==
    ASSUME TypeOK
    PROVE  /\ diskSize \in Nat /\ DOMAIN cells = 0..(diskSize - 1)
           /\ dir \in [Slots -> Entries] /\ DOMAIN local = Files \cup Range(System)
           /\ DOMAIN stored = Files /\ torn \subseteq Files
           /\ tagged \in BOOLEAN /\ careless \in BOOLEAN
           /\ num_blocks \in Nat /\ num_blocks * BlockCells <= diskSize
<1>1. diskSize \in Nat /\ diskSize <= diskSize
    BY DEF TypeOK, bmfsTypeOK
<1>2. num_blocks \in Nat /\ num_blocks * BlockCells <= diskSize
    BY <1>1, BlocksGrow DEF num_blocks
<1>3. QED
    BY <1>2 DEF TypeOK, bmfsTypeOK

LEMMA SystemIs ==
    Range(System) = {"mbr", "boot", "kernel"} /\ \A i \in 1..3 : System[i] \in Range(System)
<1>1. System = <<"mbr", "boot", "kernel">> /\ DOMAIN System = 1..3
    BY DEF System
<1>2. System[1] = "mbr" /\ System[2] = "boot" /\ System[3] = "kernel"
    BY <1>1
<1>3. Range(System) = {System[i] : i \in 1..3}
    BY <1>1 DEF Range
<1>4. QED
    BY <1>2, <1>3

LEMMA SlotIs ==
    ASSUME NEW d, NEW name, findfile(d, name) # {}
    PROVE  SlotOf(d, name) \in Listed(d) /\ SlotOf(d, name) \in Slots /\ d[SlotOf(d, name)].FileName = name
<1>1. findfile(d, name) \in SUBSET Nat
    BY DEF findfile, Listed, Slots
<1>2. SlotOf(d, name) \in findfile(d, name)
    BY <1>1, MinIn DEF SlotOf
<1>3. QED
    BY <1>2 DEF findfile, Listed

LEMMA EmptyIs ==
    EmptyDirectory \in [Slots -> Entries] /\ Listed(EmptyDirectory) = {} /\ Live(EmptyDirectory) = {}
<1>1. \A s \in Slots : 0 \in 0..s /\ s \in Nat
    BY DiskAssumption DEF Slots
<1>2. 0 \in Slots
    BY DiskAssumption DEF Slots
<1>3. [FileName |-> End, StartingBlock |-> 0, ReservedBlocks |-> 0, FileSize |-> 0] \in Entries
    BY DEF Entries
<1>4. EmptyDirectory[0].FileName = End
    BY <1>2 DEF EmptyDirectory
<1>5. EmptyDirectory \in [Slots -> Entries]
    BY <1>3 DEF EmptyDirectory
<1>6. Listed(EmptyDirectory) = {}
    BY <1>1, <1>4 DEF Listed
<1>7. QED
    BY <1>5, <1>6 DEF Live

LEMMA UsedIs ==
    ASSUME NEW d
    PROVE  num_used_entries(d) \in Nat /\ num_used_entries(d) <= MaxEntries
<1>1. CASE Listed(d) = Slots
    BY <1>1, DiskAssumption DEF num_used_entries
<1>2. CASE Listed(d) # Slots
  <2>1. PICK m \in Slots : num_used_entries(d) = m
      BY <1>2, ListedIs
  <2>2. QED
      BY <2>1, DiskAssumption DEF Slots
<1>3. QED
    BY <1>1, <1>2

\* Where create puts a file is a number, careful or not.
LEMMA StartIs ==
    ASSUME NEW d \in [Slots -> Entries], NEW order \in Sorted(d), NEW blocks
    PROVE  new_file_start(d, order, blocks) \in Nat
<1>1. PICK m \in Nat : num_used_entries(d) = m /\ m <= MaxEntries
    BY UsedIs
<1>2. Len(order) = m /\ \A i \in 1..m : order[i] \in 0..(m - 1)
    BY <1>1, SortedIs
<1>3. \A i \in 1..m : order[i] \in Slots
    BY <1>1, <1>2, DiskAssumption DEF Slots
<1>4. \A i \in 1..(m + 1) : prev_file_end(d, order, i) \in Nat
  <2>1. TAKE i \in 1..(m + 1)
  <2>2. CASE i = 1
      BY <2>2 DEF prev_file_end
  <2>3. CASE i # 1
    <3>1. i - 1 \in 1..m
        BY <2>3
    <3>2. order[i - 1] \in Slots
        BY <1>3, <3>1
    <3>3. d[order[i - 1]].StartingBlock \in Nat /\ d[order[i - 1]].ReservedBlocks \in Nat
        BY <3>2, EntryOf
    <3>4. QED
        BY <2>3, <3>3 DEF prev_file_end
  <2>4. QED
      BY <2>2, <2>3
<1>5. PICK fits : fits = {i \in 1..(Len(order) + 1) : Fits(d, order, i, blocks)}
    OBVIOUS
<1>6. new_file_start(d, order, blocks) = IF fits = {} THEN 0 ELSE prev_file_end(d, order, Min(fits))
    BY <1>5 DEF new_file_start
<1>7. CASE fits = {}
    BY <1>6, <1>7
<1>8. CASE fits # {}
  <2>1. fits \in SUBSET Nat /\ fits \subseteq 1..(m + 1)
      BY <1>2, <1>5
  <2>2. Min(fits) \in 1..(m + 1)
      BY <1>8, <2>1, MinIn
  <2>3. QED
      BY <1>4, <1>6, <1>8, <2>2
<1>9. QED
    BY <1>7, <1>8

LEMMA FreeSlotIs ==
    ASSUME NEW d, NEW slot, slot = first_free_entry(d), slot # -1
    PROVE  /\ slot \in Slots
           /\ \/ slot \in Listed(d) /\ d[slot].FileName = Deleted
              \/ Listed(d) # Slots /\ slot = Cardinality(Listed(d))
<1>1. PICK free : free = {s \in Listed(d) : d[s].FileName = Deleted} \cup
                         (IF Listed(d) = Slots THEN {} ELSE {Cardinality(Listed(d))})
    OBVIOUS
<1>2. slot = IF free = {} THEN -1 ELSE Min(free)
    BY <1>1 DEF first_free_entry
<1>3. Listed(d) # Slots => Cardinality(Listed(d)) \in Slots
    BY ListedIs
<1>4. \A s \in free : /\ s \in Slots
                      /\ \/ s \in Listed(d) /\ d[s].FileName = Deleted
                         \/ Listed(d) # Slots /\ s = Cardinality(Listed(d))
    BY <1>1, <1>3 DEF Listed
<1>5. free \in SUBSET Nat /\ free # {}
    BY <1>2, <1>4 DEF Slots
<1>6. slot \in free
    BY <1>2, <1>5, MinIn
<1>7. QED
    BY <1>4, <1>6

\* create puts one entry into the directory, and perhaps moves the end behind it.
LEMMA CreateIs ==
    ASSUME TypeOK, NEW name \in Files, NEW maxsize \in MiBs, create(name, maxsize),
           NEW blocks, blocks = (maxsize + 1) \div 2,
           NEW slot, slot = first_free_entry(dir)
    PROVE  /\ blocks \in Nat \ {0} /\ slot \in Slots /\ dir' \in [Slots -> Entries]
           /\ \E order \in Sorted(dir) :
                 /\ new_file_start(dir, order, blocks) # 0
                 /\ dir'[slot] = [FileName |-> name,
                                  StartingBlock |-> new_file_start(dir, order, blocks),
                                  ReservedBlocks |-> blocks, FileSize |-> 0]
           /\ careless' = (careless \/ ~HasRoom(dir, blocks))
           /\ \A t \in Slots \ {slot} : \/ dir'[t] = dir[t]
                                        \/ /\ t = slot + 1 /\ slot = num_used_entries(dir)
                                           /\ dir'[t].FileName = End
           /\ slot = num_used_entries(dir) /\ slot + 1 \in Slots => dir'[slot + 1].FileName = End
<1>1. dir \in [Slots -> Entries]
    BY TypesOf
<1>2. blocks \in Nat \ {0}
  <2>1. maxsize \in Nat /\ maxsize >= 1
      BY DiskAssumption
  <2>2. QED
      BY <2>1
<1>3. slot \in Slots
    BY FreeSlotIs DEF create
<1>4. PICK order \in Sorted(dir) :
         /\ new_file_start(dir, order, blocks) # 0
         /\ dir' = EndMoved([dir EXCEPT ![slot] =
                        [FileName |-> name, StartingBlock |-> new_file_start(dir, order, blocks),
                         ReservedBlocks |-> blocks, FileSize |-> 0]], slot)
         /\ careless' = (careless \/ ~HasRoom(dir, blocks))
    BY DEF create
<1>5. PICK e, d : /\ e = [FileName |-> name, StartingBlock |-> new_file_start(dir, order, blocks),
                          ReservedBlocks |-> blocks, FileSize |-> 0]
                  /\ d = [dir EXCEPT ![slot] = e]
    OBVIOUS
<1>6. e \in Entries
    BY <1>1, <1>2, <1>5, StartIs DEF Entries
<1>7. d \in [Slots -> Entries] /\ d[slot] = e /\ \A t \in Slots \ {slot} : d[t] = dir[t]
    BY <1>1, <1>3, <1>5, <1>6
<1>8. dir' = EndMoved(d, slot)
    BY <1>4, <1>5
<1>9. slot \in Nat /\ (slot + 1 \in Slots <=> slot + 1 < MaxEntries) /\ slot + 1 # slot
    BY <1>3, DiskAssumption DEF Slots
<1>10. CASE slot = num_used_entries(dir) /\ slot + 1 < MaxEntries
  <2>1. PICK x : x = [d[slot + 1] EXCEPT !.FileName = End]
      OBVIOUS
  <2>2. dir' = [d EXCEPT ![slot + 1] = x]
      BY <1>8, <1>10, <2>1 DEF EndMoved
  <2>3. x \in Entries /\ x.FileName = End
      BY <1>7, <1>9, <1>10, <2>1 DEF Entries
  <2>4. /\ dir' \in [Slots -> Entries] /\ dir'[slot + 1] = x
        /\ \A t \in Slots \ {slot + 1} : dir'[t] = d[t]
      BY <1>7, <1>9, <1>10, <2>2, <2>3
  <2>5. QED
      BY <1>2, <1>3, <1>4, <1>5, <1>7, <1>9, <1>10, <2>3, <2>4
<1>11. CASE ~(slot = num_used_entries(dir) /\ slot + 1 < MaxEntries)
  <2>1. dir' = d
      BY <1>8, <1>11 DEF EndMoved
  <2>2. QED
      BY <1>2, <1>3, <1>4, <1>5, <1>7, <1>9, <1>11, <2>1
<1>12. QED
    BY <1>10, <1>11

LEMMA InitTyped ==
    ASSUME Init
    PROVE  Typed
<1>1. PICK contents \in LocalContents :
         local = [f \in Files \cup Range(System) |->
                    CASE f \in Files -> contents[f]
                      [] f = "mbr"   -> <<Zero>>
                      [] f = "boot"  -> BootLoader
                      [] OTHER       -> None]
    BY DEF Init
<1>2. \A f \in Files : contents[f] = None \/ IsContent(contents[f])
    BY ContentsAssumption DEF IsContent
<1>3. IsContent(<<Zero>>)
  <2>1. <<Zero>> \in Seq({Zero})
      OBVIOUS
  <2>2. QED
      BY <2>1, ContentOf
<1>4. IsContent(BootLoader)
    BY ImageAssumption DEF IsContent
<1>5. DOMAIN local = Files \cup Range(System)
    BY <1>1
<1>6. \A f \in DOMAIN local : \/ f \in Files /\ local[f] = contents[f]
                              \/ local[f] \in {<<Zero>>, BootLoader, None}
    BY <1>1
<1>7. LocalOK
    BY <1>2, <1>3, <1>4, <1>6 DEF LocalOK
<1>10. /\ diskSize = 0 /\ cells = <<>> /\ tagged = FALSE /\ dir = EmptyDirectory
       /\ job = Idle /\ stored = [f \in Files |-> None] /\ torn = {} /\ careless = FALSE
    BY DEF Init, bmfsInit
<1>11. bmfsTypeOK
  <2>1. DOMAIN <<>> = 0..(0 - 1)
      OBVIOUS
  <2>2. diskSize \in Nat /\ tagged \in BOOLEAN /\ careless \in BOOLEAN /\ torn \subseteq Files
      BY <1>10
  <2>3. DOMAIN stored = Files
      BY <1>10
  <2>4. QED
      BY <1>10, <2>1, <2>2, <2>3, EmptyIs DEF bmfsTypeOK
<1>12. QED
    BY <1>5, <1>7, <1>10, <1>11 DEF Typed, TypeOK, JobOK

LEMMA PackTyped ==
    ASSUME Typed, NEW modules \in Modules, pack(modules)
    PROVE  Typed'
<1>1. /\ job = Idle /\ local' = [local EXCEPT !["kernel"] = buildImage(modules)]
      /\ UNCHANGED <<diskSize, tagged, dir, cells, job, stored, torn, careless, built>>
    BY DEF pack
<1>2. IsContent(buildImage(modules))
    BY ImageIs DEF Packs
<1>3. DOMAIN local' = DOMAIN local /\ \A f \in DOMAIN local : local'[f] = local[f] \/ local'[f] = buildImage(modules)
    BY <1>1
<1>4. LocalOK'
    BY <1>2, <1>3 DEF LocalOK, Typed
<1>5. JobOK'
    BY <1>1 DEF JobOK
<1>6. TypeOK'
    BY <1>1, <1>3 DEF Typed, TypeOK, bmfsTypeOK
<1>7. QED
    BY <1>4, <1>5, <1>6 DEF Typed

LEMMA InitializeTyped ==
    ASSUME Typed, NEW string \in SizeStrings, NEW parts \in Parts, initialize(string, parts)
    PROVE  Typed'
<1>1. /\ job' = [op |-> "fill", string |-> string, parts |-> parts]
      /\ diskSize' = 0 /\ cells' = <<>> /\ tagged' = FALSE /\ dir' = EmptyDirectory
      /\ stored' = [f \in Files |-> None] /\ torn' = {} /\ careless' = FALSE /\ local' = local
      /\ \A i \in 1..parts : local[System[i]] # None
    BY DEF initialize
<1>2. parts \in 0..3
    BY DiskAssumption
<1>3. \A i \in 1..parts : System[i] \in DOMAIN local
  <2>1. \A i \in 1..parts : i \in 1..3
      BY <1>2
  <2>2. QED
      BY <2>1, SystemIs, TypesOf DEF Typed
<1>4. \A i \in 1..parts : IsContent(local[System[i]])
    BY <1>1, <1>3 DEF Typed, LocalOK
<1>5. MakesDisk'
  <2>1. job'.op = "fill" /\ job'.string = string /\ job'.parts = parts
      BY <1>1
  <2>2. QED
      BY <1>1, <1>2, <1>4, <2>1 DEF MakesDisk
<1>6. TypeOK'
  <2>1. DOMAIN <<>> = 0..(0 - 1)
      OBVIOUS
  <2>2. diskSize' \in Nat /\ DOMAIN stored' = Files /\ DOMAIN local' = DOMAIN local
      BY <1>1
  <2>3. QED
      BY <1>1, <2>1, <2>2, EmptyIs DEF Typed, TypeOK, bmfsTypeOK
<1>7. LocalOK'
    BY <1>1 DEF Typed, LocalOK
<1>8. QED
    BY <1>5, <1>6, <1>7 DEF Typed, JobOK

LEMMA CreateTyped ==
    ASSUME Typed, NEW name \in Files, NEW maxsize \in MiBs, create(name, maxsize)
    PROVE  Typed'
<1>1. /\ job = Idle /\ stored' = [stored EXCEPT ![name] = <<>>] /\ torn' = torn \ {name}
      /\ UNCHANGED <<diskSize, tagged, cells, local, job, built>>
    BY DEF create, Opened
<1>2. dir' \in [Slots -> Entries] /\ careless' = (careless \/ ~HasRoom(dir, (maxsize + 1) \div 2))
    BY CreateIs DEF Typed
<1>3. careless' \in BOOLEAN
    BY <1>2 DEF Typed, TypeOK, bmfsTypeOK
<1>4. TypeOK'
    BY <1>1, <1>2, <1>3 DEF Typed, TypeOK, bmfsTypeOK
<1>5. QED
    BY <1>1, <1>4 DEF Typed, LocalOK, JobOK

LEMMA DeleteTyped ==
    ASSUME Typed, NEW name \in Files, delete(name)
    PROVE  Typed'
<1>1. /\ job = Idle /\ stored' = [stored EXCEPT ![name] = None] /\ torn' = torn \ {name}
      /\ findfile(dir, name) # {}
      /\ UNCHANGED <<diskSize, tagged, cells, local, job, careless, built>>
    BY DEF delete, Opened
<1>2. PICK slot : slot = SlotOf(dir, name)
    OBVIOUS
<1>3. dir' = [dir EXCEPT ![slot].FileName = Deleted] /\ slot \in Slots /\ dir \in [Slots -> Entries]
    BY <1>1, <1>2, SlotIs, TypesOf DEF delete, Typed
<1>4. [dir[slot] EXCEPT !.FileName = Deleted] \in Entries
    BY <1>3 DEF Entries
<1>5. dir' \in [Slots -> Entries]
    BY <1>3, <1>4
<1>6. TypeOK'
    BY <1>1, <1>5 DEF Typed, TypeOK, bmfsTypeOK
<1>7. QED
    BY <1>1, <1>6 DEF Typed, LocalOK, JobOK

LEMMA ReadTyped ==
    ASSUME Typed, NEW name \in Files, read(name)
    PROVE  Typed'
<1>1. /\ job = Idle /\ findfile(dir, name) # {}
      /\ local' = [local EXCEPT ![name] = Content(dir, SlotOf(dir, name))]
      /\ UNCHANGED <<diskSize, tagged, dir, cells, job, stored, torn, careless, built>>
    BY DEF read, Opened
<1>2. PICK slot, f, n : slot = SlotOf(dir, name) /\ f = Content(dir, slot) /\ n = dir[slot].FileSize
    OBVIOUS
<1>3. slot \in Slots /\ n \in Nat
    BY <1>1, <1>2, SlotIs, TypesOf, EntryOf DEF Typed
<1>4. IsContent(f)
  <2>1. f = [i \in 1..n |-> cells[dir[slot].StartingBlock * BlockCells + i - 1]]
      BY <1>2 DEF Content
  <2>2. PICK S : S = {f[i] : i \in 1..n}
      OBVIOUS
  <2>3. f \in [1..n -> S]
      BY <2>1, <2>2
  <2>4. f \in Seq(S)
      BY <1>3, <2>3, SeqDef
  <2>5. QED
      BY <2>4, ContentOf
<1>5. DOMAIN local' = DOMAIN local /\ \A g \in DOMAIN local : local'[g] = local[g] \/ local'[g] = f
    BY <1>1, <1>2
<1>6. LocalOK'
    BY <1>4, <1>5 DEF Typed, LocalOK
<1>7. TypeOK'
    BY <1>1, <1>5 DEF Typed, TypeOK, bmfsTypeOK
<1>8. QED
    BY <1>1, <1>6, <1>7 DEF Typed, JobOK

LEMMA WriteTyped ==
    ASSUME Typed, NEW name \in Files, write(name)
    PROVE  Typed'
<1>1. /\ findfile(dir, name) # {} /\ local[name] # None /\ torn' = torn \cup {name}
      /\ UNCHANGED <<diskSize, tagged, dir, cells, local, stored, careless, built>>
    BY DEF write
<1>2. PICK at : at = dir[SlotOf(dir, name)].StartingBlock * BlockCells
    OBVIOUS
<1>3. job' = [op |-> "write", name |-> name, left |-> local[name], at |-> at]
    BY <1>2 DEF write
<1>4. dir[SlotOf(dir, name)].StartingBlock \in Nat /\ BlockCells \in Nat
    BY <1>1, SlotIs, TypesOf, EntryOf, DiskAssumption DEF Typed
<1>5. at \in Nat
    BY <1>2, <1>4
<1>6. IsContent(local[name])
    BY <1>1, TypesOf DEF Typed, LocalOK
<1>7. WritesFile'
  <2>1. job'.name = name /\ job'.left = local[name] /\ job'.at = at
      BY <1>3
  <2>2. findfile(dir', name) # {}
      BY <1>1
  <2>3. QED
      BY <1>1, <1>3, <1>5, <1>6, <2>1, <2>2 DEF WritesFile
<1>8. TypeOK'
    BY <1>1 DEF Typed, TypeOK, bmfsTypeOK
<1>9. LocalOK'
    BY <1>1 DEF Typed, LocalOK
<1>10. QED
    BY <1>7, <1>8, <1>9 DEF Typed, JobOK

\* Which of the four a command is at.
LEMMA JobIs ==
    ASSUME JobOK
    PROVE  /\ job.op = "write" => WritesFile
           /\ job.op \in {"fill", "clear"} => MakesDisk
           /\ job.op = "system" => WritesSystem
           /\ job.op = "format" => job = [op |-> "format"]
BY DEF JobOK, MakesDisk, WritesFile, WritesSystem, Idle

LEMMA WriteDataTyped ==
    ASSUME Typed, WriteData
    PROVE  Typed'
<1>1. /\ job.op = "write" /\ WriteCells(job.at, FirstCells(job.left, BUFSIZ))
      /\ job' = [job EXCEPT !.left = OtherCells(@, BUFSIZ), !.at = @ + BUFSIZ]
      /\ UNCHANGED <<tagged, dir, local, stored, torn, careless, built>>
    BY DEF WriteData
<1>2. WritesFile
    BY <1>1, JobIs DEF Typed
<1>3. BUFSIZ \in Nat \ {0}
    BY DiskAssumption
<1>4. IsContent(FirstCells(job.left, BUFSIZ)) /\ IsContent(OtherCells(job.left, BUFSIZ))
    BY <1>2, <1>3, CutIs DEF WritesFile
<1>5. diskSize' \in Nat /\ DOMAIN cells' = 0..(diskSize' - 1)
    BY <1>1, <1>2, <1>4, TypesOf, WriteCellsIs DEF Typed, WritesFile
<1>6. PICK name, left, at : /\ job = [op |-> "write", name |-> name, left |-> left, at |-> at]
                            /\ name = job.name /\ left = job.left /\ at = job.at
    BY <1>2 DEF WritesFile
<1>7. job' = [op |-> "write", name |-> name, left |-> OtherCells(left, BUFSIZ), at |-> at + BUFSIZ]
    BY <1>1, <1>6
<1>8. job'.name = name /\ job'.left = OtherCells(left, BUFSIZ) /\ job'.at = at + BUFSIZ
    BY <1>7
<1>9. at + BUFSIZ \in Nat
    BY <1>2, <1>3, <1>6 DEF WritesFile
<1>10. findfile(dir', name) # {} /\ IsContent(local'[name]) /\ name \in Files
    BY <1>1, <1>2, <1>6 DEF WritesFile
<1>11. WritesFile'
    BY <1>4, <1>6, <1>7, <1>8, <1>9, <1>10 DEF WritesFile
<1>12. TypeOK'
    BY <1>1, <1>5 DEF Typed, TypeOK, bmfsTypeOK
<1>13. LocalOK'
    BY <1>1 DEF Typed, LocalOK
<1>14. QED
    BY <1>11, <1>12, <1>13 DEF Typed, JobOK

LEMMA WriteEntryTyped ==
    ASSUME Typed, WriteEntry
    PROVE  Typed'
<1>1. /\ job.op = "write" /\ job' = Idle
      /\ dir' = [dir EXCEPT ![SlotOf(dir, job.name)].FileSize = Len(local[job.name])]
      /\ stored' = [stored EXCEPT ![job.name] = local[job.name]] /\ torn' = torn \ {job.name}
      /\ UNCHANGED <<diskSize, tagged, cells, local, careless, built>>
    BY DEF WriteEntry
<1>2. WritesFile
    BY <1>1, JobIs DEF Typed
<1>3. PICK slot, n : slot = SlotOf(dir, job.name) /\ n = Len(local[job.name])
    OBVIOUS
<1>4. slot \in Slots /\ n \in Nat /\ dir \in [Slots -> Entries]
    BY <1>2, <1>3, SlotIs, ContentIs, TypesOf DEF WritesFile, Typed
<1>5. [dir[slot] EXCEPT !.FileSize = n] \in Entries
    BY <1>4 DEF Entries
<1>6. dir' = [dir EXCEPT ![slot].FileSize = n]
    BY <1>1, <1>3
<1>7. dir' \in [Slots -> Entries]
    BY <1>4, <1>5, <1>6
<1>8. TypeOK'
    BY <1>1, <1>7 DEF Typed, TypeOK, bmfsTypeOK
<1>9. LocalOK'
    BY <1>1 DEF Typed, LocalOK
<1>10. QED
    BY <1>1, <1>8, <1>9 DEF Typed, JobOK

LEMMA FillIs ==
    ASSUME Typed, Fill
    PROVE  /\ MakesDisk /\ diskSize' \in Nat /\ diskSize <= diskSize' /\ DOMAIN cells' = 0..(diskSize' - 1)
           /\ UNCHANGED <<tagged, dir, local, job, stored, torn, careless, built>>
<1>1. /\ job.op = "fill" /\ diskSize < parseSize(job.string)
      /\ diskSize' = Min({diskSize + BufferCells, parseSize(job.string)})
      /\ cells' = [c \in 0..(diskSize' - 1) |-> Zero]
      /\ UNCHANGED <<tagged, dir, local, job, stored, torn, careless, built>>
    BY DEF Fill
<1>2. MakesDisk
    BY <1>1, JobIs DEF Typed
<1>3. PICK size, more : size = parseSize(job.string) /\ more = diskSize + BufferCells
    OBVIOUS
<1>4. size \in Int /\ diskSize \in Nat /\ BufferCells \in Nat /\ diskSize < size
    BY <1>1, <1>2, <1>3, SizesAssumption, DiskAssumption, TypesOf DEF MakesDisk, Typed
<1>5. more \in Int /\ diskSize <= more
    BY <1>3, <1>4
<1>6. diskSize' = IF more <= size THEN more ELSE size
    BY <1>1, <1>3, <1>4, <1>5, MaxOfTwo
<1>7. diskSize' \in Nat /\ diskSize <= diskSize'
    BY <1>4, <1>5, <1>6
<1>8. QED
    BY <1>1, <1>2, <1>7

LEMMA SystemStepIs ==
    ASSUME Typed, WriteSystem
    PROVE  /\ diskSize' \in Nat /\ diskSize <= diskSize' /\ DOMAIN cells' = 0..(diskSize' - 1)
           /\ UNCHANGED <<tagged, dir, local, stored, torn, careless, built>>
           /\ WritesSystem /\ WritesSystem'
<1>1. job.op = "system" /\ UNCHANGED <<tagged, dir, local, stored, torn, careless, built>>
    BY DEF WriteSystem
<1>2. WritesSystem
    BY <1>1, JobIs DEF Typed
<1>3. PICK string, parts, at, rd, boot, kernel :
         /\ job = [op |-> "system", string |-> string, parts |-> parts, at |-> at,
                   read |-> rd, boot |-> boot, kernel |-> kernel]
         /\ at \in Nat /\ IsContent(boot) /\ IsContent(kernel)
    BY <1>2 DEF WritesSystem
<1>4. BufferCells \in Nat \ {0}
    BY DiskAssumption
<1>5. ASSUME NEW file, IsContent(file), WriteCells(at, FirstCells(file, BufferCells))
      PROVE  /\ diskSize' \in Nat /\ diskSize <= diskSize' /\ DOMAIN cells' = 0..(diskSize' - 1)
             /\ IsContent(OtherCells(file, BufferCells))
             /\ at + Len(FirstCells(file, BufferCells)) \in Nat
  <2>1. /\ IsContent(FirstCells(file, BufferCells)) /\ IsContent(OtherCells(file, BufferCells))
      BY <1>4, <1>5, CutIs
  <2>2. Len(FirstCells(file, BufferCells)) \in Nat
      BY <2>1, ContentIs
  <2>3. diskSize' \in Nat /\ diskSize <= diskSize' /\ DOMAIN cells' = 0..(diskSize' - 1)
      BY <1>3, <1>5, <2>1, TypesOf, WriteCellsIs DEF Typed
  <2>4. QED
      BY <1>3, <2>1, <2>2, <2>3
<1>6. CASE WriteNext("boot", job.at)
  <2>1. /\ WriteCells(at, FirstCells(boot, BufferCells))
        /\ job' = [op |-> "system", string |-> string, parts |-> parts,
                   at |-> at + Len(FirstCells(boot, BufferCells)),
                   read |-> rd, boot |-> OtherCells(boot, BufferCells), kernel |-> kernel]
      BY <1>3, <1>6 DEF WriteNext
  <2>2. WritesSystem'
    <3>1. /\ IsContent(OtherCells(boot, BufferCells)) /\ at + Len(FirstCells(boot, BufferCells)) \in Nat
        BY <1>3, <1>5, <2>1
    <3>2. QED
        BY <1>3, <2>1, <3>1 DEF WritesSystem
  <2>3. QED
      BY <1>1, <1>2, <1>3, <1>5, <2>1, <2>2
<1>7. CASE WriteNext("kernel", job.at)
  <2>1. /\ WriteCells(at, FirstCells(kernel, BufferCells))
        /\ job' = [op |-> "system", string |-> string, parts |-> parts,
                   at |-> at + Len(FirstCells(kernel, BufferCells)),
                   read |-> rd, boot |-> boot, kernel |-> OtherCells(kernel, BufferCells)]
      BY <1>3, <1>7 DEF WriteNext
  <2>2. WritesSystem'
    <3>1. /\ IsContent(OtherCells(kernel, BufferCells)) /\ at + Len(FirstCells(kernel, BufferCells)) \in Nat
        BY <1>3, <1>5, <2>1
    <3>2. QED
        BY <1>3, <2>1, <3>1 DEF WritesSystem
  <2>3. QED
      BY <1>1, <1>2, <1>3, <1>5, <2>1, <2>2
<1>8. QED
    BY <1>6, <1>7 DEF WriteSystem

LEMMA EmptyContent == IsContent(<<>>) /\ Len(<<>>) = 0
<1>1. <<>> \in Seq({})
    OBVIOUS
<1>2. QED
    BY <1>1, ContentOf

\* What is left of the steps: those that leave the files of the host alone.
LEMMA OtherTyped ==
    ASSUME Typed, \/ format \/ Fill \/ Tag \/ ClearDirectory \/ WriteSystem \/ ReadError
                  \/ Initialized \/ Killed
    PROVE  Typed'
<1>1. CASE format
  <2>1. job' = [op |-> "format"] /\ tagged' = TRUE
        /\ UNCHANGED <<diskSize, dir, cells, local, stored, torn, careless, built>>
      BY <1>1 DEF format
  <2>2. QED
      BY <2>1 DEF Typed, TypeOK, bmfsTypeOK, LocalOK, JobOK
<1>2. CASE Fill
  <2>1. /\ MakesDisk /\ diskSize' \in Nat /\ DOMAIN cells' = 0..(diskSize' - 1)
        /\ UNCHANGED <<tagged, dir, local, job, stored, torn, careless, built>>
      BY <1>2, FillIs
  <2>2. MakesDisk'
      BY <2>1 DEF MakesDisk
  <2>3. QED
      BY <2>1, <2>2 DEF Typed, TypeOK, bmfsTypeOK, LocalOK, JobOK
<1>3. CASE Tag
  <2>1. job.op = "fill" /\ job' = [job EXCEPT !.op = "clear"] /\ tagged' = TRUE
        /\ UNCHANGED <<diskSize, dir, cells, local, stored, torn, careless, built>>
      BY <1>3 DEF Tag
  <2>2. MakesDisk
      BY <2>1, JobIs DEF Typed
  <2>3. job' = [op |-> "clear", string |-> job.string, parts |-> job.parts]
      BY <2>1, <2>2 DEF MakesDisk
  <2>4. MakesDisk'
      BY <2>1, <2>2, <2>3 DEF MakesDisk
  <2>5. QED
      BY <2>1, <2>4 DEF Typed, TypeOK, bmfsTypeOK, LocalOK, JobOK
<1>4. CASE ClearDirectory
  <2>1. /\ job.op \in {"format", "clear"} /\ dir' = EmptyDirectory
        /\ stored' = [f \in Files |-> None] /\ torn' = {} /\ careless' = FALSE
        /\ UNCHANGED <<diskSize, tagged, cells, local, built>>
      BY <1>4 DEF ClearDirectory
  <2>2. TypeOK'
    <3>1. DOMAIN stored' = Files
        BY <2>1
    <3>2. QED
        BY <2>1, <3>1, EmptyIs DEF Typed, TypeOK, bmfsTypeOK
  <2>3. LocalOK'
      BY <2>1 DEF Typed, LocalOK
  <2>4. CASE job.op = "format"
    <3>1. job' = Idle
        BY <1>4, <2>4 DEF ClearDirectory
    <3>2. QED
        BY <2>2, <2>3, <3>1 DEF Typed, JobOK
  <2>5. CASE job.op = "clear"
    <3>1. MakesDisk
        BY <2>5, JobIs DEF Typed
    <3>2. job' = [op |-> "system", string |-> job.string, parts |-> job.parts, at |-> SysStart,
                  read |-> TRUE, boot |-> FileOf(2, job.parts), kernel |-> FileOf(3, job.parts)]
        BY <1>4, <2>5 DEF ClearDirectory
    <3>3. \A i \in {2, 3} : IsContent(FileOf(i, job.parts))
      <4>1. TAKE i \in {2, 3}
      <4>2. job.parts \in Nat
          BY <3>1 DEF MakesDisk
      <4>3. CASE i <= job.parts
        <5>1. i \in 1..job.parts
            BY <4>2, <4>3
        <5>2. QED
            BY <3>1, <4>3, <5>1 DEF FileOf, MakesDisk
      <4>4. CASE ~(i <= job.parts)
          BY <4>4, EmptyContent DEF FileOf
      <4>5. QED
          BY <4>3, <4>4
    <3>4. PICK boot, kernel : boot = FileOf(2, job.parts) /\ kernel = FileOf(3, job.parts)
        OBVIOUS
    <3>5. job'.at = SysStart /\ job'.boot = boot /\ job'.kernel = kernel /\ SysStart \in Nat
        BY <3>2, <3>4 DEF SysStart
    <3>6. WritesSystem'
        BY <3>2, <3>3, <3>4, <3>5 DEF WritesSystem
    <3>7. QED
        BY <2>2, <2>3, <3>6 DEF Typed, JobOK
  <2>6. QED
      BY <2>1, <2>4, <2>5
<1>5. CASE WriteSystem
    BY <1>5, SystemStepIs DEF Typed, TypeOK, bmfsTypeOK, LocalOK, JobOK
<1>6. CASE ReadError
  <2>1. job.op = "system" /\ UNCHANGED <<diskSize, tagged, dir, cells, local, stored, torn, careless, built>>
      BY <1>6 DEF ReadError
  <2>2. WritesSystem
      BY <2>1, JobIs DEF Typed
  <2>3. PICK string, parts, at, rd, boot, kernel :
           /\ job = [op |-> "system", string |-> string, parts |-> parts, at |-> at,
                     read |-> rd, boot |-> boot, kernel |-> kernel]
           /\ at \in Nat /\ IsContent(boot) /\ IsContent(kernel)
      BY <2>2 DEF WritesSystem
  <2>4. \/ job' = [op |-> "system", string |-> string, parts |-> parts, at |-> at,
                   read |-> FALSE, boot |-> <<>>, kernel |-> kernel]
        \/ job' = [op |-> "system", string |-> string, parts |-> parts, at |-> at,
                   read |-> FALSE, boot |-> boot, kernel |-> <<>>]
      BY <1>6, <2>3 DEF ReadError
  <2>5. WritesSystem'
      BY <2>3, <2>4, EmptyContent DEF WritesSystem
  <2>6. QED
      BY <2>1, <2>5 DEF Typed, TypeOK, bmfsTypeOK, LocalOK, JobOK
<1>7. CASE Initialized
  <2>1. job' = Idle /\ UNCHANGED <<diskSize, tagged, dir, cells, local, stored, torn, careless>>
      BY <1>7 DEF Initialized
  <2>2. QED
      BY <2>1 DEF Typed, TypeOK, bmfsTypeOK, LocalOK, JobOK
<1>8. CASE Killed
  <2>1. job' = Idle /\ UNCHANGED <<diskSize, tagged, dir, cells, local, stored, torn, careless, built>>
      BY <1>8 DEF Killed
  <2>2. QED
      BY <2>1 DEF Typed, TypeOK, bmfsTypeOK, LocalOK, JobOK
<1>9. QED
    BY <1>1, <1>2, <1>3, <1>4, <1>5, <1>6, <1>7, <1>8

-----------------------------------------------------------------------------
(* The blocks of the files.                                                 *)

PartedInv == ~careless => Parted(dir, num_blocks)

LEMMA ListedTo ==
    ASSUME NEW d, NEW m \in Nat, m <= MaxEntries, \A t \in 0..(m - 1) : d[t].FileName # End,
           m < MaxEntries => d[m].FileName = End
    PROVE  Listed(d) = 0..(m - 1)
<1>1. MaxEntries \in Nat
    BY DiskAssumption
<1>2. ASSUME NEW s \in 0..(m - 1)
      PROVE  s \in Listed(d)
  <2>1. s \in Slots /\ \A t \in 0..s : t \in 0..(m - 1)
      BY <1>1 DEF Slots
  <2>2. QED
      BY <2>1 DEF Listed
<1>3. ASSUME NEW s \in Listed(d)
      PROVE  s \in 0..(m - 1)
  <2>1. s \in Nat /\ s < MaxEntries /\ \A t \in 0..s : d[t].FileName # End
      BY <1>1 DEF Listed, Slots
  <2>2. ~(m <= s)
    <3>1. SUFFICES ASSUME m <= s PROVE FALSE
        OBVIOUS
    <3>2. m \in 0..s /\ m < MaxEntries
        BY <1>1, <2>1, <3>1
    <3>3. QED
        BY <2>1, <3>2
  <2>3. QED
      BY <2>1, <2>2
<1>4. QED
    BY <1>2, <1>3

LEMMA SameListed ==
    ASSUME NEW d, NEW e, \A t \in Slots : d[t].FileName = End <=> e[t].FileName = End
    PROVE  Listed(d) = Listed(e)
<1>1. \A s \in Slots : \A t \in 0..s : t \in Slots
    BY DiskAssumption DEF Slots
<1>2. QED
    BY <1>1 DEF Listed

LEMMA PartedGrows ==
    ASSUME NEW d \in [Slots -> Entries], NEW m \in Nat, NEW n \in Nat, m <= n, Parted(d, m)
    PROVE  Parted(d, n)
<1>1. \A s \in Live(d) : EndOf(d[s]) <= n - 1
  <2>1. TAKE s \in Live(d)
  <2>2. s \in Slots
      BY DEF Live, Listed
  <2>3. EndOf(d[s]) \in Nat /\ EndOf(d[s]) <= m - 1
      BY <2>2, EntryOf DEF Parted
  <2>4. QED
      BY <2>3
<1>2. QED
    BY <1>1 DEF Parted

LEMMA PartedKeeps ==
    ASSUME NEW d, NEW e, NEW n, Parted(d, n), Live(e) \subseteq Live(d),
           \A s \in Live(e) : /\ e[s].StartingBlock = d[s].StartingBlock
                              /\ e[s].ReservedBlocks = d[s].ReservedBlocks
    PROVE  Parted(e, n)
<1>1. \A s \in Live(e) : s \in Live(d) /\ e[s].StartingBlock = d[s].StartingBlock
                         /\ EndOf(e[s]) = EndOf(d[s])
    BY DEF EndOf
<1>2. QED
    BY <1>1 DEF Parted

\* The directory stays, or it is empty afterwards.
LEMMA StaysParted ==
    ASSUME Typed, PartedInv, dir' = dir, careless' = careless, diskSize' \in Nat, diskSize <= diskSize'
    PROVE  PartedInv'
<1>1. dir \in [Slots -> Entries] /\ diskSize \in Nat
    BY TypesOf DEF Typed
<1>2. num_blocks \in Nat /\ num_blocks' \in Nat /\ num_blocks <= num_blocks'
    BY <1>1, BlocksGrow DEF num_blocks
<1>3. QED
    BY <1>1, <1>2, PartedGrows DEF PartedInv

LEMMA EmptyParted ==
    ASSUME dir' = EmptyDirectory
    PROVE  PartedInv'
BY EmptyIs DEF PartedInv, Parted

\* What a careful create does: one file more, in room that nobody has.
LEMMA CreatesFile ==
    ASSUME Typed, PartedInv, NEW name \in Files, NEW maxsize \in MiBs, create(name, maxsize), ~careless',
           NEW slot, slot = first_free_entry(dir)
    PROVE  /\ ~careless /\ slot \in Slots /\ slot \notin Live(dir) /\ Live(dir') = Live(dir) \cup {slot}
           /\ dir'[slot].FileName = name /\ dir'[slot].FileSize = 0 /\ dir' \in [Slots -> Entries]
           /\ \A t \in Live(dir) : dir'[t] = dir[t]
           /\ dir'[slot].ReservedBlocks \in Nat \ {0}
           /\ FreeAt(dir, dir'[slot].StartingBlock, dir'[slot].ReservedBlocks)
<1>1. PICK blocks : blocks = (maxsize + 1) \div 2
    OBVIOUS
<1>2. dir \in [Slots -> Entries] /\ num_blocks \in Nat /\ TypeOK
    BY TypesOf DEF Typed
<1>3. PICK order \in Sorted(dir) :
         /\ blocks \in Nat \ {0} /\ slot \in Slots /\ dir' \in [Slots -> Entries]
         /\ dir'[slot] = [FileName |-> name,
                          StartingBlock |-> new_file_start(dir, order, blocks),
                          ReservedBlocks |-> blocks, FileSize |-> 0]
         /\ careless' = (careless \/ ~HasRoom(dir, blocks))
         /\ \A t \in Slots \ {slot} : \/ dir'[t] = dir[t]
                                      \/ /\ t = slot + 1 /\ slot = num_used_entries(dir)
                                         /\ dir'[t].FileName = End
         /\ slot = num_used_entries(dir) /\ slot + 1 \in Slots => dir'[slot + 1].FileName = End
    BY <1>1, <1>2, CreateIs
<1>4. ~careless /\ HasRoom(dir, blocks) /\ Listed(dir) # Slots /\ Parted(dir, num_blocks)
    BY <1>3 DEF HasRoom, PartedInv
<1>5. PICK m \in Slots : /\ Listed(dir) = 0..(m - 1) /\ dir[m].FileName = End
                         /\ Cardinality(Listed(dir)) = m /\ num_used_entries(dir) = m
    BY <1>4, ListedIs
<1>6. m \in Nat /\ m < MaxEntries /\ MaxEntries \in Nat /\ slot \in Nat /\ slot < MaxEntries
    BY <1>3, <1>5, DiskAssumption DEF Slots
<1>7. slot # -1
    BY <1>6
<1>8. \/ slot \in 0..(m - 1) /\ dir[slot].FileName = Deleted
      \/ slot = m
    BY <1>5, <1>7, FreeSlotIs
<1>9. \A t \in 0..(m - 1) : t \in Slots /\ dir[t].FileName # End
  <2>1. \A t \in 0..(m - 1) : t \in 0..t
      OBVIOUS
  <2>2. QED
      BY <1>5, <2>1 DEF Listed
<1>10. dir'[slot].FileName = name /\ name # End /\ IsFile(dir'[slot])
    BY <1>3, NamesAssumption DEF IsFile
<1>11. \A t \in 0..(m - 1) : t # slot => dir'[t] = dir[t]
  <2>1. TAKE t \in 0..(m - 1)
  <2>2. HAVE t # slot
  <2>3. ~(t = slot + 1 /\ slot = num_used_entries(dir))
      BY <1>5, <1>6
  <2>4. QED
      BY <1>3, <1>9, <2>2, <2>3
<1>12. Listed(dir') = Listed(dir) \cup {slot}
  <2>1. CASE slot \in 0..(m - 1)
    <3>1. dir'[m] = dir[m]
      <4>1. m # slot /\ slot # num_used_entries(dir)
          BY <1>5, <1>6, <2>1
      <4>2. QED
          BY <1>3, <4>1
    <3>2. \A t \in 0..(m - 1) : dir'[t].FileName # End
        BY <1>9, <1>10, <1>11
    <3>3. Listed(dir') = 0..(m - 1)
        BY <1>5, <1>6, <3>1, <3>2, ListedTo
    <3>4. QED
        BY <1>5, <2>1, <3>3
  <2>2. CASE slot = m
    <3>1. PICK n : n = m + 1
        OBVIOUS
    <3>2. n \in Nat /\ n <= MaxEntries /\ n - 1 = m
        BY <1>6, <3>1
    <3>3. \A t \in 0..(n - 1) : dir'[t].FileName # End
      <4>1. \A t \in 0..m : t = m \/ t \in 0..(m - 1)
          BY <1>6
      <4>2. QED
          BY <1>9, <1>10, <1>11, <2>2, <3>2, <4>1
    <3>4. n < MaxEntries => dir'[n].FileName = End
      <4>1. n < MaxEntries => slot + 1 \in Slots /\ n = slot + 1
          BY <1>6, <2>2, <3>1 DEF Slots
      <4>2. QED
          BY <1>3, <1>5, <2>2, <4>1
    <3>5. Listed(dir') = 0..(n - 1)
        BY <3>2, <3>3, <3>4, ListedTo
    <3>6. 0..m = (0..(m - 1)) \cup {m}
        BY <1>6
    <3>7. QED
        BY <1>5, <2>2, <3>2, <3>5, <3>6
  <2>3. QED
      BY <1>8, <2>1, <2>2
<1>13. slot \notin Live(dir)
  <2>1. ~IsFile(dir[slot])
      BY <1>5, <1>8, NamesAssumption DEF IsFile
  <2>2. QED
      BY <2>1 DEF Live
<1>14. \A t \in Listed(dir) : t # slot => dir'[t] = dir[t]
    BY <1>5, <1>11
<1>15. Live(dir') = Live(dir) \cup {slot}
    BY <1>10, <1>12, <1>13, <1>14 DEF Live
<1>16. \A t \in Live(dir) : dir'[t] = dir[t]
    BY <1>13, <1>14 DEF Live
<1>17. FreeAt(dir, new_file_start(dir, order, blocks), blocks)
    BY <1>2, <1>3, <1>4, RoomGap
<1>18. QED
    BY <1>3, <1>4, <1>13, <1>15, <1>16, <1>17

LEMMA CreateParted ==
    ASSUME Typed, PartedInv, NEW name \in Files, NEW maxsize \in MiBs, create(name, maxsize)
    PROVE  PartedInv'
<1>1. SUFFICES ASSUME ~careless'
               PROVE  Parted(dir', num_blocks')
    BY DEF PartedInv
<1>2. PICK slot : slot = first_free_entry(dir)
    OBVIOUS
<1>3. /\ ~careless /\ slot \in Slots /\ slot \notin Live(dir) /\ Live(dir') = Live(dir) \cup {slot}
      /\ dir' \in [Slots -> Entries] /\ \A t \in Live(dir) : dir'[t] = dir[t]
      /\ dir'[slot].ReservedBlocks \in Nat \ {0}
      /\ FreeAt(dir, dir'[slot].StartingBlock, dir'[slot].ReservedBlocks)
    BY <1>1, <1>2, CreatesFile
<1>4. PICK n, from, blocks, to : /\ n = num_blocks /\ from = dir'[slot].StartingBlock
                                 /\ blocks = dir'[slot].ReservedBlocks /\ to = EndOf(dir'[slot])
    OBVIOUS
<1>5. num_blocks' = n
    BY <1>4 DEF create, num_blocks
<1>6. Parted(dir, n) /\ n \in Nat /\ dir \in [Slots -> Entries]
    BY <1>3, <1>4, TypesOf DEF PartedInv, Typed
<1>7. from \in Nat /\ blocks \in Nat /\ blocks # 0 /\ to = from + blocks
    BY <1>3, <1>4, EntryOf DEF EndOf
<1>8. /\ from >= 1 /\ to <= n - 1
      /\ \A s \in Live(dir) : to <= dir[s].StartingBlock \/ from >= EndOf(dir[s])
    BY <1>3, <1>4, <1>7 DEF FreeAt, Live, EndOf
<1>9. \A s \in Live(dir) : /\ dir'[s].StartingBlock = dir[s].StartingBlock
                           /\ EndOf(dir'[s]) = EndOf(dir[s])
                           /\ EndOf(dir[s]) \in Nat /\ dir[s].StartingBlock \in Nat
  <2>1. \A s \in Live(dir) : s \in Slots
      BY DEF Live, Listed
  <2>2. QED
      BY <1>3, <1>6, <2>1, EntryOf
<1>10. 1 <= from /\ from < to /\ to <= n - 1
    BY <1>7, <1>8
<1>11. \A s \in Live(dir) : to <= dir'[s].StartingBlock \/ EndOf(dir'[s]) <= from
    BY <1>7, <1>8, <1>9
<1>12. \A s \in Live(dir') : /\ 1 <= dir'[s].StartingBlock /\ dir'[s].StartingBlock < EndOf(dir'[s])
                             /\ EndOf(dir'[s]) <= n - 1
    BY <1>3, <1>4, <1>6, <1>9, <1>10 DEF Parted
<1>13. \A s, t \in Live(dir') : s # t => \/ EndOf(dir'[s]) <= dir'[t].StartingBlock
                                         \/ EndOf(dir'[t]) <= dir'[s].StartingBlock
    BY <1>3, <1>4, <1>6, <1>9, <1>11 DEF Parted
<1>14. QED
    BY <1>5, <1>12, <1>13 DEF Parted

LEMMA DeleteIs ==
    ASSUME Typed, NEW name \in Files, delete(name), NEW slot, slot = SlotOf(dir, name)
    PROVE  /\ slot \in Live(dir) /\ dir[slot].FileName = name
           /\ Live(dir') = Live(dir) \ {slot} /\ \A t \in Slots : t # slot => dir'[t] = dir[t]
<1>1. dir' = [dir EXCEPT ![slot].FileName = Deleted] /\ findfile(dir, name) # {}
    BY DEF delete
<1>2. slot \in Slots /\ slot \in Listed(dir) /\ dir[slot].FileName = name /\ dir \in [Slots -> Entries]
    BY <1>1, SlotIs, TypesOf DEF Typed
<1>3. dir'[slot] = [dir[slot] EXCEPT !.FileName = Deleted] /\ \A t \in Slots : t # slot => dir'[t] = dir[t]
    BY <1>1, <1>2
<1>4. dir'[slot].FileName = Deleted
    BY <1>2, <1>3 DEF Entries
<1>5. Deleted # End /\ name # End /\ Deleted \notin Files
    BY NamesAssumption DEF Deleted, End
<1>6. Listed(dir') = Listed(dir)
  <2>1. \A t \in Slots : dir'[t].FileName = End <=> dir[t].FileName = End
      BY <1>2, <1>3, <1>4, <1>5
  <2>2. QED
      BY <2>1, SameListed
<1>7. \A t \in Listed(dir) : IsFile(dir'[t]) <=> t # slot /\ IsFile(dir[t])
    BY <1>3, <1>4, <1>5 DEF IsFile, Listed
<1>8. QED
    BY <1>2, <1>3, <1>6, <1>7 DEF Live, IsFile

\* WriteEntry changes the size of a file, and nothing else in the directory.
LEMMA EntryWritten ==
    ASSUME Typed, WriteEntry, NEW slot, slot = SlotOf(dir, job.name)
    PROVE  /\ WritesFile /\ slot \in Live(dir) /\ dir[slot].FileName = job.name
           /\ dir'[slot] = [dir[slot] EXCEPT !.FileSize = Len(local[job.name])]
           /\ Live(dir') = Live(dir) /\ \A t \in Slots : t # slot => dir'[t] = dir[t]
           /\ \A t \in Slots : /\ dir'[t].FileName = dir[t].FileName
                               /\ dir'[t].StartingBlock = dir[t].StartingBlock
                               /\ dir'[t].ReservedBlocks = dir[t].ReservedBlocks
<1>1. WritesFile
    BY JobIs DEF WriteEntry, Typed
<1>2. PICK n : n = Len(local[job.name])
    OBVIOUS
<1>3. dir' = [dir EXCEPT ![slot].FileSize = n]
    BY <1>2 DEF WriteEntry
<1>4. slot \in Slots /\ slot \in Listed(dir) /\ dir[slot].FileName = job.name /\ dir \in [Slots -> Entries]
    BY <1>1, SlotIs, TypesOf DEF Typed, WritesFile
<1>5. dir'[slot] = [dir[slot] EXCEPT !.FileSize = n] /\ \A t \in Slots : t # slot => dir'[t] = dir[t]
    BY <1>3, <1>4
<1>6. dir[slot] \in Entries
    BY <1>4
<1>7. /\ dir'[slot].FileName = dir[slot].FileName
      /\ dir'[slot].StartingBlock = dir[slot].StartingBlock
      /\ dir'[slot].ReservedBlocks = dir[slot].ReservedBlocks
    BY <1>5, <1>6 DEF Entries
<1>8. \A t \in Slots : /\ dir'[t].FileName = dir[t].FileName
                       /\ dir'[t].StartingBlock = dir[t].StartingBlock
                       /\ dir'[t].ReservedBlocks = dir[t].ReservedBlocks
    BY <1>5, <1>7
<1>9. Listed(dir') = Listed(dir)
    BY <1>8, SameListed
<1>10. Live(dir') = Live(dir)
  <2>1. \A t \in Listed(dir) : IsFile(dir'[t]) <=> IsFile(dir[t])
      BY <1>8 DEF IsFile, Listed
  <2>2. QED
      BY <1>9, <2>1 DEF Live
<1>11. slot \in Live(dir)
    BY <1>1, <1>4 DEF Live, IsFile, WritesFile
<1>12. QED
    BY <1>1, <1>2, <1>4, <1>5, <1>8, <1>10, <1>11

LEMMA StepParted ==
    ASSUME Typed, PartedInv, [Next]_bmfsVars
    PROVE  PartedInv'
<1>1. diskSize \in Nat /\ diskSize <= diskSize /\ dir \in [Slots -> Entries]
    BY TypesOf DEF Typed
<1>2. ASSUME dir' = dir, diskSize' = diskSize, careless' = careless
      PROVE  PartedInv'
    BY <1>1, <1>2, StaysParted
<1>3. CASE UNCHANGED bmfsVars
    BY <1>2, <1>3 DEF bmfsVars
<1>4. ASSUME NEW string \in SizeStrings, NEW parts \in Parts, initialize(string, parts)
      PROVE  PartedInv'
    BY <1>4, EmptyParted DEF initialize
<1>5. ASSUME NEW name \in Files, NEW maxsize \in MiBs, create(name, maxsize)
      PROVE  PartedInv'
    BY <1>5, CreateParted
<1>6. ASSUME NEW name \in Files, delete(name)
      PROVE  PartedInv'
  <2>1. PICK slot : slot = SlotOf(dir, name)
      OBVIOUS
  <2>2. Live(dir') = Live(dir) \ {slot} /\ \A t \in Slots : t # slot => dir'[t] = dir[t]
      BY <1>6, <2>1, DeleteIs
  <2>3. diskSize' = diskSize /\ careless' = careless
      BY <1>6 DEF delete
  <2>4. num_blocks' = num_blocks
      BY <2>3 DEF num_blocks
  <2>5. Live(dir') \subseteq Live(dir) /\ \A t \in Live(dir') : dir'[t] = dir[t]
      BY <2>2 DEF Live, Listed
  <2>6. QED
      BY <2>3, <2>4, <2>5, PartedKeeps DEF PartedInv
<1>7. CASE WriteEntry
  <2>1. /\ Live(dir') = Live(dir)
        /\ \A t \in Slots : /\ dir'[t].StartingBlock = dir[t].StartingBlock
                            /\ dir'[t].ReservedBlocks = dir[t].ReservedBlocks
      BY <1>7, EntryWritten
  <2>2. diskSize' = diskSize /\ careless' = careless
      BY <1>7 DEF WriteEntry
  <2>3. num_blocks' = num_blocks
      BY <2>2 DEF num_blocks
  <2>4. \A t \in Live(dir') : /\ dir'[t].StartingBlock = dir[t].StartingBlock
                              /\ dir'[t].ReservedBlocks = dir[t].ReservedBlocks
      BY <2>1 DEF Live, Listed
  <2>5. QED
      BY <2>1, <2>2, <2>3, <2>4, PartedKeeps DEF PartedInv
<1>8. ASSUME NEW name \in Files, read(name) \/ write(name)
      PROVE  PartedInv'
    BY <1>2, <1>8 DEF read, write
<1>9. CASE WriteData
  <2>1. dir' = dir /\ careless' = careless /\ job.op = "write"
        /\ WriteCells(job.at, FirstCells(job.left, BUFSIZ))
      BY <1>9 DEF WriteData
  <2>2. WritesFile /\ BUFSIZ \in Nat \ {0}
      BY <2>1, JobIs, DiskAssumption DEF Typed
  <2>3. IsContent(FirstCells(job.left, BUFSIZ)) /\ job.at \in Nat
      BY <2>2, CutIs DEF WritesFile
  <2>4. diskSize' \in Nat /\ diskSize <= diskSize'
      BY <2>1, <2>3, TypesOf, WriteCellsIs DEF Typed
  <2>5. QED
      BY <2>1, <2>4, StaysParted
<1>10. CASE Fill
    BY <1>10, FillIs, StaysParted
<1>11. CASE WriteSystem
    BY <1>11, SystemStepIs, StaysParted
<1>12. CASE ClearDirectory
    BY <1>12, EmptyParted DEF ClearDirectory
<1>13. CASE format \/ Tag \/ ReadError \/ Initialized \/ Killed
    BY <1>2, <1>13 DEF format, Tag, ReadError, Initialized, Killed
<1>14. ASSUME NEW modules \in Modules, pack(modules)
       PROVE  PartedInv'
    BY <1>2, <1>14 DEF pack
<1>15. QED
    BY <1>3, <1>4, <1>5, <1>6, <1>7, <1>8, <1>9, <1>10, <1>11, <1>12, <1>13, <1>14 DEF Next, bmfsNext

-----------------------------------------------------------------------------
(* The theorems.                                                            *)

LEMMA StepTyped ==
    ASSUME Typed, [Next]_bmfsVars
    PROVE  Typed'
<1>1. CASE UNCHANGED bmfsVars
    BY <1>1 DEF bmfsVars, Typed, TypeOK, bmfsTypeOK, LocalOK, JobOK, MakesDisk, WritesFile,
                WritesSystem, findfile
<1>2. ASSUME NEW string \in SizeStrings, NEW parts \in Parts, initialize(string, parts)
      PROVE  Typed'
    BY <1>2, InitializeTyped
<1>3. ASSUME NEW name \in Files, NEW maxsize \in MiBs, create(name, maxsize)
      PROVE  Typed'
    BY <1>3, CreateTyped
<1>4. ASSUME NEW name \in Files, delete(name) \/ read(name) \/ write(name)
      PROVE  Typed'
    BY <1>4, DeleteTyped, ReadTyped, WriteTyped
<1>5. CASE WriteData
    BY <1>5, WriteDataTyped
<1>6. CASE WriteEntry
    BY <1>6, WriteEntryTyped
<1>7. CASE \/ format \/ Fill \/ Tag \/ ClearDirectory \/ WriteSystem \/ ReadError
           \/ Initialized \/ Killed
    BY <1>7, OtherTyped
<1>8. ASSUME NEW modules \in Modules, pack(modules)
      PROVE  Typed'
    BY <1>8, PackTyped
<1>9. QED
    BY <1>1, <1>2, <1>3, <1>4, <1>5, <1>6, <1>7, <1>8 DEF Next, bmfsNext

\* Whatever was created, deleted and killed before: the directory is well formed,
\* and as long as create took only room that was free, the files it lists lie
\* behind the block of the system, in front of the last block and apart.
THEOREM FilesParted == Spec => [](Typed /\ PartedInv)
<1>1. Init => Typed /\ PartedInv
  <2>1. SUFFICES ASSUME Init PROVE Typed /\ PartedInv
      OBVIOUS
  <2>2. dir = EmptyDirectory
      BY <2>1 DEF Init, bmfsInit
  <2>3. QED
      BY <2>1, <2>2, InitTyped, EmptyIs DEF PartedInv, Parted
<1>2. Typed /\ PartedInv /\ [Next]_bmfsVars => (Typed /\ PartedInv)'
    BY StepTyped, StepParted
<1>3. QED
    BY <1>1, <1>2, PTL DEF Spec

\* No block of the disk belongs to two files, and none to the system or to the
\* last block that bmfs keeps free: what create, delete and the sorting of the
\* directory by qsort are for.
THEOREM BlocksDisjoint == Spec => []FilesDisjoint
<1>1. Typed /\ PartedInv => FilesDisjoint
  <2>1. SUFFICES ASSUME Typed, PartedInv PROVE FilesDisjoint
      OBVIOUS
  <2>2. dir \in [Slots -> Entries] /\ num_blocks \in Nat /\ LiveSlots = Live(dir)
      BY <2>1, TypesOf DEF Typed, LiveSlots, Live
  <2>3. PICK n : n = num_blocks
      OBVIOUS
  <2>4. \A s \in LiveSlots : /\ dir[s].StartingBlock \in Nat /\ dir[s].ReservedBlocks \in Nat
                             /\ EndOf(dir[s]) = dir[s].StartingBlock + dir[s].ReservedBlocks
                             /\ BlocksOf(s) = dir[s].StartingBlock..(EndOf(dir[s]) - 1)
    <3>1. \A s \in LiveSlots : s \in Slots
        BY DEF LiveSlots, Listed
    <3>2. QED
        BY <2>2, <3>1, EntryOf DEF EndOf, BlocksOf
  <2>5. ASSUME ~careless, NEW s \in LiveSlots
        PROVE  BlocksOf(s) \subseteq 1..(num_blocks - 2)
    <3>1. 1 <= dir[s].StartingBlock /\ EndOf(dir[s]) <= n - 1
        BY <2>1, <2>2, <2>3, <2>5 DEF PartedInv, Parted
    <3>2. QED
        BY <2>2, <2>3, <2>4, <3>1
  <2>6. ASSUME ~careless, NEW s \in LiveSlots, NEW t \in LiveSlots, s # t
        PROVE  BlocksOf(s) \cap BlocksOf(t) = {}
    <3>1. EndOf(dir[s]) <= dir[t].StartingBlock \/ EndOf(dir[t]) <= dir[s].StartingBlock
        BY <2>1, <2>2, <2>6 DEF PartedInv, Parted
    <3>2. PICK a, b, c, e : /\ a = dir[s].StartingBlock /\ b = EndOf(dir[s])
                            /\ c = dir[t].StartingBlock /\ e = EndOf(dir[t])
        OBVIOUS
    <3>3. a \in Nat /\ b \in Nat /\ c \in Nat /\ e \in Nat /\ (b <= c \/ e <= a)
      <4>1. \A x \in LiveSlots : x \in Slots
          BY DEF LiveSlots, Listed
      <4>2. QED
          BY <2>2, <3>1, <3>2, <4>1, EntryOf
    <3>4. BlocksOf(s) = a..(b - 1) /\ BlocksOf(t) = c..(e - 1)
        BY <2>4, <3>2
    <3>5. (a..(b - 1)) \cap (c..(e - 1)) = {}
        BY <3>3
    <3>6. QED
        BY <3>4, <3>5
  <2>7. QED
      BY <2>1, <2>5, <2>6 DEF FilesDisjoint, Typed
<1>2. QED
    BY <1>1, FilesParted, PTL

\* create does not refuse a file for which the directory and the disk have room,
\* in whatever order qsort left the entries that compare equal.
THEOREM RoomFound == Spec => []RoomIsFound
<1>1. Typed /\ PartedInv => RoomIsFound
  <2>1. SUFFICES ASSUME Typed, PartedInv, NEW maxsize \in MiBs, ~careless,
                        HasRoom(dir, (maxsize + 1) \div 2), NEW order \in Sorted(dir)
                 PROVE  new_file_start(dir, order, (maxsize + 1) \div 2) # 0
      BY DEF RoomIsFound
  <2>2. PICK blocks : blocks = (maxsize + 1) \div 2
      OBVIOUS
  <2>3. blocks \in Nat \ {0}
    <3>1. maxsize \in Nat /\ maxsize >= 1
        BY DiskAssumption
    <3>2. QED
        BY <2>2, <3>1
  <2>4. dir \in [Slots -> Entries] /\ num_blocks \in Nat /\ Parted(dir, num_blocks)
      BY <2>1, TypesOf DEF Typed, PartedInv
  <2>5. QED
      BY <2>1, <2>2, <2>3, <2>4, RoomGap
<1>2. QED
    BY <1>1, FilesParted, PTL

-----------------------------------------------------------------------------
(* What the files hold.                                                     *)

\* The cells between which a file lies.
FromCell(s) == dir[s].StartingBlock * BlockCells
ToCell(s) == FromCell(s) + dir[s].ReservedBlocks * BlockCells

NamesOnce == \A s, t \in Live(dir) : dir[s].FileName = dir[t].FileName => s = t

Within == \A s \in Live(dir) : dir[s].FileSize <= dir[s].ReservedBlocks * BlockCells

Known == \A f \in Files : stored[f] = None <=> \A s \in Live(dir) : dir[s].FileName # f

Whole == \A s \in Live(dir) :
            dir[s].FileName \notin torn => Content(dir, s) = stored[dir[s].FileName]

\* The disk of a run of initialize lists nothing.
Quiet == job.op \in {"fill", "clear", "system"} => Live(dir) = {}

\* The first k cells of the file of the host are on the disk, in slot s.
Written(s, k) ==
    /\ dir[s].FileName = job.name /\ job.name \in torn /\ local[job.name] # None
    /\ Len(local[job.name]) <= dir[s].ReservedBlocks * BlockCells
    /\ k + Len(job.left) = Len(local[job.name])
    /\ \A i \in 1..Len(job.left) : job.left[i] = local[job.name][k + i]
    /\ job.left # <<>> => job.at = FromCell(s) + k
    /\ \A i \in 1..k : cells[FromCell(s) + i - 1] = local[job.name][i]

Writing == job.op = "write" => \E s \in Live(dir), k \in Nat : Written(s, k)

Filed == NamesOnce /\ Within /\ Known /\ Whole

KeptInv == ~careless => Filed /\ Quiet /\ Writing

LEMMA TimesGrows ==
    ASSUME NEW a \in Nat, NEW b \in Nat, NEW c \in Nat, a <= b
    PROVE  a * c \in Nat /\ a * c <= b * c /\ (a + b) * c = a * c + b * c
<1>1. PICK k \in Nat : b = a + k
  <2>1. b - a \in Nat /\ b = a + (b - a)
      OBVIOUS
  <2>2. QED
      BY <2>1
<1>2. k * c \in Nat /\ a * c \in Nat
    OBVIOUS
<1>3. b * c = a * c + k * c
    BY <1>1
<1>4. QED
    BY <1>2, <1>3

LEMMA LiveIs ==
    ASSUME NEW d, NEW s \in Live(d)
    PROVE  s \in Slots /\ s \in Listed(d) /\ d[s].FileName \in Files
BY DEF Live, Listed, IsFile

\* The cells of a file are on the disk, and those of two files are apart.
LEMMA CellsApart ==
    ASSUME Typed, PartedInv, ~careless, NEW s \in Live(dir)
    PROVE  /\ FromCell(s) \in Nat /\ ToCell(s) \in Nat /\ FromCell(s) <= ToCell(s) /\ ToCell(s) <= diskSize
           /\ dir[s].ReservedBlocks * BlockCells \in Nat
           /\ ToCell(s) = FromCell(s) + dir[s].ReservedBlocks * BlockCells
           /\ \A t \in Live(dir) : s # t => ToCell(s) <= FromCell(t) \/ ToCell(t) <= FromCell(s)
<1>1. /\ dir \in [Slots -> Entries] /\ num_blocks \in Nat /\ num_blocks * BlockCells <= diskSize
      /\ Parted(dir, num_blocks) /\ BlockCells \in Nat /\ diskSize \in Nat
    BY TypesOf, DiskAssumption DEF Typed, PartedInv
<1>2. ASSUME NEW t \in Live(dir)
      PROVE  /\ dir[t].StartingBlock \in Nat /\ dir[t].ReservedBlocks \in Nat /\ EndOf(dir[t]) \in Nat
             /\ FromCell(t) \in Nat /\ dir[t].ReservedBlocks * BlockCells \in Nat
             /\ ToCell(t) = EndOf(dir[t]) * BlockCells /\ ToCell(t) \in Nat
  <2>1. dir[t].StartingBlock \in Nat /\ dir[t].ReservedBlocks \in Nat /\ EndOf(dir[t]) \in Nat
      BY <1>1, LiveIs, EntryOf
  <2>2. PICK a, b, c : a = dir[t].StartingBlock /\ b = dir[t].ReservedBlocks /\ c = BlockCells
      OBVIOUS
  <2>3. a * c \in Nat /\ b * c \in Nat /\ (a + b) * c = a * c + b * c
      BY <1>1, <2>1, <2>2
  <2>4. QED
      BY <2>1, <2>2, <2>3 DEF FromCell, ToCell, EndOf
<1>3. FromCell(s) <= ToCell(s)
  <2>1. PICK b : b = dir[s].ReservedBlocks * BlockCells
      OBVIOUS
  <2>2. b \in Nat /\ FromCell(s) \in Nat /\ ToCell(s) = FromCell(s) + b
      BY <1>2, <2>1 DEF ToCell
  <2>3. QED
      BY <2>2
<1>4. ToCell(s) <= diskSize
  <2>1. EndOf(dir[s]) <= num_blocks - 1 /\ EndOf(dir[s]) \in Nat
      BY <1>1, <1>2 DEF Parted
  <2>2. PICK a, b, c : a = EndOf(dir[s]) /\ b = num_blocks /\ c = BlockCells
      OBVIOUS
  <2>3. a \in Nat /\ b \in Nat /\ c \in Nat /\ a <= b
      BY <1>1, <2>1, <2>2
  <2>4. a * c \in Nat /\ a * c <= b * c
      BY <2>3, TimesGrows
  <2>5. b * c <= diskSize /\ b * c \in Nat /\ ToCell(s) = a * c
      BY <1>1, <1>2, <2>2, <2>3
  <2>6. QED
      BY <1>1, <2>4, <2>5
<1>5. ASSUME NEW x \in Live(dir), NEW y \in Live(dir), EndOf(dir[x]) <= dir[y].StartingBlock
      PROVE  ToCell(x) <= FromCell(y)
  <2>1. PICK a, b, c : a = EndOf(dir[x]) /\ b = dir[y].StartingBlock /\ c = BlockCells
      OBVIOUS
  <2>2. a \in Nat /\ b \in Nat /\ c \in Nat /\ a <= b
      BY <1>1, <1>2, <1>5, <2>1
  <2>3. a * c <= b * c
      BY <2>2, TimesGrows
  <2>4. QED
      BY <1>2, <2>1, <2>3 DEF FromCell
<1>6. \A t \in Live(dir) : s # t => ToCell(s) <= FromCell(t) \/ ToCell(t) <= FromCell(s)
    BY <1>1, <1>5 DEF Parted
<1>7. QED
    BY <1>2, <1>3, <1>4, <1>6 DEF ToCell

\* A file whose entry and cells stay holds what it held.
LEMMA ContentStays ==
    ASSUME Typed, PartedInv, ~careless, Within, NEW s \in Live(dir),
           dir'[s].StartingBlock = dir[s].StartingBlock, dir'[s].FileSize = dir[s].FileSize,
           \A c \in Nat : FromCell(s) <= c /\ c < ToCell(s) => cells'[c] = cells[c]
    PROVE  Content(dir, s)' = Content(dir, s)
<1>1. dir \in [Slots -> Entries] /\ s \in Slots
    BY TypesOf, LiveIs DEF Typed
<1>2. PICK n, a, r : n = dir[s].FileSize /\ a = FromCell(s) /\ r = dir[s].ReservedBlocks * BlockCells
    OBVIOUS
<1>3. n \in Nat /\ a \in Nat /\ r \in Nat /\ ToCell(s) = a + r /\ n <= r
    BY <1>1, <1>2, EntryOf, CellsApart DEF Within
<1>4. \A i \in 1..n : cells'[a + i - 1] = cells[a + i - 1]
  <2>1. TAKE i \in 1..n
  <2>2. a + i - 1 \in Nat /\ a <= a + i - 1 /\ a + i - 1 < a + r
      BY <1>3
  <2>3. QED
      BY <1>2, <1>3, <2>2
<1>5. Content(dir, s) = [i \in 1..n |-> cells[a + i - 1]]
    BY <1>2 DEF Content, FromCell
<1>6. Content(dir, s)' = [i \in 1..n |-> cells'[a + i - 1]]
    BY <1>2 DEF Content, FromCell
<1>7. QED
    BY <1>4, <1>5, <1>6

\* Steps after which the directory lists the same files, and they hold the same.
LEMMA FilesStay ==
    ASSUME Filed, dir' = dir, stored' = stored, torn \subseteq torn',
           \A s \in Live(dir) : dir[s].FileName \notin torn' => Content(dir, s)' = Content(dir, s)
    PROVE  Filed'
<1>1. Live(dir)' = Live(dir)
    OBVIOUS
<1>2. NamesOnce' /\ Within' /\ Known'
    BY <1>1 DEF Filed, NamesOnce, Within, Known
<1>3. Whole'
    BY <1>1 DEF Filed, Whole
<1>4. QED
    BY <1>2, <1>3 DEF Filed

LEMMA NothingListed ==
    ASSUME dir = EmptyDirectory, stored = [f \in Files |-> None]
    PROVE  Filed
<1>1. Live(dir) = {}
    BY EmptyIs
<1>2. QED
    BY <1>1 DEF Filed, NamesOnce, Within, Known, Whole

LEMMA NothingThere ==
    ASSUME dir' = EmptyDirectory, stored' = [f \in Files |-> None]
    PROVE  Filed' /\ Quiet'
<1>1. Live(dir)' = {}
    BY EmptyIs
<1>2. QED
    BY <1>1 DEF Filed, NamesOnce, Within, Known, Whole, Quiet

LEMMA OneSlot ==
    ASSUME NamesOnce, NEW f \in Files
    PROVE  /\ findfile(dir, f) = {} <=> \A s \in Live(dir) : dir[s].FileName # f
           /\ \A s \in Live(dir) : dir[s].FileName = f => SlotOf(dir, f) = s
<1>1. findfile(dir, f) = {s \in Live(dir) : dir[s].FileName = f}
    BY DEF findfile, Live, IsFile
<1>2. ASSUME NEW s \in Live(dir), dir[s].FileName = f
      PROVE  SlotOf(dir, f) = s
  <2>1. findfile(dir, f) # {}
      BY <1>1, <1>2
  <2>2. SlotOf(dir, f) \in Live(dir) /\ dir[SlotOf(dir, f)].FileName = f
      BY <2>1, SlotIs DEF Live, IsFile
  <2>3. QED
      BY <1>2, <2>2 DEF NamesOnce
<1>3. QED
    BY <1>1, <1>2

LEMMA CreateKept ==
    ASSUME Typed, PartedInv, KeptInv, NEW name \in Files, NEW maxsize \in MiBs, create(name, maxsize)
    PROVE  KeptInv'
<1>1. SUFFICES ASSUME ~careless'
               PROVE  Filed' /\ Quiet' /\ Writing'
    BY DEF KeptInv
<1>2. PICK slot : slot = first_free_entry(dir)
    OBVIOUS
<1>3. /\ ~careless /\ slot \in Slots /\ slot \notin Live(dir) /\ Live(dir') = Live(dir) \cup {slot}
      /\ dir'[slot].FileName = name /\ dir'[slot].FileSize = 0 /\ dir' \in [Slots -> Entries]
      /\ \A t \in Live(dir) : dir'[t] = dir[t]
      /\ dir'[slot].ReservedBlocks \in Nat \ {0}
    BY <1>1, <1>2, CreatesFile
<1>4. /\ job = Idle /\ findfile(dir, name) = {} /\ torn' = torn \ {name}
      /\ stored' = [stored EXCEPT ![name] = <<>>]
      /\ UNCHANGED <<diskSize, tagged, cells, local, job, built>>
    BY DEF create, Opened
<1>5. Filed
    BY <1>3 DEF KeptInv
<1>6. \A s \in Live(dir) : dir[s].FileName # name
    BY <1>4, <1>5, OneSlot DEF Filed
<1>7. NamesOnce'
    BY <1>3, <1>5, <1>6 DEF Filed, NamesOnce
<1>8. Within'
  <2>1. dir'[slot].ReservedBlocks * BlockCells \in Nat
      BY <1>3, DiskAssumption
  <2>2. dir'[slot].FileSize <= dir'[slot].ReservedBlocks * BlockCells
      BY <1>3, <2>1
  <2>3. QED
      BY <1>3, <1>5, <2>2 DEF Filed, Within
<1>9. stored'[name] = <<>> /\ \A f \in Files : f # name => stored'[f] = stored[f]
    BY <1>4, TypesOf DEF Typed
<1>10. Known'
    BY <1>3, <1>5, <1>6, <1>9, NamesAssumption DEF Filed, Known
<1>11. Content(dir, slot)' = <<>>
    BY <1>3 DEF Content
<1>12. ASSUME NEW s \in Live(dir)
       PROVE  Content(dir, s)' = Content(dir, s)
    BY <1>3, <1>4, <1>5, ContentStays DEF Filed
<1>13. \A s \in Live(dir) : /\ stored'[dir[s].FileName] = stored[dir[s].FileName]
                            /\ dir[s].FileName \notin torn' => dir[s].FileName \notin torn
    BY <1>4, <1>6, <1>9, LiveIs
<1>14. Whole'
    BY <1>3, <1>5, <1>9, <1>11, <1>12, <1>13 DEF Filed, Whole
<1>15. QED
    BY <1>4, <1>7, <1>8, <1>10, <1>14 DEF Filed, Quiet, Writing, Idle

LEMMA DeleteKept ==
    ASSUME Typed, PartedInv, KeptInv, NEW name \in Files, delete(name)
    PROVE  KeptInv'
<1>1. SUFFICES ASSUME ~careless'
               PROVE  Filed' /\ Quiet' /\ Writing'
    BY DEF KeptInv
<1>2. PICK slot : slot = SlotOf(dir, name)
    OBVIOUS
<1>3. /\ slot \in Live(dir) /\ dir[slot].FileName = name
      /\ Live(dir') = Live(dir) \ {slot} /\ \A t \in Slots : t # slot => dir'[t] = dir[t]
    BY <1>2, DeleteIs
<1>4. /\ job = Idle /\ torn' = torn \ {name} /\ stored' = [stored EXCEPT ![name] = None]
      /\ UNCHANGED <<diskSize, tagged, cells, local, job, careless, built>>
    BY DEF delete, Opened
<1>5. Filed /\ ~careless
    BY <1>1, <1>4 DEF KeptInv
<1>6. \A t \in Live(dir') : t \in Live(dir) /\ t # slot /\ dir'[t] = dir[t]
    BY <1>3, LiveIs
<1>7. \A t \in Live(dir') : dir[t].FileName # name
    BY <1>3, <1>5, <1>6 DEF Filed, NamesOnce
<1>8. NamesOnce' /\ Within'
    BY <1>5, <1>6 DEF Filed, NamesOnce, Within
<1>9. stored'[name] = None /\ \A f \in Files : f # name => stored'[f] = stored[f]
    BY <1>4, TypesOf DEF Typed
<1>10. Known'
  <2>1. \A t \in Live(dir) : t = slot \/ t \in Live(dir')
      BY <1>3
  <2>2. ASSUME NEW f \in Files
        PROVE  stored'[f] = None <=> \A s \in Live(dir') : dir'[s].FileName # f
    <3>1. CASE f = name
        BY <1>6, <1>7, <1>9, <3>1
    <3>2. CASE f # name
        BY <1>3, <1>5, <1>6, <1>9, <2>1, <3>2 DEF Filed, Known
    <3>3. QED
        BY <3>1, <3>2
  <2>3. QED
      BY <2>2 DEF Known
<1>11. ASSUME NEW s \in Live(dir')
       PROVE  Content(dir, s)' = Content(dir, s)
    BY <1>4, <1>5, <1>6, <1>11, ContentStays DEF Filed
<1>12. Whole'
    BY <1>4, <1>5, <1>6, <1>7, <1>9, <1>11, LiveIs DEF Filed, Whole
<1>13. QED
    BY <1>4, <1>8, <1>10, <1>12 DEF Filed, Quiet, Writing, Idle

LEMMA WriteKept ==
    ASSUME Typed, PartedInv, KeptInv, NEW name \in Files, write(name)
    PROVE  KeptInv'
<1>1. SUFFICES ASSUME ~careless'
               PROVE  Filed' /\ Quiet' /\ Writing'
    BY DEF KeptInv
<1>2. PICK slot, at, left : /\ slot = SlotOf(dir, name) /\ at = dir[slot].StartingBlock * BlockCells
                            /\ left = local[name]
    OBVIOUS
<1>3. /\ findfile(dir, name) # {} /\ left # None /\ torn' = torn \cup {name}
      /\ dir[slot].ReservedBlocks * BlockCells >= Len(left)
      /\ job' = [op |-> "write", name |-> name, left |-> left, at |-> at]
      /\ UNCHANGED <<diskSize, tagged, dir, cells, local, stored, careless, built>>
    BY <1>2 DEF write, Reserved
<1>4. Filed /\ ~careless
    BY <1>1, <1>3 DEF KeptInv
<1>5. slot \in Live(dir) /\ dir[slot].FileName = name
    BY <1>2, <1>3, SlotIs DEF Live, IsFile
<1>6. name \in DOMAIN local
    BY TypesOf DEF Typed
<1>7. IsContent(left)
    BY <1>2, <1>3, <1>6 DEF Typed, LocalOK
<1>8. Len(left) \in Nat /\ FromCell(slot) = at /\ at \in Nat
    BY <1>2, <1>4, <1>5, <1>7, ContentIs, CellsApart DEF FromCell
<1>9. \A s \in Live(dir) : Content(dir, s)' = Content(dir, s)
    BY <1>3 DEF Content
<1>10. Filed'
    BY <1>3, <1>4, <1>9, FilesStay
<1>11. job'.op = "write" /\ job'.name = name /\ job'.left = left /\ job'.at = at
    BY <1>3
<1>12. Quiet'
    BY <1>11 DEF Quiet
<1>13. Written(slot, 0)'
  <2>1. PICK r : r = dir[slot].ReservedBlocks * BlockCells
      OBVIOUS
  <2>2. r \in Nat
      BY <1>4, <1>5, <2>1, CellsApart
  <2>3. Len(left) <= r
      BY <1>3, <1>8, <2>1, <2>2
  <2>4. FromCell(slot)' = at /\ local'[name] = left /\ dir'[slot] = dir[slot] /\ name \in torn'
      BY <1>2, <1>3, <1>8 DEF FromCell
  <2>5. 0 + Len(left) = Len(left) /\ at = at + 0 /\ \A i \in 1..Len(left) : 0 + i = i
      BY <1>8
  <2>6. QED
      BY <1>3, <1>5, <1>11, <2>1, <2>3, <2>4, <2>5 DEF Written
<1>14. Live(dir)' = Live(dir)
    BY <1>3
<1>15. Writing'
    BY <1>5, <1>13, <1>14 DEF Writing
<1>16. QED
    BY <1>10, <1>12, <1>15

LEMMA NotEmpty ==
    ASSUME NEW f, IsContent(f)
    PROVE  f = <<>> <=> Len(f) = 0
<1>1. f \in Seq(Range(f))
    BY ContentIs
<1>2. QED
    BY <1>1, EmptySeq

\* A buffer more of the file is on the disk, and nothing else has changed.
LEMMA WriteDataKept ==
    ASSUME Typed, PartedInv, KeptInv, WriteData
    PROVE  KeptInv'
<1>1. SUFFICES ASSUME ~careless'
               PROVE  Filed' /\ Quiet' /\ Writing'
    BY DEF KeptInv
<1>2. /\ job.op = "write" /\ job.left # <<>> /\ WriteCells(job.at, FirstCells(job.left, BUFSIZ))
      /\ job' = [job EXCEPT !.left = OtherCells(@, BUFSIZ), !.at = @ + BUFSIZ]
      /\ UNCHANGED <<tagged, dir, local, stored, torn, careless, built>>
    BY DEF WriteData
<1>3. Filed /\ Writing /\ ~careless
    BY <1>1, <1>2 DEF KeptInv
<1>4. PICK s \in Live(dir), k \in Nat : Written(s, k)
    BY <1>2, <1>3 DEF Writing
<1>5. PICK name, file, left, at, first, rest, a, r, to :
         /\ name = job.name /\ file = local[name] /\ left = job.left /\ at = job.at
         /\ first = FirstCells(left, BUFSIZ) /\ rest = OtherCells(left, BUFSIZ)
         /\ a = FromCell(s) /\ r = dir[s].ReservedBlocks * BlockCells /\ to = ToCell(s)
    OBVIOUS
<1>6. WritesFile /\ BUFSIZ \in Nat \ {0}
    BY <1>2, JobIs, DiskAssumption DEF Typed
<1>7. /\ IsContent(left) /\ IsContent(file) /\ at \in Nat /\ Len(left) \in Nat /\ Len(file) \in Nat
      /\ job = [op |-> "write", name |-> name, left |-> left, at |-> at]
    BY <1>5, <1>6, ContentIs DEF WritesFile
<1>8. PICK n : n = Len(first)
    OBVIOUS
<1>9. /\ IsContent(first) /\ n = IF BUFSIZ <= Len(left) THEN BUFSIZ ELSE Len(left)
      /\ \A i \in 1..n : first[i] = left[i]
      /\ IsContent(rest) /\ Len(rest) = IF BUFSIZ <= Len(left) THEN Len(left) - BUFSIZ ELSE 0
      /\ \A i \in 1..Len(rest) : rest[i] = left[BUFSIZ + i]
    BY <1>5, <1>6, <1>7, <1>8, CutIs
<1>10. /\ dir[s].FileName = name /\ name \in torn /\ file # None /\ Len(file) <= r
       /\ k + Len(left) = Len(file) /\ \A i \in 1..Len(left) : left[i] = file[k + i]
       /\ at = a + k /\ \A i \in 1..k : cells[a + i - 1] = file[i]
    BY <1>2, <1>4, <1>5 DEF Written
<1>11. /\ a \in Nat /\ r \in Nat /\ to = a + r /\ to <= diskSize
       /\ diskSize \in Nat /\ DOMAIN cells = 0..(diskSize - 1)
    BY <1>3, <1>5, CellsApart, TypesOf DEF Typed
<1>12. n \in Nat /\ k + n <= r /\ at + n <= to /\ k + n + Len(rest) = Len(file)
       /\ (Len(rest) # 0 => n = BUFSIZ /\ Len(rest) = Len(left) - n) /\ Len(rest) \in Nat /\ n <= Len(left)
  <2>1. PICK l, len, B, q : l = Len(left) /\ len = Len(file) /\ B = BUFSIZ /\ q = Len(rest)
      OBVIOUS
  <2>2. l \in Nat /\ len \in Nat /\ B \in Nat \ {0} /\ r \in Nat /\ a \in Nat /\ to = a + r
        /\ k + l = len /\ at = a + k /\ len <= r
      BY <1>6, <1>7, <1>10, <1>11, <2>1
  <2>3. n = (IF B <= l THEN B ELSE l) /\ q = (IF B <= l THEN l - B ELSE 0)
      BY <1>9, <2>1
  <2>4. /\ n \in Nat /\ k + n <= r /\ at + n <= to /\ k + n + q = len
        /\ (q # 0 => n = B /\ q = l - n) /\ q \in Nat /\ n <= l
      BY <2>2, <2>3
  <2>5. QED
      BY <2>1, <2>4
<1>13. PICK size, new : size = diskSize' /\ new = cells'
    OBVIOUS
<1>14. /\ size \in Nat /\ diskSize <= size
       /\ \A c \in 0..(size - 1) : new[c] = IF c >= at /\ c < at + n THEN first[c - at + 1]
                                            ELSE IF c < diskSize THEN cells[c] ELSE Zero
  <2>1. WriteCells(at, first) /\ Len(first) = n /\ IsContent(first) /\ at \in Nat
      BY <1>2, <1>5, <1>7, <1>8, <1>9
  <2>2. /\ diskSize' \in Nat /\ diskSize <= diskSize'
        /\ \A c \in 0..(diskSize' - 1) :
             cells'[c] = IF c >= at /\ c < at + Len(first) THEN first[c - at + 1]
                         ELSE IF c < diskSize THEN cells[c] ELSE Zero
      BY <1>11, <2>1, WriteCellsIs
  <2>3. QED
      BY <1>13, <2>1, <2>2
<1>15. \A c \in Nat : c < diskSize /\ (c < at \/ c >= at + n) => new[c] = cells[c]
    BY <1>7, <1>11, <1>12, <1>14
<1>16. \A c \in Nat : c >= at /\ c < at + n => new[c] = first[c - at + 1]
    BY <1>7, <1>11, <1>12, <1>14
<1>17. ASSUME NEW t \in Live(dir), dir[t].FileName \notin torn
       PROVE  Content(dir, t)' = Content(dir, t)
  <2>1. t # s
      BY <1>10, <1>17
  <2>2. PICK b, e : b = FromCell(t) /\ e = ToCell(t)
      OBVIOUS
  <2>3. b \in Nat /\ e \in Nat /\ e <= diskSize
      BY <1>3, <2>2, CellsApart
  <2>4. to <= b \/ e <= a
      BY <1>3, <1>5, <2>1, <2>2, CellsApart
  <2>5. \A c \in Nat : b <= c /\ c < e => new[c] = cells[c]
    <3>1. SUFFICES ASSUME NEW c \in Nat, b <= c, c < e
                   PROVE  c < diskSize /\ (c < at \/ c >= at + n)
        BY <1>15
    <3>2. PICK size1, behind : size1 = diskSize /\ behind = at + n
        OBVIOUS
    <3>3. /\ size1 \in Nat /\ e <= size1 /\ to \in Nat /\ behind \in Nat /\ behind <= to
          /\ a <= at /\ at \in Nat /\ a \in Nat
        BY <1>7, <1>10, <1>11, <1>12, <2>3, <3>2
    <3>4. c < size1 /\ (c < at \/ c >= behind)
        BY <2>3, <2>4, <3>1, <3>3
    <3>5. QED
        BY <3>2, <3>4
  <2>6. QED
      BY <1>2, <1>3, <1>13, <2>2, <2>5, ContentStays DEF Filed
<1>18. Filed'
    BY <1>2, <1>3, <1>17, FilesStay
<1>19. PICK from : from = at + BUFSIZ
    OBVIOUS
<1>20. job' = [op |-> "write", name |-> name, left |-> rest, at |-> from]
    BY <1>2, <1>5, <1>7, <1>19
<1>21. job'.op = "write" /\ job'.name = name /\ job'.left = rest /\ job'.at = from
    BY <1>20
<1>22. Quiet'
    BY <1>21 DEF Quiet
<1>23. PICK m : m = k + n
    OBVIOUS
<1>24. m \in Nat /\ m + Len(rest) = Len(file)
    BY <1>12, <1>23
<1>25. \A i \in 1..Len(rest) : rest[i] = file[m + i]
  <2>1. TAKE i \in 1..Len(rest)
  <2>2. BUFSIZ <= Len(left) /\ n = BUFSIZ /\ Len(rest) = Len(left) - n
    <3>1. Len(rest) # 0
        BY <1>12
    <3>2. QED
        BY <1>12, <3>1, <1>9, <1>6, <1>7
  <2>3. n + i \in 1..Len(left) /\ k + (n + i) = m + i
      BY <1>7, <1>12, <1>23, <2>2
  <2>4. rest[i] = left[n + i]
      BY <1>9, <2>2
  <2>5. QED
      BY <1>10, <2>3, <2>4
<1>26. rest # <<>> => from = a + m
  <2>1. HAVE rest # <<>>
  <2>2. Len(rest) # 0
      BY <1>9, <2>1, NotEmpty
  <2>3. n = BUFSIZ
      BY <1>12, <2>2
  <2>4. QED
      BY <1>6, <1>10, <1>11, <1>19, <1>23, <2>3
<1>27. \A i \in 1..m : new[a + i - 1] = file[i]
  <2>1. TAKE i \in 1..m
  <2>2. CASE i <= k
    <3>1. PICK c : c = a + i - 1
        OBVIOUS
    <3>2. c \in Nat /\ c < at /\ c < diskSize /\ i \in 1..k
        BY <1>7, <1>10, <1>11, <1>12, <2>2, <3>1
    <3>3. new[c] = cells[c]
        BY <1>15, <3>2
    <3>4. QED
        BY <1>10, <3>1, <3>2, <3>3
  <2>3. CASE ~(i <= k)
    <3>1. PICK c, j : c = a + i - 1 /\ j = i - k
        OBVIOUS
    <3>2. c \in Nat /\ c >= at /\ c < at + n /\ j \in 1..n /\ c - at + 1 = j /\ k + j = i
        BY <1>10, <1>11, <1>12, <1>23, <2>3, <3>1
    <3>3. new[c] = first[j]
        BY <1>16, <3>2
    <3>4. first[j] = left[j] /\ j \in 1..Len(left)
        BY <1>7, <1>9, <1>6, <3>2
    <3>5. left[j] = file[k + j]
        BY <1>10, <3>4
    <3>6. QED
        BY <3>1, <3>2, <3>3, <3>4, <3>5
  <2>4. QED
      BY <2>2, <2>3
<1>28. Written(s, m)'
  <2>1. FromCell(s)' = a /\ local'[name] = file /\ dir'[s] = dir[s] /\ name \in torn'
      BY <1>2, <1>5, <1>10 DEF FromCell
  <2>2. QED
      BY <1>5, <1>10, <1>13, <1>21, <1>24, <1>25, <1>26, <1>27, <2>1 DEF Written
<1>29. Live(dir)' = Live(dir)
    BY <1>2
<1>30. Writing'
    BY <1>24, <1>28, <1>29 DEF Writing
<1>31. QED
    BY <1>18, <1>22, <1>30

\* The last buffer is on the disk: the directory is told how long the file is.
LEMMA WriteEntryKept ==
    ASSUME Typed, PartedInv, KeptInv, WriteEntry
    PROVE  KeptInv'
<1>1. SUFFICES ASSUME ~careless'
               PROVE  Filed' /\ Quiet' /\ Writing'
    BY DEF KeptInv
<1>2. /\ job.op = "write" /\ job.left = <<>> /\ job' = Idle
      /\ stored' = [stored EXCEPT ![job.name] = local[job.name]] /\ torn' = torn \ {job.name}
      /\ UNCHANGED <<diskSize, tagged, cells, local, careless, built>>
    BY DEF WriteEntry
<1>3. Filed /\ Writing /\ ~careless
    BY <1>1, <1>2 DEF KeptInv
<1>4. PICK s \in Live(dir), k \in Nat : Written(s, k)
    BY <1>2, <1>3 DEF Writing
<1>5. PICK name, file, a : name = job.name /\ file = local[name] /\ a = FromCell(s)
    OBVIOUS
<1>6. WritesFile
    BY <1>2, JobIs DEF Typed
<1>7. IsContent(file) /\ name \in Files
    BY <1>5, <1>6 DEF WritesFile
<1>8. /\ dir[s].FileName = name /\ file # None /\ Len(file) <= dir[s].ReservedBlocks * BlockCells
      /\ k + Len(job.left) = Len(file) /\ \A i \in 1..k : cells[a + i - 1] = file[i]
    BY <1>4, <1>5 DEF Written
<1>9. s = SlotOf(dir, name)
    BY <1>3, <1>7, <1>8, OneSlot DEF Filed
<1>10. /\ dir'[s] = [dir[s] EXCEPT !.FileSize = Len(file)]
       /\ Live(dir') = Live(dir) /\ \A t \in Slots : t # s => dir'[t] = dir[t]
       /\ \A t \in Slots : /\ dir'[t].FileName = dir[t].FileName
                           /\ dir'[t].StartingBlock = dir[t].StartingBlock
                           /\ dir'[t].ReservedBlocks = dir[t].ReservedBlocks
    BY <1>5, <1>9, EntryWritten
<1>11. dir'[s].FileSize = Len(file)
  <2>1. dir[s] \in Entries
      BY LiveIs, TypesOf DEF Typed
  <2>2. QED
      BY <1>10, <2>1 DEF Entries
<1>12. k = Len(file)
  <2>1. Len(job.left) = 0
      BY <1>2, EmptyContent
  <2>2. QED
      BY <1>8, <2>1
<1>13. Content(dir, s)' = file
  <2>1. PICK n : n = Len(file)
      OBVIOUS
  <2>2. Content(dir, s)' = [i \in 1..n |-> cells[dir[s].StartingBlock * BlockCells + i - 1]]
    <3>1. dir'[s].FileSize = n /\ dir'[s].StartingBlock = dir[s].StartingBlock /\ cells' = cells
        BY <1>2, <1>10, <1>11, <2>1, LiveIs
    <3>2. QED
        BY <3>1 DEF Content
  <2>3. Content(dir, s)' = [i \in 1..n |-> cells[a + i - 1]]
      BY <1>5, <2>2 DEF FromCell
  <2>4. \A i \in 1..n : cells[a + i - 1] = file[i]
      BY <1>8, <1>12, <2>1
  <2>5. file = [i \in 1..n |-> file[i]]
      BY <1>7, <2>1, ContentIs
  <2>6. QED
      BY <2>3, <2>4, <2>5
<1>14. stored'[name] = file /\ \A f \in Files : f # name => stored'[f] = stored[f]
    BY <1>2, <1>5, <1>7, TypesOf DEF Typed
<1>15. \A t \in Live(dir) : t # s => dir'[t] = dir[t] /\ dir[t].FileName # name /\ dir[t].FileName \in Files
    BY <1>3, <1>8, <1>10, LiveIs DEF Filed, NamesOnce
<1>16. NamesOnce'
    BY <1>3, <1>10, LiveIs DEF Filed, NamesOnce
<1>17. Within'
  <2>1. dir'[s].FileSize <= dir'[s].ReservedBlocks * BlockCells
      BY <1>8, <1>10, <1>11, LiveIs
  <2>2. QED
      BY <1>3, <1>10, <1>15, <2>1 DEF Filed, Within
<1>18. Known'
  <2>1. \A t \in Live(dir) : dir'[t].FileName = dir[t].FileName
      BY <1>10, LiveIs
  <2>2. QED
      BY <1>3, <1>8, <1>10, <1>14, <2>1 DEF Filed, Known
<1>19. ASSUME NEW t \in Live(dir), t # s
       PROVE  Content(dir, t)' = Content(dir, t)
    BY <1>2, <1>15, <1>19 DEF Content
<1>20. Whole'
  <2>1. ASSUME NEW t \in Live(dir), dir'[t].FileName \notin torn'
        PROVE  Content(dir, t)' = stored'[dir'[t].FileName]
    <3>1. CASE t = s
        BY <1>8, <1>10, <1>13, <1>14, <3>1, LiveIs
    <3>2. CASE t # s
      <4>1. dir[t].FileName \notin torn
          BY <1>2, <1>5, <1>15, <2>1, <3>2
      <4>2. QED
          BY <1>3, <1>14, <1>15, <1>19, <3>2, <4>1 DEF Filed, Whole
    <3>3. QED
        BY <3>1, <3>2
  <2>2. QED
      BY <1>10, <2>1 DEF Whole
<1>21. Quiet' /\ Writing'
    BY <1>2 DEF Quiet, Writing, Idle
<1>22. QED
    BY <1>16, <1>17, <1>18, <1>20, <1>21 DEF Filed

LEMMA StepKept ==
    ASSUME Typed, PartedInv, KeptInv, [Next]_bmfsVars
    PROVE  KeptInv'
<1>1. ASSUME UNCHANGED <<dir, cells, stored, torn, careless>>, Quiet => Quiet', Writing => Writing'
      PROVE  KeptInv'
  <2>1. ASSUME NEW s \in Live(dir)
        PROVE  Content(dir, s)' = Content(dir, s)
      BY <1>1 DEF Content
  <2>2. Filed => Filed'
      BY <1>1, <2>1, FilesStay
  <2>3. QED
      BY <1>1, <2>2 DEF KeptInv
<1>2. CASE UNCHANGED bmfsVars
    BY <1>1, <1>2 DEF bmfsVars, Quiet, Writing, Written, FromCell
<1>3. ASSUME NEW string \in SizeStrings, NEW parts \in Parts, initialize(string, parts)
      PROVE  KeptInv'
  <2>1. /\ dir' = EmptyDirectory /\ stored' = [f \in Files |-> None]
        /\ job' = [op |-> "fill", string |-> string, parts |-> parts]
      BY <1>3 DEF initialize
  <2>2. Writing'
      BY <2>1 DEF Writing
  <2>3. QED
      BY <2>1, <2>2, NothingThere DEF KeptInv
<1>4. ASSUME NEW name \in Files, NEW maxsize \in MiBs, create(name, maxsize)
      PROVE  KeptInv'
    BY <1>4, CreateKept
<1>5. ASSUME NEW name \in Files, delete(name) \/ write(name)
      PROVE  KeptInv'
    BY <1>5, DeleteKept, WriteKept
<1>6. ASSUME NEW name \in Files, read(name)
      PROVE  KeptInv'
    BY <1>1, <1>6 DEF read, Opened, Idle, Quiet, Writing
<1>7. CASE WriteData
    BY <1>7, WriteDataKept
<1>8. CASE WriteEntry
    BY <1>8, WriteEntryKept
<1>9. ASSUME NEW modules \in Modules, pack(modules)
      PROVE  KeptInv'
    BY <1>1, <1>9 DEF pack, Idle, Quiet, Writing
<1>10. CASE ClearDirectory
  <2>1. dir' = EmptyDirectory /\ stored' = [f \in Files |-> None] /\ job'.op # "write"
      BY <1>10 DEF ClearDirectory, Idle
  <2>2. Writing'
      BY <2>1 DEF Writing
  <2>3. QED
      BY <2>1, <2>2, NothingThere DEF KeptInv
<1>11. CASE format \/ Tag \/ ReadError \/ Initialized \/ Killed
  <2>1. UNCHANGED <<dir, cells, stored, torn, careless>> /\ job'.op # "write"
    <3>1. CASE format
        BY <3>1 DEF format
    <3>2. CASE Tag
      <4>1. MakesDisk /\ job' = [job EXCEPT !.op = "clear"]
          BY <3>2, JobIs DEF Tag, Typed
      <4>2. job'.op = "clear"
          BY <4>1 DEF MakesDisk
      <4>3. QED
          BY <3>2, <4>2 DEF Tag
    <3>3. CASE ReadError
      <4>1. WritesSystem
          BY <3>3, JobIs DEF ReadError, Typed
      <4>2. job'.op = "system"
          BY <3>3, <4>1 DEF ReadError, WritesSystem
      <4>3. QED
          BY <3>3, <4>2 DEF ReadError
    <3>4. CASE Initialized \/ Killed
        BY <3>4 DEF Initialized, Killed, Idle
    <3>5. QED
        BY <1>11, <3>1, <3>2, <3>3, <3>4
  <2>2. Quiet => Quiet'
    <3>1. job'.op \in {"fill", "clear", "system"} => job.op \in {"fill", "clear", "system"}
        BY <1>11 DEF format, Tag, ReadError, Initialized, Killed, Idle
    <3>2. QED
        BY <2>1, <3>1 DEF Quiet
  <2>3. Writing'
      BY <2>1 DEF Writing
  <2>4. QED
      BY <1>1, <2>1, <2>2, <2>3
<1>12. CASE Fill \/ WriteSystem
  <2>1. /\ job.op \in {"fill", "system"} /\ job'.op \in {"fill", "system"}
        /\ UNCHANGED <<dir, stored, torn, careless>>
    <3>1. CASE Fill
        BY <3>1 DEF Fill
    <3>2. CASE WriteSystem
      <4>1. WritesSystem' /\ UNCHANGED <<dir, stored, torn, careless>> /\ job.op = "system"
          BY <3>2, SystemStepIs DEF WriteSystem
      <4>2. job'.op = "system"
          BY <4>1 DEF WritesSystem
      <4>3. QED
          BY <4>1, <4>2
    <3>3. QED
        BY <1>12, <3>1, <3>2
  <2>2. Quiet => Quiet' /\ Live(dir) = {}
      BY <2>1 DEF Quiet
  <2>3. Writing'
      BY <2>1 DEF Writing
  <2>4. Filed /\ Live(dir) = {} => Filed'
      BY <2>1, FilesStay
  <2>5. QED
      BY <2>1, <2>2, <2>3, <2>4 DEF KeptInv
<1>13. QED
    BY <1>2, <1>3, <1>4, <1>5, <1>6, <1>7, <1>8, <1>9, <1>10, <1>11, <1>12 DEF Next, bmfsNext

\* What is on the disk of a file that is listed is what was written to it, as far as
\* a run that is at it has come: with FilesParted the inductive invariant of FilesKept.
THEOREM ContentsKept == Spec => []KeptInv
<1>1. Init => KeptInv
    BY NothingListed DEF Init, bmfsInit, KeptInv, Quiet, Writing, Idle
<1>2. Typed /\ PartedInv /\ KeptInv /\ [Next]_bmfsVars => KeptInv'
    BY StepKept
<1>3. QED
    BY <1>1, <1>2, FilesParted, PTL DEF Spec

\* A file holds what was written to it last until it is deleted: writing and
\* deleting other files, making new ones in the gaps, and runs of the utility that
\* are killed in the middle of all that never change a cell of it.
THEOREM FilesStayKept == Spec => []FilesKept
<1>1. Typed /\ KeptInv => FilesKept
  <2>1. SUFFICES ASSUME Typed, KeptInv, ~careless, NEW f \in Files
                 PROVE  /\ findfile(dir, f) = {} <=> stored[f] = None
                        /\ stored[f] # None /\ f \notin torn => Content(dir, SlotOf(dir, f)) = stored[f]
      BY DEF FilesKept
  <2>2. NamesOnce /\ Known /\ Whole
      BY <2>1 DEF KeptInv, Filed
  <2>3. findfile(dir, f) = {} <=> stored[f] = None
      BY <2>2, OneSlot DEF Known
  <2>4. ASSUME stored[f] # None, f \notin torn
        PROVE  Content(dir, SlotOf(dir, f)) = stored[f]
    <3>1. PICK s \in Live(dir) : dir[s].FileName = f
        BY <2>2, <2>4 DEF Known
    <3>2. SlotOf(dir, f) = s
        BY <2>2, <3>1, OneSlot
    <3>3. QED
        BY <2>2, <2>4, <3>1, <3>2 DEF Whole
  <2>5. QED
      BY <2>3, <2>4
<1>2. QED
    BY <1>1, FilesParted, ContentsKept, PTL

-----------------------------------------------------------------------------
(* The system in front of the files.                                        *)

\* What a run of initialize puts on the disk, and what of it is left to write.
SystemOf(parts) == FileOf(2, parts) \o FileOf(3, parts)
Left == job.boot \o job.kernel

\* No file begins in the block of the system.
FilesBehind == \A s \in Slots : IsFile(dir[s]) => 1 <= dir[s].StartingBlock

WritesBehind == job.op = "write" => BlockCells <= job.at

LocalSystem ==
    /\ local["boot"] = BootLoader
    /\ local["kernel"] = None \/ \E modules \in Modules : local["kernel"] = buildImage(modules)

Asked ==
    job.op \in {"fill", "clear", "system"} =>
        /\ built = None /\ job.parts \in 0..3
        /\ \A i \in 1..job.parts : IsContent(local[System[i]]) /\ local[System[i]] # None
        /\ job.op = "fill" => MinimumSize <= parseSize(job.string)
        /\ job.op # "fill" => SysStart <= diskSize

\* The first k cells of the system are on the disk.
Loaded(k) ==
    /\ job.at = SysStart + k /\ SysStart + k <= diskSize
    /\ k + Len(Left) = Len(SystemOf(job.parts))
    /\ \A i \in 1..Len(Left) : Left[i] = SystemOf(job.parts)[k + i]
    /\ \A i \in 1..k : cells[SysStart + i - 1] = SystemOf(job.parts)[i]

Loading == job.op = "system" /\ job.read => \E k \in Nat : Loaded(k)

Built ==
    built # None =>
        /\ IsContent(built.system)
        /\ built.read /\ SysStart + Len(built.system) <= BlockCells => SystemThere
        /\ Len(built.system) > Len(BootLoader) =>
              \E modules \in Modules : built.system = BootLoader \o buildImage(modules)

SystemInv == FilesBehind /\ WritesBehind /\ LocalSystem /\ Asked /\ Loading /\ Built

LEMMA BehindKept ==
    ASSUME Typed, FilesBehind, [Next]_bmfsVars
    PROVE  FilesBehind'
<1>1. dir \in [Slots -> Entries] /\ TypeOK
    BY TypesOf DEF Typed
<1>2. ASSUME \A s \in Slots : IsFile(dir'[s]) => IsFile(dir[s]) /\ dir'[s].StartingBlock = dir[s].StartingBlock
      PROVE  FilesBehind'
    BY <1>2 DEF FilesBehind
<1>3. ASSUME dir' = EmptyDirectory
      PROVE  FilesBehind'
  <2>1. \A s \in Slots : ~IsFile(dir'[s])
      BY <1>3, NamesAssumption DEF EmptyDirectory, IsFile
  <2>2. QED
      BY <2>1 DEF FilesBehind
<1>4. ASSUME NEW name \in Files, NEW maxsize \in MiBs, create(name, maxsize)
      PROVE  FilesBehind'
  <2>1. PICK slot, blocks : slot = first_free_entry(dir) /\ blocks = (maxsize + 1) \div 2
      OBVIOUS
  <2>2. PICK order \in Sorted(dir) :
          /\ new_file_start(dir, order, blocks) # 0
          /\ dir'[slot] = [FileName |-> name, StartingBlock |-> new_file_start(dir, order, blocks),
                           ReservedBlocks |-> blocks, FileSize |-> 0]
      BY <1>1, <1>4, <2>1, CreateIs
  <2>3. \A t \in Slots \ {slot} : dir'[t] = dir[t] \/ dir'[t].FileName = End
      BY <1>1, <1>4, <2>1, CreateIs
  <2>4. new_file_start(dir, order, blocks) \in Nat
      BY <1>1, StartIs
  <2>5. 1 <= dir'[slot].StartingBlock
      BY <2>2, <2>4
  <2>6. \A t \in Slots \ {slot} : IsFile(dir'[t]) => 1 <= dir'[t].StartingBlock
      BY <2>3, NamesAssumption DEF IsFile, FilesBehind
  <2>7. QED
      BY <2>5, <2>6 DEF FilesBehind
<1>5. ASSUME NEW name \in Files, delete(name)
      PROVE  FilesBehind'
  <2>1. PICK slot : slot = SlotOf(dir, name)
      OBVIOUS
  <2>2. slot \in Slots /\ dir' = [dir EXCEPT ![slot].FileName = Deleted]
      BY <1>5, <2>1, SlotIs DEF delete
  <2>3. \A t \in Slots : t # slot => dir'[t] = dir[t]
      BY <1>1, <2>2
  <2>4. dir'[slot].FileName = Deleted
    <3>1. dir'[slot] = [dir[slot] EXCEPT !.FileName = Deleted] /\ dir[slot] \in Entries
        BY <1>1, <2>2
    <3>2. QED
        BY <3>1 DEF Entries
  <2>5. ~IsFile(dir'[slot])
      BY <2>4, NamesAssumption DEF IsFile
  <2>6. QED
      BY <1>2, <2>3, <2>5
<1>6. CASE WriteEntry
  <2>1. \A t \in Slots : dir'[t].FileName = dir[t].FileName /\ dir'[t].StartingBlock = dir[t].StartingBlock
      BY <1>6, EntryWritten
  <2>2. QED
      BY <1>2, <2>1 DEF IsFile
<1>7. CASE \/ UNCHANGED dir
           \/ dir' = EmptyDirectory
    BY <1>2, <1>3, <1>7
<1>8. ASSUME ~(\E name \in Files : delete(name) \/ \E maxsize \in MiBs : create(name, maxsize)), ~WriteEntry
      PROVE  UNCHANGED dir \/ dir' = EmptyDirectory
    BY <1>8 DEF Next, bmfsNext, bmfsVars, initialize, read, write, format, WriteData, Fill, Tag,
                ClearDirectory, WriteSystem, ReadError, Initialized, Killed, pack
<1>9. QED
    BY <1>4, <1>5, <1>6, <1>7, <1>8

\* The files of the host that make the system are only changed between two commands.
LEMMA LocalKept ==
    ASSUME Typed, LocalSystem, [Next]_bmfsVars
    PROVE  LocalSystem'
<1>1. "boot" \in DOMAIN local /\ "kernel" \in DOMAIN local /\ "boot" \notin Files /\ "kernel" \notin Files
    BY TypesOf, SystemIs, ImageAssumption DEF Typed
<1>2. ASSUME NEW name \in Files, read(name)
      PROVE  LocalSystem'
  <2>1. local'["boot"] = local["boot"] /\ local'["kernel"] = local["kernel"]
      BY <1>1, <1>2 DEF read
  <2>2. QED
      BY <2>1 DEF LocalSystem
<1>3. ASSUME NEW modules \in Modules, pack(modules)
      PROVE  LocalSystem'
  <2>1. local'["boot"] = local["boot"] /\ local'["kernel"] = buildImage(modules)
      BY <1>1, <1>3 DEF pack
  <2>2. QED
      BY <2>1 DEF LocalSystem
<1>4. ASSUME ~\E name \in Files : read(name), ~\E modules \in Modules : pack(modules)
      PROVE  UNCHANGED local
    BY <1>4 DEF Next, bmfsNext, bmfsVars, initialize, create, delete, write, format, WriteData,
                WriteEntry, Fill, Tag, ClearDirectory, WriteSystem, ReadError, Initialized, Killed
<1>5. CASE UNCHANGED local
    BY <1>5 DEF LocalSystem
<1>6. QED
    BY <1>2, <1>3, <1>4, <1>5

\* What is written and what is left are the file.
LEMMA CutJoins ==
    ASSUME NEW f, IsContent(f)
    PROVE  /\ Joins(f, FirstCells(f, BufferCells), OtherCells(f, BufferCells))
           /\ IsContent(FirstCells(f, BufferCells)) /\ IsContent(OtherCells(f, BufferCells))
<1>1. PICK n, l, a, b, la, lb : /\ n = BufferCells /\ l = Len(f) /\ a = FirstCells(f, n) /\ b = OtherCells(f, n)
                                /\ la = Len(a) /\ lb = Len(b)
    OBVIOUS
<1>2. n \in Nat \ {0} /\ l \in Nat
    BY <1>1, DiskAssumption, ContentIs
<1>3. /\ IsContent(a) /\ la = (IF n <= l THEN n ELSE l) /\ \A i \in 1..la : a[i] = f[i]
      /\ IsContent(b) /\ lb = (IF n <= l THEN l - n ELSE 0) /\ \A i \in 1..lb : b[i] = f[n + i]
    BY <1>1, <1>2, CutIs
<1>4. l = la + lb /\ \A i \in 1..lb : la + i = n + i
    BY <1>2, <1>3
<1>5. \A i \in 1..lb : f[la + i] = b[i]
    BY <1>3, <1>4
<1>6. Joins(f, a, b)
    BY <1>1, <1>3, <1>4, <1>5 DEF Joins
<1>7. QED
    BY <1>1, <1>3, <1>6

\* a and then b, and then g.
LEMMA JoinsTwice ==
    ASSUME NEW a, NEW b, NEW f, NEW g, NEW h, NEW rest,
           IsContent(a), IsContent(b), IsContent(g),
           Joins(f, a, b), Joins(h, f, g), Joins(rest, b, g)
    PROVE  Joins(h, a, rest)
<1>1. PICK la, lb, lf, lg : la = Len(a) /\ lb = Len(b) /\ lf = Len(f) /\ lg = Len(g)
    OBVIOUS
<1>2. la \in Nat /\ lb \in Nat /\ lg \in Nat /\ lf = la + lb
    BY <1>1, ContentIs DEF Joins
<1>3. /\ \A i \in 1..la : f[i] = a[i]
      /\ \A i \in 1..lb : f[la + i] = b[i]
    BY <1>1 DEF Joins
<1>4. /\ IsContent(h) /\ Len(h) = lf + lg /\ Len(rest) = lb + lg
      /\ \A i \in 1..lf : h[i] = f[i]
      /\ \A i \in 1..lg : h[lf + i] = g[i]
      /\ \A i \in 1..lb : rest[i] = b[i]
      /\ \A i \in 1..lg : rest[lb + i] = g[i]
    BY <1>1 DEF Joins
<1>5. \A i \in 1..la : h[i] = a[i]
  <2>1. \A i \in 1..la : i \in 1..lf
      BY <1>2
  <2>2. QED
      BY <1>3, <1>4, <2>1
<1>6. \A i \in 1..(lb + lg) : h[la + i] = rest[i]
  <2>1. TAKE i \in 1..(lb + lg)
  <2>2. CASE i <= lb
    <3>1. i \in 1..lb /\ la + i \in 1..lf
        BY <1>2, <2>2
    <3>2. QED
        BY <1>3, <1>4, <3>1
  <2>3. CASE ~(i <= lb)
    <3>1. PICK j : j = i - lb
        OBVIOUS
    <3>2. j \in 1..lg /\ i = lb + j /\ la + i = lf + j
        BY <1>2, <2>3, <3>1
    <3>3. QED
        BY <1>4, <3>2
  <2>4. QED
      BY <2>2, <2>3
<1>7. Len(h) = la + (lb + lg)
  <2>1. PICK x : x = Len(h)
      OBVIOUS
  <2>2. x = la + (lb + lg)
      BY <1>2, <1>4, <2>1
  <2>3. QED
      BY <2>1, <2>2
<1>8. QED
    BY <1>1, <1>4, <1>5, <1>6, <1>7 DEF Joins

\* Nothing in front of g.
LEMMA JoinsNothing ==
    ASSUME NEW e, NEW g, NEW h, Len(e) = 0, IsContent(g), Joins(h, e, g)
    PROVE  Len(h) = Len(g) /\ \A i \in 1..Len(g) : h[i] = g[i]
<1>1. PICK lg, lh : lg = Len(g) /\ lh = Len(h)
    OBVIOUS
<1>2. lg \in Nat /\ lh = 0 + lg /\ \A i \in 1..lg : h[0 + i] = g[i]
    BY <1>1, ContentIs DEF Joins
<1>3. lh = lg /\ \A i \in 1..lg : 0 + i = i
    BY <1>2
<1>4. QED
    BY <1>1, <1>2, <1>3

\* A step of writing takes the first cells of what is left to the disk.
LEMMA Advances ==
    ASSUME Typed, WriteSystem
    PROVE  \E first : /\ IsContent(first) /\ WriteCells(job.at, first) /\ Joins(Left, first, Left')
                      /\ job'.at = job.at + Len(first) /\ job'.op = "system"
                      /\ job'.parts = job.parts /\ job'.read = job.read
<1>1. WritesSystem /\ job.op = "system"
    BY JobIs DEF Typed, WriteSystem
<1>2. PICK string, parts, at, rd, boot, kernel :
         /\ job = [op |-> "system", string |-> string, parts |-> parts, at |-> at,
                   read |-> rd, boot |-> boot, kernel |-> kernel]
         /\ at \in Nat /\ IsContent(boot) /\ IsContent(kernel)
    BY <1>1 DEF WritesSystem
<1>3. Left = boot \o kernel
    BY <1>2 DEF Left
<1>4. Joins(Left, boot, kernel)
    BY <1>2, <1>3, Joined
<1>5. CASE WriteNext("boot", job.at)
  <2>1. PICK a, b : a = FirstCells(boot, BufferCells) /\ b = OtherCells(boot, BufferCells)
      OBVIOUS
  <2>2. /\ WriteCells(at, a)
        /\ job' = [op |-> "system", string |-> string, parts |-> parts, at |-> at + Len(a),
                   read |-> rd, boot |-> b, kernel |-> kernel]
      BY <1>2, <1>5, <2>1 DEF WriteNext
  <2>3. Joins(boot, a, b) /\ IsContent(a) /\ IsContent(b)
      BY <1>2, <2>1, CutJoins
  <2>4. Left' = b \o kernel
      BY <2>2 DEF Left
  <2>5. Joins(Left', b, kernel)
      BY <1>2, <2>3, <2>4, Joined
  <2>6. Joins(Left, a, Left')
      BY <1>2, <1>4, <2>3, <2>5, JoinsTwice
  <2>7. /\ job.at = at /\ job'.at = at + Len(a) /\ job'.op = "system"
        /\ job'.parts = job.parts /\ job'.read = job.read
      BY <1>2, <2>2
  <2>8. QED
      BY <2>2, <2>3, <2>6, <2>7
<1>6. CASE job.boot = <<>> /\ WriteNext("kernel", job.at)
  <2>1. PICK a, b : a = FirstCells(kernel, BufferCells) /\ b = OtherCells(kernel, BufferCells)
      OBVIOUS
  <2>2. /\ WriteCells(at, a) /\ boot = <<>>
        /\ job' = [op |-> "system", string |-> string, parts |-> parts, at |-> at + Len(a),
                   read |-> rd, boot |-> boot, kernel |-> b]
      BY <1>2, <1>6, <2>1 DEF WriteNext
  <2>3. Joins(kernel, a, b) /\ IsContent(a) /\ IsContent(b)
      BY <1>2, <2>1, CutJoins
  <2>4. Left' = boot \o b
      BY <2>2 DEF Left
  <2>5. Joins(Left', boot, b)
      BY <1>2, <2>3, <2>4, Joined
  <2>6. Len(boot) = 0
      BY <2>2, EmptyContent
  <2>7. PICK l, r : l = Left /\ r = Left'
      OBVIOUS
  <2>8. /\ Len(l) = Len(kernel) /\ \A i \in 1..Len(kernel) : l[i] = kernel[i]
        /\ Len(r) = Len(b) /\ \A i \in 1..Len(b) : r[i] = b[i]
      BY <1>2, <1>4, <2>3, <2>5, <2>6, <2>7, JoinsNothing
  <2>9. IsContent(l)
      BY <1>4, <2>7 DEF Joins
  <2>10. Joins(l, a, r)
    <3>1. PICK la, lb, lk : la = Len(a) /\ lb = Len(b) /\ lk = Len(kernel)
        OBVIOUS
    <3>2. la \in Nat /\ lb \in Nat /\ lk = la + lb
        BY <2>3, <3>1, ContentIs DEF Joins
    <3>3. \A i \in 1..la : i \in 1..lk
        BY <3>2
    <3>4. \A i \in 1..lb : la + i \in 1..lk
        BY <3>2
    <3>5. \A i \in 1..la : l[i] = a[i]
        BY <2>3, <2>8, <3>1, <3>3 DEF Joins
    <3>6. \A i \in 1..lb : l[la + i] = r[i]
        BY <2>3, <2>8, <3>1, <3>4 DEF Joins
    <3>7. QED
        BY <2>8, <2>9, <3>1, <3>2, <3>5, <3>6 DEF Joins
  <2>11. /\ job.at = at /\ job'.at = at + Len(a) /\ job'.op = "system"
         /\ job'.parts = job.parts /\ job'.read = job.read
      BY <1>2, <2>2
  <2>12. QED
      BY <2>2, <2>3, <2>7, <2>10, <2>11
<1>7. QED
    BY <1>5, <1>6 DEF WriteSystem

LEMMA LoadedAdvances ==
    ASSUME Typed, WriteSystem, NEW k \in Nat, Loaded(k)
    PROVE  \E n \in Nat : Loaded(n)'
<1>1. PICK first : /\ IsContent(first) /\ WriteCells(job.at, first) /\ Joins(Left, first, Left')
                   /\ job'.at = job.at + Len(first) /\ job'.parts = job.parts
    BY Advances
<1>2. PICK n, at, l, r, s, ll, lr, ls, size, more :
        /\ n = Len(first) /\ at = job.at /\ l = Left /\ r = Left' /\ s = SystemOf(job.parts)
        /\ ll = Len(l) /\ lr = Len(r) /\ ls = Len(s) /\ size = diskSize /\ more = diskSize'
    OBVIOUS
<1>3. SystemOf(job.parts)' = s
    BY <1>1, <1>2, SystemStepIs DEF SystemOf, FileOf
<1>4. n \in Nat /\ lr \in Nat /\ ll = n + lr
      /\ (\A i \in 1..n : l[i] = first[i]) /\ \A i \in 1..lr : l[n + i] = r[i]
  <2>1. IsContent(Left')
    <3>1. WritesSystem'
        BY SystemStepIs
    <3>2. IsContent(job'.boot) /\ IsContent(job'.kernel)
        BY <3>1 DEF WritesSystem
    <3>3. QED
        BY <3>2, Joined DEF Left, Joins
  <2>2. QED
      BY <1>1, <1>2, <2>1, ContentIs DEF Joins
<1>5. /\ at = SysStart + k /\ SysStart + k <= size /\ k + ll = ls
      /\ (\A i \in 1..ll : l[i] = s[k + i]) /\ \A i \in 1..k : cells[SysStart + i - 1] = s[i]
    BY <1>2 DEF Loaded
<1>6. at \in Nat /\ size \in Nat /\ DOMAIN cells = 0..(size - 1) /\ SysStart = 1
    BY <1>2, <1>5, TypesOf DEF Typed, SysStart
<1>7. /\ more \in Nat /\ size <= more /\ at + n <= more
      /\ \A c \in 0..(more - 1) :
            cells'[c] = IF c >= at /\ c < at + n THEN first[c - at + 1]
                        ELSE IF c < size THEN cells[c] ELSE Zero
    BY <1>1, <1>2, <1>6, WriteCellsIs
<1>8. \A i \in 1..lr : r[i] = s[(k + n) + i]
  <2>1. TAKE i \in 1..lr
  <2>2. n + i \in 1..ll /\ k + (n + i) = (k + n) + i
      BY <1>4
  <2>3. QED
      BY <1>4, <1>5, <2>2
<1>9. \A i \in 1..(k + n) : cells'[SysStart + i - 1] = s[i]
  <2>1. TAKE i \in 1..(k + n)
  <2>2. PICK c : c = SysStart + i - 1
      OBVIOUS
  <2>3. c = i /\ c \in 0..(more - 1)
      BY <1>4, <1>5, <1>6, <1>7, <2>2
  <2>4. CASE i <= k
    <3>1. i \in 1..k /\ ~(c >= at) /\ c < size
        BY <1>5, <1>6, <2>3, <2>4
    <3>2. cells'[c] = cells[c]
        BY <1>7, <2>3, <3>1
    <3>3. cells[c] = s[i]
        BY <1>5, <2>2, <3>1
    <3>4. QED
        BY <2>2, <3>2, <3>3
  <2>5. CASE ~(i <= k)
    <3>1. PICK j : j = i - k
        OBVIOUS
    <3>2. j \in 1..n /\ j \in 1..ll /\ c >= at /\ c < at + n /\ c - at + 1 = j /\ k + j = i
        BY <1>4, <1>5, <1>6, <2>3, <2>5, <3>1
    <3>3. cells'[c] = first[j]
        BY <1>7, <2>3, <3>2
    <3>4. first[j] = s[i]
        BY <1>4, <1>5, <3>2
    <3>5. QED
        BY <2>2, <3>3, <3>4
  <2>6. QED
      BY <2>4, <2>5
<1>10. k + n \in Nat /\ at + n = SysStart + (k + n) /\ SysStart + (k + n) <= more /\ (k + n) + lr = ls
    BY <1>4, <1>5, <1>6, <1>7
<1>11. Loaded(k + n)'
    BY <1>1, <1>2, <1>3, <1>8, <1>9, <1>10 DEF Loaded
<1>12. QED
    BY <1>10, <1>11

\* What is built stays when only cells behind the block of the system are written.
LEMMA StillBuilt ==
    ASSUME Typed, Built, built' = built, diskSize' \in Nat, diskSize <= diskSize',
           \A c \in 0..(diskSize - 1) : c < BlockCells => cells'[c] = cells[c]
    PROVE  Built'
<1>1. SUFFICES ASSUME built # None
               PROVE  Built'
    BY DEF Built
<1>2. /\ IsContent(built.system)
      /\ Len(built.system) > Len(BootLoader) =>
            \E modules \in Modules : built.system = BootLoader \o buildImage(modules)
    BY <1>1 DEF Built
<1>3. ASSUME built.read, SysStart + Len(built.system) <= BlockCells
      PROVE  SystemThere'
  <2>1. SystemThere
      BY <1>1, <1>3 DEF Built
  <2>2. PICK s, n, size : s = built.system /\ n = Len(s) /\ size = diskSize
      OBVIOUS
  <2>3. n \in Nat /\ DOMAIN s = 1..n /\ size \in Nat /\ SysStart = 1 /\ BlockCells \in Nat
      BY <1>2, <2>2, ContentIs, TypesOf, DiskAssumption DEF Typed, SysStart
  <2>4. SysStart + n <= size /\ SysStart + n <= BlockCells
      BY <1>3, <2>1, <2>2 DEF SystemThere
  <2>5. SysStart + n <= diskSize'
      BY <2>2, <2>3, <2>4
  <2>6. \A i \in 1..n : SysStart + i - 1 \in 0..(size - 1) /\ SysStart + i - 1 < BlockCells
      BY <2>3, <2>4
  <2>7. \A i \in 1..n : cells'[SysStart + i - 1] = s[i]
      BY <2>1, <2>2, <2>3, <2>6 DEF SystemThere
  <2>8. QED
      BY <2>2, <2>3, <2>5, <2>7 DEF SystemThere
<1>4. QED
    BY <1>2, <1>3 DEF Built

LEMMA BuiltLater ==
    ASSUME built' = None
    PROVE  Built'
BY DEF Built

\* What holds while no run of initialize is at work.
LEMMA NotMaking ==
    ASSUME job'.op \notin {"fill", "clear", "system"}
    PROVE  Asked' /\ Loading'
BY DEF Asked, Loading

LEMMA InitSystem ==
    ASSUME Init
    PROVE  SystemInv
<1>1. job = Idle /\ built = None /\ dir = EmptyDirectory
    BY DEF Init, bmfsInit
<1>2. job.op = "none"
    BY <1>1 DEF Idle
<1>3. Asked /\ Loading /\ WritesBehind /\ Built
    BY <1>1, <1>2 DEF Asked, Loading, WritesBehind, Built
<1>4. FilesBehind
  <2>1. \A s \in Slots : ~IsFile(dir[s])
      BY <1>1, NamesAssumption DEF EmptyDirectory, IsFile
  <2>2. QED
      BY <2>1 DEF FilesBehind
<1>5. LocalSystem
  <2>1. PICK contents \in LocalContents :
           local = [f \in Files \cup Range(System) |->
                      CASE f \in Files -> contents[f]
                        [] f = "mbr"   -> <<Zero>>
                        [] f = "boot"  -> BootLoader
                        [] OTHER       -> None]
      BY DEF Init
  <2>2. /\ "boot" \in Files \cup Range(System) /\ "boot" \notin Files
        /\ "kernel" \in Files \cup Range(System) /\ "kernel" \notin Files
      BY SystemIs, ImageAssumption
  <2>3. local["boot"] = BootLoader
      BY <2>1, <2>2
  <2>4. local["kernel"] = None
      BY <2>1, <2>2
  <2>5. QED
      BY <2>3, <2>4 DEF LocalSystem
<1>6. QED
    BY <1>3, <1>4, <1>5 DEF SystemInv

\* The runs that one write ends, and those that only read.
LEMMA CommandLeaves ==
    ASSUME Typed, SystemInv, job'.op \notin {"fill", "clear", "system", "write"},
           built' = built, UNCHANGED <<diskSize, cells>>
    PROVE  Asked' /\ Loading' /\ WritesBehind' /\ Built'
<1>1. diskSize \in Nat /\ Built
    BY TypesOf DEF Typed, SystemInv
<1>2. Built'
    BY <1>1, StillBuilt
<1>3. WritesBehind'
    BY DEF WritesBehind
<1>4. QED
    BY <1>2, <1>3, NotMaking

LEMMA OneWriteLeaves ==
    ASSUME Typed, SystemInv,
           \/ \E name \in Files : \/ \E maxsize \in MiBs : create(name, maxsize)
                                  \/ delete(name) \/ read(name)
           \/ \E modules \in Modules : pack(modules)
           \/ format \/ WriteEntry \/ Killed
    PROVE  Asked' /\ Loading' /\ WritesBehind' /\ Built'
<1>1. built' = built /\ UNCHANGED <<diskSize, cells>>
    BY DEF create, delete, read, pack, format, WriteEntry, Killed
<1>2. job' = Idle \/ job' = [op |-> "format"]
    BY DEF create, delete, read, pack, format, WriteEntry, Killed, Opened
<1>3. job'.op = "none" \/ job'.op = "format"
    BY <1>2 DEF Idle
<1>4. QED
    BY <1>1, <1>3, CommandLeaves

\* A file is written where it begins, behind the block of the system.
LEMMA WriteLeaves ==
    ASSUME Typed, SystemInv, NEW name \in Files, write(name)
    PROVE  Asked' /\ Loading' /\ WritesBehind' /\ Built'
<1>1. PICK slot, at, begin, left : /\ slot = SlotOf(dir, name) /\ begin = dir[slot].StartingBlock
                                   /\ at = begin * BlockCells /\ left = local[name]
    OBVIOUS
<1>2. /\ findfile(dir, name) # {} /\ job' = [op |-> "write", name |-> name, left |-> left, at |-> at]
      /\ built' = built /\ UNCHANGED <<diskSize, cells>>
    BY <1>1 DEF write
<1>3. slot \in Slots /\ dir[slot].FileName = name
    BY <1>1, <1>2, SlotIs
<1>4. begin \in Nat /\ 1 <= begin
    BY <1>1, <1>3, TypesOf, EntryOf DEF Typed, SystemInv, FilesBehind, IsFile
<1>5. BlockCells <= at
  <2>1. BlockCells \in Nat
      BY DiskAssumption
  <2>2. 1 * BlockCells <= begin * BlockCells
      BY <1>4, <2>1, TimesGrows
  <2>3. QED
      BY <1>1, <2>1, <2>2
<1>6. job'.op = "write" /\ job'.at = at
    BY <1>2
<1>7. Built'
    BY <1>2, StillBuilt, TypesOf DEF Typed, SystemInv
<1>8. QED
    BY <1>5, <1>6, <1>7, NotMaking DEF WritesBehind

LEMMA WriteDataLeaves ==
    ASSUME Typed, SystemInv, WriteData
    PROVE  Asked' /\ Loading' /\ WritesBehind' /\ Built'
<1>1. job.op = "write" /\ WriteCells(job.at, FirstCells(job.left, BUFSIZ))
      /\ job' = [job EXCEPT !.left = OtherCells(@, BUFSIZ), !.at = @ + BUFSIZ] /\ built' = built
    BY DEF WriteData
<1>2. WritesFile
    BY <1>1, JobIs DEF Typed
<1>3. PICK name, left, at, first :
        /\ job = [op |-> "write", name |-> name, left |-> left, at |-> at]
        /\ at \in Nat /\ IsContent(left) /\ at = job.at /\ first = FirstCells(left, BUFSIZ)
    BY <1>2 DEF WritesFile
<1>4. BUFSIZ \in Nat \ {0} /\ BlockCells \in Nat
    BY DiskAssumption
<1>5. job'.op = "write" /\ job'.at = at + BUFSIZ
    BY <1>1, <1>3
<1>6. BlockCells <= at
    BY <1>1, <1>3 DEF SystemInv, WritesBehind
<1>7. IsContent(first) /\ WriteCells(at, first)
    BY <1>1, <1>3, <1>4, CutIs
<1>8. PICK n, size, more : n = Len(first) /\ size = diskSize /\ more = diskSize'
    OBVIOUS
<1>9. /\ more \in Nat /\ size \in Nat /\ size <= more
      /\ \A c \in 0..(more - 1) :
            cells'[c] = IF c >= at /\ c < at + n THEN first[c - at + 1]
                        ELSE IF c < size THEN cells[c] ELSE Zero
  <2>1. diskSize \in Nat /\ DOMAIN cells = 0..(diskSize - 1)
      BY TypesOf DEF Typed
  <2>2. /\ diskSize' \in Nat /\ diskSize <= diskSize'
        /\ \A c \in 0..(diskSize' - 1) :
              cells'[c] = IF c >= at /\ c < at + Len(first) THEN first[c - at + 1]
                          ELSE IF c < diskSize THEN cells[c] ELSE Zero
      BY ONLY <1>3, <1>7, <2>1, WriteCellsIs
  <2>3. QED
      BY <1>8, <2>1, <2>2
<1>10. \A c \in 0..(size - 1) : c < BlockCells => cells'[c] = cells[c]
    BY <1>3, <1>4, <1>6, <1>9
<1>11. Built'
    BY <1>1, <1>8, <1>9, <1>10, StillBuilt DEF SystemInv
<1>12. WritesBehind'
    BY <1>3, <1>4, <1>5, <1>6 DEF WritesBehind
<1>13. QED
    BY <1>5, <1>11, <1>12, NotMaking

\* The files that a run of initialize is given.
Given(parts) ==
    parts \in 0..3 /\ \A i \in 1..parts : IsContent(local[System[i]]) /\ local[System[i]] # None

\* None of them can be a command that is under way while a run of initialize works.
LEMMA InitializeLeaves ==
    ASSUME Typed, SystemInv, NEW string \in SizeStrings, NEW parts \in Parts, initialize(string, parts)
    PROVE  Asked' /\ Loading' /\ WritesBehind' /\ Built'
<1>1. /\ parseSize(string) >= MinimumSize /\ \A i \in 1..parts : local[System[i]] # None
      /\ job' = [op |-> "fill", string |-> string, parts |-> parts]
      /\ built' = None /\ local' = local
    BY DEF initialize
<1>2. job'.op = "fill" /\ job'.string = string /\ job'.parts = parts
    BY <1>1
<1>3. parts \in 0..3
    BY DiskAssumption
<1>4. \A i \in 1..parts : IsContent(local[System[i]])
  <2>1. \A i \in 1..parts : System[i] \in DOMAIN local
      BY <1>3, SystemIs, TypesOf DEF Typed
  <2>2. QED
      BY <1>1, <2>1 DEF Typed, LocalOK
<1>5. MinimumSize <= parseSize(string)
    BY <1>1, DiskAssumption, SizesAssumption
<1>6. Asked'
    BY <1>1, <1>2, <1>3, <1>4, <1>5 DEF Asked
<1>7. Loading' /\ WritesBehind'
    BY <1>2 DEF Loading, WritesBehind
<1>8. QED
    BY <1>1, <1>6, <1>7, BuiltLater

\* The disk is filled and gets its tag.
LEMMA FillLeaves ==
    ASSUME Typed, SystemInv, Fill \/ Tag
    PROVE  Asked' /\ Loading' /\ WritesBehind' /\ Built'
<1>1. job.op = "fill" /\ UNCHANGED <<local, built>>
    BY DEF Fill, Tag
<1>2. MakesDisk
    BY <1>1, JobIs DEF Typed
<1>3. /\ built = None /\ Given(job.parts) /\ MinimumSize <= parseSize(job.string)
    BY <1>1 DEF SystemInv, Asked, Given
<1>4. CASE Fill
  <2>1. job' = job
      BY <1>4 DEF Fill
  <2>2. QED
      BY <1>1, <1>3, <2>1, BuiltLater DEF Asked, Loading, WritesBehind, Given
<1>5. CASE Tag
  <2>1. diskSize = parseSize(job.string) /\ job' = [job EXCEPT !.op = "clear"] /\ diskSize' = diskSize
      BY <1>5 DEF Tag
  <2>2. job'.op = "clear" /\ job'.parts = job.parts
    <3>1. job' = [op |-> "clear", string |-> job.string, parts |-> job.parts]
        BY <1>2, <2>1 DEF MakesDisk
    <3>2. QED
        BY <3>1
  <2>3. SysStart <= diskSize'
      BY <1>3, <2>1, DiskAssumption, TypesOf DEF Typed, SysStart
  <2>4. QED
      BY <1>1, <1>3, <2>2, <2>3, BuiltLater DEF Asked, Loading, WritesBehind, Given
<1>6. QED
    BY <1>4, <1>5

\* What the boot loader and the kernel are.
LEMMA SystemOfIs ==
    ASSUME NEW parts, Given(parts)
    PROVE  IsContent(FileOf(2, parts)) /\ IsContent(FileOf(3, parts)) /\ IsContent(SystemOf(parts))
<1>1. \A i \in {2, 3} : IsContent(FileOf(i, parts))
  <2>1. TAKE i \in {2, 3}
  <2>2. parts \in Nat
      BY DEF Given
  <2>3. CASE i <= parts
    <3>1. i \in 1..parts
        BY <2>2, <2>3
    <3>2. QED
        BY <2>3, <3>1 DEF FileOf, Given
  <2>4. CASE ~(i <= parts)
      BY <2>4, EmptyContent DEF FileOf
  <2>5. QED
      BY <2>3, <2>4
<1>2. IsContent(FileOf(2, parts)) /\ IsContent(FileOf(3, parts))
    BY <1>1
<1>3. PICK f, g : f = FileOf(2, parts) /\ g = FileOf(3, parts)
    OBVIOUS
<1>4. SystemOf(parts) = f \o g
    BY <1>3 DEF SystemOf
<1>5. QED
    BY <1>2, <1>3, <1>4, Joined DEF Joins

\* The system is about to be written.
LEMMA ClearLeaves ==
    ASSUME Typed, SystemInv, ClearDirectory
    PROVE  Asked' /\ Loading' /\ WritesBehind' /\ Built'
<1>1. job.op \in {"format", "clear"} /\ UNCHANGED <<diskSize, cells, local, built>>
    BY DEF ClearDirectory
<1>2. CASE job.op = "format"
  <2>1. job'.op = "none"
      BY <1>2 DEF ClearDirectory, Idle
  <2>2. QED
      BY <1>1, <2>1, CommandLeaves
<1>3. CASE job.op = "clear"
  <2>1. PICK parts, boot, kernel :
          parts = job.parts /\ boot = FileOf(2, parts) /\ kernel = FileOf(3, parts)
      OBVIOUS
  <2>2. job' = [op |-> "system", string |-> job.string, parts |-> parts, at |-> SysStart,
                read |-> TRUE, boot |-> boot, kernel |-> kernel]
      BY <1>3, <2>1 DEF ClearDirectory
  <2>3. /\ job'.op = "system" /\ job'.parts = parts /\ job'.at = SysStart
        /\ job'.boot = boot /\ job'.kernel = kernel
      BY <2>2
  <2>4. built = None /\ Given(parts) /\ SysStart <= diskSize
      BY <1>3, <2>1 DEF SystemInv, Asked, Given
  <2>5. Asked'
      BY <1>1, <2>3, <2>4 DEF Asked, Given
  <2>6. SystemOf(job.parts)' = SystemOf(parts) /\ Left' = SystemOf(parts)
    <3>1. SystemOf(job.parts)' = SystemOf(parts)
        BY <1>1, <2>3 DEF SystemOf, FileOf
    <3>2. QED
        BY <2>1, <2>3, <3>1 DEF Left, SystemOf
  <2>7. Loaded(0)'
    <3>1. PICK s, n : s = SystemOf(parts) /\ n = Len(s)
        OBVIOUS
    <3>2. n \in Nat
        BY <2>4, <3>1, SystemOfIs, ContentIs
    <3>3. SysStart = SysStart + 0 /\ SysStart + 0 <= diskSize' /\ 0 + n = n /\ \A i \in 1..n : 0 + i = i
        BY <1>1, <2>4, <3>2 DEF SysStart
    <3>4. QED
        BY <1>1, <2>3, <2>6, <3>1, <3>3 DEF Loaded
  <2>8. Loading'
      BY <2>7 DEF Loading
  <2>9. QED
      BY <1>1, <2>3, <2>4, <2>5, <2>8, BuiltLater DEF WritesBehind
<1>4. QED
    BY <1>1, <1>2, <1>3

LEMMA WriteSystemLeaves ==
    ASSUME Typed, SystemInv, WriteSystem
    PROVE  Asked' /\ Loading' /\ WritesBehind' /\ Built'
<1>1. job.op = "system" /\ UNCHANGED <<local, built>> /\ diskSize' \in Nat /\ diskSize <= diskSize'
    BY SystemStepIs DEF WriteSystem
<1>2. job'.op = "system" /\ job'.parts = job.parts /\ job'.read = job.read
    BY Advances
<1>3. built = None /\ Given(job.parts) /\ SysStart <= diskSize
    BY <1>1 DEF SystemInv, Asked, Given
<1>4. SysStart <= diskSize'
    BY <1>1, <1>3, TypesOf DEF Typed, SysStart
<1>5. Asked'
    BY <1>1, <1>2, <1>3, <1>4 DEF Asked, Given
<1>6. ASSUME job'.read
      PROVE  \E k \in Nat : Loaded(k)'
  <2>1. PICK k \in Nat : Loaded(k)
      BY <1>1, <1>2, <1>6 DEF SystemInv, Loading
  <2>2. QED
      BY <2>1, LoadedAdvances
<1>7. Loading'
    BY <1>6 DEF Loading
<1>8. QED
    BY <1>1, <1>2, <1>3, <1>5, <1>7, BuiltLater DEF WritesBehind

LEMMA ReadErrorLeaves ==
    ASSUME Typed, SystemInv, ReadError
    PROVE  Asked' /\ Loading' /\ WritesBehind' /\ Built'
<1>1. job.op = "system" /\ UNCHANGED <<diskSize, cells, local, built>>
    BY DEF ReadError
<1>2. WritesSystem
    BY <1>1, JobIs DEF Typed
<1>3. PICK string, parts, at, rd, boot, kernel :
         job = [op |-> "system", string |-> string, parts |-> parts, at |-> at,
                read |-> rd, boot |-> boot, kernel |-> kernel]
    BY <1>2 DEF WritesSystem
<1>4. job'.op = "system" /\ job'.parts = job.parts /\ job'.read = FALSE
    BY <1>3 DEF ReadError
<1>5. built = None /\ Given(job.parts) /\ SysStart <= diskSize
    BY <1>1 DEF SystemInv, Asked, Given
<1>6. Asked'
    BY <1>1, <1>4, <1>5 DEF Asked, Given
<1>7. QED
    BY <1>1, <1>4, <1>5, <1>6, BuiltLater DEF WritesBehind, Loading

\* The run that ends well leaves the whole system on the disk.
LEMMA InitializedLeaves ==
    ASSUME Typed, SystemInv, Initialized
    PROVE  Asked' /\ Loading' /\ WritesBehind' /\ Built'
<1>1. PICK s : s = SystemOf(job.parts)
    OBVIOUS
<1>2. /\ job.op = "system" /\ job.boot = <<>> /\ job.kernel = <<>> /\ job' = Idle
      /\ built' = [string |-> job.string, read |-> job.read, system |-> s]
      /\ UNCHANGED <<diskSize, cells, local>>
    BY <1>1 DEF Initialized, SystemOf
<1>3. built'.system = s /\ built'.read = job.read /\ job'.op = "none"
    BY <1>2 DEF Idle
<1>4. Given(job.parts)
    BY <1>2 DEF SystemInv, Asked, Given
<1>5. IsContent(s)
    BY <1>1, <1>4, SystemOfIs
<1>6. ASSUME job.read
      PROVE  SystemThere'
  <2>1. PICK k \in Nat : Loaded(k)
      BY <1>2, <1>6 DEF SystemInv, Loading
  <2>2. Left = <<>> \o <<>>
      BY <1>2 DEF Left
  <2>3. PICK l : l = Left
      OBVIOUS
  <2>4. Len(l) = 0
    <3>1. PICK e : e = <<>>
        OBVIOUS
    <3>2. IsContent(e) /\ Len(e) = 0 /\ l = e \o e
        BY <2>2, <2>3, <3>1, EmptyContent
    <3>3. Joins(l, e, e)
        BY <3>2, Joined
    <3>4. QED
        BY <3>2, <3>3, JoinsNothing
  <2>5. PICK n : n = Len(s)
      OBVIOUS
  <2>6. n \in Nat /\ DOMAIN s = 1..n
      BY <1>5, <2>5, ContentIs
  <2>7. SysStart + k <= diskSize /\ k + 0 = n /\ \A i \in 1..k : cells[SysStart + i - 1] = s[i]
      BY <1>1, <2>1, <2>3, <2>4, <2>5 DEF Loaded
  <2>8. k = n
      BY <2>6, <2>7
  <2>9. QED
      BY <1>2, <1>3, <2>5, <2>6, <2>7, <2>8 DEF SystemThere
<1>7. ASSUME Len(s) > Len(BootLoader)
      PROVE  \E modules \in Modules : s = BootLoader \o buildImage(modules)
  <2>1. PICK b, f, g, nb, nf, ng : /\ b = BootLoader /\ f = FileOf(2, job.parts) /\ g = FileOf(3, job.parts)
                                   /\ nb = Len(b) /\ nf = Len(f) /\ ng = Len(g)
      OBVIOUS
  <2>2. s = f \o g /\ IsContent(f) /\ IsContent(g) /\ IsContent(b) /\ job.parts \in 0..3
      BY <1>1, <1>4, <2>1, SystemOfIs, ImageAssumption DEF SystemOf, Given, IsContent
  <2>3. nf \in Nat /\ ng \in Nat /\ nb \in Nat /\ Len(s) = nf + ng
      BY <2>1, <2>2, ContentIs, Joined DEF Joins
  <2>4. LocalSystem
      BY DEF SystemInv
  <2>5. System[2] = "boot" /\ System[3] = "kernel"
      BY DEF System
  <2>6. job.parts = 3
    <3>1. CASE job.parts = 2
      <4>1. f = b /\ g = <<>>
          BY <2>1, <2>4, <2>5, <3>1 DEF FileOf, LocalSystem
      <4>2. nf = nb /\ ng = 0
          BY <2>1, <4>1, EmptyContent
      <4>3. QED
          BY <1>7, <2>1, <2>3, <4>2
    <3>2. CASE job.parts \in {0, 1}
      <4>1. f = <<>> /\ g = <<>>
          BY <2>1, <3>2 DEF FileOf
      <4>2. nf = 0 /\ ng = 0
          BY <2>1, <4>1, EmptyContent
      <4>3. QED
          BY <1>7, <2>1, <2>3, <4>2
    <3>3. QED
        BY <2>2, <3>1, <3>2
  <2>7. f = b /\ g = local["kernel"]
      BY <2>1, <2>4, <2>5, <2>6 DEF FileOf, LocalSystem
  <2>8. g # None
      BY <1>4, <2>5, <2>6, <2>7 DEF Given
  <2>9. PICK modules \in Modules : g = buildImage(modules)
      BY <2>4, <2>7, <2>8 DEF LocalSystem
  <2>10. QED
      BY <2>1, <2>2, <2>7, <2>9
<1>8. Built'
    BY <1>3, <1>5, <1>6, <1>7 DEF Built
<1>9. QED
    BY <1>3, <1>8, NotMaking DEF WritesBehind

LEMMA StepSystem ==
    ASSUME Typed, SystemInv, [Next]_bmfsVars
    PROVE  SystemInv'
<1>1. FilesBehind' /\ LocalSystem'
    BY BehindKept, LocalKept DEF SystemInv
<1>2. ASSUME UNCHANGED bmfsVars
      PROVE  Asked' /\ Loading' /\ WritesBehind' /\ Built'
  <2>1. /\ diskSize' = diskSize /\ dir' = dir /\ cells' = cells /\ local' = local
        /\ job' = job /\ stored' = stored /\ built' = built
      BY <1>2 DEF bmfsVars
  <2>2. Asked' /\ WritesBehind'
      BY <2>1 DEF SystemInv, Asked, WritesBehind
  <2>3. Loading'
      BY <2>1 DEF SystemInv, Loading, Loaded, Left, SystemOf, FileOf
  <2>4. Built'
      BY <2>1 DEF SystemInv, Built, SystemOf, FileOf, SystemThere
  <2>5. QED
      BY <2>2, <2>3, <2>4
<1>3. ASSUME Next
      PROVE  Asked' /\ Loading' /\ WritesBehind' /\ Built'
    BY <1>3, OneWriteLeaves, WriteLeaves, WriteDataLeaves, InitializeLeaves, FillLeaves, ClearLeaves,
       WriteSystemLeaves, ReadErrorLeaves, InitializedLeaves DEF Next, bmfsNext
<1>4. QED
    BY <1>1, <1>2, <1>3 DEF SystemInv

\* What initialize, the packer and the files of the disk can do to the system: it is
\* written cell by cell in its order, and no file reaches into its block.
THEOREM SystemKnown == Spec => []SystemInv
<1>1. Init => SystemInv
    BY InitSystem
<1>2. Typed /\ SystemInv /\ [Next]_bmfsVars => SystemInv'
    BY StepSystem
<1>3. QED
    BY <1>1, <1>2, FilesParted, PTL DEF Spec

\* The system that a run of initialize put on the disk stays on it, whatever is
\* created, written and deleted behind it and whichever run is killed.
THEOREM SystemStaysThere == Spec => []SystemStays
<1>1. SystemInv => SystemStays
    BY DEF SystemInv, Built, SystemStays
<1>2. QED
    BY <1>1, SystemKnown, PTL

-----------------------------------------------------------------------------
(* The modules in memory.                                                   *)

\* The n cells behind `at` are at `address` then, and what lies in front of them stays.
Takes(r, m, at, address, n) ==
    /\ \A j \in 1..n : address + j - 1 \in DOMAIN r /\ r[address + j - 1] = m[at + j]
    /\ \A a \in Nat : a \in DOMAIN m /\ (a < address \/ address + n <= a) => a \in DOMAIN r /\ r[a] = m[a]

LEMMA LoadModuleIs ==
    ASSUME NEW m, NEW at \in Nat, NEW address \in Nat, NEW n \in Nat, Number(m[at]) = n
    PROVE  Takes(loadModule(m, at, address), m, at, address, n)
<1>1. PICK D, r : /\ D = DOMAIN m \cup {address + i : i \in 0..(n - 1)}
                  /\ r = [a \in D |-> IF a >= address /\ a < address + n THEN m[at + 1 + a - address] ELSE m[a]]
    OBVIOUS
<1>2. loadModule(m, at, address) = r
    BY <1>1 DEF loadModule
<1>3. \A j \in 1..n : address + j - 1 \in D /\ r[address + j - 1] = m[at + j]
  <2>1. TAKE j \in 1..n
  <2>2. PICK a : a = address + j - 1
      OBVIOUS
  <2>3. a = address + (j - 1) /\ j - 1 \in 0..(n - 1) /\ a >= address /\ a < address + n
        /\ at + 1 + a - address = at + j
      BY <2>2
  <2>4. a \in D
      BY <1>1, <2>3
  <2>5. r[a] = m[at + j]
      BY <1>1, <2>3, <2>4
  <2>6. QED
      BY <2>2, <2>4, <2>5
<1>4. ASSUME NEW a \in Nat, a \in DOMAIN m, a < address \/ address + n <= a
      PROVE  a \in D /\ r[a] = m[a]
  <2>1. a \in D /\ ~(a >= address /\ a < address + n)
      BY <1>1, <1>4
  <2>2. QED
      BY <1>1, <2>1
<1>5. DOMAIN r = D
    BY <1>1
<1>6. QED
    BY <1>2, <1>3, <1>4, <1>5 DEF Takes

LEMMA ClearBSSIs ==
    ASSUME NEW m, NEW c \in Nat, c = endOfKernelBinary
    PROVE  /\ \A a \in c..(c + BSS - 1) : clearBSS(m)[a] = Zero
           /\ \A a \in Nat : a \in DOMAIN m /\ c + BSS <= a => a \in DOMAIN clearBSS(m) /\ clearBSS(m)[a] = m[a]
<1>1. BSS \in Nat
    BY ImageAssumption
<1>2. PICK D, r : /\ D = DOMAIN m \cup {c + i : i \in 0..(BSS - 1)}
                  /\ r = [a \in D |-> IF a >= c /\ a < c + BSS THEN Zero ELSE m[a]]
    OBVIOUS
<1>3. clearBSS(m) = r
    BY <1>2 DEF clearBSS
<1>4. ASSUME NEW a \in c..(c + BSS - 1)
      PROVE  r[a] = Zero
  <2>1. a - c \in 0..(BSS - 1) /\ a = c + (a - c) /\ a >= c /\ a < c + BSS
      BY <1>1, <1>4
  <2>2. a \in D
      BY <1>2, <2>1
  <2>3. QED
      BY <1>2, <2>1, <2>2
<1>5. ASSUME NEW a \in Nat, a \in DOMAIN m, c + BSS <= a
      PROVE  a \in D /\ r[a] = m[a]
  <2>1. a \in D /\ ~(a < c + BSS)
      BY <1>1, <1>2, <1>5
  <2>2. QED
      BY <1>2, <2>1
<1>6. DOMAIN r = D
    BY <1>2
<1>7. QED
    BY <1>3, <1>4, <1>5, <1>6

\* A disk that holds the system: the boot loader finds the packed kernel behind itself.
LEMMA KernelRead ==
    ASSUME Typed, built # None, IsContent(built.system), LoaderReads, SystemThere, NEW image, IsContent(image),
           built.system = BootLoader \o image, NEW size \in Nat, size = Len(image)
    PROVE  \A a \in 0..(size - 1) : a \in DOMAIN LoadKernel /\ LoadKernel[a] = image[a + 1]
<1>1. PICK b, s, disk, m : b = Len(BootLoader) /\ s = built.system /\ disk = diskSize /\ m = LoadKernel
    OBVIOUS
<1>2. IsContent(BootLoader) /\ b \in Nat /\ disk \in Nat /\ SysStart = 1
    BY <1>1, ImageAssumption, ContentIs, TypesOf DEF IsContent, Typed, SysStart
<1>3. Joins(s, BootLoader, image)
    BY <1>1, <1>2, Joined
<1>4. Len(s) = b + size /\ \A i \in 1..size : s[b + i] = image[i]
    BY <1>1, <1>3 DEF Joins
<1>5. DOMAIN s = 1..(b + size)
    BY <1>1, <1>4, ContentIs
<1>6. SysStart + (b + size) <= disk /\ \A i \in 1..(b + size) : cells[SysStart + i - 1] = s[i]
    BY <1>1, <1>4, <1>5 DEF SystemThere
<1>7. PICK sectors \in Int : /\ b + size <= sectors
                             /\ m = [a \in 0..(sectors - b - 1) |-> cells[SysStart + b + a]]
  <2>1. LoaderCells \in Int /\ disk - SysStart \in Int
      BY <1>2, ImageAssumption
  <2>2. b + size <= LoaderCells /\ b + size <= disk - SysStart
      BY <1>1, <1>2, <1>4, <1>6 DEF LoaderReads
  <2>3. PICK sectors : sectors = Min({LoaderCells, disk - SysStart})
      OBVIOUS
  <2>4. sectors = LoaderCells \/ sectors = disk - SysStart
      BY <2>1, <2>3, MaxOfTwo
  <2>5. m = [a \in 0..(sectors - b - 1) |-> cells[SysStart + b + a]]
      BY <1>1, <2>3 DEF LoadKernel
  <2>6. QED
      BY <2>1, <2>2, <2>4, <2>5
<1>8. ASSUME NEW a \in 0..(size - 1)
      PROVE  a \in DOMAIN m /\ m[a] = image[a + 1]
  <2>1. a \in 0..(sectors - b - 1)
      BY <1>2, <1>7, <1>8
  <2>2. m[a] = cells[SysStart + b + a]
      BY <1>7, <2>1
  <2>3. PICK i : i = b + (a + 1)
      OBVIOUS
  <2>4. i \in 1..(b + size) /\ SysStart + i - 1 = SysStart + b + a /\ a + 1 \in 1..size
      BY <1>2, <1>8, <2>3
  <2>5. cells[SysStart + b + a] = s[i]
      BY <1>6, <2>4
  <2>6. s[i] = image[a + 1]
      BY <1>4, <2>3, <2>4
  <2>7. QED
      BY <1>7, <2>1, <2>2, <2>5, <2>6
<1>9. QED
    BY <1>1, <1>8

LEMMA NumberIs ==
    ASSUME NEW n
    PROVE  Number(uint32(n)) = n
BY DEF Number, uint32

\* A module of j cells is at its address.
Placed(memory, module, address, n) ==
    \A j \in 1..n : address + j - 1 \in DOMAIN memory /\ memory[address + j - 1] = module[j]

LEMMA OneLoaded ==
    ASSUME NEW m, NEW image, NEW modules, NEW c \in Nat, NEW l \in Nat, NEW n,
           Packs(image, modules, c, 1, l, n), c = endOfKernelBinary,
           NEW size \in Nat, size = Len(image),
           \A a \in 0..(size - 1) : a \in DOMAIN m /\ m[a] = image[a + 1],
           NEW address \in Nat, address = ModuleAddress[1]
    PROVE  Placed(loadModules(m), modules[1], address, l)
<1>1. /\ size = c + 2 + l /\ image[c + 1] = uint32(1) /\ image[c + 2] = uint32(l)
      /\ \A j \in 1..l : image[c + 2 + j] = modules[1][j]
    BY DEF Packs
<1>2. Number(m[c]) = 1
  <2>1. c \in 0..(size - 1)
      BY <1>1
  <2>2. QED
      BY <1>1, <2>1, NumberIs
<1>3. Number(m[c + 1]) = l
  <2>1. c + 1 \in 0..(size - 1) /\ (c + 1) + 1 = c + 2
      BY <1>1
  <2>2. QED
      BY <1>1, <2>1, NumberIs
<1>4. \A j \in 1..l : m[(c + 1) + j] = modules[1][j]
  <2>1. TAKE j \in 1..l
  <2>2. (c + 1) + j \in 0..(size - 1) /\ ((c + 1) + j) + 1 = c + 2 + j
      BY <1>1
  <2>3. QED
      BY <1>1, <2>2
<1>5. loadModules(m) = loadModule(m, c + 1, address)
  <2>1. PICK v : v = Number(m[endOfKernelBinary])
      OBVIOUS
  <2>2. v = 1 /\ v # 0
      BY <1>2, <2>1
  <2>3. loadModules(m) = loadModule(m, endOfKernelBinary + 1, ModuleAddress[1])
      BY <2>1, <2>2, Zenon DEF loadModules
  <2>4. QED
      BY <2>3
<1>6. PICK r : r = loadModules(m)
    OBVIOUS
<1>7. Takes(r, m, c + 1, address, l)
    BY <1>3, <1>5, <1>6, LoadModuleIs
<1>8. QED
    BY <1>4, <1>6, <1>7 DEF Takes, Placed

LEMMA TwoLoaded ==
    ASSUME NEW m, NEW image, NEW modules, NEW c \in Nat, NEW l \in Nat, NEW n \in Nat,
           Packs(image, modules, c, 2, l, n), c = endOfKernelBinary,
           NEW size \in Nat, size = Len(image),
           \A a \in 0..(size - 1) : a \in DOMAIN m /\ m[a] = image[a + 1],
           NEW address \in Nat, address = ModuleAddress[1], NEW behind \in Nat, behind = ModuleAddress[2],
           size <= address, address + l <= behind
    PROVE  /\ Placed(loadModules(m), modules[1], address, l)
           /\ Placed(loadModules(m), modules[2], behind, n)
<1>1. /\ size = c + 3 + l + n /\ image[c + 1] = uint32(2) /\ image[c + 2] = uint32(l)
      /\ \A j \in 1..l : image[c + 2 + j] = modules[1][j]
      /\ image[c + 3 + l] = uint32(n) /\ \A j \in 1..n : image[c + 3 + l + j] = modules[2][j]
    BY DEF Packs
<1>2. Number(m[c]) = 2
  <2>1. c \in 0..(size - 1)
      BY <1>1
  <2>2. QED
      BY <1>1, <2>1, NumberIs
<1>3. Number(m[c + 1]) = l
  <2>1. c + 1 \in 0..(size - 1) /\ (c + 1) + 1 = c + 2
      BY <1>1
  <2>2. QED
      BY <1>1, <2>1, NumberIs
<1>4. \A j \in 1..l : m[(c + 1) + j] = modules[1][j]
  <2>1. TAKE j \in 1..l
  <2>2. (c + 1) + j \in 0..(size - 1) /\ ((c + 1) + j) + 1 = c + 2 + j
      BY <1>1
  <2>3. QED
      BY <1>1, <2>2
<1>5. PICK at, first, r : /\ at = c + 1 + 1 + l /\ first = loadModule(m, c + 1, address)
                          /\ r = loadModules(m)
    OBVIOUS
<1>6. at \in Nat /\ at = c + 2 + l /\ at < address /\ at \in 0..(size - 1) /\ at + 1 = c + 3 + l
    BY <1>1, <1>5
<1>7. r = loadModule(first, at, behind)
  <2>1. PICK v : v = Number(m[endOfKernelBinary])
      OBVIOUS
  <2>2. v # 0 /\ v # 1
      BY <1>2, <2>1
  <2>3. loadModules(m) = loadModule(loadModule(m, endOfKernelBinary + 1, ModuleAddress[1]),
                                    endOfKernelBinary + 1 + 1 + Number(m[endOfKernelBinary + 1]),
                                    ModuleAddress[2])
      BY <2>1, <2>2, Zenon DEF loadModules
  <2>4. QED
      BY <1>3, <1>5, <2>3
<1>8. Takes(first, m, c + 1, address, l)
    BY <1>3, <1>5, LoadModuleIs
<1>9. \A a \in 0..(size - 1) : a \in DOMAIN first /\ first[a] = image[a + 1]
  <2>1. \A a \in 0..(size - 1) : a \in Nat /\ a < address
      OBVIOUS
  <2>2. QED
      BY <1>8, <2>1 DEF Takes
<1>10. Number(first[at]) = n
    BY <1>1, <1>6, <1>9, NumberIs
<1>11. Takes(r, first, at, behind, n)
    BY <1>6, <1>7, <1>10, LoadModuleIs
<1>12. Placed(r, modules[1], address, l)
  <2>1. SUFFICES ASSUME NEW j \in 1..l
                 PROVE  address + j - 1 \in DOMAIN r /\ r[address + j - 1] = modules[1][j]
      BY DEF Placed
  <2>2. PICK a : a = address + j - 1
      OBVIOUS
  <2>3. a \in Nat /\ a < behind
      BY <2>2
  <2>4. a \in DOMAIN first /\ first[a] = modules[1][j]
      BY <1>4, <1>8, <2>2 DEF Takes
  <2>5. a \in DOMAIN r /\ r[a] = first[a]
      BY <1>11, <2>3, <2>4 DEF Takes
  <2>6. QED
      BY <2>2, <2>4, <2>5
<1>13. Placed(r, modules[2], behind, n)
  <2>1. SUFFICES ASSUME NEW j \in 1..n
                 PROVE  behind + j - 1 \in DOMAIN r /\ r[behind + j - 1] = modules[2][j]
      BY DEF Placed
  <2>2. at + j \in 0..(size - 1) /\ (at + j) + 1 = c + 3 + l + j
      BY <1>1, <1>6
  <2>3. first[at + j] = modules[2][j]
      BY <1>1, <1>9, <2>2
  <2>4. QED
      BY <1>11, <2>3 DEF Takes
<1>14. QED
    BY <1>5, <1>12, <1>13

\* Clearing the BSS leaves what lies behind it.
LEMMA StaysPlaced ==
    ASSUME NEW m, NEW c \in Nat, c = endOfKernelBinary, NEW module, NEW address \in Nat, NEW n \in Nat,
           c + BSS <= address, Placed(m, module, address, n)
    PROVE  Placed(clearBSS(m), module, address, n)
<1>1. PICK r : r = clearBSS(m)
    OBVIOUS
<1>2. \A a \in Nat : a \in DOMAIN m /\ c + BSS <= a => a \in DOMAIN r /\ r[a] = m[a]
    BY <1>1, ClearBSSIs
<1>3. ASSUME NEW j \in 1..n
      PROVE  address + j - 1 \in DOMAIN r /\ r[address + j - 1] = module[j]
  <2>1. PICK a : a = address + j - 1
      OBVIOUS
  <2>2. a \in Nat /\ c + BSS <= a
      BY <2>1, ImageAssumption
  <2>3. a \in DOMAIN m /\ m[a] = module[j]
      BY <2>1 DEF Placed
  <2>4. QED
      BY <1>2, <2>1, <2>2, <2>3
<1>4. QED
    BY <1>1, <1>3 DEF Placed

\* Every module is at its address.
AllPlaced(memory, modules) ==
    \A i \in DOMAIN modules : \A j \in DOMAIN modules[i] :
        /\ ModuleAddress[i] + j - 1 \in DOMAIN memory
        /\ memory[ModuleAddress[i] + j - 1] = modules[i][j]

LEMMA MemoryIs ==
    ASSUME Typed, SystemInv, LayoutFits, built # None, LoaderReads, SystemThere,
           NEW modules \in Modules, built.system = BootLoader \o buildImage(modules)
    PROVE  AllPlaced(initializeKernelBinary(LoadKernel), modules)
<1>1. PICK image, c, size, m, address, behind :
        /\ image = buildImage(modules) /\ c = Len(KernelBinary) /\ size = Len(image)
        /\ m = LoadKernel /\ address = ModuleAddress[1] /\ behind = ModuleAddress[2]
    OBVIOUS
<1>2. PICK k, l, n : Packs(image, modules, c, k, l, n)
    BY <1>1, ImageIs
<1>3. /\ IsContent(image) /\ c \in Nat /\ k \in 1..2 /\ l \in Nat /\ n \in Nat /\ DOMAIN modules = 1..k
      /\ Len(modules[1]) = l /\ (k = 2 => Len(modules[2]) = n)
    BY <1>2 DEF Packs
<1>4. size \in Nat /\ address \in Nat /\ behind \in Nat /\ c = endOfKernelBinary
    BY <1>1, <1>3, ContentIs, ImageAssumption DEF endOfKernelBinary
<1>5. \A a \in 0..(size - 1) : a \in DOMAIN m /\ m[a] = image[a + 1]
    BY <1>1, <1>3, <1>4, KernelRead DEF SystemInv, Built
<1>6. /\ \A i \in 1..k : IsContent(modules[i])
      /\ Len(modules) = k
  <2>1. modules \in Seq(Range(modules)) /\ \A i \in DOMAIN modules : modules[i] \in Seq(Range(modules[i]))
      BY ImageAssumption
  <2>2. DOMAIN modules = 1..Len(modules) /\ Len(modules) \in Nat
      BY <2>1
  <2>3. QED
      BY <1>3, <2>1, <2>2 DEF IsContent
<1>7. size <= address /\ c + BSS <= address /\ (k = 2 => address + l <= behind)
    BY <1>1, <1>3, <1>6 DEF LayoutFits
<1>8. DOMAIN modules[1] = 1..l /\ (k = 2 => DOMAIN modules[2] = 1..n)
  <2>1. 1 \in 1..k /\ (k = 2 => 2 \in 1..k)
      BY <1>3
  <2>2. QED
      BY <1>3, <1>6, <2>1, ContentIs
<1>9. PICK memory, loaded : loaded = loadModules(m) /\ memory = clearBSS(loaded)
    OBVIOUS
<1>10. memory = initializeKernelBinary(LoadKernel)
    BY <1>1, <1>9 DEF initializeKernelBinary
<1>11. CASE k = 1
  <2>1. Packs(image, modules, c, 1, l, n)
      BY <1>2, <1>11
  <2>2. Placed(loaded, modules[1], address, l)
    <3>1. size = Len(image) /\ address = ModuleAddress[1]
        BY <1>1
    <3>2. c \in Nat /\ l \in Nat /\ size \in Nat /\ address \in Nat /\ c = endOfKernelBinary
        BY <1>3, <1>4
    <3>3. Placed(loadModules(m), modules[1], address, l)
        BY <1>5, <2>1, <3>1, <3>2, OneLoaded
    <3>4. QED
        BY <1>9, <3>3
  <2>3. Placed(memory, modules[1], address, l)
      BY <1>3, <1>4, <1>7, <1>9, <2>2, StaysPlaced
  <2>4. DOMAIN modules = {1}
      BY <1>3, <1>11
  <2>5. QED
      BY <1>1, <1>8, <1>10, <2>3, <2>4 DEF Placed, AllPlaced
<1>12. CASE k = 2
  <2>1. Packs(image, modules, c, 2, l, n)
      BY <1>2, <1>12
  <2>2. Placed(loaded, modules[1], address, l) /\ Placed(loaded, modules[2], behind, n)
      BY <1>1, <1>3, <1>4, <1>5, <1>7, <1>9, <1>12, <2>1, TwoLoaded
  <2>3. c + BSS <= behind
      BY <1>3, <1>4, <1>7, <1>12, ImageAssumption
  <2>4. Placed(memory, modules[1], address, l) /\ Placed(memory, modules[2], behind, n)
      BY <1>3, <1>4, <1>7, <1>9, <2>2, <2>3, StaysPlaced
  <2>5. DOMAIN modules = {1, 2}
      BY <1>3, <1>12
  <2>6. QED
      BY <1>1, <1>8, <1>10, <1>12, <2>4, <2>5 DEF Placed, AllPlaced
<1>13. QED
    BY <1>3, <1>11, <1>12

\* What ModulesLoaded says of the memory.
AllLoaded(memory) ==
    /\ \E modules \in Modules :
          /\ built.system = BootLoader \o buildImage(modules)
          /\ AllPlaced(memory, modules)
    /\ \A a \in endOfKernelBinary..(endOfKernelBinary + BSS - 1) : memory[a] = Zero

\* Whatever was packed and put on the disk: a machine that is started from it has the
\* modules at their addresses, whole and in order, and a clear BSS, if the addresses
\* leave the room for them and what was put on the disk is no longer than what the
\* boot loader reads.
THEOREM ModulesAreLoaded ==
    ASSUME LayoutFits
    PROVE  Spec => []ModulesLoaded
<1>1. Typed /\ SystemInv => ModulesLoaded
  <2>1. SUFFICES ASSUME Typed, SystemInv, built # None,
                        Len(built.system) > Len(BootLoader), LoaderReads, SystemThere
                 PROVE  AllLoaded(initializeKernelBinary(LoadKernel))
      BY DEF ModulesLoaded, AllLoaded, AllPlaced
  <2>2. PICK modules \in Modules : built.system = BootLoader \o buildImage(modules)
      BY <2>1 DEF SystemInv, Built
  <2>3. AllPlaced(initializeKernelBinary(LoadKernel), modules)
      BY <2>1, <2>2, MemoryIs
  <2>4. PICK c, m : c = endOfKernelBinary /\ m = loadModules(LoadKernel)
      OBVIOUS
  <2>5. c \in Nat
      BY <2>4, ImageAssumption, ContentIs DEF endOfKernelBinary, IsContent
  <2>6. \A a \in c..(c + BSS - 1) : clearBSS(m)[a] = Zero
      BY <2>4, <2>5, ClearBSSIs
  <2>7. PICK memory : memory = initializeKernelBinary(LoadKernel)
      OBVIOUS
  <2>8. \A a \in c..(c + BSS - 1) : memory[a] = Zero
      BY <2>4, <2>6, <2>7 DEF initializeKernelBinary
  <2>9. QED
      BY <2>2, <2>3, <2>4, <2>7, <2>8 DEF AllLoaded
<1>2. QED
    BY <1>1, FilesParted, SystemKnown, PTL

=============================================================================
