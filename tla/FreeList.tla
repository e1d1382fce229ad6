------------------------------ MODULE FreeList ------------------------------
(***************************************************************************)
(* The first-fit allocator of freeListMemoryManager.c, the one of the       *)
(* default build, over a memory of Total units of sizeof(MMNode) each.      *)
(*                                                                          *)
(* A header is one unit; a cell without a header holds the data of whoever  *)
(* was given it, or nothing yet.  Headers are only forgotten when the owner *)
(* of their cell writes over them: freeMemory merges nodes but leaves the   *)
(* header of the absorbed one, and the `prev` links that lead to it, behind.*)
(***************************************************************************)
EXTENDS Naturals, SequencesExt

CONSTANTS Total,      \* size of the memory
          BlockSize,  \* blockSize of genericAllocMemory
          Requests,   \* the sizes that are asked for
          MaxLive,    \* bound: blocks allocated at a time
          Null,       \* the NULL pointer
          Data        \* what a cell without a header holds

ASSUME SizesAssumption == /\ Total \in Nat /\ Total > 2
                          /\ BlockSize \in Nat \ {0}
                          /\ Requests \subseteq Nat /\ MaxLive \in Nat
ASSUME NullAssumption == Null \notin Nat

VARIABLES mem,        \* the cells: headers and data
          live,       \* the blocks given out, in the order of their allocation
          strayed     \* freeMemory took data for a header

vars == <<mem, live, strayed>>

Addresses == 0..(Total - 1)

MMNodes == [next : Addresses \cup {Null}, prev : Addresses \cup {Null},
            memSize : Nat, isFree : BOOLEAN]

ASSUME DataAssumption == Data \notin MMNodes

Root == 0             \* freeList.head

TypeOK ==
    /\ mem \in [Addresses -> MMNodes \cup {Data}]
    /\ live \in Seq([addr : Addresses, size : Nat])
    /\ strayed \in BOOLEAN

IsHeader(a) == a \in Addresses /\ mem[a] # Data

\* initMemory.
Init ==
    /\ mem = [a \in Addresses |->
                CASE a = Root     -> [next |-> 1, prev |-> Null, memSize |-> 0, isFree |-> FALSE]
                  [] a = Root + 1 -> [next |-> Null, prev |-> Root, memSize |-> Total - 2,
                                      isFree |-> TRUE]
                  [] OTHER        -> Data]
    /\ live = <<>> /\ strayed = FALSE

-----------------------------------------------------------------------------
(* The list.                                                                *)

\* The node `n` links behind the root; Null behind the last one.
Link[n \in 0..Total] ==
    IF n = 0 THEN mem[Root].next
    ELSE LET before == Link[n - 1]
         IN  IF IsHeader(before) THEN mem[before].next ELSE Null

Linked == {Link[n] : n \in 0..Total} \ {Null}

\* blocksToAllocate: rounded up to whole blocks, header included.  (As % binds
\* tighter than + the test for whole blocks never holds: a request that fills
\* whole blocks gets one more.)
BlocksFor(request) == ((1 + request) \div BlockSize) * BlockSize + BlockSize

\* Mutant: a node is taken whether it is free or not.
FitsUsed(a, size) == mem[a].memSize >= size

Fits(a, size) == mem[a].isFree /\ mem[a].memSize >= size

\* The first node of the list that fits.
FirstFit(size) ==
    LET fitting == {n \in 0..Total : Link[n] # Null /\ Fits(Link[n], size)}
    IN  IF fitting = {} THEN Null
        ELSE Link[CHOOSE n \in fitting : \A m \in fitting : n <= m]

\* The node is cut in two if it is larger.  The node behind the new one keeps
\* its `prev`.
Split(m, a, size) ==
    IF m[a].memSize = size THEN [m EXCEPT ![a].isFree = FALSE]
    ELSE [m EXCEPT
            ![a] = [@ EXCEPT !.next = a + size, !.memSize = size - 1, !.isFree = FALSE],
            ![a + size] = [next |-> m[a].next, prev |-> a,
                           memSize |-> m[a].memSize - size, isFree |-> TRUE]]

\* The owner of the block writes to all of it, or to nothing.
Written(m, a) ==
    [b \in Addresses |-> IF b > a /\ b <= a + m[a].memSize THEN Data ELSE m[b]]

\* genericAllocMemory.
alloc(request) ==
    LET a == FirstFit(BlocksFor(request))
    IN  \/ /\ a # Null
           /\ Len(live) < MaxLive
           /\ LET m == Split(mem, a, BlocksFor(request))
              IN  /\ mem' \in {m, Written(m, a)}
                  /\ live' = Append(live, [addr |-> a, size |-> m[a].memSize])
           /\ UNCHANGED strayed
        \/ /\ a = Null
           /\ UNCHANGED <<mem, live, strayed>>

\* Mutant: a node is not merged with the one behind it.
MergeNextNever(m, a) == m

\* The node behind is merged into `a` if it is free.
MergeNext(m, a) ==
    LET next == m[a].next
    IN  IF next # Null /\ m[next].isFree
        THEN [m EXCEPT ![a] = [@ EXCEPT !.memSize = m[a].memSize + m[next].memSize + 1,
                                        !.next = m[next].next]]
        ELSE m

\* Mutant: the link of the node in front is forgotten.
MergePrevUnlinked(m, a) ==
    LET prev == m[a].prev
    IN  IF prev # Null /\ m[prev].isFree
        THEN [m EXCEPT ![prev] = [@ EXCEPT !.memSize = @ + m[a].memSize + 1]]
        ELSE m

\* `a` is merged into the node that its `prev` leads to if that one is free.
MergePrev(m, a) ==
    LET prev == m[a].prev
    IN  IF prev # Null /\ m[prev].isFree
        THEN [m EXCEPT ![prev] = [@ EXCEPT !.memSize = m[prev].memSize + m[a].memSize + 1,
                                           !.next = m[a].next]]
        ELSE m

\* genericFreeMemory of the block at `a`.
Freed(m, a) == MergePrev(MergeNext([m EXCEPT ![a].isFree = TRUE], a), a)

\* It looks at the node behind and at the one in front.  If one of the two is
\* not a header any more the outcome depends on the data, and the model ends.
GiveBack(m, a) ==
    IF \A b \in {m[a].next, m[a].prev} \ {Null} : m[b] # Data
    THEN mem' = Freed(m, a) /\ UNCHANGED strayed
    ELSE mem' = m /\ strayed' = TRUE

\* freeMemory of the i-th block.
free(i) ==
    /\ GiveBack(mem, live[i].addr)
    /\ live' = RemoveAt(live, i)

\* reAllocMemory: a larger block gets the contents, the old one is given back,
\* also when there is no larger one.
realloc(i, request) ==
    LET a == live[i].addr
        b == FirstFit(BlocksFor(request))
    IN  \/ /\ mem[a].memSize >= request
           /\ UNCHANGED <<mem, live, strayed>>
        \/ /\ mem[a].memSize < request
           /\ b # Null
           /\ LET m == Split(mem, b, BlocksFor(request))
              IN  /\ GiveBack(Written(m, b), a)
                  /\ live' = Append(RemoveAt(live, i), [addr |-> b, size |-> m[b].memSize])
        \/ /\ mem[a].memSize < request
           /\ b = Null
           /\ GiveBack(mem, a)
           /\ live' = RemoveAt(live, i)

\* Past the first header that is lost nothing is modelled.
Intact ==
    /\ ~strayed
    /\ \A a \in Linked \cup {live[i].addr : i \in DOMAIN live} : IsHeader(a)

Next ==
    /\ Intact
    /\ \/ \E request \in Requests : alloc(request)
       \/ \E i \in DOMAIN live :
             \/ free(i)
             \/ \E request \in Requests : realloc(i, request)

Spec == Init /\ [][Next]_vars

-----------------------------------------------------------------------------
(* Properties.                                                              *)

Cells(block) == block.addr..(block.addr + block.size)

\* test_mm.c:56-57 reports "test_mm ERROR" when the contents of a block have
\* changed under its owner: no two blocks that are given out share a cell.
AllocatedDisjoint ==
    \A i, j \in DOMAIN live : i # j => Cells(live[i]) \cap Cells(live[j]) = {}

\* The headers of the list and of the blocks given out survive (no owner of a
\* block writes over one, and freeMemory never takes data for one), and the nodes
\* of the list cover the memory without gap or overlap, in order.
ListCoversMemory ==
    /\ TypeOK /\ Intact
    /\ \A a \in Linked \cup {Root} :
        mem[a].next = IF a + 1 + mem[a].memSize = Total THEN Null
                      ELSE a + 1 + mem[a].memSize

\* When everything has been given back the memory is one free node again.
AllMerged == live = <<>> => mem[Root + 1].memSize = Total - 2 /\ mem[Root + 1].next = Null

=============================================================================
