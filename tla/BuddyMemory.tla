----------------------------- MODULE BuddyMemory -----------------------------
(***************************************************************************)
(* The allocator of buddyMemoryManager.c (the `buddy` build), as operators  *)
(* on a memory of Total cells of sizeof(MemNode) bytes each.                *)
(*                                                                          *)
(* A node is a header in the cell at its address and the `size` cells       *)
(* behind it; its two descendants lie in those cells, headers included.     *)
(* Headers are never taken away: a cell keeps one until the owner of a      *)
(* block writes over it, and a node that is made again at an old place      *)
(* finds the links that it, or the owner of the block, left there.          *)
(***************************************************************************)
EXTENDS Integers

CONSTANTS Total,   \* size of the memory
          BLOCK,   \* the smallest block
          Null,    \* the NULL pointer
          Clear,   \* what a cell holds that was never written
          Data,    \* what the owner of a block writes
          Wild     \* a pointer that some owner wrote: where it leads is not followed

ASSUME MemoryAssumption == Total \in Nat /\ Total > 1 /\ BLOCK \in Nat \ {0}

Addresses == 0..(Total - 1)

Root == 0

Status == {"EMPTY", "PARTIAL", "FULL"}

MemNodes == [left : Addresses \cup {Null, Wild}, right : Addresses \cup {Null, Wild},
             size : Nat, status : Status]

\* The header of a process's allocation (scheduler.c), in the first cell of it: its
\* `allocation`, which is not NULL, and `next` lie where a node has `right` and `left`.
ProcessAllocations == [next : Addresses \cup {Null}]

IsNode(m, n) == n \in Addresses /\ m[n] \in MemNodes

\* initMemory.
initMemory ==
    [a \in Addresses |->
        IF a = Root THEN [left |-> Null, right |-> Null, size |-> Total - 1, status |-> "EMPTY"]
        ELSE Clear]

\* IS_POWER_OF_2, align: the next power of two.
align(size) ==
    LET powers == {p \in 1..(2 * size) : \E k \in 0..size : p = 2^k}
    IN  CHOOSE p \in powers : p >= size /\ \A q \in powers : q >= size => p <= q

-----------------------------------------------------------------------------

\* Mutant: a node that is full stays full.
endRecursiveFull(m, n) ==
    LET below == {m[m[n].left].status, m[m[n].right].status}
    IN  [m EXCEPT ![n].status =
            CASE m[n].left = Null \/ m[n].right = Null -> "EMPTY"
              [] OTHER -> CASE below = {"FULL"} \/ @ = "FULL" -> "FULL"
                            [] below = {"EMPTY"} -> "EMPTY"
                            [] OTHER             -> "PARTIAL"]

\* endRecursiveCall: the status of a node from those of its descendants.
endRecursiveCall(m, n) ==
    LET below == {m[m[n].left].status, m[m[n].right].status}
    IN  [m EXCEPT ![n].status =
            CASE m[n].left = Null \/ m[n].right = Null -> "EMPTY"
              [] OTHER -> CASE below = {"FULL"}  -> "FULL"
                            [] below = {"EMPTY"} -> "EMPTY"
                            [] OTHER             -> "PARTIAL"]

\* A header with a size and a status of its own.  Its links are what the cell has in
\* their place: nothing, those of an earlier node, or what an owner wrote.
Header(cell, size) ==
    LET Linked(left, right) ==
            [left |-> left, right |-> right, size |-> size, status |-> "EMPTY"]
    IN  CASE cell = Clear -> Linked(Null, Null)
          [] cell = Data -> Linked(Wild, Wild)
          [] cell \in MemNodes -> Linked(cell.left, cell.right)
          [] OTHER -> Linked(IF cell.next = Null THEN Null ELSE Wild, Wild)

\* Where the descendants of `n` begin.
LeftOf(n) == n + 1
RightOf(m, n) == n + m[n].size \div 2 + 1

\* setDescendants.  (The tests for the end of the memory never hold: both
\* headers lie inside a node that is large enough for two blocks.)
setDescendants(m, n) ==
    LET half == m[n].size \div 2
    IN  [m EXCEPT ![n] = [@ EXCEPT !.left = LeftOf(n), !.right = RightOf(m, n)],
                  ![LeftOf(n)]     = Header(@, half - 1),
                  ![RightOf(m, n)] = Header(@, half - 1)]

RECURSIVE genericAllocMemoryRec(_, _, _)

\* The first node from the left that fits is cut in halves until it fits no
\* better.  Yields the memory, and the block, Null, or Wild when the search goes on
\* where an owner's pointer leads.
genericAllocMemoryRec(m, n, size) ==
    LET Ended(found) == IF found.block = Wild THEN found
                        ELSE [found EXCEPT !.mem = endRecursiveCall(@, n)]
        none == [mem |-> m, block |-> Null]
        links == {m[n].left, m[n].right}
    IN  CASE n = Null -> none
          [] n = Wild -> [none EXCEPT !.block = Wild]
          [] n \notin {Null, Wild} /\ m[n].status = "FULL" -> none
          [] n \notin {Null, Wild} /\ m[n].status # "FULL" /\ links # {Null} ->
               LET inLeft == genericAllocMemoryRec(m, m[n].left, size)
               IN  Ended(IF inLeft.block = Null
                         THEN genericAllocMemoryRec(inLeft.mem, m[n].right, size)
                         ELSE inLeft)
          [] OTHER ->
               CASE size > m[n].size -> none
                 [] m[n].size \div 2 >= size ->
                      Ended(genericAllocMemoryRec(setDescendants(m, n), LeftOf(n), size))
                 [] OTHER -> [mem |-> [m EXCEPT ![n].status = "FULL"], block |-> n + 1]

\* genericAllocMemory.
genericAllocMemory(m, size) ==
    IF size >= BLOCK /\ size > m[Root].size THEN [mem |-> m, block |-> Null]
    ELSE genericAllocMemoryRec(m, Root, align(IF size < BLOCK THEN BLOCK ELSE size))

RECURSIVE genericFreeRec(_, _, _)

\* Mutant: the descendants of a node that is empty again are kept.
ForgetNothing(m, n) == m

\* A node that is empty again has no descendants.
Forget(m, n) ==
    IF m[n].status = "EMPTY" THEN [m EXCEPT ![n] = [@ EXCEPT !.left = Null, !.right = Null]]
    ELSE m

\* The block lies in front of the second descendant.
goesLeft(m, n, block) == m[n].right # Null /\ m[n].right + 1 > block

\* genericFreeRec: down by the address, and up again.  What is not the block of
\* a full node is left alone.
genericFreeRec(m, n, block) ==
    IF n = Null THEN m
    ELSE IF m[n].left # Null \/ m[n].right # Null
    THEN LET next == IF goesLeft(m, n, block) THEN m[n].left ELSE m[n].right
         IN  Forget(endRecursiveCall(genericFreeRec(m, next, block), n), n)
    ELSE IF m[n].status = "FULL" /\ n + 1 = block THEN [m EXCEPT ![n].status = "EMPTY"]
    ELSE m

allocMemory(m, size) == genericAllocMemory(m, size)

freeMemory(m, block) == genericFreeRec(m, Root, block)

\* reAllocMemory: a larger block if need be; the old one is not given back.  (Wild:
\* the size is read from data.)
reAllocMemory(m, block, size) ==
    IF ~IsNode(m, block - 1) THEN [mem |-> m, block |-> Wild]
    ELSE IF m[block - 1].size >= size THEN [mem |-> m, block |-> block]
    ELSE allocMemory(m, size)

=============================================================================
