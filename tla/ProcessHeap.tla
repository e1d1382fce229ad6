----------------------------- MODULE ProcessHeap -----------------------------
(***************************************************************************)
(* The heap of the processes: malloc, free and realloc of scheduler.c, over *)
(* the allocator of the `buddy` build.  A process keeps its allocations in  *)
(* a list that is linked through the allocations themselves; fork copies    *)
(* the head of the list, and the death of a process gives back all of it    *)
(* and the stack.                                                           *)
(*                                                                          *)
(* The owner of a block writes to all of it when it gets it.  A process may *)
(* have used so much of its stack that the whole block is written.          *)
(***************************************************************************)
EXTENDS BuddyMemory, FiniteSets, SequencesExt

CONSTANTS Procs,     \* the processes
          init,      \* the one that never dies
          Requests,  \* the sizes that are asked for, header included
          StackSize, \* DEFAULT_PROCESS_STACK_SIZE
          MaxHeld    \* bound: blocks held, or left behind, in a state that goes on

ASSUME HeapAssumption == /\ init \in Procs
                         /\ Requests \subseteq Nat /\ StackSize \in Nat /\ MaxHeld \in Nat

VARIABLES mem,         \* the memory
          stacks,      \* the memoryFromMM of the processes that exist, and of idle
          firstAlloc,  \* the head of the list of each process
          held,        \* the blocks a process was given and has not given back
          moved,       \* blocks that realloc replaced, or unlinked
          mixed,       \* a head is out of date, or two processes have one list
          halted       \* a handler does not return, goes on in memory that somebody
                       \* else writes, or ends in a page fault, which stops the machine

vars == <<mem, stacks, firstAlloc, held, moved, mixed, halted>>

idle == "idle"

Alive == DOMAIN stacks \ {idle}

TypeOK ==
    /\ mem \in [Addresses -> MemNodes \cup ProcessAllocations \cup {Clear, Data}]
    /\ {init, idle} \subseteq DOMAIN stacks /\ DOMAIN stacks \subseteq Procs \cup {idle}
    /\ \A p \in DOMAIN stacks : stacks[p] \in Addresses
    /\ firstAlloc \in [Procs -> Addresses \cup {Null}]
    /\ held \in [Procs -> SUBSET Addresses]
    /\ moved \subseteq Addresses /\ mixed \in BOOLEAN /\ halted \in BOOLEAN

\* The block with what its owner wrote to it: `first` in the first cell.
Written(m, block, first) ==
    [a \in Addresses |-> IF a = block THEN first
                         ELSE IF a > block /\ a < block + m[block - 1].size THEN Data
                         ELSE m[a]]

\* A stack that was used to the end, or not as far as the cells that the
\* headers of the descendants of its node would be in.
StackUses(m, block) == {m, Written(m, block, Data)}

Init ==
    LET forInit == allocMemory(initMemory, StackSize)
        forIdle == allocMemory(forInit.mem, StackSize)
    IN  /\ mem = forIdle.mem
        /\ stacks = (init :> forInit.block @@ idle :> forIdle.block)
        /\ firstAlloc = [p \in Procs |-> Null]
        /\ held = [p \in Procs |-> {}]
        /\ moved = {} /\ mixed = FALSE /\ halted = FALSE

RECURSIVE ListFrom(_, _, _)

\* The allocations that are linked from `a` on, and where the walk ends: at
\* Null, at an allocation it has met before, or at something else.
ListFrom(m, a, walked) ==
    IF a = Null \/ a \in Range(walked) \/ m[a] \notin ProcessAllocations
    THEN [walked |-> walked, end |-> a]
    ELSE ListFrom(m, m[a].next, Append(walked, a))

Halt(m) ==
    /\ halted' = TRUE /\ mem' = m
    /\ UNCHANGED <<stacks, firstAlloc, held, moved, mixed>>

Refused(m) == mem' = m /\ UNCHANGED <<stacks, firstAlloc, held, moved, mixed, halted>>

-----------------------------------------------------------------------------

\* Mutant: the link of a new allocation is what the memory had there.
NewAllocationUnset(m, block) ==
    Written(m, block, IF m[block] \in ProcessAllocations THEN m[block] ELSE [next |-> Null])

\* The header of a new allocation.
NewAllocation(m, block) == Written(m, block, [next |-> Null])

\* sysMalloc: the allocation is linked behind the last one of the list.
sysMalloc(p, size) ==
    LET got == allocMemory(mem, size)
        m == NewAllocation(got.mem, got.block)
        list == ListFrom(m, firstAlloc[p], <<>>)
    IN  \/ got.block = Wild /\ Halt(got.mem)
        \/ got.block = Null /\ Refused(got.mem)
        \/ /\ got.block \notin {Wild, Null}
           /\ firstAlloc[p] # Null /\ list.end # Null
           /\ Halt(m)
        \/ /\ got.block \notin {Wild, Null}
           /\ firstAlloc[p] # Null => list.end = Null
           /\ IF firstAlloc[p] = Null
              THEN mem' = m /\ firstAlloc' = [firstAlloc EXCEPT ![p] = got.block]
              ELSE /\ mem' = [m EXCEPT ![Last(list.walked)].next = got.block]
                   /\ UNCHANGED firstAlloc
           /\ held' = [held EXCEPT ![p] = @ \cup {got.block}]
           /\ UNCHANGED <<stacks, moved, mixed, halted>>

\* The allocation that leads to `block` in the list; Null if it is the first.
PreviousOf(walked, block) ==
    LET i == CHOOSE i \in DOMAIN walked : walked[i] = block
    IN  IF i = 1 THEN Null ELSE walked[i - 1]

\* The list without `block`.  The head stays as it is.
Unlinked(m, previous, block) ==
    IF previous = Null THEN m ELSE [m EXCEPT ![previous].next = m[block].next]

\* sysFree.
sysFree(p, block) ==
    LET list == ListFrom(mem, firstAlloc[p], <<>>)
        previous == PreviousOf(list.walked, block)
    IN  \/ /\ block \notin Range(list.walked) /\ list.end # Null
           /\ Halt(mem)
        \/ /\ block \notin Range(list.walked) /\ list.end = Null
           /\ Refused(mem)
        \/ /\ block \in Range(list.walked)
           /\ mem' = freeMemory(Unlinked(mem, previous, block), block)
           /\ held' = [held EXCEPT ![p] = @ \ {block}]
           /\ mixed' = (mixed \/ previous = Null)
           /\ UNCHANGED <<stacks, firstAlloc, moved, halted>>

\* freeAllocations.
freeAllocations(m, list) == FoldLeft(freeMemory, m, list.walked)

\* deleteProcess, in memory m and leaving the blocks in `lost` behind.
deleteProcess(p, m, lost) ==
    LET list == ListFrom(m, firstAlloc[p], <<>>)
        given == freeAllocations(m, list)
    IN  /\ p # init
        /\ \/ list.end # Null /\ Halt(given)
           \/ /\ list.end = Null
              /\ mem' = freeMemory(given, stacks[p])
              /\ stacks' = [q \in DOMAIN stacks \ {p} |-> stacks[q]]
              /\ firstAlloc' = [firstAlloc EXCEPT ![p] = Null]
              /\ held' = [held EXCEPT ![p] = {}]
              /\ moved' = moved \cup lost
              /\ UNCHANGED <<mixed, halted>>

\* The link in front of a block that has moved.
Relinked(m, previous, block) ==
    IF previous = Null THEN m ELSE [m EXCEPT ![previous].next = block]

\* copyBlocks reads the sizes of the blocks through two pointers that have no value:
\* it copies some of the old block or nothing, or copies on behind the new block (or,
\* when there is none, over the interrupt table at address 0), or faults.  A pointer
\* that is no address at all is the exception that kills the process; any other
\* fault stops the machine.
copyBlocksFails(p, m, new) ==
    \/ Halt(m)
    \/ deleteProcess(p, m, {new} \ {Null})

\* sysRealloc.  The links are read before, and written after: by then the cell
\* of the previous allocation can be part of the larger block.  When there is no
\* larger block the old one is unlinked, though it is still in use; if it is the
\* first, that writes to address 8 and the list stays as it is.
sysRealloc(p, block, size) ==
    LET list == ListFrom(mem, firstAlloc[p], <<>>)
        found == block \in Range(list.walked)
        previous == PreviousOf(list.walked, block)
        got == reAllocMemory(mem, block, size)
        m == Written(got.mem, got.block, mem[block])
    IN  \/ ~found /\ list.end = Null /\ Refused(mem)
        \/ ~found /\ list.end # Null /\ Halt(mem)
        \/ found /\ got.block = block /\ Refused(mem)
        \/ found /\ got.block = Wild /\ Halt(got.mem)
        \/ found /\ got.block \notin {Wild, block} /\ copyBlocksFails(p, got.mem, got.block)
        \/ /\ found /\ got.block \notin {Wild, Null, block}
           /\ previous # Null => m[previous] \in ProcessAllocations
           /\ mem' = Relinked(m, previous, got.block)
           /\ held' = [held EXCEPT ![p] = (@ \ {block}) \cup {got.block}]
           /\ moved' = moved \cup {block}
           /\ mixed' = (mixed \/ previous = Null)
           /\ UNCHANGED <<stacks, firstAlloc, halted>>
        \/ /\ found /\ got.block = Null
           /\ mem' = Unlinked(got.mem, previous, block)
           /\ held' = [held EXCEPT ![p] = IF previous = Null THEN @ ELSE @ \ {block}]
           /\ moved' = IF previous = Null THEN moved ELSE moved \cup {block}
           /\ UNCHANGED <<stacks, firstAlloc, mixed, halted>>

-----------------------------------------------------------------------------

\* sysFork: the child gets a stack of its own and the list of its parent.
sysFork(p, child) ==
    LET got == allocMemory(mem, StackSize)
    IN  /\ child \notin Alive
        /\ \/ got.block = Wild /\ Halt(got.mem)
           \/ got.block = Null /\ Refused(got.mem)
           \/ /\ got.block \notin {Wild, Null}
              /\ mem' \in StackUses(got.mem, got.block)
              /\ stacks' = (child :> got.block) @@ stacks
              /\ firstAlloc' = [firstAlloc EXCEPT ![child] = firstAlloc[p]]
              /\ held' = [held EXCEPT ![child] = held[p]]
              /\ mixed' = (mixed \/ firstAlloc[p] # Null)
              /\ UNCHANGED <<moved, halted>>

\* What happens after a handler got lost is not modelled; the step on which it gets
\* lost is.
Next ==
    /\ ~halted
    /\ \E p \in Alive :
          \/ \E size \in Requests : sysMalloc(p, size)
          \/ \E block \in held[p] :
                \/ sysFree(p, block)
                \/ \E size \in Requests : sysRealloc(p, block, size)
          \/ \E child \in Procs : sysFork(p, child)
          \/ deleteProcess(p, mem, {})

Spec == Init /\ [][Next]_vars

\* Bound of the runs.
Bounded == Cardinality(moved \cup UNION {held[p] : p \in Procs}) <= MaxHeld

-----------------------------------------------------------------------------
(* Properties.                                                              *)

RECURSIVE Nodes(_)

\* The nodes that are reached from `n`.
Nodes(n) ==
    IF n \in {Null, Wild} THEN {} ELSE {n} \cup Nodes(mem[n].left) \cup Nodes(mem[n].right)

Cells(n) == n..(n + mem[n].size)

\* A header that a split laid over what the owner of an earlier block had written.
Inherits(n) == Wild \in {mem[n].left, mem[n].right}

\* Memory holds headers and data, and every node has two descendants, or none, that lie
\* in its cells without sharing one, and a node that is empty has none, so that it can
\* be given out whole: whatever the processes give back, in whatever order and however
\* often.  setDescendants does not clear the links of the headers it makes.  When a
\* block that was in use is cut up (malloc of a large block, free, malloc of a small
\* one) they are its owner's `allocation` and `next`, and the search follows them: that
\* step, and nothing else, breaks the tree.
TreeSound ==
    /\ TypeOK
    /\ \A n \in Nodes(Root) :
        LET l == mem[n].left
            r == mem[n].right
        IN  \/ l = Null /\ r = Null /\ mem[n].status # "PARTIAL"
            \/ /\ {l, r} \subseteq Nodes(Root)
               /\ Cells(l) \cup Cells(r) \subseteq Cells(n) \ {n}
               /\ Cells(l) \cap Cells(r) = {}
               /\ mem[n].status # "EMPTY" \/ \E d \in Nodes(n) : Inherits(d)
            \/ Inherits(n) /\ halted

\* malloc finds no room for the smallest block only when there is no node left
\* that is empty: a search that failed, or a block that went back, leaves none
\* below a node that passes for full.
FreeIsUsable ==
    allocMemory(mem, BLOCK).block = Null =>
        \A n \in Nodes(Root) : mem[n].left = Null => mem[n].status = "FULL"

\* The blocks in use are the stacks, what the processes hold and what realloc
\* left behind; no block has two owners.  What a process holds is in its list,
\* once: so its death gives back everything, and nothing of another process.
\* (free or realloc of the first block leaves a head that is out of date, and
\* fork gives two processes one list: from then on this fails.  It is not asked of the
\* middle of a handler that got lost.)
Owned(p) == held[p] \cup {stacks[p]}

OwnersKnown ==
    ~mixed /\ ~halted =>
        /\ \A p, q \in Alive : p # q => Owned(p) \cap Owned(q) = {}
        /\ \A p \in Alive :
              LET list == ListFrom(mem, firstAlloc[p], <<>>)
              IN  list.end = Null /\ Range(list.walked) = held[p]
        /\ {n + 1 : n \in {n \in Nodes(Root) : mem[n].left = Null /\ mem[n].status = "FULL"}}
              = UNION {Owned(p) : p \in Alive} \cup {stacks[idle]} \cup moved

=============================================================================
