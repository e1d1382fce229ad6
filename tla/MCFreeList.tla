----------------------------- MODULE MCFreeList -----------------------------
(* FreeList with blocks that are given back in the order of a stack.          *)
EXTENDS FreeList

\* The last block is the first one to be given back or to grow.  It may grow only
\* while its `prev` leads to a node in use: a block that has moved leaves a free
\* node in front of it, and once it has moved a second time the node behind may
\* keep a `prev` into the middle of a merged node.
StackNext ==
    /\ Intact
    /\ \/ \E request \in Requests : alloc(request)
       \/ /\ live # <<>>
          /\ \/ free(Len(live))
             \/ /\ ~mem[mem[live[Len(live)].addr].prev].isFree
                /\ \E request \in Requests : realloc(Len(live), request)

StackSpec == Init /\ [][StackNext]_vars

=============================================================================
