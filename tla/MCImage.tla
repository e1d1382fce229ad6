------------------------------ MODULE MCImage ------------------------------
(* Image with a kernel of one cell, modules of one or two, and three files: a   *)
(* packed kernel with one module fits into block 0, one with two does not.    *)
EXTENDS Image

MCKernel == <<<<"kernel", 1>>>>
MCBoot == <<<<"boot", 1>>>>
MCUserland == <<<<"userland", 1>>>>
MCData == <<<<"data", 1>>, <<"data", 2>>>>
MCModules == {<<MCUserland>>, <<MCData, MCUserland>>}
MCAddress == <<40, 44>>

ASSUME MCLayoutFits == LayoutFits

\* A size of five blocks; one that is too large for the machine, one that is
\* too small, and two that are no sizes.
MCSizes == {[digits |-> <<1, 5>>, rest |-> <<"K">>], [digits |-> <<7, 5>>, rest |-> <<>>],
            [digits |-> <<9>>, rest |-> <<>>], [digits |-> <<>>, rest |-> <<"K">>],
            [digits |-> <<4>>, rest |-> <<"K", "K">>]}

\* A file of a buffer, one of two buffers that needs two blocks, and none.
MCContents == {[f |-> <<<<"text", 1>>>>, g |-> [i \in 1..7 |-> <<"text", 2>>], h |-> None]}

\* The kernel is packed before the disk is made, and a file of the disk is only
\* read back when it holds something.
MCNext ==
    /\ Next
    /\ local'["kernel"] # local["kernel"] => diskSize = 0
    /\ \A f \in Files : local'[f] # <<>>

MCSpec == Init /\ [][MCNext]_bmfsVars

\* What happens after create took blocks that are in use is left out; and beside
\* two modules, whose image reaches into the first file, one file is enough.
Bounded ==
    /\ ~careless
    /\ local["kernel"] = buildImage(<<MCData, MCUserland>>) => Cardinality(LiveSlots) <= 1

=============================================================================
