----------------------------- MODULE IPCBuffers -----------------------------
(***************************************************************************)
(* The byte buffers of bufferManagement.c, behind the standard input and   *)
(* both ends of a pipe.                                                     *)
(*                                                                          *)
(* A buffer holds bufferDim bytes from index `cursor` on.  The cursor is    *)
(* never reset while the buffer lives, and a byte is stored at              *)
(* `cursor + bufferDim % BUFF_SIZE`, which is not taken modulo BUFF_SIZE as *)
(* a whole: once more than BUFF_SIZE bytes have gone through the buffer it  *)
(* stores past the end of the array.  `overrun` records that; what happens  *)
(* afterwards is undefined and not modelled.                                *)
(***************************************************************************)
EXTENDS Naturals, Sequences

CONSTANTS Procs,      \* processes
          Null,       \* the NULL pointer
          BuffSize,   \* BUFF_SIZE
          PdSize      \* PD_SIZE: references a buffer can record

ASSUME SizesAssumption == /\ BuffSize \in Nat \ {0}
                          /\ PdSize \in Nat \ {0}
                          /\ Null \notin Procs

EOF == 0              \* the byte '\0'; the others are positive

BufferStates == {"READ", "WRITE", "CLOSED"}

Buffers == [data       : Seq(Nat),     \* the bufferDim bytes from the cursor on
            cursor     : Nat,
            overrun    : BOOLEAN,
            state      : BufferStates,
            references : [1..PdSize -> Procs \cup {Null}]]

createEmptyBuffer(state) ==
    [data |-> <<>>, cursor |-> 0, overrun |-> FALSE, state |-> state,
     references |-> [i \in 1..PdSize |-> Null]]

Dim(b) == Len(b.data)

Least(m, n) == IF m <= n THEN m ELSE n

\* copyToBuffer, and writeBuffer on a buffer that may be written: a buffer with
\* one place left refuses, another one takes what fits; the rest is dropped.
copyToBuffer(b, bytes) ==
    LET n == Least(Len(bytes), BuffSize - Dim(b))
    IN  IF Dim(b) < BuffSize - 1
        THEN [b EXCEPT !.data    = @ \o SubSeq(bytes, 1, n),
                       !.overrun = @ \/ b.cursor + Dim(b) + n > BuffSize]
        ELSE b

Drop(b, n) == [b EXCEPT !.data = SubSeq(@, n + 1, Len(@)), !.cursor = @ + n]

copyFromBuffer(b) == Drop(b, Dim(b))

\* Mutant: the end of file stays in the buffer.
readLengthOnly(b, count) ==
    LET beforeEOF == {n \in 0..Dim(b) : \A i \in 1..n : b.data[i] # EOF}
        n == CHOOSE m \in beforeEOF : \A i \in beforeEOF : i <= m
    IN  [bytes |-> SubSeq(b.data, 1, Least(n, count)), rest |-> Drop(b, Least(n, count))]

\* Mutant: what the caller has no room for is thrown away.
readDroppingRest(b, count) ==
    [bytes |-> SubSeq(b.data, 1, Least(count, Dim(b))), rest |-> copyFromBuffer(b)]

\* readBuffer stops at an EOF; it takes the EOF away only if nothing but the
\* EOF was in the buffer.
readBuffer(b, count) ==
    LET beforeEOF == {n \in 0..Dim(b) : \A i \in 1..n : b.data[i] # EOF}
        most == CHOOSE m \in beforeEOF : \A i \in beforeEOF : i <= m
        n == Least(most, count)
    IN  IF b.data = <<EOF>> THEN [bytes |-> <<>>, rest |-> Drop(b, 1)]
        ELSE [bytes |-> SubSeq(b.data, 1, n), rest |-> Drop(b, n)]

-----------------------------------------------------------------------------
(* References: who has the buffer in its pdTable, as the buffer knows it.   *)

Referrers(b) == {b.references[i] : i \in 1..PdSize} \ {Null}

Free(b) == {i \in 1..PdSize : b.references[i] = Null}

\* sysFork and openPipe record a process in the first free place, if any.
addReference(b, p) ==
    IF Free(b) = {} THEN b
    ELSE LET first == CHOOSE i \in Free(b) : \A j \in Free(b) : i <= j
         IN  [b EXCEPT !.references[first] = p]

\* setReferenceByIndex(.., NULL, ..) at every place of the process.
dropReference(b, p) ==
    [b EXCEPT !.references = [i \in 1..PdSize |-> IF @[i] = p THEN Null ELSE @[i]]]

=============================================================================
