----------------------------- MODULE ByteStream -----------------------------
(* What a pipe promises: bytes come out in the order in which they went in,  *)
(* none missing, and after the last of them the end is told once.            *)
EXTENDS Naturals, Sequences

CONSTANTS MaxBytes,   \* bound: bytes put in
          MaxChunk    \* bound: bytes put or taken at a time

VARIABLES sent,       \* how many bytes were put in: the next one is sent + 1
          stream,     \* the bytes on their way
          taken,      \* the bytes that came out
          status      \* "open", "shut" when no more can come, "ended" when told

vars == <<sent, stream, taken, status>>

Init == sent = 0 /\ stream = <<>> /\ taken = <<>> /\ status = "open"

Put == /\ status = "open"
       /\ \E n \in 1..MaxChunk :
            /\ sent + n <= MaxBytes
            /\ sent' = sent + n
            /\ stream' = stream \o [i \in 1..n |-> sent + i]
       /\ UNCHANGED <<taken, status>>

Take == /\ \E n \in 1..Len(stream) :
             /\ stream' = SubSeq(stream, n + 1, Len(stream))
             /\ taken' = taken \o SubSeq(stream, 1, n)
        /\ UNCHANGED <<sent, status>>

Shut == status = "open" /\ status' = "shut" /\ UNCHANGED <<sent, stream, taken>>

End == /\ status = "shut" /\ stream = <<>>
       /\ status' = "ended"
       /\ UNCHANGED <<sent, stream, taken>>

Next == Put \/ Take \/ Shut \/ End

Spec == Init /\ [][Next]_vars

=============================================================================
