-------------------------------- MODULE Pipe --------------------------------
(***************************************************************************)
(* A pipe (pipe.c): a write end "w" and a read end "r", two buffers that    *)
(* point at each other, and the processes that have them in their pdTables. *)
(*                                                                          *)
(* A system call is atomic (interrupts are off); a reader of an empty pipe  *)
(* blocks inside arqSysRead and tests again when it is woken.  Bytes are    *)
(* numbered in the order in which they are written.                         *)
(*                                                                          *)
(* Which of the runnable processes goes next is left open: ProcessControl   *)
(* has the scheduler.  One thing it does matters here: a process that is    *)
(* running when its own state is set to READY is "marked", and is "lost",   *)
(* linked into no queue, if the scheduler turns to another one before it    *)
(* blocks or yields (nextProcess).                                          *)
(***************************************************************************)
EXTENDS IPCBuffers

CONSTANTS Opener,     \* the process that calls pipe()
          MaxBytes    \* bound: bytes given to write

ASSUME OpenerAssumption == Opener \in Procs /\ MaxBytes \in Nat

VARIABLES end,        \* the two buffers
          freed,      \* destroyBuffer was called on both
          pds,        \* the ends that are in the pdTable of a process
          proc,       \* where each process is
          written,    \* bytes given to write so far, the refused ones included
          received,   \* bytes read has returned so far
          eofs        \* ends of file read has returned so far

vars == <<end, freed, pds, proc, written, received, eofs>>

Ends == {"r", "w"}

Overrun == \E e \in Ends : end[e].overrun

\* What a buffer holds, without the end of file behind it.
Bytes(s) == IF s # <<>> /\ s[Len(s)] = EOF THEN SubSeq(s, 1, Len(s) - 1) ELSE s

TypeOK ==
    /\ end \in [Ends -> Buffers]
    /\ freed \in BOOLEAN
    /\ pds \in [Procs -> SUBSET Ends]
    /\ proc \in [Procs -> {"unborn", "user", "marked", "blocked", "woken", "lost", "dead"}]
    /\ written \in 0..MaxBytes
    /\ received \in Seq(1..MaxBytes)
    /\ eofs \in Nat

-----------------------------------------------------------------------------
(* pipe.c.                                                                  *)

\* openPipe, the process being the only one that knows the pipe.
Init ==
    /\ end = [r |-> addReference(createEmptyBuffer("READ"), Opener),
              w |-> addReference(createEmptyBuffer("WRITE"), Opener)]
    /\ freed = FALSE
    /\ pds = [p \in Procs |-> IF p = Opener THEN Ends ELSE {}]
    /\ proc = [p \in Procs |-> IF p = Opener THEN "user" ELSE "unborn"]
    /\ written = 0 /\ received = <<>> /\ eofs = 0

\* setBufferReferencesReady of a pipe end, called while `runner` runs.
wake(b, ps, runner) ==
    [p \in Procs |-> IF p \notin Referrers(b) THEN ps[p]
                     ELSE IF p = runner THEN "marked"
                     ELSE IF ps[p] = "blocked" THEN "woken" ELSE ps[p]]

Other(which) == IF which = "w" THEN "r" ELSE "w"

\* Mutant: nobody is woken.
closePipeSilently(k, which) ==
    [k EXCEPT !.end[which].state = "CLOSED",
              !.end[Other(which)] = IF which = "w" THEN copyToBuffer(@, <<EOF>>) ELSE @,
              !.freed = k.end[Other(which)].state = "CLOSED"]

\* Mutant: the buffers are destroyed with the first end.
closePipeEagerly(k, which) ==
    [k EXCEPT !.end[which].state = "CLOSED",
              !.end[Other(which)] = IF which = "w" THEN copyToBuffer(@, <<EOF>>) ELSE @,
              !.proc  = wake(k.end[Other(which)], @, k.runner),
              !.freed = TRUE]

\* Closing the write end leaves an EOF for the readers; the second end that
\* closes takes both buffers with it.
closePipe(k, which) ==
    [k EXCEPT !.end[which].state = "CLOSED",
              !.end[Other(which)] = IF which = "w" THEN copyToBuffer(@, <<EOF>>) ELSE @,
              !.proc  = wake(k.end[Other(which)], @, k.runner),
              !.freed = k.end[Other(which)].state = "CLOSED"]

\* Mutant: the end is closed although other processes have it.
removeReferencesClosing(k, p, which) ==
    closePipe([k EXCEPT !.end[which] = dropReference(@, p)], which)

\* The end is closed with its last reference.
removeReferences(k, p, which) ==
    LET rest == [k EXCEPT !.end[which] = dropReference(@, p)]
    IN  IF p \in Referrers(k.end[which]) /\ Referrers(rest.end[which]) = {}
        THEN closePipe(rest, which)
        ELSE rest

PipeBy(runner) == [end |-> end, proc |-> proc, freed |-> freed, runner |-> runner]

\* p gives up the ends S of its pdTable, the read end (the lower one) first.
GiveUp(k, p, S) ==
    LET k1 == IF "r" \in S THEN removeReferences(k, p, "r") ELSE k
    IN  IF "w" \in S THEN removeReferences(k1, p, "w") ELSE k1

-----------------------------------------------------------------------------
(* The scheduler and the system calls.                                      *)

NobodyElseMarked(p) == \A q \in Procs \ {p} : proc[q] # "marked"

\* p is the running process and not inside a read.
Runs(p) == proc[p] \in {"user", "marked"} /\ NobodyElseMarked(p)

\* The quantum of a marked process ends (nextProcess).
Preempt(p) ==
    /\ proc[p] = "marked"
    /\ proc' = [proc EXCEPT ![p] = "lost"]
    /\ UNCHANGED <<end, freed, pds, written, received, eofs>>

\* _yield and _wait set the state again: a marked process is safe.
arqSysYield(p) ==
    /\ proc[p] = "marked"
    /\ proc' = [proc EXCEPT ![p] = "user"]
    /\ UNCHANGED <<end, freed, pds, written, received, eofs>>

\* p is set READY by something else than the pipe: a child died, a key was
\* pressed, somebody unblocked it.
SetReady(p) ==
    /\ proc[p] = "blocked" \/ Runs(p)
    /\ proc' = [proc EXCEPT ![p] = IF @ = "blocked" THEN "woken" ELSE "marked"]
    /\ UNCHANGED <<end, freed, pds, written, received, eofs>>

\* Mutant: the child is not recorded in the write end.
sysForkReadEnd(p, child) ==
    /\ Runs(p) /\ proc[child] = "unborn"
    /\ end' = [e \in Ends |-> IF e \in pds[p] /\ e = "r" THEN addReference(end[e], child)
                              ELSE end[e]]
    /\ pds' = [pds EXCEPT ![child] = pds[p]]
    /\ proc' = [proc EXCEPT ![child] = "user"]
    /\ UNCHANGED <<freed, written, received, eofs>>

\* The child gets the pdTable of its parent.
sysFork(p, child) ==
    /\ Runs(p) /\ proc[child] = "unborn"
    /\ end' = [e \in Ends |-> IF e \in pds[p] THEN addReference(end[e], child) ELSE end[e]]
    /\ pds' = [pds EXCEPT ![child] = pds[p]]
    /\ proc' = [proc EXCEPT ![child] = "user"]
    /\ UNCHANGED <<freed, written, received, eofs>>

arqSysClosePd(p, which) ==
    /\ Runs(p) /\ which \in pds[p]
    /\ LET k == GiveUp(PipeBy(p), p, {which})
       IN  end' = k.end /\ proc' = k.proc /\ freed' = k.freed
    /\ pds' = [pds EXCEPT ![p] = @ \ {which}]
    /\ UNCHANGED <<written, received, eofs>>

\* closePDs, when p dies while `runner` runs.
deleteProcess(p, runner) ==
    /\ LET k == GiveUp(PipeBy(runner), p, pds[p])
       IN  end' = k.end /\ proc' = [k.proc EXCEPT ![p] = "dead"] /\ freed' = k.freed
    /\ pds' = [pds EXCEPT ![p] = {}]
    /\ UNCHANGED <<written, received, eofs>>

arqSysExit(p) == Runs(p) /\ deleteProcess(p, p)

\* kill, or Ctrl-C while another process runs; a lost process is not found.
arqSysKill(runner, p) ==
    /\ Runs(runner) /\ p # runner
    /\ proc[p] \in {"user", "blocked", "woken"}
    /\ deleteProcess(p, runner)

\* Ctrl-C while everybody is blocked and idle runs.
KillOnIdle(p) ==
    /\ \A q \in Procs : proc[q] \in {"unborn", "blocked", "lost", "dead"}
    /\ proc[p] = "blocked"
    /\ deleteProcess(p, Null)

\* Mutant: the readers are not told.
writePipeSilently(p, count) ==
    /\ Runs(p) /\ "w" \in pds[p]
    /\ written + count <= MaxBytes
    /\ LET bytes == [i \in 1..count |-> written + i]
           wEnd  == copyToBuffer(end["w"], bytes)
       IN  end' = [w |-> copyFromBuffer(wEnd), r |-> copyToBuffer(end["r"], wEnd.data)]
    /\ written' = written + count
    /\ UNCHANGED <<freed, pds, proc, received, eofs>>

\* writePipe: the bytes go through the write end into the read end at once
\* (updateOppositeEnd), so the write end is empty and the loop of arqSysWrite,
\* which waits while it is full, never blocks a writer.
arqSysWrite(p, count) ==
    /\ Runs(p) /\ "w" \in pds[p]
    /\ written + count <= MaxBytes
    /\ LET bytes == [i \in 1..count |-> written + i]
           wEnd  == copyToBuffer(end["w"], bytes)
       IN  /\ end' = [w |-> copyFromBuffer(wEnd), r |-> copyToBuffer(end["r"], wEnd.data)]
           /\ proc' = wake(end["r"], proc, p)
    /\ written' = written + count
    /\ UNCHANGED <<freed, pds, received, eofs>>

\* The loop of arqSysRead, entered by the call and by a wake-up; `after` is
\* where the process is once it has read.
ReadLoop(p, count, after) ==
    \/ /\ Dim(end["r"]) = 0
       /\ proc' = [proc EXCEPT ![p] = "blocked"]
       /\ UNCHANGED <<end, freed, pds, written, received, eofs>>
    \/ /\ Dim(end["r"]) > 0
       /\ LET got == readBuffer(end["r"], count)
          IN  /\ end' = [end EXCEPT !["r"] = got.rest]
              /\ received' = received \o got.bytes
              /\ eofs' = IF got.bytes = <<>> THEN eofs + 1 ELSE eofs
       /\ proc' = [proc EXCEPT ![p] = after]
       /\ UNCHANGED <<freed, pds, written>>

arqSysRead(p, count) == Runs(p) /\ "r" \in pds[p] /\ ReadLoop(p, count, proc[p])

ReadAgain(p, count) ==
    proc[p] = "woken" /\ NobodyElseMarked(p) /\ ReadLoop(p, count, "user")

Step(p) ==
    \/ \E child \in Procs : sysFork(p, child)
    \/ \E which \in Ends : arqSysClosePd(p, which)
    \/ \E count \in 1..2 : arqSysWrite(p, count) \/ arqSysRead(p, count) \/ ReadAgain(p, count)
    \/ arqSysExit(p) \/ arqSysYield(p)
    \/ \E q \in Procs : arqSysKill(p, q)
    \/ Preempt(p) \/ SetReady(p) \/ KillOnIdle(p)

\* Past the end of the array nothing is modelled.
Next == ~Overrun /\ \E p \in Procs : Step(p)

Spec == Init /\ [][Next]_vars

-----------------------------------------------------------------------------
(* Properties.                                                              *)

\* An end of file is told only when all writers have closed and all bytes have
\* been read, and it is told once.
EofSound ==
    /\ \A i \in 1..Dim(end["r"]) : end["r"].data[i] = EOF =>
          /\ end["w"].state = "CLOSED"
          /\ i = Dim(end["r"])
          /\ eofs = 0
    /\ eofs > 0 => eofs = 1 /\ end["w"].state = "CLOSED" /\ end["r"].data = <<>>

\* No lost wake-up: while a reader is blocked there is nothing to read, and
\* somebody can still write or close -- until the end of file has been told.
ReaderNotStranded ==
    (\E p \in Procs : proc[p] = "blocked") /\ eofs = 0 =>
        end["r"].data = <<>> /\ end["w"].state # "CLOSED"

\* Every field has its type, and the buffers know exactly the processes that have
\* them in their pdTables.
ReferencesMatch ==
    /\ TypeOK
    /\ \A e \in Ends : Referrers(end[e]) = {p \in Procs : e \in pds[p]}

\* The buffers are freed when the last process lets go, and not before: nobody
\* is left with a pointer to freed memory, and nothing leaks.
FreedWithLast == freed <=> \A p \in Procs : pds[p] = {}

\* A pipe that is not filled beyond BUFF_SIZE - 2 bytes is a byte stream.
Stream == INSTANCE ByteStream WITH
    MaxChunk <- 2,
    sent     <- written,
    stream   <- Bytes(end["r"].data),
    taken    <- received,
    status   <- IF end["w"].state # "CLOSED" THEN "open"
                ELSE IF eofs = 0 THEN "shut" ELSE "ended"

\* Every step of the pipe is a step of the byte stream: what was read and what
\* waits in the read end is what was written, byte for byte.
IsByteStream == Stream!Spec

=============================================================================
