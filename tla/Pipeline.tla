------------------------------ MODULE Pipeline ------------------------------
(***************************************************************************)
(* The pipe in the pipelines of the shell: runProgram of sh.c with a `|`.   *)
(*                                                                          *)
(* The shell forks the two programs and closes its ends, the read end       *)
(* first, before it waits; each program closes the end that it does not     *)
(* use.  No key is pressed and nobody is killed.                            *)
(***************************************************************************)
EXTENDS Pipe

CONSTANTS Writer, Reader   \* the two programs of a pipeline

ASSUME ProgramsAssumption ==
    /\ Writer \in Procs /\ Reader \in Procs
    /\ Writer # Reader /\ Opener \notin {Writer, Reader}

-----------------------------------------------------------------------------

Shell ==
    \/ sysFork(Opener, Writer)
    \/ proc[Writer] # "unborn" /\ sysFork(Opener, Reader)
    \/ proc[Reader] # "unborn" /\ arqSysClosePd(Opener, "r")
    \/ "r" \notin pds[Opener] /\ arqSysClosePd(Opener, "w")

WriterStep ==
    \/ arqSysClosePd(Writer, "r")
    \/ "r" \notin pds[Writer] /\ \E count \in 1..2 : arqSysWrite(Writer, count)
    \/ "r" \notin pds[Writer] /\ written = MaxBytes /\ arqSysExit(Writer)

\* cat, wc and filter read a character at a time until there are no more.
ReaderStep ==
    \/ arqSysClosePd(Reader, "w")
    \/ "w" \notin pds[Reader] /\ eofs = 0 /\ (arqSysRead(Reader, 1) \/ ReadAgain(Reader, 1))
    \/ "w" \notin pds[Reader] /\ eofs > 0 /\ arqSysExit(Reader)

PipelineNext ==
    /\ ~Overrun
    /\ Shell \/ WriterStep \/ ReaderStep \/ \E p \in Procs : Preempt(p)

\* The scheduler serves every process that it can find.
PipelineSpec ==
    /\ Init /\ [][PipelineNext]_vars
    /\ WF_vars(Shell) /\ WF_vars(WriterStep) /\ WF_vars(ReaderStep)

\* All bytes have reached the second program, both have ended and the buffers
\* are freed.
AllCopied ==
    /\ freed
    /\ received = [i \in 1..MaxBytes |-> i]
    /\ proc[Writer] = "dead" /\ proc[Reader] = "dead"

\* A pipeline into cat, wc or filter ends, with everything copied; the only thing
\* that keeps it from ending: the second program was lost when it woke itself by
\* closing the last write end (closePipe, and then nextProcess).
EndsUnlessLost == <>[](AllCopied \/ proc[Reader] = "lost")

\* The writer and the shell are never lost in a pipeline.
OnlyReaderLost == \A p \in Procs : proc[p] \in {"marked", "lost"} => p = Reader

=============================================================================
