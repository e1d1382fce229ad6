--------------------------- MODULE MCReadyQueues ---------------------------
(* ReadyQueues with a shell and two programs, and coarse time.              *)
EXTENDS ReadyQueues

CONSTANTS a, b          \* the nodes for programs

\* The shell has run for a while and is running again.
Started == sched = [pcb     |-> [n \in Procs \cup {Idle} |->
                                    [Freed EXCEPT !.state = CASE n = InitNode -> "RUNNING"
                                                              [] n = Idle     -> "READY"
                                                              [] OTHER        -> @]],
                    queue   |-> [i \in Lists |-> << >>],
                    current |-> InitNode,
                    live    |-> {InitNode},
                    zero    |-> FALSE]

\* The shell forks and acts on its programs; they compute, yield, wait for
\* input, replace themselves and end; Ctrl-C comes at any time.
Workload ==
    \/ TimerTick \/ Block \/ WakeReader \/ CtrlC
    \/ /\ Running = InitNode
       /\ \/ sysFork \/ arqSysPriority \/ arqSysKill \/ arqSysBlock \/ arqSysUnblock
    \/ /\ Running # InitNode
       /\ \/ sysExecve \/ arqSysExit \/ arqSysYield

\* WF_vars(TimerTick), with what ENABLED means here written out: again and again
\* a tick would change nothing, or there is one.  (TLC is slow at ENABLED.)
TickFair == []<>(scheduler(sched) = {sched}) \/ []<><<TimerTick>>_vars

MCSpec == Started /\ [][Workload]_vars /\ TickFair

\* No program starves but by others of a higher level, by nice or by deaths of
\* others again and again (b is as good as a).
ProgramServed == ServedUnlessOvertaken(a)

=============================================================================
