---------------------------- MODULE MCSemaphores ----------------------------
(* Semaphores and SyncTest on small instances.                               *)
EXTENDS SyncTest, TLC

\* Nothing distinguishes the names, the nodes, or the callers.
Interchangeable == Permutations(Names) \cup Permutations(Nodes) \cup Permutations(Callers)

\* The semaphores alone: nobody runs my_process_inc.
ListSpec == SyncInit /\ [][Next /\ UNCHANGED local]_<<vars, local>>

=============================================================================
