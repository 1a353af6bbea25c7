--------------------------- MODULE MCWorkerThread ---------------------------
(* Instances of WorkerThread: three tasks, two of them at the priority of   *)
(* a background job (G_PRIORITY_LOW) and one at that of an interactive job. *)
EXTENDS WorkerThread

CONSTANTS t1, t2, t3

MCPriority == [i \in Items |-> CASE i = ShutdownTask -> MaxInt
                                 [] i = t1 -> 0
                                 [] OTHER -> 300]
=============================================================================
