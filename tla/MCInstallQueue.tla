--------------------------- MODULE MCInstallQueue ---------------------------
(* Instances of InstallQueue.  The jobs are interchangeable: no definition   *)
(* orders them or chooses one of them, so the runs without liveness use them *)
(* as a symmetry set.                                                        *)
EXTENDS InstallQueue, TLC

JobSymmetry == Permutations(Jobs)

\* However often the program is killed and started again, what it loads still
\* waits to be installed, and is taken off the queue while the network is there
\* (load_install_queue(), finish_setup_install_queue_cb()).
QueueSurvives == []QueueIsQueued /\ QueueDrains
=============================================================================
