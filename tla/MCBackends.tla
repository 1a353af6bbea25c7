----------------------------- MODULE MCBackends ------------------------------
(* Four parts that do not meet in the program, in one run: each behaviour    *)
(* is one of the part its focus names, and the other parts stay as they      *)
(* begin.                                                                    *)
EXTENDS VanillaOS, EosUpdater, RpmOstree, Download

VARIABLE focus
backendsVars == <<focus, vanillaVars, eosVars, ostreeVars, downloadVars>>

BackendsInit ==
    /\ focus \in {"vanilla-meta", "eos-updater", "rpm-ostree", "download"}
    /\ VanillaInit /\ EosInit /\ OstreeInit /\ DownloadInit
    /\ focus = "eos-updater" \/ updater = "none"
    /\ focus = "rpm-ostree" \/ rpmApps["package"].state = "available"

BackendsNext ==
    /\ UNCHANGED focus
    /\ \/ focus = "vanilla-meta" /\ VanillaNext /\ UNCHANGED <<eosVars, ostreeVars, downloadVars>>
       \/ focus = "eos-updater" /\ EosNext /\ UNCHANGED <<vanillaVars, ostreeVars, downloadVars>>
       \/ focus = "rpm-ostree" /\ OstreeNext /\ UNCHANGED <<vanillaVars, eosVars, downloadVars>>
       \/ focus = "download" /\ DownloadNext /\ UNCHANGED <<vanillaVars, eosVars, ostreeVars>>

\* The fairness of each part, which only the part that moves can enable.
BackendsSpec ==
    /\ BackendsInit /\ [][BackendsNext]_backendsVars
    /\ VanillaFairness /\ EosFairness /\ OstreeFairness /\ DownloadFairness

\* Again and again all are at rest: every task of VanillaMeta's worker, every
\* download of a file, every upgrade of Endless OS and every transaction of
\* rpm-ostree ends, unless the worker has left the mutex locked, the upgrade
\* sleeps through its wake-up, or the job waits for a transaction of whose end
\* nobody will tell it.
TasksEnd == []<>(WorkerRests /\ UpgradeRests /\ OstreeRests /\ dl = NoFile)

\* So do the jobs of the threads that share VanillaMeta's silo.
BackendsEnd == TasksEnd /\ PoolJobsEnd
=============================================================================
