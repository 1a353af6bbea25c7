------------------------------- MODULE MCJobs --------------------------------
(* The worker thread, with its instance of MCWorkerThread, and the jobs that *)
(* ask all plugins at once, in one run: each behaviour is of the part its    *)
(* focus names, and the other stays as it begins.  The jobs have two plugins,*)
(* a wildcard w that stands for a, an app a with an addon b and a runtime r, *)
(* and a related app x.                                                      *)
EXTENDS MCWorkerThread, PluginJobs

CONSTANTS a, b, r, w, x
MCApps == {a, b, r, w, x}
MCResolved == [v \in {w} |-> {a}]
MCParts == [layer \in Layers |-> [p \in MCApps |->
    CASE layer = "addons" /\ p = a -> {b}
      [] layer = "runtime" /\ p = a -> {r}
      [] layer = "related" /\ p = x -> {a}
      [] OTHER -> {}]]
MCLists == [p \in 1..2 |-> IF p = 1 THEN {w, x} ELSE {a, b}]
MCFlagSets == {{}, {"other"}, {"reviews"}, {"addons", "reviews"}, {"addons", "rating"},
               {"addons", "runtime", "related", "other"}}
MCRank == [p \in MCApps |-> CASE p = a -> 1 [] p = b -> 2 [] p = r -> 3 [] p = x -> 0 [] p = w -> 5]

VARIABLE focus
workerVars == vars
pluginJobVars == <<jobVars, refineVars>>
bothVars == <<focus, workerVars, pluginJobVars>>

BothInit ==
    /\ focus \in {"worker", "jobs"}
    /\ Init /\ JobInit
    /\ focus = "jobs" \/ (refiners = {} /\ ~reviewed)

BothNext ==
    /\ UNCHANGED focus
    /\ \/ focus = "worker" /\ Next /\ UNCHANGED pluginJobVars
       \/ focus = "jobs" /\ JobNext /\ UNCHANGED workerVars

\* The fairness of both parts, which only the part that moves can enable.
BothSpec == BothInit /\ [][BothNext]_bothVars /\ Fairness /\ JobFairness
=============================================================================
