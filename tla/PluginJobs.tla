----------------------------- MODULE PluginJobs ------------------------------
(***************************************************************************)
(* lib/gs-plugin-job-*.c: the jobs that ask all plugins at once and join   *)
(* their answers: list-apps, list-distro-upgrades, list-categories,        *)
(* refresh-metadata and manage-repository.  n_pending_ops starts at one,   *)
(* is counted up for each operation and down for each answer and for the   *)
(* end of the starting loop.  The lists are merged and refined by a        *)
(* GsPluginJobRefine, then filtered, sorted and truncated.                 *)
(***************************************************************************)
EXTENDS RefineJob

CONSTANTS
    Lists,          \* Lists[p]: the apps plugin p knows of
    FlagSets,       \* the refine flags the callers use
    Compatible,     \* apps that app_filter_qt_for_gtk_and_compatible() keeps
    Rank,           \* Rank[a]: the place of an app in the order asked for
    MaxResults,     \* max_results of the query, 0 for no bound
    HasExternal     \* ENABLE_EXTERNAL_APPSTREAM

Kinds == {"refine", "list-apps", "upgrades", "categories", "refresh", "repository"}
External == NPlugins + 2
Ops == PluginIds \union {Reviews, External}

Unsupported == <<"unsupported", 0>>
JobErrors == ({"failed"} \X Ops) \union {Unsupported}

ASSUME JobsAssumption ==
    /\ Lists \in [PluginIds -> SUBSET Apps] /\ FlagSets \subseteq SUBSET Flags
    /\ Compatible \subseteq Apps /\ MaxResults \in Nat /\ HasExternal \in BOOLEAN
    /\ Rank \in [Apps -> Nat] /\ \A i, j \in Apps : Rank[i] = Rank[j] => i = j
    /\ None \notin Kinds \union JobErrors

VARIABLES
    jobKind,        \* which job runs, or None
    queryFlags,     \* the refine flags of the query
    running,        \* operations that have not answered
    nPendingOps,    \* n_pending_ops
    savedError,     \* saved_error
    merged,         \* merged_list
    progressSource, \* the timeout that reports the progress of a refresh
    repoProgress,   \* gs_app_get_progress() of the repository: "unknown" or "some"
    jobEnd, jobList \* what the job returned, and its result list
jobVars == <<jobKind, queryFlags, running, nPendingOps, savedError, merged, progressSource,
             repoProgress, jobEnd, jobList>>

JobTypeOK ==
    /\ RefineTypeOK
    /\ jobKind \in Kinds \union {None} /\ queryFlags \in FlagSets \union {{}}
    /\ running \subseteq Ops /\ nPendingOps \in Nat
    /\ savedError \in JobErrors \union {None} /\ merged \subseteq Apps
    /\ progressSource \in BOOLEAN /\ repoProgress \in {"unknown", "some"}
    /\ jobEnd \in Outcomes \union JobErrors \union {None} /\ jobList \subseteq Apps

JobInit ==
    /\ RefineInit
    /\ jobKind = None /\ queryFlags = {} /\ running = {} /\ nPendingOps = 0
    /\ savedError = None /\ merged = {} /\ progressSource = FALSE
    /\ repoProgress = "unknown" /\ jobEnd = None /\ jobList = {}

-----------------------------------------------------------------------------
\* The best max_results apps of a list.
Truncate(list) ==
    IF MaxResults = 0 THEN list
    ELSE {a \in list : Cardinality({b \in list : Rank[b] < Rank[a]}) < MaxResults}

FinishTaskCut(kind, list) ==    \* mutant: the list is cut before it is filtered
    /\ jobEnd' = Ok
    /\ jobList' = IF kind = "list-apps" THEN Truncate(list) \intersect Compatible ELSE list

\* finish_task(): list-apps filters, sorts and truncates.
FinishTask(kind, list) ==
    /\ jobEnd' = Ok
    /\ jobList' = IF kind = "list-apps" THEN Truncate(list \intersect Compatible) ELSE list

RefinesList(kind, list, flags) ==
    \/ kind = "list-apps" /\ list # {} /\ flags # {}
    \/ kind = "upgrades" /\ list # {}

\* finish_op(), after the count: the last one refines the list or returns.
FinishJobOp(kind, left, error, list, flags) ==
    /\ nPendingOps' = left
    /\ IF left > 0
       THEN /\ savedError' = error /\ merged' = list /\ progressSource' = (kind = "refresh")
            /\ UNCHANGED <<repoProgress, jobEnd, jobList, refineVars>>
       ELSE /\ savedError' = None /\ merged' = {} /\ progressSource' = FALSE
            /\ repoProgress' = IF kind = "repository" THEN "unknown" ELSE repoProgress
            /\ CASE error # None ->
                        jobEnd' = error /\ UNCHANGED <<jobList, refineVars>>
                 [] error = None /\ RefinesList(kind, list, flags) ->
                        /\ RefineRun(list, flags \union {"other"}, FALSE)
                        /\ UNCHANGED <<jobEnd, jobList>>
                 [] OTHER -> FinishTask(kind, list) /\ UNCHANGED refineVars

\* n_pending_ops after the loop and the finish_op() at its end.
Pending(ops) == Cardinality(ops)

\* gs_plugin_job_*_run_async(): the loop asks all plugins before any answers.
\* handlers are the plugins with the function the job calls.
JobRun(kind, handlers, flags) ==
    LET ops == handlers \union (IF kind = "refresh" /\ reviewed THEN {Reviews} ELSE {})
                        \union (IF kind = "refresh" /\ HasExternal THEN {External} ELSE {})
        error == IF kind = "refresh" /\ handlers = {} THEN Unsupported ELSE None
    IN  /\ jobKind' = kind /\ queryFlags' = flags /\ running' = ops
        /\ FinishJobOp(kind, Pending(ops), error, {}, flags)

RunJob ==
    /\ jobKind = None
    /\ \E kind \in Kinds \ {"refine"}, handlers \in SUBSET PluginIds, flags \in FlagSets :
          JobRun(kind, handlers, flags)

\* A refine the rest of the program asks for, of what the plugins list.
RunRefine ==
    /\ jobKind = None
    /\ \E list \in {Lists[p] : p \in PluginIds}, flags \in FlagSets, filter \in BOOLEAN :
          /\ ~filter => "other" \in flags
          /\ RefineRun(list, flags, filter)
    /\ jobKind' = "refine"
    /\ UNCHANGED <<queryFlags, running, nPendingOps, savedError, merged, progressSource, repoProgress,
                   jobEnd, jobList>>

\* plugin_*_cb(), odrs_provider_refresh_ratings_cb() and
\* external_appstream_refresh_cb(): the errors of a refresh are ignored, those
\* of a query a plugin does not support too.
Counted(kind, error) == IF kind = "refresh" THEN None
                        ELSE IF kind = "list-apps" /\ error = Unsupported THEN None ELSE error

JobCb(o) ==
    /\ o \in running
    /\ \E error \in {None, <<"failed", o>>, Unsupported} :
         LET list == IF error = None /\ jobKind \in {"list-apps", "upgrades"}
                     THEN merged \union Lists[o] ELSE merged
         IN  /\ running' = running \ {o}
             /\ FinishJobOp(jobKind, nPendingOps - 1, Kept(savedError, Counted(jobKind, error)),
                            list, queryFlags)
    /\ UNCHANGED <<jobKind, queryFlags>>

\* A plugin reports progress on the repository while it works on it.
RepositoryProgress ==
    /\ jobKind = "repository" /\ running # {} /\ repoProgress' = "some"
    /\ UNCHANGED <<jobKind, queryFlags, running, nPendingOps, savedError, merged, progressSource,
                   jobEnd, jobList, refineVars>>

\* refine_cb(): the refine of the merged list, or the one that was asked for,
\* has returned.
RefineReturns ==
    /\ jobKind # None /\ jobEnd = None /\ running = {} /\ refine = <<>> /\ refineEnd # None
    /\ IF refineEnd = Ok THEN FinishTask(jobKind, resultList)
                           ELSE jobEnd' = refineEnd /\ UNCHANGED jobList
    /\ UNCHANGED <<jobKind, queryFlags, running, nPendingOps, savedError, merged, progressSource,
                   repoProgress, refineVars>>

RefineStepOfJob == RefineStep /\ UNCHANGED jobVars

JobNext ==
    \/ RunJob \/ RunRefine \/ (\E o \in Ops : JobCb(o)) \/ RepositoryProgress
    \/ RefineReturns \/ RefineStepOfJob

JobFairness ==
    /\ \A o \in Ops : WF_<<jobVars, refineVars>>(JobCb(o))
    /\ WF_<<jobVars, refineVars>>(RefineReturns)
    /\ WF_<<jobVars, refineVars>>(RefineStepOfJob)

JobSpec == JobInit /\ [][JobNext]_<<jobVars, refineVars>> /\ JobFairness

-----------------------------------------------------------------------------
\* A job returns once everything it has asked for has answered: no plugin, no
\* refine and no timeout of it is left, and the repository shows no progress
\* (finish_op() of each gs-plugin-job-*.c, finish_refine_internal_recursion()).
ReturnsLast ==
    /\ jobEnd # None => running = {} /\ refine = <<>> /\ ~progressSource /\ repoProgress = "unknown"
    /\ refineEnd # None => refine = <<>>

\* A refine that succeeds has passed every app of its list to every plugin that
\* refines, an app a wildcard was replaced by to the plugin that replaced it and
\* all later ones, and every addon, runtime and related app it was asked for, of
\* the replaced ones too, to every plugin (finish_refine_internal_op()).
EverybodyRefined ==
    refineEnd = Ok /\ refineFlags # {} =>
        \A p \in refiners, i \in resultList :
            /\ <<p, i>> \in refined \/ (i \notin appList /\ \E q \in refiners : q > p /\ <<q, i>> \in refined)
            /\ \A layer \in refineFlags \intersect Layers :
                 LayerFlags(refineFlags, layer) # {} =>
                    \A part \in Parts[layer][i] \ Wildcards : <<p, part>> \in refined

\* The first error decides: no job succeeds after a plugin whose answer counts
\* has failed, and no later answer replaces the error (saved_error).
FirstErrorStays ==
    [][ /\ savedError # None => jobEnd' \in {None, savedError} /\ savedError' \in {savedError, None}
        /\ savedError # None /\ savedError' = None => jobEnd' = savedError
      ]_<<jobVars, refineVars>>

\* Nobody is told of changes of an app while the app is refined, and the idle
\* sources thaw it as often as it was frozen (run_async(), run_cb()).
FrozenWhileRefined ==
    \A i \in Apps : frozen[i] = Cardinality({k \in DOMAIN thaws : thaws[k] = i})
                                + IF refine # <<>> /\ i \in appList THEN 1 ELSE 0

\* A list-apps job leaves out an app that no filter drops only for as many
\* better ones as the caller wants: the list is cut after it is filtered and
\* sorted (finish_task()).
ListsTheBest ==
    jobEnd = Ok /\ jobKind = "list-apps" /\ queryFlags # {} =>
        \A i \in (resultList \intersect Compatible) \ jobList :
            /\ Cardinality({j \in jobList : Rank[j] < Rank[i]}) = MaxResults
            /\ MaxResults # 0

\* A job that has not returned waits for somebody who will answer: a plugin, or
\* a refine that waits for no layer, however deep below the others; an error on
\* the way leaves no refine waiting for a layer that has returned
\* (finish_refine_internal_recursion()).
JobGoesOn ==
    jobKind # None /\ jobEnd = None =>
        \/ running # {}
        \/ \E path \in DOMAIN refine : refine[path].layers = {}
        \/ refine = <<>> /\ refineEnd # None

\* Every job returns and every app is thawed, if the plugins answer.
JobReturns == (jobKind # None) ~> (jobEnd # None /\ \A i \in Apps : frozen[i] = 0)

\* A refine that was asked for reviews or ratings has asked the reviews service
\* for them ("Add ODRS data if needed").
ReviewsAdded ==
    refineEnd = Ok /\ reviewed /\ refineFlags \intersect {"reviews", "review-ratings", "rating"} # {} =>
        \A i \in resultList : <<Reviews, i>> \in refined

\* A job's state and lists are right in each of its stages, and when it returns
\* nothing of it is left.
JobInv == JobTypeOK /\ ReturnsLast /\ ListsTheBest

\* A job goes on until it returns, and what returns is right and complete.
JobIsSound == JobInv /\ JobGoesOn

\* Every job ends, with the first error that counts if there was one.
JobSettles == FirstErrorStays /\ JobReturns
=============================================================================
