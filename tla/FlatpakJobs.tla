---------------------------- MODULE FlatpakJobs -----------------------------
(***************************************************************************)
(* plugins/flatpak/gs-plugin-flatpak.c and gs-flatpak-transaction.c: the   *)
(* installs, removals, updates and downloads of the Flatpak plugin.  Each  *)
(* runs a transaction of libflatpak in a thread of the loader; the         *)
(* transaction calls back for each of its operations, among them those for *)
(* the runtime and the extensions of an app, and the callbacks set the     *)
(* states of the apps, which the threads share.                            *)
(***************************************************************************)
EXTENDS AppState, Naturals

CONSTANTS
    Refs,           \* the apps, runtimes and extensions
    MainApps,       \* the apps
    Runtime,        \* the runtime of all of them
    Extensions,     \* their addons
    JobThreads,
    NoRef,
    MaxActivities   \* bound: jobs and listings

ASSUME FlatpakAssumption ==
    /\ MainApps \subseteq Refs /\ Runtime \in Refs \ MainApps /\ Extensions = Refs \ (MainApps \union {Runtime})
    /\ NoRef \notin Refs /\ MaxActivities \in Nat

VARIABLES
    shown,          \* the GsApp of each ref
    deployed,       \* the refs that are installed
    newer,          \* those of them a remote has a newer commit of
    jobs,           \* the operation each thread runs
    listing,        \* a list of installed apps or of updates that is being made
    activities,     \* the number of jobs and listings so far
    overtaken       \* history: refs that were listed as installed after their removal
flatpakVars == <<shown, deployed, newer, jobs, listing, activities, overtaken>>
refVars == <<deployed, newer>>
listVars == <<listing, activities, overtaken>>

Ops == {"install", "remove", "update", "download"}

\* list: the apps of the job; ops: the refs of the operations of its
\* transaction; todo: those that are still to run; at: the one that runs.
FlatpakJob == [op : Ops, stage : {"prepare", "ready", "run", "refresh", "refine", "addons", "idle"},
               list : SUBSET Refs, todo : SUBSET Refs, ops : SUBSET Refs, at : Refs \union {NoRef}]
NoListing == [kind |-> "none", refs |-> {}]
IdleJob == [op |-> "install", stage |-> "idle", list |-> {}, todo |-> {}, ops |-> {}, at |-> NoRef]

FlatpakTypeOK ==
    /\ shown \in [Refs -> GsApp]
    /\ newer \subseteq deployed /\ deployed \subseteq Refs
    /\ jobs \in [JobThreads -> FlatpakJob]
    /\ listing \in [kind : {"installed", "updates", "none"}, refs : SUBSET Refs]
    /\ activities \in 0..MaxActivities
    /\ overtaken \subseteq Refs

FlatpakInit ==
    /\ deployed \in {{Runtime} \union ps : ps \in {{}} \union {MainApps \union xs : xs \in SUBSET Extensions}}
    /\ newer \in SUBSET deployed
    /\ shown = [p \in Refs |-> SetState(NewApp, IF p \in newer THEN "updatable live"
                                               ELSE IF p \in deployed THEN "installed" ELSE "available")]
    /\ jobs = [t \in JobThreads |-> IdleJob]
    /\ listing = NoListing /\ activities = 0 /\ overtaken = {}

AllTo(ps, s) == [p \in Refs |-> IF p \in ps THEN SetState(shown[p], s) ELSE shown[p]]
Idle(t) == jobs[t].stage = "idle"
At(t, op, stage) == jobs[t].op = op /\ jobs[t].stage = stage
Put(t, job) == jobs' = [jobs EXCEPT ![t] = job]
EndJob(t) == Put(t, IdleJob)

\* A remote gets a newer commit (the world outside).
Publish ==
    /\ \E p \in deployed \ newer : newer' = newer \union {p}
    /\ UNCHANGED <<shown, deployed, jobs, listVars>>

\* gs_flatpak_create_installed(): the app of an installed ref, which other jobs
\* may be working on, is INSTALLED.
CreatedInstalled(app) == SetState(SetState(app, "unknown"), "installed")

\* gs_flatpak_add_installed() and gs_flatpak_add_updates() ask libflatpak for
\* the refs.
ListBegins ==
    /\ listing = NoListing /\ activities < MaxActivities /\ activities' = activities + 1
    /\ listing' \in {[kind |-> "installed", refs |-> deployed], [kind |-> "updates", refs |-> newer]}
    /\ UNCHANGED <<shown, refVars, jobs, overtaken>>

\* Its test for apps that are being updated comes after CreatedInstalled().
Listed(app, kind) ==
    IF kind = "installed" THEN CreatedInstalled(app) ELSE SetState(CreatedInstalled(app), "updatable live")

\* The apps of the refs; get_real_app_for_update() lists the app of an
\* extension with it.
ListEnds ==
    /\ listing # NoListing
    /\ LET mains == IF listing.kind = "updates" /\ listing.refs \intersect Extensions # {}
                    THEN MainApps \intersect deployed ELSE {}
       IN  shown' = [p \in Refs |-> IF p \in listing.refs \union mains THEN Listed(shown[p], listing.kind) ELSE shown[p]]
    /\ overtaken' = overtaken \union (listing.refs \ deployed)
    /\ listing' = NoListing
    /\ UNCHANGED <<refVars, jobs, activities>>

-----------------------------------------------------------------------------
\* The beginning of a job, up to the run of its transaction.
OnNobodysList(p) == \A t \in JobThreads : p \notin jobs[t].list

\* The loader starts a job: an install of an app with some of its addons, a
\* removal with all that are installed, an update or a download of refs that
\* can be updated, an app with its extensions.
StartJob(t) ==
    /\ Idle(t) /\ activities < MaxActivities /\ activities' = activities + 1
    /\ \E op \in Ops, list \in SUBSET Refs :
         /\ list # {} /\ \A p \in list : OnNobodysList(p)
         /\ CASE op = "install" ->
                   \E a \in MainApps : /\ a \in list /\ list \subseteq {a} \union (Extensions \ deployed)
                                       /\ shown[a].state \in {"available", "queued"}
              [] op = "remove" ->
                   \E a \in MainApps : /\ a \in deployed /\ shown[a].state \in {"installed", "updatable live"}
                                       /\ list = {a} \union {x \in Extensions : shown[x].state = "installed"}
              [] OTHER -> \A p \in list : shown[p].state = "updatable live"
         /\ Put(t, [IdleJob EXCEPT !.op = op, !.stage = "prepare", !.list = list])
    /\ UNCHANGED <<shown, refVars, listing, overtaken>>

\* gs_plugin_app_install(): queued without a network; the transaction may not
\* be built; an app that turns out to be installed goes back to UNKNOWN.
InstallPrepares(t) ==
    /\ At(t, "install", "prepare") /\ UNCHANGED <<refVars, listVars>>
    /\ LET main == jobs[t].list \intersect MainApps
           addons == jobs[t].list \ main
       IN  \/ shown' = AllTo(main, "queued") /\ EndJob(t)
           \/ UNCHANGED shown /\ EndJob(t)
           \/ /\ main \subseteq deployed
              /\ shown' = [p \in Refs |-> IF p \in main THEN SetState(shown[p], "unknown") ELSE AllTo(addons, "installing")[p]]
              /\ Put(t, [jobs[t] EXCEPT !.stage = "refresh"])
           \/ /\ ~(main \subseteq deployed)
              /\ shown' = AllTo(jobs[t].list, "installing")
              /\ Put(t, [jobs[t] EXCEPT !.stage = "ready"])

\* gs_plugin_app_remove()
RemovePrepares(t) ==
    /\ At(t, "remove", "prepare") /\ UNCHANGED <<refVars, listVars>>
    /\ \/ UNCHANGED shown /\ EndJob(t)
       \/ shown' = AllTo(jobs[t].list, "removing") /\ Put(t, [jobs[t] EXCEPT !.stage = "ready"])

\* gs_plugin_flatpak_update(): an app that cannot be added ends it, one of a
\* missing remote too.
UpdatePrepares(t) ==
    /\ At(t, "update", "prepare") /\ UNCHANGED <<refVars, listVars>>
    /\ \/ UNCHANGED shown /\ EndJob(t)
       \/ shown' = AllTo(jobs[t].list, "installing") /\ Put(t, [jobs[t] EXCEPT !.stage = "ready"])

\* gs_plugin_download(): the states are left alone; apps of a missing remote
\* are left out.
DownloadPrepares(t) ==
    /\ At(t, "download", "prepare") /\ UNCHANGED <<shown, refVars, listVars>>
    /\ \/ EndJob(t)
       \/ \E list \in SUBSET jobs[t].list : Put(t, [jobs[t] EXCEPT !.stage = "ready", !.list = list])

-----------------------------------------------------------------------------
\* The run of the transaction (gs_flatpak_transaction_run()).

\* The operations libflatpak finds necessary; the runtime is one it adds.
Necessary(op, list) ==
    CASE op = "install" -> (list \ deployed) \union ({Runtime} \ deployed) \union ({Runtime} \intersect newer)
      [] op = "remove" -> list \intersect deployed
      [] OTHER -> list \intersect newer

IsUpdate(job, p) == job.op \in {"update", "download"} \/ (p \in deployed /\ job.op = "install")

\* The apps of the job that the plugin adds to the transaction, and recovers
\* itself; gs_flatpak_transaction_add_app() adds the runtime of an app with it,
\* if the app has been refined so far.
Added(job) == CASE job.op = "download" -> {}
                [] job.op = "update" -> job.list
                [] OTHER -> job.list \intersect MainApps
Known(job) == {Added(job)} \union {Added(job) \union {Runtime} : a \in Added(job) \intersect MainApps}

\* _ref_to_app(): the app of a ref that is not known comes from
\* gs_flatpak_ref_to_app().
AppOf(known, p) == IF p \in deployed \ known THEN CreatedInstalled(shown[p]) ELSE shown[p]

\* _transaction_ready(): the apps of the updates are INSTALLING.
UpdateStarts(app) ==
    SetState(IF app.state \in {"unknown", "installed"} THEN SetState(app, "updatable live") ELSE app, "installing")
Ready(t) ==
    /\ jobs[t].stage = "ready" /\ UNCHANGED <<refVars, listVars>>
    /\ LET job == jobs[t]
           ops == Necessary(job.op, job.list)
       IN  /\ \E known \in Known(job) :
                shown' = [p \in Refs |-> CASE p \notin ops -> shown[p]
                                           [] p \in ops /\ IsUpdate(job, p) -> UpdateStarts(AppOf(known, p))
                                           [] OTHER -> AppOf(known, p)]
           /\ Put(t, [job EXCEPT !.stage = "run", !.ops = ops, !.todo = ops])

\* _transaction_new_operation(): the runtime comes first.
NewOperation(t) ==
    /\ jobs[t].stage = "run" /\ jobs[t].at = NoRef /\ UNCHANGED <<refVars, listVars>>
    /\ \E p \in jobs[t].todo :
         /\ Runtime \in jobs[t].todo => p = Runtime
         /\ Put(t, [jobs[t] EXCEPT !.at = p, !.todo = @ \ {p}])
         /\ LET known == IF shown[p].state = "unknown" THEN SetState(shown[p], "available") ELSE shown[p]
            IN  shown' = [shown EXCEPT ![p] = CASE jobs[t].op = "remove" -> SetState(@, "removing")
                                               [] IsUpdate(jobs[t], p) -> UpdateStarts(@)
                                               [] OTHER -> SetState(known, "installing")]

\* set_skipped_related_apps_to_installed(): the app of an extension whose own
\* operation was not necessary.
SkippedRelated(job, p) ==
    IF p \in Extensions /\ job.todo \intersect Extensions = {} /\ job.op # "remove"
    THEN {a \in MainApps \intersect job.list : a \notin job.ops} ELSE {}

Done(job, p) == CASE job.op = "remove" -> "unknown"
                  [] job.op = "download" -> "updatable live"
                  [] OTHER -> "installed"

\* _transaction_operation_done()
OperationDone(t) ==
    /\ jobs[t].at # NoRef
    /\ LET job == jobs[t]  p == job.at
       IN  /\ shown' = [AllTo(SkippedRelated(job, p), "installed") EXCEPT ![p] = SetState(shown[p], Done(job, p))]
           /\ deployed' = CASE job.op = "remove" -> deployed \ {p}
                            [] job.op = "download" -> deployed
                            [] OTHER -> deployed \union {p}
           /\ newer' = IF job.op = "download" THEN newer ELSE newer \ {p}
           /\ Put(t, [job EXCEPT !.at = NoRef])
    /\ UNCHANGED listVars

\* _transaction_operation_error(): an error of an operation that libflatpak has
\* added is not fatal, and leaves the state as it is.
OperationSkipped(t) ==
    /\ jobs[t].at \notin jobs[t].list \union {NoRef} /\ Put(t, [jobs[t] EXCEPT !.at = NoRef])
    /\ UNCHANGED <<shown, refVars, listVars>>

OnlyOperations(job, ops) == ops         \* mutant: the plugin leaves it to the transaction
\* The transaction fails, while it is resolved or run: the apps of its
\* operations and those of the job go back to their last stable states; the
\* addons of an install only if there are operations for them.
Recovered(job, ops) == ops \union Added(job)
Resolved(job) == IF job.stage = "run" THEN {job.ops} ELSE {{}, Necessary(job.op, job.list)}
AfterFailure(job, ops, known) ==
    [p \in Refs |-> IF p \notin Recovered(job, ops) THEN shown[p]
                    ELSE SetStateRecover(IF p \in ops /\ job.stage = "ready" THEN AppOf(known, p) ELSE shown[p])]
RunFails(t) ==
    /\ jobs[t].stage \in {"ready", "run"}
    /\ \E ops \in Resolved(jobs[t]), known \in Known(jobs[t]) : shown' = AfterFailure(jobs[t], ops, known)
    /\ EndJob(t)
    /\ UNCHANGED <<refVars, listVars>>

\* gs_plugin_app_install(): if the error of the run is ALREADY_INSTALLED the app
\* becomes UNKNOWN and is looked up, as one that was found to be installed before.
RunFindsInstalled(t) ==
    /\ jobs[t].op = "install" /\ jobs[t].stage \in {"ready", "run"}
    /\ \E ops \in Resolved(jobs[t]), known \in Known(jobs[t]) :
         LET failed == AfterFailure(jobs[t], ops, known)
         IN  shown' = [p \in Refs |-> IF p \in Added(jobs[t]) THEN SetState(failed[p], "unknown") ELSE failed[p]]
    /\ Put(t, [jobs[t] EXCEPT !.stage = "refresh", !.todo = {}, !.ops = {}, !.at = NoRef])
    /\ UNCHANGED <<refVars, listVars>>

RunEnds(t) ==
    /\ jobs[t].stage = "run" /\ jobs[t].todo = {} /\ jobs[t].at = NoRef
    /\ shown' = IF jobs[t].op = "update" THEN AllTo(jobs[t].list, "unknown") ELSE shown
    /\ IF jobs[t].op = "download" THEN EndJob(t)
       ELSE Put(t, [jobs[t] EXCEPT !.stage = "refresh", !.ops = {}])
    /\ UNCHANGED <<refVars, listVars>>

-----------------------------------------------------------------------------
\* The end of a job: gs_flatpak_refresh(), which may fail, gs_flatpak_refine_app()
\* and gs_flatpak_refine_addons().
RefreshEnds(t) ==
    /\ jobs[t].stage = "refresh"
    /\ EndJob(t) \/ Put(t, [jobs[t] EXCEPT !.stage = "refine"])
    /\ UNCHANGED <<shown, refVars, listVars>>

\* gs_flatpak_refine_app_state_unlocked(): only an unknown state is looked up.
LookedUp(ps) ==
    [p \in Refs |-> IF p \notin ps \/ shown[p].state # "unknown" THEN shown[p]
                    ELSE SetState(shown[p], IF p \in deployed THEN "installed" ELSE "available")]
RefineEnds(t) ==
    /\ jobs[t].stage = "refine"
    /\ shown' = LookedUp(IF jobs[t].op = "update" THEN jobs[t].list ELSE jobs[t].list \intersect MainApps)
    /\ IF jobs[t].op = "update" THEN EndJob(t) ELSE Put(t, [jobs[t] EXCEPT !.stage = "addons"])
    /\ UNCHANGED <<refVars, listVars>>

AddonsEnd(t) ==
    /\ jobs[t].stage = "addons"
    /\ shown' = [p \in Refs |->
         IF p \in Extensions /\ shown[p].state = (IF jobs[t].op = "remove" THEN "removing" ELSE "installing")
         THEN SetState(shown[p], IF p \in deployed THEN "installed" ELSE "available") ELSE shown[p]]
    /\ EndJob(t) /\ UNCHANGED <<refVars, listVars>>

JobStep(t) ==
    \/ InstallPrepares(t) \/ RemovePrepares(t) \/ UpdatePrepares(t) \/ DownloadPrepares(t)
    \/ Ready(t) \/ NewOperation(t) \/ OperationDone(t) \/ OperationSkipped(t) \/ RunFails(t)
    \/ RunFindsInstalled(t) \/ RunEnds(t)
    \/ RefreshEnds(t) \/ RefineEnds(t) \/ AddonsEnd(t)

FlatpakNext == Publish \/ ListBegins \/ ListEnds \/ \E t \in JobThreads : StartJob(t) \/ JobStep(t)

FlatpakSpec == FlatpakInit /\ [][FlatpakNext]_flatpakVars

-----------------------------------------------------------------------------
OfJob(t, p) == ~Idle(t) /\ p \in jobs[t].list \union jobs[t].ops

\* Whoever has made an app INSTALLING or REMOVING brings it to rest again,
\* whether its transaction succeeds, fails, or skips the app.
NobodyStaysBusy ==
    \A p \in MainApps : shown[p].state \in {"installing", "removing"} => \E t \in JobThreads : OfJob(t, p)

\* What is shown as installed is, and what is shown as available is not,
\* also while a job works on it.
ShownAsDeployed ==
    \A p \in Refs \ overtaken :
        /\ shown[p].state \in {"installed", "updatable live"} => p \in deployed
        /\ shown[p].state = "available" => p \notin deployed

\* A list of updates leaves alone the apps that are being updated ("if for some
\* reason the app is already getting updated, then don't change its state",
\* gs_flatpak_add_updates()).  Violated: gs_flatpak_create_installed() has made
\* it INSTALLED by the time its state is looked at.
ListingLeavesInstalling ==
    [][\A p \in Refs : (ListEnds /\ listing.kind = "updates" /\ shown[p].state = "installing")
                         => shown'[p].state = "installing"]_flatpakVars

(* What makes them inductive.  The last stable state of an app is true of    *)
(* its ref, and that of an app at rest is its state; the lists of the jobs   *)
(* are apart, and nothing but the job of an app, and a list that is being    *)
(* made, changes its state; and where a job has got to says which of its     *)
(* apps may still be busy, so that none is when the job ends.                *)
Busy(p) == shown[p].state \in {"installing", "removing"}
RecoverIsTrue ==
    \A p \in Refs \ overtaken : /\ shown[p].recover \in {"installed", "updatable live"} => p \in deployed
                                /\ shown[p].recover = "available" => p \notin deployed
AtRest(app) == app.recover \notin Transient /\ (app.state \notin Transient => app.recover = app.state)
RecoverIsKnown ==
    /\ \A p \in Refs : AtRest(shown[p])
    /\ \A p \in MainApps : shown[p].state \in Transient => shown[p].recover # "unknown"

ListsApart == \A s, t \in JobThreads : s # t => jobs[s].list \intersect jobs[t].list = {}
JobShape(job) ==
    /\ job.stage = "idle" => job.list = {}
    /\ job.stage # "run" => job.ops = {} /\ job.todo = {} /\ job.at = NoRef
    /\ job.ops \subseteq job.list \union (IF job.op = "install" THEN {Runtime} ELSE {})
    /\ job.todo \subseteq job.ops /\ job.at \in job.ops \union {NoRef} /\ job.at \notin job.todo
JobIsOfRefs(job) ==
    LET mains == job.list \intersect MainApps
    IN  /\ job.op = "install" => \A p, q \in mains : p = q
        /\ job.op \in {"update", "download"} => job.list \subseteq deployed \union overtaken /\ job.ops \subseteq deployed
        /\ job.op \in {"install", "remove"} /\ job.stage = "run" => mains \subseteq job.ops
        /\ job.op = "install" /\ job.stage = "ready" => mains \intersect deployed = {}
        /\ job.op = "remove" /\ job.stage \in {"prepare", "ready"} => mains \subseteq deployed
JobHasSet(job, p) ==
    /\ job.stage = "prepare" => ~Busy(p) /\ shown[p].state # "unknown"
    /\ job.stage = "ready" => (job.op = "remove" => shown[p].state # "unknown") /\ (job.op = "download" => ~Busy(p))
    /\ job.stage = "run" => /\ job.op = "remove" /\ p \in job.todo => shown[p].state # "unknown"
                            /\ (p \in job.ops \/ job.op = "download") /\ p \notin job.todo /\ p # job.at => ~Busy(p)
    /\ job.stage \in {"refresh", "refine", "addons"} => ~Busy(p)
JobsInv ==
    \A t \in JobThreads : /\ JobShape(jobs[t]) /\ JobIsOfRefs(jobs[t])
                           /\ \A p \in jobs[t].list \intersect MainApps : JobHasSet(jobs[t], p)
BusyIsListed == \A p \in MainApps : Busy(p) => \E t \in JobThreads : p \in jobs[t].list
FlatpakIInv == FlatpakTypeOK /\ RecoverIsTrue /\ RecoverIsKnown /\ ListsApart /\ JobsInv /\ BusyIsListed

\* What is shown of an app is what its ref is, and nothing stays busy.
FlatpakInv == FlatpakTypeOK /\ NobodyStaysBusy /\ ShownAsDeployed
=============================================================================
