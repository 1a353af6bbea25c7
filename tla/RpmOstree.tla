----------------------------- MODULE RpmOstree ------------------------------
(***************************************************************************)
(* plugins/rpm-ostree/gs-plugin-rpm-ostree.c: the transactions of          *)
(* rpm-ostreed.  The worker of the plugin and the threads of the loader    *)
(* share, under the mutex, a proxy of the daemon that knows whether a      *)
(* transaction runs; a timer of the main thread drops the proxy.  It hears *)
(* of changes in the main context of the thread that made it: that of the  *)
(* worker is run as long as it lives, that of a job only until the job     *)
(* ends.  The registration with the daemon is left out.                    *)
(***************************************************************************)
EXTENDS AppState, FiniteSets, Naturals

CONSTANTS
    OstreeWorker,       \* the worker
    OstreePool,         \* the threads of the loader
    Client,             \* stands for the other clients of the daemon
    NoOne,              \* no transaction, no context
    OstreeOps,          \* what is asked of the plugin
    MaxProxies,         \* bound: proxies that are made; 0 is none
    MaxOstreeJobs,      \* bound: jobs
    MaxForeign          \* bound: transactions of others, and deaths of the daemon

ASSUME OstreeAssumption ==
    /\ {MaxProxies, MaxOstreeJobs, MaxForeign} \subseteq Nat /\ MaxProxies > 0
    /\ OstreeWorker \notin OstreePool /\ NoOne # Client /\ {NoOne, Client} \intersect (OstreePool \union {OstreeWorker}) = {}

OstreeThreads == OstreePool \union {OstreeWorker}

VARIABLES
    sysrootProxy,       \* the proxy of the plugin
    proxies,            \* the context of each proxy, and the transaction it knows of
    made,               \* the number of proxies so far
    inactivity,         \* inactive_timeout_id
    transaction,        \* whose transaction the daemon runs
    rpmApps,            \* the apps the jobs are about
    triggered,          \* update_triggered
    ostreeJobs,         \* the job of each thread
    ostreeStarted, foreign      \* the counts of MaxOstreeJobs and MaxForeign
proxyVars == <<sysrootProxy, proxies, made, inactivity>>
countVars == <<ostreeStarted, foreign>>
ostreeVars == <<proxyVars, transaction, rpmApps, triggered, ostreeJobs, countVars>>

Things == {"package", "repository", "system"}
OfWorker == {"refresh metadata", "refresh", "enable", "disable", "refine"}
OfPool == {"install", "remove", "update", "download", "trigger", "list updates"}
ASSUME OpsAssumption == OstreeOps \subseteq OfWorker \union OfPool

ThingOf(op) == CASE op \in {"install", "remove"} -> {"package"} [] op \in {"enable", "disable"} -> {"repository"}
                 [] op = "download" -> {"system"} [] OTHER -> {}
Success(op) ==
    CASE op = "install" -> {"pending install"} [] op = "remove" -> {"pending remove"}
      [] op = "enable" -> {"installed"} [] op = "disable" -> {"available"} [] op = "download" -> {"updatable"}
      [] OTHER -> {}

\* How many transactions the job runs; the refresh of a job of the loader that
\* is for all ages ends with the first of its three.
Transactions(op) == CASE op = "refresh" -> 3 [] op = "enable" -> 4 [] OTHER -> 1

\* wait: for the transaction of another, before the first call, or after the
\* call found the daemon busy; respond: its own transaction runs; deaf: the
\* daemon died in it.
OstreeJob == [op : OfWorker \union OfPool, proxy : 0..MaxProxies, todo : 0..4,
              stage : {"idle", "ref", "wait", "call", "busy", "respond", "finished", "failed", "deaf"}]
NoOstreeJob == [op |-> "refine", stage |-> "idle", proxy |-> 0, todo |-> 0]

OstreeTypeOK ==
    /\ sysrootProxy \in 0..made /\ made \in 0..MaxProxies
    /\ proxies \in [1..MaxProxies -> [context : OstreeThreads \union {NoOne}, busy : BOOLEAN]]
    /\ {inactivity, triggered} \subseteq BOOLEAN
    /\ transaction \in OstreeThreads \union {Client, NoOne}
    /\ rpmApps \in [Things -> GsApp]
    /\ ostreeJobs \in [OstreeThreads -> OstreeJob]
    /\ ostreeStarted \in 0..MaxOstreeJobs /\ foreign \in 0..MaxForeign

\* setup_thread_cb() has made the first proxy.
OstreeInit ==
    /\ sysrootProxy = 1 /\ made = 1 /\ inactivity = TRUE
    /\ proxies = [p \in 1..MaxProxies |-> [context |-> IF p = 1 THEN OstreeWorker ELSE NoOne, busy |-> FALSE]]
    /\ transaction = NoOne /\ triggered = FALSE
    /\ \E s \in {"available", "installed"} :
         rpmApps = [x \in Things |-> SetState(NewApp, IF x = "package" THEN s ELSE "available")]
    /\ ostreeJobs = [t \in OstreeThreads |-> NoOstreeJob]
    /\ ostreeStarted = 0 /\ foreign = 0

JobIs(t, stage) == ostreeJobs[t].stage = stage
GoesOnTo(t, stage) == ostreeJobs' = [ostreeJobs EXCEPT ![t].stage = stage]
AppsTo(op, s) == [x \in Things |-> IF x \in ThingOf(op) THEN SetState(rpmApps[x], s) ELSE rpmApps[x]]

\* The end of the job; nobody runs the context of a thread of the loader after.
EndsOstree(t) ==
    /\ ostreeJobs' = [ostreeJobs EXCEPT ![t] = NoOstreeJob]
    /\ proxies' = [p \in 1..MaxProxies |->
          IF t \in OstreePool /\ proxies[p].context = t THEN [proxies[p] EXCEPT !.context = NoOne] ELSE proxies[p]]

-----------------------------------------------------------------------------
\* rpm-ostreed: a transaction of another client; the end of one, of which its
\* own client hears from the transaction; its death, which a proxy of a
\* transaction, which has no name owner, does not hear of.
OtherTransaction ==
    /\ transaction = NoOne /\ foreign < MaxForeign /\ foreign' = foreign + 1 /\ transaction' = Client
    /\ UNCHANGED <<proxyVars, rpmApps, triggered, ostreeJobs, ostreeStarted>>
TransactionEndsUntold ==
    /\ transaction # NoOne /\ transaction' = NoOne
    /\ IF transaction \in OstreeThreads /\ ostreeJobs[transaction].stage = "respond"
       THEN \E how \in {"finished", "failed"} : GoesOnTo(transaction, how)
       ELSE UNCHANGED ostreeJobs
    /\ UNCHANGED <<proxyVars, rpmApps, triggered, countVars>>
DaemonDies ==
    /\ foreign < MaxForeign /\ foreign' = foreign + 1 /\ transaction' = NoOne
    /\ ostreeJobs' = [t \in OstreeThreads |->
          IF transaction = t /\ JobIs(t, "respond") THEN [ostreeJobs[t] EXCEPT !.stage = "deaf"] ELSE ostreeJobs[t]]
    /\ UNCHANGED <<proxyVars, rpmApps, triggered, ostreeStarted>>

\* A proxy hears of the change of active-transaction-path when its context is
\* run: by the worker between its tasks, and by whoever waits.
RunsItsContext(t) ==
    \/ t = OstreeWorker /\ JobIs(t, "idle")
    \/ t \in OstreeThreads /\ ostreeJobs[t].stage \in {"wait", "busy", "respond", "deaf"}
ProxyNotified(p) ==
    /\ RunsItsContext(proxies[p].context) /\ proxies[p].busy # (transaction # NoOne)
    /\ proxies' = [proxies EXCEPT ![p].busy = ~@]
    /\ UNCHANGED <<sysrootProxy, made, inactivity, transaction, rpmApps, triggered, ostreeJobs, countVars>>

\* gs_rpmostree_inactive_timeout_cb()
InactiveTimeout ==
    /\ inactivity /\ made < MaxProxies
    /\ sysrootProxy' = 0 /\ inactivity' = FALSE
    /\ UNCHANGED <<proxies, made, transaction, rpmApps, triggered, ostreeJobs, countVars>>

-----------------------------------------------------------------------------
StartOstree(t) ==
    /\ JobIs(t, "idle") /\ ostreeStarted < MaxOstreeJobs /\ ostreeStarted' = ostreeStarted + 1
    /\ \E op \in OstreeOps \intersect (IF t = OstreeWorker THEN OfWorker ELSE OfPool) :
         /\ op = "remove" => rpmApps["package"].state \in {"installed", "pending install"}
         /\ \A u \in OstreeThreads : JobIs(u, "idle") \/ ThingOf(ostreeJobs[u].op) \intersect ThingOf(op) = {}
         /\ ostreeJobs' = [ostreeJobs EXCEPT ![t] = [NoOstreeJob EXCEPT !.op = op, !.stage = "ref", !.todo = Transactions(op)]]
    /\ UNCHANGED <<proxyVars, transaction, rpmApps, triggered, foreign>>

TimerForgotten(t) ==                    \* mutant: the timer is started with a new proxy only
    /\ JobIs(t, "ref") /\ sysrootProxy # 0
    /\ inactivity' = FALSE /\ UNCHANGED <<sysrootProxy, proxies, made>>
    /\ ostreeJobs' = [ostreeJobs EXCEPT ![t].stage = "wait", ![t].proxy = sysrootProxy]
    /\ UNCHANGED <<transaction, rpmApps, triggered, countVars>>
\* gs_rpmostree_ref_proxies_locked(), with what each operation does before it
\* waits: a refinement and the list of updates are done when they have read the
\* properties; an app is not installed in each state, nor an update triggered
\* twice.
Refused(op) ==
    \/ op \in {"refine", "list updates"}
    \/ op = "update" /\ triggered
    \/ op = "install" /\ rpmApps["package"].state \notin {"available", "queued", "available local"}
RefProxies(t) ==
    /\ JobIs(t, "ref") /\ sysrootProxy # 0
    /\ inactivity' = TRUE /\ UNCHANGED <<sysrootProxy, made>>
    /\ IF Refused(ostreeJobs[t].op) THEN EndsOstree(t)
       ELSE ostreeJobs' = [ostreeJobs EXCEPT ![t].stage = "wait", ![t].proxy = sysrootProxy] /\ UNCHANGED proxies
    /\ UNCHANGED <<transaction, rpmApps, triggered, countVars>>
NewProxies(t) ==
    /\ JobIs(t, "ref") /\ sysrootProxy = 0 /\ made < MaxProxies
    /\ sysrootProxy' = made + 1 /\ made' = made + 1 /\ inactivity' = TRUE
    /\ LET new == [context |-> t, busy |-> transaction # NoOne]
       IN  IF Refused(ostreeJobs[t].op)
           THEN /\ ostreeJobs' = [ostreeJobs EXCEPT ![t] = NoOstreeJob]
                /\ proxies' = [proxies EXCEPT ![made + 1] = [new EXCEPT !.context = IF t = OstreeWorker THEN t ELSE NoOne]]
           ELSE /\ ostreeJobs' = [ostreeJobs EXCEPT ![t].stage = "wait", ![t].proxy = made + 1]
                /\ proxies' = [proxies EXCEPT ![made + 1] = new]
    /\ UNCHANGED <<transaction, rpmApps, triggered, countVars>>
\* A failure drops what there is of new proxies.
RefFails(t) ==
    /\ JobIs(t, "ref") /\ sysrootProxy = 0 /\ inactivity' = FALSE /\ EndsOstree(t)
    /\ UNCHANGED <<sysrootProxy, made, transaction, rpmApps, triggered, countVars>>

\* gs_rpmostree_wait_for_ongoing_transaction_end() before the first call...
KnowsBusy(t) == proxies[ostreeJobs[t].proxy].busy
InProgress(op) == IF op \in {"remove", "disable"} THEN "removing" ELSE "installing"
FirstOfJob(t) == ostreeJobs[t].todo = Transactions(ostreeJobs[t].op)
WaitEnds(t) ==
    /\ JobIs(t, "wait") /\ ~KnowsBusy(t) /\ GoesOnTo(t, "call")
    /\ rpmApps' = IF FirstOfJob(t) THEN AppsTo(ostreeJobs[t].op, InProgress(ostreeJobs[t].op)) ELSE rpmApps
    /\ UNCHANGED <<proxyVars, transaction, triggered, countVars>>
\* ... and after the daemon was busy.
BusyEnds(t) ==
    /\ JobIs(t, "busy") /\ ~KnowsBusy(t) /\ GoesOnTo(t, "call")
    /\ UNCHANGED <<proxyVars, transaction, rpmApps, triggered, countVars>>

\* A job that fails sets its app back, but for its part after the repository is
\* enabled, which may fail.
Recovers(t) == IF FirstOfJob(t) THEN [x \in Things |-> IF x \in ThingOf(ostreeJobs[t].op) THEN SetStateRecover(rpmApps[x])
                                                       ELSE rpmApps[x]]
               ELSE rpmApps
\* The job is cancelled, or its call fails.
JobStops(t) ==
    /\ ostreeJobs[t].stage \in {"wait", "call", "busy", "respond", "deaf"} /\ EndsOstree(t)
    /\ rpmApps' = IF JobIs(t, "wait") THEN rpmApps ELSE Recovers(t)
    /\ UNCHANGED <<sysrootProxy, made, inactivity, transaction, triggered, countVars>>

\* The call that begins the transaction.
CallDaemon(t) ==
    /\ JobIs(t, "call")
    /\ IF transaction = NoOne THEN transaction' = t /\ GoesOnTo(t, "respond") ELSE GoesOnTo(t, "busy") /\ UNCHANGED transaction
    /\ UNCHANGED <<proxyVars, rpmApps, triggered, countVars>>

\* gs_rpmostree_transaction_get_response_sync() returns.
Succeeded(t) ==
    /\ JobIs(t, "finished")
    /\ LET job == ostreeJobs[t]
       IN  /\ triggered' = (triggered \/ job.op = "update")
           /\ IF FirstOfJob(t) /\ Success(job.op) # {}
              THEN \E s \in Success(job.op) : rpmApps' = AppsTo(job.op, s)
              ELSE UNCHANGED rpmApps
           /\ IF job.todo = 1 THEN EndsOstree(t)
              ELSE ostreeJobs' = [ostreeJobs EXCEPT ![t].stage = "wait", ![t].todo = @ - 1] /\ UNCHANGED proxies
    /\ UNCHANGED <<sysrootProxy, made, inactivity, transaction, countVars>>
\* A rebase to the tree that is deployed already is a success.
Failed(t) ==
    /\ JobIs(t, "failed") /\ EndsOstree(t)
    /\ rpmApps' \in {Recovers(t)} \union (IF ostreeJobs[t].op = "download" THEN {AppsTo("download", "updatable")} ELSE {})
    /\ UNCHANGED <<sysrootProxy, made, inactivity, transaction, triggered, countVars>>

OstreeStep(t) ==
    \/ RefProxies(t) \/ NewProxies(t) \/ RefFails(t) \/ WaitEnds(t) \/ BusyEnds(t) \/ CallDaemon(t) \/ Succeeded(t) \/ Failed(t)
OstreeNext ==
    \/ OtherTransaction \/ TransactionEndsUntold \/ DaemonDies \/ InactiveTimeout
    \/ \E p \in 1..MaxProxies : ProxyNotified(p)
    \/ \E t \in OstreeThreads : StartOstree(t) \/ OstreeStep(t) \/ JobStops(t)

\* The threads run, the daemon ends its transactions, and the contexts that are
\* run deliver what there is.  Nothing makes the user cancel a job.
OstreeFairness ==
    /\ WF_ostreeVars(TransactionEndsUntold)
    /\ \A p \in 1..MaxProxies : WF_ostreeVars(ProxyNotified(p))
    /\ \A t \in OstreeThreads : WF_ostreeVars(OstreeStep(t))
OstreeSpec == OstreeInit /\ [][OstreeNext]_ostreeVars /\ OstreeFairness

-----------------------------------------------------------------------------
\* An app is shown as being worked on only while its job has the daemon or
\* waits for it, whichever way the job ends.
OstreeAppsSettle ==
    \A x \in Things : rpmApps[x].state \in {"installing", "removing"} =>
        \E t \in OstreeThreads : x \in ThingOf(ostreeJobs[t].op) /\ FirstOfJob(t)
                                 /\ ostreeJobs[t].stage \in {"call", "busy", "respond", "finished", "failed", "deaf"}

\* The proxy is dropped one day: the timer runs whenever there is one
\* (gs_rpmostree_inactive_timeout_cb()).
IdleConnectionEnds == sysrootProxy # 0 => inactivity

\* A job waits for a transaction with a proxy that nobody will tell of its end.
\* The plugin makes its proxies in the worker so that "their signal emissions
\* will correctly be in the worker thread"; after the timeout any thread may.
WaitsInVain(t) ==
    ostreeJobs[t].stage \in {"wait", "busy"} /\ KnowsBusy(t) /\ proxies[ostreeJobs[t].proxy].context = NoOne
NobodyWaitsInVain == \A t \in OstreeThreads : ~WaitsInVain(t)

\* Each job ends, however many clients share the daemon, but for those that
\* wait in vain or have lost the daemon.
OstreeRests == \A t \in OstreeThreads : JobIs(t, "idle") \/ WaitsInVain(t) \/ JobIs(t, "deaf")
OstreeJobsEnd == []<>OstreeRests

\* Jobs that share the daemon and the connection to it leave neither an app that
\* nobody works on in between, nor a connection that nobody will end.
OstreeInv == OstreeTypeOK /\ OstreeAppsSettle /\ IdleConnectionEnds

\* Why they do not: an app always has a state to go back to, and a job that has
\* begun has a transaction to run.
RecoverIsStable == \A x \in Things : rpmApps[x].recover \notin Transient \union {"unknown"}
JobsHaveWork == \A t \in OstreeThreads : ~JobIs(t, "idle") => ostreeJobs[t].todo # 0

OstreeIInv == OstreeInv /\ RecoverIsStable /\ JobsHaveWork
=============================================================================
