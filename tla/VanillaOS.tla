------------------------------ MODULE VanillaOS ------------------------------
(***************************************************************************)
(* plugins/vanilla-meta/gs-plugin-vanilla-meta.c: the packages of the      *)
(* containers of Vanilla OS.  The plugin has a worker thread for its       *)
(* list-apps and refine tasks; sources, installs and removes run in        *)
(* threads of the loader.  All share the silo under its mutex, the cache   *)
(* of apps and the states of the apps, which each learns from a run of     *)
(* apx.  No operation is cancelled here: the run of a cancelled command    *)
(* gives no output, and the code goes on to use it.                        *)
(***************************************************************************)
EXTENDS AppState

CONSTANTS
    MetaApps,       \* apps with the origin "vanilla_meta"
    InSilo,         \* those the silo has a component of
    WithPackage,    \* those with a package name
    WithContainer,  \* those with a container name
    PoolThreads,    \* threads of the loader
    Nobody

ASSUME VanillaAssumption ==
    /\ InSilo \subseteq MetaApps /\ WithPackage \subseteq MetaApps /\ WithContainer \subseteq InSilo
    /\ Nobody \notin MetaApps /\ {"free", "left"} \cap PoolThreads = {}

VARIABLES
    siloMutex,      \* who has locked it: "free", "worker", a thread, or "left"
    packages,       \* the apps whose package apx has installed
    metaApp,        \* the states of the apps
    pluginCache,    \* the apps in the cache of the plugin
    metaWorker,     \* the task the worker runs
    pool            \* what each thread of the loader does
vanillaVars == <<siloMutex, packages, metaApp, pluginCache, metaWorker, pool>>

\* caching: refresh_plugin_cache() runs; app: the app refine_app() works on;
\* found: what apx has said of it.
WorkerTask == [kind : {"list-apps", "refine"}, apps : SUBSET MetaApps,
               stage : {"cache", "app", "query", "check", "set"}, caching : BOOLEAN,
               app : MetaApps \union {Nobody}, found : BOOLEAN]
PoolJob == [op : {"sources", "install", "remove"},
            stage : {"start", "lock", "list", "set", "init", "run"},
            app : MetaApps \union {Nobody}, apps : SUBSET MetaApps, found : BOOLEAN]

ASSUME NobodyAssumption == Nobody \notin WorkerTask /\ Nobody \notin PoolJob

VanillaTypeOK ==
    /\ siloMutex \in {"free", "left"} \union PoolThreads
    /\ packages \subseteq WithPackage /\ pluginCache \subseteq MetaApps
    /\ metaApp \in [MetaApps -> {"unknown", "available", "installing", "installed"}]
    /\ metaWorker \in WorkerTask \union {Nobody}
    /\ pool \in [PoolThreads -> PoolJob \union {Nobody}]

VanillaInit ==
    /\ siloMutex = "free" /\ packages = {} /\ metaApp = [a \in MetaApps |-> "unknown"]
    /\ pluginCache = {} /\ metaWorker = Nobody
    /\ pool = [t \in PoolThreads |-> Nobody]

-----------------------------------------------------------------------------
\* The tasks of the worker.

\* gs_plugin_vanilla_meta_{list_apps,refine}_async() queue their task, the
\* worker takes one at a time, and begins with the cache.
MetaTask(kind, apps) ==
    /\ metaWorker = Nobody /\ (apps = {}) = (kind = "list-apps")
    /\ metaWorker' = [kind |-> kind, apps |-> apps, stage |-> "cache",
                      caching |-> TRUE, app |-> Nobody, found |-> FALSE]
    /\ UNCHANGED <<siloMutex, packages, metaApp, pluginCache, pool>>

workerUnchanged == <<packages, pool>>

\* refresh_plugin_cache(): the components are listed under the lock, which
\* may fail; then each one that is not in the cache is added and refined.
RefreshCache ==
    /\ metaWorker # Nobody /\ metaWorker.stage = "cache"
    /\ siloMutex = "free"
    /\ \E queried \in BOOLEAN : metaWorker' = [metaWorker EXCEPT !.stage = "app", !.caching = queried]
    /\ UNCHANGED <<siloMutex, metaApp, pluginCache, workerUnchanged>>

\* The next app of the cache, or of the list; a refine of the list goes on
\* after an app that failed, and always ends with success.
NextApp ==
    /\ metaWorker # Nobody /\ metaWorker.stage = "app"
    /\ \/ /\ metaWorker.caching
          /\ \E a \in InSilo \ pluginCache :
                /\ pluginCache' = pluginCache \union {a}
                /\ metaWorker' = [metaWorker EXCEPT !.stage = "query", !.app = a]
       \/ /\ metaWorker.caching /\ InSilo \subseteq pluginCache /\ UNCHANGED pluginCache
          /\ metaWorker' = [metaWorker EXCEPT !.caching = FALSE]
       \/ /\ ~metaWorker.caching /\ UNCHANGED pluginCache
          /\ \E a \in metaWorker.apps :
                metaWorker' = [metaWorker EXCEPT !.stage = "query", !.app = a, !.apps = @ \ {a}]
       \/ /\ ~metaWorker.caching /\ metaWorker.apps = {} /\ UNCHANGED pluginCache
          /\ metaWorker' = Nobody
    /\ UNCHANGED <<siloMutex, metaApp, workerUnchanged>>

\* How refine_app() leaves the mutex, without a component of the app or the
\* means to refine from it.
LeftBy(component) == IF component THEN "free" ELSE "left"

\* refine_app(), up to the unlock: the query fails for an app without a
\* component, and the function returns with the mutex locked.
QueryComponent ==
    /\ metaWorker # Nobody /\ metaWorker.stage = "query"
    /\ siloMutex = "free"
    /\ \E component \in {metaWorker.app \in InSilo, FALSE} :
         /\ siloMutex' = LeftBy(component)
         /\ metaWorker' = IF component THEN [metaWorker EXCEPT !.stage = "check"]
                          ELSE [metaWorker EXCEPT !.stage = "app", !.caching = FALSE, !.app = Nobody]
    /\ UNCHANGED <<metaApp, pluginCache, workerUnchanged>>

\* check_app_is_installed(): apx is asked, the state is set after that.
CheckInstalled ==
    /\ metaWorker # Nobody /\ metaWorker.stage = "check"
    /\ metaWorker' = [metaWorker EXCEPT !.stage = "set", !.found = metaWorker.app \in packages]
    /\ UNCHANGED <<siloMutex, metaApp, pluginCache, workerUnchanged>>

Checked(a, found) == CASE a \notin WithPackage -> "unknown"
                       [] a \in WithPackage /\ found -> "installed"
                       [] OTHER -> "available"

SetChecked ==
    /\ metaWorker # Nobody /\ metaWorker.stage = "set"
    /\ metaApp' = [metaApp EXCEPT ![metaWorker.app] = Checked(metaWorker.app, metaWorker.found)]
    /\ metaWorker' = [metaWorker EXCEPT !.stage = "app", !.app = Nobody, !.found = FALSE]
    /\ UNCHANGED <<siloMutex, pluginCache, workerUnchanged>>

-----------------------------------------------------------------------------
\* The threads of the loader.
Free(t) == pool[t] = Nobody
Doing(t, op, stage) == pool[t] # Nobody /\ pool[t].op = op /\ pool[t].stage = stage
Start(op, a, stage) == [op |-> op, stage |-> stage, app |-> a, apps |-> {}, found |-> FALSE]
Becomes(t, job) == pool' = [pool EXCEPT ![t] = job]
poolUnchanged == <<pluginCache, metaWorker>>

\* The loader starts a job.  Installs and removes of an app exclude each other.
StartPoolJob(t) ==
    /\ Free(t)
    /\ \/ Becomes(t, Start("sources", Nobody, "lock")) /\ UNCHANGED metaApp
       \/ \E a \in MetaApps, op \in {"install", "remove"} :
            /\ \A u \in PoolThreads : ~Free(u) => pool[u].app # a
            /\ metaApp[a] = IF op = "install" THEN "available" ELSE "installed"
            /\ Becomes(t, Start(op, a, "start")) /\ UNCHANGED metaApp
    /\ UNCHANGED <<siloMutex, packages, poolUnchanged>>

\* gs_plugin_add_sources(): the lock is held while apx is asked about each app
\* of the silo, unless the query fails.
AddSourcesLock(t) ==
    /\ Doing(t, "sources", "lock") /\ siloMutex = "free"
    /\ \/ siloMutex' = t /\ Becomes(t, [pool[t] EXCEPT !.stage = "list", !.apps = InSilo])
       \/ UNCHANGED siloMutex /\ Becomes(t, Nobody)
    /\ UNCHANGED <<packages, metaApp, poolUnchanged>>

AddSourcesCheck(t) ==
    /\ Doing(t, "sources", "list") /\ pool[t].apps # {}
    /\ \E a \in pool[t].apps :
         Becomes(t, [pool[t] EXCEPT !.stage = "set", !.app = a, !.apps = @ \ {a}, !.found = a \in packages])
    /\ UNCHANGED <<siloMutex, packages, metaApp, poolUnchanged>>

AddSourcesSet(t) ==
    /\ Doing(t, "sources", "set")
    /\ metaApp' = [metaApp EXCEPT ![pool[t].app] = Checked(pool[t].app, pool[t].found)]
    /\ Becomes(t, [pool[t] EXCEPT !.stage = "list", !.app = Nobody, !.found = FALSE])
    /\ UNCHANGED <<siloMutex, packages, poolUnchanged>>

AddSourcesUnlock(t) ==
    /\ Doing(t, "sources", "list") /\ pool[t].apps = {}
    /\ siloMutex' = "free" /\ Becomes(t, Nobody)
    /\ UNCHANGED <<packages, metaApp, poolUnchanged>>

\* gs_plugin_app_install(): podman lists the containers, or nothing.
InstallStart(t) ==
    /\ Doing(t, "install", "start")
    /\ LET a == pool[t].app
       IN  \E listed \in BOOLEAN, init \in {"init", "run"} :
             IF listed /\ a \notin WithContainer
             THEN metaApp' = [metaApp EXCEPT ![a] = "available"] /\ Becomes(t, Nobody)
             ELSE /\ metaApp' = [metaApp EXCEPT ![a] = "installing"]
                  /\ Becomes(t, [pool[t] EXCEPT !.stage = init])
    /\ UNCHANGED <<siloMutex, packages, poolUnchanged>>

InstallInit(t) ==
    /\ Doing(t, "install", "init")
    /\ Becomes(t, [pool[t] EXCEPT !.stage = "run"])
    /\ UNCHANGED <<siloMutex, packages, metaApp, poolUnchanged>>

\* apx installs the package or fails, which the plugin does not look at.
InstallRun(t) ==
    /\ Doing(t, "install", "run")
    /\ LET a == pool[t].app
       IN  IF a \notin WithPackage
           THEN metaApp' = [metaApp EXCEPT ![a] = "available"] /\ UNCHANGED packages /\ Becomes(t, Nobody)
           ELSE /\ packages' \in {packages, packages \union {a}} /\ UNCHANGED metaApp
                /\ Becomes(t, [pool[t] EXCEPT !.stage = "set"])
    /\ UNCHANGED <<siloMutex, poolUnchanged>>

\* gs_plugin_app_remove()
RemoveRun(t) ==
    /\ Doing(t, "remove", "start")
    /\ LET a == pool[t].app
       IN  IF a \notin WithPackage
           THEN metaApp' = [metaApp EXCEPT ![a] = "unknown"] /\ UNCHANGED packages /\ Becomes(t, Nobody)
           ELSE /\ packages' \in {packages, packages \ {a}} /\ UNCHANGED metaApp
                /\ Becomes(t, [pool[t] EXCEPT !.stage = "set"])
    /\ UNCHANGED <<siloMutex, poolUnchanged>>

InstalledOnSuccess(t) ==                \* mutant: the state is not set after a failure
    /\ Doing(t, "install", "set") \/ Doing(t, "remove", "set")
    /\ metaApp' = [metaApp EXCEPT ![pool[t].app] =
            IF pool[t].op = "remove" THEN "available" ELSE IF pool[t].app \in packages THEN "installed" ELSE @]
    /\ Becomes(t, Nobody) /\ UNCHANGED <<siloMutex, packages, poolUnchanged>>

\* The command has ended: the app is taken to be installed, or removed.
InstallOrRemoveEnds(t) ==
    /\ Doing(t, "install", "set") \/ Doing(t, "remove", "set")
    /\ metaApp' = [metaApp EXCEPT ![pool[t].app] = IF pool[t].op = "install" THEN "installed" ELSE "available"]
    /\ Becomes(t, Nobody)
    /\ UNCHANGED <<siloMutex, packages, poolUnchanged>>

PoolStep(t) ==
    \/ AddSourcesLock(t) \/ AddSourcesCheck(t) \/ AddSourcesSet(t) \/ AddSourcesUnlock(t)
    \/ InstallStart(t) \/ InstallInit(t) \/ InstallRun(t) \/ RemoveRun(t) \/ InstallOrRemoveEnds(t)

WorkerStep == RefreshCache \/ NextApp \/ QueryComponent \/ CheckInstalled \/ SetChecked

VanillaNext == \/ \E kind \in {"list-apps", "refine"}, apps \in SUBSET MetaApps : MetaTask(kind, apps)
               \/ WorkerStep
               \/ \E t \in PoolThreads : StartPoolJob(t) \/ PoolStep(t)

\* A thread that waits for the mutex gets it some time.
VanillaFairness == SF_vanillaVars(WorkerStep) /\ \A t \in PoolThreads : SF_vanillaVars(PoolStep(t))

VanillaSpec == VanillaInit /\ [][VanillaNext]_vanillaVars /\ VanillaFairness

-----------------------------------------------------------------------------
\* No app is left in the state INSTALLING by a thread that has gone, whatever
\* else sets states while it works (gs_plugin_app_install()).
InstallingIsInstalled ==
    \A a \in MetaApps : metaApp[a] = "installing" =>
        \E t \in PoolThreads : ~Free(t) /\ pool[t].op = "install" /\ pool[t].app = a

\* The silo is in the hands of one thread: the mutex is locked by the one that
\* lists the sources, and by nobody else as long as it does
\* (gs_plugin_add_sources(), refine_app()).
SiloMutexExclusive ==
    \A t \in PoolThreads :
        siloMutex = t <=> ~Free(t) /\ pool[t].op = "sources" /\ pool[t].stage \in {"list", "set"}

\* Every job of a thread of the loader ends, unless refine_app() has left with
\* the mutex locked.
PoolJobsEnd == \A t \in PoolThreads : ~Free(t) ~> (Free(t) \/ siloMutex = "left")

\* So does every task of the worker.
WorkerRests == metaWorker = Nobody \/ siloMutex = "left"

\* The threads of the pool and of the worker that share the silo and the apps
\* leave neither of them to nobody.
VanillaInv == VanillaTypeOK /\ InstallingIsInstalled /\ SiloMutexExclusive
=============================================================================
