--------------------------- MODULE Backends_proofs ---------------------------
(***************************************************************************)
(* Proofs of the parts that share nothing with each other (MCBackends      *)
(* checks them in one run): the worker and the threads of the loader that  *)
(* share the silo and the apps of VanillaMeta leave neither of them to     *)
(* nobody; a file that is downloaded again stays whole and keeps the ETag  *)
(* of what it holds; the upgrade of Endless OS agrees with its daemon; and *)
(* the jobs that share rpm-ostreed settle their apps.                      *)
(***************************************************************************)
EXTENDS VanillaOS, EosUpdater, RpmOstree, Download, Integers, TLAPS

(* VanillaMeta.                                                              *)
MetaStates == {"unknown", "available", "installing", "installed"}

\* What a step of a thread of the loader does to its own job, and to no other.
LEMMA JobOfThread ==
    ASSUME VanillaTypeOK, NEW t \in PoolThreads, NEW job \in PoolJob \union {Nobody}, Becomes(t, job)
    PROVE  /\ pool' \in [PoolThreads -> PoolJob \union {Nobody}]
           /\ pool'[t] = job /\ \A u \in PoolThreads \ {t} : pool'[u] = pool[u]
BY DEF VanillaTypeOK, Becomes

\* A job that goes on keeps its type.
LEMMA JobType ==
    ASSUME VanillaTypeOK, NEW t \in PoolThreads, NEW op, NEW stage, Doing(t, op, stage)
    PROVE  /\ pool[t] \in PoolJob /\ pool[t] # Nobody /\ pool[t].op = op /\ pool[t].stage = stage
           /\ pool[t].app \in MetaApps \union {Nobody} /\ pool[t].apps \subseteq MetaApps
BY NobodyAssumption DEF VanillaTypeOK, Doing, PoolJob

\* Nothing but an install of the app makes it INSTALLING, and a thread that goes
\* on with its install keeps it so.
LEMMA InstallingKept ==
    ASSUME VanillaInv, NEW t \in PoolThreads,
           \A u \in PoolThreads \ {t} : pool'[u] = pool[u],
           \A a \in MetaApps : metaApp'[a] = "installing" =>
                \/ metaApp[a] = "installing" /\ ~(pool[t] # Nobody /\ pool[t].op = "install" /\ pool[t].app = a)
                \/ pool'[t] # Nobody /\ pool'[t].op = "install" /\ pool'[t].app = a
    PROVE  InstallingIsInstalled'
BY DEF VanillaInv, InstallingIsInstalled, Free

\* The steps of the worker.
LEMMA WorkerKeeps ==
    ASSUME VanillaInv, WorkerStep
    PROVE  VanillaInv'
<1> USE VanillaAssumption
<1>t. VanillaTypeOK /\ InstallingIsInstalled /\ SiloMutexExclusive
  BY DEF VanillaInv
<1>w. metaWorker \in WorkerTask /\ UNCHANGED <<packages, pool>>
  BY <1>t DEF WorkerStep, RefreshCache, NextApp, QueryComponent, CheckInstalled, SetChecked, VanillaTypeOK, workerUnchanged
<1>1. CASE RefreshCache
  <2>1. VanillaTypeOK'
    BY <1>t, <1>w, <1>1 DEF RefreshCache, VanillaTypeOK, WorkerTask
  <2>2. InstallingIsInstalled' /\ SiloMutexExclusive'
    BY <1>t, <1>w, <1>1 DEF RefreshCache, InstallingIsInstalled, SiloMutexExclusive, Free
  <2> QED
    BY <2>1, <2>2 DEF VanillaInv
<1>2. CASE NextApp
  <2>1. /\ metaWorker' \in WorkerTask \union {Nobody} /\ pluginCache' \subseteq MetaApps
        /\ UNCHANGED <<siloMutex, metaApp>>
    <3>1. ASSUME NEW a \in InSilo \ pluginCache, pluginCache' = pluginCache \union {a},
                 metaWorker' = [metaWorker EXCEPT !.stage = "query", !.app = a]
          PROVE  metaWorker' \in WorkerTask /\ pluginCache' \subseteq MetaApps
      <4>1. a \in MetaApps
        BY <3>1
      <4>2. metaWorker' \in WorkerTask
        BY <1>w, <3>1, <4>1 DEF WorkerTask
      <4> QED
        BY <1>t, <3>1, <4>1, <4>2 DEF VanillaTypeOK
    <3>2. ASSUME metaWorker' = [metaWorker EXCEPT !.caching = FALSE] PROVE metaWorker' \in WorkerTask
      BY <1>w, <3>2 DEF WorkerTask
    <3>3. ASSUME NEW a \in metaWorker.apps,
                 metaWorker' = [metaWorker EXCEPT !.stage = "query", !.app = a, !.apps = @ \ {a}]
          PROVE  metaWorker' \in WorkerTask
      <4> DEFINE left == metaWorker.apps \ {a}
      <4>1. a \in MetaApps /\ left \in SUBSET MetaApps
        BY <1>w DEF WorkerTask
      <4>2. metaWorker' = [metaWorker EXCEPT !.stage = "query", !.app = a, !.apps = left]
        BY <3>3
      <4> HIDE DEF left
      <4> QED
        BY <1>w, <4>1, <4>2 DEF WorkerTask
    <3> QED
      BY <1>t, <1>2, <3>1, <3>2, <3>3 DEF NextApp, VanillaTypeOK
  <2>2. VanillaTypeOK'
    BY <1>t, <1>w, <2>1 DEF VanillaTypeOK
  <2>3. InstallingIsInstalled' /\ SiloMutexExclusive'
    BY <1>t, <1>w, <2>1 DEF InstallingIsInstalled, SiloMutexExclusive, Free
  <2> QED
    BY <2>2, <2>3 DEF VanillaInv
<1>3. CASE QueryComponent
  <2>1. /\ siloMutex = "free" /\ siloMutex' \in {"free", "left"} /\ UNCHANGED <<metaApp, pluginCache>>
        /\ metaWorker' \in WorkerTask
    BY <1>w, <1>3 DEF QueryComponent, LeftBy, WorkerTask
  <2>2. VanillaTypeOK' /\ InstallingIsInstalled'
    BY <1>t, <1>w, <2>1 DEF VanillaTypeOK, InstallingIsInstalled, Free
  <2>3. SiloMutexExclusive'
    BY <1>t, <1>w, <2>1 DEF SiloMutexExclusive, Free
  <2> QED
    BY <2>2, <2>3 DEF VanillaInv
<1>4. CASE CheckInstalled
  <2>0. metaWorker' \in WorkerTask
    <3>1. (metaWorker.app \in packages) \in BOOLEAN
      OBVIOUS
    <3> QED
      BY <1>w, <1>4, <3>1 DEF CheckInstalled, WorkerTask
  <2>1. VanillaTypeOK'
    BY <1>t, <1>w, <1>4, <2>0 DEF CheckInstalled, VanillaTypeOK
  <2>2. InstallingIsInstalled' /\ SiloMutexExclusive'
    BY <1>t, <1>w, <1>4 DEF CheckInstalled, InstallingIsInstalled, SiloMutexExclusive, Free
  <2> QED
    BY <2>1, <2>2 DEF VanillaInv
<1>5. CASE SetChecked
  <2> DEFINE state == Checked(metaWorker.app, metaWorker.found)
  <2>1. state \in {"unknown", "available", "installed"}
    BY DEF Checked
  <2>2. /\ metaApp' = [metaApp EXCEPT ![metaWorker.app] = state] /\ UNCHANGED <<siloMutex, pluginCache>>
        /\ metaWorker' \in WorkerTask
    BY <1>w, <1>5 DEF SetChecked, WorkerTask
  <2> HIDE DEF state
  <2>3. VanillaTypeOK'
    BY <1>t, <1>w, <2>1, <2>2 DEF VanillaTypeOK
  <2>4. InstallingIsInstalled' /\ SiloMutexExclusive'
    BY <1>t, <1>w, <2>1, <2>2 DEF VanillaTypeOK, InstallingIsInstalled, SiloMutexExclusive, Free
  <2> QED
    BY <2>3, <2>4 DEF VanillaInv
<1> QED
  BY <1>1, <1>2, <1>3, <1>4, <1>5 DEF WorkerStep

-----------------------------------------------------------------------------
(* The steps of the threads of the loader.                                   *)

\* A step of an install or a remove leaves the silo alone.
LEMMA SiloLeftAlone ==
    ASSUME VanillaInv, NEW t \in PoolThreads, siloMutex' = siloMutex,
           \A u \in PoolThreads \ {t} : pool'[u] = pool[u],
           ~(~Free(t) /\ pool[t].op = "sources" /\ pool[t].stage \in {"list", "set"}),
           ~(pool'[t] # Nobody /\ pool'[t].op = "sources" /\ pool'[t].stage \in {"list", "set"})
    PROVE  SiloMutexExclusive'
BY DEF VanillaInv, SiloMutexExclusive, Free

LEMMA StartKeeps ==
    ASSUME VanillaInv, NEW t \in PoolThreads, StartPoolJob(t)
    PROVE  VanillaInv'
<1>t. VanillaTypeOK
  BY DEF VanillaInv
<1>1. PICK op \in {"sources", "install", "remove"}, a \in MetaApps \union {Nobody}, stage \in {"lock", "start"} :
        Becomes(t, Start(op, a, stage))
  BY DEF StartPoolJob
<1> DEFINE job == Start(op, a, stage)
<1>2. job \in PoolJob /\ job # Nobody /\ job.op = op /\ job.stage = stage
  <2>1. job \in PoolJob
    BY DEF Start, PoolJob
  <2> QED
    BY <2>1, NobodyAssumption DEF Start
<1> HIDE DEF job
<1>3. /\ pool' \in [PoolThreads -> PoolJob \union {Nobody}]
      /\ pool'[t] = job /\ \A u \in PoolThreads \ {t} : pool'[u] = pool[u]
  BY <1>t, <1>1, <1>2, JobOfThread DEF job
<1>4. pool[t] = Nobody /\ UNCHANGED <<siloMutex, packages, metaApp, pluginCache, metaWorker>>
  BY DEF StartPoolJob, Free, poolUnchanged
<1>5. VanillaTypeOK'
  BY <1>t, <1>3, <1>4 DEF VanillaTypeOK
<1>6. InstallingIsInstalled'
  BY <1>3, <1>4, InstallingKept
<1>7. SiloMutexExclusive'
  BY <1>2, <1>3, <1>4, SiloLeftAlone DEF Free
<1> QED
  BY <1>5, <1>6, <1>7 DEF VanillaInv

LEMMA Typed ==
    ASSUME VanillaTypeOK
    PROVE  metaApp \in [MetaApps -> MetaStates]
BY DEF VanillaTypeOK, MetaStates

\* The thread lists the sources: it has the mutex from one step to another, and
\* makes no app INSTALLING.
LEMMA SourcesKeep ==
    ASSUME VanillaInv, NEW t \in PoolThreads,
           AddSourcesLock(t) \/ AddSourcesCheck(t) \/ AddSourcesSet(t) \/ AddSourcesUnlock(t)
    PROVE  VanillaInv'
<1> USE VanillaAssumption
<1>t. VanillaTypeOK /\ SiloMutexExclusive
  BY DEF VanillaInv
<1>u. pool[t] \in PoolJob /\ pool[t] # Nobody /\ pool[t].op = "sources" /\ UNCHANGED <<packages, pluginCache, metaWorker>>
  BY <1>t, JobType DEF AddSourcesLock, AddSourcesCheck, AddSourcesSet, AddSourcesUnlock, poolUnchanged
<1>1. ASSUME NEW job \in PoolJob \union {Nobody}, Becomes(t, job), metaApp' \in [MetaApps -> MetaStates],
             siloMutex' \in {"free", t},
             siloMutex' = t <=> job # Nobody /\ job.op = "sources" /\ job.stage \in {"list", "set"},
             siloMutex' # siloMutex => {siloMutex, siloMutex'} = {"free", t},
             \A a \in MetaApps : metaApp'[a] \in {"unknown", "available", "installed", metaApp[a]}
      PROVE  VanillaInv'
  <2>1. /\ pool' \in [PoolThreads -> PoolJob \union {Nobody}]
        /\ pool'[t] = job /\ \A u \in PoolThreads \ {t} : pool'[u] = pool[u]
    BY <1>t, <1>1, JobOfThread
  <2>2. VanillaTypeOK'
    BY <1>t, <1>u, <1>1, <2>1 DEF VanillaTypeOK, MetaStates
  <2>3. InstallingIsInstalled'
    BY <1>u, <1>1, <2>1, InstallingKept
  <2>4. SiloMutexExclusive'
    BY <1>t, <1>1, <2>1 DEF SiloMutexExclusive, Free
  <2> QED
    BY <2>2, <2>3, <2>4 DEF VanillaInv
<1>2. CASE AddSourcesLock(t)
  <2>1. CASE siloMutex' = t /\ Becomes(t, [pool[t] EXCEPT !.stage = "list", !.apps = InSilo])
    <3> DEFINE job == [pool[t] EXCEPT !.stage = "list", !.apps = InSilo]
    <3>1. job \in PoolJob /\ job # Nobody /\ job.op = "sources" /\ job.stage = "list"
      BY <1>u, NobodyAssumption DEF PoolJob
    <3>2. siloMutex = "free" /\ metaApp' = metaApp
      BY <1>2 DEF AddSourcesLock
    <3> QED
      BY <1>t, <1>1, <2>1, <3>1, <3>2, Typed
  <2>2. CASE UNCHANGED siloMutex /\ Becomes(t, Nobody)
    <3>1. siloMutex = "free" /\ metaApp' = metaApp
      BY <1>2 DEF AddSourcesLock
    <3> QED
      BY <1>t, <1>1, <2>2, <3>1, Typed
  <2> QED
    BY <1>2, <2>1, <2>2 DEF AddSourcesLock
<1>3. CASE AddSourcesCheck(t)
  <2>1. PICK a \in pool[t].apps :
          Becomes(t, [pool[t] EXCEPT !.stage = "set", !.app = a, !.apps = @ \ {a}, !.found = a \in packages])
    BY <1>3 DEF AddSourcesCheck
  <2> DEFINE left == pool[t].apps \ {a}
             found == a \in packages
             job == [pool[t] EXCEPT !.stage = "set", !.app = a, !.apps = left, !.found = found]
  <2>2. a \in MetaApps /\ left \in SUBSET MetaApps /\ found \in BOOLEAN /\ Becomes(t, job)
    BY <1>u, <2>1 DEF PoolJob
  <2> HIDE DEF left, found
  <2>3. job \in PoolJob /\ job # Nobody /\ job.op = "sources" /\ job.stage = "set"
    BY <1>u, <2>2, NobodyAssumption DEF PoolJob
  <2>4. siloMutex = t /\ siloMutex' = t /\ metaApp' = metaApp
    BY <1>t, <1>3 DEF AddSourcesCheck, Doing, SiloMutexExclusive, Free
  <2> HIDE DEF job
  <2> QED
    BY <1>t, <1>1, <2>2, <2>3, <2>4, Typed
<1>4. CASE AddSourcesSet(t)
  <2> DEFINE job == [pool[t] EXCEPT !.stage = "list", !.app = Nobody, !.found = FALSE]
             state == Checked(pool[t].app, pool[t].found)
  <2>1. state \in {"unknown", "available", "installed"}
    BY DEF Checked
  <2>2. job \in PoolJob /\ job # Nobody /\ job.op = "sources" /\ job.stage = "list"
    BY <1>u, NobodyAssumption DEF PoolJob
  <2>3. siloMutex = t /\ siloMutex' = t /\ metaApp' = [metaApp EXCEPT ![pool[t].app] = state] /\ Becomes(t, job)
    BY <1>t, <1>4 DEF AddSourcesSet, Doing, SiloMutexExclusive, Free
  <2> HIDE DEF state, job
  <2>4. /\ metaApp' \in [MetaApps -> MetaStates]
        /\ \A a \in MetaApps : metaApp'[a] \in {"unknown", "available", "installed", metaApp[a]}
    BY <1>t, <2>1, <2>3, Typed DEF MetaStates
  <2> QED
    BY <1>1, <2>2, <2>3, <2>4
<1>5. CASE AddSourcesUnlock(t)
  <2>1. siloMutex = t /\ siloMutex' = "free" /\ metaApp' = metaApp /\ Becomes(t, Nobody)
    BY <1>t, <1>5 DEF AddSourcesUnlock, Doing, SiloMutexExclusive, Free
  <2> QED
    BY <1>t, <1>1, <2>1, Typed
<1> QED
  BY <1>2, <1>3, <1>4, <1>5

\* The thread installs or removes an app: the mutex is not its own, and the app
\* is INSTALLING at most as long as the thread is at its install.
LEMMA InstallsKeep ==
    ASSUME VanillaInv, NEW t \in PoolThreads,
           InstallStart(t) \/ InstallInit(t) \/ InstallRun(t) \/ RemoveRun(t) \/ InstallOrRemoveEnds(t)
    PROVE  VanillaInv'
<1> USE VanillaAssumption
<1> DEFINE a == pool[t].app
<1>t. VanillaTypeOK
  BY DEF VanillaInv
<1>u. pool[t] \in PoolJob /\ pool[t] # Nobody /\ pool[t].op \in {"install", "remove"}
  BY <1>t, JobType DEF InstallStart, InstallInit, InstallRun, RemoveRun, InstallOrRemoveEnds
<1>v. UNCHANGED <<siloMutex, pluginCache, metaWorker>>
  BY DEF InstallStart, InstallInit, InstallRun, RemoveRun, InstallOrRemoveEnds, poolUnchanged
<1> HIDE DEF a
<1>1. ASSUME NEW job \in PoolJob \union {Nobody}, Becomes(t, job), packages' \subseteq WithPackage,
             metaApp' \in [MetaApps -> MetaStates],
             job # Nobody => job.op = pool[t].op /\ job.app = a,
             \A b \in MetaApps : metaApp'[b] = "installing" =>
                \/ metaApp[b] = "installing" /\ (b # a \/ job # Nobody)
                \/ b = a /\ job # Nobody /\ job.op = "install"
      PROVE  VanillaInv'
  <2>1. /\ pool' \in [PoolThreads -> PoolJob \union {Nobody}]
        /\ pool'[t] = job /\ \A u \in PoolThreads \ {t} : pool'[u] = pool[u]
    BY <1>t, <1>1, JobOfThread
  <2>2. VanillaTypeOK'
    BY <1>t, <1>v, <1>1, <2>1 DEF VanillaTypeOK, MetaStates
  <2>3. InstallingIsInstalled'
    <3>1. ASSUME NEW b \in MetaApps, metaApp'[b] = "installing"
          PROVE  \/ metaApp[b] = "installing" /\ ~(pool[t] # Nobody /\ pool[t].op = "install" /\ pool[t].app = b)
                 \/ pool'[t] # Nobody /\ pool'[t].op = "install" /\ pool'[t].app = b
      BY <1>u, <1>1, <2>1, <3>1 DEF a
    <3> QED
      BY <2>1, <3>1, InstallingKept
  <2>4. SiloMutexExclusive'
    BY <1>u, <1>v, <1>1, <2>1, SiloLeftAlone DEF Free
  <2> QED
    BY <2>2, <2>3, <2>4 DEF VanillaInv
<1>e. ASSUME Becomes(t, Nobody), packages' \subseteq WithPackage, NEW s \in {"unknown", "available", "installed"},
             metaApp' = [metaApp EXCEPT ![a] = s]
      PROVE  VanillaInv'
  <2>1. metaApp' \in [MetaApps -> MetaStates] /\ \A b \in MetaApps : metaApp'[b] = IF b = a THEN s ELSE metaApp[b]
    BY <1>t, <1>e, Typed DEF MetaStates
  <2> QED
    BY <1>1, <1>e, <2>1
<1>g. ASSUME NEW job \in PoolJob, job # Nobody, job.op = pool[t].op, job.app = a,
             Becomes(t, job), packages' \subseteq WithPackage,
             \/ metaApp' = metaApp
             \/ metaApp' = [metaApp EXCEPT ![a] = "installing"] /\ job.op = "install"
      PROVE  VanillaInv'
  <2>1. metaApp' \in [MetaApps -> MetaStates]
    BY <1>t, <1>g, Typed DEF MetaStates
  <2>2. \A b \in MetaApps : metaApp'[b] # metaApp[b] => b = a /\ job.op = "install"
    BY <1>t, <1>g, Typed
  <2> QED
    BY <1>1, <1>g, <2>1, <2>2
<1>2. CASE InstallStart(t)
  <2>1. Doing(t, "install", "start") /\ UNCHANGED packages
    BY <1>2 DEF InstallStart
  <2>2. PICK init \in {"init", "run"} :
           \/ metaApp' = [metaApp EXCEPT ![a] = "available"] /\ Becomes(t, Nobody)
           \/ metaApp' = [metaApp EXCEPT ![a] = "installing"] /\ Becomes(t, [pool[t] EXCEPT !.stage = init])
    BY <1>2 DEF InstallStart, a
  <2> DEFINE job == [pool[t] EXCEPT !.stage = init]
  <2>3. job \in PoolJob /\ job # Nobody /\ job.op = "install" /\ pool[t].op = "install" /\ job.app = a
    BY <1>t, <1>u, <2>1, NobodyAssumption, JobType DEF PoolJob, a
  <2>4. packages' \subseteq WithPackage
    BY <1>t, <2>1 DEF VanillaTypeOK
  <2> HIDE DEF job
  <2>5. CASE metaApp' = [metaApp EXCEPT ![a] = "available"] /\ Becomes(t, Nobody)
    BY <1>e, <2>4, <2>5
  <2>6. CASE metaApp' = [metaApp EXCEPT ![a] = "installing"] /\ Becomes(t, job)
    BY <1>g, <2>3, <2>4, <2>6
  <2> QED
    BY <2>2, <2>5, <2>6 DEF job
<1>3. CASE InstallInit(t)
  <2> DEFINE job == [pool[t] EXCEPT !.stage = "run"]
  <2>1. job \in PoolJob /\ job # Nobody /\ job.op = pool[t].op /\ job.app = a
    BY <1>u, NobodyAssumption DEF PoolJob, a
  <2>2. UNCHANGED <<packages, metaApp>> /\ Becomes(t, job)
    BY <1>3 DEF InstallInit
  <2> HIDE DEF job
  <2> QED
    BY <1>t, <1>g, <2>1, <2>2 DEF VanillaTypeOK
<1>4. CASE InstallRun(t)
  <2> DEFINE job == [pool[t] EXCEPT !.stage = "set"]
  <2>1. job \in PoolJob /\ job # Nobody /\ job.op = pool[t].op /\ job.app = a
    BY <1>u, NobodyAssumption DEF PoolJob, a
  <2>2. CASE a \notin WithPackage
    <3>1. metaApp' = [metaApp EXCEPT ![a] = "available"] /\ Becomes(t, Nobody) /\ packages' \subseteq WithPackage
      BY <1>t, <1>4, <2>2 DEF InstallRun, VanillaTypeOK, a
    <3> QED
      BY <1>e, <3>1
  <2>3. CASE a \in WithPackage
    <3>1. packages' \subseteq WithPackage /\ metaApp' = metaApp /\ Becomes(t, job)
      BY <1>t, <1>4, <2>3 DEF InstallRun, VanillaTypeOK, a
    <3> HIDE DEF job
    <3> QED
      BY <1>g, <2>1, <3>1
  <2> QED
    BY <2>2, <2>3
<1>5. CASE RemoveRun(t)
  <2> DEFINE job == [pool[t] EXCEPT !.stage = "set"]
  <2>1. job \in PoolJob /\ job # Nobody /\ job.op = pool[t].op /\ job.app = a
    BY <1>u, NobodyAssumption DEF PoolJob, a
  <2>2. CASE a \notin WithPackage
    <3>1. metaApp' = [metaApp EXCEPT ![a] = "unknown"] /\ Becomes(t, Nobody) /\ packages' \subseteq WithPackage
      BY <1>t, <1>5, <2>2 DEF RemoveRun, VanillaTypeOK, a
    <3> QED
      BY <1>e, <3>1
  <2>3. CASE a \in WithPackage
    <3>1. packages' \subseteq WithPackage /\ metaApp' = metaApp /\ Becomes(t, job)
      BY <1>t, <1>5, <2>3 DEF RemoveRun, VanillaTypeOK, a
    <3> HIDE DEF job
    <3> QED
      BY <1>g, <2>1, <3>1
  <2> QED
    BY <2>2, <2>3
<1>6. CASE InstallOrRemoveEnds(t)
  <2> DEFINE state == IF pool[t].op = "install" THEN "installed" ELSE "available"
  <2>1. /\ metaApp' = [metaApp EXCEPT ![a] = state] /\ Becomes(t, Nobody) /\ UNCHANGED packages
        /\ state \in {"installed", "available"}
    BY <1>6 DEF InstallOrRemoveEnds, a
  <2> HIDE DEF state
  <2> QED
    BY <1>t, <1>e, <2>1 DEF VanillaTypeOK
<1> QED
  BY <1>2, <1>3, <1>4, <1>5, <1>6

-----------------------------------------------------------------------------
\* Whatever the worker, the jobs and the failures of apx do, no app is left
\* INSTALLING by a thread that has gone, and the silo is in the hands of one
\* thread (refine_app(), gs_plugin_add_sources(), gs_plugin_app_install()).
THEOREM SharedWithOneThread == VanillaSpec => []VanillaInv
<1>1. VanillaInit => VanillaInv
  BY VanillaAssumption DEF VanillaInit, VanillaInv, VanillaTypeOK, InstallingIsInstalled, SiloMutexExclusive, Free
<1>2. ASSUME VanillaInv, [VanillaNext]_vanillaVars PROVE VanillaInv'
  <2>1. CASE \E kind \in {"list-apps", "refine"}, apps \in SUBSET MetaApps : MetaTask(kind, apps)
    <3>1. PICK kind \in {"list-apps", "refine"}, apps \in SUBSET MetaApps : MetaTask(kind, apps)
      BY <2>1
    <3>2. /\ metaWorker' \in WorkerTask /\ UNCHANGED <<siloMutex, packages, metaApp, pluginCache, pool>>
      BY <3>1 DEF MetaTask, WorkerTask
    <3> QED
      BY <1>2, <3>2 DEF VanillaInv, VanillaTypeOK, InstallingIsInstalled, SiloMutexExclusive, Free
  <2>2. CASE WorkerStep
    BY <1>2, <2>2, WorkerKeeps
  <2>3. CASE \E t \in PoolThreads : StartPoolJob(t) \/ PoolStep(t)
    BY <1>2, <2>3, StartKeeps, SourcesKeep, InstallsKeep DEF PoolStep
  <2>4. CASE UNCHANGED vanillaVars
    BY <1>2, <2>4 DEF vanillaVars, VanillaInv, VanillaTypeOK, InstallingIsInstalled, SiloMutexExclusive, Free
  <2> QED
    BY <1>2, <2>1, <2>2, <2>3, <2>4 DEF VanillaNext
<1> QED
  BY <1>1, <1>2, PTL DEF VanillaSpec

-----------------------------------------------------------------------------
(* The download of a file.                                                   *)
\* What the larger of two numbers is.
LEMMA ExpectedIs ==
    ASSUME NEW m \in Nat, NEW n \in Nat
    PROVE  Expected(m, n) = IF m >= n THEN m ELSE n
<1> DEFINE k == IF m >= n THEN m ELSE n
<1>1. k \in {m, n} /\ \A y \in {m, n} : k >= y
  OBVIOUS
<1>2. \A x \in {m, n} : (\A y \in {m, n} : x >= y) => x = k
  OBVIOUS
<1>3. (CHOOSE x \in {m, n} : \A y \in {m, n} : x >= y) = k
  BY <1>1, <1>2
<1> QED
  BY <1>3 DEF Expected, Max

\* The steps of the server, the clock and the process, and the start of a
\* download.
LEMMA AroundKeeps ==
    ASSUME TransferInv, Tick \/ ServerChanges \/ Crash
    PROVE  TransferInv'
<1> USE DownloadAssumption DEF TransferInv, DownloadInv
<1>1. CASE Tick
  BY <1>1 DEF Tick, DownloadTypeOK, EtagOfContent, Whole, TransferCounts, TransferOfFile, TransferVersions, Times
<1>2. CASE ServerChanges
  <2>1. server.version <= server'.version /\ server' \in [version : Versions, modified : Times]
    BY <1>2 DEF ServerChanges, DownloadTypeOK, Versions, Times
  <2>2. DownloadInv' /\ TransferCounts' /\ TransferOfFile'
    BY <1>2, <2>1 DEF ServerChanges, DownloadTypeOK, EtagOfContent, Whole, TransferCounts, TransferOfFile
  <2>3. TransferVersions'
    BY <1>2, <2>1 DEF ServerChanges, DownloadTypeOK, TransferVersions, Versions, File, Transfer
  <2> QED
    BY <2>2, <2>3
<1>3. CASE Crash
  BY <1>3 DEF Crash, DownloadTypeOK, EtagOfContent, Whole, TransferCounts, TransferOfFile, TransferVersions
<1> QED
  BY <1>1, <1>2, <1>3

\* A file keeps what is true of it when the ratings are loaded from it or it
\* is deleted because they cannot be, and nothing is said of a download that
\* has ended.
LEMMA LoadKeeps ==
    ASSUME TransferInv, NEW file \in File, LoadRatings(file), UNCHANGED <<clock, server, systemFile>>,
           dl' = NoFile, user' \in Users \union {NoFile},
           file.version <= server.version,
           file.etag # NoFile => Whole(file) /\ file.version = file.etag
    PROVE  /\ TransferInv'
           /\ Whole(file) => cached' = file
<1> USE DownloadAssumption DEF TransferInv, DownloadInv
<1>1. cached' \in {NoFile, file} /\ (Whole(file) => cached' = file)
  BY DEF LoadRatings
<1>2. DownloadTypeOK'
  BY <1>1 DEF LoadRatings, DownloadTypeOK, Whole, File, Versions
<1>3. EtagOfContent'
  BY <1>1 DEF EtagOfContent, Whole
<1>4. TransferVersions'
  BY <1>1 DEF TransferVersions
<1> QED
  BY <1>1, <1>2, <1>3, <1>4 DEF TransferCounts, TransferOfFile

LEMMA NewTransferIs ==
    ASSUME DownloadTypeOK
    PROVE  /\ NewTransfer \in Transfer
           /\ NewTransfer.stage = "replacing" /\ NewTransfer.inPlace = (cached = NoFile)
           /\ NewTransfer.version = 0
           /\ NewTransfer.expected = 0 /\ NewTransfer.read = 0
           /\ NewTransfer.unwritten = 0 /\ NewTransfer.written = 0
           /\ ~NewTransfer.error /\ ~NewTransfer.discard
           /\ cached = NoFile => NewTransfer.lastEtag = NoFile /\ NewTransfer.lastModified = NoFile
           /\ cached # NoFile => NewTransfer.lastEtag = cached.etag
<1> USE DownloadAssumption
<1>1. DEFINE e == IF cached = NoFile THEN NoFile ELSE cached.etag
             m == IF cached = NoFile THEN NoFile ELSE cached.mtime
<1>2. e \in Etags /\ m \in Times \union {NoFile}
  BY DEF DownloadTypeOK, File, Etags
<1>3. clock \in Times /\ NoFile \in Etags /\ 0 \in 0..MaxVersion /\ 0 \in 0..Size
  BY DEF DownloadTypeOK, Etags
<1>4. (cached = NoFile) \in BOOLEAN
  OBVIOUS
<1> HIDE DEF e, m
<1>5. [stage |-> "replacing", lastEtag |-> e, lastModified |-> m,
       inPlace |-> cached = NoFile, version |-> 0, newEtag |-> NoFile,
       expected |-> 0, read |-> 0, unwritten |-> 0, written |-> 0, mtime |-> clock,
       error |-> FALSE, discard |-> FALSE, outOpen |-> FALSE, inOpen |-> FALSE] \in Transfer
  BY <1>2, <1>3, <1>4 DEF Transfer
<1> QED
  BY <1>5 DEF NewTransfer, e, m

LEMMA RefreshKeeps ==
    ASSUME TransferInv, NEW who \in Users, NEW forced \in BOOLEAN, Refresh(who, forced)
    PROVE  TransferInv' /\ (Whole(cached) => cached' = cached)
<1> USE DownloadAssumption DEF TransferInv, DownloadInv
<1>0. dl = NoFile /\ user' \in Users \union {NoFile} /\ UNCHANGED <<clock, server, systemFile>>
  BY DEF Refresh
<1>1. CASE dl' = NewTransfer /\ lastRefresh' = "none" /\ UNCHANGED <<cached, ratings>>
  <2>1. NewTransfer # NoFile
    BY NewTransferIs, NoFileAssumption
  <2>2. DownloadTypeOK' /\ EtagOfContent'
    BY <1>0, <1>1, NewTransferIs DEF DownloadTypeOK, EtagOfContent, Whole
  <2>3. TransferCounts'
    BY <1>0, <1>1, NewTransferIs DEF TransferCounts
  <2>4. TransferOfFile'
    BY <1>0, <1>1, NewTransferIs DEF TransferOfFile
  <2>5. TransferVersions'
    BY <1>0, <1>1, NewTransferIs DEF TransferVersions, DownloadTypeOK, Versions
  <2> QED
    BY <1>1, <2>2, <2>3, <2>4, <2>5
<1>2. CASE LoadRatings(cached) /\ cached # NoFile /\ UNCHANGED dl
  BY <1>0, <1>2, LoadKeeps DEF DownloadTypeOK, EtagOfContent, TransferVersions
<1>3. CASE LoadRatings(cached) /\ cached = NoFile /\ UNCHANGED dl
  BY <1>0, <1>3 DEF LoadRatings, Whole, DownloadTypeOK, EtagOfContent, TransferCounts, TransferOfFile, TransferVersions
<1>4. CASE lastRefresh' = "ok" /\ UNCHANGED <<cached, ratings, dl>>
  BY <1>0, <1>4 DEF DownloadTypeOK, EtagOfContent, Whole, TransferCounts, TransferOfFile, TransferVersions
<1> QED
  BY <1>1, <1>2, <1>3, <1>4 DEF Refresh

\* The steps of a download before it has a stream, and while it reads.
LEMMA ReplaceKeeps ==
    ASSUME TransferInv, DownloadReplaceFileCb
    PROVE  TransferInv' /\ (Whole(cached) => cached' = cached) /\ (dl' = NoFile => lastRefresh' = "failed")
<1> USE DownloadAssumption DEF TransferInv, DownloadInv
<1>0. dl # NoFile /\ dl \in Transfer /\ dl.stage = "replacing" /\ UNCHANGED <<clock, server, user>>
  BY DEF DownloadReplaceFileCb, DownloadTypeOK
<1>1. CASE NotDownloaded
  BY <1>0, <1>1 DEF NotDownloaded, DownloadTypeOK, EtagOfContent, Whole, TransferCounts, TransferOfFile, TransferVersions
<1>2. CASE /\ OpenInPlace /\ dl' = [dl EXCEPT !.stage = "requesting", !.outOpen = TRUE, !.mtime = clock]
           /\ UNCHANGED <<systemFile, ratings, lastRefresh>>
  <2>1. dl' \in Transfer /\ dl' # NoFile
    <3>9. dl' \in Transfer
      BY <1>0, <1>2 DEF Transfer, DownloadTypeOK
    <3> QED
      BY <3>9, NoFileAssumption
  <2>2. cached' \in File \union {NoFile} /\ cached' # NoFile
    BY <1>0, <1>2, NoFileAssumption DEF OpenInPlace, DownloadTypeOK, TransferOfFile, File, Etags
  <2>3. DownloadTypeOK'
    BY <1>0, <1>2, <2>1, <2>2 DEF DownloadTypeOK
  <2>4. EtagOfContent'
    BY <1>0, <1>2 DEF OpenInPlace, EtagOfContent, Whole
  <2>5. TransferCounts'
    BY <1>0, <1>2 DEF TransferCounts, Transfer
  <2>6. TransferOfFile'
    BY <1>0, <1>2, <2>2 DEF OpenInPlace, TransferOfFile, TransferCounts, Transfer
  <2>7. TransferVersions'
    BY <1>0, <1>2 DEF OpenInPlace, TransferVersions, Transfer, DownloadTypeOK, Versions
  <2>8. Whole(cached) => cached' = cached
    BY <1>0, <1>2 DEF OpenInPlace, TransferOfFile, Whole
  <2> QED
    BY <2>1, <2>3, <2>4, <2>5, <2>6, <2>7, <2>8
<1> QED
  BY <1>1, <1>2 DEF DownloadReplaceFileCb

LEMMA OpenKeeps ==
    ASSUME TransferInv, OpenInputStreamCb
    PROVE  TransferInv' /\ UNCHANGED cached /\ dl' # NoFile
<1> USE DownloadAssumption DEF TransferInv, DownloadInv
<1>0. /\ dl # NoFile /\ dl \in Transfer /\ dl.stage = "requesting" /\ dl.outOpen
      /\ dl.written + dl.unwritten = 0 /\ dl.read = 0 /\ dl.written = 0 /\ dl.unwritten = 0
      /\ cached # NoFile /\ cached \in File
      /\ UNCHANGED <<clock, server, user, cached, systemFile, ratings, lastRefresh>>
  BY DEF OpenInputStreamCb, DownloadTypeOK, TransferCounts, TransferOfFile, Transfer
<1>5. EtagOfContent'
  BY <1>0 DEF EtagOfContent, Whole
<1>6. server.version \in 0..MaxVersion /\ server.version \in Versions /\ server.version \in Etags /\ NoFile \in Etags
  BY DEF DownloadTypeOK, Versions, Etags
<1>1. CASE \E stream \in BOOLEAN : dl' = Finish([dl EXCEPT !.inOpen = stream], TRUE)
  <2>1. PICK stream \in BOOLEAN : dl' = Finish([dl EXCEPT !.inOpen = stream], TRUE)
    BY <1>1
  <2>2. dl' \in Transfer /\ dl' # NoFile
    <3>9. dl' \in Transfer
      BY <1>0, <2>1 DEF Transfer, Finish
    <3> QED
      BY <3>9, NoFileAssumption
  <2>3. DownloadTypeOK'
    BY <1>0, <2>2 DEF DownloadTypeOK
  <2>4. TransferCounts' /\ TransferOfFile' /\ TransferVersions'
    BY <1>0, <2>1 DEF TransferCounts, TransferOfFile, TransferVersions, Finish, Transfer
  <2> QED
    BY <1>0, <1>5, <2>2, <2>3, <2>4
<1>2. CASE /\ NotModified(dl)
           /\ dl' = Finish([dl EXCEPT !.inOpen = TRUE, !.discard = TRUE, !.newEtag = dl.lastEtag,
                                      !.version = server.version], FALSE)
  <2>2. dl' \in Transfer /\ dl' # NoFile
    <3>9. dl' \in Transfer
      BY <1>0, <1>2, <1>6 DEF Transfer, Finish
    <3> QED
      BY <3>9, NoFileAssumption
  <2>3. DownloadTypeOK'
    BY <1>0, <2>2 DEF DownloadTypeOK
  <2>5. ~dl.inPlace
    BY <1>0, <1>2 DEF NotModified, TransferOfFile
  <2>4. TransferCounts' /\ TransferOfFile' /\ TransferVersions'
    BY <1>0, <1>2, <1>6, <2>5 DEF TransferCounts, TransferOfFile, TransferVersions, Finish, Transfer, File, Versions
  <2> QED
    BY <1>0, <1>5, <2>2, <2>3, <2>4
<1>3. CASE \E etag \in {server.version, NoFile}, length \in {0, Size} :
                dl' = [dl EXCEPT !.stage = "reading", !.inOpen = TRUE, !.version = server.version,
                                 !.newEtag = etag, !.expected = length]
  <2>1. PICK etag \in {server.version, NoFile}, length \in {0, Size} :
                dl' = [dl EXCEPT !.stage = "reading", !.inOpen = TRUE, !.version = server.version,
                                 !.newEtag = etag, !.expected = length]
    BY <1>3
  <2>2. dl' \in Transfer /\ dl' # NoFile
    <3>1. length \in 0..Size /\ etag \in Etags
      BY <1>6
    <3>2. dl' \in Transfer
      BY <1>0, <2>1, <3>1, <1>6 DEF Transfer
    <3> QED
      BY <3>2, NoFileAssumption
  <2>3. DownloadTypeOK'
    BY <1>0, <2>2 DEF DownloadTypeOK
  <2>4. TransferCounts' /\ TransferOfFile' /\ TransferVersions'
    BY <1>0, <2>1, <1>6 DEF TransferCounts, TransferOfFile, TransferVersions, Transfer, File, Versions
  <2> QED
    BY <1>0, <1>5, <2>2, <2>3, <2>4
<1> QED
  BY <1>1, <1>2, <1>3 DEF OpenInputStreamCb

LEMMA ReadKeeps ==
    ASSUME TransferInv, ReadBytesCb
    PROVE  TransferInv' /\ UNCHANGED cached /\ dl' # NoFile
<1> USE DownloadAssumption DEF TransferInv, DownloadInv
<1>0. /\ dl # NoFile /\ dl \in Transfer /\ dl.stage = "reading" /\ dl.outOpen /\ ~dl.discard
      /\ dl.unwritten = 0 /\ dl.written = dl.read
      /\ cached # NoFile /\ cached \in File
      /\ UNCHANGED <<clock, server, user, cached, systemFile, ratings, lastRefresh>>
  <2>1. dl # NoFile /\ dl \in Transfer /\ dl.stage = "reading"
    BY DEF ReadBytesCb, DownloadTypeOK
  <2>2. cached # NoFile /\ cached \in File
    BY <2>1 DEF TransferOfFile, DownloadTypeOK
  <2>3. dl.outOpen /\ ~dl.discard /\ dl.unwritten = 0 /\ dl.written = dl.read
    BY <2>1 DEF TransferCounts, Transfer
  <2> QED
    BY <2>1, <2>2, <2>3 DEF ReadBytesCb
<1>5. EtagOfContent'
  BY <1>0 DEF EtagOfContent, Whole
<1>1. CASE dl' = Finish(dl, TRUE)
  <2>2. dl' \in Transfer /\ dl' # NoFile
    <3>9. dl' \in Transfer
      BY <1>0, <1>1 DEF Transfer, Finish
    <3> QED
      BY <3>9, NoFileAssumption
  <2>3. DownloadTypeOK'
    BY <1>0, <2>2 DEF DownloadTypeOK
  <2>4. TransferCounts' /\ TransferOfFile' /\ TransferVersions'
    BY <1>0, <1>1 DEF TransferCounts, TransferOfFile, TransferVersions, Finish, Transfer
  <2> QED
    BY <1>0, <1>5, <2>2, <2>3, <2>4
<1>2. CASE dl.read = Size /\ dl' = Finish([dl EXCEPT !.expected = dl.read], FALSE)
  <2>2. dl' \in Transfer /\ dl' # NoFile
    <3>9. dl' \in Transfer
      BY <1>0, <1>2 DEF Transfer, Finish
    <3> QED
      BY <3>9, NoFileAssumption
  <2>3. DownloadTypeOK'
    BY <1>0, <2>2 DEF DownloadTypeOK
  <2>4. TransferCounts' /\ TransferOfFile' /\ TransferVersions'
    BY <1>0, <1>2 DEF TransferCounts, TransferOfFile, TransferVersions, Finish, Transfer
  <2> QED
    BY <1>0, <1>5, <2>2, <2>3, <2>4
<1>3. CASE \E n \in 1..(Size - dl.read) :
            dl' = [dl EXCEPT !.stage = "writing", !.read = @ + n, !.unwritten = n,
                             !.expected = Expected(@, dl.read + n)]
  <2>1. PICK n \in 1..(Size - dl.read) :
            dl' = [dl EXCEPT !.stage = "writing", !.read = @ + n, !.unwritten = n,
                             !.expected = Expected(@, dl.read + n)]
    BY <1>3
  <2>5. PICK e \in 0..Size : e = Expected(dl.expected, dl.read + n) /\ dl.read + n <= e
    BY <1>0, ExpectedIs DEF Transfer
  <2>6. dl' = [dl EXCEPT !.stage = "writing", !.read = @ + n, !.unwritten = n, !.expected = e]
    BY <2>1, <2>5
  <2>7. dl.read + n \in 0..Size /\ n \in 0..Size /\ dl.read \in Nat
    BY <1>0 DEF Transfer
  <2>2. dl' \in Transfer /\ dl' # NoFile
    <3>9. dl' \in Transfer
      BY <1>0, <2>6, <2>7 DEF Transfer
    <3> QED
      BY <3>9, NoFileAssumption
  <2>3. DownloadTypeOK'
    BY <1>0, <2>2 DEF DownloadTypeOK
  <2>4. TransferCounts' /\ TransferOfFile' /\ TransferVersions'
    BY <1>0, <2>5, <2>6, <2>7 DEF TransferCounts, TransferOfFile, TransferVersions, Transfer
  <2> QED
    BY <1>0, <1>5, <2>2, <2>3, <2>4
<1> QED
  BY <1>1, <1>2, <1>3 DEF ReadBytesCb

LEMMA WriteKeeps ==
    ASSUME TransferInv, WriteBytesCb
    PROVE  TransferInv' /\ (Whole(cached) => cached' = cached) /\ dl' # NoFile
<1> USE DownloadAssumption DEF TransferInv, DownloadInv
<1>0. /\ dl # NoFile /\ dl \in Transfer /\ dl.stage = "writing" /\ dl.outOpen /\ ~dl.discard
      /\ cached # NoFile /\ cached \in File
      /\ UNCHANGED <<clock, server, user, systemFile, ratings, lastRefresh>>
  <2>1. dl # NoFile /\ dl \in Transfer /\ dl.stage = "writing"
    BY DEF WriteBytesCb, DownloadTypeOK
  <2> QED
    BY <2>1 DEF WriteBytesCb, DownloadTypeOK, TransferCounts, TransferOfFile
<1>1. CASE dl' = Finish(dl, TRUE) /\ UNCHANGED cached
  <2>1. dl' \in Transfer
    BY <1>0, <1>1 DEF Transfer, Finish
  <2>2. DownloadTypeOK' /\ EtagOfContent'
    BY <1>0, <1>1, <2>1 DEF DownloadTypeOK, EtagOfContent, Whole
  <2>3. TransferCounts' /\ TransferOfFile' /\ TransferVersions'
    BY <1>0, <1>1 DEF TransferCounts, TransferOfFile, TransferVersions, Finish, Transfer
  <2> QED
    BY <1>1, <2>1, <2>2, <2>3, NoFileAssumption
<1>2. CASE \E n \in 1..dl.unwritten :
            /\ dl' = [dl EXCEPT !.stage = IF n = dl.unwritten THEN "reading" ELSE "writing",
                                !.unwritten = @ - n, !.written = @ + n, !.mtime = clock]
            /\ IF dl.inPlace
               THEN cached' = [version |-> dl.version, units |-> dl.written + n,
                               etag |-> NoFile, mtime |-> clock]
               ELSE UNCHANGED cached
  <2>1. PICK n \in 1..dl.unwritten :
            /\ dl' = [dl EXCEPT !.stage = IF n = dl.unwritten THEN "reading" ELSE "writing",
                                !.unwritten = @ - n, !.written = @ + n, !.mtime = clock]
            /\ IF dl.inPlace
               THEN cached' = [version |-> dl.version, units |-> dl.written + n,
                               etag |-> NoFile, mtime |-> clock]
               ELSE UNCHANGED cached
    BY <1>2
  <2>2. /\ n \in Nat \ {0} /\ dl.unwritten - n \in 0..Size /\ dl.written + n \in 0..Size
        /\ dl.written + dl.unwritten = dl.read /\ dl.read <= dl.expected /\ clock \in Times
    BY <1>0 DEF TransferCounts, Transfer, DownloadTypeOK
  <2>3. dl' \in Transfer
    BY <1>0, <2>1, <2>2 DEF Transfer
  <2>4. dl' # NoFile
    BY <2>3, NoFileAssumption
  <2>5. cached' \in File
    BY <1>0, <2>1, <2>2 DEF File, Transfer, Etags
  <2>6. cached' # NoFile
    BY <2>5, NoFileAssumption
  <2>7. DownloadTypeOK'
    BY <1>0, <2>3, <2>5 DEF DownloadTypeOK
  <2>8. EtagOfContent'
    BY <1>0, <2>1 DEF EtagOfContent, Whole
  <2>9. TransferCounts'
    <3>1. dl'.written + dl'.unwritten = dl'.read /\ dl'.read <= dl'.expected
      BY <1>0, <2>1, <2>2 DEF Transfer
    <3>2. dl'.stage \in {"reading", "writing"} /\ (dl'.stage = "reading" => dl'.unwritten = 0)
      BY <1>0, <2>1 DEF Transfer
    <3>3. dl'.outOpen /\ ~dl'.discard
      BY <1>0, <2>1 DEF Transfer
    <3> QED
      BY <3>1, <3>2, <3>3 DEF TransferCounts
  <2>10. TransferOfFile'
    <3>1. dl'.stage \in {"reading", "writing"} /\ dl'.inPlace = dl.inPlace /\ dl'.lastEtag = dl.lastEtag
          /\ dl'.lastModified = dl.lastModified /\ dl'.read = dl.read /\ dl'.written = dl.written + n /\ dl'.version = dl.version
      BY <1>0, <2>1 DEF Transfer
    <3>2. dl.inPlace => cached'.etag = NoFile /\ cached'.units = dl'.written /\ dl'.written # 0 /\ cached'.version = dl.version
      BY <1>0, <2>1, <2>2, <3>1 DEF Transfer
    <3>3. ~dl.inPlace => cached' = cached
      BY <2>1
    <3> QED
      BY <1>0, <2>6, <3>1, <3>2, <3>3 DEF TransferOfFile
  <2>11. TransferVersions'
    <3>1. dl'.stage \in {"reading", "writing"} /\ dl'.newEtag = dl.newEtag /\ dl'.version = dl.version
      BY <1>0, <2>1 DEF Transfer
    <3>2. dl.version <= server.version /\ dl.version \in Versions /\ cached.version <= dl.version
          /\ dl.newEtag \in {dl.version, NoFile}
      BY <1>0 DEF TransferVersions
    <3>3. cached'.version \in {cached.version, dl.version}
      BY <2>1
    <3>4. dl.version <= dl.version
      BY <3>2 DEF Versions
    <3>5. server.version \in Nat /\ cached.version \in Nat /\ cached.version <= server.version
      BY <1>0 DEF DownloadTypeOK, Versions, File, TransferVersions
    <3> QED
      BY <1>0, <3>1, <3>2, <3>3, <3>4, <3>5 DEF TransferVersions
  <2>12. Whole(cached) => cached' = cached
    BY <1>0, <2>1, <2>2 DEF Whole, TransferOfFile, Transfer
  <2> QED
    BY <2>4, <2>7, <2>8, <2>9, <2>10, <2>11, <2>12
<1> QED
  BY <1>1, <1>2 DEF WriteBytesCb

\* The steps that close the streams.
LEMMA CloseOutputKeeps ==
    ASSUME TransferInv, CloseOutputCb
    PROVE  TransferInv' /\ (Whole(cached) => Whole(cached') /\ cached'.version >= cached.version) /\ dl' # NoFile
<1> USE DownloadAssumption DEF TransferInv, DownloadInv
<1>0. /\ dl # NoFile /\ dl \in Transfer /\ dl.stage = "closing" /\ dl.outOpen
      /\ cached # NoFile /\ cached \in File
      /\ UNCHANGED <<clock, server, user, systemFile, ratings, lastRefresh>>
  <2>1. dl # NoFile /\ dl \in Transfer /\ dl.stage = "closing"
    BY DEF CloseOutputCb, DownloadTypeOK
  <2> QED
    BY <2>1 DEF CloseOutputCb, DownloadTypeOK, TransferOfFile
<1>4. Whole(cached) => cached.version >= cached.version
  BY <1>0 DEF File
<1>1. CASE /\ ~Cancelled(dl)
           /\ cached' = IF dl.inPlace THEN cached
                        ELSE [version |-> dl.version, units |-> dl.written,
                              etag |-> NoFile, mtime |-> dl.mtime]
           /\ dl' = [dl EXCEPT !.outOpen = FALSE, !.discard = FALSE]
  <2>1. /\ ~dl.error /\ ~dl.discard /\ dl.unwritten = 0 /\ dl.read = Size /\ dl.written = Size
        /\ dl.version \in Versions /\ dl.version <= server.version /\ cached.version <= dl.version
        /\ dl.newEtag \in {dl.version, NoFile}
    BY <1>0, <1>1 DEF Cancelled, TransferCounts, TransferVersions, Transfer
  <2>2. dl' \in Transfer
    BY <1>0, <1>1 DEF Transfer
  <2>3. dl' # NoFile
    BY <2>2, NoFileAssumption
  <2>4. cached' \in File
    BY <1>0, <1>1 DEF File, Transfer, Etags
  <2>5. cached' # NoFile
    BY <2>4, NoFileAssumption
  <2>6. cached'.version = dl.version /\ cached'.units = Size /\ cached'.etag = NoFile
    BY <1>0, <1>1, <2>1 DEF TransferOfFile
  <2>7. DownloadTypeOK' /\ EtagOfContent'
    BY <1>0, <2>2, <2>4, <2>6 DEF DownloadTypeOK, EtagOfContent
  <2>8. TransferCounts'
    BY <1>0, <1>1, <2>1 DEF TransferCounts, Transfer
  <2>9. TransferOfFile'
    BY <1>0, <1>1, <2>1, <2>5, <2>6 DEF TransferOfFile, Transfer
  <2>10. TransferVersions'
    BY <1>0, <1>1, <2>1, <2>6 DEF TransferVersions, Transfer, Versions
  <2>11. Whole(cached') /\ cached'.version >= cached.version
    BY <1>0, <2>1, <2>5, <2>6 DEF Whole, Versions, File
  <2> QED
    BY <2>3, <2>7, <2>8, <2>9, <2>10, <2>11
<1>2. ASSUME NEW fatal \in {TRUE, ~dl.discard}, UNCHANGED cached,
             dl' = [dl EXCEPT !.outOpen = FALSE, !.error = @ \/ fatal, !.discard = FALSE]
      PROVE  /\ TransferInv' /\ dl' # NoFile
             /\ Whole(cached) => Whole(cached') /\ cached'.version >= cached.version
  <2>2. dl' \in Transfer
    BY <1>0, <1>2 DEF Transfer
  <2>7. DownloadTypeOK' /\ EtagOfContent'
    BY <1>0, <1>2, <2>2 DEF DownloadTypeOK, EtagOfContent, Whole
  <2>3. /\ dl'.stage = "closing" /\ ~dl'.discard /\ ~dl'.outOpen
        /\ dl'.error = (dl.error \/ fatal)
        /\ dl'.written = dl.written /\ dl'.unwritten = dl.unwritten /\ dl'.read = dl.read /\ dl'.expected = dl.expected
        /\ dl'.inPlace = dl.inPlace /\ dl'.lastEtag = dl.lastEtag /\ dl'.lastModified = dl.lastModified
        /\ dl'.newEtag = dl.newEtag /\ dl'.version = dl.version
    BY <1>0, <1>2 DEF Transfer
  <2>4. ~dl'.error => ~dl.error /\ dl.read = 0
    BY <1>0, <2>3 DEF TransferCounts
  <2>8. TransferCounts'
    BY <1>0, <2>3, <2>4 DEF TransferCounts
  <2>9. TransferOfFile'
    BY <1>0, <1>2, <2>3, <2>4 DEF TransferOfFile
  <2>10. TransferVersions'
    BY <1>0, <1>2, <2>3, <2>4 DEF TransferVersions
  <2> QED
    BY <1>2, <1>4, <2>2, <2>7, <2>8, <2>9, <2>10, NoFileAssumption
<1> QED
  BY <1>1, <1>2 DEF CloseOutputCb

LEMMA CloseInputKeeps ==
    ASSUME TransferInv, CloseInputCb
    PROVE  TransferInv' /\ UNCHANGED cached /\ dl' # NoFile
<1> USE DownloadAssumption DEF TransferInv, DownloadInv
<1>0. /\ dl # NoFile /\ dl \in Transfer /\ dl' = [dl EXCEPT !.inOpen = FALSE]
      /\ UNCHANGED <<clock, server, user, cached, systemFile, ratings, lastRefresh>>
  BY DEF CloseInputCb, DownloadTypeOK
<1>1. dl' \in Transfer
  BY <1>0 DEF Transfer
<1>2. DownloadTypeOK' /\ EtagOfContent'
  BY <1>0, <1>1 DEF DownloadTypeOK, EtagOfContent, Whole
<1>3. TransferCounts' /\ TransferOfFile' /\ TransferVersions'
  BY <1>0 DEF TransferCounts, TransferOfFile, TransferVersions, Transfer
<1> QED
  BY <1>0, <1>1, <1>2, <1>3, NoFileAssumption

\* The end of a download: what becomes of the file, with the ETag that is stored
\* with it or its old one.
LEMMA DownloadedKeeps ==
    ASSUME TransferInv, DownloadFileCb
    PROVE  /\ TransferInv' /\ dl' = NoFile
           /\ Whole(cached) => Whole(cached') /\ cached'.version = cached.version
           /\ lastRefresh' = "ok" => Closed(dl) /\ dl.stage = "closing" /\ ~dl.error
<1> USE DownloadAssumption DEF TransferInv, DownloadInv
<1>0. /\ dl # NoFile /\ dl \in Transfer /\ dl.stage = "closing" /\ Closed(dl)
      /\ cached # NoFile /\ cached \in File /\ UNCHANGED <<clock, server, user>>
  <2>1. dl # NoFile /\ dl \in Transfer /\ dl.stage = "closing"
    BY DEF DownloadFileCb, DownloadTypeOK
  <2> QED
    BY <2>1 DEF DownloadFileCb, DownloadTypeOK, TransferOfFile
<1>1. CASE dl.error /\ NotDownloaded
  BY <1>0, <1>1 DEF NotDownloaded, DownloadTypeOK, EtagOfContent, Whole, TransferCounts, TransferOfFile, TransferVersions
<1>2. CASE ~dl.error /\ \E etag \in {dl.newEtag, cached.etag} : Downloaded([cached EXCEPT !.etag = etag])
  <2>1. PICK etag \in {dl.newEtag, cached.etag} : Downloaded([cached EXCEPT !.etag = etag])
    BY <1>2
  <2>2. PICK file \in File :
            /\ file = [cached EXCEPT !.etag = etag] /\ file.etag = etag
            /\ file.version = cached.version /\ file.units = cached.units
    <3>1. etag \in Etags
      BY <1>0, <2>1 DEF Transfer, File
    <3>2. cached.version \in 0..MaxVersion /\ cached.units \in 0..Size /\ cached.mtime \in Times
          /\ cached = [version |-> cached.version, units |-> cached.units, etag |-> cached.etag, mtime |-> cached.mtime]
      BY <1>0 DEF File
    <3>3. [cached EXCEPT !.etag = etag] =
              [version |-> cached.version, units |-> cached.units, etag |-> etag, mtime |-> cached.mtime]
      BY <3>2
    <3> QED
      BY <3>1, <3>2, <3>3 DEF File
  <2>3. etag # NoFile => Whole(cached) /\ cached.version = etag
    <3>1. etag # cached.etag => dl.read = Size
      BY <1>0, <1>2 DEF TransferCounts, TransferOfFile
    <3>2. dl.read = Size => cached.units = Size /\ cached.version = dl.version /\ dl.version # 0 /\ cached.etag = NoFile
                            /\ dl.newEtag \in {dl.version, NoFile}
      BY <1>0, <1>2 DEF TransferOfFile, TransferVersions, Closed, Versions
    <3>3. CASE etag = cached.etag
      BY <1>0, <3>3 DEF EtagOfContent
    <3>4. CASE etag # cached.etag
      BY <1>0, <2>1, <3>1, <3>2, <3>4 DEF Whole
    <3> QED
      BY <3>3, <3>4
  <2>4. file # NoFile /\ (Whole(file) <=> Whole(cached))
    BY <1>0, <2>2, NoFileAssumption DEF Whole
  <2>5. file.version <= server.version /\ (file.etag # NoFile => Whole(file) /\ file.version = file.etag)
    BY <1>0, <2>2, <2>3, <2>4 DEF TransferVersions
  <2>6. Downloaded(file)
    BY <2>1, <2>2
  <2>7. CASE user = "ratings"
    <3>1. LoadRatings(file) /\ UNCHANGED systemFile /\ dl' = NoFile
      BY <2>6, <2>7 DEF Downloaded
    <3>2. user' \in Users \union {NoFile}
      BY <1>0 DEF DownloadTypeOK
    <3>3. TransferInv' /\ (Whole(file) => cached' = file)
      BY <1>0, <2>5, <3>1, <3>2, LoadKeeps
    <3> QED
      BY <1>0, <1>2, <2>2, <2>4, <3>1, <3>3
  <2>8. CASE user # "ratings"
    <3>1. cached' = file /\ UNCHANGED ratings /\ dl' = NoFile /\ lastRefresh' \in {"ok", "failed"}
          /\ systemFile' \in {systemFile, [file EXCEPT !.mtime = clock, !.etag = NoFile]}
      BY <2>6, <2>8 DEF Downloaded
    <3>2. [file EXCEPT !.mtime = clock, !.etag = NoFile] \in File
      BY <2>2 DEF File, DownloadTypeOK, Etags
    <3>3. DownloadTypeOK'
      BY <1>0, <2>2, <3>1, <3>2 DEF DownloadTypeOK
    <3>4. EtagOfContent' /\ TransferCounts' /\ TransferOfFile' /\ TransferVersions'
      BY <1>0, <2>5, <3>1 DEF EtagOfContent, TransferCounts, TransferOfFile, TransferVersions
    <3> QED
      BY <1>0, <1>2, <2>2, <2>4, <3>1, <3>3, <3>4
  <2> QED
    BY <2>7, <2>8
<1> QED
  BY <1>0, <1>1, <1>2 DEF DownloadFileCb

LEMMA TransferHolds == DownloadSpec => []TransferInv
<1>1. DownloadInit => TransferInv
  BY DownloadAssumption DEF DownloadInit, TransferInv, DownloadInv, DownloadTypeOK, EtagOfContent, TransferCounts,
     TransferOfFile, TransferVersions, Versions, Times
<1>2. TransferInv /\ [DownloadNext]_downloadVars => TransferInv'
  <2> SUFFICES ASSUME TransferInv, [DownloadNext]_downloadVars PROVE TransferInv'
    OBVIOUS
  <2>1. CASE UNCHANGED downloadVars
    BY <2>1 DEF downloadVars, TransferInv, DownloadInv, DownloadTypeOK, EtagOfContent, Whole, TransferCounts,
       TransferOfFile, TransferVersions
  <2>2. CASE DownloadNext
    BY <2>2, AroundKeeps, RefreshKeeps, ReplaceKeeps, OpenKeeps, ReadKeeps, WriteKeeps, CloseOutputKeeps,
       CloseInputKeeps, DownloadedKeeps DEF DownloadNext, DownloadStep
  <2> QED
    BY <2>1, <2>2
<1> QED
  BY <1>1, <1>2, PTL DEF DownloadSpec

\* The cached file and its ETag belong together in every state, whoever
\* downloads it and whatever fails or crashes on the way (lib/gs-download-utils.c).
THEOREM EtagIsOfTheFile == DownloadSpec => []DownloadInv
<1>1. TransferInv => DownloadInv
  BY DEF TransferInv
<1> QED
  BY <1>1, TransferHolds, PTL

\* Each step of a download keeps what the file holds.
LEMMA StepKeepsWhole ==
    ASSUME TransferInv, DownloadNext, Whole(cached)
    PROVE  Whole(cached') /\ cached'.version >= cached.version
<1>0. cached.version >= cached.version
  BY DownloadAssumption DEF TransferInv, DownloadInv, DownloadTypeOK, Whole, File
<1>1. CASE Tick \/ ServerChanges \/ Crash
  BY <1>0, <1>1 DEF Tick, ServerChanges, Crash
<1>2. CASE \E who \in Users, forced \in BOOLEAN : Refresh(who, forced)
  BY <1>0, <1>2, RefreshKeeps
<1>3. CASE DownloadStep
  <2>1. CASE CloseOutputCb
    BY <2>1, CloseOutputKeeps
  <2>2. CASE DownloadFileCb
    BY <1>0, <2>2, DownloadedKeeps
  <2>3. CASE DownloadReplaceFileCb \/ OpenInputStreamCb \/ ReadBytesCb \/ WriteBytesCb \/ CloseInputCb
    BY <1>0, <2>3, ReplaceKeeps, OpenKeeps, ReadKeeps, WriteKeeps, CloseInputKeeps
  <2> QED
    BY <1>3, <2>1, <2>2, <2>3 DEF DownloadStep
<1> QED
  BY <1>1, <1>2, <1>3 DEF DownloadNext

\* A download ends well only with the file that was written whole.
LEMMA StepLeavesNothing ==
    ASSUME TransferInv, TransferInv', DownloadNext
    PROVE  /\ dl' # NoFile => dl'.written <= dl'.expected
           /\ dl # NoFile /\ dl' = NoFile /\ lastRefresh' = "ok" =>
                 ~dl.outOpen /\ ~dl.inOpen /\ dl.unwritten = 0 /\ dl.written = dl.read
<1>1. ASSUME dl' # NoFile PROVE dl'.written <= dl'.expected
  <2>1. dl' \in Transfer /\ dl'.written + dl'.unwritten = dl'.read /\ dl'.read <= dl'.expected
    BY <1>1 DEF TransferInv, DownloadInv, DownloadTypeOK, TransferCounts
  <2> QED
    BY <2>1, DownloadAssumption DEF Transfer
<1>2. ASSUME dl # NoFile, dl' = NoFile, lastRefresh' = "ok"
      PROVE  ~dl.outOpen /\ ~dl.inOpen /\ dl.unwritten = 0 /\ dl.written = dl.read
  <2>1. DownloadFileCb
    <3>1. ~(Tick \/ ServerChanges \/ Crash \/ \E who \in Users, forced \in BOOLEAN : Refresh(who, forced))
      BY <1>2 DEF Tick, ServerChanges, Crash, Refresh
    <3>2. ~DownloadReplaceFileCb
      BY <1>2, ReplaceKeeps
    <3>3. ~(OpenInputStreamCb \/ ReadBytesCb \/ WriteBytesCb \/ CloseOutputCb \/ CloseInputCb)
      BY <1>2, OpenKeeps, ReadKeeps, WriteKeeps, CloseOutputKeeps, CloseInputKeeps
    <3> QED
      BY <3>1, <3>2, <3>3 DEF DownloadNext, DownloadStep
  <2>2. Closed(dl) /\ dl.stage = "closing" /\ ~dl.error
    BY <1>2, <2>1, DownloadedKeeps
  <2>3. dl \in Transfer /\ dl.written + dl.unwritten = dl.read /\ dl.unwritten = 0
    BY <1>2, <2>2 DEF TransferInv, DownloadInv, DownloadTypeOK, TransferCounts
  <2> QED
    BY <2>2, <2>3, DownloadAssumption DEF Closed, Transfer
<1> QED
  BY <1>1, <1>2

\* A file that is whole is never lost or replaced by an earlier version, and a
\* download that succeeds has closed its streams and written all it has read.
THEOREM DownloadLosesNothing == DownloadSpec => DownloadKeeps
<1>1. TransferInv /\ [DownloadNext]_downloadVars =>
          [Whole(cached) => Whole(cached') /\ cached'.version >= cached.version]_downloadVars
  BY StepKeepsWhole
<1>2. TransferInv /\ TransferInv' /\ [DownloadNext]_downloadVars =>
          [/\ dl' # NoFile => dl'.written <= dl'.expected
           /\ dl # NoFile /\ dl' = NoFile /\ lastRefresh' = "ok" =>
                 ~dl.outOpen /\ ~dl.inOpen /\ dl.unwritten = 0 /\ dl.written = dl.read]_downloadVars
  BY StepLeavesNothing
<1> QED
  BY <1>1, <1>2, TransferHolds, PTL DEF DownloadSpec, DownloadKeeps, WholeStaysWhole, NothingLeftOver

-----------------------------------------------------------------------------
(* The upgrade of Endless OS.                                                *)
OsStates == {"unknown", "available", "installing", "updatable"}
DownloadJob == [stage : Holding \union {"idle", "lock", "waiting", "woken"},
                saw : UpdaterStates, restart : BOOLEAN, polls : 0..3,
                told : {"no", "event", "hushed"}, applied : BOOLEAN, outcome : Outcomes]

\* The type invariant by its parts.
LEMMA EosTypes ==
    /\ EosTypeOK <=>
          /\ updater \in UpdaterStates /\ proxyState \in UpdaterStates /\ changes \in Seq(UpdaterStates)
          /\ osUpgrade \in OsStates /\ download \in DownloadJob
          /\ handling \in BOOLEAN /\ uiCancelled \in BOOLEAN /\ chained \in BOOLEAN /\ cancelSent \in BOOLEAN
          /\ disturbed \in 0..MaxDisturbed
    /\ EosTypeOK' <=>
          /\ updater' \in UpdaterStates /\ proxyState' \in UpdaterStates /\ changes' \in Seq(UpdaterStates)
          /\ osUpgrade' \in OsStates /\ download' \in DownloadJob
          /\ handling' \in BOOLEAN /\ uiCancelled' \in BOOLEAN /\ chained' \in BOOLEAN /\ cancelSent' \in BOOLEAN
          /\ disturbed' \in 0..MaxDisturbed
BY DEF EosTypeOK, OsStates, DownloadJob

\* The state of the app that goes with a state of the daemon.
LEMMA SyncedIs ==
    ASSUME NEW app \in OsStates, NEW s \in UpdaterStates
    PROVE  /\ Synced(app, s) \in OsStates
           /\ s = "polling" => Synced(app, s) = app
           /\ s # "polling" =>
                 /\ Synced(app, s) = "unknown" <=> s \in {"none", "ready"} \union Errors
                 /\ Synced(app, s) = "installing" <=> s \in Busy
BY DEF Synced, OsStates, UpdaterStates, Busy, Errors

LEMMA NewDownloadIs == NewDownload \in DownloadJob
<1>1. "lock" \in Holding \union {"idle", "lock", "waiting", "woken"} /\ "none" \in UpdaterStates /\ "none" \in Outcomes
  BY DEF UpdaterStates, Outcomes
<1> QED
  BY <1>1 DEF NewDownload, DownloadJob

LEMMA WokenIs ==
    ASSUME NEW d \in DownloadJob
    PROVE  /\ Woken(d) \in DownloadJob
           /\ \/ Woken(d) = d
              \/ d.stage = "waiting" /\ Woken(d).stage = "woken"
           /\ Woken(d).restart = d.restart /\ Woken(d).polls = d.polls /\ Woken(d).told = d.told
           /\ Woken(d).applied = d.applied /\ Woken(d).outcome = d.outcome
<1>1. CASE d.stage = "waiting"
  <2>1. Woken(d) = [d EXCEPT !.stage = "woken"]
    BY <1>1 DEF Woken
  <2> QED
    BY <1>1, <2>1 DEF DownloadJob
<1>2. CASE d.stage # "waiting"
  BY <1>2 DEF Woken
<1> QED
  BY <1>1, <1>2

\* A step that leaves the download as it is, or wakes it, keeps what is true of
\* it.
LEMMA WakingKeeps ==
    ASSUME EosIInv, download' \in {download, Woken(download)}, uiCancelled => uiCancelled'
    PROVE  /\ download' \in DownloadJob
           /\ RestartsOnce' /\ SuccessIsExplained' /\ PollsLeft' /\ EndIsExplained'
<1>1. download \in DownloadJob
  BY EosTypes DEF EosIInv, EosInv
<1>2. CASE download' = download
  BY <1>1, <1>2 DEF EosIInv, EosInv, RestartsOnce, SuccessIsExplained, PollsLeft, EndIsExplained
<1>3. CASE download' = Woken(download) /\ download.stage = "waiting" /\ Woken(download).stage = "woken"
  BY <1>1, <1>3, WokenIs DEF EosIInv, EosInv, RestartsOnce, SuccessIsExplained, PollsLeft, EndIsExplained
<1> QED
  BY <1>1, <1>2, <1>3, WokenIs

\* A change of the daemon is one more for the proxy to learn of.
LEMMA ChangeIs ==
    ASSUME EosTypeOK, NEW s \in UpdaterStates, ChangeTo(s)
    PROVE  updater' \in UpdaterStates /\ changes' \in Seq(UpdaterStates)
BY EosTypes DEF ChangeTo

\* The steps of the daemon, and those of the main thread.
LEMMA DaemonKeeps ==
    ASSUME EosIInv, FinishWork \/ UpdaterCancel \/ Dies \/ EosRefreshMetadata
    PROVE  EosIInv'
<1> USE EosAssumption
<1>1. UNCHANGED clientUnchanged /\ cancelSent' \in {cancelSent, FALSE} /\ disturbed' \in 0..MaxDisturbed
  <2>1. disturbed \in 0..MaxDisturbed
    BY EosTypes DEF EosIInv, EosInv
  <2>2. UNCHANGED clientUnchanged /\ cancelSent' \in {cancelSent, FALSE}
    BY DEF FinishWork, UpdaterCancel, Dies, EosRefreshMetadata
  <2>3. disturbed' = disturbed \/ (disturbed < MaxDisturbed /\ disturbed' = disturbed + 1)
    BY DEF FinishWork, UpdaterCancel, Dies, EosRefreshMetadata
  <2>4. disturbed' \in 0..MaxDisturbed
    BY <2>1, <2>3
  <2> QED
    BY <2>2, <2>4
<1>2. updater' \in UpdaterStates /\ changes' \in Seq(UpdaterStates)
  <2>1. \/ \E s \in UpdaterStates : ChangeTo(s)
        \/ UNCHANGED <<updater, changes>>
    BY DEF FinishWork, UpdaterCancel, Dies, EosRefreshMetadata, UpdaterStates, Busy, Errors
  <2> QED
    BY <2>1, ChangeIs, EosTypes DEF EosIInv, EosInv
<1>3. EosTypeOK'
  BY <1>1, <1>2, EosTypes DEF EosIInv, EosInv, clientUnchanged
<1>4. BannerInStep'
  BY <1>1 DEF EosIInv, EosInv, BannerInStep, mainIdle, clientUnchanged
<1> QED
  BY <1>1, <1>3, <1>4, WakingKeeps DEF EosIInv, EosInv, clientUnchanged

LEMMA MainThreadKeeps ==
    ASSUME EosIInv, Notified \/ UpdaterStateChanged \/ UiCancel \/ Invalidate \/ StartDownload
    PROVE  EosIInv'
<1> USE EosAssumption
<1>0. /\ EosTypeOK /\ EosInv /\ BannerInStep
      /\ updater \in UpdaterStates /\ proxyState \in UpdaterStates /\ changes \in Seq(UpdaterStates)
      /\ osUpgrade \in OsStates /\ download \in DownloadJob
  BY EosTypes DEF EosIInv, EosInv
<1>1. CASE Notified
  <2>1. Head(changes) \in UpdaterStates /\ Tail(changes) \in Seq(UpdaterStates)
    BY <1>0, <1>1 DEF Notified
  <2>2. EosTypeOK'
    BY <1>0, <1>1, <2>1, EosTypes DEF Notified
  <2>3. BannerInStep'
    BY <1>0, <1>1 DEF Notified, BannerInStep, mainIdle
  <2>4. download' = download /\ uiCancelled' = uiCancelled
    BY <1>1 DEF Notified
  <2> QED
    BY <2>2, <2>3, <2>4, WakingKeeps DEF EosIInv, EosInv
<1>2. CASE UpdaterStateChanged
  <2>1. download' = Woken(download) /\ uiCancelled' = uiCancelled /\ proxyState' = proxyState
        /\ osUpgrade' = Synced(osUpgrade, proxyState)
    BY <1>2 DEF UpdaterStateChanged
  <2>2. EosTypeOK'
    <3>1. /\ updater' \in UpdaterStates /\ proxyState' \in UpdaterStates /\ changes' \in Seq(UpdaterStates)
          /\ handling' \in BOOLEAN /\ uiCancelled' \in BOOLEAN /\ cancelSent' \in BOOLEAN
          /\ disturbed' \in 0..MaxDisturbed
      BY <1>0, <1>2, EosTypes DEF UpdaterStateChanged
    <3>2. chained' \in BOOLEAN
      BY <1>2 DEF UpdaterStateChanged
    <3>3. osUpgrade' \in OsStates /\ download' \in DownloadJob
      BY <1>0, <2>1, SyncedIs, WokenIs
    <3> QED
      BY <3>1, <3>2, <3>3, EosTypes
  <2>3. BannerInStep'
    BY <1>0, <2>1, SyncedIs DEF BannerInStep
  <2> QED
    BY <2>1, <2>2, <2>3, WakingKeeps DEF EosIInv, EosInv
<1>3. CASE UiCancel
  <2>1. download' \in {download, Woken(download)} /\ uiCancelled'
    BY <1>3 DEF UiCancel
  <2>2. EosTypeOK'
    BY <1>0, <1>3, <2>1, WokenIs, EosTypes DEF UiCancel, Chain
  <2>3. BannerInStep'
    BY <1>0, <1>3 DEF UiCancel, BannerInStep, mainIdle
  <2> QED
    BY <2>1, <2>2, <2>3, WakingKeeps DEF EosIInv, EosInv
<1>4. CASE Invalidate
  <2>2. EosTypeOK'
    BY <1>0, <1>4, EosTypes DEF Invalidate, OsStates
  <2>3. BannerInStep'
    BY <1>0, <1>4 DEF Invalidate, BannerInStep, mainIdle
  <2>4. download' = download /\ uiCancelled' = uiCancelled
    BY <1>4 DEF Invalidate
  <2> QED
    BY <2>2, <2>3, <2>4, WakingKeeps DEF EosIInv, EosInv
<1>5. CASE StartDownload
  <2>1. NewDownload \in DownloadJob
    BY NewDownloadIs
  <2>2. EosTypeOK'
    BY <1>0, <1>5, <2>1, EosTypes DEF StartDownload
  <2>3. BannerInStep'
    BY <1>0, <1>5 DEF StartDownload, BannerInStep, mainIdle
  <2>4. RestartsOnce' /\ SuccessIsExplained' /\ PollsLeft' /\ EndIsExplained'
    BY <1>5 DEF StartDownload, NewDownload, RestartsOnce, SuccessIsExplained, PollsLeft, EndIsExplained
  <2> QED
    BY <2>2, <2>3, <2>4 DEF EosIInv, EosInv
<1> QED
  BY <1>1, <1>2, <1>3, <1>4, <1>5

\* What the head of the loop and a call make of the download.
LEMMA StepForIs ==
    ASSUME NEW d \in DownloadJob, NEW s \in UpdaterStates
    PROVE  /\ StepFor(d, s) \in DownloadJob
           /\ StepFor(d, s).polls = d.polls /\ StepFor(d, s).outcome = d.outcome
           /\ d.restart => d.restart
           /\ StepFor(d, s).stage \in {"poll", "end", "fetch", "apply", "poll and end", "old"}
           /\ StepFor(d, s).restart => d.restart
           /\ StepFor(d, s).stage = "poll" => d.restart
           /\ StepFor(d, s).stage \in {"poll", "poll and end"} => ~StepFor(d, s).restart
           /\ StepFor(d, s).stage = "poll and end" => StepFor(d, s).told # "no"
           /\ StepFor(d, s).stage = "end" => StepFor(d, s).applied \/ StepFor(d, s).told # "no"
           /\ d.applied => StepFor(d, s).applied
           /\ d.told # "no" => StepFor(d, s).told # "no"
<1>1. CASE s \in {"none", "ready"} /\ d.restart
  <2>1. StepFor(d, s) = [d EXCEPT !.stage = "poll", !.restart = FALSE]
    BY <1>1 DEF StepFor, Errors, Busy
  <2> QED
    BY <1>1, <2>1 DEF DownloadJob, Holding, Calls
<1>2. CASE s \in {"none", "ready"} /\ ~d.restart
  <2>1. StepFor(d, s) = [d EXCEPT !.stage = "end", !.told = "event"]
    BY <1>2 DEF StepFor, Errors, Busy
  <2> QED
    BY <1>2, <2>1 DEF DownloadJob, Holding, Calls
<1>3. CASE s = "update available"
  <2>1. StepFor(d, s) = [d EXCEPT !.stage = "fetch"]
    BY <1>3 DEF StepFor, Errors, Busy
  <2> QED
    BY <1>3, <2>1 DEF DownloadJob, Holding, Calls
<1>4. CASE s = "update ready"
  <2>1. StepFor(d, s) = [d EXCEPT !.stage = "apply"]
    BY <1>4 DEF StepFor, Errors, Busy
  <2> QED
    BY <1>4, <2>1 DEF DownloadJob, Holding, Calls
<1>5. CASE s = "applied"
  <2>1. StepFor(d, s) = [d EXCEPT !.stage = "end", !.applied = TRUE]
    BY <1>5 DEF StepFor, Errors, Busy
  <2> QED
    BY <1>5, <2>1 DEF DownloadJob, Holding, Calls
<1>6. CASE s \in Errors
  <2>0. PICK told \in {"event", "hushed"} : told = IF s = "error" THEN "event" ELSE "hushed"
    OBVIOUS
  <2>1. StepFor(d, s) = [d EXCEPT !.stage = "poll and end", !.restart = FALSE, !.told = told]
    BY <1>6, <2>0 DEF StepFor, Errors, Busy
  <2> QED
    BY <1>6, <2>1 DEF DownloadJob, Holding, Calls
<1>7. CASE s \in Busy
  <2>1. StepFor(d, s) = [d EXCEPT !.stage = "old"]
    BY <1>7 DEF StepFor, Errors, Busy
  <2> QED
    BY <1>7, <2>1 DEF DownloadJob, Holding, Calls
<1> QED
  BY <1>1, <1>2, <1>3, <1>4, <1>5, <1>6, <1>7 DEF UpdaterStates

LEMMA PolledIs ==
    ASSUME NEW d \in DownloadJob
    PROVE  /\ Polled(d) \in DownloadJob
           /\ Polled(d).stage = d.stage /\ Polled(d).restart = d.restart /\ Polled(d).told = d.told
           /\ Polled(d).applied = d.applied /\ Polled(d).outcome = d.outcome
           /\ d.stage \notin {"poll", "poll and end"} => Polled(d).polls = d.polls
           /\ d.stage \in {"poll", "poll and end"} /\ d.polls = 0 => Polled(d).polls = 1
           /\ d.stage \in {"poll", "poll and end"} /\ d.polls = 1 => Polled(d).polls = 2
<1>1. CASE d.stage \in {"poll", "poll and end"} /\ d.polls < 3
  <2>1. Polled(d) = [d EXCEPT !.polls = @ + 1]
    BY <1>1 DEF Polled
  <2> QED
    <3>1. d.polls \in 0..3 /\ d.polls < 3
      BY <1>1 DEF DownloadJob
    <3>2. PICK n \in 0..3 : n = d.polls + 1 /\ (d.polls = 0 => n = 1) /\ (d.polls = 1 => n = 2)
      BY <3>1
    <3>3. Polled(d) = [d EXCEPT !.polls = n]
      BY <2>1, <3>2
    <3> QED
      BY <1>1, <3>1, <3>2, <3>3 DEF DownloadJob
<1>2. CASE ~(d.stage \in {"poll", "poll and end"} /\ d.polls < 3)
  <2>1. Polled(d) = d
    BY <1>2 DEF Polled
  <2>2. d.polls \in 0..3 /\ 0 < 3 /\ 1 < 3
    BY DEF DownloadJob
  <2> QED
    BY <1>2, <2>1, <2>2
<1> QED
  BY <1>1, <1>2

LEMMA EndedIs ==
    ASSUME NEW d \in DownloadJob, NEW how \in Outcomes
    PROVE  /\ Ended(d, how) \in DownloadJob /\ Ended(d, how).stage = "idle" /\ Ended(d, how).outcome = how
           /\ Ended(d, how).polls = d.polls /\ Ended(d, how).told = d.told /\ Ended(d, how).applied = d.applied
BY DEF Ended, DownloadJob

\* The steps of the thread, which leave the banner to the main thread.
LEMMA ThreadKeepsBanner ==
    ASSUME EosIInv, ThreadStep, download' \in DownloadJob
    PROVE  EosTypeOK' /\ BannerInStep' /\ uiCancelled' = uiCancelled
<1>0. EosTypeOK /\ BannerInStep
  BY DEF EosIInv, EosInv
<1>1. UNCHANGED othersUnchanged
  BY DEF ThreadStep, Lock, Step, Call, CallCancelled, WaitBegins, Sleep, WakesUp, End
<1>2. updater' \in UpdaterStates /\ changes' \in Seq(UpdaterStates)
  <2>1. \/ \E s \in UpdaterStates : ChangeTo(s)
        \/ UNCHANGED <<updater, changes>>
    <3>1. CASE Call
      <4>1. Leads(download.stage) \in UpdaterStates
        BY <3>1 DEF Call, Leads, Calls, UpdaterStates, Busy
      <4> QED
        BY <3>1, <4>1 DEF Call
    <3>2. CASE ~Call
      BY <3>2 DEF ThreadStep, Lock, Step, CallCancelled, WaitBegins, Sleep, WakesUp, End, Stays
    <3> QED
      BY <3>1, <3>2
  <2> QED
    BY <1>0, <2>1, ChangeIs, EosTypes
<1>3. chained' \in BOOLEAN /\ cancelSent' \in BOOLEAN
  BY <1>0, EosTypes DEF ThreadStep, Lock, Step, Call, CallCancelled, WaitBegins, Sleep, WakesUp, End, Stays, Chain
<1> QED
  BY <1>0, <1>1, <1>2, <1>3, EosTypes DEF othersUnchanged, BannerInStep, mainIdle

\* How often a download has polled when it has made a call of the daemon.
LEMMA UpToTwo ==
    ASSUME NEW n \in 0..3
    PROVE  (n <= 1 <=> n \in {0, 1}) /\ (n <= 2 <=> n \in {0, 1, 2})
OBVIOUS

LEMMA CallPolls ==
    ASSUME download \in DownloadJob, PollsLeft, download.stage \in Calls
    PROVE  /\ Polled(download).polls \in {0, 1, 2}
           /\ download.stage # "poll and end" => Polled(download).polls \in {0, 1}
           /\ download.stage # "poll and end" /\ download.restart => Polled(download).polls = 0
<1>1. download.stage \in {"poll", "fetch", "apply", "poll and end"} /\ download.polls \in 0..3
  BY DEF Calls, DownloadJob
<1>2. download.polls \in {0, 1} /\ (download.stage = "poll" => download.polls = 0 /\ ~download.restart)
      /\ (download.restart => download.polls = 0)
  BY <1>1, UpToTwo DEF PollsLeft
<1> QED
  BY <1>1, <1>2, PolledIs

LEMMA IdleIsFine ==
    ASSUME download'.stage = "idle", download'.outcome # "ok", download'.polls \in {0, 1, 2}
    PROVE  RestartsOnce' /\ SuccessIsExplained' /\ PollsLeft' /\ EndIsExplained'
<1>1. download'.polls <= 2
  OBVIOUS
<1> QED
  BY <1>1 DEF RestartsOnce, SuccessIsExplained, PollsLeft, EndIsExplained

LEMMA ThreadKeeps ==
    ASSUME EosIInv, ThreadStep
    PROVE  EosIInv'
<1> SUFFICES download' \in DownloadJob /\ RestartsOnce' /\ SuccessIsExplained' /\ PollsLeft' /\ EndIsExplained'
  BY ThreadKeepsBanner DEF EosIInv, EosInv
<1>0. /\ download \in DownloadJob /\ proxyState \in UpdaterStates /\ EosTypeOK
      /\ RestartsOnce /\ SuccessIsExplained /\ PollsLeft /\ EndIsExplained
  BY EosTypes DEF EosIInv, EosInv
<1>9. uiCancelled' = uiCancelled
  BY DEF ThreadStep, Lock, Step, Call, CallCancelled, WaitBegins, Sleep, WakesUp, End, othersUnchanged
<1> USE DEF RestartsOnce, SuccessIsExplained, PollsLeft, EndIsExplained
<1>1. CASE Lock
  <2>1. PICK r \in BOOLEAN : download.stage = "lock" /\ download' = [download EXCEPT !.stage = "locked", !.restart = r]
    <3>1. (proxyState \in {"none", "ready"} \union Errors) \in BOOLEAN
      OBVIOUS
    <3> QED
      BY <1>1, <3>1 DEF Lock
  <2> QED
    BY <1>0, <1>9, <2>1 DEF DownloadJob, Holding
<1>2. CASE Step
  <2>1. CASE uiCancelled
    BY <1>0, <1>2, <1>9, <2>1 DEF Step, DownloadJob, Holding
  <2>2. CASE ~uiCancelled
    <3>1. download' = StepFor(download, proxyState) /\ download.stage = "locked"
      BY <1>2, <2>2 DEF Step
    <3> QED
      BY <1>0, <1>9, <3>1, StepForIs
  <2> QED
    BY <2>1, <2>2
<1>3. CASE Call
  <2>0. PICK polls \in {0, 1, 2} :
            /\ polls = Polled(download).polls
            /\ download.stage # "poll and end" => polls \in {0, 1}
            /\ download.stage # "poll and end" /\ download.restart => polls = 0
    BY <1>0, <1>3, CallPolls DEF Call
  <2>1. CASE updater \in Allowed(download.stage)
    <3>1. PICK stage \in {"end", "old"} :
              /\ download' = [Polled(download) EXCEPT !.stage = stage]
              /\ stage = "end" <=> download.stage = "poll and end"
      BY <1>0, <1>3, <2>1, PolledIs DEF Call, DownloadJob
    <3>2. download' \in DownloadJob /\ download'.stage = stage /\ download'.polls = Polled(download).polls
          /\ download'.restart = download.restart /\ download'.told = download.told /\ download'.applied = download.applied
          /\ download'.outcome = download.outcome
      BY <1>0, <3>1, PolledIs DEF DownloadJob, Holding
    <3>3. download'.polls \in {0, 1, 2} /\ (stage = "old" => download'.polls \in {0, 1})
          /\ (stage = "old" /\ download'.restart => download'.polls = 0)
      BY <2>0, <3>1, <3>2
    <3>4. RestartsOnce' /\ PollsLeft'
      <4>1. (download'.polls \in {0, 1, 2} => download'.polls <= 2) /\ (download'.polls \in {0, 1} => download'.polls <= 1)
        OBVIOUS
      <4> QED
        BY <3>1, <3>2, <3>3, <4>1
    <3>5. SuccessIsExplained' /\ EndIsExplained'
      BY <1>0, <1>9, <3>1, <3>2
    <3> QED
      BY <3>2, <3>4, <3>5
  <2>2. CASE updater \notin Allowed(download.stage)
    <3>1. download' = Ended(Polled(download), "failed")
      BY <1>3, <2>2 DEF Call
    <3>2. "failed" \in Outcomes
      BY DEF Outcomes
    <3>3. download' \in DownloadJob /\ download'.stage = "idle" /\ download'.outcome = "failed"
          /\ download'.polls \in {0, 1, 2}
      <4>1. Polled(download) \in DownloadJob
        BY <1>0, PolledIs
      <4> QED
        BY <2>0, <3>1, <3>2, <4>1, EndedIs
    <3> QED
      BY <3>3, IdleIsFine
  <2> QED
    BY <2>1, <2>2
<1>4. CASE CallCancelled
  <2>0. Polled(download).polls \in {0, 1, 2}
    BY <1>0, <1>4, CallPolls DEF CallCancelled
  <2>1. "cancelled" \in Outcomes /\ download' = Ended(Polled(download), "cancelled")
    BY <1>4 DEF CallCancelled, Outcomes
  <2>2. download' \in DownloadJob /\ download'.stage = "idle" /\ download'.outcome = "cancelled"
        /\ download'.polls \in {0, 1, 2}
    <3>1. Polled(download) \in DownloadJob
      BY <1>0, PolledIs
    <3> QED
      BY <2>0, <2>1, <3>1, EndedIs
  <2> QED
    BY <2>2, IdleIsFine
<1>5. CASE WaitBegins
  <2>1. CASE uiCancelled
    <3>1. "cancelled" \in Outcomes /\ download' = Ended(download, "cancelled")
      BY <1>5, <2>1 DEF WaitBegins, Outcomes
    <3> QED
      BY <1>0, <3>1, EndedIs
  <2>2. CASE ~uiCancelled
    <3>1. download' = [download EXCEPT !.stage = "sleep", !.saw = proxyState] /\ download.stage = "old"
      BY <1>5, <2>2 DEF WaitBegins
    <3> QED
      BY <1>0, <3>1 DEF DownloadJob, Holding
  <2> QED
    BY <2>1, <2>2
<1>6. CASE Sleep
  BY <1>0, <1>6 DEF Sleep, DownloadJob
<1>7. CASE WakesUp
  <2>1. CASE uiCancelled
    <3>1. "cancelled" \in Outcomes /\ download' = Ended(download, "cancelled")
      BY <1>7, <2>1 DEF WakesUp, Outcomes
    <3> QED
      BY <1>0, <3>1, EndedIs
  <2>2. CASE ~uiCancelled
    <3>1. PICK stage \in {"locked", "sleep"} : download' = [download EXCEPT !.stage = stage] /\ download.stage = "woken"
      BY <1>7, <2>2 DEF WakesUp
    <3> QED
      BY <1>0, <3>1 DEF DownloadJob, Holding
  <2> QED
    BY <2>1, <2>2
<1>8. CASE End
  <2>1. PICK how \in Outcomes :
            /\ download.stage = "end" /\ download' = Ended(download, how)
            /\ how = "ok" => ~uiCancelled
    BY <1>8 DEF End, Outcomes
  <2> QED
    BY <1>0, <2>1, EndedIs
<1> QED
  BY <1>1, <1>2, <1>3, <1>4, <1>5, <1>6, <1>7, <1>8 DEF ThreadStep

\* The banner, the download and what the user is told agree with the daemon,
\* whatever it does and whoever cancels (plugins/eos-updater).
THEOREM UpgradeAgrees == EosSpec => []EosInv
<1>1. EosInit => EosIInv
  <2> SUFFICES ASSUME EosInit PROVE EosIInv
    OBVIOUS
  <2>1. updater \in UpdaterStates /\ proxyState = updater /\ proxyState # "polling" /\ "unknown" \in OsStates
    BY DEF EosInit, UpdaterStates, OsStates
  <2>2. NewDownload \in DownloadJob /\ download = [NewDownload EXCEPT !.stage = "idle"]
    BY NewDownloadIs DEF EosInit
  <2>3. download \in DownloadJob /\ download.stage = "idle" /\ download.polls = 0 /\ download.outcome = "none"
    <3>1. NewDownload.polls = 0 /\ NewDownload.outcome = "none"
      BY DEF NewDownload
    <3> HIDE DEF NewDownload
    <3> QED
      BY <2>2, <3>1 DEF DownloadJob
  <2>4. osUpgrade = Synced("unknown", proxyState)
    BY <2>1 DEF EosInit
  <2>5. EosTypeOK
    <3>1. osUpgrade \in OsStates
      BY <2>1, <2>4, SyncedIs
    <3>2. changes = <<>> /\ disturbed = 0
      BY DEF EosInit
    <3>4. changes \in Seq(UpdaterStates) /\ disturbed \in 0..MaxDisturbed
      BY <3>2, EosAssumption
    <3>3. handling \in BOOLEAN /\ uiCancelled \in BOOLEAN /\ chained \in BOOLEAN /\ cancelSent \in BOOLEAN
      BY DEF EosInit
    <3> QED
      BY <2>1, <2>3, <3>1, <3>2, <3>3, <3>4, EosTypes
  <2>6. BannerInStep
    BY <2>1, <2>4, SyncedIs DEF BannerInStep
  <2> QED
    BY <2>3, <2>5, <2>6 DEF EosIInv, EosInv, RestartsOnce, SuccessIsExplained, PollsLeft, EndIsExplained
<1>2. EosIInv /\ [EosNext]_eosVars => EosIInv'
  <2>1. EosIInv /\ UNCHANGED eosVars => EosIInv'
    <3> SUFFICES ASSUME EosIInv, UNCHANGED eosVars PROVE EosIInv'
      OBVIOUS
    <3>1. EosTypeOK'
      BY EosTypes DEF eosVars, EosIInv, EosInv
    <3>2. BannerInStep'
      BY DEF eosVars, EosIInv, EosInv, BannerInStep, mainIdle
    <3>3. download' = download /\ uiCancelled' = uiCancelled
      BY DEF eosVars
    <3> QED
      BY <3>1, <3>2, <3>3, WakingKeeps DEF EosIInv, EosInv
  <2> QED
    BY <2>1, DaemonKeeps, MainThreadKeeps, ThreadKeeps DEF EosNext
<1> QED
  BY <1>1, <1>2, PTL DEF EosSpec, EosIInv

-----------------------------------------------------------------------------
(* The transactions of rpm-ostree.                                           *)
Proxy == [context : OstreeThreads \union {NoOne}, busy : BOOLEAN]
InWork == {"call", "busy", "respond", "finished", "failed", "deaf"}
InDoing == {"installing", "removing"}

\* The job of the thread is what the app is shown as being worked on for.
WorksOn(t, x) == x \in ThingOf(ostreeJobs[t].op) /\ FirstOfJob(t) /\ ostreeJobs[t].stage \in InWork

LEMMA SettleIs ==
    /\ OstreeAppsSettle <=> \A x \in Things : rpmApps[x].state \in InDoing => \E t \in OstreeThreads : WorksOn(t, x)
    /\ OstreeAppsSettle' <=> \A x \in Things : rpmApps'[x].state \in InDoing => \E t \in OstreeThreads : WorksOn(t, x)'
BY DEF OstreeAppsSettle, WorksOn, InWork, InDoing

LEMMA JobSets ==
    /\ NoOstreeJob \in OstreeJob /\ NoOstreeJob.stage = "idle"
    /\ \A job \in OstreeJob :
          /\ job.op \in OfWorker \union OfPool /\ job.proxy \in 0..MaxProxies /\ job.todo \in 0..4
          /\ ThingOf(job.op) \subseteq Things
    /\ \A op \in OfWorker \union OfPool : Transactions(op) \in 1..4
<1>1. 0 \in 0..MaxProxies
  BY OstreeAssumption
<1>2. NoOstreeJob \in OstreeJob /\ NoOstreeJob.stage = "idle"
  BY <1>1 DEF NoOstreeJob, OstreeJob, OfWorker
<1>3. \A op \in OfWorker \union OfPool : Transactions(op) \in 1..4
  BY DEF Transactions
<1>4. \A op \in OfWorker \union OfPool : ThingOf(op) \subseteq Things
  BY DEF ThingOf, Things, OfWorker, OfPool
<1> QED
  BY <1>2, <1>3, <1>4 DEF OstreeJob

\* A job that begins, gets its proxy or waits for its next transaction.
LEMMA BegunJob ==
    ASSUME NEW op \in OfWorker \union OfPool, NEW n \in 0..4
    PROVE  \E job \in OstreeJob : /\ job = [NoOstreeJob EXCEPT !.op = op, !.stage = "ref", !.todo = n]
                                 /\ job.stage = "ref" /\ job.todo = n
<1>1. NoOstreeJob \in OstreeJob
  BY JobSets
<1>2. /\ [NoOstreeJob EXCEPT !.op = op, !.stage = "ref", !.todo = n] \in OstreeJob
      /\ [NoOstreeJob EXCEPT !.op = op, !.stage = "ref", !.todo = n].stage = "ref"
      /\ [NoOstreeJob EXCEPT !.op = op, !.stage = "ref", !.todo = n].todo = n
  BY <1>1 DEF OstreeJob
<1> QED
  BY <1>2

LEMMA JobWithProxy ==
    ASSUME NEW job \in OstreeJob, NEW p \in 0..MaxProxies
    PROVE  /\ [job EXCEPT !.stage = "wait", !.proxy = p] \in OstreeJob
           /\ [job EXCEPT !.stage = "wait", !.proxy = p].todo = job.todo
BY DEF OstreeJob

LEMMA JobWithTodo ==
    ASSUME NEW job \in OstreeJob, NEW n \in 0..4
    PROVE  /\ [job EXCEPT !.stage = "wait", !.todo = n] \in OstreeJob
           /\ [job EXCEPT !.stage = "wait", !.todo = n].todo = n
BY DEF OstreeJob

\* What a step of one thread does to its job, and to no other.
LEMMA SettleKept ==
    ASSUME OstreeIInv, NEW t \in OstreeThreads,
           \A u \in OstreeThreads : u # t => ostreeJobs'[u] = ostreeJobs[u],
           \A x \in Things : rpmApps'[x].state \in InDoing =>
                \/ WorksOn(t, x)'
                \/ rpmApps[x].state \in InDoing /\ ~WorksOn(t, x)
    PROVE  OstreeAppsSettle'
<1> SUFFICES ASSUME NEW x \in Things, rpmApps'[x].state \in InDoing PROVE \E u \in OstreeThreads : WorksOn(u, x)'
  BY SettleIs
<1>1. CASE WorksOn(t, x)'
  BY <1>1
<1>2. CASE rpmApps[x].state \in InDoing /\ ~WorksOn(t, x)
  <2>1. PICK u \in OstreeThreads : WorksOn(u, x)
    BY <1>2, SettleIs DEF OstreeIInv, OstreeInv
  <2>2. u # t /\ ostreeJobs'[u] = ostreeJobs[u]
    BY <1>2, <2>1
  <2> QED
    BY <2>1, <2>2 DEF WorksOn, FirstOfJob
<1> QED
  BY <1>1, <1>2

LEMMA EndsIs ==
    ASSUME OstreeTypeOK, NEW t \in OstreeThreads, EndsOstree(t)
    PROVE  /\ ostreeJobs' \in [OstreeThreads -> OstreeJob] /\ ostreeJobs'[t] = NoOstreeJob
           /\ \A u \in OstreeThreads : u # t => ostreeJobs'[u] = ostreeJobs[u]
           /\ proxies' \in [1..MaxProxies -> Proxy]
<1>1. proxies \in [1..MaxProxies -> Proxy] /\ ostreeJobs \in [OstreeThreads -> OstreeJob]
  BY DEF OstreeTypeOK, Proxy
<1>2. \A p \in 1..MaxProxies : [proxies[p] EXCEPT !.context = NoOne] \in Proxy
  BY <1>1 DEF Proxy
<1>3. proxies' \in [1..MaxProxies -> Proxy]
  BY <1>1, <1>2 DEF EndsOstree
<1> QED
  BY <1>1, <1>3, JobSets DEF EndsOstree

\* A job that goes on keeps what it is about.
LEMMA GoesOnIs ==
    ASSUME OstreeTypeOK, NEW t \in OstreeThreads,
           NEW stage \in {"wait", "call", "busy", "respond", "finished", "failed", "deaf"}, GoesOnTo(t, stage)
    PROVE  /\ ostreeJobs' \in [OstreeThreads -> OstreeJob]
           /\ ostreeJobs'[t].stage = stage /\ ostreeJobs'[t].op = ostreeJobs[t].op /\ ostreeJobs'[t].todo = ostreeJobs[t].todo
           /\ \A u \in OstreeThreads : u # t => ostreeJobs'[u] = ostreeJobs[u]
BY DEF OstreeTypeOK, GoesOnTo, OstreeJob

\* What becomes of the apps: a state that is set, or the one to go back to.
LEMMA AppsAre ==
    ASSUME OstreeTypeOK, RecoverIsStable, NEW op, NEW s \in States \ {"unknown", "queued"}
    PROVE  /\ AppsTo(op, s) \in [Things -> GsApp]
           /\ \A x \in Things :
                 /\ AppsTo(op, s)[x].recover \notin Transient \union {"unknown"}
                 /\ x \in ThingOf(op) => AppsTo(op, s)[x].state = s
                 /\ x \notin ThingOf(op) => AppsTo(op, s)[x] = rpmApps[x]
<1>1. \A x \in Things : rpmApps[x] \in GsApp
  BY DEF OstreeTypeOK
<1>2. \A x \in Things :
        /\ SetState(rpmApps[x], s) \in GsApp /\ SetState(rpmApps[x], s).state = s
        /\ SetState(rpmApps[x], s).recover \notin Transient \union {"unknown"}
  <2> SUFFICES ASSUME NEW x \in Things
               PROVE  /\ SetState(rpmApps[x], s) \in GsApp /\ SetState(rpmApps[x], s).state = s
                      /\ SetState(rpmApps[x], s).recover \notin Transient \union {"unknown"}
    OBVIOUS
  <2> QED
    BY <1>1 DEF SetState, Remember, GsApp, States, Actions, Transient, RecoverIsStable
<1> QED
  BY <1>1, <1>2 DEF AppsTo, RecoverIsStable

LEMMA RecoversIs ==
    ASSUME OstreeTypeOK, RecoverIsStable, NEW t \in OstreeThreads
    PROVE  /\ Recovers(t) \in [Things -> GsApp]
           /\ \A x \in Things :
                 /\ Recovers(t)[x].recover \notin Transient \union {"unknown"}
                 /\ x \in ThingOf(ostreeJobs[t].op) /\ FirstOfJob(t) => Recovers(t)[x].state \notin InDoing
                 /\ ~(x \in ThingOf(ostreeJobs[t].op) /\ FirstOfJob(t)) => Recovers(t)[x] = rpmApps[x]
<1>1. rpmApps \in [Things -> GsApp] /\ \A x \in Things : rpmApps[x] \in GsApp
  BY DEF OstreeTypeOK
<1>2. \A x \in Things :
        /\ SetStateRecover(rpmApps[x]) \in GsApp /\ SetStateRecover(rpmApps[x]).state \notin InDoing
        /\ SetStateRecover(rpmApps[x]).recover \notin Transient \union {"unknown"}
  <2> SUFFICES ASSUME NEW x \in Things
               PROVE  /\ SetStateRecover(rpmApps[x]) \in GsApp /\ SetStateRecover(rpmApps[x]).state \notin InDoing
                      /\ SetStateRecover(rpmApps[x]).recover \notin Transient \union {"unknown"}
    OBVIOUS
  <2> QED
    BY <1>1 DEF SetStateRecover, GsApp, States, Actions, Transient, InDoing, RecoverIsStable
<1>3. CASE FirstOfJob(t)
  <2>1. Recovers(t) = [x \in Things |-> IF x \in ThingOf(ostreeJobs[t].op) THEN SetStateRecover(rpmApps[x])
                                        ELSE rpmApps[x]]
    BY <1>3 DEF Recovers
  <2> QED
    BY <1>1, <1>2, <1>3, <2>1 DEF RecoverIsStable
<1>4. CASE ~FirstOfJob(t)
  <2>1. Recovers(t) = rpmApps
    BY <1>4 DEF Recovers
  <2> QED
    BY <1>1, <1>4, <2>1 DEF RecoverIsStable
<1> QED
  BY <1>3, <1>4

\* The parts of the invariant that a step of the jobs and the apps can disturb.
LEMMA OstreeTypes ==
    /\ OstreeTypeOK <=>
          /\ sysrootProxy \in 0..made /\ made \in 0..MaxProxies /\ proxies \in [1..MaxProxies -> Proxy]
          /\ inactivity \in BOOLEAN /\ triggered \in BOOLEAN
          /\ transaction \in OstreeThreads \union {Client, NoOne}
          /\ rpmApps \in [Things -> GsApp] /\ ostreeJobs \in [OstreeThreads -> OstreeJob]
          /\ ostreeStarted \in 0..MaxOstreeJobs /\ foreign \in 0..MaxForeign
    /\ OstreeTypeOK' <=>
          /\ sysrootProxy' \in 0..made' /\ made' \in 0..MaxProxies /\ proxies' \in [1..MaxProxies -> Proxy]
          /\ inactivity' \in BOOLEAN /\ triggered' \in BOOLEAN
          /\ transaction' \in OstreeThreads \union {Client, NoOne}
          /\ rpmApps' \in [Things -> GsApp] /\ ostreeJobs' \in [OstreeThreads -> OstreeJob]
          /\ ostreeStarted' \in 0..MaxOstreeJobs /\ foreign' \in 0..MaxForeign
BY DEF OstreeTypeOK, Proxy

\* A step that leaves the apps alone and the work on them to whoever does it.
LEMMA AppsAlone ==
    ASSUME OstreeIInv, UNCHANGED rpmApps, OstreeTypeOK', IdleConnectionEnds',
           \A u \in OstreeThreads :
                /\ (\E x \in Things : WorksOn(u, x)) =>
                       /\ ostreeJobs'[u].op = ostreeJobs[u].op /\ ostreeJobs'[u].todo = ostreeJobs[u].todo
                       /\ ostreeJobs'[u].stage \in InWork
                /\ ostreeJobs'[u].stage = "idle" \/ ostreeJobs'[u].todo # 0
    PROVE  OstreeIInv'
<1>1. OstreeAppsSettle'
  <2> SUFFICES ASSUME NEW x \in Things, rpmApps[x].state \in InDoing PROVE \E u \in OstreeThreads : WorksOn(u, x)'
    BY SettleIs
  <2>1. PICK u \in OstreeThreads : WorksOn(u, x)
    BY SettleIs DEF OstreeIInv, OstreeInv
  <2> QED
    BY <2>1 DEF WorksOn, FirstOfJob
<1>2. RecoverIsStable' /\ JobsHaveWork'
  BY DEF OstreeIInv, RecoverIsStable, JobsHaveWork, JobIs
<1> QED
  BY <1>1, <1>2 DEF OstreeIInv, OstreeInv

\* The steps of the daemon, the proxies and the timer.
LEMMA OstreeDaemonKeeps ==
    ASSUME OstreeIInv, OtherTransaction \/ InactiveTimeout \/ \E p \in 1..MaxProxies : ProxyNotified(p)
    PROVE  OstreeIInv'
<1> USE OstreeAssumption
<1>1. UNCHANGED <<made, rpmApps, triggered, ostreeJobs, ostreeStarted>>
  BY DEF OtherTransaction, InactiveTimeout, ProxyNotified, proxyVars, countVars
<1>2. proxies' \in [1..MaxProxies -> Proxy]
  <2>1. proxies \in [1..MaxProxies -> Proxy]
    BY OstreeTypes DEF OstreeIInv, OstreeInv
  <2>2. CASE UNCHANGED proxies
    BY <2>1, <2>2
  <2>3. CASE \E p \in 1..MaxProxies : ProxyNotified(p)
    <3>1. PICK p \in 1..MaxProxies : proxies' = [proxies EXCEPT ![p].busy = ~@]
      BY <2>3 DEF ProxyNotified
    <3>2. [proxies[p] EXCEPT !.busy = ~@] \in Proxy
      BY <2>1 DEF Proxy
    <3> QED
      BY <2>1, <3>1, <3>2
  <2> QED
    BY <2>2, <2>3 DEF OtherTransaction, InactiveTimeout, proxyVars
<1>3. sysrootProxy' \in {0, sysrootProxy} /\ inactivity' \in {FALSE, inactivity} /\ (sysrootProxy' # 0 => inactivity' = inactivity /\ sysrootProxy' = sysrootProxy)
  BY DEF OtherTransaction, InactiveTimeout, ProxyNotified, proxyVars
<1>4. foreign' = foreign \/ (foreign < MaxForeign /\ foreign' = foreign + 1)
  BY DEF OtherTransaction, InactiveTimeout, ProxyNotified, countVars
<1>5. foreign' \in 0..MaxForeign
  BY <1>4, OstreeTypes DEF OstreeIInv, OstreeInv
<1>6. transaction' \in OstreeThreads \union {Client, NoOne}
  BY OstreeTypes DEF OtherTransaction, InactiveTimeout, ProxyNotified, OstreeIInv, OstreeInv
<1>7. inactivity' \in BOOLEAN
  BY <1>3, OstreeTypes DEF OstreeIInv, OstreeInv
<1>8. 0 \in 0..made
  BY OstreeTypes DEF OstreeIInv, OstreeInv
<1>9. OstreeTypeOK'
  BY <1>1, <1>2, <1>3, <1>5, <1>6, <1>7, <1>8, OstreeTypes DEF OstreeIInv, OstreeInv
<1>10. IdleConnectionEnds'
  BY <1>3 DEF OstreeIInv, OstreeInv, IdleConnectionEnds
<1> QED
  BY <1>1, <1>9, <1>10, AppsAlone DEF OstreeIInv, JobsHaveWork, JobIs, WorksOn

\* The end of a transaction, told or not, leaves the work of its job to be
\* ended.
LEMMA TransactionEndKeeps ==
    ASSUME OstreeIInv, TransactionEndsUntold \/ DaemonDies
    PROVE  OstreeIInv'
<1> USE OstreeAssumption
<1>0. OstreeTypeOK /\ ostreeJobs \in [OstreeThreads -> OstreeJob]
  BY OstreeTypes DEF OstreeIInv, OstreeInv
<1>1. UNCHANGED <<proxyVars, rpmApps, triggered, ostreeStarted>> /\ transaction' = NoOne
  BY DEF TransactionEndsUntold, DaemonDies, countVars
<1>2. foreign' \in 0..MaxForeign
  <2>1. foreign' = foreign \/ (foreign < MaxForeign /\ foreign' = foreign + 1)
    BY DEF TransactionEndsUntold, DaemonDies, countVars
  <2> QED
    BY <1>0, <2>1, OstreeTypes
<1>3. /\ ostreeJobs' \in [OstreeThreads -> OstreeJob]
      /\ \A u \in OstreeThreads :
            \/ ostreeJobs'[u] = ostreeJobs[u]
            \/ /\ ostreeJobs'[u].op = ostreeJobs[u].op /\ ostreeJobs'[u].todo = ostreeJobs[u].todo
               /\ ostreeJobs[u].stage = "respond" /\ ostreeJobs'[u].stage \in {"finished", "failed", "deaf"}
  <2>1. CASE DaemonDies
    <3>1. \A u \in OstreeThreads : [ostreeJobs[u] EXCEPT !.stage = "deaf"] \in OstreeJob
      BY <1>0 DEF OstreeJob
    <3> QED
      BY <1>0, <2>1, <3>1 DEF DaemonDies, OstreeJob, JobIs
  <2>2. CASE TransactionEndsUntold /\ transaction \in OstreeThreads /\ ostreeJobs[transaction].stage = "respond"
    <3>1. PICK how \in {"finished", "failed"} : GoesOnTo(transaction, how)
      BY <2>2 DEF TransactionEndsUntold
    <3>2. PICK t \in OstreeThreads : t = transaction
      BY <2>2
    <3> QED
      BY <1>0, <2>2, <3>1, <3>2, GoesOnIs
  <2>3. CASE UNCHANGED ostreeJobs
    BY <1>0, <2>3
  <2> QED
    BY <2>1, <2>2, <2>3 DEF TransactionEndsUntold
<1>4. OstreeTypeOK'
  BY <1>0, <1>1, <1>2, <1>3, OstreeTypes DEF proxyVars
<1>5. IdleConnectionEnds'
  BY <1>1 DEF OstreeIInv, OstreeInv, IdleConnectionEnds, proxyVars
<1>6. \A u \in OstreeThreads :
        /\ (\E x \in Things : WorksOn(u, x)) =>
               /\ ostreeJobs'[u].op = ostreeJobs[u].op /\ ostreeJobs'[u].todo = ostreeJobs[u].todo
               /\ ostreeJobs'[u].stage \in InWork
        /\ ostreeJobs'[u].stage = "idle" \/ ostreeJobs'[u].todo # 0
  BY <1>3 DEF OstreeIInv, JobsHaveWork, JobIs, WorksOn, InWork
<1> QED
  BY <1>1, <1>4, <1>5, <1>6, AppsAlone

\* The steps that begin a job and get it its proxy.
LEMMA StartOstreeKeeps ==
    ASSUME OstreeIInv, NEW t \in OstreeThreads, StartOstree(t)
    PROVE  OstreeIInv'
<1> USE OstreeAssumption
<1>0. OstreeTypeOK /\ ostreeJobs \in [OstreeThreads -> OstreeJob]
  BY OstreeTypes DEF OstreeIInv, OstreeInv
<1>1. PICK op \in OfWorker \union OfPool :
          ostreeJobs' = [ostreeJobs EXCEPT ![t] = [NoOstreeJob EXCEPT !.op = op, !.stage = "ref", !.todo = Transactions(op)]]
  BY OpsAssumption DEF StartOstree
<1>3. PICK n \in 0..4 : n = Transactions(op) /\ n # 0
  BY JobSets
<1>2. PICK job \in OstreeJob : /\ job = [NoOstreeJob EXCEPT !.op = op, !.stage = "ref", !.todo = n]
                              /\ job.stage = "ref" /\ job.todo = n
  BY BegunJob
<1>5. ostreeJobs' = [ostreeJobs EXCEPT ![t] = job]
  BY <1>1, <1>2, <1>3
<1>6. /\ ostreeJobs' \in [OstreeThreads -> OstreeJob]
      /\ ostreeJobs'[t].stage = "ref" /\ ostreeJobs'[t].todo # 0
      /\ \A u \in OstreeThreads : u # t => ostreeJobs'[u] = ostreeJobs[u]
  BY <1>0, <1>2, <1>3, <1>5
<1>7. ostreeStarted' \in 0..MaxOstreeJobs
  <2>1. ostreeStarted < MaxOstreeJobs /\ ostreeStarted' = ostreeStarted + 1
    BY DEF StartOstree
  <2>2. ostreeStarted \in 0..MaxOstreeJobs /\ MaxOstreeJobs \in Nat
    BY <1>0, OstreeTypes
  <2> QED
    BY <2>1, <2>2
<1>8. UNCHANGED <<proxyVars, transaction, rpmApps, triggered, foreign>> /\ ostreeJobs[t].stage = "idle"
  BY DEF StartOstree, JobIs
<1>9. OstreeTypeOK'
  BY <1>0, <1>6, <1>7, <1>8, OstreeTypes DEF proxyVars
<1>10. IdleConnectionEnds'
  BY <1>8 DEF OstreeIInv, OstreeInv, IdleConnectionEnds, proxyVars
<1> QED
  BY <1>6, <1>8, <1>9, <1>10, AppsAlone DEF OstreeIInv, JobsHaveWork, JobIs, WorksOn, InWork

LEMMA ProxiesKeep ==
    ASSUME OstreeIInv, NEW t \in OstreeThreads, RefProxies(t) \/ NewProxies(t) \/ RefFails(t)
    PROVE  OstreeIInv'
<1> USE OstreeAssumption
<1>0. /\ OstreeTypeOK /\ ostreeJobs \in [OstreeThreads -> OstreeJob] /\ proxies \in [1..MaxProxies -> Proxy]
      /\ ostreeJobs[t] \in OstreeJob /\ ostreeJobs[t].todo # 0
      /\ ostreeJobs[t].stage = "ref" /\ UNCHANGED <<transaction, rpmApps, triggered, countVars>>
      /\ sysrootProxy \in 0..made /\ made \in 0..MaxProxies
  BY OstreeTypes DEF OstreeIInv, OstreeInv, JobsHaveWork, RefProxies, NewProxies, RefFails, JobIs
<1>1. /\ sysrootProxy' \in 0..made' /\ made' \in 0..MaxProxies /\ inactivity' \in BOOLEAN
      /\ sysrootProxy' # 0 => inactivity'
  <2>1. CASE RefProxies(t)
    BY <1>0, <2>1 DEF RefProxies
  <2>2. CASE NewProxies(t)
    <3>1. sysrootProxy' = made + 1 /\ made' = made + 1 /\ inactivity' = TRUE /\ made < MaxProxies
      BY <2>2 DEF NewProxies
    <3> QED
      BY <1>0, <3>1
  <2>3. CASE RefFails(t)
    <3>1. sysrootProxy' = sysrootProxy /\ sysrootProxy = 0 /\ made' = made /\ inactivity' = FALSE
      BY <2>3 DEF RefFails
    <3> QED
      BY <1>0, <3>1
  <2> QED
    BY <2>1, <2>2, <2>3
<1>2. /\ ostreeJobs' \in [OstreeThreads -> OstreeJob] /\ proxies' \in [1..MaxProxies -> Proxy]
      /\ ostreeJobs'[t].stage = "idle" \/ ostreeJobs'[t].todo # 0
      /\ \A u \in OstreeThreads : u # t => ostreeJobs'[u] = ostreeJobs[u]
  <2>1. CASE EndsOstree(t)
    BY <1>0, <2>1, EndsIs, JobSets
  <2>2. ASSUME NEW p \in 0..MaxProxies, ostreeJobs' = [ostreeJobs EXCEPT ![t].stage = "wait", ![t].proxy = p]
        PROVE  /\ ostreeJobs' \in [OstreeThreads -> OstreeJob]
               /\ ostreeJobs'[t].stage = "idle" \/ ostreeJobs'[t].todo # 0
               /\ \A u \in OstreeThreads : u # t => ostreeJobs'[u] = ostreeJobs[u]
    <3>1. PICK job \in OstreeJob : job = [ostreeJobs[t] EXCEPT !.stage = "wait", !.proxy = p] /\ job.todo = ostreeJobs[t].todo
      BY <1>0, JobWithProxy
    <3>2. ostreeJobs' = [ostreeJobs EXCEPT ![t] = job]
      BY <1>0, <2>2, <3>1
    <3> QED
      BY <1>0, <3>1, <3>2
  <2>3. CASE ostreeJobs' = [ostreeJobs EXCEPT ![t].stage = "wait", ![t].proxy = sysrootProxy] /\ UNCHANGED proxies
    <3>1. sysrootProxy \in 0..MaxProxies
      BY <1>0
    <3> QED
      BY <1>0, <2>2, <2>3, <3>1
  <2>4. CASE NewProxies(t)
    <3>1. made + 1 \in 0..MaxProxies /\ made + 1 \in 1..MaxProxies
      BY <1>0, <2>4 DEF NewProxies
    <3>2. PICK proxy \in Proxy : proxies' = [proxies EXCEPT ![made + 1] = proxy]
      <4>1. (transaction # NoOne) \in BOOLEAN
        OBVIOUS
      <4>2. PICK new \in Proxy : new = [context |-> t, busy |-> transaction # NoOne]
        BY <4>1 DEF Proxy
      <4>3. [new EXCEPT !.context = IF t = OstreeWorker THEN t ELSE NoOne] \in Proxy
        BY DEF Proxy
      <4> QED
        BY <2>4, <4>2, <4>3 DEF NewProxies
    <3>3. proxies' \in [1..MaxProxies -> Proxy]
      BY <1>0, <3>1, <3>2
    <3>4. CASE ostreeJobs' = [ostreeJobs EXCEPT ![t] = NoOstreeJob]
      BY <1>0, <3>3, <3>4, JobSets
    <3>5. CASE ostreeJobs' = [ostreeJobs EXCEPT ![t].stage = "wait", ![t].proxy = made + 1]
      BY <2>2, <3>1, <3>3, <3>5
    <3> QED
      BY <2>4, <3>4, <3>5 DEF NewProxies
  <2> QED
    BY <2>1, <2>3, <2>4 DEF RefProxies, RefFails
<1>3. OstreeTypeOK'
  BY <1>0, <1>1, <1>2, OstreeTypes DEF countVars
<1>4. IdleConnectionEnds'
  BY <1>1 DEF IdleConnectionEnds
<1> QED
  BY <1>0, <1>2, <1>3, <1>4, AppsAlone DEF OstreeIInv, JobsHaveWork, JobIs, WorksOn, InWork

\* The steps of a job with its proxy: the apps, and the work on them.
LEMMA JobKeeps ==
    ASSUME OstreeIInv, NEW t \in OstreeThreads,
           UNCHANGED <<sysrootProxy, made, inactivity, countVars>>,
           proxies' \in [1..MaxProxies -> Proxy], transaction' \in OstreeThreads \union {Client, NoOne},
           triggered' \in BOOLEAN, ostreeJobs' \in [OstreeThreads -> OstreeJob],
           ostreeJobs'[t].stage = "idle" \/ ostreeJobs'[t].todo # 0,
           \A u \in OstreeThreads : u # t => ostreeJobs'[u] = ostreeJobs[u],
           rpmApps' \in [Things -> GsApp],
           \A x \in Things :
                /\ rpmApps'[x].recover \notin Transient \union {"unknown"}
                /\ rpmApps'[x].state \in InDoing =>
                      WorksOn(t, x)' \/ (rpmApps[x].state \in InDoing /\ ~WorksOn(t, x))
    PROVE  OstreeIInv'
<1>1. OstreeTypeOK'
  BY OstreeTypes DEF OstreeIInv, OstreeInv, countVars
<1>2. OstreeAppsSettle'
  BY SettleKept
<1>3. IdleConnectionEnds' /\ RecoverIsStable' /\ JobsHaveWork'
  BY DEF OstreeIInv, OstreeInv, IdleConnectionEnds, RecoverIsStable, JobsHaveWork, JobIs
<1> QED
  BY <1>1, <1>2, <1>3 DEF OstreeIInv, OstreeInv

LEMMA JobStepKeeps ==
    ASSUME OstreeIInv, NEW t \in OstreeThreads,
           WaitEnds(t) \/ BusyEnds(t) \/ CallDaemon(t) \/ JobStops(t) \/ Succeeded(t) \/ Failed(t)
    PROVE  OstreeIInv'
<1> USE OstreeAssumption
<1>0. /\ OstreeTypeOK /\ RecoverIsStable /\ OstreeAppsSettle
      /\ ostreeJobs \in [OstreeThreads -> OstreeJob] /\ proxies \in [1..MaxProxies -> Proxy]
      /\ ostreeJobs[t] \in OstreeJob /\ rpmApps \in [Things -> GsApp]
      /\ transaction \in OstreeThreads \union {Client, NoOne} /\ triggered \in BOOLEAN
  BY OstreeTypes DEF OstreeIInv, OstreeInv
<1>1. \A x \in Things : rpmApps[x].recover \notin Transient \union {"unknown"}
  BY <1>0 DEF RecoverIsStable
<1>2. ostreeJobs[t].stage # "idle" => ostreeJobs[t].todo # 0
  BY DEF OstreeIInv, JobsHaveWork, JobIs
<1>3. CASE WaitEnds(t)
  <2>1. GoesOnTo(t, "call") /\ ostreeJobs[t].stage = "wait" /\ UNCHANGED <<proxyVars, transaction, triggered, countVars>>
    BY <1>3 DEF WaitEnds, JobIs
  <2>2. /\ ostreeJobs' \in [OstreeThreads -> OstreeJob] /\ ostreeJobs'[t].stage = "call"
        /\ ostreeJobs'[t].op = ostreeJobs[t].op /\ ostreeJobs'[t].todo = ostreeJobs[t].todo
        /\ \A u \in OstreeThreads : u # t => ostreeJobs'[u] = ostreeJobs[u]
    BY <1>0, <2>1, GoesOnIs
  <2>3. CASE FirstOfJob(t)
    <3>1. PICK s \in {"installing", "removing"} : rpmApps' = AppsTo(ostreeJobs[t].op, s)
      BY <1>3, <2>3 DEF WaitEnds, InProgress
    <3>2. s \in States \ {"unknown", "queued"}
      BY DEF States
    <3>3. /\ rpmApps' \in [Things -> GsApp]
          /\ \A x \in Things : /\ rpmApps'[x].recover \notin Transient \union {"unknown"}
                               /\ x \notin ThingOf(ostreeJobs[t].op) => rpmApps'[x] = rpmApps[x]
      BY <1>0, <3>1, <3>2, AppsAre
    <3>4. \A x \in Things : x \in ThingOf(ostreeJobs[t].op) => WorksOn(t, x)'
      BY <2>2, <2>3 DEF WorksOn, FirstOfJob, InWork
    <3>5. \A x \in Things : ~WorksOn(t, x)
      BY <2>1 DEF WorksOn, InWork
    <3> QED
      BY <1>0, <1>2, <2>1, <2>2, <3>3, <3>4, <3>5, JobKeeps DEF proxyVars
  <2>4. CASE ~FirstOfJob(t)
    <3>1. rpmApps' = rpmApps
      BY <1>3, <2>4 DEF WaitEnds
    <3>5. \A x \in Things : ~WorksOn(t, x)
      BY <2>1 DEF WorksOn, InWork
    <3> QED
      BY <1>0, <1>1, <1>2, <2>1, <2>2, <3>1, <3>5, JobKeeps DEF proxyVars
  <2> QED
    BY <2>3, <2>4
<1>4. CASE BusyEnds(t) \/ CallDaemon(t)
  <2>1. PICK stage \in {"call", "respond", "busy"} :
            /\ GoesOnTo(t, stage) /\ ostreeJobs[t].stage \in {"busy", "call"}
            /\ UNCHANGED <<proxyVars, rpmApps, triggered, countVars>> /\ transaction' \in {transaction, t}
    BY <1>4 DEF BusyEnds, CallDaemon, JobIs
  <2>2. /\ ostreeJobs' \in [OstreeThreads -> OstreeJob] /\ ostreeJobs'[t].stage = stage
        /\ ostreeJobs'[t].op = ostreeJobs[t].op /\ ostreeJobs'[t].todo = ostreeJobs[t].todo
        /\ \A u \in OstreeThreads : u # t => ostreeJobs'[u] = ostreeJobs[u]
    BY <1>0, <2>1, GoesOnIs
  <2>3. \A x \in Things : WorksOn(t, x) => WorksOn(t, x)'
    BY <2>1, <2>2 DEF WorksOn, FirstOfJob, InWork
  <2> QED
    BY <1>0, <1>1, <1>2, <2>1, <2>2, <2>3, JobKeeps DEF proxyVars
<1>5. CASE JobStops(t)
  <2>1. /\ EndsOstree(t) /\ rpmApps' = (IF JobIs(t, "wait") THEN rpmApps ELSE Recovers(t))
        /\ UNCHANGED <<sysrootProxy, made, inactivity, transaction, triggered, countVars>>
    BY <1>5 DEF JobStops
  <2>2. CASE JobIs(t, "wait")
    <3>1. \A x \in Things : ~WorksOn(t, x)
      BY <2>2 DEF WorksOn, InWork, JobIs
    <3> QED
      BY <1>0, <1>1, <2>1, <2>2, <3>1, EndsIs, JobSets, JobKeeps
  <2>3. CASE ~JobIs(t, "wait")
    <3>1. rpmApps' = Recovers(t)
      BY <2>1, <2>3
    <3>2. \A x \in Things : rpmApps'[x].state \in InDoing => rpmApps[x].state \in InDoing /\ ~WorksOn(t, x)
      BY <1>0, <3>1, RecoversIs DEF WorksOn
    <3>3. rpmApps' \in [Things -> GsApp] /\ \A x \in Things : rpmApps'[x].recover \notin Transient \union {"unknown"}
      BY <1>0, <3>1, RecoversIs
    <3> QED
      BY <1>0, <2>1, <3>2, <3>3, EndsIs, JobSets, JobKeeps
  <2> QED
    BY <2>2, <2>3
<1>6. CASE Failed(t)
  <2>1. EndsOstree(t) /\ UNCHANGED <<sysrootProxy, made, inactivity, transaction, triggered, countVars>>
    BY <1>6 DEF Failed
  <2>2. CASE rpmApps' = Recovers(t)
    <3>2. \A x \in Things : rpmApps'[x].state \in InDoing => rpmApps[x].state \in InDoing /\ ~WorksOn(t, x)
      BY <1>0, <2>2, RecoversIs DEF WorksOn
    <3>3. rpmApps' \in [Things -> GsApp] /\ \A x \in Things : rpmApps'[x].recover \notin Transient \union {"unknown"}
      BY <1>0, <2>2, RecoversIs
    <3> QED
      BY <1>0, <2>1, <3>2, <3>3, EndsIs, JobSets, JobKeeps
  <2>3. CASE rpmApps' = AppsTo("download", "updatable") /\ ostreeJobs[t].op = "download"
    <3>1. "updatable" \in States \ {"unknown", "queued"}
      BY DEF States
    <3>2. \A x \in Things : rpmApps'[x].state \in InDoing => rpmApps[x].state \in InDoing /\ ~WorksOn(t, x)
      BY <1>0, <2>3, <3>1, AppsAre DEF WorksOn, InDoing
    <3>3. rpmApps' \in [Things -> GsApp] /\ \A x \in Things : rpmApps'[x].recover \notin Transient \union {"unknown"}
      BY <1>0, <2>3, <3>1, AppsAre
    <3> QED
      BY <1>0, <2>1, <3>2, <3>3, EndsIs, JobSets, JobKeeps
  <2> QED
    BY <1>6, <2>2, <2>3 DEF Failed
<1>7. CASE Succeeded(t)
  <2>1. /\ UNCHANGED <<sysrootProxy, made, inactivity, transaction, countVars>> /\ ostreeJobs[t].stage = "finished"
        /\ triggered' = (triggered \/ ostreeJobs[t].op = "update")
    BY <1>7 DEF Succeeded, JobIs
  <2>2. triggered' \in BOOLEAN
    BY <2>1
  <2>3. /\ rpmApps' \in [Things -> GsApp]
        /\ \A x \in Things : /\ rpmApps'[x].recover \notin Transient \union {"unknown"}
                             /\ rpmApps'[x].state \in InDoing => rpmApps[x].state \in InDoing /\ ~WorksOn(t, x)
    <3>1. CASE FirstOfJob(t) /\ Success(ostreeJobs[t].op) # {}
      <4>1. PICK s \in Success(ostreeJobs[t].op) : rpmApps' = AppsTo(ostreeJobs[t].op, s)
        BY <1>7, <3>1 DEF Succeeded
      <4>2. s \in States \ {"unknown", "queued"} /\ s \notin InDoing
        BY DEF Success, States, InDoing
      <4> QED
        BY <1>0, <4>1, <4>2, AppsAre DEF WorksOn
    <3>2. CASE ~(FirstOfJob(t) /\ Success(ostreeJobs[t].op) # {})
      <4>1. rpmApps' = rpmApps
        BY <1>7, <3>2 DEF Succeeded
      <4>2. \A x \in Things : ~WorksOn(t, x)
        BY <3>2 DEF WorksOn, Success, ThingOf
      <4> QED
        BY <1>0, <1>1, <4>1, <4>2
    <3> QED
      BY <3>1, <3>2
  <2>4. CASE EndsOstree(t)
    BY <1>0, <2>1, <2>2, <2>3, <2>4, EndsIs, JobSets, JobKeeps
  <2>5. CASE /\ ostreeJobs[t].todo # 1 /\ UNCHANGED proxies
             /\ ostreeJobs' = [ostreeJobs EXCEPT ![t].stage = "wait", ![t].todo = @ - 1]
    <3>1. ostreeJobs[t].todo \in 0..4 /\ ostreeJobs[t].todo # 0
      BY <1>0, <1>2, <2>1 DEF OstreeJob
    <3>2. PICK n \in 0..4 : n = ostreeJobs[t].todo - 1 /\ n # 0
      BY <2>5, <3>1
    <3>3. PICK job \in OstreeJob : job = [ostreeJobs[t] EXCEPT !.stage = "wait", !.todo = n] /\ job.todo = n
      BY <1>0, <3>2, JobWithTodo
    <3>4. ostreeJobs' = [ostreeJobs EXCEPT ![t] = job]
      BY <1>0, <2>5, <3>2, <3>3
    <3>5. /\ ostreeJobs' \in [OstreeThreads -> OstreeJob] /\ ostreeJobs'[t].todo # 0
          /\ \A u \in OstreeThreads : u # t => ostreeJobs'[u] = ostreeJobs[u]
      BY <1>0, <3>2, <3>3, <3>4
    <3> QED
      BY <1>0, <2>1, <2>2, <2>3, <2>5, <3>5, JobKeeps
  <2> QED
    BY <1>7, <2>4, <2>5 DEF Succeeded
<1> QED
  BY <1>3, <1>4, <1>5, <1>6, <1>7

\* Whoever shares the daemon and the connection to it, and whatever fails, no
\* app is left as being worked on, and the connection is dropped one day
\* (plugins/rpm-ostree).
THEOREM OstreeLeavesNothing == OstreeSpec => []OstreeInv
<1>1. OstreeInit => OstreeIInv
  <2> SUFFICES ASSUME OstreeInit PROVE OstreeIInv
    OBVIOUS
  <2>1. PICK s \in {"available", "installed"} :
            rpmApps = [x \in Things |-> SetState(NewApp, IF x = "package" THEN s ELSE "available")]
    BY DEF OstreeInit
  <2>2. \A r \in {"available", "installed"} :
            /\ SetState(NewApp, r) \in GsApp /\ SetState(NewApp, r).state = r
            /\ SetState(NewApp, r).recover = r
    BY DEF SetState, NewApp, Remember, GsApp, States, Actions, Transient
  <2>3. /\ rpmApps \in [Things -> GsApp]
        /\ \A x \in Things : rpmApps[x].state \notin InDoing /\ rpmApps[x].recover \notin Transient \union {"unknown"}
    BY <2>1, <2>2 DEF InDoing, Transient
  <2>4. ostreeJobs \in [OstreeThreads -> OstreeJob] /\ \A t \in OstreeThreads : ostreeJobs[t].stage = "idle"
    BY JobSets DEF OstreeInit
  <2>5. proxies \in [1..MaxProxies -> Proxy]
    BY DEF OstreeInit, Proxy, OstreeThreads
  <2>6. OstreeTypeOK
    <3>1. sysrootProxy = 1 /\ made = 1 /\ inactivity = TRUE /\ transaction = NoOne /\ triggered = FALSE
          /\ ostreeStarted = 0 /\ foreign = 0
      BY DEF OstreeInit
    <3>2. 1 \in 0..1 /\ 1 \in 0..MaxProxies /\ 0 \in 0..MaxOstreeJobs /\ 0 \in 0..MaxForeign
      BY OstreeAssumption
    <3> QED
      BY <2>3, <2>4, <2>5, <3>1, <3>2, OstreeTypes
  <2>7. IdleConnectionEnds
    BY DEF OstreeInit, IdleConnectionEnds
  <2>8. OstreeAppsSettle
    BY <2>3, SettleIs
  <2> QED
    BY <2>3, <2>4, <2>6, <2>7, <2>8 DEF OstreeIInv, OstreeInv, RecoverIsStable, JobsHaveWork, JobIs
<1>2. OstreeIInv /\ [OstreeNext]_ostreeVars => OstreeIInv'
  <2> SUFFICES ASSUME OstreeIInv, [OstreeNext]_ostreeVars PROVE OstreeIInv'
    OBVIOUS
  <2>1. CASE UNCHANGED ostreeVars
    <3>1. OstreeTypeOK' /\ IdleConnectionEnds' /\ UNCHANGED <<rpmApps, ostreeJobs>>
      BY <2>1, OstreeTypes DEF ostreeVars, proxyVars, countVars, OstreeIInv, OstreeInv, IdleConnectionEnds
    <3> QED
      BY <3>1, AppsAlone DEF OstreeIInv, JobsHaveWork, JobIs, WorksOn
  <2> QED
    BY <2>1, OstreeDaemonKeeps, TransactionEndKeeps, StartOstreeKeeps, ProxiesKeep, JobStepKeeps DEF OstreeNext, OstreeStep
<1> QED
  BY <1>1, <1>2, PTL DEF OstreeSpec, OstreeIInv
=============================================================================
