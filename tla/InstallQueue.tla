---------------------------- MODULE InstallQueue ----------------------------
(***************************************************************************)
(* lib/gs-plugin-loader.c: the queue of apps to install (pending_apps), the*)
(* file that keeps it across restarts, and the jobs that empty it.         *)
(*                                                                         *)
(* The main thread schedules jobs, takes apps off the queue for the user   *)
(* and flushes the queue when the network comes back.  Each INSTALL job    *)
(* runs in the thread pool, each REMOVE job in a thread of its own.  They  *)
(* all change the list, the apps and the file, but hold the mutex only for *)
(* the list: adding or removing an app is                                  *)
(*     change the list;  set the state and collect what to save;  save     *)
(* and other threads run between these steps.  op[t] says which of them    *)
(* thread t is at.                                                         *)
(***************************************************************************)
EXTENDS AppState, Naturals, FiniteSets

CONSTANTS
    Apps, Jobs,
    Main,           \* the main thread
    NoApp,
    MaxSignals,     \* bound: how often the network monitor reports
    MaxCrashes      \* bound: how often the program is restarted

ASSUME NamesAssumption == Main \notin Jobs /\ NoApp \notin Apps
ASSUME BoundsAssumption == MaxSignals \in Nat /\ MaxCrashes \in Nat

Threads == Jobs \union {Main}

VARIABLES
    app,            \* the GsApp of each app
    queue,          \* plugin_loader->pending_apps
    file,           \* the apps saved in ~/.local/share/gnome-software/install-queue
    onDisk,         \* the apps that are really installed
    network,        \* what the network monitor says
    booting,        \* the setup has loaded the queue and not flushed it yet
    job,            \* the jobs, each with its GTask and its cancellable
    op,             \* what each thread is doing to the queue
    obsolete,       \* apps the main thread is about to take off while flushing
    wanted,         \* history: the apps the user asked for and did not take back
    signals, crashes

vars == <<app, queue, file, onDisk, network, booting, job, op, obsolete, wanted,
          signals, crashes>>

\* pc:    todo, adding  job_process_cb(), on the main thread
\*        pool          pushed to the pool (a REMOVE job: to its thread)
\*        start, offered, acting, failed, ended, removing, refining
\*                      process_thread_cb()
\*        clearing      process_in_thread_pool_cb(), after the task has returned
\* kind:  "flush" is an INSTALL job of the flush, which has another callback
\* own:   the job's cancellable is chained to the app's own cancellable
\* reply: the callback that is due on the main thread, if it changes anything
Job == [pc : {"free", "todo", "adding", "pool", "start", "offered", "acting", "failed",
              "ended", "removing", "refining", "clearing", "done"},
        app : Apps \union {NoApp}, kind : {"install", "flush", "remove"},
        own : BOOLEAN, cancelled : BOOLEAN, ok : BOOLEAN,
        reply : {"none", "due", "recover"}]

NewJob(a, kind, own, pc) ==
    [pc |-> pc, app |-> a, kind |-> kind, own |-> own, cancelled |-> FALSE, ok |-> TRUE,
     reply |-> "none"]
FreeJob == NewJob(NoApp, "install", FALSE, "free")

Installs(j) == job[j].kind # "remove"
Live(j) == job[j].pc # "free"

Op == [at : {"none", "added", "removed", "write"}, app : Apps \union {NoApp},
       save : SUBSET Apps]
NoOp == [at |-> "none", app |-> NoApp, save |-> {}]

TypeOK ==
    /\ app \in [Apps -> GsApp]
    /\ queue \subseteq Apps /\ file \subseteq Apps /\ onDisk \subseteq Apps
    /\ network \in {"offline", "metered", "online"} /\ booting \in BOOLEAN
    /\ job \in [Jobs -> Job]
    /\ op \in [Threads -> Op]
    /\ obsolete \subseteq Apps /\ wanted \subseteq Apps
    /\ signals \in 0..MaxSignals /\ crashes \in 0..MaxCrashes

\* What a refine reports of an app.
Truth(a) == IF a \in onDisk THEN "installed" ELSE "available"

Init ==
    /\ onDisk = {} /\ network \in {"offline", "online"} /\ booting = FALSE
    /\ app = [a \in Apps |-> SetState(NewApp, "available")]
    /\ queue = {} /\ file = {} /\ obsolete = {} /\ wanted = {}
    /\ job = [j \in Jobs |-> FreeJob] /\ op = [t \in Threads |-> NoOp]
    /\ signals = 0 /\ crashes = 0

-----------------------------------------------------------------------------
(* The queue, as each thread changes it.                                   *)

\* add_app_to_install_queue() up to the unlock.
BeginAdd(t, a) ==
    /\ op[t] = NoOp
    /\ queue' = queue \union {a}
    /\ op' = [op EXCEPT ![t] = [at |-> "added", app |-> a, save |-> {}]]

\* remove_app_from_install_queue() up to the unlock: nothing more is done
\* for an app that was not in the list.
BeginRemove(t, a) ==
    /\ op[t] = NoOp
    /\ queue' = queue \ {a}
    /\ op' = IF a \in queue
             THEN [op EXCEPT ![t] = [at |-> "removed", app |-> a, save |-> {}]]
             ELSE op

\* The apps save_install_queue() collects: those of the list that are queued.
ToSave(state) == {b \in queue : state[b].state = "queued"}

\* The state of the app, then the first half of save_install_queue().
Change(t) ==
    LET a == op[t].app
        state == IF op[t].at = "added" THEN [app EXCEPT ![a] = SetState(@, "queued")]
                 ELSE IF app[a].state = "queued"
                 THEN [app EXCEPT ![a] = SetState(@, "unknown")]
                 ELSE app
    IN
    /\ op[t].at \in {"added", "removed"}
    /\ app' = state
    /\ op' = [op EXCEPT ![t].at = "write", ![t].save = ToSave(state)]
    /\ UNCHANGED <<queue, file, onDisk, network, booting, job, obsolete, wanted,
                   signals, crashes>>

\* The end of save_install_queue(), outside the lock.
Write(t) ==
    /\ op[t].at = "write"
    /\ file' = op[t].save
    /\ op' = [op EXCEPT ![t] = NoOp]
    /\ UNCHANGED <<app, queue, onDisk, network, booting, job, obsolete, wanted,
                   signals, crashes>>

-----------------------------------------------------------------------------
(* The main thread.                                                        *)

\* The main loop dispatches the next source.
MainIdle ==
    /\ op[Main] = NoOp /\ obsolete = {} /\ ~booting
    /\ \A j \in Jobs : job[j].pc \notin {"todo", "adding"} /\ job[j].reply # "recover"

Starts(j, new) == job[j] = FreeJob /\ job' = [job EXCEPT ![j] = new]

\* The user asks for an app: gs_page_install_app().  The details page passes
\* the app's cancellable, the other pages and the shell pass their own.
UserInstall(a) ==
    /\ MainIdle /\ app[a].state = "available"
    /\ \E j \in Jobs, own \in BOOLEAN : Starts(j, NewJob(a, "install", own, "todo"))
    /\ wanted' = wanted \union {a}
    /\ UNCHANGED <<app, queue, file, onDisk, network, booting, op, obsolete, signals, crashes>>

\* gs_plugin_loader_schedule_task(): the pending action, the queue, the pool.
Schedule(j) ==
    /\ op[Main] = NoOp /\ obsolete = {} /\ job[j].pc = "todo"
    /\ \A i \in Jobs : job[i].pc # "adding"
    /\ app' = [app EXCEPT ![job[j].app].action = "install"]
    /\ BeginAdd(Main, job[j].app)
    /\ job' = [job EXCEPT ![j].pc = "adding"]
    /\ UNCHANGED <<file, onDisk, network, booting, obsolete, wanted, signals, crashes>>

PushToPool(j) ==
    /\ op[Main] = NoOp /\ job[j].pc = "adding"
    /\ job' = [job EXCEPT ![j].pc = "pool"]
    /\ UNCHANGED <<app, queue, file, onDisk, network, booting, op, obsolete, wanted,
                   signals, crashes>>

\* A REMOVE job: job_process_cb() answers at once when the app is in the
\* queue, and starts a thread when it is not.  js are the jobs as they are.
RemoveJob(a, js) ==
    \/ a \in queue /\ BeginRemove(Main, a) /\ job' = js
    \/ /\ a \notin queue
       /\ \E j \in Jobs : /\ js[j] = FreeJob
                          /\ job' = [js EXCEPT ![j] = NewJob(a, "remove", TRUE, "pool")]
       /\ UNCHANGED <<queue, op>>

\* g_cancellable_cancel() on the app's cancellable, which is renewed after.
Cancelled(a) ==
    [j \in Jobs |-> IF job[j].app = a /\ job[j].own
                    THEN [job[j] EXCEPT !.cancelled = TRUE] ELSE job[j]]

\* The user takes a queued app back: gs_page_remove_app().
UserCancel(a) ==
    /\ MainIdle /\ app[a].state = "queued"
    /\ RemoveJob(a, Cancelled(a))
    /\ wanted' = wanted \ {a}
    /\ UNCHANGED <<app, file, onDisk, network, booting, obsolete, signals, crashes>>

\* The user uninstalls an installed app: the same function, after a dialog.
UserRemove(a) ==
    /\ MainIdle /\ app[a].state = "installed"
    /\ RemoveJob(a, job)
    /\ wanted' = wanted \ {a}
    /\ UNCHANGED <<app, file, onDisk, network, booting, obsolete, signals, crashes>>

\* The cancel button of the details page, while the app is worked on.
UserStop(a) ==
    /\ MainIdle /\ app[a].state \in {"installing", "removing"}
    /\ \E j \in Jobs : job[j].app = a /\ job[j].own /\ ~job[j].cancelled
    /\ job' = Cancelled(a)
    /\ app' = [app EXCEPT ![a].action = "unknown"]
    /\ wanted' = IF app[a].state = "installing" THEN wanted \ {a} ELSE wanted
    /\ UNCHANGED <<queue, file, onDisk, network, booting, op, obsolete, signals, crashes>>

\* gs_plugin_loader_maybe_flush_pending_install_queue(): the queued apps
\* become available again and get an INSTALL job each, on their own
\* cancellables; the other apps of the list are obsolete.
MaybeFlush ==
    LET ready == {a \in queue : app[a].state = "queued"} IN
    IF network' # "online" THEN UNCHANGED <<app, obsolete, job>>
    ELSE /\ app' = [a \in Apps |-> IF a \in ready THEN SetState(app[a], "available")
                                                  ELSE app[a]]
         /\ obsolete' = queue \ ready
         /\ \E slot \in [ready -> {j \in Jobs : job[j] = FreeJob}] :
               /\ \A a, b \in ready : slot[a] = slot[b] => a = b
               /\ job' = [j \in Jobs |->
                            IF \E a \in ready : slot[a] = j
                            THEN NewJob(CHOOSE a \in ready : slot[a] = j, "flush", TRUE, "todo")
                            ELSE job[j]]

\* One of the three signals of the network monitor.
NetworkSignal ==
    /\ MainIdle /\ signals < MaxSignals
    /\ signals' = signals + 1
    /\ network' \in {"offline", "metered", "online"}
    /\ MaybeFlush
    /\ UNCHANGED <<queue, file, onDisk, booting, op, wanted, crashes>>

DropObsolete(a) ==
    /\ a \in obsolete
    /\ BeginRemove(Main, a)
    /\ obsolete' = obsolete \ {a}
    /\ UNCHANGED <<app, file, onDisk, network, booting, job, wanted, signals, crashes>>

\* The end of a task for one of its two parties, the pool and the main thread.
Settle(j, pc, reply) ==
    job' = [job EXCEPT ![j] = IF pc = "done" /\ reply = "none" THEN FreeJob
                              ELSE [@ EXCEPT !.pc = pc, !.reply = reply]]

\* gs_plugin_loader_app_installed_cb(), the callback of the flush.
AppInstalled(j) ==
    /\ MainIdle /\ job[j].reply = "due"
    /\ BeginRemove(Main, job[j].app)
    /\ Settle(j, job[j].pc, IF job[j].ok THEN "none" ELSE "recover")
    /\ UNCHANGED <<app, file, onDisk, network, booting, obsolete, wanted, signals, crashes>>

AppNotInstalled(j) ==
    /\ op[Main] = NoOp /\ job[j].reply = "recover"
    /\ app' = [app EXCEPT ![job[j].app] = SetStateRecover(@)]
    /\ Settle(j, job[j].pc, "none")
    /\ UNCHANGED <<queue, file, onDisk, network, booting, op, obsolete, wanted, signals, crashes>>

-----------------------------------------------------------------------------
(* A job: gs_plugin_loader_process_thread_cb() and the plugins it calls.   *)

\* The thread of j is at one of the points "from", and not inside the queue.
At(j, from) ==
    /\ op[j] = NoOp /\ job[j].pc \in from
    /\ UNCHANGED <<file, network, booting, obsolete, wanted, signals, crashes>>
GoTo(j, pc) == job' = [job EXCEPT ![j].pc = pc, ![j].ok = @ /\ pc # "failed"]

\* gs_plugin_loader_pending_apps_add()
Start(j) ==
    /\ At(j, {"pool"})
    /\ IF Installs(j) THEN BeginAdd(j, job[j].app) ELSE BeginRemove(j, job[j].app)
    /\ GoTo(j, "start")
    /\ UNCHANGED <<app, onDisk>>

\* run_results() looks at the cancellable before each plugin.
RunCancelled(j) ==
    /\ At(j, {"start", "offered"}) /\ job[j].cancelled
    /\ GoTo(j, "failed")
    /\ UNCHANGED <<app, queue, onDisk, op>>

\* A plugin that does not manage the app returns at once, and call_vfunc()
\* adds an app that is queued to the queue once more.
RunOther(j) ==
    /\ At(j, {"start"}) /\ ~job[j].cancelled
    /\ IF Installs(j) /\ app[job[j].app].state = "queued"
       THEN BeginAdd(j, job[j].app) ELSE UNCHANGED <<queue, op>>
    /\ GoTo(j, "offered")
    /\ UNCHANGED <<app, onDisk>>

\* A plugin that needs the network queues the app and reports success;
\* call_vfunc() adds it to the queue.
RunOffline(j) ==
    /\ At(j, {"start", "offered"}) /\ ~job[j].cancelled
    /\ Installs(j) /\ network = "offline"
    /\ app' = [app EXCEPT ![job[j].app] = SetState(@, "queued")]
    /\ BeginAdd(j, job[j].app)
    /\ GoTo(j, "ended")
    /\ UNCHANGED onDisk

\* A plugin starts to act.
RunPlugin(j) ==
    /\ At(j, {"start", "offered"}) /\ ~job[j].cancelled
    /\ Installs(j) => network # "offline"
    /\ app' = [app EXCEPT ![job[j].app] =
                  SetState(@, IF Installs(j) THEN "installing" ELSE "removing")]
    /\ GoTo(j, "acting")
    /\ UNCHANGED <<queue, onDisk, op>>

\* gs_plugin_error_handle_failure(): the job of a page propagates the error;
\* the others may turn it into an event and go on.
AfterError(j) == IF job[j].kind = "install" THEN {"failed"} ELSE {"failed", "ended"}

\* A plugin gives up before it acts, or has nothing to do.
RunRefused(j) ==
    /\ At(j, {"start", "offered"}) /\ ~job[j].cancelled
    /\ Installs(j) => network # "offline"
    /\ \E pc \in AfterError(j) : GoTo(j, pc)
    /\ UNCHANGED <<app, queue, onDisk, op>>

\* The plugin succeeds; call_vfunc() makes an error of it when the job was
\* cancelled meanwhile.
Succeed(j) ==
    /\ At(j, {"acting"})
    /\ LET a == job[j].app IN
       IF Installs(j)
       THEN onDisk' = onDisk \union {a} /\ app' = [app EXCEPT ![a] = SetState(@, "installed")]
       ELSE onDisk' = onDisk \ {a}      /\ app' = [app EXCEPT ![a] = SetState(@, "available")]
    /\ \E pc \in IF job[j].cancelled THEN AfterError(j) ELSE {"ended"} : GoTo(j, pc)
    /\ UNCHANGED <<queue, op>>

\* The plugins go back to the last stable state when they fail.
Fail(j) ==
    /\ At(j, {"acting"})
    /\ app' = [app EXCEPT ![job[j].app] = SetStateRecover(@)]
    /\ \E pc \in AfterError(j) : GoTo(j, pc)
    /\ UNCHANGED <<queue, onDisk, op>>

\* The error path of process_thread_cb() recovers the state as well.
Recover(j) ==
    /\ At(j, {"failed"})
    /\ app' = [app EXCEPT ![job[j].app] = SetStateRecover(@)]
    /\ job' = [job EXCEPT ![j].pc = "ended"]
    /\ UNCHANGED <<queue, onDisk, op>>

\* gs_plugin_loader_pending_apps_remove(), on the success path and on the
\* error path alike.
EndWithoutRemove(j) ==          \* mutant: the app stays in the list
    /\ At(j, {"ended"})
    /\ GoTo(j, "removing")
    /\ UNCHANGED <<app, queue, op, onDisk>>
End(j) ==
    /\ At(j, {"ended"})
    /\ BeginRemove(j, job[j].app)
    /\ GoTo(j, "removing")
    /\ UNCHANGED <<app, onDisk>>

\* ... which does not leave the app in an action helper.
LeaveHelperAsItIs(j) ==         \* mutant: the state is not checked
    /\ At(j, {"removing"})
    /\ GoTo(j, "refining")
    /\ UNCHANGED <<app, queue, onDisk, op>>
LeaveHelper(j) ==
    /\ At(j, {"removing"})
    /\ app' = [app EXCEPT ![job[j].app] =
                  IF @.state \in {"installing", "removing"} THEN SetState(@, "unknown") ELSE @]
    /\ GoTo(j, "refining")
    /\ UNCHANGED <<queue, onDisk, op>>

\* The refine of a job that did not fail may find out the state of an app
\* that has none; then the task returns.
Answer(j) ==
    LET a == job[j].app IN
    /\ At(j, {"refining"})
    /\ \/ UNCHANGED app
       \/ /\ job[j].ok /\ app[a].state = "unknown"
          /\ app' = [app EXCEPT ![a] = SetState(@, Truth(a))]
    /\ Settle(j, IF Installs(j) THEN "clearing" ELSE "done",
                 IF job[j].kind = "flush" THEN "due" ELSE "none")
    /\ UNCHANGED <<queue, onDisk, op>>

\* The end of gs_plugin_loader_process_in_thread_pool_cb().
KeepAction(j) ==                \* mutant: the action set by Schedule stays
    /\ At(j, {"clearing"})
    /\ Settle(j, "done", job[j].reply)
    /\ UNCHANGED <<app, queue, onDisk, op>>
ClearAction(j) ==
    /\ At(j, {"clearing"})
    /\ app' = [app EXCEPT ![job[j].app].action = IF @ = "install" THEN "unknown" ELSE @]
    /\ Settle(j, "done", job[j].reply)
    /\ UNCHANGED <<queue, onDisk, op>>

-----------------------------------------------------------------------------
\* The program is killed and started again: load_install_queue() and
\* finish_setup_install_queue_cb(), which queues the loaded apps that a refine
\* finds available, saves the queue, and flushes it.
Restart ==
    /\ crashes < MaxCrashes
    /\ crashes' = crashes + 1
    /\ queue' = file \ onDisk /\ file' = file \ onDisk /\ booting' = (file \ onDisk # {})
    /\ app' = [a \in Apps |-> IF a \in file \ onDisk
                              THEN SetState(SetState(NewApp, "available"), "queued")
                              ELSE SetState(NewApp, Truth(a))]
    /\ job' = [j \in Jobs |-> FreeJob]
    /\ op' = [t \in Threads |-> NoOp] /\ obsolete' = {}
    /\ UNCHANGED <<onDisk, network, wanted, signals>>

NoFlushAfterSetup ==            \* mutant: the loaded queue waits for a signal
    /\ booting
    /\ booting' = FALSE
    /\ UNCHANGED <<app, obsolete, job, network, queue, file, onDisk, op, wanted,
                   signals, crashes>>
FlushAfterSetup ==
    /\ booting
    /\ booting' = FALSE
    /\ network' = network /\ MaybeFlush
    /\ UNCHANGED <<queue, file, onDisk, op, wanted, signals, crashes>>

MainWork ==
    \/ \E a \in Apps : DropObsolete(a)
    \/ \E j \in Jobs : Schedule(j) \/ PushToPool(j) \/ AppInstalled(j) \/ AppNotInstalled(j)
    \/ FlushAfterSetup

Environment ==
    \/ \E a \in Apps : UserInstall(a) \/ UserCancel(a) \/ UserRemove(a) \/ UserStop(a)
    \/ NetworkSignal
    \/ Restart

JobNext(j) ==
    \/ Start(j) \/ RunCancelled(j) \/ RunOther(j) \/ RunOffline(j) \/ RunPlugin(j)
    \/ RunRefused(j) \/ Succeed(j) \/ Fail(j) \/ Recover(j) \/ End(j) \/ LeaveHelper(j)
    \/ Answer(j) \/ ClearAction(j)

QueueOp(t) == Change(t) \/ Write(t)

Next ==
    \/ Environment
    \/ MainWork
    \/ \E j \in Jobs : JobNext(j)
    \/ \E t \in Threads : QueueOp(t)

\* Threads that have something to do go on, and each plugin ends; nobody is
\* obliged to install, to cancel, to change the network or to crash.
Fairness ==
    /\ WF_vars(MainWork)
    /\ \A j \in Jobs : WF_vars(JobNext(j))
    /\ \A t \in Threads : WF_vars(QueueOp(t))

SafeSpec == Init /\ [][Next]_vars
Spec == SafeSpec /\ Fairness

-----------------------------------------------------------------------------
(* Properties.                                                             *)

Quiet == MainIdle /\ \A j \in Jobs : ~Live(j)

\* However the jobs ended, an app that nobody works on is not shown as being
\* installed or removed ("check the app is not still in an action helper").
NotLeftInHelper ==
    Quiet => \A a \in Apps : app[a].state \notin {"installing", "removing"}

\* Whatever the jobs, the user and the network did to the list at the same
\* time, what is left in it when all is quiet still waits to be installed: the
\* next flush finds nothing that is installed or that nobody queued.
QueueIsQueued ==
    Quiet => \A a \in queue : app[a].state = "queued" /\ a \notin onDisk

\* No pending action outlives the job it announced, so the UI does not offer
\* to cancel what is over: schedule_task() sets it, the state changes and
\* process_in_thread_pool_cb() clear it.
NoStuckAction == Quiet => \A a \in Apps \ queue : app[a].action = "unknown"

\* A queued app does not wait for good while the network is there: each flush,
\* after a signal or after the setup, ends in a job that takes it off.
QueueDrains == \A a \in Apps : a \in queue ~> (a \notin queue \/ network # "online")

-----------------------------------------------------------------------------
(* The inductive invariant of the proof of NotLeftInHelper.                *)

Helper == {"installing", "removing"}
InHelper(j) == job[j].pc \in {"acting", "failed", "ended", "removing"}

\* An app is in an action helper only while a job on it has still to pass
\* gs_plugin_loader_pending_apps_remove(), and no error goes back there.
HelperInv ==
    /\ \A a \in Apps : app[a].recover \notin Helper
    /\ \A a \in Apps : app[a].state \in Helper => \E j \in Jobs : job[j].app = a /\ InHelper(j)

\* A job that exists has an app, and so does a change of the queue.
JobInv ==
    /\ \A j \in Jobs : job[j] = FreeJob \/ (Live(j) /\ job[j].app \in Apps)
    /\ \A t \in Threads : op[t].at # "none" => op[t].app \in Apps

Inv == TypeOK /\ JobInv /\ HelperInv

-----------------------------------------------------------------------------
(* The inductive invariant of the proofs of QueueIsQueued and NoStuckAction.*)

\* The INSTALL jobs of an app that have still to take it off the queue, and
\* those that have still to clear its action.
TakesOff(j, a) ==
    /\ job[j].app = a /\ Installs(j)
    /\ job[j].pc \in {"todo", "adding", "pool", "start", "offered", "acting", "failed", "ended"}
Clears(j, a) ==
    TakesOff(j, a) \/ (job[j].app = a /\ Installs(j) /\ job[j].pc \in {"removing", "refining", "clearing"})

\* The app is as the start of the program has left it.
AsLoaded(a) ==
    /\ app[a].state = "queued" /\ a \notin obsolete /\ a \notin onDisk
    /\ \A j \in Jobs : job[j].app # a
Loaded(a) == a \in queue /\ AsLoaded(a) /\ \A t \in Threads : op[t].app # a

\* Who adds an app to the list has a job that will take it off.
AddingInv ==
    /\ \A j \in Jobs : job[j].pc \in {"todo", "adding"} => Installs(j)
    /\ op[Main].at = "added" => \E j \in Jobs : job[j].app = op[Main].app /\ Installs(j) /\ job[j].pc = "adding"
    /\ \A j \in Jobs : op[j].at = "added" => TakesOff(j, op[j].app)

\* What is in the list was loaded, or a job will take it off; an action was
\* loaded, or a job will clear it, or the main thread, which takes it off.
WaitingInv ==
    \A a \in Apps :
        /\ app[a].action \in {"unknown", "install"}
        /\ a \in queue => Loaded(a) \/ \E j \in Jobs : TakesOff(j, a)
        /\ app[a].action # "unknown" =>
             \/ Loaded(a) \/ \E j \in Jobs : Clears(j, a)
             \/ op[Main].at = "removed" /\ op[Main].app = a /\ AsLoaded(a)

QueueInv == AddingInv /\ WaitingInv

-----------------------------------------------------------------------------
(* What the comments of the code say and the code does not do.             *)

\* "add app to the pending installation queue if necessary"
\* (gs-plugin-loader.c:689) and "queue for install if installation needs the
\* network" (gs-plugin-packagekit.c:458): when an INSTALL job ends without an
\* error, the app is installed or waits in the queue.
SuccessIsInstalledOrQueued ==
    \A j \in Jobs :
        /\ job[j].pc = "clearing" /\ job[j].ok /\ job[j].kind = "install"
        /\ job[j].app \in wanted
        => job[j].app \in onDisk \union queue

\* "cancel any ongoing job, this allows to e.g. cancel pending installations"
\* (gs-page.c:496): no plugin starts to install an app that the user has
\* taken back.
TakenBackIsNotInstalled ==
    [][\A j \in Jobs :
          job[j].pc \in {"start", "offered"} /\ job'[j].pc = "acting" /\ Installs(j)
          => job[j].app \in wanted]_vars
=============================================================================
