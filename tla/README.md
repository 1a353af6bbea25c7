# GNOME Software (Vanilla OS): formal models

TLA+ models of the concurrent core of GNOME Software, checked with TLC and, where a
property should hold for every size of the system, proved with TLAPS.  The source of every
definition is the C code; file and line numbers below refer to it.

## 1. Inventory

GNOME Software is one process.  Its *main thread* runs the GTK main loop, the pages and all
callbacks.  `GsPluginLoader` takes *jobs* from the pages and has the *plug-ins* carry them
out: old-style jobs (install, remove, update, ...) run in a thread pool or in a thread of
their own, new-style jobs run asynchronously and most plug-ins pass them on to a *worker
thread* they own.  A `GsApp` is shared by all of them, and behind the plug-ins are daemons
that other programs use as well.

| Component | State | Operations | Interacts with | What is hard | What makes it correct |
|---|---|---|---|---|---|
| Worker thread, `lib/gs-worker-thread.c` | state, context, thread, attached sources | queue, iterate, shutdown, join, dispose | plug-ins queue tasks, from the main thread and from pool threads; the main thread shuts down | queue against shutdown, order of batches, blocking join | no task is lost but one the shutdown overtakes, order kept, thread ends before the object |
| App state, `lib/gs-app.c` | state, state_recover, pending_action | set_state, set_state_recover, set_pending_action | loader, plug-ins, pages | setters called from every thread | transient states are left again |
| Install queue, `lib/gs-plugin-loader.c` | pending_apps, file, jobs, pool | add, remove, save, load, flush, schedule, run | pages, network monitor, plug-ins, thread pool | three-step changes, duplicate jobs, cancel, offline, restart | an app nobody works on is in no action helper; the queue holds what waits and nothing else; it drains |
| Loader setup and shutdown | setup_complete, its cancellable, n_pending | setup, plug-in setup, job that waits, shutdown | buses, plug-ins | two buses and n plug-ins join; setup called twice | jobs start once and after setup |
| updates-changed | counter, timer, active_jobs | report, job start and end, emit | plug-ins, pages, pool threads | counter and timer shared by threads | a report is followed by a signal |
| Plug-in jobs, `lib/gs-plugin-job-*.c` | n_pending, saved error, merged list, the layers of a refine | run, one callback per plug-in, recursion, finish | plug-ins, reviews | answers in any order, partial failure | the job ends once, after all plug-ins, with the first error |
| Downloads, `lib/gs-download-utils.c`, and their users | streams, cached files, ETags | replace, request, read, write, close | a server, the disk | failure and crash at any point, cancelled close | a whole file stays whole, with its own ETag |
| Vanilla OS plug-ins (`vanilla-meta`, `vso`) | silo and mutex, cached apps, states | list, refine, sources, install, remove | worker thread, pool threads, host commands | early returns with the lock held, two threads on one state | nobody is left with the mutex or in INSTALLING |
| Flatpak plug-in | transactions, the silo under a lock, cached refs, busy flag | install, remove, update, download, list, rebuild, claim | libflatpak, pool threads, file monitor | operations that fail midway, changes while the silo is built | states follow the transaction; readers know what was claimed |
| rpm-ostree plug-in | proxies, timer, transaction, states | install, remove, enable, refresh, update | rpm-ostreed, its other clients | a daemon that is busy or dies, contexts nobody runs | jobs end and leave the states settled |
| eos-updater plug-in | proxy, state of the upgrade, a thread that waits | poll, fetch, apply, cancel | eos-updater, its other clients, updates page | a condition, a cancellable and a daemon race | the banner agrees with the daemon, downloads end |
| Updates page | state, action_cnt, cache_valid | load, reload, refresh | loader | overlapping loads and refreshes | counter covers jobs, nothing twice |
| Overview, installed, category, details, search page, navigation of the shell | counters, cancellables, rows, stack of places | load, reload, switch, answers | loader, shell | answers to a page that shows something else by now | last request wins, no spinner for ever |
| Update monitor | timers, cancellables, time stamps, notifications | check, list, download, update, notify | loader, network, power, session | timers against signals and answers | what must stop stops, one notification a day |
| Events | events by id | add, dismiss, get first | plug-ins, info bars | added from threads | an event is shown once |
| App list, query, plug-in cache | lists, tables | add, dedupe, sort, truncate | everything | two threads, equal ids | no app is lost or doubled |
| PackageKit plug-in | prepared_updates, is_triggered, a timer, download sizes | list, refine, download, prepare, trigger, cancel | packagekitd, its two files and other clients | two files with monitors, threads that look and store later | updates that nothing prepared are offered for download |
| Other plug-ins | | refine, list | services | | |
| Utilities, metadata, widgets | little | pure functions, drawing | | | |

`PROJECT.json` lists the same components with what is modelled of each, and the hazards with
the lines where they bite.

## 2. Plan: what is done, what is left

1. `WorkerThread`, with `TaskExecutor` as what it promises. *Done; safety and the safety part
   of the refinement proved.*
2. `AppState` and `InstallQueue`. *Done; its four safety invariants proved.*
3. `UpdatesChanged`, and `UpdatesPage`, which composes it with the page that loads the list.
   *Done; their safety invariants proved.*
4. `PluginOrder` (an algorithm against a reference definition) and `LoaderSetup`, which
   composes it with the setup, the jobs that wait and the shutdown. *Done; its invariants
   proved, the loops of the ordering included.*
5. Jobs: `RefineJob`, and `PluginJobs`, which composes it with the fan-out and fan-in of the
   other jobs. *Done; their safety properties proved.*
6. Plug-ins over daemons and commands: `VanillaOS`, `EosUpdater`, `RpmOstree`, `Download`,
   `FlatpakJobs`, `FlatpakSilo`. *Done; their safety properties proved.*
7. The pages besides the updates: `OverviewPage`, `SearchPage`, `InstalledPage`,
   `CategoryPage`, `DetailsPage`, and `UpdateMonitor`. *Done; their safety properties proved.*
8. `PackageKitUpdates`, the offline updates. *Done; its invariants proved.*

Left, in the order of what they would add: the refine of the PackageKit plug-in, which joins
the answers of many queries; the events and the info bars of the shell; the app lists'
de-duplication against a reference; the registration and the layered packages of rpm-ostree;
Flatpak remotes and bundles.  Every safety invariant a run checks is proved (section 5); the
plan is to prove about each new module as it is written.

## 3. The modules and the code

An operator marked `mutant` belongs to no specification; it states a bug that a property is
known to detect, and `PROJECT.json` names the pair.

### WorkerThread, TaskExecutor (`lib/gs-worker-thread.c`)

A `GTask` and the source that carries it are one *item*; `itemState` tells where it is, and
`seqno`/`clock` the order of the attach. `workerState`, `hasContext` and `hasThread` are the
fields of the object. `QueueCheck` and `QueueInvoke` are the two halves of
`gs_worker_thread_queue()` (the assertion at :286, the attach at :294); `Iterate` is one
`g_main_context_iteration()`, which collects the ready sources of the best priority, and
`Dispatch`/`TaskReturns`/`ShutdownCb` run them; `ShutdownAsync`, `ShutdownFinish`,
`JoinReturns` and `Dispose` are the main thread's. `joining` blocks the main thread.
`ShutdownFinish` always joins: the code does so when the task succeeded (:419-422), and it
does, since the callers of `gs_plugin_loader_shutdown()` pass no cancellable
(gs-plugin-loader.c:2540).

The callers are the main thread and threads of the pool: a job that runs there refines there
(gs-plugin-loader.c:3316, gs-plugin-job-refine.c:320), and a plug-in's `refine_async` queues
in that thread (gs-plugin-vanilla-meta.c:704). A pool thread may be between check and attach
when the main thread starts the shutdown, and no lock keeps the worker from collecting the
shutdown item before the attach. What then becomes of the task is `Places`: the context of
the worker, which frees it unrun, or the default context, if the thread reads the pointer
after it was cleared. The history variable `overtaken` has the tasks that were in that place
when the shutdown item was collected, and the properties are stated for all the others: they
show that the overtaken task is the *only* one that can be lost.

`TaskExecutor` is what plug-ins rely on: a task is *offered* while the executor is open,
*accepted* unless the executor is *sealed* meanwhile, run one at a time, and nothing accepted
is left when it closes. The refinement mapping reads `phase`, `offered`, `todo`, `active` and
`done` off the item states and `overtaken`, and hides the shutdown item. Iteration of a
`GMainContext` is external (GLib).

### AppState, InstallQueue (`lib/gs-app.c`, `lib/gs-plugin-loader.c`, `src/gs-page.c`)

`AppState` has the three fields of a `GsApp` that carry a protocol and their setters. A
change that `gs_app_set_state_internal()` calls "not OK" is only warned about and made all
the same, so the switch restricts nothing and is not part of the model. PURCHASABLE and
PURCHASING are left out: nothing sets them.

`InstallQueue` has the list `pending_apps` (`queue`), the `file`, the truth (`onDisk`), the
jobs and, per thread, where it is in a change of the queue (`op`): list, state, file are
three steps with the lock held only in the first. A job walks through
`gs_plugin_loader_process_thread_cb()`: `Start` (add to or take off the queue), the plug-ins
(`RunCancelled`, `RunOther`, `RunOffline`, `RunPlugin`, `RunRefused`, then `Succeed` or
`Fail`), `Recover`, `End` (off the queue), `LeaveHelper`, `Answer` (a refine may find out the
state), `ClearAction`. `UserInstall`, `UserCancel`, `UserRemove` and `UserStop` are the
buttons of the pages with the two kinds of cancellable a page may pass; `Schedule` and
`PushToPool` are `gs_plugin_loader_schedule_task()`; `NetworkSignal`, `DropObsolete` and
`FlushAfterSetup` are the flush; `Restart` is a kill at any point followed by
`load_install_queue()` and `finish_setup_install_queue_cb()`. What a plug-in does with an app
is translated from the PackageKit plug-in.

### UpdatesChanged (`lib/gs-plugin-loader.c`, `lib/gs-plugin.c`)

A report of a plug-in is an idle source (`idle`), counted on the main thread (`Count`), which
then reads `active_jobs` (`LoadActive`) and may look for and set the timer (`Check`,
`AddTimer`). The end of a job (`TaskFreed`, in any thread: the destroy notify of its task)
decrements `active_jobs` and, when it was the last one, reads the counter (`ReadCount`) and
may set the timer as well. `Emit` is the timer; `EmitSoon` is the update monitor's request.
`updates_changed_cnt` and `updates_changed_id` are plain fields that two threads use. A plain
increment followed by an atomic load of another variable may become visible after the load
(`late`, `BecomesVisible`); what such an increment loses is marked by the history variable
`overtaken`, and the properties about the signal are stated for the other cases: they show
that the overtaken increment is the *only* way to lose a report. Attaching a source and
storing its number is one step, because the source waits three seconds.

### UpdatesPage (`src/gs-updates-page.c`)

Extends `UpdatesChanged`: the page's jobs are active jobs of the loader, and the page is the
receiver of the signal. `state`, `cacheValid`, `actionCnt`, `hasUpgrades` and `mode` are the
fields; `shown` holds the version (number of reports) each GET_UPDATES job saw when its
plug-ins looked (`Collect`) and whose answer was added since the page was emptied; `running`
are the jobs whose callback is to come. `Load`, `SwitchTo` and `Reload` are the functions of
those names, `GotUpdates`/`GotNoUpdates`, `GotUpgrades`, `Refreshed`/`NotRefreshed` and
`Updated` the callbacks, `Environment` the user, the shell and the monitor. Everything runs
on the main thread, one callback at a time; what interleaves is the order of the answers.

### PluginOrder, LoaderSetup (`lib/gs-plugin-loader.c`)

`PluginOrder` is the middle of `finish_setup_get_bus()` as operators: rules become *demands*
that a plug-in get a greater number than another, `Loop` repeats passes of one change each
until nothing changes or `MaxPasses` (101 in the code, shared by order and priority) is
spent, `Resolve` disables the losers of conflicts and `Sort` orders by number and name (one
plug-in directory is assumed). A sequence of demands is a function of the places of the rules
in the code's loops, so that rules about plug-ins that are not there leave a gap and the order
of the rest is the code's. The reference definitions `Satisfiable`, `Orders` and `IsBefore`
have no loop in them.

`LoaderSetup` is everything around it: `SetupAsync` and `GetBus` (two buses, either of them
may be there already or fail), `OpenPlugins`/`CannotOpen`, `PluginSetupCb` (a fan-in over
`n_pending`; a plug-in that fails is disabled), `FinishSetupOp` (mark complete, wake the jobs,
run the refine of the install queue, which is itself a job), `ProcessAsync`/`JobProcessCb`
(jobs that wait hang on a cancellable), `Shutdown`/`PluginShutdownCb`/`RemoveAllPlugins`. A
setup that fails ends the program (`gs-application.c:1098`), so `failed` is a final stage; one
setup runs at a time, because each caller sets the loader up once.

### RefineJob, PluginJobs (`lib/gs-plugin-job-*.c`)

A refine is named by its path: `<<>>` is the job, `Append(path, "addons")` the refine its end
starts for the addons of its apps. `RefineRun` is `run_async()`, `RefineCb` the callback of a
plug-in or of the reviews service followed by `finish_refine_internal_op()`
(`FinishOp`, `Recurse`), `RecursionCb` the return of a layer, `RefineRunCb` the end with the
clean-up of the addons and the idle sources that thaw (`ThawIdle`). Wildcards are resolved,
adopted and dropped where the code does so. `PluginJobs` adds the jobs that ask all plug-ins
at once: `JobRun` is the loop that counts `n_pending_ops` up from one, `JobCb` an answer,
`FinishJobOp` the join, `RefineReturns` the refine of the merged list, and `FinishTask` the
filter, the sort and the cut.

### VanillaOS (`plugins/vanilla-meta/gs-plugin-vanilla-meta.c`)

The worker's task walks through `refresh_plugin_cache()` and `refine_app()` (`RefreshCache`,
`NextApp`, `QueryComponent`, `CheckInstalled`, `SetChecked`); what the command says and the
state it leads to are two steps, between which other threads act. Pool threads list the
sources under the mutex, install and remove. `siloMutex = "left"` is the mutex as
`refine_app()` leaves it when it returns early.

### EosUpdater (`plugins/eos-updater/gs-plugin-eos-updater.c`)

The daemon is a state machine (its methods are those of the plug-in's tests,
`tests/eos_updater.py`) whose changes are a queue to the proxy. `Notified` and
`UpdaterStateChanged` are the main thread with and without the mutex; the stages of
`download` are those of `gs_plugin_app_upgrade_download()` in its thread, one for each point
where it gives the mutex back, reads a state, or calls. Cancellation is chained from the
job's cancellable to the plug-in's and from there to the daemon.

### RpmOstree (`plugins/rpm-ostree/gs-plugin-rpm-ostree.c`)

Threads reference a proxy (`RefProxies`, `NewProxies`), wait for a transaction of another
client, call, wait for the response, and settle the app's state. A proxy belongs to the
context of the thread that made it and hears of changes only while somebody runs that
context (`RunsItsContext`). The timer drops the proxy; the daemon may die, and other clients
have transactions of their own.

### Download (`lib/gs-download-utils.c`, `gs-odrs-provider.c`, `gs-external-appstream-utils.c`, `gs-plugin.c`)

One download by one of four users, from the choice whether to download at all to the end:
`g_file_replace_async()` in place or on a copy, request with ETag or date, chunks read and
written in units, both streams closed, the ETag stored last. The server, the clock and a
crash are actions; the stream's own contract (a cancelled close drops the copy) is GIO's.

### FlatpakJobs, FlatpakSilo (`plugins/flatpak/`)

`FlatpakJobs`: a job of a thread goes from the preparation over the transaction, with one
callback for each operation, to the refresh and the refine at its end; lists of installed
apps and updates are made meanwhile. `Known` are the apps the transaction was given (with
the runtime of an app, if the app has one yet), `AppOf` the app an operation's ref leads to,
`Recovered` whom a failure sets back, `RunFindsInstalled` the failure that an install takes
for a success. Which operations
are necessary is libflatpak's choice and external. `FlatpakSilo`: the silo under its
reader-writer lock, the refs under their mutex, the busy counter with its flag, and the
claims of changes; each step takes or gives one lock. `claiming` and `claimed` are history.

### PackageKitUpdates (`plugins/packagekit/`)

packagekitd leaves two files: `prepFile` (prepared-update, the ids of the packages it has
downloaded and tested) and `trigger` (/system-update, which makes the next boot install
them); their monitors' events wait in `prepNews` and `triggerNews`. The plug-in keeps copies
(`prepared`, `isTriggered`), a timer that prepares an update again, and the sizes of the
apps; `size` is `"unlisted"` until an update has an app. The threads list the updates
(`AddUpdates`, `CheckPrepared`), download them (`GetToDownload`, `DownloadRuns`,
`MarkDownloaded`), store what they read of the files (`ReadPrepared`/`WritePrepared`,
`QueryTrigger`/`StoreTrigger`), and set or remove the trigger (`LookAtTrigger`,
`CallTrigger`); the main thread has the monitors, the timer and the refine of the sizes
(`RefineSizes`, `GetDetails`). The daemon and its other clients are external.
`everRefreshed` and `overtakenRead` are history.

### UpdateMonitor (`src/gs-update-monitor.c`)

A clock of half days. Each handler of a signal or a timer is an action that may start a job;
each callback of a job starts the next of the chain (refresh, list, download, update) or
notifies. The two cancellables are the set of jobs a cancellation reaches. The settings'
stamps outlive `RestartMonitor`, `lastNotification` does not. `RefreshWhenMetered` is the
setting, in a build without Mogwai, which is the default.

### SearchPage, InstalledPage, OverviewPage, CategoryPage, DetailsPage (`src/gs-*-page.c`, `src/gs-shell.c`)

Everything is on the main thread, one callback per step; what interleaves are answers, idle
notifications, animations, reloads and what the user does. `SearchPage` has the shell's
change of pages, its entry and its stack of places; `InstalledPage` the handlers of the
states and the rows; `OverviewPage` the sections, their counter and the question about
third-party repositories; `CategoryPage` the two jobs of a load; `DetailsPage` the stages of
a load, of an app, a file or metadata. Jobs in flight are sets of records with a `cancelled`
field, because a cancelled job still answers.

## 4. The runs

| Run | Checks | Shows | Distinct states |
|---|---|---|---|
| `worker_jobs` | `NoTaskLost` `InOrder` `ShutdownIsSafe` `EverybodyReturns` `ImplementsExecutor` `EverybodyRefined` `FrozenWhileRefined` `JobIsSound` `JobSettles` | with tasks from the main thread and two pool threads none is lost that the shutdown does not overtake, order is kept, the thread ends before the object, somebody always continues a shutdown, which completes, the executor is implemented, liveness included; and every job asks everybody, never waits for what has returned, ends once with the first error, and thaws what it froze | 182 k |
| `queue` | `NotLeftInHelper` `QueueIsQueued` `NoStuckAction` | two jobs, the user and the network on one app leave it in a state that fits | 1.1 M |
| `queue_restart` | `QueueSurvives` | kills at any point; the loaded queue is right, and it drains | 27 k |
| `setup` | `JobsAfterSetup` `WaitsForAnswers` `OrderIsRight` `SetupEnds` `IdIsAttached` `NotForgotten` `ReportIsEmitted` | all small rule sets, two rounds of setup and shutdown with a waiting job, nobody waits for what is not to come; three threads on counter and timer: each report leads to a signal unless overtaken | 301 k |
| `backends` | `VanillaInv` `EosInv` `OstreeInv` `DownloadInv` `DownloadKeeps` `BackendsEnd` | threads on one silo, two daemons that die or serve others, a download that is cut off: no app in between, no connection idle for ever, no file lost, every task ends but in named cases | 197 k |
| `parts` | `FlatpakInv` `SiloInv` `MonitorInv` `PkInv` `NotifiedOncePerDay` | failing transactions, changes while the silo is built, signals against answers, prepared updates that come and go | 2.2 M |
| `page` | `NothingShownTwice` `UpdatesInv` `OverviewInv` `SearchInv` `InstalledInv` `CategoryInv` `DetailsInv` `LoadsEnd` `ResultsAreOfTheText` | six pages under overlapping loads, cancellations, failures and late answers; each stops loading, the search page unless the user leaves it | 488 k |
| `worker_cancelled` | `RemainingAreCancelled` violated | what is queued when the worker is shut down is executed | |
| `queue_offline` | `SuccessIsInstalledOrQueued` violated | an offline install is taken off the queue by the job that queued it | |
| `page_count` | `CountIsJobs` violated | a failed GET_UPDATES leaves the counter up and blocks later loads | |
| `flatpak_listing` | `ListingLeavesInstalling` violated | a list of updates overwrites the state of an app that is being updated | |
| `packagekit_sizes` | `PreparedHasZeroSize` violated | an update that was prepared before the start keeps an unknown size | |

`worker_jobs`, `setup`, `backends`, `parts` and `page` check several modules that do not meet in the program. Each
behaviour has a `focus`, chosen at the start, and only the part it names moves; the state
space is the sum of the parts and not their product, and nothing is lost because they share
no variable. Properties named `...Inv` are conjunctions: the type invariant of the module and
the named invariants, each with a comment of its own, that relate its state to its jobs.
`JobSettles`, `LoadsEnd` and `BackendsEnd` conjoin the liveness of the parts (`LoadsEnd`
that of each of the six pages: `SpinnerStops`, `LoadingEnds`, `ListIsLoaded`,
`TilesAreReplaced`, `SpinnerIsReplaced`, `SearchIsAnswered`), and
`QueueSurvives` is `[]QueueIsQueued` with the liveness of the queue, `QueueDrains`.

The passing runs say `CHECK_DEADLOCK FALSE` where the program may really stop: the main loop
of a program nobody uses has nothing to do.

### Bounds, and why they are enough

- *WorkerThread*: three tasks at two priorities (two of them equal, so that order within a
  priority matters), the main thread and two of the pool (so that one overtaken task can be
  in the context and another on its way), two shutdown calls (the second one returns early).
  The proofs remove these bounds.
- *InstallQueue*: one app, since jobs on different apps share only the list and the file,
  which both are sets; two jobs, the smallest number that can work on the same app; one
  network signal, or two restarts and two signals with one job for the liveness. Larger
  instances were explored once: two jobs with a signal and a restart (2.5 million states) and
  with two signals without symmetry (12.8 million). Jobs are interchangeable and the symmetry
  is used for safety only. The safety invariants are proved for all sizes.
- *UpdatesChanged*: two threads and the main one, three reports, three jobs: a second report
  can meet the timer of the first, and a third one a timer whose number was overwritten.
- *UpdatesPage*: no thread but the main one and no late count (both are checked in
  `setup`), one report, two jobs besides the page's, three actions and one failure; with
  four actions (648 thousand states) the invariants hold as well.
- *LoaderSetup*: three plug-ins, every set of up to two order rules plus the circle of three,
  three kinds of conflicts and priorities, one job besides the refine, two rounds. Three
  plug-ins need at most eight passes, so `MaxPasses = 20` (from which on lemma `FewPlugins`
  applies to three) is never the reason to give up. Whether 101 is in the code is a matter
  of the rules (`EnoughPasses`, section 5).
- *PluginJobs*: two plug-ins, so that either may answer first and the first error matters;
  apps with a wildcard, an addon, a runtime and a related app, so that each layer of a refine
  has something to do and a layer starts layers of its own.
- *VanillaOS*: three apps, of which one has everything and two miss what an early return
  tests; two pool threads besides the worker. Proved for all.
- *EosUpdater*: two changes on their way and one disturbance (a death, or a poll of another
  client) in each behaviour, any number of downloads.
- *RpmOstree*: the worker and one pool thread, two proxies (the timer drops one), two jobs,
  one transaction of another client or death. Five operations stand for the kinds: with and
  without an app, one or several transactions, refused at once.
- *Download*: two versions, three times, two units, so that a chunk is written in parts and
  a file can be old or young.
- *FlatpakJobs*: an app, its runtime and one addon, two threads, three jobs or lists.
  *FlatpakSilo*: two threads, two changes. Both are proved for all. *UpdateMonitor*: two updates of
  which one is online and the other urgent, two chains at once, two days, two changes of the
  environment or restarts, and the default of "refresh-when-metered"; with the other value
  (1.2 million states), with which `MeteredStopsRefresh` says nothing, the rest holds as
  well. *PackageKitUpdates*: one update that the daemon finds, loses and
  finds again, two threads, three events of users, jobs and other clients. With two updates
  and two events (3.0 million states) `PkInv` holds as well.
- *Pages*: two of each thing that can be confused (texts, apps, categories, origins), three
  sections, and two or three loads, the smallest numbers with which an answer is late twice.
  Their invariants are proved for all.

### Fairness, and why the code justifies it

- `WorkerThread`: the loop of `thread_cb()` blocks only when nothing is ready, a work
  function ends, the main loop dispatches the callback of a shutdown, and a caller that has
  passed the assertion goes on to the attach, since nothing blocks in between. Nobody has to
  queue or to shut down.
- `InstallQueue`: threads that are inside a change or a job go on, and a plug-in that acts
  ends, in success or failure; users, network and restarts owe nothing.
- `UpdatesChanged`, `UpdatesPage`, `OverviewPage`: threads go on, jobs end, timers expire.
  Reports and users owe nothing.
- `LoaderSetup`: buses and plug-ins answer (with success or failure), the main loop
  dispatches ready sources. `BusAnswers` is `GetBus` reduced to the variables that tell it
  apart, which keeps the fairness cheap to evaluate.
- `PluginJobs`: each operation answers, and the main loop dispatches what is ready.
- `VanillaOS`: a thread that waits for the mutex gets it some time (strong fairness: other
  threads take it meanwhile), and commands end.
- `EosUpdater`, `RpmOstree`: threads run, the daemon ends its work unless it dies, contexts
  that are run deliver. Nobody has to cancel; a daemon has not to live.
- `Download`: the callbacks of a download come. Server, clock and crashes owe nothing.
- `SearchPage`, `InstalledPage`, `CategoryPage`, `DetailsPage`: jobs end, cancelled ones too,
  and the main loop dispatches what is ready. Users, timers of the pages and changes of apps
  owe nothing. A page that is loaded again and again may load for ever; the bounds on loads
  exclude that, and nothing else.
- The parts of `parts` are checked for safety only.

## 5. The proofs

Eight modules, checked by TLAPS with SMT (Z3), Zenon and LS4.

| Theorem | Property | For every |
|---|---|---|
| `WorkerThread_proofs!TypeCorrect` | `TypeOK` | set of tasks, callers, calls and priorities |
| `NothingIsLost`, `OrderIsKept`, `RefinesExecutor` | `NoTaskLost`, `InOrder`, refinement (safety) | the same: any callers, of which the main thread is one |
| `DisposeIsSafe`, with the next `ShutdownEndsSafely` | `ThreadEndsFirst`, `ShutdownIsSafe` | the same |
| `ShutdownIsCarriedOn` | `ShutdownGoesOn` (part of `ShutdownIsSafe`) | tasks, calling threads, calls |
| `InstallQueue_proofs!TypeCorrect`, `NobodyLeftInHelper` | `TypeOK`, `NotLeftInHelper` | apps, jobs, signals, restarts |
| `ListIsQueued`, `ActionsEnd` | `QueueIsQueued`, `NoStuckAction` | the same |
| `UpdatesPage_proofs!NoReportForgotten`, `RememberedTimerFires` | `NotForgotten`, `IdIsAttached` | threads, jobs, reports |
| `NoUpdateShownTwice`, `CountAndCacheAgree` | `NothingShownTwice`, `UpdatesInv` | jobs, reports, actions, failures |
| `PageForgetsNoReport` | `NotForgotten`, `IdIsAttached`, with the page's own jobs | the same |
| `Loader_proofs!NoJobBeforeSetup`, `ShutdownIsAwaited` | `JobsAfterSetup`, `NobodyCallsBackLater` | plug-ins, rules, jobs, rounds |
| `NobodyIsForgotten`, `LoaderWaits` | `SomebodyGoesOn`, with the former `WaitsForAnswers` | the same |
| `RulesAreKept` | `OrderKeepsRules`, `NoConflict` (parts of `OrderIsRight`) | the same, passes |
| `OrderIsFound` | `OrderIsRight` | the same, under `EnoughPasses` |
| `JobsReturnLast`, `EverybodyIsAsked`, `NoNoticeWhileRefined` | `JobInv`, `EverybodyRefined`, `FrozenWhileRefined` | plug-ins, apps, wildcards, parts, flags |
| `FirstErrorDecides` | the safety half of `JobSettles` | the same |
| `JobsGoOn`, `JobsAreSound` | `JobGoesOn`, with `JobInv` `JobIsSound` | the same |
| `Backends_proofs!SharedWithOneThread` | `VanillaInv` | apps, silos, pool threads |
| `EtagIsOfTheFile`, `DownloadLosesNothing` | `DownloadInv`, `DownloadKeeps` | versions, sizes, times, crashes |
| `UpgradeAgrees` | `EosInv` | notifications, disturbances, downloads |
| `OstreeLeavesNothing` | `OstreeInv` | apps, threads, proxies, clients |
| `Flatpak_proofs!SiloKnowsTheClaimed` | `SiloInv` | threads, changes |
| `NothingStaysBusy` | `FlatpakInv` | apps, addons, threads, jobs and lists |
| `Updates_proofs!ChainsStop`, `NotifiesOnceADay` | `MonitorInv`, `NotifiedOncePerDay` | updates, jobs, days, events |
| `OfflineUpdateIsTold` | `PkInv` | updates, threads, events |
| `Pages_proofs!PlaceholdersAreReplaced`, `DetailsPageAgrees` | `CategoryInv`, `DetailsInv` | categories, apps, loads |
| `OverviewAgrees`, `InstalledAgrees` | `OverviewInv`, `InstalledInv` | sections, apps, loads, changes |
| `SearchAndShellAgree`, `ResultsFitTheText` | `SearchInv`, `ResultsAreOfTheText` | texts, searches, places |

Each follows the same argument: an inductive invariant, checked by TLC before, that is
implied by `Init`, kept by each action, and stronger than the property.  An action property
(`DownloadKeeps`, `NotifiedOncePerDay`, `ResultsAreOfTheText`) follows from the invariant and
one step.  They rest on nothing but the named assumptions about the constants, which TLC
evaluates in the runs, and the hypotheses the table names: that bounds are numbers, that the values for "none" are none of the
others, that what the library's induction over finite sets needs is finite, and, for
`NotifiesOnceADay`, that the intervals are of whole days (3 and 4 or 7 in the code,
gs-update-monitor.c:212, :230), and, for `JobsReturnLast`, that no two apps have the
same place in the order asked for (the sort gives each one of its own).

- *WorkerThread* `Inv`. The main thread is never between check and attach once it has asked
  for the shutdown, and a checked task is in the hands of one caller (`CallerInv`). The
  shutdown item has the worst priority, so an iteration that collects it collects everything
  that is attached with it: whatever is checked or attached afterwards is in `overtaken`, and
  only from there a task goes astray or is dropped (`DrainInv`). What is collected before it
  is run before the thread exits. `OrderInv` adds that what is collected goes before what is
  left behind, and rests on the numbers of the attach being distinct (`SeqnoInv`). For
  `ShutdownGoesOn`,
  `ShutdownInv`: the shutdown item is in the context or running until the loop has ended, and
  a call is queued or ready until the thread is stolen. No theorem restricts the callers.
- *InstallQueue* `Inv`. An app is in INSTALLING or REMOVING only while some job on it has
  still to pass `LeaveHelper`, and the state an error goes back to is no helper; for the
  latter the invariant must speak about `recover`, and for the former about every slot that
  is not free having an app. `QueueInv`: what is in the list was loaded and nobody has touched
  it since, or a job has still to pass a step that takes it off; whoever is in the middle of
  adding an app has such a job; and a pending action has somebody who clears it. That alone
  is not inductive without the steps of the changes in flight (`op`), between which the
  state and the list disagree.
- *UpdatesChanged* `LoaderInv`. An unseen report is still idle, or counted, or overtaken; a
  counted one has a timer, an active job or a thread that is about to look.
- *UpdatesPage* `PageInv`. At most one job of each kind that fills the page runs, the list is
  empty until GET_UPDATES answers, and `action_cnt` is not zero before both answered.
  `ListInv` adds that the cache is not valid before GET_UPDATES was answered (`CacheInv`)
  and, for the composition, that the loader counts each job of the page as active
  (`JobsInv`): with it `LoaderInv` is kept by the page's steps as well.
- *LoaderSetup* `Inv`. `n_pending` is the number of plug-ins that have not answered, and a
  job runs only when `setup_complete` was set. `SetupIInv` adds what makes the setup go on: a
  setup leaves no bus unasked, and whoever sets `setup_complete` wakes the jobs, so that none
  waits afterwards (`WaitInv`).
- *PluginOrder* `OrderInv` (`Loader_proofs`), for any rules. When a loop ends, its last pass
  has found every demand met (`LoopIsRight`), which needs no bound. `SortIsRight` shows that
  the list has each plug-in once, by place and name: the positions are the sizes of the sets
  of earlier plug-ins, and none is skipped (`PositionsAreTaken`). So the list keeps the
  rules, and `Resolve` leaves no two plug-ins in conflict (`ResolveIsRight`). Plug-ins that
  fail later only leave fewer to look at (`FewerAreKept`).
  That the loops do end when some order keeps the rules is `LoopEnds`. No plug-in's number
  ever exceeds the number of plug-ins below it in a strict order with the demands
  (`MoreBelow`), and each pass but the last raises one number, that is, it adds a
  *cell* `<<plug-in, number>>` below that bound (`PassAddsACell`); so there are as many passes
  as the order has pairs, and one. Both loops share the 101, which gives `EnoughPasses`: two
  orders with no more than 99 pairs between them. The comment at gs-plugin.c:648 promises no more
  ("iterative and may not solve overly-complicated rules"), and without such a hypothesis
  the statement is false: a chain of 15 plug-ins, met in the worst order, takes 106 passes.
  Any rules of seven plug-ins satisfy it (`FewPlugins`), and those of the 24 plug-ins in `src/plugins`
  all together: 60 pairs for the places, 3 for the priorities. Conversely, demands the
  loops have met are satisfiable by the numbers from 1 to `N` (`MetIsSatisfiable`).
- *RefineJob* `RefineInv`. A refine asks one plug-in at a time, then waits for its layers, then
  returns (`StageOK`); that of a layer runs while its parent waits for it, and without the
  flags above it, so the paths end (`TreeOK`); as long as nothing has failed, every plug-in
  that has answered has refined what the refine was started with, and every layer that has
  returned is refined (`ListOK`). The last part is needed of every refine of the tree, since
  a parent knows of a layer only what it is handed when that returns; and that no addon is
  removed before the end (`RootOK`), or the layer's list would not be what was asked for. A
  sequence made from a set has each app once (`SetAsSequence`), which is why the idle sources
  thaw as often as was frozen.
- *PluginJobs* `JobIInv`. `n_pending_ops` counts the operations that have not answered; an
  error is saved, and a timeout or progress left, only as long as there are some (`StagesOK`).
  That the list is cut behind its best apps rests on every place of the order being taken
  (`PlaceIsTaken`), hence on no two apps having the same one. `JobGoesOn` needs besides that
  every layer a refine waits for has a refine (`LayersRun`), also after an error; a path has
  three layers at most, so the deepest refine waits for none (`DeepestWaitsForNone`).
- *VanillaOS* (`Backends_proofs`). `VanillaInv` is inductive as it stands: an app becomes INSTALLING only by the
  thread that installs it, and everything else that sets states sets a stable one. There is a
  lemma for each kind of thread.
- *FlatpakSilo* `SiloIInv`. What a thread builds from is not older than what was claimed when
  it got the writers' lock, because a claim's last step needs that lock too; hence a silo that
  is valid knows every claim that has ended, and a reader every claim before its call.
- *FlatpakJobs* `FlatpakIInv`. The last stable state of an app, which a failure goes back to,
  is true of its ref (`RecoverIsTrue`), that of an app at rest is its state, and an app that
  is busy has one to go back to (`RecoverIsKnown`). The lists of the jobs are apart, so only
  the job of an app, and a list that is made, sets its state (`ListsApart`); and how far a
  job has got says which of its apps may still be busy (`JobHasSet`), so that none is when
  it ends. `OthersStay` is the lemma that the steps of one job leave all this true of the
  others, and there is one lemma for each step. The proof showed that `ShownAsDeployed`
  holds of an app while a job works on it too, and the property says so now.
- *Download* `TransferInv`. What was read is written or about to be; a file that is replaced
  is the old one until the transfer is complete, one written in place has no ETag, and
  neither is newer than the server.
- *EosUpdater* `EosIInv`. A download that is stepping has polled at most once, and not at all
  while it may start over; one about to end has its explanation.
- *RpmOstree* `OstreeIInv`. An app has a stable state to go back to, a job that has begun a
  transaction to run.
- *UpdateMonitor* `MonitorIInv`. Whatever cancels also keeps what it cancelled from being
  started again until its signal is over; a refresh is never a part of a chain the user asked
  for; and the stamp in the settings, which outlives a session, is that of the last
  notification.
- *PackageKitUpdates* `PkIInv`. The events of the monitor that wait end with what the file is
  (`NewsInv`); the last list offered a download or another list is due (`OfferInv`); what the
  plug-in knows of the trigger is right or news of it waits (`TriggerInv`).
- *OverviewPage* `OverviewIInv`, *SearchPage* `SearchIInv`, *InstalledPage* `InstalledIInv`. No
  section has two jobs, or the counter could reach zero with one of them left; a search with
  the stamp of the page is for its text, wherever the text came from; an app has at most two
  rows, and a connection belongs to one that stays.
- *Category and details page* `JobsFollow`. The first job of a load is alone, and the alternates come before the
  refinement of what they select; so no answer makes a page ready without an app.

Beyond this prover: liveness under fairness (the fairness part of the refinement included),
`ENABLED`. These stay with TLC: `EverybodyReturns`, the liveness in `ImplementsExecutor`,
`JobSettles` and `QueueSurvives`, `SetupEnds`, `ReportIsEmitted`, `LoadsEnd` and `BackendsEnd`.
The safety core of some is proved: `ShutdownGoesOn`, `SomebodyGoesOn` and `JobGoesOn` say that
whenever something waits a step that fairness will take is there, and leave open only that
the steps run out.  Induction over data, too, is out of reach as the library states it, with an
operator as a parameter. Where a proof needs it (the passes of the loops, the plug-ins of
`Resolve`, the depth of a refine) lemma `LeastOne` takes its place, the least element of a set of
numbers, from which `UpTo` concludes that a set with 0 and all successors has every number.
`WorkerThread!TypeOK` and `InstallQueue!TypeOK` are proved and not run.

## 6. Where the code does not do what it says

Five runs end in a violation; `PROJECT.json` quotes the line each contradicts.

1. `queue_offline`: an app that is queued because there is no network leaves the queue at the
   end of the same job.
2. `page_count`: `gs_updates_page_get_updates_cb()` does not decrement on an error.
3. `flatpak_listing`: `gs_flatpak_add_updates()` tests whether an app is INSTALLING after its
   own call has overwritten the state.
4. `packagekit_sizes`: `gs_plugin_packagekit_refine_details_app()` sets the download size of
   an update only when it is above zero, so what is already prepared is not marked so.
5. `worker_cancelled`: the shutdown of a worker waits behind the tasks in the queue, which are
   all executed, although it "will return %G_IO_ERROR_CANCELLED for all remaining queued
   tasks" (`gs-worker-thread.c:341`). `NoTaskLost` and `EverybodyReturns` say what the code
   does instead.

The modules state further properties that TLC finds violated and that have no run of their
own; each definition says in its comment what happens.

- *Loader*. `InstallQueue!TakenBackIsNotInstalled`: taking back an app stops only jobs that
  were started with the app's own cancellable. `UpdatesPage!PageReflectsReports`: a load marks the cache
  valid whatever was reported meanwhile. `LoaderSetup!NoWorkerLeft`: a plug-in whose setup
  failed is freed with its worker running. `PluginJobs!ReviewsAdded`: reviews are added only
  if the last plug-in of the list refines (`gs-plugin-job-refine.c:418`).
- *Plug-ins*. `EosUpdater!CancelIsPassedOn`: a second cancellation before the daemon's answer
  to the first is not chained. `RpmOstree!NobodyWaitsInVain`: a proxy made by a pool thread is
  never told of the end of a transaction once that thread has gone, although "their signal
  emissions will correctly be in the worker thread" (`gs-plugin-rpm-ostree.c:363`).
  `Download!SkippedIsUpToDate`: the file's date, which is sent as If-Modified-Since, is the
  time of the last write and not of the version, so a version in between is skipped.
- *Pages*. `SearchPage!SpinnerEnds`, `InstalledPage!OneRowPerApp` and `QueuedIsListed`,
  `OverviewPage!ValidIsCurrent`, `NoResultsIsEmpty` and `AnsweredIsNotAsked`,
  `CategoryPage!ShowsItsCategory` and `LastLoadIsShown`, `DetailsPage!StaysOnItsApp`,
  `FileDoesNotLeave`, `RefreshesAnApp` and `FormatIsOfTheApp`.

Met while modelling, in the models and without a property:

- `gs-worker-thread.c:175`: tasks are collected in batches, so a task of a better priority
  that comes during a batch does not go first, though tasks are said to run "in (priority,
  queue order) order" (:18-19). `:286`: a task that a pool thread queues during the shutdown
  may be lost, and its job never answers, although the object is a "thread-safe wrapper"
  (`overtaken`). `:420`: a second shutdown is said to be "a no-op" (:344); its finish joins the
  thread, and blocks while tasks are left.
- `gs-plugin-loader.c:2963`: a flush may start a second job on an app that is being installed
  and take it from INSTALLING to QUEUED_FOR_INSTALL, while "installing has to go into an
  stable state" (`gs-app.c:1135`). `:1551`: the plain increment may become visible after the
  atomic load of `active_jobs`; then a report is forgotten in spite of the comment at
  :1554-1556. `:1214`: the queue's file is written from a snapshot after the lock is dropped.
  `:3749`: a REMOVE job that finds its app in the queue answers success, though an INSTALL job
  may have installed it. `:2389`: apps added while the file is loaded are dropped.
- `gs-updates-page.c:744`: a refresh that ends while another page is shown leaves the state at
  ACTION_REFRESH with no job, and reloads are ignored (:671) until the user comes back.
- `gs-plugin-vanilla-meta.c:727`: a refine that fails for an app succeeds as a whole. `:767`:
  three error paths leave the mutex locked. `:361`: disabling the repository never answers.
  `:99`: the worker is never shut down. `gs-plugin-vso.c:279`: the command is waited for
  before its pipe is read, and blocks on a pipe that is full.
- `gs-plugin-eos-updater.c:867`: a change between the look at the state and the wait is
  missed (`asleepForEver`); early returns leave the handler of the cancellable connected.
- `gs-plugin-rpm-ostree.c:195-210`: the client is unregistered after the mutex is given back;
  the daemon's death is not noticed on a peer connection (:632).
- `gs-plugin-flatpak.c:1405-1425`: an update passes `error` and tests `error_local`, so an app
  of a missing remote ends the whole update, although errors about missing remotes "are not
  fatal".
- `gs-plugin-packagekit.c:1230`: the copy of the prepared updates is kept when the file has
  gone, although it is the set of "updates which are already prepared" (:69). `:2297`: the
  setup does not look at /system-update, so after a start an update that is triggered cannot
  be cancelled (:4019). `:2251`: of two threads that look, the one with the older answer may
  store last (`overtakenRead`). `:3667`: a download whose results carry an error counts as
  done; the check at :804 makes up for it at the next list. `:3340`: a change of the proxy
  cancels an automatic preparation, which is not tried again.
- `gs-update-monitor.c`: with Mogwai a check ignores "refresh-when-metered" (:930), while the
  handler of the network still cancels by it (:1299), so a refresh that was cancelled may be
  started again there. The notification "Software Updates Are Out of Date" is unreachable;
  on a metered network a list of updates still starts a download; two chains may update the
  same app.
- `gs-shell.c`: a search asked for on the search page is ignored, and a place to go back to is
  pushed all the same.

## 7. What is not modelled

- *PackageKit*: packages, repositories, files, history and most of the refine. What of its
  installs the queue depends on is in `InstallQueue`. In `PackageKitUpdates`: the shutdown,
  the permission, the metered block.
- *Events*, *app lists and queries*, the *plug-in base class*: operations of one thread under
  one mutex. Their results are used by the jobs; their own algorithms are left.
- *Core plug-ins* and the other plug-ins: clients of the worker thread, or translations
  between a service and `GsApp`.
- In `InstallQueue`: addons, repositories and local files; an install that is asked for while
  the setup loads the file. The order of two saves on the disk is in the model, and no
  property asks for it, because the file may really be stale until the next save.
- In `UpdatesPage`: the reboot of the upgrade banner, the system app. In `LoaderSetup`: two
  setups at once, the monitors of the plug-in directories.
- In `VanillaOS`: the repository's switches and the `vso` plug-in, one command per call. In
  `FlatpakJobs`: remotes, bundles, permissions, sizes. In `RpmOstree`: the registration, and
  what dnf and AppStream say of packages. In `EosUpdater`: the adoption, the sizes. In
  `UpdateMonitor`: upgrades, the history of updates, language packs. In the pages: tiles,
  sorting, selection, reviews, dialogs.
- Widgets, drawing, icons, XML and JSON parsing, D-Bus transport: data without a protocol, or
  external.
- Most of the lines the models do not cover are of these last kinds, or repeat for another
  service or page what is modelled for one.
