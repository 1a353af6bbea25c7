---------------------------- MODULE LoaderSetup ------------------------------
(***************************************************************************)
(* lib/gs-plugin-loader.c: gs_plugin_loader_setup_async(), the jobs that   *)
(* wait for it, and gs_plugin_loader_shutdown().                           *)
(*                                                                         *)
(* The setup gets the buses, opens, orders and filters the plugins, sets   *)
(* all of them up at once, waits for the last answer, loads the install    *)
(* queue, lets the jobs go and refines the queue with a job of its own.    *)
(* The shutdown asks all plugins at once and iterates a context of its own *)
(* until the last one has answered.  All of it runs on the main thread.    *)
(*                                                                         *)
(* One setup runs at a time.  A setup that fails ends the program, as      *)
(* startup_cb() of src/gs-application.c does.  After a shutdown the loader *)
(* is gone, or set up again (lib/gs-test.c).                               *)
(***************************************************************************)
EXTENDS PluginOrder

CONSTANTS
    RuleSets,       \* the rules the plugins may come with
    SetsUp,         \* the plugins that have setup_async()
    ShutsDown,      \* the plugins that have shutdown_async()
    HasWorker,      \* the plugins that start a worker thread in setup_async()
    Jobs,           \* the jobs the rest of the program asks for
    Refine,         \* the job that refines the install queue
    MaxRounds       \* bound: how often the loader is set up

ASSUME SetupAssumption ==
    /\ RuleSets \subseteq Rules
    /\ SetsUp \subseteq Plugins /\ ShutsDown \subseteq Plugins /\ HasWorker \subseteq SetsUp
    /\ Refine \notin Jobs /\ MaxRounds \in Nat

Buses == {"session", "system"}
AllJobs == Jobs \union {Refine}

VARIABLES
    stage,          \* where the setup or the shutdown is
    bus,            \* session_bus_connection, system_bus_connection
    rules,          \* what the plugins that were opened demand
    offered,        \* the plugins that were enabled before the rules were looked at
    enabled,        \* gs_plugin_get_enabled()
    list, priority, \* the order of plugin_loader->plugins, and their priorities
    settingUp,      \* plugins whose setup_async() has not answered
    stopping,       \* plugins whose shutdown_async() has not answered
    workers,        \* plugins whose worker thread runs
    pending,        \* n_pending of the SetupData or of the ShutdownData
    complete,       \* setup_complete
    job,            \* what each job does
    rounds

pluginVars == <<rules, offered, enabled, list, priority>>
vars == <<stage, bus, pluginVars, settingUp, stopping, workers, pending, complete, job, rounds>>

Stages == {"down", "buses", "plugins", "refining", "up", "stopping", "stuck", "failed"}
JobStates == {"none", "waiting", "woken", "running", "ended"}

TypeOK ==
    /\ stage \in Stages /\ bus \in [Buses -> {"missing", "asked", "there"}]
    /\ rules \in Rules /\ list \in [Plugins -> Plugins] /\ priority \in [Plugins -> Nat]
    /\ offered \subseteq Plugins /\ enabled \subseteq offered
    /\ settingUp \subseteq SetsUp /\ stopping \subseteq ShutsDown /\ workers \subseteq HasWorker
    /\ pending \in Nat /\ complete \in BOOLEAN
    /\ job \in [AllJobs -> JobStates] /\ rounds \in 0..MaxRounds

NoRules == [after |-> <<>>, before |-> <<>>, conflicts |-> <<>>, better |-> <<>>]
ByName == [p \in Plugins |-> p]
NoPriority == [p \in Plugins |-> 0]

Init ==
    /\ stage = "down" /\ bus \in [Buses -> {"missing", "there"}]
    /\ rules = NoRules /\ offered = {} /\ enabled = {}
    /\ list = ByName /\ priority = NoPriority
    /\ settingUp = {} /\ stopping = {} /\ workers = {} /\ pending = 0
    /\ complete = FALSE /\ job = [j \in AllJobs |-> "none"] /\ rounds = 0

-----------------------------------------------------------------------------
\* gs_plugin_loader_job_process_async(): a job runs, or waits for the setup.
Process(jobs, j, isComplete) == [jobs EXCEPT ![j] = IF isComplete THEN "running" ELSE "waiting"]

ProcessAsync(j) ==
    /\ stage \in {"buses", "plugins", "refining", "up"} /\ job[j] = "none"
    /\ job' = Process(job, j, complete)
    /\ UNCHANGED <<stage, bus, pluginVars, settingUp, stopping, workers, pending, complete, rounds>>

\* notify_setup_complete(): the sources of the jobs that wait become ready.
Woken(jobs) == [j \in AllJobs |-> IF jobs[j] = "waiting" THEN "woken" ELSE jobs[j]]

\* finish_setup_op(), with n_pending after the decrement.  The queue is empty,
\* or a job refines it; load_install_queue() may fail.
KeepAsleep(left) ==             \* mutant: setup_complete is set and nobody is woken
    IF left > 0 THEN stage' = "plugins" /\ UNCHANGED <<complete, job>>
    ELSE \/ stage' = "up" /\ complete' = TRUE /\ job' = job
         \/ stage' = "failed" /\ UNCHANGED <<complete, job>>
FinishSetupOp(left) ==
    IF left > 0 THEN stage' = "plugins" /\ UNCHANGED <<complete, job>>
    ELSE \/ stage' = "up" /\ complete' = TRUE /\ job' = Woken(job)
         \/ stage' = "refining" /\ complete' = TRUE /\ job' = Process(Woken(job), Refine, complete')
         \/ stage' = "failed" /\ UNCHANGED <<complete, job>>

\* finish_setup_get_bus(), once both buses are there.  Each plugin may disable
\* itself when it is opened, or be disabled by the lists.
SetUpFromZero(started) ==       \* mutant: n_pending starts at 0
    /\ pending' = IF started = {} THEN 0 ELSE Cardinality(started) - 1
    /\ FinishSetupOp(pending')
SetUp(started) ==
    /\ pending' = Cardinality(started)
    /\ FinishSetupOp(pending')

Openings ==
    {[rules |-> r, offered |-> on, result |-> Arrange(r, on)] : r \in RuleSets, on \in SUBSET Plugins}

OpenPlugins ==
    \E opening \in Openings : LET result == opening.result IN
        /\ rules' = opening.rules /\ offered' = opening.offered
        /\ IF result.stuck
           THEN /\ stage' = "stuck" /\ enabled' = offered'
                /\ UNCHANGED <<list, priority, settingUp, workers, pending, complete, job>>
           ELSE /\ enabled' = result.enabled
                /\ list' = result.list /\ priority' = result.priority
                /\ settingUp' = result.enabled \intersect SetsUp
                /\ workers' = workers \union (settingUp' \intersect HasWorker)
                /\ SetUp(settingUp')

\* The plugin directory cannot be watched or read.
CannotOpen ==
    /\ stage' = "failed"
    /\ UNCHANGED <<pluginVars, settingUp, workers, pending, complete, job>>

FinishGetBus(buses) ==
    IF \A b \in Buses : buses[b] = "there" THEN OpenPlugins \/ CannotOpen
    ELSE stage' = "buses" /\ UNCHANGED <<pluginVars, settingUp, workers, pending, complete, job>>

\* gs_plugin_loader_setup_async()
SetupAsync ==
    /\ stage = "down" /\ rounds < MaxRounds
    /\ rounds' = rounds + 1
    /\ bus' = [b \in Buses |-> IF bus[b] = "missing" THEN "asked" ELSE bus[b]]
    /\ FinishGetBus(bus')
    /\ UNCHANGED stopping

\* get_session_bus_cb(), get_system_bus_cb()
GetBus(b) ==
    /\ stage = "buses" /\ bus[b] = "asked"
    /\ \/ bus' = [bus EXCEPT ![b] = "there"] /\ FinishGetBus(bus')
       \/ /\ stage' = "failed"
          /\ UNCHANGED <<bus, pluginVars, settingUp, workers, pending, complete, job>>
    /\ UNCHANGED <<stopping, rounds>>

\* plugin_setup_cb(): a plugin that failed is disabled.
PluginSetupCb(p) ==
    /\ stage \notin {"stuck", "failed"} /\ p \in settingUp
    /\ settingUp' = settingUp \ {p}
    /\ enabled' \in {enabled, enabled \ {p}}
    /\ pending' = pending - 1 /\ FinishSetupOp(pending')
    /\ UNCHANGED <<bus, rules, offered, list, priority, stopping, workers, rounds>>

\* job_process_setup_complete_cb()
JobProcessCb(j) ==
    /\ stage \notin {"stuck", "failed"} /\ job[j] = "woken"
    /\ job' = [job EXCEPT ![j] = "running"]
    /\ UNCHANGED <<stage, bus, pluginVars, settingUp, stopping, workers, pending, complete, rounds>>

JobEnds(j) ==
    /\ stage \notin {"stuck", "failed"} /\ j \in Jobs /\ job[j] = "running"
    /\ job' = [job EXCEPT ![j] = "ended"]
    /\ UNCHANGED <<stage, bus, pluginVars, settingUp, stopping, workers, pending, complete, rounds>>

\* finish_setup_install_queue_cb(): the setup returns.
RefineEnds ==
    /\ stage = "refining" /\ job[Refine] = "running"
    /\ job' = [job EXCEPT ![Refine] = "ended"]
    /\ stage' \in {"up", "failed"}
    /\ UNCHANGED <<bus, pluginVars, settingUp, stopping, workers, pending, complete, rounds>>

\* gs_plugin_loader_shutdown(), from dispose or between two setups: no task
\* holds a reference to the loader.
ShutDownFromZero(asked) == pending' = Cardinality(asked) - 1   \* mutant: n_pending starts at 0
ShutDown(asked) == pending' = Cardinality(asked)

Shutdown ==
    /\ stage = "up" /\ \A j \in AllJobs : job[j] \in {"none", "ended"}
    /\ stage' = "stopping"
    /\ stopping' = enabled \intersect ShutsDown
    /\ ShutDown(stopping')
    /\ UNCHANGED <<bus, pluginVars, settingUp, workers, complete, job, rounds>>

\* plugin_shutdown_cb(): the plugin's worker has been joined.
PluginShutdownCb(p) ==
    /\ stage = "stopping" /\ p \in stopping /\ pending > 0
    /\ stopping' = stopping \ {p} /\ workers' = workers \ {p}
    /\ enabled' \in {enabled, enabled \ {p}}
    /\ pending' = pending - 1
    /\ UNCHANGED <<stage, bus, rules, offered, list, priority, settingUp, complete, job, rounds>>

\* The rest of gs_plugin_loader_shutdown(), when n_pending is 0.
RemoveAllPlugins ==
    /\ stage = "stopping" /\ pending = 0
    /\ stage' = "down" /\ complete' = FALSE
    /\ rules' = NoRules /\ offered' = {} /\ enabled' = {}
    /\ list' = ByName /\ priority' = NoPriority
    /\ job' = [j \in AllJobs |-> "none"]
    /\ UNCHANGED <<bus, settingUp, stopping, workers, pending, rounds>>

Next ==
    \/ SetupAsync \/ \E b \in Buses : GetBus(b)
    \/ \E p \in Plugins : PluginSetupCb(p) \/ PluginShutdownCb(p)
    \/ \E j \in Jobs : ProcessAsync(j)
    \/ \E j \in AllJobs : JobProcessCb(j) \/ JobEnds(j)
    \/ RefineEnds \/ Shutdown \/ RemoveAllPlugins

\* What GetBus(b), and no other step, brings about.
BusAnswers(b) ==
    /\ stage = "buses" /\ bus[b] = "asked"
    /\ \/ bus' = [bus EXCEPT ![b] = "there"] /\ stage' \in Stages
       \/ bus' = bus /\ stage' = "failed"

\* Buses and plugins answer, and the main loop dispatches what is ready; nobody
\* has to ask for a setup, a job or a shutdown.
Fairness ==
    /\ \A b \in Buses : WF_<<stage, bus>>(BusAnswers(b))
    /\ \A p \in Plugins : WF_vars(PluginSetupCb(p)) /\ WF_vars(PluginShutdownCb(p))
    /\ \A j \in AllJobs : WF_vars(JobProcessCb(j))
    /\ WF_vars(RefineEnds) /\ WF_vars(RemoveAllPlugins)

SafeSpec == Init /\ [][Next]_vars
Spec == SafeSpec /\ Fairness

-----------------------------------------------------------------------------
\* "Mark setup as complete as it's now safe for other jobs to be processed"
\* (gs-plugin-loader.c:2331): no job runs while a plugin is being set up.
JobsAfterSetup ==
    (\E j \in AllJobs : job[j] \in {"woken", "running"}) => settingUp = {}

\* A job that waits runs, and the refine of the queue, which is a job as well,
\* does not wait for the setup it is a part of.
NobodyWaitsForever ==
    \A j \in AllJobs : job[j] = "waiting" ~> job[j] = "running" \/ stage \in {"stuck", "failed"}

\* The setup ends, whatever the buses and the plugins answer.
SetupReturns == stage = "buses" ~> stage \in {"up", "stuck", "failed"}

\* Each shutdown callback has the ShutdownData of gs_plugin_loader_shutdown()'s
\* stack: none is left when that function goes on.
NobodyCallsBackLater == stage \in {"down", "buses", "plugins"} => stopping = {}

Arranged == stage \in {"plugins", "refining", "up", "stopping"}

\* In the order in which the loader calls them, each enabled plugin comes after
\* those it is to run after, and before those it is to run before; and one that
\* is better than another has the greater priority.
OrderKeepsRules ==
    Arranged =>
        /\ \A i \in DOMAIN rules.after :
               rules.after[i][2] \in enabled => IsBefore(list, rules.after[i][2], rules.after[i][1])
        /\ \A i \in DOMAIN rules.before :
               rules.before[i][2] \in enabled => IsBefore(list, rules.before[i][1], rules.before[i][2])
        /\ \A i \in DOMAIN rules.better :
               rules.better[i][2] \in enabled
               => priority[rules.better[i][1]] > priority[rules.better[i][2]]

\* No plugin is set up together with one it is in conflict with.
NoConflict ==
    Arranged => \A i \in DOMAIN rules.conflicts :
                    ~(rules.conflicts[i][1] \in enabled /\ rules.conflicts[i][2] \in enabled)

\* "got stuck" is said of rules that no order can satisfy, and only of them.
StuckIsUnsatisfiable ==
    LET satisfiable == /\ Satisfiable(PlaceDemands(rules, offered))
                       /\ Satisfiable(PriorityDemands(rules, Resolve(rules.conflicts, offered)))
    IN  /\ stage = "stuck" => ~satisfiable
        /\ Arranged => satisfiable

\* Whatever waits, waits for something that was asked for and will answer: the
\* setup for a bus, a plugin, or its own refine job, which therefore runs; the
\* shutdown for a plugin, unless it is over; and a job for a setup.
SomebodyGoesOn ==
    /\ stage = "buses" => \E b \in Buses : bus[b] = "asked"
    /\ stage = "plugins" => settingUp # {}
    /\ stage = "refining" => job[Refine] = "running"
    /\ stage = "stopping" => stopping # {} \/ pending = 0
    /\ \A j \in AllJobs : job[j] = "waiting" => stage \in {"buses", "plugins", "stuck", "failed"}

\* The loader waits for all who will answer, and for nobody else.
WaitsForAnswers == NobodyCallsBackLater /\ SomebodyGoesOn

\* The order the loader finds is right, and when it finds none there is none
\* (gs_plugin_loader_setup_async(), "got stuck in dep loop").
OrderIsRight == TypeOK /\ OrderKeepsRules /\ NoConflict /\ StuckIsUnsatisfiable

\* "The depsolver is iterative and may not solve overly-complicated rules"
\* (gs-plugin.c:648).  These it does solve: rules that two strict orders keep
\* which have no more pairs together than there are passes.
EnoughPasses ==
    \A r \in RuleSets, on \in SUBSET Plugins :
        LET place == PlaceDemands(r, on)
            better == PriorityDemands(r, Resolve(r.conflicts, on))
        IN  Satisfiable(place) /\ Satisfiable(better)
            => \E R \in Orders(place), S \in Orders(better) :
                   Cardinality(R) + Cardinality(S) + 2 <= MaxPasses

\* The setup ends, and so does what waits for it.
SetupEnds == NobodyWaitsForever /\ SetupReturns

\* The inductive invariant of the proofs of JobsAfterSetup and
\* NobodyCallsBackLater: n_pending counts the plugins that are being set up or
\* shut down, there are some of the first kind as long as the setup waits for
\* them, and a job runs only after setup_complete was set.
CountInv ==
    /\ stage = "plugins" => pending = Cardinality(settingUp) /\ pending > 0 /\ ~complete
    /\ stage # "plugins" => settingUp = {}
    /\ stage = "stopping" => pending = Cardinality(stopping)
    /\ stage # "stopping" => stopping = {}
StartInv ==
    /\ complete => stage \in {"refining", "up", "stopping", "failed"}
    /\ \A j \in AllJobs : job[j] \in {"woken", "running"} => complete
Inv ==
    /\ stage \in Stages /\ settingUp \subseteq Plugins /\ stopping \subseteq Plugins
    /\ complete \in BOOLEAN /\ job \in [AllJobs -> JobStates]
    /\ CountInv /\ StartInv

\* What SomebodyGoesOn needs besides: a setup leaves no bus unasked, a stage in
\* which jobs run has set setup_complete, and whoever sets that wakes the jobs.
WaitInv ==
    /\ stage = "buses" => /\ \A b \in Buses : bus[b] \in {"asked", "there"}
                          /\ \E b \in Buses : bus[b] = "asked"
    /\ stage \in {"refining", "up", "stopping"} => complete
    /\ stage = "refining" => job[Refine] = "running"
    /\ stage = "down" => \A j \in AllJobs : job[j] = "none"
    /\ complete => \A j \in AllJobs : job[j] # "waiting"
SetupIInv == Inv /\ bus \in [Buses -> {"missing", "asked", "there"}] /\ WaitInv

-----------------------------------------------------------------------------
(* What a comment of the code says and the code does not do.               *)

\* gs_worker_thread_shutdown_async() "must be called before the final reference
\* to the GsWorkerThread is dropped" (gs-worker-thread.c:32-34): no worker runs
\* when its plugin is freed.
NoWorkerLeft == stage = "down" => workers = {}
=============================================================================
