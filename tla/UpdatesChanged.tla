--------------------------- MODULE UpdatesChanged ---------------------------
(***************************************************************************)
(* lib/gs-plugin-loader.c: how reports of the plugins that the updates may *)
(* have changed become the signal "updates-changed".                       *)
(*                                                                         *)
(* A report is counted on the main thread.  The signal is sent by a timer, *)
(* which is set when no job is active: by the report, or else by the end   *)
(* of the last job, in whichever thread drops the last reference to its    *)
(* task.  Of all these variables only the number of active jobs is atomic. *)
(***************************************************************************)
EXTENDS Naturals, FiniteSets

CONSTANTS
    Workers,        \* the threads, but for the main one, in which a task may be freed
    Main,           \* the main thread
    LateCount,      \* the plain increment of the counter may become visible to
                    \* other threads after the load that follows it
    MaxReports,     \* bound: how often plugins report
    MaxJobs         \* bound: how many jobs are started

ASSUME UpdatesBoundsAssumption ==
    LateCount \in BOOLEAN /\ MaxReports \in Nat /\ MaxJobs \in Nat

Threads == Workers \union {Main}

VARIABLES
    idle,           \* reports the main loop has still to dispatch
    counted,        \* updates_changed_cnt > 0
    late,           \* the increment is not visible to the other threads yet
    overtaken,      \* history: an increment became visible too late
    id,             \* updates_changed_id
    sources,        \* the sources of the signal that are attached to the main loop
    active,         \* active_jobs
    at,             \* what each thread is about to do about the signal
    unseen,         \* history: a plugin reported and no signal was sent since
    reports, jobs

loaderVars == <<idle, counted, late, overtaken, id, sources, active, at, unseen, reports, jobs>>

\* g_source_attach(): a number that is neither in use nor in updates_changed_id.
NewSource == CHOOSE s \in 1..(Cardinality(sources) + 2) : s \notin sources \union {id}

LoaderTypeOK ==
    /\ reports \in 0..MaxReports /\ idle \in 0..reports
    /\ jobs \in Nat /\ active \in 0..jobs
    /\ counted \in BOOLEAN /\ late \in BOOLEAN /\ overtaken \in BOOLEAN /\ unseen \in BOOLEAN
    /\ id \in Nat /\ sources \subseteq Nat \ {0}
    /\ at \in [Threads -> {"none", "load", "read", "check", "add"}]

LoaderInit ==
    /\ idle = 0 /\ counted = FALSE /\ late = FALSE /\ overtaken = FALSE
    /\ id = 0 /\ sources = {}
    /\ active = 0 /\ at = [t \in Threads |-> "none"] /\ unseen = FALSE
    /\ reports = 0 /\ jobs = 0

\* The main loop dispatches a source.  Doing so it takes a lock, and with it
\* everything the main thread wrote becomes visible.
MainIdle == at[Main] = "none" /\ ~late

-----------------------------------------------------------------------------
\* gs_plugin_updates_changed(), in any thread.
Report ==
    /\ reports < MaxReports
    /\ reports' = reports + 1
    /\ idle' = idle + 1 /\ unseen' = TRUE
    /\ UNCHANGED <<counted, late, overtaken, id, sources, active, at, jobs>>

\* gs_plugin_loader_job_updates_changed_cb(): the counter, then active_jobs.
Count ==
    /\ MainIdle /\ idle > 0
    /\ idle' = idle - 1
    /\ late' \in {FALSE, LateCount} /\ counted' = (counted \/ ~late')
    /\ overtaken' = (overtaken \/ late')
    /\ at' = [at EXCEPT ![Main] = "load"]
    /\ UNCHANGED <<id, sources, active, unseen, reports, jobs>>

LoadActive ==
    /\ at[Main] = "load"
    /\ at' = [at EXCEPT ![Main] = IF active = 0 THEN "check" ELSE "none"]
    /\ UNCHANGED <<idle, counted, late, overtaken, id, sources, active, unseen, reports, jobs>>

BecomesVisible ==
    /\ late
    /\ late' = FALSE /\ counted' = TRUE
    /\ UNCHANGED <<idle, overtaken, id, sources, active, at, unseen, reports, jobs>>

\* gs_plugin_loader_updates_changed(), in thread t.  That the source is
\* attached and its number stored is one step: the source waits 3 s.
Check(t) ==
    /\ at[t] = "check"
    /\ at' = [at EXCEPT ![t] = IF id # 0 THEN "none" ELSE "add"]
    /\ UNCHANGED <<idle, counted, late, overtaken, id, sources, active, unseen, reports, jobs>>

AddTimer(t) ==
    /\ at[t] = "add" /\ (t = Main => ~late)
    /\ sources' = sources \union {NewSource} /\ id' = NewSource
    /\ at' = [at EXCEPT ![t] = "none"]
    /\ UNCHANGED <<idle, counted, late, overtaken, active, unseen, reports, jobs>>

\* gs_plugin_loader_job_process_async(), n times in one callback.
StartJobs(n) == active' = active + n /\ jobs' = jobs + n

StartJob ==
    /\ MainIdle /\ jobs < MaxJobs
    /\ StartJobs(1)
    /\ UNCHANGED <<idle, counted, late, overtaken, id, sources, at, unseen, reports>>

\* plugin_loader_task_freed_cb(): one atomic step, then a plain read.
TaskFreedEarly(t) ==            \* mutant: the job before the last one looks
    /\ active > 0 /\ at[t] = "none" /\ (t = Main => MainIdle)
    /\ active' = active - 1
    /\ at' = [at EXCEPT ![t] = IF active = 2 THEN "read" ELSE "none"]
    /\ UNCHANGED <<idle, counted, late, overtaken, id, sources, unseen, reports, jobs>>
TaskFreed(t) ==
    /\ active > 0 /\ at[t] = "none" /\ (t = Main => MainIdle)
    /\ active' = active - 1
    /\ at' = [at EXCEPT ![t] = IF active = 1 THEN "read" ELSE "none"]
    /\ UNCHANGED <<idle, counted, late, overtaken, id, sources, unseen, reports, jobs>>

ReadCount(t) ==
    /\ at[t] = "read"
    /\ at' = [at EXCEPT ![t] = IF counted THEN "check" ELSE "none"]
    /\ UNCHANGED <<idle, counted, late, overtaken, id, sources, active, unseen, reports, jobs>>

\* gs_plugin_loader_emit_updates_changed(), for the update monitor: the
\* pending source, if its number is known, gives way to one that does not wait.
EmitSoon ==
    /\ MainIdle
    /\ sources' = (sources \ {id}) \union {NewSource} /\ id' = NewSource
    /\ UNCHANGED <<idle, counted, late, overtaken, active, at, unseen, reports, jobs>>

\* gs_plugin_loader_job_updates_changed_delay_cb(): the signal itself, and
\* after it the reset.  Started is the number of jobs the receivers start.
EmitAndKeepId(s, started) ==    \* mutant: the number of the source is not reset
    /\ MainIdle /\ s \in sources
    /\ sources' = sources \ {s} /\ id' = id /\ counted' = FALSE
    /\ unseen' = FALSE
    /\ StartJobs(started)
    /\ UNCHANGED <<idle, late, overtaken, at, reports>>
Emit(s, started) ==
    /\ MainIdle /\ s \in sources
    /\ sources' = sources \ {s} /\ id' = 0 /\ counted' = FALSE
    /\ unseen' = FALSE
    /\ StartJobs(started)
    /\ UNCHANGED <<idle, late, overtaken, at, reports>>

\* What the threads do about the signal on their own.
SignalStep ==
    \/ Count \/ LoadActive \/ BecomesVisible
    \/ \E t \in Threads : Check(t) \/ AddTimer(t) \/ ReadCount(t)

-----------------------------------------------------------------------------
(* The loader alone: jobs and reports come from anywhere.                  *)

LoaderNext ==
    \/ Report \/ StartJob \/ EmitSoon
    \/ SignalStep
    \/ \E t \in Threads : TaskFreed(t)
    \/ \E s \in sources : Emit(s, 0)

\* Threads go on, jobs end and timers expire; nobody has to report.
LoaderFairness ==
    /\ WF_loaderVars(SignalStep)
    /\ WF_loaderVars(\E t \in Threads : TaskFreed(t))
    /\ WF_loaderVars(\E s \in sources : Emit(s, 0))

LoaderSafeSpec == LoaderInit /\ [][LoaderNext]_loaderVars
LoaderSpec == LoaderSafeSpec /\ LoaderFairness

\* A number in updates_changed_id is that of a source that is still attached:
\* with any other one every later report would be dropped, because
\* gs_plugin_loader_updates_changed() would wait for a timer that is gone.
IdIsAttached == id # 0 => id \in sources

\* However reports, jobs and threads interleave, once they are all done a
\* report that was not followed by the signal has a timer that will send it:
\* "to avoid a race condition when a plugin calls updates-changed at the end of
\* the job" (gs-plugin-loader.c:1554-1556), unless an increment was overtaken.
NotForgotten ==
    idle = 0 /\ active = 0 /\ (\A t \in Threads : at[t] = "none") /\ unseen /\ ~overtaken
    => sources # {}

\* Each report is followed by the signal: what job_updates_changed_cb() and
\* plugin_loader_task_freed_cb() do together.
ReportIsEmitted == unseen ~> (~unseen \/ overtaken)

\* The inductive invariant of the proof of NotForgotten.
ReportInv ==
    /\ IdIsAttached
    /\ late => overtaken
    /\ unseen => idle > 0 \/ counted \/ overtaken
    /\ counted /\ ~overtaken
       => sources # {} \/ active > 0 \/ \E t \in Threads : at[t] # "none"
LoaderInv == LoaderTypeOK /\ IsFiniteSet(sources) /\ ReportInv
=============================================================================
