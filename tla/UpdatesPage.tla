---------------------------- MODULE UpdatesPage -----------------------------
(***************************************************************************)
(* src/gs-updates-page.c: the list of updates the user sees, as it is      *)
(* loaded, refreshed and reloaded, together with the loader's signal       *)
(* "updates-changed" that makes it reload.                                 *)
(*                                                                         *)
(* Everything here runs on the main thread, one callback at a time; what   *)
(* interleaves is the answers of the jobs, the signals and the user.  The  *)
(* updates there really are change with each report, so that the number of *)
(* reports is their version; a GET_UPDATES job reads it at some moment     *)
(* between its start and its callback.                                     *)
(***************************************************************************)
EXTENDS UpdatesChanged, Sequences

CONSTANTS
    JobIds,         \* bound: names for the page's jobs at any one time
    MaxActions,     \* bound: what the user, the shell and the monitor do
    MaxFailures     \* bound: how many jobs fail

ASSUME PageBoundsAssumption == MaxActions \in Nat /\ MaxFailures \in Nat

VARIABLES
    state,          \* self->state
    cacheValid,     \* self->cache_valid
    actionCnt,      \* self->action_cnt
    hasUpgrades,    \* self->result_flags has HAS_UPGRADES
    shown,          \* the versions of the lists added since the page was emptied
    mode,           \* the shell shows the updates page
    running,        \* the jobs whose callback on the page is still to come
    actions, failures

pageVars == <<state, cacheValid, actionCnt, hasUpgrades, shown, mode, running,
              actions, failures>>
vars == <<loaderVars, pageVars>>

\* kind:    "update" installs updates of the list, the others are named for
\*          their callbacks
\* saw:     the version a GET_UPDATES job has read
\* stopped: the job's cancellable is cancelled
\* current: the job's cancellable is self->cancellable_refresh
Kinds == {"updates", "upgrades", "refresh", "update"}
Unread == MaxReports + 1
PageJob == [id : JobIds, kind : Kinds, saw : 0..Unread, stopped : BOOLEAN, current : BOOLEAN]

PageStates == {"startup", "refresh", "get updates", "managed", "idle", "failed"}

TypeOK ==
    /\ LoaderTypeOK
    /\ state \in PageStates /\ cacheValid \in BOOLEAN /\ actionCnt \in Nat
    /\ hasUpgrades \in BOOLEAN /\ shown \in Seq(0..MaxReports) /\ mode \in BOOLEAN
    /\ running \subseteq PageJob
    /\ Cardinality(running) <= active
    /\ actions \in 0..MaxActions /\ failures \in 0..MaxFailures

Init ==
    /\ LoaderInit
    /\ state = "startup" /\ cacheValid = FALSE /\ actionCnt = 0 /\ hasUpgrades = FALSE
    /\ shown = <<>> /\ mode = FALSE /\ running = {} /\ actions = 0 /\ failures = 0

OfKind(k) == {r \in running : r.kind = k}
Updating == OfKind("update") # {}

-----------------------------------------------------------------------------
(* Loading the list.                                                       *)

\* The jobs of gs_updates_page_load() are GET_UPDATES and, unless there is one
\* to show already, the distro upgrades; left are the jobs still running.
LoadKinds == IF hasUpgrades THEN {"updates"} ELSE {"updates", "upgrades"}
FreeId(kind, left) == CHOOSE i \in JobIds : \A q \in left : q.kind = kind => q.id # i
NewJobs(kinds, left) ==
    {r \in PageJob : r.kind \in kinds /\ r.id = FreeId(r.kind, left) /\ r.saw = Unread
                     /\ ~r.stopped /\ (r.current <=> r.kind = "refresh")}

\* gs_updates_page_load(), and how many jobs it starts.
LoadStarts == IF actionCnt > 0 THEN 0 ELSE Cardinality(LoadKinds)
LoadByState(left) ==            \* mutant: the state is looked at, not the counter
    IF state = "get updates"
    THEN running' = left /\ UNCHANGED <<shown, state, actionCnt>>
    ELSE /\ shown' = <<>> /\ state' = "get updates"
         /\ actionCnt' = actionCnt + Cardinality(LoadKinds)
         /\ running' = left \union NewJobs(LoadKinds, left)
LoadUncounted(left) ==          \* mutant: the second job is not counted
    IF actionCnt > 0
    THEN running' = left /\ UNCHANGED <<shown, state, actionCnt>>
    ELSE /\ shown' = <<>> /\ state' = "get updates"
         /\ actionCnt' = 1
         /\ running' = left \union NewJobs(LoadKinds, left)
Load(left) ==
    IF actionCnt > 0
    THEN running' = left /\ UNCHANGED <<shown, state, actionCnt>>
    ELSE /\ shown' = <<>> /\ state' = "get updates"
         /\ actionCnt' = Cardinality(LoadKinds)
         /\ running' = left \union NewJobs(LoadKinds, left)

\* gs_updates_page_switch_to(), and how many jobs it starts.
MayLoad(valid, inMode) == inMode /\ ~valid /\ state # "get updates"
SwitchStarts(valid, inMode) == IF MayLoad(valid, inMode) THEN LoadStarts ELSE 0
SwitchTo(valid, inMode, left) ==
    IF MayLoad(valid, inMode) THEN Load(left)
    ELSE running' = left /\ UNCHANGED <<shown, state, actionCnt>>

\* gs_updates_page_reload(), and how many jobs it starts.
ReloadStarts == IF state = "refresh" THEN 0 ELSE LoadStarts
Reload ==
    IF state = "refresh" THEN UNCHANGED <<cacheValid, shown, state, actionCnt, running>>
    ELSE cacheValid' = FALSE /\ Load(running)

\* The signal: gs_updates_page_changed_cb() does not reload the list while
\* updates of it are being installed.
ChangedStarts == IF Updating THEN 0 ELSE ReloadStarts
Changed(s) ==
    /\ Emit(s, ChangedStarts)
    /\ IF Updating THEN UNCHANGED <<cacheValid, shown, state, actionCnt, running>> ELSE Reload
    /\ UNCHANGED <<hasUpgrades, mode, actions, failures>>

-----------------------------------------------------------------------------
(* The callbacks of the jobs.                                              *)

\* A page callback that starts n jobs.
Callback(n) ==
    /\ MainIdle
    /\ IF n = 0 THEN UNCHANGED <<active, jobs>> ELSE StartJobs(n)
    /\ UNCHANGED <<idle, counted, late, overtaken, id, sources, at, unseen, reports>>

Succeeds == UNCHANGED failures
Fails == failures < MaxFailures /\ failures' = failures + 1

\* The plugins of a GET_UPDATES job look at the updates there are.
Collect(r) ==
    /\ r \in OfKind("updates") /\ r.saw = Unread
    /\ running' = (running \ {r}) \union {[r EXCEPT !.saw = reports]}
    /\ UNCHANGED <<loaderVars, state, cacheValid, actionCnt, hasUpgrades, shown, mode,
                   actions, failures>>

\* gs_updates_page_decrement_refresh_count()
Decrement ==
    IF actionCnt = 0 THEN UNCHANGED <<actionCnt, state>>
    ELSE /\ actionCnt' = actionCnt - 1
         /\ state' = IF actionCnt > 1 THEN state ELSE "idle"

\* gs_updates_page_get_updates_cb()
GotUpdates(r) ==
    /\ r \in OfKind("updates") /\ r.saw # Unread
    /\ Callback(0) /\ Succeeds
    /\ cacheValid' = TRUE /\ shown' = Append(shown, r.saw)
    /\ Decrement
    /\ running' = running \ {r}
    /\ UNCHANGED <<hasUpgrades, mode, actions>>

GotNoUpdates(r) ==
    /\ r \in OfKind("updates")
    /\ Callback(0) /\ Fails
    /\ cacheValid' = TRUE /\ state' = "failed"
    /\ running' = running \ {r}
    /\ UNCHANGED <<actionCnt, hasUpgrades, shown, mode, actions>>

\* gs_updates_page_get_upgrades_cb()
GotUpgradesUncounted(r) ==      \* mutant: no upgrades, no decrement
    /\ r \in OfKind("upgrades")
    /\ Callback(0)
    /\ \/ Fails /\ hasUpgrades' = FALSE /\ UNCHANGED <<actionCnt, state>>
       \/ Succeeds /\ hasUpgrades' \in BOOLEAN /\ Decrement
    /\ running' = running \ {r}
    /\ UNCHANGED <<cacheValid, shown, mode, actions>>
GotUpgrades(r) ==
    /\ r \in OfKind("upgrades")
    /\ Callback(0)
    /\ \/ Fails /\ hasUpgrades' = FALSE
       \/ Succeeds /\ hasUpgrades' \in BOOLEAN
    /\ Decrement
    /\ running' = running \ {r}
    /\ UNCHANGED <<cacheValid, shown, mode, actions>>

\* gs_updates_page_refresh_cb(): a job that was stopped answers "cancelled".
Refreshed(r) ==
    /\ r \in OfKind("refresh") /\ ~r.stopped
    /\ Callback(SwitchStarts(FALSE, mode)) /\ Succeeds
    /\ cacheValid' = FALSE
    /\ SwitchTo(FALSE, mode, running \ {r})
    /\ UNCHANGED <<hasUpgrades, mode, actions>>

NotRefreshed(r) ==
    /\ r \in OfKind("refresh")
    /\ Callback(0)
    /\ \/ r.stopped /\ Succeeds /\ state' = "idle"
       \/ ~r.stopped /\ Fails /\ state' = "failed"
    /\ running' = running \ {r}
    /\ UNCHANGED <<cacheValid, actionCnt, hasUpgrades, shown, mode, actions>>

\* The end of an update: its apps left INSTALLING before.
Updated(r) ==
    /\ r \in OfKind("update")
    /\ Callback(0) /\ Succeeds
    /\ running' = running \ {r}
    /\ UNCHANGED <<state, cacheValid, actionCnt, hasUpgrades, shown, mode, actions>>

-----------------------------------------------------------------------------
(* The user, the shell and the monitor.                                    *)

Act == actions < MaxActions /\ actions' = actions + 1 /\ UNCHANGED failures

EnterPage ==
    /\ Act /\ ~mode
    /\ Callback(SwitchStarts(cacheValid, TRUE))
    /\ mode' = TRUE
    /\ SwitchTo(cacheValid, TRUE, running)
    /\ UNCHANGED <<cacheValid, hasUpgrades>>

LeavePage ==
    /\ Act /\ mode
    /\ Callback(0)
    /\ mode' = FALSE
    /\ UNCHANGED <<state, cacheValid, actionCnt, hasUpgrades, shown, running>>

Stop == {IF r.current THEN [r EXCEPT !.stopped = TRUE, !.current = FALSE] ELSE r : r \in running}

\* gs_updates_page_button_refresh_cb(), which asks before it uses a metered
\* network; the button is hidden in two states.
ClickStop ==
    /\ Act /\ mode /\ state = "refresh"
    /\ Callback(0)
    /\ running' = Stop
    /\ UNCHANGED <<state, cacheValid, actionCnt, hasUpgrades, shown, mode>>

ClickRefresh ==
    /\ Act /\ mode /\ state \notin {"refresh", "startup", "managed"}
    /\ Cardinality(OfKind("refresh")) < Cardinality(JobIds)
    /\ Callback(1)
    /\ state' = "refresh"
    /\ running' = Stop \union NewJobs({"refresh"}, running)
    /\ UNCHANGED <<cacheValid, actionCnt, hasUpgrades, shown, mode>>

\* The shell's reload, when the plugins ask for it and when it has started.
ShellReload ==
    /\ Act
    /\ Callback(ReloadStarts)
    /\ Reload
    /\ UNCHANGED <<hasUpgrades, mode>>

PendingAppsChanged ==
    /\ Act
    /\ Callback(0)
    /\ cacheValid' = FALSE
    /\ UNCHANGED <<state, actionCnt, hasUpgrades, shown, mode, running>>

AllowUpdatesNotify ==
    /\ Act
    /\ Callback(0)
    /\ state' \in {"managed", "idle"}
    /\ UNCHANGED <<cacheValid, actionCnt, hasUpgrades, shown, mode, running>>

\* The update button of a section of the list.
ClickUpdate ==
    /\ Act /\ mode /\ state = "idle" /\ shown # <<>> /\ ~Updating
    /\ Callback(1)
    /\ running' = running \union NewJobs({"update"}, running)
    /\ UNCHANGED <<state, cacheValid, actionCnt, hasUpgrades, shown, mode>>

MonitorNotifies ==
    /\ Act
    /\ EmitSoon
    /\ UNCHANGED <<state, cacheValid, actionCnt, hasUpgrades, shown, mode, running>>

-----------------------------------------------------------------------------
LoaderStep ==
    /\ \/ Report \/ StartJob \/ SignalStep
       \/ \E t \in Threads : TaskFreed(t) /\ active > Cardinality(running)
    /\ UNCHANGED pageVars

Answer ==
    \E r \in running :
        \/ Collect(r) \/ GotUpdates(r) \/ GotNoUpdates(r) \/ GotUpgrades(r)
        \/ Refreshed(r) \/ NotRefreshed(r) \/ Updated(r)

Environment ==
    \/ EnterPage \/ LeavePage \/ ClickStop \/ ClickRefresh \/ ClickUpdate
    \/ ShellReload \/ PendingAppsChanged \/ AllowUpdatesNotify \/ MonitorNotifies

Next ==
    \/ Environment
    \/ LoaderStep
    \/ Answer
    \/ \E s \in sources : Changed(s)

\* Jobs end, each in one of its ways, and the main loop and the threads go on.
Fairness ==
    /\ WF_vars(SignalStep /\ UNCHANGED pageVars)
    /\ WF_vars(Answer)

SafeSpec == Init /\ [][Next]_vars
Spec == SafeSpec /\ Fairness

-----------------------------------------------------------------------------
(* Properties.                                                             *)

\* The answers of two loads are never added to the same list, so no update is
\* shown twice, whatever reloads, refreshes and page changes overlap.
NothingShownTwice == Len(shown) <= 1

\* Each job that will decrement action_cnt is counted in it, so the warning
\* "action_cnt already zero!" never shows and no load starts over another one.
CountCoversJobs ==
    Cardinality(OfKind("updates")) + Cardinality(OfKind("upgrades")) <= actionCnt

\* A valid cache is a list that was loaded to its end, or a load that failed:
\* the page is never left empty by a reload that nobody will answer.
ValidCacheIsAList == cacheValid /\ failures = 0 => Len(shown) = 1

\* The counter and the cache of the page agree with its jobs and its list.
UpdatesInv == TypeOK /\ CountCoversJobs /\ ValidCacheIsAList

\* The page does not spin for good over a load: in whatever order the jobs
\* answer or fail, the last one changes the state.
SpinnerStops == state = "get updates" ~> state # "get updates"

-----------------------------------------------------------------------------
(* The inductive invariant of the proof of NothingShownTwice: there is one *)
(* job of each kind that fills the page at most, the list is empty until   *)
(* GET_UPDATES answers, and action_cnt is not zero before both answered.   *)

Runs(k) == \E r \in running : r.kind = k

LoadType ==
    /\ running \subseteq PageJob /\ shown \in Seq(0..MaxReports) /\ actionCnt \in Nat
    /\ reports \in 0..MaxReports

LoadInv ==
    /\ \A q, r \in running : q.kind = r.kind /\ q.kind \in {"updates", "upgrades"} => q = r
    /\ Runs("updates") => shown = <<>> /\ actionCnt >= 1
    /\ Runs("upgrades") => actionCnt >= 1
    /\ Runs("updates") /\ Runs("upgrades") => actionCnt >= 2
    /\ Len(shown) <= 1

PageInv == LoadType /\ LoadInv

\* The rest of that of the proof of UpdatesInv: the loader counts each job of
\* the page as active, and while the list is being loaded the cache is not
\* valid, so that only an answer to GET_UPDATES or its failure makes it so.
JobsInv == IsFiniteSet(running) /\ Cardinality(running) <= active
CacheInv == cacheValid => ~Runs("updates") /\ (failures = 0 => Len(shown) = 1)
ListInv == LoaderInv /\ TypeOK /\ PageInv /\ JobsInv /\ CacheInv

-----------------------------------------------------------------------------
(* What the code says and does not do.                                     *)

\* "every job increments this" (gs-updates-page.c:400) and "all done" (:408):
\* while action_cnt is not zero, and every load is turned down, a job runs.
CountIsJobs == actionCnt > 0 => OfKind("updates") \union OfKind("upgrades") # {}

\* "To force reload of the Updates page, thus it reflects what the update-
\* monitor notifies about" (gs-update-monitor.c:285): once the signal was sent
\* and nothing more is going on, a list that counts as valid is the last one.
PageReflectsReports ==
    /\ cacheValid /\ running = {} /\ idle = 0 /\ active = 0 /\ sources = {} /\ failures = 0
    /\ \A t \in Threads : at[t] = "none"
    => shown = <<reports>>
=============================================================================
