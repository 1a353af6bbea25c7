----------------------------- MODULE EosUpdater -----------------------------
(***************************************************************************)
(* plugins/eos-updater/gs-plugin-eos-updater.c: the upgrade of Endless OS. *)
(* The daemon eos-updater is a state machine on the bus; its changes reach *)
(* the proxy of the plugin in the main thread, which brings the state of   *)
(* the app in line under the mutex and wakes the thread that downloads.    *)
(* That thread steps the daemon to an applied update: it holds the mutex   *)
(* but for its waits.                                                      *)
(***************************************************************************)
EXTENDS Naturals, Sequences

CONSTANTS
    MaxChanges,     \* changes that are on their way to the proxy, at most
    MaxDisturbed    \* how often it dies, or polls for a refresh, at most

ASSUME EosAssumption == MaxChanges \in Nat \ {0} /\ MaxDisturbed \in Nat

VARIABLES
    updater,        \* the state of the daemon
    changes,        \* its changes on their way to the main thread
    proxyState,     \* the state the proxy knows
    handling,       \* updater_state_changed() runs or waits for the mutex
    osUpgrade,      \* the state of the app
    download,       \* gs_plugin_app_upgrade_download() in its thread
    uiCancelled,    \* the cancellable of the job is cancelled
    chained,        \* the cancellable of the plugin is cancelled
    cancelSent,     \* Cancel is on its way to the daemon
    disturbed
eosVars == <<updater, changes, proxyState, handling, osUpgrade, download,
             uiCancelled, chained, cancelSent, disturbed>>

\* "cancelled" is the error state after a cancellation.
Errors == {"error", "cancelled"}
Busy == {"polling", "fetching", "applying"}
UpdaterStates == {"none", "ready", "update available", "update ready", "applied"} \union Busy \union Errors

Calls == {"poll", "fetch", "apply", "poll and end"}
Holding == Calls \union {"locked", "old", "check", "sleep", "end"}
Outcomes == {"none", "ok", "failed", "cancelled"}

\* stage: where the thread is; saw: old_state of its wait; restart: whether it
\* may poll once more; polls: how often it has (counted up to 3); told: whether
\* an event was reported, or hushed up as a cancellation; applied: it has seen
\* the update applied; outcome: of the last download.
EosTypeOK ==
    /\ updater \in UpdaterStates /\ proxyState \in UpdaterStates
    /\ changes \in Seq(UpdaterStates)
    /\ osUpgrade \in {"unknown", "available", "installing", "updatable"}
    /\ download \in [stage : Holding \union {"idle", "lock", "waiting", "woken"},
                     saw : UpdaterStates, restart : BOOLEAN, polls : 0..3,
                     told : {"no", "event", "hushed"}, applied : BOOLEAN, outcome : Outcomes]
    /\ {handling, uiCancelled, chained, cancelSent} \subseteq BOOLEAN
    /\ disturbed \in 0..MaxDisturbed

NewDownload == [stage |-> "lock", saw |-> "none", restart |-> FALSE, polls |-> 0,
                told |-> "no", applied |-> FALSE, outcome |-> "none"]

\* The state of the app that goes with a state of the daemon; POLLING changes
\* nothing.
Synced(app, s) ==
    CASE s \in {"none", "ready"} \union Errors -> "unknown"
      [] s = "polling" -> app
      [] s = "update available" -> "available"
      [] s \in {"fetching", "applying"} -> "installing"
      [] s \in {"update ready", "applied"} -> "updatable"

\* proxy_new_cb(): the plugin is set up with the state the daemon has then.
EosInit ==
    /\ updater \in {"none", "ready", "update available"} /\ proxyState = updater /\ changes = <<>>
    /\ osUpgrade = Synced("unknown", updater)
    /\ download = [NewDownload EXCEPT !.stage = "idle"]
    /\ handling = FALSE /\ uiCancelled = FALSE /\ chained = FALSE /\ cancelSent = FALSE /\ disturbed = 0

mutexFree == download.stage \notin Holding

-----------------------------------------------------------------------------
\* The daemon.
ChangeTo(s) == updater' = s /\ changes' = Append(changes, s)
fewChanges == Len(changes) < MaxChanges

clientUnchanged == <<proxyState, handling, osUpgrade, download, uiCancelled, chained>>

FinishWork ==
    /\ fewChanges
    /\ \/ updater = "polling" /\ \E s \in {"ready", "update available", "error"} : ChangeTo(s)
       \/ updater = "fetching" /\ \E s \in {"update ready", "error"} : ChangeTo(s)
       \/ updater = "applying" /\ \E s \in {"applied", "error"} : ChangeTo(s)
    /\ UNCHANGED <<clientUnchanged, cancelSent, disturbed>>

\* Cancel() is not allowed unless there is work to cancel.
UpdaterCancel ==
    /\ cancelSent /\ cancelSent' = FALSE /\ fewChanges
    /\ IF updater \in Busy THEN ChangeTo("cancelled") ELSE UNCHANGED <<updater, changes>>
    /\ UNCHANGED <<clientUnchanged, disturbed>>

Dies ==
    /\ fewChanges /\ disturbed < MaxDisturbed /\ disturbed' = disturbed + 1
    /\ updater # "none" /\ ChangeTo("none")
    /\ UNCHANGED <<clientUnchanged, cancelSent>>

\* The methods: what a call is allowed in, and the state it leads to.
Allowed(call) ==
    CASE call \in {"poll", "poll and end"} -> {"none", "ready", "update available", "update ready"} \union Errors
      [] call = "fetch" -> {"update available"}
      [] call = "apply" -> {"update ready"}
Leads(call) ==
    CASE call \in {"poll", "poll and end"} -> "polling" [] call = "fetch" -> "fetching" [] call = "apply" -> "applying"

-----------------------------------------------------------------------------
\* The main thread.
mainIdle == ~handling

\* The proxy learns of a change, and updater_state_changed() is called.
Notified ==
    /\ mainIdle /\ changes # <<>>
    /\ proxyState' = Head(changes) /\ changes' = Tail(changes)
    /\ handling' = (Head(changes) # proxyState)
    /\ UNCHANGED <<updater, osUpgrade, download, uiCancelled, chained, cancelSent, disturbed>>

Woken(d) == IF d.stage = "waiting" THEN [d EXCEPT !.stage = "woken"] ELSE d

SyncWithoutBroadcast ==         \* mutant: the thread is not woken
    /\ handling /\ mutexFree /\ handling' = FALSE
    /\ osUpgrade' = Synced(osUpgrade, proxyState)
    /\ chained' = (chained /\ proxyState \notin Errors)
    /\ UNCHANGED <<updater, changes, proxyState, download, uiCancelled, cancelSent, disturbed>>

\* updater_state_changed(), with sync_state_from_updater_unlocked(), once it
\* has the mutex.
UpdaterStateChanged ==
    /\ handling /\ mutexFree /\ handling' = FALSE
    /\ osUpgrade' = Synced(osUpgrade, proxyState)
    /\ chained' = (chained /\ proxyState \notin Errors)
    /\ download' = Woken(download)
    /\ UNCHANGED <<updater, changes, proxyState, uiCancelled, cancelSent, disturbed>>

\* refresh_metadata: gs_eos_updater_call_poll() without waiting for it.
EosRefreshMetadata ==
    /\ mainIdle /\ proxyState \in {"none", "ready"} \union Errors
    /\ fewChanges /\ disturbed < MaxDisturbed /\ disturbed' = disturbed + 1
    /\ updater \in Allowed("poll") /\ ChangeTo("polling")
    /\ UNCHANGED <<clientUnchanged, cancelSent>>

\* The upgrade banner: a download is offered while the app is available.
StartDownload ==
    /\ mainIdle /\ download.stage = "idle"
    /\ osUpgrade = "available"
    /\ download' = NewDownload /\ uiCancelled' = FALSE
    /\ UNCHANGED <<updater, changes, proxyState, handling, osUpgrade, chained, cancelSent, disturbed>>

\* cancelled_cb(): the cancellable of the plugin is cancelled too, which sends
\* Cancel unless it was cancelled before.
Chain == chained' = TRUE /\ cancelSent' = (cancelSent \/ ~chained)

\* The user cancels; the broadcast wakes the thread if it waits already.
UiCancel ==
    /\ mainIdle /\ download.stage # "idle" /\ ~uiCancelled /\ uiCancelled' = TRUE
    /\ IF download.stage = "lock" THEN UNCHANGED <<chained, cancelSent, download>>
       ELSE Chain /\ download' = Woken(download)
    /\ UNCHANGED <<updater, changes, proxyState, handling, osUpgrade, disturbed>>

\* gs_updates_page_invalidate_downloaded_upgrade(): the updates have changed,
\* of whatever plugin.
Invalidate ==
    /\ mainIdle /\ osUpgrade = "updatable" /\ osUpgrade' = "available"
    /\ UNCHANGED <<updater, changes, proxyState, handling, download, uiCancelled, chained, cancelSent, disturbed>>

-----------------------------------------------------------------------------
\* The thread that downloads.
othersUnchanged == <<proxyState, handling, osUpgrade, uiCancelled, disturbed>>
Stays == UNCHANGED <<updater, changes, chained, cancelSent>>

\* Gets the mutex, and connects to the cancellable.
Lock ==
    /\ download.stage = "lock"
    /\ download' = [download EXCEPT !.stage = "locked",
                                    !.restart = proxyState \in {"none", "ready"} \union Errors]
    /\ IF uiCancelled THEN Chain ELSE UNCHANGED <<chained, cancelSent>>
    /\ UNCHANGED <<othersUnchanged, updater, changes>>

\* The head of the loop: what the state the proxy knows calls for.
GivesUpQuietly(d, s) ==         \* mutant: nobody is told
    CASE s \in {"none", "ready"} /\ d.restart -> [d EXCEPT !.stage = "poll", !.restart = FALSE]
      [] s \in {"none", "ready"} /\ ~d.restart -> [d EXCEPT !.stage = "end"]
      [] s = "update available" -> [d EXCEPT !.stage = "fetch"]
      [] s = "update ready" -> [d EXCEPT !.stage = "apply"]
      [] s = "applied" -> [d EXCEPT !.stage = "end", !.applied = TRUE]
      [] s \in Errors -> [d EXCEPT !.stage = "poll and end", !.told = "event"]
      [] s \in Busy -> [d EXCEPT !.stage = "old"]
StepFor(d, s) ==
    CASE s \in {"none", "ready"} /\ d.restart -> [d EXCEPT !.stage = "poll", !.restart = FALSE]
      [] s \in {"none", "ready"} /\ ~d.restart -> [d EXCEPT !.stage = "end", !.told = "event"]
      [] s = "update available" -> [d EXCEPT !.stage = "fetch"]
      [] s = "update ready" -> [d EXCEPT !.stage = "apply"]
      [] s = "applied" -> [d EXCEPT !.stage = "end", !.applied = TRUE]
      [] s \in Errors -> [d EXCEPT !.stage = "poll and end", !.restart = FALSE,
                                   !.told = IF s = "error" THEN "event" ELSE "hushed"]
      [] s \in Busy -> [d EXCEPT !.stage = "old"]

Step ==
    /\ download.stage = "locked"
    /\ download' = IF uiCancelled THEN [download EXCEPT !.stage = "end"] ELSE StepFor(download, proxyState)
    /\ UNCHANGED othersUnchanged /\ Stays

Polled(d) == IF d.stage \in {"poll", "poll and end"} /\ d.polls < 3 THEN [d EXCEPT !.polls = @ + 1] ELSE d
Ended(d, how) == [d EXCEPT !.stage = "idle", !.outcome = how]

\* A call of the daemon, which answers or refuses, unless it is cancelled.
Call ==
    /\ download.stage \in Calls
    /\ IF updater \in Allowed(download.stage)
       THEN /\ ChangeTo(Leads(download.stage))
            /\ download' = [Polled(download) EXCEPT !.stage = IF @ = "poll and end" THEN "end" ELSE "old"]
       ELSE UNCHANGED <<updater, changes>> /\ download' = Ended(Polled(download), "failed")
    /\ UNCHANGED <<othersUnchanged, chained, cancelSent>>

CallCancelled ==
    /\ download.stage \in Calls /\ uiCancelled
    /\ download' = Ended(Polled(download), "cancelled")
    /\ UNCHANGED othersUnchanged /\ Stays

\* wait_for_state_change_unlocked(): the state it compares with is read when
\* the wait begins, and again after each wake-up.  A cancellation between the
\* check and g_cond_wait() is missed: cancelled_cb() does not lock the mutex.
WaitBegins ==
    /\ download.stage = "old"
    /\ download' = IF uiCancelled THEN Ended(download, "cancelled")
                   ELSE [download EXCEPT !.stage = "sleep", !.saw = proxyState]
    /\ UNCHANGED othersUnchanged /\ Stays

Sleep ==
    /\ download.stage = "sleep"
    /\ download' = [download EXCEPT !.stage = "waiting"]
    /\ UNCHANGED othersUnchanged /\ Stays

WakesUp ==
    /\ download.stage = "woken"
    /\ download' = CASE uiCancelled -> Ended(download, "cancelled")
                     [] ~uiCancelled /\ proxyState # download.saw -> [download EXCEPT !.stage = "locked"]
                     [] ~uiCancelled /\ proxyState = download.saw -> [download EXCEPT !.stage = "sleep"]
    /\ UNCHANGED othersUnchanged /\ Stays

\* The final state.
End ==
    /\ download.stage = "end"
    /\ download' = Ended(download, CASE proxyState \in Errors -> "failed"
                                     [] proxyState \notin Errors /\ uiCancelled -> "cancelled"
                                     [] OTHER -> "ok")
    /\ UNCHANGED othersUnchanged /\ Stays

ThreadStep == Lock \/ Step \/ Call \/ CallCancelled \/ WaitBegins \/ Sleep \/ WakesUp \/ End

EosNext ==
    \/ FinishWork \/ UpdaterCancel \/ Dies
    \/ Notified \/ UpdaterStateChanged \/ EosRefreshMetadata \/ StartDownload \/ UiCancel \/ Invalidate
    \/ ThreadStep

\* The thread and the main thread go on, and the daemon ends its work.
EosFairness ==
    /\ WF_eosVars(ThreadStep) /\ WF_eosVars(Notified) /\ WF_eosVars(UpdaterStateChanged)
    /\ WF_eosVars(FinishWork) /\ WF_eosVars(UpdaterCancel)

EosSpec == EosInit /\ [][EosNext]_eosVars /\ EosFairness

-----------------------------------------------------------------------------
\* Once the main thread has handled a change, the banner offers an upgrade only
\* while the daemon has one, and shows progress only while it is made
\* (sync_state_from_updater_unlocked()).
BannerInStep ==
    mainIdle /\ proxyState # "polling" =>
        /\ osUpgrade = "unknown" <=> proxyState \in {"none", "ready"} \union Errors
        /\ osUpgrade = "installing" <=> proxyState \in Busy

\* A download polls once to start over and once to leave an error behind: no
\* endless loop, however often the daemon dies (gs_plugin_app_upgrade_download()).
RestartsOnce == download.polls <= 2

\* A download that succeeds has seen the update applied, or has told the user
\* that it could not, or ends after a cancellation.
SuccessIsExplained == download.outcome = "ok" => download.applied \/ download.told # "no"

\* A download ends, unless it waits for a change of a state the daemon does not
\* leave by itself: the change it should have waited for came between its look
\* at the state and the beginning of its wait.
asleepForEver == download.stage = "waiting" /\ proxyState = download.saw /\ proxyState \notin Busy
UpgradeRests == download.stage = "idle" \/ asleepForEver

\* "Chain cancellation": each cancellation of a download is passed on to the
\* daemon (cancelled_cb()).
CancelIsPassedOn ==
    [][uiCancelled' /\ ~uiCancelled /\ download.stage # "lock" => cancelSent']_eosVars

\* The banner, the download and what the user is told agree with the daemon,
\* which several clients drive and which may die at any moment.
EosInv == EosTypeOK /\ BannerInStep /\ RestartsOnce /\ SuccessIsExplained

\* Why it does: a download has polled once at most while it steps, and not at
\* all while it may start over, so that the poll that leaves an error behind is
\* the second.
PollsLeft ==
    /\ download.stage \in {"lock", "poll"} => download.polls = 0
    /\ download.stage \notin {"end", "idle"} => download.polls <= 1
    /\ download.stage \notin {"lock", "end", "idle"} /\ download.restart => download.polls = 0
    /\ download.stage \in {"poll", "poll and end"} => ~download.restart

\* A download that is about to end has seen the update applied, has told why it
\* was not, or is cancelled.
EndIsExplained ==
    /\ download.stage = "end" => download.applied \/ download.told # "no" \/ uiCancelled
    /\ download.stage = "poll and end" => download.told # "no"

EosIInv == EosInv /\ PollsLeft /\ EndIsExplained
=============================================================================
