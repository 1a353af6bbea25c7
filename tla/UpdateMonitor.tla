---------------------------- MODULE UpdateMonitor ----------------------------
(***************************************************************************)
(* src/gs-update-monitor.c: the checks for updates in the background.  A   *)
(* timer and changes of the network, the battery and the power profile     *)
(* start a chain of jobs in the main thread: a refresh of the metadata,    *)
(* the list of updates, their download and the update of those that can be *)
(* applied live.  Each step is the callback of the one before; the steps   *)
(* share two cancellables.  The checks for upgrades, for the end of life   *)
(* of the system and for a language pack, which share nothing with them    *)
(* but a cancellable, are left out.                                        *)
(***************************************************************************)
EXTENDS FiniteSetsExt, Naturals

CONSTANTS
    MonitorApps,        \* what may have an update
    LiveApps,           \* those that are updated without a restart (_should_auto_update())
    CriticalApps,       \* those whose updates are urgent
    MonitorJobs,        \* bound: the jobs in flight; numbers
    MaxHalfDays,           \* bound of the clock
    MaxEvents,          \* bound of the changes of the environment
    RefreshWhenMetered, \* the setting "refresh-when-metered", by default FALSE
    ReadyDays, WaitingDays  \* days between notifications of downloaded and of other updates

ASSUME MonitorAssumption ==
    /\ LiveApps \subseteq MonitorApps /\ CriticalApps \subseteq MonitorApps
    /\ MonitorJobs \subseteq Nat /\ MaxHalfDays \in Nat \ {0} /\ MaxEvents \in Nat
    /\ {ReadyDays, WaitingDays} \subseteq Nat \ {0} /\ RefreshWhenMetered \in BOOLEAN

VARIABLES
    clock6,             \* half a day each: 3am, even, and 3pm, odd; from 3pm of day 0 on
    events,             \* how many changes of the environment there were
    network, saver, lowPower,       \* the environment
    unhandled,          \* which of their changes the main loop has not handled
    allowUpdates,       \* allow-updates of the loader
    downloadUpdates,    \* the setting "download-updates"
    updatable, downloaded,          \* the updates there are, and those that are downloaded
    checkStamp, notifyStamp,        \* the settings with the time of a refresh and a notification
    securityStamp,      \* whether "security-timestamp" is set
    lastNotification,   \* last_notification_time_usec
    hourly, startup,    \* whether the timers run
    mjobs,              \* the jobs in flight
    sentAt              \* history: when the last notification was sent
envVars == <<clock6, events, network, saver, lowPower, unhandled, allowUpdates, downloadUpdates>>
stampVars == <<checkStamp, notifyStamp, securityStamp, lastNotification, sentAt>>
updateVars == <<updatable, downloaded>>
timerVars == <<hourly, startup>>
monitorVars == <<envVars, stampVars, updateVars, timerVars, mjobs>>

Never == 0
Day(time) == time \div 2
NoJob == [kind |-> "none", apps |-> {}, cancelled |-> FALSE, asked |-> FALSE]
NewJob(kind, apps, asked) == [kind |-> kind, apps |-> apps, cancelled |-> FALSE, asked |-> asked]
Kinds == {"none", "refresh", "updates", "download", "update"}
Refreshing == {"refresh", "download"}       \* the jobs of refresh_cancellable, the others have update_cancellable

MonitorTypeOK ==
    /\ clock6 \in 1..MaxHalfDays /\ events \in 0..MaxEvents
    /\ network \in {"offline", "metered", "free"} /\ unhandled \subseteq {"network", "saver", "power", "available", "allow"}
    /\ {saver, lowPower, allowUpdates, downloadUpdates, hourly, startup, securityStamp} \subseteq BOOLEAN
    /\ downloaded \subseteq updatable /\ updatable \subseteq MonitorApps
    /\ {checkStamp, notifyStamp, lastNotification, sentAt} \subseteq 0..MaxHalfDays
    /\ mjobs \in [MonitorJobs -> [kind : Kinds, apps : SUBSET MonitorApps, cancelled : BOOLEAN, asked : BOOLEAN]]

MonitorInit ==
    /\ clock6 = 1 /\ events = 0 /\ network \in {"offline", "free"} /\ saver = FALSE /\ lowPower = FALSE
    /\ unhandled = {} /\ allowUpdates = TRUE /\ downloadUpdates \in BOOLEAN
    /\ updatable = {} /\ downloaded = {} /\ checkStamp = Never /\ notifyStamp = Never /\ lastNotification = Never
    /\ sentAt = Never /\ securityStamp = FALSE /\ hourly = FALSE /\ startup = TRUE
    /\ mjobs = [i \in MonitorJobs |-> NoJob]

-----------------------------------------------------------------------------
\* The world outside.
Tick6 == clock6 < MaxHalfDays /\ clock6' = clock6 + 1
         /\ UNCHANGED <<events, network, saver, lowPower, unhandled, allowUpdates, downloadUpdates,
                        stampVars, updateVars, timerVars, mjobs>>
EnvironmentChanges ==
    /\ events < MaxEvents /\ events' = events + 1
    /\ \/ /\ \E n \in {"offline", "metered", "free"} \ {network} : network' = n
          /\ unhandled' = unhandled \union {"network"} \union (IF "offline" \in {network, network'} THEN {"available"} ELSE {})
          /\ UNCHANGED <<saver, lowPower, allowUpdates>>
       \/ saver' = ~saver /\ unhandled' = unhandled \union {"saver"} /\ UNCHANGED <<network, lowPower, allowUpdates>>
       \/ lowPower' = ~lowPower /\ unhandled' = unhandled \union {"power"} /\ UNCHANGED <<network, saver, allowUpdates>>
       \/ allowUpdates' = ~allowUpdates /\ unhandled' = unhandled \union {"allow"} /\ UNCHANGED <<network, saver, lowPower>>
    /\ UNCHANGED <<clock6, downloadUpdates, stampVars, updateVars, timerVars, mjobs>>
UpdatesAppear ==
    /\ updatable # MonitorApps /\ \E a \in MonitorApps \ updatable : updatable' = updatable \union {a}
    /\ UNCHANGED <<downloaded, envVars, stampVars, timerVars, mjobs>>

\* The monitor starts again with the session: only the settings stay.
RestartMonitor ==
    /\ events < MaxEvents /\ events' = events + 1
    /\ lastNotification' = Never /\ hourly' = FALSE /\ startup' = TRUE /\ unhandled' = {}
    /\ mjobs' = [i \in MonitorJobs |-> NoJob]
    /\ UNCHANGED <<clock6, network, saver, lowPower, allowUpdates, downloadUpdates, updateVars,
                   checkStamp, notifyStamp, securityStamp, sentAt>>

-----------------------------------------------------------------------------
FreeJobs == {i \in MonitorJobs : mjobs[i].kind = "none"}

\* gs_plugin_loader_job_process_async(), of a job or of none.
Started(js, new) ==
    IF new = NoJob THEN js ELSE [js EXCEPT ![Min({i \in MonitorJobs : js[i].kind = "none"})] = new]

\* get_updates()
GetUpdates(asked) == IF allowUpdates THEN NewJob("updates", {}, asked) ELSE NoJob

ForbidsRefresh(n) == n = "offline" \/ (n = "metered" /\ ~RefreshWhenMetered)

\* Past 6am, and not on the day of the last refresh.
CheckDue == clock6 % 2 = 1 /\ (checkStamp = Never \/ Day(clock6) > Day(checkStamp))
RefreshAllowed == ~ForbidsRefresh(network) /\ ~lowPower /\ ~saver /\ CheckDue

CheckedAlways ==                        \* mutant: the power saver is not asked
    IF ~ForbidsRefresh(network) /\ ~lowPower /\ CheckDue THEN NewJob("refresh", {}, FALSE) ELSE NoJob
\* check_updates(), of the handlers below: a refresh, or the list of updates if
\* they are not to be downloaded.
CheckUpdates ==
    CASE ~RefreshAllowed -> NoJob
      [] RefreshAllowed /\ downloadUpdates -> NewJob("refresh", {}, FALSE)
      [] OTHER -> GetUpdates(FALSE)

Cancelled6(js, kinds) == [i \in MonitorJobs |-> IF js[i].kind \in kinds THEN [js[i] EXCEPT !.cancelled = TRUE] ELSE js[i]]

Handle(signal) ==
    /\ signal \in unhandled /\ unhandled' = unhandled \ {signal} /\ FreeJobs # {}
    /\ UNCHANGED <<clock6, events, network, saver, lowPower, allowUpdates, downloadUpdates, stampVars, updateVars, startup>>

\* gs_update_monitor_network_changed_cb()
NetworkChanged ==
    /\ Handle("network") /\ UNCHANGED hourly
    /\ mjobs' = IF network = "metered" /\ ~RefreshWhenMetered THEN Cancelled6(mjobs, Refreshing) ELSE Started(mjobs, CheckUpdates)

\* gs_update_monitor_power_profile_changed_cb()
PowerProfileChanged ==
    /\ Handle("saver") /\ UNCHANGED hourly
    /\ mjobs' = IF saver THEN Cancelled6(mjobs, Kinds \ {"none"}) ELSE Started(mjobs, CheckUpdates)

\* check_updates_upower_changed_cb(), network_available_notify_cb()
UpowerChanged == Handle("power") /\ UNCHANGED hourly /\ mjobs' = Started(mjobs, CheckUpdates)
NetworkAvailable == Handle("available") /\ UNCHANGED hourly /\ mjobs' = Started(mjobs, CheckUpdates)

\* allow_updates_notify_cb()
AllowUpdatesChanged ==
    /\ Handle("allow")
    /\ IF allowUpdates THEN hourly' = TRUE /\ mjobs' = Started(mjobs, CheckUpdates) ELSE UNCHANGED <<hourly, mjobs>>

\* check_updates_on_startup_cb() and check_hourly_cb()
TimerFires ==
    /\ (startup /\ startup' = FALSE) \/ (hourly /\ UNCHANGED startup)
    /\ FreeJobs # {}
    /\ hourly' = TRUE /\ mjobs' = Started(mjobs, CheckUpdates)
    /\ UNCHANGED <<envVars, stampVars, updateVars>>

\* gs_update_monitor_autoupdate(), of the user's action "autoupdate"
Autoupdate ==
    /\ FreeJobs # {} /\ events < MaxEvents /\ events' = events + 1
    /\ mjobs' = Started(mjobs, GetUpdates(TRUE))
    /\ UNCHANGED <<clock6, network, saver, lowPower, unhandled, allowUpdates, downloadUpdates, stampVars, updateVars, timerVars>>

-----------------------------------------------------------------------------
\* should_notify_about_pending_updates(), for apps # {}, of which those of ready
\* are downloaded.
DaysSince(stamp) == (clock6 - stamp) \div 2
ShouldNotify(apps, ready) ==
    LET after == CASE apps \intersect CriticalApps # {} -> 1
                   [] apps \intersect CriticalApps = {} /\ apps \subseteq ready -> ReadyDays
                   [] OTHER -> WaitingDays
    IN  /\ notifyStamp = Never \/ DaysSince(notifyStamp) >= after
        /\ apps \subseteq ready \/ apps \intersect CriticalApps # {} \/ ~downloadUpdates

\* notify_about_pending_updates(); the time of the process is told as well as
\* that of the settings.
Notifies(apps, ready) ==
    /\ apps # {} /\ ShouldNotify(apps, ready)
    /\ lastNotification = Never \/ DaysSince(lastNotification) >= 1
NotifyUnstamped(apps, ready) ==                \* mutant: reset_update_notification_timestamp() is not called
    IF Notifies(apps, ready) THEN lastNotification' = clock6 /\ sentAt' = clock6 /\ UNCHANGED notifyStamp
    ELSE UNCHANGED <<lastNotification, notifyStamp, sentAt>>
Notify(apps, ready) ==
    IF Notifies(apps, ready) THEN lastNotification' = clock6 /\ notifyStamp' = clock6 /\ sentAt' = clock6
    ELSE UNCHANGED <<lastNotification, notifyStamp, sentAt>>

\* The callbacks: a task whose cancellable is cancelled returns an error,
\* whatever the job has done.
Ends(i, kind) == mjobs[i].kind = kind /\ UNCHANGED <<envVars, timerVars>>
Without(i) == [mjobs EXCEPT ![i] = NoJob]
JobFails(i) ==
    /\ mjobs[i].kind # "none" /\ mjobs' = Without(i)
    /\ UNCHANGED <<envVars, stampVars, updateVars, timerVars>>
Succeeds(i, kind) == Ends(i, kind) /\ ~mjobs[i].cancelled

\* refresh_cache_finished_cb()
RefreshCacheFinished(i) ==
    /\ Succeeds(i, "refresh") /\ checkStamp' = clock6
    /\ mjobs' = Started(Without(i), GetUpdates(FALSE))
    /\ UNCHANGED <<notifyStamp, securityStamp, lastNotification, sentAt, updateVars>>

\* get_updates_finished_cb(): all is downloaded if the last update is old
\* (nobody knows here) or there is, or was, an urgent update to download.
GetUpdatesFinished(i) ==
    /\ Succeeds(i, "updates") /\ UNCHANGED <<checkStamp, updateVars>>
    /\ LET urgent == (updatable \intersect CriticalApps) \ downloaded # {}
           asked == mjobs[i].asked
           online == updatable \intersect LiveApps
       IN  /\ securityStamp' = IF updatable = {} THEN securityStamp ELSE urgent
           /\ \E old \in BOOLEAN :
                IF updatable = {}
                THEN mjobs' = Without(i) /\ UNCHANGED <<lastNotification, notifyStamp, sentAt>>
                ELSE IF downloadUpdates /\ (old \/ urgent \/ securityStamp)
                THEN /\ mjobs' = Started(Without(i), NewJob("download", updatable, asked))
                     /\ UNCHANGED <<lastNotification, notifyStamp, sentAt>>
                ELSE /\ mjobs' = Started(Without(i), IF downloadUpdates /\ online # {}
                                                     THEN NewJob("download", online, asked) ELSE NoJob)
                     /\ Notify(IF downloadUpdates THEN updatable \ LiveApps ELSE updatable, downloaded)

\* download_finished_cb(): what another chain has updated, or updates now, is
\* no longer UPDATABLE_LIVE and counts as an update for the next start.
DownloadFinished(i) ==
    /\ Succeeds(i, "download")
    /\ downloaded' = downloaded \union (mjobs[i].apps \intersect updatable)
    /\ \E installing \in SUBSET UNION {mjobs[j].apps : j \in {k \in MonitorJobs : mjobs[k].kind = "update"}} :
         LET online == (mjobs[i].apps \intersect LiveApps \intersect updatable) \ installing
         IN  /\ mjobs' = Started(Without(i), IF online # {} THEN NewJob("update", online, mjobs[i].asked) ELSE NoJob)
             /\ Notify(mjobs[i].apps \ online, downloaded \union mjobs[i].apps)
    /\ UNCHANGED <<updatable, checkStamp, securityStamp>>

UpdateFinished(i) ==
    /\ Succeeds(i, "update") /\ mjobs' = Without(i)
    /\ updatable' = updatable \ mjobs[i].apps /\ downloaded' = downloaded \ mjobs[i].apps
    /\ UNCHANGED stampVars

MonitorNext ==
    \/ Tick6 \/ EnvironmentChanges \/ UpdatesAppear \/ RestartMonitor
    \/ NetworkChanged \/ PowerProfileChanged \/ UpowerChanged \/ NetworkAvailable \/ AllowUpdatesChanged
    \/ TimerFires \/ Autoupdate
    \/ \E i \in MonitorJobs : \/ JobFails(i) \/ RefreshCacheFinished(i)
                              \/ GetUpdatesFinished(i) \/ DownloadFinished(i) \/ UpdateFinished(i)

MonitorSpec == MonitorInit /\ [][MonitorNext]_monitorVars

-----------------------------------------------------------------------------
(* What the jobs in flight have in common: only a chain the user asked for   *)
(* goes on in power saving mode, it does not begin with a refresh, and there *)
(* is none in a metered network, unless the setting allows it.               *)
Stopped == saver /\ "saver" \notin unhandled
Metered == network = "metered" /\ ~RefreshWhenMetered /\ "network" \notin unhandled
IsFit(job) ==
    /\ job.kind = "refresh" => ~job.asked
    /\ Stopped => job.kind = "none" \/ job.cancelled \/ job.asked
    /\ Metered => job.kind # "refresh" \/ job.cancelled
JobsFit == \A i \in MonitorJobs : IsFit(mjobs[i])
StampIsSent == notifyStamp = sentAt /\ sentAt <= clock6

Runs(i, kinds) == mjobs[i].kind \in kinds /\ ~mjobs[i].cancelled

\* "Cancel ongoing jobs, if we're now in power saving mode": none of the chain
\* goes on or is started again until it ends, but what the user has asked for.
SaverStopsTheChain ==
    saver /\ "saver" \notin unhandled =>
        \A i \in MonitorJobs : Runs(i, {"refresh", "updates", "download", "update"}) => mjobs[i].asked

\* "cancel an on-going refresh if we're now in a metered connection": none goes
\* on there, unless the setting lets it start again.
MeteredStopsRefresh ==
    network = "metered" /\ ~RefreshWhenMetered /\ "network" \notin unhandled => \A i \in MonitorJobs : ~Runs(i, {"refresh"})

\* However many chains run, and however often the session starts, the user is
\* notified of pending updates once a day (notify_about_pending_updates()).
NotifiedOncePerDay == [][sentAt' # sentAt => sentAt = Never \/ sentAt' - sentAt >= 2]_monitorVars

\* What the battery or the network forbids is stopped, in whichever of its jobs
\* a chain is.
MonitorInv == MonitorTypeOK /\ SaverStopsTheChain /\ MeteredStopsRefresh

(* With what makes it inductive: a chain goes on from a job that ended, so   *)
(* that a refresh, which nobody asked for, is not the beginning of one that  *)
(* somebody asked for; and the stamp in the settings is that of the last     *)
(* notification, which the restart of the session does not change.           *)
MonitorIInv == MonitorTypeOK /\ JobsFit /\ StampIsSent
=============================================================================
