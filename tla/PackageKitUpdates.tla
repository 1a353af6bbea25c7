-------------------------- MODULE PackageKitUpdates --------------------------
(***************************************************************************)
(* plugins/packagekit: offline updates.  PackageKit's daemon downloads the *)
(* updates and leaves the prepared-update file, the ids of the packages it *)
(* prepared; /system-update makes the next boot install them.  The plugin  *)
(* keeps a copy of both, which file monitors, refines and the threads of   *)
(* its jobs refresh, and has an update that was invalidated prepared again *)
(* some time later.                                                        *)
(***************************************************************************)
EXTENDS Naturals, Sequences

CONSTANTS
    PkUpdates,      \* the package ids of updates
    PkThreads,
    NoFile,
    MaxPkEvents     \* bound: what other programs and the user do

ASSUME PkAssumption == (\A updates \in SUBSET PkUpdates : NoFile # updates) /\ MaxPkEvents \in Nat

VARIABLES
    known,          \* the updates the daemon has
    prepFile,       \* the content of prepared-update
    prepNews,       \* the events of its monitor that wait for the main loop
    trigger,        \* /system-update exists
    triggerNews,    \* the event of its monitor
    pkEvents,       \* the number of events so far
    prepared,       \* self->prepared_updates
    autoTimer,      \* self->prepare_update_timeout_id is set
    wantsDownloads, \* the setting download-updates
    isTriggered,    \* self->is_triggered
    everRefreshed,  \* history: it was read from the file in this session
    overtakenRead,  \* history: what a thread read of the file was old when it stored it
    size,           \* the download size of the GsApp of each update that was listed
    report,         \* updates-changed was reported and the updates not listed since
    listed,         \* the updates the last list was answered with
    pkJobs,         \* what each thread does
    refineCall      \* a refine that waits for the details of its list
daemonVars == <<known, prepFile, prepNews>>
bootVars == <<trigger, triggerNews, isTriggered, everRefreshed, overtakenRead>>
settingVars == <<pkEvents, wantsDownloads>>
cacheVars == <<prepared, autoTimer>>
shownPkVars == <<size, report, listed>>
pkVars == <<daemonVars, bootVars, settingVars, cacheVars, shownPkVars, pkJobs, refineCall>>

Prepares == {"prepare", "download"}
PkJob == [kind : {"idle", "list", "prepare", "download", "update", "cancel"},
          at : {"start", "check", "get", "run", "mark", "read", "write", "call", "query", "store"},
          list : SUBSET PkUpdates,      \* the apps of the job
          got : SUBSET PkUpdates,       \* the package ids the thread has read or asked for
          saw : BOOLEAN,                \* /system-update was there
          cancelled : BOOLEAN]
NoPkJob == [kind |-> "idle", at |-> "start", list |-> {}, got |-> {}, saw |-> FALSE, cancelled |-> FALSE]

PkTypeOK ==
    /\ known \subseteq PkUpdates /\ prepared \subseteq PkUpdates
    /\ prepFile \in {NoFile} \union SUBSET PkUpdates
    /\ \A i \in DOMAIN prepNews : prepNews[i] \in {"deleted", "written"}
    /\ pkEvents \in 0..MaxPkEvents
    /\ {trigger, triggerNews, isTriggered, everRefreshed, overtakenRead, autoTimer, wantsDownloads, report} \subseteq BOOLEAN
    /\ listed \subseteq PkUpdates /\ size \in [PkUpdates -> {"unlisted", "unknown", "some", "zero"}]
    /\ pkJobs \in [PkThreads -> PkJob]
    /\ refineCall \in [at : {"idle", "asked", "done"}, list : SUBSET PkUpdates, sure : SUBSET PkUpdates]

\* The end of gs_plugin_packagekit_setup_async(): the monitors are connected
\* and prepared-update was read; nobody looks at /system-update.
PkInit ==
    /\ known \in SUBSET PkUpdates /\ prepFile \in {NoFile, known} \ {{}}
    /\ prepared = (IF prepFile = NoFile THEN {} ELSE prepFile)
    /\ prepNews = <<>> /\ pkEvents = 0
    /\ trigger \in BOOLEAN /\ (trigger => prepFile # NoFile)
    /\ triggerNews = FALSE /\ isTriggered = FALSE /\ everRefreshed = FALSE /\ overtakenRead = FALSE
    /\ autoTimer = FALSE /\ wantsDownloads \in BOOLEAN
    /\ size = [u \in PkUpdates |-> "unlisted"] /\ report = TRUE /\ listed = {}
    /\ pkJobs = [t \in PkThreads |-> NoPkJob]
    /\ refineCall = [at |-> "idle", list |-> {}, sure |-> {}]

PkGoes(t, job) == pkJobs' = [pkJobs EXCEPT ![t] = job]
PkEnds(t) == PkGoes(t, NoPkJob)
Free(t) == pkJobs[t].kind = "idle"
Does(t, kinds, at) == pkJobs[t].kind \in kinds /\ pkJobs[t].at \in at

\* /system-update is made or removed, which its monitor notices.
TriggerBecomes(b) ==
    /\ trigger' = b /\ triggerNews' = (triggerNews \/ b # trigger)
-----------------------------------------------------------------------------
\* The daemon and other programs.

\* The daemon finds other updates than before, drops what it had prepared for
\* the old ones, and says so (gs_plugin_packagekit_updates_changed_cb()).
UpdatesChange ==
    /\ pkEvents < MaxPkEvents /\ pkEvents' = pkEvents + 1
    /\ \E newKnown \in SUBSET PkUpdates : newKnown # known /\ known' = newKnown
    /\ prepFile' = NoFile /\ prepNews' = (IF prepFile = NoFile THEN prepNews ELSE Append(prepNews, "deleted"))
    /\ TriggerBecomes(FALSE)
    /\ report' = TRUE
    /\ UNCHANGED <<cacheVars, isTriggered, everRefreshed, overtakenRead, wantsDownloads, size, listed,
                   pkJobs, refineCall>>

\* Another client of the daemon invalidates the prepared update, prepares it,
\* or sets or removes the trigger.
OtherClient ==
    /\ pkEvents < MaxPkEvents /\ pkEvents' = pkEvents + 1
    /\ \/ prepFile # NoFile /\ prepFile' = NoFile /\ prepNews' = Append(prepNews, "deleted")
          /\ TriggerBecomes(FALSE)
       \/ known # {} /\ prepFile' = known /\ prepNews' = Append(prepNews, "written")
          /\ UNCHANGED <<trigger, triggerNews>>
       \/ prepFile # NoFile /\ TriggerBecomes(~trigger) /\ UNCHANGED <<prepFile, prepNews>>
    /\ UNCHANGED <<cacheVars, shownPkVars, known, isTriggered, everRefreshed, overtakenRead, wantsDownloads, pkJobs,
                   refineCall>>

\* The user turns automatic downloads on or off.
SettingChanges ==
    /\ pkEvents < MaxPkEvents /\ pkEvents' = pkEvents + 1
    /\ wantsDownloads' = ~wantsDownloads
    /\ UNCHANGED <<daemonVars, bootVars, cacheVars, shownPkVars, refineCall, pkJobs>>

\* gs_plugin_packagekit_proxy_changed_cb() cancels the reload of the settings
\* before, and with the same cancellable an automatic preparation.
ProxyChanged ==
    /\ pkEvents < MaxPkEvents /\ pkEvents' = pkEvents + 1
    /\ pkJobs' = [t \in PkThreads |-> IF pkJobs[t].kind = "prepare" THEN [pkJobs[t] EXCEPT !.cancelled = TRUE]
                                      ELSE pkJobs[t]]
    /\ UNCHANGED <<daemonVars, bootVars, cacheVars, shownPkVars, wantsDownloads, refineCall>>
-----------------------------------------------------------------------------
\* The main thread.

\* gs_plugin_systemd_update_cache(): without the file the ids stay.
CacheOf(file) == IF file = NoFile THEN prepared ELSE file

\* gs_plugin_packagekit_prepared_update_changed_cb()
PreparedChanged ==
    /\ prepNews # <<>> /\ prepNews' = Tail(prepNews)
    /\ autoTimer' = (Head(prepNews) = "deleted" /\ wantsDownloads)
    /\ prepared' = CacheOf(prepFile)
    /\ report' = TRUE
    /\ UNCHANGED <<bootVars, settingVars, known, prepFile, size, listed, pkJobs, refineCall>>

\* gs_plugin_packagekit_run_prepare_update_cb()
RunPrepareUpdate(t) ==
    /\ autoTimer /\ Free(t)
    /\ autoTimer' = FALSE
    /\ PkGoes(t, [NoPkJob EXCEPT !.kind = "prepare"])
    /\ UNCHANGED <<daemonVars, bootVars, settingVars, shownPkVars, prepared, refineCall>>

\* gs_plugin_systemd_trigger_changed_cb()
TriggerChanged ==
    /\ triggerNews /\ triggerNews' = FALSE
    /\ isTriggered' = trigger /\ everRefreshed' = TRUE /\ overtakenRead' = FALSE
    /\ UNCHANGED <<daemonVars, settingVars, cacheVars, shownPkVars, trigger, refineCall, pkJobs>>

\* gs_plugin_packagekit_refine_async() with REQUIRE_SIZE reads the file first
\* and asks for the details of the apps without a size.
RefineSizes ==
    /\ refineCall.at = "idle"
    /\ LET list == {u \in PkUpdates : size[u] = "unknown"}
       IN  list # {} /\ refineCall' = [at |-> "asked", list |-> list, sure |-> {}]
    /\ prepared' = CacheOf(prepFile)
    /\ UNCHANGED <<daemonVars, bootVars, settingVars, shownPkVars, autoTimer, pkJobs>>

\* get_details_cb(), gs_plugin_packagekit_refine_details_app(): what is
\* prepared has nothing to download, and a size of nothing is not set.
Sized(u) == IF u \in refineCall.list /\ size[u] = "unknown" /\ u \notin prepared THEN "some" ELSE size[u]
GetDetails ==
    /\ refineCall.at = "asked"
    /\ \/ size' = [u \in PkUpdates |-> Sized(u)]
          /\ refineCall' = [at |-> "done", list |-> {}, sure |-> refineCall.list \intersect prepared]
       \/ refineCall' = [at |-> "idle", list |-> {}, sure |-> {}] /\ UNCHANGED size
    /\ UNCHANGED <<daemonVars, bootVars, settingVars, cacheVars, report, listed, pkJobs>>

\* refine_data_free()
RefineReturns ==
    /\ refineCall.at = "done" /\ refineCall' = [at |-> "idle", list |-> {}, sure |-> {}]
    /\ UNCHANGED <<daemonVars, bootVars, settingVars, cacheVars, shownPkVars, pkJobs>>

\* The loader starts a job: a list of the updates once they were reported, a
\* download of some that were listed, an update of these or its cancel.
StartPkJob(t) ==
    /\ Free(t)
    /\ \/ report /\ report' = FALSE /\ PkGoes(t, [NoPkJob EXCEPT !.kind = "list"]) /\ UNCHANGED pkEvents
       \/ /\ listed # {} /\ pkEvents < MaxPkEvents /\ pkEvents' = pkEvents + 1 /\ UNCHANGED report
          /\ \/ PkGoes(t, [NoPkJob EXCEPT !.kind = "download", !.at = "get", !.list = listed])
             \/ PkGoes(t, [NoPkJob EXCEPT !.kind = "update", !.list = listed])
             \/ \E u \in listed : PkGoes(t, [NoPkJob EXCEPT !.kind = "cancel", !.list = {u}])
    /\ UNCHANGED <<daemonVars, bootVars, cacheVars, wantsDownloads, size, listed, refineCall>>
-----------------------------------------------------------------------------
\* The threads.  A call of the daemon may fail, and does for one that was
\* cancelled.
PkMay(t) == ~pkJobs[t].cancelled
PkCallFails(t) ==
    /\ \/ Does(t, Prepares, {"start", "get", "run"}) /\ UNCHANGED listed
       \/ Does(t, {"list"}, {"start"}) /\ listed' = {}
       \/ Does(t, {"update", "cancel"}, {"call"}) /\ UNCHANGED listed
    /\ PkEnds(t)
    /\ UNCHANGED <<daemonVars, bootVars, settingVars, cacheVars, size, report, refineCall>>

\* The end of gs_plugin_packagekit_add_updates(): a list is answered, a
\* preparation goes on if there is something to download.
ListedUpdates(t, list) ==
    IF pkJobs[t].kind = "list" THEN listed' = list /\ PkEnds(t)
    ELSE /\ PkGoes(t, [pkJobs[t] EXCEPT !.at = IF list = {} THEN "read" ELSE "get", !.list = list])
         /\ UNCHANGED listed

\* It gets the updates from the daemon, with a new app for each that has none.
AddUpdates(t) ==
    /\ Does(t, {"list", "prepare"}, {"start"}) /\ PkMay(t)
    /\ size' = [u \in PkUpdates |-> IF u \in known /\ size[u] = "unlisted" THEN "unknown" ELSE size[u]]
    /\ IF known # {} /\ \A u \in known : size[u] = "zero"
       THEN PkGoes(t, [pkJobs[t] EXCEPT !.at = "check", !.list = known]) /\ UNCHANGED listed
       ELSE ListedUpdates(t, known)
    /\ UNCHANGED <<daemonVars, bootVars, settingVars, cacheVars, report, refineCall>>

CheckCopy(t) ==                 \* mutant: it trusts self->prepared_updates
    /\ pkJobs[t].at = "check"
    /\ IF prepared = {} THEN \E u \in pkJobs[t].list : size' = [size EXCEPT ![u] = "some"] ELSE UNCHANGED size
    /\ ListedUpdates(t, pkJobs[t].list)
    /\ UNCHANGED <<daemonVars, bootVars, settingVars, cacheVars, report, refineCall>>
\* All were downloaded: if nothing is prepared the first needs a download again.
CheckPrepared(t) ==
    /\ pkJobs[t].at = "check"
    /\ IF prepFile = NoFile THEN \E u \in pkJobs[t].list : size' = [size EXCEPT ![u] = "some"] ELSE UNCHANGED size
    /\ ListedUpdates(t, pkJobs[t].list)
    /\ UNCHANGED <<daemonVars, bootVars, settingVars, cacheVars, report, refineCall>>

\* _download_only() asks for the updates again; without any it is done.
GetToDownload(t) ==
    /\ Does(t, Prepares, {"get"}) /\ PkMay(t)
    /\ IF known # {} THEN PkGoes(t, [pkJobs[t] EXCEPT !.at = "run", !.got = known]) /\ UNCHANGED report
       ELSE /\ report' = TRUE
            /\ PkGoes(t, IF pkJobs[t].kind = "prepare" THEN [pkJobs[t] EXCEPT !.at = "read", !.list = {}] ELSE NoPkJob)
    /\ UNCHANGED <<daemonVars, bootVars, settingVars, cacheVars, size, listed, refineCall>>

\* The daemon downloads the packages and writes the file, or answers with an
\* error in its results, which nobody looks at.
DownloadRuns(t) ==
    /\ pkJobs[t].at = "run" /\ PkMay(t)
    /\ \/ /\ pkJobs[t].got \subseteq known
          /\ prepFile' = pkJobs[t].got /\ prepNews' = Append(prepNews, "written")
       \/ UNCHANGED <<prepFile, prepNews>>
    /\ PkGoes(t, [pkJobs[t] EXCEPT !.at = "mark", !.got = {}])
    /\ UNCHANGED <<bootVars, settingVars, cacheVars, shownPkVars, known, refineCall>>

\* The rest of gs_plugin_packagekit_download(): the apps have nothing to
\* download any more, unless the job was cancelled meanwhile.
MarkDownloaded(t) ==
    /\ pkJobs[t].at = "mark"
    /\ IF PkMay(t)
       THEN /\ size' = [u \in PkUpdates |-> IF u \in pkJobs[t].list THEN "zero" ELSE size[u]]
            /\ report' = TRUE
            /\ PkGoes(t, IF pkJobs[t].kind = "prepare" THEN [pkJobs[t] EXCEPT !.at = "read", !.list = {}] ELSE NoPkJob)
       ELSE PkEnds(t) /\ UNCHANGED <<size, report>>
    /\ UNCHANGED <<daemonVars, bootVars, settingVars, cacheVars, listed, refineCall>>

\* gs_plugin_packagekit_auto_prepare_update_thread() reads the file and takes
\* the lock afterwards; its callback reports, unless the job was cancelled.
PrepareEnds(t) == report' = (report \/ PkMay(t)) /\ PkEnds(t)
ReadPrepared(t) ==
    /\ pkJobs[t].at = "read"
    /\ IF prepFile = NoFile THEN PrepareEnds(t)
       ELSE PkGoes(t, [pkJobs[t] EXCEPT !.at = "write", !.got = prepFile]) /\ UNCHANGED report
    /\ UNCHANGED <<daemonVars, bootVars, settingVars, cacheVars, size, listed, refineCall>>

WritePrepared(t) ==
    /\ pkJobs[t].at = "write"
    /\ prepared' = pkJobs[t].got /\ PrepareEnds(t)
    /\ UNCHANGED <<daemonVars, bootVars, settingVars, autoTimer, size, listed, refineCall>>

\* gs_plugin_update() goes on to the next of its apps; a cancel has one.
AppDone(t) ==
    \E u \in pkJobs[t].list :
        PkGoes(t, IF pkJobs[t].list = {u} THEN NoPkJob
                  ELSE [pkJobs[t] EXCEPT !.at = "start", !.list = @ \ {u}, !.saw = FALSE])

\* _systemd_trigger_app() and gs_plugin_update_cancel(): nothing to do for what
\* the plugin takes for the state of the trigger.
LookAtTrigger(t) ==
    /\ Does(t, {"update", "cancel"}, {"start"})
    /\ IF isTriggered = (pkJobs[t].kind = "update") THEN AppDone(t) ELSE PkGoes(t, [pkJobs[t] EXCEPT !.at = "call"])
    /\ UNCHANGED <<daemonVars, bootVars, settingVars, cacheVars, shownPkVars, refineCall>>

\* The daemon triggers only what is prepared.
CallTrigger(t) ==
    /\ pkJobs[t].at = "call" /\ (pkJobs[t].kind = "update" => prepFile # NoFile)
    /\ TriggerBecomes(pkJobs[t].kind = "update")
    /\ PkGoes(t, [pkJobs[t] EXCEPT !.at = "query"])
    /\ UNCHANGED <<daemonVars, settingVars, cacheVars, shownPkVars, isTriggered, everRefreshed, overtakenRead,
                   refineCall>>

\* gs_plugin_packagekit_refresh_is_triggered() of the thread, in two steps.
QueryTrigger(t) ==
    /\ pkJobs[t].at = "query"
    /\ PkGoes(t, [pkJobs[t] EXCEPT !.at = "store", !.saw = trigger])
    /\ UNCHANGED <<daemonVars, bootVars, settingVars, cacheVars, shownPkVars, refineCall>>

StoreTrigger(t) ==
    /\ pkJobs[t].at = "store"
    /\ isTriggered' = pkJobs[t].saw /\ everRefreshed' = TRUE
    /\ overtakenRead' = (pkJobs[t].saw # trigger)
    /\ AppDone(t)
    /\ UNCHANGED <<daemonVars, settingVars, cacheVars, shownPkVars, trigger, triggerNews, refineCall>>
-----------------------------------------------------------------------------
PkThreadStep(t) ==
    \/ PkCallFails(t) \/ AddUpdates(t) \/ CheckPrepared(t) \/ GetToDownload(t) \/ DownloadRuns(t) \/ MarkDownloaded(t)
    \/ ReadPrepared(t) \/ WritePrepared(t) \/ LookAtTrigger(t) \/ CallTrigger(t) \/ QueryTrigger(t) \/ StoreTrigger(t)

PkMainStep ==
    \/ PreparedChanged \/ TriggerChanged \/ RefineSizes \/ GetDetails \/ RefineReturns
    \/ \E t \in PkThreads : RunPrepareUpdate(t) \/ StartPkJob(t)

PkNext ==
    \/ UpdatesChange \/ OtherClient \/ SettingChanges \/ ProxyChanged \/ PkMainStep
    \/ \E t \in PkThreads : PkThreadStep(t)

PkSpec == PkInit /\ [][PkNext]_pkVars
-----------------------------------------------------------------------------
\* Nothing is under way that will look at the files again.
PkQuiet == prepNews = <<>> /\ ~triggerNews /\ ~report /\ \A t \in PkThreads : Free(t)

\* When all has settled and nothing is prepared, at least one of the updates is
\* shown as one to download: otherwise the Updates page would offer a restart
\* that installs nothing (gs_plugin_packagekit_add_updates(), and the reports
\* of the monitor, of the daemon and of every download).
OffersDownload ==
    PkQuiet /\ listed # {} /\ prepFile = NoFile => \E u \in listed : size[u] # "zero"

\* The timer that prepares an update again does not wait while one is prepared.
TimerOnlyWithoutFile == prepNews = <<>> /\ autoTimer => prepFile = NoFile

\* When all has settled the plugin knows whether the trigger is set, unless it
\* never looked or stored a look that was overtaken.
TriggerIsKnown ==
    PkQuiet /\ everRefreshed /\ ~overtakenRead => isTriggered = trigger

(* What makes them inductive.  The events of the monitor end with what the   *)
(* file is; the last list was answered while it offered a download, or       *)
(* another is due; what the plugin knows of the trigger is right, or the     *)
(* monitor has news.                                                         *)
NewsInv ==
    /\ prepNews \in Seq({"deleted", "written"})
    /\ prepNews # <<>> => (prepNews[Len(prepNews)] = "deleted" <=> prepFile = NoFile)
    /\ TimerOnlyWithoutFile
ListDue == report \/ prepNews # <<>> \/ \E t \in PkThreads : pkJobs[t].kind = "list"
OfferInv == ListDue \/ listed = {} \/ prepFile # NoFile \/ \E u \in listed : size[u] # "zero"
TriggerInv == everRefreshed /\ ~overtakenRead => triggerNews \/ isTriggered = trigger
ListStages == \A t \in PkThreads : pkJobs[t].kind = "list" => pkJobs[t].at \in {"start", "check"}
PkIInv == PkTypeOK /\ NewsInv /\ ListStages /\ OfferInv /\ TriggerInv

PkInv == PkTypeOK /\ OffersDownload /\ TimerOnlyWithoutFile /\ TriggerIsKnown

\* An update that is in the prepared-update file has nothing to download once
\* it was refined ("so we know what packages to mark as already downloaded").
PreparedHasZeroSize == \A u \in refineCall.sure : size[u] = "zero"
=============================================================================
