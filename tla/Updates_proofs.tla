--------------------------- MODULE Updates_proofs ---------------------------
(***************************************************************************)
(* Proofs about what runs unasked: the update monitor notifies of updates  *)
(* once a day at most and its jobs end as it disables itself, for any      *)
(* number of jobs, days and events, and the offline updates of PackageKit  *)
(* are announced with the files that say so, for any set of updates and    *)
(* any number of threads.                                                  *)
(***************************************************************************)
EXTENDS UpdateMonitor, PackageKitUpdates, Integers, SequenceTheorems, TLAPS

(* ---- The update monitor ---- *)
MonitorJob == [kind : Kinds, apps : SUBSET MonitorApps, cancelled : BOOLEAN, asked : BOOLEAN]
JobTypes == mjobs \in [MonitorJobs -> MonitorJob]
OtherTypes ==
    /\ clock6 \in 1..MaxHalfDays /\ events \in 0..MaxEvents
    /\ network \in {"offline", "metered", "free"} /\ unhandled \subseteq {"network", "saver", "power", "available", "allow"}
    /\ saver \in BOOLEAN /\ lowPower \in BOOLEAN /\ allowUpdates \in BOOLEAN /\ downloadUpdates \in BOOLEAN
    /\ hourly \in BOOLEAN /\ startup \in BOOLEAN /\ securityStamp \in BOOLEAN
    /\ downloaded \subseteq updatable /\ updatable \subseteq MonitorApps
    /\ checkStamp \in 0..MaxHalfDays /\ notifyStamp \in 0..MaxHalfDays
    /\ lastNotification \in 0..MaxHalfDays /\ sentAt \in 0..MaxHalfDays

LEMMA MonitorTypes == (MonitorTypeOK <=> OtherTypes /\ JobTypes) /\ (MonitorTypeOK' <=> OtherTypes' /\ JobTypes')
BY DEF MonitorTypeOK, OtherTypes, JobTypes, MonitorJob

(* The jobs there may be.                                                    *)
LEMMA NoJobIsOne == NoJob \in MonitorJob /\ IsFit(NoJob)
BY DEF NoJob, MonitorJob, Kinds, IsFit

LEMMA NewJobIsOne ==
    ASSUME NEW kind \in Kinds, NEW apps \in SUBSET MonitorApps, NEW asked \in BOOLEAN
    PROVE  NewJob(kind, apps, asked) \in MonitorJob
BY DEF NewJob, MonitorJob

(* A job is started in the place of at most one.                             *)
LEMMA StartedOne ==
    ASSUME NEW js \in [MonitorJobs -> MonitorJob], NEW new \in MonitorJob
    PROVE  /\ Started(js, new) \in [MonitorJobs -> MonitorJob]
           /\ \A i \in MonitorJobs : Started(js, new)[i] = js[i] \/ Started(js, new)[i] = new
<1>1. CASE new = NoJob
  BY <1>1 DEF Started
<1>2. CASE new # NoJob
  <2> DEFINE m == Min({i \in MonitorJobs : js[i].kind = "none"})
  <2>1. Started(js, new) = [js EXCEPT ![m] = new]
    BY <1>2 DEF Started
  <2> HIDE DEF m
  <2> QED
    BY <2>1
<1> QED
  BY <1>1, <1>2

LEMMA WithoutOne ==
    ASSUME JobTypes, NEW i \in MonitorJobs
    PROVE  /\ Without(i) \in [MonitorJobs -> MonitorJob]
           /\ \A j \in MonitorJobs : Without(i)[j] = mjobs[j] \/ Without(i)[j] = NoJob
BY NoJobIsOne DEF JobTypes, Without

LEMMA CancelledSome ==
    ASSUME JobTypes, NEW kinds
    PROVE  /\ Cancelled6(mjobs, kinds) \in [MonitorJobs -> MonitorJob]
           /\ \A i \in MonitorJobs : /\ Cancelled6(mjobs, kinds)[i].kind = mjobs[i].kind
                                     /\ Cancelled6(mjobs, kinds)[i].asked = mjobs[i].asked
                                     /\ mjobs[i].kind \in kinds => Cancelled6(mjobs, kinds)[i].cancelled
                                     /\ mjobs[i].kind \notin kinds => Cancelled6(mjobs, kinds)[i] = mjobs[i]
BY DEF JobTypes, MonitorJob, Cancelled6

(* What check_updates() and get_updates() start.                             *)
LEMMA ChecksWhat ==
    /\ CheckUpdates \in MonitorJob
    /\ CheckUpdates # NoJob => /\ ~ForbidsRefresh(network) /\ ~saver
                               /\ CheckUpdates.asked = FALSE
<1>1. NewJob("refresh", {}, FALSE) \in MonitorJob /\ NewJob("updates", {}, FALSE) \in MonitorJob
  BY NewJobIsOne DEF Kinds
<1>2. NewJob("refresh", {}, FALSE).asked = FALSE /\ NewJob("updates", {}, FALSE).asked = FALSE
  BY DEF NewJob
<1> QED
  BY <1>1, <1>2, NoJobIsOne DEF CheckUpdates, GetUpdates, RefreshAllowed

LEMMA GetsWhat ==
    ASSUME NEW asked \in BOOLEAN
    PROVE  /\ GetUpdates(asked) \in MonitorJob
           /\ GetUpdates(asked) = NoJob \/ (GetUpdates(asked).kind = "updates" /\ GetUpdates(asked).asked = asked)
<1>1. NewJob("updates", {}, asked) \in MonitorJob
  BY NewJobIsOne DEF Kinds
<1> QED
  BY <1>1, NoJobIsOne DEF GetUpdates, NewJob

(* A step that starts a job which fits keeps the others.                     *)
LEMMA FitsStarted ==
    ASSUME NEW js \in [MonitorJobs -> MonitorJob], NEW new \in MonitorJob, JobTypes,
           \A i \in MonitorJobs : js[i] = mjobs[i] \/ js[i] = NoJob,
           mjobs' = Started(js, new)
    PROVE  JobTypes' /\ \A i \in MonitorJobs : mjobs'[i] = mjobs[i] \/ mjobs'[i] = NoJob \/ mjobs'[i] = new
BY StartedOne DEF JobTypes

LEMMA FitsStay ==
    ASSUME JobsFit, NEW new, new.kind = "refresh" => ~new.asked,
           Stopped' => Stopped /\ (new.kind = "none" \/ new.cancelled \/ new.asked),
           Metered' => Metered /\ (new.kind # "refresh" \/ new.cancelled),
           \A i \in MonitorJobs : mjobs'[i] = mjobs[i] \/ mjobs'[i] = NoJob \/ mjobs'[i] = new
    PROVE  JobsFit'
<1> SUFFICES ASSUME NEW i \in MonitorJobs PROVE IsFit(mjobs[i])'
  BY DEF JobsFit
<1>1. CASE mjobs'[i] = mjobs[i]
  BY <1>1 DEF JobsFit, IsFit
<1>2. CASE mjobs'[i] = NoJob
  BY <1>2 DEF NoJob, IsFit
<1>3. CASE mjobs'[i] = new
  BY <1>3 DEF IsFit
<1> QED
  BY <1>1, <1>2, <1>3

(* check_updates(), in a step after which no more is handled than before     *)
(* that speaks against the jobs there are.                                   *)
LEMMA ChecksFit ==
    ASSUME JobTypes, JobsFit, Stopped' => Stopped, Metered' => Metered, saver' = saver, network' = network,
           mjobs' = Started(mjobs, CheckUpdates)
    PROVE  JobTypes' /\ JobsFit'
<1>1. JobTypes' /\ \A i \in MonitorJobs : mjobs'[i] = mjobs[i] \/ mjobs'[i] = NoJob \/ mjobs'[i] = CheckUpdates
  BY ChecksWhat, FitsStarted DEF JobTypes
<1>2. CASE CheckUpdates = NoJob
  <2>1. NoJob.kind = "none"
    BY DEF NoJob
  <2> QED
    BY <1>1, <1>2, <2>1, FitsStay
<1>3. CASE CheckUpdates # NoJob
  <2>1. ~Stopped' /\ ~Metered' /\ CheckUpdates.asked = FALSE
    BY <1>3, ChecksWhat DEF Stopped, Metered, ForbidsRefresh
  <2> QED
    BY <1>1, <2>1, FitsStay
<1> QED
  BY <1>2, <1>3

LEMMA CancelsFit ==
    ASSUME JobTypes, JobsFit, NEW kinds, mjobs' = Cancelled6(mjobs, kinds),
           Stopped' => Stopped \/ Kinds \ {"none"} \subseteq kinds,
           Metered' => Metered \/ "refresh" \in kinds
    PROVE  JobTypes' /\ JobsFit'
<1>1. JobTypes'
  BY CancelledSome DEF JobTypes
<1>2. ASSUME NEW i \in MonitorJobs PROVE IsFit(mjobs[i])'
  <2>1. mjobs'[i].kind = mjobs[i].kind /\ mjobs'[i].asked = mjobs[i].asked
        /\ (mjobs[i].kind \in kinds => mjobs'[i].cancelled) /\ (mjobs[i].kind \notin kinds => mjobs'[i] = mjobs[i])
    BY CancelledSome
  <2>2. mjobs[i].kind \in Kinds /\ IsFit(mjobs[i])
    BY DEF JobTypes, MonitorJob, JobsFit
  <2> QED
    BY <2>1, <2>2 DEF IsFit
<1> QED
  BY <1>1, <1>2 DEF JobsFit

(* The handlers of what has changed, and the timers.                         *)
LEMMA HandlersFit ==
    ASSUME MonitorTypeOK, JobsFit,
           NetworkChanged \/ PowerProfileChanged \/ UpowerChanged \/ NetworkAvailable \/ AllowUpdatesChanged
           \/ TimerFires \/ Autoupdate
    PROVE  JobTypes' /\ JobsFit'
<1>0. JobTypes /\ saver' = saver /\ network' = network
  BY MonitorTypes
  DEF NetworkChanged, PowerProfileChanged, UpowerChanged, NetworkAvailable, AllowUpdatesChanged, TimerFires, Autoupdate, Handle, envVars
<1>1. CASE UpowerChanged \/ NetworkAvailable \/ AllowUpdatesChanged \/ TimerFires
  <2>1. (Stopped' => Stopped) /\ (Metered' => Metered)
    BY <1>1, <1>0 DEF UpowerChanged, NetworkAvailable, AllowUpdatesChanged, TimerFires, Handle, Stopped, Metered, envVars
  <2>2. mjobs' = Started(mjobs, CheckUpdates) \/ mjobs' = mjobs
    BY <1>1 DEF UpowerChanged, NetworkAvailable, AllowUpdatesChanged, TimerFires
  <2>3. CASE mjobs' = Started(mjobs, CheckUpdates)
    BY <1>0, <2>1, <2>3, ChecksFit
  <2>4. CASE mjobs' = mjobs
    <3>1. JobTypes'
      BY <1>0, <2>4 DEF JobTypes
    <3>2. JobsFit'
      BY <2>1, <2>4 DEF JobsFit, IsFit
    <3> QED
      BY <3>1, <3>2
  <2> QED
    BY <2>2, <2>3, <2>4
<1>2. CASE NetworkChanged
  <2>1. Stopped' => Stopped
    BY <1>2, <1>0 DEF NetworkChanged, Handle, Stopped
  <2>2. CASE network = "metered" /\ ~RefreshWhenMetered
    <3>1. mjobs' = Cancelled6(mjobs, Refreshing) /\ "refresh" \in Refreshing
      BY <1>2, <2>2 DEF NetworkChanged, Refreshing
    <3> QED
      BY <1>0, <2>1, <3>1, CancelsFit
  <2>3. CASE network # "metered" \/ RefreshWhenMetered
    <3>1. mjobs' = Started(mjobs, CheckUpdates) /\ ~Metered'
      BY <1>2, <1>0, <2>3 DEF NetworkChanged, Metered
    <3> QED
      BY <1>0, <2>1, <3>1, ChecksFit
  <2> QED
    BY <2>2, <2>3
<1>3. CASE PowerProfileChanged
  <2>1. Metered' => Metered
    BY <1>3, <1>0 DEF PowerProfileChanged, Handle, Metered
  <2>2. CASE saver
    <3>1. mjobs' = Cancelled6(mjobs, Kinds \ {"none"})
      BY <1>3, <2>2 DEF PowerProfileChanged
    <3> QED
      BY <1>0, <2>1, <3>1, CancelsFit
  <2>3. CASE ~saver
    <3>1. mjobs' = Started(mjobs, CheckUpdates) /\ ~Stopped'
      BY <1>3, <1>0, <2>3 DEF PowerProfileChanged, Stopped
    <3> QED
      BY <1>0, <2>1, <3>1, ChecksFit
  <2> QED
    BY <2>2, <2>3
<1>4. CASE Autoupdate
  <2>1. (Stopped' => Stopped) /\ (Metered' => Metered) /\ mjobs' = Started(mjobs, GetUpdates(TRUE))
    BY <1>4 DEF Autoupdate, Stopped, Metered
  <2>2. GetUpdates(TRUE) \in MonitorJob
        /\ (GetUpdates(TRUE) = NoJob \/ (GetUpdates(TRUE).kind = "updates" /\ GetUpdates(TRUE).asked = TRUE))
    BY GetsWhat
  <2>3. JobTypes' /\ \A i \in MonitorJobs : mjobs'[i] = mjobs[i] \/ mjobs'[i] = NoJob \/ mjobs'[i] = GetUpdates(TRUE)
    BY <1>0, <2>1, <2>2, FitsStarted DEF JobTypes
  <2>4. NoJob.kind = "none"
    BY DEF NoJob
  <2> QED
    BY <2>1, <2>2, <2>3, <2>4, FitsStay
<1> QED
  BY <1>1, <1>2, <1>3, <1>4

(* The ends of the jobs: what one of them starts was asked for if it was.    *)
LEMMA ChainFits ==
    ASSUME JobTypes, JobsFit, NEW i \in MonitorJobs, NEW new \in MonitorJob,
           mjobs[i].kind # "none", ~mjobs[i].cancelled, UNCHANGED envVars,
           new = NoJob \/ (new.kind # "refresh" /\ (new.asked \/ ~mjobs[i].asked)),
           mjobs' = Started(Without(i), new)
    PROVE  JobTypes' /\ JobsFit'
<1>1. (Stopped' => Stopped) /\ (Metered' => Metered)
  BY DEF Stopped, Metered, envVars
<1>2. JobTypes' /\ \A j \in MonitorJobs : mjobs'[j] = mjobs[j] \/ mjobs'[j] = NoJob \/ mjobs'[j] = new
  BY WithoutOne, FitsStarted
<1>3. Stopped => mjobs[i].asked
  BY DEF JobsFit, IsFit
<1>4. NoJob.kind = "none"
  BY DEF NoJob
<1> QED
  BY <1>1, <1>2, <1>3, <1>4, FitsStay

LEMMA EndsFit ==
    ASSUME MonitorTypeOK, JobsFit, NEW i \in MonitorJobs,
           JobFails(i) \/ RefreshCacheFinished(i) \/ GetUpdatesFinished(i) \/ DownloadFinished(i) \/ UpdateFinished(i)
    PROVE  JobTypes' /\ JobsFit'
<1>0. JobTypes /\ UNCHANGED envVars
  BY MonitorTypes DEF JobFails, RefreshCacheFinished, GetUpdatesFinished, DownloadFinished, UpdateFinished, Succeeds, Ends
<1>a. mjobs[i].asked \in BOOLEAN /\ mjobs[i].apps \in SUBSET MonitorApps
  BY <1>0 DEF JobTypes, MonitorJob
<1>b. updatable \in SUBSET MonitorApps
  BY MonitorTypes DEF OtherTypes
<1>1. CASE mjobs' = Without(i)
  <2>1. (Stopped' => Stopped) /\ (Metered' => Metered)
    BY <1>0 DEF Stopped, Metered, envVars
  <2>2. \A j \in MonitorJobs : mjobs'[j] = mjobs[j] \/ mjobs'[j] = NoJob
    BY <1>0, <1>1, WithoutOne
  <2>3. JobTypes'
    BY <1>0, <1>1, WithoutOne DEF JobTypes
  <2>4. NoJob.kind = "none"
    BY DEF NoJob
  <2> QED
    BY <2>1, <2>2, <2>3, <2>4, FitsStay
<1>2. CASE RefreshCacheFinished(i)
  <2>1. mjobs[i].kind = "refresh" /\ ~mjobs[i].cancelled /\ mjobs' = Started(Without(i), GetUpdates(FALSE))
    BY <1>2 DEF RefreshCacheFinished, Succeeds, Ends
  <2>2. ~mjobs[i].asked
    BY <2>1 DEF JobsFit, IsFit
  <2>3. GetUpdates(FALSE) \in MonitorJob /\ (GetUpdates(FALSE) = NoJob \/ GetUpdates(FALSE).kind = "updates")
    BY GetsWhat
  <2> QED
    BY <1>0, <2>1, <2>2, <2>3, ChainFits
<1>3. CASE GetUpdatesFinished(i)
  <2>1. mjobs[i].kind = "updates" /\ ~mjobs[i].cancelled
    BY <1>3 DEF GetUpdatesFinished, Succeeds, Ends
  <2>2. ASSUME NEW apps \in SUBSET MonitorApps
        PROVE  /\ NewJob("download", apps, mjobs[i].asked) \in MonitorJob
               /\ NewJob("download", apps, mjobs[i].asked).kind = "download"
               /\ NewJob("download", apps, mjobs[i].asked).asked = mjobs[i].asked
    BY <1>a, NewJobIsOne DEF Kinds, NewJob
  <2>3. \/ mjobs' = Without(i) \/ mjobs' = Started(Without(i), NoJob)
        \/ \E apps \in SUBSET MonitorApps : mjobs' = Started(Without(i), NewJob("download", apps, mjobs[i].asked))
    <3>1. updatable \intersect LiveApps \in SUBSET MonitorApps
      BY <1>b
    <3> QED
      BY <1>3, <1>b, <3>1 DEF GetUpdatesFinished
  <2>4. CASE mjobs' = Started(Without(i), NoJob)
    BY <2>4, <1>0, <2>1, NoJobIsOne, ChainFits
  <2>5. CASE \E apps \in SUBSET MonitorApps : mjobs' = Started(Without(i), NewJob("download", apps, mjobs[i].asked))
    <3> PICK apps \in SUBSET MonitorApps : mjobs' = Started(Without(i), NewJob("download", apps, mjobs[i].asked))
      BY <2>5
    <3> QED
      BY <1>0, <1>a, <2>1, <2>2, ChainFits
  <2> QED
    BY <1>1, <2>3, <2>4, <2>5
<1>4. CASE DownloadFinished(i)
  <2>1. mjobs[i].kind = "download" /\ ~mjobs[i].cancelled
    BY <1>4 DEF DownloadFinished, Succeeds, Ends
  <2>2. PICK installing : LET online == (mjobs[i].apps \intersect LiveApps \intersect updatable) \ installing
                          IN  mjobs' = Started(Without(i), IF online # {} THEN NewJob("update", online, mjobs[i].asked) ELSE NoJob)
    BY <1>4 DEF DownloadFinished
  <2> DEFINE online == (mjobs[i].apps \intersect LiveApps \intersect updatable) \ installing
  <2>3. online \in SUBSET MonitorApps
    BY <1>b
  <2> HIDE DEF online
  <2>4. NewJob("update", online, mjobs[i].asked) \in MonitorJob
    BY <1>a, <2>3, NewJobIsOne DEF Kinds
  <2>5. NewJob("update", online, mjobs[i].asked).kind = "update" /\ NewJob("update", online, mjobs[i].asked).asked = mjobs[i].asked
    BY DEF NewJob
  <2>6. mjobs' = Started(Without(i), NoJob) \/ mjobs' = Started(Without(i), NewJob("update", online, mjobs[i].asked))
    BY <2>2 DEF online
  <2>7. CASE mjobs' = Started(Without(i), NoJob)
    BY <2>7, <1>0, <2>1, NoJobIsOne, ChainFits
  <2>8. CASE mjobs' = Started(Without(i), NewJob("update", online, mjobs[i].asked))
    BY <2>8, <1>0, <1>a, <2>1, <2>4, <2>5, ChainFits
  <2> QED
    BY <2>6, <2>7, <2>8
<1> QED
  BY <1>1, <1>2, <1>3, <1>4 DEF JobFails, UpdateFinished

(* The changes of the environment, which start no job.                       *)
LEMMA EnvironmentFits ==
    ASSUME MonitorTypeOK, JobsFit, Tick6 \/ EnvironmentChanges \/ UpdatesAppear \/ RestartMonitor \/ UNCHANGED monitorVars
    PROVE  JobTypes' /\ JobsFit'
<1>0. JobTypes
  BY MonitorTypes
<1>1. CASE Tick6 \/ UpdatesAppear \/ UNCHANGED monitorVars
  BY <1>0, <1>1 DEF JobTypes, JobsFit, IsFit, Stopped, Metered, Tick6, UpdatesAppear, monitorVars, envVars
<1>2. CASE RestartMonitor
  <2>1. JobTypes' /\ \A i \in MonitorJobs : mjobs'[i] = NoJob
    BY <1>2, NoJobIsOne DEF RestartMonitor, JobTypes
  <2> QED
    BY <2>1 DEF JobsFit, IsFit, NoJob
<1>3. CASE EnvironmentChanges
  <2>1. (Stopped' => Stopped) /\ (Metered' => Metered) /\ mjobs' = mjobs
    <3>1. CASE network' # network
      BY <1>3, <3>1 DEF EnvironmentChanges, Stopped, Metered
    <3>2. CASE network' = network
      BY <1>3, <3>2 DEF EnvironmentChanges, Stopped, Metered
    <3> QED
      BY <3>1, <3>2
  <2> QED
    BY <1>0, <2>1 DEF JobTypes, JobsFit, IsFit
<1> QED
  BY <1>1, <1>2, <1>3

(* The other variables, and the stamp of the last notification.              *)
MonitorJobEnds(i) ==
    JobFails(i) \/ RefreshCacheFinished(i) \/ GetUpdatesFinished(i) \/ DownloadFinished(i) \/ UpdateFinished(i)
MonitorHandlers ==
    NetworkChanged \/ PowerProfileChanged \/ UpowerChanged \/ NetworkAvailable \/ AllowUpdatesChanged
    \/ TimerFires \/ Autoupdate
MonitorWorld == Tick6 \/ EnvironmentChanges \/ UpdatesAppear \/ RestartMonitor \/ UNCHANGED monitorVars
StampTypes ==
    /\ checkStamp \in 0..MaxHalfDays /\ notifyStamp \in 0..MaxHalfDays
    /\ lastNotification \in 0..MaxHalfDays /\ sentAt \in 0..MaxHalfDays /\ securityStamp \in BOOLEAN
    /\ clock6 \in 1..MaxHalfDays /\ StampIsSent

LEMMA MonitorBounds == MaxHalfDays \in Nat /\ MaxEvents \in Nat
BY MonitorAssumption

LEMMA NotifyStamps ==
    ASSUME StampTypes, NEW apps, NEW ready, Notify(apps, ready), UNCHANGED <<clock6, checkStamp>>, securityStamp' \in BOOLEAN
    PROVE  StampTypes'
<1>0. clock6 \in 0..MaxHalfDays /\ clock6 <= clock6
  BY MonitorBounds DEF StampTypes
<1>1. CASE Notifies(apps, ready)
  BY <1>0, <1>1 DEF Notify, StampTypes, StampIsSent
<1>2. CASE ~Notifies(apps, ready)
  BY <1>2 DEF Notify, StampTypes, StampIsSent
<1> QED
  BY <1>1, <1>2

LEMMA StampsStay ==
    ASSUME MonitorTypeOK, StampTypes, MonitorWorld \/ MonitorHandlers \/ \E i \in MonitorJobs : MonitorJobEnds(i)
    PROVE  StampTypes'
<1>0. 0 \in 0..MaxHalfDays /\ clock6 \in 0..MaxHalfDays /\ clock6 <= clock6 /\ (sentAt <= clock6 => sentAt <= clock6 + 1)
  BY MonitorBounds DEF StampTypes
<1>1. CASE UNCHANGED <<clock6, stampVars>>
  BY <1>1 DEF StampTypes, StampIsSent, stampVars
<1>2. CASE Tick6
  <2>1. clock6' \in 1..MaxHalfDays
    BY <1>2, MonitorBounds DEF Tick6, StampTypes
  <2> QED
    BY <1>0, <1>2, <2>1 DEF Tick6, StampTypes, StampIsSent, stampVars
<1>3. CASE RestartMonitor
  BY <1>0, <1>3 DEF RestartMonitor, StampTypes, StampIsSent, Never
<1>4. ASSUME NEW i \in MonitorJobs, MonitorJobEnds(i) PROVE StampTypes'
  <2>0. clock6' = clock6
    BY <1>4 DEF MonitorJobEnds, JobFails, RefreshCacheFinished, GetUpdatesFinished, DownloadFinished, UpdateFinished,
                Succeeds, Ends, envVars
  <2>1. CASE JobFails(i) \/ UpdateFinished(i)
    BY <1>1, <2>0, <2>1 DEF JobFails, UpdateFinished
  <2>2. CASE RefreshCacheFinished(i)
    BY <1>0, <2>0, <2>2 DEF RefreshCacheFinished, StampTypes, StampIsSent
  <2>3. CASE GetUpdatesFinished(i)
    <3>1. securityStamp' \in BOOLEAN
      BY <2>3 DEF GetUpdatesFinished, StampTypes
    <3>2. UNCHANGED checkStamp
      BY <2>3 DEF GetUpdatesFinished
    <3>3. UNCHANGED <<lastNotification, notifyStamp, sentAt>> \/ \E apps : Notify(apps, downloaded)
      BY <2>3 DEF GetUpdatesFinished
    <3>4. CASE UNCHANGED <<lastNotification, notifyStamp, sentAt>>
      BY <2>0, <3>1, <3>2, <3>4 DEF StampTypes, StampIsSent
    <3> QED
      BY <2>0, <3>1, <3>2, <3>3, <3>4, NotifyStamps
  <2>4. CASE DownloadFinished(i)
    <3>1. \E apps, ready : Notify(apps, ready)
      BY <2>4 DEF DownloadFinished
    <3>2. UNCHANGED checkStamp /\ securityStamp' \in BOOLEAN
      BY <2>4 DEF DownloadFinished, StampTypes
    <3> QED
      BY <2>0, <3>1, <3>2, NotifyStamps
  <2> QED
    BY <1>4, <2>1, <2>2, <2>3, <2>4 DEF MonitorJobEnds
<1> QED
  BY <1>1, <1>2, <1>3, <1>4
  DEF MonitorWorld, MonitorHandlers, EnvironmentChanges, UpdatesAppear, monitorVars, envVars,
      NetworkChanged, PowerProfileChanged, UpowerChanged, NetworkAvailable, AllowUpdatesChanged, TimerFires, Autoupdate, Handle

(* The environment, the timers and the updates there are.                    *)
RestTypes ==
    /\ events \in 0..MaxEvents
    /\ network \in {"offline", "metered", "free"} /\ unhandled \subseteq {"network", "saver", "power", "available", "allow"}
    /\ saver \in BOOLEAN /\ lowPower \in BOOLEAN /\ allowUpdates \in BOOLEAN /\ downloadUpdates \in BOOLEAN
    /\ hourly \in BOOLEAN /\ startup \in BOOLEAN
UpdateTypes == downloaded \subseteq updatable /\ updatable \subseteq MonitorApps

LEMMA MonitorParts ==
    /\ MonitorTypeOK /\ StampIsSent <=> StampTypes /\ RestTypes /\ UpdateTypes /\ JobTypes
    /\ (MonitorTypeOK /\ StampIsSent)' <=> StampTypes' /\ RestTypes' /\ UpdateTypes' /\ JobTypes'
BY MonitorTypes DEF OtherTypes, StampTypes, RestTypes, UpdateTypes

LEMMA RestStays ==
    ASSUME RestTypes, MonitorWorld \/ MonitorHandlers \/ \E i \in MonitorJobs : MonitorJobEnds(i)
    PROVE  RestTypes'
<1>1. events' \in 0..MaxEvents
  <2>1. CASE events' = events
    BY <2>1 DEF RestTypes
  <2>2. CASE events < MaxEvents /\ events' = events + 1
    BY <2>2, MonitorBounds DEF RestTypes
  <2> QED
    BY <2>1, <2>2
    DEF MonitorWorld, MonitorHandlers, MonitorJobEnds, Tick6, EnvironmentChanges, UpdatesAppear, RestartMonitor, monitorVars, envVars,
        NetworkChanged, PowerProfileChanged, UpowerChanged, NetworkAvailable, AllowUpdatesChanged, TimerFires, Autoupdate, Handle,
        JobFails, RefreshCacheFinished, GetUpdatesFinished, DownloadFinished, UpdateFinished, Succeeds, Ends
<1>2. CASE MonitorWorld
  BY <1>1, <1>2 DEF MonitorWorld, Tick6, EnvironmentChanges, UpdatesAppear, RestartMonitor, monitorVars, envVars, timerVars, RestTypes
<1>3. CASE MonitorHandlers
  BY <1>1, <1>3
  DEF MonitorHandlers, NetworkChanged, PowerProfileChanged, UpowerChanged, NetworkAvailable, AllowUpdatesChanged, TimerFires, Autoupdate,
      Handle, envVars, timerVars, RestTypes
<1>4. CASE \E i \in MonitorJobs : MonitorJobEnds(i)
  <2>1. UNCHANGED <<envVars, timerVars>>
    BY <1>4 DEF MonitorJobEnds, JobFails, RefreshCacheFinished, GetUpdatesFinished, DownloadFinished, UpdateFinished, Succeeds, Ends
  <2> QED
    BY <1>1, <2>1 DEF envVars, timerVars, RestTypes
<1> QED
  BY <1>2, <1>3, <1>4

LEMMA UpdatesStay ==
    ASSUME UpdateTypes, JobTypes, MonitorWorld \/ MonitorHandlers \/ \E i \in MonitorJobs : MonitorJobEnds(i)
    PROVE  UpdateTypes'
<1>1. CASE MonitorWorld
  BY <1>1 DEF MonitorWorld, Tick6, EnvironmentChanges, UpdatesAppear, RestartMonitor, monitorVars, updateVars, UpdateTypes
<1>2. CASE MonitorHandlers
  BY <1>2
  DEF MonitorHandlers, NetworkChanged, PowerProfileChanged, UpowerChanged, NetworkAvailable, AllowUpdatesChanged, TimerFires, Autoupdate,
      Handle, updateVars, UpdateTypes
<1>3. CASE \E i \in MonitorJobs : MonitorJobEnds(i)
  BY <1>3 DEF MonitorJobEnds, JobFails, RefreshCacheFinished, GetUpdatesFinished, DownloadFinished, UpdateFinished, updateVars, UpdateTypes
<1> QED
  BY <1>1, <1>2, <1>3

(* What a chain does stops when the battery or the network forbids it, and   *)
(* the stamps are in their ranges: for any number of apps, of jobs in flight *)
(* and of changes.                                                           *)
LEMMA MonitorIInvHolds == MonitorSpec => []MonitorIInv
<1>1. MonitorInit => MonitorIInv
  <2> SUFFICES ASSUME MonitorInit PROVE MonitorIInv
    OBVIOUS
  <2>1. JobTypes /\ JobsFit
    <3>1. \A i \in MonitorJobs : mjobs[i] = NoJob
      BY DEF MonitorInit
    <3> QED
      BY <3>1, NoJobIsOne DEF MonitorInit, JobTypes, JobsFit
  <2>2. StampTypes
    <3>1. 0 \in 0..MaxHalfDays /\ 1 \in 1..MaxHalfDays /\ 0 <= 1
      BY MonitorAssumption
    <3> QED
      BY <3>1 DEF MonitorInit, StampTypes, StampIsSent, Never
  <2>3. RestTypes /\ UpdateTypes
    <3>1. events \in 0..MaxEvents
      BY MonitorBounds DEF MonitorInit
    <3>2. network \in {"offline", "metered", "free"} /\ saver \in BOOLEAN /\ lowPower \in BOOLEAN
          /\ allowUpdates \in BOOLEAN /\ downloadUpdates \in BOOLEAN /\ hourly \in BOOLEAN /\ startup \in BOOLEAN
      BY DEF MonitorInit
    <3> QED
      BY <3>1, <3>2 DEF MonitorInit, RestTypes, UpdateTypes
  <2> QED
    BY <2>1, <2>2, <2>3, MonitorParts DEF MonitorIInv
<1>2. MonitorIInv /\ [MonitorNext]_monitorVars => MonitorIInv'
  <2> SUFFICES ASSUME MonitorIInv, [MonitorNext]_monitorVars PROVE MonitorIInv'
    OBVIOUS
  <2>1. MonitorWorld \/ MonitorHandlers \/ \E i \in MonitorJobs : MonitorJobEnds(i)
    BY DEF MonitorNext, MonitorWorld, MonitorHandlers, MonitorJobEnds
  <2>2. StampTypes /\ RestTypes /\ UpdateTypes /\ JobTypes /\ JobsFit /\ MonitorTypeOK
    BY MonitorParts DEF MonitorIInv
  <2>3. JobTypes' /\ JobsFit'
    BY <2>1, <2>2, EnvironmentFits, HandlersFit, EndsFit DEF MonitorWorld, MonitorHandlers, MonitorJobEnds
  <2>4. StampTypes' /\ RestTypes' /\ UpdateTypes'
    BY <2>1, <2>2, StampsStay, RestStays, UpdatesStay
  <2> QED
    BY <2>3, <2>4, MonitorParts DEF MonitorIInv
<1> QED
  BY <1>1, <1>2, PTL DEF MonitorSpec

(* In power saving mode no chain goes on but one the user has asked for, and *)
(* in a metered network no refresh does, however many chains run and in      *)
(* whatever order the changes of the environment and the ends of the jobs    *)
(* are handled (gs_update_monitor_power_profile_changed_cb(),                *)
(* gs_update_monitor_network_changed_cb() and the callbacks of the jobs).    *)
THEOREM ChainsStop == MonitorSpec => []MonitorInv
<1>1. MonitorIInv => MonitorInv
  <2> SUFFICES ASSUME MonitorIInv PROVE MonitorInv
    OBVIOUS
  <2>1. SaverStopsTheChain
    BY DEF MonitorIInv, JobsFit, IsFit, Stopped, SaverStopsTheChain, Runs
  <2>2. MeteredStopsRefresh
    BY DEF MonitorIInv, JobsFit, IsFit, Metered, MeteredStopsRefresh, Runs
  <2> QED
    BY <2>1, <2>2 DEF MonitorIInv, MonitorInv
<1> QED
  BY <1>1, MonitorIInvHolds, PTL

LEMMA TwoHalves ==
    ASSUME NEW clock \in Nat, NEW stamp \in Nat, stamp <= clock, NEW days \in Nat \ {0}, (clock - stamp) \div 2 >= days
    PROVE  clock - stamp >= 2
OBVIOUS

(* The user is notified of pending updates at most once in two half-days,    *)
(* however many chains end at the same time and however often the session is *)
(* started again (notify_about_pending_updates()).                           *)
THEOREM NotifiesOnceADay == MonitorSpec => NotifiedOncePerDay
<1>1. MonitorIInv /\ [MonitorNext]_monitorVars => [sentAt' # sentAt => sentAt = Never \/ sentAt' - sentAt >= 2]_monitorVars
  <2> SUFFICES ASSUME MonitorIInv, MonitorNext, sentAt' # sentAt, sentAt # Never PROVE sentAt' - sentAt >= 2
    OBVIOUS
  <2>1. PICK apps, ready : Notifies(apps, ready) /\ sentAt' = clock6
    BY DEF MonitorNext, Tick6, EnvironmentChanges, UpdatesAppear, RestartMonitor, NetworkChanged, PowerProfileChanged, UpowerChanged,
           NetworkAvailable, AllowUpdatesChanged, TimerFires, Autoupdate, Handle, stampVars,
           JobFails, RefreshCacheFinished, GetUpdatesFinished, DownloadFinished, UpdateFinished, Notify
  <2>2. PICK days \in Nat \ {0} : (clock6 - sentAt) \div 2 >= days
    <3>1. notifyStamp = sentAt
      BY DEF MonitorIInv, StampIsSent
    <3>2. ReadyDays \in Nat \ {0} /\ WaitingDays \in Nat \ {0} /\ 1 \in Nat \ {0}
      BY MonitorAssumption
    <3> QED
      BY <2>1, <3>1, <3>2 DEF Notifies, ShouldNotify, DaysSince
  <2>3. clock6 \in Nat /\ sentAt \in Nat /\ sentAt <= clock6
    <3>1. clock6 \in 1..MaxHalfDays /\ sentAt \in 0..MaxHalfDays /\ sentAt <= clock6
      BY MonitorTypes DEF MonitorIInv, OtherTypes, StampIsSent
    <3> QED
      BY <3>1, MonitorBounds
  <2> QED
    BY <2>1, <2>2, <2>3, TwoHalves
<1> QED
  BY <1>1, MonitorIInvHolds, PTL DEF MonitorSpec, NotifiedOncePerDay

-----------------------------------------------------------------------------
(* ---- Offline updates of PackageKit ---- *)
News == {"deleted", "written"}
Stages == {"start", "check", "get", "run", "mark", "read", "write", "call", "query", "store"}
ThreadKinds == {"idle", "list", "prepare", "download", "update", "cancel"}

FileTypes ==
    /\ known \in SUBSET PkUpdates /\ prepared \in SUBSET PkUpdates /\ prepFile \in {NoFile} \union SUBSET PkUpdates
    /\ pkEvents \in 0..MaxPkEvents
NewsTypes == prepNews \in Seq(News) /\ autoTimer \in BOOLEAN
FlagTypes ==
    /\ trigger \in BOOLEAN /\ triggerNews \in BOOLEAN /\ isTriggered \in BOOLEAN /\ everRefreshed \in BOOLEAN
    /\ overtakenRead \in BOOLEAN /\ wantsDownloads \in BOOLEAN /\ report \in BOOLEAN
ShownTypes == listed \in SUBSET PkUpdates /\ size \in [PkUpdates -> {"unlisted", "unknown", "some", "zero"}]
ThreadTypes == pkJobs \in [PkThreads -> PkJob]
RefineTypes == refineCall \in [at : {"idle", "asked", "done"}, list : SUBSET PkUpdates, sure : SUBSET PkUpdates]

LEMMA PkParts ==
    /\ PkTypeOK /\ prepNews \in Seq(News) <=> FileTypes /\ NewsTypes /\ FlagTypes /\ ShownTypes /\ ThreadTypes /\ RefineTypes
    /\ (PkTypeOK /\ prepNews \in Seq(News))' <=>
          FileTypes' /\ NewsTypes' /\ FlagTypes' /\ ShownTypes' /\ ThreadTypes' /\ RefineTypes'
<1>1. (prepNews \in Seq(News) => \A i \in DOMAIN prepNews : prepNews[i] \in {"deleted", "written"})
  BY ElementOfSeq DEF News
<1>2. (prepNews \in Seq(News) => \A i \in DOMAIN prepNews : prepNews[i] \in {"deleted", "written"})'
  BY ElementOfSeq DEF News
<1>3. PkTypeOK /\ prepNews \in Seq(News) <=> FileTypes /\ NewsTypes /\ FlagTypes /\ ShownTypes /\ ThreadTypes /\ RefineTypes
  BY <1>1 DEF PkTypeOK, FileTypes, NewsTypes, FlagTypes, ShownTypes, ThreadTypes, RefineTypes
<1>4. (PkTypeOK /\ prepNews \in Seq(News))' <=>
          FileTypes' /\ NewsTypes' /\ FlagTypes' /\ ShownTypes' /\ ThreadTypes' /\ RefineTypes'
  BY <1>2 DEF PkTypeOK, FileTypes, NewsTypes, FlagTypes, ShownTypes, ThreadTypes, RefineTypes
<1> QED
  BY <1>3, <1>4

(* The jobs a thread may go on to.                                           *)
LEMMA NoPkJobIsOne == NoPkJob \in PkJob /\ NoPkJob.kind = "idle" /\ NoPkJob.at = "start"
BY DEF NoPkJob, PkJob

LEMMA PkJobAt ==
    ASSUME NEW job \in PkJob, NEW at \in Stages
    PROVE  [job EXCEPT !.at = at] \in PkJob /\ [job EXCEPT !.at = at].kind = job.kind /\ [job EXCEPT !.at = at].at = at
BY DEF PkJob, Stages

LEMMA PkJobWithList ==
    ASSUME NEW job \in PkJob, NEW at \in Stages, NEW list \in SUBSET PkUpdates
    PROVE  /\ [job EXCEPT !.at = at, !.list = list] \in PkJob
           /\ [job EXCEPT !.at = at, !.list = list].kind = job.kind
BY DEF PkJob, Stages

LEMMA PkJobThatGot ==
    ASSUME NEW job \in PkJob, NEW at \in Stages, NEW got \in SUBSET PkUpdates
    PROVE  [job EXCEPT !.at = at, !.got = got] \in PkJob /\ [job EXCEPT !.at = at, !.got = got].kind = job.kind
BY DEF PkJob, Stages

LEMMA PkJobThatSaw ==
    ASSUME NEW job \in PkJob, NEW at \in Stages, NEW saw \in BOOLEAN
    PROVE  [job EXCEPT !.at = at, !.saw = saw] \in PkJob /\ [job EXCEPT !.at = at, !.saw = saw].kind = job.kind
BY DEF PkJob, Stages

LEMMA PkJobOfNext ==
    ASSUME NEW job \in PkJob, NEW u
    PROVE  /\ [job EXCEPT !.at = "start", !.list = @ \ {u}, !.saw = FALSE] \in PkJob
           /\ [job EXCEPT !.at = "start", !.list = @ \ {u}, !.saw = FALSE].kind = job.kind
BY DEF PkJob

LEMMA PkJobCancelled ==
    ASSUME NEW job \in PkJob
    PROVE  /\ [job EXCEPT !.cancelled = TRUE] \in PkJob
           /\ [job EXCEPT !.cancelled = TRUE].kind = job.kind /\ [job EXCEPT !.cancelled = TRUE].at = job.at
BY DEF PkJob

LEMMA NewPkJob ==
    ASSUME NEW kind \in ThreadKinds
    PROVE  /\ [NoPkJob EXCEPT !.kind = kind] \in PkJob /\ [NoPkJob EXCEPT !.kind = kind].kind = kind
           /\ [NoPkJob EXCEPT !.kind = kind].at = "start"
BY DEF PkJob, NoPkJob, ThreadKinds

LEMMA NewPkJobOn ==
    ASSUME NEW kind \in ThreadKinds, NEW list \in SUBSET PkUpdates
    PROVE  [NoPkJob EXCEPT !.kind = kind, !.list = list] \in PkJob /\ [NoPkJob EXCEPT !.kind = kind, !.list = list].kind = kind
BY DEF PkJob, NoPkJob, ThreadKinds

LEMMA NewPkDownload ==
    ASSUME NEW list \in SUBSET PkUpdates
    PROVE  /\ [NoPkJob EXCEPT !.kind = "download", !.at = "get", !.list = list] \in PkJob
           /\ [NoPkJob EXCEPT !.kind = "download", !.at = "get", !.list = list].kind = "download"
BY DEF PkJob, NoPkJob

(* A step of one thread leaves the jobs of the others alone.                 *)
LEMMA PkGoesOn ==
    ASSUME ThreadTypes, NEW t \in PkThreads, NEW job \in PkJob, PkGoes(t, job)
    PROVE  ThreadTypes' /\ pkJobs'[t] = job /\ \A s \in PkThreads \ {t} : pkJobs'[s] = pkJobs[s]
BY DEF ThreadTypes, PkGoes

(* What a thread goes on to: the job it has, at another stage, or none; a    *)
(* list is in its first two stages for as long as it is made.                *)
Goes6(t, job) ==
    /\ PkGoes(t, job) /\ (job.kind = pkJobs[t].kind \/ job.kind = "idle")
    /\ job.kind = "list" => job.at = "check"

LEMMA PkGoesTo ==
    ASSUME NEW t \in PkThreads, NEW job \in PkJob, PkGoes(t, job), job.kind = pkJobs[t].kind,
           job.kind = "list" => job.at = "check"
    PROVE  \E next \in PkJob : Goes6(t, next)
BY DEF Goes6

LEMMA AppDoneIs ==
    ASSUME ThreadTypes, NEW t \in PkThreads, AppDone(t), pkJobs[t].kind # "list"
    PROVE  \E job \in PkJob : Goes6(t, job)
<1>1. PICK u \in pkJobs[t].list :
          PkGoes(t, IF pkJobs[t].list = {u} THEN NoPkJob
                    ELSE [pkJobs[t] EXCEPT !.at = "start", !.list = @ \ {u}, !.saw = FALSE])
  BY DEF AppDone
<1>2. pkJobs[t] \in PkJob
  BY DEF ThreadTypes
<1>3. CASE pkJobs[t].list = {u}
  BY <1>1, <1>3, NoPkJobIsOne DEF Goes6
<1>4. CASE pkJobs[t].list # {u}
  BY <1>1, <1>2, <1>4, PkJobOfNext DEF Goes6
<1> QED
  BY <1>3, <1>4

LEMMA ListedIs ==
    ASSUME ThreadTypes, NEW t \in PkThreads, NEW list \in SUBSET PkUpdates, ListedUpdates(t, list)
    PROVE  \E job \in PkJob : Goes6(t, job)
<1>1. pkJobs[t] \in PkJob
  BY DEF ThreadTypes
<1>2. CASE pkJobs[t].kind = "list"
  BY <1>2, NoPkJobIsOne DEF ListedUpdates, PkEnds, Goes6
<1>3. CASE pkJobs[t].kind # "list"
  <2> DEFINE at == IF list = {} THEN "read" ELSE "get"
  <2>1. at \in Stages
    BY DEF Stages
  <2> DEFINE job == [pkJobs[t] EXCEPT !.at = at, !.list = list]
  <2>2. PkGoes(t, job)
    BY <1>3 DEF ListedUpdates
  <2> HIDE DEF at
  <2>3. job \in PkJob /\ job.kind = pkJobs[t].kind
    BY <1>1, <2>1, PkJobWithList
  <2> HIDE DEF job
  <2> QED
    BY <1>3, <2>2, <2>3, PkGoesTo
<1> QED
  BY <1>2, <1>3

LEMMA ThreadGoesOn ==
    ASSUME FileTypes, FlagTypes, ThreadTypes, ListStages, NEW t \in PkThreads, PkThreadStep(t)
    PROVE  \E job \in PkJob : Goes6(t, job)
<1>0. pkJobs[t] \in PkJob /\ pkJobs[t].list \in SUBSET PkUpdates /\ pkJobs[t].got \in SUBSET PkUpdates
  BY DEF ThreadTypes, PkJob
<1>a. {"check", "get", "run", "mark", "read", "write", "call", "query", "store", "start"} \subseteq Stages
  BY DEF Stages
<1>b. pkJobs[t].kind = "list" => pkJobs[t].at = "start" \/ pkJobs[t].at = "check"
  BY DEF ListStages
<1>1. CASE PkEnds(t)
  BY <1>1, NoPkJobIsOne DEF PkEnds, Goes6
<1>2. CASE PkCallFails(t)
  BY <1>1, <1>2 DEF PkCallFails
<1>3. CASE AddUpdates(t)
  <2>1. known \in SUBSET PkUpdates
    BY DEF FileTypes
  <2>2. CASE ListedUpdates(t, known)
    BY <2>1, <2>2, ListedIs
  <2>3. CASE PkGoes(t, [pkJobs[t] EXCEPT !.at = "check", !.list = known])
    <3> DEFINE job == [pkJobs[t] EXCEPT !.at = "check", !.list = known]
    <3>1. job \in PkJob /\ job.kind = pkJobs[t].kind
      BY <1>0, <1>a, <2>1, PkJobWithList
    <3>2. PkGoes(t, job) /\ job.at = "check"
      BY <1>0, <2>3 DEF PkJob
    <3> HIDE DEF job
    <3> QED
      BY <3>1, <3>2, PkGoesTo
  <2> QED
    BY <1>3, <2>2, <2>3 DEF AddUpdates
<1>4. CASE CheckPrepared(t)
  BY <1>0, <1>4, ListedIs DEF CheckPrepared
<1>5. CASE GetToDownload(t)
  <2>0. pkJobs[t].kind # "list"
    BY <1>5 DEF GetToDownload, Does, Prepares
  <2>1. CASE PkGoes(t, [pkJobs[t] EXCEPT !.at = "run", !.got = known])
    <3> DEFINE job == [pkJobs[t] EXCEPT !.at = "run", !.got = known]
    <3>1. job \in PkJob /\ job.kind = pkJobs[t].kind
      BY <1>0, <1>a, PkJobThatGot DEF FileTypes
    <3>2. PkGoes(t, job)
      BY <2>1
    <3> HIDE DEF job
    <3> QED
      BY <2>0, <3>1, <3>2, PkGoesTo
  <2>2. CASE PkGoes(t, [pkJobs[t] EXCEPT !.at = "read", !.list = {}])
    <3> DEFINE job == [pkJobs[t] EXCEPT !.at = "read", !.list = {}]
    <3>1. job \in PkJob /\ job.kind = pkJobs[t].kind
      BY <1>0, <1>a, PkJobWithList
    <3>2. PkGoes(t, job)
      BY <2>2
    <3> HIDE DEF job
    <3> QED
      BY <2>0, <3>1, <3>2, PkGoesTo
  <2> QED
    BY <1>1, <1>5, <2>1, <2>2 DEF GetToDownload, PkEnds
<1>6. CASE DownloadRuns(t)
  <2>1. pkJobs[t].kind # "list" /\ PkGoes(t, [pkJobs[t] EXCEPT !.at = "mark", !.got = {}])
    BY <1>b, <1>6 DEF DownloadRuns
  <2> QED
    <3> DEFINE job == [pkJobs[t] EXCEPT !.at = "mark", !.got = {}]
    <3>1. job \in PkJob /\ job.kind = pkJobs[t].kind
      BY <1>0, <1>a, PkJobThatGot
    <3>2. PkGoes(t, job)
      BY <2>1
    <3> HIDE DEF job
    <3> QED
      BY <2>1, <3>1, <3>2, PkGoesTo
<1>7. CASE MarkDownloaded(t)
  <2>0. pkJobs[t].kind # "list"
    BY <1>b, <1>7 DEF MarkDownloaded
  <2>1. CASE PkGoes(t, [pkJobs[t] EXCEPT !.at = "read", !.list = {}])
    <3> DEFINE job == [pkJobs[t] EXCEPT !.at = "read", !.list = {}]
    <3>1. job \in PkJob /\ job.kind = pkJobs[t].kind
      BY <1>0, <1>a, PkJobWithList
    <3>2. PkGoes(t, job)
      BY <2>1
    <3> HIDE DEF job
    <3> QED
      BY <2>0, <3>1, <3>2, PkGoesTo
  <2> QED
    BY <1>1, <1>7, <2>1 DEF MarkDownloaded, PkEnds
<1>8. CASE ReadPrepared(t)
  <2>0. pkJobs[t].kind # "list"
    BY <1>b, <1>8 DEF ReadPrepared, PrepareEnds
  <2>1. CASE prepFile = NoFile
    BY <1>1, <1>8, <2>1 DEF ReadPrepared, PrepareEnds
  <2>2. CASE prepFile # NoFile
    <3>1. prepFile \in SUBSET PkUpdates /\ PkGoes(t, [pkJobs[t] EXCEPT !.at = "write", !.got = prepFile])
      BY <1>8, <2>2 DEF ReadPrepared, PrepareEnds, FileTypes
    <3> QED
      <4> DEFINE job == [pkJobs[t] EXCEPT !.at = "write", !.got = prepFile]
      <4>1. job \in PkJob /\ job.kind = pkJobs[t].kind
        BY <1>0, <1>a, <3>1, PkJobThatGot
      <4>2. PkGoes(t, job)
        BY <3>1
      <4> HIDE DEF job
      <4> QED
        BY <2>0, <4>1, <4>2, PkGoesTo
  <2> QED
    BY <2>1, <2>2
<1>9. CASE WritePrepared(t)
  BY <1>1, <1>9 DEF WritePrepared, PrepareEnds
<1>10. CASE LookAtTrigger(t)
  <2>0. pkJobs[t].kind # "list"
    BY <1>10 DEF LookAtTrigger, Does
  <2>1. CASE AppDone(t)
    BY <2>0, <2>1, AppDoneIs
  <2>2. CASE PkGoes(t, [pkJobs[t] EXCEPT !.at = "call"])
    <3> DEFINE job == [pkJobs[t] EXCEPT !.at = "call"]
    <3>1. job \in PkJob /\ job.kind = pkJobs[t].kind
      BY <1>0, <1>a, PkJobAt
    <3>2. PkGoes(t, job)
      BY <2>2
    <3> HIDE DEF job
    <3> QED
      BY <2>0, <3>1, <3>2, PkGoesTo
  <2> QED
    BY <1>10, <2>1, <2>2 DEF LookAtTrigger
<1>11. CASE CallTrigger(t)
  <2>1. pkJobs[t].kind # "list" /\ PkGoes(t, [pkJobs[t] EXCEPT !.at = "query"])
    BY <1>b, <1>11 DEF CallTrigger
  <2> QED
    <3> DEFINE job == [pkJobs[t] EXCEPT !.at = "query"]
    <3>1. job \in PkJob /\ job.kind = pkJobs[t].kind
      BY <1>0, <1>a, PkJobAt
    <3>2. PkGoes(t, job)
      BY <2>1
    <3> HIDE DEF job
    <3> QED
      BY <2>1, <3>1, <3>2, PkGoesTo
<1>12. CASE QueryTrigger(t)
  <2>1. pkJobs[t].kind # "list" /\ trigger \in BOOLEAN /\ PkGoes(t, [pkJobs[t] EXCEPT !.at = "store", !.saw = trigger])
    BY <1>b, <1>12 DEF QueryTrigger, FlagTypes
  <2> QED
    BY <1>0, <1>a, <2>1, PkJobThatSaw DEF Goes6
<1>13. CASE StoreTrigger(t)
  <2>0. pkJobs[t].kind # "list"
    BY <1>b, <1>13 DEF StoreTrigger
  <2> QED
    BY <2>0, <1>13, AppDoneIs DEF StoreTrigger
<1> QED
  BY <1>2, <1>3, <1>4, <1>5, <1>6, <1>7, <1>8, <1>9, <1>10, <1>11, <1>12, <1>13 DEF PkThreadStep

(* The other steps that concern the jobs.                                    *)
LEMMA StartGoesOn ==
    ASSUME ShownTypes, ThreadTypes, NEW t \in PkThreads, RunPrepareUpdate(t) \/ StartPkJob(t)
    PROVE  \E job \in PkJob : PkGoes(t, job) /\ pkJobs[t].kind = "idle" /\ (job.kind = "list" => job.at = "start")
                              /\ (report /\ ~report' => job.kind = "list")
<1>0. {"list", "prepare", "update", "cancel"} \subseteq ThreadKinds /\ pkJobs[t].kind = "idle"
  BY DEF ThreadKinds, RunPrepareUpdate, StartPkJob, Free
<1>1. CASE RunPrepareUpdate(t)
  <2>1. PkGoes(t, [NoPkJob EXCEPT !.kind = "prepare"]) /\ report' = report
    BY <1>1 DEF RunPrepareUpdate, shownPkVars
  <2> QED
    BY <1>0, <2>1, NewPkJob
<1>2. CASE StartPkJob(t)
  <2>1. CASE report' = FALSE /\ PkGoes(t, [NoPkJob EXCEPT !.kind = "list"])
    BY <1>0, <2>1, NewPkJob
  <2>2. CASE UNCHANGED report /\ PkGoes(t, [NoPkJob EXCEPT !.kind = "download", !.at = "get", !.list = listed])
    BY <1>0, <2>2, NewPkDownload DEF ShownTypes
  <2>3. CASE UNCHANGED report /\ PkGoes(t, [NoPkJob EXCEPT !.kind = "update", !.list = listed])
    BY <1>0, <2>3, NewPkJobOn DEF ShownTypes
  <2>4. CASE UNCHANGED report /\ \E u \in listed : PkGoes(t, [NoPkJob EXCEPT !.kind = "cancel", !.list = {u}])
    <3>1. PICK u \in listed : PkGoes(t, [NoPkJob EXCEPT !.kind = "cancel", !.list = {u}])
      BY <2>4
    <3>2. {u} \in SUBSET PkUpdates
      BY DEF ShownTypes
    <3> QED
      BY <1>0, <2>4, <3>1, <3>2, NewPkJobOn
  <2> QED
    BY <1>2, <2>1, <2>2, <2>3, <2>4 DEF StartPkJob
<1> QED
  BY <1>1, <1>2

PkWorld == UpdatesChange \/ OtherClient \/ SettingChanges \/ ProxyChanged
PkMain == PreparedChanged \/ TriggerChanged \/ RefineSizes \/ GetDetails \/ RefineReturns
PkStarts(t) == RunPrepareUpdate(t) \/ StartPkJob(t)
PkSteps == PkWorld \/ PkMain \/ (\E t \in PkThreads : PkStarts(t) \/ PkThreadStep(t)) \/ UNCHANGED pkVars

LEMMA ThreadsStay ==
    ASSUME FileTypes, FlagTypes, ShownTypes, ThreadTypes, ListStages, PkSteps
    PROVE  ThreadTypes' /\ ListStages'
<1>1. CASE pkJobs' = pkJobs
  BY <1>1 DEF ThreadTypes, ListStages
<1>2. CASE ProxyChanged
  <2>1. ASSUME NEW t \in PkThreads
        PROVE  [pkJobs[t] EXCEPT !.cancelled = TRUE] \in PkJob /\ [pkJobs[t] EXCEPT !.cancelled = TRUE].kind = pkJobs[t].kind
               /\ [pkJobs[t] EXCEPT !.cancelled = TRUE].at = pkJobs[t].at
    BY PkJobCancelled DEF ThreadTypes
  <2>2. pkJobs' = [t \in PkThreads |-> IF pkJobs[t].kind = "prepare" THEN [pkJobs[t] EXCEPT !.cancelled = TRUE] ELSE pkJobs[t]]
    BY <1>2 DEF ProxyChanged
  <2>3. ThreadTypes'
    BY <2>1, <2>2 DEF ThreadTypes
  <2>4. ASSUME NEW t \in PkThreads PROVE pkJobs'[t].kind = pkJobs[t].kind /\ pkJobs'[t].at = pkJobs[t].at
    BY <2>1, <2>2
  <2> QED
    BY <2>3, <2>4 DEF ListStages
<1>3. ASSUME NEW t \in PkThreads, PkStarts(t) \/ PkThreadStep(t) PROVE ThreadTypes' /\ ListStages'
  <2>1. PICK job \in PkJob : PkGoes(t, job) /\ (job.kind = "list" => job.at = "check" \/ job.at = "start")
    BY <1>3, StartGoesOn, ThreadGoesOn DEF PkStarts, Goes6
  <2>2. ThreadTypes' /\ pkJobs'[t] = job /\ \A s \in PkThreads \ {t} : pkJobs'[s] = pkJobs[s]
    BY <2>1, PkGoesOn
  <2> QED
    BY <2>1, <2>2 DEF ListStages
<1>4. CASE UpdatesChange \/ OtherClient \/ SettingChanges \/ PkMain \/ UNCHANGED pkVars
  BY <1>1, <1>4 DEF UpdatesChange, OtherClient, SettingChanges, PkMain, PreparedChanged, TriggerChanged, RefineSizes, GetDetails,
                    RefineReturns, pkVars
<1> QED
  BY <1>2, <1>3, <1>4 DEF PkSteps, PkWorld

LEMMA CacheIs ==
    ASSUME FileTypes
    PROVE  CacheOf(prepFile) \in SUBSET PkUpdates
BY DEF FileTypes, CacheOf

LEMMA FilesStay ==
    ASSUME FileTypes, ThreadTypes, PkSteps
    PROVE  FileTypes'
<1>0. pkEvents' \in 0..MaxPkEvents
  <2>1. pkEvents' = pkEvents \/ (pkEvents < MaxPkEvents /\ pkEvents' = pkEvents + 1)
    <3>1. CASE PkWorld
      BY <3>1 DEF PkWorld, UpdatesChange, OtherClient, SettingChanges, ProxyChanged
    <3>2. CASE PkMain
      BY <3>2 DEF PkMain, PreparedChanged, TriggerChanged, RefineSizes, GetDetails, RefineReturns, settingVars
    <3>3. ASSUME NEW t \in PkThreads, PkStarts(t) \/ PkThreadStep(t)
          PROVE  pkEvents' = pkEvents \/ (pkEvents < MaxPkEvents /\ pkEvents' = pkEvents + 1)
      BY <3>3 DEF PkStarts, RunPrepareUpdate, StartPkJob, PkThreadStep, PkCallFails, AddUpdates, CheckPrepared, GetToDownload,
                  DownloadRuns, MarkDownloaded, ReadPrepared, WritePrepared, PrepareEnds, LookAtTrigger, CallTrigger, QueryTrigger, StoreTrigger,
                  settingVars
    <3>4. CASE UNCHANGED pkVars
      BY <3>4 DEF pkVars, settingVars
    <3> QED
      BY <3>1, <3>2, <3>3, <3>4 DEF PkSteps
  <2>2. pkEvents \in 0..MaxPkEvents /\ MaxPkEvents \in Nat
    BY PkAssumption DEF FileTypes
  <2> QED
    BY <2>1, <2>2
<1>1. CASE PkWorld
  <2>1. known' \in SUBSET PkUpdates
    BY <1>1 DEF PkWorld, UpdatesChange, OtherClient, SettingChanges, ProxyChanged, FileTypes, daemonVars
  <2>2. prepFile' \in {NoFile} \union SUBSET PkUpdates
    BY <1>1 DEF PkWorld, UpdatesChange, OtherClient, SettingChanges, ProxyChanged, FileTypes, daemonVars
  <2>3. prepared' = prepared
    BY <1>1 DEF PkWorld, UpdatesChange, OtherClient, SettingChanges, ProxyChanged, cacheVars
  <2> QED
    BY <1>0, <2>1, <2>2, <2>3 DEF FileTypes
<1>2. CASE PkMain
  BY <1>0, <1>2, CacheIs
  DEF PkMain, PreparedChanged, TriggerChanged, RefineSizes, GetDetails, RefineReturns, daemonVars, cacheVars, FileTypes
<1>3. ASSUME NEW t \in PkThreads, PkStarts(t) \/ PkThreadStep(t) PROVE FileTypes'
  <2>0. pkJobs[t].got \in SUBSET PkUpdates
    BY DEF ThreadTypes, PkJob
  <2>1. CASE DownloadRuns(t)
    BY <1>0, <2>0, <2>1 DEF DownloadRuns, FileTypes, cacheVars
  <2>2. CASE WritePrepared(t)
    BY <1>0, <2>0, <2>2 DEF WritePrepared, PrepareEnds, FileTypes, daemonVars
  <2>3. CASE UNCHANGED <<known, prepFile, prepared>>
    BY <1>0, <2>3 DEF FileTypes
  <2> QED
    BY <1>3, <2>1, <2>2, <2>3
    DEF PkStarts, RunPrepareUpdate, StartPkJob, PkThreadStep, PkCallFails, AddUpdates, CheckPrepared, GetToDownload,
        MarkDownloaded, ReadPrepared, PrepareEnds, LookAtTrigger, CallTrigger, QueryTrigger, StoreTrigger, daemonVars, cacheVars
<1>4. CASE UNCHANGED pkVars
  BY <1>4 DEF pkVars, daemonVars, cacheVars, settingVars, FileTypes
<1> QED
  BY <1>1, <1>2, <1>3, <1>4 DEF PkSteps

LEMMA FlagsStay ==
    ASSUME FlagTypes, ThreadTypes, PkSteps
    PROVE  FlagTypes'
<1>a. ASSUME NEW b, NEW c, b \in BOOLEAN PROVE (c = b) \in BOOLEAN /\ (c # b) \in BOOLEAN
  OBVIOUS
<1>1. CASE PkWorld
  <2>1. CASE UpdatesChange
    BY <2>1 DEF UpdatesChange, TriggerBecomes, FlagTypes
  <2>2. CASE OtherClient
    BY <2>2 DEF OtherClient, TriggerBecomes, FlagTypes, shownPkVars
  <2>3. CASE SettingChanges \/ ProxyChanged
    BY <2>3 DEF SettingChanges, ProxyChanged, FlagTypes, bootVars, shownPkVars
  <2> QED
    BY <1>1, <2>1, <2>2, <2>3 DEF PkWorld
<1>2. CASE PkMain
  BY <1>2
  DEF PkMain, PreparedChanged, TriggerChanged, RefineSizes, GetDetails, RefineReturns, bootVars, settingVars, shownPkVars, FlagTypes
<1>3. ASSUME NEW t \in PkThreads, PkStarts(t) \/ PkThreadStep(t) PROVE FlagTypes'
  <2>1. CASE CallTrigger(t)
    <3>1. (pkJobs[t].kind = "update") \in BOOLEAN
      OBVIOUS
    <3>2. trigger' \in BOOLEAN /\ triggerNews' \in BOOLEAN
      BY <2>1, <3>1 DEF CallTrigger, TriggerBecomes, FlagTypes
    <3> QED
      BY <2>1, <3>2 DEF CallTrigger, FlagTypes, shownPkVars, settingVars
  <2>2. CASE StoreTrigger(t)
    <3>1. pkJobs[t].saw \in BOOLEAN
      BY DEF ThreadTypes, PkJob
    <3>2. overtakenRead' \in BOOLEAN
      BY <2>2 DEF StoreTrigger
    <3> QED
      BY <2>2, <3>1, <3>2 DEF StoreTrigger, FlagTypes, shownPkVars, settingVars
  <2>3. CASE UNCHANGED <<bootVars, wantsDownloads>> /\ report' \in BOOLEAN
    BY <2>3 DEF FlagTypes, bootVars
  <2> QED
    BY <1>3, <2>1, <2>2, <2>3
    DEF PkStarts, RunPrepareUpdate, StartPkJob, PkThreadStep, PkCallFails, AddUpdates, CheckPrepared, GetToDownload, DownloadRuns,
        MarkDownloaded, ReadPrepared, WritePrepared, PrepareEnds, LookAtTrigger, QueryTrigger, shownPkVars, settingVars, FlagTypes
<1>4. CASE UNCHANGED pkVars
  BY <1>4 DEF pkVars, bootVars, settingVars, shownPkVars, FlagTypes
<1> QED
  BY <1>1, <1>2, <1>3, <1>4 DEF PkSteps

(* The steps that change what is shown, or what was listed.                  *)
Sizes == {"unlisted", "unknown", "some", "zero"}
Shows(t) == PkCallFails(t) \/ AddUpdates(t) \/ CheckPrepared(t) \/ MarkDownloaded(t)

LEMMA OnlyTheseShow ==
    ASSUME PkSteps
    PROVE  \/ UNCHANGED <<size, listed>> \/ GetDetails \/ \E t \in PkThreads : Shows(t)
<1>1. CASE PkWorld
  BY <1>1 DEF PkWorld, UpdatesChange, OtherClient, SettingChanges, ProxyChanged, shownPkVars
<1>2. CASE PkMain
  BY <1>2 DEF PkMain, PreparedChanged, TriggerChanged, RefineSizes, RefineReturns, shownPkVars
<1>3. ASSUME NEW t \in PkThreads, PkStarts(t) \/ PkThreadStep(t) PROVE UNCHANGED <<size, listed>> \/ Shows(t)
  BY <1>3
  DEF Shows, PkStarts, RunPrepareUpdate, StartPkJob, PkThreadStep, GetToDownload, DownloadRuns,
      ReadPrepared, WritePrepared, PrepareEnds, LookAtTrigger, CallTrigger, QueryTrigger, StoreTrigger, shownPkVars
<1>4. CASE UNCHANGED pkVars
  BY <1>4 DEF pkVars, shownPkVars
<1> QED
  BY <1>1, <1>2, <1>3, <1>4 DEF PkSteps

LEMMA ListedOf ==
    ASSUME NEW t \in PkThreads, NEW list, ListedUpdates(t, list)
    PROVE  IF pkJobs[t].kind = "list" THEN listed' = list ELSE listed' = listed
BY DEF ListedUpdates

LEMMA CheckedSizes ==
    ASSUME ShownTypes, ThreadTypes, NEW t \in PkThreads, CheckPrepared(t)
    PROVE  /\ size' \in [PkUpdates -> Sizes] /\ \A u \in PkUpdates : size[u] # "zero" => size'[u] # "zero"
           /\ prepFile = NoFile => \E u \in pkJobs[t].list : size'[u] # "zero"
<1>1. CASE prepFile = NoFile
  <2>1. PICK u \in pkJobs[t].list : size' = [size EXCEPT ![u] = "some"]
    BY <1>1 DEF CheckPrepared
  <2>2. u \in PkUpdates
    BY DEF ThreadTypes, PkJob
  <2> QED
    BY <2>1, <2>2 DEF ShownTypes, Sizes
<1>2. CASE prepFile # NoFile
  BY <1>2 DEF CheckPrepared, ShownTypes, Sizes
<1> QED
  BY <1>1, <1>2

LEMMA ShownStays ==
    ASSUME FileTypes, ShownTypes, ThreadTypes, PkSteps
    PROVE  ShownTypes'
<1>1. CASE UNCHANGED <<size, listed>>
  BY <1>1 DEF ShownTypes
<1>2. CASE GetDetails
  <2>1. size' = size \/ size' = [u \in PkUpdates |-> Sized(u)]
    BY <1>2 DEF GetDetails
  <2>2. \A u \in PkUpdates : Sized(u) \in Sizes
    BY DEF Sized, ShownTypes, Sizes
  <2>3. listed' = listed
    BY <1>2 DEF GetDetails
  <2> QED
    BY <2>1, <2>2, <2>3 DEF ShownTypes, Sizes
<1>3. ASSUME NEW t \in PkThreads, Shows(t) PROVE ShownTypes'
  <2>0. pkJobs[t].list \in SUBSET PkUpdates /\ known \in SUBSET PkUpdates
    BY DEF ThreadTypes, PkJob, FileTypes
  <2>1. CASE PkCallFails(t)
    BY <2>1 DEF PkCallFails, ShownTypes
  <2>2. CASE AddUpdates(t)
    <3>1. listed' = listed \/ listed' = known
      BY <2>2, ListedOf DEF AddUpdates
    <3>2. size' \in [PkUpdates -> Sizes]
      BY <2>2 DEF AddUpdates, ShownTypes, Sizes
    <3> QED
      BY <2>0, <3>1, <3>2 DEF ShownTypes, Sizes
  <2>3. CASE CheckPrepared(t)
    <3>1. listed' = listed \/ listed' = pkJobs[t].list
      BY <2>3, ListedOf DEF CheckPrepared
    <3> QED
      BY <2>0, <2>3, <3>1, CheckedSizes DEF ShownTypes, Sizes
  <2>4. CASE MarkDownloaded(t)
    BY <2>4 DEF MarkDownloaded, ShownTypes
  <2> QED
    BY <1>3, <2>1, <2>2, <2>3, <2>4 DEF Shows
<1> QED
  BY <1>1, <1>2, <1>3, OnlyTheseShow

LEMMA RefineStays ==
    ASSUME FileTypes, RefineTypes, PkSteps
    PROVE  RefineTypes'
<1>1. CASE refineCall' = refineCall
  BY <1>1 DEF RefineTypes
<1>2. CASE RefineSizes
  <2>1. {u \in PkUpdates : size[u] = "unknown"} \in SUBSET PkUpdates
    OBVIOUS
  <2> QED
    BY <1>2, <2>1 DEF RefineSizes, RefineTypes
<1>3. CASE GetDetails
  BY <1>3 DEF GetDetails, RefineTypes
<1>4. CASE RefineReturns
  BY <1>4 DEF RefineReturns, RefineTypes
<1>5. ASSUME NEW t \in PkThreads, PkStarts(t) \/ PkThreadStep(t) PROVE refineCall' = refineCall
  BY <1>5
  DEF PkStarts, RunPrepareUpdate, StartPkJob, PkThreadStep, PkCallFails, AddUpdates, CheckPrepared, GetToDownload, DownloadRuns,
      MarkDownloaded, ReadPrepared, WritePrepared, PrepareEnds, LookAtTrigger, CallTrigger, QueryTrigger, StoreTrigger
<1> QED
  BY <1>1, <1>2, <1>3, <1>4, <1>5
  DEF PkSteps, PkWorld, PkMain, UpdatesChange, OtherClient, SettingChanges, ProxyChanged, PreparedChanged, TriggerChanged, pkVars

(* The events of the monitor and the timer.                                  *)
LEMMA NewsAppended ==
    ASSUME prepNews \in Seq(News), NEW event \in News, prepNews' = Append(prepNews, event)
    PROVE  prepNews' \in Seq(News) /\ prepNews' # <<>> /\ prepNews'[Len(prepNews')] = event
BY AppendProperties

LEMMA NewsTaken ==
    ASSUME prepNews \in Seq(News), prepNews # <<>>, prepNews' = Tail(prepNews)
    PROVE  /\ prepNews' \in Seq(News)
           /\ prepNews' # <<>> => prepNews'[Len(prepNews')] = prepNews[Len(prepNews)]
           /\ prepNews' = <<>> => Head(prepNews) = prepNews[Len(prepNews)]
<1>1. prepNews' \in Seq(News) /\ Len(prepNews') = Len(prepNews) - 1
      /\ \A i \in 1..Len(prepNews') : prepNews'[i] = prepNews[i + 1]
  BY HeadTailProperties
<1>2. Len(prepNews) \in Nat \ {0} /\ Head(prepNews) = prepNews[1]
  BY EmptySeq
<1>3. CASE prepNews' = <<>>
  <2>0. Len(prepNews') = 0
    BY <1>3, EmptySeq
  <2>1. Len(prepNews) = 1
    BY <1>1, <1>2, <2>0
  <2> QED
    BY <1>1, <1>2, <1>3, <2>1
<1>4. CASE prepNews' # <<>>
  <2>1. Len(prepNews') \in Nat /\ Len(prepNews') # 0
    BY <1>1, <1>4, EmptySeq
  <2>2. Len(prepNews') \in 1..Len(prepNews') /\ Len(prepNews') + 1 = Len(prepNews)
    BY <1>1, <1>2, <2>1
  <2> QED
    BY <1>1, <1>4, <2>2
<1> QED
  BY <1>3, <1>4

LEMMA FileIsNone ==
    ASSUME NEW updates \in SUBSET PkUpdates
    PROVE  updates # NoFile
BY PkAssumption

NewsFit == NewsTypes /\ NewsInv

LEMMA NewsStays ==
    ASSUME FileTypes, ThreadTypes, NewsFit, PkSteps
    PROVE  NewsFit'
<1>0. prepNews \in Seq(News) /\ autoTimer \in BOOLEAN
  BY DEF NewsFit, NewsTypes
<1>1. CASE UNCHANGED <<prepNews, prepFile>> /\ (autoTimer' = autoTimer \/ autoTimer' = FALSE)
  <2>1. NewsTypes'
    BY <1>0, <1>1 DEF NewsTypes
  <2>2. TimerOnlyWithoutFile'
    <3>1. autoTimer' => autoTimer
      BY <1>1
    <3> QED
      BY <1>1, <3>1 DEF NewsFit, NewsInv, TimerOnlyWithoutFile
  <2>3. prepNews' # <<>> => (prepNews'[Len(prepNews')] = "deleted" <=> prepFile' = NoFile)
    BY <1>1 DEF NewsFit, NewsInv
  <2> QED
    BY <1>0, <1>1, <2>1, <2>2, <2>3 DEF NewsFit, NewsTypes, NewsInv, News
<1>2. ASSUME NEW event \in News, prepNews' = Append(prepNews, event), event = "deleted" <=> prepFile' = NoFile, UNCHANGED autoTimer
      PROVE  NewsFit'
  <2>1. prepNews' \in Seq(News) /\ prepNews' # <<>> /\ prepNews'[Len(prepNews')] = event
    BY <1>0, <1>2, NewsAppended
  <2> QED
    BY <1>0, <1>2, <2>1 DEF NewsFit, NewsTypes, NewsInv, TimerOnlyWithoutFile, News
<1>3. "deleted" \in News /\ "written" \in News /\ "deleted" # "written"
  BY DEF News
<1>4. CASE UpdatesChange
  <2>1. prepFile' = NoFile /\ UNCHANGED autoTimer
    BY <1>4 DEF UpdatesChange, cacheVars
  <2>2. CASE prepFile = NoFile
    BY <1>1, <1>4, <2>1, <2>2 DEF UpdatesChange
  <2>3. CASE prepFile # NoFile
    <3>1. prepNews' = Append(prepNews, "deleted")
      BY <1>4, <2>3 DEF UpdatesChange
    <3> QED
      BY <1>2, <1>3, <2>1, <3>1
  <2> QED
    BY <2>2, <2>3
<1>5. CASE OtherClient
  <2>0. UNCHANGED autoTimer
    BY <1>5 DEF OtherClient, cacheVars
  <2>1. CASE prepFile' = NoFile /\ prepNews' = Append(prepNews, "deleted")
    BY <1>2, <1>3, <2>0, <2>1
  <2>2. CASE prepFile' = known /\ prepNews' = Append(prepNews, "written")
    <3>1. prepFile' # NoFile
      BY <2>2, FileIsNone DEF FileTypes
    <3> QED
      BY <1>2, <1>3, <2>0, <2>2, <3>1
  <2> QED
    BY <1>1, <1>5, <2>0, <2>1, <2>2 DEF OtherClient
<1>6. CASE PreparedChanged
  <2>1. prepNews # <<>> /\ prepNews' = Tail(prepNews) /\ UNCHANGED prepFile
    BY <1>6 DEF PreparedChanged
  <2>2. prepNews' \in Seq(News) /\ (prepNews' # <<>> => prepNews'[Len(prepNews')] = prepNews[Len(prepNews)])
        /\ (prepNews' = <<>> => Head(prepNews) = prepNews[Len(prepNews)])
    BY <1>0, <2>1, NewsTaken
  <2>3. (prepNews[Len(prepNews)] = "deleted" <=> prepFile = NoFile)
    BY <2>1 DEF NewsFit, NewsInv
  <2>4. autoTimer' \in BOOLEAN /\ (autoTimer' => Head(prepNews) = "deleted")
    BY <1>6 DEF PreparedChanged
  <2> QED
    BY <2>1, <2>2, <2>3, <2>4 DEF NewsFit, NewsTypes, NewsInv, TimerOnlyWithoutFile, News
<1>7. ASSUME NEW t \in PkThreads, DownloadRuns(t) PROVE NewsFit'
  <2>0. UNCHANGED autoTimer
    BY <1>7 DEF DownloadRuns, cacheVars
  <2>1. CASE prepFile' = pkJobs[t].got /\ prepNews' = Append(prepNews, "written")
    <3>1. pkJobs[t].got \in SUBSET PkUpdates
      BY DEF ThreadTypes, PkJob
    <3>2. prepFile' # NoFile
      BY <2>1, <3>1, FileIsNone
    <3> QED
      BY <1>2, <1>3, <2>0, <2>1, <3>2
  <2> QED
    BY <1>1, <1>7, <2>0, <2>1 DEF DownloadRuns
<1>8. ASSUME NEW t \in PkThreads, PkStarts(t) \/ PkThreadStep(t) PROVE NewsFit'
  <2>1. DownloadRuns(t) \/ (UNCHANGED <<prepNews, prepFile>> /\ (autoTimer' = autoTimer \/ autoTimer' = FALSE))
    BY <1>8
    DEF PkStarts, RunPrepareUpdate, StartPkJob, PkThreadStep, PkCallFails, AddUpdates, CheckPrepared, GetToDownload,
        MarkDownloaded, ReadPrepared, WritePrepared, PrepareEnds, LookAtTrigger, CallTrigger, QueryTrigger, StoreTrigger, daemonVars, cacheVars
  <2> QED
    BY <1>1, <1>7, <2>1
<1>9. CASE SettingChanges \/ ProxyChanged \/ TriggerChanged \/ RefineSizes \/ GetDetails \/ RefineReturns \/ UNCHANGED pkVars
  <2>1. UNCHANGED <<prepNews, prepFile, autoTimer>>
    BY <1>9 DEF SettingChanges, ProxyChanged, TriggerChanged, RefineSizes, GetDetails, RefineReturns, pkVars, daemonVars, cacheVars
  <2> QED
    BY <1>1, <2>1
<1> QED
  BY <1>4, <1>5, <1>6, <1>8, <1>9 DEF PkSteps, PkWorld, PkMain

(* What the plugin knows of the trigger: whoever changes it leaves an event, *)
(* and whoever stores what it read says whether that was old.                *)
LEMMA TriggerNews ==
    ASSUME FlagTypes, TriggerInv, NEW b \in BOOLEAN, TriggerBecomes(b), UNCHANGED <<isTriggered, everRefreshed, overtakenRead>>
    PROVE  TriggerInv'
BY DEF FlagTypes, TriggerInv, TriggerBecomes

LEMMA TriggerStays ==
    ASSUME FlagTypes, ThreadTypes, TriggerInv, PkSteps
    PROVE  TriggerInv'
<1>1. CASE UNCHANGED bootVars
  BY <1>1 DEF bootVars, TriggerInv
<1>2. CASE UpdatesChange
  BY <1>2, TriggerNews DEF UpdatesChange
<1>3. CASE OtherClient
  <2>1. UNCHANGED <<isTriggered, everRefreshed, overtakenRead>>
    BY <1>3 DEF OtherClient
  <2>2. TriggerBecomes(FALSE) \/ TriggerBecomes(~trigger) \/ UNCHANGED bootVars
    BY <1>3 DEF OtherClient, bootVars
  <2>3. FALSE \in BOOLEAN /\ (~trigger) \in BOOLEAN
    OBVIOUS
  <2> QED
    BY <1>1, <2>1, <2>2, <2>3, TriggerNews
<1>4. CASE TriggerChanged
  BY <1>4 DEF TriggerChanged, TriggerInv
<1>5. ASSUME NEW t \in PkThreads, PkStarts(t) \/ PkThreadStep(t) PROVE TriggerInv'
  <2>1. CASE CallTrigger(t)
    <3>1. (pkJobs[t].kind = "update") \in BOOLEAN
      OBVIOUS
    <3> QED
      BY <2>1, <3>1, TriggerNews DEF CallTrigger
  <2>2. CASE StoreTrigger(t)
    BY <2>2 DEF StoreTrigger, TriggerInv
  <2> QED
    BY <1>1, <1>5, <2>1, <2>2
    DEF PkStarts, RunPrepareUpdate, StartPkJob, PkThreadStep, PkCallFails, AddUpdates, CheckPrepared, GetToDownload, DownloadRuns,
        MarkDownloaded, ReadPrepared, WritePrepared, PrepareEnds, LookAtTrigger, QueryTrigger
<1> QED
  BY <1>1, <1>2, <1>3, <1>4, <1>5
  DEF PkSteps, PkWorld, PkMain, SettingChanges, ProxyChanged, PreparedChanged, RefineSizes, GetDetails, RefineReturns, pkVars

(* A list is due, or the last one offers a download.                         *)
Lists(t) == pkJobs[t].kind = "list"

LEMMA OffersStay ==
    ASSUME OfferInv, listed' = {} \/ listed' = listed, ShownTypes,
           \A u \in PkUpdates : size[u] # "zero" => size'[u] # "zero",
           prepFile' = prepFile \/ prepNews' # <<>>, ListDue => ListDue'
    PROVE  OfferInv'
<1>1. CASE ListDue' \/ listed' = {}
  BY <1>1 DEF OfferInv
<1>2. CASE ~ListDue' /\ listed' = listed
  <2>1. ~ListDue /\ prepFile' = prepFile
    BY <1>2 DEF ListDue
  <2>2. CASE listed = {} \/ prepFile # NoFile
    BY <1>2, <2>1, <2>2 DEF OfferInv
  <2>3. CASE \E u \in listed : size[u] # "zero"
    <3>1. PICK u \in listed : size[u] # "zero"
      BY <2>3
    <3>2. size'[u] # "zero"
      BY <3>1 DEF ShownTypes
    <3> QED
      BY <1>2, <3>2 DEF OfferInv
  <2> QED
    BY <2>1, <2>2, <2>3 DEF OfferInv
<1> QED
  BY <1>1, <1>2

LEMMA OfferOfThread ==
    ASSUME FileTypes, NewsTypes, FlagTypes, ShownTypes, ThreadTypes, ListStages, OfferInv, NEW t \in PkThreads, PkThreadStep(t)
    PROVE  OfferInv'
<1>1. CASE Lists(t)
  <2>0. pkJobs[t].at = "start" \/ pkJobs[t].at = "check"
    BY <1>1 DEF Lists, ListStages
  <2>1. CASE PkCallFails(t)
    <3>1. listed' = {}
      BY <1>1, <2>1 DEF Lists, PkCallFails, Does, Prepares
    <3> QED
      BY <3>1 DEF OfferInv
  <2>2. CASE AddUpdates(t)
    <3>1. \A u \in PkUpdates : size[u] # "zero" => size'[u] # "zero"
      BY <2>2 DEF AddUpdates, ShownTypes
    <3>2. CASE known # {} /\ \A u \in known : size[u] = "zero"
      <4> DEFINE job == [pkJobs[t] EXCEPT !.at = "check", !.list = known]
      <4>1. PkGoes(t, job)
        BY <2>2, <3>2 DEF AddUpdates
      <4>2. pkJobs[t] \in PkJob /\ "check" \in Stages /\ known \in SUBSET PkUpdates
        BY DEF ThreadTypes, Stages, FileTypes
      <4>3. job \in PkJob /\ job.kind = pkJobs[t].kind
        BY <4>2, PkJobWithList
      <4> HIDE DEF job
      <4>4. pkJobs'[t] = job
        BY <4>1, <4>3, PkGoesOn
      <4> QED
        BY <1>1, <4>3, <4>4 DEF OfferInv, ListDue, Lists
    <3>3. CASE ~(known # {} /\ \A u \in known : size[u] = "zero")
      <4>1. listed' = known
        BY <1>1, <2>2, <3>3, ListedOf DEF AddUpdates, Lists
      <4>2. known \subseteq PkUpdates
        BY DEF FileTypes
      <4>3. known = {} \/ \E u \in known : size'[u] # "zero"
        BY <3>1, <3>3, <4>2
      <4> QED
        BY <4>1, <4>3 DEF OfferInv
    <3> QED
      BY <3>2, <3>3
  <2>3. CASE CheckPrepared(t)
    <3>1. listed' = pkJobs[t].list /\ prepFile' = prepFile
      BY <1>1, <2>3, ListedOf DEF CheckPrepared, Lists, daemonVars
    <3>2. prepFile = NoFile => \E u \in pkJobs[t].list : size'[u] # "zero"
      BY <2>3, CheckedSizes
    <3> QED
      BY <3>1, <3>2 DEF OfferInv
  <2> QED
    BY <1>1, <2>0, <2>1, <2>2, <2>3
    DEF Lists, PkThreadStep, GetToDownload, DownloadRuns, MarkDownloaded, ReadPrepared, WritePrepared, PrepareEnds, LookAtTrigger, CallTrigger,
        QueryTrigger, StoreTrigger, Does, Prepares
<1>2. CASE ~Lists(t)
  <2>1. PICK job \in PkJob : Goes6(t, job)
    BY ThreadGoesOn
  <2>2. \A s \in PkThreads \ {t} : pkJobs'[s] = pkJobs[s]
    BY <2>1, PkGoesOn DEF Goes6
  <2>3. (\E s \in PkThreads : pkJobs[s].kind = "list") => \E s \in PkThreads : pkJobs'[s].kind = "list"
    BY <1>2, <2>2 DEF Lists
  <2>4. CASE report'
    BY <2>4 DEF OfferInv, ListDue
  <2>5. CASE DownloadRuns(t)
    <3>1. listed' = listed /\ size' = size /\ report' = report
      BY <2>5 DEF DownloadRuns, shownPkVars
    <3>2. (prepFile' = prepFile /\ prepNews' = prepNews) \/ prepNews' = Append(prepNews, "written")
      BY <2>5 DEF DownloadRuns
    <3>3. prepNews' = Append(prepNews, "written") => prepNews' # <<>>
      BY NewsAppended DEF NewsTypes, News
    <3> QED
      BY <2>3, <2>4, <3>1, <3>2, <3>3, OffersStay DEF ListDue
  <2>6. CASE CheckPrepared(t)
    <3>1. listed' = listed /\ report' = report /\ UNCHANGED <<prepFile, prepNews>>
      BY <1>2, <2>6, ListedOf DEF CheckPrepared, Lists, daemonVars
    <3> QED
      BY <2>3, <2>6, <3>1, CheckedSizes, OffersStay DEF ListDue
  <2>7. CASE AddUpdates(t)
    <3>1. listed' = listed /\ report' = report /\ UNCHANGED <<prepFile, prepNews>>
      BY <1>2, <2>7, ListedOf DEF AddUpdates, Lists, daemonVars
    <3>2. \A u \in PkUpdates : size[u] # "zero" => size'[u] # "zero"
      BY <2>7 DEF AddUpdates, ShownTypes
    <3> QED
      BY <2>3, <3>1, <3>2, OffersStay DEF ListDue
  <2>8. CASE UNCHANGED <<listed, size, report, prepFile, prepNews>>
    BY <2>3, <2>8, OffersStay DEF ListDue
  <2>9. CASE PkCallFails(t)
    <3>1. listed' = {} \/ listed' = listed
      BY <2>9 DEF PkCallFails
    <3>2. UNCHANGED <<size, report, prepFile, prepNews>>
      BY <2>9 DEF PkCallFails, daemonVars
    <3> QED
      BY <2>3, <3>1, <3>2, OffersStay DEF ListDue
  <2>10. CASE ReadPrepared(t) \/ WritePrepared(t)
    <3>1. report' \/ report' = report
      BY <2>10 DEF ReadPrepared, WritePrepared, PrepareEnds, FlagTypes
    <3>2. UNCHANGED <<listed, size, prepFile, prepNews>>
      BY <2>10 DEF ReadPrepared, WritePrepared, daemonVars
    <3> QED
      BY <2>4, <2>8, <3>1, <3>2
  <2> QED
    BY <2>4, <2>5, <2>6, <2>7, <2>8, <2>9, <2>10
    DEF PkThreadStep, GetToDownload, MarkDownloaded, LookAtTrigger, CallTrigger,
        QueryTrigger, StoreTrigger, shownPkVars, daemonVars
<1> QED
  BY <1>1, <1>2

LEMMA OfferStays ==
    ASSUME FileTypes, NewsTypes, FlagTypes, ShownTypes, ThreadTypes, ListStages, OfferInv, PkSteps
    PROVE  OfferInv'
<1>1. CASE UpdatesChange \/ PreparedChanged
  BY <1>1 DEF UpdatesChange, PreparedChanged, OfferInv, ListDue
<1>2. CASE OtherClient
  <2>1. UNCHANGED <<size, listed, report, pkJobs>>
    BY <1>2 DEF OtherClient, shownPkVars
  <2>2. UNCHANGED <<prepFile, prepNews>> \/ prepNews' # <<>>
    <3>1. UNCHANGED <<prepFile, prepNews>> \/ prepNews' = Append(prepNews, "deleted") \/ prepNews' = Append(prepNews, "written")
      BY <1>2 DEF OtherClient
    <3>2. ASSUME NEW event \in News, prepNews' = Append(prepNews, event) PROVE prepNews' # <<>>
      BY <3>2, NewsAppended DEF NewsTypes
    <3>3. "deleted" \in News /\ "written" \in News
      BY DEF News
    <3> QED
      BY <3>1, <3>2, <3>3
  <2> QED
    BY <2>1, <2>2, OffersStay DEF ListDue
<1>3. CASE GetDetails
  <2>1. \A u \in PkUpdates : size[u] # "zero" => size'[u] # "zero"
    BY <1>3 DEF GetDetails, Sized
  <2>2. UNCHANGED <<listed, report, pkJobs, prepFile, prepNews>>
    BY <1>3 DEF GetDetails, daemonVars
  <2> QED
    BY <2>1, <2>2, OffersStay DEF ListDue
<1>4. CASE ProxyChanged
  <2>1. UNCHANGED <<size, listed, report, prepFile, prepNews>>
    BY <1>4 DEF ProxyChanged, shownPkVars, daemonVars
  <2>2. ASSUME NEW t \in PkThreads, pkJobs[t].kind = "list" PROVE pkJobs'[t].kind = "list"
    BY <1>4, <2>2 DEF ProxyChanged
  <2> QED
    BY <2>1, <2>2, OffersStay DEF ListDue
<1>5. ASSUME NEW t \in PkThreads, PkStarts(t) PROVE OfferInv'
  <2>1. PICK job \in PkJob : PkGoes(t, job) /\ pkJobs[t].kind = "idle" /\ (report /\ ~report' => job.kind = "list")
    BY <1>5, StartGoesOn DEF PkStarts
  <2>2. pkJobs'[t] = job /\ \A s \in PkThreads \ {t} : pkJobs'[s] = pkJobs[s]
    BY <2>1, PkGoesOn
  <2>3. UNCHANGED <<size, listed, prepFile, prepNews>>
    BY <1>5 DEF PkStarts, RunPrepareUpdate, StartPkJob, shownPkVars, daemonVars
  <2>4. ListDue => ListDue'
    BY <2>1, <2>2, <2>3 DEF ListDue
  <2> QED
    BY <2>3, <2>4, OffersStay
<1>6. CASE SettingChanges \/ TriggerChanged \/ RefineSizes \/ RefineReturns \/ UNCHANGED pkVars
  <2>1. UNCHANGED <<size, listed, report, pkJobs, prepFile, prepNews>>
    BY <1>6 DEF SettingChanges, TriggerChanged, RefineSizes, RefineReturns, pkVars, shownPkVars, daemonVars
  <2> QED
    BY <2>1, OffersStay DEF ListDue
<1> QED
  BY <1>1, <1>2, <1>3, <1>4, <1>5, <1>6, OfferOfThread DEF PkSteps, PkWorld, PkMain

(* When all has settled, something is offered for download if nothing is     *)
(* prepared, the timer waits only while nothing is, and the plugin knows     *)
(* whether the trigger is set: for any number of updates and of threads, and *)
(* however the events of the monitors, the calls of the daemon and the steps *)
(* of the jobs are interleaved (gs_plugin_packagekit_add_updates(),          *)
(* gs_plugin_packagekit_prepared_update_changed_cb(),                        *)
(* gs_plugin_packagekit_refresh_is_triggered()).                             *)
THEOREM OfflineUpdateIsTold == PkSpec => []PkInv
<1>1. PkInit => PkIInv
  <2> SUFFICES ASSUME PkInit PROVE PkIInv
    OBVIOUS
  <2>1. FileTypes
    <3>1. pkEvents \in 0..MaxPkEvents
      BY PkAssumption DEF PkInit
    <3> QED
      BY <3>1 DEF PkInit, FileTypes
  <2>2. NewsFit
    <3>1. <<>> \in Seq(News)
      BY EmptySeq
    <3> QED
      BY <3>1 DEF PkInit, NewsFit, NewsTypes, NewsInv, TimerOnlyWithoutFile, News
  <2>3. FlagTypes /\ RefineTypes
    BY DEF PkInit, FlagTypes, RefineTypes
  <2>4. ShownTypes
    BY DEF PkInit, ShownTypes
  <2>5. \A t \in PkThreads : pkJobs[t] = NoPkJob
    BY DEF PkInit
  <2>6. ThreadTypes /\ ListStages
    BY <2>5, NoPkJobIsOne DEF PkInit, ThreadTypes, ListStages
  <2>7. OfferInv /\ TriggerInv
    BY DEF PkInit, OfferInv, ListDue, TriggerInv
  <2> QED
    BY <2>1, <2>2, <2>3, <2>4, <2>6, <2>7, PkParts DEF PkIInv, NewsFit, NewsTypes, NewsInv, News
<1>2. PkIInv /\ [PkNext]_pkVars => PkIInv'
  <2> SUFFICES ASSUME PkIInv, [PkNext]_pkVars PROVE PkIInv'
    OBVIOUS
  <2>1. PkSteps
    BY DEF PkNext, PkMainStep, PkSteps, PkWorld, PkMain, PkStarts
  <2>2. FileTypes /\ NewsFit /\ FlagTypes /\ ShownTypes /\ ThreadTypes /\ RefineTypes /\ ListStages /\ OfferInv /\ TriggerInv
    BY PkParts DEF PkIInv, NewsFit, NewsTypes, NewsInv, News
  <2>3. FileTypes' /\ ThreadTypes' /\ ListStages' /\ ShownTypes' /\ RefineTypes'
    BY <2>1, <2>2, FilesStay, ThreadsStay, ShownStays, RefineStays
  <2>4. NewsFit' /\ FlagTypes' /\ TriggerInv'
    BY <2>1, <2>2, NewsStays, FlagsStay, TriggerStays
  <2>5. OfferInv'
    BY <2>1, <2>2, OfferStays DEF NewsFit
  <2> QED
    BY <2>3, <2>4, <2>5, PkParts DEF PkIInv, NewsFit, NewsTypes, NewsInv, News
<1>3. PkIInv => PkInv
  <2> SUFFICES ASSUME PkIInv PROVE PkInv
    OBVIOUS
  <2>1. OffersDownload
    BY DEF PkIInv, OfferInv, ListDue, OffersDownload, PkQuiet, Free
  <2>2. TriggerIsKnown
    BY DEF PkIInv, TriggerInv, TriggerIsKnown, PkQuiet
  <2> QED
    BY <2>1, <2>2 DEF PkIInv, NewsInv, PkInv
<1> QED
  BY <1>1, <1>2, <1>3, PTL DEF PkSpec
=============================================================================
