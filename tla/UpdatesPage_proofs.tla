------------------------- MODULE UpdatesPage_proofs -------------------------
(* Proofs about UpdatesChanged: no report of a plugin is forgotten, for any  *)
(* number of threads, reports and jobs, as long as the increment of the      *)
(* counter is not overtaken by the load after it.  And about the updates     *)
(* page, which composes it: it never shows an update twice, for any number   *)
(* of jobs, reports, failures and actions of the user and the shell, and its *)
(* counter and its cache agree with its jobs and its list.                   *)
EXTENDS UpdatesPage, FiniteSetTheorems, FunctionTheorems, TLAPS

(* There is always a number for a new source, whatever is pending and        *)
(* whatever number is remembered.                                            *)
LEMMA NewSourceExists ==
    ASSUME IsFiniteSet(sources)
    PROVE  /\ NewSource \in 1..(Cardinality(sources) + 2)
           /\ NewSource \in Nat \ {0}
           /\ NewSource \notin sources \union {id}
<1> DEFINE used == sources \union {id}
           n == Cardinality(sources)
<1>1. n \in Nat
  BY FS_CardinalityType
<1>2. IsFiniteSet(used) /\ Cardinality(used) \in Nat /\ Cardinality(used) <= n + 1
  <2>1. IsFiniteSet(used)
    BY FS_AddElement
  <2>2. Cardinality(used) = n \/ Cardinality(used) = n + 1
    BY FS_AddElement
  <2> QED
    BY <1>1, <2>1, <2>2
<1>3. IsFiniteSet(1..(n + 2)) /\ Cardinality(1..(n + 2)) = n + 2
  BY <1>1, FS_Interval
<1>4. ~(1..(n + 2) \subseteq used)
  BY <1>1, <1>2, <1>3, FS_Subset
<1>5. \E s \in 1..(n + 2) : s \notin used
  BY <1>4
<1> QED
  BY <1>1, <1>5 DEF NewSource

(* The inductive invariant holds initially.                                  *)
LEMMA LoaderInitInv == LoaderInit => LoaderInv
<1> SUFFICES ASSUME LoaderInit PROVE LoaderInv
  OBVIOUS
<1>1. IsFiniteSet(sources)
  BY FS_EmptySet DEF LoaderInit
<1>2. LoaderTypeOK
  <2>1. 0 \in 0..MaxReports /\ 0 \in 0..0 /\ {} \subseteq Nat \ {0}
    BY UpdatesBoundsAssumption DEF UpdatesBoundsAssumption
  <2> QED
    BY <2>1 DEF LoaderInit, LoaderTypeOK
<1>3. ReportInv
  BY DEF LoaderInit, ReportInv, IdIsAttached
<1> QED
  BY <1>1, <1>2, <1>3 DEF LoaderInv

(* The signal keeps it, however many jobs its receivers start.               *)
LEMMA EmitKeepsLoader ==
    ASSUME LoaderInv, NEW s \in sources, NEW n \in Nat, Emit(s, n)
    PROVE  LoaderInv' /\ active' = active + n
<1> USE DEF LoaderInv
<1>1. IsFiniteSet(sources')
  BY FS_Subset DEF Emit
<1>2. active' = active + n /\ jobs' = jobs + n
  BY DEF Emit, StartJobs, LoaderTypeOK
<1>3. active' \in 0..jobs' /\ jobs' \in Nat
  BY <1>2 DEF LoaderTypeOK
<1>4. LoaderTypeOK'
  BY <1>3 DEF Emit, LoaderTypeOK
<1>5. ReportInv'
  BY DEF Emit, ReportInv, IdIsAttached
<1> QED
  BY <1>1, <1>2, <1>4, <1>5

(* Every step of a thread, a job or a timer keeps it.                        *)
LEMMA LoaderNextInv ==
    ASSUME LoaderInv, [LoaderNext]_loaderVars
    PROVE  LoaderInv'
<1> USE DEF LoaderInv
<1>1. CASE Report
  BY <1>1, UpdatesBoundsAssumption
  DEF UpdatesBoundsAssumption, Report, LoaderTypeOK, ReportInv, IdIsAttached
<1>2. CASE StartJob
  BY <1>2 DEF StartJob, StartJobs, MainIdle, LoaderTypeOK, ReportInv, IdIsAttached
<1>3. CASE EmitSoon
  <2>1. NewSource \in Nat \ {0}
    BY NewSourceExists
  <2>2. IsFiniteSet(sources')
    BY <1>3, FS_Subset, FS_AddElement DEF EmitSoon
  <2> QED
    BY <1>3, <2>1, <2>2 DEF EmitSoon, LoaderTypeOK, ReportInv, IdIsAttached
<1>4. CASE Count
  <2>1. idle' \in 0..reports' /\ active' \in 0..jobs'
    BY <1>4 DEF Count, LoaderTypeOK
  <2>2. /\ late' \in BOOLEAN /\ counted' \in BOOLEAN /\ overtaken' \in BOOLEAN
        /\ late' => overtaken'
        /\ counted' \/ overtaken'
        /\ overtaken => overtaken'
    BY <1>4, UpdatesBoundsAssumption DEF UpdatesBoundsAssumption, Count, LoaderTypeOK
  <2>3. LoaderTypeOK'
    BY <1>4, <2>1, <2>2 DEF Count, LoaderTypeOK
  <2>4. Main \in Threads /\ at'[Main] = "load"
    BY <1>4 DEF Count, LoaderTypeOK, Threads
  <2>5. IsFiniteSet(sources') /\ ReportInv'
    BY <1>4, <2>2, <2>4 DEF Count, ReportInv, IdIsAttached
  <2> QED
    BY <2>3, <2>5
<1>5. CASE LoadActive
  BY <1>5 DEF LoadActive, LoaderTypeOK, ReportInv, IdIsAttached, Threads
<1>6. CASE BecomesVisible
  BY <1>6 DEF BecomesVisible, LoaderTypeOK, ReportInv, IdIsAttached
<1>7. ASSUME NEW t \in Threads, Check(t)
      PROVE  LoaderInv'
  BY <1>7 DEF Check, LoaderTypeOK, ReportInv, IdIsAttached
<1>8. ASSUME NEW t \in Threads, AddTimer(t)
      PROVE  LoaderInv'
  <2>1. NewSource \in Nat \ {0}
    BY NewSourceExists
  <2>2. IsFiniteSet(sources')
    BY <1>8, FS_AddElement DEF AddTimer
  <2> QED
    BY <1>8, <2>1, <2>2 DEF AddTimer, LoaderTypeOK, ReportInv, IdIsAttached
<1>9. ASSUME NEW t \in Threads, ReadCount(t)
      PROVE  LoaderInv'
  BY <1>9 DEF ReadCount, LoaderTypeOK, ReportInv, IdIsAttached
<1>10. ASSUME NEW t \in Threads, TaskFreed(t)
       PROVE  LoaderInv'
  <2>1. LoaderTypeOK'
    BY <1>10 DEF TaskFreed, LoaderTypeOK
  <2>2. active = 1 => at'[t] = "read"
    BY <1>10 DEF TaskFreed, LoaderTypeOK
  <2>3. active # 1 => active' > 0
    BY <1>10 DEF TaskFreed, LoaderTypeOK
  <2>4. IsFiniteSet(sources') /\ ReportInv'
    BY <1>10, <2>2, <2>3 DEF TaskFreed, ReportInv, IdIsAttached
  <2> QED
    BY <2>1, <2>4
<1>11. ASSUME NEW s \in sources, Emit(s, 0)
       PROVE  LoaderInv'
  BY <1>11, EmitKeepsLoader
<1>12. CASE UNCHANGED loaderVars
  BY <1>12 DEF loaderVars, LoaderTypeOK, ReportInv, IdIsAttached
<1> QED
  BY <1>1, <1>2, <1>3, <1>4, <1>5, <1>6, <1>7, <1>8, <1>9, <1>10, <1>11, <1>12
  DEF LoaderNext, SignalStep

(* The number in updates_changed_id is always that of a timer that will      *)
(* fire, whichever thread stored it and whatever another one saw too late, so *)
(* that no report waits for a timer that is gone.                            *)
THEOREM RememberedTimerFires == LoaderSafeSpec => []IdIsAttached
<1>1. LoaderInv => IdIsAttached
  BY DEF LoaderInv, ReportInv
<1> QED
  BY <1>1, LoaderInitInv, LoaderNextInv, PTL DEF LoaderSafeSpec

(* However reports, jobs and threads interleave, a report that was not       *)
(* followed by the signal has a timer once everything is done, for any       *)
(* number of threads, reports and jobs, unless an increment was overtaken.   *)
THEOREM NoReportForgotten == LoaderSafeSpec => []NotForgotten
<1>1. LoaderInv => NotForgotten
  BY DEF LoaderInv, ReportInv, NotForgotten
<1> QED
  BY <1>1, LoaderInitInv, LoaderNextInv, PTL DEF LoaderSafeSpec

-----------------------------------------------------------------------------
(* ---- The updates page ---- *)
(* The jobs a callback starts: one of each kind at most.                     *)
LEMMA NewJobsAreOnePerKind ==
    ASSUME NEW kinds, NEW left
    PROVE  /\ NewJobs(kinds, left) \subseteq PageJob
           /\ \A r \in NewJobs(kinds, left) : r.kind \in kinds
           /\ \A q, r \in NewJobs(kinds, left) : q.kind = r.kind => q = r
<1>1. ASSUME NEW q \in NewJobs(kinds, left), NEW r \in NewJobs(kinds, left),
             q.kind = r.kind
      PROVE  q = r
  <2>1. q \in PageJob /\ r \in PageJob
    BY DEF NewJobs
  <2>2. q.id = r.id /\ q.saw = r.saw
    BY <1>1 DEF NewJobs
  <2>3. q.stopped = r.stopped /\ q.current = r.current
    <3>1. ~q.stopped /\ ~r.stopped /\ (q.current <=> r.current)
      BY <1>1 DEF NewJobs
    <3> QED
      BY <2>1, <3>1 DEF PageJob
  <2> QED
    BY <1>1, <2>1, <2>2, <2>3 DEF PageJob
<1> QED
  BY <1>1 DEF NewJobs

(* How many jobs a load starts.                                              *)
LEMMA LoadCount ==
    Cardinality(LoadKinds) = (IF hasUpgrades THEN 1 ELSE 2)
<1>1. IsFiniteSet({"updates"}) /\ Cardinality({"updates"}) = 1
  BY FS_Singleton
<1>2. Cardinality({"updates"} \union {"upgrades"}) = 2
  BY <1>1, FS_AddElement
<1>3. {"updates"} \union {"upgrades"} = {"updates", "upgrades"}
  OBVIOUS
<1> QED
  BY <1>1, <1>2, <1>3 DEF LoadKinds

(* A load, of whatever callback it is a part, keeps the invariant.           *)
LEMMA LoadKeepsInv ==
    ASSUME PageInv, NEW left \in SUBSET running, Load(left), reports' \in 0..MaxReports
    PROVE  PageInv'
<1>1. CASE actionCnt > 0
  BY <1>1 DEF Load, PageInv, LoadType, LoadInv, Runs
<1>2. CASE actionCnt = 0
  <2> DEFINE new == NewJobs(LoadKinds, left)
  <2>1. /\ running' = left \union new
        /\ shown' = <<>>
        /\ actionCnt' = IF hasUpgrades THEN 1 ELSE 2
    <3>1. running' = left \union new /\ shown' = <<>> /\ actionCnt' = Cardinality(LoadKinds)
      <4>1. ~(actionCnt > 0)
        BY <1>2
      <4> QED
        BY <4>1, Zenon DEF Load
    <3> QED
      BY <3>1, LoadCount
  <2>2. ~Runs("updates") /\ ~Runs("upgrades")
    BY <1>2 DEF PageInv, LoadInv
  <2>3. /\ new \subseteq PageJob
        /\ \A r \in new : r.kind \in LoadKinds
        /\ \A q, r \in new : q.kind = r.kind => q = r
    BY NewJobsAreOnePerKind
  <2>4. LoadType'
    BY <2>1, <2>3 DEF PageInv, LoadType
  <2>5. \A r \in running' : r.kind \in {"updates", "upgrades"} => r \in new
    BY <2>1, <2>2 DEF Runs
  <2>6. Runs("upgrades")' => ~hasUpgrades
    BY <2>3, <2>5 DEF Runs, LoadKinds
  <2>7. \A q, r \in running' :
            q.kind = r.kind /\ q.kind \in {"updates", "upgrades"} => q = r
    BY <2>3, <2>5
  <2>8. Len(shown') <= 1
    BY <2>1
  <2> QED
    BY <2>1, <2>4, <2>6, <2>7, <2>8 DEF PageInv, LoadInv
<1> QED
  BY <1>1, <1>2 DEF PageInv, LoadType

(* So does a callback that leaves the list and the count, and changes the    *)
(* jobs but for those that fill the page.                                    *)
LEMMA OtherJobsKeepInv ==
    ASSUME PageInv, reports' \in 0..MaxReports, UNCHANGED <<shown, actionCnt>>,
           running' \subseteq PageJob,
           \A q, r \in running' :
               q.kind = r.kind /\ q.kind \in {"updates", "upgrades"} => q = r,
           \A r \in running' : r.kind \in {"updates", "upgrades"} => Runs(r.kind)
    PROVE  PageInv'
BY DEF PageInv, LoadType, LoadInv, Runs

(* In particular one in which jobs end.                                      *)
LEMMA FewerJobsKeepInv ==
    ASSUME PageInv, reports' \in 0..MaxReports, UNCHANGED <<shown, actionCnt>>,
           running' \subseteq running
    PROVE  PageInv'
BY DEF PageInv, LoadType, LoadInv, Runs

(* A page switch and a reload either load or leave the list.                 *)
LEMMA SwitchKeepsInv ==
    ASSUME PageInv, NEW valid, NEW inMode, NEW left \in SUBSET running,
           SwitchTo(valid, inMode, left), reports' \in 0..MaxReports
    PROVE  PageInv'
BY LoadKeepsInv, FewerJobsKeepInv DEF SwitchTo

(* A reload is a load or nothing.                                            *)
LEMMA ReloadKeepsInv ==
    ASSUME PageInv, Reload, reports' \in 0..MaxReports
    PROVE  PageInv'
BY LoadKeepsInv, FewerJobsKeepInv DEF Reload

(* Cancelling the refresh keeps the jobs, and the kind of each of them.      *)
LEMMA StopKeepsJobs ==
    ASSUME PageInv
    PROVE  /\ Stop \subseteq PageJob
           /\ \A r \in Stop : r.kind \in {"updates", "upgrades"} => Runs(r.kind)
           /\ \A q, r \in Stop :
                  q.kind = r.kind /\ q.kind \in {"updates", "upgrades"} => q = r
<1> DEFINE stop(r) == IF r.current THEN [r EXCEPT !.stopped = TRUE, !.current = FALSE] ELSE r
<1>1. ASSUME NEW r \in running
      PROVE  stop(r) \in PageJob /\ stop(r).kind = r.kind
  BY DEF PageInv, LoadType, PageJob
<1>2. Stop = {stop(r) : r \in running}
  BY DEF Stop
<1> HIDE DEF stop
<1>3. ASSUME NEW q \in running, NEW r \in running, stop(q).kind = stop(r).kind,
             stop(q).kind \in {"updates", "upgrades"}
      PROVE  stop(q) = stop(r)
  <2>1. q = r
    BY <1>1, <1>3 DEF PageInv, LoadInv
  <2> QED
    BY <2>1
<1> QED
  BY <1>1, <1>2, <1>3 DEF Runs

(* The end of one of the two jobs of a load.                                 *)
LEMMA DecrementKeepsInv ==
    ASSUME PageInv, reports' \in 0..MaxReports, NEW r \in running,
           r.kind \in {"updates", "upgrades"}, running' = running \ {r}, Decrement,
           \/ UNCHANGED shown
           \/ r.kind = "updates" /\ \E v \in 0..MaxReports : shown' = Append(shown, v)
    PROVE  PageInv'
<1>1. actionCnt >= 1 /\ actionCnt' = actionCnt - 1
  BY DEF PageInv, LoadType, LoadInv, Runs, Decrement
<1>2. \A q \in running' : q \in running /\ q # r
  OBVIOUS
<1>3. ~(Runs("updates")' /\ Runs("upgrades")')
  BY <1>2 DEF PageInv, LoadInv, Runs
<1>4. r.kind = "updates" => ~Runs("updates")' /\ shown = <<>>
  BY <1>2 DEF PageInv, LoadInv, Runs
<1>5. r.kind = "upgrades" => ~Runs("upgrades")'
  BY <1>2 DEF PageInv, LoadInv, Runs
<1>6. (Runs("updates")' => Runs("updates")) /\ (Runs("upgrades")' => Runs("upgrades"))
  BY <1>2 DEF Runs
<1>7. Runs(r.kind)
  BY DEF Runs
<1>8. Runs("updates")' \/ Runs("upgrades")' => actionCnt' >= 1
  BY <1>1, <1>4, <1>5, <1>6, <1>7 DEF PageInv, LoadType, LoadInv
<1>9. shown' \in Seq(0..MaxReports) /\ Len(shown') <= 1
  <2>1. CASE UNCHANGED shown
    BY <2>1 DEF PageInv, LoadType, LoadInv
  <2>2. ASSUME NEW v \in 0..MaxReports, r.kind = "updates", shown' = Append(shown, v)
        PROVE  shown' \in Seq(0..MaxReports) /\ Len(shown') <= 1
    <3>1. shown = <<>>
      BY <1>4, <2>2
    <3>2. shown' = <<v>>
      BY <2>2, <3>1
    <3> QED
      BY <3>2
  <2> QED
    BY <2>1, <2>2
<1>10. Runs("updates")' => shown' = <<>>
  BY <1>4, <1>6 DEF PageInv, LoadInv
<1> QED
  BY <1>1, <1>2, <1>3, <1>8, <1>9, <1>10 DEF PageInv, LoadType, LoadInv

-----------------------------------------------------------------------------
(* The number of reports stays in its bound.                                 *)
LEMMA ReportsBounded ==
    ASSUME reports \in 0..MaxReports, [Next]_vars
    PROVE  reports' \in 0..MaxReports
<1>1. CASE Environment
  BY <1>1 DEF Environment, EnterPage, LeavePage, ClickStop, ClickRefresh, ClickUpdate,
     ShellReload, PendingAppsChanged, AllowUpdatesNotify, MonitorNotifies, Callback, EmitSoon
<1>2. CASE LoaderStep
  <2>1. CASE Report
    BY <2>1, UpdatesBoundsAssumption DEF UpdatesBoundsAssumption, Report
  <2>2. CASE StartJob \/ SignalStep \/ \E t \in Threads : TaskFreed(t)
    BY <2>2 DEF StartJob, SignalStep, Count, LoadActive, BecomesVisible, Check, AddTimer,
       ReadCount, TaskFreed
  <2> QED
    BY <1>2, <2>1, <2>2 DEF LoaderStep
<1>3. CASE Answer
  BY <1>3 DEF Answer, Collect, GotUpdates, GotNoUpdates, GotUpgrades, Refreshed,
     NotRefreshed, Updated, Callback, loaderVars
<1>4. CASE \E s \in sources : Changed(s)
  BY <1>4 DEF Changed, Emit
<1>5. CASE UNCHANGED vars
  BY <1>5 DEF vars, loaderVars
<1> QED
  BY <1>1, <1>2, <1>3, <1>4, <1>5 DEF Next

(* No action of the user, the shell or the monitor breaks the invariant.     *)
LEMMA EnvironmentKeepsInv ==
    ASSUME PageInv, Environment, reports' \in 0..MaxReports
    PROVE  PageInv'
<1>1. CASE EnterPage
  BY <1>1, SwitchKeepsInv DEF EnterPage
<1>2. CASE LeavePage \/ PendingAppsChanged \/ AllowUpdatesNotify \/ MonitorNotifies
  BY <1>2, FewerJobsKeepInv
  DEF LeavePage, PendingAppsChanged, AllowUpdatesNotify, MonitorNotifies
<1>3. CASE ClickStop
  BY <1>3, StopKeepsJobs, OtherJobsKeepInv DEF ClickStop, PageInv, LoadType
<1>4. CASE ClickRefresh
  <2> DEFINE new == NewJobs({"refresh"}, running)
  <2>1. new \subseteq PageJob /\ \A r \in new : r.kind = "refresh"
    BY NewJobsAreOnePerKind
  <2>2. running' = Stop \union new /\ UNCHANGED <<shown, actionCnt>>
    BY <1>4 DEF ClickRefresh
  <2>3. \A r \in running' : r.kind \in {"updates", "upgrades"} => r \in Stop
    BY <2>1, <2>2
  <2> QED
    BY <2>1, <2>2, <2>3, StopKeepsJobs, OtherJobsKeepInv
<1>5. CASE ShellReload
  BY <1>5, ReloadKeepsInv DEF ShellReload
<1>6. CASE ClickUpdate
  <2> DEFINE new == NewJobs({"update"}, running)
  <2>1. new \subseteq PageJob /\ \A r \in new : r.kind = "update"
    BY NewJobsAreOnePerKind
  <2>2. running' = running \union new /\ UNCHANGED <<shown, actionCnt>>
    BY <1>6 DEF ClickUpdate
  <2>3. \A r \in running' : r.kind \in {"updates", "upgrades"} => r \in running
    BY <2>1, <2>2
  <2>4. \A r \in running' : r.kind \in {"updates", "upgrades"} => Runs(r.kind)
    BY <2>3 DEF Runs
  <2>5. \A q, r \in running' :
            q.kind = r.kind /\ q.kind \in {"updates", "upgrades"} => q = r
    BY <2>3 DEF PageInv, LoadInv
  <2> QED
    BY <2>1, <2>2, <2>4, <2>5, OtherJobsKeepInv DEF PageInv, LoadType
<1> QED
  BY <1>1, <1>2, <1>3, <1>4, <1>5, <1>6 DEF Environment

(* No answer of a job breaks it.                                             *)
LEMMA AnswerKeepsInv ==
    ASSUME PageInv, Answer, reports' \in 0..MaxReports
    PROVE  PageInv'
<1> SUFFICES ASSUME NEW r \in running,
                    \/ Collect(r) \/ GotUpdates(r) \/ GotNoUpdates(r) \/ GotUpgrades(r)
                    \/ Refreshed(r) \/ NotRefreshed(r) \/ Updated(r)
             PROVE  PageInv'
  BY DEF Answer
<1>1. CASE Collect(r)
  <2> DEFINE new == [r EXCEPT !.saw = reports]
  <2>1. r \in PageJob /\ new \in PageJob /\ new.kind = r.kind
    BY UpdatesBoundsAssumption
    DEF UpdatesBoundsAssumption, PageInv, LoadType, PageJob, Unread
  <2>2. running' = (running \ {r}) \union {new} /\ UNCHANGED <<shown, actionCnt>>
    BY <1>1 DEF Collect
  <2>3. \A q \in running' : q.kind \in {"updates", "upgrades"} => Runs(q.kind)
    BY <2>1, <2>2 DEF Runs
  <2>4. \A p, q \in running' :
            p.kind = q.kind /\ p.kind \in {"updates", "upgrades"} => p = q
    BY <2>1, <2>2 DEF PageInv, LoadInv
  <2> QED
    BY <2>1, <2>2, <2>3, <2>4, OtherJobsKeepInv DEF PageInv, LoadType
<1>2. CASE GotUpdates(r)
  <2>1. r.kind = "updates" /\ r.saw \in 0..MaxReports
    BY <1>2, UpdatesBoundsAssumption
    DEF UpdatesBoundsAssumption, GotUpdates, OfKind, PageInv, LoadType, PageJob, Unread
  <2> QED
    BY <1>2, <2>1, DecrementKeepsInv DEF GotUpdates
<1>3. CASE GotUpgrades(r)
  BY <1>3, DecrementKeepsInv DEF GotUpgrades, OfKind
<1>4. CASE GotNoUpdates(r) \/ NotRefreshed(r) \/ Updated(r)
  BY <1>4, FewerJobsKeepInv DEF GotNoUpdates, NotRefreshed, Updated
<1>5. CASE Refreshed(r)
  BY <1>5, SwitchKeepsInv DEF Refreshed
<1> QED
  BY <1>1, <1>2, <1>3, <1>4, <1>5

(* The inductive step.                                                       *)
LEMMA PageNextInv == PageInv /\ [Next]_vars => PageInv'
<1> SUFFICES ASSUME PageInv, [Next]_vars PROVE PageInv'
  OBVIOUS
<1>1. reports' \in 0..MaxReports
  BY ReportsBounded DEF PageInv, LoadType
<1>2. CASE Environment
  BY <1>1, <1>2, EnvironmentKeepsInv
<1>3. CASE Answer
  BY <1>1, <1>3, AnswerKeepsInv
<1>4. CASE LoaderStep \/ UNCHANGED vars
  BY <1>1, <1>4, FewerJobsKeepInv DEF LoaderStep, vars, pageVars
<1>5. CASE \E s \in sources : Changed(s)
  BY <1>1, <1>5, ReloadKeepsInv, FewerJobsKeepInv DEF Changed
<1> QED
  BY <1>2, <1>3, <1>4, <1>5 DEF Next

(* Initially nothing runs and nothing is shown.                              *)
LEMMA PageInitInv == Init => PageInv
BY UpdatesBoundsAssumption
DEF UpdatesBoundsAssumption, Init, LoaderInit, PageInv, LoadType, LoadInv, Runs

(* Whatever loads, reloads, refreshes, page changes and signals overlap, the *)
(* answers of two loads are never added to the same list.                    *)
THEOREM NoUpdateShownTwice == SafeSpec => []NothingShownTwice
<1>1. PageInv => NothingShownTwice
  BY DEF PageInv, LoadInv, NothingShownTwice
<1> QED
  BY <1>1, PageInitInv, PageNextInv, PTL DEF SafeSpec

-----------------------------------------------------------------------------
(* The number of jobs a callback starts is one, two or none.                 *)
LEMMA StartsAreFew ==
    /\ LoadStarts \in Nat /\ ReloadStarts \in Nat /\ ChangedStarts \in Nat
    /\ \A valid, inMode : SwitchStarts(valid, inMode) \in Nat
<1>1. LoadStarts \in Nat
  BY LoadCount DEF LoadStarts
<1> QED
  BY <1>1 DEF ReloadStarts, ChangedStarts, SwitchStarts

(* A callback of the page does to the loader what the jobs it starts do.     *)
LEMMA CallbackKeepsLoader ==
    ASSUME LoaderInv, NEW n \in Nat, Callback(n)
    PROVE  LoaderInv' /\ active' = active + n
<1>1. active' = active + n /\ jobs' = jobs + n
  BY DEF Callback, StartJobs, LoaderInv, LoaderTypeOK
<1>2. LoaderTypeOK'
  BY <1>1 DEF Callback, LoaderInv, LoaderTypeOK
<1>3. ReportInv' /\ IsFiniteSet(sources')
  BY <1>1 DEF Callback, LoaderInv, LoaderTypeOK, ReportInv, IdIsAttached
<1> QED
  BY <1>1, <1>2, <1>3 DEF LoaderInv

(* So the loader keeps its own invariant under the page.                     *)
LEMMA PageKeepsLoader ==
    ASSUME LoaderInv, [Next]_vars
    PROVE  LoaderInv'
<1>1. CASE Environment
  <2>1. CASE MonitorNotifies
    BY <2>1, LoaderNextInv DEF MonitorNotifies, LoaderNext
  <2>2. CASE ~MonitorNotifies
    <3>1. PICK n \in Nat : Callback(n)
      BY <1>1, <2>2, StartsAreFew
      DEF Environment, EnterPage, LeavePage, ClickStop, ClickRefresh, ClickUpdate,
          ShellReload, PendingAppsChanged, AllowUpdatesNotify
    <3> QED
      BY <3>1, CallbackKeepsLoader
  <2> QED
    BY <2>1, <2>2
<1>2. CASE LoaderStep
  BY <1>2, LoaderNextInv DEF LoaderStep, LoaderNext
<1>3. CASE Answer
  <2>1. UNCHANGED loaderVars \/ \E n \in Nat : Callback(n)
    BY <1>3, StartsAreFew
    DEF Answer, Collect, GotUpdates, GotNoUpdates, GotUpgrades, Refreshed, NotRefreshed,
        Updated
  <2> QED
    BY <2>1, CallbackKeepsLoader, LoaderNextInv
<1>4. CASE \E s \in sources : Changed(s)
  BY <1>4, EmitKeepsLoader, StartsAreFew DEF Changed
<1>5. CASE UNCHANGED vars
  BY <1>5, LoaderNextInv DEF vars
<1> QED
  BY <1>1, <1>2, <1>3, <1>4, <1>5 DEF Next

(* There are no more new jobs than kinds of them.                            *)
LEMMA NewJobsAreFew ==
    ASSUME NEW kinds, NEW left, IsFiniteSet(kinds)
    PROVE  /\ IsFiniteSet(NewJobs(kinds, left))
           /\ Cardinality(NewJobs(kinds, left)) <= Cardinality(kinds)
<1> DEFINE new == NewJobs(kinds, left)
           kindOf == [r \in new |-> r.kind]
<1>1. kindOf \in [new -> kinds]
  BY NewJobsAreOnePerKind
<1>2. \A q, r \in new : kindOf[q] = kindOf[r] => q = r
  BY NewJobsAreOnePerKind
<1>3. kindOf \in Injection(new, kinds)
  BY <1>1, <1>2 DEF Injection, IsInjective
<1> QED
  BY <1>3, FS_Injection

(* Jobs that the loader counts as it starts them are still no more than it   *)
(* has counted.                                                              *)
LEMMA CountedJobsKeepInv ==
    ASSUME JobsInv, active \in Nat, NEW left, IsFiniteSet(left),
           Cardinality(left) <= Cardinality(running),
           NEW new, IsFiniteSet(new), Cardinality(new) <= active' - active,
           active' \in Nat, running' = left \union new
    PROVE  JobsInv'
<1>1. IsFiniteSet(left \cap new) /\ Cardinality(left \cap new) \in Nat
  BY FS_Intersection, FS_CardinalityType
<1>2. /\ Cardinality(left) \in Nat /\ Cardinality(new) \in Nat
      /\ Cardinality(running) \in Nat
  BY FS_CardinalityType DEF JobsInv
<1>3. /\ IsFiniteSet(left \union new)
      /\ Cardinality(left \union new)
             = Cardinality(left) + Cardinality(new) - Cardinality(left \cap new)
  BY FS_Union
<1> QED
  BY <1>1, <1>2, <1>3 DEF JobsInv

(* Fewer jobs are no more either.                                            *)
LEMMA EndedJobsKeepInv ==
    ASSUME JobsInv, active \in Nat, active' \in Nat, active <= active',
           running' \subseteq running
    PROVE  JobsInv'
<1>1. IsFiniteSet(running') /\ Cardinality(running') <= Cardinality(running)
  BY FS_Subset DEF JobsInv
<1>2. Cardinality(running') \in Nat /\ Cardinality(running) \in Nat
  BY <1>1, FS_CardinalityType DEF JobsInv
<1> QED
  BY <1>1, <1>2 DEF JobsInv

(* A load starts the jobs that it counts.                                    *)
LEMMA LoadKeepsJobs ==
    ASSUME JobsInv, active \in Nat, NEW left \in SUBSET running, Load(left),
           active' = active + LoadStarts
    PROVE  JobsInv'
<1>1. CASE actionCnt > 0
  BY <1>1, EndedJobsKeepInv DEF Load, LoadStarts
<1>2. CASE ~(actionCnt > 0)
  <2>1. running' = left \union NewJobs(LoadKinds, left)
    BY <1>2 DEF Load
  <2>2. active' = active + Cardinality(LoadKinds) /\ Cardinality(LoadKinds) \in Nat
    BY <1>2, LoadCount DEF LoadStarts
  <2>3. IsFiniteSet(LoadKinds)
    <3>1. LoadKinds \subseteq {"updates"} \union {"upgrades"}
      BY DEF LoadKinds
    <3>2. IsFiniteSet({"updates"} \union {"upgrades"})
      BY FS_Singleton, FS_AddElement
    <3> QED
      BY <3>1, <3>2, FS_Subset
  <2>4. /\ IsFiniteSet(NewJobs(LoadKinds, left))
        /\ Cardinality(NewJobs(LoadKinds, left)) <= Cardinality(LoadKinds)
    BY <2>3, NewJobsAreFew
  <2>5. IsFiniteSet(left) /\ Cardinality(left) <= Cardinality(running)
    BY FS_Subset DEF JobsInv
  <2>6. Cardinality(NewJobs(LoadKinds, left)) \in Nat
    BY <2>4, FS_CardinalityType
  <2> QED
    BY <2>1, <2>2, <2>4, <2>5, <2>6, CountedJobsKeepInv
<1> QED
  BY <1>1, <1>2

(* A callback that starts one job starts no more.                            *)
LEMMA NewJobKeepsJobs ==
    ASSUME JobsInv, active \in Nat, active' = active + 1, NEW left, IsFiniteSet(left),
           Cardinality(left) <= Cardinality(running), NEW k,
           running' = left \union NewJobs({k}, running)
    PROVE  JobsInv'
<1>1. IsFiniteSet({k}) /\ Cardinality({k}) = 1
  BY FS_Singleton
<1>2. /\ IsFiniteSet(NewJobs({k}, running))
      /\ Cardinality(NewJobs({k}, running)) <= 1
  BY <1>1, NewJobsAreFew
<1> QED
  BY <1>2, CountedJobsKeepInv

(* Cancelling the refresh makes no jobs.                                     *)
LEMMA StopIsNoLarger ==
    ASSUME JobsInv
    PROVE  IsFiniteSet(Stop) /\ Cardinality(Stop) <= Cardinality(running)
<1> DEFINE stop(r) == IF r.current THEN [r EXCEPT !.stopped = TRUE, !.current = FALSE] ELSE r
           stops == [r \in running |-> stop(r)]
<1>1. Stop = {stop(r) : r \in running}
  BY DEF Stop
<1> HIDE DEF stop
<1>2. stops \in [running -> Stop] /\ \A q \in Stop : \E r \in running : stops[r] = q
  BY <1>1
<1>3. stops \in Surjection(running, Stop)
  BY <1>2 DEF Surjection
<1> QED
  BY <1>3, FS_Surjection DEF JobsInv

-----------------------------------------------------------------------------
(* The page never has more jobs than the loader has active ones.             *)
LEMMA PageKeepsJobs ==
    ASSUME LoaderInv, LoaderInv', LoadType, JobsInv, [Next]_vars
    PROVE  JobsInv'
<1>0. active \in Nat /\ active' \in Nat
  BY DEF LoaderInv, LoaderTypeOK
<1>1. ASSUME NEW n \in Nat, Callback(n)
      PROVE  active' = active + n
  BY <1>1, CallbackKeepsLoader
<1>2. ASSUME NEW valid, NEW inMode, NEW left \in SUBSET running,
             Callback(SwitchStarts(valid, inMode)), SwitchTo(valid, inMode, left)
      PROVE  JobsInv'
  BY <1>0, <1>1, <1>2, StartsAreFew, LoadKeepsJobs, EndedJobsKeepInv
  DEF SwitchTo, SwitchStarts
<1>3. ASSUME Reload, active' = active + ReloadStarts
      PROVE  JobsInv'
  BY <1>0, <1>3, LoadKeepsJobs, EndedJobsKeepInv DEF Reload, ReloadStarts
<1>4. CASE Environment
  <2>1. CASE EnterPage
    BY <1>2, <2>1 DEF EnterPage
  <2>2. CASE LeavePage \/ PendingAppsChanged \/ AllowUpdatesNotify
    BY <1>0, <1>1, <2>2, EndedJobsKeepInv
    DEF LeavePage, PendingAppsChanged, AllowUpdatesNotify
  <2>3. CASE MonitorNotifies
    BY <1>0, <2>3, EndedJobsKeepInv DEF MonitorNotifies, EmitSoon
  <2>4. CASE ClickStop
    <3>1. running' = Stop /\ active' = active
      BY <1>0, <1>1, <2>4 DEF ClickStop
    <3>2. Cardinality(Stop) \in Nat
      BY StopIsNoLarger, FS_CardinalityType
    <3>3. Cardinality(running) \in Nat
      BY FS_CardinalityType DEF JobsInv
    <3> QED
      BY <1>0, <3>1, <3>2, <3>3, StopIsNoLarger DEF JobsInv
  <2>5. CASE ClickRefresh
    BY <1>0, <1>1, <2>5, StopIsNoLarger, NewJobKeepsJobs DEF ClickRefresh
  <2>6. CASE ShellReload
    BY <1>1, <1>3, <2>6, StartsAreFew DEF ShellReload
  <2>7. CASE ClickUpdate
    <3>1. Cardinality(running) <= Cardinality(running)
      BY FS_CardinalityType DEF JobsInv
    <3> QED
      BY <1>0, <1>1, <2>7, <3>1, NewJobKeepsJobs DEF ClickUpdate, JobsInv
  <2> QED
    BY <1>4, <2>1, <2>2, <2>3, <2>4, <2>5, <2>6, <2>7 DEF Environment
<1>5. CASE Answer
  <2> SUFFICES ASSUME NEW r \in running,
                      \/ Collect(r) \/ GotUpdates(r) \/ GotNoUpdates(r) \/ GotUpgrades(r)
                      \/ Refreshed(r) \/ NotRefreshed(r) \/ Updated(r)
               PROVE  JobsInv'
    BY <1>5 DEF Answer
  <2>1. CASE Collect(r)
    <3> DEFINE new == [r EXCEPT !.saw = reports]
    <3>1. running' = (running \ {r}) \union {new} /\ active' = active
      BY <2>1 DEF Collect, loaderVars
    <3>2. /\ IsFiniteSet(running \ {r})
          /\ Cardinality(running \ {r}) = Cardinality(running) - 1
      BY FS_RemoveElement DEF JobsInv
    <3>3. /\ IsFiniteSet(running')
          /\ \/ Cardinality(running') = Cardinality(running \ {r})
             \/ Cardinality(running') = Cardinality(running \ {r}) + 1
      BY <3>1, <3>2, FS_AddElement
    <3>4. Cardinality(running) \in Nat
      BY FS_CardinalityType DEF JobsInv
    <3> QED
      BY <1>0, <3>1, <3>2, <3>3, <3>4 DEF JobsInv
  <2>2. CASE GotUpdates(r) \/ GotNoUpdates(r) \/ GotUpgrades(r) \/ NotRefreshed(r)
             \/ Updated(r)
    BY <1>0, <1>1, <2>2, EndedJobsKeepInv
    DEF GotUpdates, GotNoUpdates, GotUpgrades, NotRefreshed, Updated
  <2>3. CASE Refreshed(r)
    BY <1>2, <2>3 DEF Refreshed
  <2> QED
    BY <2>1, <2>2, <2>3
<1>6. CASE LoaderStep
  <2>1. running' = running
    BY <1>6 DEF LoaderStep, pageVars
  <2>2. CASE \E t \in Threads : TaskFreed(t) /\ active > Cardinality(running)
    <3>1. active' = active - 1 /\ active > Cardinality(running)
      BY <2>2 DEF TaskFreed
    <3>2. Cardinality(running) \in Nat
      BY FS_CardinalityType DEF JobsInv
    <3> QED
      BY <1>0, <2>1, <3>1, <3>2 DEF JobsInv
  <2>3. CASE Report \/ StartJob \/ SignalStep
    <3>1. active' = active \/ active' = active + 1
      BY <2>3 DEF Report, StartJob, StartJobs, SignalStep, Count, LoadActive,
         BecomesVisible, Check, AddTimer, ReadCount
    <3> QED
      BY <1>0, <2>1, <3>1, EndedJobsKeepInv
  <2> QED
    BY <1>6, <2>2, <2>3 DEF LoaderStep
<1>7. CASE \E s \in sources : Changed(s)
  <2>1. PICK s \in sources : Changed(s)
    BY <1>7
  <2>2. active' = active + ChangedStarts
    BY <2>1, EmitKeepsLoader, StartsAreFew DEF Changed
  <2>3. CASE Updating
    BY <1>0, <2>1, <2>2, <2>3, EndedJobsKeepInv DEF Changed, ChangedStarts
  <2>4. CASE ~Updating
    BY <1>3, <2>1, <2>2, <2>4 DEF Changed, ChangedStarts
  <2> QED
    BY <2>3, <2>4
<1>8. CASE UNCHANGED vars
  BY <1>0, <1>8, EndedJobsKeepInv DEF vars, loaderVars, pageVars
<1> QED
  BY <1>4, <1>5, <1>6, <1>7, <1>8 DEF Next

(* What the page remembers keeps its type.                                   *)
LEMMA PageKeepsType ==
    ASSUME LoaderInv', PageInv', JobsInv', TypeOK, [Next]_vars
    PROVE  TypeOK'
<1> DEFINE Rest ==
      /\ state \in PageStates /\ cacheValid \in BOOLEAN /\ hasUpgrades \in BOOLEAN
      /\ mode \in BOOLEAN /\ actions \in 0..MaxActions /\ failures \in 0..MaxFailures
<1> SUFFICES Rest'
  BY DEF TypeOK, LoaderInv, PageInv, LoadType, JobsInv
<1>1. Rest
  BY DEF TypeOK
<1>2. ASSUME Act PROVE actions' \in 0..MaxActions /\ failures' \in 0..MaxFailures
  BY <1>1, <1>2, PageBoundsAssumption DEF Act, PageBoundsAssumption
<1>3. ASSUME Succeeds \/ Fails PROVE failures' \in 0..MaxFailures
  BY <1>1, <1>3, PageBoundsAssumption DEF Succeeds, Fails, PageBoundsAssumption
<1>4. ASSUME NEW left, Load(left) PROVE state' \in PageStates
  BY <1>1, <1>4 DEF Load, PageStates
<1>5. ASSUME NEW valid, NEW inMode, NEW left, SwitchTo(valid, inMode, left)
      PROVE  state' \in PageStates
  BY <1>1, <1>4, <1>5 DEF SwitchTo
<1>6. ASSUME Reload PROVE state' \in PageStates /\ cacheValid' \in BOOLEAN
  BY <1>1, <1>4, <1>6 DEF Reload
<1>7. CASE Environment
  <2>1. CASE EnterPage
    BY <1>1, <1>2, <1>5, <2>1 DEF EnterPage
  <2>2. CASE LeavePage \/ ClickStop \/ ClickUpdate \/ PendingAppsChanged \/ MonitorNotifies
    BY <1>1, <1>2, <2>2
    DEF LeavePage, ClickStop, ClickUpdate, PendingAppsChanged, MonitorNotifies
  <2>3. CASE ClickRefresh \/ AllowUpdatesNotify
    BY <1>1, <1>2, <2>3 DEF ClickRefresh, AllowUpdatesNotify, PageStates
  <2>4. CASE ShellReload
    BY <1>1, <1>2, <1>6, <2>4 DEF ShellReload
  <2> QED
    BY <1>7, <2>1, <2>2, <2>3, <2>4 DEF Environment
<1>8. CASE Answer
  BY <1>1, <1>3, <1>5, <1>8
  DEF Answer, Collect, GotUpdates, GotNoUpdates, GotUpgrades, Refreshed, NotRefreshed,
      Updated, Decrement, PageStates, Succeeds, Fails
<1>9. CASE LoaderStep \/ UNCHANGED vars
  BY <1>1, <1>9 DEF LoaderStep, vars, pageVars
<1>10. CASE \E s \in sources : Changed(s)
  BY <1>1, <1>6, <1>10 DEF Changed
<1> QED
  BY <1>7, <1>8, <1>9, <1>10 DEF Next

(* The cache becomes valid when GET_UPDATES has answered and not before.     *)
LEMMA PageKeepsCache ==
    ASSUME TypeOK, PageInv, PageInv', CacheInv, [Next]_vars
    PROVE  CacheInv'
<1>1. ASSUME UNCHANGED <<cacheValid, shown, failures>>, Runs("updates")' => Runs("updates")
      PROVE  CacheInv'
  BY <1>1 DEF CacheInv
<1>2. ASSUME NEW left \in SUBSET running, SwitchTo(cacheValid, TRUE, left),
             UNCHANGED <<cacheValid, failures>>
      PROVE  CacheInv'
  BY <1>1, <1>2 DEF SwitchTo, MayLoad, CacheInv, Runs
<1>3. ASSUME Reload, UNCHANGED failures
      PROVE  CacheInv'
  BY <1>1, <1>3 DEF Reload, CacheInv, Runs
<1>4. CASE Environment
  <2>1. CASE EnterPage
    BY <1>2, <2>1 DEF EnterPage, Act
  <2>2. CASE LeavePage \/ AllowUpdatesNotify \/ MonitorNotifies
    BY <1>1, <2>2 DEF LeavePage, AllowUpdatesNotify, MonitorNotifies, Act, Runs
  <2>3. CASE ClickStop
    BY <1>1, <2>3, StopKeepsJobs DEF ClickStop, Act, Runs
  <2>4. CASE ClickRefresh
    <3>1. \A r \in NewJobs({"refresh"}, running) : r.kind = "refresh"
      BY NewJobsAreOnePerKind
    <3> QED
      BY <1>1, <2>4, <3>1, StopKeepsJobs DEF ClickRefresh, Act, Runs
  <2>5. CASE ShellReload
    BY <1>3, <2>5 DEF ShellReload, Act
  <2>6. CASE ClickUpdate
    <3>1. \A r \in NewJobs({"update"}, running) : r.kind = "update"
      BY NewJobsAreOnePerKind
    <3> QED
      BY <1>1, <2>6, <3>1 DEF ClickUpdate, Act, Runs
  <2>7. CASE PendingAppsChanged
    BY <2>7 DEF PendingAppsChanged, CacheInv
  <2> QED
    BY <1>4, <2>1, <2>2, <2>3, <2>4, <2>5, <2>6, <2>7 DEF Environment
<1>5. CASE Answer
  <2> SUFFICES ASSUME NEW r \in running,
                      \/ Collect(r) \/ GotUpdates(r) \/ GotNoUpdates(r) \/ GotUpgrades(r)
                      \/ Refreshed(r) \/ NotRefreshed(r) \/ Updated(r)
               PROVE  CacheInv'
    BY <1>5 DEF Answer
  <2>1. CASE Collect(r)
    BY <1>1, <2>1 DEF Collect, OfKind, Runs
  <2>2. CASE GotUpdates(r)
    <3>1. r.kind = "updates" /\ shown = <<>>
      BY <2>2 DEF GotUpdates, OfKind, PageInv, LoadInv, Runs
    <3>2. ~Runs("updates")'
      BY <2>2, <3>1 DEF GotUpdates, PageInv, LoadInv, Runs
    <3>3. shown' = <<r.saw>>
      BY <2>2, <3>1 DEF GotUpdates
    <3> QED
      BY <3>2, <3>3 DEF CacheInv
  <2>3. CASE GotNoUpdates(r)
    <3>1. ~Runs("updates")'
      BY <2>3 DEF GotNoUpdates, OfKind, PageInv, LoadInv, Runs
    <3>2. failures' # 0
      BY <2>3 DEF GotNoUpdates, Fails, TypeOK
    <3> QED
      BY <3>1, <3>2 DEF CacheInv
  <2>4. CASE GotUpgrades(r) \/ NotRefreshed(r)
    <3>1. UNCHANGED <<cacheValid, shown>> /\ (Runs("updates")' => Runs("updates"))
      BY <2>4 DEF GotUpgrades, NotRefreshed, Runs
    <3>2. failures' = failures \/ failures' # 0
      BY <2>4 DEF GotUpgrades, NotRefreshed, Succeeds, Fails, TypeOK
    <3> QED
      BY <3>1, <3>2 DEF CacheInv
  <2>5. CASE Refreshed(r)
    BY <2>5 DEF Refreshed, CacheInv
  <2>6. CASE Updated(r)
    BY <1>1, <2>6 DEF Updated, Succeeds, Runs
  <2> QED
    BY <2>1, <2>2, <2>3, <2>4, <2>5, <2>6
<1>6. CASE LoaderStep \/ UNCHANGED vars
  BY <1>1, <1>6 DEF LoaderStep, vars, pageVars, Runs
<1>7. CASE \E s \in sources : Changed(s)
  BY <1>1, <1>3, <1>7 DEF Changed, Runs
<1> QED
  BY <1>4, <1>5, <1>6, <1>7 DEF Next

(* The inductive invariant of the page, its list and the loader.             *)
LEMMA ListInitInv == Init => ListInv
<1> SUFFICES ASSUME Init PROVE ListInv
  OBVIOUS
<1>1. LoaderInv /\ PageInv
  BY LoaderInitInv, PageInitInv DEF Init
<1>2. JobsInv
  BY <1>1, FS_EmptySet DEF Init, LoaderInit, JobsInv
<1>3. CacheInv
  BY DEF Init, CacheInv
<1>4. TypeOK
  <2>1. 0 \in 0..MaxActions /\ 0 \in 0..MaxFailures
    BY PageBoundsAssumption DEF PageBoundsAssumption
  <2>2. LoaderTypeOK /\ LoadType /\ Cardinality(running) <= active
    BY <1>1, <1>2 DEF LoaderInv, PageInv, JobsInv
  <2> QED
    BY <2>1, <2>2 DEF Init, TypeOK, LoadType, PageStates
<1> QED
  BY <1>1, <1>2, <1>3, <1>4 DEF ListInv

LEMMA ListNextInv == ListInv /\ [Next]_vars => ListInv'
BY PageKeepsLoader, PageNextInv, PageKeepsJobs, PageKeepsType, PageKeepsCache
DEF ListInv, PageInv

(* The jobs that fill the page are covered by its counter.                   *)
LEMMA LoadJobsAreCounted == ListInv => CountCoversJobs
<1> SUFFICES ASSUME ListInv PROVE CountCoversJobs
  OBVIOUS
<1>1. ASSUME NEW k \in {"updates", "upgrades"}
      PROVE  Cardinality(OfKind(k)) = IF Runs(k) THEN 1 ELSE 0
  <2>1. CASE ~Runs(k)
    BY <2>1, FS_EmptySet DEF OfKind, Runs
  <2>2. CASE Runs(k)
    <3>1. PICK r \in running : r.kind = k
      BY <2>2 DEF Runs
    <3>2. OfKind(k) = {r}
      BY <3>1 DEF OfKind, ListInv, PageInv, LoadInv
    <3> QED
      BY <2>2, <3>2, FS_Singleton
  <2> QED
    BY <2>1, <2>2
<1> QED
  BY <1>1 DEF ListInv, PageInv, LoadInv, LoadType, CountCoversJobs

(* In whatever order jobs answer, fail and are started anew, each of them    *)
(* that will decrement action_cnt is counted in it, the loader counts it as  *)
(* active, and a valid cache is a list that was loaded to its end.           *)
THEOREM CountAndCacheAgree == SafeSpec => []UpdatesInv
<1>1. ListInv => UpdatesInv
  BY LoadJobsAreCounted DEF ListInv, UpdatesInv, CacheInv, ValidCacheIsAList
<1> QED
  BY <1>1, ListInitInv, ListNextInv, PTL DEF SafeSpec

(* The loader forgets no report either when its jobs and the jobs started by *)
(* the receivers of its signal are those of the page.                        *)
THEOREM PageForgetsNoReport == SafeSpec => [](IdIsAttached /\ NotForgotten)
<1>1. ListInv => IdIsAttached /\ NotForgotten
  BY DEF ListInv, LoaderInv, ReportInv, NotForgotten
<1> QED
  BY <1>1, ListInitInv, ListNextInv, PTL DEF SafeSpec
=============================================================================
