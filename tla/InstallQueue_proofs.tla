------------------------ MODULE InstallQueue_proofs -------------------------
(***************************************************************************)
(* What InstallQueue promises for every set of apps, every number of jobs  *)
(* and every bound: its types, that no app is left in an action helper, and*)
(* that the list and the pending actions are right when all is quiet.      *)
(***************************************************************************)
EXTENDS InstallQueue, TLAPS

(* The states of an app.                                                   *)

\* gs_app_set_state() makes an app of an app, in the state that was asked for.
LEMMA SetStateType ==
    ASSUME NEW x \in GsApp, NEW s \in States
    PROVE  /\ SetState(x, s) \in GsApp
           /\ SetState(x, s).state = s
    BY DEF SetState, Remember, GsApp, States, Actions, Transient

\* gs_app_set_state_recover() keeps the state or takes the remembered one.
LEMMA RecoverType ==
    ASSUME NEW x \in GsApp
    PROVE  /\ SetStateRecover(x) \in GsApp
           /\ SetStateRecover(x).state \in {x.state, x.recover}
           /\ SetStateRecover(x).recover = x.recover
    BY DEF SetStateRecover, GsApp, States, Actions

\* A new app is in no action helper and remembers none.
LEMMA NewAppType == NewApp \in GsApp /\ NewApp.state = "unknown" /\ NewApp.recover = "unknown"
    BY DEF NewApp, GsApp, States, Actions

\* The state an error goes back to is never transient.
LEMMA SetStateRecovers ==
    ASSUME NEW x \in GsApp, NEW s \in States, x.recover \notin Helper
    PROVE  SetState(x, s).recover \notin Helper
    BY DEF SetState, Remember, GsApp, Transient, Helper

\* The jobs that pages and flushes start have the type of a job.
LEMMA NewJobType ==
    ASSUME NEW a \in Apps \union {NoApp}, NEW kind \in {"install", "flush", "remove"},
           NEW own \in BOOLEAN, NEW pc \in {"free", "todo", "pool"}
    PROVE  NewJob(a, kind, own, pc) \in Job
    BY DEF NewJob, Job

\* So have the empty slot of a job, and the thread that changes nothing.
LEMMA FreeJobType == FreeJob \in Job /\ NoOp \in Op
    BY DEF FreeJob, NewJob, Job, NoOp, Op

-----------------------------------------------------------------------------
(* Types.                                                                  *)

\* A fresh start: no job, and every app is available.
LEMMA InvInit == Init => Inv
<1> SUFFICES ASSUME Init PROVE Inv
    OBVIOUS
<1>1. /\ SetState(NewApp, "available") \in GsApp
      /\ SetState(NewApp, "available").state = "available"
      /\ SetState(NewApp, "available").recover \notin Helper
    BY SetStateType, SetStateRecovers, NewAppType DEF States, Helper
<1>2. app \in [Apps -> GsApp]
    BY <1>1 DEF Init
<1>3. job \in [Jobs -> Job] /\ op \in [Threads -> Op]
    BY FreeJobType DEF Init
<1>4. signals \in 0..MaxSignals /\ crashes \in 0..MaxCrashes
    BY BoundsAssumption DEF Init
<1>5. TypeOK
    BY <1>2, <1>3, <1>4 DEF Init, TypeOK
<1>6. JobInv
    BY DEF Init, JobInv, NoOp
<1>7. HelperInv
    BY <1>1 DEF Init, HelperInv, Helper
<1> QED
    BY <1>5, <1>6, <1>7 DEF Inv

\* The two ways of changing the list.
LEMMA QueueStep ==
    ASSUME Inv, NEW t \in Threads, NEW a \in Apps,
           BeginAdd(t, a) \/ BeginRemove(t, a)
    PROVE  /\ queue' \subseteq Apps /\ op' \in [Threads -> Op]
           /\ \A u \in Threads : op'[u].at # "none" => op'[u].app \in Apps
<1> DEFINE new(at) == [at |-> at, app |-> a, save |-> {}]
<1>1. \A at \in {"added", "removed"} : new(at) \in Op
    BY DEF Op
<1>2. queue' \subseteq Apps
    BY DEF BeginAdd, BeginRemove, Inv, TypeOK
<1>3. CASE UNCHANGED op
    BY <1>2, <1>3 DEF Inv, TypeOK, JobInv
<1>4. CASE \E at \in {"added", "removed"} : op' = [op EXCEPT ![t] = new(at)]
    <2>1. PICK at \in {"added", "removed"} : op' = [op EXCEPT ![t] = new(at)]
        BY <1>4
    <2>2. new(at) \in Op /\ new(at).app = a
        BY <1>1
    <2> HIDE DEF new
    <2> QED
        BY <1>2, <2>1, <2>2 DEF Inv, TypeOK, JobInv
<1>5. UNCHANGED op \/ \E at \in {"added", "removed"} : op' = [op EXCEPT ![t] = new(at)]
    <2>1. CASE BeginAdd(t, a)
        BY <2>1 DEF BeginAdd
    <2>2. CASE BeginRemove(t, a) /\ a \in queue
        BY <2>2 DEF BeginRemove
    <2>3. CASE BeginRemove(t, a) /\ a \notin queue
        BY <2>3 DEF BeginRemove
    <2> QED
        BY <2>1, <2>2, <2>3
<1> QED
    BY <1>3, <1>4, <1>5

\* A step of one job.
LEMMA JobStep ==
    ASSUME Inv, NEW j \in Jobs, NEW r \in Job,
           r = FreeJob \/ (r.pc # "free" /\ r.app \in Apps),
           job' = [job EXCEPT ![j] = r]
    PROVE  /\ job' \in [Jobs -> Job]
           /\ \A i \in Jobs : job'[i] = FreeJob \/ (Live(i)' /\ job'[i].app \in Apps)
           /\ \A i \in Jobs : job'[i] = IF i = j THEN r ELSE job[i]
    BY DEF Inv, TypeOK, JobInv, Live

\* A change of one app.
LEMMA AppStep ==
    ASSUME Inv, NEW a \in Apps, NEW x \in GsApp, x.recover \notin Helper,
           app' = [app EXCEPT ![a] = x]
    PROVE  /\ app' \in [Apps -> GsApp]
           /\ \A b \in Apps : app'[b].recover \notin Helper
           /\ \A b \in Apps : app'[b] = IF b = a THEN x ELSE app[b]
    BY DEF Inv, TypeOK, HelperInv

\* What every step has to show of the apps in an action helper.
LEMMA HelperStep ==
    ASSUME Inv,
           \A a \in Apps : app'[a].recover \notin Helper,
           \A a \in Apps : app'[a].state \in Helper =>
               \/ app[a].state \in Helper
               \/ \E j \in Jobs : job'[j].app = a /\ InHelper(j)',
           \A j \in Jobs : InHelper(j) =>
               \/ InHelper(j)' /\ job'[j].app = job[j].app
               \/ job[j].app \in Apps => app'[job[j].app].state \notin Helper
    PROVE  HelperInv'
    BY DEF Inv, HelperInv

\* A slot that is not empty has a job with an app.
LEMMA LiveJob ==
    ASSUME Inv, NEW j \in Jobs, job[j] # FreeJob
    PROVE  job[j] \in Job /\ job[j].app \in Apps /\ job[j].pc # "free"
    BY DEF Inv, TypeOK, JobInv, Live

-----------------------------------------------------------------------------
(* The steps of a thread in the middle of a change of the queue.           *)

\* The state of the app goes to QUEUED or UNKNOWN, which are no helpers.
LEMMA ChangeStep ==
    ASSUME Inv, NEW t \in Threads, Change(t)
    PROVE  Inv'
<1> DEFINE a == op[t].app
           x == IF op[t].at = "added" THEN SetState(app[a], "queued")
                ELSE IF app[a].state = "queued" THEN SetState(app[a], "unknown") ELSE app[a]
<1>1. a \in Apps /\ app[a] \in GsApp /\ app[a].recover \notin Helper /\ op[t] \in Op
    BY DEF Change, Inv, TypeOK, JobInv, HelperInv
<1>2. x \in GsApp /\ x.recover \notin Helper /\ (x = app[a] \/ x.state \notin Helper)
    BY <1>1, SetStateType, SetStateRecovers DEF States, Helper
<1>3. app' = [app EXCEPT ![a] = x]
    <2>1. CASE op[t].at = "added"
        BY <2>1 DEF Change
    <2>2. CASE op[t].at # "added" /\ app[a].state = "queued"
        BY <2>2 DEF Change
    <2>3. CASE op[t].at # "added" /\ app[a].state # "queued"
        BY <2>3 DEF Change, Inv, TypeOK
    <2> QED
        BY <2>1, <2>2, <2>3
<1> HIDE DEF x
<1>4. /\ app' \in [Apps -> GsApp]
      /\ \A b \in Apps : app'[b].recover \notin Helper
      /\ \A b \in Apps : app'[b] = IF b = a THEN x ELSE app[b]
    BY <1>1, <1>2, <1>3, AppStep
<1>5. op' \in [Threads -> Op] /\ \A u \in Threads : op'[u].at # "none" => op'[u].app \in Apps
    <2>1. op' = [op EXCEPT ![t].at = "write", ![t].save = ToSave(app')]
        BY DEF Change
    <2>2. ToSave(app') \in SUBSET Apps
        BY DEF ToSave, Inv, TypeOK
    <2> DEFINE new == [op[t] EXCEPT !.at = "write", !.save = ToSave(app')]
    <2>3. new \in Op /\ new.app = a
        BY <1>1, <2>2 DEF Op
    <2>4. op' = [op EXCEPT ![t] = new]
        BY <2>1 DEF Inv, TypeOK
    <2> HIDE DEF new
    <2> QED
        BY <1>1, <2>3, <2>4 DEF Inv, TypeOK, JobInv
<1>6. TypeOK'
    BY <1>4, <1>5 DEF Change, Inv, TypeOK
<1>7. JobInv'
    BY <1>5 DEF Change, Inv, JobInv, Live
<1>8. HelperInv'
    BY <1>2, <1>4, HelperStep DEF Change, InHelper
<1> QED
    BY <1>6, <1>7, <1>8 DEF Inv

\* The save ends the change of the queue and touches no app.
LEMMA WriteStep ==
    ASSUME Inv, NEW t \in Threads, Write(t)
    PROVE  Inv'
<1>1. op[t] \in Op
    BY DEF Inv, TypeOK
<1>2. op' \in [Threads -> Op] /\ \A u \in Threads : op'[u].at # "none" => op'[u].app \in Apps
    BY FreeJobType DEF Write, Inv, TypeOK, JobInv, NoOp
<1>3. TypeOK'
    BY <1>1, <1>2 DEF Write, Inv, TypeOK, Op
<1>4. JobInv'
    BY <1>2 DEF Write, Inv, JobInv, Live
<1>5. HelperInv'
    BY DEF Write, Inv, HelperInv, InHelper
<1> QED
    BY <1>3, <1>4, <1>5 DEF Inv

-----------------------------------------------------------------------------
(* The steps of a job.                                                     *)

RestType ==
    /\ file \subseteq Apps /\ onDisk \subseteq Apps
    /\ network \in {"offline", "metered", "online"} /\ booting \in BOOLEAN
    /\ obsolete \subseteq Apps /\ wanted \subseteq Apps
    /\ signals \in 0..MaxSignals /\ crashes \in 0..MaxCrashes

QueueType ==
    /\ queue \subseteq Apps /\ op \in [Threads -> Op]
    /\ \A t \in Threads : op[t].at # "none" => op[t].app \in Apps

\* A job goes from one point to the next, and may change the state of its app.
LEMMA JobMove ==
    ASSUME Inv, RestType', QueueType',
           NEW j \in Jobs, job[j] # FreeJob,
           NEW r \in Job, r = FreeJob \/ (r.pc # "free" /\ r.app = job[j].app),
           job' = [job EXCEPT ![j] = r],
           NEW x \in GsApp, x.recover \notin Helper,
           app' = [app EXCEPT ![job[j].app] = x],
           x.state \in Helper =>
               \/ r.pc \in {"acting", "failed", "ended", "removing"}
               \/ ~InHelper(j) /\ app[job[j].app].state \in Helper
    PROVE  Inv'
<1> DEFINE a == job[j].app
<1>1. a \in Apps
    BY LiveJob
<1>2. /\ job' \in [Jobs -> Job]
      /\ \A i \in Jobs : job'[i] = FreeJob \/ (Live(i)' /\ job'[i].app \in Apps)
      /\ \A i \in Jobs : job'[i] = IF i = j THEN r ELSE job[i]
    BY <1>1, JobStep
<1>3. /\ app' \in [Apps -> GsApp]
      /\ \A b \in Apps : app'[b].recover \notin Helper
      /\ \A b \in Apps : app'[b] = IF b = a THEN x ELSE app[b]
    BY <1>1, AppStep
<1>4. TypeOK'
    BY <1>2, <1>3 DEF TypeOK, RestType, QueueType
<1>5. JobInv'
    BY <1>2 DEF JobInv, QueueType
<1>6. FreeJob.pc = "free"
    BY DEF FreeJob, NewJob
<1>7. r.pc \in {"acting", "failed", "ended", "removing"} => r.app = a
    BY <1>6
<1>8. \A b \in Apps : app'[b].state \in Helper =>
          \/ app[b].state \in Helper
          \/ \E i \in Jobs : job'[i].app = b /\ InHelper(i)'
    BY <1>1, <1>2, <1>3, <1>7 DEF InHelper
<1>9. \A i \in Jobs : InHelper(i) =>
          \/ InHelper(i)' /\ job'[i].app = job[i].app
          \/ job[i].app \in Apps => app'[job[i].app].state \notin Helper
    <2> SUFFICES ASSUME NEW i \in Jobs, InHelper(i)
                 PROVE  \/ InHelper(i)' /\ job'[i].app = job[i].app
                        \/ app'[job[i].app].state \notin Helper
        OBVIOUS
    <2>1. CASE i # j
        BY <1>2, <2>1 DEF InHelper
    <2>2. CASE i = j
        BY <1>1, <1>2, <1>3, <1>7, <2>2 DEF InHelper
    <2> QED
        BY <2>1, <2>2
<1>10. HelperInv'
    BY <1>3, <1>8, <1>9, HelperStep
<1> QED
    BY <1>4, <1>5, <1>10 DEF Inv

\* The part of At() and GoTo() that all steps of a job share.
LEMMA AtStep ==
    ASSUME Inv, NEW j \in Jobs, NEW from, "free" \notin from, At(j, from)
    PROVE  /\ job[j] # FreeJob /\ job[j] \in Job /\ job[j].app \in Apps
           /\ app[job[j].app] \in GsApp /\ app[job[j].app].recover \notin Helper
           /\ onDisk' \subseteq Apps => RestType'
<1>1. job[j] # FreeJob
    BY DEF At, FreeJob, NewJob
<1>2. job[j] \in Job /\ job[j].app \in Apps
    BY <1>1, LiveJob
<1>3. onDisk' \subseteq Apps => RestType'
    BY DEF At, RestType, Inv, TypeOK
<1> QED
    BY <1>1, <1>2, <1>3 DEF Inv, TypeOK, HelperInv

\* A job that goes on is still a job on the same app.
LEMMA GoToStep ==
    ASSUME Inv, NEW j \in Jobs, job[j] \in Job, NEW pc,
           pc \in {"start", "offered", "acting", "failed", "ended", "removing", "refining"},
           GoTo(j, pc)
    PROVE  \E r \in Job : /\ r.pc = pc /\ r.app = job[j].app
                          /\ job' = [job EXCEPT ![j] = r]
<1> DEFINE r == [job[j] EXCEPT !.pc = pc, !.ok = @ /\ pc # "failed"]
<1>1. r \in Job /\ r.pc = pc /\ r.app = job[j].app
    BY DEF Job
<1>2. job' = [job EXCEPT ![j] = r]
    BY DEF GoTo, Inv, TypeOK
<1> QED
    BY <1>1, <1>2

\* A step that leaves the queue alone keeps its type.
LEMMA SameQueue ==
    ASSUME Inv, UNCHANGED <<queue, op>>
    PROVE  QueueType'
    BY DEF QueueType, Inv, TypeOK, JobInv

\* A step that leaves the apps alone writes the app of the job back.
LEMMA SameApp ==
    ASSUME Inv, NEW j \in Jobs, UNCHANGED app
    PROVE  app' = [app EXCEPT ![job[j].app] = app[job[j].app]]
    BY DEF Inv, TypeOK

\* A job whose task returned is still a job on the same app, or gone.
LEMMA SettleStep ==
    ASSUME Inv, NEW j \in Jobs, job[j] \in Job,
           NEW pc \in {"clearing", "done"} \union {job[j].pc}, pc # "free",
           NEW reply \in {"none", "due", "recover"}, Settle(j, pc, reply)
    PROVE  \E r \in Job : /\ r = FreeJob \/ (r.pc = pc /\ r.app = job[j].app)
                          /\ job' = [job EXCEPT ![j] = r]
<1> DEFINE r == IF pc = "done" /\ reply = "none" THEN FreeJob
                ELSE [job[j] EXCEPT !.pc = pc, !.reply = reply]
<1>1. r \in Job /\ (r = FreeJob \/ (r.pc = pc /\ r.app = job[j].app))
    <2>1. CASE pc = "done" /\ reply = "none"
        BY <2>1, FreeJobType
    <2>2. CASE ~(pc = "done" /\ reply = "none")
        BY <2>2 DEF Job
    <2> QED
        BY <2>1, <2>2
<1>2. job' = [job EXCEPT ![j] = r]
    BY DEF Settle, Inv, TypeOK
<1> QED
    BY <1>1, <1>2

\* A step that leaves the state of the app alone, or makes it a stable one.
LEMMA QuietMove ==
    ASSUME Inv, NEW j \in Jobs, NEW from, "free" \notin from, At(j, from),
           onDisk' \subseteq Apps, QueueType',
           NEW pc, pc \in {"start", "offered", "acting", "failed", "ended", "removing",
                           "refining"},
           GoTo(j, pc),
           NEW x \in GsApp, x.recover \notin Helper,
           app' = [app EXCEPT ![job[j].app] = x],
           \/ x.state \notin Helper
           \/ pc \in {"acting", "failed", "ended", "removing"}
           \/ ~InHelper(j) /\ app[job[j].app].state \in Helper
    PROVE  Inv'
<1>1. RestType' /\ job[j] # FreeJob /\ job[j] \in Job
    BY AtStep
<1>2. PICK r \in Job : r.pc = pc /\ r.app = job[j].app /\ job' = [job EXCEPT ![j] = r]
    BY <1>1, GoToStep
<1> QED
    BY <1>1, <1>2, JobMove

\* Each step of process_thread_cb() and of the plugins keeps the invariant: the
\* job that puts its app in a helper is the one that has still to take it out.
LEMMA JobNextStep ==
    ASSUME Inv, NEW j \in Jobs, JobNext(j)
    PROVE  Inv'
<1> DEFINE a == job[j].app
<1>0. onDisk \subseteq Apps /\ j \in Threads
    BY DEF Inv, TypeOK, Threads
<1>1. CASE Start(j)
    <2>1. At(j, {"pool"}) /\ a \in Apps /\ app[a] \in GsApp /\ app[a].recover \notin Helper
        BY <1>1, AtStep DEF Start
    <2>2. QueueType'
        BY <1>0, <1>1, <2>1, QueueStep DEF Start, QueueType
    <2>3. app' = [app EXCEPT ![a] = app[a]] /\ onDisk' \subseteq Apps
        BY <1>0, <1>1, SameApp DEF Start
    <2>4. GoTo(j, "start") /\ ~InHelper(j)
        BY <1>1 DEF Start, At, InHelper
    <2> QED
        BY <2>1, <2>2, <2>3, <2>4, QuietMove
<1>2. CASE RunCancelled(j)
    <2>1. At(j, {"start", "offered"}) /\ app[a] \in GsApp /\ app[a].recover \notin Helper
        BY <1>2, AtStep DEF RunCancelled
    <2>2. QueueType' /\ app' = [app EXCEPT ![a] = app[a]] /\ onDisk' \subseteq Apps
        BY <1>0, <1>2, SameApp, SameQueue DEF RunCancelled
    <2>3. GoTo(j, "failed")
        BY <1>2 DEF RunCancelled
    <2> QED
        BY <2>1, <2>2, <2>3, QuietMove
<1>3. CASE RunOther(j)
    <2>1. At(j, {"start"}) /\ a \in Apps /\ app[a] \in GsApp /\ app[a].recover \notin Helper
        BY <1>3, AtStep DEF RunOther
    <2>2. QueueType'
        <3>1. CASE BeginAdd(j, a)
            BY <1>0, <2>1, <3>1, QueueStep DEF QueueType
        <3>2. CASE UNCHANGED <<queue, op>>
            BY <3>2, SameQueue
        <3> QED
            BY <1>3, <3>1, <3>2 DEF RunOther
    <2>3. app' = [app EXCEPT ![a] = app[a]] /\ onDisk' \subseteq Apps
        BY <1>0, <1>3, SameApp DEF RunOther
    <2>4. GoTo(j, "offered") /\ ~InHelper(j)
        BY <1>3 DEF RunOther, At, InHelper
    <2> QED
        BY <2>1, <2>2, <2>3, <2>4, QuietMove
<1>4. CASE RunOffline(j)
    <2>1. At(j, {"start", "offered"}) /\ a \in Apps /\ app[a] \in GsApp /\ app[a].recover \notin Helper
        BY <1>4, AtStep DEF RunOffline
    <2>2. QueueType'
        BY <1>0, <1>4, <2>1, QueueStep DEF RunOffline, QueueType
    <2>3. SetState(app[a], "queued") \in GsApp /\ SetState(app[a], "queued").recover \notin Helper
        BY <2>1, SetStateType, SetStateRecovers DEF States
    <2>4. /\ app' = [app EXCEPT ![a] = SetState(app[a], "queued")]
          /\ onDisk' \subseteq Apps /\ GoTo(j, "ended")
        BY <1>0, <1>4 DEF RunOffline
    <2> QED
        BY <2>1, <2>2, <2>3, <2>4, QuietMove
<1>5. CASE RunPlugin(j)
    <2>1. At(j, {"start", "offered"}) /\ app[a] \in GsApp /\ app[a].recover \notin Helper
        BY <1>5, AtStep DEF RunPlugin
    <2>2. PICK s \in Helper : app' = [app EXCEPT ![a] = SetState(app[a], s)]
        BY <1>5 DEF RunPlugin, Helper
    <2>3. SetState(app[a], s) \in GsApp /\ SetState(app[a], s).recover \notin Helper
        BY <2>1, SetStateType, SetStateRecovers DEF States, Helper
    <2>4. QueueType' /\ onDisk' \subseteq Apps /\ GoTo(j, "acting")
        BY <1>0, <1>5, SameQueue DEF RunPlugin
    <2> QED
        BY <2>1, <2>2, <2>3, <2>4, QuietMove
<1>6. CASE RunRefused(j)
    <2>1. At(j, {"start", "offered"}) /\ app[a] \in GsApp /\ app[a].recover \notin Helper
        BY <1>6, AtStep DEF RunRefused
    <2>2. QueueType' /\ app' = [app EXCEPT ![a] = app[a]] /\ onDisk' \subseteq Apps
        BY <1>0, <1>6, SameApp, SameQueue DEF RunRefused
    <2>3. PICK pc \in {"failed", "ended"} : GoTo(j, pc)
        BY <1>6 DEF RunRefused, AfterError
    <2> QED
        BY <2>1, <2>2, <2>3, QuietMove
<1>7. CASE Succeed(j)
    <2>1. At(j, {"acting"}) /\ a \in Apps /\ app[a] \in GsApp /\ app[a].recover \notin Helper
        BY <1>7, AtStep DEF Succeed
    <2>2. /\ \E s \in {"installed", "available"} : app' = [app EXCEPT ![a] = SetState(app[a], s)]
          /\ onDisk' \subseteq Apps
        BY <1>0, <1>7, <2>1 DEF Succeed
    <2>3. PICK s \in {"installed", "available"} : app' = [app EXCEPT ![a] = SetState(app[a], s)]
        BY <2>2
    <2>4. SetState(app[a], s) \in GsApp /\ SetState(app[a], s).recover \notin Helper
        BY <2>1, SetStateType, SetStateRecovers DEF States
    <2>5. PICK pc \in {"failed", "ended"} : GoTo(j, pc)
        BY <1>7 DEF Succeed, AfterError
    <2>6. QueueType'
        BY <1>7, SameQueue DEF Succeed
    <2> QED
        BY <2>1, <2>2, <2>3, <2>4, <2>5, <2>6, QuietMove
<1>8. CASE Fail(j)
    <2>1. At(j, {"acting"}) /\ app[a] \in GsApp /\ app[a].recover \notin Helper
        BY <1>8, AtStep DEF Fail
    <2>2. SetStateRecover(app[a]) \in GsApp /\ SetStateRecover(app[a]).recover \notin Helper
        BY <2>1, RecoverType
    <2>3. /\ app' = [app EXCEPT ![a] = SetStateRecover(app[a])]
          /\ QueueType' /\ onDisk' \subseteq Apps
        BY <1>0, <1>8, SameQueue DEF Fail
    <2>4. PICK pc \in {"failed", "ended"} : GoTo(j, pc)
        BY <1>8 DEF Fail, AfterError
    <2> QED
        BY <2>1, <2>2, <2>3, <2>4, QuietMove
<1>9. CASE Recover(j)
    <2>1. /\ RestType' /\ job[j] # FreeJob /\ job[j] \in Job
          /\ app[a] \in GsApp /\ app[a].recover \notin Helper
        BY <1>0, <1>9, AtStep DEF Recover
    <2>2. SetStateRecover(app[a]) \in GsApp /\ SetStateRecover(app[a]).recover \notin Helper
        BY <2>1, RecoverType
    <2>3. app' = [app EXCEPT ![a] = SetStateRecover(app[a])] /\ QueueType'
        BY <1>9, SameQueue DEF Recover
    <2> DEFINE r == [job[j] EXCEPT !.pc = "ended"]
    <2>4. r \in Job /\ r.pc = "ended" /\ r.app = a /\ job' = [job EXCEPT ![j] = r]
        BY <1>9, <2>1 DEF Recover, Job, Inv, TypeOK
    <2> HIDE DEF r
    <2> QED
        BY <2>1, <2>2, <2>3, <2>4, JobMove
<1>10. CASE End(j)
    <2>1. At(j, {"ended"}) /\ a \in Apps /\ app[a] \in GsApp /\ app[a].recover \notin Helper
        BY <1>10, AtStep DEF End
    <2>2. QueueType'
        BY <1>0, <1>10, <2>1, QueueStep DEF End, QueueType
    <2>3. app' = [app EXCEPT ![a] = app[a]] /\ onDisk' \subseteq Apps /\ GoTo(j, "removing")
        BY <1>0, <1>10, SameApp DEF End
    <2> QED
        BY <2>1, <2>2, <2>3, QuietMove
<1>11. CASE LeaveHelper(j)
    <2>1. At(j, {"removing"}) /\ app[a] \in GsApp /\ app[a].recover \notin Helper
        BY <1>11, AtStep DEF LeaveHelper
    <2> DEFINE x == IF app[a].state \in Helper THEN SetState(app[a], "unknown") ELSE app[a]
    <2>2. x \in GsApp /\ x.recover \notin Helper /\ x.state \notin Helper
        BY <2>1, SetStateType, SetStateRecovers DEF States, Helper
    <2>3. app' = [app EXCEPT ![a] = x]
        BY <1>11 DEF LeaveHelper, Helper
    <2>4. QueueType' /\ onDisk' \subseteq Apps /\ GoTo(j, "refining")
        BY <1>0, <1>11, SameQueue DEF LeaveHelper
    <2> HIDE DEF x
    <2> QED
        BY <2>1, <2>2, <2>3, <2>4, QuietMove
<1>12. CASE Answer(j)
    <2>1. /\ RestType' /\ job[j] # FreeJob /\ job[j] \in Job
          /\ app[a] \in GsApp /\ app[a].recover \notin Helper /\ ~InHelper(j)
        BY <1>0, <1>12, AtStep DEF Answer, At, InHelper
    <2>2. QueueType'
        BY <1>12, SameQueue DEF Answer
    <2>3. PICK x \in GsApp : /\ app' = [app EXCEPT ![a] = x] /\ x.recover \notin Helper
                             /\ x = app[a] \/ x.state \notin Helper
        <3>1. CASE UNCHANGED app
            BY <2>1, <3>1, SameApp
        <3>2. CASE app' = [app EXCEPT ![a] = SetState(app[a], Truth(a))]
            <4>1. Truth(a) \in States /\ Truth(a) \notin Helper
                BY DEF States, Truth, Helper
            <4>2. /\ SetState(app[a], Truth(a)) \in GsApp
                  /\ SetState(app[a], Truth(a)).recover \notin Helper
                  /\ SetState(app[a], Truth(a)).state \notin Helper
                BY <2>1, <4>1, SetStateType, SetStateRecovers
            <4> QED
                BY <3>2, <4>2
        <3> QED
            BY <1>12, <3>1, <3>2 DEF Answer
    <2>4. PICK pc \in {"clearing", "done"}, reply \in {"due", "none"} : Settle(j, pc, reply)
        BY <1>12 DEF Answer
    <2>5. \E r \in Job : /\ r = FreeJob \/ (r.pc # "free" /\ r.app = a)
                         /\ job' = [job EXCEPT ![j] = r]
        BY <2>1, <2>4, SettleStep
    <2> QED
        BY <2>1, <2>2, <2>3, <2>5, JobMove
<1>13. CASE ClearAction(j)
    <2>1. /\ RestType' /\ job[j] # FreeJob /\ job[j] \in Job
          /\ app[a] \in GsApp /\ app[a].recover \notin Helper /\ ~InHelper(j)
        BY <1>0, <1>13, AtStep DEF ClearAction, At, InHelper
    <2>2. QueueType'
        BY <1>13, SameQueue DEF ClearAction
    <2> DEFINE x == [app[a] EXCEPT !.action = IF @ = "install" THEN "unknown" ELSE @]
    <2>3. x \in GsApp /\ x.recover \notin Helper /\ x.state = app[a].state
        BY <2>1 DEF GsApp, Actions
    <2>4. app' = [app EXCEPT ![a] = x]
        BY <1>13 DEF ClearAction, Inv, TypeOK
    <2>5. \E r \in Job : /\ r = FreeJob \/ (r.pc # "free" /\ r.app = a)
                         /\ job' = [job EXCEPT ![j] = r]
        BY <1>13, <2>1, SettleStep DEF ClearAction, Job
    <2> HIDE DEF x
    <2> QED
        BY <2>1, <2>2, <2>3, <2>4, <2>5, JobMove
<1> QED
    BY <1>1, <1>2, <1>3, <1>4, <1>5, <1>6, <1>7, <1>8, <1>9, <1>10, <1>11, <1>12, <1>13
       DEF JobNext

-----------------------------------------------------------------------------
(* The steps of the main thread.                                           *)

\* A step that starts, marks or pushes jobs, and takes none from InHelper().
LEMMA MainMove ==
    ASSUME Inv, RestType', QueueType',
           job' \in [Jobs -> Job],
           \A j \in Jobs : job'[j] = FreeJob \/ (Live(j)' /\ job'[j].app \in Apps),
           \A j \in Jobs : InHelper(j) => InHelper(j)' /\ job'[j].app = job[j].app,
           app' \in [Apps -> GsApp],
           \A a \in Apps : app'[a].recover \notin Helper,
           \A a \in Apps : app'[a].state \in Helper => app[a].state \in Helper
    PROVE  Inv'
<1>1. TypeOK'
    BY DEF TypeOK, RestType, QueueType
<1>2. JobInv'
    BY DEF JobInv, QueueType
<1>3. HelperInv'
    BY HelperStep
<1> QED
    BY <1>1, <1>2, <1>3 DEF Inv

\* A step that leaves the jobs alone keeps those that will leave the helper.
LEMMA SameJobs ==
    ASSUME Inv, UNCHANGED job
    PROVE  /\ job' \in [Jobs -> Job]
           /\ \A j \in Jobs : job'[j] = FreeJob \/ (Live(j)' /\ job'[j].app \in Apps)
           /\ \A j \in Jobs : InHelper(j) => InHelper(j)' /\ job'[j].app = job[j].app
    BY DEF Inv, TypeOK, JobInv, Live, InHelper

\* A step that leaves the apps alone puts none in a helper.
LEMMA SameApps ==
    ASSUME Inv, UNCHANGED app
    PROVE  /\ app' \in [Apps -> GsApp]
           /\ \A a \in Apps : app'[a].recover \notin Helper
           /\ \A a \in Apps : app'[a].state \in Helper => app[a].state \in Helper
    BY DEF Inv, TypeOK, HelperInv

\* A pending action is set or cleared.
LEMMA ActionStep ==
    ASSUME Inv, NEW a \in Apps, NEW action \in Actions, app' = [app EXCEPT ![a].action = action]
    PROVE  /\ app' \in [Apps -> GsApp]
           /\ \A b \in Apps : app'[b].recover \notin Helper
           /\ \A b \in Apps : app'[b].state \in Helper => app[b].state \in Helper
<1>1. app[a] \in GsApp /\ app[a].recover \notin Helper
    BY DEF Inv, TypeOK, HelperInv
<1> DEFINE x == [app[a] EXCEPT !.action = action]
<1>2. x \in GsApp /\ x.recover \notin Helper /\ x.state = app[a].state
    BY <1>1 DEF GsApp
<1>3. app' = [app EXCEPT ![a] = x]
    BY DEF Inv, TypeOK
<1> HIDE DEF x
<1> QED
    BY <1>2, <1>3, AppStep

\* One job that was free is started.
LEMMA StartStep ==
    ASSUME Inv, NEW j \in Jobs, job[j] = FreeJob, NEW a \in Apps,
           NEW kind \in {"install", "flush", "remove"}, NEW own \in BOOLEAN,
           NEW pc \in {"todo", "pool"},
           NEW js \in [Jobs -> Job],
           \A i \in Jobs : js[i] = FreeJob \/ (js[i].pc # "free" /\ js[i].app \in Apps),
           \A i \in Jobs : js[i].pc = job[i].pc /\ js[i].app = job[i].app,
           job' = [js EXCEPT ![j] = NewJob(a, kind, own, pc)]
    PROVE  /\ job' \in [Jobs -> Job]
           /\ \A i \in Jobs : job'[i] = FreeJob \/ (Live(i)' /\ job'[i].app \in Apps)
           /\ \A i \in Jobs : InHelper(i) => InHelper(i)' /\ job'[i].app = job[i].app
<1>1. NewJob(a, kind, own, pc) \in Job
    BY NewJobType
<1>2. NewJob(a, kind, own, pc).pc = pc /\ NewJob(a, kind, own, pc).app = a
    BY DEF NewJob
<1>3. ~InHelper(j)
    BY DEF InHelper, FreeJob, NewJob
<1> QED
    BY <1>1, <1>2, <1>3 DEF Live, InHelper

\* The jobs of an app are cancelled.
LEMMA CancelledStep ==
    ASSUME Inv, NEW a \in Apps
    PROVE  /\ Cancelled(a) \in [Jobs -> Job]
           /\ \A i \in Jobs : \/ Cancelled(a)[i] = FreeJob
                              \/ Cancelled(a)[i].pc # "free" /\ Cancelled(a)[i].app \in Apps
           /\ \A i \in Jobs : /\ Cancelled(a)[i].pc = job[i].pc
                              /\ Cancelled(a)[i].app = job[i].app
                              /\ job[i] = FreeJob => Cancelled(a)[i] = FreeJob
<1> SUFFICES ASSUME NEW i \in Jobs
             PROVE  LET c == IF job[i].app = a /\ job[i].own
                             THEN [job[i] EXCEPT !.cancelled = TRUE] ELSE job[i]
                    IN  /\ c \in Job /\ c.pc = job[i].pc /\ c.app = job[i].app
                        /\ c = FreeJob \/ (c.pc # "free" /\ c.app \in Apps)
                        /\ job[i] = FreeJob => c = FreeJob
    BY DEF Cancelled
<1>1. job[i] \in Job /\ (job[i] = FreeJob \/ (job[i].pc # "free" /\ job[i].app \in Apps))
    BY DEF Inv, TypeOK, JobInv, Live
<1>2. FreeJob.own = FALSE
    BY DEF FreeJob, NewJob
<1>3. CASE job[i].app = a /\ job[i].own
    BY <1>1, <1>2, <1>3 DEF Job
<1>4. CASE ~(job[i].app = a /\ job[i].own)
    BY <1>1, <1>4
<1> QED
    BY <1>3, <1>4

\* gs_plugin_loader_maybe_flush_pending_install_queue()
LEMMA FlushStep ==
    ASSUME Inv, MaybeFlush
    PROVE  /\ job' \in [Jobs -> Job]
           /\ \A j \in Jobs : job'[j] = FreeJob \/ (Live(j)' /\ job'[j].app \in Apps)
           /\ \A j \in Jobs : InHelper(j) => InHelper(j)' /\ job'[j].app = job[j].app
           /\ app' \in [Apps -> GsApp]
           /\ \A a \in Apps : app'[a].recover \notin Helper
           /\ \A a \in Apps : app'[a].state \in Helper => app[a].state \in Helper
           /\ obsolete' \subseteq Apps
<1>1. CASE network' # "online"
    <2>1. UNCHANGED <<app, obsolete, job>>
        BY <1>1 DEF MaybeFlush
    <2> QED
        BY <2>1, SameJobs, SameApps DEF Inv, TypeOK
<1>2. CASE network' = "online"
    <2> DEFINE ready == {a \in queue : app[a].state = "queued"}
    <2>1. ready \subseteq Apps
        BY DEF Inv, TypeOK
    <2>2. app' = [a \in Apps |-> IF a \in ready THEN SetState(app[a], "available") ELSE app[a]]
        BY <1>2 DEF MaybeFlush
    <2>3. \A a \in Apps : /\ app[a] \in GsApp /\ app[a].recover \notin Helper
                          /\ SetState(app[a], "available") \in GsApp
                          /\ SetState(app[a], "available").recover \notin Helper
                          /\ SetState(app[a], "available").state = "available"
        <3>1. \A a \in Apps : app[a] \in GsApp /\ app[a].recover \notin Helper
            BY DEF Inv, TypeOK, HelperInv
        <3>2. "available" \in States
            BY DEF States
        <3> QED
            BY <3>1, <3>2, SetStateType, SetStateRecovers
    <2>4. obsolete' \subseteq Apps
        BY <1>2 DEF MaybeFlush, Inv, TypeOK
    <2>5. PICK slot \in [ready -> {j \in Jobs : job[j] = FreeJob}] :
              job' = [j \in Jobs |->
                         IF \E a \in ready : slot[a] = j
                         THEN NewJob(CHOOSE a \in ready : slot[a] = j, "flush", TRUE, "todo")
                         ELSE job[j]]
        BY <1>2 DEF MaybeFlush
    <2> HIDE DEF ready
    <2>6. \A j \in Jobs : \/ job'[j] = job[j]
                          \/ /\ job[j] = FreeJob
                             /\ \E a \in Apps : job'[j] = NewJob(a, "flush", TRUE, "todo")
        <3> SUFFICES ASSUME NEW j \in Jobs, NEW b \in ready, slot[b] = j
                     PROVE  /\ job[j] = FreeJob
                            /\ \E a \in Apps : job'[j] = NewJob(a, "flush", TRUE, "todo")
            BY <2>5
        <3>1. job[j] = FreeJob
            BY <2>5
        <3> DEFINE c == CHOOSE a \in ready : slot[a] = j
        <3>2. c \in ready
            OBVIOUS
        <3>3. job'[j] = NewJob(c, "flush", TRUE, "todo")
            BY <2>5
        <3> QED
            BY <2>1, <3>1, <3>2, <3>3
    <2>7. \A a \in Apps : LET n == NewJob(a, "flush", TRUE, "todo") IN
              n \in Job /\ n.pc = "todo" /\ n.app = a
        BY NewJobType DEF NewJob
    <2>8. job' \in [Jobs -> Job]
        <3>1. \A j \in Jobs : job'[j] \in Job
            BY <2>6, <2>7 DEF Inv, TypeOK
        <3> QED
            BY <2>5, <3>1
    <2>9. \A j \in Jobs : job'[j] = FreeJob \/ (Live(j)' /\ job'[j].app \in Apps)
        BY <2>6, <2>7 DEF Inv, JobInv, Live
    <2>10. \A j \in Jobs : InHelper(j) => InHelper(j)' /\ job'[j].app = job[j].app
        BY <2>6 DEF InHelper, FreeJob, NewJob
    <2>11. /\ app' \in [Apps -> GsApp]
           /\ \A a \in Apps : app'[a].recover \notin Helper
           /\ \A a \in Apps : app'[a].state \in Helper => app[a].state \in Helper
        BY <2>2, <2>3 DEF Helper
    <2> QED
        BY <2>4, <2>8, <2>9, <2>10, <2>11
<1> QED
    BY <1>1, <1>2

\* A callback is due only for a job that left the helper before.
LEMMA CallbackStep ==
    ASSUME Inv, NEW j \in Jobs, job[j].reply # "none",
           NEW reply \in {"none", "recover"}, Settle(j, job[j].pc, reply)
    PROVE  /\ job' \in [Jobs -> Job]
           /\ \A i \in Jobs : job'[i] = FreeJob \/ (Live(i)' /\ job'[i].app \in Apps)
           /\ \A i \in Jobs : InHelper(i) => InHelper(i)' /\ job'[i].app = job[i].app
           /\ job[j].app \in Apps
<1>1. job[j] # FreeJob
    BY DEF FreeJob, NewJob
<1>2. job[j] \in Job /\ job[j].app \in Apps /\ job[j].pc # "free"
    BY <1>1, LiveJob
<1>3. PICK r \in Job : /\ r = FreeJob \/ (r.pc = job[j].pc /\ r.app = job[j].app)
                       /\ job' = [job EXCEPT ![j] = r]
    BY <1>2, SettleStep
<1>4. r = FreeJob => job[j].pc = "done"
    <2>1. CASE job[j].pc = "done" /\ reply = "none"
        BY <2>1
    <2>2. CASE ~(job[j].pc = "done" /\ reply = "none")
        <3>1. job' = [job EXCEPT ![j] = [@ EXCEPT !.pc = job[j].pc, !.reply = reply]]
            BY <2>2 DEF Settle
        <3>2. job'[j].pc = job[j].pc /\ job'[j] = r
            BY <1>2, <1>3, <3>1 DEF Inv, TypeOK, Job
        <3> QED
            BY <1>2, <3>2 DEF FreeJob, NewJob
    <2> QED
        BY <2>1, <2>2
<1>5. /\ job' \in [Jobs -> Job]
      /\ \A i \in Jobs : job'[i] = FreeJob \/ (Live(i)' /\ job'[i].app \in Apps)
      /\ \A i \in Jobs : job'[i] = IF i = j THEN r ELSE job[i]
    BY <1>2, <1>3, JobStep
<1> QED
    BY <1>2, <1>3, <1>4, <1>5 DEF InHelper

\* Each step the main thread makes on its own keeps the invariant.
LEMMA MainWorkStep ==
    ASSUME Inv, MainWork
    PROVE  Inv'
<1>0. Main \in Threads /\ onDisk \subseteq Apps
    BY DEF Threads, Inv, TypeOK
<1>1. ASSUME NEW a \in Apps, DropObsolete(a) PROVE Inv'
    <2>1. RestType'
        BY <1>1 DEF DropObsolete, RestType, Inv, TypeOK
    <2>2. QueueType'
        BY <1>0, <1>1, QueueStep DEF DropObsolete, QueueType
    <2> QED
        BY <1>1, <2>1, <2>2, SameJobs, SameApps, MainMove DEF DropObsolete
<1>2. ASSUME NEW j \in Jobs, Schedule(j) PROVE Inv'
    <2>1. job[j] \in Job /\ job[j].app \in Apps /\ job[j].pc = "todo"
        BY <1>2, LiveJob DEF Schedule, FreeJob, NewJob
    <2>2. RestType'
        BY <1>2 DEF Schedule, RestType, Inv, TypeOK
    <2>3. QueueType'
        BY <1>0, <1>2, <2>1, QueueStep DEF Schedule, QueueType
    <2>4. /\ app' \in [Apps -> GsApp]
          /\ \A b \in Apps : app'[b].recover \notin Helper
          /\ \A b \in Apps : app'[b].state \in Helper => app[b].state \in Helper
        BY <1>2, <2>1, ActionStep DEF Schedule, Actions
    <2>5. PICK r \in Job : job' = [job EXCEPT ![j] = r] /\ r.pc = "adding" /\ r.app = job[j].app
        <3> DEFINE r == [job[j] EXCEPT !.pc = "adding"]
        <3>1. r \in Job /\ r.pc = "adding" /\ r.app = job[j].app
            BY <2>1 DEF Job
        <3>2. job' = [job EXCEPT ![j] = r]
            BY <1>2 DEF Schedule, Inv, TypeOK
        <3> QED
            BY <3>1, <3>2
    <2>6. /\ job' \in [Jobs -> Job]
          /\ \A i \in Jobs : job'[i] = FreeJob \/ (Live(i)' /\ job'[i].app \in Apps)
          /\ \A i \in Jobs : job'[i] = IF i = j THEN r ELSE job[i]
        BY <2>1, <2>5, JobStep
    <2>7. \A i \in Jobs : InHelper(i) => InHelper(i)' /\ job'[i].app = job[i].app
        BY <2>1, <2>6 DEF InHelper
    <2> QED
        BY <2>2, <2>3, <2>4, <2>6, <2>7, MainMove
<1>3. ASSUME NEW j \in Jobs, PushToPool(j) PROVE Inv'
    <2>1. job[j] \in Job /\ job[j].app \in Apps /\ job[j].pc = "adding"
        BY <1>3, LiveJob DEF PushToPool, FreeJob, NewJob
    <2>2. RestType' /\ QueueType'
        BY <1>3, SameQueue DEF PushToPool, RestType, Inv, TypeOK
    <2>3. PICK r \in Job : job' = [job EXCEPT ![j] = r] /\ r.pc = "pool" /\ r.app = job[j].app
        <3> DEFINE r == [job[j] EXCEPT !.pc = "pool"]
        <3>1. r \in Job /\ r.pc = "pool" /\ r.app = job[j].app
            BY <2>1 DEF Job
        <3>2. job' = [job EXCEPT ![j] = r]
            BY <1>3 DEF PushToPool, Inv, TypeOK
        <3> QED
            BY <3>1, <3>2
    <2>4. /\ job' \in [Jobs -> Job]
          /\ \A i \in Jobs : job'[i] = FreeJob \/ (Live(i)' /\ job'[i].app \in Apps)
          /\ \A i \in Jobs : job'[i] = IF i = j THEN r ELSE job[i]
        BY <2>1, <2>3, JobStep
    <2>5. \A i \in Jobs : InHelper(i) => InHelper(i)' /\ job'[i].app = job[i].app
        BY <2>1, <2>4 DEF InHelper
    <2> QED
        BY <1>3, <2>2, <2>4, <2>5, SameApps, MainMove DEF PushToPool
<1>4. ASSUME NEW j \in Jobs, AppInstalled(j) PROVE Inv'
    <2>1. PICK reply \in {"none", "recover"} : Settle(j, job[j].pc, reply)
        BY <1>4 DEF AppInstalled
    <2>2. /\ job' \in [Jobs -> Job]
          /\ \A i \in Jobs : job'[i] = FreeJob \/ (Live(i)' /\ job'[i].app \in Apps)
          /\ \A i \in Jobs : InHelper(i) => InHelper(i)' /\ job'[i].app = job[i].app
          /\ job[j].app \in Apps
        BY <1>4, <2>1, CallbackStep DEF AppInstalled
    <2>3. RestType'
        BY <1>4 DEF AppInstalled, RestType, Inv, TypeOK
    <2>4. QueueType'
        BY <1>0, <1>4, <2>2, QueueStep DEF AppInstalled, QueueType
    <2> QED
        BY <1>4, <2>2, <2>3, <2>4, SameApps, MainMove DEF AppInstalled
<1>5. ASSUME NEW j \in Jobs, AppNotInstalled(j) PROVE Inv'
    <2> DEFINE a == job[j].app
    <2>1. /\ job' \in [Jobs -> Job]
          /\ \A i \in Jobs : job'[i] = FreeJob \/ (Live(i)' /\ job'[i].app \in Apps)
          /\ \A i \in Jobs : InHelper(i) => InHelper(i)' /\ job'[i].app = job[i].app
          /\ a \in Apps
        BY <1>5, CallbackStep DEF AppNotInstalled
    <2>2. RestType' /\ QueueType'
        BY <1>5, SameQueue DEF AppNotInstalled, RestType, Inv, TypeOK
    <2>3. app[a] \in GsApp /\ app[a].recover \notin Helper
        BY <2>1 DEF Inv, TypeOK, HelperInv
    <2> DEFINE x == SetStateRecover(app[a])
    <2>4. x \in GsApp /\ x.recover \notin Helper /\ (x.state \in Helper => app[a].state \in Helper)
        BY <2>3, RecoverType
    <2>5. app' = [app EXCEPT ![a] = x]
        BY <1>5 DEF AppNotInstalled
    <2> HIDE DEF x
    <2>6. /\ app' \in [Apps -> GsApp]
          /\ \A b \in Apps : app'[b].recover \notin Helper
          /\ \A b \in Apps : app'[b] = IF b = a THEN x ELSE app[b]
        BY <2>1, <2>4, <2>5, AppStep
    <2>7. \A b \in Apps : app'[b].state \in Helper => app[b].state \in Helper
        BY <2>4, <2>6
    <2> QED
        BY <2>1, <2>2, <2>6, <2>7, MainMove
<1>6. ASSUME FlushAfterSetup PROVE Inv'
    <2>1. RestType' /\ QueueType'
        <3>1. QueueType'
            BY <1>6, SameQueue DEF FlushAfterSetup
        <3>2. obsolete' \subseteq Apps
            BY <1>6, FlushStep DEF FlushAfterSetup
        <3> QED
            BY <1>6, <3>1, <3>2 DEF FlushAfterSetup, RestType, Inv, TypeOK
    <2> QED
        BY <1>6, <2>1, FlushStep, MainMove DEF FlushAfterSetup
<1> QED
    BY <1>1, <1>2, <1>3, <1>4, <1>5, <1>6 DEF MainWork

-----------------------------------------------------------------------------
(* The steps of the user, the network and the session.                     *)

\* A REMOVE job adds at most one job and takes none away.
LEMMA RemoveStep ==
    ASSUME Inv, NEW a \in Apps, NEW js \in [Jobs -> Job],
           \A i \in Jobs : js[i] = FreeJob \/ (js[i].pc # "free" /\ js[i].app \in Apps),
           \A i \in Jobs : /\ js[i].pc = job[i].pc /\ js[i].app = job[i].app,
           RemoveJob(a, js)
    PROVE  /\ QueueType'
           /\ job' \in [Jobs -> Job]
           /\ \A i \in Jobs : job'[i] = FreeJob \/ (Live(i)' /\ job'[i].app \in Apps)
           /\ \A i \in Jobs : InHelper(i) => InHelper(i)' /\ job'[i].app = job[i].app
<1>1. CASE BeginRemove(Main, a) /\ job' = js
    <2>1. QueueType'
        BY <1>1, QueueStep DEF QueueType, Threads
    <2> QED
        BY <1>1, <2>1 DEF Live, InHelper
<1>2. ASSUME NEW j \in Jobs, js[j] = FreeJob, UNCHANGED <<queue, op>>,
             job' = [js EXCEPT ![j] = NewJob(a, "remove", TRUE, "pool")]
      PROVE  /\ job' \in [Jobs -> Job]
             /\ \A i \in Jobs : job'[i] = FreeJob \/ (Live(i)' /\ job'[i].app \in Apps)
             /\ \A i \in Jobs : InHelper(i) => InHelper(i)' /\ job'[i].app = job[i].app
    <2>1. FreeJob.pc = "free"
        BY DEF FreeJob, NewJob
    <2>2. job[j] = FreeJob
        BY <1>2, <2>1 DEF Inv, JobInv, Live
    <2> QED
        BY <1>2, <2>2, StartStep
<1> QED
    BY <1>1, <1>2, SameQueue DEF RemoveJob

\* Users, the network monitor and restarts keep the invariant.
LEMMA EnvironmentStep ==
    ASSUME Inv, Environment
    PROVE  Inv'
<1>0. Main \in Threads /\ onDisk \subseteq Apps
    BY DEF Threads, Inv, TypeOK
<1>1. ASSUME NEW a \in Apps, UserInstall(a) PROVE Inv'
    <2>1. RestType' /\ QueueType'
        BY <1>1, SameQueue DEF UserInstall, RestType, Inv, TypeOK
    <2>2. PICK j \in Jobs, own \in BOOLEAN : Starts(j, NewJob(a, "install", own, "todo"))
        BY <1>1 DEF UserInstall
    <2>3. job[j] = FreeJob /\ job' = [job EXCEPT ![j] = NewJob(a, "install", own, "todo")]
        BY <2>2 DEF Starts
    <2>4. /\ job \in [Jobs -> Job]
          /\ \A i \in Jobs : job[i] = FreeJob \/ (job[i].pc # "free" /\ job[i].app \in Apps)
        BY DEF Inv, TypeOK, JobInv, Live
    <2>5. /\ job' \in [Jobs -> Job]
          /\ \A i \in Jobs : job'[i] = FreeJob \/ (Live(i)' /\ job'[i].app \in Apps)
          /\ \A i \in Jobs : InHelper(i) => InHelper(i)' /\ job'[i].app = job[i].app
        BY <2>3, <2>4, StartStep
    <2> QED
        BY <1>1, <2>1, <2>5, SameApps, MainMove DEF UserInstall
<1>2. ASSUME NEW a \in Apps, UserCancel(a) PROVE Inv'
    <2>1. RestType'
        BY <1>2 DEF UserCancel, RestType, Inv, TypeOK
    <2>2. /\ QueueType'
          /\ job' \in [Jobs -> Job]
          /\ \A i \in Jobs : job'[i] = FreeJob \/ (Live(i)' /\ job'[i].app \in Apps)
          /\ \A i \in Jobs : InHelper(i) => InHelper(i)' /\ job'[i].app = job[i].app
        BY <1>2, CancelledStep, RemoveStep DEF UserCancel
    <2> QED
        BY <1>2, <2>1, <2>2, SameApps, MainMove DEF UserCancel
<1>3. ASSUME NEW a \in Apps, UserRemove(a) PROVE Inv'
    <2>1. RestType'
        BY <1>3 DEF UserRemove, RestType, Inv, TypeOK
    <2>2. /\ job \in [Jobs -> Job]
          /\ \A i \in Jobs : job[i] = FreeJob \/ (job[i].pc # "free" /\ job[i].app \in Apps)
        BY DEF Inv, TypeOK, JobInv, Live
    <2>3. /\ QueueType'
          /\ job' \in [Jobs -> Job]
          /\ \A i \in Jobs : job'[i] = FreeJob \/ (Live(i)' /\ job'[i].app \in Apps)
          /\ \A i \in Jobs : InHelper(i) => InHelper(i)' /\ job'[i].app = job[i].app
        BY <1>3, <2>2, RemoveStep DEF UserRemove
    <2> QED
        BY <1>3, <2>1, <2>3, SameApps, MainMove DEF UserRemove
<1>4. ASSUME NEW a \in Apps, UserStop(a) PROVE Inv'
    <2>1. RestType' /\ QueueType'
        BY <1>4, SameQueue DEF UserStop, RestType, Inv, TypeOK
    <2>2. /\ job' \in [Jobs -> Job]
          /\ \A i \in Jobs : job'[i] = FreeJob \/ (Live(i)' /\ job'[i].app \in Apps)
          /\ \A i \in Jobs : InHelper(i) => InHelper(i)' /\ job'[i].app = job[i].app
        BY <1>4, CancelledStep DEF UserStop, Live, InHelper
    <2>3. /\ app' \in [Apps -> GsApp]
          /\ \A b \in Apps : app'[b].recover \notin Helper
          /\ \A b \in Apps : app'[b].state \in Helper => app[b].state \in Helper
        BY <1>4, ActionStep DEF UserStop, Actions
    <2> QED
        BY <2>1, <2>2, <2>3, MainMove
<1>5. ASSUME NetworkSignal PROVE Inv'
    <2>1. QueueType' /\ obsolete' \subseteq Apps
        BY <1>5, SameQueue, FlushStep DEF NetworkSignal
    <2>2. signals' \in 0..MaxSignals
        BY <1>5, BoundsAssumption DEF NetworkSignal, Inv, TypeOK
    <2>3. RestType'
        BY <1>5, <2>1, <2>2 DEF NetworkSignal, RestType, Inv, TypeOK
    <2> QED
        BY <1>5, <2>1, <2>3, FlushStep, MainMove DEF NetworkSignal
<1>6. ASSUME Restart PROVE Inv'
    <2>1. crashes' \in 0..MaxCrashes
        BY <1>6, BoundsAssumption DEF Restart, Inv, TypeOK
    <2>2. RestType'
        BY <1>6, <2>1 DEF Restart, RestType, Inv, TypeOK
    <2>3. QueueType'
        <3>1. queue' \subseteq Apps
            BY <1>6 DEF Restart, Inv, TypeOK
        <3>2. op' = [t \in Threads |-> NoOp]
            BY <1>6 DEF Restart
        <3> QED
            BY <3>1, <3>2, FreeJobType DEF QueueType, NoOp
    <2>4. job' = [j \in Jobs |-> FreeJob]
        BY <1>6 DEF Restart
    <2>5. \A a \in Apps : /\ app'[a] \in GsApp /\ app'[a].recover \notin Helper
                          /\ app'[a].state \notin Helper
        <3>1. ASSUME NEW x \in GsApp, x.recover \notin Helper,
                     NEW st \in {"available", "queued", "installed"}
              PROVE  /\ SetState(x, st) \in GsApp /\ SetState(x, st).recover \notin Helper
                     /\ SetState(x, st).state \notin Helper
            <4>1. st \in States /\ st \notin Helper
                BY DEF States, Helper
            <4>2. SetState(x, st) \in GsApp /\ SetState(x, st).state = st
                BY <3>1, <4>1, SetStateType
            <4>3. SetState(x, st).recover \notin Helper
                BY <3>1, <4>1, SetStateRecovers
            <4> QED
                BY <4>1, <4>2, <4>3
        <3>2. NewApp \in GsApp /\ NewApp.recover \notin Helper
            BY NewAppType DEF Helper
        <3> SUFFICES ASSUME NEW a \in Apps
                     PROVE  /\ app'[a] \in GsApp /\ app'[a].recover \notin Helper
                            /\ app'[a].state \notin Helper
            OBVIOUS
        <3>3. CASE a \in file \ onDisk
            <4>1. app'[a] = SetState(SetState(NewApp, "available"), "queued")
                BY <1>6, <3>3 DEF Restart
            <4> QED
                BY <3>1, <3>2, <4>1
        <3>4. CASE a \notin file \ onDisk
            <4>1. app'[a] = SetState(NewApp, Truth(a))
                BY <1>6, <3>4 DEF Restart
            <4> QED
                BY <3>1, <3>2, <4>1 DEF Truth
        <3> QED
            BY <3>3, <3>4
    <2>6. app' \in [Apps -> GsApp]
        BY <1>6, <2>5 DEF Restart
    <2>7. TypeOK'
        BY <2>2, <2>3, <2>4, <2>6, FreeJobType DEF RestType, QueueType, TypeOK
    <2>8. JobInv' /\ HelperInv'
        BY <2>3, <2>4, <2>5 DEF QueueType, JobInv, HelperInv
    <2> QED
        BY <2>7, <2>8 DEF Inv
<1> QED
    BY <1>1, <1>2, <1>3, <1>4, <1>5, <1>6 DEF Environment

-----------------------------------------------------------------------------
(* The theorems.                                                           *)

\* The invariant is inductive.
LEMMA InvStep == Inv /\ [Next]_vars => Inv'
<1> SUFFICES ASSUME Inv, [Next]_vars PROVE Inv'
    OBVIOUS
<1>1. CASE Next
    BY <1>1, EnvironmentStep, MainWorkStep, JobNextStep, ChangeStep, WriteStep
       DEF Next, QueueOp
<1>2. CASE UNCHANGED vars
    <2>1. RestType' /\ QueueType'
        BY <1>2, SameQueue DEF vars, RestType, Inv, TypeOK
    <2> QED
        BY <1>2, <2>1, SameJobs, SameApps, MainMove DEF vars
<1> QED
    BY <1>1, <1>2

\* Hence it holds always.
LEMMA InvAlways == SafeSpec => []Inv
    BY InvInit, InvStep, PTL DEF SafeSpec

\* Every variable keeps its type, for any number of apps and jobs and any
\* bound on the signals and the crashes.
THEOREM TypeCorrect == SafeSpec => []TypeOK
<1>1. Inv => TypeOK
    BY DEF Inv
<1> QED
    BY <1>1, InvAlways, PTL

\* When no job is left, no app is left in an action helper: the property of
\* the runs, for any number of apps and jobs.
THEOREM NobodyLeftInHelper == SafeSpec => []NotLeftInHelper
<1>1. Inv => NotLeftInHelper
    BY DEF Inv, HelperInv, NotLeftInHelper, Quiet, Live, InHelper, Helper
<1> QED
    BY <1>1, InvAlways, PTL

-----------------------------------------------------------------------------
(* What is in the list, and what has a pending action.                     *)

\* What WaitingInv says of one app.
WaitingFor(a) ==
    /\ app[a].action \in {"unknown", "install"}
    /\ a \in queue => Loaded(a) \/ \E j \in Jobs : TakesOff(j, a)
    /\ app[a].action # "unknown" =>
         \/ Loaded(a) \/ \E j \in Jobs : Clears(j, a)
         \/ op[Main].at = "removed" /\ op[Main].app = a /\ AsLoaded(a)

LEMMA WaitingIs ==
    /\ WaitingInv <=> \A a \in Apps : WaitingFor(a)
    /\ WaitingInv' <=> \A a \in Apps : WaitingFor(a)'
    BY DEF WaitingInv, WaitingFor

\* gs_app_set_state() announces an action only with QUEUED.
LEMMA SetStateAction ==
    ASSUME NEW x \in GsApp, NEW s \in States
    PROVE  /\ s # "queued" => SetState(x, s).action \in {x.action, "unknown"}
           /\ SetState(x, s).action \in {x.action, "unknown", "install"}
           /\ SetStateRecover(x).action = x.action
    BY DEF SetState, SetStateRecover, GsApp

\* An app that a step has nothing to do with.
LEMMA Elsewhere ==
    ASSUME NEW b \in Apps, WaitingFor(b), app'[b] = app[b], b \in queue' <=> b \in queue,
           b \in obsolete' => b \in obsolete, b \in onDisk' => b \in onDisk,
           \A i \in Jobs : job'[i].app = b => job[i].app = b,
           \A i \in Jobs : job[i].app = b =>
               job'[i].app = b /\ job'[i].pc = job[i].pc /\ job'[i].kind = job[i].kind,
           \A t \in Threads : op'[t].app = b => op[t].app = b,
           op[Main].app = b /\ op[Main].at = "removed" => op'[Main] = op[Main]
    PROVE  WaitingFor(b)'
<1>1. \A i \in Jobs : (TakesOff(i, b) => TakesOff(i, b)') /\ (Clears(i, b) => Clears(i, b)')
    BY DEF TakesOff, Clears, Installs
<1>2. AsLoaded(b) => AsLoaded(b)'
    BY DEF AsLoaded
<1>3. Loaded(b) => Loaded(b)'
    BY <1>2 DEF Loaded
<1> QED
    BY <1>1, <1>2, <1>3 DEF WaitingFor

\* An app that a job works on.
LEMMA WorkedOn ==
    ASSUME NEW a \in Apps, app'[a].action \in {"unknown", "install"},
           a \in queue' => \E i \in Jobs : TakesOff(i, a)',
           app'[a].action # "unknown" => \E i \in Jobs : Clears(i, a)'
    PROVE  WaitingFor(a)'
    BY DEF WaitingFor

\* A step of a job, or of the main thread for it, that touches only its app.
LEMMA JobWaits ==
    ASSUME Inv, WaitingInv, NEW j \in Jobs, NEW a \in Apps, job[j].app = a,
           \A i \in Jobs : i # j => job'[i] = job[i],
           job'[j] = FreeJob \/ (job'[j].app = a /\ job'[j].kind = job[j].kind),
           \A b \in Apps : b # a => app'[b] = app[b],
           app'[a].action \in {"unknown", "install"},
           \A b \in Apps : b # a => (b \in queue' <=> b \in queue) /\ (b \in onDisk' => b \in onDisk),
           obsolete' = obsolete,
           NEW t \in {j, Main}, op[t] = NoOp, op'[t].app \in {a, NoApp},
           \A u \in Threads : u # t => op'[u] = op[u],
           a \in queue' => TakesOff(j, a)' \/ (a \in queue /\ (TakesOff(j, a) => TakesOff(j, a)')),
           app'[a].action # "unknown" =>
               Clears(j, a)' \/ (app[a].action # "unknown" /\ (Clears(j, a) => Clears(j, a)'))
    PROVE  WaitingInv'
<1>2. FreeJob.app = NoApp /\ NoOp.app = NoApp /\ NoOp.at = "none" /\ NoApp \notin Apps /\ Main \in Threads
    BY NamesAssumption DEF FreeJob, NewJob, NoOp, Threads
<1>3. ASSUME NEW b \in Apps, b # a PROVE WaitingFor(b)'
    <2>1. WaitingFor(b)
        BY WaitingIs
    <2>2. \A i \in Jobs : job'[i].app = b => job[i].app = b
        BY <1>2, <1>3
    <2>3. \A i \in Jobs : job[i].app = b => job'[i].app = b /\ job'[i].pc = job[i].pc /\ job'[i].kind = job[i].kind
        BY <1>3
    <2>4. /\ \A u \in Threads : op'[u].app = b => op[u].app = b
          /\ op[Main].app = b /\ op[Main].at = "removed" => op'[Main] = op[Main]
        BY <1>2, <1>3
    <2>5. /\ app'[b] = app[b] /\ (b \in queue' <=> b \in queue) /\ (b \in obsolete' => b \in obsolete)
          /\ (b \in onDisk' => b \in onDisk)
        BY <1>3
    <2> QED
        BY <2>1, <2>2, <2>3, <2>4, <2>5, Elsewhere
<1>4. WaitingFor(a)'
    <2>1. WaitingFor(a) /\ ~AsLoaded(a) /\ ~Loaded(a)
        BY WaitingIs DEF AsLoaded, Loaded
    <2>2. \A i \in Jobs : i # j => (TakesOff(i, a) => TakesOff(i, a)') /\ (Clears(i, a) => Clears(i, a)')
        BY DEF TakesOff, Clears, Installs
    <2>3. a \in queue' => \E i \in Jobs : TakesOff(i, a)'
        BY <2>1, <2>2 DEF WaitingFor
    <2>4. app'[a].action # "unknown" => \E i \in Jobs : Clears(i, a)'
        BY <2>1, <2>2 DEF WaitingFor
    <2> QED
        BY <2>3, <2>4, WorkedOn
<1>5. \A b \in Apps : WaitingFor(b)'
    BY <1>3, <1>4
<1> QED
    BY <1>5, WaitingIs

\* What its pc says of a job: which of the two it has still to do.
LEMMA PcSays ==
    ASSUME NEW j \in Jobs, NEW a
    PROVE  /\ ~Installs(j) => ~TakesOff(j, a) /\ ~Clears(j, a)
           /\ ~Installs(j)' => ~TakesOff(j, a)' /\ ~Clears(j, a)'
           /\ TakesOff(j, a) => Clears(j, a) /\ job[j].pc \notin {"removing", "refining", "clearing", "done"}
           /\ /\ job'[j].app = a /\ Installs(j)'
              /\ job'[j].pc \in {"todo", "adding", "pool", "start", "offered", "acting", "failed", "ended"}
              => TakesOff(j, a)' /\ Clears(j, a)'
           /\ /\ job'[j].app = a /\ Installs(j)' /\ job'[j].pc \in {"removing", "refining", "clearing"}
              => Clears(j, a)'
    BY DEF TakesOff, Clears

\* A step of a job that goes on to another point before the end.
LEMMA GoesOn ==
    ASSUME Inv, WaitingInv, NEW j \in Jobs, NEW a \in Apps, job[j].app = a, NEW from, "free" \notin from, At(j, from), NEW pc, GoTo(j, pc),
           pc \in {"start", "offered", "acting", "failed", "ended", "removing", "refining"},
           \A b \in Apps : b # a => app'[b] = app[b],
           app'[a].action \in {"unknown", "install"},
           Installs(j) \/ app'[a].action \in {"unknown", app[a].action},
           onDisk' \in {onDisk, onDisk \union {a}, onDisk \ {a}},
           \/ UNCHANGED <<queue, op>>
           \/ BeginAdd(j, a) /\ Installs(j)
           \/ BeginRemove(j, a),
           pc \in {"removing", "refining"} =>
               \/ from \subseteq {"removing", "refining"} /\ UNCHANGED queue
               \/ BeginRemove(j, a)
    PROVE  WaitingInv'
<1> DEFINE r == [job[j] EXCEPT !.pc = pc, !.ok = @ /\ pc # "failed"]
<1>1. job[j] # FreeJob /\ job[j] \in Job /\ job[j].pc \in from /\ op[j] = NoOp /\ obsolete' = obsolete
    BY AtStep DEF At
<1>2. r.app = a /\ r.kind = job[j].kind /\ r.pc = pc
    BY <1>1 DEF Job
<1>3. job' = [job EXCEPT ![j] = r] /\ job'[j] = r
    BY DEF GoTo, Inv, TypeOK
<1> HIDE DEF r
<1>4. op'[j].app \in {a, NoApp} /\ \A u \in Threads : u # j => op'[u] = op[u]
    <2>1. j \in Threads /\ op \in [Threads -> Op] /\ NoOp.app = NoApp
        BY DEF Threads, Inv, TypeOK, NoOp
    <2>2. CASE op' = op
        BY <1>1, <2>1, <2>2
    <2>3. CASE \E at \in {"added", "removed"} : op' = [op EXCEPT ![j] = [at |-> at, app |-> a, save |-> {}]]
        BY <2>1, <2>3
    <2>4. CASE BeginAdd(j, a)
        BY <2>3, <2>4 DEF BeginAdd
    <2>5. CASE BeginRemove(j, a)
        BY <2>2, <2>3, <2>5 DEF BeginRemove
    <2>6. CASE UNCHANGED <<queue, op>>
        BY <2>2, <2>6
    <2> QED
        BY <2>4, <2>5, <2>6
<1>5. /\ queue' \in {queue, queue \union {a}, queue \ {a}}
      /\ BeginRemove(j, a) => a \notin queue'
      /\ ~Installs(j) => (a \in queue' => a \in queue)
    <2>1. UNCHANGED queue \/ (queue' = queue \union {a} /\ Installs(j)) \/ queue' = queue \ {a}
        BY DEF BeginAdd, BeginRemove
    <2>2. BeginRemove(j, a) => queue' = queue \ {a}
        BY DEF BeginRemove
    <2> QED
        BY <2>1, <2>2
<1>10. /\ \A b \in Apps : b # a => (b \in queue' <=> b \in queue) /\ (b \in onDisk' => b \in onDisk)
       /\ \A i \in Jobs : i # j => job'[i] = job[i]
       /\ job'[j].app = a /\ job'[j].kind = job[j].kind
    BY <1>2, <1>3, <1>5 DEF Inv, TypeOK
<1>6. Installs(j)' <=> Installs(j)
    BY <1>2, <1>3 DEF Installs
<1>7. CASE ~Installs(j)
    <2>1. a \in queue' => a \in queue /\ ~TakesOff(j, a)
        BY <1>5, <1>7, PcSays
    <2>2. app'[a].action # "unknown" => app[a].action # "unknown" /\ ~Clears(j, a)
        BY <1>7, PcSays
    <2> QED
        BY <1>1, <1>2, <1>3, <1>4, <1>10, <2>1, <2>2, JobWaits
<1>8. CASE Installs(j) /\ pc \notin {"removing", "refining"}
    <2>1. TakesOff(j, a)' /\ Clears(j, a)'
        BY <1>2, <1>3, <1>6, <1>8, PcSays
    <2> QED
        BY <1>1, <1>2, <1>3, <1>4, <1>10, <2>1, JobWaits
<1>9. CASE Installs(j) /\ pc \in {"removing", "refining"}
    <2>1. Clears(j, a)'
        BY <1>2, <1>3, <1>6, <1>9, PcSays
    <2>2. a \in queue' => a \in queue /\ ~TakesOff(j, a)
        <3>1. CASE BeginRemove(j, a)
            BY <1>5, <3>1
        <3>2. CASE ~BeginRemove(j, a)
            <4>1. job[j].pc \in {"removing", "refining"} /\ UNCHANGED queue
                BY <1>1, <1>9, <3>2
            <4> QED
                BY <4>1 DEF TakesOff
        <3> QED
            BY <3>1, <3>2
    <2> QED
        BY <1>1, <1>2, <1>3, <1>4, <1>10, <2>1, <2>2, JobWaits
<1> QED
    BY <1>7, <1>8, <1>9

\* The end of a job for one of its two parties.
LEMMA SettleIs ==
    ASSUME Inv, NEW j \in Jobs, NEW pc, NEW reply, job[j] \in Job, Settle(j, pc, reply)
    PROVE  /\ \A i \in Jobs : i # j => job'[i] = job[i]
           /\ \/ job'[j] = FreeJob /\ pc = "done"
              \/ job'[j].app = job[j].app /\ job'[j].kind = job[j].kind /\ job'[j].pc = pc
<1>2. CASE pc = "done" /\ reply = "none"
    <2>1. job' = [job EXCEPT ![j] = FreeJob]
        BY <1>2 DEF Settle
    <2> QED
        BY <1>2, <2>1 DEF Inv, TypeOK
<1>3. CASE ~(pc = "done" /\ reply = "none")
    <2>1. job' = [job EXCEPT ![j] = [@ EXCEPT !.pc = pc, !.reply = reply]]
        BY <1>3 DEF Settle
    <2> QED
        BY <2>1 DEF Inv, TypeOK, Job
<1> QED
    BY <1>2, <1>3

\* A change of the state of one app, other than to QUEUED.
LEMMA SetStateMoves ==
    ASSUME app \in [Apps -> GsApp], \A b \in Apps : app[b].action \in {"unknown", "install"}, NEW a \in Apps,
           \/ \E s \in States \ {"queued"} : app' = [app EXCEPT ![a] = SetState(app[a], s)]
           \/ app' = [app EXCEPT ![a] = SetStateRecover(app[a])]
           \/ app' = [app EXCEPT ![a].action = IF @ = "install" THEN "unknown" ELSE @]
           \/ UNCHANGED app
    PROVE  /\ \A b \in Apps : b # a => app'[b] = app[b]
           /\ app'[a].action \in {"unknown", "install"} /\ app'[a].action \in {"unknown", app[a].action}
<1>1. app[a] \in GsApp
    OBVIOUS
<1>2. ASSUME NEW x, x.action \in {"unknown", app[a].action}, app' = [app EXCEPT ![a] = x]
      PROVE  /\ \A b \in Apps : b # a => app'[b] = app[b]
             /\ app'[a].action \in {"unknown", "install"} /\ app'[a].action \in {"unknown", app[a].action}
    BY <1>2
<1>3. CASE \E s \in States \ {"queued"} : app' = [app EXCEPT ![a] = SetState(app[a], s)]
    BY <1>1, <1>2, <1>3, SetStateAction
<1>4. CASE app' = [app EXCEPT ![a] = SetStateRecover(app[a])]
    <2>1. SetStateRecover(app[a]).action = app[a].action
        BY <1>1, SetStateAction DEF States
    <2> QED
        BY <1>2, <1>4, <2>1
<1>5. CASE app' = [app EXCEPT ![a].action = IF @ = "install" THEN "unknown" ELSE @]
    <2>1. app'[a].action = IF app[a].action = "install" THEN "unknown" ELSE app[a].action
        BY <1>1, <1>5 DEF GsApp
    <2> QED
        BY <1>5, <2>1
<1> QED
    BY <1>3, <1>4, <1>5

\* A step of a job that neither goes on by GoTo() nor touches the queue.
LEMMA EndsUp ==
    ASSUME Inv, WaitingInv, NEW j \in Jobs, NEW a \in Apps, job[j].app = a, NEW from, At(j, from),
           \A i \in Jobs : i # j => job'[i] = job[i],
           job'[j] = FreeJob \/ (job'[j].app = a /\ job'[j].kind = job[j].kind),
           \A b \in Apps : b # a => app'[b] = app[b],
           app'[a].action \in {"unknown", "install"}, app'[a].action \in {"unknown", app[a].action},
           UNCHANGED <<queue, op, onDisk>>,
           TakesOff(j, a) => TakesOff(j, a)',
           app'[a].action # "unknown" /\ Clears(j, a) => Clears(j, a)'
    PROVE  WaitingInv'
<1>1. op[j] = NoOp /\ NoOp.app = NoApp /\ obsolete' = obsolete
    BY DEF At, NoOp
<1>2. op'[j].app \in {a, NoApp} /\ \A u \in Threads : u # j => op'[u] = op[u]
    BY <1>1
<1> QED
    BY <1>1, <1>2, JobWaits

\* Each step of a job.
LEMMA JobNextWaits ==
    ASSUME Inv, WaitingInv, NEW j \in Jobs, JobNext(j)
    PROVE  WaitingInv'
<1> SUFFICES ASSUME NEW a, a = job[j].app PROVE WaitingInv'
    OBVIOUS
<1>0. app \in [Apps -> GsApp] /\ \A b \in Apps : app[b].action \in {"unknown", "install"}
    BY WaitingIs DEF WaitingFor, Inv, TypeOK
<1>1. CASE Start(j)
    <2>1. At(j, {"pool"}) /\ a \in Apps /\ app[a] \in GsApp
        BY <1>1, AtStep DEF Start
    <2>2. /\ GoTo(j, "start") /\ UNCHANGED <<app, onDisk>>
          /\ (BeginAdd(j, a) /\ Installs(j)) \/ BeginRemove(j, a)
        BY <1>1 DEF Start
    <2> QED
        BY <1>0, <2>1, <2>2, GoesOn
<1>2. CASE RunCancelled(j)
    <2>1. At(j, {"start", "offered"}) /\ a \in Apps /\ app[a] \in GsApp
        BY <1>2, AtStep DEF RunCancelled
    <2>2. GoTo(j, "failed") /\ UNCHANGED <<app, onDisk, queue, op>>
        BY <1>2 DEF RunCancelled
    <2> QED
        BY <1>0, <2>1, <2>2, GoesOn
<1>3. CASE RunOther(j)
    <2>1. At(j, {"start"}) /\ a \in Apps /\ app[a] \in GsApp
        BY <1>3, AtStep DEF RunOther
    <2>2. /\ GoTo(j, "offered") /\ UNCHANGED <<app, onDisk>>
          /\ (BeginAdd(j, a) /\ Installs(j)) \/ UNCHANGED <<queue, op>>
        BY <1>3 DEF RunOther
    <2> QED
        BY <1>0, <2>1, <2>2, GoesOn
<1>4. CASE RunOffline(j)
    <2>1. At(j, {"start", "offered"}) /\ a \in Apps /\ app[a] \in GsApp
        BY <1>4, AtStep DEF RunOffline
    <2>2. /\ GoTo(j, "ended") /\ UNCHANGED onDisk /\ BeginAdd(j, a) /\ Installs(j)
          /\ app' = [app EXCEPT ![a] = SetState(app[a], "queued")]
        BY <1>4 DEF RunOffline
    <2>3. SetState(app[a], "queued") \in GsApp /\ SetState(app[a], "queued").action \in {"unknown", "install"}
        BY <1>0, <2>1, SetStateType, SetStateAction DEF States
    <2>4. (\A b \in Apps : b # a => app'[b] = app[b]) /\ app'[a] = SetState(app[a], "queued")
        BY <1>0, <2>1, <2>2
    <2> QED
        BY <2>1, <2>2, <2>3, <2>4, GoesOn
<1>5. CASE RunPlugin(j)
    <2>1. At(j, {"start", "offered"}) /\ a \in Apps /\ app[a] \in GsApp
        BY <1>5, AtStep DEF RunPlugin
    <2>2. /\ GoTo(j, "acting") /\ UNCHANGED <<onDisk, queue, op>>
          /\ \E s \in States \ {"queued"} : app' = [app EXCEPT ![a] = SetState(app[a], s)]
        <3>1. app' = [app EXCEPT ![a] = SetState(@, IF Installs(j) THEN "installing" ELSE "removing")]
            BY <1>5 DEF RunPlugin
        <3>2. (IF Installs(j) THEN "installing" ELSE "removing") \in States \ {"queued"}
            BY DEF States
        <3> QED
            BY <1>5, <3>1, <3>2 DEF RunPlugin
    <2>3. /\ \A b \in Apps : b # a => app'[b] = app[b]
          /\ app'[a].action \in {"unknown", "install"} /\ app'[a].action \in {"unknown", app[a].action}
        BY <1>0, <2>1, <2>2, SetStateMoves
    <2> QED
        BY <2>1, <2>2, <2>3, GoesOn
<1>6. CASE RunRefused(j)
    <2>1. At(j, {"start", "offered"}) /\ a \in Apps /\ app[a] \in GsApp
        BY <1>6, AtStep DEF RunRefused
    <2>2. PICK pc \in {"failed", "ended"} : GoTo(j, pc) /\ UNCHANGED <<app, onDisk, queue, op>>
        BY <1>6 DEF RunRefused, AfterError
    <2> QED
        BY <1>0, <2>1, <2>2, GoesOn
<1>7. CASE Succeed(j)
    <2>1. At(j, {"acting"}) /\ a \in Apps /\ app[a] \in GsApp
        BY <1>7, AtStep DEF Succeed
    <2>2. /\ \E pc \in {"failed", "ended"} : GoTo(j, pc) /\ UNCHANGED <<queue, op>>
          /\ onDisk' \in {onDisk \union {a}, onDisk \ {a}}
          /\ \E s \in States \ {"queued"} : app' = [app EXCEPT ![a] = SetState(app[a], s)]
        BY <1>7 DEF Succeed, AfterError, States
    <2> QED
        BY <1>0, <2>1, <2>2, SetStateMoves, GoesOn
<1>8. CASE Fail(j)
    <2>1. At(j, {"acting"}) /\ a \in Apps /\ app[a] \in GsApp
        BY <1>8, AtStep DEF Fail
    <2>2. PICK pc \in {"failed", "ended"} : GoTo(j, pc) /\ UNCHANGED <<onDisk, queue, op>>
        BY <1>8 DEF Fail, AfterError
    <2>3. app' = [app EXCEPT ![a] = SetStateRecover(app[a])]
        BY <1>8 DEF Fail
    <2> QED
        BY <1>0, <2>1, <2>2, <2>3, SetStateMoves, GoesOn
<1>9. CASE Recover(j)
    <2>1. At(j, {"failed"}) /\ a \in Apps /\ app[a] \in GsApp
        BY <1>9, AtStep DEF Recover
    <2>2. app' = [app EXCEPT ![a] = SetStateRecover(app[a])] /\ UNCHANGED <<queue, op, onDisk>>
        BY <1>9 DEF Recover
    <2>3. /\ \A i \in Jobs : i # j => job'[i] = job[i]
          /\ job'[j].app = a /\ job'[j].kind = job[j].kind /\ job'[j].pc = "ended"
        BY <1>9, <2>1, AtStep DEF Recover, Inv, TypeOK, Job
    <2>4. (TakesOff(j, a) => TakesOff(j, a)') /\ (Clears(j, a) => Clears(j, a)')
        BY <2>3 DEF TakesOff, Clears, Installs
    <2> QED
        BY <1>0, <2>1, <2>2, <2>3, <2>4, SetStateMoves, EndsUp
<1>10. CASE End(j)
    <2>1. At(j, {"ended"}) /\ a \in Apps /\ app[a] \in GsApp
        BY <1>10, AtStep DEF End
    <2>2. GoTo(j, "removing") /\ UNCHANGED <<app, onDisk>> /\ BeginRemove(j, a)
        BY <1>10 DEF End
    <2> QED
        BY <1>0, <2>1, <2>2, GoesOn
<1>11. CASE LeaveHelper(j)
    <2>1. At(j, {"removing"}) /\ a \in Apps /\ app[a] \in GsApp
        BY <1>11, AtStep DEF LeaveHelper
    <2>2. /\ GoTo(j, "refining") /\ UNCHANGED <<onDisk, queue, op>>
          /\ app' = [app EXCEPT ![a] = SetState(app[a], "unknown")] \/ UNCHANGED app
        BY <1>0, <1>11, <2>1 DEF LeaveHelper
    <2>3. /\ \A b \in Apps : b # a => app'[b] = app[b]
          /\ app'[a].action \in {"unknown", "install"} /\ app'[a].action \in {"unknown", app[a].action}
        BY <1>0, <2>1, <2>2, SetStateMoves DEF States
    <2> QED
        BY <2>1, <2>2, <2>3, GoesOn
<1>12. CASE Answer(j)
    <2>1. At(j, {"refining"}) /\ a \in Apps /\ app[a] \in GsApp
        BY <1>12, AtStep DEF Answer
    <2>2. /\ \E s \in States \ {"queued"} : app' = [app EXCEPT ![a] = SetState(app[a], s)] \/ UNCHANGED app
          /\ UNCHANGED <<queue, op, onDisk>>
        <3>1. Truth(a) \in States \ {"queued"}
            BY DEF Truth, States
        <3>2. UNCHANGED app \/ app' = [app EXCEPT ![a] = SetState(app[a], Truth(a))]
            BY <1>12 DEF Answer
        <3> QED
            BY <1>12, <3>1, <3>2 DEF Answer, At
    <2>3. PICK pc, reply : Settle(j, pc, reply) /\ pc = IF Installs(j) THEN "clearing" ELSE "done"
        BY <1>12 DEF Answer
    <2>4. /\ \A i \in Jobs : i # j => job'[i] = job[i]
          /\ \/ job'[j] = FreeJob /\ pc = "done"
             \/ job'[j].app = a /\ job'[j].kind = job[j].kind /\ job'[j].pc = pc
        BY <2>1, <2>3, <1>12, AtStep, SettleIs DEF Answer
    <2>5. /\ TakesOff(j, a) => FALSE
          /\ Clears(j, a) => Clears(j, a)'
        BY <2>1, <2>3, <2>4 DEF At, TakesOff, Clears, Installs
    <2> QED
        BY <1>0, <2>1, <2>2, <2>4, <2>5, SetStateMoves, EndsUp
<1>13. CASE ClearAction(j)
    <2>1. At(j, {"clearing"}) /\ a \in Apps /\ app[a] \in GsApp
        BY <1>13, AtStep DEF ClearAction
    <2>2. /\ app' = [app EXCEPT ![a].action = IF @ = "install" THEN "unknown" ELSE @]
          /\ Settle(j, "done", job[j].reply) /\ UNCHANGED <<queue, op, onDisk>>
        BY <1>13 DEF ClearAction
    <2>3. /\ \A i \in Jobs : i # j => job'[i] = job[i]
          /\ job'[j] = FreeJob \/ (job'[j].app = a /\ job'[j].kind = job[j].kind)
        BY <2>1, <2>2, <1>13, AtStep, SettleIs DEF ClearAction
    <2>4. app'[a].action = "unknown"
        BY <1>0, <2>1, <2>2 DEF GsApp
    <2>5. ~TakesOff(j, a)
        BY <2>1 DEF At, TakesOff
    <2> QED
        BY <1>0, <2>1, <2>2, <2>3, <2>4, <2>5, SetStateMoves, EndsUp
<1> QED
    BY <1>1, <1>2, <1>3, <1>4, <1>5, <1>6, <1>7, <1>8, <1>9, <1>10, <1>11, <1>12, <1>13 DEF JobNext

\* The steps of a thread in the middle of a change of the queue.
LEMMA ChangeWaits ==
    ASSUME Inv, AddingInv, WaitingInv, NEW t \in Threads, Change(t)
    PROVE  WaitingInv'
<1> SUFFICES ASSUME NEW a, a = op[t].app PROVE WaitingInv'
    OBVIOUS
<1>0. a \in Apps /\ app[a] \in GsApp /\ app \in [Apps -> GsApp] /\ Main \in Threads
    BY DEF Change, Inv, TypeOK, JobInv, Threads
<1>1. /\ UNCHANGED <<queue, onDisk, obsolete, job>> /\ op[t].at \in {"added", "removed"}
      /\ \A u \in Threads : op'[u].app = op[u].app /\ (u # t => op'[u] = op[u])
    BY DEF Change, Inv, TypeOK, Op
<1>2. /\ op[t].at = "added" => app' = [app EXCEPT ![a] = SetState(app[a], "queued")]
      /\ op[t].at = "removed" /\ app[a].state = "queued" => app' = [app EXCEPT ![a] = SetState(app[a], "unknown")]
      /\ op[t].at = "removed" /\ app[a].state # "queued" => app' = app
    BY DEF Change
<1>3. ASSUME NEW b \in Apps, b # a PROVE WaitingFor(b)'
    <2>1. app'[b] = app[b]
        BY <1>0, <1>1, <1>2, <1>3
    <2>2. op[Main].app = b => op'[Main] = op[Main]
        BY <1>0, <1>1, <1>3
    <2> QED
        BY <1>1, <2>1, <2>2, WaitingIs, Elsewhere
<1>4. WaitingFor(a)'
    <2>1. WaitingFor(a) /\ ~Loaded(a)
        BY <1>0, WaitingIs DEF Loaded
    <2>2. \A i \in Jobs : (TakesOff(i, a) => TakesOff(i, a)') /\ (Clears(i, a) => Clears(i, a)')
        BY <1>1 DEF TakesOff, Clears, Installs
    <2>3. a \in queue' => \E i \in Jobs : TakesOff(i, a)'
        BY <1>1, <2>1, <2>2 DEF WaitingFor
    <2>4. CASE op[t].at = "added"
        <3>1. app'[a].action \in {"unknown", "install"}
            <4>1. app'[a] = SetState(app[a], "queued")
                BY <1>0, <1>2, <2>4
            <4>2. app[a].action \in {"unknown", "install"}
                BY <2>1 DEF WaitingFor
            <4>3. SetState(app[a], "queued").action \in {app[a].action, "unknown", "install"}
                BY <1>0, SetStateAction DEF States
            <4> QED
                BY <4>1, <4>2, <4>3
        <3>2. \E i \in Jobs : TakesOff(i, a)
            BY <2>4 DEF AddingInv, TakesOff, Threads
        <3> QED
            BY <1>0, <2>2, <2>3, <3>1, <3>2, PcSays, WorkedOn
    <2>5. CASE op[t].at = "removed" /\ app[a].state = "queued"
        <3>1. SetState(app[a], "unknown").action = "unknown"
            BY <2>5 DEF SetState
        <3>2. app'[a].action = "unknown"
            BY <1>0, <1>2, <2>5, <3>1
        <3> QED
            BY <1>0, <2>3, <3>2, WorkedOn
    <2>6. CASE op[t].at = "removed" /\ app[a].state # "queued"
        <3>1. app'[a] = app[a] /\ ~AsLoaded(a)
            BY <1>2, <2>6 DEF AsLoaded
        <3> QED
            BY <1>0, <2>1, <2>2, <2>3, <3>1, WorkedOn DEF WaitingFor
    <2> QED
        BY <1>1, <2>4, <2>5, <2>6
<1> QED
    BY <1>3, <1>4, WaitingIs

LEMMA WriteWaits ==
    ASSUME Inv, WaitingInv, NEW t \in Threads, Write(t)
    PROVE  WaitingInv'
<1>1. UNCHANGED <<app, queue, onDisk, obsolete, job>> /\ op[t].at = "write" /\ Main \in Threads
    BY DEF Write, Threads
<1>2. \A u \in Threads : op'[u] = op[u] \/ (op'[u] = NoOp /\ u = t)
    BY DEF Write, Inv, TypeOK
<1>3. NoOp.app = NoApp /\ NoApp \notin Apps
    BY NamesAssumption DEF NoOp
<1>4. ASSUME NEW b \in Apps PROVE WaitingFor(b)'
    <2>1. op[Main].at = "removed" => op'[Main] = op[Main]
        BY <1>1, <1>2
    <2>2. \A u \in Threads : op'[u].app = b => op[u].app = b
        BY <1>2, <1>3
    <2> QED
        BY <1>1, <2>1, <2>2, WaitingIs, Elsewhere
<1> QED
    BY <1>4, WaitingIs

\* Jobs that go on, whatever becomes of the empty slots.
LEMMA JobsStay ==
    ASSUME \A i \in Jobs : job[i] # FreeJob =>
               job'[i].app = job[i].app /\ job'[i].pc = job[i].pc /\ job'[i].kind = job[i].kind
    PROVE  \A b \in Apps : \A i \in Jobs :
               /\ job[i].app = b => job'[i].app = b /\ job'[i].pc = job[i].pc /\ job'[i].kind = job[i].kind
               /\ TakesOff(i, b) => TakesOff(i, b)'
               /\ Clears(i, b) => Clears(i, b)'
<1> SUFFICES ASSUME NEW b \in Apps, NEW i \in Jobs, job[i].app = b
             PROVE  /\ job'[i].app = b /\ job'[i].pc = job[i].pc /\ job'[i].kind = job[i].kind
                    /\ TakesOff(i, b) => TakesOff(i, b)'
                    /\ Clears(i, b) => Clears(i, b)'
    BY DEF TakesOff, Clears
<1>1. FreeJob.app = NoApp /\ b # NoApp
    BY NamesAssumption DEF FreeJob, NewJob
<1>2. job'[i].app = b /\ job'[i].pc = job[i].pc /\ job'[i].kind = job[i].kind
    BY <1>1
<1> QED
    BY <1>2 DEF TakesOff, Clears, Installs

\* Pages start jobs on an app that is not as it was loaded.
LEMMA StartedWaits ==
    ASSUME Inv, WaitingInv, NEW a \in Apps, ~AsLoaded(a),
           \A i \in Jobs : job[i] # FreeJob =>
               job'[i].app = job[i].app /\ job'[i].pc = job[i].pc /\ job'[i].kind = job[i].kind,
           \A i \in Jobs : job[i] = FreeJob => job'[i].app \in {a, NoApp},
           \A b \in Apps : b # a => app'[b] = app[b],
           app'[a].action \in {"unknown", app[a].action},
           \A b \in Apps : (b \in queue' => b \in queue) /\ (b # a => (b \in queue' <=> b \in queue)),
           obsolete' \subseteq obsolete, onDisk' = onDisk,
           \A t \in Threads : op'[t] = op[t] \/ (t = Main /\ op[t] = NoOp /\ op'[t].app = a)
    PROVE  WaitingInv'
<1>1. FreeJob.app = NoApp /\ NoApp \notin Apps /\ Main \in Threads
    BY NamesAssumption DEF FreeJob, NewJob, Threads
<1>2. ASSUME NEW b \in Apps, b # a PROVE WaitingFor(b)'
    <2>1. \A i \in Jobs : job'[i].app = b => job[i].app = b
        BY <1>1, <1>2
    <2>2. /\ op[Main].app = b => op'[Main] = op[Main]
          /\ \A t \in Threads : op'[t].app = b => op[t].app = b
        BY <1>1, <1>2 DEF NoOp
    <2>3. \A i \in Jobs : job[i].app = b =>
              job'[i].app = b /\ job'[i].pc = job[i].pc /\ job'[i].kind = job[i].kind
        BY JobsStay
    <2> QED
        BY <1>2, <2>1, <2>2, <2>3, WaitingIs, Elsewhere
<1>3. WaitingFor(a)'
    <2>1. WaitingFor(a) /\ ~Loaded(a)
        BY WaitingIs DEF Loaded
    <2>2. \A i \in Jobs : (TakesOff(i, a) => TakesOff(i, a)') /\ (Clears(i, a) => Clears(i, a)')
        BY JobsStay
    <2> QED
        BY <2>1, <2>2, WorkedOn DEF WaitingFor
<1> QED
    BY <1>2, <1>3, WaitingIs

\* The user takes an app back or removes it.
LEMMA RemoveWaits ==
    ASSUME Inv, WaitingInv, NEW a \in Apps, MainIdle, app' = app, obsolete' = obsolete, onDisk' = onDisk,
           NEW js, RemoveJob(a, js),
           \A i \in Jobs : js[i].app = job[i].app /\ js[i].pc = job[i].pc /\ js[i].kind = job[i].kind,
           js \in [Jobs -> Job]
    PROVE  WaitingInv'
<1>0. op[Main] = NoOp /\ Main \in Threads /\ op \in [Threads -> Op]
    BY DEF MainIdle, Threads, Inv, TypeOK
<1>1. CASE a \in queue
    <2>1. queue' = queue \ {a} /\ job' = js /\ op' = [op EXCEPT ![Main] = [at |-> "removed", app |-> a, save |-> {}]]
        BY <1>1 DEF RemoveJob, BeginRemove
    <2>2. /\ op'[Main].at = "removed" /\ op'[Main].app = a
          /\ \A t \in Threads : op'[t] = op[t] \/ (t = Main /\ op[t] = NoOp /\ op'[t].app = a)
        BY <1>0, <2>1
    <2>3. CASE ~AsLoaded(a)
        <3>1. \A i \in Jobs : job[i] = FreeJob => job'[i].app \in {a, NoApp}
            BY <2>1 DEF FreeJob, NewJob
        <3> QED
            BY <2>1, <2>2, <2>3, <3>1, StartedWaits
    <2>4. CASE AsLoaded(a)
        <3>1. AsLoaded(a)' /\ a \notin queue'
            BY <2>1, <2>4 DEF AsLoaded
        <3>2. app[a].action \in {"unknown", "install"}
            BY WaitingIs DEF WaitingFor
        <3>3. WaitingFor(a)'
            BY <2>2, <3>1, <3>2 DEF WaitingFor
        <3>4. ASSUME NEW b \in Apps, b # a PROVE WaitingFor(b)'
            <4>1. /\ op[Main].app = b => op'[Main] = op[Main]
                  /\ \A t \in Threads : op'[t].app = b => op[t].app = b
                BY <1>0, <2>2, <3>4, NamesAssumption DEF NoOp
            <4>2. \A i \in Jobs : job'[i].app = job[i].app /\ job'[i].pc = job[i].pc /\ job'[i].kind = job[i].kind
                BY <2>1
            <4>3. b \in queue' <=> b \in queue
                BY <2>1, <3>4
            <4> QED
                BY <4>1, <4>2, <4>3, WaitingIs, Elsewhere
        <3> QED
            BY <3>3, <3>4, WaitingIs
    <2> QED
        BY <2>3, <2>4
<1>2. CASE a \notin queue
    <2>1. PICK j \in Jobs : js[j] = FreeJob /\ job' = [js EXCEPT ![j] = NewJob(a, "remove", TRUE, "pool")]
        BY <1>2 DEF RemoveJob
    <2>2. UNCHANGED <<queue, op>>
        BY <1>2 DEF RemoveJob
    <2>3. job[j] = FreeJob
        <3>1. FreeJob.pc = "free" /\ job[j].pc = FreeJob.pc
            BY <2>1 DEF FreeJob, NewJob
        <3> QED
            BY <3>1 DEF Inv, JobInv, Live
    <2>4. NewJob(a, "remove", TRUE, "pool").app = a
        BY DEF NewJob
    <2>5. \A i \in Jobs : job'[i] = IF i = j THEN NewJob(a, "remove", TRUE, "pool") ELSE js[i]
        BY <2>1
    <2>6. /\ \A i \in Jobs : job[i] # FreeJob =>
                job'[i].app = job[i].app /\ job'[i].pc = job[i].pc /\ job'[i].kind = job[i].kind
          /\ \A i \in Jobs : job[i] = FreeJob => job'[i].app \in {a, NoApp}
        BY <2>3, <2>4, <2>5 DEF FreeJob, NewJob
    <2>7. CASE ~AsLoaded(a)
        BY <2>2, <2>6, <2>7, StartedWaits
    <2>8. CASE AsLoaded(a)
        <3>1. app[a].action = "unknown"
            <4>1. ~Loaded(a) /\ \A i \in Jobs : ~Clears(i, a)
                BY <1>2, <2>8 DEF Loaded, AsLoaded, Clears, TakesOff
            <4>2. op[Main].at # "removed"
                BY <1>0 DEF NoOp
            <4> QED
                BY <4>1, <4>2, WaitingIs DEF WaitingFor
        <3>2. WaitingFor(a)'
            BY <1>2, <2>2, <3>1 DEF WaitingFor
        <3>3. ASSUME NEW b \in Apps, b # a PROVE WaitingFor(b)'
            <4>1. \A i \in Jobs : job'[i].app = b => job[i].app = b
                BY <2>3, <2>4, <2>5, <3>3
            <4>2. \A i \in Jobs : job[i].app = b =>
                      job'[i].app = b /\ job'[i].pc = job[i].pc /\ job'[i].kind = job[i].kind
                BY <2>6, JobsStay
            <4> QED
                BY <2>2, <4>1, <4>2, WaitingIs, Elsewhere
        <3> QED
            BY <3>2, <3>3, WaitingIs
    <2> QED
        BY <2>7, <2>8
<1> QED
    BY <1>1, <1>2

\* A flush: each queued app gets a job, the others are obsolete.
LEMMA FlushWaits ==
    ASSUME Inv, WaitingInv, MaybeFlush, UNCHANGED <<queue, onDisk, op>>
    PROVE  /\ WaitingInv'
           /\ \A i \in Jobs : job[i] # FreeJob => job'[i] = job[i]
           /\ \A i \in Jobs : job[i] = FreeJob => job'[i] = FreeJob \/ Installs(i)'
<1> DEFINE ready == {a \in queue : app[a].state = "queued"}
<1>0. FreeJob.app = NoApp /\ NoApp \notin Apps /\ queue \subseteq Apps /\ app \in [Apps -> GsApp]
    BY NamesAssumption DEF FreeJob, NewJob, Inv, TypeOK
<1>1. CASE UNCHANGED <<app, obsolete, job>>
    <2>1. \A b \in Apps : WaitingFor(b)'
        BY <1>1, WaitingIs, Elsewhere
    <2> QED
        BY <1>1, <2>1, WaitingIs
<1>2. CASE ~UNCHANGED <<app, obsolete, job>>
    <2>1. PICK slot \in [ready -> {j \in Jobs : job[j] = FreeJob}] :
              /\ \A a, b \in ready : slot[a] = slot[b] => a = b
              /\ job' = [j \in Jobs |->
                            IF \E a \in ready : slot[a] = j
                            THEN NewJob(CHOOSE a \in ready : slot[a] = j, "flush", TRUE, "todo")
                            ELSE job[j]]
        BY <1>2 DEF MaybeFlush
    <2>2. /\ app' = [a \in Apps |-> IF a \in ready THEN SetState(app[a], "available") ELSE app[a]]
          /\ obsolete' = queue \ ready
        BY <1>2 DEF MaybeFlush
    <2>3. \A a \in ready : a \in queue /\ a \in Apps /\ app[a].state = "queued"
        BY <1>0
    <2>4. \A b \in Apps : b \in queue /\ app[b].state = "queued" => b \in ready
        OBVIOUS
    <2> HIDE DEF ready
    <2>5. ASSUME NEW a \in ready PROVE slot[a] \in Jobs /\ job'[slot[a]] = NewJob(a, "flush", TRUE, "todo")
        <3>1. slot[a] \in Jobs /\ (CHOOSE b \in ready : slot[b] = slot[a]) = a
            BY <2>1
        <3> QED
            BY <2>1, <3>1
    <2>6. /\ \A i \in Jobs : job[i] # FreeJob => job'[i] = job[i]
          /\ \A i \in Jobs : job'[i] = job[i] \/ \E a \in ready : job'[i] = NewJob(a, "flush", TRUE, "todo")
        <3>1. ASSUME NEW i \in Jobs, \A a \in ready : slot[a] # i PROVE job'[i] = job[i]
            BY <2>1, <3>1
        <3>2. \A a \in ready : job[slot[a]] = FreeJob
            BY <2>1
        <3> QED
            BY <2>5, <3>1, <3>2
    <2>7. \A a \in ready : LET n == NewJob(a, "flush", TRUE, "todo")
                            IN  n.app = a /\ n.kind = "flush" /\ n.pc = "todo"
        BY DEF NewJob
    <2>8. \A b \in Apps : \A i \in Jobs :
              /\ TakesOff(i, b) => TakesOff(i, b)'
              /\ Clears(i, b) => Clears(i, b)'
        BY <2>6, JobsStay
    <2>9. ASSUME NEW b \in ready PROVE WaitingFor(b)'
        <3>1. b \in Apps /\ TakesOff(slot[b], b)'
            BY <2>3, <2>5, <2>7 DEF TakesOff, Installs
        <3>2. app'[b].action = "unknown"
            BY <2>2, <2>3 DEF SetState
        <3> QED
            BY <2>5, <3>1, <3>2, WorkedOn
    <2>10. ASSUME NEW b \in Apps, b \notin ready PROVE WaitingFor(b)'
        <3>1. WaitingFor(b) /\ ~Loaded(b) /\ app'[b] = app[b]
            BY <2>2, <2>4, <2>10, WaitingIs DEF Loaded, AsLoaded
        <3>2. b \in queue' => \E i \in Jobs : TakesOff(i, b)'
            BY <2>8, <3>1 DEF WaitingFor
        <3>3. CASE \E i \in Jobs : Clears(i, b)
            BY <2>8, <3>1, <3>2, <3>3, WorkedOn DEF WaitingFor
        <3>4. CASE op[Main].at = "removed" /\ op[Main].app = b /\ AsLoaded(b)
            <4>1. b \notin queue
                BY <2>4, <2>10, <3>4 DEF AsLoaded
            <4>2. ASSUME NEW i \in Jobs PROVE job'[i].app # b
                <5>1. \A a \in ready : NewJob(a, "flush", TRUE, "todo").app = a
                    BY <2>7
                <5>2. CASE job'[i] = job[i]
                    BY <3>4, <5>2 DEF AsLoaded
                <5>3. CASE \E a \in ready : job'[i] = NewJob(a, "flush", TRUE, "todo")
                    <6>1. PICK a \in ready : job'[i] = NewJob(a, "flush", TRUE, "todo")
                        BY <5>3
                    <6> QED
                        BY <2>10, <5>1, <6>1
                <5> QED
                    BY <2>6, <5>2, <5>3
            <4>3. AsLoaded(b)'
                BY <2>2, <3>1, <3>4, <4>1, <4>2 DEF AsLoaded
            <4> QED
                BY <3>1, <3>2, <3>4, <4>3 DEF WaitingFor
        <3>5. CASE app[b].action = "unknown"
            BY <3>1, <3>2, <3>5, WorkedOn
        <3> QED
            BY <3>1, <3>3, <3>4, <3>5 DEF WaitingFor
    <2> QED
        BY <2>6, <2>7, <2>9, <2>10, WaitingIs DEF Installs
<1> QED
    BY <1>1, <1>2

\* The steps of the main thread on its own.
LEMMA MainWorkWaits ==
    ASSUME Inv, AddingInv, WaitingInv, MainWork
    PROVE  WaitingInv'
<1>0. Main \in Threads /\ op \in [Threads -> Op] /\ app \in [Apps -> GsApp] /\ job \in [Jobs -> Job]
    BY DEF Threads, Inv, TypeOK
<1>1. ASSUME NEW a \in Apps, DropObsolete(a) PROVE WaitingInv'
    <2>1. /\ a \in obsolete /\ obsolete' = obsolete \ {a} /\ UNCHANGED <<app, onDisk, job>>
          /\ BeginRemove(Main, a) /\ queue' = queue \ {a} /\ op[Main] = NoOp
        BY <1>1 DEF DropObsolete, BeginRemove
    <2>2. \A t \in Threads : op'[t] = op[t] \/ (t = Main /\ op[t] = NoOp /\ op'[t].app = a)
        BY <1>0, <2>1 DEF BeginRemove
    <2>3. ~AsLoaded(a) /\ \A i \in Jobs : job[i] = FreeJob => job'[i].app \in {a, NoApp}
        BY <2>1 DEF AsLoaded, FreeJob, NewJob
    <2> QED
        BY <2>1, <2>2, <2>3, StartedWaits
<1>2. ASSUME NEW j \in Jobs, Schedule(j) PROVE WaitingInv'
    <2> SUFFICES ASSUME NEW a, a = job[j].app PROVE WaitingInv'
        OBVIOUS
    <2>1. job[j] \in Job /\ a \in Apps /\ job[j].pc = "todo" /\ Installs(j)
        BY <1>2, LiveJob DEF Schedule, FreeJob, NewJob, AddingInv
    <2>2. /\ app' = [app EXCEPT ![a].action = "install"] /\ BeginAdd(Main, a)
          /\ job' = [job EXCEPT ![j].pc = "adding"] /\ UNCHANGED <<onDisk, obsolete>>
        BY <1>2 DEF Schedule
    <2>3. /\ \A i \in Jobs : i # j => job'[i] = job[i]
          /\ job'[j].app = a /\ job'[j].kind = job[j].kind /\ job'[j].pc = "adding"
        BY <1>0, <2>1, <2>2 DEF Job
    <2>4. (\A b \in Apps : b # a => app'[b] = app[b]) /\ app'[a].action \in {"unknown", "install"}
        BY <1>0, <2>1, <2>2 DEF GsApp
    <2>5. /\ op[Main] = NoOp /\ op'[Main].app = a /\ \A u \in Threads : u # Main => op'[u] = op[u]
          /\ queue' = queue \union {a}
        BY <1>0, <2>2 DEF BeginAdd
    <2>6. TakesOff(j, a)' /\ Clears(j, a)'
        BY <2>1, <2>3 DEF TakesOff, Clears, Installs
    <2> QED
        BY <2>1, <2>2, <2>3, <2>4, <2>5, <2>6, JobWaits
<1>3. ASSUME NEW j \in Jobs, PushToPool(j) PROVE WaitingInv'
    <2> SUFFICES ASSUME NEW a, a = job[j].app PROVE WaitingInv'
        OBVIOUS
    <2>1. job[j] \in Job /\ a \in Apps /\ job[j].pc = "adding" /\ Installs(j)
        BY <1>3, LiveJob DEF PushToPool, FreeJob, NewJob, AddingInv
    <2>2. job' = [job EXCEPT ![j].pc = "pool"] /\ UNCHANGED <<app, queue, op, onDisk, obsolete>> /\ op[Main] = NoOp
        BY <1>3 DEF PushToPool
    <2>3. /\ \A i \in Jobs : i # j => job'[i] = job[i]
          /\ job'[j].app = a /\ job'[j].kind = job[j].kind /\ job'[j].pc = "pool"
        BY <1>0, <2>1, <2>2 DEF Job
    <2>4. TakesOff(j, a)' /\ Clears(j, a)' /\ NoOp.app = NoApp /\ app[a].action \in {"unknown", "install"}
        BY <2>1, <2>3, WaitingIs DEF TakesOff, Clears, Installs, NoOp, WaitingFor
    <2> QED
        BY <2>1, <2>2, <2>3, <2>4, JobWaits
<1>4. ASSUME NEW j \in Jobs, AppInstalled(j) \/ AppNotInstalled(j) PROVE WaitingInv'
    <2> SUFFICES ASSUME NEW a, a = job[j].app PROVE WaitingInv'
        OBVIOUS
    <2>1. job[j] \in Job /\ a \in Apps
        BY <1>4, LiveJob DEF AppInstalled, AppNotInstalled, FreeJob, NewJob
    <2>2. PICK reply : Settle(j, job[j].pc, reply)
        BY <1>4 DEF AppInstalled, AppNotInstalled
    <2>3. /\ \A i \in Jobs : i # j => job'[i] = job[i]
          /\ \/ job'[j] = FreeJob /\ job[j].pc = "done"
             \/ job'[j].app = a /\ job'[j].kind = job[j].kind /\ job'[j].pc = job[j].pc
        BY <2>1, <2>2, SettleIs
    <2>4. (TakesOff(j, a) => TakesOff(j, a)') /\ (Clears(j, a) => Clears(j, a)')
        BY <2>1, <2>3 DEF TakesOff, Clears, Installs
    <2>5. /\ \A b \in Apps : b # a => app'[b] = app[b]
          /\ app'[a].action = app[a].action
        <3>1. CASE UNCHANGED app
            BY <3>1
        <3>2. CASE app' = [app EXCEPT ![a] = SetStateRecover(app[a])]
            BY <1>0, <2>1, <3>2, SetStateAction DEF States
        <3> QED
            BY <1>4, <3>1, <3>2 DEF AppInstalled, AppNotInstalled
    <2>6. app[a].action \in {"unknown", "install"}
        BY <2>1, WaitingIs DEF WaitingFor
    <2>7. /\ op[Main] = NoOp /\ op'[Main].app \in {a, NoApp} /\ \A u \in Threads : u # Main => op'[u] = op[u]
          /\ queue' \in {queue, queue \ {a}} /\ UNCHANGED <<obsolete, onDisk>>
        <3>1. CASE AppNotInstalled(j)
            BY <3>1 DEF AppNotInstalled, NoOp
        <3>2. CASE AppInstalled(j)
            <4>1. BeginRemove(Main, a) /\ UNCHANGED <<obsolete, onDisk>>
                BY <3>2 DEF AppInstalled
            <4> QED
                BY <1>0, <4>1 DEF BeginRemove, NoOp
        <3> QED
            BY <1>4, <3>1, <3>2
    <2>8. /\ \A b \in Apps : b # a => (b \in queue' <=> b \in queue) /\ (b \in onDisk' => b \in onDisk)
          /\ a \in queue' => a \in queue
        BY <2>7
    <2> QED
        BY <2>1, <2>3, <2>4, <2>5, <2>6, <2>7, <2>8, JobWaits
<1>5. CASE FlushAfterSetup
    BY <1>5, FlushWaits DEF FlushAfterSetup
<1> QED
    BY <1>1, <1>2, <1>3, <1>4, <1>5 DEF MainWork

\* Who adds an app to the list has a job, whatever the others do.
LEMMA AddingStays ==
    ASSUME AddingInv,
           \A i \in Jobs : job[i] # FreeJob =>
               job'[i].app = job[i].app /\ job'[i].pc = job[i].pc /\ job'[i].kind = job[i].kind,
           \A i \in Jobs : job[i] = FreeJob => job'[i].pc \notin {"todo", "adding"} \/ Installs(i)',
           \A t \in Threads : op'[t] = op[t] \/ op'[t].at # "added"
    PROVE  AddingInv'
<1>1. FreeJob.pc = "free"
    BY DEF FreeJob, NewJob
<1>2. \A i \in Jobs : job'[i].pc \in {"todo", "adding"} => Installs(i)'
    BY DEF AddingInv, Installs
<1>3. op'[Main].at = "added" => \E i \in Jobs : job'[i].app = op'[Main].app /\ Installs(i)' /\ job'[i].pc = "adding"
    <2> SUFFICES ASSUME op'[Main].at = "added"
                 PROVE  \E i \in Jobs : job'[i].app = op'[Main].app /\ Installs(i)' /\ job'[i].pc = "adding"
        OBVIOUS
    <2>1. op'[Main] = op[Main]
        BY DEF Threads
    <2>2. PICK i \in Jobs : job[i].app = op[Main].app /\ Installs(i) /\ job[i].pc = "adding"
        BY <2>1 DEF AddingInv
    <2>3. job'[i].app = job[i].app /\ job'[i].pc = job[i].pc /\ job'[i].kind = job[i].kind
        BY <1>1, <2>2
    <2> QED
        BY <2>1, <2>2, <2>3 DEF Installs
<1>4. ASSUME NEW i \in Jobs, op'[i].at = "added" PROVE TakesOff(i, op[i].app)' /\ op'[i] = op[i]
    <2>1. op'[i] = op[i] /\ TakesOff(i, op[i].app)
        BY <1>4 DEF Threads, AddingInv
    <2>2. job'[i].app = job[i].app /\ job'[i].pc = job[i].pc /\ job'[i].kind = job[i].kind
        BY <1>1, <2>1 DEF TakesOff
    <2> QED
        BY <2>1, <2>2 DEF TakesOff, Installs
<1> QED
    BY <1>2, <1>3, <1>4 DEF AddingInv

\* A step of a job.
LEMMA JobNextAdds ==
    ASSUME Inv, AddingInv, NEW j \in Jobs, JobNext(j)
    PROVE  AddingInv'
<1> SUFFICES ASSUME NEW a, a = job[j].app PROVE AddingInv'
    OBVIOUS
<1> DEFINE Before == {"start", "offered", "acting", "failed", "ended"}
           After == {"removing", "refining", "clearing", "done", "free"}
<1>0. op \in [Threads -> Op] /\ job \in [Jobs -> Job] /\ j \in Threads /\ Main # j /\ Main \in Threads
    BY NamesAssumption DEF Inv, TypeOK, Threads
<1>1. op[j] = NoOp /\ NoOp.at = "none" /\ job[j].pc \notin {"free", "todo", "adding"} /\ job[j] \in Job
    BY <1>0 DEF JobNext, Start, RunCancelled, RunOther, RunOffline, RunPlugin, RunRefused, Succeed, Fail,
                Recover, End, LeaveHelper, Answer, ClearAction, At, NoOp
<1>2. /\ \A i \in Jobs : i # j => job'[i] = job[i]
      /\ job'[j].pc \in Before \union After
      /\ job'[j].pc \in Before => job'[j].app = a /\ job'[j].kind = job[j].kind
    <2>1. ASSUME NEW pc \in Before \union After, GoTo(j, pc)
          PROVE  /\ \A i \in Jobs : i # j => job'[i] = job[i]
                 /\ job'[j].pc \in Before \union After
                 /\ job'[j].pc \in Before => job'[j].app = a /\ job'[j].kind = job[j].kind
        <3>1. job' = [job EXCEPT ![j] = [job[j] EXCEPT !.pc = pc, !.ok = @ /\ pc # "failed"]]
            BY <2>1, <1>0 DEF GoTo
        <3>2. LET r == [job[j] EXCEPT !.pc = pc, !.ok = @ /\ pc # "failed"]
              IN  r.pc = pc /\ r.app = a /\ r.kind = job[j].kind
            BY <1>1 DEF Job
        <3> QED
            BY <1>0, <2>1, <3>1, <3>2
    <2>2. CASE Answer(j) \/ ClearAction(j)
        <3>1. PICK pc, reply : pc \in {"clearing", "done"} /\ Settle(j, pc, reply)
            BY <2>2 DEF Answer, ClearAction
        <3>2. FreeJob.pc = "free"
            BY DEF FreeJob, NewJob
        <3> QED
            BY <1>1, <3>1, <3>2, SettleIs
    <2>3. CASE Recover(j)
        BY <1>0, <1>1, <2>3 DEF Recover, Job
    <2>4. CASE \E pc \in Before \union After : GoTo(j, pc)
        BY <2>1, <2>4
    <2> QED
        BY <2>2, <2>3, <2>4 DEF JobNext, Start, RunCancelled, RunOther, RunOffline, RunPlugin, RunRefused,
           Succeed, Fail, End, LeaveHelper, AfterError
<1> HIDE DEF Before, After
<1>3. /\ \A u \in Threads : u # j => op'[u] = op[u]
      /\ op'[j].at = "added" => op'[j].app = a /\ Installs(j) /\ job'[j].pc \in {"start", "offered", "ended"}
    <2>1. ASSUME NEW pc \in {"start", "offered", "ended"}, GoTo(j, pc) PROVE job'[j].pc = pc
        <3>1. job' = [job EXCEPT ![j] = [job[j] EXCEPT !.pc = pc, !.ok = @ /\ pc # "failed"]]
            BY <2>1, <1>0 DEF GoTo
        <3> QED
            BY <1>0, <1>1, <3>1 DEF Job
    <2>2. CASE UNCHANGED op
        BY <1>1, <2>2
    <2>3. CASE BeginRemove(j, a)
        BY <1>0, <1>1, <2>3 DEF BeginRemove
    <2>4. CASE BeginAdd(j, a) /\ Installs(j) /\ \E pc \in {"start", "offered", "ended"} : GoTo(j, pc)
        BY <1>0, <1>1, <2>1, <2>4 DEF BeginAdd
    <2> QED
        BY <2>2, <2>3, <2>4 DEF JobNext, Start, RunCancelled, RunOther, RunOffline, RunPlugin, RunRefused,
           Succeed, Fail, Recover, End, LeaveHelper, Answer, ClearAction
<1>4. ASSUME NEW i \in Jobs, job'[i].pc \in {"todo", "adding"} PROVE Installs(i)'
    <2>1. job'[i] = job[i]
        BY <1>2, <1>4 DEF Before, After
    <2> QED
        BY <1>4, <2>1 DEF AddingInv, Installs
<1>5. op'[Main].at = "added" => \E i \in Jobs : job'[i].app = op'[Main].app /\ Installs(i)' /\ job'[i].pc = "adding"
    <2> SUFFICES ASSUME op'[Main].at = "added"
                 PROVE  \E i \in Jobs : job'[i].app = op'[Main].app /\ Installs(i)' /\ job'[i].pc = "adding"
        OBVIOUS
    <2>1. PICK i \in Jobs : job[i].app = op[Main].app /\ Installs(i) /\ job[i].pc = "adding"
        BY <1>0, <1>3 DEF AddingInv
    <2>2. job'[i] = job[i]
        BY <1>1, <1>2, <2>1
    <2> QED
        BY <1>0, <1>3, <2>1, <2>2 DEF Installs
<1>6. ASSUME NEW i \in Jobs, op'[i].at = "added" PROVE TakesOff(i, op[i].app)'
    <2>1. CASE i = j
        BY <1>2, <1>3, <1>6, <2>1 DEF TakesOff, Installs, Before
    <2>2. CASE i # j
        <3>1. op'[i] = op[i] /\ job'[i] = job[i]
            BY <1>2, <1>3, <2>2 DEF Threads
        <3>2. op[i].at = "added"
            BY <1>6, <3>1
        <3>3. TakesOff(i, op[i].app)
            BY <3>2 DEF AddingInv
        <3>4. TakesOff(i, op[i].app)'
            BY <3>1, <3>3 DEF TakesOff, Installs
        <3> QED
            BY <3>4, Zenon
    <2> QED
        BY <2>1, <2>2
<1> QED
    BY <1>4, <1>5, <1>6 DEF AddingInv

\* The steps of the main thread on its own.
LEMMA MainWorkAdds ==
    ASSUME Inv, AddingInv, WaitingInv, MainWork
    PROVE  AddingInv'
<1>0. /\ Main \in Threads /\ Main \notin Jobs /\ op \in [Threads -> Op] /\ job \in [Jobs -> Job]
      /\ FreeJob.pc = "free" /\ NoOp.at = "none" /\ Jobs \subseteq Threads
    BY NamesAssumption DEF Threads, Inv, TypeOK, FreeJob, NewJob, NoOp
<1>1. ASSUME NEW a \in Apps, DropObsolete(a) PROVE AddingInv'
    <2>1. UNCHANGED job /\ BeginRemove(Main, a)
        BY <1>1 DEF DropObsolete
    <2>2. \A t \in Threads : op'[t] = op[t] \/ op'[t].at # "added"
        BY <1>0, <2>1 DEF BeginRemove
    <2> QED
        BY <1>0, <2>1, <2>2, AddingStays
<1>2. ASSUME NEW j \in Jobs, job[j].pc \in {"todo", "adding"}, job'[j].pc \in {"adding", "pool"},
             \A i \in Jobs : i # j => job'[i] = job[i], job'[j].app = job[j].app, job'[j].kind = job[j].kind,
             \A t \in Jobs : op'[t] = op[t],
             op'[Main].at = "added" => op'[Main].app = job[j].app /\ job'[j].pc = "adding"
      PROVE  AddingInv'
    <2>1. /\ \A i \in Jobs : i # j => job'[i] = job[i]
          /\ job'[j].app = job[j].app /\ job'[j].kind = job[j].kind
        BY <1>2
    <2>2. Installs(j) /\ Installs(j)'
        BY <1>2, <2>1 DEF AddingInv, Installs
    <2>3. ASSUME NEW i \in Jobs, job'[i].pc \in {"todo", "adding"} PROVE Installs(i)'
        BY <2>1, <2>2, <2>3 DEF AddingInv, Installs
    <2>4. op'[Main].at = "added" => \E i \in Jobs : job'[i].app = op'[Main].app /\ Installs(i)' /\ job'[i].pc = "adding"
        BY <1>2, <2>1, <2>2
    <2>5. ASSUME NEW i \in Jobs, op'[i].at = "added" PROVE TakesOff(i, op[i].app)' /\ op'[i] = op[i]
        BY <1>2, <2>1, <2>2, <2>5 DEF AddingInv, TakesOff, Installs
    <2> QED
        BY <2>3, <2>4, <2>5 DEF AddingInv, TakesOff
<1>3. ASSUME NEW j \in Jobs, Schedule(j) PROVE AddingInv'
    <2>1. job[j].pc = "todo" /\ job' = [job EXCEPT ![j].pc = "adding"] /\ op[Main] = NoOp /\ BeginAdd(Main, job[j].app)
        BY <1>3 DEF Schedule
    <2>2. (\A t \in Jobs : op'[t] = op[t]) /\ op'[Main].app = job[j].app
        BY <1>0, <2>1 DEF BeginAdd
    <2>3. /\ \A i \in Jobs : i # j => job'[i] = job[i]
          /\ job'[j].pc = "adding" /\ job'[j].app = job[j].app /\ job'[j].kind = job[j].kind
        BY <1>0, <2>1 DEF Job
    <2> QED
        BY <1>2, <2>1, <2>2, <2>3
<1>4. ASSUME NEW j \in Jobs, PushToPool(j) PROVE AddingInv'
    <2>1. job[j].pc = "adding" /\ job' = [job EXCEPT ![j].pc = "pool"] /\ op[Main] = NoOp /\ UNCHANGED op
        BY <1>4 DEF PushToPool
    <2>2. /\ \A i \in Jobs : i # j => job'[i] = job[i]
          /\ job'[j].pc = "pool" /\ job'[j].app = job[j].app /\ job'[j].kind = job[j].kind
        BY <1>0, <2>1 DEF Job
    <2> QED
        BY <1>0, <1>2, <2>1, <2>2
<1>5. ASSUME NEW j \in Jobs, AppInstalled(j) \/ AppNotInstalled(j) PROVE AddingInv'
    <2>1. job[j] # FreeJob /\ job[j] \in Job
        BY <1>0, <1>5 DEF AppInstalled, AppNotInstalled, FreeJob, NewJob
    <2>2. PICK reply : Settle(j, job[j].pc, reply)
        BY <1>5 DEF AppInstalled, AppNotInstalled
    <2>3. /\ \A i \in Jobs : i # j => job'[i] = job[i]
          /\ \/ job'[j] = FreeJob /\ job[j].pc = "done"
             \/ job'[j].app = job[j].app /\ job'[j].kind = job[j].kind /\ job'[j].pc = job[j].pc
        BY <2>1, <2>2, SettleIs
    <2>4. \A t \in Threads : op'[t] = op[t] \/ (op'[t].at # "added" /\ t = Main)
        <3>1. CASE AppNotInstalled(j)
            BY <3>1 DEF AppNotInstalled
        <3>2. CASE AppInstalled(j)
            BY <1>0, <3>2 DEF AppInstalled, BeginRemove
        <3> QED
            BY <1>5, <3>1, <3>2
    <2>5. \A i \in Jobs : job[i].pc \notin {"done", "free"} =>
              job'[i].app = job[i].app /\ job'[i].pc = job[i].pc /\ job'[i].kind = job[i].kind
        BY <2>3
    <2>6. ASSUME NEW i \in Jobs, job'[i].pc \in {"todo", "adding"} PROVE Installs(i)'
        BY <1>0, <2>3, <2>6 DEF AddingInv, Installs
    <2>7. op'[Main].at = "added" => \E i \in Jobs : job'[i].app = op'[Main].app /\ Installs(i)' /\ job'[i].pc = "adding"
        <3> SUFFICES ASSUME op'[Main].at = "added"
                     PROVE  \E i \in Jobs : job'[i].app = op'[Main].app /\ Installs(i)' /\ job'[i].pc = "adding"
            OBVIOUS
        <3>1. op'[Main] = op[Main]
            BY <1>0, <2>4
        <3>2. PICK i \in Jobs : job[i].app = op[Main].app /\ Installs(i) /\ job[i].pc = "adding"
            BY <3>1 DEF AddingInv
        <3> QED
            BY <2>5, <3>1, <3>2 DEF Installs
    <2>8. ASSUME NEW i \in Jobs, op'[i].at = "added" PROVE TakesOff(i, op[i].app)' /\ op'[i] = op[i]
        BY <1>0, <2>4, <2>5, <2>8 DEF AddingInv, TakesOff, Installs
    <2> QED
        BY <2>6, <2>7, <2>8 DEF AddingInv, TakesOff
<1>6. CASE FlushAfterSetup
    <2>1. /\ \A i \in Jobs : job[i] # FreeJob => job'[i] = job[i]
          /\ \A i \in Jobs : job[i] = FreeJob => job'[i] = FreeJob \/ Installs(i)'
          /\ UNCHANGED op
        BY <1>6, FlushWaits DEF FlushAfterSetup
    <2> QED
        BY <1>0, <2>1, AddingStays
<1> QED
    BY <1>1, <1>3, <1>4, <1>5, <1>6 DEF MainWork

\* The jobs of an app that are cancelled go on as they were.
LEMMA CancelledKeeps ==
    ASSUME Inv, NEW a \in Apps
    PROVE  /\ Cancelled(a) \in [Jobs -> Job]
           /\ \A i \in Jobs : /\ Cancelled(a)[i].pc = job[i].pc /\ Cancelled(a)[i].app = job[i].app
                              /\ Cancelled(a)[i].kind = job[i].kind
                              /\ job[i] = FreeJob => Cancelled(a)[i] = FreeJob
<1>1. ASSUME NEW i \in Jobs PROVE Cancelled(a)[i].kind = job[i].kind
    <2>1. job[i] \in Job
        BY DEF Inv, TypeOK
    <2>2. Cancelled(a)[i] = IF job[i].app = a /\ job[i].own THEN [job[i] EXCEPT !.cancelled = TRUE] ELSE job[i]
        BY DEF Cancelled
    <2> QED
        BY <2>1, <2>2 DEF Job
<1> QED
    BY <1>1, CancelledStep

\* The user, the network and a new start of the program.
LEMMA EnvironmentQueue ==
    ASSUME Inv, AddingInv, WaitingInv, Environment
    PROVE  AddingInv' /\ WaitingInv'
<1>0. /\ Main \in Threads /\ Main \notin Jobs /\ op \in [Threads -> Op] /\ job \in [Jobs -> Job]
      /\ FreeJob.pc = "free" /\ NoOp.at = "none" /\ FreeJob.app = NoApp /\ NoOp.app = NoApp /\ NoApp \notin Apps
      /\ app \in [Apps -> GsApp]
    BY NamesAssumption DEF Threads, Inv, TypeOK, FreeJob, NewJob, NoOp
<1>1. ASSUME NEW a \in Apps, UserInstall(a) PROVE AddingInv' /\ WaitingInv'
    <2>1. PICK j \in Jobs, own \in BOOLEAN : Starts(j, NewJob(a, "install", own, "todo"))
        BY <1>1 DEF UserInstall
    <2>2. UNCHANGED <<app, queue, op, obsolete, onDisk>> /\ ~AsLoaded(a)
        BY <1>1 DEF UserInstall, AsLoaded
    <2> DEFINE n == NewJob(a, "install", own, "todo")
    <2>3. n.app = a /\ n.kind = "install"
        BY DEF NewJob
    <2>4. job[j] = FreeJob /\ job' = [job EXCEPT ![j] = n]
        BY <2>1 DEF Starts
    <2> HIDE DEF n
    <2>5. job[j] = FreeJob /\ \A i \in Jobs : job'[i] = IF i = j THEN n ELSE job[i]
        BY <1>0, <2>4
    <2>6. \A i \in Jobs : job[i] # FreeJob =>
              job'[i].app = job[i].app /\ job'[i].pc = job[i].pc /\ job'[i].kind = job[i].kind
        BY <2>5
    <2>7. \A i \in Jobs : job[i] = FreeJob =>
              job'[i].app \in {a, NoApp} /\ (job'[i].pc \notin {"todo", "adding"} \/ Installs(i)')
        BY <1>0, <2>3, <2>5 DEF Installs
    <2>8. AddingInv'
        BY <2>2, <2>6, <2>7, AddingStays
    <2>9. WaitingInv'
        BY <1>1, <2>2, <2>6, <2>7, StartedWaits
    <2> QED
        BY <2>8, <2>9
<1>2. ASSUME NEW a \in Apps, NEW js \in [Jobs -> Job], RemoveJob(a, js), MainIdle, UNCHANGED <<app, obsolete, onDisk>>,
             \A i \in Jobs : js[i].app = job[i].app /\ js[i].pc = job[i].pc /\ js[i].kind = job[i].kind
      PROVE  AddingInv' /\ WaitingInv'
    <2>1. WaitingInv'
        BY <1>2, RemoveWaits
    <2>2. \A t \in Threads : op'[t] = op[t] \/ op'[t].at # "added"
        <3>1. op' = op \/ op' = [op EXCEPT ![Main] = [at |-> "removed", app |-> a, save |-> {}]]
            BY <1>2 DEF RemoveJob, BeginRemove
        <3> QED
            BY <1>0, <3>1
    <2>3. CASE job' = js
        BY <1>0, <1>2, <2>1, <2>2, <2>3, AddingStays
    <2>4. CASE job' # js
        <3> DEFINE n == NewJob(a, "remove", TRUE, "pool")
        <3>1. PICK j \in Jobs : js[j] = FreeJob /\ job' = [js EXCEPT ![j] = n]
            BY <1>2, <2>4 DEF RemoveJob
        <3>2. n.pc = "pool"
            BY DEF NewJob
        <3> HIDE DEF n
        <3>3. \A i \in Jobs : job'[i] = IF i = j THEN n ELSE js[i]
            BY <1>2, <3>1
        <3>4. job[j].pc = "free"
            BY <1>0, <1>2, <3>1
        <3>5. job[j] = FreeJob
            BY <3>4 DEF Inv, JobInv, Live
        <3>6. \A i \in Jobs : job[i] # FreeJob =>
                  job'[i].app = job[i].app /\ job'[i].pc = job[i].pc /\ job'[i].kind = job[i].kind
            BY <1>2, <3>3, <3>5
        <3>7. \A i \in Jobs : job[i] = FreeJob => job'[i].pc \notin {"todo", "adding"}
            BY <1>0, <1>2, <3>2, <3>3
        <3> QED
            BY <2>1, <2>2, <3>6, <3>7, AddingStays
    <2> QED
        BY <2>1, <2>3, <2>4
<1>3. ASSUME NEW a \in Apps, UserCancel(a) PROVE AddingInv' /\ WaitingInv'
    BY <1>2, <1>3, CancelledKeeps DEF UserCancel
<1>4. ASSUME NEW a \in Apps, UserRemove(a) PROVE AddingInv' /\ WaitingInv'
    BY <1>0, <1>2, <1>4 DEF UserRemove
<1>5. ASSUME NEW a \in Apps, UserStop(a) PROVE AddingInv' /\ WaitingInv'
    <2>1. /\ job' = Cancelled(a) /\ app' = [app EXCEPT ![a].action = "unknown"]
          /\ UNCHANGED <<queue, op, obsolete, onDisk>> /\ ~AsLoaded(a)
        BY <1>5 DEF UserStop, AsLoaded
    <2>2. /\ \A i \in Jobs : job'[i].app = job[i].app /\ job'[i].pc = job[i].pc /\ job'[i].kind = job[i].kind
          /\ \A i \in Jobs : job[i] = FreeJob => job'[i] = FreeJob
        BY <2>1, CancelledKeeps
    <2>3. (\A b \in Apps : b # a => app'[b] = app[b]) /\ app'[a].action = "unknown"
        BY <1>0, <2>1 DEF GsApp
    <2>4. AddingInv'
        BY <1>0, <2>1, <2>2, AddingStays
    <2>5. WaitingInv'
        BY <1>0, <1>5, <2>1, <2>2, <2>3, StartedWaits
    <2> QED
        BY <2>4, <2>5
<1>6. CASE NetworkSignal
    <2>1. /\ \A i \in Jobs : job[i] # FreeJob => job'[i] = job[i]
          /\ \A i \in Jobs : job[i] = FreeJob => job'[i] = FreeJob \/ Installs(i)'
          /\ UNCHANGED op /\ WaitingInv'
        BY <1>6, FlushWaits DEF NetworkSignal
    <2> QED
        BY <1>0, <2>1, AddingStays
<1>7. CASE Restart
    <2> DEFINE loaded == file \ onDisk
    <2>1. /\ queue' = loaded /\ obsolete' = {} /\ onDisk' = onDisk
          /\ app' = [a \in Apps |-> IF a \in loaded THEN SetState(SetState(NewApp, "available"), "queued")
                                    ELSE SetState(NewApp, Truth(a))]
          /\ job' = [j \in Jobs |-> FreeJob] /\ op' = [t \in Threads |-> NoOp]
        BY <1>7 DEF Restart
    <2>2. \A a \in loaded : a \notin onDisk
        OBVIOUS
    <2> HIDE DEF loaded
    <2>3. /\ \A j \in Jobs : job'[j] = FreeJob
          /\ \A t \in Threads : op'[t] = NoOp
        BY <2>1
    <2>4. AddingInv'
        BY <1>0, <2>3 DEF AddingInv, Threads
    <2>5. ASSUME NEW a \in Apps, a \in loaded PROVE WaitingFor(a)'
        <3>1. app'[a] = SetState(SetState(NewApp, "available"), "queued")
            BY <2>1, <2>5
        <3>2. app'[a].state = "queued" /\ app'[a].action = "install"
            BY <3>1 DEF SetState, NewApp
        <3>3. Loaded(a)'
            BY <1>0, <2>1, <2>2, <2>3, <2>5, <3>2 DEF Loaded, AsLoaded
        <3> QED
            BY <3>2, <3>3 DEF WaitingFor
    <2>6. ASSUME NEW a \in Apps, a \notin loaded PROVE WaitingFor(a)'
        <3>1. app'[a].action = "unknown"
            BY <2>1, <2>6 DEF SetState, NewApp, Truth
        <3> QED
            BY <2>1, <2>6, <3>1 DEF WaitingFor
    <2> QED
        BY <2>4, <2>5, <2>6, WaitingIs
<1> QED
    BY <1>1, <1>3, <1>4, <1>5, <1>6, <1>7 DEF Environment

\* The invariant of the list is inductive, with that of the types.
LEMMA QueueStepInv == Inv /\ QueueInv /\ [Next]_vars => QueueInv'
<1> SUFFICES ASSUME Inv, QueueInv, [Next]_vars PROVE QueueInv'
    OBVIOUS
<1>0. AddingInv /\ WaitingInv /\ FreeJob.pc = "free"
    BY DEF QueueInv, FreeJob, NewJob
<1>1. CASE Environment
    BY <1>0, <1>1, EnvironmentQueue DEF QueueInv
<1>2. CASE MainWork
    BY <1>0, <1>2, MainWorkWaits, MainWorkAdds DEF QueueInv
<1>3. ASSUME NEW j \in Jobs, JobNext(j) PROVE QueueInv'
    BY <1>0, <1>3, JobNextWaits, JobNextAdds DEF QueueInv
<1>4. ASSUME NEW t \in Threads, Change(t) \/ Write(t) PROVE QueueInv'
    <2>1. \A u \in Threads : op'[u] = op[u] \/ op'[u].at # "added"
        BY <1>4 DEF Change, Write, NoOp, Inv, TypeOK, Op
    <2>2. UNCHANGED job
        BY <1>4 DEF Change, Write
    <2>3. AddingInv'
        BY <1>0, <2>1, <2>2, AddingStays
    <2> QED
        BY <1>0, <1>4, <2>3, ChangeWaits, WriteWaits DEF QueueInv
<1>5. CASE UNCHANGED vars
    <2>1. AddingInv'
        BY <1>0, <1>5, AddingStays DEF vars
    <2>2. \A a \in Apps : WaitingFor(a)'
        BY <1>0, <1>5, WaitingIs, Elsewhere DEF vars
    <2> QED
        BY <2>1, <2>2, WaitingIs DEF QueueInv
<1> QED
    BY <1>1, <1>2, <1>3, <1>4, <1>5 DEF Next, QueueOp

\* Nothing is in the list when the program starts for the first time.
LEMMA QueueInit == Init => QueueInv
<1> SUFFICES ASSUME Init PROVE QueueInv
    OBVIOUS
<1>1. AddingInv
    BY DEF Init, AddingInv, FreeJob, NewJob, NoOp, Threads
<1>2. ASSUME NEW a \in Apps PROVE WaitingFor(a)
    <2>1. app[a].action = "unknown" /\ queue = {}
        BY DEF Init, SetState, NewApp
    <2> QED
        BY <2>1 DEF WaitingFor
<1> QED
    BY <1>1, <1>2, WaitingIs DEF QueueInv

LEMMA QueueAlways == SafeSpec => []QueueInv
    BY InvAlways, QueueInit, QueueStepInv, PTL DEF SafeSpec

\* When nobody has anything left to do, each app in the list is queued and not
\* installed, however the steps of the threads were interleaved.
THEOREM ListIsQueued == SafeSpec => []QueueIsQueued
<1>1. Inv /\ QueueInv => QueueIsQueued
    <2> SUFFICES ASSUME Inv, QueueInv, Quiet, NEW a \in queue PROVE app[a].state = "queued" /\ a \notin onDisk
        BY DEF QueueIsQueued
    <2>1. a \in Apps
        BY DEF Inv, TypeOK
    <2>2. \A j \in Jobs : ~TakesOff(j, a)
        BY DEF Quiet, Live, TakesOff
    <2> QED
        BY <2>1, <2>2 DEF QueueInv, WaitingInv, Loaded, AsLoaded
<1> QED
    BY <1>1, InvAlways, QueueAlways, PTL

\* Nor is the pending action of another app left behind.
THEOREM ActionsEnd == SafeSpec => []NoStuckAction
<1>1. QueueInv => NoStuckAction
    <2> SUFFICES ASSUME QueueInv, Quiet, NEW a \in Apps \ queue PROVE app[a].action = "unknown"
        BY DEF NoStuckAction
    <2>1. \A j \in Jobs : ~Clears(j, a)
        BY DEF Quiet, Live, Clears, TakesOff
    <2>2. op[Main].at # "removed" /\ ~Loaded(a)
        BY DEF Quiet, MainIdle, NoOp, Loaded
    <2> QED
        BY <2>1, <2>2 DEF QueueInv, WaitingInv
<1> QED
    BY <1>1, QueueAlways, PTL
=============================================================================
