---------------------------- MODULE Loader_proofs ----------------------------
(* Proofs about LoaderSetup: no job runs during the setup, and no plugin     *)
(* answers a shutdown that is over, for any number of plugins, any rules,    *)
(* jobs and rounds; and the plugins are called in an order that keeps their  *)
(* rules, which the loops find if they have the passes for it.               *)
(* And about PluginJobs, for any plugins, apps, wildcards, addons and flags: *)
(* a job returns when all it has asked has answered, with the first error    *)
(* that counts, and a refine that succeeds has passed all its apps to every  *)
(* plugin.                                                                   *)
EXTENDS LoaderSetup, PluginJobs, FiniteSetTheorems, FunctionTheorems, SequenceTheorems,
        WellFoundedInduction, TLAPS

(* ---- The setup and the shutdown of the loader ---- *)

(* Every set of plugins is finite, so its size is a number, and 0 only when  *)
(* it is empty.                                                              *)
LEMMA PluginsAreFinite ==
    ASSUME NEW S \in SUBSET Plugins
    PROVE  /\ IsFiniteSet(S) /\ Cardinality(S) \in Nat
           /\ Cardinality(S) = 0 <=> S = {}
<1>1. IsFiniteSet(Plugins)
  BY OrderAssumption, FS_Interval DEF OrderAssumption, Plugins
<1>2. IsFiniteSet(S)
  BY <1>1, FS_Subset
<1> QED
  BY <1>2, FS_CardinalityType, FS_EmptySet

(* One plugin less is one pending operation less.                            *)
LEMMA OneLess ==
    ASSUME NEW S \in SUBSET Plugins, NEW p \in S
    PROVE  Cardinality(S \ {p}) = Cardinality(S) - 1
BY PluginsAreFinite, FS_RemoveElement

(* What setup_complete and the jobs are after finish_setup_op(), when        *)
(* n_pending really is the number of plugins that have not answered.         *)
LEMMA FinishSetupOpInv ==
    ASSUME Inv, stage # "stopping", ~complete, stopping' = stopping,
           settingUp' \in SUBSET Plugins, pending' = Cardinality(settingUp'),
           FinishSetupOp(pending')
    PROVE  Inv'
<1> USE DEF Inv
<1>1. /\ pending' \in Nat
      /\ pending' = 0 <=> settingUp' = {}
  BY PluginsAreFinite
<1>2. Refine \in AllJobs
  BY DEF AllJobs
<1>3. CASE pending' > 0
  BY <1>1, <1>3 DEF FinishSetupOp, CountInv, StartInv, Stages
<1>4. CASE ~(pending' > 0)
  <2>1. settingUp' = {}
    BY <1>1, <1>4
  <2>2. CASE stage' = "up" /\ complete' = TRUE /\ job' = Woken(job)
    <3>1. job' \in [AllJobs -> JobStates]
      BY <2>2 DEF Woken, JobStates
    <3> QED
      BY <2>1, <2>2, <3>1 DEF CountInv, StartInv, Stages
  <2>3. CASE stage' = "refining" /\ complete' = TRUE /\ job' = Process(Woken(job), Refine, complete')
    <3>1. Woken(job) \in [AllJobs -> JobStates]
      BY DEF Woken, JobStates
    <3>2. job' \in [AllJobs -> JobStates]
      BY <2>3, <3>1 DEF Process, JobStates
    <3> QED
      BY <2>1, <2>3, <3>2 DEF CountInv, StartInv, Stages
  <2>4. CASE stage' = "failed" /\ UNCHANGED <<complete, job>>
    BY <2>1, <2>4 DEF CountInv, StartInv, Stages
  <2> QED
    BY <1>4, <2>2, <2>3, <2>4 DEF FinishSetupOp
<1> QED
  BY <1>1, <1>3, <1>4

(* finish_setup_get_bus() is called when nothing is being set up yet.        *)
LEMMA FinishGetBusInv ==
    ASSUME Inv, stage \in {"down", "buses"}, UNCHANGED stopping,
           NEW buses, FinishGetBus(buses)
    PROVE  Inv'
<1> USE DEF Inv
<1>1. settingUp = {} /\ stopping = {} /\ ~complete
  BY DEF CountInv, StartInv
<1>2. CASE OpenPlugins
  <2>1. PICK opening \in Openings :
            IF opening.result.stuck
            THEN stage' = "stuck" /\ UNCHANGED <<settingUp, pending, complete, job>>
            ELSE /\ settingUp' = opening.result.enabled \intersect SetsUp
                 /\ SetUp(settingUp')
    BY <1>2 DEF OpenPlugins
  <2>2. CASE opening.result.stuck
    BY <1>1, <2>1, <2>2 DEF CountInv, StartInv, Stages
  <2>3. CASE ~opening.result.stuck
    <3>1. settingUp' \in SUBSET Plugins
      BY <2>1, <2>3, SetupAssumption DEF SetupAssumption
    <3>2. pending' = Cardinality(settingUp') /\ FinishSetupOp(pending')
      BY <2>1, <2>3 DEF SetUp
    <3> QED
      BY <1>1, <3>1, <3>2, FinishSetupOpInv
  <2> QED
    BY <2>2, <2>3
<1>3. CASE CannotOpen
  BY <1>1, <1>3 DEF CannotOpen, CountInv, StartInv, Stages
<1>4. CASE stage' = "buses" /\ UNCHANGED <<settingUp, complete, job>>
  BY <1>1, <1>4 DEF CountInv, StartInv, Stages
<1> QED
  BY <1>2, <1>3, <1>4 DEF FinishGetBus

(* The invariant holds initially.                                            *)
LEMMA InitInv == Init => Inv
BY DEF Init, Inv, CountInv, StartInv, Stages, JobStates

(* Every step keeps the invariant.                                           *)
LEMMA NextInv ==
    ASSUME Inv, [Next]_vars
    PROVE  Inv'
<1> USE DEF Inv
<1>1. CASE SetupAsync
  BY <1>1, FinishGetBusInv DEF SetupAsync
<1>2. ASSUME NEW b \in Buses, GetBus(b)
      PROVE  Inv'
  <2>1. CASE FinishGetBus(bus')
    BY <1>2, <2>1, FinishGetBusInv DEF GetBus
  <2>2. CASE stage' = "failed" /\ UNCHANGED <<settingUp, complete, job>>
    BY <1>2, <2>2 DEF GetBus, CountInv, StartInv, Stages
  <2> QED
    BY <1>2, <2>1, <2>2 DEF GetBus
<1>3. ASSUME NEW p \in Plugins, PluginSetupCb(p)
      PROVE  Inv'
  <2>1. stage = "plugins" /\ pending = Cardinality(settingUp) /\ ~complete
    BY <1>3 DEF PluginSetupCb, CountInv
  <2>2. pending' = Cardinality(settingUp')
    BY <1>3, <2>1, OneLess DEF PluginSetupCb
  <2> QED
    BY <1>3, <2>1, <2>2, FinishSetupOpInv DEF PluginSetupCb
<1>4. ASSUME NEW p \in Plugins, PluginShutdownCb(p)
      PROVE  Inv'
  <2>1. pending' = Cardinality(stopping')
    BY <1>4, OneLess DEF PluginShutdownCb, CountInv
  <2> QED
    BY <1>4, <2>1 DEF PluginShutdownCb, CountInv, StartInv
<1>5. ASSUME NEW j \in Jobs, ProcessAsync(j)
      PROVE  Inv'
  <2>1. j \in AllJobs
    BY DEF AllJobs
  <2>2. job' \in [AllJobs -> JobStates]
    BY <1>5 DEF ProcessAsync, Process, JobStates
  <2>3. \A k \in AllJobs : job'[k] \in {"woken", "running"} => complete'
    BY <1>5, <2>1 DEF ProcessAsync, Process, StartInv
  <2> QED
    BY <1>5, <2>2, <2>3 DEF ProcessAsync, CountInv, StartInv
<1>6. ASSUME NEW j \in AllJobs, JobProcessCb(j) \/ JobEnds(j)
      PROVE  Inv'
  <2>1. job' \in [AllJobs -> JobStates]
    BY <1>6 DEF JobProcessCb, JobEnds, JobStates
  <2>2. \A k \in AllJobs : job'[k] \in {"woken", "running"} => complete'
    BY <1>6 DEF JobProcessCb, JobEnds, StartInv
  <2> QED
    BY <1>6, <2>1, <2>2 DEF JobProcessCb, JobEnds, CountInv, StartInv
<1>7. CASE RefineEnds
  <2>1. job' \in [AllJobs -> JobStates]
    BY <1>7 DEF RefineEnds, JobStates
  <2>2. \A k \in AllJobs : job'[k] \in {"woken", "running"} => complete'
    BY <1>7 DEF RefineEnds, StartInv
  <2> QED
    BY <1>7, <2>1, <2>2 DEF RefineEnds, CountInv, StartInv, Stages
<1>8. CASE Shutdown
  <2>1. stopping' \subseteq Plugins
    BY <1>8, SetupAssumption DEF SetupAssumption, Shutdown
  <2> QED
    BY <1>8, <2>1 DEF Shutdown, ShutDown, CountInv, StartInv, Stages
<1>9. CASE RemoveAllPlugins
  <2>1. stopping = {}
    BY <1>9, PluginsAreFinite DEF RemoveAllPlugins, CountInv
  <2> QED
    BY <1>9, <2>1 DEF RemoveAllPlugins, CountInv, StartInv, Stages, JobStates
<1>10. CASE UNCHANGED vars
  BY <1>10 DEF vars, CountInv, StartInv
<1> QED
  BY <1>1, <1>2, <1>3, <1>4, <1>5, <1>6, <1>7, <1>8, <1>9, <1>10 DEF Next

(* No job runs while a plugin is being set up: setup_complete is set when    *)
(* the last of them has answered, for any number of plugins and jobs.        *)
THEOREM NoJobBeforeSetup == SafeSpec => []JobsAfterSetup
<1>1. Inv => JobsAfterSetup
  BY DEF Inv, CountInv, StartInv, JobsAfterSetup
<1> QED
  BY <1>1, InitInv, NextInv, PTL DEF SafeSpec

(* gs_plugin_loader_shutdown() returns after the last plugin has answered,   *)
(* so that no callback finds its stack gone, for any number of plugins.      *)
THEOREM ShutdownIsAwaited == SafeSpec => []NobodyCallsBackLater
<1>1. Inv => NobodyCallsBackLater
  BY DEF Inv, CountInv, NobodyCallsBackLater
<1> QED
  BY <1>1, InitInv, NextInv, PTL DEF SafeSpec

(* What the jobs are after finish_setup_op(): when the setup is complete no  *)
(* job waits, and the refine of the queue runs if it is begun.               *)
LEMMA FinishSetupOpWaits ==
    ASSUME job \in [AllJobs -> JobStates], ~complete, stage \notin {"refining", "up", "stopping"},
           NEW left, FinishSetupOp(left)
    PROVE  /\ stage' \notin {"down", "buses"}
           /\ stage' \in {"refining", "up", "stopping"} => complete'
           /\ stage' = "refining" => job'[Refine] = "running"
           /\ complete' => \A j \in AllJobs : job'[j] # "waiting"
<1>1. CASE stage' \in {"plugins", "failed"} /\ UNCHANGED <<complete, job>>
  BY <1>1
<1>2. CASE stage' = "up" /\ complete' = TRUE /\ job' = Woken(job)
  BY <1>2 DEF Woken, JobStates
<1>3. CASE stage' = "refining" /\ complete' = TRUE /\ job' = Process(Woken(job), Refine, complete')
  <2>1. Refine \in AllJobs
    BY DEF AllJobs
  <2>2. Woken(job) \in [AllJobs -> JobStates] /\ \A j \in AllJobs : Woken(job)[j] # "waiting"
    BY DEF Woken, JobStates
  <2>3. job' = [Woken(job) EXCEPT ![Refine] = "running"]
    BY <1>3 DEF Process
  <2> QED
    BY <1>3, <2>1, <2>2, <2>3
<1> QED
  BY <1>1, <1>2, <1>3 DEF FinishSetupOp

(* A setup that has its buses leaves "buses"; one that has not goes on       *)
(* waiting for one it has asked.                                             *)
LEMMA FinishGetBusWaits ==
    ASSUME SetupIInv, stage \in {"down", "buses"}, FinishGetBus(bus'),
           bus' \in [Buses -> {"asked", "there"}]
    PROVE  WaitInv'
<1> USE DEF SetupIInv, Inv
<1>1. ~complete
  BY DEF StartInv
<1>2. CASE OpenPlugins
  <2>1. PICK opening \in Openings :
            IF opening.result.stuck
            THEN stage' = "stuck" /\ UNCHANGED <<complete, job>>
            ELSE SetUp(settingUp')
    BY <1>2 DEF OpenPlugins
  <2>2. CASE stage' = "stuck" /\ UNCHANGED <<complete, job>>
    BY <1>1, <2>2 DEF WaitInv
  <2>3. CASE SetUp(settingUp')
    <3>1. FinishSetupOp(pending')
      BY <2>3 DEF SetUp
    <3> QED
      BY <1>1, <3>1, FinishSetupOpWaits DEF WaitInv
  <2> QED
    BY <2>1, <2>2, <2>3
<1>3. CASE CannotOpen
  BY <1>1, <1>3 DEF CannotOpen, WaitInv
<1>4. CASE stage' = "buses" /\ ~(\A b \in Buses : bus'[b] = "there") /\ UNCHANGED <<complete, job>>
  BY <1>1, <1>4 DEF WaitInv
<1> QED
  BY <1>2, <1>3, <1>4 DEF FinishGetBus

LEMMA WaitInit == Init => SetupIInv
<1> SUFFICES ASSUME Init PROVE SetupIInv
  OBVIOUS
<1>1. bus \in [Buses -> {"missing", "asked", "there"}]
  BY DEF Init
<1>2. WaitInv
  BY DEF Init, WaitInv
<1> QED
  BY <1>1, <1>2, InitInv DEF SetupIInv

(* Every step leaves whatever waits with something that is to come.          *)
LEMMA WaitNext ==
    ASSUME SetupIInv, [Next]_vars
    PROVE  SetupIInv'
<1> USE DEF SetupIInv, Inv
<1> DEFINE Asked == [Buses -> {"missing", "asked", "there"}]
<1> HIDE DEF Asked
<1>0. Inv'
  BY NextInv
<1>1. CASE SetupAsync
  <2>1. bus' \in [Buses -> {"asked", "there"}]
    BY <1>1 DEF SetupAsync
  <2>2. WaitInv'
    BY <1>1, <2>1, FinishGetBusWaits DEF SetupAsync
  <2> QED
    BY <1>0, <2>1, <2>2
<1>2. ASSUME NEW b \in Buses, GetBus(b)
      PROVE  SetupIInv'
  <2>1. CASE bus' = [bus EXCEPT ![b] = "there"] /\ FinishGetBus(bus')
    <3>1. \A c \in Buses : bus[c] \in {"asked", "there"}
      BY <1>2 DEF GetBus, WaitInv
    <3>2. bus' \in [Buses -> {"asked", "there"}]
      BY <2>1, <3>1
    <3>3. WaitInv'
      BY <1>2, <2>1, <3>2, FinishGetBusWaits DEF GetBus
    <3> QED
      BY <1>0, <3>2, <3>3
  <2>2. CASE stage' = "failed" /\ UNCHANGED <<bus, complete, job>>
    BY <1>0, <1>2, <2>2 DEF GetBus, WaitInv
  <2> QED
    BY <1>2, <2>1, <2>2 DEF GetBus
<1>3. ASSUME NEW p \in Plugins, PluginSetupCb(p)
      PROVE  SetupIInv'
  <2>1. stage = "plugins" /\ ~complete
    BY <1>3 DEF PluginSetupCb, CountInv
  <2>2. FinishSetupOp(pending') /\ bus' = bus
    BY <1>3 DEF PluginSetupCb
  <2> QED
    BY <1>0, <2>1, <2>2, FinishSetupOpWaits DEF WaitInv
<1>4. ASSUME NEW p \in Plugins, PluginShutdownCb(p)
      PROVE  SetupIInv'
  BY <1>0, <1>4 DEF PluginShutdownCb, WaitInv
<1>5. ASSUME NEW j \in Jobs, ProcessAsync(j)
      PROVE  SetupIInv'
  <2>1. j \in AllJobs /\ j # Refine
    BY SetupAssumption DEF AllJobs, SetupAssumption
  <2>2. /\ stage \in {"buses", "plugins", "refining", "up"} /\ UNCHANGED <<stage, bus, complete>>
        /\ job' = [job EXCEPT ![j] = IF complete THEN "running" ELSE "waiting"]
    BY <1>5 DEF ProcessAsync, Process
  <2> QED
    BY <1>0, <2>1, <2>2 DEF WaitInv
<1>6. ASSUME NEW j \in AllJobs, JobProcessCb(j) \/ JobEnds(j)
      PROVE  SetupIInv'
  <2>1. /\ UNCHANGED <<stage, bus, complete>>
        /\ \/ job[j] = "woken" /\ job' = [job EXCEPT ![j] = "running"]
           \/ j \in Jobs /\ job[j] = "running" /\ job' = [job EXCEPT ![j] = "ended"]
    BY <1>6 DEF JobProcessCb, JobEnds
  <2>2. j \in Jobs => j # Refine
    BY SetupAssumption DEF SetupAssumption
  <2>3. stage # "down"
    BY <2>1 DEF WaitInv
  <2>4. complete => \A k \in AllJobs : job'[k] # "waiting"
    BY <2>1 DEF WaitInv
  <2>5. stage = "refining" => job'[Refine] = "running"
    BY <2>1, <2>2 DEF WaitInv, AllJobs
  <2> QED
    BY <1>0, <2>1, <2>3, <2>4, <2>5 DEF WaitInv
<1>7. CASE RefineEnds
  BY <1>0, <1>7 DEF RefineEnds, WaitInv
<1>8. CASE Shutdown
  BY <1>0, <1>8 DEF Shutdown, WaitInv
<1>9. CASE RemoveAllPlugins
  BY <1>0, <1>9 DEF RemoveAllPlugins, WaitInv
<1>10. CASE UNCHANGED vars
  BY <1>0, <1>10 DEF vars, WaitInv
<1> QED
  BY <1>1, <1>2, <1>3, <1>4, <1>5, <1>6, <1>7, <1>8, <1>9, <1>10 DEF Next

(* Whatever the buses and the plugins answer, nobody waits for what nobody   *)
(* is about to do: the setup, the shutdown and the jobs go on once those     *)
(* have answered, for any number of plugins, rules, jobs and rounds.         *)
THEOREM NobodyIsForgotten == SafeSpec => []SomebodyGoesOn
<1>1. ASSUME SetupIInv PROVE SomebodyGoesOn
  <2> USE <1>1 DEF SetupIInv, Inv
  <2>1. stage = "plugins" => settingUp # {}
    BY PluginsAreFinite DEF CountInv
  <2>2. stage = "stopping" => stopping # {} \/ pending = 0
    BY PluginsAreFinite DEF CountInv
  <2>3. \A j \in AllJobs : job[j] = "waiting" => stage \in {"buses", "plugins", "stuck", "failed"}
    BY DEF WaitInv, Stages
  <2> QED
    BY <2>1, <2>2, <2>3 DEF WaitInv, SomebodyGoesOn
<1> QED
  BY <1>1, WaitInit, WaitNext, PTL DEF SafeSpec

(* WaitsForAnswers, the run setup checks: the loader waits for all who will  *)
(* answer, also before gs_plugin_loader_shutdown() returns.                  *)
THEOREM LoaderWaits == SafeSpec => []WaitsForAnswers
<1>1. NobodyCallsBackLater /\ SomebodyGoesOn => WaitsForAnswers
  BY DEF WaitsForAnswers
<1> QED
  BY <1>1, ShutdownIsAwaited, NobodyIsForgotten, PTL

(* ---- The order, the priorities and the conflicts of the plugins ---- *)

(* A set of numbers that is not empty has a least one.                       *)
LEMMA LeastOne ==
    ASSUME NEW S \in SUBSET Nat, S # {}
    PROVE  \E k \in S : \A q \in S : k <= q
<1> DEFINE less == OpToRel(<, Nat)
<1>1. IsWellFoundedOn(less, Nat)
  BY NatLessThanWellFounded
<1>2. \A p, q \in Nat : q < p => <<q, p>> \in less
  BY DEF OpToRel
<1> HIDE DEF less
<1>3. PICK k \in S : \A q \in S : ~(<<q, k>> \in less)
  BY <1>1, WFMin
<1>4. ASSUME NEW q \in S
      PROVE  k <= q
  <2>1. k \in Nat /\ q \in Nat
    OBVIOUS
  <2>2. ~(q < k)
    BY <1>2, <1>3, <2>1
  <2> QED
    BY <2>1, <2>2
<1> QED
  BY <1>4

(* Induction up to a number: a set of numbers that begins with 0 and has the *)
(* successor of each of its members goes all the way.                        *)
LEMMA UpTo ==
    ASSUME NEW K \in Nat, NEW T, 0 \in T,
           \A n \in 1..K : n - 1 \in T => n \in T
    PROVE  0..K \subseteq T
<1> DEFINE rest == {n \in 0..K : n \notin T}
<1> SUFFICES ASSUME rest # {} PROVE FALSE
  OBVIOUS
<1>1. rest \in SUBSET Nat
  OBVIOUS
<1>2. PICK m \in rest : \A q \in rest : m <= q
  <2> HIDE DEF rest
  <2> QED
    BY <1>1, LeastOne
<1>3. m \in 0..K /\ m \notin T /\ m # 0
  BY <1>2
<1>4. m \in 1..K /\ m - 1 \in 0..K /\ ~(m <= m - 1)
  BY <1>3
<1>5. m - 1 \in T
  BY <1>2, <1>4
<1> QED
  BY <1>3, <1>4, <1>5

(* ---- One pass over the demands ---- *)
\* The places, or the priorities, of all plugins.
Values == [Plugins -> Nat]

(* Demands are pairs of plugins, at some places of a loop.                  *)
Demands == UNION {[S -> Pairs] : S \in SUBSET Nat}

(* Each place has a demand of two plugins.                                   *)
LEMMA DemandAt ==
    ASSUME NEW demands \in Demands
    PROVE  /\ DOMAIN demands \subseteq Nat
           /\ \A i \in DOMAIN demands : demands[i] \in Pairs
BY DEF Demands

(* Rules about enabled plugins are demands, and those to run before others   *)
(* follow those to run after others.                                         *)
LEMMA DemandsOfRules ==
    ASSUME NEW r \in Rules, NEW on
    PROVE  /\ PlaceDemands(r, on) \in Demands
           /\ PriorityDemands(r, on) \in Demands
<1>1. r.after \in Seq(Pairs) /\ r.before \in Seq(Pairs) /\ r.better \in Seq(Pairs)
  BY DEF Rules
<1>2. ASSUME NEW pairs \in Seq(Pairs)
      PROVE  /\ DOMAIN AboutEnabled(pairs, on) \subseteq 1..Len(pairs)
             /\ \A i \in DOMAIN AboutEnabled(pairs, on) : AboutEnabled(pairs, on)[i] \in Pairs
             /\ AboutEnabled(pairs, on) = [i \in DOMAIN AboutEnabled(pairs, on) |-> AboutEnabled(pairs, on)[i]]
  <2>1. DOMAIN pairs = 1..Len(pairs) /\ \A i \in 1..Len(pairs) : pairs[i] \in Pairs
    BY LenProperties, ElementOfSeq
  <2> QED
    BY <2>1 DEF AboutEnabled
<1>3. PriorityDemands(r, on) \in Demands
  <2>1. Len(r.better) \in Nat
    BY <1>1, LenProperties
  <2>2. DOMAIN AboutEnabled(r.better, on) \in SUBSET Nat
    BY <1>1, <1>2, <2>1
  <2> QED
    BY <1>1, <1>2, <2>2 DEF PriorityDemands, Demands
<1>4. PlaceDemands(r, on) \in Demands
  <2> DEFINE after == AboutEnabled(r.after, on)
             before == AboutEnabled(r.before, on)
             n == Len(r.after)
             S == DOMAIN after \union {n + k : k \in DOMAIN before}
  <2>1. n \in Nat /\ Len(r.before) \in Nat
    BY <1>1, LenProperties
  <2>2. /\ DOMAIN after \subseteq 1..n /\ DOMAIN before \subseteq 1..Len(r.before)
        /\ \A i \in DOMAIN after : after[i] \in Pairs
        /\ \A i \in DOMAIN before : before[i] \in Pairs
    BY <1>1, <1>2
  <2>3. PlaceDemands(r, on)
          = [i \in S |-> IF i <= n THEN after[i] ELSE <<before[i - n][2], before[i - n][1]>>]
    BY DEF PlaceDemands
  <2> HIDE DEF after, before, n
  <2>4. S \in SUBSET Nat
    BY <2>1, <2>2
  <2>5. ASSUME NEW i \in S
        PROVE  (IF i <= n THEN after[i] ELSE <<before[i - n][2], before[i - n][1]>>) \in Pairs
    <3>1. CASE i \in DOMAIN after
      BY <2>1, <2>2, <3>1
    <3>2. ASSUME NEW k \in DOMAIN before, i = n + k
          PROVE  ~(i <= n) /\ i - n = k
      BY <2>1, <2>2, <3>2
    <3>3. CASE i \notin DOMAIN after
      BY <2>2, <3>2, <3>3 DEF Pairs
    <3> QED
      BY <3>1, <3>3
  <2>6. PlaceDemands(r, on) \in [S -> Pairs]
    BY <2>3, <2>5
  <2> HIDE DEF S
  <2> QED
    BY <2>4, <2>6 DEF Demands
<1> QED
  BY <1>3, <1>4

(* The first demand that is not met.                                         *)
LEMMA FirstUnmet ==
    ASSUME NEW demands \in Demands, NEW value, Unmet(demands, value) # {}
    PROVE  \E i \in Unmet(demands, value) :
              Pass(demands, value)
                = [value EXCEPT ![demands[i][1]] = value[demands[i][2]] + 1]
<1> DEFINE unmet == Unmet(demands, value)
<1>1. unmet \in SUBSET Nat
  BY DemandAt DEF Unmet
<1>2. \E k \in unmet : \A q \in unmet : k <= q
  BY <1>1, LeastOne
<1> DEFINE i == CHOOSE j \in unmet : \A q \in unmet : j <= q
<1>3. i \in unmet
  BY <1>2
<1>4. Pass(demands, value) = [value EXCEPT ![demands[i][1]] = value[demands[i][2]] + 1]
  BY <1>3 DEF Pass
<1> QED
  BY <1>3, <1>4

(* A pass that changes something meets a demand by raising one plugin.       *)
LEMMA PassRaises ==
    ASSUME NEW demands \in Demands, NEW value \in Values
    PROVE  /\ Pass(demands, value) \in Values
           /\ Unmet(demands, value) = {} => Pass(demands, value) = value
           /\ Unmet(demands, value) # {}
              => \E i \in DOMAIN demands :
                    /\ demands[i] \in Pairs
                    /\ value[demands[i][1]] <= value[demands[i][2]]
                    /\ Pass(demands, value)
                         = [value EXCEPT ![demands[i][1]] = value[demands[i][2]] + 1]
<1>1. Unmet(demands, value) = {} => Pass(demands, value) = value
  BY DEF Pass
<1>2. CASE Unmet(demands, value) # {}
  <2>1. PICK i \in Unmet(demands, value) : Pass(demands, value)
                = [value EXCEPT ![demands[i][1]] = value[demands[i][2]] + 1]
    BY <1>2, FirstUnmet
  <2>2. i \in DOMAIN demands /\ value[demands[i][1]] <= value[demands[i][2]]
    BY DEF Unmet
  <2>3. demands[i] \in Pairs
    BY <2>2, DemandAt
  <2>4. demands[i][1] \in Plugins /\ demands[i][2] \in Plugins
    BY <2>3 DEF Pairs
  <2>5. Pass(demands, value) \in Values
    BY <2>1, <2>4 DEF Values
  <2> QED
    BY <1>2, <2>1, <2>2, <2>3, <2>5
<1> QED
  BY <1>1, <1>2

(* ---- The loop: a pass after the other ---- *)
\* The function that Loop() defines: what the n-th pass leaves.
Passes(demands, spent) ==
    CHOOSE after : after =
        [n \in 0..(MaxPasses - spent) |->
            IF n = 0 THEN [p \in Plugins |-> 0] ELSE Pass(demands, after[n - 1])]

(* The loop ends with the first pass that finds all demands met.             *)
LEMMA LoopPasses ==
    ASSUME NEW demands, NEW spent
    PROVE  LET clean == {n \in 1..(MaxPasses - spent) :
                            Unmet(demands, Passes(demands, spent)[n - 1]) = {}}
               last == CHOOSE n \in clean : \A k \in clean : n <= k
           IN  Loop(demands, spent)
                 = IF clean = {} THEN [stuck |-> TRUE]
                   ELSE [stuck |-> FALSE, value |-> Passes(demands, spent)[last],
                         spent |-> spent + last]
BY Zenon DEF Loop, Passes

(* The passes up to the n-th exist, so the function of all of them is defined. *)
LEMMA PassesAreDefined ==
    ASSUME NEW demands \in Demands, NEW spent \in 0..MaxPasses
    PROVE  /\ Passes(demands, spent) \in [0..(MaxPasses - spent) -> Values]
           /\ Passes(demands, spent)[0] = [p \in Plugins |-> 0]
           /\ \A n \in 1..(MaxPasses - spent) :
                 Passes(demands, spent)[n] = Pass(demands, Passes(demands, spent)[n - 1])
<1> DEFINE K == MaxPasses - spent
           zero == [p \in Plugins |-> 0]
           Begins(g, n) == /\ g[0] = zero
                           /\ \A k \in 1..n : g[k] = Pass(demands, g[k - 1])
           T == {n \in 0..K : \E g \in [0..n -> Values] : Begins(g, n)}
<1>1. K \in Nat
  BY OrderAssumption DEF OrderAssumption
<1> HIDE DEF K
<1>2. zero \in Values
  BY DEF Values
<1> HIDE DEF zero
<1>3. 0 \in T
  <2> DEFINE g == [k \in 0..0 |-> zero]
  <2>1. g \in [0..0 -> Values] /\ Begins(g, 0)
    BY <1>2
  <2> HIDE DEF g
  <2>2. \E e \in [0..0 -> Values] : Begins(e, 0)
    BY <2>1
  <2>3. 0 \in 0..K
    BY <1>1
  <2> QED
    BY <2>2, <2>3
<1>4. ASSUME NEW n \in 1..K, n - 1 \in T
      PROVE  n \in T
  <2>1. PICK g \in [0..(n - 1) -> Values] : Begins(g, n - 1)
    BY <1>4
  <2>2. n - 1 \in 0..(n - 1) /\ n \in Nat /\ n # 0
    BY <1>1
  <2> DEFINE h == [k \in 0..n |-> IF k = n THEN Pass(demands, g[n - 1]) ELSE g[k]]
  <2>3. h \in [0..n -> Values]
    <3>1. Pass(demands, g[n - 1]) \in Values
      BY <2>2, PassRaises
    <3>2. \A k \in 0..n : k # n => k \in 0..(n - 1)
      BY <2>2
    <3> QED
      BY <3>1, <3>2
  <2>4. h[0] = zero
    BY <2>1, <2>2
  <2>5. ASSUME NEW k \in 1..n
        PROVE  h[k] = Pass(demands, h[k - 1])
    <3>1. k \in 0..n /\ k - 1 \in 0..n /\ k - 1 # n
      BY <2>2
    <3>2. h[k - 1] = g[k - 1]
      BY <3>1
    <3>3. CASE k = n
      BY <3>1, <3>2, <3>3
    <3>4. CASE k # n
      <4>1. k \in 1..(n - 1)
        BY <2>2, <3>4
      <4> QED
        BY <2>1, <3>1, <3>2, <3>4, <4>1
    <3> QED
      BY <3>3, <3>4
  <2>6. Begins(h, n)
    BY <2>4, <2>5
  <2> HIDE DEF h
  <2>7. \E e \in [0..n -> Values] : Begins(e, n)
    BY <2>3, <2>6
  <2>8. n \in 0..K
    BY <1>1
  <2> QED
    BY <2>7, <2>8
<1>5. K \in T
  <2> HIDE DEF T
  <2>1. 0..K \subseteq T
    BY <1>1, <1>3, <1>4, UpTo
  <2> QED
    BY <1>1, <2>1
<1>6. PICK g \in [0..K -> Values] : Begins(g, K)
  BY <1>5
<1>7. g = [n \in 0..K |-> IF n = 0 THEN zero ELSE Pass(demands, g[n - 1])]
  <2>1. \A n \in 0..K : n # 0 => n \in 1..K
    BY <1>1
  <2>2. \A n \in 0..K : g[n] = IF n = 0 THEN zero ELSE Pass(demands, g[n - 1])
    BY <1>6, <2>1
  <2> QED
    BY <2>2
<1> DEFINE f == Passes(demands, spent)
<1>8. f = [n \in 0..K |-> IF n = 0 THEN zero ELSE Pass(demands, f[n - 1])]
  <2>1. f = CHOOSE after : after =
              [n \in 0..K |-> IF n = 0 THEN zero ELSE Pass(demands, after[n - 1])]
    BY DEF Passes, K, zero
  <2> QED
    BY <1>7, <2>1
<1> HIDE DEF f
<1>9. f[0] = zero
  BY <1>1, <1>8
<1>10. ASSUME NEW n \in 1..K
       PROVE  f[n] = Pass(demands, f[n - 1])
  <2>1. n \in 0..K /\ n # 0
    BY <1>1
  <2> QED
    BY <1>8, <2>1
<1>11. f \in [0..K -> Values]
  <2> DEFINE U == {n \in 0..K : f[n] \in Values}
  <2>1. 0 \in U
    BY <1>1, <1>2, <1>9
  <2>2. ASSUME NEW n \in 1..K, n - 1 \in U
        PROVE  n \in U
    <3>1. n \in 0..K
      BY <1>1
    <3> QED
      BY <1>10, <2>2, <3>1, PassRaises
  <2>3. 0..K \subseteq U
    <3> HIDE DEF U
    <3> QED
      BY <1>1, <2>1, <2>2, UpTo
  <2>4. \A n \in 0..K : f[n] \in Values
    BY <2>3
  <2>5. f = [n \in 0..K |-> f[n]]
    BY <1>8
  <2> QED
    BY <2>4, <2>5
<1> QED
  BY <1>9, <1>10, <1>11 DEF f, K, zero

(* ---- When the loop ends, every demand is met ---- *)
(* What the last pass leaves has not changed, so all demands are met.        *)
LEMMA LoopIsRight ==
    ASSUME NEW demands \in Demands, NEW spent \in 0..MaxPasses,
           ~Loop(demands, spent).stuck
    PROVE  /\ Loop(demands, spent).value \in Values
           /\ Loop(demands, spent).spent \in 0..MaxPasses
           /\ Unmet(demands, Loop(demands, spent).value) = {}
<1> DEFINE K == MaxPasses - spent
           f == Passes(demands, spent)
           clean == {n \in 1..K : Unmet(demands, f[n - 1]) = {}}
           last == CHOOSE n \in clean : \A k \in clean : n <= k
<1>1. K \in Nat /\ spent \in Nat /\ MaxPasses \in Nat /\ K = MaxPasses - spent
  BY OrderAssumption DEF OrderAssumption
<1>2. Loop(demands, spent)
        = IF clean = {} THEN [stuck |-> TRUE]
          ELSE [stuck |-> FALSE, value |-> f[last], spent |-> spent + last]
  BY LoopPasses
<1>3. /\ f \in [0..K -> Values]
      /\ \A n \in 1..K : f[n] = Pass(demands, f[n - 1])
  BY PassesAreDefined
<1> HIDE DEF K, f
<1>4. clean # {}
  BY <1>2
<1>5. last \in clean
  <2>1. clean \in SUBSET Nat
    OBVIOUS
  <2> HIDE DEF clean
  <2>2. \E n \in clean : \A k \in clean : n <= k
    BY <1>4, <2>1, LeastOne
  <2> QED
    BY <2>2
<1> HIDE DEF last
<1>6. Loop(demands, spent) = [stuck |-> FALSE, value |-> f[last], spent |-> spent + last]
  BY <1>2, <1>4
<1>7. last \in 1..K /\ Unmet(demands, f[last - 1]) = {}
  BY <1>5
<1>8. last - 1 \in 0..K /\ last \in 0..K
  BY <1>1, <1>7
<1>9. f[last] = f[last - 1]
  BY <1>3, <1>7, <1>8, PassRaises
<1>10. spent + last \in 0..MaxPasses
  BY <1>1, <1>7
<1> QED
  BY <1>3, <1>6, <1>7, <1>8, <1>9, <1>10

(* ---- The order ---- *)
\* The plugins that go before p in the list, whose number is where p goes.
Before(place, p) == {q \in Plugins : Goes(place, q, p)}
Position(place) == [p \in Plugins |-> Cardinality(Before(place, p))]

(* The sort function compares the places, then the names: no two plugins are *)
(* equal to it.                                                              *)
LEMMA GoesIsAnOrder ==
    ASSUME NEW place \in Values
    PROVE  /\ \A p \in Plugins : ~Goes(place, p, p)
           /\ \A p, q \in Plugins : p # q => Goes(place, p, q) \/ Goes(place, q, p)
           /\ \A p, q, r \in Plugins : Goes(place, p, q) /\ Goes(place, q, r) => Goes(place, p, r)
<1>1. Plugins \subseteq Nat
  BY OrderAssumption DEF OrderAssumption, Plugins
<1> USE DEF Values, Goes
<1>2. \A p \in Plugins : ~Goes(place, p, p)
  BY <1>1
<1>3. \A p, q \in Plugins : p # q => Goes(place, p, q) \/ Goes(place, q, p)
  BY <1>1
<1>4. \A p, q, r \in Plugins : Goes(place, p, q) /\ Goes(place, q, r) => Goes(place, p, r)
  BY <1>1
<1> QED
  BY <1>2, <1>3, <1>4

(* Who goes before another has fewer plugins before it.                      *)
LEMMA EarlierPosition ==
    ASSUME NEW place \in Values, NEW p \in Plugins, NEW q \in Plugins, Goes(place, p, q)
    PROVE  Position(place)[p] < Position(place)[q]
<1>1. Before(place, p) \in SUBSET Plugins /\ Before(place, q) \in SUBSET Plugins
  BY DEF Before
<1>2. Before(place, p) \subseteq Before(place, q)
  BY GoesIsAnOrder DEF Before
<1>3. p \in Before(place, q) /\ p \notin Before(place, p)
  BY GoesIsAnOrder DEF Before
<1>4. /\ Cardinality(Before(place, p)) <= Cardinality(Before(place, q))
      /\ Cardinality(Before(place, p)) # Cardinality(Before(place, q))
  BY <1>1, <1>2, <1>3, PluginsAreFinite, FS_Subset
<1>5. Cardinality(Before(place, p)) \in Nat /\ Cardinality(Before(place, q)) \in Nat
  BY <1>1, PluginsAreFinite
<1> QED
  BY <1>4, <1>5 DEF Position

(* Every position is taken by one plugin.                                    *)
LEMMA PositionsAreTaken ==
    ASSUME NEW place \in Values
    PROVE  Position(place) \in Bijection(Plugins, 0..(N - 1))
<1> DEFINE pos == Position(place)
<1>1. N \in Nat /\ IsFiniteSet(Plugins) /\ Cardinality(Plugins) = N
  BY OrderAssumption, FS_Interval DEF OrderAssumption, Plugins
<1>2. ASSUME NEW p \in Plugins
      PROVE  pos[p] \in 0..(N - 1)
  <2>1. Before(place, p) \in SUBSET Plugins /\ p \notin Before(place, p)
    BY GoesIsAnOrder DEF Before
  <2>2. Cardinality(Before(place, p)) <= N /\ Cardinality(Before(place, p)) # N
    BY <1>1, <2>1, FS_Subset
  <2>3. Cardinality(Before(place, p)) \in Nat
    BY <2>1, PluginsAreFinite
  <2>4. Cardinality(Before(place, p)) \in 0..(N - 1)
    BY <1>1, <2>2, <2>3
  <2> QED
    BY <2>4 DEF Position
<1>3. ASSUME NEW p \in Plugins, NEW q \in Plugins, p # q
      PROVE  pos[p] # pos[q]
  <2>1. pos[p] < pos[q] \/ pos[q] < pos[p]
    BY <1>3, GoesIsAnOrder, EarlierPosition
  <2>2. pos[p] \in Nat /\ pos[q] \in Nat
    BY <1>2
  <2> HIDE DEF pos
  <2> QED
    BY <2>1, <2>2
<1>4. pos \in Injection(Plugins, 0..(N - 1))
  <2>1. pos \in [Plugins -> 0..(N - 1)]
    BY <1>2 DEF Position
  <2>2. IsInjective(pos)
    BY <1>3, <2>1 DEF IsInjective
  <2> QED
    BY <2>1, <2>2 DEF Injection
<1>5. IsFiniteSet(0..(N - 1)) /\ Cardinality(0..(N - 1)) = N
  BY <1>1, FS_Interval
<1> HIDE DEF pos
<1>6. pos \in Surjection(Plugins, 0..(N - 1))
  BY <1>1, <1>4, <1>5, FS_Injection
<1> QED
  BY <1>4, <1>6 DEF Bijection, pos

(* The list has each plugin where its position says.                         *)
LEMMA SortIsRight ==
    ASSUME NEW place \in Values
    PROVE  /\ Sort(place) \in [Plugins -> Plugins]
           /\ \A p \in Plugins : /\ Position(place)[p] + 1 \in Plugins
                                /\ Sort(place)[Position(place)[p] + 1] = p
<1> DEFINE pos == Position(place)
<1>1. N \in Nat /\ Plugins = 1..N
  BY OrderAssumption DEF OrderAssumption, Plugins
<1>2. /\ pos \in [Plugins -> 0..(N - 1)]
      /\ \A p, q \in Plugins : pos[p] = pos[q] => p = q
      /\ \A k \in 0..(N - 1) : \E p \in Plugins : pos[p] = k
  BY PositionsAreTaken DEF Bijection, Injection, Surjection, IsInjective
<1>3. \A p \in Plugins : Cardinality({q \in Plugins : Goes(place, q, p)}) = pos[p]
  BY DEF Position, Before
<1> HIDE DEF pos
<1>4. ASSUME NEW i \in Plugins
      PROVE  Sort(place)[i] \in Plugins /\ pos[Sort(place)[i]] = i - 1
  <2>1. i - 1 \in 0..(N - 1)
    BY <1>1
  <2>2. \E p \in Plugins : Cardinality({q \in Plugins : Goes(place, q, p)}) = i - 1
    BY <1>2, <1>3, <2>1
  <2>3. Sort(place)[i] = CHOOSE p \in Plugins : Cardinality({q \in Plugins : Goes(place, q, p)}) = i - 1
    BY DEF Sort
  <2>4. /\ Sort(place)[i] \in Plugins
        /\ Cardinality({q \in Plugins : Goes(place, q, Sort(place)[i])}) = i - 1
    BY <2>2, <2>3
  <2> QED
    BY <1>3, <2>4
<1>5. ASSUME NEW p \in Plugins
      PROVE  pos[p] + 1 \in Plugins /\ Sort(place)[pos[p] + 1] = p
  <2>1. pos[p] \in 0..(N - 1)
    BY <1>2
  <2>2. pos[p] + 1 \in Plugins /\ (pos[p] + 1) - 1 = pos[p]
    BY <1>1, <2>1
  <2> QED
    BY <1>2, <1>4, <2>2
<1>6. Sort(place) \in [Plugins -> Plugins]
  <2>1. \A i \in Plugins :
          (CHOOSE p \in Plugins : Cardinality({q \in Plugins : Goes(place, q, p)}) = i - 1) \in Plugins
    BY <1>4 DEF Sort
  <2> QED
    BY <2>1 DEF Sort
<1> QED
  BY <1>5, <1>6 DEF pos

(* The list is in the order of the places.                                   *)
LEMMA SortKeepsPlaces ==
    ASSUME NEW place \in Values, NEW p \in Plugins, NEW q \in Plugins, place[p] < place[q]
    PROVE  IsBefore(Sort(place), p, q)
<1> DEFINE i == Position(place)[p] + 1
           j == Position(place)[q] + 1
<1>1. /\ i \in Plugins /\ Sort(place)[i] = p
      /\ j \in Plugins /\ Sort(place)[j] = q
  BY SortIsRight
<1>2. Position(place)[p] < Position(place)[q]
  BY EarlierPosition DEF Goes
<1>3. Position(place)[p] \in 0..(N - 1) /\ Position(place)[q] \in 0..(N - 1)
  BY PositionsAreTaken DEF Bijection, Injection
<1>4. N \in Nat
  BY OrderAssumption DEF OrderAssumption
<1>5. i < j
  BY <1>2, <1>3, <1>4
<1> HIDE DEF i, j
<1> QED
  BY <1>1, <1>5 DEF IsBefore

(* Demands that some values meet are satisfiable: number the plugins in the  *)
(* order of the values.                                                      *)
LEMMA MetIsSatisfiable ==
    ASSUME NEW demands \in Demands, NEW value \in Values, Unmet(demands, value) = {}
    PROVE  Satisfiable(demands)
<1> DEFINE number == [p \in Plugins |-> Position(value)[p] + 1]
<1>1. number \in [Plugins -> Plugins]
  BY SortIsRight
<1>2. ASSUME NEW i \in DOMAIN demands
      PROVE  ~(number[demands[i][1]] <= number[demands[i][2]])
  <2>1. demands[i] \in Pairs
    BY DemandAt
  <2>2. PICK p \in Plugins, q \in Plugins : p = demands[i][1] /\ q = demands[i][2]
    BY <2>1 DEF Pairs
  <2>3. value[q] < value[p]
    BY <2>2 DEF Unmet, Values
  <2>4. Position(value)[q] < Position(value)[p]
    BY <2>3, EarlierPosition DEF Goes
  <2>5. Position(value)[p] \in 0..(N - 1) /\ Position(value)[q] \in 0..(N - 1) /\ N \in Nat
    BY PositionsAreTaken, OrderAssumption DEF Bijection, Injection, OrderAssumption
  <2>6. ~(Position(value)[p] + 1 <= Position(value)[q] + 1)
    BY <2>4, <2>5
  <2> QED
    BY <2>2, <2>6
<1> HIDE DEF number
<1>3. Unmet(demands, number) = {}
  BY <1>2 DEF Unmet
<1> QED
  BY <1>1, <1>3 DEF Satisfiable

(* ---- The conflicts ---- *)
\* The plugins that p is in conflict with, and the function that Resolve()
\* defines: who is enabled when p has had its turn.
Lost(conflicts, p) == {conflicts[i][2] : i \in {k \in DOMAIN conflicts : conflicts[k][1] = p}}
Resolving(conflicts, on) ==
    CHOOSE from : from =
        [p \in 0..N |->
            IF p = 0 THEN on
            ELSE IF p \in from[p - 1]
                 THEN from[p - 1] \ {conflicts[i][2] : i \in {k \in DOMAIN conflicts : conflicts[k][1] = p}}
                 ELSE from[p - 1]]

(* Resolve() is that function, after the last plugin.                        *)
LEMMA ResolveResolving ==
    ASSUME NEW conflicts, NEW on
    PROVE  Resolve(conflicts, on) = Resolving(conflicts, on)[N]
BY Zenon DEF Resolve, Resolving

\* The turn of plugin p.
Disable(conflicts, on, p) == IF p \in on THEN on \ Lost(conflicts, p) ELSE on

(* The turns up to the p-th exist, so the function of all of them is defined. *)
LEMMA ResolvingIsDefined ==
    ASSUME NEW conflicts, NEW on \in SUBSET Plugins
    PROVE  /\ Resolving(conflicts, on)[0] = on
           /\ \A p \in 0..N : Resolving(conflicts, on)[p] \in SUBSET on
           /\ \A p \in Plugins : Resolving(conflicts, on)[p]
                                    = Disable(conflicts, Resolving(conflicts, on)[p - 1], p)
<1> DEFINE Begins(g, n) == /\ g[0] = on
                           /\ \A k \in 1..n : g[k] = Disable(conflicts, g[k - 1], k)
           T == {n \in 0..N : \E g \in [0..n -> SUBSET on] : Begins(g, n)}
<1>1. N \in Nat
  BY OrderAssumption DEF OrderAssumption
<1>2. ASSUME NEW S \in SUBSET on, NEW p
      PROVE  Disable(conflicts, S, p) \in SUBSET on
  BY DEF Disable
<1>3. 0 \in T
  <2> DEFINE g == [k \in 0..0 |-> on]
  <2>1. g \in [0..0 -> SUBSET on] /\ Begins(g, 0)
    OBVIOUS
  <2> HIDE DEF g
  <2>2. \E e \in [0..0 -> SUBSET on] : Begins(e, 0)
    BY <2>1
  <2>3. 0 \in 0..N
    BY <1>1
  <2> QED
    BY <2>2, <2>3
<1>4. ASSUME NEW n \in 1..N, n - 1 \in T
      PROVE  n \in T
  <2>1. PICK g \in [0..(n - 1) -> SUBSET on] : Begins(g, n - 1)
    BY <1>4
  <2>2. n - 1 \in 0..(n - 1) /\ n \in Nat /\ n # 0
    BY <1>1
  <2> DEFINE h == [k \in 0..n |-> IF k = n THEN Disable(conflicts, g[n - 1], n) ELSE g[k]]
  <2>3. h \in [0..n -> SUBSET on]
    <3>1. Disable(conflicts, g[n - 1], n) \in SUBSET on
      BY <1>2, <2>2
    <3>2. \A k \in 0..n : k # n => k \in 0..(n - 1)
      BY <2>2
    <3> QED
      BY <3>1, <3>2
  <2>4. h[0] = on
    BY <2>1, <2>2
  <2>5. ASSUME NEW k \in 1..n
        PROVE  h[k] = Disable(conflicts, h[k - 1], k)
    <3>1. k \in 0..n /\ k - 1 \in 0..n /\ k - 1 # n
      BY <2>2
    <3>2. h[k - 1] = g[k - 1]
      BY <3>1
    <3>3. CASE k = n
      BY <3>1, <3>2, <3>3
    <3>4. CASE k # n
      <4>1. k \in 1..(n - 1)
        BY <2>2, <3>4
      <4> QED
        BY <2>1, <3>1, <3>2, <3>4, <4>1
    <3> QED
      BY <3>3, <3>4
  <2>6. Begins(h, n)
    BY <2>4, <2>5
  <2> HIDE DEF h
  <2>7. \E e \in [0..n -> SUBSET on] : Begins(e, n)
    BY <2>3, <2>6
  <2>8. n \in 0..N
    BY <1>1
  <2> QED
    BY <2>7, <2>8
<1>5. PICK g \in [0..N -> SUBSET on] : Begins(g, N)
  <2> HIDE DEF T
  <2>1. 0..N \subseteq T
    BY <1>1, <1>3, <1>4, UpTo
  <2>2. N \in T
    BY <1>1, <2>1
  <2> QED
    BY <2>2 DEF T
<1> DEFINE f == Resolving(conflicts, on)
<1>6. g = [p \in 0..N |-> IF p = 0 THEN on ELSE Disable(conflicts, g[p - 1], p)]
  <2>1. \A p \in 0..N : p # 0 => p \in 1..N
    BY <1>1
  <2>2. \A p \in 0..N : g[p] = IF p = 0 THEN on ELSE Disable(conflicts, g[p - 1], p)
    BY <1>5, <2>1
  <2> QED
    BY <2>2
<1>7. f = [p \in 0..N |-> IF p = 0 THEN on ELSE Disable(conflicts, f[p - 1], p)]
  <2>1. f = CHOOSE from : from =
              [p \in 0..N |-> IF p = 0 THEN on ELSE Disable(conflicts, from[p - 1], p)]
    BY DEF Resolving, Disable, Lost
  <2> QED
    BY <1>6, <2>1
<1> HIDE DEF f
<1>8. f[0] = on
  BY <1>1, <1>7
<1>9. ASSUME NEW p \in 1..N
      PROVE  f[p] = Disable(conflicts, f[p - 1], p)
  <2>1. p \in 0..N /\ p # 0
    BY <1>1
  <2> QED
    BY <1>7, <2>1
<1>10. \A p \in 0..N : f[p] \in SUBSET on
  <2> DEFINE U == {n \in 0..N : f[n] \in SUBSET on}
  <2>1. 0 \in U
    BY <1>1, <1>8
  <2>2. ASSUME NEW n \in 1..N, n - 1 \in U
        PROVE  n \in U
    <3>1. n \in 0..N
      BY <1>1
    <3> QED
      BY <1>2, <1>9, <2>2, <3>1
  <2>3. 0..N \subseteq U
    <3> HIDE DEF U
    <3> QED
      BY <1>1, <2>1, <2>2, UpTo
  <2> QED
    BY <2>3
<1> QED
  BY <1>8, <1>9, <1>10 DEF f, Plugins

(* Of two plugins in conflict, one is disabled: whoever is still enabled when *)
(* its turn has come has disabled the other, and nobody is enabled again.     *)
LEMMA ResolveIsRight ==
    ASSUME NEW conflicts \in Seq(Pairs), NEW on \in SUBSET Plugins
    PROVE  /\ Resolve(conflicts, on) \in SUBSET on
           /\ \A i \in DOMAIN conflicts :
                 ~(conflicts[i][1] \in Resolve(conflicts, on) /\ conflicts[i][2] \in Resolve(conflicts, on))
<1> DEFINE f == Resolving(conflicts, on)
<1>1. N \in Nat /\ Plugins = 1..N
  BY OrderAssumption DEF OrderAssumption, Plugins
<1>2. /\ \A p \in 0..N : f[p] \in SUBSET on
      /\ \A p \in Plugins : f[p] = Disable(conflicts, f[p - 1], p)
      /\ Resolve(conflicts, on) = f[N]
  BY ResolvingIsDefined, ResolveResolving
<1> HIDE DEF f
<1>3. ASSUME NEW m \in 0..N
      PROVE  f[N] \subseteq f[m]
  <2> DEFINE U == {k \in 0..(N - m) : f[m + k] \subseteq f[m]}
  <2>1. N - m \in Nat /\ m + (N - m) = N /\ m + 0 = m
    BY <1>1
  <2>2. 0 \in U
    BY <2>1
  <2>3. ASSUME NEW k \in 1..(N - m), k - 1 \in U
        PROVE  k \in U
    <3>1. m + k \in Plugins /\ (m + k) - 1 = m + (k - 1) /\ k \in 0..(N - m)
      BY <1>1, <2>1
    <3>2. f[m + k] \subseteq f[m + (k - 1)]
      BY <1>2, <3>1 DEF Disable
    <3> QED
      BY <2>3, <3>1, <3>2
  <2>4. 0..(N - m) \subseteq U
    <3> HIDE DEF U
    <3> QED
      BY <2>1, <2>2, <2>3, UpTo
  <2>5. N - m \in U
    BY <2>1, <2>4
  <2> QED
    BY <2>1, <2>5
<1>4. ASSUME NEW i \in DOMAIN conflicts, conflicts[i][1] \in f[N], conflicts[i][2] \in f[N]
      PROVE  FALSE
  <2>1. conflicts[i] \in Pairs
    BY ElementOfSeq, LenProperties
  <2>2. PICK p \in Plugins, q \in Plugins : p = conflicts[i][1] /\ q = conflicts[i][2]
    BY <2>1 DEF Pairs
  <2>3. p \in 0..N /\ p - 1 \in 0..N
    BY <1>1
  <2>4. p \in f[p - 1] /\ q \in f[p]
    BY <1>3, <1>4, <2>2, <2>3
  <2>5. q \in Lost(conflicts, p)
    BY <2>2 DEF Lost
  <2> QED
    BY <1>2, <2>4, <2>5 DEF Disable
<1> QED
  BY <1>1, <1>2, <1>4

(* ---- The loop does not give up too early ---- *)
\* The plugins that p stands over in an order; values that do not exceed their
\* number; and the cells below the values, if each is a column as high as it says.
Below(R, p) == {q \in Plugins : <<p, q>> \in R}
Within(R, value) == \A p \in Plugins : value[p] <= Cardinality(Below(R, p))
Cells(value) == {c \in Plugins \X Nat : c[2] < value[c[1]]}

(* One who stands over another stands over more plugins than that one.       *)
LEMMA MoreBelow ==
    ASSUME NEW demands, NEW R \in Orders(demands), NEW p \in Plugins, NEW q \in Plugins, <<p, q>> \in R
    PROVE  Cardinality(Below(R, q)) + 1 <= Cardinality(Below(R, p))
<1>1. Below(R, p) \in SUBSET Plugins /\ Below(R, q) \in SUBSET Plugins
  BY DEF Below
<1>2. Below(R, q) \subseteq Below(R, p)
  BY DEF Below, Orders
<1>3. q \in Below(R, p) /\ q \notin Below(R, q)
  BY DEF Below, Orders
<1>4. /\ Cardinality(Below(R, q)) <= Cardinality(Below(R, p))
      /\ Cardinality(Below(R, q)) # Cardinality(Below(R, p))
  BY <1>1, <1>2, <1>3, PluginsAreFinite, FS_Subset
<1>5. Cardinality(Below(R, p)) \in Nat /\ Cardinality(Below(R, q)) \in Nat
  BY <1>1, PluginsAreFinite
<1> QED
  BY <1>4, <1>5

(* An order of the plugins has finitely many pairs.                          *)
LEMMA OrderIsFinite ==
    ASSUME NEW demands, NEW R \in Orders(demands)
    PROVE  IsFiniteSet(R) /\ Cardinality(R) \in Nat
<1>1. IsFiniteSet(Plugins)
  BY PluginsAreFinite
<1>2. IsFiniteSet(Pairs)
  BY <1>1, FS_Product DEF Pairs
<1> QED
  BY <1>2, FS_Subset, FS_CardinalityType DEF Orders

(* An order has as many pairs as values within it can have cells.            *)
LEMMA CellsWithin ==
    ASSUME NEW demands, NEW R \in Orders(demands), NEW value \in Values, Within(R, value)
    PROVE  /\ IsFiniteSet(Cells(value)) /\ Cardinality(Cells(value)) \in Nat
           /\ IsFiniteSet(R) /\ Cardinality(R) \in Nat
           /\ Cardinality(Cells(value)) <= Cardinality(R)
<1> DEFINE size == [p \in Plugins |-> Cardinality(Below(R, p))]
           one == [p \in Plugins |-> CHOOSE b : b \in Bijection(1..size[p], Below(R, p))]
           f == [c \in Cells(value) |-> <<c[1], one[c[1]][c[2] + 1]>>]
<1>1. \A p \in Plugins : size[p] \in Nat /\ value[p] \in Nat /\ value[p] <= size[p]
  <2>1. ASSUME NEW p \in Plugins
        PROVE  size[p] \in Nat
    <3>1. Below(R, p) \in SUBSET Plugins
      BY DEF Below
    <3> QED
      BY <3>1, PluginsAreFinite
  <2> QED
    BY <2>1 DEF Within, Values
<1>2. ASSUME NEW p \in Plugins
      PROVE  one[p] \in Bijection(1..size[p], Below(R, p))
  <2>1. Below(R, p) \in SUBSET Plugins
    BY DEF Below
  <2>2. IsFiniteSet(Below(R, p))
    BY <2>1, PluginsAreFinite
  <2>3. \E b : b \in Bijection(1..size[p], Below(R, p))
    BY <2>2, FS_CardinalityType DEF ExistsBijection
  <2> QED
    BY <2>3
<1> HIDE DEF one, size
<1>3. ASSUME NEW c \in Cells(value)
      PROVE  c[1] \in Plugins /\ c[2] \in Nat /\ c = <<c[1], c[2]>> /\ c[2] + 1 \in 1..size[c[1]]
  <2>1. c[1] \in Plugins /\ c[2] \in Nat /\ c = <<c[1], c[2]>> /\ c[2] < value[c[1]]
    BY DEF Cells
  <2> QED
    BY <1>1, <2>1
<1>4. ASSUME NEW c \in Cells(value)
      PROVE  f[c] \in R
  <2>1. one[c[1]][c[2] + 1] \in Below(R, c[1])
    BY <1>2, <1>3 DEF Bijection, Injection
  <2> QED
    BY <2>1 DEF Below
<1>5. ASSUME NEW c \in Cells(value), NEW d \in Cells(value), f[c] = f[d]
      PROVE  c = d
  <2>1. c[1] = d[1] /\ one[c[1]][c[2] + 1] = one[c[1]][d[2] + 1]
    BY <1>5
  <2>2. c[2] + 1 = d[2] + 1
    <3>1. one[c[1]] \in Bijection(1..size[c[1]], Below(R, c[1]))
      BY <1>2, <1>3
    <3>2. \A a, b \in 1..size[c[1]] : one[c[1]][a] = one[c[1]][b] => a = b
      BY <3>1 DEF Bijection, Injection, IsInjective
    <3>3. c[2] + 1 \in 1..size[c[1]] /\ d[2] + 1 \in 1..size[c[1]]
      BY <1>3, <2>1
    <3> QED
      BY <2>1, <3>2, <3>3
  <2>3. c[2] = d[2]
    <3>1. c[2] \in Nat /\ d[2] \in Nat
      BY <1>3
    <3> QED
      BY <2>2, <3>1
  <2> QED
    BY <1>3, <2>1, <2>3
<1>6. f \in Injection(Cells(value), R)
  <2>1. f \in [Cells(value) -> R]
    BY <1>4
  <2>2. IsInjective(f)
    BY <1>5 DEF IsInjective
  <2> QED
    BY <2>1, <2>2 DEF Injection
<1>7. IsFiniteSet(R)
  BY OrderIsFinite
<1> HIDE DEF f
<1> QED
  BY <1>6, <1>7, FS_Injection, FS_CardinalityType

(* A pass over demands that are not met stays within the order and adds a    *)
(* cell, so their number grows.                                              *)
LEMMA PassAddsACell ==
    ASSUME NEW demands \in Demands, NEW R \in Orders(demands), NEW value \in Values,
           Within(R, value), Unmet(demands, value) # {}
    PROVE  /\ Within(R, Pass(demands, value))
           /\ Cardinality(Cells(value)) + 1 <= Cardinality(Cells(Pass(demands, value)))
<1>1. PICK i \in DOMAIN demands :
          /\ demands[i] \in Pairs
          /\ value[demands[i][1]] <= value[demands[i][2]]
          /\ Pass(demands, value) = [value EXCEPT ![demands[i][1]] = value[demands[i][2]] + 1]
  BY PassRaises
<1>2. PICK p \in Plugins : p = demands[i][1]
  BY <1>1 DEF Pairs
<1>3. PICK q \in Plugins : q = demands[i][2]
  BY <1>1 DEF Pairs
<1>4. PICK next \in Values : next = Pass(demands, value)
  BY PassRaises
<1>5. next = [value EXCEPT ![p] = value[q] + 1] /\ value[p] <= value[q] /\ <<p, q>> \in R
  <2>1. demands[i] \in R
    BY DEF Orders
  <2>2. demands[i] = <<p, q>>
    BY <1>1, <1>2, <1>3 DEF Pairs
  <2> QED
    BY <1>1, <1>2, <1>3, <1>4, <2>1, <2>2
<1>6. /\ \A o \in Plugins : value[o] \in Nat /\ next[o] \in Nat
      /\ next[p] = value[q] + 1
      /\ \A o \in Plugins : o # p => next[o] = value[o]
  BY <1>5 DEF Values
<1>7. Within(R, next)
  <2>1. Cardinality(Below(R, q)) + 1 <= Cardinality(Below(R, p))
    BY <1>5, MoreBelow
  <2>2. ASSUME NEW o \in Plugins
        PROVE  Cardinality(Below(R, o)) \in Nat
    <3>1. Below(R, o) \in SUBSET Plugins
      BY DEF Below
    <3> QED
      BY <3>1, PluginsAreFinite
  <2>3. value[q] <= Cardinality(Below(R, q))
    BY DEF Within
  <2>4. next[p] <= Cardinality(Below(R, p))
    BY <1>6, <2>1, <2>2, <2>3
  <2> QED
    BY <1>6, <2>4 DEF Within
<1>8. Cells(value) \subseteq Cells(next)
  <2>1. \A o \in Plugins : value[o] <= next[o]
    BY <1>5, <1>6
  <2>2. ASSUME NEW c \in Cells(value)
        PROVE  c \in Cells(next)
    <3>1. c \in Plugins \X Nat /\ c[1] \in Plugins /\ c[2] \in Nat /\ c[2] < value[c[1]]
      BY DEF Cells
    <3>2. c[2] < next[c[1]]
      BY <1>6, <2>1, <3>1
    <3> QED
      BY <3>1, <3>2 DEF Cells
  <2> QED
    BY <2>2
<1>9. <<p, value[p]>> \in Cells(next) /\ <<p, value[p]>> \notin Cells(value)
  <2>1. value[p] < next[p] /\ ~(value[p] < value[p])
    BY <1>5, <1>6
  <2> QED
    BY <1>6, <2>1 DEF Cells
<1>10. /\ IsFiniteSet(Cells(next)) /\ Cardinality(Cells(next)) \in Nat
       /\ Cardinality(Cells(value)) \in Nat
  BY <1>7, CellsWithin
<1>11. /\ Cardinality(Cells(value)) <= Cardinality(Cells(next))
       /\ Cardinality(Cells(value)) # Cardinality(Cells(next))
  BY <1>8, <1>9, <1>10, FS_Subset
<1>12. Cardinality(Cells(value)) + 1 <= Cardinality(Cells(next))
  BY <1>10, <1>11
<1> QED
  BY <1>4, <1>7, <1>12

(* Each pass that is not the last adds a cell, and there are no more cells   *)
(* than the order has pairs: so the loop ends in as many passes, and one.    *)
LEMMA LoopEnds ==
    ASSUME NEW demands \in Demands, NEW R \in Orders(demands), NEW spent \in 0..MaxPasses,
           spent + Cardinality(R) + 1 <= MaxPasses
    PROVE  /\ ~Loop(demands, spent).stuck
           /\ Loop(demands, spent).spent <= spent + Cardinality(R) + 1
<1> DEFINE K == MaxPasses - spent
           f == Passes(demands, spent)
           clean == {n \in 1..K : Unmet(demands, f[n - 1]) = {}}
           last == CHOOSE n \in clean : \A k \in clean : n <= k
           most == Cardinality(R)
           Dirty(n) == \A m \in 0..(n - 1) : Unmet(demands, f[m]) # {}
           T == {n \in 0..K : Within(R, f[n]) /\ (Dirty(n) => n <= Cardinality(Cells(f[n])))}
<1>1. /\ f \in [0..K -> Values] /\ f[0] = [p \in Plugins |-> 0]
      /\ \A n \in 1..K : f[n] = Pass(demands, f[n - 1])
  BY PassesAreDefined
<1>2. Within(R, f[0])
  <2>1. ASSUME NEW o \in Plugins
        PROVE  Cardinality(Below(R, o)) \in Nat
    <3>1. Below(R, o) \in SUBSET Plugins
      BY DEF Below
    <3> QED
      BY <3>1, PluginsAreFinite
  <2> QED
    BY <1>1, <2>1 DEF Within
<1>3. 0 \in 0..K /\ K \in Nat /\ spent \in Nat /\ MaxPasses \in Nat /\ K = MaxPasses - spent
  BY OrderAssumption DEF OrderAssumption
<1>4. f[0] \in Values
  BY <1>1, <1>3
<1>5. most \in Nat
  BY OrderIsFinite
<1>6. most + 1 \in 1..K /\ most + 1 \in 0..K
  BY <1>3, <1>5
<1>7. Loop(demands, spent)
        = IF clean = {} THEN [stuck |-> TRUE]
          ELSE [stuck |-> FALSE, value |-> f[last], spent |-> spent + last]
  BY LoopPasses
<1> HIDE DEF K, f, most
<1>8. 0 \in T
  <2>1. 0 <= Cardinality(Cells(f[0]))
    BY <1>2, <1>4, CellsWithin
  <2> QED
    BY <1>2, <1>3, <2>1
<1>9. ASSUME NEW n \in 1..K, n - 1 \in T
      PROVE  n \in T
  <2>1. n \in 0..K /\ n - 1 \in 0..K /\ n \in Nat /\ n - 1 \in 0..(n - 1)
    BY <1>3
  <2>2. PICK value \in Values : value = f[n - 1]
    BY <1>1, <2>1
  <2>3. f[n] = Pass(demands, value) /\ f[n] \in Values /\ Within(R, value)
    BY <1>1, <1>9, <2>1, <2>2
  <2>4. CASE Unmet(demands, value) = {}
    <3>1. Within(R, f[n])
      BY <2>3, <2>4, PassRaises
    <3>2. ~Dirty(n)
      BY <2>1, <2>2, <2>4
    <3> QED
      BY <2>1, <3>1, <3>2
  <2>5. CASE Unmet(demands, value) # {}
    <3>1. /\ Within(R, f[n])
          /\ Cardinality(Cells(value)) + 1 <= Cardinality(Cells(f[n]))
      BY <2>3, <2>5, PassAddsACell
    <3>2. ASSUME Dirty(n)
          PROVE  Dirty(n - 1)
      <4>1. \A m \in 0..((n - 1) - 1) : m \in 0..(n - 1)
        BY <2>1
      <4> QED
        BY <3>2, <4>1
    <3>3. Cardinality(Cells(value)) \in Nat /\ Cardinality(Cells(f[n])) \in Nat
      BY <2>3, <3>1, CellsWithin
    <3>4. Dirty(n - 1) => n - 1 <= Cardinality(Cells(value))
      BY <1>9, <2>2
    <3> HIDE DEF Dirty
    <3>5. Dirty(n) => n <= Cardinality(Cells(f[n]))
      BY <2>1, <3>1, <3>2, <3>3, <3>4
    <3> QED
      BY <2>1, <3>1, <3>5
  <2> QED
    BY <2>4, <2>5
<1>10. most + 1 \in T
  <2> HIDE DEF T
  <2> QED
    BY <1>3, <1>6, <1>8, <1>9, UpTo
<1>11. ~Dirty(most + 1)
  <2>1. Within(R, f[most + 1]) /\ f[most + 1] \in Values
    BY <1>1, <1>6, <1>10
  <2>2. Cardinality(Cells(f[most + 1])) <= most /\ Cardinality(Cells(f[most + 1])) \in Nat
    BY <2>1, CellsWithin DEF most
  <2>3. ~(most + 1 <= Cardinality(Cells(f[most + 1])))
    BY <1>5, <2>2
  <2> QED
    BY <1>10, <2>3
<1>12. PICK m \in 0..most : Unmet(demands, f[m]) = {}
  BY <1>5, <1>11
<1>13. m + 1 \in clean /\ m + 1 <= most + 1
  <2>1. m + 1 \in 1..K /\ (m + 1) - 1 = m /\ m + 1 <= most + 1
    BY <1>3, <1>5, <1>6
  <2> QED
    BY <1>12, <2>1
<1>14. last \in clean /\ \A k \in clean : last <= k
  <2> HIDE DEF clean
  <2> SUFFICES \E n \in clean : \A k \in clean : n <= k
    OBVIOUS
  <2>1. clean \in SUBSET Nat
    BY DEF clean
  <2> QED
    BY <1>13, <2>1, LeastOne
<1>15. last \in Nat /\ last <= most + 1
  <2>1. last \in 1..K
    BY <1>14
  <2>2. last <= m + 1 /\ m + 1 <= most + 1
    BY <1>13, <1>14
  <2>3. m \in Nat
    BY <1>5
  <2> HIDE DEF last
  <2> QED
    BY <1>3, <1>5, <2>1, <2>2, <2>3
<1>16. spent + last <= spent + most + 1
  <2> HIDE DEF last
  <2> QED
    BY <1>3, <1>5, <1>15
<1>17. Loop(demands, spent) = [stuck |-> FALSE, value |-> f[last], spent |-> spent + last]
  BY <1>7, <1>13
<1> HIDE DEF last
<1> QED
  BY <1>16, <1>17 DEF most

(* ---- What Arrange() gives ---- *)

(* Places that meet the demands give a list in which the rules are kept.     *)
LEMMA PlacesMeet ==
    ASSUME NEW r \in Rules, NEW on \in SUBSET Plugins, NEW place \in Values,
           Unmet(PlaceDemands(r, on), place) = {}
    PROVE  /\ \A i \in DOMAIN r.after : r.after[i][2] \in on
                  => IsBefore(Sort(place), r.after[i][2], r.after[i][1])
           /\ \A i \in DOMAIN r.before : r.before[i][2] \in on
                  => IsBefore(Sort(place), r.before[i][1], r.before[i][2])
<1> DEFINE demands == PlaceDemands(r, on)
           n == Len(r.after)
<1>1. r.after \in Seq(Pairs) /\ r.before \in Seq(Pairs)
  BY DEF Rules
<1>2. /\ n \in Nat /\ DOMAIN r.after = 1..n /\ DOMAIN r.before = 1..Len(r.before)
      /\ Len(r.before) \in Nat
  BY <1>1, LenProperties
<1>3. /\ \A i \in DOMAIN r.after : r.after[i] \in Pairs
      /\ \A i \in DOMAIN r.before : r.before[i] \in Pairs
  BY <1>1, <1>2, ElementOfSeq
<1>4. \A i \in DOMAIN demands : ~(place[demands[i][1]] <= place[demands[i][2]])
  BY DEF Unmet
<1>5. ASSUME NEW i \in DOMAIN r.after, r.after[i][2] \in on
      PROVE  IsBefore(Sort(place), r.after[i][2], r.after[i][1])
  <2>1. i \in DOMAIN AboutEnabled(r.after, on) /\ AboutEnabled(r.after, on)[i] = r.after[i]
    BY <1>5 DEF AboutEnabled
  <2>2. i <= n
    BY <1>2, <1>5
  <2>3. i \in DOMAIN demands /\ demands[i] = r.after[i]
    BY <2>1, <2>2 DEF PlaceDemands
  <2>4. PICK p \in Plugins, q \in Plugins : p = r.after[i][1] /\ q = r.after[i][2]
    BY <1>3 DEF Pairs
  <2>5. ~(place[p] <= place[q])
    BY <1>4, <2>3, <2>4
  <2>6. place[q] < place[p]
    BY <2>5 DEF Values
  <2> QED
    BY <2>4, <2>6, SortKeepsPlaces
<1>6. ASSUME NEW k \in DOMAIN r.before, r.before[k][2] \in on
      PROVE  IsBefore(Sort(place), r.before[k][1], r.before[k][2])
  <2>1. ~(n + k <= n) /\ (n + k) - n = k
    BY <1>2
  <2>2. k \in DOMAIN AboutEnabled(r.before, on) /\ AboutEnabled(r.before, on)[k] = r.before[k]
    BY <1>6 DEF AboutEnabled
  <2>3. /\ n + k \in DOMAIN demands
        /\ demands[n + k] = <<r.before[k][2], r.before[k][1]>>
    BY <2>1, <2>2 DEF PlaceDemands
  <2>4. PICK p \in Plugins, q \in Plugins : p = r.before[k][1] /\ q = r.before[k][2]
    BY <1>3 DEF Pairs
  <2>5. ~(place[q] <= place[p])
    BY <1>4, <2>3, <2>4
  <2>6. place[p] < place[q]
    BY <2>5 DEF Values
  <2> QED
    BY <2>4, <2>6, SortKeepsPlaces
<1> QED
  BY <1>5, <1>6

(* Priorities that meet the demands are greater for who is better.           *)
LEMMA PrioritiesMeet ==
    ASSUME NEW r \in Rules, NEW on \in SUBSET Plugins, NEW level \in Values,
           Unmet(PriorityDemands(r, on), level) = {}
    PROVE  \A i \in DOMAIN r.better : r.better[i][2] \in on
                  => level[r.better[i][1]] > level[r.better[i][2]]
<1> SUFFICES ASSUME NEW i \in DOMAIN r.better, r.better[i][2] \in on
             PROVE  level[r.better[i][1]] > level[r.better[i][2]]
  OBVIOUS
<1>1. r.better[i] \in Pairs
  <2>1. r.better \in Seq(Pairs)
    BY DEF Rules
  <2> QED
    BY <2>1, LenProperties, ElementOfSeq
<1>2. PICK p \in Plugins, q \in Plugins : p = r.better[i][1] /\ q = r.better[i][2]
  BY <1>1 DEF Pairs
<1>3. ~(level[p] <= level[q])
  BY <1>2 DEF Unmet, PriorityDemands, AboutEnabled
<1> QED
  BY <1>2, <1>3 DEF Values

\* What r and the plugins "on" that were enabled at first are arranged to.
Arrangement(r, on, a) ==
    /\ a.enabled \in SUBSET on
    /\ a.list \in [Plugins -> Plugins] /\ a.priority \in Values
    /\ \A i \in DOMAIN r.after : r.after[i][2] \in on
           => IsBefore(a.list, r.after[i][2], r.after[i][1])
    /\ \A i \in DOMAIN r.before : r.before[i][2] \in on
           => IsBefore(a.list, r.before[i][1], r.before[i][2])
    /\ \A i \in DOMAIN r.better : r.better[i][2] \in a.enabled
           => a.priority[r.better[i][1]] > a.priority[r.better[i][2]]
    /\ \A i \in DOMAIN r.conflicts :
           ~(r.conflicts[i][1] \in a.enabled /\ r.conflicts[i][2] \in a.enabled)
    /\ Satisfiable(PlaceDemands(r, on))
    /\ Satisfiable(PriorityDemands(r, Resolve(r.conflicts, on)))

(* Rules that were arranged are kept, and could be.                          *)
LEMMA ArrangeIsRight ==
    ASSUME NEW r \in Rules, NEW on \in SUBSET Plugins, ~Arrange(r, on).stuck
    PROVE  Arrangement(r, on, Arrange(r, on))
<1> DEFINE place == Loop(PlaceDemands(r, on), 0)
           left == Resolve(r.conflicts, on)
           level == Loop(PriorityDemands(r, left), place.spent)
<1>1. Arrange(r, on)
        = IF place.stuck \/ level.stuck THEN [stuck |-> TRUE]
          ELSE [stuck |-> FALSE, enabled |-> left, list |-> Sort(place.value),
                priority |-> level.value]
  BY DEF Arrange
<1>2. /\ PlaceDemands(r, on) \in Demands
      /\ PriorityDemands(r, left) \in Demands
      /\ r.conflicts \in Seq(Pairs)
  BY DemandsOfRules DEF Rules
<1>3. 0 \in 0..MaxPasses
  BY OrderAssumption DEF OrderAssumption
<1>4. ~place.stuck /\ ~level.stuck
  <2> HIDE DEF place, level
  <2> QED
    BY <1>1
<1>5. /\ place.value \in Values /\ place.spent \in 0..MaxPasses
      /\ Unmet(PlaceDemands(r, on), place.value) = {}
  BY <1>2, <1>3, <1>4, LoopIsRight
<1>6. /\ level.value \in Values
      /\ Unmet(PriorityDemands(r, left), level.value) = {}
  BY <1>2, <1>4, <1>5, LoopIsRight
<1>7. /\ left \in SUBSET on
      /\ \A i \in DOMAIN r.conflicts :
            ~(r.conflicts[i][1] \in left /\ r.conflicts[i][2] \in left)
  BY <1>2, ResolveIsRight
<1>8. Satisfiable(PlaceDemands(r, on)) /\ Satisfiable(PriorityDemands(r, left))
  BY <1>2, <1>5, <1>6, MetIsSatisfiable
<1>9. \A i \in DOMAIN r.better : r.better[i][2] \in left
          => level.value[r.better[i][1]] > level.value[r.better[i][2]]
  BY <1>6, <1>7, PrioritiesMeet
<1>10. Sort(place.value) \in [Plugins -> Plugins]
  BY <1>5, SortIsRight
<1>11. /\ \A i \in DOMAIN r.after : r.after[i][2] \in on
              => IsBefore(Sort(place.value), r.after[i][2], r.after[i][1])
       /\ \A i \in DOMAIN r.before : r.before[i][2] \in on
              => IsBefore(Sort(place.value), r.before[i][1], r.before[i][2])
  BY <1>5, PlacesMeet
<1> HIDE DEF place, level
<1>12. Arrange(r, on) = [stuck |-> FALSE, enabled |-> left, list |-> Sort(place.value),
                         priority |-> level.value]
  BY <1>1, <1>4
<1> QED
  BY <1>6, <1>7, <1>8, <1>9, <1>10, <1>11, <1>12 DEF Arrangement

(* Rules that two orders keep are arranged, if the passes are as many as the *)
(* orders have pairs, and two.                                               *)
LEMMA ArrangeIsNotStuck ==
    ASSUME NEW r \in Rules, NEW on \in SUBSET Plugins,
           NEW R \in Orders(PlaceDemands(r, on)),
           NEW S \in Orders(PriorityDemands(r, Resolve(r.conflicts, on))),
           Cardinality(R) + Cardinality(S) + 2 <= MaxPasses
    PROVE  ~Arrange(r, on).stuck
<1> DEFINE place == Loop(PlaceDemands(r, on), 0)
           left == Resolve(r.conflicts, on)
           level == Loop(PriorityDemands(r, left), place.spent)
<1>1. Arrange(r, on)
        = IF place.stuck \/ level.stuck THEN [stuck |-> TRUE]
          ELSE [stuck |-> FALSE, enabled |-> left, list |-> Sort(place.value),
                priority |-> level.value]
  BY DEF Arrange
<1>2. /\ PlaceDemands(r, on) \in Demands
      /\ PriorityDemands(r, left) \in Demands
  BY DemandsOfRules
<1>3. 0 \in 0..MaxPasses /\ MaxPasses \in Nat
  BY OrderAssumption DEF OrderAssumption
<1>4. Cardinality(R) \in Nat /\ Cardinality(S) \in Nat
  BY OrderIsFinite
<1>5. ~place.stuck /\ place.spent <= 0 + Cardinality(R) + 1
  <2>1. 0 + Cardinality(R) + 1 <= MaxPasses
    BY <1>3, <1>4
  <2> QED
    BY <1>2, <1>3, <2>1, LoopEnds
<1>6. place.spent \in 0..MaxPasses
  BY <1>2, <1>3, <1>5, LoopIsRight
<1>7. ~level.stuck
  <2> HIDE DEF place
  <2>1. place.spent + Cardinality(S) + 1 <= MaxPasses
    BY <1>3, <1>4, <1>5, <1>6
  <2> QED
    BY <1>2, <1>6, <2>1, LoopEnds
<1> HIDE DEF place, level
<1> QED
  BY <1>1, <1>5, <1>7

(* ---- The invariant ---- *)

\* As long as the plugins are arranged, their rules are kept, and were such as
\* some order can keep.
RulesKept ==
    /\ OrderKeepsRules /\ NoConflict
    /\ Arranged => /\ Satisfiable(PlaceDemands(rules, offered))
                   /\ Satisfiable(PriorityDemands(rules, Resolve(rules.conflicts, offered)))
OrderInv == TypeOK /\ RulesKept

(* No plugin is there initially.                                             *)
LEMMA OrderInit == Init => OrderInv
<1> SUFFICES ASSUME Init PROVE OrderInv
  OBVIOUS
<1>1. ~Arranged
  BY DEF Init, Arranged
<1>2. TypeOK
  <2>1. rules \in Rules
    BY DEF Init, NoRules, Rules
  <2>2. list \in [Plugins -> Plugins] /\ priority \in [Plugins -> Nat]
    BY DEF Init, ByName, NoPriority
  <2>3. rounds \in 0..MaxRounds
    BY SetupAssumption DEF Init, SetupAssumption
  <2> QED
    BY <2>1, <2>2, <2>3 DEF Init, TypeOK, Stages, JobStates
<1> QED
  BY <1>1, <1>2 DEF OrderInv, RulesKept, OrderKeepsRules, NoConflict

(* finish_setup_get_bus(): what the rules were arranged to is kept.          *)
LEMMA OpenPluginsOrders ==
    ASSUME TypeOK, OpenPlugins, stage' \in Stages
    PROVE  /\ RulesKept'
           /\ rules' \in Rules /\ offered' \subseteq Plugins /\ enabled' \subseteq offered'
           /\ list' \in [Plugins -> Plugins] /\ priority' \in [Plugins -> Nat]
           /\ settingUp' \subseteq SetsUp /\ workers' \subseteq HasWorker /\ pending' \in Nat
<1>1. PICK opening \in Openings :
          /\ rules' = opening.rules /\ offered' = opening.offered
          /\ IF opening.result.stuck
             THEN /\ stage' = "stuck" /\ enabled' = offered'
                  /\ UNCHANGED <<list, priority, settingUp, workers, pending>>
             ELSE /\ enabled' = opening.result.enabled
                  /\ list' = opening.result.list /\ priority' = opening.result.priority
                  /\ settingUp' = opening.result.enabled \intersect SetsUp
                  /\ workers' = workers \union (settingUp' \intersect HasWorker)
                  /\ SetUp(settingUp')
  BY DEF OpenPlugins
<1>2. PICK r \in RuleSets, on \in SUBSET Plugins :
          opening.rules = r /\ opening.offered = on /\ opening.result = Arrange(r, on)
  BY DEF Openings
<1>3. r \in Rules
  BY SetupAssumption DEF SetupAssumption
<1>4. CASE opening.result.stuck
  <2>1. ~Arranged'
    BY <1>1, <1>4 DEF Arranged
  <2>2. RulesKept'
    BY <2>1 DEF RulesKept, OrderKeepsRules, NoConflict
  <2> QED
    BY <1>1, <1>2, <1>3, <1>4, <2>2 DEF TypeOK
<1>5. CASE ~opening.result.stuck
  <2>1. PICK a : a = Arrange(r, on)
    OBVIOUS
  <2>2. Arrangement(r, on, a)
    BY <1>2, <1>3, <1>5, <2>1, ArrangeIsRight
  <2>3. /\ rules' = r /\ offered' = on /\ enabled' = a.enabled
        /\ list' = a.list /\ priority' = a.priority
        /\ settingUp' = a.enabled \intersect SetsUp
        /\ workers' = workers \union (settingUp' \intersect HasWorker)
        /\ SetUp(settingUp')
    BY <1>1, <1>2, <1>5, <2>1
  <2>4. OrderKeepsRules'
    BY <2>2, <2>3 DEF Arrangement, OrderKeepsRules
  <2>5. NoConflict'
    BY <2>2, <2>3 DEF Arrangement, NoConflict
  <2>6. RulesKept'
    BY <2>2, <2>3, <2>4, <2>5 DEF Arrangement, RulesKept
  <2>7. settingUp' \in SUBSET Plugins /\ settingUp' \subseteq SetsUp
    BY <2>2, <2>3, SetupAssumption DEF Arrangement, SetupAssumption
  <2>8. pending' \in Nat
    BY <2>3, <2>7, PluginsAreFinite DEF SetUp
  <2>9. workers' \subseteq HasWorker
    BY <2>3 DEF TypeOK
  <2> QED
    BY <1>3, <2>2, <2>3, <2>6, <2>7, <2>8, <2>9 DEF Arrangement, Values
<1> QED
  BY <1>4, <1>5

(* A plugin that is disabled later breaks no rule.                           *)
LEMMA FewerAreKept ==
    ASSUME RulesKept, UNCHANGED <<rules, offered, list, priority>>, enabled' \subseteq enabled,
           Arranged' => Arranged
    PROVE  RulesKept'
<1>1. OrderKeepsRules'
  BY DEF RulesKept, OrderKeepsRules
<1>2. NoConflict'
  BY DEF RulesKept, NoConflict
<1> QED
  BY <1>1, <1>2 DEF RulesKept

(* The setup goes on when both buses are there.                              *)
LEMMA FinishGetBusOrders ==
    ASSUME Inv, Inv', TypeOK, RulesKept, stage \in {"down", "buses"},
           NEW buses, FinishGetBus(buses)
    PROVE  /\ RulesKept'
           /\ rules' \in Rules /\ offered' \subseteq Plugins /\ enabled' \subseteq offered'
           /\ list' \in [Plugins -> Plugins] /\ priority' \in [Plugins -> Nat]
           /\ settingUp' \subseteq SetsUp /\ workers' \subseteq HasWorker /\ pending' \in Nat
<1>1. CASE OpenPlugins
  BY <1>1, OpenPluginsOrders DEF Inv
<1>2. CASE /\ stage' \in {"failed", "buses"}
           /\ UNCHANGED <<pluginVars, settingUp, workers, pending>>
  <2>1. UNCHANGED <<rules, offered, enabled, list, priority, settingUp, workers, pending>>
    BY <1>2 DEF pluginVars
  <2>2. ~Arranged'
    BY <1>2 DEF Arranged
  <2>3. RulesKept'
    BY <2>2 DEF RulesKept, OrderKeepsRules, NoConflict
  <2> QED
    BY <2>1, <2>3 DEF TypeOK
<1> QED
  BY <1>1, <1>2 DEF FinishGetBus, CannotOpen

(* Every step keeps the order.                                               *)
LEMMA OrderNext ==
    ASSUME Inv, Inv', OrderInv, [Next]_vars
    PROVE  OrderInv'
<1> USE DEF OrderInv
<1>1. /\ stage' \in Stages /\ complete' \in BOOLEAN /\ job' \in [AllJobs -> JobStates]
      /\ CountInv /\ CountInv'
  BY DEF Inv
<1>2. CASE SetupAsync
  <2>1. FinishGetBus(bus') /\ stage = "down"
    BY <1>2 DEF SetupAsync
  <2>2. bus' \in [Buses -> {"missing", "asked", "there"}]
    BY <1>2 DEF SetupAsync, TypeOK
  <2>3. rounds' \in 0..MaxRounds /\ stopping' = stopping
    BY <1>2, SetupAssumption DEF SetupAsync, TypeOK, SetupAssumption
  <2> QED
    BY <1>1, <2>1, <2>2, <2>3, FinishGetBusOrders DEF TypeOK
<1>3. ASSUME NEW b \in Buses, GetBus(b)
      PROVE  OrderInv'
  <2>1. CASE bus' = [bus EXCEPT ![b] = "there"] /\ FinishGetBus(bus')
    <3>1. bus' \in [Buses -> {"missing", "asked", "there"}]
      BY <2>1 DEF TypeOK
    <3>2. UNCHANGED <<stopping, rounds>> /\ stage = "buses"
      BY <1>3 DEF GetBus
    <3> QED
      BY <1>1, <2>1, <3>1, <3>2, FinishGetBusOrders DEF TypeOK
  <2>2. CASE /\ stage' = "failed"
             /\ UNCHANGED <<bus, pluginVars, settingUp, workers, pending, complete, job>>
    <3>1. UNCHANGED <<bus, rules, offered, enabled, list, priority, settingUp, workers, pending, stopping, rounds>>
      BY <1>3, <2>2 DEF GetBus, pluginVars
    <3>2. RulesKept'
      BY <2>2, <3>1, FewerAreKept DEF Arranged
    <3> QED
      BY <1>1, <3>1, <3>2 DEF TypeOK
  <2> QED
    BY <1>3, <2>1, <2>2 DEF GetBus
<1>4. ASSUME NEW p \in Plugins, PluginSetupCb(p)
      PROVE  OrderInv'
  <2>1. stage = "plugins" /\ pending = Cardinality(settingUp)
    BY <1>1, <1>4 DEF PluginSetupCb, CountInv
  <2>2. /\ UNCHANGED <<bus, rules, offered, list, priority, stopping, workers, rounds>>
        /\ enabled' \subseteq enabled /\ settingUp' \subseteq settingUp
    BY <1>4 DEF PluginSetupCb
  <2>3. pending' \in Nat
    <3>1. settingUp \in SUBSET Plugins /\ p \in settingUp
      BY <1>4 DEF Inv, PluginSetupCb
    <3>2. pending' = Cardinality(settingUp \ {p})
      BY <1>4, <2>1, <3>1, OneLess DEF PluginSetupCb
    <3> QED
      BY <3>1, <3>2, PluginsAreFinite
  <2>4. RulesKept'
    BY <2>1, <2>2, FewerAreKept DEF Arranged
  <2> QED
    BY <1>1, <2>2, <2>3, <2>4 DEF TypeOK
<1>5. ASSUME NEW p \in Plugins, PluginShutdownCb(p)
      PROVE  OrderInv'
  <2>1. /\ UNCHANGED <<stage, bus, rules, offered, list, priority, settingUp, rounds>>
        /\ enabled' \subseteq enabled /\ stopping' \subseteq stopping
        /\ workers' \subseteq workers
    BY <1>5 DEF PluginShutdownCb
  <2>2. pending' \in Nat
    BY <1>5 DEF PluginShutdownCb, TypeOK
  <2>3. RulesKept'
    BY <2>1, FewerAreKept DEF Arranged
  <2> QED
    BY <1>1, <2>1, <2>2, <2>3 DEF TypeOK
<1>6. ASSUME UNCHANGED <<bus, rules, offered, enabled, list, priority, settingUp, stopping, workers,
                         pending, rounds>>,
             Arranged' => Arranged
      PROVE  OrderInv'
  <2>1. RulesKept'
    BY <1>6, FewerAreKept
  <2> QED
    BY <1>1, <1>6, <2>1 DEF TypeOK
<1>7. ASSUME NEW j, ProcessAsync(j) \/ JobProcessCb(j) \/ JobEnds(j)
      PROVE  OrderInv'
  BY <1>6, <1>7 DEF ProcessAsync, JobProcessCb, JobEnds, pluginVars, Arranged
<1>8. CASE RefineEnds
  BY <1>6, <1>8 DEF RefineEnds, pluginVars, Arranged
<1>9. CASE Shutdown
  <2>1. /\ UNCHANGED <<bus, rules, offered, enabled, list, priority, settingUp, workers, rounds>>
        /\ Arranged /\ stopping' \subseteq ShutsDown
    BY <1>9 DEF Shutdown, pluginVars, Arranged
  <2>2. pending' \in Nat
    <3>1. stopping' \in SUBSET Plugins
      BY <2>1, SetupAssumption DEF SetupAssumption
    <3> QED
      BY <1>9, <3>1, PluginsAreFinite DEF Shutdown, ShutDown
  <2>3. RulesKept'
    BY <2>1, FewerAreKept
  <2> QED
    BY <1>1, <2>1, <2>2, <2>3 DEF TypeOK
<1>10. CASE RemoveAllPlugins
  <2>1. ~Arranged'
    BY <1>10 DEF RemoveAllPlugins, Arranged
  <2>2. RulesKept'
    BY <2>1 DEF RulesKept, OrderKeepsRules, NoConflict
  <2>3. rules' \in Rules
    BY <1>10 DEF RemoveAllPlugins, NoRules, Rules
  <2>4. list' \in [Plugins -> Plugins] /\ priority' \in [Plugins -> Nat]
    BY <1>10 DEF RemoveAllPlugins, ByName, NoPriority
  <2>5. /\ UNCHANGED <<bus, settingUp, stopping, workers, pending, rounds>>
        /\ offered' = {} /\ enabled' = {}
    BY <1>10 DEF RemoveAllPlugins
  <2> QED
    BY <1>1, <2>2, <2>3, <2>4, <2>5 DEF TypeOK
<1>11. CASE UNCHANGED vars
  BY <1>6, <1>11 DEF vars, pluginVars, Arranged
<1> QED
  BY <1>2, <1>3, <1>4, <1>5, <1>7, <1>8, <1>9, <1>10, <1>11 DEF Next

(* The plugins are called in an order that keeps their rules, each with a    *)
(* greater priority than those it is better than and none with one it is in  *)
(* conflict with, for any number of plugins and any rules.                   *)
THEOREM RulesAreKept == SafeSpec => [](OrderKeepsRules /\ NoConflict)
<1>1. Inv /\ OrderInv => OrderKeepsRules /\ NoConflict
  BY DEF OrderInv, RulesKept
<1> QED
  BY <1>1, InitInv, NextInv, OrderInit, OrderNext, PTL DEF SafeSpec

(* When the loops give up, no order keeps the rules.                         *)
StuckInv ==
    stage = "stuck" => ~ /\ Satisfiable(PlaceDemands(rules, offered))
                         /\ Satisfiable(PriorityDemands(rules, Resolve(rules.conflicts, offered)))

(* The setup is stuck only with rules that the loops gave up on.             *)
LEMMA StuckNext ==
    ASSUME EnoughPasses, Inv, Inv', StuckInv, [Next]_vars
    PROVE  StuckInv'
<1>1. CASE OpenPlugins /\ stage' = "stuck"
  <2>1. PICK opening \in Openings :
            /\ rules' = opening.rules /\ offered' = opening.offered
            /\ IF opening.result.stuck THEN stage' = "stuck" ELSE FinishSetupOp(pending')
    BY <1>1 DEF OpenPlugins, SetUp
  <2>2. PICK r \in RuleSets, on \in SUBSET Plugins :
            opening.rules = r /\ opening.offered = on /\ opening.result = Arrange(r, on)
    BY DEF Openings
  <2>3. r \in Rules
    BY SetupAssumption DEF SetupAssumption
  <2>4. Arrange(r, on).stuck
    BY <1>1, <2>1, <2>2 DEF FinishSetupOp
  <2>5. ASSUME Satisfiable(PlaceDemands(r, on)),
               Satisfiable(PriorityDemands(r, Resolve(r.conflicts, on)))
        PROVE  FALSE
    <3>1. PICK R \in Orders(PlaceDemands(r, on)),
               S \in Orders(PriorityDemands(r, Resolve(r.conflicts, on))) :
              Cardinality(R) + Cardinality(S) + 2 <= MaxPasses
      BY <2>5 DEF EnoughPasses
    <3> QED
      BY <2>3, <2>4, <3>1, ArrangeIsNotStuck
  <2> QED
    BY <2>1, <2>2, <2>5 DEF StuckInv
<1>2. CASE stage' = "stuck" /\ stage = "stuck" /\ UNCHANGED <<rules, offered>>
  BY <1>2 DEF StuckInv
<1>3. CASE stage' # "stuck"
  BY <1>3 DEF StuckInv
<1>4. ASSUME stage' = "stuck"
      PROVE  OpenPlugins \/ (stage = "stuck" /\ UNCHANGED <<rules, offered>>)
  <2>1. ASSUME NEW buses, FinishGetBus(buses)
        PROVE  OpenPlugins
    BY <1>4, <2>1 DEF FinishGetBus, CannotOpen
  <2>2. CASE SetupAsync
    BY <2>1, <2>2 DEF SetupAsync
  <2>3. ASSUME NEW b \in Buses, GetBus(b)
        PROVE  OpenPlugins
    BY <1>4, <2>1, <2>3 DEF GetBus
  <2>4. ASSUME NEW p \in Plugins, PluginSetupCb(p)
        PROVE  FALSE
    BY <1>4, <2>4 DEF PluginSetupCb, FinishSetupOp
  <2>5. ASSUME NEW p \in Plugins, PluginShutdownCb(p)
        PROVE  FALSE
    BY <1>4, <2>5 DEF PluginShutdownCb
  <2>6. ASSUME NEW j, ProcessAsync(j) \/ JobProcessCb(j) \/ JobEnds(j)
        PROVE  FALSE
    BY <1>4, <2>6 DEF ProcessAsync, JobProcessCb, JobEnds
  <2>7. ~RefineEnds /\ ~Shutdown /\ ~RemoveAllPlugins
    BY <1>4 DEF RefineEnds, Shutdown, RemoveAllPlugins
  <2>8. CASE UNCHANGED vars
    BY <1>4, <2>8 DEF vars, pluginVars
  <2> QED
    BY <2>2, <2>3, <2>4, <2>5, <2>6, <2>7, <2>8 DEF Next
<1> QED
  BY <1>1, <1>2, <1>3, <1>4

(* And when the passes are enough, which they are for the plugins of this    *)
(* repository, the loader finds an order whenever there is one.              *)
THEOREM OrderIsFound ==
    ASSUME EnoughPasses
    PROVE  SafeSpec => []OrderIsRight
<1>1. Init => StuckInv
  BY DEF Init, StuckInv
<1>2. Inv /\ Inv' /\ StuckInv /\ [Next]_vars => StuckInv'
  BY StuckNext
<1>3. Inv /\ OrderInv /\ StuckInv => OrderIsRight
  BY DEF OrderInv, RulesKept, StuckInv, StuckIsUnsatisfiable, OrderIsRight
<1> QED
  BY <1>1, <1>2, <1>3, InitInv, NextInv, OrderInit, OrderNext, PTL DEF SafeSpec

(* Seven plugins, whatever their rules, need no more than 101 passes.        *)
LEMMA FewPlugins ==
    ASSUME 2 * (N * N) + 2 <= MaxPasses
    PROVE  EnoughPasses
<1> SUFFICES ASSUME NEW r \in RuleSets, NEW on \in SUBSET Plugins,
                    Satisfiable(PlaceDemands(r, on)),
                    Satisfiable(PriorityDemands(r, Resolve(r.conflicts, on)))
             PROVE  \E R \in Orders(PlaceDemands(r, on)),
                       S \in Orders(PriorityDemands(r, Resolve(r.conflicts, on))) :
                       Cardinality(R) + Cardinality(S) + 2 <= MaxPasses
  BY DEF EnoughPasses
<1>1. N \in Nat /\ MaxPasses \in Nat /\ Plugins = 1..N /\ r \in Rules
  BY OrderAssumption, SetupAssumption DEF OrderAssumption, SetupAssumption, Plugins
<1>2. ASSUME NEW demands \in Demands, Satisfiable(demands)
      PROVE  \E R \in Orders(demands) : Cardinality(R) \in Nat /\ Cardinality(R) <= N * N
  <2>1. PICK number \in [Plugins -> Plugins] : Unmet(demands, number) = {}
    BY <1>2 DEF Satisfiable
  <2> DEFINE R == {c \in Pairs : number[c[2]] < number[c[1]]}
  <2>2. \A p \in Plugins : number[p] \in Nat
    BY <1>1
  <2>3. \A c : c \in R <=> c \in Pairs /\ number[c[2]] < number[c[1]]
    OBVIOUS
  <2>4. \A i \in DOMAIN demands : demands[i] \in R
    BY <2>1, <2>2, DemandAt DEF Unmet, Pairs
  <2>5. R \in SUBSET Pairs
    OBVIOUS
  <2> HIDE DEF R
  <2>6. \A p \in Plugins : <<p, p>> \notin R
    BY <2>2, <2>3
  <2>7. \A p, q, s \in Plugins : <<p, q>> \in R /\ <<q, s>> \in R => <<p, s>> \in R
    BY <2>2, <2>3 DEF Pairs
  <2>8. R \in Orders(demands)
    BY <2>4, <2>5, <2>6, <2>7 DEF Orders
  <2>9. IsFiniteSet(Pairs) /\ Cardinality(Pairs) = N * N
    <3>1. IsFiniteSet(Plugins) /\ Cardinality(Plugins) = N
      BY <1>1, FS_Interval
    <3> QED
      BY <3>1, FS_Product DEF Pairs
  <2>10. Cardinality(R) \in Nat /\ Cardinality(R) <= N * N
    BY <2>5, <2>9, FS_Subset, FS_CardinalityType
  <2> QED
    BY <2>8, <2>10
<1>3. PICK R \in Orders(PlaceDemands(r, on)) : Cardinality(R) \in Nat /\ Cardinality(R) <= N * N
  BY <1>1, <1>2, DemandsOfRules
<1>4. PICK S \in Orders(PriorityDemands(r, Resolve(r.conflicts, on))) :
          Cardinality(S) \in Nat /\ Cardinality(S) <= N * N
  BY <1>1, <1>2, DemandsOfRules
<1>5. N * N \in Nat
  BY <1>1
<1>6. PICK square \in Nat : square = N * N
  BY <1>5
<1>7. Cardinality(R) + Cardinality(S) + 2 <= MaxPasses
  BY <1>1, <1>3, <1>4, <1>6
<1> QED
  BY <1>7

(* ---- The jobs and the refine of a list ---- *)

\* What a refine was started with: the list of the job, or what its layer adds
\* to the list of its parent.
StartList(path) ==
    IF path = <<>> THEN appList ELSE LayerList(refine[Front(path)].list, Last(path))

\* The plugins that have answered a refine.
Answered(t) == {p \in refiners : t.op = 0 \/ p < t.op}

\* Plugin p has refined app i, or a later plugin has that brought it in.
Passed(done, p, i, start) ==
    \/ <<p, i>> \in done
    \/ i \notin start /\ \E q \in refiners : q > p /\ <<q, i>> \in done

\* A refine asks one plugin at a time, then waits for its layers, then returns.
StageOK(t) ==
    /\ t.op \in refiners \union {Reviews, 0}
    /\ t.op # 0 => t.op = t.next /\ t.layers = {} /\ ~t.returned
    /\ t.returned => t.layers = {}
    /\ t.op = 0 /\ t.layers = {} /\ ~t.returned => refiners = {}

\* The refine of a layer runs while its parent waits for it, without the flag
\* of any layer above.
TreeOK(path, t) ==
    /\ \A layer \in t.flags : \A k \in DOMAIN path : path[k] # layer
    /\ path # <<>> => /\ Front(path) \in DOMAIN refine
                      /\ Last(path) \in refine[Front(path)].layers

\* As long as nothing has failed, every plugin that has answered has refined
\* what the refine was started with, and every layer that has returned is refined.
ListOK(path, t) ==
    t.error = None =>
        /\ StartList(path) \ Wildcards \subseteq t.list
        /\ \A p \in Answered(t), i \in t.list \ Wildcards : Passed(refined, p, i, StartList(path))
        /\ t.op = 0 =>
              \A layer \in LayersOf(t) \ t.layers, p \in refiners :
                 \A part \in LayerList(t.list, layer) \ Wildcards : <<p, part>> \in refined

PathOK(path) == /\ StageOK(refine[path])
                /\ TreeOK(path, refine[path])
                /\ ListOK(path, refine[path])

RefineOK == \A path \in DOMAIN refine : PathOK(path)

\* The refine of the job is there as long as any is, and what a successful
\* refine removes from the addons is removed when no other can follow.
RootOK ==
    /\ refine # <<>> => <<>> \in DOMAIN refine /\ refine[<<>>].flags = refineFlags /\ refineEnd = None
    /\ refineEnd = None => addons = Parts["addons"]

\* A job asks the plugins, then refines, then ends.
StagesOK ==
    /\ jobKind = None => running = {} /\ refine = <<>> /\ refineEnd = None /\ resultList = {} /\ jobEnd = None
    /\ running # {} => /\ jobKind \in Kinds \ {"refine"} /\ jobEnd = None
                       /\ refine = <<>> /\ refineEnd = None /\ resultList = {}
    /\ jobKind # "refresh" => running \subseteq PluginIds
    /\ nPendingOps = Cardinality(running)
    /\ progressSource => running # {}
    /\ repoProgress = "some" => jobKind = "repository" /\ running # {}
    /\ savedError # None => running # {}
    /\ jobEnd # None => refine = <<>>

\* The part of the types that the steps of a refine change.
RefinesAreTyped ==
    DOMAIN refine \subseteq Paths /\ \A path \in DOMAIN refine : refine[path] \in RefineOp

(* A path is a sequence of different layers, so it has at most three.        *)
LEMMA PathsAreSequences ==
    /\ <<>> \in Paths
    /\ \A path \in Paths : path \in Seq(Layers) /\ Len(path) <= 3
<1>1. <<>> \in [1..0 -> Layers] /\ IsInjective(<<>>)
  BY DEF IsInjective
<1>2. <<>> \in Paths
  BY <1>1 DEF Paths
<1>3. ASSUME NEW path \in Paths
      PROVE  path \in Seq(Layers) /\ Len(path) <= 3
  <2>1. PICK n \in 0..3 : path \in [1..n -> Layers]
    BY DEF Paths
  <2> QED
    BY <2>1
<1> QED
  BY <1>2, <1>3

(* The path of a layer that is not in the path of its parent.                *)
LEMMA ChildPath ==
    ASSUME NEW path \in Paths, NEW layer \in Layers, \A k \in DOMAIN path : path[k] # layer
    PROVE  /\ Append(path, layer) \in Paths /\ Append(path, layer) # <<>>
           /\ Front(Append(path, layer)) = path /\ Last(Append(path, layer)) = layer
<1> DEFINE c == Append(path, layer)
           n == Len(path)
<1>1. path \in Seq(Layers) /\ n \in Nat /\ n <= 3 /\ DOMAIN path = 1..n
  BY PathsAreSequences
<1>2. /\ c \in Seq(Layers) /\ Len(c) = n + 1 /\ DOMAIN c = 1..(n + 1)
      /\ \A k \in 1..n : c[k] = path[k]
      /\ c[n + 1] = layer
  BY <1>1
<1>3. \A j, k \in 1..n : path[j] = path[k] => j = k
  BY <1>1 DEF Paths, IsInjective
<1>4. IsInjective(c)
  BY <1>1, <1>2, <1>3 DEF IsInjective
<1>5. n # 3
  <2> SUFFICES ASSUME n = 3 PROVE FALSE
    OBVIOUS
  <2>1. path[1] \in Layers /\ path[2] \in Layers /\ path[3] \in Layers
    BY <1>1, ElementOfSeq
  <2>2. path[1] # path[2] /\ path[1] # path[3] /\ path[2] # path[3]
    BY <1>3
  <2>3. path[1] # layer /\ path[2] # layer /\ path[3] # layer
    BY <1>1
  <2> QED
    BY <2>1, <2>2, <2>3 DEF Layers
<1>6. n + 1 \in 0..3 /\ c \in [1..(n + 1) -> Layers]
  <2>1. n + 1 \in 0..3
    BY <1>1, <1>5
  <2>2. c \in [1..Len(c) -> Layers]
    BY <1>2, LenProperties
  <2> QED
    BY <1>2, <2>1, <2>2
<1>7. c \in Paths
  BY <1>4, <1>6 DEF Paths
<1>8. Front(c) = path
  <2>1. Len(c) - 1 = n
    BY <1>1, <1>2
  <2>2. /\ SubSeq(c, 1, n) \in Seq(Layers) /\ Len(SubSeq(c, 1, n)) = n
        /\ \A k \in 1..n : SubSeq(c, 1, n)[k] = c[k]
    BY <1>1, <1>2
  <2>3. SubSeq(c, 1, n) = path
    BY <1>1, <1>2, <2>2, SeqEqual
  <2> QED
    BY <2>1, <2>3 DEF Front
<1>9. Last(c) = layer /\ c # <<>>
  <2>1. c[n + 1] = layer /\ Len(c) = n + 1
    BY <1>1, <1>2
  <2>2. Last(c) = layer
    BY <2>1 DEF Last
  <2>3. n + 1 # 0
    BY <1>1
  <2> HIDE DEF c
  <2>4. c # <<>>
    BY <2>1, <2>3
  <2> QED
    BY <2>2, <2>4
<1> QED
  BY <1>7, <1>8, <1>9

(* A layer is the child of its parent, which is another one.                 *)
LEMMA ParentPath ==
    ASSUME NEW path \in Paths, path # <<>>
    PROVE  /\ Append(Front(path), Last(path)) = path
           /\ Front(path) # path /\ Last(path) \in Layers
<1> DEFINE n == Len(path)
<1>1. path \in Seq(Layers) /\ n \in Nat /\ n # 0
  BY PathsAreSequences
<1>2. /\ Front(path) \in Seq(Layers) /\ Len(Front(path)) = n - 1
      /\ \A k \in 1..(n - 1) : Front(path)[k] = path[k]
  <2>1. n - 1 \in Nat /\ \A k \in 1..(n - 1) : path[k] \in Layers
    BY <1>1, ElementOfSeq
  <2> DEFINE m == n - 1
             f == SubSeq(path, 1, m)
  <2>2. m \in Int /\ 1 \in Int /\ \A k \in 1..m : path[k] \in Layers
    BY <2>1
  <2> HIDE DEF m
  <2>3. /\ f \in Seq(Layers) /\ Len(f) = IF 1 <= m THEN m - 1 + 1 ELSE 0
        /\ \A k \in 1..(m - 1 + 1) : f[k] = path[1 + k - 1]
    BY <2>2, SubSeqProperties
  <2>4. m \in Nat
    BY <2>1 DEF m
  <2> HIDE DEF f
  <2>5. Len(f) = m /\ \A k \in 1..m : f[k] = path[k]
    BY <2>3, <2>4
  <2> QED
    BY <2>3, <2>5 DEF Front, m, f
<1>3. Last(path) = path[n] /\ Last(path) \in Layers
  BY <1>1 DEF Last
<1>4. /\ Append(Front(path), Last(path)) \in Seq(Layers)
      /\ Len(Append(Front(path), Last(path))) = n
      /\ \A k \in 1..n : Append(Front(path), Last(path))[k] = path[k]
  BY <1>1, <1>2, <1>3
<1>5. Append(Front(path), Last(path)) = path
  BY <1>1, <1>4, SeqEqual
<1> QED
  BY <1>1, <1>2, <1>3, <1>5

(* The first of some plugins is one of them, and none is before it.          *)
LEMMA FirstIsFirst ==
    ASSUME NEW S \in SUBSET PluginIds, S # {}
    PROVE  First(S) \in S /\ \A q \in S : First(S) <= q
<1>1. S \in SUBSET Nat
  BY RefineAssumption DEF PluginIds, RefineAssumption
<1> QED
  BY <1>1, LeastOne DEF First

(* How often an app is in a sequence of apps: it is at finitely many places. *)
Places(s, i) == {k \in DOMAIN s : s[k] = i}

LEMMA PlacesAreFinite ==
    ASSUME NEW s \in Seq(Apps), NEW i
    PROVE  IsFiniteSet(Places(s, i)) /\ Cardinality(Places(s, i)) \in Nat
<1>1. DOMAIN s = 1..Len(s) /\ Len(s) \in Nat
  BY LenProperties
<1>2. IsFiniteSet(1..Len(s))
  BY <1>1, FS_Interval
<1>3. Places(s, i) \in SUBSET (1..Len(s))
  BY <1>1 DEF Places
<1>4. IsFiniteSet(Places(s, i))
  BY <1>2, <1>3, FS_Subset
<1> QED
  BY <1>4, FS_CardinalityType

(* Taking the first app away takes one place away.                           *)
LEMMA PlacesOfTail ==
    ASSUME NEW s \in Seq(Apps), s # <<>>, NEW i
    PROVE  Cardinality(Places(Tail(s), i))
              = Cardinality(Places(s, i)) - IF Head(s) = i THEN 1 ELSE 0
<1> DEFINE n == Len(s)
           rest == Places(s, i) \ {1}
           move == [k \in Places(Tail(s), i) |-> k + 1]
<1>1. n \in Nat /\ n # 0 /\ DOMAIN s = 1..n /\ Head(s) = s[1]
  BY EmptySeq, LenProperties
<1>2. /\ Tail(s) \in Seq(Apps) /\ DOMAIN Tail(s) = 1..(n - 1)
      /\ \A k \in 1..(n - 1) : Tail(s)[k] = s[k + 1]
  BY <1>1, HeadTailProperties, LenProperties
<1>3. \A k : k \in Places(Tail(s), i) <=> k \in 1..(n - 1) /\ s[k + 1] = i
  BY <1>2 DEF Places
<1>4. \A k : k \in rest <=> k \in 2..n /\ s[k] = i
  BY <1>1 DEF Places
<1>5. move \in Bijection(Places(Tail(s), i), rest)
  <2>1. move \in [Places(Tail(s), i) -> rest]
    BY <1>1, <1>3, <1>4
  <2>2. IsInjective(move)
    BY <1>1, <1>3 DEF IsInjective
  <2>3. ASSUME NEW k \in rest
        PROVE  \E j \in Places(Tail(s), i) : move[j] = k
    <3>1. k \in 2..n /\ s[k] = i
      BY <1>4
    <3>2. k - 1 \in 1..(n - 1) /\ (k - 1) + 1 = k
      BY <1>1, <3>1
    <3>3. k - 1 \in Places(Tail(s), i)
      BY <1>3, <3>1, <3>2
    <3> QED
      BY <3>2, <3>3
  <2> QED
    BY <2>1, <2>2, <2>3 DEF Bijection, Injection, Surjection
<1> HIDE DEF rest, move
<1>6. Cardinality(rest) = Cardinality(Places(Tail(s), i))
  <2>1. IsFiniteSet(Places(Tail(s), i))
    BY <1>2, PlacesAreFinite
  <2>2. ExistsBijection(Places(Tail(s), i), rest)
    BY <1>5 DEF ExistsBijection
  <2> QED
    BY <2>1, <2>2, FS_Bijection
<1>7. 1 \in Places(s, i) <=> Head(s) = i
  BY <1>1 DEF Places
<1>8. Cardinality(rest) = IF 1 \in Places(s, i) THEN Cardinality(Places(s, i)) - 1 ELSE Cardinality(Places(s, i))
  BY PlacesAreFinite, FS_RemoveElement DEF rest
<1> QED
  BY <1>6, <1>7, <1>8, PlacesAreFinite

(* A set as a sequence has every app of the set once.                        *)
LEMMA SetAsSequence ==
    ASSUME NEW S \in SUBSET Apps
    PROVE  /\ SetToSeq(S) \in Seq(Apps)
           /\ \A i \in S : \E k \in DOMAIN SetToSeq(S) : Places(SetToSeq(S), i) = {k}
           /\ \A i : i \notin S => Places(SetToSeq(S), i) = {}
<1> DEFINE n == Cardinality(S)
           f == SetToSeq(S)
<1>1. IsFiniteSet(S)
  BY RefineAssumption, FS_Subset DEF RefineAssumption
<1>2. n \in Nat /\ \E g : g \in Bijection(1..n, S)
  BY <1>1, FS_CardinalityType DEF ExistsBijection
<1>3. f \in [1..n -> S] /\ IsInjective(f)
  BY <1>2 DEF SetToSeq, Bijection, Injection
<1> HIDE DEF f
<1>4. IsFiniteSet(1..n) /\ Cardinality(1..n) = n
  BY <1>2, FS_Interval
<1>5. f \in Injection(1..n, S)
  BY <1>3 DEF Injection
<1>6. f \in Surjection(1..n, S)
  BY <1>1, <1>4, <1>5, FS_Injection
<1>7. f \in Seq(Apps) /\ DOMAIN f = 1..n
  <2>1. f \in [1..n -> Apps]
    BY <1>3
  <2> QED
    BY <1>2, <2>1, SeqDef
<1>8. ASSUME NEW i \in S
      PROVE  \E k \in DOMAIN f : Places(f, i) = {k}
  <2>1. PICK k \in 1..n : f[k] = i
    BY <1>6 DEF Surjection
  <2>2. \A j \in DOMAIN f : f[j] = i => j = k
    BY <1>3, <1>7, <2>1 DEF IsInjective
  <2> QED
    BY <1>7, <2>1, <2>2 DEF Places
<1>9. ASSUME NEW i, i \notin S
      PROVE  Places(f, i) = {}
  BY <1>3, <1>7, <1>9 DEF Places
<1> QED
  BY <1>7, <1>8, <1>9 DEF f

(* The apps of a set put behind a sequence have one place more each.         *)
LEMMA PlacesOfThawed ==
    ASSUME NEW s \in Seq(Apps), NEW S \in SUBSET Apps, NEW i
    PROVE  /\ s \o SetToSeq(S) \in Seq(Apps)
           /\ Cardinality(Places(s \o SetToSeq(S), i))
                 = Cardinality(Places(s, i)) + IF i \in S THEN 1 ELSE 0
<1> DEFINE t == SetToSeq(S)
           u == s \o t
           m == Len(s)
           n == Len(t)
<1>1. t \in Seq(Apps)
  BY SetAsSequence
<1> HIDE DEF t
<1>2. m \in Nat /\ n \in Nat /\ DOMAIN s = 1..m /\ DOMAIN t = 1..n
  BY <1>1, LenProperties
<1>3. /\ u \in Seq(Apps) /\ Len(u) = m + n
      /\ \A k \in 1..(m + n) : u[k] = IF k <= m THEN s[k] ELSE t[k - m]
  BY <1>1, ConcatProperties
<1>4. DOMAIN u = 1..(m + n)
  BY <1>3, LenProperties
<1> HIDE DEF u, m, n
<1>5. CASE i \in S
  <2>1. PICK k \in DOMAIN t : Places(t, i) = {k}
    BY <1>5, SetAsSequence DEF t
  <2>2. k \in 1..n /\ t[k] = i /\ \A j \in 1..n : t[j] = i => j = k
    BY <1>2, <2>1 DEF Places
  <2>3. m + k \notin Places(s, i)
    BY <1>2, <2>2 DEF Places
  <2>4. ASSUME NEW j
        PROVE  j \in Places(u, i) <=> j \in Places(s, i) \union {m + k}
    <3>1. CASE j \in 1..m
      BY <1>2, <1>3, <1>4, <2>2, <3>1 DEF Places
    <3>2. CASE j \in (m + 1)..(m + n)
      <4>1. j - m \in 1..n /\ u[j] = t[j - m] /\ j \notin 1..m /\ j \in 1..(m + n)
        BY <1>2, <1>3, <3>2
      <4>2. j - m = k <=> j = m + k
        BY <1>2, <2>2, <3>2
      <4> QED
        BY <1>2, <1>4, <2>2, <4>1, <4>2 DEF Places
    <3>3. CASE j \notin 1..(m + n)
      <4>1. j \notin 1..m /\ j # m + k
        BY <1>2, <2>2, <3>3
      <4> QED
        BY <1>2, <1>4, <3>3, <4>1 DEF Places
    <3> QED
      BY <1>2, <3>1, <3>2, <3>3
  <2>5. Places(u, i) = Places(s, i) \union {m + k}
    BY <2>4
  <2>6. Cardinality(Places(s, i) \union {m + k}) = Cardinality(Places(s, i)) + 1
    BY <2>3, PlacesAreFinite, FS_AddElement
  <2> QED
    BY <1>3, <1>5, <2>5, <2>6 DEF u, t
<1>6. CASE i \notin S
  <2>1. \A j \in 1..n : t[j] # i
    BY <1>2, <1>6, SetAsSequence DEF t, Places
  <2>2. ASSUME NEW j
        PROVE  j \in Places(u, i) <=> j \in Places(s, i)
    <3>1. CASE j \in 1..m
      BY <1>2, <1>3, <1>4, <3>1 DEF Places
    <3>2. CASE j \in (m + 1)..(m + n)
      <4>1. j - m \in 1..n /\ u[j] = t[j - m] /\ j \notin 1..m
        BY <1>2, <1>3, <3>2
      <4> QED
        BY <1>2, <1>4, <2>1, <4>1 DEF Places
    <3>3. CASE j \notin 1..(m + n)
      BY <1>2, <1>4, <3>3 DEF Places
    <3> QED
      BY <1>2, <3>1, <3>2, <3>3
  <2>3. Places(u, i) = Places(s, i)
    BY <2>2
  <2> QED
    BY <1>3, <1>6, <2>3, PlacesAreFinite DEF u, t
<1> QED
  BY <1>5, <1>6

(* The apps of a list that are better than an app.                           *)
Better(listed, i) == {j \in listed : Rank[j] < Rank[i]}

LEMMA BetterIsFinite ==
    ASSUME NEW listed \in SUBSET Apps, NEW i
    PROVE  /\ IsFiniteSet(listed) /\ Cardinality(listed) \in Nat
           /\ IsFiniteSet(Better(listed, i)) /\ Cardinality(Better(listed, i)) \in Nat
<1>1. IsFiniteSet(listed)
  BY RefineAssumption, FS_Subset DEF RefineAssumption
<1>2. IsFiniteSet(Better(listed, i))
  BY <1>1, FS_Subset DEF Better
<1> QED
  BY <1>1, <1>2, FS_CardinalityType

(* Of two apps of a list the better one has fewer that are better.           *)
LEMMA BetterHasFewer ==
    ASSUME NEW listed \in SUBSET Apps, NEW i \in listed, NEW j \in listed, Rank[i] < Rank[j]
    PROVE  Cardinality(Better(listed, i)) < Cardinality(Better(listed, j))
<1>1. \A k \in Apps : Rank[k] \in Nat
  BY JobsAssumption DEF JobsAssumption
<1>2. Better(listed, i) \in SUBSET Better(listed, j)
  BY <1>1 DEF Better
<1>3. i \in Better(listed, j) /\ i \notin Better(listed, i)
  BY <1>1 DEF Better
<1>4. /\ Cardinality(Better(listed, i)) <= Cardinality(Better(listed, j))
      /\ Cardinality(Better(listed, i)) # Cardinality(Better(listed, j))
  BY <1>2, <1>3, BetterIsFinite, FS_Subset
<1> QED
  BY <1>4, BetterIsFinite

(* Every place in the order of a list is taken by one of its apps.           *)
LEMMA PlaceIsTaken ==
    ASSUME NEW listed \in SUBSET Apps
    PROVE  [i \in listed |-> Cardinality(Better(listed, i))]
              \in Bijection(listed, 0..(Cardinality(listed) - 1))
<1> DEFINE n == Cardinality(listed)
           place == [i \in listed |-> Cardinality(Better(listed, i))]
<1>1. n \in Nat /\ IsFiniteSet(listed)
  BY BetterIsFinite
<1>2. ASSUME NEW i \in listed
      PROVE  place[i] \in 0..(n - 1)
  <2>1. Better(listed, i) \in SUBSET listed /\ i \notin Better(listed, i)
    BY JobsAssumption DEF Better, JobsAssumption
  <2>2. Cardinality(Better(listed, i)) <= n /\ Cardinality(Better(listed, i)) # n
    BY <1>1, <2>1, FS_Subset
  <2> QED
    BY <1>1, <2>2, BetterIsFinite
<1>3. ASSUME NEW i \in listed, NEW j \in listed, i # j
      PROVE  place[i] # place[j]
  <2>1. Rank[i] \in Nat /\ Rank[j] \in Nat /\ Rank[i] # Rank[j]
    BY <1>3, JobsAssumption DEF JobsAssumption
  <2>2. Rank[i] < Rank[j] \/ Rank[j] < Rank[i]
    BY <2>1
  <2>3. /\ Cardinality(Better(listed, i)) \in Nat /\ Cardinality(Better(listed, j)) \in Nat
        /\ \/ Cardinality(Better(listed, i)) < Cardinality(Better(listed, j))
           \/ Cardinality(Better(listed, j)) < Cardinality(Better(listed, i))
    BY <2>2, BetterHasFewer, BetterIsFinite
  <2> QED
    BY <2>3
<1>4. place \in Injection(listed, 0..(n - 1))
  <2>1. place \in [listed -> 0..(n - 1)]
    BY <1>2
  <2>2. IsInjective(place)
    BY <1>3 DEF IsInjective
  <2> QED
    BY <2>1, <2>2 DEF Injection
<1> HIDE DEF place, n
<1>5. IsFiniteSet(0..(n - 1)) /\ Cardinality(0..(n - 1)) = n
  <2>1. n \in Nat /\ 0 \in Int /\ n - 1 \in Int
    BY <1>1
  <2>2. /\ IsFiniteSet(0..(n - 1))
        /\ Cardinality(0..(n - 1)) = IF 0 > n - 1 THEN 0 ELSE (n - 1) - 0 + 1
    BY <2>1, FS_Interval
  <2> QED
    BY <2>1, <2>2
<1>6. place \in Surjection(listed, 0..(n - 1))
  BY <1>4, <1>5, FS_Injection DEF n
<1> QED
  BY <1>4, <1>6 DEF Bijection, place, n

(* What is cut off has exactly as many better apps in the rest as were wanted. *)
LEMMA TruncateKeepsTheBest ==
    ASSUME NEW listed \in SUBSET Apps, NEW i \in listed, i \notin Truncate(listed)
    PROVE  /\ MaxResults # 0
           /\ Cardinality({j \in Truncate(listed) : Rank[j] < Rank[i]}) = MaxResults
<1> DEFINE place == [j \in listed |-> Cardinality(Better(listed, j))]
           n == Cardinality(listed)
           best == Truncate(listed)
           first == [j \in best |-> place[j]]
<1>1. MaxResults \in Nat /\ n \in Nat /\ IsFiniteSet(listed)
  BY JobsAssumption, BetterIsFinite DEF JobsAssumption
<1>2. MaxResults # 0
  BY DEF Truncate
<1>3. best = {j \in listed : place[j] < MaxResults}
  BY <1>2 DEF Truncate, Better
<1>4. place \in Bijection(listed, 0..(n - 1))
  BY PlaceIsTaken
<1>5. \A j, k \in listed : Rank[j] < Rank[k] => place[j] < place[k]
  BY BetterHasFewer
<1> HIDE DEF place, n, best
<1>6. \A j \in listed : place[j] \in 0..(n - 1)
  BY <1>4 DEF Bijection, Injection
<1>7. ~(place[i] < MaxResults) /\ place[i] < n
  BY <1>1, <1>3, <1>6 DEF best
<1>8. first \in Bijection(best, 0..(MaxResults - 1))
  <2>1. first \in [best -> 0..(MaxResults - 1)]
    BY <1>1, <1>2, <1>3, <1>6
  <2>2. IsInjective(first)
    BY <1>3, <1>4 DEF IsInjective, Bijection, Injection
  <2>3. ASSUME NEW k \in 0..(MaxResults - 1)
        PROVE  \E j \in best : first[j] = k
    <3>1. k \in 0..(n - 1) /\ k < MaxResults
      BY <1>1, <1>6, <1>7
    <3>2. PICK j \in listed : place[j] = k
      BY <1>4, <3>1 DEF Bijection, Surjection
    <3> QED
      BY <1>3, <3>1, <3>2
  <2> QED
    BY <2>1, <2>2, <2>3 DEF Bijection, Injection, Surjection
<1> HIDE DEF first
<1>9. Cardinality(best) = MaxResults
  <2>1. IsFiniteSet(best)
    BY <1>1, <1>3, FS_Subset
  <2>2. ExistsBijection(best, 0..(MaxResults - 1))
    BY <1>8 DEF ExistsBijection
  <2>3. Cardinality(0..(MaxResults - 1)) = MaxResults
    BY <1>1, FS_Interval
  <2> QED
    BY <2>1, <2>2, <2>3, FS_Bijection
<1>10. ASSUME NEW j \in best
       PROVE  Rank[j] < Rank[i]
  <2>1. j \in listed /\ place[j] < place[i]
    BY <1>1, <1>3, <1>6, <1>7
  <2>2. Rank[i] \in Nat /\ Rank[j] \in Nat
    BY <2>1, JobsAssumption DEF JobsAssumption
  <2>3. Rank[j] # Rank[i]
    <3>1. j # i
      BY <1>6, <2>1
    <3> QED
      BY <2>1, <3>1, JobsAssumption DEF JobsAssumption
  <2>4. ~(Rank[i] < Rank[j])
    BY <1>5, <1>6, <2>1
  <2> QED
    BY <2>2, <2>3, <2>4
<1>11. {j \in best : Rank[j] < Rank[i]} = best
  BY <1>10
<1> QED
  BY <1>2, <1>9, <1>11 DEF best

(* A step that leaves a refine and the list of its parent alone, and takes   *)
(* back nothing of what is refined, leaves it as it should be.               *)
LEMMA OtherPath ==
    ASSUME NEW q \in DOMAIN refine, PathOK(q),
           q \in DOMAIN refine', refine'[q] = refine[q],
           q # <<>> => /\ Front(q) \in DOMAIN refine'
                       /\ refine'[Front(q)].list = refine[Front(q)].list
                       /\ Last(q) \in refine'[Front(q)].layers,
           refined \subseteq refined', UNCHANGED <<inputs, addons>>
    PROVE  PathOK(q)'
<1>1. StageOK(refine[q])'
  BY DEF PathOK, StageOK, inputs
<1>2. TreeOK(q, refine[q])'
  BY DEF PathOK, TreeOK
<1>3. StartList(q)' = StartList(q)
  BY DEF StartList, LayerList, inputs
<1>4. Answered(refine[q])' = Answered(refine[q])
  BY DEF Answered, inputs
<1>5. \A p, i, start : Passed(refined, p, i, start) => Passed(refined, p, i, start)'
  BY DEF Passed, inputs
<1>6. /\ LayersOf(refine[q])' = LayersOf(refine[q])
      /\ \A layer : LayerList(refine[q].list, layer)' = LayerList(refine[q].list, layer)
  BY DEF LayersOf, LayerList, LayerFlags
<1>7. ListOK(q, refine[q])'
  BY <1>3, <1>4, <1>5, <1>6 DEF PathOK, ListOK, inputs
<1> QED
  BY <1>1, <1>2, <1>7 DEF PathOK

(* What a refine waits for nothing of has no child.                          *)
LEMMA NoChild ==
    ASSUME RefinesAreTyped, RefineOK, NEW path \in DOMAIN refine, refine[path].layers = {},
           NEW q \in DOMAIN refine, q # <<>>
    PROVE  Front(q) # path
BY DEF RefineOK, PathOK, TreeOK

\* What is known of a refine t of a path when what it has asked has answered:
\* all plugins up to the last one it asked have refined its list.
AllAnswered(path, t, done) ==
    /\ t.op = 0 /\ t.layers = {} /\ ~t.returned /\ t.flags = refine[path].flags
    /\ t.error = None =>
         /\ StartList(path) \ Wildcards \subseteq t.list
         /\ \A p \in refiners, i \in t.list \ Wildcards :
               p <= t.next => Passed(done, p, i, StartList(path))

(* The next plugin, or the reviews service, is asked.                        *)
LEMMA AskKeeps ==
    ASSUME RefinesAreTyped, RefineOK, NEW path \in DOMAIN refine, refine[path].layers = {},
           NEW t \in RefineOp, AllAnswered(path, t, refined'),
           NEW op \in refiners \union {Reviews}, op \in 0..Reviews, op # 0,
           \A p \in refiners : p < op => p <= t.next,
           refine' = [refine EXCEPT ![path] = [t EXCEPT !.op = op, !.next = op]],
           refined \subseteq refined', UNCHANGED <<inputs, addons>>
    PROVE  RefinesAreTyped' /\ RefineOK'
<1> DEFINE u == [t EXCEPT !.op = op, !.next = op]
<1>1. /\ u \in RefineOp /\ u.op = op /\ u.next = op /\ u.list = t.list /\ u.flags = t.flags
      /\ u.layers = t.layers /\ u.error = t.error /\ u.returned = t.returned
  BY DEF RefineOp
<1>2. /\ DOMAIN refine' = DOMAIN refine /\ refine'[path] = u
      /\ \A q \in DOMAIN refine : q # path => refine'[q] = refine[q]
  OBVIOUS
<1> HIDE DEF u
<1>3. RefinesAreTyped'
  BY <1>1, <1>2 DEF RefinesAreTyped
<1>4. ASSUME NEW q \in DOMAIN refine, q # path
      PROVE  PathOK(q)'
  <2>1. q # <<>> => /\ Front(q) \in DOMAIN refine /\ Front(q) # path
                    /\ Last(q) \in refine[Front(q)].layers
    BY <1>4, NoChild DEF RefineOK, PathOK, TreeOK
  <2> QED
    BY <1>2, <1>4, <2>1, OtherPath DEF RefineOK
<1>5. PathOK(path)'
  <2>1. path # <<>> => Front(path) # path /\ Front(path) \in DOMAIN refine
    BY ParentPath DEF RefinesAreTyped, RefineOK, PathOK, TreeOK
  <2>2. StageOK(refine[path])'
    BY <1>1, <1>2 DEF AllAnswered, StageOK, inputs
  <2>3. TreeOK(path, refine[path])'
    BY <1>1, <1>2, <2>1 DEF AllAnswered, RefineOK, PathOK, TreeOK
  <2>4. StartList(path)' = StartList(path)
    <3>1. path # <<>> => refine'[Front(path)] = refine[Front(path)]
      BY <1>2, <2>1
    <3> QED
      BY <3>1 DEF StartList, LayerList, inputs
  <2>5. \A p \in Answered(refine[path])' : p \in refiners /\ p <= t.next
    BY <1>1, <1>2 DEF Answered, inputs
  <2>6. \A p, i, start : Passed(refined', p, i, start) => Passed(refined, p, i, start)'
    BY DEF Passed, inputs
  <2>7. ListOK(path, refine[path])'
    BY <1>1, <1>2, <2>4, <2>5, <2>6 DEF AllAnswered, ListOK
  <2> QED
    BY <2>2, <2>3, <2>7 DEF PathOK
<1> QED
  BY <1>2, <1>3, <1>4, <1>5 DEF RefineOK

\* A refine of a list starts with the first plugin that refines, if there is one.
Started(t, listed, flags) ==
    /\ t \in RefineOp /\ t.list = listed /\ t.flags = flags /\ t.layers = {} /\ ~t.returned
    /\ refiners = {} => t.op = 0
    /\ refiners # {} => t.op \in refiners /\ t.next = t.op /\ t.op # 0
    /\ \A p \in refiners : t.op <= p

(* A new refine has been started.                                            *)
LEMMA NewRefineStarts ==
    ASSUME refiners \subseteq PluginIds, NEW listed \in SUBSET Apps, NEW flags \in SUBSET Flags
    PROVE  Started(NewRefine(listed, flags), listed, flags)
<1> DEFINE first == IF refiners = {} THEN 0 ELSE First(refiners)
           new == NewRefine(listed, flags)
<1>1. /\ first \in 0..Reviews
      /\ refiners # {} => first \in refiners /\ first # 0 /\ \A p \in refiners : first <= p
  <2>1. refiners # {} => First(refiners) \in refiners /\ \A p \in refiners : First(refiners) <= p
    BY FirstIsFirst
  <2>2. 0 \in 0..Reviews /\ \A p \in refiners : p \in 0..Reviews /\ p # 0
    BY RefineAssumption DEF RefineAssumption, PluginIds, Reviews
  <2> QED
    BY <2>1, <2>2
<1>2. new = [list |-> listed, flags |-> flags, op |-> first, next |-> first,
             layers |-> {}, error |-> None, returned |-> FALSE]
  BY DEF NewRefine
<1> HIDE DEF first, new
<1>3. new \in RefineOp
  BY <1>1, <1>2 DEF RefineOp
<1> QED
  BY <1>1, <1>2, <1>3 DEF first, new, Started

(* All plugins have answered: the refines of the layers start, or the refine *)
(* returns.                                                                  *)
LEMMA RecurseKeeps ==
    ASSUME RefinesAreTyped, RefineOK, NEW path \in DOMAIN refine, refine[path].layers = {},
           NEW t \in RefineOp, AllAnswered(path, t, refined'),
           \A p \in refiners : p <= t.next,
           refiners \subseteq PluginIds, addons \in [Apps -> SUBSET Apps], management \subseteq Apps,
           Recurse(path, t),
           refined \subseteq refined', UNCHANGED <<inputs, addons>>
    PROVE  /\ RefinesAreTyped' /\ RefineOK' /\ management' \subseteq Apps
           /\ path \in DOMAIN refine' /\ refine'[path].flags = t.flags
           /\ \A q \in DOMAIN refine : q # path => q \in DOMAIN refine' /\ refine'[q] = refine[q]
<1> DEFINE u == [t EXCEPT !.list = @ \ Wildcards, !.op = 0]
           layers == LayersOf(u)
           child == {Append(path, layer) : layer \in layers}
<1>1. path \in Paths /\ (path # <<>> => Front(path) # path /\ Front(path) \in DOMAIN refine)
  BY ParentPath DEF RefinesAreTyped, RefineOK, PathOK, TreeOK
<1>2. ASSUME NEW q \in DOMAIN refine, q # path
      PROVE  q # <<>> => /\ Front(q) \in DOMAIN refine /\ Front(q) # path
                         /\ Last(q) \in refine[Front(q)].layers
  BY <1>2, NoChild DEF RefineOK, PathOK, TreeOK
<1>3. \A p, i, start : Passed(refined', p, i, start) => Passed(refined, p, i, start)'
  BY DEF Passed, inputs
<1>4. CASE t.error # None
  <2> DEFINE v == [t EXCEPT !.op = 0, !.returned = TRUE]
  <2>1. refine' = [refine EXCEPT ![path] = v] /\ UNCHANGED management
    BY <1>4 DEF Recurse
  <2>2. v \in RefineOp /\ v.op = 0 /\ v.returned /\ v.layers = {} /\ v.error # None /\ v.flags = t.flags
    BY <1>4 DEF AllAnswered, RefineOp
  <2>3. /\ DOMAIN refine' = DOMAIN refine /\ refine'[path] = v
        /\ \A q \in DOMAIN refine : q # path => refine'[q] = refine[q]
    BY <2>1
  <2> HIDE DEF v
  <2>4. RefinesAreTyped'
    BY <2>2, <2>3 DEF RefinesAreTyped
  <2>5. ASSUME NEW q \in DOMAIN refine, q # path
        PROVE  PathOK(q)'
    BY <1>2, <2>3, <2>5, OtherPath DEF RefineOK
  <2>6. PathOK(path)'
    <3>1. StageOK(refine[path])'
      BY <2>2, <2>3 DEF StageOK
    <3>2. TreeOK(path, refine[path])'
      BY <1>1, <2>2, <2>3 DEF AllAnswered, RefineOK, PathOK, TreeOK
    <3>3. ListOK(path, refine[path])'
      BY <2>2, <2>3 DEF ListOK
    <3> QED
      BY <3>1, <3>2, <3>3 DEF PathOK
  <2> QED
    BY <2>1, <2>2, <2>3, <2>4, <2>5, <2>6 DEF RefineOK
<1>5. CASE t.error = None
  <2> DEFINE v == [u EXCEPT !.layers = layers, !.returned = Returns(layers)]
             new(layer) == NewRefine(LayerList(u.list, layer), LayerFlags(u.flags, layer))
  <2>1. /\ refine' = [q \in DOMAIN refine \union child |->
              IF q \in child
              THEN NewRefine(LayerList(u.list, Last(q)), LayerFlags(u.flags, Last(q)))
              ELSE IF q = path THEN v ELSE refine[q]]
        /\ management' = management \union UNION {Adopt(LayerList(u.list, layer)) : layer \in layers}
    BY <1>5 DEF Recurse
  <2>2. /\ u \in RefineOp /\ u.list = t.list \ Wildcards /\ u.flags = t.flags /\ u.error = None
        /\ u.op = 0 /\ u.next = t.next
    <3>1. 0 \in 0..Reviews /\ t.list \ Wildcards \in SUBSET Apps
      BY RefineAssumption DEF RefineAssumption, Reviews, RefineOp
    <3> QED
      BY <1>5, <3>1 DEF RefineOp
  <2>3. \A layer : layer \in layers <=> layer \in t.flags \intersect Layers
                      /\ LayerList(u.list, layer) # {} /\ LayerFlags(u.flags, layer) # {}
    BY <2>2 DEF LayersOf
  <2> HIDE DEF u
  <2>4. /\ v \in RefineOp /\ v.list = u.list /\ v.flags = t.flags /\ v.error = None
        /\ v.op = 0 /\ v.layers = layers /\ v.returned = (layers = {})
    BY <2>2, <2>3 DEF RefineOp, Returns
  <2> HIDE DEF v, layers
  <2>5. \A layer \in layers : \A k \in DOMAIN path : path[k] # layer
    BY <2>3 DEF AllAnswered, RefineOK, PathOK, TreeOK
  <2>6. ASSUME NEW layer \in layers
        PROVE  /\ Append(path, layer) \in Paths /\ Append(path, layer) # <<>>
               /\ Front(Append(path, layer)) = path /\ Last(Append(path, layer)) = layer
    BY <1>1, <2>3, <2>5, ChildPath
  <2>7. \A q \in child : /\ q \in Paths /\ q # <<>> /\ Front(q) = path /\ Last(q) \in layers
                         /\ q = Append(path, Last(q)) /\ q \notin DOMAIN refine
    BY <2>6, NoChild
  <2> HIDE DEF child
  <2>8. /\ DOMAIN refine' = DOMAIN refine \union child /\ refine'[path] = v
        /\ \A q \in DOMAIN refine : q # path => refine'[q] = refine[q]
        /\ \A q \in child : refine'[q] = new(Last(q))
    BY <2>1, <2>7
  <2>9. ASSUME NEW layer \in layers
        PROVE  Started(new(layer), LayerList(u.list, layer), LayerFlags(t.flags, layer))
    <3>1. LayerList(u.list, layer) \in SUBSET Apps
      <4>1. layer \in Layers /\ u.list \in SUBSET Apps
        BY <2>2, <2>3 DEF RefineOp
      <4>2. Parts[layer] \in [Apps -> SUBSET Apps]
        BY <4>1, RefineAssumption DEF RefineAssumption
      <4> QED
        BY <4>1, <4>2 DEF LayerList
    <3>2. LayerFlags(t.flags, layer) \in SUBSET Flags
      BY DEF RefineOp, LayerFlags
    <3>3. PICK listed : listed = LayerList(u.list, layer)
      OBVIOUS
    <3>4. PICK flags : flags = LayerFlags(t.flags, layer)
      OBVIOUS
    <3>5. new(layer) = NewRefine(listed, flags)
      BY <2>2, <3>3, <3>4
    <3> QED
      BY <3>1, <3>2, <3>3, <3>4, <3>5, NewRefineStarts
  <2> HIDE DEF new
  <2>10. RefinesAreTyped'
    BY <2>4, <2>7, <2>8, <2>9 DEF RefinesAreTyped, Started
  <2>11. ASSUME NEW q \in DOMAIN refine, q # path
         PROVE  PathOK(q)'
    BY <1>2, <2>8, <2>11, OtherPath DEF RefineOK
  <2>12. PathOK(path)'
    <3>1. StageOK(refine[path])'
      BY <2>4, <2>8 DEF StageOK
    <3>2. TreeOK(path, refine[path])'
      <4>1. path # <<>> => refine'[Front(path)] = refine[Front(path)] /\ Front(path) \in DOMAIN refine'
        BY <1>1, <2>8
      <4> QED
        BY <1>1, <2>4, <2>8, <4>1 DEF AllAnswered, RefineOK, PathOK, TreeOK
    <3>3. StartList(path)' = StartList(path)
      BY <1>1, <2>8 DEF StartList, LayerList, inputs
    <3>4. \A layer \in LayersOf(refine[path])' : layer \in layers
      BY <2>2, <2>3, <2>4, <2>8 DEF LayersOf, LayerList
    <3>5. \A p \in Answered(refine[path])' : p \in refiners /\ p <= t.next
      BY <2>8 DEF Answered, inputs
    <3>6. ListOK(path, refine[path])'
      <4>1. /\ StartList(path) \ Wildcards \subseteq v.list /\ v.list \subseteq t.list
            /\ \A p \in refiners, i \in t.list \ Wildcards :
                  p <= t.next => Passed(refined', p, i, StartList(path))
        BY <1>5, <2>2, <2>4 DEF AllAnswered
      <4>2. \A p \in Answered(refine[path])', i \in v.list \ Wildcards : Passed(refined, p, i, StartList(path))'
        BY <1>3, <3>3, <3>5, <4>1
      <4> QED
        BY <2>4, <2>8, <3>3, <3>4, <4>1, <4>2 DEF ListOK
    <3> QED
      BY <3>1, <3>2, <3>6 DEF PathOK
  <2>13. ASSUME NEW q \in child
         PROVE  PathOK(q)'
    <3> DEFINE layer == Last(q)
               w == new(layer)
    <3>1. layer \in layers /\ Front(q) = path /\ q # <<>> /\ q = Append(path, layer) /\ refine'[q] = w
      BY <2>7, <2>8
    <3> HIDE DEF layer
    <3>2. StageOK(refine[q])'
      BY <2>9, <3>1 DEF StageOK, inputs, Started
    <3>3. TreeOK(q, refine[q])'
      <4>1. path \in Seq(Layers)
        BY <1>1, PathsAreSequences
      <4>2. DOMAIN q = 1..(Len(path) + 1) /\ \A k \in 1..Len(path) : q[k] = path[k] /\ k \in DOMAIN path
        BY <3>1, <4>1
      <4>3. q[Len(path) + 1] = layer
        BY <3>1, <4>1
      <4>4. \A f \in w.flags : f \in t.flags /\ f # layer
        BY <2>9, <3>1 DEF LayerFlags, Started
      <4>5. \A f \in t.flags : \A k \in DOMAIN path : path[k] # f
        BY DEF AllAnswered, RefineOK, PathOK, TreeOK
      <4>6. \A f \in w.flags : \A k \in DOMAIN q : q[k] # f
        <5> SUFFICES ASSUME NEW f \in w.flags, NEW k \in DOMAIN q PROVE q[k] # f
          OBVIOUS
        <5>1. Len(path) \in Nat
          BY <4>1
        <5>2. k \in 1..Len(path) \/ k = Len(path) + 1
          BY <4>2, <5>1
        <5> QED
          BY <4>2, <4>3, <4>4, <4>5, <5>2
      <4> QED
        BY <2>4, <2>8, <3>1, <4>6 DEF TreeOK, layer
    <3>4. StartList(q)' = LayerList(u.list, layer)
      BY <2>4, <2>8, <3>1 DEF StartList, LayerList, layer
    <3>5. \A p \in Answered(refine[q])' : FALSE
      <4>1. refiners \subseteq Nat
        BY RefineAssumption DEF RefineAssumption, PluginIds
      <4>2. w.op \in Nat /\ \A p \in refiners : w.op <= p
        BY <2>9, <3>1, RefineAssumption DEF Started, RefineOp, RefineAssumption, Reviews
      <4> HIDE DEF w
      <4>3. ASSUME NEW p \in refiners PROVE ~(p < w.op)
        <5>1. p \in Nat /\ w.op \in Nat /\ w.op <= p
          BY <4>1, <4>2
        <5> QED
          BY <5>1
      <4> QED
        BY <2>9, <3>1, <4>3 DEF Answered, inputs, Started, w
    <3>6. ListOK(q, refine[q])'
      <4>1. w.op = 0 => refiners = {}
        BY <2>9, <3>1 DEF Started
      <4> QED
        BY <2>9, <3>1, <3>4, <3>5, <4>1 DEF ListOK, inputs, Started
    <3> QED
      BY <3>2, <3>3, <3>6 DEF PathOK
  <2>14. management' \subseteq Apps
    BY <2>1, RefineAssumption DEF Adopt, RefineAssumption
  <2> QED
    BY <2>4, <2>8, <2>10, <2>11, <2>12, <2>13, <2>14 DEF RefineOK
<1> QED
  BY <1>4, <1>5

\* What a step of one refine keeps of all of them.
RefinesKept(path) ==
    /\ RefinesAreTyped' /\ RefineOK' /\ management' \subseteq Apps
    /\ path \in DOMAIN refine' /\ refine'[path].flags = refine[path].flags
    /\ \A q \in DOMAIN refine : q # path => q \in DOMAIN refine' /\ refine'[q] = refine[q]

(* What has answered is followed by the next one, or by the layers.          *)
LEMMA FinishOpKeeps ==
    ASSUME RefinesAreTyped, RefineOK, NEW path \in DOMAIN refine, refine[path].layers = {},
           NEW t \in RefineOp, AllAnswered(path, t, refined'),
           refiners \subseteq PluginIds, addons \in [Apps -> SUBSET Apps], management \subseteq Apps,
           FinishOp(path, t),
           refined \subseteq refined', UNCHANGED <<inputs, addons>>
    PROVE  RefinesKept(path)
<1> DEFINE rest == NextRefiners(t.next)
<1>1. /\ NPlugins \in Nat /\ t.next \in Nat /\ t.flags = refine[path].flags
      /\ \A p \in refiners : p \in Nat /\ p # 0 /\ p <= NPlugins /\ p \in 0..Reviews
  BY RefineAssumption DEF RefineAssumption, PluginIds, AllAnswered, RefineOp, Reviews
<1>2. rest \in SUBSET PluginIds
  BY DEF NextRefiners
<1>3. ASSUME NEW op \in refiners \union {Reviews}, op \in 0..Reviews, op # 0,
             \A p \in refiners : p < op => p <= t.next,
             refine' = [refine EXCEPT ![path] = [t EXCEPT !.op = op, !.next = op]],
             UNCHANGED management
      PROVE  RefinesKept(path)
  <2>1. RefinesAreTyped' /\ RefineOK'
    BY <1>3, AskKeeps
  <2>2. [t EXCEPT !.op = op, !.next = op].flags = t.flags
    BY DEF RefineOp
  <2> QED
    BY <1>1, <1>3, <2>1, <2>2 DEF RefinesKept
<1>4. CASE rest # {}
  <2> DEFINE first == First(rest)
  <2>1. first \in rest /\ \A q \in rest : first <= q
    BY <1>2, <1>4, FirstIsFirst
  <2>2. first \in refiners /\ first > t.next
    BY <2>1 DEF NextRefiners
  <2>3. refine' = [refine EXCEPT ![path] = [t EXCEPT !.op = first, !.next = first]] /\ UNCHANGED management
    BY <1>4 DEF FinishOp
  <2> HIDE DEF first
  <2>4. \A p \in refiners : p < first => p <= t.next
    <3> SUFFICES ASSUME NEW p \in refiners, p < first, ~(p <= t.next) PROVE FALSE
      OBVIOUS
    <3>1. p > t.next
      BY <1>1
    <3>2. p \in rest
      BY <3>1 DEF NextRefiners
    <3> QED
      BY <1>1, <2>1, <2>2, <3>2
  <2>5. PICK op : op = first
    OBVIOUS
  <2> QED
    BY <1>1, <1>3, <2>2, <2>3, <2>4, <2>5
<1>5. CASE rest = {}
  <2>1. \A p \in refiners : p <= t.next
    <3> SUFFICES ASSUME NEW p \in refiners, ~(p <= t.next) PROVE FALSE
      OBVIOUS
    <3>1. p > t.next
      BY <1>1
    <3> QED
      BY <1>5, <3>1 DEF NextRefiners
  <2>2. CASE t.next = NPlugins /\ AsksReviews(t)
    <3>1. refine' = [refine EXCEPT ![path] = [t EXCEPT !.op = Reviews, !.next = NPlugins + 1]]
          /\ UNCHANGED management
      BY <1>5, <2>2 DEF FinishOp
    <3>2. Reviews = NPlugins + 1 /\ Reviews \in 0..Reviews /\ Reviews # 0
      BY <1>1 DEF Reviews
    <3>3. PICK op : op = Reviews
      OBVIOUS
    <3>4. refine' = [refine EXCEPT ![path] = [t EXCEPT !.op = op, !.next = op]]
      BY <3>1, <3>2, <3>3
    <3> QED
      BY <1>3, <2>1, <3>1, <3>2, <3>3, <3>4
  <2>3. CASE t.next = NPlugins /\ ~AsksReviews(t)
    <3>1. PICK v : v = [t EXCEPT !.next = NPlugins + 1]
      OBVIOUS
    <3>2. Recurse(path, v)
      BY <1>5, <2>3, <3>1 DEF FinishOp
    <3>3. NPlugins + 1 \in 0..Reviews
      BY <1>1 DEF Reviews
    <3>4. /\ v \in RefineOp /\ v.next = NPlugins + 1 /\ v.flags = t.flags /\ v.op = t.op /\ v.list = t.list
          /\ v.layers = t.layers /\ v.returned = t.returned /\ v.error = t.error
      BY <3>1, <3>3 DEF RefineOp
    <3>5. \A p \in refiners : p <= v.next
      BY <1>1, <3>4
    <3>6. AllAnswered(path, v, refined')
      BY <2>1, <3>4 DEF AllAnswered
    <3> QED
      BY <1>1, <3>2, <3>4, <3>5, <3>6, RecurseKeeps DEF RefinesKept
  <2>4. CASE t.next # NPlugins
    <3>1. Recurse(path, t)
      BY <1>5, <2>4 DEF FinishOp
    <3> QED
      BY <1>1, <2>1, <3>1, RecurseKeeps DEF RefinesKept
  <2> QED
    BY <2>2, <2>3, <2>4
<1> QED
  BY <1>4, <1>5

(* A refine with no plugin to ask.                                           *)
LEMMA NothingToAskKeeps ==
    ASSUME RefineTypeOK, RefineOK, NEW path \in Paths, NothingToAsk(path)
    PROVE  path \in DOMAIN refine /\ RefinesKept(path)
<1>1. /\ RefinesAreTyped /\ refiners \subseteq PluginIds
      /\ addons \in [Apps -> SUBSET Apps] /\ management \subseteq Apps
  BY DEF RefineTypeOK, RefinesAreTyped
<1>2. /\ path \in DOMAIN refine /\ refined' = refined /\ UNCHANGED <<inputs, addons>>
  BY DEF NothingToAsk
<1>3. PICK t : t = refine[path]
  OBVIOUS
<1>4. t.op = 0 /\ t.layers = {} /\ ~t.returned /\ FinishOp(path, t)
  BY <1>3 DEF NothingToAsk
<1>5. t \in RefineOp
  BY <1>1, <1>2, <1>3 DEF RefinesAreTyped
<1>6. AllAnswered(path, t, refined')
  <2>1. StageOK(t) /\ ListOK(path, t)
    BY <1>2, <1>3 DEF RefineOK, PathOK
  <2>2. \A p \in refiners : p \in Answered(t)
    BY <1>4 DEF Answered
  <2> QED
    BY <1>2, <1>3, <1>4, <2>1, <2>2 DEF AllAnswered, ListOK
<1> QED
  BY <1>1, <1>2, <1>3, <1>4, <1>5, <1>6, FinishOpKeeps

(* What was asked answers.                                                   *)
LEMMA RefineCbKeeps ==
    ASSUME RefineTypeOK, RefineOK, NEW path \in Paths, RefineCb(path)
    PROVE  /\ path \in DOMAIN refine /\ RefinesKept(path)
           /\ refined' \subseteq (PluginIds \union {Reviews}) \X Apps
<1> DEFINE t == refine[path]
<1>1. /\ RefinesAreTyped /\ refiners \subseteq PluginIds
      /\ addons \in [Apps -> SUBSET Apps] /\ management \subseteq Apps
      /\ refined \subseteq (PluginIds \union {Reviews}) \X Apps
  BY DEF RefineTypeOK, RefinesAreTyped
<1>2. /\ path \in DOMAIN refine /\ t.op # 0 /\ UNCHANGED <<inputs, addons>>
  BY DEF RefineCb
<1>3. /\ t \in RefineOp /\ StageOK(t) /\ ListOK(path, t)
      /\ t.op \in refiners \union {Reviews} /\ t.op = t.next /\ t.layers = {} /\ ~t.returned
  BY <1>1, <1>2 DEF RefinesAreTyped, RefineOK, PathOK, StageOK
<1>4. 0 \in 0..Reviews /\ \A p \in refiners : p \in Nat /\ p < Reviews
  BY <1>1, RefineAssumption DEF RefineAssumption, PluginIds, Reviews
<1>5. CASE FinishOp(path, [t EXCEPT !.op = 0, !.error = Kept(@, <<"failed", t.op>>)]) /\ UNCHANGED refined
  <2>1. PICK v : v = [t EXCEPT !.op = 0, !.error = Kept(@, <<"failed", t.op>>)]
    OBVIOUS
  <2>2. <<"failed", t.op>> \in Errors
    BY <1>1, <1>3 DEF Errors
  <2>3. Kept(t.error, <<"failed", t.op>>) \in Errors
    BY <1>3, <2>2 DEF Kept, RefineOp
  <2>4. /\ v \in RefineOp /\ v.op = 0 /\ v.layers = {} /\ ~v.returned /\ v.flags = t.flags
        /\ v.error = Kept(t.error, <<"failed", t.op>>)
    BY <1>3, <1>4, <2>1, <2>3 DEF RefineOp
  <2>5. v.error # None
    BY <2>3, <2>4, RefineAssumption DEF RefineAssumption, Outcomes
  <2>6. AllAnswered(path, v, refined')
    BY <2>4, <2>5 DEF AllAnswered
  <2> QED
    BY <1>1, <1>2, <1>3, <1>5, <2>1, <2>4, <2>6, FinishOpKeeps
<1>6. ASSUME NEW resolves \in {w \in t.list \intersect Wildcards : t.op # Reviews} \union {None},
             NEW listed, listed = t.list \union IF resolves = None THEN {} ELSE Resolved[resolves],
             FinishOp(path, [t EXCEPT !.op = 0, !.list = listed]),
             refined' = refined \union ({t.op} \X (listed \ Wildcards))
      PROVE  RefinesKept(path) /\ refined' \subseteq (PluginIds \union {Reviews}) \X Apps
  <2>1. PICK v : v = [t EXCEPT !.op = 0, !.list = listed]
    OBVIOUS
  <2>2. listed \in SUBSET Apps
    <3>1. resolves # None => Resolved[resolves] \in SUBSET Apps
      BY <1>6, RefineAssumption DEF RefineAssumption
    <3> QED
      BY <1>3, <1>6, <3>1 DEF RefineOp
  <2>3. /\ v \in RefineOp /\ v.op = 0 /\ v.layers = {} /\ ~v.returned /\ v.flags = t.flags
        /\ v.error = t.error /\ v.list = listed /\ v.next = t.op
    BY <1>3, <1>4, <2>1, <2>2 DEF RefineOp
  <2>4. refined \subseteq refined' /\ refined' \subseteq (PluginIds \union {Reviews}) \X Apps
    BY <1>1, <1>3, <1>6, <2>2
  <2>5. AllAnswered(path, v, refined')
    <3>1. SUFFICES ASSUME t.error = None
                   PROVE  /\ StartList(path) \ Wildcards \subseteq listed
                          /\ \A p \in refiners, i \in listed \ Wildcards :
                                p <= t.op => Passed(refined', p, i, StartList(path))
      BY <2>3 DEF AllAnswered
    <3>2. StartList(path) \ Wildcards \subseteq t.list
      BY <1>3, <3>1 DEF ListOK
    <3>3. ASSUME NEW p \in refiners, NEW i \in listed \ Wildcards, p <= t.op
          PROVE  Passed(refined', p, i, StartList(path))
      <4>1. CASE p = t.op
        BY <1>6, <4>1 DEF Passed
      <4>2. CASE p # t.op /\ i \in t.list
        <5>1. p \in Answered(t)
          BY <1>3, <1>4, <3>3, <4>2 DEF Answered, Reviews
        <5> QED
          BY <1>3, <2>4, <3>1, <4>2, <5>1 DEF ListOK, Passed
      <4>3. CASE p # t.op /\ i \notin t.list
        <5>1. resolves # None /\ t.op # Reviews
          BY <1>6, <4>3
        <5>2. t.op \in refiners /\ t.op > p
          BY <1>3, <1>4, <3>3, <4>3, <5>1
        <5>3. i \notin StartList(path)
          BY <3>2, <4>3
        <5>4. <<t.op, i>> \in refined'
          BY <1>6
        <5> QED
          BY <5>2, <5>3, <5>4 DEF Passed
      <4> QED
        BY <4>1, <4>2, <4>3
    <3> QED
      BY <1>6, <3>2, <3>3
  <2> QED
    BY <1>1, <1>2, <1>3, <1>6, <2>1, <2>3, <2>4, <2>5, FinishOpKeeps
<1> QED
  BY <1>1, <1>2, <1>5, <1>6 DEF RefineCb

(* The refine of a layer is taken notice of by the one that waits for it.    *)
LEMMA RecursionCbKeeps ==
    ASSUME RefinesAreTyped, RefineOK, NEW path \in Paths, RecursionCb(path)
    PROVE  /\ RefinesAreTyped' /\ RefineOK' /\ path \in DOMAIN refine
           /\ <<>> \in DOMAIN refine => <<>> \in DOMAIN refine' /\ refine'[<<>>].flags = refine[<<>>].flags
<1>1. /\ path \in DOMAIN refine /\ path # <<>> /\ refine[path].returned
      /\ refined' = refined /\ UNCHANGED <<inputs, addons>>
  BY DEF RecursionCb
<1>2. PICK parent : parent = Front(path)
  OBVIOUS
<1>3. PICK layer : layer = Last(path)
  OBVIOUS
<1>4. /\ parent \in DOMAIN refine /\ parent # path /\ layer \in refine[parent].layers
      /\ path = Append(parent, layer)
  BY <1>1, <1>2, <1>3, ParentPath DEF RefineOK, PathOK, TreeOK
<1>5. PICK t : t = refine[parent]
  OBVIOUS
<1>6. PICK c : c = refine[path]
  OBVIOUS
<1>7. /\ t \in RefineOp /\ t.op = 0 /\ ~t.returned /\ layer \in t.layers
      /\ StageOK(t) /\ TreeOK(parent, t) /\ ListOK(parent, t)
      /\ c \in RefineOp /\ c.returned /\ c.op = 0 /\ c.layers = {} /\ ListOK(path, c)
  BY <1>1, <1>4, <1>5, <1>6 DEF RefinesAreTyped, RefineOK, PathOK, StageOK
<1> DEFINE left == t.layers \ {layer}
           v == [t EXCEPT !.layers = left, !.error = Kept(@, c.error), !.returned = Returns(left)]
<1>8. refine' = [q \in DOMAIN refine \ {path} |-> IF q = parent THEN v ELSE refine[q]]
  BY <1>2, <1>3, <1>5, <1>6 DEF RecursionCb
<1>9. /\ v \in RefineOp /\ v.list = t.list /\ v.flags = t.flags /\ v.op = 0 /\ v.layers = left
      /\ v.error = Kept(t.error, c.error) /\ v.returned = (left = {})
  BY <1>7 DEF RefineOp, Kept, Returns
<1> HIDE DEF v
<1>10. /\ DOMAIN refine' = DOMAIN refine \ {path} /\ refine'[parent] = v
       /\ \A q \in DOMAIN refine : q # path /\ q # parent => refine'[q] = refine[q]
  BY <1>4, <1>8
<1>11. RefinesAreTyped'
  BY <1>9, <1>10 DEF RefinesAreTyped
<1>12. ASSUME NEW q \in DOMAIN refine, q # path
       PROVE  q # <<>> => /\ Front(q) \in DOMAIN refine' /\ refine'[Front(q)].list = refine[Front(q)].list
                          /\ Last(q) \in refine'[Front(q)].layers
  <2> SUFFICES ASSUME q # <<>>
               PROVE  /\ Front(q) \in DOMAIN refine' /\ refine'[Front(q)].list = refine[Front(q)].list
                      /\ Last(q) \in refine'[Front(q)].layers
    OBVIOUS
  <2>1. /\ Front(q) \in DOMAIN refine /\ Last(q) \in refine[Front(q)].layers /\ q = Append(Front(q), Last(q))
    BY ParentPath DEF RefinesAreTyped, RefineOK, PathOK, TreeOK
  <2>2. Front(q) # path
    BY <1>1, <1>6, <1>7, NoChild
  <2>3. CASE Front(q) = parent
    <3>1. Last(q) # layer
      BY <1>4, <1>12, <2>1, <2>3
    <3> QED
      BY <1>5, <1>9, <1>10, <2>1, <2>2, <2>3, <3>1
  <2>4. CASE Front(q) # parent
    BY <1>10, <2>1, <2>2, <2>4
  <2> QED
    BY <2>3, <2>4
<1>13. ASSUME NEW q \in DOMAIN refine, q # path, q # parent
       PROVE  PathOK(q)'
  BY <1>1, <1>10, <1>12, <1>13, OtherPath DEF RefineOK
<1>14. PathOK(parent)'
  <2>1. StageOK(refine[parent])'
    BY <1>9, <1>10 DEF StageOK
  <2>2. TreeOK(parent, refine[parent])'
    BY <1>4, <1>7, <1>9, <1>10, <1>12 DEF TreeOK
  <2>3. StartList(parent)' = StartList(parent)
    BY <1>1, <1>4, <1>12 DEF StartList, LayerList, inputs
  <2>4. Answered(refine[parent])' = refiners
    BY <1>1, <1>9, <1>10 DEF Answered, inputs
  <2>5. /\ LayersOf(refine[parent])' = LayersOf(t)
        /\ \A l : LayerList(refine[parent].list, l)' = LayerList(t.list, l)
    BY <1>1, <1>9, <1>10 DEF LayersOf, LayerList, LayerFlags
  <2>6. \A p, i, start : Passed(refined, p, i, start)' <=> Passed(refined, p, i, start)
    BY <1>1 DEF Passed, inputs
  <2>7. Answered(t) = refiners /\ Answered(c) = refiners
    BY <1>7 DEF Answered
  <2>8. StartList(path) = LayerList(t.list, layer)
    BY <1>1, <1>2, <1>3, <1>5 DEF StartList
  <2>9. c.error = None => \A p \in refiners : \A part \in LayerList(t.list, layer) \ Wildcards : <<p, part>> \in refined
    BY <1>7, <2>7, <2>8 DEF ListOK, Passed
  <2>10. v.error = None => t.error = None /\ c.error = None
    BY <1>9 DEF Kept
  <2>11. ListOK(parent, refine[parent])'
    <3>1. SUFFICES ASSUME v.error = None PROVE ListOK(parent, refine[parent])'
      BY <1>10 DEF ListOK
    <3>2. StartList(parent) \ Wildcards \subseteq t.list
      BY <1>7, <2>10, <3>1 DEF ListOK
    <3>3. \A p \in refiners, i \in t.list \ Wildcards : Passed(refined, p, i, StartList(parent))
      BY <1>7, <2>7, <2>10, <3>1 DEF ListOK
    <3>4. \A l \in LayersOf(t) \ left, p \in refiners :
             \A part \in LayerList(t.list, l) \ Wildcards : <<p, part>> \in refined
      BY <1>7, <2>9, <2>10, <3>1 DEF ListOK
    <3> QED
      BY <1>1, <1>9, <1>10, <2>3, <2>4, <2>5, <2>6, <3>2, <3>3, <3>4 DEF ListOK, inputs
  <2> QED
    BY <2>1, <2>2, <2>11 DEF PathOK
<1>15. RefineOK'
  BY <1>10, <1>13, <1>14 DEF RefineOK
<1> QED
  BY <1>1, <1>4, <1>5, <1>9, <1>10, <1>11, <1>15

\* What holds of the refine of a job.
RefineInv == RefineTypeOK /\ RootOK /\ RefineOK /\ FrozenWhileRefined /\ EverybodyRefined

(* A refine starts only when none runs, before anything was removed from the *)
(* addons.                                                                   *)
LEMMA RefineRunKeeps ==
    ASSUME RefineInv, refine = <<>>, refineEnd = None, NEW listed \in SUBSET Apps, NEW flags \in SUBSET Flags,
           NEW filter \in BOOLEAN, RefineRun(listed, flags, filter)
    PROVE  RefineInv'
<1>1. /\ refiners \subseteq PluginIds /\ reviewed \in BOOLEAN /\ addons = Parts["addons"]
      /\ addons \in [Apps -> SUBSET Apps] /\ management \subseteq Apps /\ frozen \in [Apps -> Nat]
      /\ thaws \in Seq(Apps)
  BY DEF RefineInv, RefineTypeOK, RootOK
<1>2. /\ appList' = listed /\ refineFlags' = flags /\ filtering' = filter /\ refined' = {}
      /\ UNCHANGED <<refiners, reviewed, addons, thaws>>
  BY DEF RefineRun
<1>3. <<>> \in Paths
  BY PathsAreSequences
<1>4. CASE flags = {} \/ listed = {}
  <2>1. /\ resultList' = Result(listed, filter) /\ refineEnd' = Ok /\ refine' = <<>>
        /\ UNCHANGED <<frozen, management>>
    BY <1>4 DEF RefineRun
  <2>2. resultList' \subseteq Apps /\ (listed = {} => resultList' = {})
    BY <2>1 DEF Result
  <2>3. DOMAIN refine' = {}
    BY <2>1
  <2>4. RefineTypeOK'
    BY <1>1, <1>2, <2>1, <2>2, <2>3 DEF RefineTypeOK, Outcomes
  <2>5. RootOK' /\ RefineOK'
    BY <1>1, <1>2, <2>1, <2>3 DEF RootOK, RefineOK
  <2>6. FrozenWhileRefined'
    BY <1>2, <2>1 DEF RefineInv, FrozenWhileRefined
  <2>7. EverybodyRefined'
    BY <1>2, <1>4, <2>2 DEF EverybodyRefined
  <2> QED
    BY <2>4, <2>5, <2>6, <2>7 DEF RefineInv
<1>5. CASE ~(flags = {} \/ listed = {})
  <2> DEFINE t == NewRefine(listed, flags)
  <2>1. /\ resultList' = {} /\ refineEnd' = None
        /\ refine' = [path \in {<<>>} |-> t]
        /\ frozen' = [i \in Apps |-> frozen[i] + IF i \in listed THEN 1 ELSE 0]
        /\ management' = management \union Adopt(listed)
    BY <1>5 DEF RefineRun
  <2>2. Started(t, listed, flags)
    BY <1>1, NewRefineStarts
  <2> HIDE DEF t
  <2>3. DOMAIN refine' = {<<>>} /\ refine'[<<>>] = t
    BY <2>1
  <2>4. RefineTypeOK'
    <3>1. management' \subseteq Apps
      BY <1>1, <2>1 DEF Adopt
    <3>2. frozen' \in [Apps -> Nat]
      BY <1>1, <2>1
    <3> QED
      BY <1>1, <1>2, <1>3, <2>1, <2>2, <2>3, <3>1, <3>2 DEF RefineTypeOK, Started
  <2>5. RootOK'
    BY <1>1, <1>2, <2>1, <2>2, <2>3 DEF RootOK, Started
  <2>6. PathOK(<<>>)'
    <3>1. StageOK(refine[<<>>])'
      BY <1>2, <2>2, <2>3 DEF StageOK, Started
    <3>2. TreeOK(<<>>, refine[<<>>])'
      BY <2>3 DEF TreeOK
    <3>3. Answered(refine[<<>>])' = {}
      <4>1. refiners \subseteq Nat
        BY <1>1, RefineAssumption DEF RefineAssumption, PluginIds
      <4>2. t.op \in Nat /\ \A p \in refiners : t.op <= p
        BY <2>2, RefineAssumption DEF Started, RefineOp, RefineAssumption, Reviews
      <4>3. \A p \in refiners : ~(p < t.op)
        BY <4>1, <4>2
      <4> QED
        BY <1>2, <2>2, <2>3, <4>3 DEF Answered, Started
    <3>4. t.op = 0 => refiners' = {}
      BY <1>2, <2>2 DEF Started
    <3>5. ListOK(<<>>, refine[<<>>])'
      BY <1>2, <2>2, <2>3, <3>3, <3>4 DEF ListOK, StartList, Started
    <3> QED
      BY <3>1, <3>2, <3>5 DEF PathOK
  <2>7. RefineOK'
    BY <2>3, <2>6 DEF RefineOK
  <2>8. FrozenWhileRefined'
    <3>1. refine' # <<>>
      BY <2>3
    <3>2. ASSUME NEW i \in Apps
          PROVE  frozen'[i] = Cardinality(Places(thaws, i)) + IF i \in listed THEN 1 ELSE 0
      <4>1. frozen[i] = Cardinality(Places(thaws, i)) + 0
        BY DEF RefineInv, FrozenWhileRefined, Places
      <4>2. Cardinality(Places(thaws, i)) \in Nat
        BY <1>1, PlacesAreFinite
      <4> QED
        BY <2>1, <4>1, <4>2
    <3> QED
      BY <1>2, <3>1, <3>2 DEF FrozenWhileRefined, Places
  <2>9. EverybodyRefined'
    <3>1. Ok # None
      BY RefineAssumption DEF RefineAssumption, Outcomes
    <3> QED
      BY <2>1, <3>1 DEF EverybodyRefined
  <2> QED
    BY <2>4, <2>5, <2>7, <2>8, <2>9 DEF RefineInv
<1> QED
  BY <1>4, <1>5

(* A refine that has returned without an error has passed its list and what  *)
(* its layers add to it to every plugin.                                     *)
LEMMA ReturnedIsRefined ==
    ASSUME RefineInv, refine # <<>>, NEW t, t = refine[<<>>], t.returned, t.error = None,
           NEW p \in refiners, NEW i \in t.list \ Wildcards
    PROVE  /\ Passed(refined, p, i, appList)
           /\ \A layer \in refineFlags \intersect Layers :
                LayerFlags(refineFlags, layer) # {} =>
                   \A part \in Parts[layer][i] \ Wildcards : <<p, part>> \in refined
<1>1. /\ <<>> \in DOMAIN refine /\ t.flags = refineFlags /\ addons = Parts["addons"]
  BY DEF RefineInv, RootOK
<1>2. /\ t \in RefineOp /\ t.op = 0 /\ t.layers = {} /\ ListOK(<<>>, t)
  BY <1>1 DEF RefineInv, RefineTypeOK, RefineOK, PathOK, StageOK
<1>3. p \in Answered(t)
  BY <1>2 DEF Answered
<1>4. Passed(refined, p, i, appList)
  BY <1>2, <1>3 DEF ListOK, StartList
<1>5. ASSUME NEW layer \in refineFlags \intersect Layers, LayerFlags(refineFlags, layer) # {},
             NEW part \in Parts[layer][i] \ Wildcards
      PROVE  <<p, part>> \in refined
  <2>1. part \in LayerList(t.list, layer)
    <3>1. i \in t.list /\ part \in IF layer = "addons" THEN addons[i] ELSE Parts[layer][i]
      BY <1>1, <1>5
    <3> QED
      BY <3>1 DEF LayerList
  <2>2. layer \in LayersOf(t)
    BY <1>1, <1>5, <2>1 DEF LayersOf
  <2> QED
    BY <1>2, <1>5, <2>1, <2>2 DEF ListOK
<1> QED
  BY <1>4, <1>5

(* The refine of the job returns.                                            *)
LEMMA RefineRunCbKeeps ==
    ASSUME RefineInv, RefineRunCb
    PROVE  RefineInv'
<1>1. PICK t : t = refine[<<>>]
  OBVIOUS
<1>2. /\ refine # <<>> /\ t.returned /\ thaws' = thaws \o SetToSeq(appList) /\ refine' = <<>>
      /\ UNCHANGED <<inputs, refined, management, frozen>>
  BY <1>1 DEF RefineRunCb, Thawed
<1>3. /\ refiners \subseteq PluginIds /\ reviewed \in BOOLEAN /\ filtering \in BOOLEAN
      /\ appList \in SUBSET Apps /\ refineFlags \subseteq Flags
      /\ refined \subseteq (PluginIds \union {Reviews}) \X Apps
      /\ addons \in [Apps -> SUBSET Apps] /\ management \subseteq Apps /\ frozen \in [Apps -> Nat]
      /\ thaws \in Seq(Apps) /\ resultList \subseteq Apps
  BY DEF RefineInv, RefineTypeOK
<1>4. /\ <<>> \in DOMAIN refine /\ t \in RefineOp
  BY <1>1, <1>2 DEF RefineInv, RefineTypeOK, RootOK
<1>5. /\ t.list \in SUBSET Apps /\ t.error \in Errors \union {None}
      /\ None \notin Outcomes /\ Ok \notin Errors
  BY <1>4, RefineAssumption DEF RefineOp, RefineAssumption, Outcomes, Ok, Errors
<1>6. \/ t.error # None /\ refineEnd' = t.error /\ UNCHANGED <<addons, resultList>>
      \/ /\ t.error = None /\ refineEnd' = Ok /\ resultList' = Result(t.list, filtering)
         /\ addons' = [i \in Apps |-> addons[i] \ IF i \in t.list THEN {Addon} ELSE {}]
  BY <1>1 DEF RefineRunCb
<1>7. /\ resultList' \subseteq Apps /\ addons' \in [Apps -> SUBSET Apps]
      /\ refineEnd' \in Outcomes
  <2>1. CASE t.error # None /\ refineEnd' = t.error /\ UNCHANGED <<addons, resultList>>
    BY <1>3, <1>5, <2>1 DEF Outcomes
  <2>2. CASE /\ t.error = None /\ refineEnd' = Ok /\ resultList' = Result(t.list, filtering)
             /\ addons' = [i \in Apps |-> addons[i] \ IF i \in t.list THEN {Addon} ELSE {}]
    BY <1>3, <1>5, <2>2 DEF Outcomes, Result
  <2> QED
    BY <1>6, <2>1, <2>2
<1>8. DOMAIN refine' = {}
  BY <1>2
<1>9. thaws' \in Seq(Apps)
  BY <1>2, <1>3, PlacesOfThawed
<1>10. RefineTypeOK'
  BY <1>2, <1>3, <1>7, <1>8, <1>9 DEF RefineTypeOK, inputs
<1>11. RootOK' /\ RefineOK'
  BY <1>2, <1>5, <1>7, <1>8 DEF RootOK, RefineOK
<1>12. FrozenWhileRefined'
  <2>1. ASSUME NEW i \in Apps
        PROVE  frozen[i] = Cardinality(Places(thaws', i)) + 0
    <3>1. frozen[i] = Cardinality(Places(thaws, i)) + IF i \in appList THEN 1 ELSE 0
      BY <1>2 DEF RefineInv, FrozenWhileRefined, Places
    <3>2. Cardinality(Places(thaws', i)) = Cardinality(Places(thaws, i)) + IF i \in appList THEN 1 ELSE 0
      BY <1>2, <1>3, PlacesOfThawed
    <3>3. frozen[i] \in Nat
      BY <1>3
    <3> QED
      BY <3>1, <3>2, <3>3
  <2> QED
    BY <1>2, <2>1 DEF FrozenWhileRefined, Places
<1>13. EverybodyRefined'
  <2>1. CASE t.error # None
    BY <1>5, <1>6, <2>1 DEF EverybodyRefined
  <2>2. CASE t.error = None
    <3>1. \A i \in resultList' : i \in t.list \ Wildcards
      BY <1>6, <2>2, RefineAssumption DEF Result, RefineAssumption
    <3>2. ASSUME NEW p \in refiners, NEW i \in resultList'
          PROVE  /\ <<p, i>> \in refined \/ (i \notin appList /\ \E q \in refiners : q > p /\ <<q, i>> \in refined)
                 /\ \A layer \in refineFlags \intersect Layers :
                      LayerFlags(refineFlags, layer) # {} =>
                         \A part \in Parts[layer][i] \ Wildcards : <<p, part>> \in refined
      BY <1>1, <1>2, <2>2, <3>1, ReturnedIsRefined DEF Passed
    <3> QED
      BY <1>2, <3>2 DEF EverybodyRefined, inputs
  <2> QED
    BY <2>1, <2>2
<1> QED
  BY <1>10, <1>11, <1>12, <1>13 DEF RefineInv

(* An idle source thaws one app that is frozen once more than the others know. *)
LEMMA ThawIdleKeeps ==
    ASSUME RefineInv, ThawIdle
    PROVE  RefineInv'
<1>1. /\ thaws \in Seq(Apps) /\ thaws # <<>> /\ frozen \in [Apps -> Nat]
      /\ frozen' = [frozen EXCEPT ![Head(thaws)] = @ - 1] /\ thaws' = Tail(thaws)
      /\ UNCHANGED <<inputs, refine, refined, addons, management, resultList, refineEnd>>
  BY DEF ThawIdle, RefineInv, RefineTypeOK
<1>2. Head(thaws) \in Apps /\ thaws' \in Seq(Apps)
  BY <1>1, HeadTailProperties
<1> DEFINE atWork(i) == IF refine # <<>> /\ i \in appList THEN 1 ELSE 0
<1>3. ASSUME NEW i \in Apps
      PROVE  frozen'[i] \in Nat /\ frozen'[i] = Cardinality(Places(thaws', i)) + atWork(i)
  <2>1. frozen[i] = Cardinality(Places(thaws, i)) + atWork(i)
    BY DEF RefineInv, FrozenWhileRefined, Places
  <2>2. Cardinality(Places(thaws', i)) = Cardinality(Places(thaws, i)) - IF Head(thaws) = i THEN 1 ELSE 0
    BY <1>1, PlacesOfTail
  <2>3. frozen'[i] = frozen[i] - IF Head(thaws) = i THEN 1 ELSE 0
    BY <1>1
  <2>4. Cardinality(Places(thaws', i)) \in Nat /\ Cardinality(Places(thaws, i)) \in Nat /\ atWork(i) \in Nat
    BY <1>1, <1>2, PlacesAreFinite
  <2> HIDE DEF atWork
  <2> QED
    BY <2>1, <2>2, <2>3, <2>4
<1>4. frozen' \in [Apps -> Nat]
  BY <1>1, <1>3
<1>5. FrozenWhileRefined'
  BY <1>1, <1>3 DEF FrozenWhileRefined, Places, inputs
<1>6. RefineTypeOK'
  BY <1>1, <1>2, <1>4 DEF RefineInv, RefineTypeOK, inputs
<1>7. RootOK'
  BY <1>1 DEF RefineInv, RootOK, inputs
<1>8. RefineOK'
  <2>1. ASSUME NEW q \in DOMAIN refine
        PROVE  PathOK(q)'
    BY <1>1, OtherPath DEF RefineInv, RefineOK, PathOK, TreeOK
  <2> QED
    BY <1>1, <2>1 DEF RefineOK
<1>9. EverybodyRefined'
  BY <1>1 DEF RefineInv, EverybodyRefined, inputs
<1> QED
  BY <1>5, <1>6, <1>7, <1>8, <1>9 DEF RefineInv

(* A step that leaves the refine of the job running.                         *)
LEMMA RefineGoesOn ==
    ASSUME RefineInv, refine # <<>>, RefinesAreTyped', RefineOK', management' \subseteq Apps,
           <<>> \in DOMAIN refine', refine'[<<>>].flags = refine[<<>>].flags,
           refined' \subseteq (PluginIds \union {Reviews}) \X Apps,
           UNCHANGED <<inputs, addons, frozen, thaws, resultList, refineEnd>>
    PROVE  RefineInv'
<1>1. refine' # <<>>
  OBVIOUS
<1>2. refineEnd = None /\ refine[<<>>].flags = refineFlags
  BY DEF RefineInv, RootOK
<1>3. Ok # None
  BY RefineAssumption DEF RefineAssumption, Outcomes
<1>4. RefineTypeOK'
  BY DEF RefineInv, RefineTypeOK, RefinesAreTyped, inputs
<1>5. RootOK'
  BY <1>2 DEF RefineInv, RootOK, inputs
<1>6. FrozenWhileRefined'
  BY <1>1 DEF RefineInv, FrozenWhileRefined, inputs
<1>7. EverybodyRefined'
  BY <1>2, <1>3 DEF EverybodyRefined
<1> QED
  BY <1>4, <1>5, <1>6, <1>7 DEF RefineInv

(* Every step of the refine keeps it as it should be, and does nothing but   *)
(* thaw apps when none runs.                                                 *)
LEMMA RefineStepKeeps ==
    ASSUME RefineInv, RefineStep
    PROVE  RefineInv' /\ (refine = <<>> => UNCHANGED <<refine, resultList, refineEnd>>)
<1>1. /\ RefinesAreTyped /\ RefineTypeOK /\ RefineOK
      /\ refined \subseteq (PluginIds \union {Reviews}) \X Apps /\ management \subseteq Apps
      /\ refine # <<>> => <<>> \in DOMAIN refine
  BY DEF RefineInv, RefineTypeOK, RefinesAreTyped, RootOK
<1>2. \A path \in DOMAIN refine : refine # <<>>
  OBVIOUS
<1>3. ASSUME NEW path \in Paths, path \in DOMAIN refine, RefinesKept(path),
             refined' \subseteq (PluginIds \union {Reviews}) \X Apps,
             UNCHANGED <<inputs, addons, frozen, thaws, resultList, refineEnd>>
      PROVE  RefineInv'
  <2>1. refine # <<>> /\ <<>> \in DOMAIN refine
    BY <1>1, <1>2, <1>3
  <2>2. <<>> \in DOMAIN refine' /\ refine'[<<>>].flags = refine[<<>>].flags
    BY <1>3, <2>1 DEF RefinesKept
  <2> QED
    BY <1>3, <2>1, <2>2, RefineGoesOn DEF RefinesKept
<1>4. ASSUME NEW path \in Paths, NothingToAsk(path)
      PROVE  RefineInv' /\ refine # <<>>
  <2>1. path \in DOMAIN refine /\ RefinesKept(path)
    BY <1>1, <1>4, NothingToAskKeeps
  <2>2. UNCHANGED <<inputs, refined, addons, frozen, thaws, resultList, refineEnd>>
    BY <1>4 DEF NothingToAsk
  <2> QED
    BY <1>1, <1>2, <1>3, <2>1, <2>2
<1>5. ASSUME NEW path \in Paths, RefineCb(path)
      PROVE  RefineInv' /\ refine # <<>>
  <2>1. /\ path \in DOMAIN refine /\ RefinesKept(path)
        /\ refined' \subseteq (PluginIds \union {Reviews}) \X Apps
    BY <1>1, <1>5, RefineCbKeeps
  <2>2. UNCHANGED <<inputs, addons, frozen, thaws, resultList, refineEnd>>
    BY <1>5 DEF RefineCb
  <2> QED
    BY <1>2, <1>3, <2>1, <2>2
<1>6. ASSUME NEW path \in Paths, RecursionCb(path)
      PROVE  RefineInv' /\ refine # <<>>
  <2>1. /\ RefinesAreTyped' /\ RefineOK' /\ path \in DOMAIN refine
        /\ <<>> \in DOMAIN refine => <<>> \in DOMAIN refine' /\ refine'[<<>>].flags = refine[<<>>].flags
    BY <1>1, <1>6, RecursionCbKeeps
  <2>2. UNCHANGED <<inputs, refined, addons, management, frozen, thaws, resultList, refineEnd>>
    BY <1>6 DEF RecursionCb
  <2> QED
    BY <1>1, <1>2, <2>1, <2>2, RefineGoesOn
<1>7. CASE RefineRunCb
  BY <1>7, RefineRunCbKeeps DEF RefineRunCb
<1>8. CASE ThawIdle
  BY <1>8, ThawIdleKeeps DEF ThawIdle
<1> QED
  BY <1>4, <1>5, <1>6, <1>7, <1>8 DEF RefineStep

(* Nothing happens to a refine while the job does something else.            *)
LEMMA RefineRests ==
    ASSUME RefineInv, UNCHANGED refineVars
    PROVE  RefineInv'
<1>1. UNCHANGED <<inputs, refine, refined, addons, management, frozen, thaws, resultList, refineEnd>>
  BY DEF refineVars
<1>2. RefineTypeOK' /\ RootOK'
  BY <1>1 DEF RefineInv, RefineTypeOK, RootOK, inputs
<1>3. ASSUME NEW q \in DOMAIN refine
      PROVE  PathOK(q)'
  BY <1>1, OtherPath DEF RefineInv, RefineOK, PathOK, TreeOK
<1>4. RefineOK'
  BY <1>1, <1>3 DEF RefineOK
<1>5. FrozenWhileRefined' /\ EverybodyRefined'
  BY <1>1 DEF RefineInv, FrozenWhileRefined, EverybodyRefined, inputs
<1> QED
  BY <1>2, <1>4, <1>5 DEF RefineInv

\* The inductive invariant of the jobs.
JobIInv == JobTypeOK /\ RefineInv /\ StagesOK /\ ListsTheBest

(* The operations of a job are finitely many.                                *)
LEMMA OpsAreFinite ==
    ASSUME NEW S \in SUBSET Ops
    PROVE  /\ IsFiniteSet(S) /\ Cardinality(S) \in Nat
           /\ Cardinality(S) = 0 <=> S = {}
<1>1. IsFiniteSet(PluginIds)
  <2>1. 1 \in Int /\ NPlugins \in Int
    BY RefineAssumption DEF RefineAssumption
  <2> QED
    BY <2>1, FS_Interval DEF PluginIds
<1>2. IsFiniteSet(PluginIds \union {Reviews})
  BY <1>1, FS_AddElement
<1>3. IsFiniteSet((PluginIds \union {Reviews}) \union {External})
  BY <1>2, FS_AddElement
<1>4. S \in SUBSET ((PluginIds \union {Reviews}) \union {External})
  BY DEF Ops
<1>5. IsFiniteSet(S)
  BY <1>3, <1>4, FS_Subset
<1> QED
  BY <1>5, FS_CardinalityType, FS_EmptySet

\* What a job is between its start and its last operation.
Asking ==
    /\ refine = <<>> /\ refineEnd = None /\ resultList = {} /\ jobEnd = None

(* finish_op() of a job that is asking.                                      *)
LEMMA FinishJobOpKeeps ==
    ASSUME JobIInv, Asking, NEW kind \in Kinds \ {"refine"}, NEW left \in Nat,
           running' \in SUBSET Ops, left = Cardinality(running'),
           kind # "refresh" => running' \subseteq PluginIds,
           NEW error \in JobErrors \union {None}, NEW listed \in SUBSET Apps,
           NEW flags \in FlagSets \union {{}}, jobKind' = kind, queryFlags' = flags,
           repoProgress = "some" => kind = "repository",
           FinishJobOp(kind, left, error, listed, flags)
    PROVE  JobIInv'
<1>1. /\ kind # None /\ flags \in SUBSET Flags /\ Ok # None /\ "other" \in Flags
      /\ Ok \notin JobErrors
  BY RefineAssumption, JobsAssumption
     DEF RefineAssumption, JobsAssumption, Outcomes, JobErrors, Unsupported, Ok, Flags
<1>2. nPendingOps' = left /\ (left = 0 <=> running' = {})
  BY OpsAreFinite DEF FinishJobOp
<1>3. /\ RefineInv /\ jobList \subseteq Apps /\ repoProgress \in {"unknown", "some"}
      /\ resultList = {} /\ jobEnd = None /\ refine = <<>> /\ refineEnd = None
  BY DEF JobIInv, JobTypeOK, Asking
<1>4. CASE left > 0
  <2>1. /\ savedError' = error /\ merged' = listed /\ progressSource' = (kind = "refresh")
        /\ UNCHANGED <<repoProgress, jobEnd, jobList, refineVars>>
    BY <1>4 DEF FinishJobOp
  <2>2. RefineInv'
    BY <1>3, <2>1, RefineRests
  <2>3. running' # {}
    BY <1>2, <1>4
  <2>4. UNCHANGED <<refine, refineEnd, resultList>>
    BY <2>1 DEF refineVars
  <2>5. JobTypeOK'
    BY <1>2, <1>3, <2>1, <2>2 DEF JobTypeOK, RefineInv
  <2>6. StagesOK'
    BY <1>1, <1>2, <1>3, <2>1, <2>3, <2>4 DEF StagesOK
  <2>7. ListsTheBest'
    BY <1>1, <1>3, <2>1 DEF ListsTheBest
  <2> QED
    BY <2>2, <2>5, <2>6, <2>7 DEF JobIInv
<1>5. CASE ~(left > 0)
  <2>1. running' = {}
    BY <1>2, <1>5
  <2>2. /\ savedError' = None /\ merged' = {} /\ progressSource' = FALSE
        /\ repoProgress' = IF kind = "repository" THEN "unknown" ELSE repoProgress
    BY <1>5 DEF FinishJobOp
  <2>3. repoProgress' = "unknown"
    BY <1>3, <2>2
  <2>4. CASE error # None
    <3>1. jobEnd' = error /\ UNCHANGED <<jobList, refineVars>>
      BY <1>5, <2>4 DEF FinishJobOp
    <3>2. RefineInv' /\ UNCHANGED <<refine, refineEnd, resultList>>
      BY <1>3, <3>1, RefineRests DEF refineVars
    <3>3. JobTypeOK'
      BY <1>2, <1>3, <2>1, <2>2, <2>3, <3>1, <3>2 DEF JobTypeOK, RefineInv
    <3>4. StagesOK'
      BY <1>1, <1>2, <1>3, <2>1, <2>2, <2>3, <3>2 DEF StagesOK
    <3>5. ListsTheBest'
      BY <1>1, <2>4, <3>1 DEF ListsTheBest
    <3> QED
      BY <3>2, <3>3, <3>4, <3>5 DEF JobIInv
  <2>5. CASE error = None /\ RefinesList(kind, listed, flags)
    <3>1. RefineRun(listed, flags \union {"other"}, FALSE) /\ UNCHANGED <<jobEnd, jobList>>
      BY <1>5, <2>5 DEF FinishJobOp
    <3>2. PICK more : more = flags \union {"other"}
      OBVIOUS
    <3>3. more \in SUBSET Flags /\ RefineRun(listed, more, FALSE)
      BY <1>1, <3>1, <3>2
    <3>4. RefineInv'
      BY <1>3, <3>3, RefineRunKeeps
    <3>5. JobTypeOK'
      BY <1>2, <1>3, <2>1, <2>2, <2>3, <3>1, <3>4 DEF JobTypeOK, RefineInv
    <3>6. StagesOK'
      BY <1>1, <1>2, <1>3, <2>1, <2>2, <2>3, <3>1 DEF StagesOK
    <3>7. ListsTheBest'
      BY <1>1, <1>3, <3>1 DEF ListsTheBest
    <3> QED
      BY <3>4, <3>5, <3>6, <3>7 DEF JobIInv
  <2>6. CASE error = None /\ ~RefinesList(kind, listed, flags)
    <3>1. FinishTask(kind, listed) /\ UNCHANGED refineVars
      BY <1>5, <2>6 DEF FinishJobOp
    <3>2. RefineInv' /\ UNCHANGED <<refine, refineEnd, resultList>>
      BY <1>3, <3>1, RefineRests DEF refineVars
    <3>3. jobEnd' = Ok /\ jobList' \subseteq Apps
      BY <3>1 DEF FinishTask, Truncate
    <3>4. JobTypeOK'
      BY <1>2, <1>3, <2>1, <2>2, <2>3, <3>2, <3>3 DEF JobTypeOK, RefineInv, Outcomes
    <3>5. StagesOK'
      BY <1>1, <1>2, <1>3, <2>1, <2>2, <2>3, <3>2 DEF StagesOK
    <3>6. ListsTheBest'
      BY <1>3, <3>2 DEF ListsTheBest
    <3> QED
      BY <3>2, <3>4, <3>5, <3>6 DEF JobIInv
  <2> QED
    BY <2>4, <2>5, <2>6
<1> QED
  BY <1>4, <1>5

(* A job starts when none runs.                                              *)
LEMMA RunJobKeeps ==
    ASSUME JobIInv, RunJob
    PROVE  JobIInv'
<1>1. PICK kind \in Kinds \ {"refine"}, handlers \in SUBSET PluginIds, flags \in FlagSets :
          JobRun(kind, handlers, flags)
  BY DEF RunJob
<1>2. PICK ops : ops = handlers \union (IF kind = "refresh" /\ reviewed THEN {Reviews} ELSE {})
                        \union (IF kind = "refresh" /\ HasExternal THEN {External} ELSE {})
  OBVIOUS
<1>3. PICK error : error = IF kind = "refresh" /\ handlers = {} THEN Unsupported ELSE None
  OBVIOUS
<1>4. /\ jobKind' = kind /\ queryFlags' = flags /\ running' = ops
      /\ FinishJobOp(kind, Cardinality(ops), error, {}, flags)
  BY <1>1, <1>2, <1>3 DEF JobRun, Pending
<1>5. /\ ops \in SUBSET Ops /\ (kind # "refresh" => ops \subseteq PluginIds)
      /\ error \in JobErrors \union {None}
  BY <1>2, <1>3 DEF Ops, JobErrors
<1>6. PICK left : left = Cardinality(ops)
  OBVIOUS
<1>7. left \in Nat
  BY <1>5, <1>6, OpsAreFinite
<1>8. Asking /\ repoProgress # "some"
  BY DEF RunJob, JobIInv, StagesOK, Asking
<1> QED
  BY <1>1, <1>4, <1>5, <1>6, <1>7, <1>8, FinishJobOpKeeps

(* A refine that was asked for starts when no job runs.                      *)
LEMMA RunRefineKeeps ==
    ASSUME JobIInv, RunRefine
    PROVE  JobIInv'
<1>1. PICK listed \in {Lists[p] : p \in PluginIds}, flags \in FlagSets, filter \in BOOLEAN :
          RefineRun(listed, flags, filter)
  BY DEF RunRefine
<1>2. listed \in SUBSET Apps /\ flags \in SUBSET Flags /\ "refine" # None /\ Ok # None
  BY RefineAssumption, JobsAssumption DEF RefineAssumption, JobsAssumption, Outcomes, Kinds
<1>3. /\ jobKind = None /\ jobKind' = "refine"
      /\ UNCHANGED <<queryFlags, running, nPendingOps, savedError, merged, progressSource, repoProgress,
                     jobEnd, jobList>>
  BY DEF RunRefine
<1>4. /\ running = {} /\ refine = <<>> /\ refineEnd = None /\ jobEnd = None
  BY <1>3 DEF JobIInv, StagesOK
<1>5. RefineInv'
  BY <1>1, <1>2, <1>4, RefineRunKeeps DEF JobIInv
<1>6. JobTypeOK'
  BY <1>3, <1>5 DEF JobIInv, JobTypeOK, RefineInv, Kinds
<1>7. StagesOK'
  BY <1>2, <1>3, <1>4 DEF JobIInv, StagesOK
<1>8. ListsTheBest'
  BY <1>2, <1>3, <1>4 DEF ListsTheBest
<1> QED
  BY <1>5, <1>6, <1>7, <1>8 DEF JobIInv

(* What a job is as long as an operation of it has not answered.             *)
LEMMA RunningIsAsking ==
    ASSUME JobIInv, running # {}
    PROVE  Asking /\ jobKind \in Kinds \ {"refine"} /\ nPendingOps = Cardinality(running)
BY DEF JobIInv, StagesOK, Asking

(* The errors of the answers are errors of a job.                            *)
LEMMA ErrorIsKept ==
    ASSUME NEW saved \in JobErrors \union {None}, NEW kind, NEW error \in JobErrors \union {None}
    PROVE  Kept(saved, Counted(kind, error)) \in JobErrors \union {None}
BY DEF Kept, Counted

(* An operation of the job answers.                                          *)
LEMMA JobCbKeeps ==
    ASSUME JobIInv, NEW o \in Ops, JobCb(o)
    PROVE  JobIInv'
<1>1. o \in running /\ jobKind' = jobKind /\ queryFlags' = queryFlags
  BY DEF JobCb
<1>2. Asking /\ jobKind \in Kinds \ {"refine"} /\ nPendingOps = Cardinality(running)
  BY <1>1, RunningIsAsking
<1>3. /\ savedError \in JobErrors \union {None} /\ merged \in SUBSET Apps /\ running \in SUBSET Ops
      /\ queryFlags \in FlagSets \union {{}} /\ (jobKind # "refresh" => running \subseteq PluginIds)
      /\ repoProgress = "some" => jobKind = "repository"
  BY DEF JobIInv, JobTypeOK, StagesOK
<1>4. PICK error \in {None, <<"failed", o>>, Unsupported} :
         /\ running' = running \ {o}
         /\ FinishJobOp(jobKind, nPendingOps - 1, Kept(savedError, Counted(jobKind, error)),
                        IF error = None /\ jobKind \in {"list-apps", "upgrades"}
                        THEN merged \union Lists[o] ELSE merged, queryFlags)
  BY DEF JobCb
<1>5. PICK kind : kind = jobKind
  OBVIOUS
<1>6. PICK left : left = nPendingOps - 1
  OBVIOUS
<1>7. PICK kept : kept = Kept(savedError, Counted(jobKind, error))
  OBVIOUS
<1>8. PICK listed : listed = IF error = None /\ jobKind \in {"list-apps", "upgrades"}
                         THEN merged \union Lists[o] ELSE merged
  OBVIOUS
<1>9. PICK flags : flags = queryFlags
  OBVIOUS
<1>10. FinishJobOp(kind, left, kept, listed, flags)
  BY <1>4, <1>5, <1>6, <1>7, <1>8, <1>9
<1>11. running' \in SUBSET Ops /\ left \in Nat /\ left = Cardinality(running')
  <2>1. IsFiniteSet(running)
    BY <1>3, OpsAreFinite
  <2>2. Cardinality(running \ {o}) = Cardinality(running) - 1
    BY <1>1, <2>1, FS_RemoveElement
  <2>3. running \ {o} \in SUBSET Ops
    BY <1>3
  <2>4. Cardinality(running \ {o}) \in Nat
    BY <2>3, OpsAreFinite
  <2> QED
    BY <1>2, <1>4, <1>6, <2>2, <2>3, <2>4
<1>12. kept \in JobErrors \union {None}
  <2>1. error \in JobErrors \union {None}
    BY <1>4 DEF JobErrors
  <2> QED
    BY <1>3, <1>7, <2>1, ErrorIsKept
<1>13. listed \in SUBSET Apps
  <2>1. jobKind \in {"list-apps", "upgrades"} => Lists[o] \in SUBSET Apps
    <3>1. jobKind \in {"list-apps", "upgrades"} => o \in PluginIds
      BY <1>1, <1>3
    <3> QED
      BY <3>1, JobsAssumption DEF JobsAssumption
  <2> QED
    BY <1>3, <1>8, <2>1
<1>14. kind # "refresh" => running' \subseteq PluginIds
  BY <1>3, <1>4, <1>5
<1>15. jobKind' = kind /\ queryFlags' = flags /\ kind \in Kinds \ {"refine"} /\ flags \in FlagSets \union {{}}
       /\ (repoProgress = "some" => kind = "repository")
  BY <1>1, <1>2, <1>3, <1>5, <1>9
<1> QED
  BY <1>2, <1>10, <1>11, <1>12, <1>13, <1>14, <1>15, FinishJobOpKeeps

(* The refine has returned, and with it the job.                             *)
LEMMA RefineReturnsKeeps ==
    ASSUME JobIInv, RefineReturns
    PROVE  JobIInv'
<1>1. /\ jobKind # None /\ running = {} /\ refine = <<>> /\ refineEnd # None
      /\ UNCHANGED <<jobKind, queryFlags, running, nPendingOps, savedError, merged, progressSource,
                     repoProgress, refineVars>>
  BY DEF RefineReturns
<1>2. RefineInv' /\ UNCHANGED <<refine, refineEnd, resultList>>
  BY <1>1, RefineRests DEF JobIInv, refineVars
<1>3. /\ resultList \in SUBSET Apps /\ refineEnd \in Outcomes /\ jobList \subseteq Apps
  BY <1>1 DEF JobIInv, JobTypeOK, RefineTypeOK
<1>4. \/ refineEnd = Ok /\ FinishTask(jobKind, resultList)
      \/ refineEnd # Ok /\ jobEnd' = refineEnd /\ UNCHANGED jobList
  BY DEF RefineReturns
<1>5. jobEnd' \in Outcomes /\ jobList' \subseteq Apps
  BY <1>3, <1>4 DEF FinishTask, Truncate, Outcomes
<1>6. JobTypeOK'
  BY <1>1, <1>2, <1>5 DEF JobIInv, JobTypeOK, RefineInv
<1>7. StagesOK'
  BY <1>1, <1>2 DEF JobIInv, StagesOK
<1>8. ListsTheBest'
  <2>1. SUFFICES ASSUME jobEnd' = Ok, jobKind = "list-apps",
                        NEW i \in (resultList \intersect Compatible) \ jobList'
                 PROVE  /\ Cardinality({j \in jobList' : Rank[j] < Rank[i]}) = MaxResults
                        /\ MaxResults # 0
    BY <1>1, <1>2 DEF ListsTheBest
  <2>2. PICK listed : listed = resultList \intersect Compatible
    OBVIOUS
  <2>3. listed \in SUBSET Apps /\ jobList' = Truncate(listed)
    BY <1>3, <1>4, <2>1, <2>2 DEF FinishTask
  <2> QED
    BY <2>1, <2>2, <2>3, TruncateKeepsTheBest
<1> QED
  BY <1>2, <1>6, <1>7, <1>8 DEF JobIInv

(* The invariant holds initially, when nothing runs.                         *)
LEMMA JobInitIInv == JobInit => JobIInv
<1> SUFFICES ASSUME JobInit PROVE JobIInv
  OBVIOUS
<1>1. /\ RefineInit
      /\ jobKind = None /\ queryFlags = {} /\ running = {} /\ nPendingOps = 0
      /\ savedError = None /\ merged = {} /\ progressSource = FALSE
      /\ repoProgress = "unknown" /\ jobEnd = None /\ jobList = {}
  BY DEF JobInit
<1>2. /\ refiners \in SUBSET PluginIds /\ reviewed \in BOOLEAN /\ appList = {} /\ refineFlags = {}
      /\ filtering = TRUE /\ refine = <<>> /\ refined = {} /\ addons = Parts["addons"]
      /\ management = {} /\ frozen = [i \in Apps |-> 0] /\ thaws = <<>>
      /\ resultList = {} /\ refineEnd = None
  BY <1>1 DEF RefineInit
<1>3. addons \in [Apps -> SUBSET Apps]
  BY <1>2, RefineAssumption DEF RefineAssumption, Layers
<1>4. DOMAIN refine = {} /\ DOMAIN thaws = {} /\ thaws \in Seq(Apps)
  BY <1>2
<1>5. RefineTypeOK
  BY <1>2, <1>3, <1>4 DEF RefineTypeOK
<1>6. RootOK /\ RefineOK
  BY <1>2, <1>4 DEF RootOK, RefineOK
<1>7. FrozenWhileRefined
  <2>1. ASSUME NEW i PROVE Cardinality({k \in DOMAIN thaws : thaws[k] = i}) = 0
    <3>1. {k \in DOMAIN thaws : thaws[k] = i} = {}
      BY <1>4
    <3> QED
      BY <3>1, FS_EmptySet
  <2> QED
    BY <1>2, <2>1 DEF FrozenWhileRefined
<1>8. EverybodyRefined
  BY <1>2 DEF EverybodyRefined
<1>9. JobTypeOK
  BY <1>1, <1>5 DEF JobTypeOK
<1>10. StagesOK
  BY <1>1, <1>2, FS_EmptySet DEF StagesOK
<1>11. ListsTheBest
  BY <1>2 DEF ListsTheBest
<1> QED
  BY <1>5, <1>6, <1>7, <1>8, <1>9, <1>10, <1>11 DEF JobIInv, RefineInv

(* Every step keeps the invariant.                                           *)
LEMMA JobNextIInv ==
    ASSUME JobIInv, [JobNext]_<<jobVars, refineVars>>
    PROVE  JobIInv'
<1>1. CASE RunJob
  BY <1>1, RunJobKeeps
<1>2. CASE RunRefine
  BY <1>2, RunRefineKeeps
<1>3. ASSUME NEW o \in Ops, JobCb(o)
      PROVE  JobIInv'
  BY <1>3, JobCbKeeps
<1>4. CASE RepositoryProgress
  <2>1. /\ jobKind = "repository" /\ running # {} /\ repoProgress' = "some"
        /\ UNCHANGED <<jobKind, queryFlags, running, nPendingOps, savedError, merged, progressSource,
                       jobEnd, jobList, refineVars>>
    BY <1>4 DEF RepositoryProgress
  <2>2. RefineInv' /\ UNCHANGED <<refine, refineEnd, resultList>>
    BY <2>1, RefineRests DEF JobIInv, refineVars
  <2>3. JobTypeOK'
    BY <2>1, <2>2 DEF JobIInv, JobTypeOK, RefineInv
  <2>4. StagesOK'
    BY <2>1, <2>2 DEF JobIInv, StagesOK
  <2>5. ListsTheBest'
    BY <2>1, <2>2 DEF JobIInv, ListsTheBest
  <2> QED
    BY <2>2, <2>3, <2>4, <2>5 DEF JobIInv
<1>5. CASE RefineReturns
  BY <1>5, RefineReturnsKeeps
<1>6. CASE RefineStepOfJob \/ UNCHANGED <<jobVars, refineVars>>
  <2>1. RefineInv' /\ (refine = <<>> => UNCHANGED <<refine, resultList, refineEnd>>)
    BY <1>6, RefineStepKeeps, RefineRests DEF RefineStepOfJob, JobIInv, refineVars
  <2>2. UNCHANGED <<jobKind, queryFlags, running, nPendingOps, savedError, merged, progressSource,
                    repoProgress, jobEnd, jobList>>
    BY <1>6 DEF RefineStepOfJob, jobVars
  <2>3. JobTypeOK'
    BY <2>1, <2>2 DEF JobIInv, JobTypeOK, RefineInv
  <2>4. StagesOK'
    BY <2>1, <2>2 DEF JobIInv, StagesOK
  <2>5. ListsTheBest'
    <3>1. SUFFICES ASSUME jobEnd = Ok PROVE ListsTheBest'
      BY <2>2 DEF ListsTheBest
    <3>2. Ok # None
      BY RefineAssumption DEF RefineAssumption, Outcomes
    <3>3. UNCHANGED resultList
      BY <2>1, <3>1, <3>2 DEF JobIInv, StagesOK
    <3> QED
      BY <2>2, <3>3 DEF JobIInv, ListsTheBest
  <2> QED
    BY <2>1, <2>3, <2>4, <2>5 DEF JobIInv
<1> QED
  BY <1>1, <1>2, <1>3, <1>4, <1>5, <1>6 DEF JobNext

(* JobInv, the run jobs checks: a job returns when everything it has asked   *)
(* for has answered, and a list is cut behind the best of it.                *)
THEOREM JobsReturnLast == JobSpec => []JobInv
<1>1. JobIInv => JobInv
  <2> SUFFICES ASSUME JobIInv PROVE JobInv
    OBVIOUS
  <2>1. ReturnsLast
    <3>1. jobEnd # None => running = {} /\ refine = <<>>
      BY DEF JobIInv, StagesOK
    <3>2. repoProgress # "some" => repoProgress = "unknown"
      BY DEF JobIInv, JobTypeOK
    <3> QED
      BY <3>1, <3>2 DEF JobIInv, StagesOK, RefineInv, RootOK, ReturnsLast
  <2> QED
    BY <2>1 DEF JobIInv, JobInv
<1> QED
  BY <1>1, JobInitIInv, JobNextIInv, PTL DEF JobSpec

(* EverybodyRefined: a refine that succeeds has passed all its apps, and all *)
(* it was asked to add to them, to every plugin that refines.                *)
THEOREM EverybodyIsAsked == JobSpec => []EverybodyRefined
<1>1. JobIInv => EverybodyRefined
  BY DEF JobIInv, RefineInv
<1> QED
  BY <1>1, JobInitIInv, JobNextIInv, PTL DEF JobSpec

(* FrozenWhileRefined: an app is frozen once by a refine of it, and once by  *)
(* each idle source that will thaw it.                                       *)
THEOREM NoNoticeWhileRefined == JobSpec => []FrozenWhileRefined
<1>1. JobIInv => FrozenWhileRefined
  BY DEF JobIInv, RefineInv
<1> QED
  BY <1>1, JobInitIInv, JobNextIInv, PTL DEF JobSpec

(* FirstErrorStays: the first error that counts is what the job returns.     *)
THEOREM FirstErrorDecides == JobSpec => FirstErrorStays
<1> DEFINE A == /\ savedError # None => jobEnd' \in {None, savedError} /\ savedError' \in {savedError, None}
                /\ savedError # None /\ savedError' = None => jobEnd' = savedError
<1>1. ASSUME JobIInv, [JobNext]_<<jobVars, refineVars>>, savedError # None
      PROVE  /\ jobEnd' \in {None, savedError} /\ savedError' \in {savedError, None}
             /\ savedError' = None => jobEnd' = savedError
  <2>1. running # {} /\ Asking /\ jobKind \in Kinds \ {"refine"} /\ nPendingOps = Cardinality(running)
    BY <1>1, RunningIsAsking DEF JobIInv, StagesOK
  <2>2. jobKind # None
    BY <2>1, JobsAssumption DEF JobsAssumption
  <2>3. ASSUME NEW o \in Ops, JobCb(o)
        PROVE  \/ savedError' = savedError /\ jobEnd' = jobEnd
               \/ savedError' = None /\ jobEnd' = savedError
    <3>1. PICK error \in {None, <<"failed", o>>, Unsupported} :
            FinishJobOp(jobKind, nPendingOps - 1, Kept(savedError, Counted(jobKind, error)),
                        IF error = None /\ jobKind \in {"list-apps", "upgrades"}
                        THEN merged \union Lists[o] ELSE merged, queryFlags)
      BY <2>3 DEF JobCb
    <3>2. Kept(savedError, Counted(jobKind, error)) = savedError
      BY <1>1 DEF Kept
    <3> QED
      BY <1>1, <3>1, <3>2 DEF FinishJobOp
  <2>4. CASE RepositoryProgress \/ RefineStepOfJob \/ UNCHANGED <<jobVars, refineVars>>
    BY <2>1, <2>4 DEF RepositoryProgress, RefineStepOfJob, jobVars, Asking
  <2> QED
    BY <1>1, <2>1, <2>2, <2>3, <2>4 DEF JobNext, RunJob, RunRefine, RefineReturns, Asking
<1>2. JobIInv /\ [JobNext]_<<jobVars, refineVars>> => [A]_<<jobVars, refineVars>>
  BY <1>1
<1> QED
  BY <1>2, JobInitIInv, JobNextIInv, PTL DEF JobSpec, FirstErrorStays

(* ---- A job that runs has somebody to wait for ---- *)

\* Every layer a refine waits for has a refine.
LayersRun == \A q \in DOMAIN refine : \A layer \in refine[q].layers : Append(q, layer) \in DOMAIN refine

\* A job that waits for no plugin has its refine, or what that returned.
StartedOK == jobKind # None /\ jobEnd = None /\ running = {} => refine # <<>> \/ refineEnd # None

(* What has answered starts the layers it waits for.                         *)
LEMMA FinishOpRuns ==
    ASSUME LayersRun, NEW path \in DOMAIN refine, NEW t \in RefineOp, t.layers = {}, FinishOp(path, t)
    PROVE  LayersRun' /\ refine' # <<>>
<1>1. ASSUME NEW op, NEW next,
             refine' = [refine EXCEPT ![path] = [t EXCEPT !.op = op, !.next = next]]
      PROVE  LayersRun' /\ refine' # <<>>
  <2>1. DOMAIN refine' = DOMAIN refine /\ refine'[path].layers = {}
    BY <1>1 DEF RefineOp
  <2>2. \A q \in DOMAIN refine : q # path => refine'[q] = refine[q]
    BY <1>1
  <2> QED
    BY <2>1, <2>2 DEF LayersRun
<1>2. ASSUME NEW s \in RefineOp, s.layers = {}, Recurse(path, s)
      PROVE  LayersRun' /\ refine' # <<>>
  <2>1. CASE s.error # None
    <3>1. refine' = [refine EXCEPT ![path] = [s EXCEPT !.op = 0, !.returned = TRUE]]
      BY <1>2, <2>1 DEF Recurse
    <3>2. DOMAIN refine' = DOMAIN refine /\ refine'[path].layers = {}
      BY <1>2, <3>1 DEF RefineOp
    <3>3. \A q \in DOMAIN refine : q # path => refine'[q] = refine[q]
      BY <3>1
    <3> QED
      BY <3>2, <3>3 DEF LayersRun
  <2>2. CASE s.error = None
    <3> DEFINE v == [s EXCEPT !.list = @ \ Wildcards, !.op = 0]
               layers == LayersOf(v)
               child == {Append(path, layer) : layer \in layers}
               w == [v EXCEPT !.layers = layers, !.returned = Returns(layers)]
    <3>1. refine' = [q \in DOMAIN refine \union child |->
                IF q \in child
                THEN NewRefine(LayerList(v.list, Last(q)), LayerFlags(v.flags, Last(q)))
                ELSE IF q = path THEN w ELSE refine[q]]
      BY <1>2, <2>2 DEF Recurse
    <3>2. w.layers = layers
      BY <1>2 DEF RefineOp
    <3>3. \A q : NewRefine(LayerList(v.list, Last(q)), LayerFlags(v.flags, Last(q))).layers = {}
      BY DEF NewRefine
    <3>4. \A layer \in layers : Append(path, layer) \in child
      OBVIOUS
    <3> HIDE DEF layers, child, w
    <3>5. DOMAIN refine' = DOMAIN refine \union child
      BY <3>1
    <3>6. \A q \in child : refine'[q].layers = {}
      BY <3>1, <3>3
    <3>7. path \notin child => refine'[path].layers = layers
      BY <3>1, <3>2
    <3>8. \A q \in DOMAIN refine : q \notin child /\ q # path => refine'[q] = refine[q]
      BY <3>1
    <3>9. ASSUME NEW q \in DOMAIN refine', NEW layer \in refine'[q].layers
          PROVE  Append(q, layer) \in DOMAIN refine'
      BY <3>4, <3>5, <3>6, <3>7, <3>8, <3>9 DEF LayersRun
    <3>10. LayersRun'
      BY <3>9 DEF LayersRun
    <3>11. path \in DOMAIN refine'
      BY <3>5
    <3> QED
      BY <3>10, <3>11
  <2> QED
    BY <2>1, <2>2
<1>3. NPlugins + 1 \in 0..Reviews
  BY RefineAssumption DEF RefineAssumption, Reviews
<1>4. PICK u : u = [t EXCEPT !.next = NPlugins + 1]
  OBVIOUS
<1>5. u \in RefineOp /\ u.layers = {}
  BY <1>3, <1>4 DEF RefineOp
<1>6. \/ \E op, next : refine' = [refine EXCEPT ![path] = [t EXCEPT !.op = op, !.next = next]]
      \/ Recurse(path, u) \/ Recurse(path, t)
  BY <1>4 DEF FinishOp
<1> QED
  BY <1>1, <1>2, <1>5, <1>6

(* A layer that has returned is waited for no longer.                        *)
LEMMA RecursionCbRuns ==
    ASSUME RefinesAreTyped, RefineOK, LayersRun, NEW path \in Paths, RecursionCb(path)
    PROVE  LayersRun' /\ refine' # <<>>
<1>1. PICK parent : parent = Front(path)
  OBVIOUS
<1>2. PICK last : last = Last(path)
  OBVIOUS
<1>3. PICK left : left = refine[parent].layers \ {last}
  OBVIOUS
<1>4. /\ path \in DOMAIN refine /\ path # <<>>
      /\ refine' = [q \in DOMAIN refine \ {path} |->
            IF q = parent
            THEN [refine[parent] EXCEPT !.layers = left, !.error = Kept(@, refine[path].error),
                                        !.returned = Returns(left)]
            ELSE refine[q]]
  BY <1>1, <1>2, <1>3 DEF RecursionCb
<1>5. /\ parent \in DOMAIN refine /\ parent # path /\ last \in Layers
      /\ path = Append(parent, last)
  BY <1>1, <1>2, <1>4, ParentPath DEF RefineOK, PathOK, TreeOK
<1>6. refine[parent] \in RefineOp
  BY <1>5 DEF RefinesAreTyped
<1>7. /\ DOMAIN refine' = DOMAIN refine \ {path} /\ refine'[parent].layers = left
      /\ \A q \in DOMAIN refine : q # path /\ q # parent => refine'[q] = refine[q]
  BY <1>4, <1>5, <1>6 DEF RefineOp
<1>8. ASSUME NEW q \in DOMAIN refine, NEW layer \in refine[q].layers, Append(q, layer) = path
      PROVE  q = parent /\ layer = last
  <2>1. q \in Seq(Layers) /\ parent \in Seq(Layers) /\ layer \in Layers
    BY <1>5, PathsAreSequences DEF RefinesAreTyped, RefineOp
  <2>2. Append(q, layer) = Append(parent, last)
    BY <1>5, <1>8
  <2> HIDE <1>1, <1>2
  <2> QED
    BY <1>5, <2>1, <2>2, AppendInjective
<1>9. ASSUME NEW q \in DOMAIN refine', NEW layer \in refine'[q].layers
      PROVE  Append(q, layer) \in DOMAIN refine'
  <2>1. q \in DOMAIN refine /\ q # path /\ layer \in refine[q].layers /\ (q = parent => layer # last)
    BY <1>3, <1>7, <1>9
  <2>2. Append(q, layer) # path
    BY <1>8, <2>1
  <2> QED
    BY <1>7, <2>1, <2>2 DEF LayersRun
<1>10. LayersRun'
  BY <1>9 DEF LayersRun
<1>11. parent \in DOMAIN refine'
  BY <1>5, <1>7
<1> QED
  BY <1>10, <1>11

(* A refine that starts has not got to its layers.                           *)
LEMMA RefineRunRuns ==
    ASSUME NEW listed, NEW flags, NEW filter, RefineRun(listed, flags, filter)
    PROVE  LayersRun' /\ (refine' # <<>> \/ refineEnd' # None)
<1>1. CASE flags = {} \/ listed = {}
  <2>1. refineEnd' = Ok /\ refine' = <<>>
    BY <1>1 DEF RefineRun
  <2>2. Ok # None
    BY RefineAssumption DEF RefineAssumption, Outcomes
  <2>3. DOMAIN refine' = {}
    BY <2>1
  <2> QED
    BY <2>1, <2>2, <2>3 DEF LayersRun
<1>2. CASE ~(flags = {} \/ listed = {})
  <2>1. refine' = [path \in {<<>>} |-> NewRefine(listed, flags)]
    BY <1>2 DEF RefineRun
  <2>2. NewRefine(listed, flags).layers = {}
    BY DEF NewRefine
  <2>3. DOMAIN refine' = {<<>>} /\ refine'[<<>>].layers = {}
    BY <2>1, <2>2
  <2>4. refine' # <<>>
    BY <2>3
  <2> QED
    BY <2>3, <2>4 DEF LayersRun
<1> QED
  BY <1>1, <1>2

(* A refine that runs goes on running, or has something to return.           *)
LEMMA RefineStepRuns ==
    ASSUME RefineInv, LayersRun, RefineStep
    PROVE  /\ LayersRun'
           /\ refine # <<>> => refine' # <<>> \/ refineEnd' # None
           /\ refine = <<>> => UNCHANGED <<refine, refineEnd>>
<1>1. /\ RefinesAreTyped /\ RefineOK /\ None \notin Outcomes
      /\ \A path \in DOMAIN refine : refine[path] \in RefineOp /\ StageOK(refine[path])
  BY RefineAssumption DEF RefineInv, RefineTypeOK, RefinesAreTyped, RefineOK, PathOK, RefineAssumption
<1>2. refine = <<>> => UNCHANGED <<refine, refineEnd>>
  BY RefineStepKeeps
<1>3. ASSUME NEW path \in Paths, NothingToAsk(path)
      PROVE  LayersRun' /\ refine' # <<>>
  <2>1. /\ path \in DOMAIN refine /\ refine[path].layers = {} /\ FinishOp(path, refine[path])
    BY <1>3 DEF NothingToAsk
  <2> QED
    BY <1>1, <2>1, FinishOpRuns
<1>4. ASSUME NEW path \in Paths, RefineCb(path)
      PROVE  LayersRun' /\ refine' # <<>>
  <2>1. PICK t : t = refine[path]
    OBVIOUS
  <2>2. path \in DOMAIN refine /\ t \in RefineOp /\ t.op # 0 /\ t.layers = {}
    BY <1>1, <1>4, <2>1 DEF RefineCb, StageOK
  <2>3. CASE FinishOp(path, [t EXCEPT !.op = 0, !.error = Kept(@, <<"failed", t.op>>)])
    <3>1. PICK u : u = [t EXCEPT !.op = 0, !.error = Kept(@, <<"failed", t.op>>)]
      OBVIOUS
    <3>2. t.op \in PluginIds \union {Reviews} /\ 0 \in 0..Reviews
      BY <2>2, RefineAssumption DEF RefineOp, RefineAssumption, PluginIds, Reviews
    <3>3. Kept(t.error, <<"failed", t.op>>) \in Errors \union {None}
      BY <2>2, <3>2 DEF Kept, RefineOp, Errors
    <3>4. u \in RefineOp /\ u.layers = {}
      BY <2>2, <3>1, <3>2, <3>3 DEF RefineOp
    <3> QED
      BY <2>2, <2>3, <3>1, <3>4, FinishOpRuns
  <2>4. ASSUME NEW resolves \in (t.list \intersect Wildcards) \union {None}, NEW listed,
               listed = t.list \union IF resolves = None THEN {} ELSE Resolved[resolves],
               FinishOp(path, [t EXCEPT !.op = 0, !.list = listed])
        PROVE  LayersRun' /\ refine' # <<>>
    <3>1. PICK u : u = [t EXCEPT !.op = 0, !.list = listed]
      OBVIOUS
    <3>2. listed \in SUBSET Apps
      <4>1. resolves # None => Resolved[resolves] \in SUBSET Apps
        BY <2>4, RefineAssumption DEF RefineAssumption
      <4> QED
        BY <2>2, <2>4, <4>1 DEF RefineOp
    <3>3. 0 \in 0..Reviews
      BY RefineAssumption DEF RefineAssumption, Reviews
    <3>4. u \in RefineOp /\ u.layers = {}
      BY <2>2, <3>1, <3>2, <3>3 DEF RefineOp
    <3> QED
      BY <2>2, <2>4, <3>1, <3>4, FinishOpRuns
  <2> QED
    BY <1>4, <2>1, <2>3, <2>4 DEF RefineCb
<1>5. ASSUME NEW path \in Paths, RecursionCb(path)
      PROVE  LayersRun' /\ refine' # <<>>
  BY <1>1, <1>5, RecursionCbRuns
<1>6. CASE RefineRunCb
  <2>1. <<>> \in DOMAIN refine /\ refine' = <<>>
    BY <1>6 DEF RefineRunCb, RefineInv, RootOK
  <2>2. refineEnd' # None
    BY <1>1, <1>6, <2>1 DEF RefineRunCb, Outcomes
  <2>3. DOMAIN refine' = {}
    BY <2>1
  <2> QED
    BY <1>2, <2>2, <2>3 DEF LayersRun
<1>7. CASE ThawIdle
  BY <1>7 DEF ThawIdle, LayersRun
<1> QED
  BY <1>2, <1>3, <1>4, <1>5, <1>6, <1>7 DEF RefineStep

(* finish_op() leaves a job with somebody to wait for, or returns.           *)
LEMMA FinishJobOpRuns ==
    ASSUME LayersRun, NEW kind, NEW left \in Nat, left = 0 <=> running' = {},
           NEW error, NEW listed, NEW flags, FinishJobOp(kind, left, error, listed, flags)
    PROVE  LayersRun' /\ (running' = {} => jobEnd' # None \/ refine' # <<>> \/ refineEnd' # None)
<1>1. CASE left > 0
  BY <1>1 DEF FinishJobOp, LayersRun, refineVars
<1>2. CASE error # None /\ jobEnd' = error /\ UNCHANGED refineVars
  BY <1>2 DEF LayersRun, refineVars
<1>3. CASE RefineRun(listed, flags \union {"other"}, FALSE)
  BY <1>3, RefineRunRuns
<1>4. CASE FinishTask(kind, listed) /\ UNCHANGED refineVars
  <2>1. jobEnd' # None
    BY <1>4, RefineAssumption DEF FinishTask, RefineAssumption, Outcomes
  <2> QED
    BY <1>4, <2>1 DEF LayersRun, refineVars
<1>5. left > 0 \/ left = 0
  OBVIOUS
<1> QED
  BY <1>1, <1>2, <1>3, <1>4, <1>5 DEF FinishJobOp

(* Every step of a job leaves it with somebody to wait for.                  *)
LEMMA JobNextRuns ==
    ASSUME JobIInv, LayersRun, StartedOK, [JobNext]_<<jobVars, refineVars>>
    PROVE  LayersRun' /\ StartedOK'
<1>1. JobIInv'
  BY JobNextIInv
<1>2. nPendingOps' \in Nat /\ (nPendingOps' = 0 <=> running' = {})
  <2>1. running' \in SUBSET Ops /\ nPendingOps' = Cardinality(running')
    BY <1>1 DEF JobIInv, JobTypeOK, StagesOK
  <2> QED
    BY <2>1, OpsAreFinite
<1>3. ASSUME NEW kind, NEW left, NEW error, NEW listed, NEW flags,
             FinishJobOp(kind, left, error, listed, flags)
      PROVE  LayersRun' /\ StartedOK'
  <2>1. left = nPendingOps'
    BY <1>3 DEF FinishJobOp
  <2>2. LayersRun' /\ (running' = {} => jobEnd' # None \/ refine' # <<>> \/ refineEnd' # None)
    BY <1>2, <1>3, <2>1, FinishJobOpRuns
  <2> QED
    BY <2>2 DEF StartedOK
<1>4. CASE RunJob
  BY <1>3, <1>4 DEF RunJob, JobRun
<1>5. CASE RunRefine
  BY <1>5, RefineRunRuns DEF RunRefine, StartedOK
<1>6. ASSUME NEW o \in Ops, JobCb(o)
      PROVE  LayersRun' /\ StartedOK'
  BY <1>3, <1>6 DEF JobCb
<1>7. CASE RepositoryProgress \/ UNCHANGED <<jobVars, refineVars>>
  BY <1>7 DEF RepositoryProgress, LayersRun, StartedOK, jobVars, refineVars
<1>8. CASE RefineReturns
  BY <1>8 DEF RefineReturns, LayersRun, StartedOK, refineVars
<1>9. CASE RefineStepOfJob
  <2>1. /\ LayersRun'
        /\ refine # <<>> => refine' # <<>> \/ refineEnd' # None
        /\ refine = <<>> => UNCHANGED <<refine, refineEnd>>
    BY <1>9, RefineStepRuns DEF RefineStepOfJob, JobIInv
  <2>2. UNCHANGED <<jobKind, running, jobEnd>>
    BY <1>9 DEF RefineStepOfJob, jobVars
  <2>3. JobIInv
    OBVIOUS
  <2>4. refine # <<>> => refineEnd = None
    BY DEF JobIInv, RefineInv, RootOK
  <2> QED
    BY <2>1, <2>2, <2>4 DEF StartedOK
<1> QED
  BY <1>4, <1>5, <1>6, <1>7, <1>8, <1>9 DEF JobNext

(* The deepest refines wait for no layer.                                    *)
LEMMA DeepestWaitsForNone ==
    ASSUME RefinesAreTyped, LayersRun, DOMAIN refine # {}
    PROVE  \E path \in DOMAIN refine : refine[path].layers = {}
<1> DEFINE height(path) == 3 - Len(path)
           S == {height(path) : path \in DOMAIN refine}
<1>1. \A path \in DOMAIN refine : path \in Seq(Layers) /\ height(path) \in Nat
  <2>1. ASSUME NEW path \in DOMAIN refine PROVE height(path) \in Nat
    <3>1. path \in Seq(Layers) /\ Len(path) <= 3
      BY PathsAreSequences DEF RefinesAreTyped
    <3>2. Len(path) \in Nat
      BY <3>1
    <3> QED
      BY <3>1, <3>2
  <2> QED
    BY <2>1, PathsAreSequences DEF RefinesAreTyped
<1>2. S \in SUBSET Nat /\ S # {}
  BY <1>1
<1>3. PICK least \in S : \A n \in S : least <= n
  <2> HIDE DEF S
  <2> QED
    BY <1>2, LeastOne
<1>4. PICK path \in DOMAIN refine : least = height(path)
  OBVIOUS
<1>5. ASSUME NEW layer \in refine[path].layers
      PROVE  FALSE
  <2>1. Append(path, layer) \in DOMAIN refine /\ layer \in Layers
    BY DEF LayersRun, RefinesAreTyped, RefineOp
  <2>2. Len(Append(path, layer)) = Len(path) + 1 /\ Len(path) \in Nat
    BY <1>1, <2>1
  <2>3. height(Append(path, layer)) \in S
    BY <2>1
  <2>4. height(path) <= height(Append(path, layer))
    BY <1>3, <1>4, <2>3
  <2> QED
    BY <2>2, <2>4
<1> QED
  BY <1>5

(* JobGoesOn: however deep the refines of the layers are and wherever one    *)
(* has failed, a job that has not returned has somebody who will go on.      *)
THEOREM JobsGoOn == JobSpec => []JobGoesOn
<1> DEFINE I == JobIInv /\ LayersRun /\ StartedOK
<1>1. JobInit => I
  <2> SUFFICES ASSUME JobInit PROVE I
    OBVIOUS
  <2>1. DOMAIN refine = {} /\ jobKind = None
    BY DEF JobInit, RefineInit
  <2> QED
    BY <2>1, JobInitIInv DEF LayersRun, StartedOK
<1>2. ASSUME I, [JobNext]_<<jobVars, refineVars>>
      PROVE  I'
  BY <1>2, JobNextIInv, JobNextRuns
<1>3. ASSUME I PROVE JobGoesOn
  <2>1. CASE refine # <<>>
    <3>1. RefinesAreTyped /\ <<>> \in DOMAIN refine
      BY <1>3, <2>1 DEF JobIInv, RefineInv, RefineTypeOK, RefinesAreTyped, RootOK
    <3> QED
      BY <1>3, <2>1, <3>1, DeepestWaitsForNone DEF JobGoesOn
  <2>2. CASE refine = <<>>
    BY <1>3, <2>2 DEF StartedOK, JobGoesOn
  <2> QED
    BY <2>1, <2>2
<1> QED
  BY <1>1, <1>2, <1>3, PTL DEF JobSpec

(* JobIsSound, the run jobs checks: a job that has not returned goes on, and *)
(* one that has returned has nothing left to wait for.                       *)
THEOREM JobsAreSound == JobSpec => []JobIsSound
<1>1. JobInv /\ JobGoesOn => JobIsSound
  BY DEF JobIsSound
<1> QED
  BY <1>1, JobsReturnLast, JobsGoOn, PTL
==============================================================================
