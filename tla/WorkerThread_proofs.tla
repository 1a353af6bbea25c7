------------------------ MODULE WorkerThread_proofs ------------------------
(***************************************************************************)
(* Theorems about WorkerThread, for any number of tasks, of threads that   *)
(* queue them and of shutdown calls, and any priorities.                   *)
(***************************************************************************)
EXTENDS WorkerThread, TLAPS

(* The arithmetic the proofs use, apart from the states of the items: the   *)
(* SMT backend mixes badly integers with strings that it cannot type.      *)
LEMMA IntOrder ==
    /\ \A a, b \in Int : a <= b => ~(b < a)
    /\ \A a, b \in Int : a < b => ~(b < a)
    /\ \A a, b, c \in Int : a <= b /\ ~(c <= b) => a < c
    /\ \A a, b, c \in Int : a <= b /\ b <= c => a <= c
  OBVIOUS

(* G_MAXINT is an integer; its value is of no concern.                       *)
LEMMA MaxIntIsInt == MaxInt \in Int
  BY SMT DEF MaxInt

(* What the leaves about attach numbers need of the natural numbers.        *)
LEMMA NatOrder ==
    /\ \A n \in Nat : n + 1 \in Nat
    /\ \A a, b \in Nat : a < b => ~(b < a)
  OBVIOUS

(* Types of a new worker.                                                  *)
LEMMA TypeInit == Init => TypeOK
<1> SUFFICES ASSUME Init PROVE TypeOK
  OBVIOUS
<1>1. /\ workerState \in ThreadStates /\ itemState \in [Items -> ItemStates]
      /\ seqno \in [Items -> Nat] /\ clock \in Nat /\ callState \in [Calls -> CallStates]
  BY DEF Init, ItemStates, CallStates, ThreadStates
<1>2. pending \in [Callers -> Tasks \union {NoTask}]
  BY DEF Init
<1>3. /\ hasContext \in BOOLEAN /\ hasThread \in BOOLEAN /\ exited \in BOOLEAN
      /\ joining \in BOOLEAN /\ disposed \in BOOLEAN /\ overtaken \in SUBSET Tasks
  BY DEF Init
<1> QED
  BY <1>1, <1>2, <1>3 DEF TypeOK

(* Every step keeps the types.                                             *)
LEMMA TypeStep == TypeOK /\ [Next]_vars => TypeOK'
<1> USE ItemsAssumption DEF TypeOK, ItemStates, CallStates, ThreadStates
<1> SUFFICES ASSUME TypeOK, [Next]_vars PROVE TypeOK'
  OBVIOUS
<1>1. ASSUME NEW c \in Callers, NEW t \in Tasks, QueueCheck(c, t) PROVE TypeOK'
  BY <1>1 DEF QueueCheck
<1>2. ASSUME NEW c \in Callers, QueueInvoke(c) PROVE TypeOK'
  <2>0. clock' \in Nat
    <3>1. clock' = clock + 1
      BY <1>2, Zenon DEF QueueInvoke
    <3> QED
      BY <3>1, NatOrder, Zenon
  <2>1. itemState' \in [Items -> ItemStates]
    <3>1. \E st \in ItemStates : itemState' = [itemState EXCEPT ![pending[c]] = st]
      BY <1>2, Zenon DEF QueueInvoke, Places
    <3> QED
      BY <3>1
  <2>2. seqno' \in [Items -> Nat]
    BY <1>2 DEF QueueInvoke
  <2>3. pending' \in [Callers -> Tasks \union {NoTask}]
    BY <1>2 DEF QueueInvoke
  <2> QED
    BY <1>2, <2>0, <2>1, <2>2, <2>3 DEF QueueInvoke
<1>3. ASSUME NEW s \in Calls, ShutdownAsync(s) PROVE TypeOK'
  <2>1. CASE workerState = "running"
    <3>1. /\ itemState' \in [Items -> ItemStates] /\ callState' \in [Calls -> CallStates]
          /\ workerState' \in ThreadStates
      BY <1>3, <2>1 DEF ShutdownAsync, StartShutdown, Items
    <3>2. seqno' \in [Items -> Nat] /\ clock' \in Nat
      BY <1>3, <2>1 DEF ShutdownAsync
    <3> QED
      BY <1>3, <3>1, <3>2 DEF ShutdownAsync
  <2>2. CASE workerState # "running"
    BY <1>3, <2>2 DEF ShutdownAsync
  <2> QED
    BY <2>1, <2>2
<1>4. ASSUME NEW s \in Calls, ShutdownFinish(s) PROVE TypeOK'
  BY <1>4 DEF ShutdownFinish
<1>5. CASE JoinReturns
  BY <1>5 DEF JoinReturns
<1>6. CASE Dispose
  BY <1>6 DEF Dispose
<1>7. CASE Iterate
  BY <1>7 DEF Iterate
<1>8. ASSUME NEW i \in Items, Dispatch(i) PROVE TypeOK'
  BY <1>8 DEF Dispatch
<1>9. ASSUME NEW t \in Tasks, TaskReturns(t) PROVE TypeOK'
  BY <1>9 DEF TaskReturns, Items
<1>10. CASE ShutdownCb
  BY <1>10 DEF ShutdownCb, Items
<1>11. CASE ThreadExits
  BY <1>11 DEF ThreadExits
<1>12. CASE UNCHANGED vars
  BY <1>12 DEF vars
<1> QED
  BY <1>1, <1>2, <1>3, <1>4, <1>5, <1>6, <1>7, <1>8, <1>9, <1>10, <1>11, <1>12
  DEF Next, ClientNext, WorkerNext

\* The state of gs-worker-thread.c keeps its types, whoever queues tasks.
THEOREM TypeCorrect == Spec => []TypeOK
<1>1. Spec => Init /\ [][Next]_vars
  BY DEF Spec, SafeSpec
<1> QED
  BY <1>1, TypeInit, TypeStep, PTL

-----------------------------------------------------------------------------
(* The inductive invariant.                                                *)

(* A new worker: nothing is queued and nothing is shut down.               *)
LEMMA InvInit == Init => Inv
<1> SUFFICES ASSUME Init PROVE Inv
  OBVIOUS
<1>1. TypeOK
  BY TypeInit
<1>2. PhaseInv /\ CallerInv
  BY ItemsAssumption DEF Init, PhaseInv, CallerInv, Items
<1>3. SeqnoInv /\ OrderInv /\ DrainInv
  BY ItemsAssumption DEF Init, SeqnoInv, OrderInv, DrainInv, InOrder, Items, Queued
<1> QED
  BY <1>1, <1>2, <1>3 DEF Inv

(* The invariant is inductive, whoever queues.                             *)
LEMMA InvStep == Inv /\ [Next]_vars => Inv'
<1> USE ItemsAssumption, PriorityAssumption, CallersAssumption
<1> SUFFICES ASSUME Inv, [Next]_vars PROVE Inv'
  OBVIOUS
<1>0. TypeOK /\ PhaseInv /\ CallerInv /\ SeqnoInv /\ OrderInv /\ DrainInv
  BY DEF Inv
<1>t. TypeOK'
  BY <1>0, TypeStep
<1>s. SUFFICES (PhaseInv /\ CallerInv)' /\ SeqnoInv' /\ OrderInv' /\ DrainInv'
  BY <1>t DEF Inv
<1>1. ASSUME NEW c \in Callers, NEW t \in Tasks, QueueCheck(c, t)
      PROVE  (PhaseInv /\ CallerInv)' /\ SeqnoInv' /\ OrderInv' /\ DrainInv'
  <2> USE <1>0, <1>1 DEF QueueCheck, TypeOK, Items
  <2>1. (PhaseInv /\ CallerInv)'
    BY DEF PhaseInv, CallerInv
  <2>2. SeqnoInv'
    BY DEF PhaseInv, SeqnoInv, Queued
  <2>3. OrderInv'
    BY DEF OrderInv, InOrder
  <2>4. DrainInv'
    BY DEF DrainInv, Collected, PhaseInv
  <2> QED
    BY <2>1, <2>2, <2>3, <2>4
<1>2. ASSUME NEW c \in Callers, QueueInvoke(c)
      PROVE  (PhaseInv /\ CallerInv)' /\ SeqnoInv' /\ OrderInv' /\ DrainInv'
  <2> DEFINE t == pending[c]
  <2>0. /\ t \in Tasks /\ itemState[t] = "checked"
        /\ \A d \in Callers : pending[d] = t => d = c
    BY <1>0, <1>2 DEF QueueInvoke, TypeOK, CallerInv
  <2>p. PICK place \in Places : itemState' = [itemState EXCEPT ![t] = place]
    BY <1>2 DEF QueueInvoke
  <2>q. /\ place \in {"attached", "astray", "dropped"}
        /\ place # "attached" => t \in overtaken
        /\ place = "attached" => ~exited
        /\ Collected => t \in overtaken
    <3>1. Collected => t \in overtaken
      BY <1>0, <2>0 DEF DrainInv
    <3>2. ~hasContext => Collected
      BY <1>0 DEF PhaseInv, Collected
    <3>3. hasContext => ~exited
      BY <1>0 DEF PhaseInv
    <3> QED
      BY <2>p, <3>1, <3>2, <3>3 DEF Places
  <2>a. /\ seqno' = [seqno EXCEPT ![t] = clock] /\ clock' = clock + 1
        /\ pending' = [pending EXCEPT ![c] = NoTask]
        /\ UNCHANGED <<workerState, hasContext, hasThread, exited, callState,
                       joining, disposed, overtaken>>
    BY <1>2 DEF QueueInvoke
  <2> HIDE DEF t
  <2> USE <1>0, <2>0, <2>p, <2>q, <2>a DEF TypeOK, Items
  <2>1. (PhaseInv /\ CallerInv)'
    <3>1. PhaseInv'
      BY DEF PhaseInv
    <3>2. CallerInv'
      BY DEF CallerInv
    <3> QED
      BY <3>1, <3>2
  <2>2. SeqnoInv'
    BY DEF SeqnoInv, Queued
  <2>3. OrderInv'
    BY DEF OrderInv, InOrder, SeqnoInv, Queued
  <2>4. DrainInv'
    BY DEF DrainInv, Collected
  <2> QED
    BY <2>1, <2>2, <2>3, <2>4
<1>3. ASSUME NEW s \in Calls, ShutdownAsync(s)
      PROVE  (PhaseInv /\ CallerInv)' /\ SeqnoInv' /\ OrderInv' /\ DrainInv'
  <2> USE <1>0 DEF TypeOK, Items
  <2>1. CASE workerState # "running"
    <3>0. /\ callState[s] = "none" /\ callState' = [callState EXCEPT ![s] = "ready"]
          /\ UNCHANGED <<workerState, hasContext, hasThread, exited, itemState, seqno,
                         clock, pending, joining, disposed, overtaken>>
      BY <1>3, <2>1 DEF ShutdownAsync
    <3>1. PhaseInv'
      <4>1. \A r \in Calls : callState'[r] = "finished" => callState[r] = "finished"
        BY <3>0
      <4> QED
        BY <3>0, <4>1 DEF PhaseInv
    <3>2. CallerInv' /\ SeqnoInv' /\ OrderInv' /\ DrainInv'
      BY <3>0 DEF CallerInv, SeqnoInv, Queued, OrderInv, InOrder, DrainInv, Collected
    <3> QED
      BY <3>1, <3>2
  <2>2. CASE workerState = "running"
    <3>0. /\ itemState[ShutdownTask] = "new" /\ pending[Main] = NoTask /\ ~joining
          /\ itemState' = [itemState EXCEPT ![ShutdownTask] = "attached"]
          /\ seqno' = [seqno EXCEPT ![ShutdownTask] = clock] /\ clock' = clock + 1
          /\ callState' = [callState EXCEPT ![s] = "queued"]
          /\ workerState' = "shutting down"
          /\ UNCHANGED <<hasContext, hasThread, exited, pending, joining, disposed, overtaken>>
      BY <1>3, <2>2 DEF ShutdownAsync, StartShutdown, MainIsFree, PhaseInv
    <3>1. (PhaseInv /\ CallerInv)'
      BY <2>2, <3>0 DEF PhaseInv, CallerInv
    <3>2. SeqnoInv'
      <4>1. \A i \in Items : Queued(i)' <=> Queued(i) \/ i = ShutdownTask
        BY <3>0 DEF Queued
      <4>2. \A i \in Items : i # ShutdownTask => seqno'[i] = seqno[i]
        BY <3>0
      <4>3. seqno'[ShutdownTask] = clock /\ clock' = clock + 1
        BY <3>0
      <4> QED
        BY <4>1, <4>2, <4>3 DEF SeqnoInv
    <3>3. OrderInv'
      <4>1. \A i \in Items : i # ShutdownTask =>
                itemState'[i] = itemState[i] /\ seqno'[i] = seqno[i]
        BY <3>0
      <4>2. \A i \in Items : Queued(i) => seqno[i] < clock
        BY DEF SeqnoInv
      <4>3. itemState'[ShutdownTask] = "attached" /\ seqno'[ShutdownTask] = clock
        BY <3>0
      <4> QED
        BY <4>1, <4>2, <4>3 DEF OrderInv, InOrder, Queued
    <3>4. DrainInv'
      BY <2>2, <3>0 DEF DrainInv, Collected, PhaseInv
    <3> QED
      BY <3>1, <3>2, <3>3, <3>4
  <2> QED
    BY <2>1, <2>2
<1>4. ASSUME NEW s \in Calls, ShutdownFinish(s)
      PROVE  (PhaseInv /\ CallerInv)' /\ SeqnoInv' /\ OrderInv' /\ DrainInv'
  <2>1. /\ ~joining /\ pending[Main] = NoTask /\ callState[s] = "ready"
        /\ callState' = [callState EXCEPT ![s] = "finished"]
        /\ ~hasThread' /\ joining' = hasThread
        /\ UNCHANGED <<workerState, hasContext, exited, itemState, seqno, clock,
                       pending, disposed, overtaken>>
    BY <1>4 DEF ShutdownFinish, MainIsFree
  <2>2. ~hasThread => exited
    BY <1>0, <2>1 DEF PhaseInv
  <2>3. PhaseInv'
    <3>1. \A r \in Calls : callState'[r] = "finished" => ~hasThread'
      BY <2>1
    <3>2. ~hasThread' => joining' \/ exited
      BY <2>1, <2>2
    <3>3. disposed => exited /\ ~joining'
      BY <1>0, <2>1 DEF PhaseInv
    <3> QED
      BY <1>0, <2>1, <3>1, <3>2, <3>3 DEF PhaseInv
  <2>4. CallerInv'
    BY <1>0, <2>1 DEF CallerInv
  <2> QED
    BY <1>0, <2>1, <2>3, <2>4 DEF SeqnoInv, Queued, OrderInv, InOrder, DrainInv, Collected
<1>5. CASE JoinReturns
  BY <1>0, <1>5 DEF JoinReturns, TypeOK, PhaseInv, CallerInv,
     SeqnoInv, Queued, OrderInv, InOrder, DrainInv, Collected
<1>6. CASE Dispose
  BY <1>0, <1>6 DEF Dispose, TypeOK, PhaseInv, CallerInv,
     SeqnoInv, Queued, OrderInv, InOrder, DrainInv, Collected
<1>7. CASE Iterate
  <2> USE <1>0, <1>7 DEF Iterate, Idle, InState, SourcePriority, TypeOK, Items
  <2>1. (PhaseInv /\ CallerInv)'
    BY DEF PhaseInv, CallerInv
  <2>2. SeqnoInv'
    BY DEF SeqnoInv, Queued
  <2>3. OrderInv'
    <3>1. \A i \in Items :
              itemState'[i] # itemState[i] => itemState[i] = "attached" /\ itemState'[i] = "batched"
      OBVIOUS
    <3>2. \A i \in Items : itemState[i] \notin {"batched", "running"}
      OBVIOUS
    <3>3. \A t, u \in Items : itemState'[t] = "attached" /\ itemState'[u] = "batched"
                                => Priority[u] < Priority[t]
      <4> SUFFICES ASSUME NEW t \in Items, NEW u \in Items,
                          itemState'[t] = "attached", itemState'[u] = "batched"
                   PROVE  Priority[u] < Priority[t]
        OBVIOUS
      <4>1. /\ itemState[t] = "attached" /\ itemState[u] = "attached"
            /\ \A j \in Items : itemState[j] = "attached" => Priority[u] <= Priority[j]
        BY <3>1, <3>2
      <4>2. PICK j \in Items : itemState[j] = "attached" /\ ~(Priority[t] <= Priority[j])
        BY <3>1
      <4>3. Priority[u] <= Priority[j]
        BY <4>1, <4>2
      <4>4. Priority[j] \in Int /\ Priority[t] \in Int /\ Priority[u] \in Int
        BY Zenon
      <4> QED
        BY <4>2, <4>3, <4>4, IntOrder, Zenon
    <3> QED
      BY <3>1, <3>2, <3>3 DEF OrderInv, InOrder
  <2>4. DrainInv'
    <3>1. ~exited /\ ~Collected /\ overtaken = {}
      BY DEF PhaseInv, DrainInv, Collected
    <3>2. CASE itemState'[ShutdownTask] # "batched"
      <4>1. overtaken' = {} /\ ~Collected'
        BY <3>1, <3>2 DEF Collected
      <4> QED
        BY <3>1, <4>1 DEF DrainInv
    <3>3. CASE itemState'[ShutdownTask] = "batched"
      <4>1. /\ itemState[ShutdownTask] = "attached"
            /\ \A j \in Items : itemState[j] = "attached" => Priority[ShutdownTask] <= Priority[j]
        BY <3>1, <3>3 DEF Collected
      <4>2. overtaken' = {pending[c] : c \in Callers \ {Main}} \ {NoTask}
        BY <4>1
      <4>3. \A t \in Tasks : itemState'[t] # "attached"
        <5> SUFFICES ASSUME NEW t \in Tasks, itemState'[t] = "attached" PROVE FALSE
          OBVIOUS
        <5>1. itemState[t] = "attached"
          OBVIOUS
        <5>2. PICK j \in Items : itemState[j] = "attached" /\ ~(Priority[t] <= Priority[j])
          BY <5>1
        <5>3. Priority[t] <= MaxInt /\ MaxInt <= Priority[j]
          BY <4>1, <5>2
        <5>4. Priority[t] \in Int /\ Priority[j] \in Int
          BY Zenon
        <5> QED
          BY <5>2, <5>3, <5>4, MaxIntIsInt, IntOrder
      <4>4. workerState # "running"
        BY <4>1 DEF PhaseInv
      <4>5. \A t \in Tasks : itemState[t] = "checked" => t \in overtaken'
        <5> SUFFICES ASSUME NEW t \in Tasks, itemState[t] = "checked" PROVE t \in overtaken'
          OBVIOUS
        <5>1. PICK c \in Callers : pending[c] = t
          BY DEF CallerInv
        <5>2. pending[Main] = NoTask /\ t # NoTask
          BY <4>4 DEF CallerInv
        <5> HIDE <1>7
        <5> QED
          BY <4>2, <5>1, <5>2, Zenon
      <4>6. \A t \in overtaken' : t \in Tasks /\ itemState[t] = "checked"
        <5> SUFFICES ASSUME NEW t \in overtaken' PROVE t \in Tasks /\ itemState[t] = "checked"
          OBVIOUS
        <5>1. PICK c \in Callers : pending[c] = t /\ t # NoTask
          BY <4>2
        <5> QED
          BY <5>1 DEF CallerInv
      <4>7. \A t \in Tasks : /\ itemState'[t] = "checked" <=> itemState[t] = "checked"
                              /\ itemState'[t] \notin {"astray", "dropped"}
        BY <3>1 DEF DrainInv
      <4>8. Collected'
        BY <3>3 DEF Collected
      <4> QED
        BY <3>1, <4>3, <4>5, <4>6, <4>7, <4>8 DEF DrainInv
    <3> QED
      BY <3>2, <3>3
  <2> QED
    BY <2>1, <2>2, <2>3, <2>4
<1>8. ASSUME NEW i \in Items, Dispatch(i)
      PROVE  (PhaseInv /\ CallerInv)' /\ SeqnoInv' /\ OrderInv' /\ DrainInv'
  <2> USE <1>0, <1>8 DEF Dispatch, Turn, InState, TypeOK
  <2>1. (PhaseInv /\ CallerInv)'
    BY DEF PhaseInv, CallerInv, Items
  <2>2. SeqnoInv'
    BY DEF SeqnoInv, Queued, Items
  <2>3. OrderInv'
    BY DEF OrderInv, InOrder, SeqnoInv, Queued
  <2>4. DrainInv'
    BY DEF DrainInv, Collected, PhaseInv, Items
  <2> QED
    BY <2>1, <2>2, <2>3, <2>4
<1>9. ASSUME NEW t \in Tasks, TaskReturns(t)
      PROVE  (PhaseInv /\ CallerInv)' /\ SeqnoInv' /\ OrderInv' /\ DrainInv'
  <2> USE <1>0, <1>9 DEF TaskReturns, TypeOK, Items
  <2>1. PhaseInv'
    BY DEF PhaseInv
  <2>2. CallerInv'
    BY DEF CallerInv
  <2>3. SeqnoInv' /\ OrderInv'
    BY DEF SeqnoInv, Queued, OrderInv, InOrder
  <2>4. DrainInv'
    BY DEF DrainInv, Collected
  <2> QED
    BY <2>1, <2>2, <2>3, <2>4
<1>10. CASE ShutdownCb
  <2> USE <1>0, <1>10 DEF ShutdownCb, TypeOK, Items
  <2>1. PhaseInv'
    BY DEF PhaseInv
  <2>2. CallerInv'
    BY DEF CallerInv
  <2>3. SeqnoInv' /\ OrderInv'
    BY DEF SeqnoInv, Queued, OrderInv, InOrder
  <2>4. DrainInv'
    BY DEF DrainInv, Collected
  <2> QED
    BY <2>1, <2>2, <2>3, <2>4
<1>11. CASE ThreadExits
  <2>1. /\ itemState[ShutdownTask] = "returned" /\ workerState = "shut down"
        /\ \A i \in Items : itemState[i] \notin {"batched", "running"}
    BY <1>0, <1>11 DEF ThreadExits, Idle, InState, PhaseInv
  <2>2. /\ \A i \in Items : itemState'[i] =
              IF itemState[i] = "attached" THEN "dropped" ELSE itemState[i]
        /\ exited'
        /\ UNCHANGED <<workerState, hasContext, hasThread, seqno, clock, pending,
                       callState, joining, disposed, overtaken>>
    BY <1>11 DEF ThreadExits
  <2> USE <1>0, <2>1, <2>2 DEF TypeOK, Items
  <2>3. (PhaseInv /\ CallerInv)'
    <3>1. PhaseInv'
      BY DEF PhaseInv
    <3>2. CallerInv'
      <4>1. \A t \in Tasks : itemState'[t] = "checked" <=> itemState[t] = "checked"
        OBVIOUS
      <4>2. \A c \in Callers : pending[c] # NoTask => pending[c] \in Tasks
        OBVIOUS
      <4> QED
        BY <4>1, <4>2 DEF CallerInv
    <3> QED
      BY <3>1, <3>2
  <2>4. SeqnoInv'
    BY DEF SeqnoInv, Queued
  <2>5. OrderInv'
    BY DEF OrderInv, InOrder
  <2>6. DrainInv'
    BY DEF DrainInv, Collected
  <2> QED
    BY <2>3, <2>4, <2>5, <2>6
<1>12. CASE UNCHANGED vars
  BY <1>0, <1>12 DEF vars, PhaseInv, CallerInv, SeqnoInv, Queued, OrderInv,
     InOrder, DrainInv, Collected
<1> QED
  BY <1>1, <1>2, <1>3, <1>4, <1>5, <1>6, <1>7, <1>8, <1>9, <1>10, <1>11, <1>12
  DEF Next, ClientNext, WorkerNext

(* Hence it holds always.                                                  *)
LEMMA InvAlways == SafeSpec => []Inv
<1>1. Init => Inv
  BY InvInit
<1>2. Inv /\ [Next]_vars => Inv'
  BY InvStep
<1> QED
  BY <1>1, <1>2, PTL DEF SafeSpec

(* At the end of the shutdown every task was run that was not overtaken.    *)
LEMMA InvLosesNothing == Inv => NoTaskLost
<1> SUFFICES ASSUME Inv, exited, NEW t \in Tasks \ overtaken
             PROVE  itemState[t] \in {"new", "returned"}
  BY DEF NoTaskLost
<1>1. Collected
  BY DEF Inv, PhaseInv, Collected
<1>2. itemState[t] \notin {"checked", "attached", "batched", "running", "astray", "dropped"}
  BY <1>1 DEF Inv, DrainInv
<1>3. itemState[t] \in ItemStates
  BY DEF Inv, TypeOK, Items
<1> QED
  BY <1>2, <1>3 DEF ItemStates

\* gs_worker_thread_shutdown_async() loses no task: when the loop ends each
\* task that passed the assertion of gs_worker_thread_queue() has been run, but
\* for those that another thread was handing over at that moment.
THEOREM NothingIsLost == SafeSpec => []NoTaskLost
  BY InvAlways, InvLosesNothing, PTL

\* Tasks start in the order of the queue unless a better priority says
\* otherwise, across iterations of the context.
THEOREM OrderIsKept == SafeSpec => []InOrder
<1>1. Inv => InOrder
  BY DEF Inv, OrderInv
<1> QED
  BY <1>1, InvAlways, PTL

\* The assertion of gs_worker_thread_dispose() is safe: the thread has ended.
THEOREM DisposeIsSafe == SafeSpec => []ThreadEndsFirst
<1>1. Inv => ThreadEndsFirst
  BY DEF Inv, PhaseInv, ThreadEndsFirst
<1> QED
  BY <1>1, InvAlways, PTL

-----------------------------------------------------------------------------
(* The worker implements the abstract executor.                            *)

(* ---- A shutdown goes on until it has ended ---- *)

\* Where the shutdown item and the calls of a shutdown are, whoever the callers
\* of the tasks are.
ShutdownInv ==
    /\ workerState = "shutting down" => itemState[ShutdownTask] \in {"attached", "batched", "running"}
    /\ workerState = "shut down" => \A s \in Calls : callState[s] # "queued"
    /\ workerState # "running" /\ hasThread => \E s \in Calls : callState[s] \in {"queued", "ready"}
    /\ workerState = "running" => \A s \in Calls : callState[s] = "none"
    /\ joining => workerState # "running"

LEMMA ShutdownStep == TypeOK /\ ShutdownInv /\ [Next]_vars => ShutdownInv'
<1> SUFFICES ASSUME TypeOK, ShutdownInv, [Next]_vars
             PROVE  ShutdownInv'
  OBVIOUS
<1>0. /\ itemState \in [Items -> ItemStates] /\ callState \in [Calls -> CallStates]
      /\ pending \in [Callers -> Tasks \union {NoTask}]
      /\ ShutdownTask \in Items /\ ShutdownTask \notin Tasks
  BY ItemsAssumption DEF TypeOK, Items, ItemsAssumption
<1>1. ASSUME UNCHANGED <<workerState, hasThread, callState, joining>>,
             itemState'[ShutdownTask] \in {"attached", "batched", "running"}
                \/ itemState'[ShutdownTask] = itemState[ShutdownTask] \/ workerState = "shut down"
      PROVE  ShutdownInv'
  BY <1>1 DEF ShutdownInv
<1>2. ASSUME NEW c \in Callers, NEW t \in Tasks, QueueCheck(c, t)
      PROVE  ShutdownInv'
  BY <1>0, <1>1, <1>2 DEF QueueCheck
<1>3. ASSUME NEW c \in Callers, QueueInvoke(c)
      PROVE  ShutdownInv'
  BY <1>0, <1>1, <1>3 DEF QueueInvoke
<1>4. ASSUME NEW s \in Calls, ShutdownAsync(s)
      PROVE  ShutdownInv'
  <2>1. CASE workerState # "running"
    <3>1. /\ callState' = [callState EXCEPT ![s] = "ready"] /\ callState[s] = "none"
          /\ UNCHANGED <<workerState, itemState, hasThread, joining>>
      BY <1>4, <2>1 DEF ShutdownAsync
    <3>2. callState'[s] = "ready" /\ \A r \in Calls : r # s => callState'[r] = callState[r]
      BY <1>0, <3>1
    <3> QED
      BY <2>1, <3>1, <3>2 DEF ShutdownInv
  <2>2. CASE workerState = "running"
    <3>1. /\ workerState' = "shutting down" /\ callState'[s] = "queued"
          /\ itemState'[ShutdownTask] = "attached" /\ joining' = joining
      BY <1>0, <1>4, <2>2 DEF ShutdownAsync, StartShutdown
    <3> QED
      BY <3>1 DEF ShutdownInv
  <2> QED
    BY <2>1, <2>2
<1>5. ASSUME NEW s \in Calls, ShutdownFinish(s)
      PROVE  ShutdownInv'
  <2>1. /\ callState[s] = "ready" /\ callState' = [callState EXCEPT ![s] = "finished"]
        /\ ~hasThread' /\ UNCHANGED <<workerState, itemState>>
    BY <1>5 DEF ShutdownFinish
  <2>2. workerState # "running"
    BY <2>1 DEF ShutdownInv
  <2> QED
    BY <1>0, <2>1, <2>2 DEF ShutdownInv
<1>6. CASE JoinReturns \/ Dispose
  <2>1. /\ UNCHANGED <<workerState, hasThread, itemState, callState>>
        /\ joining' => joining
    BY <1>6 DEF JoinReturns, Dispose
  <2> QED
    BY <2>1 DEF ShutdownInv
<1>7. CASE Iterate
  BY <1>0, <1>1, <1>7 DEF Iterate
<1>8. ASSUME NEW i \in Items, Dispatch(i)
      PROVE  ShutdownInv'
  BY <1>0, <1>1, <1>8 DEF Dispatch
<1>9. ASSUME NEW t \in Tasks, TaskReturns(t)
      PROVE  ShutdownInv'
  BY <1>0, <1>1, <1>9 DEF TaskReturns
<1>10. CASE ShutdownCb
  <2>1. /\ workerState = "shutting down" /\ workerState' = "shut down"
        /\ UNCHANGED <<hasThread, joining>>
        /\ \A s \in Calls : callState'[s] = IF callState[s] = "queued" THEN "ready" ELSE callState[s]
    BY <1>10 DEF ShutdownCb
  <2> QED
    BY <2>1 DEF ShutdownInv
<1>11. CASE ThreadExits
  BY <1>0, <1>1, <1>11 DEF ThreadExits
<1>12. CASE UNCHANGED vars
  BY <1>1, <1>12 DEF vars
<1> QED
  BY <1>2, <1>3, <1>4, <1>5, <1>6, <1>7, <1>8, <1>9, <1>10, <1>11, <1>12
  DEF Next, ClientNext, WorkerNext

\* ShutdownGoesOn: at each moment of a shutdown the worker has items left, or a
\* call that will be finished joins its thread; nobody is joined before the
\* shutdown.  It holds for any number of calling threads and of calls.
THEOREM ShutdownIsCarriedOn == SafeSpec => []ShutdownGoesOn
<1>1. Init => TypeOK /\ ShutdownInv
  BY TypeInit DEF Init, ShutdownInv
<1>2. ASSUME TypeOK, ShutdownInv, [Next]_vars
      PROVE  TypeOK' /\ ShutdownInv'
  BY <1>2, TypeStep, ShutdownStep
<1>3. ASSUME TypeOK, ShutdownInv PROVE ShutdownGoesOn
  <2>1. workerState = "shutting down" => ShutdownTask \in InState({"attached", "batched", "running"})
    BY <1>3 DEF ShutdownInv, InState, Items
  <2> QED
    BY <1>3, <2>1 DEF ShutdownInv, ShutdownGoesOn
<1> QED
  BY <1>1, <1>2, <1>3, PTL DEF SafeSpec

\* ShutdownIsSafe, the run worker checks: whichever threads queue tasks, a shutdown
\* goes on to its end, and the object is freed after it.
THEOREM ShutdownEndsSafely == SafeSpec => []ShutdownIsSafe
<1>1. ThreadEndsFirst /\ ShutdownGoesOn => ShutdownIsSafe
  BY DEF ShutdownIsSafe
<1> QED
  BY <1>1, DisposeIsSafe, ShutdownIsCarriedOn, PTL

(* A new worker is an open executor.                                       *)
LEMMA RefinesInit == Init => Executor!Init
<1> SUFFICES ASSUME Init PROVE Executor!Init
  OBVIOUS
<1>1. AbsPhase = "open"
  BY ItemsAssumption DEF Init, AbsPhase, Items
<1>2. AbsOffered = {} /\ AbsTodo = {} /\ AbsActive = {} /\ AbsDone = {}
  BY DEF Init, AbsOffered, AbsTodo, AbsActive, AbsDone, InState, Items
<1> QED
  BY <1>1, <1>2 DEF Executor!Init

\* A step that leaves the phase and the tasks' places alone is a stutter.
LEMMA Stutter ==
  ASSUME AbsPhase' = AbsPhase, AbsOffered' = AbsOffered, AbsTodo' = AbsTodo,
         AbsActive' = AbsActive, AbsDone' = AbsDone
  PROVE  [Executor!Next]_(Executor!vars)
  BY DEF Executor!vars

(* Each step of the worker is one of the executor, or invisible to it.     *)
LEMMA RefinesStep == Inv /\ [Next]_vars => [Executor!Next]_(Executor!vars)
<1> USE ItemsAssumption DEF Items
<1> SUFFICES ASSUME Inv, [Next]_vars
             PROVE  [Executor!Next]_(Executor!vars)
  OBVIOUS
<1>0. /\ itemState \in [Items -> ItemStates] /\ workerState \in ThreadStates
      /\ overtaken \in SUBSET Tasks
  BY DEF Inv, TypeOK
<1>a. \A t \in overtaken : itemState[t] \in {"checked", "attached", "astray", "dropped"}
  BY DEF Inv, DrainInv
<1>p. /\ workerState = "running" <=> itemState[ShutdownTask] = "new"
      /\ exited => workerState = "shut down" /\ itemState[ShutdownTask] = "returned"
      /\ workerState = "shut down" <=> itemState[ShutdownTask] = "returned"
  BY DEF Inv, PhaseInv
<1>1. ASSUME NEW c \in Callers, NEW t \in Tasks, QueueCheck(c, t)
      PROVE  Executor!Offer(t)
  <2>1. AbsPhase = "open" /\ AbsPhase' = AbsPhase
    <3>1. itemState[ShutdownTask] = "new" /\ itemState'[ShutdownTask] = "new"
      BY <1>0, <1>1, <1>p DEF QueueCheck
    <3>2. workerState = "running" /\ workerState' = "running" /\ exited' = exited
      BY <1>1 DEF QueueCheck
    <3> QED
      BY <1>p, <3>1, <3>2 DEF AbsPhase
  <2>2. t \notin AbsOffered \union AbsTodo \union AbsActive \union AbsDone
    BY <1>1, <1>a DEF QueueCheck, AbsOffered, AbsTodo, AbsActive, AbsDone, InState
  <2>3. itemState' = [itemState EXCEPT ![t] = "checked"] /\ overtaken' = overtaken
    BY <1>1 DEF QueueCheck
  <2>4. AbsOffered' = AbsOffered \union {t}
    BY <1>0, <2>3 DEF AbsOffered
  <2>5. AbsTodo' = AbsTodo /\ AbsActive' = AbsActive /\ AbsDone' = AbsDone
    BY <1>0, <2>2, <2>3 DEF AbsTodo, AbsActive, AbsDone, InState
  <2> QED
    BY <2>1, <2>2, <2>4, <2>5 DEF Executor!Offer
<1>2. ASSUME NEW c \in Callers, QueueInvoke(c) PROVE [Executor!Next]_(Executor!vars)
  <2> DEFINE t == pending[c]
  <2>1. t \in Tasks /\ itemState[t] = "checked"
    BY <1>2 DEF QueueInvoke, Inv, TypeOK, CallerInv
  <2>2. PICK place \in Places : itemState' = [itemState EXCEPT ![t] = place]
    BY <1>2 DEF QueueInvoke
  <2>3. place \in {"attached", "astray", "dropped"}
    BY <2>2 DEF Places
  <2>4. UNCHANGED <<workerState, exited, overtaken>>
    BY <1>2 DEF QueueInvoke
  <2>h. workerState # "shut down" => hasContext
    BY DEF Inv, PhaseInv
  <2> HIDE DEF t
  <2>5. AbsPhase' = AbsPhase
    BY <1>0, <2>1, <2>2, <2>4 DEF AbsPhase
  <2>6. AbsActive' = AbsActive /\ AbsDone' = AbsDone
    BY <1>0, <2>1, <2>2, <2>3 DEF AbsActive, AbsDone, InState
  <2>7. CASE t \in overtaken
    <3>1. AbsOffered' = AbsOffered /\ AbsTodo' = AbsTodo
      BY <1>0, <2>1, <2>2, <2>3, <2>4, <2>7 DEF AbsOffered, AbsTodo, InState
    <3> QED
      BY <2>5, <2>6, <3>1, Stutter
  <2>8. CASE t \notin overtaken
    <3>1. ~Collected
      BY <2>1, <2>8 DEF Inv, DrainInv
    <3>2. AbsPhase \in {"open", "draining"}
      BY <1>0, <1>p, <3>1 DEF AbsPhase, Inv, PhaseInv, Collected, ThreadStates
    <3>3. place = "attached"
      BY <1>p, <2>2, <2>h, <3>1 DEF Places, Collected
    <3>4. AbsOffered' = AbsOffered \ {t} /\ AbsTodo' = AbsTodo \union {t}
      BY <1>0, <2>1, <2>2, <2>4, <2>8, <3>3 DEF AbsOffered, AbsTodo, InState
    <3>5. t \in AbsOffered
      BY <2>1 DEF AbsOffered
    <3>6. Executor!Accept(t)
      BY <2>5, <2>6, <3>2, <3>4, <3>5 DEF Executor!Accept
    <3> QED
      BY <2>1, <3>6 DEF Executor!Next
  <2> QED
    BY <2>7, <2>8
<1>b. ASSUME \A t \in Tasks : itemState'[t] = itemState[t], overtaken' = overtaken
      PROVE  /\ AbsOffered' = AbsOffered /\ AbsTodo' = AbsTodo
             /\ AbsActive' = AbsActive /\ AbsDone' = AbsDone
  BY <1>b DEF AbsOffered, AbsTodo, AbsActive, AbsDone, InState
<1>3. ASSUME NEW s \in Calls, ShutdownAsync(s) PROVE [Executor!Next]_(Executor!vars)
  <2>1. \A t \in Tasks : itemState'[t] = itemState[t]
    BY <1>0, <1>3 DEF ShutdownAsync, StartShutdown
  <2>2. /\ AbsOffered' = AbsOffered /\ AbsTodo' = AbsTodo
        /\ AbsActive' = AbsActive /\ AbsDone' = AbsDone
    BY <1>3, <1>b, <2>1 DEF ShutdownAsync
  <2>3. CASE workerState = "running"
    <3>1. AbsPhase = "open" /\ AbsPhase' = "draining"
      <4>1. /\ itemState[ShutdownTask] = "new" /\ ~exited /\ exited' = exited
            /\ itemState'[ShutdownTask] = "attached" /\ workerState' = "shutting down"
        BY <1>0, <1>3, <1>p, <2>3 DEF ShutdownAsync, StartShutdown
      <4> QED
        BY <2>3, <4>1 DEF AbsPhase
    <3> QED
      BY <2>2, <3>1 DEF Executor!Drain, Executor!Next
  <2>4. CASE workerState # "running"
    <3>1. AbsPhase' = AbsPhase
      BY <1>3, <2>4 DEF ShutdownAsync, AbsPhase
    <3> QED
      BY <2>2, <3>1, Stutter
  <2> QED
    BY <2>3, <2>4
<1>4. ASSUME UNCHANGED <<workerState, itemState, exited, overtaken>>
      PROVE  [Executor!Next]_(Executor!vars)
  BY <1>4, Stutter DEF AbsPhase, AbsOffered, AbsTodo, AbsActive, AbsDone, InState
<1>5. CASE (\E s \in Calls : ShutdownFinish(s)) \/ JoinReturns \/ Dispose \/ UNCHANGED vars
  BY <1>4, <1>5 DEF ShutdownFinish, JoinReturns, Dispose, vars
<1>6. CASE Iterate
  <2>0. /\ workerState' = workerState /\ exited' = exited /\ ~exited
        /\ \A i \in Items : itemState[i] \notin {"batched", "running"}
        /\ workerState # "shut down"
    BY <1>6 DEF Iterate, Idle, InState
  <2>1. \A i \in Items : itemState'[i] # itemState[i] =>
                            itemState[i] = "attached" /\ itemState'[i] = "batched"
    BY <1>0, <1>6 DEF Iterate, InState
  <2>2. AbsActive' = AbsActive /\ AbsDone' = AbsDone
    BY <2>1 DEF AbsActive, AbsDone, InState
  <2>3. overtaken = {}
    BY <1>p, <2>0 DEF Inv, DrainInv, Collected
  <2>4. overtaken' # {} => itemState'[ShutdownTask] = "batched"
    BY <1>0, <1>6, <2>3 DEF Iterate
  <2>5. \A t \in overtaken' : t \in Tasks /\ itemState[t] = "checked" /\ itemState'[t] = "checked"
    <3>1. overtaken' \subseteq {pending[c] : c \in Callers} \ {NoTask}
      BY <1>6, <2>3 DEF Iterate
    <3>2. \A c \in Callers : pending[c] # NoTask =>
              pending[c] \in Tasks /\ itemState[pending[c]] = "checked"
      BY DEF Inv, TypeOK, CallerInv
    <3> QED
      BY <2>1, <3>1, <3>2
  <2>6. AbsOffered' = AbsOffered /\ AbsTodo' = AbsTodo
    BY <2>1, <2>3, <2>5 DEF AbsOffered, AbsTodo, InState
  <2>7. CASE itemState'[ShutdownTask] = "batched"
    <3>1. itemState[ShutdownTask] = "attached"
      BY <2>0, <2>1, <2>7
    <3>2. workerState # "running"
      BY <1>p, <3>1
    <3>3. AbsPhase = "draining" /\ AbsPhase' = "sealed"
      BY <2>0, <2>7, <3>1, <3>2 DEF AbsPhase
    <3> QED
      BY <2>2, <2>6, <3>3 DEF Executor!Seal, Executor!Next
  <2>8. CASE itemState'[ShutdownTask] # "batched"
    <3>1. itemState'[ShutdownTask] = itemState[ShutdownTask]
      BY <2>1, <2>8
    <3>2. AbsPhase' = AbsPhase
      BY <2>0, <3>1 DEF AbsPhase
    <3> QED
      BY <2>2, <2>6, <3>2, Stutter
  <2> QED
    BY <2>7, <2>8
<1>7. ASSUME NEW i \in Items, Dispatch(i) PROVE [Executor!Next]_(Executor!vars)
  <2>1. /\ itemState[i] = "batched" /\ itemState' = [itemState EXCEPT ![i] = "running"]
        /\ UNCHANGED <<workerState, exited, overtaken>>
    BY <1>7 DEF Dispatch
  <2>2. AbsPhase' = AbsPhase
    BY <1>0, <2>1 DEF AbsPhase
  <2>3. CASE i = ShutdownTask
    <3>1. \A t \in Tasks : itemState'[t] = itemState[t]
      BY <1>0, <2>1, <2>3
    <3> QED
      BY <1>b, <2>1, <2>2, <3>1, Stutter
  <2>4. CASE i \in Tasks
    <3>0. i \notin overtaken
      BY <1>a, <2>1
    <3>1. i \in AbsTodo /\ AbsActive = {}
      BY <1>7, <2>1, <2>4, <3>0 DEF Dispatch, AbsTodo, AbsActive, InState
    <3>2. /\ AbsTodo' = AbsTodo \ {i} /\ AbsActive' = {i} /\ AbsDone' = AbsDone
          /\ AbsOffered' = AbsOffered
      BY <1>0, <2>1, <2>4, <3>1 DEF AbsOffered, AbsTodo, AbsActive, AbsDone, InState
    <3>3. Executor!Start(i)
      BY <2>2, <3>1, <3>2 DEF Executor!Start
    <3> QED
      BY <2>4, <3>3 DEF Executor!Next
  <2> QED
    BY <2>3, <2>4
<1>8. ASSUME NEW t \in Tasks, TaskReturns(t) PROVE Executor!Finish(t)
  <2>1. /\ itemState[t] = "running" /\ itemState' = [itemState EXCEPT ![t] = "returned"]
        /\ UNCHANGED <<workerState, exited, overtaken>>
    BY <1>8 DEF TaskReturns
  <2>2. \A u \in Tasks : itemState[u] = "running" => u = t
    BY <2>1 DEF Inv, OrderInv
  <2>3. t \in AbsActive
    BY <2>1 DEF AbsActive, InState
  <2>4. AbsActive' = {}
    BY <1>0, <2>1, <2>2 DEF AbsActive, InState
  <2>5. AbsTodo' = AbsTodo /\ AbsDone' = AbsDone \union {t} /\ AbsOffered' = AbsOffered
    BY <1>0, <2>1 DEF AbsOffered, AbsTodo, AbsDone, InState
  <2>6. AbsPhase' = AbsPhase
    BY <1>0, <2>1 DEF AbsPhase
  <2> QED
    BY <2>3, <2>4, <2>5, <2>6 DEF Executor!Finish
<1>9. CASE ShutdownCb
  <2>1. /\ itemState[ShutdownTask] = "running" /\ workerState = "shutting down"
        /\ workerState' = "shut down"
        /\ itemState' = [itemState EXCEPT ![ShutdownTask] = "returned"]
        /\ UNCHANGED <<exited, overtaken>>
    BY <1>9 DEF ShutdownCb
  <2>2. AbsPhase = "sealed" /\ AbsPhase' = "sealed"
    BY <1>0, <1>p, <2>1 DEF AbsPhase
  <2>3. \A t \in Tasks : itemState'[t] = itemState[t]
    BY <1>0, <2>1
  <2> QED
    BY <1>b, <2>1, <2>2, <2>3, Stutter
<1>10. CASE ThreadExits
  <2>1. /\ workerState = "shut down" /\ workerState' = "shut down" /\ ~exited /\ exited'
        /\ \A i \in Items : itemState[i] \notin {"batched", "running"}
        /\ \A i \in Items : itemState'[i] = IF itemState[i] = "attached" THEN "dropped"
                                                                        ELSE itemState[i]
        /\ overtaken' = overtaken
    BY <1>10 DEF ThreadExits, Idle, InState
  <2>2. itemState[ShutdownTask] = "returned" /\ Collected
    BY <1>p, <2>1 DEF Collected
  <2>3. \A t \in Tasks : itemState[t] = "attached" => t \in overtaken
    BY <2>2 DEF Inv, DrainInv
  <2>4. AbsTodo = {} /\ AbsActive = {}
    BY <2>1, <2>3 DEF AbsTodo, AbsActive, InState
  <2>5. AbsTodo' = {} /\ AbsActive' = {} /\ AbsDone' = AbsDone
    BY <2>1 DEF AbsTodo, AbsActive, AbsDone, InState
  <2>6. AbsOffered' = AbsOffered
    BY <2>1 DEF AbsOffered
  <2>7. AbsPhase = "sealed" /\ AbsPhase' = "closed"
    BY <2>1, <2>2 DEF AbsPhase
  <2> QED
    BY <2>4, <2>5, <2>6, <2>7 DEF Executor!Close, Executor!Next
<1> QED
  BY <1>1, <1>2, <1>3, <1>5, <1>6, <1>7, <1>8, <1>9, <1>10
  DEF Next, ClientNext, WorkerNext, Executor!Next

\* The tasks see an executor that is offered them only while it is open, accepts
\* them until it is sealed, runs each one accepted once and alone, and closes when
\* none of them is left.
THEOREM RefinesExecutor == SafeSpec => Executor!SafeSpec
<1>1. Init => Executor!Init
  BY RefinesInit
<1>2. Inv /\ [Next]_vars => [Executor!Next]_(Executor!vars)
  BY RefinesStep
<1> QED
  BY <1>1, <1>2, InvAlways, PTL DEF SafeSpec, Executor!SafeSpec
=============================================================================
