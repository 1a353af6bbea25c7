---------------------------- MODULE WorkerThread ----------------------------
(***************************************************************************)
(* lib/gs-worker-thread.c: a thread that runs the GTasks the plugins hand  *)
(* to it until it is shut down.                                            *)
(*                                                                         *)
(* gs_worker_thread_queue() attaches an idle source to the thread's        *)
(* GMainContext.  The thread iterates the context: one iteration collects  *)
(* the ready sources of the best priority and dispatches them in the order *)
(* in which they were attached.  gs_worker_thread_shutdown_async() attaches*)
(* a last source, at the lowest priority, that ends the loop.  The main    *)
(* thread joins the worker in gs_worker_thread_shutdown_finish().          *)
(*                                                                         *)
(* A task and its source are one item here; itemState says where the item  *)
(* is, and the set of attached sources is read off it.                     *)
(***************************************************************************)
EXTENDS Integers, FiniteSets

CONSTANTS
    Tasks,          \* the plugins' tasks
    ShutdownTask,   \* the task made by gs_worker_thread_shutdown_async()
    Callers,        \* the threads that call gs_worker_thread_queue(): the main one
                    \* and those of the pool, which refine for the jobs they run
    Main,           \* the main thread, the one that shuts the worker down
    Calls,          \* the calls of gs_worker_thread_shutdown_async()
    Priority,       \* the priority each task is queued at (smaller is sooner)
    NoTask

MaxInt == 2147483647        \* G_MAXINT, "lowest priority"

Items == Tasks \union {ShutdownTask}

ASSUME ItemsAssumption ==
    /\ ShutdownTask \notin Tasks
    /\ NoTask \notin Tasks

ASSUME CallersAssumption == Main \in Callers

ASSUME PriorityAssumption ==
    /\ Priority \in [Items -> Int]
    /\ Priority[ShutdownTask] = MaxInt
    /\ \A t \in Tasks : Priority[t] <= MaxInt

VARIABLES
    workerState,    \* self->worker_state
    hasContext,     \* self->worker_context # NULL
    hasThread,      \* self->worker_thread # NULL
    exited,         \* the worker left thread_cb()
    itemState,      \* where each item is
    seqno,          \* the order in which the sources were attached
    clock,          \* how many sources were attached
    pending,        \* the task a caller has checked and not yet attached
    callState,      \* the calls of shutdown_async()
    joining,        \* the main thread is blocked in g_thread_join()
    disposed,       \* the last reference was dropped
    overtaken       \* history: tasks that other threads were still handing over
                    \* when the worker collected the shutdown item

vars == <<workerState, hasContext, hasThread, exited, itemState, seqno, clock,
          pending, callState, joining, disposed, overtaken>>

\* new:      not queued yet             checked:  between the assertion and the attach
\* attached: a source of the context    batched:  collected by this iteration
\* running:  its work_func runs         returned: work_func is over
\* astray:   went to another context    dropped:  freed with the context, never run
ItemStates == {"new", "checked", "attached", "batched", "running", "returned",
               "astray", "dropped"}
CallStates == {"none", "queued", "ready", "finished"}
ThreadStates == {"running", "shutting down", "shut down"}

TypeOK ==
    /\ workerState \in ThreadStates
    /\ hasContext \in BOOLEAN /\ hasThread \in BOOLEAN /\ exited \in BOOLEAN
    /\ itemState \in [Items -> ItemStates]
    /\ seqno \in [Items -> Nat] /\ clock \in Nat
    /\ pending \in [Callers -> Tasks \union {NoTask}]
    /\ callState \in [Calls -> CallStates]
    /\ joining \in BOOLEAN /\ disposed \in BOOLEAN
    /\ overtaken \in SUBSET Tasks

InState(st) == {i \in Items : itemState[i] \in st}

\* gs_worker_thread_constructed(): the thread and its context exist at once.
Init ==
    /\ workerState = "running"
    /\ hasContext = TRUE /\ hasThread = TRUE /\ exited = FALSE
    /\ itemState = [i \in Items |-> "new"]
    /\ seqno = [i \in Items |-> 0] /\ clock = 0
    /\ pending = [c \in Callers |-> NoTask]
    /\ callState = [s \in Calls |-> "none"]
    /\ joining = FALSE /\ disposed = FALSE /\ overtaken = {}

-----------------------------------------------------------------------------
(* The callers' side.                                                      *)

MainIsFree == ~joining /\ pending[Main] = NoTask

\* The assertion at the top of gs_worker_thread_queue().  The callers keep
\* the documented contract: none calls it once it can see the shutdown.  One
\* that runs in another thread may be past the assertion when it starts.
QueueCheck(c, t) ==
    /\ ~disposed /\ pending[c] = NoTask /\ (c = Main => ~joining)
    /\ workerState = "running"
    /\ itemState[t] = "new"
    /\ itemState' = [itemState EXCEPT ![t] = "checked"]
    /\ pending' = [pending EXCEPT ![c] = t]
    /\ UNCHANGED <<workerState, hasContext, hasThread, exited, seqno, clock,
                   callState, joining, disposed, overtaken>>

\* g_main_context_invoke_full() of worker_context, which the worker clears
\* without a lock.  A caller that reads NULL gets the default context, whose
\* thread is the main thread; one that has read the pointer before gets what
\* thread_cb() still holds, or what it has freed.
Places == IF hasContext THEN {"attached"}
          ELSE {"astray", IF exited THEN "dropped" ELSE "attached"}
QueueInvoke(c) ==
    LET t == pending[c] IN
    /\ t # NoTask
    /\ pending' = [pending EXCEPT ![c] = NoTask]
    /\ \E place \in Places : itemState' = [itemState EXCEPT ![t] = place]
    /\ seqno' = [seqno EXCEPT ![t] = clock]
    /\ clock' = clock + 1
    /\ UNCHANGED <<workerState, hasContext, hasThread, exited, callState,
                   joining, disposed, overtaken>>

\* gs_worker_thread_shutdown_async(): a call that finds the shutdown under
\* way returns at once.
StartShutdown(s) ==
    /\ workerState' = "shutting down"
    /\ callState' = [callState EXCEPT ![s] = "queued"]
    /\ itemState' = [itemState EXCEPT ![ShutdownTask] = "attached"]

ShutdownAsync(s) ==
    /\ ~disposed /\ MainIsFree /\ callState[s] = "none"
    /\ IF workerState # "running"
       THEN /\ callState' = [callState EXCEPT ![s] = "ready"]
            /\ UNCHANGED <<workerState, itemState, seqno, clock>>
       ELSE /\ StartShutdown(s)
            /\ seqno' = [seqno EXCEPT ![ShutdownTask] = clock]
            /\ clock' = clock + 1
    /\ UNCHANGED <<hasContext, hasThread, exited, pending, joining, disposed, overtaken>>

\* gs_worker_thread_shutdown_finish(): the thread is stolen and joined.  A
\* second call joins a NULL thread, which returns with a warning.  The task
\* always succeeds: its cancellable, from gs_plugin_loader_shutdown(), is NULL.
FinishWithoutJoin(s) ==         \* mutant: the thread is not joined
    /\ MainIsFree /\ callState[s] = "ready"
    /\ callState' = [callState EXCEPT ![s] = "finished"]
    /\ hasThread' = FALSE
    /\ UNCHANGED <<workerState, hasContext, exited, itemState, seqno, clock,
                   pending, joining, disposed, overtaken>>
ShutdownFinish(s) ==
    /\ MainIsFree /\ callState[s] = "ready"
    /\ callState' = [callState EXCEPT ![s] = "finished"]
    /\ hasThread' = FALSE
    /\ joining' = hasThread
    /\ UNCHANGED <<workerState, hasContext, exited, itemState, seqno, clock,
                   pending, disposed, overtaken>>

JoinReturns ==
    /\ joining /\ exited
    /\ joining' = FALSE
    /\ UNCHANGED <<workerState, hasContext, hasThread, exited, itemState, seqno,
                   clock, pending, callState, disposed, overtaken>>

\* gs_worker_thread_dispose(), which asserts that the thread was stolen.  The
\* last reference goes when the shutdown has finished and no caller is inside.
Dispose ==
    /\ ~disposed /\ ~joining /\ \A c \in Callers : pending[c] = NoTask
    /\ \E s \in Calls : callState[s] = "finished"
    /\ \A s \in Calls : callState[s] \in {"none", "finished"}
    /\ ~hasThread
    /\ disposed' = TRUE
    /\ hasContext' = FALSE
    /\ UNCHANGED <<workerState, hasThread, exited, itemState, seqno, clock,
                   pending, callState, joining, overtaken>>

-----------------------------------------------------------------------------
(* The worker's side.                                                      *)

\* The priority of the source of an item: the shutdown is "lowest priority".
DefaultPriority(i) == IF i = ShutdownTask THEN 0 ELSE Priority[i]   \* mutant
SourcePriority(i) == Priority[i]

Idle == ~exited /\ InState({"batched", "running"}) = {}

\* One g_main_context_iteration(): the ready sources of the best priority.
Iterate ==
    LET ready == InState({"attached"})
        best  == {i \in ready : \A j \in ready : SourcePriority(i) <= SourcePriority(j)}
    IN
    /\ Idle /\ workerState # "shut down" /\ ready # {}
    /\ itemState' = [i \in Items |-> IF i \in best THEN "batched" ELSE itemState[i]]
    /\ overtaken' = IF ShutdownTask \in best THEN {pending[c] : c \in Callers \ {Main}} \ {NoTask}
                    ELSE overtaken
    /\ UNCHANGED <<workerState, hasContext, hasThread, exited, seqno, clock,
                   pending, callState, joining, disposed>>

\* The sources of an iteration are dispatched in the order of their attach.
AnyTurn(i) == TRUE                                              \* mutant
Turn(i) == \A j \in InState({"batched"}) : seqno[i] <= seqno[j]

\* work_run_cb() calls the work function of the item.
DispatchWhileRunning(i) ==      \* mutant: tasks are skipped once shut down
    /\ itemState[i] = "batched" /\ InState({"running"}) = {} /\ Turn(i)
    /\ i = ShutdownTask \/ workerState = "running"
    /\ itemState' = [itemState EXCEPT ![i] = "running"]
    /\ UNCHANGED <<workerState, hasContext, hasThread, exited, seqno, clock,
                   pending, callState, joining, disposed, overtaken>>
DispatchTwo(i) ==               \* mutant: a second thread iterates the context
    /\ itemState[i] = "batched" /\ Turn(i)
    /\ itemState' = [itemState EXCEPT ![i] = "running"]
    /\ UNCHANGED <<workerState, hasContext, hasThread, exited, seqno, clock,
                   pending, callState, joining, disposed, overtaken>>
Dispatch(i) ==
    /\ itemState[i] = "batched" /\ InState({"running"}) = {} /\ Turn(i)
    /\ itemState' = [itemState EXCEPT ![i] = "running"]
    /\ UNCHANGED <<workerState, hasContext, hasThread, exited, seqno, clock,
                   pending, callState, joining, disposed, overtaken>>

\* The work function of a plugin's task ends; it has returned its GTask.
TaskReturns(t) ==
    /\ itemState[t] = "running"
    /\ itemState' = [itemState EXCEPT ![t] = "returned"]
    /\ UNCHANGED <<workerState, hasContext, hasThread, exited, seqno, clock,
                   pending, callState, joining, disposed, overtaken>>

\* shutdown_cb(): ends the loop, drops the context, returns the call.
ShutdownCb ==
    /\ itemState[ShutdownTask] = "running"
    /\ workerState = "shutting down"
    /\ workerState' = "shut down"
    /\ hasContext' = FALSE
    /\ itemState' = [itemState EXCEPT ![ShutdownTask] = "returned"]
    /\ callState' = [s \in Calls |-> IF callState[s] = "queued" THEN "ready"
                                                                ELSE callState[s]]
    /\ UNCHANGED <<hasThread, exited, seqno, clock, pending, joining, disposed, overtaken>>

\* thread_cb() reads SHUT_DOWN between two iterations; the context goes with
\* its last reference, and with it the sources it still has.
ThreadExits ==
    /\ Idle /\ workerState = "shut down"
    /\ exited' = TRUE
    /\ itemState' = [i \in Items |-> IF itemState[i] = "attached" THEN "dropped"
                                                                 ELSE itemState[i]]
    /\ UNCHANGED <<workerState, hasContext, hasThread, seqno, clock, pending,
                   callState, joining, disposed, overtaken>>

-----------------------------------------------------------------------------
ClientNext ==
    \/ \E c \in Callers : QueueInvoke(c) \/ \E t \in Tasks : QueueCheck(c, t)
    \/ \E s \in Calls : ShutdownAsync(s) \/ ShutdownFinish(s)
    \/ JoinReturns
    \/ Dispose

WorkerNext ==
    \/ Iterate
    \/ \E i \in Items : Dispatch(i)
    \/ \E t \in Tasks : TaskReturns(t)
    \/ ShutdownCb
    \/ ThreadExits

Next == ClientNext \/ WorkerNext

\* The worker never rests while it has something to do, provided each work
\* function ends; the main loop dispatches the callback of each shutdown, and
\* a caller does not stop halfway through gs_worker_thread_queue().  Nobody is
\* obliged to queue a task or to shut the worker down.
Fairness ==
    /\ WF_vars(WorkerNext)
    /\ \A c \in Callers : WF_vars(QueueInvoke(c))
    /\ \A s \in Calls : WF_vars(ShutdownFinish(s))
    /\ WF_vars(JoinReturns)

SafeSpec == Init /\ [][Next]_vars
Spec == SafeSpec /\ Fairness

-----------------------------------------------------------------------------
(* Properties.                                                             *)

\* A task that passed the assertion of gs_worker_thread_queue() has been run
\* by the time the worker ends: none is left in a context that nobody iterates,
\* none went to the main thread's context, none was freed unrun.  The exception
\* is exact: a task that a thread of the pool had checked and not attached when
\* the worker collected the shutdown item is overtaken; the main thread's never
\* are.  (A GTask that is never returned leaves its job waiting for good.)
NoTaskLost ==
    exited => \A t \in Tasks \ overtaken : itemState[t] \in {"new", "returned"}

\* Of two tasks, the one queued first and not at a worse priority starts
\* first, and has ended before the other starts.
InOrder ==
    \A t, u \in Items :
        /\ itemState[t] \in {"attached", "batched"}
        /\ itemState[u] \in {"running", "returned"}
        => Priority[u] < Priority[t] \/ seqno[u] < seqno[t]

\* When the object goes away its thread has ended, so no work function can
\* run on a freed worker, and the assertion of dispose() holds.
ThreadEndsFirst == disposed => exited

\* The caller of every task gets its answer, from the work function: a task that
\* passed the assertion is executed to its end although a shutdown is under way,
\* unless the shutdown overtook its caller.  (That the answer should be CANCELLED
\* then, as the comment of the code has it, is RemainingAreCancelled below.)
EveryTaskReturns ==
    \A t \in Tasks : itemState[t] = "checked" ~> itemState[t] = "returned" \/ t \in overtaken

\* Once asked for, the shutdown completes: the worker has ended and the main
\* thread is not left blocked in the join.
ShutdownCompletes ==
    workerState = "shutting down" ~> (exited /\ ~hasThread /\ ~joining)

\* As long as a shutdown goes on somebody is about to continue it: the worker,
\* which has items left, or a call that will be finished and join the thread;
\* and whoever is joined is on its way out (shutdown_cb(), shutdown_finish()).
ShutdownGoesOn ==
    /\ workerState = "shutting down" => InState({"attached", "batched", "running"}) # {}
    /\ workerState = "shut down" => \A s \in Calls : callState[s] # "queued"
    /\ workerState # "running" /\ hasThread => \E s \in Calls : callState[s] \in {"queued", "ready"}
    /\ joining => workerState # "running"

\* A shutdown never gets stuck, and it is over before the object goes away.
ShutdownIsSafe == ThreadEndsFirst /\ ShutdownGoesOn

\* Nobody waits for a worker for ever: neither the caller of a task nor the one
\* that shuts it down.
EverybodyReturns == EveryTaskReturns /\ ShutdownCompletes

\* gs-worker-thread.c:340-342 on the shutdown: it "will return
\* G_IO_ERROR_CANCELLED for all remaining queued tasks", so that no work function
\* starts after it was asked for.  work_run_cb() calls every one all the same.
RemainingAreCancelled ==
    [][workerState # "running" =>
          \A t \in Tasks : itemState[t] # "running" => itemState'[t] # "running"]_vars

\* The worker implements the abstract executor: a task is offered when it was
\* checked and accepted when it is attached; the executor is sealed when the
\* worker collects the shutdown item, which is itself invisible.
AbsPhase ==
    CASE workerState = "running" -> "open"
      [] itemState[ShutdownTask] = "attached" -> "draining"
      [] exited -> "closed"
      [] OTHER -> "sealed"
AbsOffered == {t \in Tasks : itemState[t] = "checked"} \union overtaken
AbsTodo    == (Tasks \ overtaken) \intersect InState({"attached", "batched"})
AbsActive  == Tasks \intersect InState({"running"})
AbsDone    == Tasks \intersect InState({"returned"})

Executor == INSTANCE TaskExecutor
            WITH phase <- AbsPhase, offered <- AbsOffered, todo <- AbsTodo,
                 active <- AbsActive, done <- AbsDone

ImplementsExecutor == Executor!Spec

-----------------------------------------------------------------------------
(* The inductive invariant of the proofs, for any set of callers.          *)

Queued(i) == itemState[i] \notin {"new", "checked"}
Collected == itemState[ShutdownTask] \in {"batched", "running", "returned"}

\* worker_state moves with the shutdown item, and the fields with worker_state.
PhaseInv ==
    /\ workerState = "running" <=> itemState[ShutdownTask] = "new"
    /\ workerState = "shutting down" <=>
           itemState[ShutdownTask] \in {"attached", "batched", "running"}
    /\ workerState = "shut down" <=> itemState[ShutdownTask] = "returned"
    /\ hasContext <=> workerState # "shut down"
    /\ exited => workerState = "shut down"
    /\ ~hasThread => joining \/ exited
    /\ disposed => exited /\ ~joining /\ ~hasThread
    /\ \A s \in Calls : callState[s] = "finished" => ~hasThread

\* A checked task is in the hands of one caller, and each caller has one; the
\* main thread has none once it has asked for the shutdown.
CallerInv ==
    /\ \A t \in Tasks : itemState[t] = "checked" => \E c \in Callers : pending[c] = t
    /\ \A c \in Callers : pending[c] # NoTask => itemState[pending[c]] = "checked"
    /\ \A c, d \in Callers : pending[c] = pending[d] /\ pending[c] # NoTask => c = d
    /\ workerState # "running" => pending[Main] = NoTask

\* Attach numbers are distinct.
SeqnoInv ==
    /\ \A i \in Items : Queued(i) => seqno[i] < clock
    /\ \A i, j \in Items : Queued(i) /\ Queued(j) /\ i # j => seqno[i] # seqno[j]

\* What has been collected or started goes before what is left behind.
OrderInv ==
    /\ InOrder
    /\ \A t, u \in Items :
           itemState[t] = "attached" /\ itemState[u] = "batched"
           => Priority[u] < Priority[t] \/ seqno[u] < seqno[t]
    /\ \A t, u \in Items : itemState[t] = "running" /\ itemState[u] = "running" => t = u

\* The shutdown item is collected last, with all that is attached: what comes
\* after it is overtaken, and only what is overtaken goes astray.
DrainInv ==
    /\ \A t \in Tasks : Collected /\ itemState[t] \in {"checked", "attached"} => t \in overtaken
    /\ \A t \in Tasks : itemState[t] \in {"astray", "dropped"} => t \in overtaken
    /\ \A t \in overtaken : itemState[t] \in {"checked", "attached", "astray", "dropped"}
    /\ overtaken # {} => Collected
    /\ exited => \A t \in Tasks : itemState[t] \notin {"attached", "batched", "running"}

Inv == TypeOK /\ PhaseInv /\ CallerInv /\ SeqnoInv /\ OrderInv /\ DrainInv

=============================================================================
