---------------------------- MODULE TaskExecutor ----------------------------
(***************************************************************************)
(* What a worker promises to the plugins that hand tasks to it: a task is  *)
(* offered while the executor is open, each one it has accepted runs once  *)
(* and on its own, and it closes only when nothing it accepted is left     *)
(* over.  A task offered in time is accepted, unless the executor is sealed*)
(* while its caller is still handing it over: that one is never executed.  *)
(* WorkerThread implements this specification.                             *)
(***************************************************************************)
CONSTANT Tasks      \* the tasks that may be handed to the executor

VARIABLES
    phase,          \* "open", "draining", "sealed" or "closed"
    offered,        \* being handed over, not accepted
    todo,           \* accepted, not started
    active,         \* being executed: at most one task
    done            \* executed

vars == <<phase, offered, todo, active, done>>

TypeOK ==
    /\ phase \in {"open", "draining", "sealed", "closed"}
    /\ offered \in SUBSET Tasks
    /\ todo \in SUBSET Tasks /\ active \in SUBSET Tasks /\ done \in SUBSET Tasks

Init ==
    /\ phase = "open"
    /\ offered = {} /\ todo = {} /\ active = {} /\ done = {}

\* A task is offered once, and only while the executor is open.
Offer(t) ==
    /\ phase = "open"
    /\ t \notin offered \union todo \union active \union done
    /\ offered' = offered \union {t}
    /\ UNCHANGED <<phase, todo, active, done>>

\* It is accepted until the executor is sealed.
Accept(t) ==
    /\ phase \in {"open", "draining"} /\ t \in offered
    /\ offered' = offered \ {t}
    /\ todo' = todo \union {t}
    /\ UNCHANGED <<phase, active, done>>

Start(t) ==
    /\ t \in todo /\ active = {}
    /\ todo' = todo \ {t}
    /\ active' = {t}
    /\ UNCHANGED <<phase, offered, done>>

Finish(t) ==
    /\ t \in active
    /\ active' = {}
    /\ done' = done \union {t}
    /\ UNCHANGED <<phase, offered, todo>>

\* The shutdown: nothing is offered from now on.
Drain ==
    /\ phase = "open"
    /\ phase' = "draining"
    /\ UNCHANGED <<offered, todo, active, done>>

\* Nothing is accepted from now on.
Seal ==
    /\ phase = "draining"
    /\ phase' = "sealed"
    /\ UNCHANGED <<offered, todo, active, done>>

\* The executor closes when it has run everything it accepted.
Close ==
    /\ phase = "sealed"
    /\ todo = {} /\ active = {}
    /\ phase' = "closed"
    /\ UNCHANGED <<offered, todo, active, done>>

Next ==
    \/ Drain \/ Seal \/ Close
    \/ \E t \in Tasks : Offer(t) \/ Accept(t) \/ Start(t) \/ Finish(t)

Fairness ==
    /\ WF_vars(Seal) /\ WF_vars(Close)
    /\ \A t \in Tasks : WF_vars(Accept(t))
    /\ WF_vars(\E t \in Tasks : Start(t))
    /\ WF_vars(\E t \in Tasks : Finish(t))

SafeSpec == Init /\ [][Next]_vars
Spec == SafeSpec /\ Fairness
=============================================================================
