------------------------------ MODULE AppState ------------------------------
(***************************************************************************)
(* The state of a GsApp (lib/gs-app.c): the state itself, the last state   *)
(* that was not transient, which errors go back to, and the action that is *)
(* pending on the app.                                                     *)
(***************************************************************************)

States == {"unknown", "installed", "available", "available local", "queued",
           "installing", "removing", "updatable", "updatable live",
           "unavailable", "pending install", "pending remove"}

Transient == {"installing", "removing", "queued"}

Actions == {"unknown", "install", "install repo"}

GsApp == [state : States, recover : States, action : Actions]

NewApp == [state |-> "unknown", recover |-> "unknown", action |-> "unknown"]

\* gs_app_set_state_internal(): a change its switch does not know is warned
\* about and made all the same, so that any state may follow any other.
Remember(app, s) == IF s \in Transient THEN app.recover ELSE s

\* gs_app_set_state(): the pending action follows the state.
SetState(app, s) ==
    IF app.state = s THEN app
    ELSE [state   |-> s,
          recover |-> Remember(app, s),
          action  |-> IF s = "queued" THEN "install" ELSE "unknown"]

\* gs_app_set_state_recover(): an app that was never in a stable state but
\* UNKNOWN stays as it is.
SetStateRecover(app) ==
    IF app.recover = "unknown" THEN app ELSE [app EXCEPT !.state = app.recover]
=============================================================================
