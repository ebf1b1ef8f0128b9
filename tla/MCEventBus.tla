------------------------------ MODULE MCEventBus ------------------------------
(* EventBus with a channel of two places, the two handlers of a session,    *)
(* two calls of close_session and four events of every mix of kinds.        *)
EXTENDS EventBus

MCHandlers == <<"live", "dashboard">>
================================================================================
