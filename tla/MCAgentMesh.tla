---------------------------- MODULE MCAgentMesh ----------------------------
(* Two clients that share the debugger.                                     *)
EXTENDS AgentMesh, TLC

CONSTANTS c1, c2, debugger

Asking == {c1, c2}
Serving == {debugger}
Tasks == c1 :> "debug" @@ c2 :> "debug"
Offers == debugger :> {"debug.assist"}
=============================================================================
