--------------------------- MODULE AgentLifecycle ---------------------------
(***************************************************************************)
(* agent-kernel/src/lifecycle.rs: the lifecycle state machine of an agent  *)
(* as a set of arrows <<state, event, next state>>; an event without an    *)
(* arrow from the current state is rejected and changes nothing.           *)
(***************************************************************************)

AgentState == {"Init", "Ready", "Active", "Suspended", "Retiring", "Terminated"}

LifecycleEvent ==
  {"Boot", "Activate", "Suspend", "Resume", "Retire", "Terminate", "Abort"}

Arrows ==
  { <<"Init",       "Boot",      "Ready">>,
    <<"Ready",      "Activate",  "Active">>,
    <<"Suspended",  "Resume",    "Active">>,
    <<"Ready",      "Retire",    "Retiring">>,
    <<"Active",     "Retire",    "Retiring">>,
    <<"Suspended",  "Retire",    "Retiring">>,
    <<"Active",     "Suspend",   "Suspended">>,
    <<"Retiring",   "Terminate", "Terminated">>,
    <<"Terminated", "Terminate", "Terminated">> }
  \cup { <<s, "Abort", "Terminated">> : s \in AgentState }

\* Variant: a terminated agent can be booted again.
ArrowOrReboot(s, e, n) ==
  <<s, e, n>> \in Arrows \cup {<<"Terminated", "Boot", "Ready">>}

\* Lifecycle::transition accepts event e in state s and moves to n.
Arrow(s, e, n) == <<s, e, n>> \in Arrows
=============================================================================
