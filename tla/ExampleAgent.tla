---------------------------- MODULE ExampleAgent ----------------------------
(***************************************************************************)
(* examples/agent-debugger and examples/agent-code-reviewer: an agent      *)
(* registers once, a second after its start, and serves one call after the *)
(* other; Conversation has what an inference does to its context window.   *)
(***************************************************************************)
EXTENDS MeshNetwork

CONSTANT MaxRuns   \* bound: how often an agent is started

VARIABLES
  run,         \* the agent's current id
  announced,   \* the agents whose current run has sent its registration
  working      \* the call an agent infers an answer to

agentVars == <<run, announced, working>>

NoCall == Call(Hub, Hub, 0, Nobody)

AgentInit ==
  /\ run = [a \in Agents |-> 1]
  /\ announced = {}
  /\ working = [a \in Agents |-> NoCall]

\* A task of its own; it is not sent again, whatever becomes of it.
Announce(a) ==
  /\ a \notin announced
  /\ announced' = announced \cup {a}
  /\ net' = net \cup {Register(a, run[a])}
  /\ UNCHANGED <<copies, calm, gone, run, working>>

TakeCall(a, m, rest) ==
  /\ working[a] = NoCall
  /\ m.type = "call" /\ m.to = a
  /\ working' = [working EXCEPT ![a] = m]
  /\ net' = rest
  /\ UNCHANGED <<run, announced>>

\* Variant: the answer is sent without the id of its request.
RespondUnmarked(a) ==
  /\ working[a] # NoCall
  /\ net' = net \cup {Response(a, working[a].from, 0, working[a].asks)}
  /\ working' = [working EXCEPT ![a] = NoCall]
  /\ UNCHANGED <<copies, calm, gone, run, announced>>

Respond(a) ==
  /\ working[a] # NoCall
  /\ net' = net \cup {Response(a, working[a].from, working[a].id, working[a].asks)}
  /\ working' = [working EXCEPT ![a] = NoCall]
  /\ UNCHANGED <<copies, calm, gone, run, announced>>

\* infer reports an error: no answer is sent.
GiveUp(a) ==
  /\ ~calm
  /\ working[a] # NoCall
  /\ gone' = gone \cup {working[a].id}
  /\ working' = [working EXCEPT ![a] = NoCall]
  /\ UNCHANGED <<net, copies, calm, run, announced>>

\* The process is started again, under a new random id.
RestartAgent(a) ==
  /\ ~calm
  /\ run[a] < MaxRuns
  /\ run' = [run EXCEPT ![a] = @ + 1]
  /\ announced' = announced \ {a}
  /\ gone' = gone \cup (IF working[a] = NoCall THEN {} ELSE {working[a].id})
  /\ working' = [working EXCEPT ![a] = NoCall]
  /\ UNCHANGED <<net, copies, calm>>
=============================================================================
