----------------------------- MODULE AgentMesh -----------------------------
(***************************************************************************)
(* The examples run together (examples/RUN_AGENTS.md): clients ask the     *)
(* coordinator, which routes their calls to agents and the answers back.   *)
(***************************************************************************)
EXTENDS Coordinator, ExampleAgent, TestClient

vars == <<netVars, hubVars, agentVars, clientVars>>

ASSUME MeshAssumption ==
  /\ Hub \notin Clients \cup Agents
  /\ Clients \cap Agents = {}
  /\ Task \in [Clients -> {"code_review", "debug"}]
  /\ Capabilities \in [Agents -> SUBSET {"code.review", "debug.assist"}]

Init == NetInit /\ HubInit /\ AgentInit /\ ClientInit

HubReceives ==
  /\ \E m \in net : \E rest \in {net, net \ {m}} : Take(m, rest) /\ Receive(m, rest)
  /\ UNCHANGED <<calm, gone, agentVars, clientVars>>

AgentReceives(a) ==
  /\ \E m \in net : \E rest \in {net, net \ {m}} : Take(m, rest) /\ TakeCall(a, m, rest)
  /\ UNCHANGED <<calm, gone, hubVars, clientVars>>

ClientReceives(c) ==
  /\ \E m \in net : \E rest \in {net, net \ {m}} : Take(m, rest) /\ AwaitResponse(c, m, rest)
  /\ UNCHANGED <<calm, gone, hubVars, agentVars>>

AgentStep(a) ==
  \/ AgentReceives(a)
  \/ (Announce(a) \/ Respond(a)) /\ UNCHANGED <<hubVars, clientVars>>

AgentTrouble(a) == (GiveUp(a) \/ RestartAgent(a)) /\ UNCHANGED <<hubVars, clientVars>>
HubTrouble == RestartHub /\ UNCHANGED <<agentVars, clientVars>>

NetTrouble ==
  /\ CalmDown \/ \E m \in net : Lose(m)
  /\ UNCHANGED <<hubVars, agentVars, clientVars>>

ClientStep(c) == (Ask(c) \/ TimeOut(c)) /\ UNCHANGED <<hubVars, agentVars>>

AllEnded == (\A c \in Clients : client[c] \in {"answered", "timed_out"}) /\ UNCHANGED vars

Next ==
  \/ HubReceives \/ HubTrouble \/ NetTrouble \/ AllEnded
  \/ \E a \in Agents : AgentStep(a) \/ AgentTrouble(a)
  \/ \E c \in Clients : ClientStep(c) \/ ClientReceives(c)

\* The loops go on; a client may time out at any moment, or never.
Fairness ==
  /\ WF_vars(HubReceives)
  /\ \A a \in Agents : WF_vars(AgentReceives(a)) /\ WF_vars(AgentStep(a))
  /\ \A c \in Clients : WF_vars(ClientReceives(c))

Spec == Init /\ [][Next]_vars
FairSpec == Spec /\ Fairness

-----------------------------------------------------------------------------
TypeOK ==
  /\ net \in SUBSET Datagram
  /\ copies \in 0..MaxCopies /\ calm \in BOOLEAN /\ gone \in SUBSET Nat
  /\ agents \in SUBSET RegisteredAgent
  /\ pending \in SUBSET Pending
  /\ nextId \in Nat
  /\ run \in [Agents -> Nat] /\ announced \in SUBSET Agents
  /\ working \in [Agents -> Datagram \cup {NoCall}]
  /\ client \in [Clients -> {"idle", "waiting", "answered", "timed_out"}]
  /\ got \in [Clients -> Datagram \cup {Nothing}]

\* A client that has an answer has the answer to its own question, whatever was
\* lost, duplicated or reordered and whoever was started again in between; and
\* an id stands for one question for good.
AnswersReachTheirAsker ==
  /\ \A c \in Clients : client[c] = "answered" =>
       got[c].type = "response" /\ got[c].asks = c
  /\ \A m \in net, p \in pending : m.type # "register" /\ m.id = p.id => m.asks = p.client

Working(id) == \E a \in Agents : working[a] # NoCall /\ working[a].id = id

\* An entry of the table of pending requests has its call or its response under
\* way, or it has been lost and the entry stays for good; once the answer is on
\* its way to the client the entry is gone.
PendingExplained ==
  /\ \A p \in pending :
       p.id \in Requests(net) \/ Working(p.id) \/ p.id \in gone
  /\ \A m \in net, p \in pending : m.type = "response" /\ m.to \in Clients => m.id # p.id

\* Once there is no more trouble, a call on its way to a coordinator that knows
\* an agent for it is answered, unless the client stops waiting.
AnsweredOnceCalm ==
  \A c \in Clients :
    calm /\ Call(c, Hub, 0, c) \in net /\ client[c] = "waiting" /\ Targets(c) # {}
      ~> client[c] \in {"answered", "timed_out"}
=============================================================================
