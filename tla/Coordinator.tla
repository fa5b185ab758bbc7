---------------------------- MODULE Coordinator ----------------------------
(***************************************************************************)
(* examples/agent-coordinator/src/main.rs: one loop that receives a data-  *)
(* gram and handles it to the end.  Registered agents and pending requests *)
(* are only in memory; the acknowledgement of a registration is left out,  *)
(* for no agent looks at it.                                               *)
(***************************************************************************)
EXTENDS MeshNetwork

CONSTANTS Task,          \* the type of each client's request
          Capabilities   \* what each agent registers

VARIABLES
  agents,      \* agent_id -> RegisteredAgent: an id stands for a run of an agent
  pending,     \* request_id -> original_sender
  nextId       \* the uuids drawn so far, which never collide

hubVars == <<agents, pending, nextId>>

RegisteredAgent == [agent : Agents, run : Nat]
Pending == [id : Nat, client : Clients]

HubInit == agents = {} /\ pending = {} /\ nextId = 1

AgentRegister(m, rest) ==
  /\ m.type = "register"
  /\ agents' = agents \cup {[agent |-> m.from, run |-> m.id]}
  /\ net' = rest
  /\ UNCHANGED <<pending, nextId>>

Needed(task) == CASE task = "code_review" -> "code.review"
                  [] task = "debug"       -> "debug.assist"

Targets(c) == {e \in agents : Needed(Task[c]) \in Capabilities[e.agent]}

\* Variant: the requests that are pending are numbered.
RouteNumbered(m, rest) ==
  LET free == CHOOSE n \in 1..nextId : \A p \in pending : p.id # n
  IN  /\ m.type = "call"
      /\ IF Targets(m.asks) = {}
         THEN net' = rest /\ UNCHANGED <<pending, nextId>>
         ELSE \E e \in Targets(m.asks) :
                /\ pending' = pending \cup {[id |-> free, client |-> m.from]}
                /\ nextId' = nextId + 1
                /\ net' = rest \cup {Call(Hub, e.agent, free, m.asks)}
      /\ UNCHANGED agents

\* Variant: the entry remembers the agent and not the caller.
RouteRememberingAgent(m, rest) ==
  /\ m.type = "call"
  /\ \E e \in Targets(m.asks) :
       /\ pending' = pending \cup {[id |-> nextId, client |-> e.agent]}
       /\ nextId' = nextId + 1
       /\ net' = rest \cup {Call(Hub, e.agent, nextId, m.asks)}
  /\ UNCHANGED agents

\* Any agent that has the capability; without one the caller hears nothing.
Route(m, rest) ==
  /\ m.type = "call"
  /\ IF Targets(m.asks) = {}
     THEN net' = rest /\ UNCHANGED <<pending, nextId>>
     ELSE \E e \in Targets(m.asks) :
            /\ pending' = pending \cup {[id |-> nextId, client |-> m.from]}
            /\ nextId' = nextId + 1
            /\ net' = rest \cup {Call(Hub, e.agent, nextId, m.asks)}
  /\ UNCHANGED agents

Senders(id) == {p \in pending : p.id = id}

\* Variant: the entry is looked up and left.
ForwardKept(m, rest) ==
  /\ m.type = "response"
  /\ net' = rest \cup {Response(Hub, p.client, m.id, m.asks) : p \in Senders(m.id)}
  /\ UNCHANGED hubVars

\* The first response of a request takes its entry along; another finds none.
Forward(m, rest) ==
  /\ m.type = "response"
  /\ pending' = pending \ Senders(m.id)
  /\ net' = rest \cup {Response(Hub, p.client, m.id, m.asks) : p \in Senders(m.id)}
  /\ UNCHANGED <<agents, nextId>>

Receive(m, rest) ==
  /\ m.to = Hub
  /\ AgentRegister(m, rest) \/ Route(m, rest) \/ Forward(m, rest)

\* The process is started again.
RestartHub ==
  /\ ~calm
  /\ agents' = {}
  /\ pending' = {}
  /\ UNCHANGED <<netVars, nextId>>
=============================================================================
