-------------------------- MODULE AgentMesh_proofs --------------------------
(***************************************************************************)
(* Proofs about AgentMesh for any number of clients, agents, restarts and  *)
(* duplicates.  That an answer reaches only the client that asked for it   *)
(* rests on who may send what to whom (Routing) and on ids that are older  *)
(* than the next one (Numbering).                                          *)
(***************************************************************************)
EXTENDS AgentMesh, TLAPS

\* Clients are sent answers to their own question, agents calls of the
\* coordinator, the coordinator the calls of those who ask.
Proper(m) ==
  /\ m.to \in Clients => m.type = "response" /\ m.asks = m.to
  /\ m.to \in Agents => m.type = "call" /\ m.from = Hub
  /\ m.to = Hub /\ m.type = "call" => m.from \in Clients /\ m.asks = m.from /\ m.id = 0
  /\ m.type = "register" => m.from \in Agents /\ m.to = Hub

Routing ==
  /\ \A m \in net : Proper(m)
  /\ \A a \in Agents : working[a] # NoCall => working[a].from = Hub
  /\ \A c \in Clients : client[c] = "answered" =>
       got[c].type = "response" /\ got[c].asks = c

\* A request of the coordinator's belongs to one client for good.
Fits(m, p) == m.id = p.id => m.asks = p.client

Numbering ==
  /\ nextId > 0
  /\ \A p \in pending : 0 < p.id /\ p.id < nextId
  /\ \A m \in net : m.type # "register" => m.id < nextId
  /\ \A a \in Agents : working[a].id < nextId
  /\ \A m \in net, p \in pending : m.type # "register" => Fits(m, p)
  /\ \A a \in Agents, p \in pending : Fits(working[a], p)

MeshInv == TypeOK /\ Routing /\ Numbering

-----------------------------------------------------------------------------
LEMMA Makes ==
  ASSUME NEW from \in Clients \cup Agents \cup {Hub}, NEW to \in Clients \cup Agents \cup {Hub},
         NEW id \in Nat, NEW asks \in Clients \cup {Nobody}
  PROVE  Call(from, to, id, asks) \in Datagram /\ Response(from, to, id, asks) \in Datagram
  BY DEF Call, Response, Datagram

LEMMA NoCallTyped == NoCall \in Datagram /\ NoCall.id = 0
  BY DEF NoCall, Call, Datagram

LEMMA InitInv == Init => MeshInv
<1> SUFFICES ASSUME Init PROVE MeshInv
  OBVIOUS
<1> USE DEF Init, NetInit, HubInit, AgentInit, ClientInit
<1>1. TypeOK
  <2>1. Nothing \in Datagram
    BY Makes DEF Nothing
  <2>2. copies \in 0..MaxCopies
    BY NetworkAssumption
  <2>3. QED
    BY <2>1, <2>2 DEF TypeOK
<1>2. Routing
  BY DEF Routing
<1>3. Numbering
  BY NoCallTyped DEF Numbering, Fits
<1>4. QED
  BY <1>1, <1>2, <1>3 DEF MeshInv

\* What a receiver leaves behind was there before.
LEMMA TakeLeaves ==
  ASSUME NEW m \in net, NEW rest \in {net, net \ {m}}, Take(m, rest), TypeOK
  PROVE  rest \subseteq net /\ copies' \in 0..MaxCopies
  BY NetworkAssumption DEF Take, TypeOK

\* The coordinator registers an agent, passes a call on or returns an answer.
LEMMA HubKeeps == MeshInv /\ HubReceives => MeshInv'
<1> SUFFICES ASSUME MeshInv, HubReceives PROVE MeshInv'
  OBVIOUS
<1>1. PICK m \in net : \E rest \in {net, net \ {m}} : Take(m, rest) /\ Receive(m, rest)
  BY DEF HubReceives
<1>2. PICK rest \in {net, net \ {m}} : Take(m, rest) /\ Receive(m, rest)
  BY <1>1
<1>3. rest \subseteq net /\ copies' \in 0..MaxCopies
  BY <1>2, TakeLeaves DEF MeshInv
<1>4. UNCHANGED <<calm, gone, agentVars, clientVars>>
  BY DEF HubReceives
<1>5. m \in Datagram /\ Proper(m) /\ m.to = Hub
  BY <1>2 DEF MeshInv, TypeOK, Routing, Receive
<1>6. CASE AgentRegister(m, rest)
  <2>1. net' = rest /\ UNCHANGED <<pending, nextId>>
    BY <1>6 DEF AgentRegister
  <2>2. agents' \in SUBSET RegisteredAgent
    BY <1>5, <1>6 DEF AgentRegister, Proper, MeshInv, TypeOK, RegisteredAgent, Datagram
  <2>3. TypeOK'
    BY <2>1, <2>2, <1>3, <1>4 DEF MeshInv, TypeOK, agentVars, clientVars
  <2>4. Routing'
    BY <2>1, <1>3, <1>4 DEF MeshInv, Routing, agentVars, clientVars, Proper
  <2>5. Numbering'
    BY <2>1, <1>3, <1>4 DEF MeshInv, Numbering, agentVars, Fits
  <2>6. QED
    BY <2>3, <2>4, <2>5 DEF MeshInv
<1>7. CASE Route(m, rest)
  <2>0. /\ m.type = "call"
        /\ m.from \in Clients /\ m.asks = m.from
        /\ UNCHANGED agents
    BY <1>5, <1>7 DEF Route, Proper
  <2>1. CASE Targets(m.asks) = {}
    <3>1. net' = rest /\ UNCHANGED <<pending, nextId>>
      BY <2>1, <1>7 DEF Route
    <3>2. TypeOK'
      BY <3>1, <2>0, <1>3, <1>4 DEF MeshInv, TypeOK, agentVars, clientVars
    <3>3. Routing'
      BY <3>1, <1>3, <1>4 DEF MeshInv, Routing, agentVars, clientVars, Proper
    <3>4. Numbering'
      BY <3>1, <1>3, <1>4 DEF MeshInv, Numbering, agentVars, Fits
    <3>5. QED
      BY <3>2, <3>3, <3>4 DEF MeshInv
  <2>2. CASE Targets(m.asks) # {}
    <3>1. PICK e \in Targets(m.asks) :
             /\ pending' = pending \cup {[id |-> nextId, client |-> m.from]}
             /\ nextId' = nextId + 1
             /\ net' = rest \cup {Call(Hub, e.agent, nextId, m.asks)}
      BY <2>2, <1>7 DEF Route
    <3> DEFINE q == [id |-> nextId, client |-> m.from]
               d == Call(Hub, e.agent, nextId, m.asks)
    <3>2. e.agent \in Agents /\ nextId \in Nat
      BY DEF Targets, MeshInv, TypeOK, RegisteredAgent
    <3>3. q \in Pending /\ d \in Datagram
      BY <3>2, <2>0, Makes DEF Pending
    <3>4. TypeOK'
      BY <3>1, <3>2, <3>3, <2>0, <1>3, <1>4 DEF MeshInv, TypeOK, agentVars, clientVars
    <3>5. Proper(d)
      BY <3>2, MeshAssumption DEF Proper, Call
    <3>6. Routing'
      BY <3>1, <3>5, <1>3, <1>4 DEF MeshInv, Routing, agentVars, clientVars, Proper
    <3>7. d.id = nextId /\ d.asks = m.from /\ q.id = nextId /\ q.client = m.from
      BY <2>0 DEF Call
    <3>8. /\ \A p \in pending : p.id \in Nat /\ p.id < nextId
          /\ \A x \in net : x.id \in Nat /\ (x.type # "register" => x.id < nextId)
          /\ \A a \in Agents : working[a].id \in Nat /\ working[a].id < nextId
      BY NoCallTyped DEF MeshInv, TypeOK, Numbering, Pending, Datagram
    <3>9. /\ \A p \in pending' : 0 < p.id /\ p.id < nextId'
          /\ \A x \in net' : x.type # "register" => x.id < nextId'
          /\ \A a \in Agents : working'[a].id < nextId'
          /\ nextId' > 0
      BY <3>1, <3>2, <3>7, <3>8, <1>3, <1>4 DEF MeshInv, Numbering, agentVars
    <3>10. \A x \in net', p \in pending' : x.type # "register" => Fits(x, p)
      <4> SUFFICES ASSUME NEW x \in net', NEW p \in pending', x.type # "register"
                   PROVE  Fits(x, p)
        OBVIOUS
      <4>1. CASE x \in net /\ p \in pending
        BY <4>1 DEF MeshInv, Numbering
      <4>2. CASE x \in net /\ p = q
        BY <4>2, <3>7, <3>8, <3>2 DEF Fits
      <4>3. CASE x = d /\ p \in pending
        BY <4>3, <3>7, <3>8, <3>2 DEF Fits
      <4>4. CASE x = d /\ p = q
        BY <4>4, <3>7 DEF Fits
      <4>5. QED
        BY <4>1, <4>2, <4>3, <4>4, <3>1, <1>3
    <3>11. \A a \in Agents, p \in pending' : Fits(working'[a], p)
      <4> SUFFICES ASSUME NEW a \in Agents, NEW p \in pending' PROVE Fits(working[a], p)
        BY <1>4 DEF agentVars
      <4>1. CASE p \in pending
        BY <4>1 DEF MeshInv, Numbering
      <4>2. CASE p = q
        BY <4>2, <3>7, <3>8, <3>2 DEF Fits
      <4>3. QED
        BY <4>1, <4>2, <3>1
    <3>12. Numbering'
      BY <3>9, <3>10, <3>11 DEF Numbering, Fits
    <3>13. QED
      BY <3>4, <3>6, <3>12 DEF MeshInv
  <2>3. QED
    BY <2>1, <2>2
<1>8. CASE Forward(m, rest)
  <2> DEFINE answers == {Response(Hub, p.client, m.id, m.asks) : p \in Senders(m.id)}
  <2>1. /\ m.type = "response"
        /\ pending' = pending \ Senders(m.id)
        /\ net' = rest \cup answers
        /\ UNCHANGED <<agents, nextId>>
    BY <1>8 DEF Forward
  <2>2. \A p \in Senders(m.id) : p \in Pending /\ m.asks = p.client
    BY <2>1 DEF Senders, MeshInv, TypeOK, Numbering, Fits
  <2>3. m.id \in Nat /\ m.id < nextId /\ m.asks \in Clients \cup {Nobody}
    BY <1>5, <2>1 DEF Datagram, MeshInv, Numbering
  <2>4. \A x \in answers : x \in Datagram /\ Proper(x) /\ x.id = m.id
    <3> SUFFICES ASSUME NEW p \in Senders(m.id)
                 PROVE  LET x == Response(Hub, p.client, m.id, m.asks)
                        IN  x \in Datagram /\ Proper(x) /\ x.id = m.id
      OBVIOUS
    <3>1. p.client \in Clients
      BY <2>2 DEF Pending
    <3>2. QED
      BY <3>1, <2>2, <2>3, Makes, MeshAssumption DEF Response, Proper
  <2>5. TypeOK'
    BY <2>1, <2>4, <1>3, <1>4 DEF MeshInv, TypeOK, agentVars, clientVars
  <2>6. Routing'
    BY <2>1, <2>4, <1>3, <1>4 DEF MeshInv, Routing, agentVars, clientVars, Proper
  <2>7. \A x \in net', p \in pending' : x.type # "register" => Fits(x, p)
    <3> SUFFICES ASSUME NEW x \in net', NEW p \in pending', x.type # "register"
                 PROVE  Fits(x, p)
      OBVIOUS
    <3>1. CASE x \in net
      BY <3>1, <2>1 DEF MeshInv, Numbering
    <3>2. CASE x \in answers
      BY <3>2, <2>1, <2>4 DEF Fits, Senders
    <3>3. QED
      BY <3>1, <3>2, <2>1, <1>3
  <2>8. Numbering'
    BY <2>1, <2>3, <2>4, <2>7, <1>3, <1>4 DEF MeshInv, Numbering, agentVars, Fits
  <2>9. QED
    BY <2>5, <2>6, <2>8 DEF MeshInv
<1>9. QED
  BY <1>2, <1>6, <1>7, <1>8 DEF Receive

LEMMA AgentKeeps ==
  ASSUME NEW a \in Agents, MeshInv, AgentReceives(a) \/ AgentStep(a) \/ AgentTrouble(a)
  PROVE  MeshInv'
<1>1. CASE AgentReceives(a)
  <2>1. PICK m \in net : \E rest \in {net, net \ {m}} : Take(m, rest) /\ TakeCall(a, m, rest)
    BY <1>1 DEF AgentReceives
  <2>2. PICK rest \in {net, net \ {m}} : Take(m, rest) /\ TakeCall(a, m, rest)
    BY <2>1
  <2>3. rest \subseteq net /\ copies' \in 0..MaxCopies
    BY <2>2, TakeLeaves DEF MeshInv
  <2>4. /\ m.type = "call" /\ m.to = a
        /\ working' = [working EXCEPT ![a] = m]
        /\ net' = rest
        /\ UNCHANGED <<calm, gone, hubVars, clientVars, run, announced>>
    BY <1>1, <2>2 DEF AgentReceives, TakeCall
  <2>5. m \in Datagram /\ m.from = Hub
    BY <2>4 DEF MeshInv, TypeOK, Routing, Proper
  <2>6. TypeOK'
    BY <2>3, <2>4, <2>5 DEF MeshInv, TypeOK, hubVars, clientVars
  <2>7. Routing'
    BY <2>3, <2>4, <2>5 DEF MeshInv, TypeOK, Routing, hubVars, clientVars, Proper
  <2>8. Numbering'
    BY <2>3, <2>4 DEF MeshInv, TypeOK, Numbering, hubVars, Fits
  <2>9. QED
    BY <2>6, <2>7, <2>8 DEF MeshInv
<1>2. CASE Announce(a) /\ UNCHANGED <<hubVars, clientVars>>
  <2> DEFINE d == Register(a, run[a])
  <2>1. /\ announced' = announced \cup {a}
        /\ net' = net \cup {d}
        /\ UNCHANGED <<copies, calm, gone, run, working, hubVars, clientVars>>
    BY <1>2 DEF Announce
  <2>2. d \in Datagram /\ d.type = "register" /\ Proper(d)
    BY MeshAssumption DEF MeshInv, TypeOK, Register, Datagram, Proper
  <2>3. TypeOK'
    BY <2>1, <2>2 DEF MeshInv, TypeOK, hubVars, clientVars
  <2>4. Routing'
    BY <2>1, <2>2 DEF MeshInv, Routing, clientVars, Proper
  <2>5. Numbering'
    BY <2>1, <2>2 DEF MeshInv, Numbering, hubVars, Fits
  <2>6. QED
    BY <2>3, <2>4, <2>5 DEF MeshInv
<1>3. CASE Respond(a) /\ UNCHANGED <<hubVars, clientVars>>
  <2> DEFINE w == working[a]
             d == Response(a, w.from, w.id, w.asks)
  <2>1. /\ w # NoCall
        /\ net' = net \cup {d}
        /\ working' = [working EXCEPT ![a] = NoCall]
        /\ UNCHANGED <<copies, calm, gone, run, announced, hubVars, clientVars>>
    BY <1>3 DEF Respond
  <2>2. w \in Datagram /\ w.from = Hub
    BY <2>1 DEF MeshInv, TypeOK, Routing
  <2>3. d \in Datagram /\ Proper(d) /\ d.id = w.id /\ d.asks = w.asks
    BY <2>2, MeshAssumption DEF Response, Datagram, Proper
  <2>4. TypeOK'
    BY <2>1, <2>3 DEF MeshInv, TypeOK, hubVars, clientVars
  <2>5. Routing'
    BY <2>1, <2>3 DEF MeshInv, TypeOK, Routing, clientVars, Proper
  <2>6. \A x \in net', p \in pending' : x.type # "register" => Fits(x, p)
    BY <2>1, <2>3 DEF MeshInv, Numbering, hubVars, Fits
  <2>7. \A b \in Agents : working'[b] \in {working[b], NoCall}
    BY <2>1 DEF MeshInv, TypeOK
  <2>8. Numbering'
    BY <2>1, <2>3, <2>6, <2>7, NoCallTyped DEF MeshInv, TypeOK, Numbering, hubVars, Fits, Pending
  <2>9. QED
    BY <2>4, <2>5, <2>8 DEF MeshInv
<1>4. CASE (GiveUp(a) \/ RestartAgent(a)) /\ UNCHANGED <<hubVars, clientVars>>
  <2>1. /\ working' = [working EXCEPT ![a] = NoCall]
        /\ UNCHANGED <<net, copies, calm, hubVars, clientVars>>
    BY <1>4 DEF GiveUp, RestartAgent
  <2>2. run' \in [Agents -> Nat] /\ announced' \in SUBSET Agents
    BY <1>4 DEF GiveUp, RestartAgent, MeshInv, TypeOK
  <2>3. working[a] # NoCall => working[a].id \in Nat
    BY DEF MeshInv, TypeOK, Datagram
  <2>4. gone' \in SUBSET Nat
    BY <1>4, <2>3 DEF GiveUp, RestartAgent, MeshInv, TypeOK
  <2>5. TypeOK'
    BY <2>1, <2>2, <2>4 DEF MeshInv, TypeOK, hubVars, clientVars
  <2>6. Routing'
    BY <2>1 DEF MeshInv, TypeOK, Routing, clientVars, Proper
  <2>7. \A b \in Agents : working'[b] \in {working[b], NoCall}
    BY <2>1 DEF MeshInv, TypeOK
  <2>8. Numbering'
    BY <2>1, <2>7, NoCallTyped DEF MeshInv, TypeOK, Numbering, hubVars, Fits, Pending
  <2>9. QED
    BY <2>5, <2>6, <2>8 DEF MeshInv
<1>5. QED
  BY <1>1, <1>2, <1>3, <1>4 DEF AgentStep, AgentTrouble

LEMMA ClientKeeps ==
  ASSUME NEW c \in Clients, MeshInv, ClientStep(c) \/ ClientReceives(c)
  PROVE  MeshInv'
<1>1. CASE Ask(c) /\ UNCHANGED <<hubVars, agentVars>>
  <2> DEFINE d == Call(c, Hub, 0, c)
  <2>1. /\ client[c] = "idle"
        /\ client' = [client EXCEPT ![c] = "waiting"]
        /\ net' = net \cup {d}
        /\ UNCHANGED <<copies, calm, gone, got, hubVars, agentVars>>
    BY <1>1 DEF Ask
  <2>2. d \in Datagram /\ Proper(d) /\ d.id = 0
    BY MeshAssumption DEF Call, Datagram, Proper
  <2>3. TypeOK'
    BY <2>1, <2>2 DEF MeshInv, TypeOK, hubVars, agentVars
  <2>4. Routing'
    BY <2>1, <2>2 DEF MeshInv, TypeOK, Routing, agentVars, Proper
  <2>5. Numbering'
    BY <2>1, <2>2 DEF MeshInv, TypeOK, Numbering, hubVars, agentVars, Fits, Pending
  <2>6. QED
    BY <2>3, <2>4, <2>5 DEF MeshInv
<1>2. CASE TimeOut(c) /\ UNCHANGED <<hubVars, agentVars>>
  <2>1. /\ client' = [client EXCEPT ![c] = "timed_out"]
        /\ UNCHANGED <<netVars, got, hubVars, agentVars>>
    BY <1>2 DEF TimeOut
  <2>2. TypeOK'
    BY <2>1 DEF MeshInv, TypeOK, netVars, hubVars, agentVars
  <2>3. Routing'
    BY <2>1 DEF MeshInv, TypeOK, Routing, netVars, agentVars, Proper
  <2>4. Numbering'
    BY <2>1 DEF MeshInv, Numbering, netVars, hubVars, agentVars, Fits
  <2>5. QED
    BY <2>2, <2>3, <2>4 DEF MeshInv
<1>3. CASE ClientReceives(c)
  <2>1. PICK m \in net : \E rest \in {net, net \ {m}} : Take(m, rest) /\ AwaitResponse(c, m, rest)
    BY <1>3 DEF ClientReceives
  <2>2. PICK rest \in {net, net \ {m}} : Take(m, rest) /\ AwaitResponse(c, m, rest)
    BY <2>1
  <2>3. rest \subseteq net /\ copies' \in 0..MaxCopies
    BY <2>2, TakeLeaves DEF MeshInv
  <2>4. /\ m.to = c
        /\ client' = [client EXCEPT ![c] = "answered"]
        /\ got' = [got EXCEPT ![c] = m]
        /\ net' = rest
        /\ UNCHANGED <<calm, gone, hubVars, agentVars>>
    BY <1>3, <2>2 DEF ClientReceives, AwaitResponse
  <2>5. m \in Datagram /\ m.type = "response" /\ m.asks = c
    BY <2>4 DEF MeshInv, TypeOK, Routing, Proper
  <2>6. TypeOK'
    BY <2>3, <2>4, <2>5 DEF MeshInv, TypeOK, hubVars, agentVars
  <2>7. Routing'
    BY <2>3, <2>4, <2>5 DEF MeshInv, TypeOK, Routing, agentVars, Proper
  <2>8. Numbering'
    BY <2>3, <2>4 DEF MeshInv, Numbering, hubVars, agentVars, Fits
  <2>9. QED
    BY <2>6, <2>7, <2>8 DEF MeshInv
<1>4. QED
  BY <1>1, <1>2, <1>3 DEF ClientStep

LEMMA TroubleKeeps == MeshInv /\ (HubTrouble \/ NetTrouble) => MeshInv'
<1> SUFFICES ASSUME MeshInv, HubTrouble \/ NetTrouble PROVE MeshInv'
  OBVIOUS
<1>1. CASE HubTrouble
  <2>1. /\ agents' = {} /\ pending' = {}
        /\ UNCHANGED <<netVars, nextId, agentVars, clientVars>>
    BY <1>1 DEF HubTrouble, RestartHub
  <2>2. TypeOK'
    BY <2>1 DEF MeshInv, TypeOK, netVars, agentVars, clientVars
  <2>3. Routing'
    BY <2>1 DEF MeshInv, Routing, netVars, agentVars, clientVars, Proper
  <2>4. Numbering'
    BY <2>1 DEF MeshInv, Numbering, netVars, agentVars, Fits
  <2>5. QED
    BY <2>2, <2>3, <2>4 DEF MeshInv
<1>2. CASE NetTrouble
  <2>1. /\ net' \subseteq net
        /\ UNCHANGED <<copies, hubVars, agentVars, clientVars>>
        /\ calm' \in BOOLEAN /\ gone' \in SUBSET Nat
    <3>1. CASE CalmDown /\ UNCHANGED <<hubVars, agentVars, clientVars>>
      BY <3>1 DEF CalmDown, MeshInv, TypeOK
    <3>2. CASE (\E m \in net : Lose(m)) /\ UNCHANGED <<hubVars, agentVars, clientVars>>
      <4>1. PICK m \in net : Lose(m)
        BY <3>2
      <4>2. Requests({m}) \subseteq Nat
        BY DEF Requests, MeshInv, TypeOK, Datagram
      <4>3. QED
        BY <3>2, <4>1, <4>2 DEF Lose, MeshInv, TypeOK
    <3>3. QED
      BY <1>2, <3>1, <3>2 DEF NetTrouble
  <2>2. TypeOK'
    BY <2>1 DEF MeshInv, TypeOK, hubVars, agentVars, clientVars
  <2>3. Routing'
    BY <2>1 DEF MeshInv, Routing, agentVars, clientVars, Proper
  <2>4. Numbering'
    BY <2>1 DEF MeshInv, Numbering, hubVars, agentVars, Fits
  <2>5. QED
    BY <2>2, <2>3, <2>4 DEF MeshInv
<1>3. QED
  BY <1>1, <1>2

LEMMA MeshStep == MeshInv /\ [Next]_vars => MeshInv'
<1> SUFFICES ASSUME MeshInv, [Next]_vars PROVE MeshInv'
  OBVIOUS
<1>1. CASE UNCHANGED vars
  BY <1>1 DEF MeshInv, TypeOK, Routing, Numbering, Proper, Fits, vars, netVars, hubVars,
              agentVars, clientVars
<1>2. CASE AllEnded
  BY <1>1, <1>2 DEF AllEnded
<1>3. QED
  BY <1>1, <1>2, HubKeeps, AgentKeeps, ClientKeeps, TroubleKeeps DEF Next

LEMMA MeshInvariant == Spec => []MeshInv
<1>1. QED
  BY InitInv, MeshStep, PTL DEF Spec

(* Type correctness of the network, coordinator, agents and clients: the   *)
(* coordinator's table only ever names clients, its agents only agents.    *)
THEOREM TypeCorrect == Spec => []TypeOK
<1>1. MeshInv => TypeOK
  BY DEF MeshInv
<1>2. QED
  BY <1>1, MeshInvariant, PTL

(* Whatever is lost, duplicated or reordered, and whoever is started again: *)
(* a client that has an answer has the answer to its own question, and an   *)
(* id stands for one question for good.                                     *)
THEOREM RightAsker == Spec => []AnswersReachTheirAsker
<1>1. MeshInv => AnswersReachTheirAsker
  BY DEF MeshInv, Routing, Numbering, Fits, AnswersReachTheirAsker
<1>2. QED
  BY <1>1, MeshInvariant, PTL

-----------------------------------------------------------------------------
(* The table of pending requests.  Entry p is explained by what is under way*)
(* for its id; each step either leaves that or turns it into the next.      *)

Explained(id) == id \in Requests(net) \/ Working(id) \/ id \in gone

LEMMA InRequests ==
  ASSUME NEW ms, NEW id
  PROVE  id \in Requests(ms) <=> \E m \in ms : m.type # "register" /\ m.id = id
  BY DEF Requests

\* A receiver takes away at most its own datagram.
LEMMA TakeKeeps ==
  ASSUME NEW m \in net, NEW rest \in {net, net \ {m}}, NEW id \in Requests(net)
  PROVE  id \in Requests(rest) \/ (m.type # "register" /\ m.id = id)
<1>1. PICK x \in net : x.type # "register" /\ x.id = id
  BY InRequests
<1>2. x \in rest \/ x = m
  OBVIOUS
<1>3. QED
  BY <1>1, <1>2, InRequests

LEMMA WorkingSame == ASSUME working' = working, NEW id PROVE Working(id)' <=> Working(id)
  BY DEF Working, NoCall, Call

LEMMA HubExplains ==
  ASSUME MeshInv, PendingExplained, HubReceives PROVE PendingExplained'
<1>1. PICK m \in net : \E rest \in {net, net \ {m}} : Take(m, rest) /\ Receive(m, rest)
  BY DEF HubReceives
<1>2. PICK rest \in {net, net \ {m}} : Take(m, rest) /\ Receive(m, rest)
  BY <1>1
<1>3. gone' = gone /\ working' = working
  BY DEF HubReceives, agentVars
<1>4. m.to = Hub /\ Proper(m)
  BY <1>2 DEF Receive, MeshInv, Routing
<1>5. \A id : Working(id)' <=> Working(id)
  BY <1>3, WorkingSame
<1>6. ASSUME NEW p \in pending, m.type = "register" \/ m.id # p.id, rest \subseteq net'
      PROVE  Explained(p.id)'
  <2>1. p.id \in Requests(net) => p.id \in Requests(rest)
    BY <1>6, TakeKeeps
  <2>2. p.id \in Requests(rest) => p.id \in Requests(net')
    BY <1>6, InRequests
  <2>3. QED
    BY <1>3, <1>5, <2>1, <2>2 DEF PendingExplained, Explained
<1>7. CASE AgentRegister(m, rest)
  BY <1>6, <1>7 DEF AgentRegister, PendingExplained, Explained
<1>8. CASE Route(m, rest)
  <2>1. m.type = "call" /\ m.id = 0
    BY <1>4, <1>8 DEF Route, Proper
  <2>2. \A p \in pending : m.id # p.id
    BY <2>1 DEF MeshInv, Numbering
  <2>3. CASE Targets(m.asks) = {}
    BY <1>6, <1>8, <2>2, <2>3 DEF Route, PendingExplained, Explained
  <2>4. CASE Targets(m.asks) # {}
    <3>1. PICK n : n = nextId
      OBVIOUS
    <3>2. PICK e \in Targets(m.asks) :
            /\ pending' = pending \cup {[id |-> n, client |-> m.from]}
            /\ net' = rest \cup {Call(Hub, e.agent, n, m.asks)}
      BY <1>8, <2>4, <3>1 DEF Route
    <3>3. PICK d, q : /\ net' = rest \cup {d} /\ pending' = pending \cup {q}
                      /\ d.type = "call" /\ d.id = n /\ q.id = n
      <4>1. PICK d : d = Call(Hub, e.agent, n, m.asks)
        OBVIOUS
      <4>2. PICK q : q = [id |-> n, client |-> m.from]
        OBVIOUS
      <4>3. d.type = "call" /\ d.id = n /\ q.id = n
        BY <4>1, <4>2 DEF Call
      <4>4. net' = rest \cup {d} /\ pending' = pending \cup {q}
        BY <3>2, <4>1, <4>2
      <4>5. QED
        BY <4>3, <4>4
    <3>4. Explained(n)'
      <4>1. d \in net' /\ d.type # "register" /\ d.id = n
        BY <3>3
      <4>2. n \in Requests(net')
        BY <4>1, InRequests
      <4>3. QED
        BY <4>2 DEF Explained
    <3>5. \A p \in pending : Explained(p.id)'
      BY <1>6, <2>2, <3>3
    <3>6. ASSUME NEW x \in net', NEW p \in pending', x.type = "response", x.to \in Clients
          PROVE  x.id # p.id
      <4>1. x \in net
        BY <3>3, <3>6
      <4>2. x.id \in Nat /\ nextId \in Nat /\ x.id < nextId
        BY <3>6, <4>1 DEF MeshInv, TypeOK, Datagram, Numbering
      <4>3. QED
        BY <3>1, <3>3, <3>6, <4>1, <4>2 DEF PendingExplained
    <3>7. \A p \in pending' : Explained(p.id)'
      <4>1. \A p \in pending' : p \in pending \/ p.id = n
        BY <3>3
      <4>2. QED
        BY <3>4, <3>5, <4>1
    <3>8. QED
      BY <3>6, <3>7 DEF PendingExplained, Explained
  <2>5. QED
    BY <2>3, <2>4
<1>9. CASE Forward(m, rest)
  <2> DEFINE answers == {Response(Hub, p.client, m.id, m.asks) : p \in Senders(m.id)}
  <2>1. pending' = pending \ Senders(m.id) /\ net' = rest \cup answers
    BY <1>9 DEF Forward
  <2>2. \A x \in answers : x.id = m.id
    BY DEF Response
  <2> HIDE DEF answers
  <2>3. \A p \in pending' : p \in pending /\ p.id # m.id
    BY <2>1 DEF Senders
  <2>4. \A p \in pending' : Explained(p.id)'
    BY <1>6, <2>1, <2>3
  <2>5. \A x \in net', p \in pending' : x.type = "response" /\ x.to \in Clients => x.id # p.id
    BY <2>1, <2>2, <2>3 DEF PendingExplained
  <2>6. QED
    BY <2>4, <2>5 DEF PendingExplained, Explained
<1>10. QED
  BY <1>2, <1>7, <1>8, <1>9 DEF Receive

LEMMA AgentExplains ==
  ASSUME NEW a \in Agents, MeshInv, PendingExplained, AgentReceives(a) \/ AgentStep(a) \/ AgentTrouble(a)
  PROVE  PendingExplained'
<1>0. \A b \in Agents : working[b] # NoCall => working[b] \in Datagram /\ working[b].from = Hub
  BY DEF MeshInv, TypeOK, Routing
<1>1. pending' = pending
  BY DEF AgentReceives, AgentStep, AgentTrouble, hubVars
<1>2. CASE AgentReceives(a)
  <2>1. PICK m \in net : \E rest \in {net, net \ {m}} : Take(m, rest) /\ TakeCall(a, m, rest)
    BY <1>2 DEF AgentReceives
  <2>2. PICK rest \in {net, net \ {m}} : Take(m, rest) /\ TakeCall(a, m, rest)
    BY <2>1
  <2>3. /\ working[a] = NoCall /\ m.to = a /\ net' = rest /\ gone' = gone
        /\ working' = [working EXCEPT ![a] = m] /\ working \in [Agents -> Datagram \cup {NoCall}]
    BY <1>2, <2>2 DEF AgentReceives, TakeCall, MeshInv, TypeOK
  <2>4. m # NoCall
    BY <2>3, MeshAssumption DEF NoCall, Call
  <2>5. ASSUME NEW id, Explained(id) PROVE Explained(id)'
    <3>1. CASE id \in Requests(net)
      <4>1. id \in Requests(net') \/ m.id = id
        BY <2>3, <3>1, TakeKeeps
      <4>2. m.id = id => Working(id)'
        BY <2>3, <2>4 DEF Working, NoCall, Call
      <4>3. QED
        BY <4>1, <4>2 DEF Explained
    <3>2. CASE Working(id)
      BY <2>3, <3>2 DEF Explained, Working, NoCall, Call
    <3>3. CASE id \in gone
      BY <2>3, <3>3 DEF Explained
    <3>4. QED
      BY <2>5, <3>1, <3>2, <3>3 DEF Explained
  <2>6. net' \subseteq net
    BY <2>3
  <2>7. QED
    BY <1>1, <2>5, <2>6 DEF PendingExplained, Explained
<1>3. CASE Announce(a)
  <2> DEFINE d == Register(a, run[a])
  <2>1. net' = net \cup {d} /\ d.type = "register" /\ working' = working /\ gone' = gone
    BY <1>3 DEF Announce, Register
  <2> HIDE DEF d
  <2>2. \A id : Explained(id) => Explained(id)'
    BY <2>1, InRequests, WorkingSame DEF Explained
  <2>3. QED
    BY <1>1, <2>1, <2>2 DEF PendingExplained, Explained
<1>4. CASE Respond(a)
  <2> DEFINE d == Response(a, working[a].from, working[a].id, working[a].asks)
  <2>1. /\ working[a] # NoCall /\ net' = net \cup {d} /\ gone' = gone
        /\ working' = [working EXCEPT ![a] = NoCall] /\ working \in [Agents -> Datagram \cup {NoCall}]
    BY <1>4 DEF Respond, MeshInv, TypeOK
  <2>2. d.type = "response" /\ d.id = working[a].id /\ d.to = working[a].from
    BY DEF Response
  <2>3. d.to \notin Clients
    BY <1>0, <2>1, <2>2, MeshAssumption
  <2> HIDE DEF d
  <2>4. ASSUME NEW id, Explained(id) PROVE Explained(id)'
    <3>1. CASE id \in Requests(net)
      BY <2>1, <3>1, InRequests DEF Explained
    <3>2. CASE Working(id)
      <4>1. PICK b \in Agents : working[b] # NoCall /\ working[b].id = id
        BY <3>2 DEF Working
      <4>2. CASE b = a
        <5>1. d \in net' /\ d.type # "register" /\ d.id = id
          BY <2>1, <2>2, <4>1, <4>2
        <5>2. QED
          BY <5>1, InRequests DEF Explained
      <4>3. CASE b # a
        BY <2>1, <4>1, <4>3 DEF Explained, Working, NoCall, Call
      <4>4. QED
        BY <4>2, <4>3
    <3>3. CASE id \in gone
      BY <2>1, <3>3 DEF Explained
    <3>4. QED
      BY <2>4, <3>1, <3>2, <3>3 DEF Explained
  <2>5. QED
    BY <1>1, <2>1, <2>3, <2>4 DEF PendingExplained, Explained
<1>5. CASE GiveUp(a) \/ RestartAgent(a)
  <2>1. /\ net' = net /\ gone \subseteq gone' /\ working \in [Agents -> Datagram \cup {NoCall}]
        /\ working' = [working EXCEPT ![a] = NoCall]
        /\ working[a] # NoCall => working[a].id \in gone'
    BY <1>5 DEF GiveUp, RestartAgent, MeshInv, TypeOK
  <2>2. ASSUME NEW id, Explained(id) PROVE Explained(id)'
    <3>1. CASE Working(id)
      BY <2>1, <3>1 DEF Explained, Working, NoCall, Call
    <3>2. CASE ~Working(id)
      BY <2>1, <2>2, <3>2 DEF Explained
    <3>3. QED
      BY <3>1, <3>2
  <2>3. QED
    BY <1>1, <2>1, <2>2 DEF PendingExplained, Explained
<1>6. QED
  BY <1>2, <1>3, <1>4, <1>5 DEF AgentStep, AgentTrouble

LEMMA ClientExplains ==
  ASSUME NEW c \in Clients, MeshInv, PendingExplained, ClientStep(c) \/ ClientReceives(c)
  PROVE  PendingExplained'
<1>1. pending' = pending /\ working' = working /\ gone' = gone
  BY DEF ClientStep, ClientReceives, Ask, TimeOut, netVars, hubVars, agentVars
<1>2. CASE Ask(c)
  <2> DEFINE d == Call(c, Hub, 0, c)
  <2>1. net' = net \cup {d} /\ d.type = "call"
    BY <1>2 DEF Ask, Call
  <2> HIDE DEF d
  <2>2. \A id : Explained(id) => Explained(id)'
    BY <1>1, <2>1, InRequests, WorkingSame DEF Explained
  <2>3. QED
    BY <1>1, <2>1, <2>2 DEF PendingExplained, Explained
<1>3. CASE TimeOut(c)
  <2>1. net' = net
    BY <1>3 DEF TimeOut, netVars
  <2>2. QED
    BY <1>1, <2>1, WorkingSame DEF PendingExplained
<1>4. CASE ClientReceives(c)
  <2>1. PICK m \in net : \E rest \in {net, net \ {m}} : Take(m, rest) /\ AwaitResponse(c, m, rest)
    BY <1>4 DEF ClientReceives
  <2>2. PICK rest \in {net, net \ {m}} : Take(m, rest) /\ AwaitResponse(c, m, rest)
    BY <2>1
  <2>3. m.to = c /\ net' = rest /\ m.type = "response"
    BY <2>2 DEF AwaitResponse, MeshInv, Routing, Proper
  <2>4. \A p \in pending : m.id # p.id
    BY <2>3 DEF PendingExplained
  <2>5. \A p \in pending : Explained(p.id) => Explained(p.id)'
    BY <1>1, <2>3, <2>4, TakeKeeps, WorkingSame DEF Explained
  <2>6. net' \subseteq net
    BY <2>3
  <2>7. QED
    BY <1>1, <2>5, <2>6 DEF PendingExplained, Explained
<1>5. QED
  BY <1>2, <1>3, <1>4 DEF ClientStep

LEMMA TroubleExplains ==
  ASSUME MeshInv, PendingExplained, HubTrouble \/ NetTrouble PROVE PendingExplained'
<1>1. CASE HubTrouble
  BY <1>1 DEF HubTrouble, RestartHub, PendingExplained
<1>2. CASE NetTrouble
  <2>1. pending' = pending /\ working' = working
    BY <1>2 DEF NetTrouble, hubVars, agentVars
  <2>2. CASE CalmDown
    BY <2>1, <2>2, WorkingSame DEF CalmDown, PendingExplained
  <2>3. ASSUME NEW m \in net, Lose(m) PROVE PendingExplained'
    <3>1. net' = net \ {m} /\ gone' = gone \cup Requests({m})
      BY <2>3 DEF Lose
    <3>2. ASSUME NEW id, Explained(id) PROVE Explained(id)'
      <4>1. CASE id \in Requests(net)
        <5>1. id \in Requests(net') \/ (m.type # "register" /\ m.id = id)
          BY <3>1, <4>1, TakeKeeps
        <5>2. QED
          BY <3>1, <5>1, InRequests DEF Explained
      <4>2. CASE id \notin Requests(net)
        BY <2>1, <3>1, <3>2, <4>2, WorkingSame DEF Explained
      <4>3. QED
        BY <4>1, <4>2
    <3>3. QED
      BY <2>1, <3>1, <3>2 DEF PendingExplained, Explained
  <2>4. QED
    BY <1>2, <2>2, <2>3 DEF NetTrouble
<1>3. QED
  BY <1>1, <1>2

(* Whoever restarts and whatever is lost: an entry of the table of pending  *)
(* requests has its call or its answer under way, or it was lost on the way; *)
(* and with its answer on the way to the client the entry is gone.          *)
THEOREM PendingAccounted == Spec => []PendingExplained
<1> DEFINE Inv == MeshInv /\ PendingExplained
<1>1. Init => Inv
  BY InitInv DEF Init, HubInit, NetInit, PendingExplained
<1>2. Inv /\ [Next]_vars => Inv'
  <2> SUFFICES ASSUME MeshInv, PendingExplained, [Next]_vars PROVE Inv'
    OBVIOUS
  <2>1. MeshInv'
    BY MeshStep
  <2>2. CASE UNCHANGED vars
    BY <2>1, <2>2, WorkingSame DEF vars, netVars, hubVars, agentVars, PendingExplained
  <2>3. CASE AllEnded
    BY <2>1, <2>2, <2>3 DEF AllEnded
  <2>4. QED
    BY <2>1, <2>2, <2>3, HubExplains, AgentExplains, ClientExplains, TroubleExplains DEF Next
<1>3. QED
  BY <1>1, <1>2, PTL DEF Spec
=============================================================================
