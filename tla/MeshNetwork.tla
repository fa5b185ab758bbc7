---------------------------- MODULE MeshNetwork ----------------------------
(***************************************************************************)
(* The datagrams between the example programs, as they use mxp::Transport: *)
(* UDP, which loses, reorders and duplicates.  A datagram that does not    *)
(* decode, or that its sender fails to send, counts as lost.               *)
(***************************************************************************)
EXTENDS Naturals

CONSTANTS
  Clients, Agents,
  Hub,             \* the coordinator
  Nobody,
  MaxCopies        \* bound: datagrams delivered twice

ASSUME NetworkAssumption ==
  /\ Nobody \notin Clients
  /\ MaxCopies \in Nat

VARIABLES
  net,             \* datagrams on their way, or in a socket
  copies,
  calm,            \* the environment causes no more trouble
  gone             \* history: requests that were lost, or that an agent gave up

netVars == <<net, copies, calm, gone>>

\* A registration carries the agent's run for its id; a call the client that
\* asks; id is the request_id, 0 before the coordinator has chosen one.
Datagram ==
  [type : {"register", "call", "response"}, from : Clients \cup Agents \cup {Hub},
   to : Clients \cup Agents \cup {Hub}, id : Nat, asks : Clients \cup {Nobody}]

Register(a, run) ==
  [type |-> "register", from |-> a, to |-> Hub, id |-> run, asks |-> Nobody]
Call(from, to, id, asks) ==
  [type |-> "call", from |-> from, to |-> to, id |-> id, asks |-> asks]
Response(from, to, id, asks) ==
  [type |-> "response", from |-> from, to |-> to, id |-> id, asks |-> asks]

NetInit == net = {} /\ copies = 0 /\ calm = FALSE /\ gone = {}

\* A receiver takes m and leaves the rest; the network may keep a copy.
Take(m, rest) ==
  /\ m \in net
  /\ \/ rest = net \ {m} /\ UNCHANGED copies
     \/ ~calm /\ copies < MaxCopies /\ rest = net /\ copies' = copies + 1

Requests(ms) == {m.id : m \in {x \in ms : x.type # "register"}}

Lose(m) ==
  /\ ~calm
  /\ m \in net
  /\ net' = net \ {m}
  /\ gone' = gone \cup Requests({m})
  /\ UNCHANGED <<copies, calm>>

CalmDown == ~calm /\ calm' = TRUE /\ UNCHANGED <<net, copies, gone>>
=============================================================================
