--------------------------- MODULE RegistryClient ---------------------------
(***************************************************************************)
(* MxpRegistryClient (agent-kernel/src/registry.rs): every request runs on *)
(* a blocking thread of its own, and all of them receive on one UDP        *)
(* socket.  A thread keeps a datagram that has its message id and discards *)
(* any other, whoever waits for it; a caller that is dropped leaves its    *)
(* thread behind.  The network loses, duplicates and reorders; the         *)
(* registry is external.                                                   *)
(***************************************************************************)
EXTENDS Naturals, FiniteSets

CONSTANTS
  Loops,          \* the background loops, which register and send heartbeats
  Departures,     \* the deregister tasks, which send the final heartbeat
  MaxRequests,    \* bound: requests in all
  MaxDatagrams    \* bound: datagrams in the socket's buffer

ASSUME ClientAssumption ==
  /\ Loops \cap Departures = {}
  /\ MaxRequests \in Nat
  /\ MaxDatagrams \in Nat

VARIABLES
  thread,      \* the blocking thread of every request, by message id
  asking,      \* the request each caller awaits; 0: none
  result,      \* what each caller's last request returned
  net,         \* requests on their way, by message id
  registered,  \* does the registry list the agent?
  inbox        \* datagrams in the socket's buffer

vars == <<thread, asking, result, net, registered, inbox>>

\* The tasks that issue requests, one at a time each.
Callers == Loops \cup Departures
Uses(c) == IF c \in Loops THEN {"register", "heartbeat"} ELSE {"final"}

Ids == 1..MaxRequests
NoThread == [by |-> "none", kind |-> "none", at |-> "none"]

\* The registry's answers: Response with the fields that matter, or Error.
Ack(success, needs) == [type |-> "Response", success |-> success, needs |-> needs]
ErrorAnswer == [type |-> "Error", success |-> FALSE, needs |-> FALSE]

\* A datagram is an answer or garbled.  `own` foretells whether the thread with
\* its id will be the one to receive it; nothing depends on it but who may.
Answered(id) == \E d \in inbox : d.id = id /\ d.own
Garbled == [id |-> 0, answer |-> ErrorAnswer, own |-> FALSE]

\* connect: the socket is bound, nothing is under way.
Init ==
  /\ thread = [id \in Ids |-> NoThread]
  /\ asking = [c \in Callers |-> 0]
  /\ result = [c \in Callers |-> "none"]
  /\ net = {}
  /\ registered = FALSE
  /\ inbox = {}

-----------------------------------------------------------------------------
(* register, heartbeat, deregister: what an answer means *)

RegisterResult(a) == IF a.type = "Response" /\ a.success THEN "ok" ELSE "refused"

HeartbeatResult(a) ==
  CASE a.type = "Response" /\ a.needs                -> "needs_register"
    [] a.type = "Response" /\ a.success /\ ~a.needs  -> "ok"
    [] OTHER                                         -> "refused"

\* needs_register is of no interest to an agent that leaves.
DeregisterResult(a) == IF a.type = "Response" /\ a.success THEN "ok" ELSE "refused"

ResultOf(kind, a) == CASE kind = "register"  -> RegisterResult(a)
                       [] kind = "heartbeat" -> HeartbeatResult(a)
                       [] kind = "final"     -> DeregisterResult(a)

-----------------------------------------------------------------------------
(* send_request and the caller *)

Ask(c, kind, id) ==
  /\ asking[c] = 0
  /\ thread[id] = NoThread /\ \A i \in 1..(id - 1) : thread[i] # NoThread
  /\ thread' = [thread EXCEPT ![id] = [by |-> c, kind |-> kind, at |-> "spawned"]]
  /\ asking' = [asking EXCEPT ![c] = id]
  /\ result' = [result EXCEPT ![c] = "none"]
  /\ UNCHANGED <<net, registered, inbox>>

\* The caller is aborted: spawn_blocking's thread goes on.
Drop(c) ==
  /\ asking[c] # 0
  /\ asking' = [asking EXCEPT ![c] = 0]
  /\ UNCHANGED <<thread, result, net, registered, inbox>>

-----------------------------------------------------------------------------
(* send_request_blocking *)

At(id, place) == thread[id].at = place
Goto(id, place) == thread' = [thread EXCEPT ![id].at = place]

SendDatagram(id) ==
  /\ At(id, "spawned")
  /\ Goto(id, "receiving")
  /\ net' = net \cup {id}
  /\ UNCHANGED <<asking, result, registered, inbox>>

SendFails(id) ==
  /\ At(id, "spawned")
  /\ Goto(id, "broken")
  /\ UNCHANGED <<asking, result, net, registered, inbox>>

\* The thread ends, and its caller returns if it is still there.
End(id, outcome) ==
  /\ Goto(id, "ended")
  /\ LET c == thread[id].by
     IN  IF asking[c] = id
         THEN /\ asking' = [asking EXCEPT ![c] = 0]
              /\ result' = [result EXCEPT ![c] = outcome]
         ELSE UNCHANGED <<asking, result>>
  /\ UNCHANGED <<net, registered>>

\* Variant: the message id is not compared.
ReceiveAny(id, d) ==
  /\ At(id, "receiving") /\ d \in inbox
  /\ d.own => d.id = id
  /\ inbox' = inbox \ {d}
  /\ End(id, ResultOf(thread[id].kind, d.answer))

\* The loop: one's own answer ends it, garbage too, and any other datagram is
\* thrown away.
Receive(id, d) ==
  /\ At(id, "receiving") /\ d \in inbox
  /\ IF d.own THEN d.id = id ELSE d.id # id
  /\ inbox' = inbox \ {d}
  /\ CASE d.id = id    -> End(id, ResultOf(thread[id].kind, d.answer))
       [] d = Garbled  -> ~Answered(id) /\ End(id, "error")
       [] OTHER        -> UNCHANGED <<thread, asking, result, net, registered>>

\* The read timeout starts anew with every receive; it ends when nothing is there.
ReceiveTimesOut(id) ==
  /\ At(id, "receiving") /\ inbox = {}
  /\ End(id, "error")
  /\ UNCHANGED inbox

ReturnSendError(id) ==
  /\ At(id, "broken")
  /\ End(id, "error")
  /\ UNCHANGED inbox

-----------------------------------------------------------------------------
(* Network and registry *)

\* What the registry may answer: it may refuse anything, and says that an agent
\* it does not list should register.  It does what it does not refuse.
AnswersTo(kind) ==
  {Ack(success, kind # "register" /\ ~registered) : success \in BOOLEAN} \cup {ErrorAnswer}

Listed(kind, a) == CASE kind = "register"  -> registered \/ a.success
                     [] kind = "heartbeat" -> registered
                     [] kind = "final"     -> registered /\ ~a.success

\* A copy of the request may stay on its way; the answer arrives or is lost.
RegistryHandles(id, answer, copied, lost, own) ==
  /\ id \in net
  /\ lost \/ Cardinality(inbox) < MaxDatagrams
  /\ own => ~lost /\ At(id, "receiving") /\ ~Answered(id)
  /\ registered' = Listed(thread[id].kind, answer)
  /\ net' = IF copied THEN net ELSE net \ {id}
  /\ inbox' = IF lost THEN inbox ELSE inbox \cup {[id |-> id, answer |-> answer, own |-> own]}
  /\ UNCHANGED <<thread, asking, result>>

LoseDatagram(id) ==
  /\ id \in net
  /\ net' = net \ {id}
  /\ UNCHANGED <<thread, asking, result, registered, inbox>>

GarbageArrives ==
  /\ Cardinality(inbox) < MaxDatagrams
  /\ inbox' = inbox \cup {Garbled}
  /\ UNCHANGED <<thread, asking, result, net, registered>>

RegistryForgets ==
  /\ registered /\ registered' = FALSE
  /\ UNCHANGED <<thread, asking, result, net, inbox>>

\* The bound on requests is reached.
Stopped == (\A id \in Ids : thread[id] # NoThread) /\ UNCHANGED vars

-----------------------------------------------------------------------------
CallerMoves(c) == Drop(c) \/ \E kind \in Uses(c), id \in Ids : Ask(c, kind, id)

ThreadMoves(id) ==
  \/ SendDatagram(id) \/ SendFails(id) \/ ReturnSendError(id) \/ ReceiveTimesOut(id)
  \/ \E d \in inbox : Receive(id, d)

NetworkMoves ==
  \/ \E id \in net : \E answer \in AnswersTo(thread[id].kind), copied, lost, own \in BOOLEAN :
       RegistryHandles(id, answer, copied, lost, own)
  \/ \E id \in Ids : LoseDatagram(id)
  \/ GarbageArrives
  \/ RegistryForgets

Next ==
  \/ \E c \in Callers : CallerMoves(c)
  \/ \E id \in Ids : ThreadMoves(id)
  \/ NetworkMoves
  \/ Stopped

Spec == Init /\ [][Next]_vars

-----------------------------------------------------------------------------
(* The link the registration worker and the kernel are built on *)

OnTheWay == net \cup {id \in Ids : At(id, "spawned")}

wire == {[by |-> thread[id].by, kind |-> thread[id].kind,
          awaited |-> asking[thread[id].by] = id /\ ~Answered(id)] : id \in OnTheWay}

reply == [c \in Callers |->
  IF asking[c] # 0 /\ Answered(asking[c])
  THEN LET d == CHOOSE d \in inbox : d.id = asking[c] /\ d.own
       IN  ResultOf(thread[d.id].kind, d.answer)
  ELSE "none"]

Link == INSTANCE RegistryLink

Returned(c) == asking[c] # 0 /\ asking'[c] = 0 /\ result'[c] # "none"

\* A request is sent, returns the registry's answer to it, fails or is given up.
LinkUse(c) ==
  \/ \E kind \in Uses(c) : Link!Send(c, kind)
  \/ Returned(c) /\ Link!Received(c, {result'[c]})
  \/ Returned(c) /\ result'[c] = "error" /\ Link!TimedOut(c)
  \/ result'[c] = "none" /\ Link!Forsake(c) /\ UNCHANGED registered

LinkStep ==
  \/ \E c \in Callers : LinkUse(c)
  \/ \E r \in wire : Link!Handle(r)
  \/ Link!Trouble

\* Whatever the threads steal from each other on the shared socket, a caller
\* gets the registry's answer to its own request or an error, and the registry
\* sees no request that nobody issued: the client is the link that the worker
\* and the kernel are modelled and proved with.
ImplementsLink == Link!LinkInit /\ [][LinkStep]_<<wire, registered, reply>>
=============================================================================
