------------------------ MODULE RegistryClient_proofs ------------------------
(***************************************************************************)
(* Proof that the client with its shared socket implements the link, for   *)
(* any number of requests, callers and datagrams.                          *)
(***************************************************************************)
EXTENDS RegistryClient, TLAPS

Kinds == {"register", "heartbeat", "final"}
Outcomes == {"ok", "refused", "needs_register"}
Answers == {Ack(s, n) : s, n \in BOOLEAN} \cup {ErrorAnswer}
Datagrams == [id : Ids \cup {0}, answer : Answers, own : BOOLEAN]

Types ==
  /\ thread \in [Ids -> [by : Callers \cup {"none"}, kind : Kinds \cup {"none"},
                         at : {"none", "spawned", "receiving", "broken", "ended"}]]
  /\ asking \in [Callers -> Ids \cup {0}]
  /\ result \in [Callers -> Outcomes \cup {"none", "error"}]
  /\ net \in SUBSET Ids
  /\ registered \in BOOLEAN
  /\ inbox \in SUBSET Datagrams

\* A thread that was started knows its caller and its kind, a caller asks with
\* one of its own threads that has not ended, and a datagram that is foretold to
\* be received has its thread receiving, and no other is for it.
Threads ==
  /\ \A id \in Ids : ~At(id, "none") => thread[id].by \in Callers /\ thread[id].kind \in Kinds
  /\ \A c \in Callers : asking[c] # 0 =>
       /\ thread[asking[c]].by = c
       /\ thread[asking[c]].at \in {"spawned", "receiving", "broken"}
       /\ result[c] = "none"
  /\ \A id \in net : thread[id].at \in {"receiving", "ended"}

Foretold ==
  /\ \A d \in inbox : d.own => d.id \in Ids /\ At(d.id, "receiving")
  /\ \A d, e \in inbox : d.own /\ e.own /\ d.id = e.id => d = e

ClientInv == Types /\ Threads /\ Foretold

-----------------------------------------------------------------------------
(* The mapping as a function of the values it depends on *)

\* The answers in box that are foretold to reach the thread of id.
Own(box, id) == {d \in box : d.id = id /\ d.own}

AnsweredIn(box, id) == \E d \in box : d.id = id /\ d.own

Carried(thr, ask, box, id) ==
  [by |-> thr[id].by, kind |-> thr[id].kind,
   awaited |-> ask[thr[id].by] = id /\ ~AnsweredIn(box, id)]

ReplyFor(thr, box, id) ==
  IF id # 0 /\ AnsweredIn(box, id)
  THEN LET d == CHOOSE d \in box : d.id = id /\ d.own
       IN  ResultOf(thr[d.id].kind, d.answer)
  ELSE "none"

Wired(id) == Carried(thread, asking, inbox, id)

LEMMA Mapping ==
  /\ wire = {Carried(thread, asking, inbox, id) : id \in OnTheWay}
  /\ wire' = {Carried(thread', asking', inbox', id) : id \in OnTheWay'}
  /\ reply = [c \in Callers |-> ReplyFor(thread, inbox, asking[c])]
  /\ reply' = [c \in Callers |-> ReplyFor(thread', inbox', asking'[c])]
  BY DEF wire, reply, Carried, ReplyFor, AnsweredIn, Answered

\* The reply is the one answer that is foretold.
LEMMA ReplyIs ==
  ASSUME NEW thr, NEW box, NEW d \in box, d.own, d.id # 0,
         \A e \in box : e.own /\ e.id = d.id => e = d
  PROVE  ReplyFor(thr, box, d.id) = ResultOf(thr[d.id].kind, d.answer)
<1>1. AnsweredIn(box, d.id)
  BY DEF AnsweredIn
<1>2. (CHOOSE e \in box : e.id = d.id /\ e.own) = d
  OBVIOUS
<1>3. QED
  BY <1>1, <1>2 DEF ReplyFor

LEMMA NoReply ==
  ASSUME NEW thr, NEW box, NEW id, id = 0 \/ ~AnsweredIn(box, id)
  PROVE  ReplyFor(thr, box, id) = "none"
  BY DEF ReplyFor

\* It depends on the datagrams that are foretold for the request.
LEMMA ReplySame ==
  ASSUME NEW thr, NEW thr2, NEW box, NEW box2, NEW id,
         Own(box2, id) = Own(box, id),
         \A d, e \in box : d.own /\ e.own /\ d.id = e.id => d = e,
         id # 0 => thr2[id].kind = thr[id].kind
  PROVE  ReplyFor(thr2, box2, id) = ReplyFor(thr, box, id)
<1>1. CASE id = 0 \/ ~AnsweredIn(box, id)
  <2>1. id = 0 \/ ~AnsweredIn(box2, id)
    BY <1>1 DEF AnsweredIn, Own
  <2>2. QED
    BY <1>1, <2>1, NoReply
<1>2. CASE id # 0 /\ AnsweredIn(box, id)
  <2>1. PICK d \in box : d.id = id /\ d.own
    BY <1>2 DEF AnsweredIn
  <2>2. ReplyFor(thr, box, id) = ResultOf(thr[d.id].kind, d.answer)
    BY <1>2, <2>1, ReplyIs
  <2>3. d \in box2 /\ \A e \in box2 : e.own /\ e.id = d.id => e = d
    BY <2>1 DEF Own
  <2>4. ReplyFor(thr2, box2, id) = ResultOf(thr2[d.id].kind, d.answer)
    BY <1>2, <2>1, <2>3, ReplyIs
  <2>5. QED
    BY <1>2, <2>1, <2>2, <2>4
<1>3. QED
  BY <1>1, <1>2

-----------------------------------------------------------------------------
LinkMove == [LinkStep]_<<wire, registered, reply>>

LEMMA Shapes ==
  ASSUME ClientInv
  PROVE  /\ OnTheWay \in SUBSET Ids
         /\ \A id \in OnTheWay : Wired(id) \in Link!Request
         /\ \A d \in inbox : d \in Datagrams
  BY DEF ClientInv, Types, Threads, OnTheWay, At, Wired, Carried, Link!Request,
         Link!RequestKind, Kinds

\* A step that leaves callers, their requests and the foretold answers alone.
LEMMA Quiet ==
  ASSUME ClientInv, asking' = asking,
         \A id \in Ids : thread'[id].by = thread[id].by /\ thread'[id].kind = thread[id].kind,
         \A d : d.own => (d \in inbox' <=> d \in inbox)
  PROVE  /\ reply' = reply
         /\ \A id \in Ids : Carried(thread', asking', inbox', id) = Wired(id)
<1>1. \A id \in Ids : AnsweredIn(inbox', id) <=> AnsweredIn(inbox, id)
  BY DEF AnsweredIn
<1>2. \A id \in Ids : Carried(thread', asking', inbox', id) = Wired(id)
  BY <1>1 DEF Carried, Wired
<1>3. ASSUME NEW c \in Callers
      PROVE  ReplyFor(thread', inbox', asking'[c]) = ReplyFor(thread, inbox, asking[c])
  <2>1. asking[c] # 0 => thread'[asking[c]].kind = thread[asking[c]].kind
    BY DEF ClientInv, Types
  <2>2. \A d, e \in inbox : d.own /\ e.own /\ d.id = e.id => d = e
    BY DEF ClientInv, Foretold
  <2>3. Own(inbox', asking[c]) = Own(inbox, asking[c])
    BY DEF Own
  <2>4. QED
    BY <2>1, <2>2, <2>3, ReplySame
<1>4. QED
  BY <1>2, <1>3, Mapping

\* A request that leaves the way takes its record along, or another stays that
\* looks the same.
LEMMA Leaves ==
  ASSUME ClientInv, NEW id \in OnTheWay, OnTheWay' \in {OnTheWay, OnTheWay \ {id}},
         \A i \in Ids : Carried(thread', asking', inbox', i) = Wired(i)
  PROVE  Wired(id) \in wire /\ wire' \in {wire, wire \ {Wired(id)}}
<1>1. wire = {Wired(i) : i \in OnTheWay} /\ wire' = {Wired(i) : i \in OnTheWay'}
  <2>1. wire' = {Carried(thread', asking', inbox', i) : i \in OnTheWay'}
    BY Mapping
  <2>2. OnTheWay' \subseteq Ids
    BY Shapes
  <2>3. QED
    BY <2>1, <2>2, Mapping DEF Wired
<1>2. CASE OnTheWay' = OnTheWay
  BY <1>1, <1>2
<1>3. CASE OnTheWay' = OnTheWay \ {id} /\ Wired(id) \in wire'
  BY <1>1, <1>3
<1>4. CASE OnTheWay' = OnTheWay \ {id} /\ Wired(id) \notin wire'
  BY <1>1, <1>4
<1>5. QED
  BY <1>1, <1>2, <1>3, <1>4

\* A caller asks no more, and only answers to its own request may go with it.
LEMMA Forsaken ==
  ASSUME ClientInv, NEW c \in Callers, asking[c] # 0, asking' = [asking EXCEPT ![c] = 0],
         \A id \in Ids : thread'[id].by = thread[id].by /\ thread'[id].kind = thread[id].kind,
         \A d : d.own /\ d.id # asking[c] => (d \in inbox' <=> d \in inbox),
         OnTheWay' = OnTheWay
  PROVE  /\ wire' = {Link!Orphan(r, c) : r \in wire}
         /\ reply' = [reply EXCEPT ![c] = "none"]
         /\ Answered(asking[c]) => wire' = wire
<1>1. \A id \in Ids : id # asking[c] => (AnsweredIn(inbox', id) <=> AnsweredIn(inbox, id))
  BY DEF AnsweredIn
<1>2. asking \in [Callers -> Ids \cup {0}] /\ asking' \in [Callers -> Ids \cup {0}]
  BY DEF ClientInv, Types
<1>3. ASSUME NEW id \in OnTheWay
      PROVE  Carried(thread', asking', inbox', id) = Link!Orphan(Wired(id), c)
  <2>1. id \in Ids /\ id # 0 /\ thread[id].by \in Callers
    BY Shapes DEF ClientInv, Threads, OnTheWay, At, Ids
  <2>2. CASE thread[id].by = c
    BY <2>1, <2>2, <1>2 DEF Carried, Wired, Link!Orphan
  <2>3. CASE thread[id].by # c
    <3>1. id # asking[c]
      BY <2>3 DEF ClientInv, Threads
    <3>2. QED
      BY <2>1, <2>3, <3>1, <1>1, <1>2 DEF Carried, Wired, Link!Orphan
  <2>4. QED
    BY <2>2, <2>3
<1>4. wire' = {Link!Orphan(r, c) : r \in wire}
  BY <1>3, Mapping DEF Wired
<1>5. ASSUME NEW b \in Callers
      PROVE  ReplyFor(thread', inbox', asking'[b])
               = IF b = c THEN "none" ELSE ReplyFor(thread, inbox, asking[b])
  <2>1. CASE b = c
    <3>1. asking'[b] = 0
      BY <2>1, <1>2
    <3>2. ReplyFor(thread', inbox', asking'[b]) = "none"
      BY <3>1, NoReply
    <3>3. QED
      BY <2>1, <3>2
  <2>2. CASE b # c
    <3>1. asking'[b] = asking[b]
      BY <2>2, <1>2
    <3>2. asking[b] # 0 => thread'[asking[b]].kind = thread[asking[b]].kind
      BY <1>2
    <3>3. asking[b] # 0 => asking[b] # asking[c]
      BY <2>2 DEF ClientInv, Threads
    <3>4. asking[b] = 0 => ReplyFor(thread', inbox', asking'[b]) = ReplyFor(thread, inbox, asking[b])
      BY <3>1, NoReply
    <3>5. \A d, e \in inbox : d.own /\ e.own /\ d.id = e.id => d = e
      BY DEF ClientInv, Foretold
    <3>6. ASSUME asking[b] # 0
          PROVE  ReplyFor(thread', inbox', asking'[b]) = ReplyFor(thread, inbox, asking[b])
      <4>1. Own(inbox', asking[b]) = Own(inbox, asking[b])
        BY <3>3, <3>6 DEF Own
      <4>2. QED
        BY <3>1, <3>2, <3>5, <3>6, <4>1, ReplySame
    <3>7. QED
      BY <2>2, <3>4, <3>6
  <2>3. QED
    BY <2>1, <2>2
<1>6. reply' = [reply EXCEPT ![c] = "none"]
  BY <1>5, Mapping
<1>7. ASSUME Answered(asking[c]), NEW id \in OnTheWay
      PROVE  Link!Orphan(Wired(id), c) = Wired(id)
  BY <1>7 DEF Link!Orphan, Wired, Carried, Answered, AnsweredIn
<1>8. Answered(asking[c]) => wire' = wire
  BY <1>4, <1>7, Mapping DEF Wired
<1>9. QED
  BY <1>4, <1>6, <1>8

-----------------------------------------------------------------------------
(* What keeps the invariant *)

\* A thread goes from one place to another and its caller knows nothing of it.
LEMMA MovesOn ==
  ASSUME ClientInv, NEW id \in Ids, NEW place \in {"receiving", "broken"},
         thread[id].at = "spawned", thread' = [thread EXCEPT ![id].at = place],
         net' = net \/ (place = "receiving" /\ net' = net \cup {id}),
         UNCHANGED <<asking, result, registered, inbox>>
  PROVE  ClientInv'
<1>1. Types'
  BY DEF ClientInv, Types
<1>2. /\ thread'[id] = [thread[id] EXCEPT !.at = place]
      /\ \A i \in Ids : i # id => thread'[i] = thread[i]
  BY DEF ClientInv, Types
<1>3. Threads'
  BY <1>2 DEF ClientInv, Types, Threads, At
<1>4. Foretold'
  BY <1>2 DEF ClientInv, Types, Foretold, At
<1>5. QED
  BY <1>1, <1>3, <1>4 DEF ClientInv

\* A thread ends and takes the answer foretold to it along.
LEMMA EndKeeps ==
  ASSUME ClientInv, NEW id \in Ids, NEW outcome \in Outcomes \cup {"error"},
         thread[id].at \in {"receiving", "broken"}, End(id, outcome),
         inbox' \subseteq inbox, \A d \in inbox' : d.own => d.id # id
  PROVE  ClientInv'
<1> DEFINE c == thread[id].by
<1>1. c \in Callers
  BY DEF ClientInv, Threads, At
<1>2. Types'
  BY <1>1 DEF ClientInv, Types, End, Goto
<1>3. /\ thread'[id] = [thread[id] EXCEPT !.at = "ended"]
      /\ \A i \in Ids : i # id => thread'[i] = thread[i]
      /\ net' = net
  BY DEF ClientInv, Types, End, Goto
<1>4. ASSUME NEW b \in Callers, asking'[b] # 0
      PROVE  /\ thread'[asking'[b]].by = b
             /\ thread'[asking'[b]].at \in {"spawned", "receiving", "broken"}
             /\ result'[b] = "none"
  <2>1. asking'[b] = asking[b] /\ result'[b] = result[b] /\ asking[b] # id
    BY <1>1, <1>4 DEF End, ClientInv, Types, Threads
  <2>2. asking[b] \in Ids
    BY <2>1, <1>4 DEF ClientInv, Types
  <2>3. QED
    BY <1>3, <1>4, <2>1, <2>2 DEF ClientInv, Threads
<1>5. Threads'
  BY <1>3, <1>4 DEF ClientInv, Types, Threads, At
<1>6. Foretold'
  BY <1>3 DEF ClientInv, Foretold, At
<1>7. QED
  BY <1>2, <1>5, <1>6 DEF ClientInv

\* Only network, registry and socket move, and what is newly foretold is for a
\* thread that receives and has nothing foretold yet.
LEMMA NetworkKeeps ==
  ASSUME ClientInv, UNCHANGED <<thread, asking, result>>, net' \subseteq net,
         registered' \in BOOLEAN, NEW d \in Datagrams, inbox' \subseteq inbox \cup {d},
         d.own => d.id \in Ids /\ At(d.id, "receiving") /\ ~Answered(d.id)
  PROVE  ClientInv'
<1>1. Types'
  BY DEF ClientInv, Types
<1>2. Threads'
  BY DEF ClientInv, Threads, At
<1>3. Foretold'
  BY DEF ClientInv, Foretold, At, Answered
<1>4. QED
  BY <1>1, <1>2, <1>3 DEF ClientInv

LEMMA InitInv == Init => ClientInv /\ Link!LinkInit
<1> SUFFICES ASSUME Init PROVE ClientInv /\ Link!LinkInit
  OBVIOUS
<1> USE DEF Init
<1>1. Types
  BY DEF Types, NoThread
<1>2. Threads
  BY DEF Threads, At, NoThread
<1>3. Foretold
  BY DEF Foretold
<1>4. OnTheWay = {}
  BY DEF OnTheWay, At, NoThread
<1>5. Link!LinkInit
  BY <1>4 DEF Link!LinkInit, wire, reply
<1>6. QED
  BY <1>1, <1>2, <1>3, <1>5 DEF ClientInv

-----------------------------------------------------------------------------
(* What each step does to the link *)

LEMMA AskStep ==
  ASSUME ClientInv, NEW c \in Callers, NEW kind \in Uses(c), NEW id \in Ids, Ask(c, kind, id)
  PROVE  ClientInv' /\ LinkMove
<1>1. kind \in Kinds /\ id # 0
  BY DEF Kinds, Ids, Uses
<1>2. thread[id].at = "none" /\ id \notin net /\ ~AnsweredIn(inbox, id)
  BY DEF Ask, NoThread, ClientInv, Threads, Foretold, AnsweredIn, At
<1>3. /\ thread'[id] = [by |-> c, kind |-> kind, at |-> "spawned"]
      /\ \A i \in Ids : i # id => thread'[i] = thread[i]
      /\ asking'[c] = id /\ asking[c] = 0 /\ result'[c] = "none"
      /\ \A b \in Callers : b # c => asking'[b] = asking[b] /\ result'[b] = result[b]
      /\ UNCHANGED <<net, registered, inbox>>
  BY DEF Ask, ClientInv, Types
<1>4. \A b \in Callers : asking[b] \in Ids \cup {0} /\ asking[b] # id
  BY <1>1, <1>2 DEF ClientInv, Types, Threads
<1>5. Types'
  BY <1>1 DEF Ask, ClientInv, Types
<1>6. Threads'
  BY <1>1, <1>2, <1>3, <1>4 DEF ClientInv, Types, Threads, At
<1>7. Foretold'
  BY <1>2, <1>3 DEF ClientInv, Foretold, At
<1>8. OnTheWay' = OnTheWay \cup {id} /\ OnTheWay \subseteq Ids \ {id}
  BY <1>2, <1>3 DEF OnTheWay, At, ClientInv, Types
<1>9. Carried(thread', asking', inbox', id) = [by |-> c, kind |-> kind, awaited |-> TRUE]
  <2>1. ~AnsweredIn(inbox', id)
    BY <1>2, <1>3
  <2>2. thread'[id].by = c /\ thread'[id].kind = kind /\ asking'[c] = id
    BY <1>3
  <2>3. QED
    BY <2>1, <2>2 DEF Carried
<1>10. ASSUME NEW i \in OnTheWay
       PROVE  Carried(thread', asking', inbox', i) = Wired(i)
  <2>1. i \in Ids /\ i # id /\ i # 0 /\ thread'[i] = thread[i] /\ thread[i].by \in Callers
    BY <1>3, <1>8 DEF ClientInv, Threads, OnTheWay, At, Ids
  <2>2. asking'[thread[i].by] = i <=> asking[thread[i].by] = i
    BY <2>1, <1>3
  <2>3. QED
    BY <2>1, <2>2, <1>3 DEF Carried, Wired, AnsweredIn
<1>11. wire' = wire \cup {[by |-> c, kind |-> kind, awaited |-> TRUE]}
  BY <1>8, <1>9, <1>10, Mapping DEF Wired
<1>12. ASSUME NEW b \in Callers
       PROVE  ReplyFor(thread', inbox', asking'[b]) = ReplyFor(thread, inbox, asking[b])
  <2>1. CASE b = c
    <3>1. ~AnsweredIn(inbox', asking'[b])
      BY <2>1, <1>2, <1>3 DEF AnsweredIn
    <3>2. ReplyFor(thread', inbox', asking'[b]) = "none" /\ ReplyFor(thread, inbox, asking[b]) = "none"
      BY <2>1, <3>1, <1>3, NoReply
    <3>3. QED
      BY <3>2
  <2>2. CASE b # c
    <3>1. asking'[b] = asking[b] /\ inbox' = inbox
      BY <2>2, <1>3
    <3>2. asking[b] # 0 => thread'[asking[b]].kind = thread[asking[b]].kind
      BY <1>3, <1>4
    <3>3. \A d, e \in inbox : d.own /\ e.own /\ d.id = e.id => d = e
      BY DEF ClientInv, Foretold
    <3>4. ReplyFor(thread', inbox, asking[b]) = ReplyFor(thread, inbox, asking[b])
      BY <3>2, <3>3, ReplySame
    <3>5. QED
      BY <3>1, <3>4
  <2>3. QED
    BY <2>1, <2>2
<1>13. reply' = reply
  BY <1>12, Mapping
<1>14. LinkUse(c)
  BY <1>3, <1>11, <1>13 DEF LinkUse, Link!Send
<1>15. QED
  BY <1>5, <1>6, <1>7, <1>14 DEF ClientInv, LinkMove, LinkStep

LEMMA DropStep ==
  ASSUME ClientInv, NEW c \in Callers, Drop(c)
  PROVE  ClientInv' /\ LinkMove
<1>1. /\ asking[c] # 0 /\ asking' = [asking EXCEPT ![c] = 0]
      /\ UNCHANGED <<thread, result, net, registered, inbox>>
  BY DEF Drop
<1>2. ClientInv'
  BY <1>1 DEF ClientInv, Types, Threads, Foretold, At
<1>3. OnTheWay' = OnTheWay
  BY <1>1 DEF OnTheWay, At
<1>4. /\ wire' = {Link!Orphan(r, c) : r \in wire}
      /\ reply' = [reply EXCEPT ![c] = "none"]
  BY <1>1, <1>3, Forsaken
<1>5. result'[c] = "none"
  BY <1>1 DEF ClientInv, Threads
<1>6. LinkUse(c)
  BY <1>1, <1>4, <1>5 DEF LinkUse, Link!Forsake
<1>7. QED
  BY <1>2, <1>6 DEF LinkMove, LinkStep

LEMMA SendStep ==
  ASSUME ClientInv, NEW id \in Ids, SendDatagram(id)
  PROVE  ClientInv' /\ LinkMove
<1>1. /\ thread[id].at = "spawned" /\ thread' = [thread EXCEPT ![id].at = "receiving"]
      /\ net' = net \cup {id}
      /\ UNCHANGED <<asking, result, registered, inbox>>
  BY DEF SendDatagram, At, Goto
<1>2. ClientInv'
  BY <1>1, MovesOn
<1>3. \A i \in Ids : thread'[i] = IF i = id THEN [thread[i] EXCEPT !.at = "receiving"] ELSE thread[i]
  BY <1>1 DEF ClientInv, Types
<1>4. \A i \in Ids : thread'[i].by = thread[i].by /\ thread'[i].kind = thread[i].kind
  BY ZenonT(30), <1>3 DEF ClientInv, Types
<1>5. OnTheWay' = OnTheWay
  BY <1>1, <1>3 DEF OnTheWay, At, ClientInv, Types
<1>6. reply' = reply /\ \A i \in Ids : Carried(thread', asking', inbox', i) = Wired(i)
  BY <1>1, <1>4, Quiet
<1>7. wire' = wire
  BY <1>5, <1>6, Shapes, Mapping DEF Wired
<1>8. QED
  BY <1>1, <1>2, <1>6, <1>7 DEF LinkMove

LEMMA SendFailsStep ==
  ASSUME ClientInv, NEW id \in Ids, SendFails(id)
  PROVE  ClientInv' /\ LinkMove
<1>1. /\ thread[id].at = "spawned" /\ thread' = [thread EXCEPT ![id].at = "broken"]
      /\ UNCHANGED <<asking, result, net, registered, inbox>>
  BY DEF SendFails, At, Goto
<1>2. ClientInv'
  BY <1>1, MovesOn
<1>3. \A i \in Ids : thread'[i] = IF i = id THEN [thread[i] EXCEPT !.at = "broken"] ELSE thread[i]
  BY <1>1 DEF ClientInv, Types
<1>4. \A i \in Ids : thread'[i].by = thread[i].by /\ thread'[i].kind = thread[i].kind
  BY ZenonT(30), <1>3 DEF ClientInv, Types
<1>5. id \in OnTheWay /\ OnTheWay' = OnTheWay \ {id}
  BY <1>1, <1>3 DEF OnTheWay, At, ClientInv, Types, Threads
<1>6. reply' = reply /\ \A i \in Ids : Carried(thread', asking', inbox', i) = Wired(i)
  BY <1>1, <1>4, Quiet
<1>7. Wired(id) \in wire /\ wire' \in {wire, wire \ {Wired(id)}}
  BY <1>5, <1>6, Leaves
<1>8. wire' = wire \/ Link!LoseRequest(Wired(id))
  BY <1>1, <1>6, <1>7 DEF Link!LoseRequest
<1>9. QED
  BY <1>1, <1>2, <1>6, <1>7, <1>8 DEF LinkMove, LinkStep, Link!Trouble

\* A thread ends with the answer foretold to it, or with an error while none is.
LEMMA EndStep ==
  ASSUME ClientInv, NEW id \in Ids, NEW outcome \in Outcomes \cup {"error"},
         thread[id].at \in {"receiving", "broken"}, End(id, outcome),
         inbox' \subseteq inbox, \A d \in inbox' : d.own => d.id # id,
         \A d : d.own /\ d.id # id => (d \in inbox' <=> d \in inbox),
         \/ outcome = "error" /\ ~Answered(id)
         \/ \E d \in inbox : d.own /\ d.id = id /\ outcome = ResultOf(thread[id].kind, d.answer)
  PROVE  ClientInv' /\ LinkMove
<1> DEFINE c == thread[id].by
<1>1. ClientInv'
  BY EndKeeps
<1>2. c \in Callers /\ id # 0
  BY DEF ClientInv, Threads, At, Ids
<1>3. \A i \in Ids : thread'[i].by = thread[i].by /\ thread'[i].kind = thread[i].kind
  BY DEF End, Goto, ClientInv, Types
<1>4. OnTheWay' = OnTheWay /\ UNCHANGED <<net, registered>>
  BY DEF End, Goto, OnTheWay, At, ClientInv, Types
<1>5. CASE asking[c] = id
  <2>1. asking' = [asking EXCEPT ![c] = 0] /\ result'[c] = outcome
    BY <1>2, <1>5 DEF End, ClientInv, Types
  <2>2. /\ wire' = {Link!Orphan(r, c) : r \in wire}
        /\ reply' = [reply EXCEPT ![c] = "none"]
        /\ Answered(asking[c]) => wire' = wire
    BY <1>2, <1>3, <1>4, <1>5, <2>1, Forsaken
  <2>3. asking[c] # 0 /\ asking'[c] = 0
    BY <1>2, <1>5, <2>1 DEF ClientInv, Types
  <2>4. Returned(c)
    BY <2>1, <2>3 DEF Returned, Outcomes
  <2>5. reply[c] = ReplyFor(thread, inbox, id)
    BY <1>2, <1>5, Mapping
  <2>6. CASE outcome = "error" /\ ~Answered(id)
    <3>1. reply[c] = "none"
      BY <2>5, <2>6, NoReply DEF Answered, AnsweredIn
    <3>2. Link!TimedOut(c)
      BY <1>4, <2>2, <3>1 DEF Link!TimedOut, Link!Forsake
    <3>3. LinkUse(c)
      BY <2>1, <2>4, <2>6, <3>2 DEF LinkUse
    <3>4. QED
      BY <1>1, <1>2, <3>3 DEF LinkMove, LinkStep
  <2>7. CASE \E d \in inbox : d.own /\ d.id = id /\ outcome = ResultOf(thread[id].kind, d.answer)
    <3>1. PICK d \in inbox : d.own /\ d.id = id /\ outcome = ResultOf(thread[id].kind, d.answer)
      BY <2>7
    <3>2. \A e \in inbox : e.own /\ e.id = d.id => e = d
      BY <3>1 DEF ClientInv, Foretold
    <3>3. ReplyFor(thread, inbox, d.id) = ResultOf(thread[d.id].kind, d.answer)
      BY ZenonT(30), <1>2, <3>1, <3>2, ReplyIs
    <3>4. reply[c] = outcome
      BY <2>5, <3>1, <3>3
    <3>5. wire' = wire
      BY <1>5, <2>2, <3>1 DEF Answered
    <3>6. Link!Received(c, {result'[c]})
      BY <1>4, <2>1, <2>2, <3>4, <3>5 DEF Link!Received
    <3>7. QED
      BY <1>1, <1>2, <2>4, <3>6 DEF LinkMove, LinkStep, LinkUse
  <2>8. QED
    BY <2>6, <2>7
<1>6. CASE asking[c] # id
  <2>1. asking' = asking
    BY <1>6 DEF End
  <2>2. \A b \in Callers : asking[b] # id
    BY <1>2, <1>6 DEF ClientInv, Threads
  <2>3. \A i \in Ids : i # id => (AnsweredIn(inbox', i) <=> AnsweredIn(inbox, i))
    BY DEF AnsweredIn
  <2>4. ASSUME NEW i \in OnTheWay PROVE Carried(thread', asking', inbox', i) = Wired(i)
    <3>1. i \in Ids
      BY Shapes
    <3>2. thread'[i].by = thread[i].by /\ thread'[i].kind = thread[i].kind
      BY <1>3, <3>1
    <3>3. CASE i = id
      BY <1>6, <2>1, <3>2, <3>3 DEF Carried, Wired
    <3>4. CASE i # id
      <4>1. AnsweredIn(inbox', i) <=> AnsweredIn(inbox, i)
        BY <2>3, <3>1, <3>4
      <4>2. QED
        BY <2>1, <3>2, <4>1 DEF Carried, Wired
    <3>5. QED
      BY <3>3, <3>4
  <2>5. wire' = wire
    BY <1>4, <2>4, Mapping DEF Wired
  <2>6. ASSUME NEW b \in Callers
        PROVE  ReplyFor(thread', inbox', asking'[b]) = ReplyFor(thread, inbox, asking[b])
    <3>1. Own(inbox', asking[b]) = Own(inbox, asking[b])
      BY <2>2 DEF Own
    <3>2. asking[b] # 0 => thread'[asking[b]].kind = thread[asking[b]].kind
      BY <1>3 DEF ClientInv, Types
    <3>3. \A d, e \in inbox : d.own /\ e.own /\ d.id = e.id => d = e
      BY DEF ClientInv, Foretold
    <3>4. ReplyFor(thread', inbox', asking[b]) = ReplyFor(thread, inbox, asking[b])
      BY <3>1, <3>2, <3>3, ReplySame
    <3>5. QED
      BY <2>1, <3>4
  <2>7. reply' = reply
    BY <2>6, Mapping
  <2>8. QED
    BY <1>1, <1>4, <2>5, <2>7 DEF LinkMove
<1>7. QED
  BY <1>5, <1>6

\* Every answer means one of the outcomes.
LEMMA Outcome ==
  ASSUME NEW kind \in Kinds, NEW a \in Answers
  PROVE  ResultOf(kind, a) \in Outcomes
  BY DEF Kinds, Answers, Ack, ErrorAnswer, Outcomes, ResultOf, RegisterResult,
         HeartbeatResult, DeregisterResult

LEMMA ReceiveStep ==
  ASSUME ClientInv, NEW id \in Ids, NEW d \in inbox, Receive(id, d)
  PROVE  ClientInv' /\ LinkMove
<1>1. /\ thread[id].at = "receiving"
      /\ inbox' = inbox \ {d} /\ (d.own <=> d.id = id)
  <2>1. d.own \in BOOLEAN
    BY Shapes DEF Datagrams
  <2>2. QED
    BY <2>1 DEF Receive, At
<1>2. thread[id].kind \in Kinds /\ d \in Datagrams /\ id # 0
  BY <1>1, Shapes DEF ClientInv, Threads, At, Ids
<1>3. \A e : e.own /\ e.id # id => (e \in inbox' <=> e \in inbox)
  BY <1>1
<1>4. CASE d.id = id
  <2>0. d # Garbled
    BY <1>2, <1>4 DEF Garbled
  <2>1. End(id, ResultOf(thread[id].kind, d.answer)) /\ d.own
    BY <1>1, <1>4, <2>0 DEF Receive
  <2>2. ResultOf(thread[id].kind, d.answer) \in Outcomes
    BY <1>2, Outcome DEF Datagrams
  <2>3. \A e \in inbox' : e.own => e.id # id
    BY <1>1, <1>4 DEF ClientInv, Foretold
  <2>4. QED
    BY <1>1, <1>3, <1>4, <2>1, <2>2, <2>3, EndStep
<1>5. CASE d.id # id /\ d = Garbled
  <2>1. End(id, "error") /\ ~Answered(id)
    BY <1>5 DEF Receive
  <2>2. \A e \in inbox' : e.own => e.id # id
    BY <1>1, <2>1 DEF Answered
  <2>3. QED
    BY <1>1, <1>3, <2>1, <2>2, EndStep
<1>6. CASE d.id # id /\ d # Garbled
  <2>1. UNCHANGED <<thread, asking, result, net, registered>>
    BY <1>6 DEF Receive
  <2>2. ClientInv'
    BY <1>1, <2>1 DEF ClientInv, Types, Threads, Foretold, At
  <2>3. \A e : e.own => (e \in inbox' <=> e \in inbox)
    BY <1>1, <1>6
  <2>4. reply' = reply /\ \A i \in Ids : Carried(thread', asking', inbox', i) = Wired(i)
    BY <2>1, <2>3, Quiet
  <2>5. OnTheWay' = OnTheWay
    BY <2>1 DEF OnTheWay, At
  <2>6. wire' = wire
    BY <2>4, <2>5, Shapes, Mapping DEF Wired
  <2>7. QED
    BY <2>1, <2>2, <2>4, <2>6 DEF LinkMove
<1>7. QED
  BY <1>4, <1>5, <1>6

LEMMA ErrorStep ==
  ASSUME ClientInv, NEW id \in Ids, ReceiveTimesOut(id) \/ ReturnSendError(id)
  PROVE  ClientInv' /\ LinkMove
<1>1. /\ thread[id].at \in {"receiving", "broken"} /\ End(id, "error") /\ inbox' = inbox
      /\ inbox = {} \/ thread[id].at = "broken"
  BY DEF ReceiveTimesOut, ReturnSendError, At
<1>2. \A d \in inbox : d.own => d.id # id
  BY <1>1 DEF ClientInv, Foretold, At
<1>3. ~Answered(id)
  BY <1>2 DEF Answered
<1>4. QED
  BY <1>1, <1>2, <1>3, EndStep

\* The registry's answer to a request and what it lists then are the link's.
LEMMA RegistryAnswers ==
  ASSUME NEW kind \in Kinds, NEW answer \in AnswersTo(kind), registered \in BOOLEAN
  PROVE  /\ answer \in Answers
         /\ \/ /\ ResultOf(kind, answer) = Link!AnswerTo(kind)
               /\ Listed(kind, answer) = Link!Effect(kind)
            \/ /\ ResultOf(kind, answer) = "refused"
               /\ Listed(kind, answer) = registered
         /\ Listed(kind, answer) \in BOOLEAN
<1>1. \A s, n \in BOOLEAN : /\ Ack(s, n) \in Answers
                            /\ Ack(s, n).type = "Response"
                            /\ Ack(s, n).success = s /\ Ack(s, n).needs = n
  BY DEF Ack, Answers
<1>2. ErrorAnswer \in Answers /\ ErrorAnswer.type = "Error" /\ ErrorAnswer.success = FALSE
  BY DEF ErrorAnswer, Answers
<1>3. CASE answer = ErrorAnswer
  BY <1>2, <1>3 DEF Kinds, ResultOf, RegisterResult, HeartbeatResult, DeregisterResult, Listed
<1>4. ASSUME answer # ErrorAnswer
      PROVE  \E s \in BOOLEAN : answer = Ack(s, kind # "register" /\ ~registered)
  BY <1>4 DEF AnswersTo
<1>5. CASE answer # ErrorAnswer
  <2>1. PICK s \in BOOLEAN : answer = Ack(s, kind # "register" /\ ~registered)
    BY <1>4, <1>5
  <2>2. /\ answer \in Answers /\ answer.type = "Response" /\ answer.success = s
        /\ answer.needs = (kind # "register" /\ ~registered)
    BY <1>1, <2>1
  <2>3. CASE kind = "register"
    BY <2>2, <2>3 DEF ResultOf, RegisterResult, Listed, Link!AnswerTo, Link!Effect
  <2>4. CASE kind = "heartbeat"
    BY <2>2, <2>4 DEF ResultOf, HeartbeatResult, Listed, Link!AnswerTo, Link!Effect
  <2>5. CASE kind = "final"
    BY <2>2, <2>5 DEF ResultOf, DeregisterResult, Listed, Link!AnswerTo, Link!Effect
  <2>6. QED
    BY <2>3, <2>4, <2>5 DEF Kinds
<1>6. QED
  BY <1>3, <1>5

\* The registry handles a request and no caller hears of it.
LEMMA Unheard ==
  ASSUME ClientInv, NEW id \in net, OnTheWay' \in {OnTheWay, OnTheWay \ {id}},
         \A i \in Ids : Carried(thread', asking', inbox', i) = Wired(i), reply' = reply,
         registered' \in {registered, Link!Effect(thread[id].kind)}
  PROVE  LinkMove
<1> DEFINE r == Wired(id)
<1>1. id \in OnTheWay
  BY DEF OnTheWay
<1>2. r \in wire /\ wire' \in {wire, wire \ {r}}
  BY <1>1, Leaves
<1>3. r.kind = thread[id].kind
  BY DEF Wired, Carried
<1>4. CASE registered' = registered /\ wire' = wire
  BY <1>4 DEF LinkMove
<1>5. CASE registered' = registered /\ wire' = wire \ {r}
  BY <1>2, <1>5 DEF LinkMove, LinkStep, Link!Trouble, Link!LoseRequest
<1>6. CASE registered' = Link!Effect(thread[id].kind) /\ wire' = wire
  BY <1>2, <1>3, <1>6 DEF LinkMove, LinkStep, Link!Trouble, Link!HandleCopy
<1>7. CASE registered' = Link!Effect(thread[id].kind) /\ wire' = wire \ {r}
  BY <1>2, <1>3, <1>7 DEF LinkMove, LinkStep, Link!Trouble, Link!HandleUnanswered
<1>8. QED
  BY <1>2, <1>4, <1>5, <1>6, <1>7

\* The answer is foretold to the thread whose caller waits for it.
LEMMA Heard ==
  ASSUME ClientInv, NEW id \in net, NEW answer \in AnswersTo(thread[id].kind),
         asking[thread[id].by] = id, ~Answered(id),
         UNCHANGED <<thread, asking>>,
         OnTheWay' \in {OnTheWay, OnTheWay \ {id}},
         inbox' = inbox \cup {[id |-> id, answer |-> answer, own |-> TRUE]},
         registered' = Listed(thread[id].kind, answer)
  PROVE  LinkMove
<1> DEFINE c == thread[id].by
           kind == thread[id].kind
           d == [id |-> id, answer |-> answer, own |-> TRUE]
           r == Wired(id)
<1>1. /\ id \in OnTheWay /\ id \in Ids /\ id # 0 /\ c \in Callers /\ kind \in Kinds
      /\ \A i \in OnTheWay : thread[i].by \in Callers
  BY DEF OnTheWay, ClientInv, Types, Threads, At, Ids
<1>2. \A i : i # id => /\ Own(inbox', i) = Own(inbox, i)
                       /\ AnsweredIn(inbox', i) <=> AnsweredIn(inbox, i)
  BY DEF Own, AnsweredIn
<1>3. r = [by |-> c, kind |-> kind, awaited |-> TRUE]
  BY DEF Wired, Carried, Answered, AnsweredIn
<1>4. Carried(thread', asking', inbox', id) = Link!Orphan(r, c)
  <2>1. d \in inbox' /\ d.id = id /\ d.own = TRUE
    OBVIOUS
  <2>2. AnsweredIn(inbox', id)
    BY <2>1 DEF AnsweredIn
  <2>3. Carried(thread', asking', inbox', id) = [by |-> c, kind |-> kind, awaited |-> FALSE]
    BY <2>2 DEF Carried
  <2>4. Link!Orphan([by |-> c, kind |-> kind, awaited |-> TRUE], c)
          = [by |-> c, kind |-> kind, awaited |-> FALSE]
    BY DEF Link!Orphan
  <2>5. QED
    BY <1>3, <2>3, <2>4
<1>5. ASSUME NEW i \in OnTheWay, i # id
      PROVE  Carried(thread', asking', inbox', i) = Wired(i) /\ Wired(i) # r
  <2>1. Carried(thread', asking', inbox', i) = Wired(i)
    BY <1>2, <1>5 DEF Carried, Wired
  <2>2. thread[i].by = c => ~Wired(i).awaited
    BY <1>5 DEF Wired, Carried
  <2>3. QED
    BY <1>3, <2>1, <2>2 DEF Wired, Carried
<1>6. r \in wire /\ r.by = c /\ r.kind = kind /\ r.awaited
  BY <1>1, <1>3, Mapping DEF Wired
<1>7. wire = {Wired(i) : i \in OnTheWay} /\ wire' = {Carried(thread', asking', inbox', i) : i \in OnTheWay'}
  BY Mapping DEF Wired
<1>8. /\ OnTheWay' = OnTheWay => wire' = (wire \ {r}) \cup {Link!Orphan(r, r.by)}
      /\ OnTheWay' = OnTheWay \ {id} => wire' = wire \ {r}
  <2> DEFINE rest == {Wired(i) : i \in OnTheWay \ {id}}
  <2>1. wire \ {r} = rest
    BY <1>1, <1>5, <1>7
  <2>2. rest = {Carried(thread', asking', inbox', i) : i \in OnTheWay \ {id}}
    BY <1>5
  <2>3. OnTheWay' = OnTheWay \ {id} => wire' = rest
    BY <1>7, <2>2
  <2>4. OnTheWay' = OnTheWay => wire' = rest \cup {Carried(thread', asking', inbox', id)}
    BY <1>1, <1>7, <2>2
  <2>5. QED
    BY <1>4, <1>6, <2>1, <2>3, <2>4
<1>9. ASSUME NEW b \in Callers
      PROVE  ReplyFor(thread', inbox', asking'[b])
               = IF b = c THEN ResultOf(kind, answer) ELSE ReplyFor(thread, inbox, asking[b])
  <2>1. CASE b = c
    <3>1. d \in inbox' /\ d.own /\ d.id = id /\ d.answer = answer
      OBVIOUS
    <3>2. \A e \in inbox' : e.own /\ e.id = d.id => e = d
      BY DEF Answered
    <3>3. PICK x \in inbox' : /\ x.own /\ x.id = id /\ x.answer = answer
                              /\ \A e \in inbox' : e.own /\ e.id = x.id => e = x
      BY <3>1, <3>2
    <3>4. ReplyFor(thread', inbox', x.id) = ResultOf(thread'[x.id].kind, x.answer)
      BY ZenonT(30), <1>1, <3>3, ReplyIs
    <3>5. QED
      BY <2>1, <3>3, <3>4
  <2>2. CASE b # c
    <3>1. asking[b] # id
      BY <1>1, <2>2 DEF ClientInv, Threads
    <3>2. \A x, e \in inbox : x.own /\ e.own /\ x.id = e.id => x = e
      BY DEF ClientInv, Foretold
    <3>3. Own(inbox', asking[b]) = Own(inbox, asking[b])
      BY <1>2, <3>1
    <3>4. ReplyFor(thread', inbox', asking[b]) = ReplyFor(thread, inbox, asking[b])
      BY <3>2, <3>3, ReplySame
    <3>5. QED
      BY <2>2, <3>4
  <2>3. QED
    BY <2>1, <2>2
<1>10. reply' = [reply EXCEPT ![c] = ResultOf(kind, answer)]
  BY <1>9, Mapping
<1>11. registered \in BOOLEAN
  BY DEF ClientInv, Types
<1>12. \/ /\ ResultOf(kind, answer) = Link!AnswerTo(kind)
          /\ registered' = Link!Effect(kind)
       \/ /\ ResultOf(kind, answer) = "refused"
          /\ registered' = registered
  BY <1>1, <1>11, RegistryAnswers
<1>13. CASE OnTheWay' = OnTheWay
  <2>1. Link!AnswerCopy(r)
    BY <1>6, <1>8, <1>10, <1>12, <1>13 DEF Link!AnswerCopy
  <2>2. QED
    BY <1>6, <2>1 DEF LinkMove, LinkStep, Link!Trouble
<1>14. CASE OnTheWay' = OnTheWay \ {id}
  <2>1. Link!Deliver(r, ResultOf(kind, answer))
    BY <1>6, <1>8, <1>10, <1>14 DEF Link!Deliver
  <2>2. Link!Handle(r) \/ Link!Refuse(r)
    BY <1>6, <1>12, <2>1 DEF Link!Handle, Link!Refuse
  <2>3. QED
    BY <1>6, <2>2 DEF LinkMove, LinkStep, Link!Trouble
<1>15. QED
  BY <1>13, <1>14

LEMMA HandlesStep ==
  ASSUME ClientInv, NEW id \in net, NEW answer \in AnswersTo(thread[id].kind),
         NEW copied \in BOOLEAN, NEW lost \in BOOLEAN, NEW own \in BOOLEAN,
         RegistryHandles(id, answer, copied, lost, own)
  PROVE  ClientInv' /\ LinkMove
<1> DEFINE d == [id |-> id, answer |-> answer, own |-> own]
           kind == thread[id].kind
<1>1. id \in Ids /\ kind \in Kinds /\ thread[id].by \in Callers /\ registered \in BOOLEAN
  BY DEF ClientInv, Types, Threads, At
<1>2. /\ own => ~lost /\ At(id, "receiving") /\ ~Answered(id)
      /\ registered' = Listed(kind, answer)
      /\ net' \in {net, net \ {id}}
      /\ inbox' = inbox \/ (inbox' = inbox \cup {d} /\ ~lost)
      /\ own => inbox' = inbox \cup {d}
      /\ UNCHANGED <<thread, asking, result>>
  BY DEF RegistryHandles
<1>3. /\ answer \in Answers /\ registered' \in BOOLEAN
      /\ registered' \in {registered, Link!Effect(kind)}
  BY <1>1, <1>2, RegistryAnswers
<1>4. ClientInv'
  <2>1. d \in Datagrams
    BY <1>1, <1>3 DEF Datagrams
  <2>2. inbox' \subseteq inbox \cup {d} /\ net' \subseteq net
    BY <1>2
  <2>3. d.own => d.id \in Ids /\ At(d.id, "receiving") /\ ~Answered(d.id)
    BY <1>1, <1>2
  <2>4. QED
    BY <1>2, <1>3, <2>1, <2>2, <2>3, NetworkKeeps
<1>5. OnTheWay' \in {OnTheWay, OnTheWay \ {id}}
  BY <1>2 DEF OnTheWay, At, ClientInv, Threads
<1>6. CASE own /\ asking[thread[id].by] = id
  <2>1. inbox' = inbox \cup {[id |-> id, answer |-> answer, own |-> TRUE]}
    BY <1>2, <1>6
  <2>2. QED
    BY <1>2, <1>4, <1>5, <1>6, <2>1, Heard
<1>7. CASE ~own
  <2>1. \A x : x.own => (x \in inbox' <=> x \in inbox)
    BY <1>2, <1>7
  <2>2. reply' = reply /\ \A i \in Ids : Carried(thread', asking', inbox', i) = Wired(i)
    BY <1>2, <2>1, Quiet
  <2>3. QED
    BY <1>3, <1>4, <1>5, <2>2, Unheard
<1>8. CASE own /\ asking[thread[id].by] # id
  <2>1. \A i : i # id => /\ Own(inbox', i) = Own(inbox, i)
                         /\ AnsweredIn(inbox', i) <=> AnsweredIn(inbox, i)
    BY <1>2, <1>8 DEF Own, AnsweredIn
  <2>2. ASSUME NEW i \in Ids PROVE Carried(thread', asking', inbox', i) = Wired(i)
    <3>1. CASE i = id
      BY <1>2, <1>8, <3>1 DEF Carried, Wired
    <3>2. CASE i # id
      BY <1>2, <2>1, <3>2 DEF Carried, Wired
    <3>3. QED
      BY <3>1, <3>2
  <2>3. ASSUME NEW b \in Callers
        PROVE  ReplyFor(thread', inbox', asking'[b]) = ReplyFor(thread, inbox, asking[b])
    <3>1. asking[b] # id
      BY <1>1, <1>8 DEF ClientInv, Threads, Ids
    <3>2. \A x, e \in inbox : x.own /\ e.own /\ x.id = e.id => x = e
      BY DEF ClientInv, Foretold
    <3>3. Own(inbox', asking[b]) = Own(inbox, asking[b])
      BY <2>1, <3>1
    <3>4. ReplyFor(thread, inbox', asking[b]) = ReplyFor(thread, inbox, asking[b])
      BY <3>2, <3>3, ReplySame
    <3>5. QED
      BY <1>2, <3>4
  <2>4. reply' = reply
    BY <2>3, Mapping
  <2>5. QED
    BY <1>3, <1>4, <1>5, <2>2, <2>4, Unheard
<1>9. QED
  BY <1>4, <1>6, <1>7, <1>8

LEMMA NetworkStep ==
  ASSUME ClientInv, NetworkMoves
  PROVE  ClientInv' /\ LinkMove
<1>1. CASE \E id \in net : \E answer \in AnswersTo(thread[id].kind), copied, lost, own \in BOOLEAN :
             RegistryHandles(id, answer, copied, lost, own)
  BY <1>1, HandlesStep
<1>2. CASE \E id \in Ids : LoseDatagram(id)
  <2>1. PICK id \in Ids : LoseDatagram(id)
    BY <1>2
  <2>2. /\ id \in net /\ net' = net \ {id}
        /\ UNCHANGED <<thread, asking, result, registered, inbox>>
    BY <2>1 DEF LoseDatagram
  <2>3. ClientInv'
    BY <2>2 DEF ClientInv, Types, Threads, Foretold, At
  <2>4. OnTheWay' = OnTheWay \ {id}
    BY <2>2 DEF OnTheWay, At, ClientInv, Threads
  <2>5. reply' = reply /\ \A i \in Ids : Carried(thread', asking', inbox', i) = Wired(i)
    BY <2>2, Quiet
  <2>6. QED
    BY <2>2, <2>3, <2>4, <2>5, Unheard
<1>3. CASE GarbageArrives
  <2>1. inbox' = inbox \cup {Garbled} /\ UNCHANGED <<thread, asking, result, net, registered>>
    BY <1>3 DEF GarbageArrives
  <2>2. Garbled \in Datagrams /\ Garbled.own = FALSE
    BY DEF Garbled, Datagrams, Answers
  <2>3. ClientInv'
    BY <2>1, <2>2 DEF ClientInv, Types, Threads, Foretold, At
  <2>4. \A d : d.own => (d \in inbox' <=> d \in inbox)
    BY <2>1, <2>2
  <2>5. reply' = reply /\ \A i \in Ids : Carried(thread', asking', inbox', i) = Wired(i)
    BY <2>1, <2>4, Quiet
  <2>6. OnTheWay' = OnTheWay
    BY <2>1 DEF OnTheWay, At
  <2>7. wire' = wire
    BY <2>5, <2>6, Shapes, Mapping DEF Wired
  <2>8. QED
    BY <2>1, <2>3, <2>5, <2>7 DEF LinkMove
<1>4. CASE RegistryForgets
  <2>1. registered /\ registered' = FALSE /\ UNCHANGED <<thread, asking, result, net, inbox>>
    BY <1>4 DEF RegistryForgets
  <2>2. ClientInv'
    BY <2>1 DEF ClientInv, Types, Threads, Foretold, At
  <2>3. reply' = reply /\ \A i \in Ids : Carried(thread', asking', inbox', i) = Wired(i)
    BY <2>1, Quiet
  <2>4. OnTheWay' = OnTheWay
    BY <2>1 DEF OnTheWay, At
  <2>5. wire' = wire
    BY <2>3, <2>4, Shapes, Mapping DEF Wired
  <2>6. Link!Forget
    BY <2>1, <2>3, <2>5 DEF Link!Forget
  <2>7. QED
    BY <2>2, <2>6 DEF LinkMove, LinkStep, Link!Trouble
<1>5. QED
  BY <1>1, <1>2, <1>3, <1>4 DEF NetworkMoves

LEMMA ClientStep == ClientInv /\ [Next]_vars => ClientInv' /\ LinkMove
<1> SUFFICES ASSUME ClientInv, [Next]_vars PROVE ClientInv' /\ LinkMove
  OBVIOUS
<1>1. CASE UNCHANGED vars
  <2>1. UNCHANGED <<thread, asking, result, net, registered, inbox>>
    BY <1>1 DEF vars
  <2>2. ClientInv'
    BY <2>1 DEF ClientInv, Types, Threads, Foretold, At
  <2>3. reply' = reply /\ \A i \in Ids : Carried(thread', asking', inbox', i) = Wired(i)
    BY <2>1, Quiet
  <2>4. OnTheWay' = OnTheWay
    BY <2>1 DEF OnTheWay, At
  <2>5. wire' = wire
    BY <2>3, <2>4, Shapes, Mapping DEF Wired
  <2>6. QED
    BY <2>1, <2>2, <2>3, <2>5 DEF LinkMove
<1>2. CASE \E c \in Callers : CallerMoves(c)
  BY <1>2, AskStep, DropStep DEF CallerMoves
<1>3. CASE \E id \in Ids : ThreadMoves(id)
  BY <1>3, SendStep, SendFailsStep, ErrorStep, ReceiveStep DEF ThreadMoves
<1>4. CASE Stopped
  BY <1>1, <1>4 DEF Stopped
<1>5. QED
  BY <1>1, <1>2, <1>3, <1>4, NetworkStep DEF Next

LEMMA ClientInvariant == Spec => []ClientInv
<1>1. QED
  BY InitInv, ClientStep, PTL DEF Spec

(* The client of any number of requests, callers and datagrams implements   *)
(* the link: a caller gets the registry's answer to its own request or an   *)
(* error, and the registry sees only requests that somebody issued.         *)
THEOREM ClientRefinesLink == Spec => ImplementsLink
<1>1. ClientInv /\ [Next]_vars => [LinkStep]_<<wire, registered, reply>>
  BY ClientStep DEF LinkMove
<1>2. QED
  BY <1>1, InitInv, ClientInvariant, PTL DEF Spec, ImplementsLink
=============================================================================
