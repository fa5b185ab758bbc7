---------------------------- MODULE RegistryLink ----------------------------
(***************************************************************************)
(* The request/response link between an agent and the MXP Nexus registry   *)
(* as MxpRegistryClient (agent-kernel/src/registry.rs) uses it: one UDP    *)
(* request, then a wait for the response with the same message id or for   *)
(* the transport's read timeout.                                           *)
(*                                                                         *)
(* A request is handed to tokio's blocking pool and from there to the      *)
(* network; nothing calls it back.  When the caller times out or is        *)
(* aborted the request stays on the wire and may still reach the registry, *)
(* whose answer then finds nobody waiting.  The network loses, duplicates  *)
(* and reorders datagrams.  The registry itself is external.               *)
(***************************************************************************)
CONSTANT Callers   \* the tasks that issue requests, one at a time each

VARIABLES wire,        \* requests on their way to the registry
          registered,  \* does the registry list the agent?
          reply        \* the answer waiting in each caller's socket

linkVars == <<wire, registered, reply>>

RequestKind == {"register", "heartbeat", "final"}
Request == [by : Callers, kind : RequestKind, awaited : BOOLEAN]
Answer == {"ok", "refused", "needs_register"}

LinkTypeOK ==
  /\ wire \in SUBSET Request
  /\ registered \in BOOLEAN
  /\ reply \in [Callers -> Answer \cup {"none"}]

LinkInit ==
  /\ wire = {}
  /\ registered = FALSE
  /\ reply = [c \in Callers |-> "none"]

-----------------------------------------------------------------------------
(* Client side *)

Send(c, kind) ==
  /\ wire' = wire \cup {[by |-> c, kind |-> kind, awaited |-> TRUE]}
  /\ UNCHANGED <<registered, reply>>

Awaited(c) == \E r \in wire : r.by = c /\ r.awaited

\* Nobody waits for the answers to c's requests any more.
Orphan(r, c) == IF r.by = c THEN [r EXCEPT !.awaited = FALSE] ELSE r
Forsake(c) ==
  /\ wire' = {Orphan(r, c) : r \in wire}
  /\ reply' = [reply EXCEPT ![c] = "none"]

Received(c, answers) ==
  /\ reply[c] \in answers
  /\ reply' = [reply EXCEPT ![c] = "none"]
  /\ UNCHANGED <<wire, registered>>

\* The receive times out, or the send itself fails.
TimedOut(c) ==
  /\ reply[c] = "none"
  /\ Forsake(c)
  /\ UNCHANGED registered

-----------------------------------------------------------------------------
(* Network and registry *)

Effect(kind) == CASE kind = "register"  -> TRUE
                  [] kind = "heartbeat" -> registered
                  [] kind = "final"     -> FALSE

AnswerTo(kind) == IF kind = "heartbeat" /\ ~registered THEN "needs_register" ELSE "ok"

Deliver(r, answer) ==
  /\ r \in wire
  /\ wire' = wire \ {r}
  /\ reply' = IF r.awaited THEN [reply EXCEPT ![r.by] = answer] ELSE reply

\* The registry carries the request out; its answer arrives.
Handle(r) ==
  /\ Deliver(r, AnswerTo(r.kind))
  /\ registered' = Effect(r.kind)

\* The registry answers with an error or without success.
Refuse(r) ==
  /\ Deliver(r, "refused")
  /\ UNCHANGED registered

\* The registry carries the request out; its answer is lost.
HandleUnanswered(r) ==
  /\ r \in wire
  /\ wire' = wire \ {r}
  /\ registered' = Effect(r.kind)
  /\ UNCHANGED reply

\* The network delivers one copy of the request and keeps another; the answer
\* does not get to the caller.
HandleCopy(r) ==
  /\ r \in wire
  /\ registered' = Effect(r.kind)
  /\ UNCHANGED <<wire, reply>>

\* The answer to one copy arrives; the caller waits no longer when the other
\* copy is delivered.
AnswerCopy(r) ==
  /\ r \in wire
  /\ r.awaited
  /\ \/ /\ registered' = Effect(r.kind)
        /\ reply' = [reply EXCEPT ![r.by] = AnswerTo(r.kind)]
     \/ /\ reply' = [reply EXCEPT ![r.by] = "refused"]
        /\ UNCHANGED registered
  /\ wire' = (wire \ {r}) \cup {Orphan(r, r.by)}

LoseRequest(r) ==
  /\ r \in wire
  /\ wire' = wire \ {r}
  /\ UNCHANGED <<registered, reply>>

\* The registry restarts or lets the agent's entry expire.
Forget ==
  /\ registered
  /\ registered' = FALSE
  /\ UNCHANGED <<wire, reply>>

Trouble ==
  \/ \E r \in wire : Refuse(r) \/ HandleUnanswered(r)
                   \/ HandleCopy(r) \/ AnswerCopy(r) \/ LoseRequest(r)
  \/ Forget
=============================================================================
