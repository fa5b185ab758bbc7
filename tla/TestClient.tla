----------------------------- MODULE TestClient -----------------------------
(***************************************************************************)
(* examples/test-client: one call to the coordinator and a wait of sixty   *)
(* seconds for the first datagram that decodes.                            *)
(***************************************************************************)
EXTENDS MeshNetwork

VARIABLES
  client,     \* where each client is
  got         \* the datagram it has taken for its answer

clientVars == <<client, got>>

Nothing == Response(Hub, Hub, 0, Nobody)

ClientInit ==
  /\ client = [c \in Clients |-> "idle"]
  /\ got = [c \in Clients |-> Nothing]

Ask(c) ==
  /\ client[c] = "idle"
  /\ client' = [client EXCEPT ![c] = "waiting"]
  /\ net' = net \cup {Call(c, Hub, 0, c)}
  /\ UNCHANGED <<copies, calm, gone, got>>

AwaitResponse(c, m, rest) ==
  /\ client[c] = "waiting"
  /\ m.to = c
  /\ client' = [client EXCEPT ![c] = "answered"]
  /\ got' = [got EXCEPT ![c] = m]
  /\ net' = rest

\* max_wait is over, or the socket fails.
TimeOut(c) ==
  /\ client[c] = "waiting"
  /\ client' = [client EXCEPT ![c] = "timed_out"]
  /\ UNCHANGED <<netVars, got>>
=============================================================================
