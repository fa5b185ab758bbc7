------------------------- MODULE RegistrationWorker -------------------------
(***************************************************************************)
(* The background loop of agent-kernel/src/registry.rs that registers an   *)
(* agent and then sends heartbeats: run_registration_loop and, nested in   *)
(* it, run_heartbeat_loop.                                                 *)
(*                                                                         *)
(* pc names the next step of a worker.  It can be dropped by an abort only *)
(* where it awaits: at "registering", "backoff", "tick" and "beating".     *)
(* Elapsed time is not modelled: a sleep or an interval tick may end       *)
(* whenever the worker is scheduled.                                       *)
(***************************************************************************)
EXTENDS Naturals, FiniteSets

CONSTANTS Workers,                 \* the background loops
          Callers,                 \* all users of the link, the workers included
          InitialRetryDelay,       \* RegistrationConfig, delays in any unit
          MaxRetryDelay,
          MaxConsecutiveFailures   \* a NonZeroUsize

ASSUME WorkerAssumption ==
  /\ Workers \subseteq Callers
  /\ InitialRetryDelay \in Nat \ {0}
  /\ MaxRetryDelay \in Nat
  /\ InitialRetryDelay <= MaxRetryDelay    \* RegistrationConfig::validate
  /\ MaxConsecutiveFailures \in Nat \ {0}

VARIABLES
  pc, retryDelay, failures,   \* the loop's own state
  shutdown,                   \* the AtomicBool the controller sets
  wire, registered, reply     \* the link to the registry

loopVars == <<pc, retryDelay, failures>>

Link == INSTANCE RegistryLink
linkVars == <<wire, registered, reply>>

PC == {"top", "register", "registering", "backoff", "tick", "beat", "beating", "stopped"}
AwaitPoints == {"registering", "backoff", "tick", "beating"}

LoopTypeOK ==
  /\ pc \in [Workers -> PC]
  /\ retryDelay \in [Workers -> InitialRetryDelay..MaxRetryDelay]
  /\ failures \in [Workers -> 0..MaxConsecutiveFailures]
  /\ shutdown \in [Workers -> BOOLEAN]

LoopInit ==
  /\ pc = [w \in Workers |-> "top"]
  /\ retryDelay = [w \in Workers |-> InitialRetryDelay]
  /\ failures = [w \in Workers |-> 0]
  /\ shutdown = [w \in Workers |-> FALSE]

Goto(w, to) == pc' = [pc EXCEPT ![w] = to]
UnlessShutdown(w, to) == Goto(w, IF shutdown[w] THEN "stopped" ELSE to)

-----------------------------------------------------------------------------
(* run_registration_loop *)

\* Variant: `while !shutdown` is missing from the outer loop.
LoopTopUnchecked(w) ==
  /\ pc[w] = "top"
  /\ Goto(w, "register")
  /\ UNCHANGED <<retryDelay, failures, shutdown, linkVars>>

LoopTop(w) ==
  /\ pc[w] = "top"
  /\ UnlessShutdown(w, "register")
  /\ UNCHANGED <<retryDelay, failures, shutdown, linkVars>>

CallRegister(w) ==
  /\ pc[w] = "register"
  /\ Link!Send(w, "register")
  /\ Goto(w, "registering")
  /\ UNCHANGED <<retryDelay, failures, shutdown>>

\* Ok(()): the backoff is reset and the heartbeat loop entered, whose
\* `while !shutdown` is evaluated before its first tick.
Registered(w) ==
  /\ pc[w] = "registering"
  /\ Link!Received(w, {"ok"})
  /\ retryDelay' = [retryDelay EXCEPT ![w] = InitialRetryDelay]
  /\ failures' = [failures EXCEPT ![w] = 0]
  /\ UnlessShutdown(w, "tick")
  /\ UNCHANGED shutdown

RegisterFailed(w) ==
  /\ pc[w] = "registering"
  /\ Link!Received(w, Link!Answer \ {"ok"}) \/ Link!TimedOut(w)
  /\ Goto(w, "backoff")
  /\ UNCHANGED <<retryDelay, failures, shutdown>>

\* Variant: the delay doubles without its cap.
WakeUpUncapped(w) ==
  /\ pc[w] = "backoff"
  /\ retryDelay' = [retryDelay EXCEPT ![w] = 2 * @]
  /\ Goto(w, "top")
  /\ UNCHANGED <<failures, shutdown, linkVars>>

WakeUp(w) ==
  /\ pc[w] = "backoff"
  /\ retryDelay' = [retryDelay EXCEPT
       ![w] = IF 2 * @ < MaxRetryDelay THEN 2 * @ ELSE MaxRetryDelay]
  /\ Goto(w, "top")
  /\ UNCHANGED <<failures, shutdown, linkVars>>

-----------------------------------------------------------------------------
(* run_heartbeat_loop *)

Tick(w) ==
  /\ pc[w] = "tick"
  /\ UnlessShutdown(w, "beat")
  /\ UNCHANGED <<retryDelay, failures, shutdown, linkVars>>

CallHeartbeat(w) ==
  /\ pc[w] = "beat"
  /\ Link!Send(w, "heartbeat")
  /\ Goto(w, "beating")
  /\ UNCHANGED <<retryDelay, failures, shutdown>>

\* Variant: a success does not reset the count.
HeartbeatOkUnreset(w) ==
  /\ pc[w] = "beating"
  /\ Link!Received(w, {"ok"})
  /\ UnlessShutdown(w, "tick")
  /\ UNCHANGED <<retryDelay, failures, shutdown>>

HeartbeatOk(w) ==
  /\ pc[w] = "beating"
  /\ Link!Received(w, {"ok"})
  /\ failures' = [failures EXCEPT ![w] = 0]
  /\ UnlessShutdown(w, "tick")
  /\ UNCHANGED <<retryDelay, shutdown>>

\* Variant: the failure is not counted.
HeartbeatFailedUncounted(w) ==
  /\ pc[w] = "beating"
  /\ Link!Received(w, Link!Answer \ {"ok"}) \/ Link!TimedOut(w)
  /\ UnlessShutdown(w, "tick")
  /\ UNCHANGED <<retryDelay, failures, shutdown>>

\* A needs_register answer is an error like any other: it is counted, and only
\* the threshold sends the worker back to register().
HeartbeatFailed(w) ==
  /\ pc[w] = "beating"
  /\ Link!Received(w, Link!Answer \ {"ok"}) \/ Link!TimedOut(w)
  /\ failures' = [failures EXCEPT ![w] = @ + 1]
  /\ IF failures'[w] >= MaxConsecutiveFailures
       THEN Goto(w, "top")
       ELSE UnlessShutdown(w, "tick")
  /\ UNCHANGED <<retryDelay, shutdown>>

-----------------------------------------------------------------------------
\* Steps that start at an await point, which an aborted worker no longer takes.
Resume(w) ==
  \/ Registered(w) \/ RegisterFailed(w) \/ WakeUp(w)
  \/ Tick(w) \/ HeartbeatOk(w) \/ HeartbeatFailed(w)

\* Steps between two await points.
Continue(w) == LoopTop(w) \/ CallRegister(w) \/ CallHeartbeat(w)

\* The runtime drops the future at an await point; its request stays out there.
DropLoop(w) ==
  /\ pc[w] \in AwaitPoints
  /\ Goto(w, "stopped")
  /\ Link!Forsake(w)
  /\ UNCHANGED <<retryDelay, failures, shutdown, registered>>

WorkerStep(w) == Resume(w) \/ Continue(w)
=============================================================================
