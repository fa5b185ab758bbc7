------------------------ MODULE RegistrationService ------------------------
(***************************************************************************)
(* A registration worker on its own: the loop of RegistrationWorker, the   *)
(* link to the registry, and an environment that may set the shutdown flag *)
(* at any time and may at some time become calm.  Once it is calm nothing  *)
(* is lost, refused or forgotten and no answer comes too late.             *)
(***************************************************************************)
EXTENDS RegistrationWorker

VARIABLES
  calm,
  missed   \* history: heartbeats that failed since the last success

vars == <<pc, retryDelay, failures, shutdown, wire, registered, reply, calm, missed>>

Init ==
  /\ LoopInit
  /\ Link!LinkInit
  /\ calm = FALSE
  /\ missed = [w \in Workers |-> 0]

\* While it is calm a receive times out only if its answer can no longer come.
Prompt(w) == calm => ~Link!Awaited(w)

\* How requests ended, seen from outside of the loop and whatever it counts: up
\* to the threshold, a bound that changes nothing.
Outcome(w, n) ==
  CASE pc[w] \in {"registering", "beating"} /\ reply[w] = "ok" -> 0
    [] pc[w] = "beating" /\ reply[w] # "ok" /\ n < MaxConsecutiveFailures -> n + 1
    [] OTHER -> n
Observe(w) == missed' = [missed EXCEPT ![w] = Outcome(w, @)]

WorkerMoves(w) ==
  /\ WorkerStep(w)
  /\ Prompt(w)
  /\ Observe(w)
  /\ UNCHANGED calm

SetShutdown(w) ==
  /\ shutdown' = [shutdown EXCEPT ![w] = TRUE]
  /\ UNCHANGED <<loopVars, linkVars, calm, missed>>

Handled ==
  /\ \E r \in wire : Link!Handle(r)
  /\ UNCHANGED <<loopVars, shutdown, calm, missed>>

Troubled ==
  /\ ~calm
  /\ Link!Trouble
  /\ UNCHANGED <<loopVars, shutdown, calm, missed>>

CalmDown ==
  /\ ~calm /\ calm' = TRUE
  /\ UNCHANGED <<loopVars, shutdown, linkVars, missed>>

Stopped ==
  /\ \A w \in Workers : pc[w] = "stopped"
  /\ UNCHANGED vars

Next ==
  \/ \E w \in Workers : WorkerMoves(w) \/ SetShutdown(w)
  \/ Handled
  \/ Troubled
  \/ CalmDown
  \/ Stopped

Fairness ==
  /\ \A w \in Workers : WF_vars(WorkerMoves(w))
  /\ WF_vars(Handled)

Spec == Init /\ [][Next]_vars /\ Fairness

-----------------------------------------------------------------------------
TypeOK ==
  /\ LoopTypeOK
  /\ Link!LinkTypeOK
  /\ calm \in BOOLEAN
  /\ missed \in [Workers -> 0..MaxConsecutiveFailures]

\* Re-registration is for an outage: a worker leaves its heartbeat loop for
\* register() exactly when the heartbeat that fails is the last of as many in a
\* row as the threshold.  Not one earlier, not one later, and never for failures
\* that a success or a registration lies between, however they came about.
FailureBudget ==
  [][\A w \in Workers :
       pc[w] \in {"tick", "beat", "beating"} =>
         (pc'[w] = "top" <=> missed[w] < MaxConsecutiveFailures
                             /\ missed'[w] = MaxConsecutiveFailures)]_vars

\* Whatever was lost, refused or forgotten before, once the network and the
\* registry behave the agent gets registered, and stays so while the worker is
\* not told to stop: no sequence of failures wedges the two nested loops.
RecoversOnceCalm ==
  \A w \in Workers : calm ~> [](registered \/ shutdown[w])

\* The shutdown flag alone ends the worker, in whatever state it is and
\* however badly the registry behaves; the abort is not needed for that.
ShutdownStopsWorker ==
  \A w \in Workers : shutdown[w] ~> pc[w] = "stopped"

\* docs/usage.md:224-225, CHANGELOG.md:17: heartbeats automatically trigger
\* re-registration whenever the registry responds with needs_register = true.
NeedsRegisterHonoured ==
  [][\A w \in Workers :
       /\ pc[w] = "beating" /\ reply[w] = "needs_register"
       /\ pc'[w] # "beating"
       => pc'[w] \in {"top", "stopped"}]_vars
=============================================================================
