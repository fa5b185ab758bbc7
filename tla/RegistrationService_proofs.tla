--------------------- MODULE RegistrationService_proofs ---------------------
(***************************************************************************)
(* Proofs about RegistrationService for any workers, delays and failure    *)
(* threshold.  What is left of the budget is inductive together with the   *)
(* types of the loops, and makes the loop's own count, which starts again  *)
(* with every registration, what the answers came to.  The link only       *)
(* matters for its own type.                                               *)
(***************************************************************************)
EXTENDS RegistrationService, TLAPS

Between == {"tick", "beat", "beating"}

\* A worker between two heartbeats has some of its budget left.
BudgetLeft == \A w \in Workers : pc[w] \in Between => failures[w] < MaxConsecutiveFailures

LoopInv == LoopTypeOK /\ BudgetLeft

-----------------------------------------------------------------------------
(* The loops: steps of one worker, from the code's point of view *)

\* Worker w moves on without touching its counters.
LEMMA MoveKeeps ==
  ASSUME LoopInv, NEW w \in Workers, NEW to \in PC,
         to \in Between => failures[w] < MaxConsecutiveFailures,
         Goto(w, to), UNCHANGED <<retryDelay, failures, shutdown>>
  PROVE  LoopInv'
  BY WorkerAssumption DEF LoopInv, LoopTypeOK, BudgetLeft, Between, Goto

\* The delay stays between its initial value and its maximum.
LEMMA WakeUpKeeps ==
  ASSUME LoopInv, NEW w \in Workers, WakeUp(w)
  PROVE  LoopInv'
<1> DEFINE next == IF 2 * retryDelay[w] < MaxRetryDelay THEN 2 * retryDelay[w] ELSE MaxRetryDelay
<1>1. next \in InitialRetryDelay..MaxRetryDelay
  BY WorkerAssumption DEF LoopInv, LoopTypeOK
<1>2. retryDelay' = [retryDelay EXCEPT ![w] = next]
  BY DEF WakeUp
<1> HIDE DEF next
<1>3. retryDelay' \in [Workers -> InitialRetryDelay..MaxRetryDelay]
  BY <1>1, <1>2 DEF LoopInv, LoopTypeOK
<1>4. pc' \in [Workers -> PC] /\ BudgetLeft'
  BY DEF WakeUp, Goto, LoopInv, LoopTypeOK, BudgetLeft, Between, PC
<1> QED
  BY <1>3, <1>4 DEF WakeUp, LoopInv, LoopTypeOK

\* A success gives the whole budget back, which is at least one failure.
LEMMA SuccessKeeps ==
  ASSUME LoopInv, NEW w \in Workers, Registered(w) \/ HeartbeatOk(w)
  PROVE  LoopInv'
<1>1. failures' = [failures EXCEPT ![w] = 0] /\ shutdown' = shutdown
  BY DEF Registered, HeartbeatOk
<1>2. retryDelay' \in [Workers -> InitialRetryDelay..MaxRetryDelay]
  BY WorkerAssumption DEF Registered, HeartbeatOk, LoopInv, LoopTypeOK
<1>3. UnlessShutdown(w, "tick")
  BY DEF Registered, HeartbeatOk
<1> QED
  BY <1>1, <1>2, <1>3, WorkerAssumption
  DEF UnlessShutdown, Goto, LoopInv, LoopTypeOK, BudgetLeft, Between, PC

\* A failed heartbeat is within the budget, and the one that spends the rest
\* of it leaves the heartbeat loop.
LEMMA FailureKeeps ==
  ASSUME LoopInv, NEW w \in Workers, HeartbeatFailed(w)
  PROVE  LoopInv'
<1>1. failures[w] \in Nat /\ failures[w] < MaxConsecutiveFailures
  BY DEF HeartbeatFailed, LoopInv, LoopTypeOK, BudgetLeft, Between
<1>2. failures' = [failures EXCEPT ![w] = @ + 1]
  BY DEF HeartbeatFailed
<1>3. failures' \in [Workers -> 0..MaxConsecutiveFailures]
  BY <1>1, <1>2, WorkerAssumption DEF LoopInv, LoopTypeOK
<1>4. \A v \in Workers : v # w => failures'[v] = failures[v] /\ pc'[v] = pc[v]
  BY <1>2 DEF HeartbeatFailed, UnlessShutdown, Goto, LoopInv, LoopTypeOK
<1>5. pc' \in [Workers -> PC]
  BY DEF HeartbeatFailed, UnlessShutdown, Goto, LoopInv, LoopTypeOK, PC
<1>6. pc'[w] \in Between => failures'[w] < MaxConsecutiveFailures
  <2>1. CASE failures'[w] >= MaxConsecutiveFailures
    <3>1. pc'[w] = "top"
      BY <2>1 DEF HeartbeatFailed, Goto, LoopInv, LoopTypeOK
    <3> QED
      BY <3>1 DEF Between
  <2>2. CASE ~(failures'[w] >= MaxConsecutiveFailures)
    BY <2>2, <1>3, WorkerAssumption
  <2> QED
    BY <2>1, <2>2
<1> QED
  BY <1>3, <1>4, <1>5, <1>6 DEF HeartbeatFailed, LoopInv, LoopTypeOK, BudgetLeft, Between

LEMMA WorkerKeeps ==
  ASSUME LoopInv, NEW w \in Workers, WorkerStep(w)
  PROVE  LoopInv'
<1>1. CASE LoopTop(w)
  BY <1>1, MoveKeeps DEF LoopTop, UnlessShutdown, PC, Between
<1>2. CASE CallRegister(w)
  BY <1>2, MoveKeeps DEF CallRegister, PC, Between
<1>3. CASE RegisterFailed(w)
  BY <1>3, MoveKeeps DEF RegisterFailed, PC, Between
<1>4. CASE Tick(w) \/ CallHeartbeat(w)
  <2>1. failures[w] < MaxConsecutiveFailures
    BY <1>4 DEF Tick, CallHeartbeat, LoopInv, BudgetLeft, Between
  <2> QED
    BY <1>4, <2>1, MoveKeeps DEF Tick, CallHeartbeat, UnlessShutdown, PC
<1> QED
  BY <1>1, <1>2, <1>3, <1>4, WakeUpKeeps, SuccessKeeps, FailureKeeps
  DEF WorkerStep, Resume, Continue

LEMMA InitLoops == Init => LoopInv
  BY WorkerAssumption DEF Init, LoopInit, LoopInv, LoopTypeOK, BudgetLeft, Between, PC

LEMMA LoopStep == LoopInv /\ [Next]_vars => LoopInv'
<1> SUFFICES ASSUME LoopInv, [Next]_vars PROVE LoopInv'
  OBVIOUS
<1>1. ASSUME NEW w \in Workers, WorkerMoves(w) PROVE LoopInv'
  BY <1>1, WorkerKeeps DEF WorkerMoves
<1>2. ASSUME NEW w \in Workers, SetShutdown(w) PROVE LoopInv'
  BY <1>2 DEF SetShutdown, LoopInv, LoopTypeOK, BudgetLeft, Between, loopVars
<1>3. ASSUME UNCHANGED <<loopVars, shutdown>> PROVE LoopInv'
  BY <1>3 DEF LoopInv, LoopTypeOK, BudgetLeft, Between, loopVars
<1> QED
  BY <1>1, <1>2, <1>3 DEF Next, Handled, Troubled, CalmDown, Stopped, vars, loopVars

\* The loop counts what its answers come to, and nothing else.
LEMMA StepCounts ==
  ASSUME LoopInv, NEW w \in Workers, WorkerStep(w)
  PROVE  failures' = [failures EXCEPT ![w] = Outcome(w, @)]
<1>1. CASE LoopTop(w) \/ CallRegister(w) \/ WakeUp(w) \/ Tick(w) \/ CallHeartbeat(w)
  <2>1. pc[w] \notin {"registering", "beating"} /\ failures' = failures
    BY <1>1 DEF LoopTop, CallRegister, WakeUp, Tick, CallHeartbeat
  <2>2. Outcome(w, failures[w]) = failures[w]
    BY <2>1 DEF Outcome
  <2> QED
    BY <2>1, <2>2 DEF LoopInv, LoopTypeOK
<1>2. CASE Registered(w) \/ HeartbeatOk(w)
  <2>1. /\ pc[w] \in {"registering", "beating"} /\ reply[w] = "ok"
        /\ failures' = [failures EXCEPT ![w] = 0]
    BY <1>2 DEF Registered, HeartbeatOk, Link!Received
  <2>2. Outcome(w, failures[w]) = 0
    BY <2>1 DEF Outcome
  <2> QED
    BY <2>1, <2>2
<1>3. CASE RegisterFailed(w)
  <2>1. pc[w] = "registering" /\ reply[w] # "ok" /\ failures' = failures
    BY <1>3 DEF RegisterFailed, Link!Received, Link!TimedOut, Link!Answer
  <2>2. Outcome(w, failures[w]) = failures[w]
    BY <2>1 DEF Outcome
  <2> QED
    BY <2>1, <2>2 DEF LoopInv, LoopTypeOK
<1>4. CASE HeartbeatFailed(w)
  <2>1. /\ pc[w] = "beating" /\ reply[w] # "ok"
        /\ failures' = [failures EXCEPT ![w] = failures[w] + 1]
    BY <1>4 DEF HeartbeatFailed, Link!Received, Link!TimedOut, Link!Answer
  <2>2. failures[w] < MaxConsecutiveFailures
    BY <2>1 DEF LoopInv, BudgetLeft, Between
  <2>3. Outcome(w, failures[w]) = failures[w] + 1
    BY <2>1, <2>2 DEF Outcome
  <2> QED
    BY <2>1, <2>3
<1> QED
  BY <1>1, <1>2, <1>3, <1>4 DEF WorkerStep, Resume, Continue

Counted == missed = failures

LEMMA CountedStep ==
  ASSUME LoopInv, Counted, [Next]_vars PROVE Counted'
<1>1. CASE UNCHANGED <<missed, failures>>
  BY <1>1 DEF Counted
<1>2. ASSUME NEW w \in Workers, WorkerMoves(w) PROVE Counted'
  BY <1>2, StepCounts DEF WorkerMoves, Observe, Counted
<1> QED
  BY <1>1, <1>2 DEF Next, SetShutdown, Handled, Troubled, CalmDown, Stopped, vars, loopVars

\* A worker between heartbeats goes back to the top with its last failure, and
\* with no other step.
BudgetStep ==
  \A w \in Workers :
    pc[w] \in Between =>
      (pc'[w] = "top" <=> failures[w] < MaxConsecutiveFailures
                          /\ failures'[w] = MaxConsecutiveFailures)

LEMMA MoveInBudget ==
  ASSUME LoopInv, NEW w \in Workers, WorkerStep(w) PROVE BudgetStep
<1> SUFFICES ASSUME NEW v \in Workers, pc[v] \in Between
             PROVE  pc'[v] = "top" <=> failures[v] < MaxConsecutiveFailures
                                       /\ failures'[v] = MaxConsecutiveFailures
  BY DEF BudgetStep
<1>1. /\ failures[v] \in Nat /\ failures[v] < MaxConsecutiveFailures
      /\ MaxConsecutiveFailures \in Nat \ {0} /\ pc[v] # "top"
  BY WorkerAssumption DEF LoopInv, LoopTypeOK, BudgetLeft, Between
<1>2. CASE LoopTop(w) \/ CallRegister(w) \/ WakeUp(w) \/ RegisterFailed(w) \/ Registered(w)
  <2>1. v # w
    BY <1>2 DEF LoopTop, CallRegister, WakeUp, RegisterFailed, Registered, Between
  <2>2. pc'[v] = pc[v] /\ failures'[v] = failures[v]
    BY <1>2, <2>1 DEF LoopTop, CallRegister, WakeUp, RegisterFailed, Registered, Goto,
       UnlessShutdown, LoopInv, LoopTypeOK
  <2> QED
    BY <1>1, <2>2
<1>3. CASE Tick(w) \/ CallHeartbeat(w) \/ HeartbeatOk(w)
  <2>1. pc'[v] # "top" /\ failures'[v] \in {0, failures[v]}
    BY <1>1, <1>3 DEF Tick, CallHeartbeat, HeartbeatOk, Goto, UnlessShutdown, LoopInv, LoopTypeOK
  <2> QED
    BY <1>1, <2>1
<1>4. CASE HeartbeatFailed(w)
  <2>1. CASE v # w
    <3>1. pc'[v] = pc[v] /\ failures'[v] = failures[v]
      BY <1>4, <2>1 DEF HeartbeatFailed, Goto, UnlessShutdown, LoopInv, LoopTypeOK
    <3> QED
      BY <1>1, <3>1
  <2>2. CASE v = w
    <3>1. failures'[w] = failures[w] + 1
      BY <1>4 DEF HeartbeatFailed, LoopInv, LoopTypeOK
    <3>2. pc'[w] = "top" <=> failures'[w] >= MaxConsecutiveFailures
      BY <1>4 DEF HeartbeatFailed, Goto, UnlessShutdown, LoopInv, LoopTypeOK
    <3> QED
      BY <1>1, <2>2, <3>1, <3>2
  <2> QED
    BY <2>1, <2>2
<1> QED
  BY <1>2, <1>3, <1>4 DEF WorkerStep, Resume, Continue

LEMMA StepInBudget ==
  ASSUME LoopInv, [Next]_vars PROVE BudgetStep
<1>1. CASE UNCHANGED <<pc, failures>>
  <2>1. \A w \in Workers : failures[w] \in Nat /\ MaxConsecutiveFailures \in Nat
    BY WorkerAssumption DEF LoopInv, LoopTypeOK
  <2> QED
    BY <1>1, <2>1 DEF BudgetStep, Between
<1> QED
  BY <1>1, MoveInBudget
  DEF Next, WorkerMoves, SetShutdown, Handled, Troubled, CalmDown, Stopped, vars, loopVars

\* The failure budget of the heartbeat loop: whatever the network and the
\* registry do, run_heartbeat_loop returns to register() when as many heartbeats
\* in a row have failed as the threshold says, and at no other time.
THEOREM BudgetKept == Spec => FailureBudget
<1>1. Init => LoopInv /\ Counted
  BY InitLoops DEF Init, LoopInit, Counted
<1>2. LoopInv /\ Counted /\ [Next]_vars => (LoopInv /\ Counted)'
  BY LoopStep, CountedStep
<1>3. LoopInv /\ Counted /\ (LoopInv /\ Counted)' /\ [Next]_vars =>
        [\A w \in Workers :
           pc[w] \in {"tick", "beat", "beating"} =>
             (pc'[w] = "top" <=> missed[w] < MaxConsecutiveFailures
                                 /\ missed'[w] = MaxConsecutiveFailures)]_vars
  BY StepInBudget DEF BudgetStep, Between, Counted
<1> QED
  BY <1>1, <1>2, <1>3, PTL DEF Spec, FailureBudget

-----------------------------------------------------------------------------
(* The link *)

LEMMA SendTyped ==
  ASSUME Link!LinkTypeOK, NEW c \in Callers, NEW kind \in Link!RequestKind, Link!Send(c, kind)
  PROVE  Link!LinkTypeOK'
<1>1. [by |-> c, kind |-> kind, awaited |-> TRUE] \in Link!Request
  BY DEF Link!Request
<1> QED
  BY <1>1 DEF Link!Send, Link!LinkTypeOK

LEMMA TimeoutTyped ==
  ASSUME Link!LinkTypeOK, NEW c \in Callers, Link!TimedOut(c)
  PROVE  Link!LinkTypeOK'
<1>1. \A r \in Link!Request : Link!Orphan(r, c) \in Link!Request
  BY DEF Link!Orphan, Link!Request
<1>2. wire' \in SUBSET Link!Request
  BY <1>1 DEF Link!TimedOut, Link!Forsake, Link!LinkTypeOK
<1> QED
  BY <1>2 DEF Link!TimedOut, Link!Forsake, Link!LinkTypeOK

LEMMA ReceiveTyped ==
  ASSUME Link!LinkTypeOK, NEW c \in Callers, NEW answers, Link!Received(c, answers)
  PROVE  Link!LinkTypeOK'
  BY DEF Link!Received, Link!LinkTypeOK

LEMMA DeliverTyped ==
  ASSUME Link!LinkTypeOK, NEW r, NEW answer \in Link!Answer, Link!Deliver(r, answer),
         registered' \in BOOLEAN
  PROVE  Link!LinkTypeOK'
<1>1. r \in wire /\ r \in Link!Request /\ r.by \in Callers
  BY DEF Link!Deliver, Link!LinkTypeOK, Link!Request
<1> QED
  BY <1>1 DEF Link!Deliver, Link!LinkTypeOK

LEMMA NetworkTyped ==
  ASSUME Link!LinkTypeOK, Handled \/ Troubled
  PROVE  Link!LinkTypeOK'
<1>1. ASSUME NEW r \in wire PROVE Link!Effect(r.kind) \in BOOLEAN /\ Link!AnswerTo(r.kind) \in Link!Answer
  <2>1. r.kind \in Link!RequestKind
    BY <1>1 DEF Link!LinkTypeOK, Link!Request
  <2> QED
    BY <2>1 DEF Link!Effect, Link!AnswerTo, Link!Answer, Link!RequestKind, Link!LinkTypeOK
<1>2. ASSUME NEW r \in wire, Link!Handle(r) PROVE Link!LinkTypeOK'
  BY <1>1, <1>2, DeliverTyped DEF Link!Handle
<1>3. ASSUME NEW r \in wire, Link!Refuse(r) PROVE Link!LinkTypeOK'
  <2>1. registered' \in BOOLEAN /\ "refused" \in Link!Answer
    BY <1>3 DEF Link!Refuse, Link!LinkTypeOK, Link!Answer
  <2> QED
    BY <1>3, <2>1, DeliverTyped DEF Link!Refuse
<1>4. ASSUME NEW r \in wire, Link!HandleUnanswered(r) \/ Link!HandleCopy(r) \/ Link!LoseRequest(r)
      PROVE  Link!LinkTypeOK'
  BY <1>1, <1>4 DEF Link!HandleUnanswered, Link!HandleCopy, Link!LoseRequest, Link!LinkTypeOK
<1>5. ASSUME Link!Forget PROVE Link!LinkTypeOK'
  BY <1>5 DEF Link!Forget, Link!LinkTypeOK
<1>6. ASSUME NEW r \in wire, Link!AnswerCopy(r) PROVE Link!LinkTypeOK'
  <2>1. Link!Orphan(r, r.by) \in Link!Request
    BY DEF Link!Orphan, Link!Request, Link!LinkTypeOK
  <2> QED
    BY <1>1, <1>6, <2>1 DEF Link!AnswerCopy, Link!LinkTypeOK, Link!Answer
<1> QED
  BY <1>2, <1>3, <1>4, <1>5, <1>6 DEF Handled, Troubled, Link!Trouble

LEMMA LinkStep == TypeOK /\ [Next]_vars => Link!LinkTypeOK' /\ calm' \in BOOLEAN
<1> SUFFICES ASSUME TypeOK, [Next]_vars PROVE Link!LinkTypeOK' /\ calm' \in BOOLEAN
  OBVIOUS
<1> USE DEF TypeOK
<1>1. calm' \in BOOLEAN
  BY DEF Next, WorkerMoves, SetShutdown, Handled, Troubled, CalmDown, Stopped, vars
<1>2. ASSUME NEW w \in Workers, WorkerMoves(w) PROVE Link!LinkTypeOK'
  <2>1. w \in Callers
    BY WorkerAssumption
  <2>2. CASE CallRegister(w) \/ CallHeartbeat(w)
    <3>1. "register" \in Link!RequestKind /\ "heartbeat" \in Link!RequestKind
      BY DEF Link!RequestKind
    <3> QED
      BY <2>1, <2>2, <3>1, SendTyped DEF CallRegister, CallHeartbeat
  <2>3. CASE Registered(w) \/ HeartbeatOk(w)
    BY <2>1, <2>3, ReceiveTyped DEF Registered, HeartbeatOk
  <2>4. CASE RegisterFailed(w) \/ HeartbeatFailed(w)
    BY <2>1, <2>4, ReceiveTyped, TimeoutTyped DEF RegisterFailed, HeartbeatFailed
  <2>5. CASE LoopTop(w) \/ WakeUp(w) \/ Tick(w)
    BY <2>5 DEF LoopTop, WakeUp, Tick, linkVars, Link!LinkTypeOK
  <2> QED
    BY <1>2, <2>2, <2>3, <2>4, <2>5 DEF WorkerMoves, WorkerStep, Resume, Continue
<1>3. ASSUME UNCHANGED linkVars PROVE Link!LinkTypeOK'
  BY <1>3 DEF linkVars, Link!LinkTypeOK
<1> QED
  BY <1>1, <1>2, <1>3, NetworkTyped
  DEF Next, SetShutdown, CalmDown, Stopped, vars, linkVars

\* Type correctness of loops and link; the retry delay stays within its
\* configured range, whatever the two of them are.
THEOREM TypeCorrect == Spec => []TypeOK
<1> DEFINE Inv == LoopInv /\ Counted /\ TypeOK
<1>1. LoopInv /\ Counted => missed \in [Workers -> 0..MaxConsecutiveFailures]
  BY DEF LoopInv, LoopTypeOK, Counted
<1>2. Init => Inv
  BY <1>1, InitLoops
  DEF Init, LoopInit, Counted, LoopInv, TypeOK, Link!LinkInit, Link!LinkTypeOK, Link!Answer
<1>3. Inv /\ [Next]_vars => Inv'
  <2> SUFFICES ASSUME Inv, [Next]_vars PROVE Inv'
    OBVIOUS
  <2>1. LoopInv' /\ Counted'
    BY LoopStep, CountedStep
  <2>2. missed' \in [Workers -> 0..MaxConsecutiveFailures]
    BY <2>1 DEF LoopInv, LoopTypeOK, Counted
  <2> QED
    BY <2>1, <2>2, LinkStep DEF LoopInv, TypeOK
<1> QED
  BY <1>2, <1>3, PTL DEF Spec
=============================================================================
