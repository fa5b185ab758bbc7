----------------------------- MODULE AgentKernel -----------------------------
(***************************************************************************)
(* An agent as agent-kernel wires it: AgentKernel (lib.rs) with its        *)
(* lifecycle, the RegistrationController (registry.rs) it notifies of      *)
(* every lifecycle change, the background tasks that controller spawns and *)
(* the messages callers schedule, all competing for the permits of one     *)
(* TaskScheduler, and the link to the registry those tasks use.            *)
(*                                                                         *)
(* The kernel's methods run on the owner's thread; `hook` says how far a   *)
(* transition() has got in RegistrationController::on_state_change, since  *)
(* spawned tasks run on other threads in the meantime.  Every step of the  *)
(* kernel makes at most one step of the scheduler.                         *)
(***************************************************************************)
EXTENDS Naturals, Sequences, FiniteSets, AgentLifecycle

CONSTANTS
  Messages,                \* the messages that may be scheduled
  MaxConcurrency,          \* permits of the agent's scheduler
  MaxControllers,          \* bound: calls of set_registry
  MaxDeregisters,          \* bound: deregister tasks per controller
  InitialRetryDelay, MaxRetryDelay, MaxConsecutiveFailures

ASSUME KernelAssumption ==
  /\ IsFiniteSet(Messages)
  /\ MaxConcurrency \in Nat \ {0}
  /\ MaxControllers \in Nat
  /\ MaxDeregisters \in Nat
  /\ InitialRetryDelay \in Nat \ {0}
  /\ MaxRetryDelay \in Nat
  /\ InitialRetryDelay <= MaxRetryDelay
  /\ MaxConsecutiveFailures \in Nat \ {0}

VARIABLES
  lifecycle,   \* the AgentState
  current,     \* the controller set_registry installed last; 0: none
  configOk,    \* does the current controller's configuration validate?
  worker,      \* is the current controller's `worker` Some?
  deregisters, \* deregister tasks each controller has spawned
  hook,        \* progress of on_state_change
  task, queue, permits, closed, semClosed, aborted,   \* TaskScheduler
  pc, retryDelay, failures, shutdown,                 \* RegistrationWorker
  wire, registered, reply,                            \* RegistryLink
  notice       \* how far each deregister task has got with its final heartbeat

kernelVars == <<lifecycle, current, configOk, worker, deregisters, hook>>
schedVars == <<task, queue, permits, closed, semClosed, aborted>>
loopVars == <<pc, retryDelay, failures>>
linkVars == <<wire, registered, reply>>
vars == <<kernelVars, schedVars, loopVars, shutdown, linkVars, notice>>

Controllers == 1..MaxControllers

\* Everything that is ever spawned on the agent's scheduler.
WorkerOf(c) == [kind |-> "worker", ctl |-> c, n |-> 0]
DeregisterOf(c, k) == [kind |-> "deregister", ctl |-> c, n |-> k]
MessageTask(m) == [kind |-> "message", ctl |-> 0, n |-> m]

Workers == {WorkerOf(c) : c \in Controllers}
Deregisters == {DeregisterOf(c, k) : c \in Controllers, k \in 1..MaxDeregisters}
MessageTasks == {MessageTask(m) : m \in Messages}
Callers == Workers \cup Deregisters
Tasks == Callers \cup MessageTasks

Sched == INSTANCE TaskScheduler
Loop == INSTANCE RegistrationWorker
Link == INSTANCE RegistryLink

Init ==
  /\ lifecycle = "Init"
  /\ current = 0
  /\ configOk = FALSE
  /\ worker = FALSE
  /\ deregisters = [c \in Controllers |-> 0]
  /\ hook = "none"
  /\ Sched!SchedInit
  /\ Loop!LoopInit
  /\ Link!LinkInit
  /\ notice = [d \in Deregisters |-> "unsent"]

-----------------------------------------------------------------------------
(* AgentKernel's methods *)

\* The old controller is dropped, and with it its JoinHandle: a worker it had
\* keeps running, detached, and its shutdown flag will never be set.
SetRegistry(valid) ==
  /\ hook = "none"
  /\ current < MaxControllers
  /\ current' = current + 1
  /\ configOk' = valid
  /\ worker' = FALSE
  /\ UNCHANGED <<lifecycle, deregisters, hook, schedVars, loopVars, shutdown, linkVars, notice>>

\* The branch on_state_change takes for the new state.
HookFor(state) ==
  CASE current = 0 -> "none"
    [] current # 0 /\ state \in {"Ready", "Active"} -> "ensure_worker"
    [] current # 0 /\ state \in {"Retiring", "Terminated"} -> "spawn_deregister"
    [] OTHER -> "none"

\* Variant: the flag is left to the abort.
TransitionUnflagged(event) ==
  /\ hook = "none"
  /\ \E next \in AgentState :
       /\ Arrow(lifecycle, event, next)
       /\ lifecycle' = next
       /\ hook' = HookFor(next)
  /\ hook' = "spawn_deregister" => deregisters[current] < MaxDeregisters
  /\ UNCHANGED <<current, configOk, worker, deregisters, schedVars, loopVars, shutdown,
                 linkVars, notice>>

\* transition(event): the lifecycle moves first, then the hook starts, whose
\* retiring branch raises the shutdown flag before anything else.
Transition(event) ==
  /\ hook = "none"
  /\ \E next \in AgentState :
       /\ Arrow(lifecycle, event, next)
       /\ lifecycle' = next
       /\ hook' = HookFor(next)
  /\ hook' = "spawn_deregister" => deregisters[current] < MaxDeregisters
  /\ shutdown' = IF hook' = "spawn_deregister"
                   THEN [shutdown EXCEPT ![WorkerOf(current)] = TRUE]
                   ELSE shutdown
  /\ UNCHANGED <<current, configOk, worker, deregisters, schedVars, loopVars, linkVars, notice>>

\* Variant: the handle is not stored.
EnsureWorkerUnstored ==
  /\ hook = "ensure_worker"
  /\ hook' = "none"
  /\ IF worker \/ ~configOk \/ closed
       THEN UNCHANGED schedVars
       ELSE Sched!Submit(WorkerOf(current))
  /\ UNCHANGED <<lifecycle, current, configOk, worker, deregisters, loopVars, shutdown,
                 linkVars, notice>>

\* ensure_worker: nothing to do, InvalidConfig, Closed, or a new worker.
EnsureWorker ==
  /\ hook = "ensure_worker"
  /\ hook' = "none"
  /\ IF worker \/ ~configOk \/ closed
       THEN UNCHANGED <<worker, schedVars>>
       ELSE /\ Sched!Submit(WorkerOf(current))
            /\ worker' = TRUE
  /\ UNCHANGED <<lifecycle, current, configOk, deregisters, loopVars, shutdown, linkVars, notice>>

\* spawn_deregister: on a closed scheduler `?` leaves on_state_change here.
SpawnDeregister ==
  /\ hook = "spawn_deregister"
  /\ IF closed
       THEN hook' = "none" /\ UNCHANGED <<deregisters, schedVars>>
       ELSE /\ hook' = "abort_worker"
            /\ deregisters' = [deregisters EXCEPT ![current] = @ + 1]
            /\ Sched!Submit(DeregisterOf(current, deregisters[current] + 1))
  /\ UNCHANGED <<lifecycle, current, configOk, worker, loopVars, shutdown, linkVars, notice>>

Alive(t) == task[t] \in {"spawned", "waiting", "running"}

\* if let Some(handle) = self.worker.take() { handle.abort(); }
AbortWorker ==
  /\ hook = "abort_worker"
  /\ hook' = "none"
  /\ worker' = FALSE
  /\ IF worker /\ Alive(WorkerOf(current))
       THEN Sched!Abort(WorkerOf(current))
       ELSE UNCHANGED schedVars
  /\ UNCHANGED <<lifecycle, current, configOk, deregisters, loopVars, shutdown, linkVars, notice>>

\* schedule_message: whatever the lifecycle state.
ScheduleMessage(m) ==
  /\ hook = "none"
  /\ Sched!Submit(MessageTask(m))
  /\ UNCHANGED <<kernelVars, loopVars, shutdown, linkVars, notice>>

\* The owner keeps a clone of the scheduler and may close it at any time.
CloseScheduler ==
  /\ Sched!CloseFlag \/ Sched!CloseSemaphore
  /\ UNCHANGED <<kernelVars, loopVars, shutdown, linkVars, notice>>

-----------------------------------------------------------------------------
(* The tasks *)

PollTask(t) ==
  /\ Sched!Poll(t)
  /\ UNCHANGED <<kernelVars, loopVars, shutdown, linkVars, notice>>

RunWorker(w) ==
  /\ task[w] = "running"
  /\ Loop!Continue(w) \/ (w \notin aborted /\ Loop!Resume(w))
  /\ UNCHANGED <<kernelVars, schedVars, notice>>

EndWorker(w) ==
  /\ pc[w] = "stopped"
  /\ Sched!Finish(w)
  /\ UNCHANGED <<kernelVars, loopVars, shutdown, linkVars, notice>>

CancelWorker(w) ==
  /\ Sched!CancelRunning(w)
  /\ Loop!DropLoop(w)
  /\ UNCHANGED <<kernelVars, notice>>

CallDeregister(d) ==
  /\ task[d] = "running"
  /\ notice[d] = "unsent"
  /\ notice' = [notice EXCEPT ![d] = "sent"]
  /\ Link!Send(d, "final")
  /\ UNCHANGED <<kernelVars, schedVars, loopVars, shutdown>>

\* The answer, or its absence, is logged and the task ends: no retry.
EndDeregister(d) ==
  /\ notice[d] = "sent"
  /\ \/ /\ Link!Received(d, {"ok"})
        /\ notice' = [notice EXCEPT ![d] = "acked"]
     \/ /\ Link!Received(d, Link!Answer \ {"ok"}) \/ Link!TimedOut(d)
        /\ notice' = [notice EXCEPT ![d] = "failed"]
  /\ Sched!Finish(d)
  /\ UNCHANGED <<kernelVars, loopVars, shutdown>>

\* The message handler returns.
EndMessage(t) ==
  /\ Sched!Finish(t)
  /\ UNCHANGED <<kernelVars, loopVars, shutdown, linkVars, notice>>

HandleRequest ==
  /\ \E r \in wire : Link!Handle(r)
  /\ UNCHANGED <<kernelVars, schedVars, loopVars, shutdown, notice>>

RegistryTrouble ==
  /\ Link!Trouble
  /\ UNCHANGED <<kernelVars, schedVars, loopVars, shutdown, notice>>

-----------------------------------------------------------------------------
HookStep == EnsureWorker \/ SpawnDeregister \/ AbortWorker
WorkerMove(w) == RunWorker(w) \/ EndWorker(w) \/ CancelWorker(w)
DeregisterMove(d) == CallDeregister(d) \/ EndDeregister(d)

Next ==
  \/ \E valid \in BOOLEAN : SetRegistry(valid)
  \/ \E event \in LifecycleEvent : Transition(event)
  \/ HookStep
  \/ \E m \in Messages : ScheduleMessage(m)
  \/ CloseScheduler
  \/ \E t \in Tasks : PollTask(t)
  \/ \E w \in Workers : WorkerMove(w)
  \/ \E d \in Deregisters : DeregisterMove(d)
  \/ \E t \in MessageTasks : EndMessage(t)
  \/ HandleRequest
  \/ RegistryTrouble

\* The runtime keeps polling every task that can proceed; a receive ends with an
\* answer or the read timeout; message handlers return; the statements of
\* on_state_change follow each other, and so do those of close().
Fairness ==
  /\ WF_vars(HookStep)
  /\ WF_vars(CloseScheduler /\ Sched!CloseSemaphore)
  /\ \A t \in Tasks : WF_vars(PollTask(t))
  /\ \A w \in Workers : WF_vars(WorkerMove(w))
  /\ \A d \in Deregisters : WF_vars(DeregisterMove(d))
  /\ \A t \in MessageTasks : WF_vars(EndMessage(t))

Spec == Init /\ [][Next]_vars
FairSpec == Spec /\ Fairness

-----------------------------------------------------------------------------
TypeOK ==
  /\ lifecycle \in AgentState
  /\ current \in 0..MaxControllers
  /\ configOk \in BOOLEAN
  /\ worker \in BOOLEAN
  /\ deregisters \in [Controllers -> 0..MaxDeregisters]
  /\ hook \in {"none", "ensure_worker", "spawn_deregister", "abort_worker"}
  /\ hook # "none" => current # 0
  /\ Sched!TypeOK
  /\ Loop!LoopTypeOK
  /\ Link!LinkTypeOK
  /\ notice \in [Deregisters -> {"unsent", "sent", "acked", "failed"}]

\* The `worker.is_some()` test is enough to keep one background loop per
\* controller: through suspensions, failed hooks and repeated transitions
\* ensure_worker never finds an earlier loop of its controller when it spawns.
NoSecondWorker ==
  hook = "ensure_worker" /\ ~worker /\ configOk /\ ~closed
    => task[WorkerOf(current)] = "idle"

\* Once a transition to Retiring or Terminated has returned, a background loop
\* of the current controller that is still alive has been told to stop by the
\* flag, and by an abort too unless the hook failed on a closed scheduler.
RetiredWorkerIsStopping ==
  /\ lifecycle \in {"Retiring", "Terminated"} /\ hook = "none"
  /\ current # 0 /\ Alive(WorkerOf(current))
  => /\ shutdown[WorkerOf(current)]
     /\ WorkerOf(current) \in aborted \/ closed

\* A terminated agent of which no loop is alive, no registration is on the
\* wire and no entry is left in the registry ...
Departed ==
  /\ lifecycle = "Terminated"
  /\ \A w \in Workers : ~Alive(w)
  /\ \A r \in wire : r.kind # "register"
  /\ ~registered

\* ... never comes back, whatever set_registry, transition and schedule_message
\* are called for afterwards.
NoResurrection == [](Departed => []~registered)

\* The flag ends a background loop even when the hook failed before its abort.
ShutdownEndsWorker ==
  \A w \in Workers : shutdown[w] ~> ~Alive(w)

\* Loops of replaced controllers: nobody will ever tell them to stop.
Abandoned == {w \in Workers : w.ctl < current /\ ~shutdown[w] /\ task[w] = "running"}

\* A deregister task that was accepted sends its final heartbeat, although it
\* needs a permit and the loop it is to end may hold the last one, unless the
\* scheduler is closed in between or loops of replaced controllers keep every
\* permit for good: with set_registry called twice and a single permit they do.
DeregisterIsSent ==
  \A d \in Deregisters :
    task[d] = "spawned" ~> \/ notice[d] # "unsent"
                           \/ closed
                           \/ [](Cardinality(Abandoned) = MaxConcurrency)

\* A scheduled message is processed unless the scheduler is closed or a
\* background loop keeps its permit for good: neither a deregistration, nor a
\* loop that is aborted while it waits or runs, nor another message starves it.
ScheduledMessageRuns ==
  \A t \in MessageTasks :
    task[t] = "spawned" ~> \/ task[t] = "done"
                           \/ closed
                           \/ [](\E w \in Workers : task[w] = "running")

\* docs/usage.md:225-227: on Retiring or Terminated the controller emits a final
\* heartbeat "so the registry removes the agent immediately".
FinalHeartbeatRemoves ==
  (\E d \in Deregisters : notice[d] = "acked") => ~registered
=============================================================================
