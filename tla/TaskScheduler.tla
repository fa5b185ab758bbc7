--------------------------- MODULE TaskScheduler ---------------------------
(***************************************************************************)
(* agent-kernel/src/scheduler.rs: a wrapper around tokio::spawn that       *)
(* bounds an agent's concurrency with a fair semaphore.                    *)
(*                                                                         *)
(* spawn() reads the closed flag and then hands a future to the runtime;   *)
(* the future first acquires a permit and then runs the caller's body.     *)
(* close() sets the flag and then closes the semaphore.  These are         *)
(* separate steps: clones of the scheduler are shared between threads.     *)
(* tokio's Semaphore (external) is FIFO: a released permit goes to the     *)
(* task that has waited longest, and no newcomer overtakes it.             *)
(***************************************************************************)
EXTENDS Naturals, Sequences, FiniteSets

CONSTANTS Tasks,          \* the futures callers may hand to spawn()
          MaxConcurrency  \* SchedulerConfig::max_concurrency, a NonZeroUsize

ASSUME SchedulerAssumption ==
  /\ IsFiniteSet(Tasks)
  /\ MaxConcurrency \in Nat \ {0}

VARIABLES
  task,       \* where each future is in its life
  queue,      \* tasks waiting for a permit, the longest waiting first
  permits,    \* permits the semaphore has left
  closed,     \* the AtomicBool read by is_closed()
  semClosed,  \* has the semaphore been closed?
  aborted     \* tasks whose JoinHandle::abort() was called

schedVars == <<task, queue, permits, closed, semClosed, aborted>>

TaskState ==
  { "idle",       \* not submitted
    "checked",    \* spawn() saw the flag unset, tokio::spawn not yet called
    "rejected",   \* spawn() returned SchedulerError::Closed
    "spawned",    \* owned by the runtime, never polled
    "waiting",    \* in the semaphore's queue
    "running",    \* holds a permit, the body executes
    "done",       \* the body returned or panicked; the permit was dropped
    "cancelled",  \* dropped by the runtime after abort()
    "panicked" }  \* expect("scheduler closed while awaiting permit") fired

Ended == {"rejected", "done", "cancelled", "panicked"}

InState(s) == {t \in Tasks : task[t] = s}
Running == InState("running")

WithoutIndex(s, i) == SubSeq(s, 1, i - 1) \o SubSeq(s, i + 1, Len(s))

SchedInit ==
  /\ task = [t \in Tasks |-> "idle"]
  /\ queue = <<>>
  /\ permits = MaxConcurrency
  /\ closed = FALSE
  /\ semClosed = FALSE
  /\ aborted = {}

Move(t, from, to) ==
  /\ task[t] = from
  /\ task' = [task EXCEPT ![t] = to]

-----------------------------------------------------------------------------
(* spawn() *)

\* Variant: the flag is not looked at.
SpawnUnchecked(t) ==
  /\ Move(t, "idle", "checked")
  /\ UNCHANGED <<queue, permits, closed, semClosed, aborted>>

\* if self.is_closed() { return Err(Closed) }
SpawnCheck(t) ==
  /\ Move(t, "idle", IF closed THEN "rejected" ELSE "checked")
  /\ UNCHANGED <<queue, permits, closed, semClosed, aborted>>

\* tokio::spawn(async move { .. }); Ok(handle)
SpawnTask(t) ==
  /\ Move(t, "checked", "spawned")
  /\ UNCHANGED <<queue, permits, closed, semClosed, aborted>>

\* Both steps of spawn() at once, for callers that need not tell them apart: a
\* close() between them has the outcome of one right after them.
Submit(t) ==
  /\ ~closed
  /\ Move(t, "idle", "spawned")
  /\ UNCHANGED <<queue, permits, closed, semClosed, aborted>>

-----------------------------------------------------------------------------
(* The spawned future; a task whose abort() was called is not polled again. *)

\* Variant: a permit is taken without looking whether one is left.
AcquireUncounted(t) ==
  /\ t \notin aborted
  /\ ~semClosed
  /\ Move(t, "spawned", "running")
  /\ permits' = permits - 1
  /\ UNCHANGED <<queue, closed, semClosed, aborted>>

\* First poll of acquire_owned() while a permit is free and nobody waits.
AcquireNow(t) ==
  /\ t \notin aborted
  /\ ~semClosed
  /\ permits > 0 /\ queue = <<>>
  /\ Move(t, "spawned", "running")
  /\ permits' = permits - 1
  /\ UNCHANGED <<queue, closed, semClosed, aborted>>

\* First poll of acquire_owned() otherwise.
JoinQueue(t) ==
  /\ t \notin aborted
  /\ ~semClosed
  /\ permits = 0 \/ queue # <<>>
  /\ Move(t, "spawned", "waiting")
  /\ queue' = Append(queue, t)
  /\ UNCHANGED <<permits, closed, semClosed, aborted>>

\* Variant: waiters are served after close().
GrantThoughClosed(t) ==
  /\ queue # <<>> /\ t = Head(queue)
  /\ t \notin aborted
  /\ permits > 0
  /\ Move(t, "waiting", "running")
  /\ queue' = Tail(queue)
  /\ permits' = permits - 1
  /\ UNCHANGED <<closed, semClosed, aborted>>

\* A released permit reaches the head of the queue.
Grant(t) ==
  /\ queue # <<>> /\ t = Head(queue)
  /\ t \notin aborted
  /\ ~semClosed
  /\ permits > 0
  /\ Move(t, "waiting", "running")
  /\ queue' = Tail(queue)
  /\ permits' = permits - 1
  /\ UNCHANGED <<closed, semClosed, aborted>>

\* acquire_owned() fails on a closed semaphore and expect() panics.
PanicUnstarted(t) ==
  /\ t \notin aborted
  /\ semClosed
  /\ Move(t, "spawned", "panicked")
  /\ UNCHANGED <<queue, permits, closed, semClosed, aborted>>

PanicWaiting(t) ==
  /\ t \notin aborted
  /\ semClosed
  /\ Move(t, "waiting", "panicked")
  /\ \E i \in 1..Len(queue) : queue[i] = t /\ queue' = WithoutIndex(queue, i)
  /\ UNCHANGED <<permits, closed, semClosed, aborted>>

\* Variant: the permit is forgotten.
FinishLeaking(t) ==
  /\ Move(t, "running", "done")
  /\ UNCHANGED <<queue, permits, closed, semClosed, aborted>>

\* The body returns or panics: the permit is dropped either way.
Finish(t) ==
  /\ Move(t, "running", "done")
  /\ permits' = permits + 1
  /\ UNCHANGED <<queue, closed, semClosed, aborted>>

-----------------------------------------------------------------------------
(* The JoinHandle spawn() returned *)

Abort(t) ==
  /\ task[t] \in {"spawned", "waiting", "running"}
  /\ aborted' = aborted \cup {t}
  /\ UNCHANGED <<task, queue, permits, closed, semClosed>>

\* The runtime drops the future, and with it its permit or its place in line.
CancelUnstarted(t) ==
  /\ t \in aborted
  /\ Move(t, "spawned", "cancelled")
  /\ UNCHANGED <<queue, permits, closed, semClosed, aborted>>

\* Variant: the cancelled waiter keeps its place in line.
CancelWaitingInPlace(t) ==
  /\ t \in aborted
  /\ Move(t, "waiting", "cancelled")
  /\ UNCHANGED <<queue, permits, closed, semClosed, aborted>>

CancelWaiting(t) ==
  /\ t \in aborted
  /\ Move(t, "waiting", "cancelled")
  /\ \E i \in 1..Len(queue) : queue[i] = t /\ queue' = WithoutIndex(queue, i)
  /\ UNCHANGED <<permits, closed, semClosed, aborted>>

\* Variant: the permit is forgotten when the body is dropped.
CancelLeaking(t) ==
  /\ t \in aborted
  /\ Move(t, "running", "cancelled")
  /\ UNCHANGED <<queue, permits, closed, semClosed, aborted>>

CancelRunning(t) ==
  /\ t \in aborted
  /\ Move(t, "running", "cancelled")
  /\ permits' = permits + 1
  /\ UNCHANGED <<queue, closed, semClosed, aborted>>

-----------------------------------------------------------------------------
(* close() *)

CloseFlag ==
  /\ closed' = TRUE
  /\ UNCHANGED <<task, queue, permits, semClosed, aborted>>

CloseSemaphore ==
  /\ closed
  /\ semClosed' = TRUE
  /\ UNCHANGED <<task, queue, permits, closed, aborted>>

-----------------------------------------------------------------------------
\* What the runtime does with a task once spawn() returned.
Poll(t) ==
  \/ AcquireNow(t) \/ JoinQueue(t) \/ Grant(t)
  \/ PanicUnstarted(t) \/ PanicWaiting(t)
  \/ CancelUnstarted(t) \/ CancelWaiting(t)

Next ==
  \/ \E t \in Tasks : \/ SpawnCheck(t) \/ SpawnTask(t)
                      \/ Poll(t) \/ Finish(t)
                      \/ Abort(t) \/ CancelRunning(t)
  \/ CloseFlag
  \/ CloseSemaphore

\* The runtime polls every task that can make progress, bodies terminate, and
\* the statements of spawn() and of close() follow each other; nobody has to
\* call spawn(), abort() or close().
Fairness ==
  /\ \A t \in Tasks : /\ WF_schedVars(SpawnTask(t))
                      /\ WF_schedVars(Poll(t))
                      /\ WF_schedVars(Finish(t) \/ CancelRunning(t))
  /\ WF_schedVars(CloseSemaphore)

Spec == SchedInit /\ [][Next]_schedVars
FairSpec == Spec /\ Fairness

-----------------------------------------------------------------------------
TypeOK ==
  /\ task \in [Tasks -> TaskState]
  /\ queue \in Seq(Tasks)
  /\ permits \in Nat
  /\ closed \in BOOLEAN
  /\ semClosed \in BOOLEAN
  /\ aborted \in SUBSET Tasks

\* No path through the spawned future, a finished body, a panic, an abort in
\* the middle of the body or while waiting, loses a permit or returns one
\* twice: free permits and running bodies always add up to max_concurrency.
PermitsConserved == permits + Cardinality(Running) = MaxConcurrency

\* The semaphore's queue and the tasks' own view agree: every waiting task is
\* in the queue exactly once and nobody else is, so neither a cancelled nor a
\* panicked waiter can be handed a permit that nobody would return.
QueueMatchesWaiters ==
  /\ {queue[i] : i \in 1..Len(queue)} = InState("waiting")
  /\ \A i, j \in 1..Len(queue) : queue[i] = queue[j] => i = j

\* Once close() has returned, no body starts to execute, whatever was already
\* submitted or queued.
ClosedStartsNothing ==
  [][semClosed => \A t \in Tasks : task'[t] = "running" => task[t] = "running"]_schedVars

\* A task spawn() accepted is never forgotten: it runs to its end, is
\* cancelled, or panics because the scheduler was closed.
AcceptedTasksEnd ==
  \A t \in Tasks : task[t] = "checked" ~> task[t] \in Ended

-----------------------------------------------------------------------------
\* The scheduler implements the bounded pool: a job is admitted when spawn()
\* has seen the flag unset, and has left when its future is gone.
Pool == INSTANCE BoundedPool WITH
          Jobs <- Tasks,
          Limit <- MaxConcurrency,
          accepting <- ~closed,
          admitted <- InState("checked") \cup InState("spawned") \cup InState("waiting"),
          active <- Running,
          gone <- InState("done") \cup InState("cancelled") \cup InState("panicked")

ImplementsPool == Pool!PoolSpec
=============================================================================
