------------------------- MODULE AgentKernel_proofs -------------------------
(***************************************************************************)
(* Proofs about AgentKernel for any number of messages, controllers,       *)
(* deregister tasks and permits.                                           *)
(*                                                                         *)
(* The safety properties of the registration hooks are not inductive: they *)
(* rest on where the controller's `worker` handle can be None.  KernelInv  *)
(* collects that.  The types rest on those of the parts: AgentInv adds the *)
(* invariants of the scheduler and of the registration service, whose      *)
(* lemmas apply since a step of the agent is a step of theirs.             *)
(***************************************************************************)
EXTENDS AgentKernel, FiniteSetTheorems, FunctionTheorems, TLAPS

Running == {"Ready", "Active"}
Ending == {"Retiring", "Terminated"}
Mine == WorkerOf(current)

\* The part of TypeOK the argument needs.
KernelTypes ==
  /\ lifecycle \in AgentState
  /\ current \in 0..MaxControllers
  /\ worker \in BOOLEAN
  /\ closed \in BOOLEAN
  /\ hook \in {"none", "ensure_worker", "spawn_deregister", "abort_worker"}
  /\ task \in [Tasks -> Sched!TaskState]
  /\ shutdown \in [Workers -> BOOLEAN]

\* A hook runs only for a controller and in the states that started it.
HookInv ==
  /\ hook # "none" => current # 0
  /\ hook = "ensure_worker" => lifecycle \in Running
  /\ hook \in {"spawn_deregister", "abort_worker"} => lifecycle \in Ending

\* Controllers not installed yet have no loop.
FutureInv == \A c \in Controllers : c > current => task[WorkerOf(c)] = "idle"

\* Before retirement `worker` is None only if no loop was ever spawned.
HandleInv == lifecycle \notin Ending /\ current # 0 /\ ~worker => task[Mine] = "idle"

\* A loop without handle was aborted, and one that outlives retirement has
\* been told to stop.
StopInv ==
  current # 0 /\ Alive(Mine) =>
    /\ ~worker => Mine \in aborted
    /\ lifecycle \in Ending => shutdown[Mine]
    /\ lifecycle \in Ending /\ hook = "none" => Mine \in aborted \/ closed

KernelInv == KernelTypes /\ HookInv /\ FutureInv /\ HandleInv /\ StopInv

-----------------------------------------------------------------------------
LEMMA CurrentWorker ==
  ASSUME KernelTypes, current # 0
  PROVE  /\ current \in Controllers
         /\ Mine \in Workers
         /\ Mine \in Tasks
  BY KernelAssumption DEF KernelTypes, Controllers, Mine, Workers, Tasks, Callers

LEMMA WorkerTasks == \A c \in Controllers : WorkerOf(c) \in Workers /\ WorkerOf(c) \in Tasks
  BY DEF Workers, Tasks, Callers

LEMMA WorkersDiffer ==
  /\ \A c, d \in Controllers : WorkerOf(c) = WorkerOf(d) => c = d
  /\ \A c, d \in Controllers : \A k \in Nat : WorkerOf(c) # DeregisterOf(d, k)
  /\ \A c \in Controllers : \A m \in Messages : WorkerOf(c) # MessageTask(m)
  BY DEF WorkerOf, DeregisterOf, MessageTask

(* The kernel starts without controller, so there is little to show. *)
LEMMA InitInv == Init => KernelInv
<1> SUFFICES ASSUME Init PROVE KernelInv
  OBVIOUS
<1>1. KernelTypes
  <2>1. /\ lifecycle \in AgentState /\ worker \in BOOLEAN /\ closed \in BOOLEAN
        /\ hook = "none"
    BY DEF Init, AgentState, Sched!SchedInit
  <2>2. current \in 0..MaxControllers
    BY KernelAssumption DEF Init
  <2>3. task \in [Tasks -> Sched!TaskState]
    BY DEF Init, Sched!SchedInit, Sched!TaskState
  <2>4. shutdown \in [Workers -> BOOLEAN]
    BY DEF Init, Loop!LoopInit
  <2>5. QED
    BY <2>1, <2>2, <2>3, <2>4 DEF KernelTypes
<1>2. HookInv /\ HandleInv /\ StopInv
  BY DEF Init, HookInv, HandleInv, StopInv
<1>3. FutureInv
  BY WorkerTasks DEF Init, FutureInv, Sched!SchedInit
<1>4. QED
  BY <1>1, <1>2, <1>3 DEF KernelInv

(* Steps of the spawned tasks: the kernel's own state stays, and a loop    *)
(* neither comes into being nor comes back to life.                        *)
LEMMA TaskProgress ==
  ASSUME KernelInv,
         UNCHANGED <<lifecycle, current, worker, hook, shutdown>>,
         closed' \in BOOLEAN, closed => closed',
         aborted \subseteq aborted',
         task' \in [Tasks -> Sched!TaskState],
         \A w \in Workers : (task'[w] = "idle" <=> task[w] = "idle") /\ (Alive(w)' => Alive(w))
  PROVE  KernelInv'
<1>1. KernelTypes'
  BY DEF KernelInv, KernelTypes
<1>2. HookInv'
  BY DEF KernelInv, HookInv
<1>3. FutureInv'
  BY WorkerTasks DEF KernelInv, FutureInv
<1>4. Mine' = Mine
  BY DEF Mine
<1>5. current # 0 => Mine \in Workers
  BY CurrentWorker DEF KernelInv
<1>6. HandleInv'
  BY <1>4, <1>5 DEF KernelInv, HandleInv
<1>7. StopInv'
  BY <1>4, <1>5 DEF KernelInv, StopInv
<1>8. QED
  BY <1>1, <1>2, <1>3, <1>6, <1>7 DEF KernelInv

(* Moving a task onwards is such a step ... *)
LEMMA MoveProgress ==
  ASSUME KernelInv,
         UNCHANGED <<lifecycle, current, worker, hook, shutdown, closed, aborted>>,
         NEW t \in Tasks, NEW from \in {"spawned", "waiting", "running"},
         NEW to \in {"waiting", "running", "done", "cancelled", "panicked"},
         Sched!Move(t, from, to)
  PROVE  KernelInv'
<1>1. task' \in [Tasks -> Sched!TaskState]
  BY DEF KernelInv, KernelTypes, Sched!Move, Sched!TaskState
<1>2. \A w \in Workers : (task'[w] = "idle" <=> task[w] = "idle") /\ (Alive(w)' => Alive(w))
  BY DEF KernelInv, KernelTypes, Sched!Move, Alive, Tasks, Callers
<1>3. closed' \in BOOLEAN
  BY DEF KernelInv, KernelTypes
<1>4. QED
  BY <1>1, <1>2, <1>3, TaskProgress

(* ... and so is a step that leaves the scheduler alone or closes it. *)
LEMMA IdleProgress ==
  ASSUME KernelInv,
         UNCHANGED <<lifecycle, current, worker, hook, shutdown, task, aborted>>,
         closed' = closed \/ closed' = TRUE
  PROVE  KernelInv'
<1>1. /\ task' \in [Tasks -> Sched!TaskState]
      /\ closed' \in BOOLEAN /\ (closed => closed')
  BY DEF KernelInv, KernelTypes
<1>2. \A w \in Workers : (task'[w] = "idle" <=> task[w] = "idle") /\ (Alive(w)' => Alive(w))
  BY DEF Alive
<1>3. QED
  BY <1>1, <1>2, TaskProgress

LEMMA InvStep == KernelInv /\ [Next]_vars => KernelInv'
<1> SUFFICES ASSUME KernelInv, [Next]_vars PROVE KernelInv'
  OBVIOUS
<1> USE DEF kernelVars, schedVars
<1>1. ASSUME NEW valid \in BOOLEAN, SetRegistry(valid) PROVE KernelInv'
  <2>1. current + 1 \in Controllers /\ current' = current + 1 /\ ~worker' /\ hook = "none"
    BY <1>1, KernelAssumption DEF SetRegistry, KernelInv, KernelTypes, Controllers
  <2>2. task[WorkerOf(current + 1)] = "idle"
    BY <2>1, KernelAssumption DEF KernelInv, KernelTypes, FutureInv
  <2>3. KernelTypes' /\ HookInv'
    <3>1. UNCHANGED <<lifecycle, closed, hook, task, shutdown>>
      BY <1>1 DEF SetRegistry
    <3>2. current' \in 0..MaxControllers /\ worker' = FALSE
      BY <1>1, <2>1, KernelAssumption DEF SetRegistry, Controllers
    <3>3. KernelTypes'
      BY <3>1, <3>2 DEF KernelInv, KernelTypes
    <3>4. HookInv'
      BY <2>1, <3>1 DEF HookInv
    <3>5. QED
      BY <3>3, <3>4
  <2>4. FutureInv'
    BY <1>1, <2>1, KernelAssumption DEF SetRegistry, KernelInv, KernelTypes, FutureInv, Controllers
  <2>5. HandleInv' /\ StopInv'
    BY <1>1, <2>1, <2>2 DEF SetRegistry, HandleInv, StopInv, Mine, Alive
  <2>6. QED
    BY <2>3, <2>4, <2>5 DEF KernelInv
<1>2. ASSUME NEW event \in LifecycleEvent, Transition(event) PROVE KernelInv'
  <2>1. /\ hook = "none"
        /\ lifecycle' \in AgentState
        /\ hook' = HookFor(lifecycle')
        /\ <<lifecycle, event, lifecycle'>> \in Arrows
        /\ UNCHANGED <<current, worker, task, closed, aborted>>
    BY <1>2 DEF Transition, Arrow
  <2>2. lifecycle \in Ending => lifecycle' \in Ending
    BY <2>1 DEF Arrows, Ending, AgentState
  <2>3. shutdown' = IF hook' = "spawn_deregister"
                      THEN [shutdown EXCEPT ![Mine] = TRUE] ELSE shutdown
    BY <1>2 DEF Transition, Mine
  <2>4. /\ hook' \in {"none", "ensure_worker", "spawn_deregister"}
        /\ hook' # "none" => current # 0
        /\ hook' = "ensure_worker" => lifecycle' \in Running
        /\ hook' = "spawn_deregister" => lifecycle' \in Ending
        /\ lifecycle' \in Ending /\ current # 0 => hook' = "spawn_deregister"
    BY <2>1 DEF HookFor, Running, Ending
  <2>5. current # 0 => Mine \in Workers
    BY CurrentWorker DEF KernelInv
  <2>6. KernelTypes'
    BY <2>1, <2>3, <2>4 DEF KernelInv, KernelTypes
  <2>7. HookInv'
    BY <2>1, <2>4 DEF HookInv
  <2>8. FutureInv'
    BY <2>1 DEF KernelInv, FutureInv
  <2>9. HandleInv'
    BY <2>1, <2>2 DEF KernelInv, HandleInv, Mine
  <2>10. StopInv'
    BY <2>1, <2>3, <2>4, <2>5 DEF KernelInv, KernelTypes, StopInv, Mine, Alive
  <2>11. QED
    BY <2>6, <2>7, <2>8, <2>9, <2>10 DEF KernelInv
<1>3. ASSUME EnsureWorker PROVE KernelInv'
  <2>1. /\ hook = "ensure_worker" /\ hook' = "none"
        /\ UNCHANGED <<lifecycle, current, shutdown>>
        /\ lifecycle \in Running /\ lifecycle \notin Ending
        /\ current \in Controllers /\ Mine \in Tasks /\ Mine' = Mine
    BY <1>3, CurrentWorker DEF EnsureWorker, KernelInv, HookInv, Running, Ending, Mine
  <2>2. CASE worker \/ ~configOk \/ closed
    BY <1>3, <2>1, <2>2 DEF EnsureWorker, KernelInv, KernelTypes, HookInv, FutureInv,
       HandleInv, StopInv, Alive
  <2>3. CASE ~(worker \/ ~configOk \/ closed)
    <3>1. /\ worker' = TRUE /\ UNCHANGED <<closed, aborted>>
          /\ task' = [task EXCEPT ![Mine] = "spawned"]
      BY <1>3, <2>3 DEF EnsureWorker, Sched!Submit, Sched!Move, Mine
    <3>2. KernelTypes' /\ HookInv'
      BY <2>1, <3>1 DEF KernelInv, KernelTypes, HookInv, Sched!TaskState
    <3>3. FutureInv'
      <4> SUFFICES ASSUME NEW c \in Controllers, c > current PROVE task'[WorkerOf(c)] = "idle"
        BY <2>1 DEF FutureInv
      <4>1. c # current
        BY <2>1 DEF Controllers
      <4>2. WorkerOf(c) # Mine
        BY <2>1, <4>1, WorkersDiffer DEF Mine
      <4>3. QED
        BY <3>1, <4>2, WorkerTasks DEF KernelInv, KernelTypes, FutureInv
    <3>4. HandleInv' /\ StopInv'
      BY <2>1, <3>1 DEF HandleInv, StopInv
    <3>5. QED
      BY <3>2, <3>3, <3>4 DEF KernelInv
  <2>4. QED
    BY <2>2, <2>3
<1>4. ASSUME SpawnDeregister PROVE KernelInv'
  <2>1. /\ hook = "spawn_deregister" /\ lifecycle \in Ending
        /\ UNCHANGED <<lifecycle, current, worker, shutdown>>
        /\ current \in Controllers /\ Mine \in Workers /\ Mine \in Tasks /\ Mine' = Mine
    BY <1>4, CurrentWorker DEF SpawnDeregister, KernelInv, HookInv, Mine
  <2>2. CASE closed
    BY <1>4, <2>1, <2>2 DEF SpawnDeregister, KernelInv, KernelTypes, HookInv, FutureInv,
       HandleInv, StopInv, Alive
  <2>3. CASE ~closed
    <3> DEFINE d == DeregisterOf(current, deregisters[current] + 1)
    <3>1. /\ hook' = "abort_worker" /\ UNCHANGED <<closed, aborted>>
          /\ task' = [task EXCEPT ![d] = "spawned"]
      BY <1>4, <2>3 DEF SpawnDeregister, Sched!Submit, Sched!Move
    <3>2. \A c \in Controllers : WorkerOf(c) # d
      BY DEF WorkerOf, DeregisterOf
    <3>3. \A c \in Controllers : task'[WorkerOf(c)] = task[WorkerOf(c)]
      BY <3>1, <3>2, WorkerTasks DEF KernelInv, KernelTypes
    <3>4. KernelTypes' /\ HookInv'
      BY <2>1, <3>1 DEF KernelInv, KernelTypes, HookInv, Sched!TaskState
    <3>5. FutureInv'
      BY <2>1, <3>3 DEF KernelInv, FutureInv
    <3>6. task'[Mine] = task[Mine]
      BY <2>1, <3>3 DEF Mine
    <3>7. HandleInv' /\ StopInv'
      BY <2>1, <3>1, <3>6 DEF KernelInv, HandleInv, StopInv, Alive
    <3>8. QED
      BY <3>4, <3>5, <3>7 DEF KernelInv
  <2>4. QED
    BY <2>2, <2>3
<1>5. ASSUME AbortWorker PROVE KernelInv'
  <2>1. /\ hook = "abort_worker" /\ hook' = "none" /\ lifecycle \in Ending /\ ~worker'
        /\ UNCHANGED <<lifecycle, current, shutdown, task, closed>>
        /\ current # 0 /\ Mine' = Mine
    BY <1>5 DEF AbortWorker, Sched!Abort, KernelInv, HookInv, Mine
  <2>2. /\ aborted \subseteq aborted'
        /\ worker /\ Alive(Mine) => Mine \in aborted'
    BY <1>5 DEF AbortWorker, Sched!Abort, Mine
  <2>3. KernelTypes' /\ HookInv' /\ FutureInv' /\ HandleInv'
    <3>1. KernelTypes'
      BY <1>5, <2>1 DEF AbortWorker, KernelInv, KernelTypes
    <3>2. HookInv' /\ HandleInv'
      BY <2>1 DEF HookInv, HandleInv
    <3>3. FutureInv'
      BY <2>1 DEF KernelInv, FutureInv
    <3>4. QED
      BY <3>1, <3>2, <3>3
  <2>4. StopInv'
    BY <2>1, <2>2 DEF KernelInv, KernelTypes, StopInv, Alive
  <2>5. QED
    BY <2>3, <2>4 DEF KernelInv
<1>6. ASSUME NEW m \in Messages, ScheduleMessage(m) PROVE KernelInv'
  <2>1. /\ UNCHANGED <<lifecycle, current, worker, hook, shutdown, closed, aborted>>
        /\ task' = [task EXCEPT ![MessageTask(m)] = "spawned"]
    BY <1>6 DEF ScheduleMessage, Sched!Submit, Sched!Move
  <2>2. \A w \in Workers : task'[w] = task[w]
    BY <2>1, WorkersDiffer DEF KernelInv, KernelTypes, Workers, Tasks, Callers
  <2>3. task' \in [Tasks -> Sched!TaskState]
    BY <2>1 DEF KernelInv, KernelTypes, Sched!TaskState
  <2>4. closed' \in BOOLEAN
    BY <2>1 DEF KernelInv, KernelTypes
  <2>5. QED
    BY <2>1, <2>2, <2>3, <2>4, TaskProgress DEF Alive
<1>7. ASSUME CloseScheduler PROVE KernelInv'
  BY <1>7, IdleProgress DEF CloseScheduler, Sched!CloseFlag, Sched!CloseSemaphore
<1>8. ASSUME NEW t \in Tasks, PollTask(t) PROVE KernelInv'
  BY <1>8, MoveProgress
     DEF PollTask, Sched!Poll, Sched!AcquireNow, Sched!JoinQueue, Sched!Grant,
         Sched!PanicUnstarted, Sched!PanicWaiting, Sched!CancelUnstarted, Sched!CancelWaiting
<1>9. ASSUME NEW w \in Workers, WorkerMove(w) PROVE KernelInv'
  <2>1. w \in Tasks
    BY DEF Tasks, Callers
  <2>2. CASE RunWorker(w)
    <3>1. UNCHANGED shutdown
      BY <2>2 DEF RunWorker, Loop!Continue, Loop!Resume, Loop!LoopTop, Loop!CallRegister,
         Loop!CallHeartbeat, Loop!Registered, Loop!RegisterFailed, Loop!WakeUp, Loop!Tick,
         Loop!HeartbeatOk, Loop!HeartbeatFailed
    <3>2. QED
      BY <2>2, <3>1, IdleProgress DEF RunWorker
  <2>3. CASE EndWorker(w)
    BY <2>1, <2>3, MoveProgress DEF EndWorker, Sched!Finish
  <2>4. CASE CancelWorker(w)
    BY <2>1, <2>4, MoveProgress DEF CancelWorker, Sched!CancelRunning, Loop!DropLoop
  <2>5. QED
    BY <1>9, <2>2, <2>3, <2>4 DEF WorkerMove
<1>10. ASSUME NEW d \in Deregisters, DeregisterMove(d) PROVE KernelInv'
  <2>1. d \in Tasks
    BY DEF Tasks, Callers
  <2>2. CASE CallDeregister(d)
    BY <2>2, IdleProgress DEF CallDeregister
  <2>3. CASE EndDeregister(d)
    BY <2>1, <2>3, MoveProgress DEF EndDeregister, Sched!Finish
  <2>4. QED
    BY <1>10, <2>2, <2>3 DEF DeregisterMove
<1>11. ASSUME NEW t \in MessageTasks, EndMessage(t) PROVE KernelInv'
  BY <1>11, MoveProgress DEF EndMessage, Sched!Finish, Tasks
<1>12. ASSUME HandleRequest \/ RegistryTrouble \/ UNCHANGED vars PROVE KernelInv'
  BY <1>12, IdleProgress DEF HandleRequest, RegistryTrouble, vars
<1>13. QED
  BY <1>1, <1>2, <1>3, <1>4, <1>5, <1>6, <1>7, <1>8, <1>9, <1>10, <1>11, <1>12
     DEF Next, HookStep

THEOREM KernelInvariant == Spec => []KernelInv
BY InitInv, InvStep, PTL DEF Spec

(* NoSecondWorker for every instance: ensure_worker never spawns a loop    *)
(* for a controller that has already spawned one, whatever sequence of     *)
(* transitions, failed hooks and set_registry calls came before.           *)
THEOREM OneWorker == Spec => []NoSecondWorker
<1>1. KernelInv => NoSecondWorker
  BY DEF KernelInv, HookInv, HandleInv, NoSecondWorker, Running, Ending, Mine
<1>2. QED
  BY <1>1, KernelInvariant, PTL

(* RetiredWorkerIsStopping for every instance: after the hook of a         *)
(* retirement no loop of the current controller goes on untold.            *)
THEOREM RetirementStops == Spec => []RetiredWorkerIsStopping
<1>1. KernelInv => RetiredWorkerIsStopping
  BY DEF KernelInv, StopInv, RetiredWorkerIsStopping, Ending, Mine
<1>2. QED
  BY <1>1, KernelInvariant, PTL

-----------------------------------------------------------------------------
(* The requests on the wire. *)
WireTyped == wire \subseteq Link!Request

\* What a step of a client or of the network may do to the wire: kinds are
\* never changed, and only the kinds in `sent` are added.
Carries(sent) ==
  \A r \in wire' : r \in Link!Request /\ (r.kind \in sent \/ \E q \in wire : r.kind = q.kind)

LEMMA SendCarries ==
  ASSUME WireTyped, NEW c \in Callers, NEW kind \in Link!RequestKind, Link!Send(c, kind)
  PROVE  Carries({kind}) /\ UNCHANGED registered
<1> DEFINE new == [by |-> c, kind |-> kind, awaited |-> TRUE]
<1>1. new \in Link!Request /\ new.kind = kind
  BY DEF Link!Request
<1>2. wire' = wire \cup {new} /\ UNCHANGED registered
  BY DEF Link!Send
<1> HIDE DEF new
<1>3. Carries({kind})
  BY <1>1, <1>2 DEF WireTyped, Carries
<1>4. QED
  BY <1>2, <1>3

LEMMA ForsakeCarries ==
  ASSUME WireTyped, NEW c \in Callers, Link!Forsake(c)
  PROVE  Carries({})
<1> SUFFICES ASSUME NEW r \in wire'
             PROVE  r \in Link!Request /\ \E q \in wire : r.kind = q.kind
  BY DEF Carries
<1>1. PICK q \in wire : r = Link!Orphan(q, c)
  BY DEF Link!Forsake
<1>2. q \in Link!Request
  BY DEF WireTyped
<1>3. r \in Link!Request /\ r.kind = q.kind
  BY <1>1, <1>2 DEF Link!Orphan, Link!Request
<1>4. QED
  BY <1>3

LEMMA ShrinkCarries ==
  ASSUME WireTyped, wire' \subseteq wire
  PROVE  Carries({})
BY DEF WireTyped, Carries

(* Whatever the registry and the network do, an agent without an entry and *)
(* without a registration under way gets none.                             *)
LEMMA NetworkCarries ==
  ASSUME WireTyped, HandleRequest \/ RegistryTrouble
  PROVE  /\ Carries({})
         /\ ~registered /\ (\A r \in wire : r.kind # "register") => ~registered'
<1>1. ASSUME NEW r \in wire, registered' = Link!Effect(r.kind) \/ registered' = registered
      PROVE  ~registered /\ r.kind # "register" => ~registered'
  <2>1. r.kind \in {"register", "heartbeat", "final"}
    BY DEF WireTyped, Link!Request, Link!RequestKind
  <2>2. QED
    BY <1>1, <2>1 DEF Link!Effect
<1>2. CASE HandleRequest
  <2>1. PICK r \in wire : Link!Handle(r)
    BY <1>2 DEF HandleRequest
  <2>2. wire' \subseteq wire /\ registered' = Link!Effect(r.kind)
    BY <2>1 DEF Link!Handle, Link!Deliver
  <2>3. QED
    BY <1>1, <2>2, ShrinkCarries
<1>3. CASE \E r \in wire : \/ Link!Refuse(r) \/ Link!HandleUnanswered(r)
                          \/ Link!HandleCopy(r) \/ Link!LoseRequest(r)
  <2>1. PICK r \in wire : \/ Link!Refuse(r) \/ Link!HandleUnanswered(r)
                          \/ Link!HandleCopy(r) \/ Link!LoseRequest(r)
    BY <1>3
  <2>2. /\ wire' \subseteq wire
        /\ registered' = Link!Effect(r.kind) \/ registered' = registered
    BY <2>1 DEF Link!Refuse, Link!Deliver, Link!HandleUnanswered, Link!HandleCopy, Link!LoseRequest
  <2>3. QED
    BY <1>1, <2>2, ShrinkCarries
<1>4. CASE Link!Forget
  BY <1>4, ShrinkCarries DEF Link!Forget
<1>5. CASE \E r \in wire : Link!AnswerCopy(r)
  <2>1. PICK r \in wire : Link!AnswerCopy(r)
    BY <1>5
  <2>2. Link!Orphan(r, r.by) \in Link!Request /\ Link!Orphan(r, r.by).kind = r.kind
    BY DEF WireTyped, Link!Orphan, Link!Request
  <2>3. Carries({})
    BY <2>1, <2>2 DEF Link!AnswerCopy, WireTyped, Carries
  <2>4. QED
    BY <1>1, <2>1, <2>3 DEF Link!AnswerCopy
<1>6. QED
  BY <1>2, <1>3, <1>4, <1>5 DEF RegistryTrouble, Link!Trouble

(* The steps of the loop, alive or not, and of the deregister tasks. *)
LEMMA WorkerCarries ==
  ASSUME WireTyped, NEW w \in Workers, WorkerMove(w)
  PROVE  Carries({"register", "heartbeat"})
<1>1. w \in Callers
  BY DEF Callers
<1>2. CASE UNCHANGED wire
  BY <1>2 DEF WireTyped, Carries
<1>3. CASE Link!Send(w, "register") \/ Link!Send(w, "heartbeat")
  <2>1. Carries({"register"}) \/ Carries({"heartbeat"})
    BY <1>1, <1>3, SendCarries DEF Link!RequestKind
  <2>2. QED
    BY <2>1 DEF Carries
<1>4. CASE Link!Forsake(w)
  <2>1. Carries({})
    BY <1>1, <1>4, ForsakeCarries
  <2>2. QED
    BY <2>1 DEF Carries
<1>5. CASE EndWorker(w)
  BY <1>2, <1>5 DEF EndWorker, linkVars
<1>6. CASE CancelWorker(w)
  BY <1>4, <1>6 DEF CancelWorker, Loop!DropLoop, Loop!Link!Forsake, Loop!Link!Orphan,
     Link!Forsake, Link!Orphan
<1>7. CASE RunWorker(w)
  <2>1. CASE Loop!CallRegister(w) \/ Loop!CallHeartbeat(w)
    BY <1>3, <2>1 DEF Loop!CallRegister, Loop!CallHeartbeat, Loop!Link!Send, Link!Send
  <2>2. CASE \/ Loop!LoopTop(w) \/ Loop!Registered(w) \/ Loop!WakeUp(w)
             \/ Loop!Tick(w) \/ Loop!HeartbeatOk(w)
    BY <1>2, <2>2 DEF Loop!LoopTop, Loop!Registered, Loop!WakeUp, Loop!Tick, Loop!HeartbeatOk,
       Loop!linkVars, Loop!Link!Received
  <2>3. CASE Loop!RegisterFailed(w) \/ Loop!HeartbeatFailed(w)
    <3>1. UNCHANGED wire \/ Loop!Link!Forsake(w)
      BY <2>3 DEF Loop!RegisterFailed, Loop!HeartbeatFailed, Loop!Link!Received,
         Loop!Link!TimedOut
    <3>2. QED
      BY <1>2, <1>4, <3>1 DEF Loop!Link!Forsake, Loop!Link!Orphan, Link!Forsake, Link!Orphan
  <2>4. QED
    BY <1>7, <2>1, <2>2, <2>3 DEF RunWorker, Loop!Continue, Loop!Resume
<1>8. QED
  BY <1>5, <1>6, <1>7 DEF WorkerMove

LEMMA DeregisterCarries ==
  ASSUME WireTyped, NEW d \in Deregisters, DeregisterMove(d)
  PROVE  Carries({"final"}) /\ UNCHANGED registered
<1>1. d \in Callers
  BY DEF Callers
<1>2. CASE CallDeregister(d)
  BY <1>1, <1>2, SendCarries DEF CallDeregister, Link!RequestKind
<1>3. CASE EndDeregister(d)
  <2>1. UNCHANGED wire \/ Link!Forsake(d)
    BY <1>3 DEF EndDeregister, Link!Received, Link!TimedOut
  <2>2. UNCHANGED registered
    BY <1>3 DEF EndDeregister, Link!Received, Link!TimedOut
  <2>3. QED
    BY <1>1, <2>1, <2>2, ForsakeCarries, ShrinkCarries DEF Carries
<1>4. QED
  BY <1>2, <1>3 DEF DeregisterMove

(* Every other step leaves the link alone. *)
LEMMA OtherSteps ==
  ASSUME [Next]_vars,
         ~(HandleRequest \/ RegistryTrouble),
         \A w \in Workers : ~WorkerMove(w),
         \A d \in Deregisters : ~DeregisterMove(d)
  PROVE  UNCHANGED <<wire, registered>>
BY DEF Next, vars, linkVars, SetRegistry, Transition, HookStep, EnsureWorker, SpawnDeregister,
       AbortWorker, ScheduleMessage, CloseScheduler, PollTask, EndMessage

LEMMA WireStep == WireTyped /\ [Next]_vars => WireTyped'
<1> SUFFICES ASSUME WireTyped, [Next]_vars PROVE WireTyped'
  OBVIOUS
<1>1. ASSUME NEW sent, Carries(sent) PROVE WireTyped'
  BY <1>1 DEF Carries, WireTyped
<1>2. UNCHANGED wire => WireTyped'
  BY DEF WireTyped
<1>3. QED
  BY <1>1, <1>2, OtherSteps, NetworkCarries, WorkerCarries, DeregisterCarries

THEOREM WireInvariant == Spec => []WireTyped
<1>1. Init => WireTyped
  BY DEF Init, Link!LinkInit, WireTyped
<1>2. QED
  BY <1>1, WireStep, PTL DEF Spec

-----------------------------------------------------------------------------
(* NoResurrection: Departed is stable. *)

LEMMA StaysTerminated ==
  ASSUME lifecycle = "Terminated", [Next]_vars
  PROVE  lifecycle' = "Terminated"
<1>1. ASSUME NEW event \in LifecycleEvent, Transition(event) PROVE lifecycle' = "Terminated"
  BY <1>1 DEF Transition, Arrow, Arrows
<1>2. QED
  BY <1>1
     DEF Next, vars, kernelVars, SetRegistry, HookStep, EnsureWorker, SpawnDeregister,
         AbortWorker, ScheduleMessage, CloseScheduler, PollTask, WorkerMove, RunWorker,
         EndWorker, CancelWorker, DeregisterMove, CallDeregister, EndDeregister, EndMessage,
         HandleRequest, RegistryTrouble

(* Only ensure_worker gives life to a loop. *)
LEMMA NoNewLoop ==
  ASSUME KernelInv, lifecycle = "Terminated", [Next]_vars, NEW w \in Workers, ~Alive(w)
  PROVE  ~Alive(w)'
<1> USE DEF schedVars
<1>1. w \in Tasks
  BY DEF Tasks, Callers
<1>2. ASSUME NEW t \in Tasks, NEW from \in {"spawned", "waiting", "running"}, NEW to,
             Sched!Move(t, from, to)
      PROVE  ~Alive(w)'
  BY <1>1, <1>2 DEF Sched!Move, Alive, KernelInv, KernelTypes
<1>3. CASE UNCHANGED task
  BY <1>3 DEF Alive
<1>4. ~EnsureWorker
  BY DEF EnsureWorker, KernelInv, HookInv, Running
<1>5. CASE SpawnDeregister
  <2>1. w # DeregisterOf(current, deregisters[current] + 1)
    BY DEF Workers, WorkerOf, DeregisterOf
  <2>2. task'[w] = task[w]
    BY <1>1, <1>5, <2>1 DEF SpawnDeregister, Sched!Submit, Sched!Move, KernelInv, KernelTypes
  <2>3. QED
    BY <2>2 DEF Alive
<1>6. ASSUME NEW m \in Messages, ScheduleMessage(m) PROVE ~Alive(w)'
  <2>1. w # MessageTask(m)
    BY DEF Workers, WorkerOf, MessageTask
  <2>2. task'[w] = task[w]
    BY <1>1, <1>6, <2>1 DEF ScheduleMessage, Sched!Submit, Sched!Move, KernelInv, KernelTypes
  <2>3. QED
    BY <2>2 DEF Alive
<1>7. ASSUME NEW t \in Tasks, PollTask(t) PROVE ~Alive(w)'
  BY <1>2, <1>7
     DEF PollTask, Sched!Poll, Sched!AcquireNow, Sched!JoinQueue, Sched!Grant,
         Sched!PanicUnstarted, Sched!PanicWaiting, Sched!CancelUnstarted, Sched!CancelWaiting
<1>8. ASSUME NEW v \in Workers, WorkerMove(v) PROVE ~Alive(w)'
  <2>1. v \in Tasks
    BY DEF Tasks, Callers
  <2>2. QED
    BY <1>2, <1>3, <1>8, <2>1
       DEF WorkerMove, RunWorker, EndWorker, CancelWorker, Sched!Finish, Sched!CancelRunning
<1>9. ASSUME NEW d \in Deregisters, DeregisterMove(d) PROVE ~Alive(w)'
  <2>1. d \in Tasks
    BY DEF Tasks, Callers
  <2>2. QED
    BY <1>2, <1>3, <1>9, <2>1
       DEF DeregisterMove, CallDeregister, EndDeregister, Sched!Finish
<1>10. ASSUME NEW t \in MessageTasks, EndMessage(t) PROVE ~Alive(w)'
  <2>1. t \in Tasks
    BY DEF Tasks
  <2>2. QED
    BY <1>2, <1>10, <2>1 DEF EndMessage, Sched!Finish
<1>11. QED
  BY <1>3, <1>4, <1>5, <1>6, <1>7, <1>8, <1>9, <1>10
     DEF Next, vars, SetRegistry, Transition, HookStep, AbortWorker, Sched!Abort,
         CloseScheduler, Sched!CloseFlag, Sched!CloseSemaphore, HandleRequest, RegistryTrouble

LEMMA DepartedStep ==
  ASSUME KernelInv, WireTyped, Departed, [Next]_vars
  PROVE  Departed'
<1> DEFINE Quiet == ~registered /\ \A r \in wire : r.kind # "register"
<1>1. lifecycle' = "Terminated" /\ \A w \in Workers : ~Alive(w)'
  BY StaysTerminated, NoNewLoop DEF Departed
<1>2. ASSUME NEW sent, "register" \notin sent, Carries(sent)
      PROVE  \A r \in wire' : r.kind # "register"
  BY <1>2 DEF Departed, Carries
<1>3. \A w \in Workers : ~WorkerMove(w)
  BY DEF Departed, Alive, WorkerMove, RunWorker, EndWorker, CancelWorker, Sched!Finish,
     Sched!CancelRunning, Sched!Move
<1>4. ASSUME HandleRequest \/ RegistryTrouble PROVE Quiet'
  BY <1>2, <1>4, NetworkCarries DEF Departed
<1>5. ASSUME NEW d \in Deregisters, DeregisterMove(d) PROVE Quiet'
  BY <1>2, <1>5, DeregisterCarries DEF Departed
<1>6. ASSUME ~(HandleRequest \/ RegistryTrouble), \A d \in Deregisters : ~DeregisterMove(d)
      PROVE  Quiet'
  BY <1>3, <1>6, OtherSteps DEF Departed
<1>7. Quiet'
  BY <1>4, <1>5, <1>6
<1>8. QED
  BY <1>1, <1>7 DEF Departed

(* NoResurrection for every instance: nothing the owner, a left-over task  *)
(* or the network does brings the entry of a departed agent back.          *)
THEOREM DepartedForGood == Spec => NoResurrection
<1>1. KernelInv /\ WireTyped /\ Departed /\ [Next]_vars => Departed'
  BY DepartedStep
<1>2. Departed => ~registered
  BY DEF Departed
<1>3. QED
  BY <1>1, <1>2, KernelInvariant, WireInvariant, PTL DEF Spec, NoResurrection

-----------------------------------------------------------------------------
(* The parts of the agent, with what their own proofs show: a step of the  *)
(* agent is a step of its scheduler or none, and a step of the service of  *)
(* its loops in a registry that never calms down, unless a loop is aborted *)
(* or a deregister task uses the link.                                     *)
Runtime == INSTANCE TaskScheduler_proofs
Service == INSTANCE RegistrationService_proofs WITH calm <- FALSE, missed <- failures

LEMMA TasksFinite == IsFiniteSet(Tasks)
<1>1. IsFiniteSet(Controllers) /\ IsFiniteSet(1..MaxDeregisters)
  BY FS_Interval, KernelAssumption DEF Controllers
<1>2. IsFiniteSet(Workers)
  <2> DEFINE f == [c \in Controllers |-> WorkerOf(c)]
  <2>1. f \in Surjection(Controllers, Workers)
    BY Fun_IsSurj DEF Workers
  <2>2. QED
    BY <1>1, <2>1, FS_Surjection
<1>3. IsFiniteSet(Deregisters)
  <2> DEFINE P == Controllers \X (1..MaxDeregisters)
             f == [p \in P |-> DeregisterOf(p[1], p[2])]
  <2>1. f \in [P -> Deregisters]
    BY DEF Deregisters
  <2>2. ASSUME NEW t \in Deregisters PROVE \E p \in P : f[p] = t
    <3>1. PICK c \in Controllers, k \in 1..MaxDeregisters : t = DeregisterOf(c, k)
      BY DEF Deregisters
    <3>2. <<c, k>> \in P /\ f[<<c, k>>] = t
      BY <3>1
    <3>3. QED
      BY <3>2
  <2>3. IsFiniteSet(P)
    BY <1>1, FS_Product
  <2> HIDE DEF P, f
  <2>4. f \in Surjection(P, Deregisters)
    BY <2>1, <2>2, Fun_IsSurj
  <2>5. QED
    BY <2>3, <2>4, FS_Surjection
<1>4. IsFiniteSet(MessageTasks)
  <2> DEFINE f == [m \in Messages |-> MessageTask(m)]
  <2>1. f \in Surjection(Messages, MessageTasks)
    BY Fun_IsSurj DEF MessageTasks
  <2>2. QED
    BY <2>1, FS_Surjection, KernelAssumption
<1>5. QED
  BY <1>2, <1>3, <1>4, FS_Union DEF Tasks, Callers

\* The assumptions of the instances.
LEMMA Parts ==
  Runtime!SchedulerAssumption /\ Service!WorkerAssumption
<1>1. Runtime!SchedulerAssumption
  BY TasksFinite, KernelAssumption
     DEF Runtime!SchedulerAssumption, Runtime!IsFiniteSet, IsFiniteSet
<1>2. Service!WorkerAssumption
  BY KernelAssumption DEF Service!WorkerAssumption, Callers
<1>3. QED
  BY <1>1, <1>2

LEMMA SameTypes ==
  /\ Sched!TypeOK <=> Runtime!TypeOK
  /\ Loop!LoopTypeOK <=> Service!LoopTypeOK
  /\ Link!LinkTypeOK <=> Service!Link!LinkTypeOK
<1>1. Sched!TypeOK <=> Runtime!TypeOK
  BY DEF Sched!TypeOK, Runtime!TypeOK, Sched!TaskState, Runtime!TaskState
<1>2. Loop!LoopTypeOK <=> Service!LoopTypeOK
  BY DEF Loop!LoopTypeOK, Service!LoopTypeOK, Loop!PC, Service!PC
<1>3. Link!LinkTypeOK <=> Service!Link!LinkTypeOK
  BY DEF Link!LinkTypeOK, Service!Link!LinkTypeOK, Link!Request, Service!Link!Request,
         Link!RequestKind, Service!Link!RequestKind, Link!Answer, Service!Link!Answer
<1>4. QED
  BY <1>1, <1>2, <1>3

(* What the kernel itself keeps. *)
OwnTypes ==
  /\ configOk \in BOOLEAN
  /\ deregisters \in [Controllers -> 0..MaxDeregisters]
  /\ hook = "spawn_deregister" => deregisters[current] < MaxDeregisters
  /\ notice \in [Deregisters -> {"unsent", "sent", "acked", "failed"}]

LEMMA DeregisterNumber ==
  ASSUME KernelInv, OwnTypes, hook = "spawn_deregister"
  PROVE  /\ current \in Controllers
         /\ deregisters[current] + 1 \in 1..MaxDeregisters
         /\ DeregisterOf(current, deregisters[current] + 1) \in Deregisters
<1>1. current \in Controllers
  BY CurrentWorker DEF KernelInv, HookInv
<1>2. deregisters[current] + 1 \in 1..MaxDeregisters
  BY <1>1, KernelAssumption DEF OwnTypes
<1>3. QED
  BY <1>1, <1>2 DEF Deregisters

LEMMA OwnStep ==
  ASSUME KernelInv, OwnTypes, [Next]_vars
  PROVE  OwnTypes'
<1> USE DEF kernelVars
<1>1. ASSUME NEW valid \in BOOLEAN, SetRegistry(valid) PROVE OwnTypes'
  BY <1>1 DEF SetRegistry, OwnTypes
<1>2. ASSUME NEW event \in LifecycleEvent, Transition(event) PROVE OwnTypes'
  BY <1>2 DEF Transition, OwnTypes
<1>3. CASE EnsureWorker \/ AbortWorker
  BY <1>3 DEF EnsureWorker, AbortWorker, OwnTypes
<1>4. CASE SpawnDeregister
  <2>1. deregisters' = deregisters \/ deregisters' = [deregisters EXCEPT ![current] = @ + 1]
    BY <1>4 DEF SpawnDeregister
  <2>2. deregisters' \in [Controllers -> 0..MaxDeregisters]
    BY <1>4, <2>1, DeregisterNumber DEF OwnTypes, SpawnDeregister
  <2>3. hook' # "spawn_deregister" /\ UNCHANGED <<configOk, notice>>
    BY <1>4 DEF SpawnDeregister
  <2>4. QED
    BY <2>2, <2>3 DEF OwnTypes
<1>5. ASSUME NEW d \in Deregisters, DeregisterMove(d) PROVE OwnTypes'
  BY <1>5 DEF DeregisterMove, CallDeregister, EndDeregister, OwnTypes
<1>6. ASSUME UNCHANGED <<kernelVars, notice>> PROVE OwnTypes'
  BY <1>6 DEF OwnTypes
<1>7. QED
  BY <1>1, <1>2, <1>3, <1>4, <1>5, <1>6
     DEF Next, vars, HookStep, ScheduleMessage, CloseScheduler, PollTask, WorkerMove, RunWorker,
         EndWorker, CancelWorker, EndMessage, HandleRequest, RegistryTrouble

(* The scheduler within the agent: Submit is spawn()'s two steps at once,  *)
(* every other step is the scheduler's.                                    *)
LEMMA SchedulerMoves ==
  ASSUME KernelInv, OwnTypes, [Next]_vars
  PROVE  \/ [Runtime!Next]_(Runtime!schedVars)
         \/ \E t \in Tasks : Runtime!Submit(t)
<1> USE DEF schedVars
<1> DEFINE Good == \/ [Runtime!Next]_(Runtime!schedVars)
                   \/ \E t \in Tasks : Runtime!Submit(t)
<1>1. UNCHANGED schedVars => Good
  BY DEF Runtime!schedVars
<1>2. ASSUME NEW t \in Tasks, Sched!Submit(t) PROVE Good
  BY <1>2 DEF Sched!Submit, Sched!Move, Runtime!Submit, Runtime!Move
<1>3. ASSUME NEW t \in Tasks, Sched!Finish(t) \/ Sched!CancelRunning(t) \/ Sched!Abort(t)
      PROVE  Good
  BY <1>3 DEF Sched!Finish, Sched!CancelRunning, Sched!Abort, Sched!Move, Runtime!Finish,
     Runtime!CancelRunning, Runtime!Abort, Runtime!Move, Runtime!Next
<1>4. ASSUME NEW t \in Tasks, Sched!Poll(t) PROVE Good
  <2>1. Runtime!Poll(t)
    BY <1>4
       DEF Sched!Poll, Sched!AcquireNow, Sched!JoinQueue, Sched!Grant, Sched!PanicUnstarted,
           Sched!PanicWaiting, Sched!CancelUnstarted, Sched!CancelWaiting, Sched!Move,
           Sched!WithoutIndex, Runtime!Poll, Runtime!AcquireNow, Runtime!JoinQueue,
           Runtime!Grant, Runtime!PanicUnstarted, Runtime!PanicWaiting,
           Runtime!CancelUnstarted, Runtime!CancelWaiting, Runtime!Move, Runtime!WithoutIndex
  <2>2. QED
    BY <2>1 DEF Runtime!Next
<1>5. CloseScheduler => Good
  BY DEF CloseScheduler, Sched!CloseFlag, Sched!CloseSemaphore, Runtime!CloseFlag,
     Runtime!CloseSemaphore, Runtime!Next
<1>6. Workers \subseteq Tasks /\ Deregisters \subseteq Tasks /\ MessageTasks \subseteq Tasks
  BY DEF Tasks, Callers
<1> HIDE DEF Good
<1>7. EnsureWorker \/ AbortWorker => Good
  <2>1. EnsureWorker => current # 0 /\ hook = "ensure_worker"
    BY DEF EnsureWorker, KernelInv, HookInv
  <2>2. AbortWorker => current # 0
    BY DEF AbortWorker, KernelInv, HookInv
  <2>3. current # 0 => WorkerOf(current) \in Tasks
    BY CurrentWorker DEF KernelInv, Mine
  <2>4. QED
    BY <1>1, <1>2, <1>3, <2>1, <2>2, <2>3 DEF EnsureWorker, AbortWorker
<1>8. SpawnDeregister => Good
  BY <1>1, <1>2, <1>6, DeregisterNumber DEF SpawnDeregister
<1>9. ASSUME NEW m \in Messages, ScheduleMessage(m) PROVE Good
  BY <1>2, <1>6, <1>9 DEF ScheduleMessage, MessageTasks
<1>10. ASSUME NEW w \in Workers, WorkerMove(w) PROVE Good
  BY <1>1, <1>3, <1>6, <1>10 DEF WorkerMove, RunWorker, EndWorker, CancelWorker
<1>11. ASSUME NEW d \in Deregisters, DeregisterMove(d) PROVE Good
  BY <1>1, <1>3, <1>6, <1>11 DEF DeregisterMove, CallDeregister, EndDeregister
<1>12. ASSUME NEW t \in MessageTasks, EndMessage(t) PROVE Good
  BY <1>3, <1>6, <1>12 DEF EndMessage
<1>13. Good
  BY <1>1, <1>4, <1>5, <1>7, <1>8, <1>9, <1>10, <1>11, <1>12
     DEF Next, vars, HookStep, SetRegistry, Transition, PollTask, HandleRequest, RegistryTrouble
<1>14. QED
  BY <1>13 DEF Good

SchedulerInv == Runtime!TypeOK /\ Runtime!PermitsConserved /\ Runtime!QueueMatchesWaiters

LEMMA SchedulerStep ==
  ASSUME KernelInv, OwnTypes, SchedulerInv, [Next]_vars
  PROVE  SchedulerInv'
<1>1. CASE [Runtime!Next]_(Runtime!schedVars)
  BY <1>1, Parts, Runtime!TypeStep, Runtime!PermitStep, Runtime!QueueStep DEF SchedulerInv
<1>2. ASSUME NEW t \in Tasks, Runtime!Submit(t) PROVE SchedulerInv'
  <2>1. /\ Runtime!Move(t, "idle", "spawned")
        /\ UNCHANGED <<queue, permits, closed, semClosed, aborted>>
    BY <1>2 DEF Runtime!Submit
  <2>2. Runtime!TypeOK'
    BY <2>1 DEF SchedulerInv, Runtime!TypeOK, Runtime!Move, Runtime!TaskState
  <2>3. Runtime!Running' = Runtime!Running
    BY <2>1, Parts, Runtime!OtherMove DEF SchedulerInv, Runtime!TaskState
  <2>4. Runtime!PermitsConserved'
    BY <2>1, <2>3 DEF SchedulerInv, Runtime!PermitsConserved
  <2>5. Runtime!InState("waiting")' = Runtime!InState("waiting")
    BY <2>1 DEF SchedulerInv, Runtime!TypeOK, Runtime!Move, Runtime!InState
  <2>6. Runtime!QueueMatchesWaiters'
    BY <2>1, <2>5 DEF SchedulerInv, Runtime!QueueMatchesWaiters
  <2>7. QED
    BY <2>2, <2>4, <2>6 DEF SchedulerInv
<1>3. QED
  BY <1>1, <1>2, SchedulerMoves

-----------------------------------------------------------------------------
(* The loops and the link within the agent. *)
ServiceInv == Service!LoopInv /\ Service!Link!LinkTypeOK

LEMMA ServiceTyped == ServiceInv => Service!TypeOK
  BY DEF ServiceInv, Service!LoopInv, Service!LoopTypeOK, Service!TypeOK

LEMMA ServiceMoves ==
  ASSUME ServiceInv, [Service!Next]_(Service!vars)
  PROVE  ServiceInv'
<1>1. Service!LoopInv' /\ Service!Link!LinkTypeOK'
  BY Parts, ServiceTyped, Service!LoopStep, Service!LinkStep DEF ServiceInv
<1>2. QED
  BY <1>1 DEF ServiceInv

LEMMA SameSend ==
  ASSUME NEW c, NEW kind, Link!Send(c, kind) PROVE Service!Link!Send(c, kind)
  BY DEF Link!Send, Service!Link!Send

LEMMA SameReceived ==
  ASSUME NEW c, NEW answers, Link!Received(c, answers) PROVE Service!Link!Received(c, answers)
  BY DEF Link!Received, Service!Link!Received

LEMMA SameTimedOut ==
  ASSUME NEW c, Link!TimedOut(c) PROVE Service!Link!TimedOut(c)
  BY DEF Link!TimedOut, Service!Link!TimedOut, Link!Forsake, Service!Link!Forsake,
         Link!Orphan, Service!Link!Orphan

\* A loop that runs on the scheduler takes the steps of the service.
LEMMA LoopServes ==
  ASSUME NEW w \in Workers, RunWorker(w)
  PROVE  Service!WorkerStep(w)
<1>1. CASE Loop!LoopTop(w) \/ Loop!WakeUp(w) \/ Loop!Tick(w)
  BY <1>1 DEF Loop!LoopTop, Loop!WakeUp, Loop!Tick, Loop!Goto, Loop!UnlessShutdown, Loop!linkVars,
     Service!LoopTop, Service!WakeUp, Service!Tick, Service!Goto, Service!UnlessShutdown,
     Service!linkVars, Service!WorkerStep, Service!Resume,
     Service!Continue
<1>2. CASE Loop!CallRegister(w) \/ Loop!CallHeartbeat(w)
  BY <1>2 DEF Loop!CallRegister, Loop!CallHeartbeat, Loop!Goto, Loop!Link!Send,
     Service!CallRegister, Service!CallHeartbeat, Service!Goto, Service!Link!Send,
     Service!WorkerStep, Service!Continue
<1>3. CASE Loop!Registered(w) \/ Loop!HeartbeatOk(w)
  BY <1>3 DEF Loop!Registered, Loop!HeartbeatOk, Loop!Goto, Loop!UnlessShutdown,
     Loop!Link!Received, Service!Registered, Service!HeartbeatOk, Service!Goto,
     Service!UnlessShutdown, Service!Link!Received, Service!WorkerStep,
     Service!Resume
<1>4. CASE Loop!RegisterFailed(w) \/ Loop!HeartbeatFailed(w)
  <2>1. /\ Loop!Link!Received(w, Loop!Link!Answer \ {"ok"})
           => Service!Link!Received(w, Service!Link!Answer \ {"ok"})
        /\ Loop!Link!TimedOut(w) => Service!Link!TimedOut(w)
    BY DEF Loop!Link!Received, Service!Link!Received, Loop!Link!Answer, Service!Link!Answer,
       Loop!Link!TimedOut, Service!Link!TimedOut, Loop!Link!Forsake, Service!Link!Forsake,
       Loop!Link!Orphan, Service!Link!Orphan
  <2>2. QED
    BY <1>4, <2>1 DEF Loop!RegisterFailed, Loop!HeartbeatFailed, Loop!Goto, Loop!UnlessShutdown,
       Service!RegisterFailed, Service!HeartbeatFailed, Service!Goto,
       Service!UnlessShutdown, Service!WorkerStep,
       Service!Resume
<1>5. QED
  BY <1>1, <1>2, <1>3, <1>4 DEF RunWorker, Loop!Continue, Loop!Resume

LEMMA WorkerServes ==
  ASSUME ServiceInv, NEW w \in Workers, RunWorker(w)
  PROVE  Service!WorkerMoves(w)
<1>1. Service!Observe(w)
  BY LoopServes, Parts, Service!StepCounts DEF ServiceInv, Service!Observe
<1>2. QED
  BY <1>1, LoopServes DEF Service!WorkerMoves, Service!Prompt

\* The registry and the network serve the agent as they serve the service.
LEMMA NetworkServes ==
  ASSUME HandleRequest \/ RegistryTrouble
  PROVE  Service!Handled \/ Service!Troubled
<1> USE DEF loopVars, Service!loopVars
<1>1. UNCHANGED <<Service!loopVars, shutdown>>
  BY DEF HandleRequest, RegistryTrouble
<1>2. CASE HandleRequest
  BY <1>1, <1>2 DEF HandleRequest, Service!Handled, Link!Handle, Link!Deliver, Link!AnswerTo,
     Link!Effect, Service!Link!Handle, Service!Link!Deliver, Service!Link!AnswerTo,
     Service!Link!Effect
<1>3. CASE RegistryTrouble
  <2>1. Link!Trouble
    BY <1>3 DEF RegistryTrouble
  <2>2. ASSUME NEW r \in wire, Link!Refuse(r) \/ Link!HandleUnanswered(r) \/ Link!HandleCopy(r)
                                \/ Link!AnswerCopy(r) \/ Link!LoseRequest(r)
        PROVE  Service!Link!Trouble
    BY <2>2 DEF Link!Refuse, Link!HandleUnanswered, Link!HandleCopy, Link!AnswerCopy,
       Link!LoseRequest, Link!Deliver, Link!AnswerTo, Link!Effect, Link!Orphan,
       Service!Link!Refuse, Service!Link!HandleUnanswered, Service!Link!HandleCopy,
       Service!Link!AnswerCopy, Service!Link!LoseRequest, Service!Link!Deliver,
       Service!Link!AnswerTo, Service!Link!Effect, Service!Link!Orphan, Service!Link!Trouble
  <2>3. Link!Forget => Service!Link!Trouble
    BY DEF Link!Forget, Service!Link!Forget, Service!Link!Trouble
  <2>4. Service!Link!Trouble
    BY <2>1, <2>2, <2>3 DEF Link!Trouble
  <2>5. QED
    BY <1>1, <2>4 DEF Service!Troubled
<1>4. QED
  BY <1>2, <1>3

\* Requests nobody waits for any more are requests still.
LEMMA ForsakeTyped ==
  ASSUME Service!Link!LinkTypeOK, NEW c \in Callers, Service!Link!Forsake(c), UNCHANGED registered
  PROVE  Service!Link!LinkTypeOK'
<1>1. \A r \in Service!Link!Request : Service!Link!Orphan(r, c) \in Service!Link!Request
  BY DEF Service!Link!Orphan, Service!Link!Request
<1>2. wire' \in SUBSET Service!Link!Request
  BY <1>1 DEF Service!Link!Forsake, Service!Link!LinkTypeOK
<1>3. QED
  BY <1>2 DEF Service!Link!Forsake, Service!Link!LinkTypeOK

LEMMA CancelServes ==
  ASSUME ServiceInv, NEW w \in Workers, CancelWorker(w)
  PROVE  ServiceInv'
<1>1. /\ Service!Goto(w, "stopped") /\ UNCHANGED <<retryDelay, failures, shutdown, registered>>
      /\ Service!Link!Forsake(w)
  BY DEF CancelWorker, Loop!DropLoop, Loop!Goto, Service!Goto, Loop!Link!Forsake,
     Loop!Link!Orphan, Service!Link!Forsake, Service!Link!Orphan
<1>2. w \in Callers
  BY DEF Callers
<1>3. Service!LoopInv'
  <2>1. "stopped" \in Service!PC
    BY DEF Service!PC
  <2>2. "stopped" \notin Service!Between
    BY DEF Service!Between
  <2>3. QED
    BY <1>1, <2>1, <2>2, Parts, Service!MoveKeeps DEF ServiceInv
<1>4. Service!Link!LinkTypeOK'
  BY <1>1, <1>2, ForsakeTyped DEF ServiceInv
<1>5. QED
  BY <1>3, <1>4 DEF ServiceInv

LEMMA DeregisterServes ==
  ASSUME ServiceInv, NEW d \in Deregisters, DeregisterMove(d)
  PROVE  ServiceInv'
<1>1. d \in Callers
  BY DEF Callers
<1>2. Service!LoopInv'
  BY DEF DeregisterMove, CallDeregister, EndDeregister, loopVars, ServiceInv, Service!LoopInv,
     Service!LoopTypeOK, Service!BudgetLeft, Service!Between
<1>3. CASE CallDeregister(d)
  <2>1. Service!Link!Send(d, "final") /\ "final" \in Service!Link!RequestKind
    BY <1>3, SameSend DEF CallDeregister, Service!Link!RequestKind
  <2>2. QED
    BY <1>1, <1>2, <2>1, Parts, Service!SendTyped
       DEF ServiceInv
<1>4. CASE EndDeregister(d)
  <2>1. (\E answers : Service!Link!Received(d, answers)) \/ Service!Link!TimedOut(d)
    BY <1>4, SameReceived, SameTimedOut DEF EndDeregister
  <2>2. Service!Link!LinkTypeOK'
    BY <1>1, <2>1, Parts, Service!ReceiveTyped, Service!TimeoutTyped DEF ServiceInv
  <2>3. QED
    BY <1>2, <2>2 DEF ServiceInv
<1>5. QED
  BY <1>3, <1>4 DEF DeregisterMove

LEMMA ServiceStep ==
  ASSUME KernelInv, ServiceInv, [Next]_vars
  PROVE  ServiceInv'
<1>1. ASSUME UNCHANGED <<loopVars, shutdown, linkVars>> PROVE ServiceInv'
  BY <1>1, ServiceMoves DEF Service!vars, loopVars, linkVars
<1>2. ASSUME NEW event \in LifecycleEvent, Transition(event) PROVE ServiceInv'
  <2>1. UNCHANGED <<loopVars, linkVars>>
    BY <1>2 DEF Transition
  <2>2. CASE hook' = "spawn_deregister"
    <3>1. current # 0
      BY <1>2, <2>2 DEF Transition, HookFor
    <3>2. WorkerOf(current) \in Workers
      BY <3>1, CurrentWorker DEF KernelInv, Mine
    <3>3. Service!SetShutdown(WorkerOf(current))
      BY <1>2, <2>1, <2>2 DEF Transition, Service!SetShutdown, loopVars, linkVars,
         Service!loopVars, Service!linkVars
    <3>4. QED
      BY <3>2, <3>3, ServiceMoves DEF Service!Next
  <2>3. CASE hook' # "spawn_deregister"
    BY <1>1, <1>2, <2>1, <2>3 DEF Transition
  <2>4. QED
    BY <2>2, <2>3
<1>3. ASSUME NEW w \in Workers, WorkerMove(w) PROVE ServiceInv'
  <2>1. CASE RunWorker(w)
    BY <2>1, WorkerServes, ServiceMoves DEF Service!Next
  <2>2. CASE EndWorker(w)
    BY <1>1, <2>2 DEF EndWorker
  <2>3. QED
    BY <1>3, <2>1, <2>2, CancelServes DEF WorkerMove
<1>4. CASE HandleRequest \/ RegistryTrouble
  BY <1>4, NetworkServes, ServiceMoves DEF Service!Next
<1>5. QED
  BY <1>1, <1>2, <1>3, <1>4, DeregisterServes
     DEF Next, vars, HookStep, SetRegistry, EnsureWorker, SpawnDeregister, AbortWorker,
         ScheduleMessage, CloseScheduler, PollTask, EndMessage

-----------------------------------------------------------------------------
AgentInv == KernelInv /\ OwnTypes /\ SchedulerInv /\ ServiceInv

LEMMA AgentStart == Init => AgentInv
<1> SUFFICES ASSUME Init PROVE AgentInv
  OBVIOUS
<1>1. OwnTypes
  <2>1. 0 \in 0..MaxDeregisters
    BY KernelAssumption
  <2>2. deregisters \in [Controllers -> 0..MaxDeregisters]
    BY <2>1 DEF Init
  <2>3. QED
    BY <2>2 DEF Init, OwnTypes
<1>2. SchedulerInv
  <2>1. Runtime!SchedInit
    BY DEF Init, Sched!SchedInit, Runtime!SchedInit
  <2>2. Runtime!TypeOK
    <3>1. task \in [Tasks -> Runtime!TaskState] /\ queue \in Seq(Tasks)
      BY <2>1 DEF Runtime!SchedInit, Runtime!TaskState
    <3>2. QED
      BY <2>1, <3>1, KernelAssumption DEF Runtime!SchedInit, Runtime!TypeOK
  <2>3. Runtime!Running = {}
    BY <2>1 DEF Runtime!SchedInit, Runtime!Running, Runtime!InState
  <2>4. Cardinality({}) = 0 /\ Runtime!Cardinality({}) = Cardinality({})
    BY FS_EmptySet DEF Runtime!Cardinality, Cardinality
  <2>5. Runtime!PermitsConserved
    BY <2>1, <2>3, <2>4, KernelAssumption DEF Runtime!SchedInit, Runtime!PermitsConserved
  <2>6. Runtime!InState("waiting") = {} /\ Len(queue) = 0
    BY <2>1 DEF Runtime!SchedInit, Runtime!InState
  <2>7. Runtime!QueueMatchesWaiters
    BY <2>6 DEF Runtime!QueueMatchesWaiters
  <2>8. QED
    BY <2>2, <2>5, <2>7 DEF SchedulerInv
<1>3. ServiceInv
  <2>1. Service!Init
    BY DEF Init, Loop!LoopInit, Link!LinkInit, Service!Init, Service!LoopInit, Service!Link!LinkInit
  <2>2. Service!LoopInv
    BY <2>1, Parts, Service!InitLoops
  <2>3. Service!Link!LinkTypeOK
    BY <2>1 DEF Service!Init, Service!Link!LinkInit, Service!Link!LinkTypeOK, Service!Link!Answer
  <2>4. QED
    BY <2>2, <2>3 DEF ServiceInv
<1>4. QED
  BY <1>1, <1>2, <1>3, InitInv DEF AgentInv

THEOREM AgentInvariant == Spec => []AgentInv
<1>1. AgentInv /\ [Next]_vars => AgentInv'
  <2> SUFFICES ASSUME AgentInv, [Next]_vars PROVE AgentInv'
    OBVIOUS
  <2>1. KernelInv'
    BY InvStep DEF AgentInv
  <2>2. QED
    BY <2>1, OwnStep, SchedulerStep, ServiceStep DEF AgentInv
<1>2. QED
  BY <1>1, AgentStart, PTL DEF Spec

(* Every part of the agent keeps its type while they share one scheduler   *)
(* and one link: counters stay within their bounds, the retry delay within *)
(* its configured range and the failures within the threshold.             *)
THEOREM TypeCorrect == Spec => []TypeOK
<1>1. AgentInv => TypeOK
  BY SameTypes DEF AgentInv, KernelInv, KernelTypes, HookInv, OwnTypes, SchedulerInv, ServiceInv,
     TypeOK, Service!LoopInv
<1>2. QED
  BY <1>1, AgentInvariant, PTL

(* The permits of the agent's scheduler survive the aborts and retirements *)
(* of registry.rs:       free permits and running tasks, loops, deregister   *)
(* tasks and messages alike, add up to max_concurrency.                    *)
THEOREM PermitsKept == Spec => []Sched!PermitsConserved
<1>1. Runtime!Running = Sched!Running
  BY DEF Runtime!Running, Sched!Running, Runtime!InState, Sched!InState
<1>2. Runtime!PermitsConserved <=> Sched!PermitsConserved
  BY <1>1 DEF Runtime!PermitsConserved, Sched!PermitsConserved, Runtime!Cardinality, Sched!Cardinality
<1>3. AgentInv => Sched!PermitsConserved
  BY <1>2 DEF AgentInv, SchedulerInv
<1>4. QED
  BY <1>3, AgentInvariant, PTL

(* The semaphore of an agent hands out its permits in turn: every task     *)
(* that waits is in its queue once, and nothing else is, though retirement  *)
(* and replacement abort waiting loops.                                    *)
THEOREM QueueKept == Spec => []Sched!QueueMatchesWaiters
<1>1. Runtime!QueueMatchesWaiters <=> Sched!QueueMatchesWaiters
  BY DEF Runtime!QueueMatchesWaiters, Sched!QueueMatchesWaiters, Runtime!InState, Sched!InState
<1>2. AgentInv => Sched!QueueMatchesWaiters
  BY <1>1 DEF AgentInv, SchedulerInv
<1>3. QED
  BY <1>2, AgentInvariant, PTL

(* Once an agent's scheduler is closed, no loop, deregistration or message *)
(* starts to run, whatever a hook that is still under way submits.         *)
THEOREM NoStartInClosedAgent == Spec => Sched!ClosedStartsNothing
<1>1. AgentInv /\ [Next]_vars
        => [semClosed => \A t \in Tasks : task'[t] = "running" => task[t] = "running"]_(Sched!schedVars)
  <2> SUFFICES ASSUME AgentInv, [Next]_vars, semClosed, ~ UNCHANGED Sched!schedVars,
                      NEW t \in Tasks, task'[t] = "running"
               PROVE  task[t] = "running"
    OBVIOUS
  <2>1. CASE [Runtime!Next]_(Runtime!schedVars)
    <3>1. Runtime!TypeOK
      BY DEF AgentInv, SchedulerInv
    <3>2. [semClosed => \A u \in Tasks : task'[u] = "running" => task[u] = "running"]_(Runtime!schedVars)
      BY <2>1, <3>1, Parts, Runtime!StartStep
    <3>3. ~ UNCHANGED Runtime!schedVars
      BY DEF Runtime!schedVars, Sched!schedVars
    <3>4. QED
      BY <3>2, <3>3
  <2>2. ASSUME NEW u \in Tasks, Runtime!Submit(u) PROVE task[t] = "running"
    BY <2>2 DEF Runtime!Submit, Runtime!Move, AgentInv, SchedulerInv, Runtime!TypeOK
  <2>3. QED
    BY <2>1, <2>2, SchedulerMoves DEF AgentInv
<1>2. QED
  BY <1>1, AgentInvariant, PTL DEF Spec, Sched!ClosedStartsNothing

(* Every background loop an agent ever runs, the replaced ones too, calls  *)
(* register again with the failure that reaches the threshold and with no  *)
(* other step, whatever hooks, aborts and deregistrations come between.    *)
THEOREM LoopsKeepBudget ==
  Spec => [][\A w \in Workers :
               pc[w] \in {"tick", "beat", "beating"} =>
                 (pc'[w] = "top" <=> failures[w] < MaxConsecutiveFailures
                                     /\ failures'[w] = MaxConsecutiveFailures)]_vars
<1>1. AgentInv /\ [Next]_vars => Service!BudgetStep
  <2> SUFFICES ASSUME AgentInv, [Next]_vars PROVE Service!BudgetStep
    OBVIOUS
  <2>1. Service!LoopInv
    BY DEF AgentInv, ServiceInv
  <2>2. \A w \in Workers : failures[w] \in Nat
    BY <2>1, KernelAssumption DEF Service!LoopInv, Service!LoopTypeOK
  <2>3. MaxConsecutiveFailures \in Nat
    BY KernelAssumption
  <2>4. CASE UNCHANGED <<pc, failures>>
    BY <2>2, <2>3, <2>4 DEF Service!BudgetStep, Service!Between
  <2>5. ASSUME NEW w \in Workers, RunWorker(w) PROVE Service!BudgetStep
    BY <2>1, <2>5, Parts, WorkerServes, Service!MoveInBudget
       DEF AgentInv, Service!WorkerMoves
  <2>6. ASSUME NEW w \in Workers, CancelWorker(w) PROVE Service!BudgetStep
    <3>1. pc' = [pc EXCEPT ![w] = "stopped"] /\ failures' = failures
      BY <2>6 DEF CancelWorker, Loop!DropLoop, Loop!Goto
    <3>2. pc \in [Workers -> Service!PC]
      BY <2>1 DEF Service!LoopInv, Service!LoopTypeOK
    <3>3. QED
      BY <2>2, <2>3, <3>1, <3>2 DEF Service!BudgetStep, Service!Between
  <2>7. QED
    BY <2>4, <2>5, <2>6
       DEF Next, vars, loopVars, HookStep, SetRegistry, Transition, EnsureWorker, SpawnDeregister,
           AbortWorker, ScheduleMessage, CloseScheduler, PollTask, WorkerMove, EndWorker,
           DeregisterMove, CallDeregister, EndDeregister, EndMessage, HandleRequest, RegistryTrouble
<1>2. AgentInv /\ [Next]_vars =>
        [\A w \in Workers :
           pc[w] \in {"tick", "beat", "beating"} =>
             (pc'[w] = "top" <=> failures[w] < MaxConsecutiveFailures
                                 /\ failures'[w] = MaxConsecutiveFailures)]_vars
  BY <1>1 DEF Service!BudgetStep, Service!Between
<1>3. QED
  BY <1>2, AgentInvariant, PTL DEF Spec

LEMMA SamePool ==
  /\ Runtime!Pool!PoolInit => Sched!Pool!PoolInit
  /\ [Runtime!Pool!PoolNext]_(Runtime!Pool!poolVars) => [Sched!Pool!PoolNext]_(Sched!Pool!poolVars)
<1> USE DEF Runtime!InState, Sched!InState, Runtime!Running, Sched!Running
<1>1. Runtime!Pool!PoolInit => Sched!Pool!PoolInit
  BY DEF Runtime!Pool!PoolInit, Sched!Pool!PoolInit
<1>2. UNCHANGED Runtime!Pool!poolVars => UNCHANGED Sched!Pool!poolVars
  BY DEF Runtime!Pool!poolVars, Sched!Pool!poolVars
<1>3. ASSUME NEW t \in Tasks PROVE /\ Runtime!Pool!Admit(t) => Sched!Pool!Admit(t)
                                   /\ Runtime!Pool!Start(t) => Sched!Pool!Start(t)
                                   /\ Runtime!Pool!Leave(t) => Sched!Pool!Leave(t)
  BY DEF Runtime!Pool!Admit, Sched!Pool!Admit, Runtime!Pool!Start, Sched!Pool!Start,
         Runtime!Pool!Leave, Sched!Pool!Leave, Runtime!Pool!Cardinality, Sched!Pool!Cardinality
<1>4. Runtime!Pool!Stop => Sched!Pool!Stop
  BY DEF Runtime!Pool!Stop, Sched!Pool!Stop
<1>5. Runtime!Pool!PoolNext => Sched!Pool!PoolNext
  BY <1>3, <1>4 DEF Runtime!Pool!PoolNext, Sched!Pool!PoolNext
<1>6. QED
  BY <1>1, <1>2, <1>5

(* What the tasks of an agent rely on: whatever hooks, aborts and closes   *)
(* come together, its scheduler is a bounded pool.                         *)
THEOREM AgentIsPool == Spec => Sched!ImplementsPool
<1>1. Init => Sched!Pool!PoolInit
  <2>1. Init => Runtime!Pool!PoolInit
    BY DEF Init, Sched!SchedInit, Runtime!Pool!PoolInit, Runtime!InState, Runtime!Running
  <2>2. QED
    BY <2>1, SamePool
<1>2. AgentInv /\ [Next]_vars => [Sched!Pool!PoolNext]_(Sched!Pool!poolVars)
  <2> SUFFICES ASSUME AgentInv, [Next]_vars
               PROVE  [Runtime!Pool!PoolNext]_(Runtime!Pool!poolVars)
    BY SamePool
  <2>1. CASE [Runtime!Next]_(Runtime!schedVars)
    BY <2>1, Parts, Runtime!PoolStep DEF AgentInv, SchedulerInv
  <2>2. ASSUME NEW t \in Tasks, Runtime!Submit(t) PROVE Runtime!Pool!Admit(t)
    BY <2>2 DEF Runtime!Submit, Runtime!Move, Runtime!Pool!Admit, Runtime!InState,
       Runtime!Running, AgentInv, SchedulerInv, Runtime!TypeOK
  <2>3. QED
    BY <2>1, <2>2, SchedulerMoves DEF AgentInv, Runtime!Pool!PoolNext
<1>3. QED
  BY <1>1, <1>2, AgentInvariant, PTL DEF Spec, Sched!ImplementsPool, Sched!Pool!PoolSpec
=============================================================================
