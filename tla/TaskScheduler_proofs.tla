------------------------ MODULE TaskScheduler_proofs ------------------------
(***************************************************************************)
(* Proofs about TaskScheduler for every finite set of tasks and every      *)
(* positive concurrency limit: types, permit conservation, no start after  *)
(* close(), and the refinement of BoundedPool.                             *)
(***************************************************************************)
EXTENDS TaskScheduler, FiniteSetTheorems, SequenceTheorems, TLAPS

-----------------------------------------------------------------------------
(* Removing one position of a sequence gives a sequence over the same set. *)
LEMMA WithoutIndexType ==
  ASSUME NEW S, NEW s \in Seq(S), NEW i \in 1..Len(s)
  PROVE  WithoutIndex(s, i) \in Seq(S)
<1>1. SubSeq(s, 1, i - 1) \in Seq(S)
  BY SubSeqProperties, LenProperties
<1>2. SubSeq(s, i + 1, Len(s)) \in Seq(S)
  BY SubSeqProperties, LenProperties
<1>3. QED
  BY <1>1, <1>2, ConcatProperties DEF WithoutIndex

(* Every action keeps the variables within their types. *)
LEMMA TypeStep == TypeOK /\ [Next]_schedVars => TypeOK'
<1> SUFFICES ASSUME TypeOK, [Next]_schedVars PROVE TypeOK'
  OBVIOUS
<1> USE SchedulerAssumption DEF TypeOK
<1>1. ASSUME NEW t \in Tasks, NEW from \in TaskState, NEW to \in TaskState,
             Move(t, from, to)
      PROVE  task' \in [Tasks -> TaskState]
  BY <1>1 DEF Move
<1>2. CASE \E t \in Tasks : SpawnCheck(t) \/ SpawnTask(t)
  BY <1>1, <1>2 DEF SpawnCheck, SpawnTask, TaskState
<1>3. ASSUME NEW t \in Tasks, Poll(t) PROVE TypeOK'
  <2>1. CASE AcquireNow(t)
    BY <1>1, <2>1 DEF AcquireNow, TaskState
  <2>2. CASE JoinQueue(t)
    BY <1>1, <2>2, AppendProperties DEF JoinQueue, TaskState
  <2>3. CASE Grant(t)
    BY <1>1, <2>3, HeadTailProperties DEF Grant, TaskState
  <2>4. CASE PanicUnstarted(t) \/ CancelUnstarted(t)
    BY <1>1, <2>4 DEF PanicUnstarted, CancelUnstarted, TaskState
  <2>5. CASE PanicWaiting(t) \/ CancelWaiting(t)
    <3>1. task' \in [Tasks -> TaskState]
      BY <1>1, <2>5 DEF PanicWaiting, CancelWaiting, TaskState
    <3>2. queue' \in Seq(Tasks)
      BY <2>5, WithoutIndexType DEF PanicWaiting, CancelWaiting
    <3>3. QED
      BY <2>5, <3>1, <3>2 DEF PanicWaiting, CancelWaiting
  <2>6. QED
    BY <1>3, <2>1, <2>2, <2>3, <2>4, <2>5 DEF Poll
<1>4. CASE \E t \in Tasks : Finish(t) \/ CancelRunning(t)
  BY <1>1, <1>4 DEF Finish, CancelRunning, TaskState
<1>5. CASE \E t \in Tasks : Abort(t)
  BY <1>5 DEF Abort
<1>6. CASE CloseFlag \/ CloseSemaphore
  BY <1>6 DEF CloseFlag, CloseSemaphore
<1>7. CASE UNCHANGED schedVars
  BY <1>7 DEF schedVars
<1>8. QED
  BY <1>2, <1>3, <1>4, <1>5, <1>6, <1>7 DEF Next

(* The variables keep their types in every reachable state. *)
THEOREM TypeCorrect == Spec => []TypeOK
<1>1. SchedInit => TypeOK
  BY SchedulerAssumption, EmptySeq DEF SchedInit, TypeOK, TaskState
<1>2. QED
  BY <1>1, TypeStep, PTL DEF Spec

-----------------------------------------------------------------------------
LEMMA RunningFinite == IsFiniteSet(Running)
  BY SchedulerAssumption, FS_Subset DEF Running, InState

(* A task that enters "running" adds one running body, ... *)
LEMMA StartCount ==
  ASSUME TypeOK, NEW t \in Tasks, NEW from \in TaskState \ {"running"},
         Move(t, from, "running")
  PROVE  Cardinality(Running') = Cardinality(Running) + 1
<1>1. Running' = Running \cup {t} /\ t \notin Running
  BY DEF TypeOK, Move, Running, InState
<1>2. QED
  BY <1>1, RunningFinite, FS_AddElement

(* ... one that leaves it removes one, ... *)
LEMMA StopCount ==
  ASSUME TypeOK, NEW t \in Tasks, NEW to \in TaskState \ {"running"},
         Move(t, "running", to)
  PROVE  Cardinality(Running') = Cardinality(Running) - 1
<1>1. Running' = Running \ {t} /\ t \in Running
  BY DEF TypeOK, Move, Running, InState
<1>2. QED
  BY <1>1, RunningFinite, FS_RemoveElement

(* ... and any other move leaves the running bodies alone. *)
LEMMA OtherMove ==
  ASSUME TypeOK, NEW t \in Tasks, NEW from \in TaskState \ {"running"},
         NEW to \in TaskState \ {"running"}, Move(t, from, to)
  PROVE  Running' = Running
  BY DEF TypeOK, Move, Running, InState

LEMMA PermitStep ==
  TypeOK /\ PermitsConserved /\ [Next]_schedVars => PermitsConserved'
<1> SUFFICES ASSUME TypeOK, PermitsConserved, [Next]_schedVars
             PROVE  PermitsConserved'
  OBVIOUS
<1>0. Cardinality(Running) \in Nat /\ permits \in Nat
  BY RunningFinite, FS_CardinalityType DEF TypeOK
<1>1. ASSUME Running' = Running, permits' = permits PROVE PermitsConserved'
  BY <1>1 DEF PermitsConserved
<1>2. ASSUME NEW t \in Tasks, AcquireNow(t) \/ Grant(t) PROVE PermitsConserved'
  <2>1. Cardinality(Running') = Cardinality(Running) + 1
    BY <1>2, StartCount DEF AcquireNow, Grant, TaskState
  <2>2. permits' = permits - 1
    BY <1>2 DEF AcquireNow, Grant
  <2>3. QED
    BY <1>0, <2>1, <2>2, SchedulerAssumption DEF PermitsConserved
<1>3. ASSUME NEW t \in Tasks, Finish(t) \/ CancelRunning(t) PROVE PermitsConserved'
  <2>1. Cardinality(Running') = Cardinality(Running) - 1
    BY <1>3, StopCount DEF Finish, CancelRunning, TaskState
  <2>2. permits' = permits + 1
    BY <1>3 DEF Finish, CancelRunning
  <2>3. QED
    BY <1>0, <2>1, <2>2, SchedulerAssumption DEF PermitsConserved
<1>4. ASSUME NEW t \in Tasks,
             \/ SpawnCheck(t) \/ SpawnTask(t) \/ JoinQueue(t) \/ PanicUnstarted(t)
             \/ PanicWaiting(t) \/ CancelUnstarted(t) \/ CancelWaiting(t)
      PROVE  PermitsConserved'
  <2>1. Running' = Running
    BY <1>4, OtherMove DEF SpawnCheck, SpawnTask, JoinQueue, PanicUnstarted,
       PanicWaiting, CancelUnstarted, CancelWaiting, TaskState
  <2>2. permits' = permits
    BY <1>4 DEF SpawnCheck, SpawnTask, JoinQueue, PanicUnstarted,
       PanicWaiting, CancelUnstarted, CancelWaiting
  <2>3. QED
    BY <1>1, <2>1, <2>2
<1>5. ASSUME (\E t \in Tasks : Abort(t)) \/ CloseFlag \/ CloseSemaphore \/ UNCHANGED schedVars
      PROVE  PermitsConserved'
  <2>1. task' = task /\ permits' = permits
    BY <1>5 DEF Abort, CloseFlag, CloseSemaphore, schedVars
  <2>2. QED
    BY <1>1, <2>1 DEF Running, InState
<1>6. QED
  BY <1>2, <1>3, <1>4, <1>5 DEF Next, Poll

(* Permits are never lost or returned twice: free permits and running      *)
(* bodies add up to max_concurrency, for any limit and any task set.       *)
THEOREM PermitConservation == Spec => []PermitsConserved
<1>1. SchedInit => PermitsConserved
  <2> SUFFICES ASSUME SchedInit PROVE PermitsConserved
    OBVIOUS
  <2>1. Running = {}
    BY DEF SchedInit, Running, InState
  <2>2. QED
    BY <2>1, FS_EmptySet, SchedulerAssumption DEF SchedInit, PermitsConserved
<1>2. QED
  BY <1>1, TypeCorrect, PermitStep, PTL DEF Spec

(* Never more than max_concurrency bodies execute at the same time. *)
THEOREM ConcurrencyBound == Spec => [](Cardinality(Running) <= MaxConcurrency)
<1>1. TypeOK /\ PermitsConserved => Cardinality(Running) <= MaxConcurrency
  BY RunningFinite, FS_CardinalityType, SchedulerAssumption DEF TypeOK, PermitsConserved
<1>2. QED
  BY <1>1, TypeCorrect, PermitConservation, PTL

-----------------------------------------------------------------------------
(* The steps that start a body test the semaphore. *)
LEMMA StartStep ==
  TypeOK /\ [Next]_schedVars
    => [semClosed => \A t \in Tasks : task'[t] = "running" => task[t] = "running"]_schedVars
<1> SUFFICES ASSUME TypeOK, semClosed, Next, NEW t \in Tasks, task'[t] = "running"
             PROVE  task[t] = "running"
  OBVIOUS
<1>1. ASSUME NEW u \in Tasks, NEW from \in TaskState, NEW to \in TaskState \ {"running"},
             Move(u, from, to)
      PROVE  task[t] = "running"
  BY <1>1 DEF Move, TypeOK
<1>2. ASSUME NEW u \in Tasks, SpawnCheck(u) \/ SpawnTask(u) PROVE task[t] = "running"
  BY <1>1, <1>2 DEF SpawnCheck, SpawnTask, TaskState
<1>3. ASSUME NEW u \in Tasks, Poll(u) PROVE task[t] = "running"
  BY <1>1, <1>3 DEF Poll, AcquireNow, JoinQueue, Grant, PanicUnstarted, PanicWaiting,
     CancelUnstarted, CancelWaiting, TaskState
<1>4. ASSUME NEW u \in Tasks, Finish(u) \/ CancelRunning(u) PROVE task[t] = "running"
  BY <1>1, <1>4 DEF Finish, CancelRunning, TaskState
<1>5. CASE (\E u \in Tasks : Abort(u)) \/ CloseFlag \/ CloseSemaphore
  BY <1>5 DEF Abort, CloseFlag, CloseSemaphore
<1>6. QED
  BY <1>2, <1>3, <1>4, <1>5 DEF Next

(* Once close() has returned no body starts: TaskScheduler's               *)
(* ClosedStartsNothing holds for any number of tasks and closers.          *)
THEOREM NoStartAfterClose == Spec => ClosedStartsNothing
  BY StartStep, TypeCorrect, PTL DEF Spec, ClosedStartsNothing

-----------------------------------------------------------------------------
(* The elements left when position i of a sequence without repetitions is  *)
(* removed: all but s[i], still without repetitions.                       *)
LEMMA WithoutIndexElements ==
  ASSUME NEW S, NEW s \in Seq(S), NEW i \in 1..Len(s),
         \A j, k \in 1..Len(s) : s[j] = s[k] => j = k
  PROVE  LET w == WithoutIndex(s, i)
         IN  /\ {w[j] : j \in 1..Len(w)} = {s[j] : j \in 1..Len(s)} \ {s[i]}
             /\ \A j, k \in 1..Len(w) : w[j] = w[k] => j = k
<1> DEFINE a == SubSeq(s, 1, i - 1)
           b == SubSeq(s, i + 1, Len(s))
           w == WithoutIndex(s, i)
<1>0. Len(s) \in Nat /\ s \in [1..Len(s) -> S]
  BY LenProperties
<1>1. /\ a \in Seq(S) /\ Len(a) = i - 1
      /\ \A j \in 1..(i - 1) : a[j] = s[j]
  <2>1. \A j \in 1..(i - 1) : s[j] \in S /\ 1 + j - 1 = j
    BY <1>0
  <2>2. /\ a \in Seq(S)
        /\ Len(a) = IF 1 <= i - 1 THEN i - 1 - 1 + 1 ELSE 0
        /\ \A j \in 1..(i - 1 - 1 + 1) : a[j] = s[1 + j - 1]
    BY <1>0, <2>1, SubSeqProperties
  <2>3. QED
    BY <1>0, <2>1, <2>2
<1>2. /\ b \in Seq(S) /\ Len(b) = Len(s) - i
      /\ \A j \in 1..(Len(s) - i) : b[j] = s[i + j]
  <2>1. \A j \in (i + 1)..Len(s) : s[j] \in S
    BY <1>0
  <2>2. /\ b \in Seq(S)
        /\ Len(b) = IF i + 1 <= Len(s) THEN Len(s) - (i + 1) + 1 ELSE 0
        /\ \A j \in 1..(Len(s) - (i + 1) + 1) : b[j] = s[i + 1 + j - 1]
    BY <1>0, <2>1, SubSeqProperties
  <2>3. \A j \in 1..(Len(s) - i) : i + 1 + j - 1 = i + j
    BY <1>0
  <2>4. QED
    BY <1>0, <2>2, <2>3
<1>c. w = a \o b
  BY DEF WithoutIndex
<1> HIDE DEF w, a, b
<1>3. /\ Len(w) = Len(s) - 1
      /\ \A j \in 1..(Len(s) - 1) : w[j] = IF j < i THEN s[j] ELSE s[j + 1]
  <2>1. /\ Len(w) = Len(a) + Len(b)
        /\ \A j \in 1..(Len(a) + Len(b)) :
             w[j] = IF j <= Len(a) THEN a[j] ELSE b[j - Len(a)]
    <3>1. /\ Len(a \o b) = Len(a) + Len(b)
          /\ \A j \in 1..(Len(a) + Len(b)) :
               (a \o b)[j] = IF j <= Len(a) THEN a[j] ELSE b[j - Len(a)]
      <4>1. a \in Seq(S) /\ b \in Seq(S)
        BY <1>1, <1>2
      <4>2. QED
        BY <4>1, ConcatProperties
    <3>2. QED
      BY <1>c, <3>1
  <2>2. Len(a) + Len(b) = Len(s) - 1
    BY <1>0, <1>1, <1>2
  <2>3. ASSUME NEW j \in 1..(Len(s) - 1)
        PROVE  w[j] = IF j < i THEN s[j] ELSE s[j + 1]
    <3>1. w[j] = IF j <= i - 1 THEN a[j] ELSE b[j - (i - 1)]
      BY <1>1, <2>1, <2>2
    <3>2. CASE j < i
      <4>1. j \in 1..(i - 1)
        BY <1>0, <3>2
      <4>2. QED
        BY <1>1, <3>1, <3>2, <4>1
    <3>3. CASE ~(j < i)
      <4>1. /\ j - (i - 1) \in 1..(Len(s) - i)
            /\ i + (j - (i - 1)) = j + 1
            /\ ~(j <= i - 1)
        BY <1>0, <3>3
      <4>2. b[j - (i - 1)] = s[j + 1]
        BY <1>2, <4>1
      <4>3. QED
        BY <3>1, <3>3, <4>1, <4>2
    <3>4. QED
      BY <3>2, <3>3
  <2>4. QED
    BY <2>1, <2>2, <2>3
<1>4. {w[j] : j \in 1..Len(w)} \subseteq {s[j] : j \in 1..Len(s)} \ {s[i]}
  <2> SUFFICES ASSUME NEW j \in 1..(Len(s) - 1)
               PROVE  \E k \in 1..Len(s) : k # i /\ w[j] = s[k]
    BY <1>0, <1>3
  <2>1. CASE j < i
    BY <1>0, <1>3, <2>1
  <2>2. CASE ~(j < i)
    <3>1. j + 1 \in 1..Len(s) /\ j + 1 # i
      BY <1>0, <2>2
    <3>2. QED
      BY <1>3, <2>2, <3>1
  <2>3. QED
    BY <2>1, <2>2
<1>5. {s[j] : j \in 1..Len(s)} \ {s[i]} \subseteq {w[j] : j \in 1..Len(w)}
  <2> SUFFICES ASSUME NEW k \in 1..Len(s), s[k] # s[i]
               PROVE  \E j \in 1..(Len(s) - 1) : w[j] = s[k]
    BY <1>3
  <2>1. CASE k < i
    <3>1. k \in 1..(Len(s) - 1)
      BY <1>0, <2>1
    <3>2. QED
      BY <1>3, <2>1, <3>1
  <2>2. CASE k > i
    <3>1. k - 1 \in 1..(Len(s) - 1) /\ ~(k - 1 < i) /\ (k - 1) + 1 = k
      BY <1>0, <2>2
    <3>2. w[k - 1] = s[k]
      BY <1>3, <3>1
    <3>3. QED
      BY <3>1, <3>2
  <2>3. k # i
    OBVIOUS
  <2>4. QED
    BY <1>0, <2>1, <2>2, <2>3
<1>6. ASSUME NEW j \in 1..(Len(s) - 1), NEW k \in 1..(Len(s) - 1), w[j] = w[k]
      PROVE  j = k
  <2> DEFINE up(n) == IF n < i THEN n ELSE n + 1
  <2>1. w[j] = s[up(j)] /\ w[k] = s[up(k)]
    BY <1>3
  <2>2. up(j) \in 1..Len(s) /\ up(k) \in 1..Len(s)
    BY <1>0
  <2>3. up(j) = up(k)
    BY <1>6, <2>1, <2>2
  <2>4. QED
    BY <1>0, <2>3
<1>7. QED
  BY <1>3, <1>4, <1>5, <1>6 DEF w

LEMMA QueueStep ==
  TypeOK /\ QueueMatchesWaiters /\ [Next]_schedVars => QueueMatchesWaiters'
<1> SUFFICES ASSUME TypeOK, QueueMatchesWaiters, [Next]_schedVars
             PROVE  QueueMatchesWaiters'
  OBVIOUS
<1>0. /\ queue \in Seq(Tasks) /\ Len(queue) \in Nat
      /\ {queue[i] : i \in 1..Len(queue)} = InState("waiting")
      /\ \A i, j \in 1..Len(queue) : queue[i] = queue[j] => i = j
  BY LenProperties DEF TypeOK, QueueMatchesWaiters
<1>1. ASSUME queue' = queue, InState("waiting")' = InState("waiting")
      PROVE  QueueMatchesWaiters'
  BY <1>0, <1>1 DEF QueueMatchesWaiters
<1>2. ASSUME NEW t \in Tasks, NEW from \in TaskState \ {"waiting"},
             NEW to \in TaskState \ {"waiting"}, Move(t, from, to), queue' = queue
      PROVE  QueueMatchesWaiters'
  <2>1. InState("waiting")' = InState("waiting")
    BY <1>2 DEF TypeOK, Move, InState
  <2>2. QED
    BY <1>1, <1>2, <2>1
<1>3. ASSUME NEW t \in Tasks, JoinQueue(t) PROVE QueueMatchesWaiters'
  <2>1. InState("waiting")' = InState("waiting") \cup {t} /\ t \notin InState("waiting")
    BY <1>3 DEF JoinQueue, TypeOK, Move, InState
  <2>2. /\ Len(queue') = Len(queue) + 1
        /\ queue'[Len(queue) + 1] = t
        /\ \A i \in 1..Len(queue) : queue'[i] = queue[i]
    BY <1>0, <1>3, AppendProperties DEF JoinQueue
  <2>3. \A i \in 1..Len(queue) : queue[i] # t
    BY <1>0, <2>1
  <2>4. {queue'[i] : i \in 1..Len(queue')} = {queue[i] : i \in 1..Len(queue)} \cup {t}
    BY <1>0, <2>2
  <2>5. \A i, j \in 1..Len(queue') : queue'[i] = queue'[j] => i = j
    <3> SUFFICES ASSUME NEW i \in 1..(Len(queue) + 1), NEW j \in 1..(Len(queue) + 1),
                        queue'[i] = queue'[j]
                 PROVE  i = j
      BY <2>2
    <3>1. CASE i = Len(queue) + 1
      BY <1>0, <2>2, <2>3, <3>1
    <3>2. CASE j = Len(queue) + 1
      BY <1>0, <2>2, <2>3, <3>2
    <3>3. CASE i # Len(queue) + 1 /\ j # Len(queue) + 1
      BY <1>0, <2>2, <3>3
    <3>4. QED
      BY <3>1, <3>2, <3>3
  <2>6. QED
    BY <1>0, <2>1, <2>4, <2>5 DEF QueueMatchesWaiters
<1>4. ASSUME NEW t \in Tasks, NEW i \in 1..Len(queue), NEW to \in TaskState \ {"waiting"},
             queue[i] = t, queue' = WithoutIndex(queue, i), Move(t, "waiting", to)
      PROVE  QueueMatchesWaiters'
  <2>1. InState("waiting")' = InState("waiting") \ {t}
    BY <1>4 DEF TypeOK, Move, InState
  <2>2. /\ {queue'[j] : j \in 1..Len(queue')} = {queue[j] : j \in 1..Len(queue)} \ {queue[i]}
        /\ \A j, k \in 1..Len(queue') : queue'[j] = queue'[k] => j = k
    BY <1>0, <1>4, WithoutIndexElements
  <2>3. QED
    BY <1>0, <1>4, <2>1, <2>2 DEF QueueMatchesWaiters
<1>5. ASSUME NEW t \in Tasks, Grant(t) PROVE QueueMatchesWaiters'
  <2>1. queue # <<>> /\ t = Head(queue) /\ queue' = Tail(queue) /\ Move(t, "waiting", "running")
    BY <1>5 DEF Grant
  <2>2. 1 \in 1..Len(queue) /\ queue[1] = t
    BY <1>0, <2>1, EmptySeq
  <2>3. /\ Len(queue') = Len(queue) - 1
        /\ \A i \in 1..(Len(queue) - 1) : queue'[i] = queue[i + 1]
    BY <1>0, <2>1, HeadTailProperties
  <2>4. InState("waiting")' = InState("waiting") \ {t}
    BY <2>1 DEF TypeOK, Move, InState
  <2>5. {queue'[i] : i \in 1..Len(queue')} = {queue[i] : i \in 1..Len(queue)} \ {t}
    <3>1. ASSUME NEW i \in 1..(Len(queue) - 1) PROVE i + 1 \in 1..Len(queue) /\ queue[i + 1] # t
      BY <1>0, <2>2
    <3>2. ASSUME NEW k \in 1..Len(queue), queue[k] # t
          PROVE  \E i \in 1..(Len(queue) - 1) : queue'[i] = queue[k]
      <4>1. k - 1 \in 1..(Len(queue) - 1) /\ (k - 1) + 1 = k
        BY <1>0, <2>2, <3>2
      <4>2. QED
        BY <2>3, <4>1
    <3>3. ASSUME NEW i \in 1..(Len(queue) - 1)
          PROVE  \E k \in 1..Len(queue) : queue[k] # t /\ queue'[i] = queue[k]
      BY <2>3, <3>1
    <3>4. Len(queue') = Len(queue) - 1
      BY <2>3
    <3>5. {queue'[i] : i \in 1..Len(queue')} \subseteq {queue[i] : i \in 1..Len(queue)} \ {t}
      BY <3>3, <3>4
    <3>6. {queue[i] : i \in 1..Len(queue)} \ {t} \subseteq {queue'[i] : i \in 1..Len(queue')}
      BY <3>2, <3>4
    <3>7. QED
      BY <3>5, <3>6
  <2>6. \A i, j \in 1..Len(queue') : queue'[i] = queue'[j] => i = j
    BY <1>0, <2>3
  <2>7. QED
    BY <1>0, <2>4, <2>5, <2>6 DEF QueueMatchesWaiters
<1>6. ASSUME NEW t \in Tasks, Poll(t) PROVE QueueMatchesWaiters'
  <2>1. CASE PanicWaiting(t) \/ CancelWaiting(t)
    BY <1>4, <2>1 DEF PanicWaiting, CancelWaiting, TaskState
  <2>2. CASE AcquireNow(t) \/ PanicUnstarted(t) \/ CancelUnstarted(t)
    BY <1>2, <2>2 DEF AcquireNow, PanicUnstarted, CancelUnstarted, TaskState
  <2>3. QED
    BY <1>3, <1>5, <1>6, <2>1, <2>2 DEF Poll
<1>7. ASSUME NEW t \in Tasks,
             SpawnCheck(t) \/ SpawnTask(t) \/ Finish(t) \/ CancelRunning(t)
      PROVE  QueueMatchesWaiters'
  BY <1>2, <1>7 DEF SpawnCheck, SpawnTask, Finish, CancelRunning, TaskState
<1>8. ASSUME (\E t \in Tasks : Abort(t)) \/ CloseFlag \/ CloseSemaphore \/ UNCHANGED schedVars
      PROVE  QueueMatchesWaiters'
  <2>1. task' = task /\ queue' = queue
    BY <1>8 DEF Abort, CloseFlag, CloseSemaphore, schedVars
  <2>2. QED
    BY <1>1, <2>1 DEF InState
<1>9. QED
  BY <1>6, <1>7, <1>8 DEF Next

(* The semaphore's queue holds each waiting task exactly once and nothing  *)
(* else, whatever is cancelled, granted or closed in between.              *)
THEOREM QueueCorrect == Spec => []QueueMatchesWaiters
<1>1. SchedInit => QueueMatchesWaiters
  <2> SUFFICES ASSUME SchedInit PROVE QueueMatchesWaiters
    OBVIOUS
  <2>1. InState("waiting") = {} /\ Len(queue) = 0
    BY EmptySeq DEF SchedInit, InState
  <2>2. QED
    BY <2>1 DEF QueueMatchesWaiters
<1>2. QED
  BY <1>1, TypeCorrect, QueueStep, PTL DEF Spec

-----------------------------------------------------------------------------
(* Every step of the scheduler is a step of the bounded pool or a stutter. *)
LEMMA PoolStep ==
  TypeOK /\ PermitsConserved /\ [Next]_schedVars => [Pool!PoolNext]_(Pool!poolVars)
<1> SUFFICES ASSUME TypeOK, PermitsConserved, [Next]_schedVars
             PROVE  [Pool!PoolNext]_(Pool!poolVars)
  OBVIOUS
<1> USE DEF TypeOK, Move, InState
<1>1. ASSUME NEW t \in Tasks, SpawnCheck(t)
      PROVE  Pool!Admit(t) \/ UNCHANGED Pool!poolVars
  <2>1. CASE closed
    BY <1>1, <2>1 DEF SpawnCheck, Pool!poolVars, Running
  <2>2. CASE ~closed
    BY <1>1, <2>2 DEF SpawnCheck, Pool!Admit, Running
  <2>3. QED
    BY <2>1, <2>2
<1>2. ASSUME NEW t \in Tasks, SpawnTask(t) \/ JoinQueue(t) PROVE UNCHANGED Pool!poolVars
  BY <1>2 DEF SpawnTask, JoinQueue, Pool!poolVars, Running
<1>3. ASSUME NEW t \in Tasks, AcquireNow(t) \/ Grant(t) PROVE Pool!Start(t)
  <2>1. Cardinality(Running) < MaxConcurrency
    <3>1. permits \in Nat /\ permits > 0 /\ Cardinality(Running) \in Nat
      BY <1>3, RunningFinite, FS_CardinalityType DEF AcquireNow, Grant
    <3>2. QED
      BY <3>1, SchedulerAssumption DEF PermitsConserved
  <2>2. Pool!Cardinality(Running) = Cardinality(Running)
    BY DEF Pool!Cardinality, Cardinality
  <2>3. QED
    BY <1>3, <2>1, <2>2 DEF AcquireNow, Grant, Pool!Start, Running
<1>4. ASSUME NEW t \in Tasks, Finish(t) \/ CancelRunning(t) PROVE Pool!Leave(t)
  BY <1>4 DEF Finish, CancelRunning, Pool!Leave, Running
<1>5. ASSUME NEW t \in Tasks,
             \/ PanicUnstarted(t) \/ PanicWaiting(t)
             \/ CancelUnstarted(t) \/ CancelWaiting(t)
      PROVE  Pool!Leave(t)
  BY <1>5 DEF PanicUnstarted, PanicWaiting, CancelUnstarted, CancelWaiting,
     Pool!Leave, Running
<1>6. ASSUME CloseFlag PROVE Pool!Stop
  BY <1>6 DEF CloseFlag, Pool!Stop, Running
<1>7. ASSUME CloseSemaphore \/ (\E t \in Tasks : Abort(t)) \/ UNCHANGED schedVars
      PROVE  UNCHANGED Pool!poolVars
  BY <1>7 DEF CloseSemaphore, Abort, schedVars, Pool!poolVars, Running
<1>8. QED
  BY <1>1, <1>2, <1>3, <1>4, <1>5, <1>6, <1>7 DEF Next, Poll, Pool!PoolNext

(* The scheduler with its semaphore, wait queue and aborts implements the  *)
(* bounded pool its callers rely on.                                       *)
THEOREM SchedulerRefinesPool == Spec => ImplementsPool
<1>1. SchedInit => Pool!PoolInit
  BY DEF SchedInit, Pool!PoolInit, InState, Running
<1>2. QED
  BY <1>1, PoolStep, TypeCorrect, PermitConservation, PTL
     DEF Spec, ImplementsPool, Pool!PoolSpec
=============================================================================
