\* Permits, wait queue, close(), progress and the refinement of the bounded pool.
SPECIFICATION FairSpec
CONSTANTS
  Tasks = {t1, t2, t3, t4}
  MaxConcurrency = 2
INVARIANTS
  TypeOK
  PermitsConserved
  QueueMatchesWaiters
PROPERTIES
  ClosedStartsNothing
  ImplementsPool
  AcceptedTasksEnd
