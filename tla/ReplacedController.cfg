\* Lifecycle hooks, background loops and a scheduler of one permit, with
\* set_registry called again while the first controller's loop runs.
SPECIFICATION FairSpec
CONSTANTS
  Messages = {}
  MaxConcurrency = 1
  MaxControllers = 2
  MaxDeregisters = 1
  InitialRetryDelay = 1
  MaxRetryDelay = 1
  MaxConsecutiveFailures = 1
INVARIANTS
  TypeOK
  NoSecondWorker
  RetiredWorkerIsStopping
PROPERTIES
  NoResurrection
  DeregisterIsSent
