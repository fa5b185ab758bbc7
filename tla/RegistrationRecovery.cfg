\* The two nested loops recover, stop when told to, and count failures.
SPECIFICATION Spec
CONSTANTS
  Workers = {w1}
  Callers = {w1}
  InitialRetryDelay = 1
  MaxRetryDelay = 3
  MaxConsecutiveFailures = 2
INVARIANTS
  TypeOK
PROPERTIES
  FailureBudget
  RecoversOnceCalm
  ShutdownStopsWorker
