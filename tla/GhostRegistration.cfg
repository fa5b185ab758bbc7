\* A registration still in flight outlives the acknowledged final heartbeat.
SPECIFICATION Spec
CONSTANTS
  Messages = {}
  MaxConcurrency = 2
  MaxControllers = 1
  MaxDeregisters = 1
  InitialRetryDelay = 1
  MaxRetryDelay = 1
  MaxConsecutiveFailures = 1
INVARIANT
  FinalHeartbeatRemoves
