\* A single permit: shutdown, deregistrations and messages still happen.
SPECIFICATION FairSpec
CONSTANTS
  Messages = {1}
  MaxConcurrency = 1
  MaxControllers = 1
  MaxDeregisters = 2
  InitialRetryDelay = 1
  MaxRetryDelay = 1
  MaxConsecutiveFailures = 1
PROPERTIES
  ShutdownEndsWorker
  DeregisterIsSent
  ScheduledMessageRuns
