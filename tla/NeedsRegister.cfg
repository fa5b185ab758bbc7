\* A needs_register answer does not by itself lead to register().
SPECIFICATION Spec
CONSTANTS
  Workers = {w1}
  Callers = {w1}
  InitialRetryDelay = 1
  MaxRetryDelay = 3
  MaxConsecutiveFailures = 2
PROPERTY
  NeedsRegisterHonoured
