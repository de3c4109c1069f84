CONSTANTS
  Waits <- MCWaits
  MaxLatency = 3
SPECIFICATION Spec
INVARIANT ReadyIsReported
CHECK_DEADLOCK FALSE
