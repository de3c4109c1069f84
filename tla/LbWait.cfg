CONSTANTS
  Waits <- MCWaits
  MaxLatency = 3
SPECIFICATION FairSpec
INVARIANTS TypeOK BoundedWait NoEarlyTimeout
PROPERTY Termination
CHECK_DEADLOCK FALSE
