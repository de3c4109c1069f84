CONSTANTS
  s1 = s1
  s2 = s2
  Services = {s1}
  LbIds = {1, 2}
  MaxEvents = 3
SPECIFICATION Spec
INVARIANT OnlyStaleDeleted
CHECK_DEADLOCK FALSE
