CONSTANTS
  s1 = s1
  s2 = s2
  Services = {s1, s2}
  LbIds = {1, 2, 3}
  MaxEvents = 2
SPECIFICATION FairSpec
INVARIANTS TypeOK SteadyNotStale NobodyForgotten
PROPERTIES OrphansGone EventuallyServed
CHECK_DEADLOCK FALSE
