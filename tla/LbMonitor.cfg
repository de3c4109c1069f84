CONSTANTS
  s1 = s1
  s2 = s2
  o1 = o1
  Chars = {"kube", "-", "a", "b", "c", "d", "x"}
  Services = {s1, s2}
  UID <- MCUID
  ClusterID <- MCClusterID
  Others = {o1}
  OtherName <- MCOtherName
  NameLimit = 6
  LbIds = {1, 2, 3}
  PageSize = 2
  MaxEdits = 1
  MaxFaults = 1
SPECIFICATION FairSpec
INVARIANTS
  TypeOK
  ListingExact
  OthersSpared
PROPERTIES
  NoFalseAlarm
  EventuallyTold
CHECK_DEADLOCK FALSE
