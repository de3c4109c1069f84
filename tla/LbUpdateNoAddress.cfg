CONSTANTS
  n1 = n1
  n2 = n2
  n3 = n3
  p1 = p1
  p2 = p2
  PoolIds = {1, 2}
  ListenerIds = {1, 2}
  Ports = {1, 2}
  NodePorts = {1, 2, 3}
  HealthPorts = {9}
  Quotas <- MCQuotas
  Nodes = {n1, n2}
  Procs = {p1}
  Services <- MCServices
  UserPools = {}
  NodesNoIP = {n2}
  MaxEvents = 3
SPECIFICATION Spec

INVARIANT
  NodesAvailable
CHECK_DEADLOCK FALSE
