CONSTANTS
  SubnetIds = {"i1", "i2", "i3"}
  Cidr <- MCCidr
  Vpc <- MCVpc
  SubnetZone <- MCSubnetZone
  SubnetNames = {"net-1", "net-10"}
  VpcName = "v1"
  ConfigNames = {"net-10"}
  PartOf <- MCPartOf
  Nodes = {"n1", "n2"}
  NodeLabels <- MCNodeLabels
  LabelValues = {"", "edge", "z1", "z2", "a", "b"}
  Allowed = {"zone", "arch"}
  Services <- MCServices
  MaxEdits = 2
  MaxFaults = 1
SPECIFICATION FairSpec
INVARIANTS
  TypeOK
  AtHome
  UntouchedNotRefused
  ChangedIsRefused
  NotStarved
  ZoneTogether
PROPERTIES
  EventuallyPlaced
CHECK_DEADLOCK FALSE
