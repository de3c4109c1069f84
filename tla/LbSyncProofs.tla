---------------------------- MODULE LbSyncProofs ----------------------------
(***************************************************************************)
(* When one process alone updates the load balancer, a run that succeeds   *)
(* leaves it as its service asks for, one that is so is left alone, and    *)
(* pools never lose their last member; for every service, any number of    *)
(* nodes and ports, and any number of failures before.                     *)
(***************************************************************************)
EXTENDS LbSerialProofs, FiniteSetTheorems, WellFoundedInduction

-----------------------------------------------------------------------------
(* A load balancer in sync is left alone. *)

\* A nonempty set of naturals has a least element: of the intervals from 0 to
\* its elements up to one of them, a finite number, one contains no other.
LEMMA MinIsMember ==
  ASSUME NEW T \in SUBSET Nat, NEW k \in T
  PROVE  Min(T) \in T
<1> DEFINE S == 0 .. k
           W == {X \in SUBSET S : \E x \in T : x <= k /\ X = 0 .. x}
<1>1. IsWellFoundedOn(StrictSubsetOrdering(S), SUBSET S)
  <2>1. IsFiniteSet(S)
    BY FS_Interval
  <2>2. FiniteSubsetsOf(S) = SUBSET S
    BY <2>1, FS_FiniteSubsetsOfFinite
  <2> HIDE DEF S
  <2>3. IsWellFoundedOn(StrictSubsetOrdering(S), FiniteSubsetsOf(S))
    BY FS_StrictSubsetOrderingWellFounded
  <2> QED
    BY <2>2, <2>3
<1>2. W \subseteq SUBSET S /\ W # {}
  <2>1. 0 .. k \in W
    OBVIOUS
  <2> QED
    BY <2>1
<1>3. PICK X \in W : \A Y \in W : ~(<<Y, X>> \in StrictSubsetOrdering(S))
  <2> HIDE DEF W, S
  <2> QED
    BY <1>1, <1>2, WFMin
<1>4. PICK i \in T : i <= k /\ X = 0 .. i
  BY <1>3
<1>5. ASSUME NEW j \in T, j < i
      PROVE  FALSE
  <2>1. 0 .. j \in W
    BY <1>4, <1>5
  <2>2. 0 .. j \subseteq X /\ i \in X /\ i \notin 0 .. j
    BY <1>4, <1>5
  <2>3. <<0 .. j, X>> \in StrictSubsetOrdering(S)
    BY <1>3, <2>1, <2>2 DEF StrictSubsetOrdering
  <2> QED
    BY <1>3, <2>1, <2>3
<1>6. \A j \in T : i <= j
  BY <1>4, <1>5
<1> QED
  BY <1>4, <1>6 DEF Min

\* Pools of a load balancer that matches are as the service wants them.
LEMMA MatchedPools ==
  ASSUME IInv, OnePoolPerPort, NEW s \in Service, NEW nodeList \in SUBSET Nodes,
         Matches(lb, s, nodeList), NEW i \in DOMAIN lb.pools
  PROVE  LET q == lb.pools[i].name.port IN
         /\ q \in DOMAIN s.ports
         /\ lb.pools[i].name = genLoadBalancerPoolName(s, q)
         /\ lb.pools[i].members = genLoadBalancerMembers(s.ports[q], nodeList)
         /\ \/ s.local /\ s.hcnp = 0
            \/ lb.pools[i].hm = genLoadBalancerHealthMonitor(s.ports[q], getServiceHealthCheckNodePort(s))
<1> DEFINE q == lb.pools[i].name.port
<1>1. q \in DOMAIN s.ports
  BY DEF Matches
<1>2. PICK l \in ListenerIds, k \in PoolIds :
        /\ {j \in DOMAIN lb.pools : lb.pools[j].name = genLoadBalancerPoolName(s, q)} = {k}
        /\ lb.pools[k].members = genLoadBalancerMembers(s.ports[q], nodeList)
        /\ \/ s.local /\ s.hcnp = 0
           \/ lb.pools[k].hm = genLoadBalancerHealthMonitor(s.ports[q], getServiceHealthCheckNodePort(s))
  BY <1>1 DEF Matches
<1>3. k \in DOMAIN lb.pools /\ lb.pools[k].name = genLoadBalancerPoolName(s, q)
  BY <1>2
<1>4. lb.pools[k].name.port = q
  BY <1>3 DEF genLoadBalancerPoolName
<1>5. k = i
  BY <1>3, <1>4 DEF OnePoolPerPort
<1> QED
  BY <1>1, <1>2, <1>3, <1>5

LEMMA MatchedNeedsNothing ==
  ASSUME IInv, OnePoolPerPort, NEW s \in Service, NEW nodeList \in SUBSET Nodes,
         Matches(lb, s, nodeList)
  PROVE  UpdatesRequired(lb.listeners, lb.pools, s, nodeList) = {}
<1> DEFINE raw == Raw(lb.listeners, lb.pools, s, nodeList)
<1>1. ASSUME NEW i \in DOMAIN lb.pools
      PROVE  /\ StaleMembers(lb.pools[i], nodeList) = {}
             /\ MissingNodes(lb.pools[i], nodeList) = {}
             /\ ~NameChanged(lb.pools[i], s)
             /\ ~HealthMonitorChanged(lb.pools[i], s)
             /\ lb.pools[i].name.port \in DOMAIN s.ports
  <2> DEFINE q == lb.pools[i].name.port
  <2>1. /\ q \in DOMAIN s.ports
        /\ lb.pools[i].name = genLoadBalancerPoolName(s, q)
        /\ lb.pools[i].members = genLoadBalancerMembers(s.ports[q], nodeList)
        /\ \/ s.local /\ s.hcnp = 0
           \/ lb.pools[i].hm = genLoadBalancerHealthMonitor(s.ports[q], getServiceHealthCheckNodePort(s))
    BY MatchedPools
  <2>2. lb.pools[i].name.nodePort = s.ports[q]
    BY <2>1 DEF genLoadBalancerPoolName
  <2>3. StaleMembers(lb.pools[i], nodeList) = {} /\ MissingNodes(lb.pools[i], nodeList) = {}
    <3>1. ASSUME NEW m \in genLoadBalancerMembers(s.ports[q], nodeList)
          PROVE  m.node \in nodeList /\ m.port = s.ports[q]
      BY DEF genLoadBalancerMembers
    <3>2. \A n \in nodeList : [node |-> n, port |-> s.ports[q]]
                                \in genLoadBalancerMembers(s.ports[q], nodeList)
      BY DEF genLoadBalancerMembers
    <3> QED
      BY <2>1, <2>2, <3>1, <3>2 DEF StaleMembers, MissingNodes
  <2>4. ~NameChanged(lb.pools[i], s)
    BY <2>1 DEF NameChanged
  <2>5. s.hcnp \in Nat /\ s.local \in BOOLEAN
    <3>1. \A x \in HealthPorts \cup {0} : x \in Nat
      BY PortAssumption DEF PortAssumption
    <3>2. s.hcnp \in Nat
      BY <3>1 DEF Service
    <3>3. s.local \in BOOLEAN
      BY Zenon DEF Service
    <3> QED
      BY <3>2, <3>3, Zenon
  <2>6. ~HealthMonitorChanged(lb.pools[i], s)
    <3>1. CASE s.local /\ s.hcnp = 0
      BY <3>1 DEF HealthMonitorChanged
    <3>2. CASE s.local /\ s.hcnp # 0
      BY <2>1, <2>5, <3>2 DEF HealthMonitorChanged, genLoadBalancerHealthMonitor,
                              getServiceHealthCheckNodePort
    <3>3. CASE ~s.local
      BY <2>1, <2>5, <3>3 DEF HealthMonitorChanged, genLoadBalancerHealthMonitor,
                              getServiceHealthCheckNodePort
    <3> QED
      BY <3>1, <3>2, <3>3
  <2> QED
    BY <2>1, <2>3, <2>4, <2>6
<1>2. /\ \A l \in DOMAIN lb.listeners : lb.listeners[l].port \in DOMAIN s.ports
      /\ \A q \in DOMAIN s.ports : /\ \E l \in DOMAIN lb.listeners : lb.listeners[l].port = q
                                   /\ \E i \in DOMAIN lb.pools : lb.pools[i].name.port = q
  BY DEF Matches
<1>3. raw = {}
  <2>1. checkListenerForExtPortDeletedFromService(lb.listeners, s) = {}
    BY <1>2 DEF checkListenerForExtPortDeletedFromService
  <2>2. checkPoolForExtPortDeletedFromService(lb.pools, s) = {}
    BY <1>1 DEF checkPoolForExtPortDeletedFromService
  <2>3. checkPoolForNodesToDelete(lb.pools, s, nodeList) = {}
    BY <1>1 DEF checkPoolForNodesToDelete, SamePortPools, KeptPools
  <2>4. checkPoolForServiceChanges(lb.pools, s) = {}
    BY <1>1 DEF checkPoolForServiceChanges, KeptPools
  <2>5. checkPoolForNodesToAdd(lb.pools, s, nodeList) = {}
    BY <1>1 DEF checkPoolForNodesToAdd, SamePortPools, KeptPools
  <2>6. checkPoolsForExtPortAddedToService(lb.pools, s) = {}
    BY <1>1, <1>2 DEF checkPoolsForExtPortAddedToService, KeptPools
  <2>7. checkListenersForExtPortAddedToService(lb.listeners, s) = {}
    BY <1>2 DEF checkListenersForExtPortAddedToService
  <2> QED
    BY <2>1, <2>2, <2>3, <2>4, <2>5, <2>6, <2>7 DEF Raw
<1>4. Several(raw, lb.pools) = {}
  BY <1>3 DEF Several, MemberUpdates
<1> QED
  BY <1>3, <1>4, Merged

\* The quota prefers the nodes that are in the pool already: if those are a
\* choice it could make without them, it makes no other.
LEMMA QuotaKeeps ==
  ASSUME NEW desired \in SUBSET Nodes, NEW s \in Service,
         NEW nodeList \in filterNodesByServiceMemberQuota(desired, {}, s)
  PROVE  filterNodesByServiceMemberQuota(desired, nodeList, s) = {nodeList}
<1>1. ~(~s.local /\ s.quota = BadQuota)
  BY DEF filterNodesByServiceMemberQuota
<1>2. CASE ~Limited(desired, s)
  BY <1>1, <1>2 DEF filterNodesByServiceMemberQuota
<1>3. CASE Limited(desired, s)
  <2>1. nodeList \in kSubset(s.quota, desired)
    BY <1>1, <1>3 DEF filterNodesByServiceMemberQuota
  <2>2. IsFiniteSet(desired)
    BY FS_Subset, UpdateAssumption DEF UpdateAssumption
  <2>3. ASSUME NEW S \in kSubset(s.quota, desired),
               S \subseteq nodeList \/ desired \cap nodeList \subseteq S
        PROVE  S = nodeList
    <3>1. /\ S \subseteq desired /\ nodeList \subseteq desired
          /\ Cardinality(S) = s.quota /\ Cardinality(nodeList) = s.quota
      BY <2>1 DEF kSubset
    <3>2. IsFiniteSet(S) /\ IsFiniteSet(nodeList)
      BY <2>2, <3>1, FS_Subset
    <3>3. S \subseteq nodeList \/ nodeList \subseteq S
      BY <2>3, <3>1
    <3> QED
      BY <3>1, <3>2, <3>3, FS_Subset
  <2> QED
    BY <1>1, <1>3, <2>1, <2>3 DEF filterNodesByServiceMemberQuota
<1> QED
  BY <1>2, <1>3

\* Preferring the nodes already in the pools chooses among the node lists there
\* are without them.
LEMMA NodeListsAreChoices ==
  ASSUME NEW j, NEW nodeList \in NodeLists(j)
  PROVE  nodeList \in filterNodesByServiceMemberQuota(getNodeIDs(j.nodes), {}, j.svc)
  BY DEF NodeLists, filterNodesByServiceMemberQuota

\* The quota leaves as many nodes as the service is due, negative or not.
LEMMA ChoicesAreDue ==
  ASSUME NEW desired \in SUBSET Nodes, NEW s \in Service,
         NEW nodeList \in filterNodesByServiceMemberQuota(desired, {}, s)
  PROVE  nodeList \in DueNodes(desired, s)
<1>1. ~(~s.local /\ s.quota = BadQuota) /\ s.quota \in Int
  BY ServiceType, QuotaAssumption
  DEF filterNodesByServiceMemberQuota, IsService, QuotaAssumption
<1>2. IsFiniteSet(desired) /\ Cardinality(desired) \in Nat
  BY FS_Subset, FS_CardinalityType, UpdateAssumption DEF UpdateAssumption
<1>3. CASE Limited(desired, s)
  <2>1. nodeList \in kSubset(s.quota, desired)
    BY <1>1, <1>3 DEF filterNodesByServiceMemberQuota
  <2>2. nodeList \subseteq desired /\ Cardinality(nodeList) = s.quota
    BY <2>1 DEF kSubset
  <2> QED
    BY <1>1, <1>3, <2>2 DEF Limited, DueNodes
<1>4. CASE ~Limited(desired, s)
  <2>1. nodeList = desired
    BY <1>1, <1>4 DEF filterNodesByServiceMemberQuota
  <2> QED
    BY <1>1, <1>2, <1>4, <2>1 DEF Limited, DueNodes
<1> QED
  BY <1>3, <1>4

\* The existing members of a load balancer that matches are nodeList.
LEMMA MatchedExisting ==
  ASSUME IInv, OnePoolPerPort, NEW s \in Service, DOMAIN s.ports # {},
         NEW nodeList \in SUBSET Nodes, Matches(lb, s, nodeList)
  PROVE  lb.pools # Empty /\ {m.node : m \in lb.pools[Min(DOMAIN lb.pools)].members} = nodeList
<1>1. DOMAIN lb.pools \subseteq Nat
  BY PartialFcnDef, IdAssumption DEF IdAssumption, IInv, LoadBalancer
<1>2. PICK k \in DOMAIN lb.pools : TRUE
  BY DEF Matches
<1>4. Min(DOMAIN lb.pools) \in DOMAIN lb.pools
  BY <1>1, <1>2, MinIsMember
<1> DEFINE i == Min(DOMAIN lb.pools)
<1>5. lb.pools[i].members = genLoadBalancerMembers(s.ports[lb.pools[i].name.port], nodeList)
  <2> HIDE DEF i
  <2> QED
    BY <1>4, MatchedPools DEF i
<1>6. lb.pools # Empty
  BY <1>2, EmptyType DEF Empty
<1>7. {m.node : m \in genLoadBalancerMembers(s.ports[lb.pools[i].name.port], nodeList)} = nodeList
  <2> DEFINE x == s.ports[lb.pools[i].name.port]
             M == genLoadBalancerMembers(x, nodeList)
  <2>1. \A n \in nodeList : [node |-> n, port |-> x] \in M /\ [node |-> n, port |-> x].node = n
    BY DEF genLoadBalancerMembers
  <2>2. \A m \in M : m.node \in nodeList
    BY DEF genLoadBalancerMembers
  <2> HIDE DEF M
  <2>3. {m.node : m \in M} = nodeList
    BY <2>1, <2>2
  <2> QED
    BY <2>3 DEF M
<1> QED
  BY <1>5, <1>6, <1>7

\* Nothing is left to do on a load balancer in sync, and the quota keeps the
\* nodes it has: runs do not move members back and forth.
THEOREM SyncIsStable ==
  ASSUME NEW p, Procs = {p}, UserPools = {}, \A s \in Services : DOMAIN s.ports # {}
  PROVE  Spec => []InSyncIsStable
<1>1. ASSUME IInv, SInv(p), NEW nodeList \in SUBSET Nodes, Matches(lb, svc, nodeList),
             nodeList \in filterNodesByServiceMemberQuota(getNodeIDs(nodes), {}, svc)
      PROVE  /\ NodeLists([NewJob(svc, nodes) EXCEPT !.pools = lb.pools]) = {nodeList}
             /\ UpdatesRequired(lb.listeners, lb.pools, svc, nodeList) = {}
  <2>1. svc \in Service /\ DOMAIN svc.ports # {} /\ OnePoolPerPort
        /\ getNodeIDs(nodes) \in SUBSET Nodes
    BY <1>1, UpdateAssumption, ServiceType
    DEF UpdateAssumption, IInv, ControlOK, SInv, getNodeIDs
  <2>2. UpdatesRequired(lb.listeners, lb.pools, svc, nodeList) = {}
    BY <1>1, <2>1, MatchedNeedsNothing
  <2>3. lb.pools # Empty /\ {m.node : m \in lb.pools[Min(DOMAIN lb.pools)].members} = nodeList
    BY <1>1, <2>1, MatchedExisting
  <2> DEFINE j == [NewJob(svc, nodes) EXCEPT !.pools = lb.pools]
  <2>4. j.pools = lb.pools /\ j.nodes = nodes /\ j.svc = svc
    BY DEF NewJob
  <2> HIDE DEF j
  <2>5. NodeLists(j) = filterNodesByServiceMemberQuota(getNodeIDs(nodes), nodeList, svc)
    BY <2>3, <2>4 DEF NodeLists
  <2> QED
    BY <1>1, <2>1, <2>2, <2>5, QuotaKeeps DEF j
<1>2. IInv /\ SInv(p) => InSyncIsStable
  BY <1>1 DEF InSyncIsStable
<1> QED
  BY <1>2, SerialHolds, PTL

-----------------------------------------------------------------------------
(* A plan covers the differences between a load balancer and what service s *)
(* and nodes nl ask for: an update is left in it for each of them.          *)

Want(ps, i, s, nl) == genLoadBalancerMembers(s.ports[ps[i].name.port], nl)

\* The name and health monitor that updateLoadBalancerPool gives the pool.
AsService(pool, s) ==
  /\ pool.name = genLoadBalancerPoolName(s, pool.name.port)
  /\ \/ s.local /\ s.hcnp = 0
     \/ pool.hm = genLoadBalancerHealthMonitor(s.ports[pool.name.port], getServiceHealthCheckNodePort(s))

ListenersCovered(ls, plan, s) ==
  /\ \A l \in DOMAIN ls :
       ls[l].port \in DOMAIN s.ports \/ \E v \in plan : v.op = "DELETE-LISTENER" /\ v.id = l
  /\ \A q \in DOMAIN s.ports :
       \/ \E l \in DOMAIN ls : ls[l].port = q
       \/ \E v \in plan : v.op = "CREATE-LISTENER" /\ v.name.port = q
  /\ \A u \in plan : u.op = "DELETE-LISTENER" => ls[u.id].port \notin DOMAIN s.ports

PoolCovered(ps, plan, s, nl, i) ==
  /\ AsService(ps[i], s) \/ \E v \in plan : v.op = "UPDATE-POOL" /\ v.id = i
  /\ \/ ps[i].members = Want(ps, i, s, nl)
     \/ \E v \in plan : v.op \in MemberOps \cup {"REPLACE-POOL-MEMBERS"} /\ v.id = i

\* An update of one member is the last that its pool needs.
LastOfPool(ps, u, s, nl) ==
  /\ u.op = "DELETE-POOL-MEMBER" => ps[u.id].members \ {u.member} = Want(ps, u.id, s, nl)
  /\ u.op = "CREATE-POOL-MEMBER" => ps[u.id].members \cup {u.member} = Want(ps, u.id, s, nl)

PoolKept(ps, plan, s, nl, i) ==
  /\ ps[i].name.port \in DOMAIN s.ports => PoolCovered(ps, plan, s, nl, i)
  /\ ps[i].name.port \notin DOMAIN s.ports => \E v \in plan : v.op = "DELETE-POOL" /\ v.id = i

PoolsCovered(ps, plan, s, nl) ==
  /\ \A i \in DOMAIN ps : PoolKept(ps, plan, s, nl, i)
  /\ \A q \in DOMAIN s.ports :
       \/ \E i \in DOMAIN ps : ps[i].name.port = q
       \/ \E v \in plan : v.op = "CREATE-POOL" /\ v.name.port = q
  /\ \A u \in plan : LastOfPool(ps, u, s, nl)

Covers(ls, ps, plan, s, nl) == ListenersCovered(ls, plan, s) /\ PoolsCovered(ps, plan, s, nl)

\* When nothing is left of the plan the load balancer is as it should be.
LEMMA NothingLeft ==
  ASSUME NEW b \in LoadBalancer, NEW s, NEW nl,
         Covers(b.listeners, b.pools, {}, s, nl),
         \A i, j \in DOMAIN b.pools : b.pools[i].name.port = b.pools[j].name.port => i = j,
         \A k, l \in DOMAIN b.listeners : b.listeners[k].port = b.listeners[l].port => k = l,
         \A l \in DOMAIN b.listeners :
           /\ b.listeners[l].pool \in DOMAIN b.pools
           /\ b.pools[b.listeners[l].pool].name.port = b.listeners[l].port
  PROVE  Matches(b, s, nl)
<1> DEFINE ls == b.listeners
           ps == b.pools
<1>1. DOMAIN ls \subseteq ListenerIds /\ DOMAIN ps \subseteq PoolIds
  BY PartialFcnDef DEF LoadBalancer
<1>2. /\ \A l \in DOMAIN ls : ls[l].port \in DOMAIN s.ports
      /\ \A q \in DOMAIN s.ports : \E l \in DOMAIN ls : ls[l].port = q
      /\ \A q \in DOMAIN s.ports : \E i \in DOMAIN ps : ps[i].name.port = q
      /\ \A i \in DOMAIN ps : /\ ps[i].name.port \in DOMAIN s.ports
                              /\ AsService(ps[i], s)
                              /\ ps[i].members = Want(ps, i, s, nl)
  BY DEF Covers, ListenersCovered, PoolsCovered, PoolKept, PoolCovered
<1>3. ASSUME NEW q \in DOMAIN s.ports
      PROVE  \E l \in ListenerIds, i \in PoolIds :
               /\ {k \in DOMAIN ls : ls[k].port = q} = {l}
               /\ {j \in DOMAIN ps : ps[j].name = genLoadBalancerPoolName(s, q)} = {i}
               /\ ls[l].pool = i
               /\ ps[i].members = genLoadBalancerMembers(s.ports[q], nl)
               /\ \/ s.local /\ s.hcnp = 0
                  \/ ps[i].hm = genLoadBalancerHealthMonitor(s.ports[q], getServiceHealthCheckNodePort(s))
  <2>1. PICK l \in DOMAIN ls : ls[l].port = q
    BY <1>2
  <2>2. PICK i \in DOMAIN ps : ps[i].name.port = q
    BY <1>2
  <2>3. {k \in DOMAIN ls : ls[k].port = q} = {l}
    BY <2>1
  <2>4. {j \in DOMAIN ps : ps[j].name = genLoadBalancerPoolName(s, q)} = {i}
    <3>1. ps[i].name = genLoadBalancerPoolName(s, q)
      BY <1>2, <2>2 DEF AsService
    <3>2. \A j \in DOMAIN ps : ps[j].name = genLoadBalancerPoolName(s, q) => ps[j].name.port = q
      BY DEF genLoadBalancerPoolName
    <3> QED
      BY <2>2, <3>1, <3>2
  <2>5. ls[l].pool = i
    BY <2>1, <2>2
  <2>6. /\ ps[i].members = genLoadBalancerMembers(s.ports[q], nl)
        /\ \/ s.local /\ s.hcnp = 0
           \/ ps[i].hm = genLoadBalancerHealthMonitor(s.ports[q], getServiceHealthCheckNodePort(s))
    BY <1>2, <2>2 DEF AsService, Want
  <2> QED
    BY <1>1, <2>3, <2>4, <2>5, <2>6
<1>4. {ls[l].port : l \in DOMAIN ls} = DOMAIN s.ports
  <2> HIDE DEF ls
  <2>1. \A q \in DOMAIN s.ports : q \in {ls[l].port : l \in DOMAIN ls}
    BY <1>2
  <2>2. \A q \in {ls[l].port : l \in DOMAIN ls} : q \in DOMAIN s.ports
    BY <1>2
  <2> QED
    BY <2>1, <2>2
<1>5. {ps[i].name.port : i \in DOMAIN ps} = DOMAIN s.ports
  <2> HIDE DEF ps
  <2>1. \A q \in DOMAIN s.ports : q \in {ps[i].name.port : i \in DOMAIN ps}
    BY <1>2
  <2>2. \A q \in {ps[i].name.port : i \in DOMAIN ps} : q \in DOMAIN s.ports
    BY <1>2
  <2> QED
    BY <2>1, <2>2
<1> QED
  BY <1>3, <1>4, <1>5 DEF Matches

-----------------------------------------------------------------------------
(* A new plan covers all differences. *)

\* What the updates of single members are for, and what becomes of them.
LEMMA RawMembers ==
  ASSUME NEW ls, NEW ps, NEW s, NEW nl
  PROVE  LET raw     == Raw(ls, ps, s, nl)
             plan    == UpdatesRequired(ls, ps, s, nl)
             several == Several(raw, ps)
             del(i, m) == NewUpdate("DELETE-POOL-MEMBER", 3, i, ps[i].name, m)
             add(i, n) == NewUpdate("CREATE-POOL-MEMBER", 5, i, ps[i].name,
                                    [node |-> n, port |-> ps[i].name.nodePort])
         IN  /\ \A i \in SamePortPools(ps, s) :
                  /\ \A m \in StaleMembers(ps[i], nl) : del(i, m) \in raw
                  /\ \A n \in MissingNodes(ps[i], nl) : add(i, n) \in raw
             /\ \A u \in raw : u.op = "DELETE-POOL-MEMBER" =>
                  \E m \in StaleMembers(ps[u.id], nl) : u = del(u.id, m)
             /\ \A u \in raw : u.op = "CREATE-POOL-MEMBER" =>
                  \E n \in MissingNodes(ps[u.id], nl) : u = add(u.id, n)
             /\ \A u \in raw : u.op \in MemberOps =>
                  \/ u \in plan /\ u.id \notin several
                  \/ \E v \in plan : v.op = "REPLACE-POOL-MEMBERS" /\ v.id = u.id
<1> USE DEF NewUpdate, MemberOps
<1> DEFINE raw     == Raw(ls, ps, s, nl)
           plan    == UpdatesRequired(ls, ps, s, nl)
           several == Several(raw, ps)
           del(i, m) == NewUpdate("DELETE-POOL-MEMBER", 3, i, ps[i].name, m)
           add(i, n) == NewUpdate("CREATE-POOL-MEMBER", 5, i, ps[i].name,
                                  [node |-> n, port |-> ps[i].name.nodePort])
<1>1. ASSUME NEW i \in SamePortPools(ps, s)
      PROVE  /\ \A m \in StaleMembers(ps[i], nl) : del(i, m) \in raw
             /\ \A n \in MissingNodes(ps[i], nl) : add(i, n) \in raw
  <2>1. \A m \in StaleMembers(ps[i], nl) : del(i, m) \in checkPoolForNodesToDelete(ps, s, nl)
    BY DEF checkPoolForNodesToDelete
  <2>2. \A n \in MissingNodes(ps[i], nl) : add(i, n) \in checkPoolForNodesToAdd(ps, s, nl)
    BY DEF checkPoolForNodesToAdd
  <2> HIDE DEF del, add
  <2> QED
    BY <2>1, <2>2 DEF Raw
<1>2. ASSUME NEW u \in raw, u.op = "DELETE-POOL-MEMBER"
      PROVE  \E m \in StaleMembers(ps[u.id], nl) : u = del(u.id, m)
  <2>1. u \in checkPoolForNodesToDelete(ps, s, nl)
    BY <1>2 DEF Raw, checkListenerForExtPortDeletedFromService,
        checkPoolForExtPortDeletedFromService, checkPoolForServiceChanges,
        checkPoolForNodesToAdd,
        checkPoolsForExtPortAddedToService, checkListenersForExtPortAddedToService
  <2> QED
    BY <2>1 DEF checkPoolForNodesToDelete
<1>3. ASSUME NEW u \in raw, u.op = "CREATE-POOL-MEMBER"
      PROVE  \E n \in MissingNodes(ps[u.id], nl) : u = add(u.id, n)
  <2>1. u \in checkPoolForNodesToAdd(ps, s, nl)
    BY <1>3 DEF Raw, checkListenerForExtPortDeletedFromService,
        checkPoolForExtPortDeletedFromService, checkPoolForServiceChanges,
        checkPoolForNodesToDelete,
        checkPoolsForExtPortAddedToService, checkListenersForExtPortAddedToService
  <2> QED
    BY <2>1 DEF checkPoolForNodesToAdd
<1>4. ASSUME NEW u \in raw, u.op \in MemberOps
      PROVE  \/ u \in plan /\ u.id \notin several
             \/ \E v \in plan : v.op = "REPLACE-POOL-MEMBERS" /\ v.id = u.id
  <2> DEFINE first(i) == IF \E w \in MemberUpdates(raw, i) : w.op = "DELETE-POOL-MEMBER"
                         THEN 3 ELSE 5
             merged(i) == NewUpdate("REPLACE-POOL-MEMBERS", first(i), i, ps[i].name, NoMember)
  <2>1. plan = {w \in raw : ~(w.op \in MemberOps /\ w.id \in several)}
                 \cup {merged(i) : i \in several}
    BY DEF UpdatesRequired, checkForMultiplePoolMemberUpdates, Raw, Several
  <2>2. \A i : merged(i).id = i /\ merged(i).op = "REPLACE-POOL-MEMBERS"
    OBVIOUS
  <2> HIDE DEF raw, plan, several, merged
  <2> QED
    BY <1>4, <2>1, <2>2
<1> QED
  BY <1>1, <1>2, <1>3, <1>4

LEMMA NewPlanCovers ==
  ASSUME NEW ls, NEW ps \in PartialFcns(PoolIds, Pool), NamesParse(ps),
         NEW s \in Service, NEW nl \in SUBSET Nodes
  PROVE  Covers(ls, ps, UpdatesRequired(ls, ps, s, nl), s, nl)
<1> DEFINE raw     == Raw(ls, ps, s, nl)
           plan    == UpdatesRequired(ls, ps, s, nl)
           several == Several(raw, ps)
           gen(q)  == genLoadBalancerPoolName(s, q)
           del(i, m) == NewUpdate("DELETE-POOL-MEMBER", 3, i, ps[i].name, m)
           add(i, n) == NewUpdate("CREATE-POOL-MEMBER", 5, i, ps[i].name,
                                  [node |-> n, port |-> ps[i].name.nodePort])
<1> USE DEF NewUpdate, MemberOps
<1>1. /\ \A u \in raw : u.op \notin MemberOps => u \in plan
      /\ \A u \in plan :
           \/ u \in raw /\ (u.op \in MemberOps => u.id \notin several)
           \/ u.op = "REPLACE-POOL-MEMBERS"
  BY Merged
<1>2. /\ \A i \in SamePortPools(ps, s) :
           /\ \A m \in StaleMembers(ps[i], nl) : del(i, m) \in raw
           /\ \A n \in MissingNodes(ps[i], nl) : add(i, n) \in raw
      /\ \A u \in raw : u.op = "DELETE-POOL-MEMBER" =>
           \E m \in StaleMembers(ps[u.id], nl) : u = del(u.id, m)
      /\ \A u \in raw : u.op = "CREATE-POOL-MEMBER" =>
           \E n \in MissingNodes(ps[u.id], nl) : u = add(u.id, n)
      /\ \A u \in raw : u.op \in MemberOps =>
           \/ u \in plan
           \/ \E v \in plan : v.op = "REPLACE-POOL-MEMBERS" /\ v.id = u.id
  BY RawMembers
<1>3. ASSUME NEW i \in DOMAIN ps
      PROVE  /\ ps[i] \in Pool /\ ps[i].name \in PoolName
             /\ ps[i].members \subseteq Member
             /\ i \in KeptPools(ps, s) <=> ps[i].name.port \in DOMAIN s.ports
  <2>1. ps[i] \in Pool /\ ps[i].name # Unparsable
    BY PartialFcnDef DEF NamesParse
  <2>2. i \in KeptPools(ps, s) <=> ps[i].name.port \in DOMAIN s.ports
    BY DEF KeptPools
  <2> QED
    BY <2>1, <2>2 DEF Pool
<1>4. ASSUME NEW i \in KeptPools(ps, s), ~NameChanged(ps[i], s)
      PROVE  i \in SamePortPools(ps, s)
  BY <1>4 DEF NameChanged, SamePortPools, genLoadBalancerPoolName
\* the members a pool of the right name should have
<1>5. ASSUME NEW i \in SamePortPools(ps, s)
      PROVE  /\ i \in DOMAIN ps
             /\ \A m \in ps[i].members : m \in StaleMembers(ps[i], nl) \/ m \in Want(ps, i, s, nl)
             /\ \A m \in StaleMembers(ps[i], nl) : m \notin Want(ps, i, s, nl)
             /\ \A m \in Want(ps, i, s, nl) :
                  /\ m.node \in nl /\ m = [node |-> m.node, port |-> ps[i].name.nodePort]
                  /\ m \in ps[i].members \/ m.node \in MissingNodes(ps[i], nl)
             /\ \A n \in MissingNodes(ps[i], nl) :
                  [node |-> n, port |-> ps[i].name.nodePort] \in Want(ps, i, s, nl)
  <2>1. i \in DOMAIN ps /\ ps[i].name.nodePort = s.ports[ps[i].name.port]
    BY DEF SamePortPools, KeptPools
  <2> DEFINE x == ps[i].name.nodePort
  <2>2. Want(ps, i, s, nl) = {[node |-> n, port |-> x] : n \in nl}
    BY <2>1 DEF Want, genLoadBalancerMembers
  <2>3. ASSUME NEW m \in ps[i].members, m \notin StaleMembers(ps[i], nl)
        PROVE  m \in Want(ps, i, s, nl)
    <3>1. m \in Member
      BY <1>3, <2>1
    <3>2. m.node \in nl /\ m.port = x
      BY <2>3 DEF StaleMembers
    <3>3. m = [node |-> m.node, port |-> x]
      BY <3>1, <3>2 DEF Member
    <3> QED
      BY <2>2, <3>2, <3>3
  <2>4. ASSUME NEW m \in StaleMembers(ps[i], nl) PROVE m \notin Want(ps, i, s, nl)
    BY <2>2 DEF StaleMembers
  <2>5. ASSUME NEW m \in Want(ps, i, s, nl)
        PROVE  /\ m.node \in nl /\ m = [node |-> m.node, port |-> x]
               /\ m \in ps[i].members \/ m.node \in MissingNodes(ps[i], nl)
    BY <2>2 DEF MissingNodes
  <2>6. \A n \in MissingNodes(ps[i], nl) : [node |-> n, port |-> x] \in Want(ps, i, s, nl)
    BY <2>2 DEF MissingNodes
  <2> QED
    BY <2>1, <2>3, <2>4, <2>5, <2>6
<1> HIDE DEF raw, plan, several, gen, del, add
<1>6. ListenersCovered(ls, plan, s)
  <2>1. ASSUME NEW l \in DOMAIN ls, ls[l].port \notin DOMAIN s.ports
        PROVE  \E v \in plan : v.op = "DELETE-LISTENER" /\ v.id = l
    <3> DEFINE v == NewUpdate("DELETE-LISTENER", 1, l, NoName, NoMember)
    <3>1. v \in raw
      BY <2>1 DEF raw, Raw, checkListenerForExtPortDeletedFromService
    <3> QED
      BY <1>1, <3>1
  <2>2. ASSUME NEW q \in DOMAIN s.ports, \A l \in DOMAIN ls : ls[l].port # q
        PROVE  \E v \in plan : v.op = "CREATE-LISTENER" /\ v.name.port = q
    <3> DEFINE v == NewUpdate("CREATE-LISTENER", 6, NoId, gen(q), NoMember)
    <3>1. v \in raw
      BY <2>2 DEF raw, Raw, checkListenersForExtPortAddedToService, gen
    <3>2. v.op = "CREATE-LISTENER" /\ v.name.port = q
      BY DEF gen, genLoadBalancerPoolName
    <3> QED
      BY <1>1, <3>1, <3>2
  <2>3. ASSUME NEW u \in plan, u.op = "DELETE-LISTENER" PROVE ls[u.id].port \notin DOMAIN s.ports
    <3>1. u \in raw
      BY <1>1, <2>3
    <3> QED
      BY <2>3, <3>1, RawFacts DEF raw
  <2> QED
    BY <2>1, <2>2, <2>3 DEF ListenersCovered
<1>7. ASSUME NEW u \in plan PROVE LastOfPool(ps, u, s, nl)
  <2> SUFFICES ASSUME u.op \in MemberOps PROVE LastOfPool(ps, u, s, nl)
    BY DEF LastOfPool
  <2> DEFINE i == u.id
  <2>1. u \in raw /\ i \notin several
    BY <1>1
  <2>2. i \in SamePortPools(ps, s)
    BY <2>1, RawFacts DEF raw
  <2>3. i \in DOMAIN ps
    BY <1>5, <2>2
  <2>4. ASSUME NEW v \in raw, v.op \in MemberOps, v.id = i PROVE v = u
    <3>1. u \in MemberUpdates(raw, i) /\ v \in MemberUpdates(raw, i)
      BY <2>1, <2>4 DEF MemberUpdates
    <3> QED
      BY <2>1, <2>3, <3>1 DEF several, Several
  <2>5. /\ \A m \in StaleMembers(ps[i], nl) : del(i, m) = u
        /\ \A n \in MissingNodes(ps[i], nl) : add(i, n) = u
    <3>1. /\ \A m \in StaleMembers(ps[i], nl) : del(i, m) \in raw
          /\ \A n \in MissingNodes(ps[i], nl) : add(i, n) \in raw
      BY <1>2, <2>2
    <3>2. /\ \A m : del(i, m).op = "DELETE-POOL-MEMBER" /\ del(i, m).id = i
          /\ \A n : add(i, n).op = "CREATE-POOL-MEMBER" /\ add(i, n).id = i
      BY DEF del, add
    <3> HIDE DEF i
    <3> QED
      BY <2>4, <3>1, <3>2
  <2>6. /\ \A m : del(i, m).op = "DELETE-POOL-MEMBER" /\ del(i, m).member = m
        /\ \A n : /\ add(i, n).op = "CREATE-POOL-MEMBER"
                  /\ add(i, n).member = [node |-> n, port |-> ps[i].name.nodePort]
    BY DEF del, add
  <2> DEFINE W == Want(ps, i, s, nl)
             M == ps[i].members
  <2> HIDE DEF W
  <2>8. /\ \A m \in M : m \in StaleMembers(ps[i], nl) \/ m \in W
        /\ \A m \in StaleMembers(ps[i], nl) : m \notin W
        /\ \A m \in W : m \in M \/ m.node \in MissingNodes(ps[i], nl)
        /\ \A m \in W : m = [node |-> m.node, port |-> ps[i].name.nodePort]
        /\ \A n \in MissingNodes(ps[i], nl) : [node |-> n, port |-> ps[i].name.nodePort] \in W
    BY <1>5, <2>2 DEF W
  <2>9. CASE u.op = "DELETE-POOL-MEMBER"
    <3>1. u.member \in StaleMembers(ps[i], nl)
      BY <1>2, <2>1, <2>6, <2>9
    <3>2. \A m \in StaleMembers(ps[i], nl) : m = u.member
      BY <2>5, <2>6
    <3>3. MissingNodes(ps[i], nl) = {}
      BY <2>5, <2>6, <2>9
    <3> HIDE DEF M, i
    <3>4. M \ {u.member} = W
      BY <2>8, <3>1, <3>2, <3>3
    <3> QED
      BY <2>9, <3>4 DEF LastOfPool, W, M, i
  <2>10. CASE u.op = "CREATE-POOL-MEMBER"
    <3>1. PICK n \in MissingNodes(ps[i], nl) : u = add(i, n)
      BY <1>2, <2>1, <2>10
    <3>2. \A k \in MissingNodes(ps[i], nl) : [node |-> k, port |-> ps[i].name.nodePort] = u.member
      BY <2>5, <2>6
    <3>3. StaleMembers(ps[i], nl) = {}
      BY <2>5, <2>6, <2>10
    <3>4. u.member \in W
      BY <2>8, <3>1, <3>2
    <3> HIDE DEF M, i
    <3>5. M \cup {u.member} = W
      BY <2>8, <3>2, <3>3, <3>4
    <3> QED
      BY <2>10, <3>5 DEF LastOfPool, W, M, i
  <2> QED
    BY <2>9, <2>10
<1>8. ASSUME NEW i \in DOMAIN ps, ps[i].name.port \in DOMAIN s.ports
      PROVE  PoolCovered(ps, plan, s, nl, i)
  <2> DEFINE q == ps[i].name.port
  <2>1. i \in KeptPools(ps, s)
    BY <1>3, <1>8
  <2>2. AsService(ps[i], s) \/ \E v \in plan : v.op = "UPDATE-POOL" /\ v.id = i
    <3>1. CASE NameChanged(ps[i], s) \/ HealthMonitorChanged(ps[i], s)
      <4> DEFINE v == NewUpdate("UPDATE-POOL", 4, i, gen(q), NoMember)
      <4>1. v \in raw
        BY <2>1, <3>1 DEF raw, Raw, checkPoolForServiceChanges, gen
      <4> QED
        BY <1>1, <4>1
    <3>2. CASE ~NameChanged(ps[i], s) /\ ~HealthMonitorChanged(ps[i], s)
      <4>1. s.hcnp \in Nat /\ s.local \in BOOLEAN
        <5>1. \A x \in HealthPorts \cup {0} : x \in Nat
          BY PortAssumption DEF PortAssumption
        <5>2. s.hcnp \in Nat
          BY <5>1 DEF Service
        <5>3. s.local \in BOOLEAN
          BY Zenon DEF Service
        <5> QED
          BY <5>2, <5>3, Zenon
      <4>2. CASE s.local
        BY <3>2, <4>1, <4>2 DEF NameChanged, HealthMonitorChanged, AsService,
             genLoadBalancerHealthMonitor, getServiceHealthCheckNodePort
      <4>3. CASE ~s.local
        BY <3>2, <4>1, <4>3 DEF NameChanged, HealthMonitorChanged, AsService,
             genLoadBalancerHealthMonitor, getServiceHealthCheckNodePort
      <4> QED
        BY <4>1, <4>2, <4>3
    <3> QED
      BY <3>1, <3>2
  <2>3. \/ ps[i].members = Want(ps, i, s, nl)
        \/ \E v \in plan : v.op \in MemberOps \cup {"REPLACE-POOL-MEMBERS"} /\ v.id = i
    <3>1. CASE NameChanged(ps[i], s)
      <4> DEFINE v == NewUpdate("REPLACE-POOL-MEMBERS", 4, i, gen(q), NoMember)
      <4>1. v \in raw
        BY <2>1, <3>1 DEF raw, Raw, checkPoolForServiceChanges, gen
      <4> QED
        BY <1>1, <4>1
    <3>2. CASE ~NameChanged(ps[i], s)
      <4>1. i \in SamePortPools(ps, s)
        BY <1>4, <2>1, <3>2
      <4>2. CASE StaleMembers(ps[i], nl) = {} /\ MissingNodes(ps[i], nl) = {}
        BY <1>5, <4>1, <4>2
      <4>3. CASE \E v \in raw : v.op \in MemberOps /\ v.id = i
        BY <1>2, <4>3
      <4>4. ASSUME NEW m \in StaleMembers(ps[i], nl) PROVE \E v \in raw : v.op \in MemberOps /\ v.id = i
        <5>1. del(i, m) \in raw /\ del(i, m).op \in MemberOps /\ del(i, m).id = i
          BY <1>2, <4>1 DEF del
        <5> QED
          BY <5>1
      <4>5. ASSUME NEW n \in MissingNodes(ps[i], nl) PROVE \E v \in raw : v.op \in MemberOps /\ v.id = i
        <5>1. add(i, n) \in raw /\ add(i, n).op \in MemberOps /\ add(i, n).id = i
          BY <1>2, <4>1 DEF add
        <5> QED
          BY <5>1
      <4> QED
        BY <4>2, <4>3, <4>4, <4>5
    <3> QED
      BY <3>1, <3>2
  <2> QED
    BY <2>2, <2>3 DEF PoolCovered
<1>9. ASSUME NEW i \in DOMAIN ps, ps[i].name.port \notin DOMAIN s.ports
      PROVE  \E v \in plan : v.op = "DELETE-POOL" /\ v.id = i
  <2> DEFINE v == NewUpdate("DELETE-POOL", 2, i, ps[i].name, NoMember)
  <2>1. v \in raw
    BY <1>9 DEF raw, Raw, checkPoolForExtPortDeletedFromService
  <2> QED
    BY <1>1, <2>1
<1>10. ASSUME NEW q \in DOMAIN s.ports, \A i \in DOMAIN ps : ps[i].name.port # q
       PROVE  \E v \in plan : v.op = "CREATE-POOL" /\ v.name.port = q
  <2> DEFINE v == NewUpdate("CREATE-POOL", 6, NoId, gen(q), NoMember)
  <2>1. v \in raw
    BY <1>10 DEF raw, Raw, checkPoolsForExtPortAddedToService, gen, KeptPools
  <2>2. v.op = "CREATE-POOL" /\ v.name.port = q
    BY DEF gen, genLoadBalancerPoolName
  <2> QED
    BY <1>1, <2>1, <2>2
<1> QED
  BY <1>6, <1>7, <1>8, <1>9, <1>10 DEF Covers, PoolsCovered, PoolKept, plan

-----------------------------------------------------------------------------
(* What is left of a plan covers what is left of the differences. *)

LEMMA ListenersStayCovered ==
  ASSUME NEW ls, NEW plan, NEW s, ListenersCovered(ls, plan, s),
         NEW u \in plan, u.op \notin {"DELETE-LISTENER", "CREATE-LISTENER"}
  PROVE  ListenersCovered(ls, plan \ {u}, s)
  BY DEF ListenersCovered

LEMMA PoolsStayCovered ==
  ASSUME NEW ps, NEW plan, NEW s, NEW nl, PoolsCovered(ps, plan, s, nl),
         NEW u \in plan, u.op \in {"DELETE-LISTENER", "CREATE-LISTENER"}
  PROVE  PoolsCovered(ps, plan \ {u}, s, nl)
<1>1. u.op \notin MemberOps \cup {"DELETE-POOL", "UPDATE-POOL", "REPLACE-POOL-MEMBERS", "CREATE-POOL"}
  BY DEF MemberOps
<1>2. ASSUME NEW i \in DOMAIN ps, PoolCovered(ps, plan, s, nl, i)
      PROVE  PoolCovered(ps, plan \ {u}, s, nl, i)
  BY <1>1, <1>2 DEF PoolCovered
<1>3. ASSUME NEW i \in DOMAIN ps PROVE PoolKept(ps, plan \ {u}, s, nl, i)
  BY <1>1, <1>2 DEF PoolsCovered, PoolKept
<1>4. ASSUME NEW q \in DOMAIN s.ports
      PROVE  \/ \E i \in DOMAIN ps : ps[i].name.port = q
             \/ \E v \in plan \ {u} : v.op = "CREATE-POOL" /\ v.name.port = q
  BY <1>1 DEF PoolsCovered
<1> QED
  BY <1>3, <1>4 DEF PoolsCovered

LEMMA DeleteListenerCovers ==
  ASSUME NEW ls, NEW plan, NEW s, ListenersCovered(ls, plan, s), Apart(plan),
         \A v \in plan : v.op = "DELETE-LISTENER" => v.id \in DOMAIN ls,
         NEW u \in plan, u.op = "DELETE-LISTENER",
         NEW new, DOMAIN new = DOMAIN ls \ {u.id}, \A l \in DOMAIN new : new[l] = ls[l]
  PROVE  ListenersCovered(new, plan \ {u}, s)
<1>1. ls[u.id].port \notin DOMAIN s.ports
  BY DEF ListenersCovered
<1>2. ASSUME NEW v \in plan \ {u}, v.op = "DELETE-LISTENER" PROVE v.id \in DOMAIN new
  BY <1>2 DEF Apart
<1> QED
  BY <1>1, <1>2 DEF ListenersCovered

LEMMA CreateListenerCovers ==
  ASSUME NEW ls, NEW plan, NEW s, ListenersCovered(ls, plan, s), Shape(plan, s),
         \A v \in plan : v.op = "DELETE-LISTENER" => v.id \in DOMAIN ls,
         NEW u \in plan, u.op = "CREATE-LISTENER",
         NEW l, l \notin DOMAIN ls, NEW new, DOMAIN new = DOMAIN ls \cup {l},
         new[l].port = u.name.port, \A k \in DOMAIN ls : new[k] = ls[k]
  PROVE  ListenersCovered(new, plan \ {u}, s)
<1>1. u.name.port \in DOMAIN s.ports
  BY DEF Shape, CreateOps
<1>2. \A k \in DOMAIN new :
        new[k].port \in DOMAIN s.ports \/ \E v \in plan \ {u} : v.op = "DELETE-LISTENER" /\ v.id = k
  BY <1>1 DEF ListenersCovered
<1>3. ASSUME NEW q \in DOMAIN s.ports
      PROVE  \/ \E k \in DOMAIN new : new[k].port = q
             \/ \E v \in plan \ {u} : v.op = "CREATE-LISTENER" /\ v.name.port = q
  <2>1. CASE q = u.name.port
    BY <2>1
  <2>2. CASE q # u.name.port
    BY <2>2 DEF ListenersCovered
  <2> QED
    BY <2>1, <2>2
<1>4. \A v \in plan \ {u} : v.op = "DELETE-LISTENER" => new[v.id].port \notin DOMAIN s.ports
  BY DEF ListenersCovered
<1> QED
  BY <1>2, <1>3, <1>4 DEF ListenersCovered

LEMMA DeletePoolCovers ==
  ASSUME NEW ps, NEW plan, NEW s, NEW nl, PoolsCovered(ps, plan, s, nl), Apart(plan), Shape(plan, s),
         \A v \in plan : v.op \in PoolOps => v.id \in DOMAIN ps,
         NEW u \in plan, u.op = "DELETE-POOL", ps[u.id].name.port = u.name.port,
         NEW new, DOMAIN new = DOMAIN ps \ {u.id}, \A i \in DOMAIN new : new[i] = ps[i]
  PROVE  PoolsCovered(new, plan \ {u}, s, nl)
<1>1. ps[u.id].name.port \notin DOMAIN s.ports
  BY DEF Shape
<1>2. ASSUME NEW i \in DOMAIN new, PoolCovered(ps, plan, s, nl, i)
      PROVE  PoolCovered(new, plan \ {u}, s, nl, i)
  BY <1>2 DEF PoolCovered, MemberOps, Want
<1>3. ASSUME NEW w \in plan \ {u} PROVE LastOfPool(new, w, s, nl)
  <2>1. w.op \in MemberOps => w.id \in DOMAIN new
    BY DEF Apart, PoolOps
  <2>2. LastOfPool(ps, w, s, nl)
    BY DEF PoolsCovered
  <2> QED
    BY <2>1, <2>2 DEF LastOfPool, Want, MemberOps
<1>4. ASSUME NEW q \in DOMAIN s.ports
      PROVE  \/ \E i \in DOMAIN new : new[i].name.port = q
             \/ \E v \in plan \ {u} : v.op = "CREATE-POOL" /\ v.name.port = q
  BY <1>1 DEF PoolsCovered
<1>5. ASSUME NEW i \in DOMAIN new
      PROVE  PoolKept(new, plan \ {u}, s, nl, i)
  <2>1. i \in DOMAIN ps /\ i # u.id /\ new[i] = ps[i] /\ PoolKept(ps, plan, s, nl, i)
    BY DEF PoolsCovered
  <2> QED
    BY <1>2, <2>1 DEF PoolKept
<1> QED
  BY <1>3, <1>4, <1>5 DEF PoolsCovered

\* The members of one pool become what they should be, or its name and health
\* monitor do; the other pools stay as they are.
LEMMA ChangePoolCovers ==
  ASSUME NEW ps, NEW plan, NEW s, NEW nl, PoolsCovered(ps, plan, s, nl), Apart(plan),
         \A v \in plan : v.op \in PoolOps => v.id \in DOMAIN ps,
         NEW u \in plan, u.op \in PoolOps \ {"DELETE-POOL"},
         NEW new, DOMAIN new = DOMAIN ps, u.id \in DOMAIN ps,
         new[u.id].name.port = ps[u.id].name.port,
         IF u.op = "UPDATE-POOL"
         THEN AsService(new[u.id], s) /\ new[u.id].members = ps[u.id].members
         ELSE /\ new[u.id].name = ps[u.id].name /\ new[u.id].hm = ps[u.id].hm
              /\ new[u.id].members = Want(ps, u.id, s, nl),
         \A i \in DOMAIN ps \ {u.id} : new[i] = ps[i]
  PROVE  PoolsCovered(new, plan \ {u}, s, nl)
<1>1. \A i \in DOMAIN ps : Want(new, i, s, nl) = Want(ps, i, s, nl) /\ new[i].name.port = ps[i].name.port
  BY DEF Want
<1>2. ASSUME NEW i \in DOMAIN ps, PoolCovered(ps, plan, s, nl, i)
      PROVE  PoolCovered(new, plan \ {u}, s, nl, i)
  <2>1. CASE i # u.id
    BY <1>1, <1>2, <2>1 DEF PoolCovered
  <2>2. CASE i = u.id /\ u.op = "UPDATE-POOL"
    BY <1>1, <1>2, <2>2 DEF PoolCovered, MemberOps
  <2>3. CASE i = u.id /\ u.op # "UPDATE-POOL"
    BY <1>1, <1>2, <2>3 DEF PoolCovered, AsService
  <2> QED
    BY <2>1, <2>2, <2>3
<1>3. ASSUME NEW w \in plan \ {u} PROVE LastOfPool(new, w, s, nl)
  <2>1. LastOfPool(ps, w, s, nl)
    BY DEF PoolsCovered
  <2> SUFFICES ASSUME w.op \in MemberOps PROVE LastOfPool(new, w, s, nl)
    BY DEF LastOfPool, MemberOps
  <2>2. CASE w.id # u.id
    <3>1. new[w.id] = ps[w.id]
      BY <2>2 DEF PoolOps
    <3> QED
      BY <2>1, <2>2, <3>1 DEF LastOfPool, Want
  <2>3. CASE w.id = u.id
    <3>1. u.op = "UPDATE-POOL"
      BY <2>3 DEF Apart, PoolOps, MemberOps
    <3> QED
      BY <1>1, <2>1, <2>3, <3>1 DEF LastOfPool
  <2> QED
    BY <2>2, <2>3
<1>4. \A v \in plan : v.op \in {"DELETE-POOL", "CREATE-POOL"} => v # u
  BY DEF PoolOps, MemberOps
<1>5. ASSUME NEW i \in DOMAIN ps
      PROVE  PoolKept(new, plan \ {u}, s, nl, i)
  BY <1>1, <1>2, <1>4 DEF PoolsCovered, PoolKept
<1>6. ASSUME NEW q \in DOMAIN s.ports
      PROVE  \/ \E i \in DOMAIN new : new[i].name.port = q
             \/ \E v \in plan \ {u} : v.op = "CREATE-POOL" /\ v.name.port = q
  BY <1>1, <1>4 DEF PoolsCovered
<1> QED
  BY <1>3, <1>5, <1>6 DEF PoolsCovered

LEMMA CreatePoolCovers ==
  ASSUME NEW ps, NEW plan, NEW s, NEW nl, PoolsCovered(ps, plan, s, nl), Shape(plan, s),
         \A v \in plan : v.op \in PoolOps => v.id \in DOMAIN ps,
         NEW u \in plan, u.op = "CREATE-POOL",
         NEW i, i \notin DOMAIN ps, NEW new, DOMAIN new = DOMAIN ps \cup {i},
         new[i] = NewPool(u.name, nl, getServiceHealthCheckNodePort(s)),
         \A j \in DOMAIN ps : new[j] = ps[j]
  PROVE  PoolsCovered(new, plan \ {u}, s, nl)
<1>1. /\ u.name.port \in DOMAIN s.ports
      /\ u.name = genLoadBalancerPoolName(s, u.name.port)
  BY DEF Shape, CreateOps
<1>2. u.name.nodePort = s.ports[u.name.port]
  BY <1>1 DEF genLoadBalancerPoolName
<1>3. /\ new[i].name = u.name
      /\ new[i].members = genLoadBalancerMembers(u.name.nodePort, nl)
      /\ new[i].hm = genLoadBalancerHealthMonitor(u.name.nodePort, getServiceHealthCheckNodePort(s))
  BY DEF NewPool
<1>4. PoolCovered(new, plan \ {u}, s, nl, i)
  BY <1>1, <1>2, <1>3 DEF PoolCovered, AsService, Want
<1>5. ASSUME NEW j \in DOMAIN ps, PoolCovered(ps, plan, s, nl, j)
      PROVE  PoolCovered(new, plan \ {u}, s, nl, j)
  BY <1>5 DEF PoolCovered, MemberOps, Want
<1>6. ASSUME NEW j \in DOMAIN new
      PROVE  PoolKept(new, plan \ {u}, s, nl, j)
  <2>1. CASE j = i
    BY <1>1, <1>3, <1>4, <2>1 DEF PoolKept
  <2>2. CASE j \in DOMAIN ps
    BY <1>5, <2>2 DEF PoolsCovered, PoolKept
  <2> QED
    BY <2>1, <2>2
<1>7. ASSUME NEW w \in plan \ {u} PROVE LastOfPool(new, w, s, nl)
  <2>1. LastOfPool(ps, w, s, nl)
    BY DEF PoolsCovered
  <2>2. w.op \in MemberOps => new[w.id] = ps[w.id]
    BY DEF PoolOps
  <2> QED
    BY <2>1, <2>2 DEF LastOfPool, Want, MemberOps
<1>8. ASSUME NEW q \in DOMAIN s.ports
      PROVE  \/ \E j \in DOMAIN new : new[j].name.port = q
             \/ \E v \in plan \ {u} : v.op = "CREATE-POOL" /\ v.name.port = q
  <2>1. CASE q = u.name.port
    BY <1>3, <2>1
  <2>2. CASE q # u.name.port
    BY <2>2 DEF PoolsCovered
  <2> QED
    BY <2>1, <2>2
<1> QED
  BY <1>6, <1>7, <1>8 DEF PoolsCovered

-----------------------------------------------------------------------------
(* The invariant. *)

OneListenerPerPort ==
  \A k, l \in DOMAIN lb.listeners : lb.listeners[k].port = lb.listeners[l].port => k = l

\* What the rest of the plan of a run is good for.
RestCovers(j) == Covers(lb.listeners, lb.pools, j.plan, j.svc, j.nodeList)

CInv(p) ==
  /\ OneListenerPerPort
  /\ pc[p] \in {"get", "wait", "exec"} => RestCovers(job[p])

\* Before the first run nothing is planned.
LEMMA CoversInit ==
  ASSUME Init, NEW p \in Procs PROVE CInv(p)
<1>1. PICK nodeList \in filterNodesByServiceMemberQuota(getNodeIDs(nodes), {}, svc),
           id \in Injection(DOMAIN svc.ports, PoolIds \cap ListenerIds) :
             lb = CreateLoadBalancer(svc, nodeList, id)
  BY DEF Init
<1> DEFINE ports   == DOMAIN svc.ports
           port(i) == CHOOSE q \in ports : id[q] = i
           ids     == {id[q] : q \in ports}
<1>2. \A i \in ids : id[port(i)] = i
  OBVIOUS
<1>3. DOMAIN lb.listeners = ids /\ \A i \in ids : lb.listeners[i].port = port(i)
  BY <1>1 DEF CreateLoadBalancer
<1>4. OneListenerPerPort
  BY <1>2, <1>3 DEF OneListenerPerPort
<1>5. pc[p] = "idle"
  BY DEF Init
<1> QED
  BY <1>4, <1>5 DEF CInv

\* A step that leaves the load balancer and what the plan is for as they are.
LEMMA SameCovers ==
  ASSUME NEW p \in Procs, CInv(p),
         lb'.listeners = lb.listeners, lb'.pools = lb.pools,
         pc'[p] \in {"get", "wait", "exec"} =>
           /\ pc[p] \in {"get", "wait", "exec"}
           /\ job'[p].plan = job[p].plan /\ job'[p].svc = job[p].svc
           /\ job'[p].nodeList = job[p].nodeList
  PROVE  CInv(p)'
  BY DEF CInv, RestCovers, OneListenerPerPort

\* The load balancer b once the update u of run p is done.
CoversAfter(p, u, b) ==
  /\ \A k, l \in DOMAIN b.listeners : b.listeners[k].port = b.listeners[l].port => k = l
  /\ Covers(b.listeners, b.pools, job[p].plan \ {u}, job[p].svc, job[p].nodeList)

LEMMA ProcessFacts ==
  ASSUME IInv, NEW p \in Procs, SInv(p), CInv(p), NEW u \in job[p].plan, Processed(p, u)
  PROVE  /\ lb \in LoadBalancer /\ pc[p] = "exec" /\ Accepts(lb, u, ListenerPool(p, u))
         /\ Shape(job[p].plan, job[p].svc) /\ Apart(job[p].plan)
         /\ \A v \in job[p].plan :
              /\ v.op = "DELETE-LISTENER" => v.id \in DOMAIN lb.listeners
              /\ v.op \in PoolOps => v.id \in DOMAIN lb.pools
              /\ v.op \in PoolOps => lb.pools[v.id].name.port = v.name.port
         /\ ListenersCovered(lb.listeners, job[p].plan, job[p].svc)
         /\ PoolsCovered(lb.pools, job[p].plan, job[p].svc, job[p].nodeList)
         /\ OneListenerPerPort
         /\ \A i \in DOMAIN lb.pools : lb.pools[i] \in Pool
<1>1. pc[p] = "exec" /\ Accepts(lb, u, ListenerPool(p, u))
  BY DEF Processed
<1>2. Shape(job[p].plan, job[p].svc) /\ Apart(job[p].plan)
  BY DEF SInv, Fits
<1>3. RestCovers(job[p]) /\ OneListenerPerPort
  BY <1>1 DEF CInv
<1>4. \A v \in job[p].plan : /\ v.op \in PoolOps => lb.pools[v.id].name.port = v.name.port
                             /\ v.op = "DELETE-LISTENER" => v.id \in DOMAIN lb.listeners
                             /\ v.op \in PoolOps => v.id \in DOMAIN lb.pools
  BY PlannedUpdate DEF DueNow
<1>5. lb \in LoadBalancer /\ \A i \in DOMAIN lb.pools : lb.pools[i] \in Pool
  BY UpdateFacts DEF IInv
<1> QED
  BY <1>1, <1>2, <1>3, <1>4, <1>5 DEF RestCovers, Covers

LEMMA ListenerOpsCover ==
  ASSUME IInv, NEW p \in Procs, SInv(p), CInv(p), NEW u \in job[p].plan,
         deleteLoadBalancerListener(p, u) \/ createLoadBalancerListener(p, u)
  PROVE  CoversAfter(p, u, lb')
<1> DEFINE plan == job[p].plan
           s    == job[p].svc
<1>1. Processed(p, u) /\ u.op \in {"DELETE-LISTENER", "CREATE-LISTENER"}
  BY DEF deleteLoadBalancerListener, createLoadBalancerListener
<1>2. /\ lb \in LoadBalancer /\ Accepts(lb, u, ListenerPool(p, u))
      /\ Shape(plan, s) /\ Apart(plan) /\ OneListenerPerPort
      /\ \A v \in plan : v.op = "DELETE-LISTENER" => v.id \in DOMAIN lb.listeners
      /\ ListenersCovered(lb.listeners, plan, s)
      /\ PoolsCovered(lb.pools, plan, s, job[p].nodeList)
  BY <1>1, ProcessFacts
<1>3. PoolsCovered(lb.pools, plan \ {u}, s, job[p].nodeList)
  BY <1>1, <1>2, PoolsStayCovered
<1>4. CASE deleteLoadBalancerListener(p, u)
  <2>1. /\ u.op = "DELETE-LISTENER" /\ lb'.pools = lb.pools
        /\ lb'.listeners = Restrict(lb.listeners, DOMAIN lb.listeners \ {u.id})
    BY <1>2, <1>4 DEF deleteLoadBalancerListener, DeleteLoadBalancerListener,
                      WithListeners, LoadBalancer
  <2>2. /\ DOMAIN lb'.listeners = DOMAIN lb.listeners \ {u.id}
        /\ \A l \in DOMAIN lb'.listeners : lb'.listeners[l] = lb.listeners[l]
    BY <2>1 DEF Restrict
  <2>3. ListenersCovered(lb'.listeners, plan \ {u}, s)
    BY <1>2, <2>1, <2>2, DeleteListenerCovers
  <2> QED
    BY <1>2, <1>3, <2>1, <2>2, <2>3 DEF CoversAfter, Covers, OneListenerPerPort
<1>5. CASE createLoadBalancerListener(p, u)
  <2> DEFINE i == ListenerPool(p, u)
  <2>1. PICK l \in ListenerIds :
          FreshListener(l) /\ lb' = CreateLoadBalancerListener(lb, l, u.name, i)
    BY <1>5 DEF createLoadBalancerListener
  <2> DEFINE new == [port |-> u.name.port, pool |-> i]
  <2>2. u.op = "CREATE-LISTENER" /\ PortUnused(lb, u.name.port)
    BY <1>2, <1>5 DEF createLoadBalancerListener, Accepts
  <2>3. lb'.pools = lb.pools /\ lb'.listeners = Extend(lb.listeners, l, new)
    BY <1>2, <2>1 DEF CreateLoadBalancerListener, WithListeners, LoadBalancer
  <2>4. l \notin DOMAIN lb.listeners
    BY <2>1 DEF FreshListener
  <2>5. /\ DOMAIN lb'.listeners = DOMAIN lb.listeners \cup {l}
        /\ lb'.listeners[l].port = u.name.port
        /\ \A k \in DOMAIN lb.listeners : lb'.listeners[k] = lb.listeners[k]
    BY <2>3, <2>4 DEF Extend
  <2>6. ListenersCovered(lb'.listeners, plan \ {u}, s)
    BY <1>2, <2>2, <2>4, <2>5, CreateListenerCovers
  <2>7. \A k, m \in DOMAIN lb'.listeners : lb'.listeners[k].port = lb'.listeners[m].port => k = m
    BY <1>2, <2>2, <2>5 DEF OneListenerPerPort, PortUnused
  <2> QED
    BY <1>3, <2>3, <2>6, <2>7 DEF CoversAfter, Covers
<1> QED
  BY <1>4, <1>5

\* The other updates leave the listeners alone.
LEMMA PoolOpCovers ==
  ASSUME NEW p \in Procs, NEW u \in job[p].plan, OneListenerPerPort,
         u.op \notin {"DELETE-LISTENER", "CREATE-LISTENER"},
         ListenersCovered(lb.listeners, job[p].plan, job[p].svc),
         lb'.listeners = lb.listeners,
         PoolsCovered(lb'.pools, job[p].plan \ {u}, job[p].svc, job[p].nodeList)
  PROVE  CoversAfter(p, u, lb')
  BY ListenersStayCovered DEF CoversAfter, Covers, OneListenerPerPort

\* The members of the pool become what they should be: an update of a single
\* member is the last one its pool needs.
LEMMA MembersBecomeWanted ==
  ASSUME IInv, NEW p \in Procs, SInv(p), CInv(p), NEW u \in job[p].plan,
         \/ deleteLoadBalancerPoolMember(p, u)
         \/ createLoadBalancerPoolMember(p, u)
         \/ replaceLoadBalancerPoolMembers(p, u)
  PROVE  /\ Processed(p, u) /\ u.op \in MemberOps \cup {"REPLACE-POOL-MEMBERS"}
         /\ u.id \in DOMAIN lb.pools
         /\ lb'.listeners = lb.listeners
         /\ LET want == Want(lb.pools, u.id, job[p].svc, job[p].nodeList)
            IN  /\ lb' = WithPools(lb, [lb.pools EXCEPT ![u.id].members = want])
                /\ lb'.pools = [lb.pools EXCEPT ![u.id].members = want]
<1> DEFINE s    == job[p].svc
           nl   == job[p].nodeList
           want == Want(lb.pools, u.id, s, nl)
<1>1. Processed(p, u) /\ u.op \in MemberOps \cup {"REPLACE-POOL-MEMBERS"}
      /\ u.id \in DOMAIN lb.pools
  BY DEF deleteLoadBalancerPoolMember, createLoadBalancerPoolMember,
         replaceLoadBalancerPoolMembers, Processed, Accepts, MemberOps
<1>2. /\ lb \in LoadBalancer /\ PoolsCovered(lb.pools, job[p].plan, s, nl)
      /\ lb.pools[u.id].name.port = u.name.port
  BY <1>1, ProcessFacts DEF PoolOps
<1>3. LastOfPool(lb.pools, u, s, nl)
  BY <1>2 DEF PoolsCovered
<1> HIDE DEF want
<1>4. lb' = WithPools(lb, [lb.pools EXCEPT ![u.id].members = want])
  <2>1. CASE deleteLoadBalancerPoolMember(p, u)
    BY <1>3, <2>1 DEF deleteLoadBalancerPoolMember, DeleteLoadBalancerPoolMember, LastOfPool, want
  <2>2. CASE createLoadBalancerPoolMember(p, u)
    BY <1>3, <2>2 DEF createLoadBalancerPoolMember, CreateLoadBalancerPoolMember, LastOfPool, want
  <2>3. CASE replaceLoadBalancerPoolMembers(p, u)
    <3>1. u.op = "REPLACE-POOL-MEMBERS"
      BY <2>3 DEF replaceLoadBalancerPoolMembers
    <3>2. u.name.nodePort = s.ports[u.name.port]
      BY <3>1 DEF IInv, JobOK, Spares
    <3>3. want = genLoadBalancerMembers(u.name.nodePort, nl)
      BY <1>2, <3>2 DEF Want, want
    <3> QED
      BY <2>3, <3>3 DEF replaceLoadBalancerPoolMembers, ReplaceLoadBalancerPoolMembers
  <2> QED
    BY <2>1, <2>2, <2>3
<1>5. /\ lb'.listeners = lb.listeners
      /\ lb'.pools = [lb.pools EXCEPT ![u.id].members = want]
  BY <1>2, <1>4 DEF WithPools, LoadBalancer
<1> QED
  BY <1>1, <1>4, <1>5 DEF want

LEMMA MemberOpsCover ==
  ASSUME IInv, NEW p \in Procs, SInv(p), CInv(p), NEW u \in job[p].plan,
         \/ deleteLoadBalancerPoolMember(p, u)
         \/ createLoadBalancerPoolMember(p, u)
         \/ replaceLoadBalancerPoolMembers(p, u)
  PROVE  CoversAfter(p, u, lb')
<1> DEFINE plan == job[p].plan
           s    == job[p].svc
           nl   == job[p].nodeList
           want == Want(lb.pools, u.id, s, nl)
<1>1. /\ Processed(p, u) /\ u.op \in MemberOps \cup {"REPLACE-POOL-MEMBERS"}
      /\ u.id \in DOMAIN lb.pools
  BY MembersBecomeWanted
<1>2. /\ Apart(plan) /\ OneListenerPerPort
      /\ \A v \in plan : v.op \in PoolOps => v.id \in DOMAIN lb.pools
      /\ ListenersCovered(lb.listeners, plan, s) /\ PoolsCovered(lb.pools, plan, s, nl)
      /\ \A i \in DOMAIN lb.pools : lb.pools[i] \in Pool
  BY <1>1, ProcessFacts
<1>5. /\ lb'.listeners = lb.listeners
      /\ lb'.pools = [lb.pools EXCEPT ![u.id].members = want]
  BY MembersBecomeWanted
<1> HIDE DEF want
<1>6. /\ DOMAIN lb'.pools = DOMAIN lb.pools
      /\ lb'.pools[u.id].members = want
      /\ lb'.pools[u.id].name = lb.pools[u.id].name /\ lb'.pools[u.id].hm = lb.pools[u.id].hm
      /\ \A i \in DOMAIN lb.pools \ {u.id} : lb'.pools[i] = lb.pools[i]
  BY <1>1, <1>2, <1>5 DEF Pool
<1>7. u.op \in PoolOps \ {"DELETE-POOL"} /\ u.op # "UPDATE-POOL"
      /\ u.op \notin {"DELETE-LISTENER", "CREATE-LISTENER"}
  BY <1>1 DEF PoolOps, MemberOps
<1>8. PoolsCovered(lb'.pools, plan \ {u}, s, nl)
  <2> HIDE DEF plan, s, nl
  <2>1. u \in plan
    BY DEF plan
  <2> QED
    BY <1>1, <1>2, <1>6, <1>7, <2>1, ChangePoolCovers DEF want
<1> QED
  BY <1>2, <1>5, <1>7, <1>8, PoolOpCovers

LEMMA UpdatePoolCovers ==
  ASSUME IInv, NEW p \in Procs, SInv(p), CInv(p), NEW u \in job[p].plan,
         updateLoadBalancerPool(p, u)
  PROVE  CoversAfter(p, u, lb')
<1> DEFINE plan == job[p].plan
           s    == job[p].svc
           nl   == job[p].nodeList
           hm   == genLoadBalancerHealthMonitor(u.name.nodePort, getServiceHealthCheckNodePort(s))
<1>1. Processed(p, u) /\ u.op = "UPDATE-POOL" /\ u.id \in DOMAIN lb.pools
  BY DEF updateLoadBalancerPool, Processed, Accepts
<1>2. /\ lb \in LoadBalancer /\ Apart(plan) /\ OneListenerPerPort /\ Shape(plan, s)
      /\ \A v \in plan : v.op \in PoolOps => v.id \in DOMAIN lb.pools
      /\ ListenersCovered(lb.listeners, plan, s) /\ PoolsCovered(lb.pools, plan, s, nl)
      /\ \A i \in DOMAIN lb.pools : lb.pools[i] \in Pool
      /\ lb.pools[u.id].name.port = u.name.port
  BY <1>1, ProcessFacts DEF PoolOps
<1>3. /\ lb'.listeners = lb.listeners
      /\ lb'.pools = [lb.pools EXCEPT ![u.id].name = u.name, ![u.id].hm = hm]
  BY <1>2 DEF updateLoadBalancerPool, UpdateLoadBalancerPool, WithPools, LoadBalancer
<1> HIDE DEF hm
<1>4. /\ DOMAIN lb'.pools = DOMAIN lb.pools
      /\ lb'.pools[u.id].name = u.name /\ lb'.pools[u.id].hm = hm
      /\ lb'.pools[u.id].members = lb.pools[u.id].members
      /\ \A i \in DOMAIN lb.pools \ {u.id} : lb'.pools[i] = lb.pools[i]
  <2>1. /\ DOMAIN lb'.pools = DOMAIN lb.pools
        /\ \A i \in DOMAIN lb.pools \ {u.id} : lb'.pools[i] = lb.pools[i]
        /\ lb'.pools[u.id] = [lb.pools[u.id] EXCEPT !.name = u.name, !.hm = hm]
    BY <1>1, <1>3, Zenon
  <2>2. lb.pools[u.id] \in Pool
    BY <1>1, <1>2
  <2> QED
    BY <2>1, <2>2 DEF Pool
<1>5. AsService(lb'.pools[u.id], s)
  <2>1. u.name = genLoadBalancerPoolName(s, u.name.port)
    BY <1>1, <1>2 DEF Shape
  <2>2. u.name.nodePort = s.ports[u.name.port]
    BY <2>1 DEF genLoadBalancerPoolName
  <2> QED
    BY <1>4, <2>1, <2>2 DEF AsService, hm
<1>6. PoolsCovered(lb'.pools, plan \ {u}, s, nl)
  <2> HIDE DEF plan, s, nl
  <2>1. u \in plan /\ u.op \in PoolOps \ {"DELETE-POOL"}
    BY <1>1 DEF plan, PoolOps
  <2> QED
    BY <1>1, <1>2, <1>4, <1>5, <2>1, ChangePoolCovers
<1> QED
  BY <1>1, <1>2, <1>3, <1>6, PoolOpCovers

LEMMA DeletePoolStepCovers ==
  ASSUME IInv, NEW p \in Procs, SInv(p), CInv(p), NEW u \in job[p].plan,
         deleteLoadBalancerPool(p, u)
  PROVE  CoversAfter(p, u, lb')
<1> DEFINE plan == job[p].plan
           s    == job[p].svc
           nl   == job[p].nodeList
<1>1. Processed(p, u) /\ u.op = "DELETE-POOL"
  BY DEF deleteLoadBalancerPool
<1>2. /\ lb \in LoadBalancer /\ Apart(plan) /\ OneListenerPerPort /\ Shape(plan, s)
      /\ \A v \in plan : v.op \in PoolOps => v.id \in DOMAIN lb.pools
      /\ ListenersCovered(lb.listeners, plan, s) /\ PoolsCovered(lb.pools, plan, s, nl)
      /\ lb.pools[u.id].name.port = u.name.port
  BY <1>1, ProcessFacts DEF PoolOps
<1>3. /\ lb'.listeners = lb.listeners
      /\ lb'.pools = Restrict(lb.pools, DOMAIN lb.pools \ {u.id})
  BY <1>2 DEF deleteLoadBalancerPool, DeleteLoadBalancerPool, WithPools, LoadBalancer
<1>4. /\ DOMAIN lb'.pools = DOMAIN lb.pools \ {u.id}
      /\ \A i \in DOMAIN lb'.pools : lb'.pools[i] = lb.pools[i]
  BY <1>3 DEF Restrict
<1>5. PoolsCovered(lb'.pools, plan \ {u}, s, nl)
  BY <1>1, <1>2, <1>4, DeletePoolCovers
<1> QED
  BY <1>1, <1>2, <1>3, <1>5, PoolOpCovers

LEMMA CreatePoolStepCovers ==
  ASSUME IInv, NEW p \in Procs, SInv(p), CInv(p), NEW u \in job[p].plan,
         createLoadBalancerPool(p, u)
  PROVE  CoversAfter(p, u, lb')
<1> DEFINE plan == job[p].plan
           s    == job[p].svc
           nl   == job[p].nodeList
           pool == NewPool(u.name, nl, getServiceHealthCheckNodePort(s))
<1>1. Processed(p, u) /\ u.op = "CREATE-POOL"
  BY DEF createLoadBalancerPool
<1>2. /\ lb \in LoadBalancer /\ OneListenerPerPort /\ Shape(plan, s)
      /\ \A v \in plan : v.op \in PoolOps => v.id \in DOMAIN lb.pools
      /\ ListenersCovered(lb.listeners, plan, s) /\ PoolsCovered(lb.pools, plan, s, nl)
  BY <1>1, ProcessFacts
<1>3. PICK i \in PoolIds : FreshPool(i) /\ lb' = WithPools(lb, Extend(lb.pools, i, pool))
  BY DEF createLoadBalancerPool, CreateLoadBalancerPool
<1> HIDE DEF pool
<1>4. lb'.listeners = lb.listeners /\ lb'.pools = Extend(lb.pools, i, pool)
  BY <1>2, <1>3 DEF WithPools, LoadBalancer
<1>5. i \notin DOMAIN lb.pools
  BY <1>3 DEF FreshPool
<1>6. /\ DOMAIN lb'.pools = DOMAIN lb.pools \cup {i} /\ lb'.pools[i] = pool
      /\ \A j \in DOMAIN lb.pools : lb'.pools[j] = lb.pools[j]
  BY <1>4, <1>5 DEF Extend
<1>7. PoolsCovered(lb'.pools, plan \ {u}, s, nl)
  BY <1>1, <1>2, <1>5, <1>6, CreatePoolCovers DEF pool
<1> QED
  BY <1>1, <1>2, <1>4, <1>7, PoolOpCovers

LEMMA ProcessCovers ==
  ASSUME IInv, NEW p \in Procs, SInv(p), CInv(p), NEW u \in job[p].plan, Process(p, u)
  PROVE  Processed(p, u) /\ CoversAfter(p, u, lb')
<1>1. Processed(p, u)
  BY DEF Process, deleteLoadBalancerListener, deleteLoadBalancerPool,
         deleteLoadBalancerPoolMember, updateLoadBalancerPool, replaceLoadBalancerPoolMembers,
         createLoadBalancerPoolMember, createLoadBalancerPool, createLoadBalancerListener
<1> QED
  BY <1>1, ListenerOpsCover, MemberOpsCover, UpdatePoolCovers, DeletePoolStepCovers,
     CreatePoolStepCovers
  DEF Process

-----------------------------------------------------------------------------
(* Steps. *)

\* A plan that is not empty covers what it was planned from; when it is empty
\* nothing is left.
LEMMA PlanCovers ==
  ASSUME IInv, NEW p \in Procs, SInv(p), CInv(p), Plan(p)
  PROVE  /\ CInv(p)'
         /\ Finish(p, "ok") =>
              \E nodeList \in NodeLists(job[p]) :
                /\ nodeList \in SUBSET Nodes
                /\ Covers(lb.listeners, lb.pools, {}, job[p].svc, nodeList)
<1>0. lb' = lb /\ pc[p] = "members" /\ job[p].unread = {} /\ NamesParse(job[p].pools)
  BY DEF Plan
<1>1. /\ job[p] \in Job /\ lb \in LoadBalancer /\ lb.pools \in PartialFcns(PoolIds, Pool)
      /\ job[p].svc \in Service /\ job[p].pools \in PartialFcns(PoolIds, Pool)
  BY DEF IInv, JobOK, LoadBalancer, Job
<1>2. job[p].pools = lb.pools
  <2>1. /\ DOMAIN job[p].pools = DOMAIN lb.pools
        /\ \A i \in DOMAIN lb.pools : job[p].pools[i] = lb.pools[i]
    BY <1>0 DEF SInv, Read
  <2>2. /\ lb.pools \in [DOMAIN lb.pools -> Pool]
        /\ job[p].pools \in [DOMAIN job[p].pools -> Pool]
    BY <1>1, PartialFcnDef
  <2> QED
    BY <2>1, <2>2
<1>3. job[p].listeners = lb.listeners
  BY <1>0 DEF SInv
<1> DEFINE plan(nodeList) == UpdatesRequired(lb.listeners, lb.pools, job[p].svc, nodeList)
<1>4. ASSUME NEW nodeList \in NodeLists(job[p])
      PROVE  /\ nodeList \in SUBSET Nodes
             /\ Covers(lb.listeners, lb.pools, plan(nodeList), job[p].svc, nodeList)
  BY <1>0, <1>1, <1>2, NodeListType, NewPlanCovers
<1> HIDE DEF plan
<1>5. PICK nodeList \in NodeLists(job[p]) :
        IF plan(nodeList) = {}
        THEN Finish(p, "ok")
        ELSE /\ pc' = [pc EXCEPT ![p] = "exec"]
             /\ job' = [job EXCEPT ![p].nodeList = nodeList, ![p].plan = plan(nodeList),
                                   ![p].nodes = {}, ![p].listeners = Empty,
                                   ![p].pools = Empty]
  BY <1>2, <1>3 DEF Plan, plan
<1>6. CASE plan(nodeList) = {}
  <2>1. pc'[p] = "idle"
    BY <1>5, <1>6 DEF Finish, IInv, ControlOK
  <2> QED
    BY <1>0, <1>4, <1>6, <2>1, SameCovers
<1>7. CASE plan(nodeList) # {}
  <2>1. pc'[p] = "exec"
    BY <1>5, <1>7 DEF IInv, ControlOK
  <2>2. ~Finish(p, "ok")
    BY <2>1 DEF Finish, IInv, ControlOK
  <2>3. job'[p] = [job[p] EXCEPT !.nodeList = nodeList, !.plan = plan(nodeList), !.nodes = {},
                                 !.listeners = Empty, !.pools = Empty]
    BY <1>5, <1>7 DEF IInv
  <2>4. /\ job'[p].plan = plan(nodeList) /\ job'[p].svc = job[p].svc
        /\ job'[p].nodeList = nodeList
    BY <1>1, <2>3 DEF Job
  <2>5. RestCovers(job[p])'
    BY <1>0, <1>4, <2>4 DEF RestCovers
  <2> QED
    BY <1>0, <2>2, <2>5 DEF CInv, OneListenerPerPort
<1> QED
  BY <1>6, <1>7

\* After an update the rest of the plan covers what it is still for.
LEMMA ProcessedCovers ==
  ASSUME IInv, NEW p \in Procs, SInv(p), CInv(p), NEW u \in job[p].plan, Process(p, u)
  PROVE  CInv(p)'
<1>1. Processed(p, u) /\ CoversAfter(p, u, lb')
  BY ProcessCovers
<1>2. OneListenerPerPort'
  BY <1>1 DEF CoversAfter, OneListenerPerPort
<1>3. CASE Finish(p, "ok")
  <2>1. pc'[p] = "idle"
    BY <1>3 DEF Finish, IInv, ControlOK
  <2> QED
    BY <1>2, <2>1 DEF CInv
<1>4. CASE job' = [job EXCEPT ![p].plan = job[p].plan \ {u}, ![p].view = Empty]
  <2>1. job[p] \in Job
    BY DEF IInv, JobOK
  <2>2. /\ job'[p].plan = job[p].plan \ {u} /\ job'[p].svc = job[p].svc
        /\ job'[p].nodeList = job[p].nodeList
    BY <1>4, <2>1 DEF IInv, Job
  <2>3. RestCovers(job[p])'
    BY <1>1, <2>2 DEF RestCovers, CoversAfter
  <2> QED
    BY <1>2, <2>3 DEF CInv
<1> QED
  BY <1>1, <1>3, <1>4 DEF Processed

LEMMA CoversStep ==
  ASSUME NEW p, Procs = {p}, UserPools = {}, IInv, SInv(p), CInv(p), [Next]_vars
  PROVE  CInv(p)'
<1> USE DEF IInv, ControlOK
<1>1. CASE EditService \/ ChangeNodes \/ UNCHANGED vars
  BY <1>1, SameCovers DEF EditService, ChangeNodes, vars
<1>2. ~AddUserPool
  BY DEF AddUserPool
<1>3. CASE Settle
  <2>1. /\ lb'.listeners = lb.listeners /\ lb'.pools = lb.pools /\ UNCHANGED <<pc, job>>
    BY <1>3 DEF Settle, LoadBalancer
  <2> QED
    BY <2>1, SameCovers
<1>4. ASSUME NEW r, Finish(p, r), lb' = lb
      PROVE  CInv(p)'
  <2>1. pc'[p] = "idle"
    BY <1>4 DEF Finish
  <2> QED
    BY <1>4, <2>1, SameCovers
<1>5. CASE RefuseUpdate(p) \/ RefusePlan(p) \/ Rejected(p) \/ Fail(p)
  BY <1>4, <1>5 DEF RefuseUpdate, RefusePlan, Rejected, Fail
<1>6. CASE ReadKube(p) \/ FindLoadBalancer(p) \/ ListLoadBalancerListeners(p) \/ ListLoadBalancerPools(p)
  <2>1. lb' = lb /\ pc'[p] \notin {"get", "wait", "exec"}
    BY <1>6 DEF ReadKube, FindLoadBalancer, ListLoadBalancerListeners, ListLoadBalancerPools
  <2> QED
    BY <2>1, SameCovers
<1>7. CASE ListLoadBalancerPoolMembers(p)
  <2>1. lb' = lb /\ pc[p] = "members"
    BY <1>7 DEF ListLoadBalancerPoolMembers
  <2>2. CASE Finish(p, "error")
    BY <1>4, <2>1, <2>2
  <2>3. CASE pc' = pc
    BY <2>1, <2>3, SameCovers
  <2> QED
    BY <1>7, <2>2, <2>3 DEF ListLoadBalancerPoolMembers
<1>8. CASE GetLoadBalancer(p) \/ WaitLoadBalancerReady(p)
  <2>1. lb' = lb /\ pc[p] \in {"get", "wait"} /\ job[p] \in Job
    BY <1>8 DEF GetLoadBalancer, WaitLoadBalancerReady, JobOK
  <2>2. job' = job \/ job' = [job EXCEPT ![p].view = Names(lb.pools)]
    BY <1>8 DEF GetLoadBalancer, WaitLoadBalancerReady
  <2>3. /\ job'[p].plan = job[p].plan /\ job'[p].svc = job[p].svc
        /\ job'[p].nodeList = job[p].nodeList
    BY <2>1, <2>2 DEF Job
  <2> QED
    BY <2>1, <2>3, SameCovers
<1>9. CASE Plan(p) \/ \E u \in job[p].plan : Process(p, u)
  BY <1>9, PlanCovers, ProcessedCovers
<1> QED
  BY <1>1, <1>2, <1>3, <1>5, <1>6, <1>7, <1>8, <1>9 DEF Next, Run

LEMMA SyncHolds ==
  ASSUME NEW p, Procs = {p}, UserPools = {} PROVE Spec => [](IInv /\ SInv(p) /\ CInv(p))
<1>1. Init => CInv(p)
  BY CoversInit
<1>2. IInv /\ SInv(p) /\ CInv(p) /\ [Next]_vars => CInv(p)'
  BY CoversStep
<1>3. Spec => [](IInv /\ SInv(p))
  BY SerialHolds
<1> QED
  BY <1>1, <1>2, <1>3, PTL DEF Spec

-----------------------------------------------------------------------------
(* Success. *)

\* Success is an empty plan, at once or after the last update.
LEMMA SuccessStep ==
  ASSUME NEW p, Procs = {p}, UserPools = {}, IInv, SInv(p), CInv(p), [Next]_vars,
         IInv', SInv(p)', pc[p] # "idle", pc'[p] = "idle", outcome'[p] = "ok"
  PROVE  /\ pc[p] \in {"members", "exec"}
         /\ \E nodeList \in IF pc[p] = "exec" THEN {job[p].nodeList} ELSE NodeLists(job[p]) :
              Matches(lb', job[p].svc, nodeList)
<1> USE DEF IInv, ControlOK
<1>1. CASE Plan(p)
  <2>1. Finish(p, "ok") /\ lb' = lb /\ pc[p] = "members"
    BY <1>1 DEF Plan
  <2>2. PICK nodeList \in NodeLists(job[p]) :
          nodeList \in SUBSET Nodes /\ Covers(lb.listeners, lb.pools, {}, job[p].svc, nodeList)
    BY <1>1, <2>1, PlanCovers
  <2>3. Matches(lb, job[p].svc, nodeList)
    BY <2>2, NothingLeft DEF CInv, SInv, OneListenerPerPort, OnePoolPerPort, ListenerPoolMatch
  <2> QED
    BY <2>1, <2>2, <2>3
<1>2. ASSUME NEW u \in job[p].plan, Process(p, u)
      PROVE  Matches(lb', job[p].svc, job[p].nodeList) /\ pc[p] = "exec"
  <2>1. Processed(p, u) /\ CoversAfter(p, u, lb')
    BY <1>2, ProcessCovers
  <2>2. pc[p] = "exec" /\ job[p].plan \ {u} = {}
    BY <2>1 DEF Processed
  <2>3. Covers(lb'.listeners, lb'.pools, {}, job[p].svc, job[p].nodeList)
    BY <2>1, <2>2 DEF CoversAfter
  <2>4. /\ lb' \in LoadBalancer
        /\ \A i, j \in DOMAIN lb'.pools : lb'.pools[i].name.port = lb'.pools[j].name.port => i = j
        /\ \A k, l \in DOMAIN lb'.listeners : lb'.listeners[k].port = lb'.listeners[l].port => k = l
        /\ \A l \in DOMAIN lb'.listeners :
             /\ lb'.listeners[l].pool \in DOMAIN lb'.pools
             /\ lb'.pools[lb'.listeners[l].pool].name.port = lb'.listeners[l].port
    BY <2>1 DEF SInv, OnePoolPerPort, ListenerPoolMatch, CoversAfter
  <2> QED
    BY <2>2, <2>3, <2>4, NothingLeft
<1>3. ~(RefuseUpdate(p) \/ RefusePlan(p) \/ Rejected(p) \/ Fail(p))
  BY DEF RefuseUpdate, RefusePlan, Rejected, Fail, Finish
<1>4. ~(EditService \/ ChangeNodes \/ AddUserPool \/ Settle \/ UNCHANGED vars)
  BY DEF EditService, ChangeNodes, AddUserPool, Settle, vars
<1>5. ~(\/ ReadKube(p) \/ FindLoadBalancer(p) \/ ListLoadBalancerListeners(p)
        \/ ListLoadBalancerPools(p) \/ ListLoadBalancerPoolMembers(p)
        \/ GetLoadBalancer(p) \/ WaitLoadBalancerReady(p))
  BY DEF ReadKube, FindLoadBalancer, ListLoadBalancerListeners, ListLoadBalancerPools,
         ListLoadBalancerPoolMembers, GetLoadBalancer, WaitLoadBalancerReady, Finish
<1>6. Plan(p) \/ \E u \in job[p].plan : Process(p, u)
  BY <1>3, <1>4, <1>5 DEF Next, Run
<1> QED
  BY <1>1, <1>2, <1>6

\* The invariant of all processes, of which there is one.
SyncInv == IInv /\ \A p \in Procs : SInv(p) /\ CInv(p)

LEMMA SyncInvHolds ==
  ASSUME NEW p, Procs = {p}, UserPools = {} PROVE Spec => []SyncInv
<1>1. IInv /\ SInv(p) /\ CInv(p) => SyncInv
  BY DEF SyncInv
<1> QED
  BY <1>1, SyncHolds, PTL

\* When one process alone updates the load balancer, a run that reports success
\* leaves it as the service and the nodes of the run ask for (the eight steps of
\* UpdateLoadBalancer), whatever runs that failed before had left.
THEOREM SuccessIsInSync ==
  ASSUME NEW q, Procs = {q}, UserPools = {} PROVE Spec => SuccessMeansInSync
<1>1. SyncInv /\ [Next]_vars =>
        [\A p \in Procs :
           pc[p] # "idle" /\ pc'[p] = "idle" /\ outcome'[p] = "ok" =>
             \E nodeList \in IF pc[p] = "exec" THEN {job[p].nodeList}
                             ELSE DueNodes(getNodeIDs(job[p].nodes), job[p].svc) :
               Matches(lb', job[p].svc, nodeList)]_vars
  <2> SUFFICES ASSUME SyncInv, [Next]_vars, NEW p \in Procs,
                      pc[p] # "idle", pc'[p] = "idle", outcome'[p] = "ok"
               PROVE  \E nodeList \in IF pc[p] = "exec" THEN {job[p].nodeList}
                                      ELSE DueNodes(getNodeIDs(job[p].nodes), job[p].svc) :
                        Matches(lb', job[p].svc, nodeList)
    OBVIOUS
  <2>1. Procs = {p} /\ IInv /\ SInv(p) /\ CInv(p)
    BY DEF SyncInv
  <2>2. IInv' /\ SInv(p)'
    BY <2>1, IInvStep, SerialStep
  <2>3. PICK nodeList \in IF pc[p] = "exec" THEN {job[p].nodeList} ELSE NodeLists(job[p]) :
          Matches(lb', job[p].svc, nodeList)
    BY <2>1, <2>2, SuccessStep
  <2>4. ASSUME pc[p] # "exec"
        PROVE  nodeList \in DueNodes(getNodeIDs(job[p].nodes), job[p].svc)
    <3>1. job[p].svc \in Service /\ getNodeIDs(job[p].nodes) \in SUBSET Nodes
      BY <2>1 DEF IInv, JobOK, Job, getNodeIDs
    <3> QED
      BY <2>3, <2>4, <3>1, NodeListsAreChoices, ChoicesAreDue
  <2> QED
    BY <2>3, <2>4
<1>2. Spec => []SyncInv
  BY SyncInvHolds
<1> QED
  BY <1>1, <1>2, PTL DEF Spec, SuccessMeansInSync

-----------------------------------------------------------------------------
(* The steps of a run. *)

Reading    == {"find", "listeners", "pools", "members"}
Processing == {"get", "wait", "exec"}

\* A run keeps its service and its nodes while it reads, and its node list while
\* it processes updates.
Keeps(p) ==
  /\ UNCHANGED due
  /\ job'[p].svc = job[p].svc
  /\ \/ /\ pc[p] \in Reading /\ pc'[p] \in Reading /\ job'[p].nodes = job[p].nodes
        /\ pc[p] = "find" => job[p].nodes # {}
     \/ pc[p] \in Processing /\ pc'[p] \in Processing /\ job'[p].nodeList = job[p].nodeList
     \/ /\ Plan(p)
        /\ pc'[p] = "exec"
        /\ job'[p].nodeList \in NodeLists(job[p])

\* Every step of a run starts it, goes on with it or ends it.
LEMMA RunSteps ==
  ASSUME NEW p \in Procs, IInv, Run(p) \/ Fail(p)
  PROVE  /\ UNCHANGED <<svc, nodes>>
         /\ \/ ReadKube(p)
            \/ pc[p] # "idle" /\ pc'[p] = "idle" /\ UNCHANGED due
            \/ Keeps(p)
<1> USE DEF IInv, ControlOK
<1>1. UNCHANGED <<svc, nodes>>
  <2>1. \A u \in job[p].plan : Process(p, u) => Processed(p, u)
    BY DEF Process, deleteLoadBalancerListener, deleteLoadBalancerPool,
       deleteLoadBalancerPoolMember, updateLoadBalancerPool, replaceLoadBalancerPoolMembers,
       createLoadBalancerPoolMember, createLoadBalancerPool, createLoadBalancerListener
  <2> QED
    BY <2>1 DEF Run, Fail, ReadKube, FindLoadBalancer, RefuseUpdate, ListLoadBalancerListeners,
       ListLoadBalancerPools, ListLoadBalancerPoolMembers, Plan, RefusePlan, GetLoadBalancer,
       WaitLoadBalancerReady, Rejected, Processed, kube
<1>2. ASSUME NEW r, Finish(p, r), pc[p] # "idle", UNCHANGED due
      PROVE  pc[p] # "idle" /\ pc'[p] = "idle" /\ UNCHANGED due
  BY <1>2 DEF Finish
<1>3. CASE RefuseUpdate(p) \/ RefusePlan(p) \/ Rejected(p) \/ Fail(p)
  BY <1>1, <1>2, <1>3 DEF RefuseUpdate, RefusePlan, Rejected, Fail
<1>4. job[p] \in Job
  BY DEF JobOK
<1>5. CASE FindLoadBalancer(p)
  <2>1. pc'[p] = "listeners" /\ job'[p] = [job[p] EXCEPT !.view = Names(lb.pools)]
    BY <1>5 DEF FindLoadBalancer
  <2>2. job'[p].nodes = job[p].nodes /\ job'[p].svc = job[p].svc
    BY <1>4, <2>1 DEF Job
  <2> QED
    BY <1>1, <1>5, <2>1, <2>2 DEF FindLoadBalancer, Keeps, Reading
<1>6. CASE ListLoadBalancerListeners(p) \/ ListLoadBalancerPools(p)
  <2>1. pc[p] \in {"listeners", "pools"} /\ pc'[p] \in {"pools", "members"} /\ UNCHANGED due
    BY <1>6 DEF ListLoadBalancerListeners, ListLoadBalancerPools
  <2>2. \/ job'[p] = [job[p] EXCEPT !.listeners = lb.listeners]
        \/ \E ps : job'[p] = [job[p] EXCEPT !.pools = ps, !.unread = DOMAIN lb.pools]
    BY <1>6 DEF ListLoadBalancerListeners, ListLoadBalancerPools
  <2>3. job'[p].nodes = job[p].nodes /\ job'[p].svc = job[p].svc
    BY <1>4, <2>2 DEF Job
  <2> QED
    BY <1>1, <2>1, <2>3 DEF Keeps, Reading
<1>7. CASE ListLoadBalancerPoolMembers(p)
  <2> DEFINE i == Min(job[p].unread)
  <2>1. pc[p] = "members" /\ UNCHANGED due
    BY <1>7 DEF ListLoadBalancerPoolMembers
  <2>2. CASE Finish(p, "error")
    BY <1>1, <1>2, <2>1, <2>2
  <2>3. CASE /\ job' = [job EXCEPT ![p].pools[i].members = lb.pools[i].members,
                                   ![p].unread = @ \ {i}]
             /\ pc' = pc
    <3> DEFINE read == [job[p].pools EXCEPT ![i].members = lb.pools[i].members]
    <3> HIDE DEF i
    <3>1. job'[p] = [job[p] EXCEPT !.pools = read, !.unread = job[p].unread \ {i}]
      BY <1>4, <2>3 DEF Job
    <3> HIDE DEF read
    <3>2. job'[p].nodes = job[p].nodes /\ job'[p].svc = job[p].svc
      BY <1>4, <3>1 DEF Job
    <3> QED
      BY <1>1, <2>1, <2>3, <3>2 DEF Keeps, Reading
  <2> QED
    BY <1>7, <2>2, <2>3 DEF ListLoadBalancerPoolMembers
<1>8. CASE Plan(p)
  <2> DEFINE plan(nl) == UpdatesRequired(job[p].listeners, job[p].pools, job[p].svc, nl)
  <2> HIDE DEF plan
  <2>1. pc[p] = "members" /\ UNCHANGED due
    BY <1>8 DEF Plan
  <2>2. PICK nodeList \in NodeLists(job[p]) :
          \/ Finish(p, "ok")
          \/ /\ pc' = [pc EXCEPT ![p] = "exec"]
             /\ job' = [job EXCEPT ![p].nodeList = nodeList, ![p].plan = plan(nodeList),
                                   ![p].nodes = {}, ![p].listeners = Empty,
                                   ![p].pools = Empty]
    BY <1>8 DEF Plan, plan
  <2>3. CASE Finish(p, "ok")
    BY <1>1, <1>2, <2>1, <2>3
  <2>4. CASE ~Finish(p, "ok")
    <3>1. job'[p] = [job[p] EXCEPT !.nodeList = nodeList, !.plan = plan(nodeList), !.nodes = {},
                                   !.listeners = Empty, !.pools = Empty]
      BY <2>2, <2>4
    <3>2. job'[p].nodeList = nodeList /\ job'[p].svc = job[p].svc /\ pc'[p] = "exec"
      BY <1>4, <2>2, <2>4, <3>1 DEF Job
    <3> QED
      BY <1>1, <1>8, <2>1, <3>2 DEF Keeps
  <2> QED
    BY <2>3, <2>4
<1>9. CASE GetLoadBalancer(p) \/ WaitLoadBalancerReady(p)
  <2>1. pc[p] \in {"get", "wait"} /\ pc'[p] \in {"wait", "exec"} /\ UNCHANGED due
    BY <1>9 DEF GetLoadBalancer, WaitLoadBalancerReady
  <2>2. job' = job \/ job'[p] = [job[p] EXCEPT !.view = Names(lb.pools)]
    BY <1>9 DEF GetLoadBalancer, WaitLoadBalancerReady
  <2>3. job'[p].nodeList = job[p].nodeList /\ job'[p].svc = job[p].svc
    BY <1>4, <2>2 DEF Job
  <2> QED
    BY <1>1, <2>1, <2>3 DEF Keeps, Processing
<1>10. ASSUME NEW u \in job[p].plan, Process(p, u)
       PROVE  pc[p] = "exec" /\ UNCHANGED due /\ (pc'[p] = "idle" \/ Keeps(p))
  <2>1. Processed(p, u)
    BY <1>10 DEF Process, deleteLoadBalancerListener, deleteLoadBalancerPool,
       deleteLoadBalancerPoolMember, updateLoadBalancerPool, replaceLoadBalancerPoolMembers,
       createLoadBalancerPoolMember, createLoadBalancerPool, createLoadBalancerListener
  <2>2. pc[p] = "exec" /\ UNCHANGED due
    BY <2>1 DEF Processed
  <2>3. CASE Finish(p, "ok")
    BY <2>2, <2>3 DEF Finish
  <2>4. CASE /\ pc' = [pc EXCEPT ![p] = "get"]
             /\ job' = [job EXCEPT ![p].plan = job[p].plan \ {u}, ![p].view = Empty]
    <3>1. job'[p] = [job[p] EXCEPT !.plan = job[p].plan \ {u}, !.view = Empty]
      BY <2>4
    <3>2. /\ pc'[p] = "get" /\ job'[p].nodeList = job[p].nodeList
          /\ job'[p].svc = job[p].svc
      BY <1>4, <2>4, <3>1 DEF Job
    <3> QED
      BY <2>2, <3>2 DEF Keeps, Processing
  <2> QED
    BY <2>1, <2>3, <2>4 DEF Processed
<1>11. CASE ReadKube(p)
  BY <1>1, <1>11
<1> QED
  BY <1>1, <1>3, <1>5, <1>6, <1>7, <1>8, <1>9, <1>10, <1>11 DEF Run

-----------------------------------------------------------------------------
(* Quiet. *)

InSyncNow ==
  \E nodeList \in filterNodesByServiceMemberQuota(getNodeIDs(nodes), {}, svc) :
    Matches(lb, svc, nodeList)

\* Unless Kubernetes has a change to report, a run works for the service and the
\* nodes as they are, and the last run that succeeded worked for them.
QInv(p) ==
  ~due[p] =>
    /\ pc[p] \in Reading => job[p].svc = svc /\ job[p].nodes = nodes
    /\ pc[p] \in Processing =>
         /\ job[p].svc = svc
         /\ job[p].nodeList \in filterNodesByServiceMemberQuota(getNodeIDs(nodes), {}, svc)
    /\ pc[p] = "idle" /\ outcome[p] = "ok" => InSyncNow

\* A load balancer that was just created is as its service asks for.
LEMMA CreatedMatches ==
  ASSUME NEW s \in Service, NEW nodeList \in SUBSET Nodes,
         NEW id \in Injection(DOMAIN s.ports, PoolIds \cap ListenerIds)
  PROVE  Matches(CreateLoadBalancer(s, nodeList, id), s, nodeList)
<1> DEFINE b       == CreateLoadBalancer(s, nodeList, id)
           ports   == DOMAIN s.ports
           port(i) == CHOOSE q \in ports : id[q] = i
           ids     == {id[q] : q \in ports}
           hc      == getServiceHealthCheckNodePort(s)
<1>1. /\ \A q \in ports : id[q] \in ids /\ id[q] \in PoolIds /\ id[q] \in ListenerIds
      /\ \A q, r \in ports : id[q] = id[r] => q = r
  BY DEF Injection, IsInjective
<1>2. \A q \in ports : port(id[q]) = q
  BY <1>1
<1>3. \A i \in ids : port(i) \in ports /\ id[port(i)] = i
  OBVIOUS
<1>4. /\ DOMAIN b.listeners = ids /\ DOMAIN b.pools = ids
      /\ \A i \in ids : /\ b.listeners[i] = [port |-> port(i), pool |-> i]
                        /\ b.pools[i] = NewPool(genLoadBalancerPoolName(s, port(i)), nodeList, hc)
  BY DEF CreateLoadBalancer
<1>5. ASSUME NEW i \in ids
      PROVE  /\ b.listeners[i].port = port(i) /\ b.listeners[i].pool = i
             /\ b.pools[i].name = [port |-> port(i), nodePort |-> s.ports[port(i)]]
             /\ b.pools[i].members = genLoadBalancerMembers(s.ports[port(i)], nodeList)
             /\ b.pools[i].hm = genLoadBalancerHealthMonitor(s.ports[port(i)], hc)
  <2>1. PICK q : q = port(i)
    OBVIOUS
  <2> HIDE DEF port, ids, b, hc
  <2>2. b.listeners[i] = [port |-> q, pool |-> i]
    BY <1>4, <2>1
  <2>3. b.pools[i] = NewPool(genLoadBalancerPoolName(s, q), nodeList, hc)
    BY <1>4, <2>1
  <2> QED
    BY <2>1, <2>2, <2>3 DEF NewPool, genLoadBalancerPoolName
<1> HIDE DEF b, port, ids
<1>6. {b.listeners[l].port : l \in DOMAIN b.listeners} = ports
  <2>1. \A l \in ids : b.listeners[l].port \in ports
    BY <1>3, <1>5
  <2>2. \A q \in ports : id[q] \in ids /\ b.listeners[id[q]].port = q
    BY <1>1, <1>2, <1>5
  <2>3. DOMAIN b.listeners = ids
    BY <1>4
  <2> QED
    BY <2>1, <2>2, <2>3
<1>7. {b.pools[i].name.port : i \in DOMAIN b.pools} = ports
  <2>0. ASSUME NEW i \in ids PROVE b.pools[i].name.port = port(i)
    <3>1. b.pools[i].name = [port |-> port(i), nodePort |-> s.ports[port(i)]]
      BY <1>5
    <3> QED
      BY <3>1
  <2>1. \A i \in ids : b.pools[i].name.port \in ports
    BY <1>3, <2>0
  <2>2. \A q \in ports : id[q] \in ids /\ b.pools[id[q]].name.port = q
    BY <1>1, <1>2, <2>0
  <2>3. DOMAIN b.pools = ids
    BY <1>4
  <2> QED
    BY <2>1, <2>2, <2>3
<1>8. ASSUME NEW q \in ports
      PROVE  \E l \in ListenerIds, i \in PoolIds :
               /\ {k \in DOMAIN b.listeners : b.listeners[k].port = q} = {l}
               /\ {k \in DOMAIN b.pools : b.pools[k].name = genLoadBalancerPoolName(s, q)} = {i}
               /\ b.listeners[l].pool = i
               /\ b.pools[i].members = genLoadBalancerMembers(s.ports[q], nodeList)
               /\ b.pools[i].hm = genLoadBalancerHealthMonitor(s.ports[q], hc)
  <2>1. PICK i \in ids : i \in ListenerIds /\ i \in PoolIds /\ port(i) = q
    BY <1>1, <1>2
  <2>2. \A k \in ids : port(k) = q => k = i
    BY <1>3, <2>1
  <2>3. DOMAIN b.listeners = ids /\ DOMAIN b.pools = ids
    BY <1>4
  <2>4. {k \in DOMAIN b.listeners : b.listeners[k].port = q} = {i}
    <3>1. ASSUME NEW k \in ids PROVE b.listeners[k].port = q <=> k = i
      <4>1. b.listeners[k].port = port(k)
        BY <1>5
      <4> QED
        BY <2>1, <2>2, <4>1
    <3> QED
      BY <2>3, <3>1
  <2> DEFINE name == genLoadBalancerPoolName(s, q)
  <2>5. ASSUME NEW k \in ids PROVE b.pools[k].name = name <=> k = i
    <3>1. b.pools[k].name = [port |-> port(k), nodePort |-> s.ports[port(k)]]
      BY <1>5
    <3>2. name = [port |-> q, nodePort |-> s.ports[q]]
      BY DEF genLoadBalancerPoolName
    <3> QED
      BY <2>1, <2>2, <3>1, <3>2
  <2> HIDE DEF name
  <2>6. {k \in DOMAIN b.pools : b.pools[k].name = name} = {i}
    BY <2>3, <2>5
  <2> QED
    BY <1>5, <2>1, <2>4, <2>6 DEF name
<1> QED
  BY <1>6, <1>7, <1>8 DEF Matches, b

LEMMA QuietInit ==
  ASSUME Init, NEW p \in Procs PROVE QInv(p)
<1>1. PICK nodeList \in filterNodesByServiceMemberQuota(getNodeIDs(nodes), {}, svc),
           id \in Injection(DOMAIN svc.ports, PoolIds \cap ListenerIds) :
             lb = CreateLoadBalancer(svc, nodeList, id)
  BY DEF Init
<1>2. svc \in Service /\ nodes \in SUBSET Nodes
  BY UpdateAssumption, ServiceType DEF UpdateAssumption, Init
<1>3. nodeList \in SUBSET Nodes
  BY <1>1, <1>2 DEF filterNodesByServiceMemberQuota, Limited, kSubset, getNodeIDs
<1>4. InSyncNow
  BY <1>1, <1>2, <1>3, CreatedMatches DEF InSyncNow
<1>5. pc[p] = "idle"
  BY DEF Init
<1> QED
  BY <1>4, <1>5 DEF QInv, Reading, Processing

LEMMA QuietStep ==
  ASSUME NEW p, Procs = {p}, UserPools = {}, IInv, SInv(p), CInv(p), QInv(p), [Next]_vars,
         IInv', SInv(p)'
  PROVE  QInv(p)'
<1> SUFFICES ASSUME ~due'[p]
             PROVE  /\ pc'[p] \in Reading => job'[p].svc = svc' /\ job'[p].nodes = nodes'
                    /\ pc'[p] \in Processing =>
                         /\ job'[p].svc = svc'
                         /\ job'[p].nodeList
                              \in filterNodesByServiceMemberQuota(getNodeIDs(nodes'), {}, svc')
                    /\ pc'[p] = "idle" /\ outcome'[p] = "ok" => InSyncNow'
  BY DEF QInv, getNodeIDs, filterNodesByServiceMemberQuota, Limited
<1>1. ~(EditService \/ ChangeNodes)
  BY DEF EditService, ChangeNodes
<1>2. ~AddUserPool
  BY DEF AddUserPool
<1>3. CASE Settle \/ UNCHANGED vars
  <2>1. lb'.listeners = lb.listeners /\ lb'.pools = lb.pools
    BY <1>3 DEF IInv, Settle, LoadBalancer, vars
  <2>2. UNCHANGED <<svc, nodes, pc, job, due, outcome>>
    BY <1>3 DEF Settle, vars
  <2>3. InSyncNow => InSyncNow'
    BY <2>1, <2>2 DEF InSyncNow, Matches, getNodeIDs
  <2> QED
    BY <2>2, <2>3 DEF QInv
<1>4. CASE ReadKube(p)
  <2>1. pc'[p] = "find" /\ job'[p] = NewJob(svc, nodes) /\ UNCHANGED <<svc, nodes>>
    BY <1>4 DEF IInv, ControlOK, ReadKube, kube
  <2> QED
    BY <2>1 DEF NewJob, Processing
<1>5. ASSUME pc[p] # "idle", pc'[p] = "idle", UNCHANGED <<svc, nodes, due>>
      PROVE  outcome'[p] = "ok" => InSyncNow'
  <2> SUFFICES ASSUME outcome'[p] = "ok" PROVE InSyncNow'
    OBVIOUS
  <2>1. PICK nodeList \in IF pc[p] = "exec" THEN {job[p].nodeList} ELSE NodeLists(job[p]) :
          Matches(lb', job[p].svc, nodeList)
    BY <1>5, SuccessStep
  <2>2. pc[p] \in Reading \cup Processing
    BY <1>5 DEF IInv, ControlOK, Reading, Processing
  <2>3. pc[p] = "exec" \/ pc[p] = "members"
    BY <1>5, SuccessStep
  <2>4. /\ job[p].svc = svc
        /\ nodeList \in filterNodesByServiceMemberQuota(getNodeIDs(nodes), {}, svc)
    BY <1>5, <2>1, <2>3, NodeListsAreChoices DEF QInv, Reading, Processing
  <2> QED
    BY <1>5, <2>1, <2>4 DEF InSyncNow, getNodeIDs
<1>6. CASE Keeps(p) /\ UNCHANGED <<svc, nodes>>
  <2>1. ~due[p]
    BY <1>6 DEF Keeps
  <2>2. CASE Plan(p) /\ pc'[p] = "exec" /\ job'[p].nodeList \in NodeLists(job[p])
    <3>1. pc[p] = "members"
      BY <2>2 DEF Plan
    <3> QED
      BY <1>6, <2>1, <2>2, <3>1, NodeListsAreChoices DEF Keeps, QInv, Reading, Processing
  <2>3. CASE ~(Plan(p) /\ pc'[p] = "exec" /\ job'[p].nodeList \in NodeLists(job[p]))
    BY <1>6, <2>1, <2>3 DEF Keeps, QInv, Reading, Processing
  <2> QED
    BY <2>2, <2>3
<1>7. CASE Run(p) \/ Fail(p)
  <2>1. /\ UNCHANGED <<svc, nodes>>
        /\ \/ ReadKube(p)
           \/ pc[p] # "idle" /\ pc'[p] = "idle" /\ UNCHANGED due
           \/ Keeps(p)
    BY <1>7, RunSteps
  <2> QED
    BY <1>4, <1>5, <1>6, <2>1 DEF Reading, Processing
<1> QED
  BY <1>1, <1>2, <1>3, <1>7 DEF Next

LEMMA QuietHolds ==
  ASSUME NEW p, Procs = {p}, UserPools = {} PROVE Spec => [](\A r \in Procs : QInv(r))
<1>1. Init => QInv(p)
  BY QuietInit
<1>2. IInv /\ SInv(p) /\ CInv(p) /\ QInv(p) /\ [Next]_vars /\ IInv' /\ SInv(p)' => QInv(p)'
  BY QuietStep
<1>3. Spec => [](IInv /\ SInv(p) /\ CInv(p))
  BY SyncHolds
<1>4. QInv(p) => \A r \in Procs : QInv(r)
  OBVIOUS
<1> QED
  BY <1>1, <1>2, <1>3, <1>4, PTL DEF Spec

\* When one process alone updates the load balancer, its run is over and did not
\* fail, and Kubernetes has nothing to report, the load balancer serves the
\* service and the nodes as they are now: no edit is lost to a run that had read
\* the service before (ReadKube clears due, not the end of the run), and none to
\* the runs that were refused, rejected or killed.
THEOREM QuietIsInSync ==
  ASSUME NEW q, Procs = {q}, UserPools = {} PROVE Spec => []QuietMeansInSync
<1>1. ASSUME IInv, QInv(q), \A p \in Procs : pc[p] = "idle" /\ ~due[p] /\ outcome[p] = "ok"
      PROVE  \E nodeList \in DueNodes(getNodeIDs(nodes), svc) : Matches(lb, svc, nodeList)
  <2>1. PICK nodeList \in filterNodesByServiceMemberQuota(getNodeIDs(nodes), {}, svc) :
          Matches(lb, svc, nodeList)
    BY <1>1 DEF QInv, InSyncNow
  <2>2. svc \in Service /\ getNodeIDs(nodes) \in SUBSET Nodes
    BY <1>1, UpdateAssumption, ServiceType DEF UpdateAssumption, IInv, ControlOK, getNodeIDs
  <2> QED
    BY <2>1, <2>2, ChoicesAreDue
<1>2. IInv /\ (\A r \in Procs : QInv(r)) => QuietMeansInSync
  BY <1>1 DEF QuietMeansInSync
<1>3. Spec => [](IInv /\ SInv(q) /\ CInv(q))
  BY SyncHolds
<1>4. Spec => [](\A r \in Procs : QInv(r))
  BY QuietHolds
<1> QED
  BY <1>2, <1>3, <1>4, PTL

-----------------------------------------------------------------------------
(* Pools stay served. *)

\* A run has nodes to work with once it has found the load balancer.
NInv(p) ==
  /\ pc[p] \in {"listeners", "pools", "members"} => job[p].nodes # {}
  /\ pc[p] \in {"get", "wait", "exec"} => job[p].nodeList # {}

\* The quota leaves at least one of the nodes there are.
LEMMA QuotaLeavesNodes ==
  ASSUME NodesNoIP = {}, NEW j \in Job, j.nodes # {}, NEW nodeList \in NodeLists(j)
  PROVE  nodeList # {}
<1>1. getNodeIDs(j.nodes) = j.nodes
  BY DEF getNodeIDs
<1>2. PICK existing : nodeList \in filterNodesByServiceMemberQuota(j.nodes, existing, j.svc)
  BY <1>1 DEF NodeLists
<1>3. CASE Limited(j.nodes, j.svc)
  <2>1. nodeList \in kSubset(j.svc.quota, j.nodes) /\ j.svc.quota > 0
    BY <1>2, <1>3 DEF filterNodesByServiceMemberQuota, Limited
  <2>2. Cardinality(nodeList) = j.svc.quota /\ j.svc.quota \in Int
    BY <2>1, QuotaAssumption DEF kSubset, QuotaAssumption, Job, Service
  <2> QED
    BY <2>1, <2>2, FS_EmptySet
<1>4. CASE ~Limited(j.nodes, j.svc)
  BY <1>2, <1>4 DEF filterNodesByServiceMemberQuota
<1> QED
  BY <1>3, <1>4

LEMMA NodesStep ==
  ASSUME NEW p, Procs = {p}, NodesNoIP = {}, IInv, NInv(p), [Next]_vars
  PROVE  NInv(p)'
<1>1. CASE EditService \/ ChangeNodes \/ AddUserPool \/ Settle \/ UNCHANGED vars
  BY <1>1 DEF EditService, ChangeNodes, AddUserPool, Settle, vars, NInv
<1>2. CASE pc'[p] = "idle" \/ ReadKube(p)
  BY <1>2 DEF IInv, ControlOK, ReadKube, NInv
<1>3. CASE Keeps(p)
  <2>1. CASE Plan(p) /\ pc'[p] = "exec" /\ job'[p].nodeList \in NodeLists(job[p])
    <3>1. job[p] \in Job /\ job[p].nodes # {}
      BY <2>1 DEF IInv, JobOK, Plan, NInv
    <3> QED
      BY <2>1, <3>1, QuotaLeavesNodes DEF NInv
  <2> QED
    BY <1>3, <2>1 DEF Keeps, NInv, Reading, Processing
<1> QED
  BY <1>1, <1>2, <1>3, RunSteps DEF Next

LEMMA ServedStep ==
  ASSUME NEW p, Procs = {p}, UserPools = {}, IInv, SInv(p), CInv(p), NInv(p), [Next]_vars,
         NEW i \in DOMAIN lb.pools \cap DOMAIN lb'.pools, lb.pools[i].members # {}
  PROVE  lb'.pools[i].members # {}
<1> USE DEF IInv
<1>1. lb \in LoadBalancer
  OBVIOUS
<1>2. CASE lb' = lb
  BY <1>2
<1>3. CASE Settle
  BY <1>1, <1>3 DEF Settle, LoadBalancer
<1>4. ASSUME NEW u \in job[p].plan,
             \/ deleteLoadBalancerPoolMember(p, u)
             \/ createLoadBalancerPoolMember(p, u)
             \/ replaceLoadBalancerPoolMembers(p, u)
      PROVE  lb'.pools[i].members # {}
  <2> DEFINE want == Want(lb.pools, u.id, job[p].svc, job[p].nodeList)
  <2>1. /\ Processed(p, u) /\ u.id \in DOMAIN lb.pools
        /\ lb'.pools = [lb.pools EXCEPT ![u.id].members = want]
    BY <1>4, MembersBecomeWanted
  <2>2. pc[p] = "exec"
    BY <2>1 DEF Processed
  <2>3. PICK n \in job[p].nodeList : TRUE
    BY <2>2 DEF NInv
  <2> DEFINE x == job[p].svc.ports[lb.pools[u.id].name.port]
  <2>4. [node |-> n, port |-> x] \in want
    BY <2>3 DEF Want, genLoadBalancerMembers
  <2> HIDE DEF want
  <2>5. lb.pools[u.id] \in Pool
    BY <2>1, UpdateFacts
  <2>6. CASE i = u.id
    <3>1. lb'.pools[i] = [lb.pools[i] EXCEPT !.members = want]
      BY <2>1, <2>6
    <3> QED
      BY <2>4, <2>5, <2>6, <3>1 DEF Pool
  <2>7. CASE i # u.id
    BY <2>1, <2>7
  <2> QED
    BY <2>6, <2>7
<1>5. ASSUME NEW u \in job[p].plan,
             deleteLoadBalancerListener(p, u) \/ createLoadBalancerListener(p, u)
      PROVE  lb'.pools[i].members # {}
  <2>1. lb'.pools = lb.pools
    BY <1>1, <1>5 DEF deleteLoadBalancerListener, createLoadBalancerListener,
         DeleteLoadBalancerListener, CreateLoadBalancerListener, WithListeners, LoadBalancer
  <2> QED
    BY <2>1
<1>6. ASSUME NEW u \in job[p].plan, deleteLoadBalancerPool(p, u)
      PROVE  lb'.pools[i].members # {}
  <2>1. lb'.pools = Restrict(lb.pools, DOMAIN lb.pools \ {u.id})
    BY <1>1, <1>6 DEF deleteLoadBalancerPool, DeleteLoadBalancerPool, WithPools, LoadBalancer
  <2>2. lb'.pools[i] = lb.pools[i]
    BY <2>1 DEF Restrict
  <2> QED
    BY <2>2
<1>7. ASSUME NEW u \in job[p].plan, createLoadBalancerPool(p, u)
      PROVE  lb'.pools[i].members # {}
  <2>1. PICK k \in PoolIds : FreshPool(k) /\ \E pool : lb' = WithPools(lb, Extend(lb.pools, k, pool))
    BY <1>7 DEF createLoadBalancerPool, CreateLoadBalancerPool
  <2>2. PICK pool : lb'.pools = Extend(lb.pools, k, pool)
    BY <1>1, <2>1 DEF WithPools, LoadBalancer
  <2>3. lb'.pools[i] = lb.pools[i]
    BY <2>1, <2>2 DEF Extend, FreshPool
  <2> QED
    BY <2>3
<1>8. ASSUME NEW u \in job[p].plan, updateLoadBalancerPool(p, u)
      PROVE  lb'.pools[i].members # {}
  <2> DEFINE hm == genLoadBalancerHealthMonitor(u.name.nodePort,
                     getServiceHealthCheckNodePort(job[p].svc))
  <2>1. /\ u.id \in DOMAIN lb.pools
        /\ lb'.pools = [lb.pools EXCEPT ![u.id].name = u.name, ![u.id].hm = hm]
    BY <1>1, <1>8 DEF updateLoadBalancerPool, UpdateLoadBalancerPool, WithPools, LoadBalancer,
         Processed, Accepts
  <2> HIDE DEF hm
  <2>2. lb.pools[i] \in Pool
    BY <1>8, UpdateFacts
  <2>3. lb'.pools[i] = lb.pools[i]
        \/ lb'.pools[i] = [lb.pools[i] EXCEPT !.name = u.name, !.hm = hm]
    BY <2>1, Zenon
  <2>4. lb'.pools[i].members = lb.pools[i].members
    BY <2>2, <2>3 DEF Pool
  <2> QED
    BY <2>4
<1>9. ~AddUserPool
  BY DEF AddUserPool
<1> QED
  BY <1>2, <1>3, <1>4, <1>5, <1>6, <1>7, <1>8, <1>9
  DEF Next, Run, Process, EditService, ChangeNodes, Fail, RefuseUpdate, RefusePlan, Rejected,
      ReadKube, FindLoadBalancer, ListLoadBalancerListeners, ListLoadBalancerPools,
      ListLoadBalancerPoolMembers, Plan, GetLoadBalancer, WaitLoadBalancerReady, vars

\* When every node has an internal address and one process alone updates the
\* load balancer, no update takes the last member from a pool that stays: traffic
\* to a port always has a node to go to.
THEOREM PoolsStayServed ==
  ASSUME NEW p, Procs = {p}, UserPools = {}, NodesNoIP = {} PROVE Spec => PoolNeverDrained
<1> DEFINE Inv == IInv /\ SInv(p) /\ CInv(p)
<1>1. Init => NInv(p)
  BY DEF Init, NInv
<1>2. Inv /\ NInv(p) /\ [Next]_vars => NInv(p)'
  BY NodesStep
<1>3. Inv /\ NInv(p) /\ [Next]_vars =>
        [\A i \in DOMAIN lb.pools \cap DOMAIN lb'.pools :
           lb.pools[i].members # {} => lb'.pools[i].members # {}]_vars
  BY ServedStep
<1>4. Spec => []Inv
  BY SyncHolds
<1> HIDE DEF Inv
<1> QED
  BY <1>1, <1>2, <1>3, <1>4, PTL DEF Spec, PoolNeverDrained

-----------------------------------------------------------------------------
(* A plan, pool by pool. *)

\* The updates of single members that a pool whose name is right needs, and what
\* becomes of them.
MemberChanges(pool, i, nl) ==
  {NewUpdate("DELETE-POOL-MEMBER", 3, i, pool.name, m) : m \in StaleMembers(pool, nl)}
  \cup
  {NewUpdate("CREATE-POOL-MEMBER", 5, i, pool.name, [node |-> n, port |-> pool.name.nodePort]) :
     n \in MissingNodes(pool, nl)}

MemberPlan(pool, i, nl) ==
  LET raw   == MemberChanges(pool, i, nl)
      first == IF \E u \in raw : u.op = "DELETE-POOL-MEMBER" THEN 3 ELSE 5
  IN  IF \E u, v \in raw : u # v
      THEN {NewUpdate("REPLACE-POOL-MEMBERS", first, i, pool.name, NoMember)}
      ELSE raw

\* The updates of pool i.
PoolPlan(pool, i, s, nl) ==
  LET name == genLoadBalancerPoolName(s, pool.name.port) IN
  IF pool.name.port \notin DOMAIN s.ports
  THEN {NewUpdate("DELETE-POOL", 2, i, pool.name, NoMember)}
  ELSE IF NameChanged(pool, s)
  THEN {NewUpdate("UPDATE-POOL", 4, i, name, NoMember),
        NewUpdate("REPLACE-POOL-MEMBERS", 4, i, name, NoMember)}
  ELSE {u \in {NewUpdate("UPDATE-POOL", 4, i, name, NoMember)} : HealthMonitorChanged(pool, s)}
       \cup MemberPlan(pool, i, nl)

\* The updates that are of no pool.
OtherPlan(ls, ps, s) ==
  checkListenerForExtPortDeletedFromService(ls, s)
  \cup checkListenersForExtPortAddedToService(ls, s)
  \cup checkPoolsForExtPortAddedToService(ps, s)

\* The updates of single members before they are merged.
LEMMA RawOfPool ==
  ASSUME NEW ls, NEW ps, NEW s, NEW nl, NEW i \in DOMAIN ps
  PROVE  MemberUpdates(Raw(ls, ps, s, nl), i)
           = IF i \in SamePortPools(ps, s) THEN MemberChanges(ps[i], i, nl) ELSE {}
<1> DEFINE raw  == Raw(ls, ps, s, nl)
           plan == UpdatesRequired(ls, ps, s, nl)
           del(k, m) == NewUpdate("DELETE-POOL-MEMBER", 3, k, ps[k].name, m)
           add(k, n) == NewUpdate("CREATE-POOL-MEMBER", 5, k, ps[k].name,
                                  [node |-> n, port |-> ps[k].name.nodePort])
<1>1. /\ \A k \in SamePortPools(ps, s) :
           /\ \A m \in StaleMembers(ps[k], nl) : del(k, m) \in raw
           /\ \A n \in MissingNodes(ps[k], nl) : add(k, n) \in raw
      /\ \A u \in raw : u.op = "DELETE-POOL-MEMBER" =>
           \E m \in StaleMembers(ps[u.id], nl) : u = del(u.id, m)
      /\ \A u \in raw : u.op = "CREATE-POOL-MEMBER" =>
           \E n \in MissingNodes(ps[u.id], nl) : u = add(u.id, n)
      /\ \A u \in raw : u.op \in MemberOps =>
           \/ u \in plan
           \/ \E v \in plan : v.op = "REPLACE-POOL-MEMBERS" /\ v.id = u.id
  BY RawMembers
<1>2. \A u \in raw : u.op \in MemberOps => u.id \in SamePortPools(ps, s)
  BY RawFacts DEF MemberOps
<1>3. /\ \A m : del(i, m).id = i /\ del(i, m).op \in MemberOps
      /\ \A n : add(i, n).id = i /\ add(i, n).op \in MemberOps
  BY DEF NewUpdate, MemberOps
<1>4. MemberChanges(ps[i], i, nl) = {del(i, m) : m \in StaleMembers(ps[i], nl)}
                                      \cup {add(i, n) : n \in MissingNodes(ps[i], nl)}
  BY DEF MemberChanges
<1> HIDE DEF raw, del, add
<1>5. ASSUME NEW u \in MemberUpdates(raw, i)
      PROVE  i \in SamePortPools(ps, s) /\ u \in MemberChanges(ps[i], i, nl)
  <2>1. u \in raw /\ u.op \in MemberOps /\ u.id = i
    BY DEF MemberUpdates
  <2>2. u.op = "DELETE-POOL-MEMBER" \/ u.op = "CREATE-POOL-MEMBER"
    BY <2>1 DEF MemberOps
  <2>3. \/ \E m \in StaleMembers(ps[i], nl) : u = del(i, m)
        \/ \E n \in MissingNodes(ps[i], nl) : u = add(i, n)
    BY <1>1, <2>1, <2>2
  <2> QED
    BY <1>2, <1>4, <2>1, <2>3
<1>6. ASSUME i \in SamePortPools(ps, s), NEW u \in MemberChanges(ps[i], i, nl)
      PROVE  u \in MemberUpdates(raw, i)
  BY <1>1, <1>3, <1>4, <1>6 DEF MemberUpdates
<1> QED
  BY <1>5, <1>6 DEF raw

\* What updateLoadBalancerPool would change.
LEMMA ServiceChanges ==
  ASSUME NEW pool \in Pool, NEW s \in Service, pool.name.port \in DOMAIN s.ports
  PROVE  /\ AsService(pool, s) <=> ~NameChanged(pool, s) /\ ~HealthMonitorChanged(pool, s)
         /\ ~NameChanged(pool, s) <=> pool.name.nodePort = s.ports[pool.name.port]
<1>1. \A x \in HealthPorts \cup {0} : x \in Nat
  BY PortAssumption DEF PortAssumption
<1>2. s.hcnp \in Nat
  BY <1>1 DEF Service
<1>3. s.local \in BOOLEAN
  BY Zenon DEF Service
<1>4. pool.name = [port |-> pool.name.port, nodePort |-> pool.name.nodePort]
  BY DEF Pool, PoolName, Unparsable
<1>5. ~NameChanged(pool, s) <=> pool.name.nodePort = s.ports[pool.name.port]
  BY <1>4 DEF NameChanged, genLoadBalancerPoolName
<1>6. CASE s.local
  BY <1>2, <1>5, <1>6 DEF NameChanged, HealthMonitorChanged, AsService,
     genLoadBalancerHealthMonitor, getServiceHealthCheckNodePort
<1>7. CASE ~s.local
  BY <1>2, <1>5, <1>7 DEF NameChanged, HealthMonitorChanged, AsService,
     genLoadBalancerHealthMonitor, getServiceHealthCheckNodePort
<1> QED
  BY <1>3, <1>5, <1>6, <1>7

\* A pool is updated for its name or for its health monitor.
LEMMA UpdatedFor ==
  ASSUME NEW ls, NEW ps, NEW s, NEW nl, NEW u \in Raw(ls, ps, s, nl), u.op = "UPDATE-POOL"
  PROVE  /\ u = NewUpdate("UPDATE-POOL", 4, u.id,
                          genLoadBalancerPoolName(s, ps[u.id].name.port), NoMember)
         /\ u.id \in KeptPools(ps, s)
         /\ NameChanged(ps[u.id], s) \/ HealthMonitorChanged(ps[u.id], s)
<1>1. u \in checkPoolForServiceChanges(ps, s)
  BY DEF Raw, checkListenerForExtPortDeletedFromService, checkPoolForExtPortDeletedFromService,
     checkPoolForNodesToDelete, checkPoolForNodesToAdd, checkPoolsForExtPortAddedToService,
     checkListenersForExtPortAddedToService, NewUpdate
<1> QED
  BY <1>1 DEF checkPoolForServiceChanges, NewUpdate

\* The updates of a plan are those of its pools and the others.
LEMMA PlanByPool ==
  ASSUME NEW ls, NEW ps \in PartialFcns(PoolIds, Pool), NEW s \in Service, NEW nl
  PROVE  LET plan == UpdatesRequired(ls, ps, s, nl)
         IN  /\ \A u \in plan : IF u.op \in PoolOps
                                THEN u.id \in DOMAIN ps /\ u \in PoolPlan(ps[u.id], u.id, s, nl)
                                ELSE u \in OtherPlan(ls, ps, s)
             /\ OtherPlan(ls, ps, s) \subseteq plan
             /\ \A i \in DOMAIN ps : PoolPlan(ps[i], i, s, nl) \subseteq plan
<1> DEFINE raw      == Raw(ls, ps, s, nl)
           plan     == UpdatesRequired(ls, ps, s, nl)
           several  == Several(raw, ps)
           first(i) == IF \E w \in MemberUpdates(raw, i) : w.op = "DELETE-POOL-MEMBER"
                       THEN 3 ELSE 5
           merged(i) == NewUpdate("REPLACE-POOL-MEMBERS", first(i), i, ps[i].name, NoMember)
           gen(i)    == genLoadBalancerPoolName(s, ps[i].name.port)
<1>1. plan = {w \in raw : ~(w.op \in MemberOps /\ w.id \in several)}
               \cup {merged(i) : i \in several}
  BY DEF UpdatesRequired, checkForMultiplePoolMemberUpdates, Raw, Several
<1>2. ASSUME NEW i \in DOMAIN ps
      PROVE  /\ ps[i] \in Pool
             /\ i \in KeptPools(ps, s) <=> ps[i].name.port \in DOMAIN s.ports
             /\ i \in SamePortPools(ps, s) <=>
                  ps[i].name.port \in DOMAIN s.ports /\ ~NameChanged(ps[i], s)
  <2>1. ps[i] \in Pool
    BY PartialFcnDef
  <2> QED
    BY <2>1, ServiceChanges DEF KeptPools, SamePortPools
<1>3. ASSUME NEW i \in SamePortPools(ps, s)
      PROVE  /\ i \in DOMAIN ps
             /\ MemberPlan(ps[i], i, nl)
                  = IF i \in several THEN {merged(i)} ELSE MemberUpdates(raw, i)
  <2>1. i \in DOMAIN ps
    BY DEF SamePortPools, KeptPools
  <2>2. MemberUpdates(raw, i) = MemberChanges(ps[i], i, nl)
    BY <2>1, RawOfPool
  <2>3. i \in several <=> \E u, v \in MemberChanges(ps[i], i, nl) : u # v
    BY <2>1, <2>2 DEF Several
  <2> QED
    BY <2>1, <2>2, <2>3 DEF MemberPlan
<1>4. \A i \in several : i \in DOMAIN ps /\ i \in SamePortPools(ps, s)
  BY RawOfPool DEF Several
<1>5. \A i : merged(i).id = i /\ merged(i).op = "REPLACE-POOL-MEMBERS"
  BY DEF NewUpdate
<1> HIDE DEF raw, plan, several, merged
<1>6. ASSUME NEW u \in plan, u.op \in PoolOps
      PROVE  u.id \in DOMAIN ps /\ u \in PoolPlan(ps[u.id], u.id, s, nl)
  <2> DEFINE i == u.id
  <2>1. CASE u \notin raw
    <3>1. i \in several /\ u = merged(i)
      BY <1>1, <1>5, <2>1
    <3>2. u \in MemberPlan(ps[i], i, nl) /\ i \in SamePortPools(ps, s) /\ i \in DOMAIN ps
      BY <1>3, <1>4, <3>1
    <3> QED
      BY <1>2, <3>2 DEF PoolPlan
  <2>2. CASE u \in raw /\ u.op \in MemberOps
    <3>1. i \notin several
      BY <1>1, <1>5, <2>2 DEF MemberOps
    <3>2. i \in SamePortPools(ps, s) /\ i \in DOMAIN ps
      BY <2>2, RawFacts DEF raw, MemberOps, SamePortPools, KeptPools
    <3>3. u \in MemberUpdates(raw, i)
      BY <2>2 DEF MemberUpdates
    <3>4. u \in MemberPlan(ps[i], i, nl)
      BY <1>3, <3>1, <3>2, <3>3
    <3> QED
      BY <1>2, <3>2, <3>4 DEF PoolPlan
  <2>3. CASE u \in raw /\ u.op = "DELETE-POOL"
    BY <2>3, RawFacts DEF raw, PoolPlan
  <2>4. CASE u \in raw /\ u.op = "REPLACE-POOL-MEMBERS"
    <3>1. /\ u = NewUpdate("REPLACE-POOL-MEMBERS", 4, i, gen(i), NoMember)
          /\ i \in KeptPools(ps, s) /\ NameChanged(ps[i], s)
      BY <2>4, RawFacts DEF raw
    <3> QED
      BY <3>1 DEF PoolPlan, KeptPools
  <2>5. CASE u \in raw /\ u.op = "UPDATE-POOL"
    <3>1. /\ u = NewUpdate("UPDATE-POOL", 4, i, gen(i), NoMember)
          /\ i \in KeptPools(ps, s)
          /\ NameChanged(ps[i], s) \/ HealthMonitorChanged(ps[i], s)
      BY <2>5, UpdatedFor DEF raw
    <3> QED
      BY <3>1 DEF PoolPlan, KeptPools
  <2> QED
    BY <1>6, <2>1, <2>2, <2>3, <2>4, <2>5 DEF PoolOps
<1>7. ASSUME NEW u \in plan, u.op \notin PoolOps
      PROVE  u \in OtherPlan(ls, ps, s)
  <2>1. u \in raw /\ u.op \notin MemberOps
    BY <1>1, <1>5, <1>7 DEF PoolOps
  <2>2. u.op \in {"DELETE-LISTENER", "CREATE-LISTENER", "CREATE-POOL"}
    BY <1>7, <2>1, RawFacts DEF raw, Ops, PoolOps
  <2> QED
    BY <2>1, <2>2 DEF raw, Raw, OtherPlan, checkPoolForExtPortDeletedFromService,
       checkPoolForNodesToDelete, checkPoolForServiceChanges, checkPoolForNodesToAdd, NewUpdate
<1>8. ASSUME NEW u \in OtherPlan(ls, ps, s) PROVE u \in plan
  <2>1. u \in raw
    BY DEF OtherPlan, raw, Raw
  <2>2. u.op \notin MemberOps
    BY DEF OtherPlan, checkListenerForExtPortDeletedFromService, MemberOps,
       checkListenersForExtPortAddedToService, checkPoolsForExtPortAddedToService, NewUpdate
  <2> QED
    BY <1>1, <2>1, <2>2
<1>9. ASSUME NEW i \in DOMAIN ps, NEW u \in PoolPlan(ps[i], i, s, nl) PROVE u \in plan
  <2>1. CASE i \in SamePortPools(ps, s) /\ u \in MemberPlan(ps[i], i, nl)
    <3>1. CASE i \in several
      BY <1>1, <1>3, <2>1, <3>1
    <3>2. CASE i \notin several
      BY <1>1, <1>3, <2>1, <3>2 DEF MemberUpdates
    <3> QED
      BY <3>1, <3>2
  <2>2. CASE i \notin KeptPools(ps, s)
    <3>1. u = NewUpdate("DELETE-POOL", 2, i, ps[i].name, NoMember)
      BY <1>2, <2>2 DEF PoolPlan
    <3>2. u \in raw /\ u.op \notin MemberOps
      BY <1>2, <2>2, <3>1 DEF raw, Raw, checkPoolForExtPortDeletedFromService, NewUpdate, MemberOps
    <3> QED
      BY <1>1, <3>2
  <2>3. CASE i \in KeptPools(ps, s) /\ ~(i \in SamePortPools(ps, s) /\ u \in MemberPlan(ps[i], i, nl))
    <3>1. \/ /\ u = NewUpdate("UPDATE-POOL", 4, i, gen(i), NoMember)
             /\ NameChanged(ps[i], s) \/ HealthMonitorChanged(ps[i], s)
          \/ /\ u = NewUpdate("REPLACE-POOL-MEMBERS", 4, i, gen(i), NoMember)
             /\ NameChanged(ps[i], s)
      BY <1>2, <2>3 DEF PoolPlan
    <3>2. u \in checkPoolForServiceChanges(ps, s)
      BY <2>3, <3>1 DEF checkPoolForServiceChanges
    <3>3. u \in raw /\ u.op \notin MemberOps
      BY <3>1, <3>2 DEF raw, Raw, NewUpdate, MemberOps
    <3> QED
      BY <1>1, <3>3
  <2> QED
    BY <2>1, <2>2, <2>3
<1> QED
  BY <1>6, <1>7, <1>8, <1>9 DEF plan

\* A pool needs one update of its members, unless they are as they should be.
LEMMA MemberPlanFacts ==
  ASSUME NEW pool \in Pool, NEW i, NEW nl
  PROVE  /\ \A u \in MemberPlan(pool, i, nl) :
              u.id = i /\ u.op \in MemberOps \cup {"REPLACE-POOL-MEMBERS"}
         /\ \A u, v \in MemberPlan(pool, i, nl) : u = v
         /\ MemberPlan(pool, i, nl) = {} <=>
              pool.members = genLoadBalancerMembers(pool.name.nodePort, nl)
<1> DEFINE raw   == MemberChanges(pool, i, nl)
           want  == genLoadBalancerMembers(pool.name.nodePort, nl)
           first == IF \E u \in raw : u.op = "DELETE-POOL-MEMBER" THEN 3 ELSE 5
           all   == NewUpdate("REPLACE-POOL-MEMBERS", first, i, pool.name, NoMember)
<1>1. \A u \in raw : u.id = i /\ u.op \in MemberOps
  BY DEF MemberChanges, NewUpdate, MemberOps
<1>2. all.id = i /\ all.op = "REPLACE-POOL-MEMBERS"
  BY DEF NewUpdate
<1>3. MemberPlan(pool, i, nl) = IF \E u, v \in raw : u # v THEN {all} ELSE raw
  BY DEF MemberPlan
<1>4. raw = {} <=> StaleMembers(pool, nl) = {} /\ MissingNodes(pool, nl) = {}
  BY DEF MemberChanges
<1>5. StaleMembers(pool, nl) = {} /\ MissingNodes(pool, nl) = {} <=> pool.members = want
  <2> DEFINE x == pool.name.nodePort
  <2>1. pool.members \subseteq Member
    BY DEF Pool
  <2>2. \A m \in Member : m \in want <=> m.node \in nl /\ m.port = x
    BY DEF Member, genLoadBalancerMembers
  <2>3. \A m \in pool.members : m \in StaleMembers(pool, nl) <=> m \notin want
    BY <2>1, <2>2 DEF StaleMembers
  <2>4. \A n \in nl : n \in MissingNodes(pool, nl) <=> [node |-> n, port |-> x] \notin pool.members
    BY DEF MissingNodes
  <2>5. want = {[node |-> n, port |-> x] : n \in nl}
    BY DEF genLoadBalancerMembers
  <2>6. StaleMembers(pool, nl) \subseteq pool.members /\ MissingNodes(pool, nl) \subseteq nl
    BY DEF StaleMembers, MissingNodes
  <2> HIDE DEF want, x
  <2> QED
    BY <2>3, <2>4, <2>5, <2>6
<1> HIDE DEF raw, all, want
<1> QED
  BY <1>1, <1>2, <1>3, <1>4, <1>5 DEF want

\* A plan has updates for a pool unless the pool is as it should be.
LEMMA PoolPlanFacts ==
  ASSUME NEW pool \in Pool, NEW i, NEW s \in Service, NEW nl
  PROVE  /\ \A u \in PoolPlan(pool, i, s, nl) : u.id = i /\ u.op \in PoolOps
         /\ IsFiniteSet(PoolPlan(pool, i, s, nl))
         /\ pool.name.port \in DOMAIN s.ports =>
              (PoolPlan(pool, i, s, nl) = {} <=>
                 /\ AsService(pool, s)
                 /\ pool.members = genLoadBalancerMembers(s.ports[pool.name.port], nl))
<1> DEFINE plan == PoolPlan(pool, i, s, nl)
           mem  == MemberPlan(pool, i, nl)
           name == genLoadBalancerPoolName(s, pool.name.port)
           del  == NewUpdate("DELETE-POOL", 2, i, pool.name, NoMember)
           upd  == NewUpdate("UPDATE-POOL", 4, i, name, NoMember)
           rep  == NewUpdate("REPLACE-POOL-MEMBERS", 4, i, name, NoMember)
<1>1. /\ \A u \in mem : u.id = i /\ u.op \in MemberOps \cup {"REPLACE-POOL-MEMBERS"}
      /\ \A u, v \in mem : u = v
      /\ mem = {} <=> pool.members = genLoadBalancerMembers(pool.name.nodePort, nl)
  BY MemberPlanFacts
<1>2. /\ del.id = i /\ del.op \in PoolOps /\ upd.id = i /\ upd.op \in PoolOps
      /\ rep.id = i /\ rep.op \in PoolOps
      /\ MemberOps \cup {"REPLACE-POOL-MEMBERS"} \subseteq PoolOps
  BY DEF NewUpdate, PoolOps
<1>3. plan = IF pool.name.port \notin DOMAIN s.ports THEN {del}
             ELSE IF NameChanged(pool, s) THEN {upd, rep}
             ELSE {u \in {upd} : HealthMonitorChanged(pool, s)} \cup mem
  BY DEF PoolPlan
<1> HIDE DEF plan, mem, del, upd, rep
<1>4. ASSUME NEW u \in plan PROVE u.id = i /\ u.op \in PoolOps
  BY <1>1, <1>2, <1>3
<1>5. IsFiniteSet(plan)
  <2>1. mem = {} \/ \E u : mem = {u}
    BY <1>1
  <2>2. IsFiniteSet(mem)
    BY <2>1, FS_EmptySet, FS_Singleton
  <2>3. IsFiniteSet({upd} \cup mem) /\ IsFiniteSet({upd} \cup {rep}) /\ IsFiniteSet({del})
    BY <2>2, FS_Singleton, FS_Union
  <2>4. \/ plan = {del} \/ plan = {upd} \cup {rep} \/ plan \subseteq {upd} \cup mem
    BY <1>3
  <2> QED
    BY <2>3, <2>4, FS_Subset
<1>6. ASSUME pool.name.port \in DOMAIN s.ports
      PROVE  plan = {} <=> /\ AsService(pool, s)
                           /\ pool.members = genLoadBalancerMembers(s.ports[pool.name.port], nl)
  BY <1>1, <1>3, <1>6, ServiceChanges
<1> QED
  BY <1>4, <1>5, <1>6 DEF plan

-----------------------------------------------------------------------------
(* Plans are finite. *)

LEMMA FiniteImage ==
  ASSUME NEW S, IsFiniteSet(S), NEW f, DOMAIN f = S
  PROVE  IsFiniteSet({f[x] : x \in S})
<1> DEFINE T == {f[x] : x \in S}
           g == [x \in S |-> f[x]]
<1>1. g \in Surjection(S, T)
  BY DEF Surjection
<1> QED
  BY <1>1, FS_Surjection

\* There are finitely many ports, and one pool and one listener for each.
LEMMA PlanIsFinite ==
  ASSUME IsFiniteSet(Ports), IInv, OnePoolPerPort, OneListenerPerPort,
         NEW s \in Service, NEW nl
  PROVE  IsFiniteSet(UpdatesRequired(lb.listeners, lb.pools, s, nl))
<1> DEFINE ls == lb.listeners
           ps == lb.pools
<1>1. /\ ps \in PartialFcns(PoolIds, Pool) /\ ls \in PartialFcns(ListenerIds, Listener)
      /\ \A i \in DOMAIN ps : ps[i] \in Pool /\ ps[i].name.port \in Ports \cup {Unparsable.port}
      /\ \A l \in DOMAIN ls : ls[l].port \in Ports
  <2>1. ps \in PartialFcns(PoolIds, Pool) /\ ls \in PartialFcns(ListenerIds, Listener)
    BY DEF IInv, LoadBalancer
  <2>2. /\ \A i \in DOMAIN ps : ps[i] \in Pool
        /\ \A l \in DOMAIN ls : ls[l] \in Listener
    BY <2>1, PartialFcnDef
  <2> QED
    BY <2>1, <2>2 DEF Pool, PoolName, Listener
<1>2. OnePoolPerPort /\ OneListenerPerPort
  OBVIOUS
<1>3. \A i, j \in DOMAIN ps : ps[i].name.port = ps[j].name.port => i = j
  BY DEF OnePoolPerPort
<1>4. \A k, l \in DOMAIN ls : ls[k].port = ls[l].port => k = l
  BY DEF OneListenerPerPort
<1> HIDE DEF ls, ps
<1>5. IsFiniteSet(DOMAIN ps)
  <2> DEFINE T == Ports \cup {Unparsable.port}
             f == [i \in DOMAIN ps |-> ps[i].name.port]
  <2>1. f \in Injection(DOMAIN ps, T)
    BY <1>1, <1>3 DEF Injection, IsInjective
  <2>2. IsFiniteSet(T)
    BY FS_AddElement
  <2> HIDE DEF f, T
  <2> QED
    BY <2>1, <2>2, FS_Injection
<1>6. IsFiniteSet(DOMAIN ls)
  <2> DEFINE f == [l \in DOMAIN ls |-> ls[l].port]
  <2>1. f \in Injection(DOMAIN ls, Ports)
    BY <1>1, <1>4 DEF Injection, IsInjective
  <2> HIDE DEF f
  <2> QED
    BY <2>1, FS_Injection
<1>7. DOMAIN s.ports \subseteq Ports
  BY PartialFcnDef DEF Service
<1> DEFINE pp == [i \in DOMAIN ps |-> PoolPlan(ps[i], i, s, nl)]
           pools == UNION {pp[i] : i \in DOMAIN ps}
<1>8. IsFiniteSet(pools)
  <2>1. IsFiniteSet({pp[i] : i \in DOMAIN ps})
    BY <1>5, FiniteImage
  <2>2. \A T \in {pp[i] : i \in DOMAIN ps} : IsFiniteSet(T)
    BY <1>1, PoolPlanFacts
  <2> HIDE DEF pp
  <2> QED
    BY <2>1, <2>2, FS_UNION
<1> DEFINE del == [l \in DOMAIN ls |-> NewUpdate("DELETE-LISTENER", 1, l, NoName, NoMember)]
           lis == [q \in DOMAIN s.ports |->
                     NewUpdate("CREATE-LISTENER", 6, NoId, genLoadBalancerPoolName(s, q), NoMember)]
           pol == [q \in DOMAIN s.ports |->
                     NewUpdate("CREATE-POOL", 6, NoId, genLoadBalancerPoolName(s, q), NoMember)]
           others == {del[l] : l \in DOMAIN ls} \cup {lis[q] : q \in DOMAIN s.ports}
                       \cup {pol[q] : q \in DOMAIN s.ports}
<1>9. IsFiniteSet(others)
  <2>1. IsFiniteSet(DOMAIN s.ports)
    BY <1>7, FS_Subset
  <2>2. /\ IsFiniteSet({del[l] : l \in DOMAIN ls})
        /\ IsFiniteSet({lis[q] : q \in DOMAIN s.ports})
        /\ IsFiniteSet({pol[q] : q \in DOMAIN s.ports})
    BY <1>6, <2>1, FiniteImage
  <2> HIDE DEF del, lis, pol
  <2> QED
    BY <2>2, FS_Union
<1>10. OtherPlan(ls, ps, s) \subseteq others
  BY DEF OtherPlan, checkListenerForExtPortDeletedFromService,
     checkListenersForExtPortAddedToService, checkPoolsForExtPortAddedToService
<1>11. UpdatesRequired(ls, ps, s, nl) \subseteq pools \cup others
  <2> DEFINE plan == UpdatesRequired(ls, ps, s, nl)
  <2>1. \A u \in plan : IF u.op \in PoolOps
                        THEN u.id \in DOMAIN ps /\ u \in PoolPlan(ps[u.id], u.id, s, nl)
                        ELSE u \in OtherPlan(ls, ps, s)
    BY <1>1, PlanByPool
  <2> HIDE DEF plan, others
  <2> QED
    BY <1>10, <2>1 DEF plan
<1>12. IsFiniteSet(pools \cup others)
  BY <1>8, <1>9, FS_Union
<1> HIDE DEF pools, others
<1> QED
  BY <1>11, <1>12, FS_Subset DEF ls, ps

-----------------------------------------------------------------------------
(* What each update does to the load balancer. *)

ListenerDeleted(u) ==
  /\ u.op = "DELETE-LISTENER" /\ lb'.pools = lb.pools
  /\ DOMAIN lb'.listeners = DOMAIN lb.listeners \ {u.id}
  /\ \A l \in DOMAIN lb'.listeners : lb'.listeners[l] = lb.listeners[l]

ListenerCreated(u) ==
  /\ u.op = "CREATE-LISTENER" /\ lb'.pools = lb.pools
  /\ \E k \in ListenerIds \ DOMAIN lb.listeners :
       /\ DOMAIN lb'.listeners = DOMAIN lb.listeners \cup {k}
       /\ lb'.listeners[k].port = u.name.port
       /\ \A l \in DOMAIN lb.listeners : lb'.listeners[l] = lb.listeners[l]

PoolDeleted(u) ==
  /\ u.op = "DELETE-POOL" /\ lb'.listeners = lb.listeners
  /\ DOMAIN lb'.pools = DOMAIN lb.pools \ {u.id}
  /\ \A i \in DOMAIN lb'.pools : lb'.pools[i] = lb.pools[i]

PoolCreated(u, s, nl) ==
  /\ u.op = "CREATE-POOL" /\ lb'.listeners = lb.listeners
  /\ \E k \in PoolIds \ DOMAIN lb.pools :
       /\ DOMAIN lb'.pools = DOMAIN lb.pools \cup {k}
       /\ lb'.pools[k] = NewPool(u.name, nl, getServiceHealthCheckNodePort(s))
       /\ \A i \in DOMAIN lb.pools : lb'.pools[i] = lb.pools[i]

MembersChanged(u, s, nl) ==
  /\ u.op \in MemberOps \cup {"REPLACE-POOL-MEMBERS"} /\ lb'.listeners = lb.listeners
  /\ lb' = WithPools(lb, [lb.pools EXCEPT ![u.id].members = Want(lb.pools, u.id, s, nl)])
  /\ u.id \in DOMAIN lb.pools
  /\ DOMAIN lb'.pools = DOMAIN lb.pools
  /\ lb'.pools[u.id].name = lb.pools[u.id].name /\ lb'.pools[u.id].hm = lb.pools[u.id].hm
  /\ lb'.pools[u.id].members = Want(lb.pools, u.id, s, nl)
  /\ \A i \in DOMAIN lb.pools \ {u.id} : lb'.pools[i] = lb.pools[i]

PoolUpdated(u, s) ==
  /\ u.op = "UPDATE-POOL" /\ lb'.listeners = lb.listeners
  /\ u.id \in DOMAIN lb.pools
  /\ DOMAIN lb'.pools = DOMAIN lb.pools
  /\ lb'.pools[u.id].name.port = lb.pools[u.id].name.port
  /\ AsService(lb'.pools[u.id], s)
  /\ lb'.pools[u.id].members = lb.pools[u.id].members
  /\ \A i \in DOMAIN lb.pools \ {u.id} : lb'.pools[i] = lb.pools[i]

LEMMA Effects ==
  ASSUME IInv, NEW p \in Procs, SInv(p), CInv(p), NEW u \in job[p].plan, Process(p, u)
  PROVE  \/ ListenerDeleted(u)
         \/ ListenerCreated(u)
         \/ PoolDeleted(u)
         \/ PoolCreated(u, job[p].svc, job[p].nodeList)
         \/ MembersChanged(u, job[p].svc, job[p].nodeList)
         \/ PoolUpdated(u, job[p].svc)
<1> DEFINE s  == job[p].svc
           nl == job[p].nodeList
<1>1. Processed(p, u)
  BY ProcessCovers
<1>2. /\ lb \in LoadBalancer /\ Accepts(lb, u, ListenerPool(p, u))
      /\ Shape(job[p].plan, s)
      /\ \A i \in DOMAIN lb.pools : lb.pools[i] \in Pool
      /\ u.op \in PoolOps => lb.pools[u.id].name.port = u.name.port
  BY <1>1, ProcessFacts
<1>3. CASE deleteLoadBalancerListener(p, u)
  BY <1>2, <1>3 DEF deleteLoadBalancerListener, DeleteLoadBalancerListener,
                    WithListeners, LoadBalancer, Restrict, ListenerDeleted
<1>4. CASE createLoadBalancerListener(p, u)
  <2> DEFINE new == [port |-> u.name.port, pool |-> ListenerPool(p, u)]
  <2>1. PICK k \in ListenerIds :
          FreshListener(k) /\ lb' = CreateLoadBalancerListener(lb, k, u.name, ListenerPool(p, u))
    BY <1>4 DEF createLoadBalancerListener
  <2>2. lb'.pools = lb.pools /\ lb'.listeners = Extend(lb.listeners, k, new)
    BY <1>2, <2>1 DEF CreateLoadBalancerListener, WithListeners, LoadBalancer
  <2>3. k \in ListenerIds \ DOMAIN lb.listeners
    BY <2>1 DEF FreshListener
  <2> QED
    BY <1>4, <2>2, <2>3 DEF Extend, ListenerCreated, createLoadBalancerListener
<1>5. CASE deleteLoadBalancerPool(p, u)
  BY <1>2, <1>5 DEF deleteLoadBalancerPool, DeleteLoadBalancerPool,
                    WithPools, LoadBalancer, Restrict, PoolDeleted
<1>6. CASE createLoadBalancerPool(p, u)
  <2> DEFINE new == NewPool(u.name, nl, getServiceHealthCheckNodePort(s))
  <2>1. PICK k \in PoolIds : FreshPool(k) /\ lb' = WithPools(lb, Extend(lb.pools, k, new))
    BY <1>6 DEF createLoadBalancerPool, CreateLoadBalancerPool
  <2> HIDE DEF new
  <2>2. lb'.listeners = lb.listeners /\ lb'.pools = Extend(lb.pools, k, new)
    BY <1>2, <2>1 DEF WithPools, LoadBalancer
  <2>3. k \in PoolIds \ DOMAIN lb.pools
    BY <2>1 DEF FreshPool
  <2> QED
    BY <1>6, <2>2, <2>3 DEF Extend, PoolCreated, createLoadBalancerPool, new
<1>7. CASE \/ deleteLoadBalancerPoolMember(p, u)
           \/ createLoadBalancerPoolMember(p, u)
           \/ replaceLoadBalancerPoolMembers(p, u)
  <2> DEFINE want == Want(lb.pools, u.id, s, nl)
  <2>1. /\ u.op \in MemberOps \cup {"REPLACE-POOL-MEMBERS"} /\ u.id \in DOMAIN lb.pools
        /\ lb'.listeners = lb.listeners
        /\ lb' = WithPools(lb, [lb.pools EXCEPT ![u.id].members = want])
        /\ lb'.pools = [lb.pools EXCEPT ![u.id].members = want]
    BY <1>7, MembersBecomeWanted
  <2> HIDE DEF want
  <2>2. /\ DOMAIN lb'.pools = DOMAIN lb.pools
        /\ lb'.pools[u.id].name = lb.pools[u.id].name /\ lb'.pools[u.id].hm = lb.pools[u.id].hm
        /\ lb'.pools[u.id].members = want
        /\ \A i \in DOMAIN lb.pools \ {u.id} : lb'.pools[i] = lb.pools[i]
    BY <1>2, <2>1 DEF Pool
  <2> QED
    BY <2>1, <2>2, Zenon DEF MembersChanged, want
<1>8. CASE updateLoadBalancerPool(p, u)
  <2> DEFINE hm == genLoadBalancerHealthMonitor(u.name.nodePort, getServiceHealthCheckNodePort(s))
  <2>1. u.op = "UPDATE-POOL" /\ u.id \in DOMAIN lb.pools
    BY <1>2, <1>8 DEF updateLoadBalancerPool, Accepts
  <2>2. /\ lb'.listeners = lb.listeners
        /\ lb'.pools = [lb.pools EXCEPT ![u.id].name = u.name, ![u.id].hm = hm]
    BY <1>2, <1>8 DEF updateLoadBalancerPool, UpdateLoadBalancerPool, WithPools, LoadBalancer
  <2> HIDE DEF hm
  <2>3. /\ DOMAIN lb'.pools = DOMAIN lb.pools
        /\ \A i \in DOMAIN lb.pools \ {u.id} : lb'.pools[i] = lb.pools[i]
        /\ lb'.pools[u.id] = [lb.pools[u.id] EXCEPT !.name = u.name, !.hm = hm]
    BY <2>1, <2>2, Zenon
  <2>4. lb.pools[u.id] \in Pool
    BY <1>2, <2>1
  <2>5. /\ lb'.pools[u.id].name = u.name /\ lb'.pools[u.id].hm = hm
        /\ lb'.pools[u.id].members = lb.pools[u.id].members
    BY <2>3, <2>4 DEF Pool
  <2>6. u.name = genLoadBalancerPoolName(s, u.name.port)
    BY <1>2, <2>1 DEF Shape
  <2>7. u.name.nodePort = s.ports[u.name.port]
    BY <2>6 DEF genLoadBalancerPoolName
  <2>8. AsService(lb'.pools[u.id], s)
    BY <2>5, <2>6, <2>7 DEF AsService, hm
  <2> QED
    BY <1>2, <2>1, <2>2, <2>3, <2>5, <2>8 DEF PoolUpdated, PoolOps
<1> QED
  BY <1>3, <1>4, <1>5, <1>6, <1>7, <1>8 DEF Process

-----------------------------------------------------------------------------
(* Every update of a plan is still needed when its turn comes. *)

Needed(ps, plan, s) ==
  \A u \in plan :
    /\ u.op = "UPDATE-POOL" => ~AsService(ps[u.id], s)
    /\ u.op \in MemberOps \cup {"REPLACE-POOL-MEMBERS"} /\ u.step # 4 =>
         ps[u.id].name = genLoadBalancerPoolName(s, ps[u.id].name.port)

NeededInv(p) == pc[p] \in Processing => Needed(lb.pools, job[p].plan, job[p].svc)

LEMMA NewPlanNeeded ==
  ASSUME NEW ls, NEW ps \in PartialFcns(PoolIds, Pool), NEW s \in Service, NEW nl
  PROVE  Needed(ps, UpdatesRequired(ls, ps, s, nl), s)
<1> DEFINE plan == UpdatesRequired(ls, ps, s, nl)
<1> SUFFICES ASSUME NEW u \in plan, u.op \in PoolOps
             PROVE  /\ u.op = "UPDATE-POOL" => ~AsService(ps[u.id], s)
                    /\ u.op \in MemberOps \cup {"REPLACE-POOL-MEMBERS"} /\ u.step # 4 =>
                         ~NameChanged(ps[u.id], s)
  BY DEF Needed, NameChanged, PoolOps
<1> DEFINE pool == ps[u.id]
<1>1. u.id \in DOMAIN ps /\ u \in PoolPlan(pool, u.id, s, nl)
  BY PlanByPool
<1>2. pool \in Pool
  BY <1>1, PartialFcnDef
<1>3. \A v \in MemberPlan(pool, u.id, nl) : v.op \in MemberOps \cup {"REPLACE-POOL-MEMBERS"}
  BY <1>2, MemberPlanFacts
<1> HIDE DEF pool
<1>4. ASSUME u.op = "UPDATE-POOL"
      PROVE  /\ pool.name.port \in DOMAIN s.ports
             /\ NameChanged(pool, s) \/ HealthMonitorChanged(pool, s)
  BY <1>1, <1>3, <1>4 DEF PoolPlan, NewUpdate, MemberOps
<1>5. u.op = "UPDATE-POOL" => ~AsService(pool, s)
  BY <1>2, <1>4, ServiceChanges
<1>6. u.op \in MemberOps \cup {"REPLACE-POOL-MEMBERS"} /\ u.step # 4 => ~NameChanged(pool, s)
  BY <1>1 DEF PoolPlan, NewUpdate, MemberOps
<1> QED
  BY <1>5, <1>6 DEF pool

LEMMA StillNeeded ==
  ASSUME IInv, NEW p \in Procs, SInv(p), CInv(p), NeededInv(p), NEW u \in job[p].plan, Process(p, u)
  PROVE  Needed(lb'.pools, job[p].plan \ {u}, job[p].svc)
<1> DEFINE plan == job[p].plan
           s    == job[p].svc
           nl   == job[p].nodeList
<1>1. Processed(p, u)
  BY ProcessCovers
<1>2. /\ Apart(plan) /\ pc[p] = "exec"
      /\ \A v \in plan : v.op \in PoolOps => v.id \in DOMAIN lb.pools
  BY <1>1, ProcessFacts
<1>3. Needed(lb.pools, plan, s)
  BY <1>2 DEF NeededInv, Processing
<1>4. ASSUME NEW i \in DOMAIN lb.pools
      PROVE  \/ lb'.pools[i] = lb.pools[i]
             \/ i = u.id /\ u.op = "DELETE-POOL"
             \/ /\ i = u.id /\ u.op \in PoolOps
                /\ lb'.pools[i].name = lb.pools[i].name /\ lb'.pools[i].hm = lb.pools[i].hm
             \/ i = u.id /\ u.op = "UPDATE-POOL" /\ AsService(lb'.pools[i], s)
  BY Effects DEF ListenerDeleted, ListenerCreated, PoolDeleted, PoolCreated, MembersChanged,
                 PoolUpdated, PoolOps
<1> SUFFICES ASSUME NEW v \in plan \ {u}, v.op \in PoolOps
             PROVE  /\ v.op = "UPDATE-POOL" => ~AsService(lb'.pools[v.id], s)
                    /\ v.op \in MemberOps \cup {"REPLACE-POOL-MEMBERS"} /\ v.step # 4 =>
                         lb'.pools[v.id].name
                           = genLoadBalancerPoolName(s, lb'.pools[v.id].name.port)
  BY DEF Needed, PoolOps
<1>5. v.id \in DOMAIN lb.pools
  BY <1>2
<1>6. CASE lb'.pools[v.id] = lb.pools[v.id]
  BY <1>3, <1>6 DEF Needed
<1>7. CASE v.id = u.id /\ u.op = "DELETE-POOL"
  BY <1>2, <1>7 DEF Apart, PoolOps
<1>8. CASE lb'.pools[v.id].name = lb.pools[v.id].name /\ lb'.pools[v.id].hm = lb.pools[v.id].hm
  BY <1>3, <1>8 DEF Needed, AsService
<1>9. CASE v.id = u.id /\ u.op = "UPDATE-POOL" /\ AsService(lb'.pools[v.id], s)
  BY <1>2, <1>9 DEF Apart, PoolOps, AsService
<1> QED
  BY <1>4, <1>5, <1>6, <1>7, <1>8, <1>9

LEMMA NeededStep ==
  ASSUME NEW p, Procs = {p}, UserPools = {}, IInv, SInv(p), CInv(p), NeededInv(p), [Next]_vars
  PROVE  NeededInv(p)'
<1> USE DEF IInv, ControlOK
<1>1. ASSUME lb'.pools = lb.pools,
             pc'[p] \in Processing => /\ pc[p] \in Processing
                                      /\ job'[p].plan = job[p].plan /\ job'[p].svc = job[p].svc
      PROVE  NeededInv(p)'
  BY <1>1 DEF NeededInv
<1>2. CASE EditService \/ ChangeNodes \/ UNCHANGED vars
  BY <1>1, <1>2 DEF EditService, ChangeNodes, vars
<1>3. ~AddUserPool
  BY DEF AddUserPool
<1>4. CASE Settle
  <2>1. lb'.pools = lb.pools /\ UNCHANGED <<pc, job>>
    BY <1>4 DEF Settle, LoadBalancer
  <2> QED
    BY <1>1, <2>1
<1>5. CASE pc'[p] \notin Processing
  BY <1>5 DEF NeededInv
<1>6. CASE RefuseUpdate(p) \/ RefusePlan(p) \/ Rejected(p) \/ Fail(p)
  BY <1>5, <1>6 DEF RefuseUpdate, RefusePlan, Rejected, Fail, Finish, Processing
<1>7. CASE \/ ReadKube(p) \/ FindLoadBalancer(p) \/ ListLoadBalancerListeners(p)
           \/ ListLoadBalancerPools(p) \/ ListLoadBalancerPoolMembers(p)
  BY <1>5, <1>7 DEF ReadKube, FindLoadBalancer, ListLoadBalancerListeners,
     ListLoadBalancerPools, ListLoadBalancerPoolMembers, Finish, Processing
<1>8. CASE GetLoadBalancer(p) \/ WaitLoadBalancerReady(p)
  <2>1. lb' = lb /\ pc[p] \in Processing /\ job[p] \in Job
    BY <1>8 DEF GetLoadBalancer, WaitLoadBalancerReady, JobOK, Processing
  <2>2. job' = job \/ job' = [job EXCEPT ![p].view = Names(lb.pools)]
    BY <1>8 DEF GetLoadBalancer, WaitLoadBalancerReady
  <2>3. job'[p].plan = job[p].plan /\ job'[p].svc = job[p].svc
    BY <2>1, <2>2 DEF Job
  <2> QED
    BY <1>1, <2>1, <2>3
<1>9. CASE Plan(p) /\ pc'[p] \in Processing
  <2> DEFINE plan(nl) == UpdatesRequired(job[p].listeners, job[p].pools, job[p].svc, nl)
  <2>1. /\ job[p] \in Job /\ lb' = lb /\ pc[p] = "members" /\ job[p].unread = {}
        /\ lb.pools \in PartialFcns(PoolIds, Pool)
        /\ job[p].pools \in PartialFcns(PoolIds, Pool) /\ job[p].svc \in Service
    BY <1>9 DEF Plan, JobOK, Job, LoadBalancer
  <2>2. \A nl : Needed(job[p].pools, plan(nl), job[p].svc)
    BY <2>1, NewPlanNeeded
  <2>3. job[p].pools = lb.pools
    <3>1. /\ DOMAIN job[p].pools = DOMAIN lb.pools
          /\ \A i \in DOMAIN lb.pools : job[p].pools[i] = lb.pools[i]
      BY <2>1 DEF SInv, Read
    <3>2. /\ lb.pools \in [DOMAIN lb.pools -> Pool]
          /\ job[p].pools \in [DOMAIN job[p].pools -> Pool]
      BY <2>1, PartialFcnDef
    <3> QED
      BY <3>1, <3>2
  <2> HIDE DEF plan
  <2>4. PICK nodeList \in NodeLists(job[p]) :
          \/ Finish(p, "ok")
          \/ job' = [job EXCEPT ![p].nodeList = nodeList, ![p].plan = plan(nodeList),
                                ![p].nodes = {}, ![p].listeners = Empty, ![p].pools = Empty]
    BY <1>9, Zenon DEF Plan, plan
  <2>5. ~Finish(p, "ok")
    BY <1>9 DEF Finish, Processing
  <2>6. job'[p] = [job[p] EXCEPT !.nodeList = nodeList, !.plan = plan(nodeList), !.nodes = {},
                                 !.listeners = Empty, !.pools = Empty]
    BY <2>4, <2>5
  <2>7. job'[p].plan = plan(nodeList) /\ job'[p].svc = job[p].svc
    BY <2>1, <2>6 DEF Job
  <2> QED
    BY <2>1, <2>2, <2>3, <2>7 DEF NeededInv
<1>10. ASSUME NEW u \in job[p].plan, Process(p, u), pc'[p] \in Processing
       PROVE  NeededInv(p)'
  <2>1. Processed(p, u) /\ job[p] \in Job
    BY <1>10, ProcessCovers DEF JobOK
  <2>2. ~Finish(p, "ok")
    BY <1>10 DEF Finish, Processing
  <2>3. job'[p] = [job[p] EXCEPT !.plan = job[p].plan \ {u}, !.view = Empty]
    BY <2>1, <2>2 DEF Processed
  <2>4. job'[p].plan = job[p].plan \ {u} /\ job'[p].svc = job[p].svc
    BY <2>1, <2>3 DEF Job
  <2>5. Needed(lb'.pools, job[p].plan \ {u}, job[p].svc)
    BY <1>10, StillNeeded
  <2> QED
    BY <2>4, <2>5 DEF NeededInv
<1> QED
  BY <1>2, <1>3, <1>4, <1>5, <1>6, <1>7, <1>8, <1>9, <1>10 DEF Next, Run

ProgressInv == SyncInv /\ \A p \in Procs : NeededInv(p)

LEMMA ProgressInvHolds ==
  ASSUME NEW p, Procs = {p}, UserPools = {} PROVE Spec => []ProgressInv
<1>1. Init => NeededInv(p)
  BY DEF Init, NeededInv, Processing
<1>2. SyncInv /\ NeededInv(p) /\ [Next]_vars => NeededInv(p)'
  BY NeededStep DEF SyncInv
<1>3. SyncInv /\ NeededInv(p) => ProgressInv
  BY DEF ProgressInv
<1>4. Spec => []SyncInv
  BY SyncInvHolds
<1> QED
  BY <1>1, <1>2, <1>3, <1>4, PTL DEF Spec

-----------------------------------------------------------------------------
(* Progress. *)

\* A set becomes smaller when it loses an element, or two for one.
LEMMA Fewer ==
  ASSUME NEW R, IsFiniteSet(R), NEW A \in SUBSET R, NEW B, NEW new,
         new \subseteq (R \ A) \cup B,
         \/ A # {} /\ B = {}
         \/ (\E x, y \in A : x # y) /\ (\A u, v \in B : u = v)
  PROVE  Cardinality(new) < Cardinality(R)
<1>1. ASSUME NEW S, IsFiniteSet(S), NEW x \in S
      PROVE  /\ IsFiniteSet(S \ {x}) /\ Cardinality(S \ {x}) \in Nat
             /\ Cardinality(S) = Cardinality(S \ {x}) + 1
  <2>1. /\ IsFiniteSet(S \ {x}) /\ Cardinality(S \ {x}) = Cardinality(S) - 1
    BY <1>1, FS_RemoveElement
  <2>2. Cardinality(S) \in Nat /\ Cardinality(S \ {x}) \in Nat
    BY <1>1, <2>1, FS_CardinalityType
  <2> QED
    BY <2>1, <2>2
<1>2. ASSUME NEW S, IsFiniteSet(S), NEW T \in SUBSET S
      PROVE  Cardinality(T) \in Nat /\ Cardinality(S) \in Nat /\ Cardinality(T) <= Cardinality(S)
  <2>1. IsFiniteSet(T) /\ Cardinality(T) <= Cardinality(S)
    BY <1>2, FS_Subset
  <2> QED
    BY <1>2, <2>1, FS_CardinalityType
<1>3. CASE A # {} /\ B = {}
  <2>1. PICK x \in A : TRUE
    BY <1>3
  <2>2. new \in SUBSET (R \ {x})
    BY <1>3, <2>1
  <2>3. /\ IsFiniteSet(R \ {x}) /\ Cardinality(R \ {x}) \in Nat
        /\ Cardinality(R) = Cardinality(R \ {x}) + 1
    BY <1>1, <2>1
  <2>4. Cardinality(new) \in Nat /\ Cardinality(new) <= Cardinality(R \ {x})
    BY <1>2, <2>2, <2>3
  <2> QED
    BY <2>3, <2>4
<1>4. CASE (\E x, y \in A : x # y) /\ (\A u, v \in B : u = v)
  <2>1. PICK x \in A, y \in A : x # y
    BY <1>4
  <2>2. PICK m : B \subseteq {m}
    BY <1>4
  <2> DEFINE Q == (R \ {x}) \ {y}
  <2>3. /\ IsFiniteSet(R \ {x}) /\ Cardinality(R \ {x}) \in Nat
        /\ Cardinality(R) = Cardinality(R \ {x}) + 1
    BY <1>1, <2>1
  <2>4. /\ IsFiniteSet(Q) /\ Cardinality(Q) \in Nat
        /\ Cardinality(R \ {x}) = Cardinality(Q) + 1
    BY <1>1, <2>1, <2>3
  <2>5. new \in SUBSET (Q \cup {m})
    BY <2>1, <2>2
  <2> HIDE DEF Q
  <2>6. IsFiniteSet(Q \cup {m}) /\ Cardinality(Q \cup {m}) <= Cardinality(Q) + 1
    <3>1. IsFiniteSet(Q \cup {m})
          /\ Cardinality(Q \cup {m}) = IF m \in Q THEN Cardinality(Q) ELSE Cardinality(Q) + 1
      BY <2>4, FS_AddElement
    <3> QED
      BY <2>4, <3>1
  <2>7. /\ Cardinality(new) \in Nat /\ Cardinality(Q \cup {m}) \in Nat
        /\ Cardinality(new) <= Cardinality(Q \cup {m})
    BY <1>2, <2>5, <2>6
  <2> QED
    BY <2>3, <2>4, <2>6, <2>7
<1> QED
  BY <1>3, <1>4

\* Pools that stay as they are need the same updates, in a plan that keeps the
\* others as well.
LEMMA PlanOfChangedPools ==
  ASSUME NEW ls, NEW newLs, NEW s \in Service, NEW nl,
         NEW ps \in PartialFcns(PoolIds, Pool), NEW new \in PartialFcns(PoolIds, Pool),
         NEW k, \A i \in DOMAIN new \ {k} : i \in DOMAIN ps /\ new[i] = ps[i],
         OtherPlan(newLs, new, s) \subseteq OtherPlan(ls, ps, s),
         NEW u \in UpdatesRequired(newLs, new, s, nl)
  PROVE  \/ /\ u \in UpdatesRequired(ls, ps, s, nl)
            /\ IF u.op \in PoolOps THEN u.id # k ELSE u \in OtherPlan(newLs, new, s)
         \/ /\ u.op \in PoolOps /\ u.id = k
            /\ k \in DOMAIN new /\ u \in PoolPlan(new[k], k, s, nl)
<1>1. IF u.op \in PoolOps
      THEN u.id \in DOMAIN new /\ u \in PoolPlan(new[u.id], u.id, s, nl)
      ELSE u \in OtherPlan(newLs, new, s)
  BY PlanByPool
<1>2. /\ OtherPlan(ls, ps, s) \subseteq UpdatesRequired(ls, ps, s, nl)
      /\ \A i \in DOMAIN ps : PoolPlan(ps[i], i, s, nl) \subseteq UpdatesRequired(ls, ps, s, nl)
  BY PlanByPool
<1> QED
  BY <1>1, <1>2

\* The pools that there are decide which are to be created.
LEMMA OtherPlanSame ==
  ASSUME NEW ls, NEW s, NEW ps, NEW new,
         \A q \in DOMAIN s.ports : (\E i \in DOMAIN ps : ps[i].name.port = q) <=>
                                     (\E i \in DOMAIN new : new[i].name.port = q)
  PROVE  OtherPlan(ls, new, s) = OtherPlan(ls, ps, s)
<1>1. ASSUME NEW q \in DOMAIN s.ports
      PROVE  (\A i \in KeptPools(ps, s) : ps[i].name.port # q) <=>
               (\A i \in KeptPools(new, s) : new[i].name.port # q)
  BY DEF KeptPools
<1>2. checkPoolsForExtPortAddedToService(new, s) = checkPoolsForExtPortAddedToService(ps, s)
  BY <1>1 DEF checkPoolsForExtPortAddedToService
<1> QED
  BY <1>2 DEF OtherPlan

\* The members of a pool become what they should be.
LEMMA FewerByMembers ==
  ASSUME NEW ls, NEW s \in Service, NEW nl,
         NEW ps \in PartialFcns(PoolIds, Pool), NEW new \in PartialFcns(PoolIds, Pool),
         IsFiniteSet(UpdatesRequired(ls, ps, s, nl)),
         NEW k \in DOMAIN ps, DOMAIN new = DOMAIN ps,
         \A i \in DOMAIN ps \ {k} : new[i] = ps[i],
         new[k].name = ps[k].name, new[k].hm = ps[k].hm,
         ps[k].name.port \in DOMAIN s.ports, ~NameChanged(ps[k], s),
         new[k].members = Want(ps, k, s, nl), ps[k].members # new[k].members
  PROVE  Cardinality(UpdatesRequired(ls, new, s, nl)) < Cardinality(UpdatesRequired(ls, ps, s, nl))
<1> DEFINE R    == UpdatesRequired(ls, ps, s, nl)
           newR == UpdatesRequired(ls, new, s, nl)
           A    == MemberPlan(ps[k], k, nl)
<1>1. ps[k] \in Pool /\ new[k] \in Pool
  BY PartialFcnDef
<1>2. ps[k].name.nodePort = s.ports[ps[k].name.port]
  BY <1>1, ServiceChanges
<1>3. A # {} /\ MemberPlan(new[k], k, nl) = {}
      /\ \A u \in A : u.id = k /\ u.op \in MemberOps \cup {"REPLACE-POOL-MEMBERS"}
  BY <1>1, <1>2, MemberPlanFacts DEF Want
<1>4. A \subseteq PoolPlan(ps[k], k, s, nl)
  BY DEF PoolPlan
<1>5. PoolPlan(ps[k], k, s, nl) \subseteq R
  BY PlanByPool
<1>6. OtherPlan(ls, new, s) = OtherPlan(ls, ps, s)
  BY OtherPlanSame
<1>7. ASSUME NEW u \in PoolPlan(new[k], k, s, nl)
      PROVE  u \in PoolPlan(ps[k], k, s, nl) \ A
  <2> DEFINE upd == NewUpdate("UPDATE-POOL", 4, k, genLoadBalancerPoolName(s, ps[k].name.port), NoMember)
  <2>1. ~NameChanged(new[k], s) /\ (HealthMonitorChanged(new[k], s) <=> HealthMonitorChanged(ps[k], s))
    BY DEF NameChanged, HealthMonitorChanged
  <2>2. u = upd /\ HealthMonitorChanged(ps[k], s)
    BY <1>3, <2>1 DEF PoolPlan
  <2>3. u.op = "UPDATE-POOL"
    BY <2>2 DEF NewUpdate
  <2>4. u \in PoolPlan(ps[k], k, s, nl)
    BY <2>2 DEF PoolPlan
  <2> QED
    BY <1>3, <2>3, <2>4 DEF MemberOps
<1>8. ASSUME NEW u \in newR PROVE u \in R \ A
  <2>1. \/ /\ u \in R
           /\ IF u.op \in PoolOps THEN u.id # k ELSE u \in OtherPlan(ls, new, s)
        \/ u \in PoolPlan(new[k], k, s, nl)
    BY <1>6, PlanOfChangedPools
  <2>2. CASE u \in R /\ u.op \in PoolOps /\ u.id # k
    BY <1>3, <2>2
  <2>3. CASE u \in R /\ u.op \notin PoolOps
    BY <1>3, <2>3 DEF PoolOps
  <2>4. CASE u \in PoolPlan(new[k], k, s, nl)
    BY <1>5, <1>7, <2>4
  <2> QED
    BY <2>1, <2>2, <2>3, <2>4
<1>9. newR \subseteq (R \ A) \cup {} /\ A \in SUBSET R
  BY <1>4, <1>5, <1>8
<1> HIDE DEF R, newR, A
<1> QED
  BY <1>3, <1>9, Fewer DEF R, newR

\* A pool gets the name and the health monitor of the service.
LEMMA FewerByUpdate ==
  ASSUME NEW ls, NEW s \in Service, NEW nl,
         NEW ps \in PartialFcns(PoolIds, Pool), NEW new \in PartialFcns(PoolIds, Pool),
         IsFiniteSet(UpdatesRequired(ls, ps, s, nl)),
         NEW k \in DOMAIN ps, DOMAIN new = DOMAIN ps,
         \A i \in DOMAIN ps \ {k} : new[i] = ps[i],
         new[k].name.port = ps[k].name.port, new[k].members = ps[k].members,
         ps[k].name.port \in DOMAIN s.ports, ~AsService(ps[k], s), AsService(new[k], s)
  PROVE  Cardinality(UpdatesRequired(ls, new, s, nl)) < Cardinality(UpdatesRequired(ls, ps, s, nl))
<1> DEFINE R    == UpdatesRequired(ls, ps, s, nl)
           newR == UpdatesRequired(ls, new, s, nl)
           name == genLoadBalancerPoolName(s, ps[k].name.port)
           upd  == NewUpdate("UPDATE-POOL", 4, k, name, NoMember)
           rep  == NewUpdate("REPLACE-POOL-MEMBERS", 4, k, name, NoMember)
           A    == IF NameChanged(ps[k], s) THEN {upd, rep} ELSE {upd}
           B    == IF NameChanged(ps[k], s) THEN MemberPlan(new[k], k, nl) ELSE {}
<1>1. ps[k] \in Pool /\ new[k] \in Pool
  BY PartialFcnDef
<1>2. /\ ~NameChanged(new[k], s) /\ ~HealthMonitorChanged(new[k], s)
      /\ NameChanged(ps[k], s) \/ HealthMonitorChanged(ps[k], s)
  BY <1>1, ServiceChanges
<1>3. PoolPlan(new[k], k, s, nl) = MemberPlan(new[k], k, nl)
  BY <1>2 DEF PoolPlan
<1>4. PoolPlan(ps[k], k, s, nl)
        = IF NameChanged(ps[k], s) THEN {upd, rep} ELSE {upd} \cup MemberPlan(ps[k], k, nl)
  BY <1>2 DEF PoolPlan
<1>5. upd.op = "UPDATE-POOL" /\ upd.id = k /\ rep.op = "REPLACE-POOL-MEMBERS" /\ rep.id = k
  BY DEF NewUpdate
<1>6. \A u, v \in MemberPlan(new[k], k, nl) : u = v
  BY <1>1, MemberPlanFacts
<1>7. \A u \in MemberPlan(ps[k], k, nl) : u.op # "UPDATE-POOL"
  BY <1>1, MemberPlanFacts DEF MemberOps
<1>8. ~NameChanged(ps[k], s) => MemberPlan(new[k], k, nl) = MemberPlan(ps[k], k, nl)
  <2> SUFFICES ASSUME ~NameChanged(ps[k], s)
               PROVE  MemberPlan(new[k], k, nl) = MemberPlan(ps[k], k, nl)
    OBVIOUS
  <2>1. new[k].name = ps[k].name
    BY <1>2 DEF NameChanged
  <2> QED
    BY <2>1 DEF MemberPlan, MemberChanges, StaleMembers, MissingNodes
<1>9. PoolPlan(ps[k], k, s, nl) \subseteq R
  BY PlanByPool
<1>10. OtherPlan(ls, new, s) = OtherPlan(ls, ps, s)
  BY OtherPlanSame
<1> HIDE DEF upd, rep
<1>11. A \in SUBSET R /\ upd \in A
  BY <1>4, <1>9
<1>12. ASSUME NEW u \in newR PROVE u \in (R \ A) \cup B
  <2>1. \/ /\ u \in R
           /\ IF u.op \in PoolOps THEN u.id # k ELSE u \in OtherPlan(ls, new, s)
        \/ u \in PoolPlan(new[k], k, s, nl)
    BY <1>10, PlanOfChangedPools
  <2>2. CASE u \in R /\ u.op \in PoolOps /\ u.id # k
    BY <1>5, <2>2
  <2>3. CASE u \in R /\ u.op \notin PoolOps
    BY <1>5, <2>3 DEF PoolOps
  <2>4. CASE u \in MemberPlan(new[k], k, nl) /\ NameChanged(ps[k], s)
    BY <2>4
  <2>5. CASE u \in MemberPlan(new[k], k, nl) /\ ~NameChanged(ps[k], s)
    BY <1>4, <1>5, <1>7, <1>8, <1>9, <2>5
  <2> QED
    BY <1>3, <2>1, <2>2, <2>3, <2>4, <2>5
<1>13. \/ A # {} /\ B = {}
       \/ (\E x, y \in A : x # y) /\ (\A u, v \in B : u = v)
  BY <1>5, <1>6, <1>11
<1>14. newR \subseteq (R \ A) \cup B
  BY <1>12
<1> HIDE DEF R, newR, A, B
<1> QED
  BY <1>11, <1>13, <1>14, Fewer DEF R, newR

\* A pool that no port of the service needs is gone.
LEMMA FewerByPoolDeleted ==
  ASSUME NEW ls, NEW s \in Service, NEW nl,
         NEW ps \in PartialFcns(PoolIds, Pool), NEW new \in PartialFcns(PoolIds, Pool),
         IsFiniteSet(UpdatesRequired(ls, ps, s, nl)),
         NEW k \in DOMAIN ps, DOMAIN new = DOMAIN ps \ {k},
         \A i \in DOMAIN new : new[i] = ps[i],
         ps[k].name.port \notin DOMAIN s.ports
  PROVE  Cardinality(UpdatesRequired(ls, new, s, nl)) < Cardinality(UpdatesRequired(ls, ps, s, nl))
<1> DEFINE R    == UpdatesRequired(ls, ps, s, nl)
           newR == UpdatesRequired(ls, new, s, nl)
           del  == NewUpdate("DELETE-POOL", 2, k, ps[k].name, NoMember)
<1>1. del \in PoolPlan(ps[k], k, s, nl)
  BY DEF PoolPlan
<1>2. del \in R
  BY <1>1, PlanByPool
<1>3. del.op \in PoolOps /\ del.id = k
  BY DEF NewUpdate, PoolOps
<1>4. OtherPlan(ls, new, s) = OtherPlan(ls, ps, s)
  BY OtherPlanSame
<1> HIDE DEF del
<1>5. newR \subseteq (R \ {del}) \cup {}
  <2>1. ASSUME NEW u \in newR
        PROVE  \/ /\ u \in R
                  /\ IF u.op \in PoolOps THEN u.id # k ELSE u \in OtherPlan(ls, new, s)
               \/ u.op \in PoolOps /\ k \in DOMAIN new
    <3>1. \A i \in DOMAIN new \ {k} : i \in DOMAIN ps /\ new[i] = ps[i]
      OBVIOUS
    <3>2. OtherPlan(ls, new, s) \subseteq OtherPlan(ls, ps, s)
      BY <1>4
    <3> QED
      BY <3>1, <3>2, PlanOfChangedPools
  <2> QED
    BY <1>3, <2>1
<1>6. {del} \in SUBSET R
  BY <1>2
<1> HIDE DEF R, newR
<1> QED
  BY <1>5, <1>6, Fewer DEF R, newR

\* A port of the service gets its pool.
LEMMA FewerByPoolCreated ==
  ASSUME NEW ls, NEW s \in Service, NEW nl,
         NEW ps \in PartialFcns(PoolIds, Pool), NEW new \in PartialFcns(PoolIds, Pool),
         IsFiniteSet(UpdatesRequired(ls, ps, s, nl)),
         NEW k, k \notin DOMAIN ps, DOMAIN new = DOMAIN ps \cup {k},
         \A i \in DOMAIN ps : new[i] = ps[i],
         NEW q \in DOMAIN s.ports, \A i \in DOMAIN ps : ps[i].name.port # q,
         new[k] = NewPool(genLoadBalancerPoolName(s, q), nl, getServiceHealthCheckNodePort(s))
  PROVE  Cardinality(UpdatesRequired(ls, new, s, nl)) < Cardinality(UpdatesRequired(ls, ps, s, nl))
<1> DEFINE R    == UpdatesRequired(ls, ps, s, nl)
           newR == UpdatesRequired(ls, new, s, nl)
           create(r) == NewUpdate("CREATE-POOL", 6, NoId, genLoadBalancerPoolName(s, r), NoMember)
<1>1. new[k] \in Pool
  BY PartialFcnDef
<1>2. new[k].name.port = q /\ AsService(new[k], s)
      /\ new[k].members = genLoadBalancerMembers(s.ports[q], nl)
  BY DEF NewPool, AsService, genLoadBalancerPoolName
<1>3. PoolPlan(new[k], k, s, nl) = {}
  BY <1>1, <1>2, PoolPlanFacts
<1>4. \A r \in DOMAIN s.ports : create(r).name.port = r /\ create(r).op = "CREATE-POOL"
  BY DEF NewUpdate, genLoadBalancerPoolName
<1>5. \A x : x \in checkPoolsForExtPortAddedToService(ps, s) <=>
               \E r \in DOMAIN s.ports :
                 x = create(r) /\ \A i \in DOMAIN ps : ps[i].name.port # r
  BY DEF checkPoolsForExtPortAddedToService, KeptPools
<1>6. \A x : x \in checkPoolsForExtPortAddedToService(new, s) <=>
               \E r \in DOMAIN s.ports :
                 x = create(r) /\ \A i \in DOMAIN new : new[i].name.port # r
  BY DEF checkPoolsForExtPortAddedToService, KeptPools
<1> HIDE DEF create
<1>7. /\ create(q) \in checkPoolsForExtPortAddedToService(ps, s)
      /\ checkPoolsForExtPortAddedToService(new, s)
           \subseteq checkPoolsForExtPortAddedToService(ps, s) \ {create(q)}
  BY <1>2, <1>4, <1>5, <1>6
<1>8. /\ \A u \in checkListenerForExtPortDeletedFromService(ls, s) : u.op # "CREATE-POOL"
      /\ \A u \in checkListenersForExtPortAddedToService(ls, s) : u.op # "CREATE-POOL"
  BY DEF checkListenerForExtPortDeletedFromService, checkListenersForExtPortAddedToService, NewUpdate
<1>9. create(q) \in OtherPlan(ls, ps, s)
      /\ OtherPlan(ls, new, s) \subseteq OtherPlan(ls, ps, s) \ {create(q)}
  BY <1>4, <1>7, <1>8 DEF OtherPlan
<1>10. create(q) \in R
  BY <1>9, PlanByPool
<1>11. newR \subseteq (R \ {create(q)}) \cup {}
  <2>1. create(q).op \notin PoolOps
    BY <1>4 DEF PoolOps, MemberOps
  <2>2. ASSUME NEW u \in newR
        PROVE  \/ /\ u \in R
                  /\ IF u.op \in PoolOps THEN u.id # k ELSE u \in OtherPlan(ls, new, s)
               \/ u \in PoolPlan(new[k], k, s, nl)
    BY <1>9, PlanOfChangedPools
  <2> QED
    BY <1>3, <1>9, <2>1, <2>2
<1>12. {create(q)} \in SUBSET R
  BY <1>10
<1> HIDE DEF R, newR
<1> QED
  BY <1>11, <1>12, Fewer DEF R, newR

\* A listener that no port of the service needs is gone, or a port gets its
\* listener.
LEMMA FewerByListener ==
  ASSUME NEW ls, NEW newLs, NEW s \in Service, NEW nl, NEW ps \in PartialFcns(PoolIds, Pool),
         IsFiniteSet(UpdatesRequired(ls, ps, s, nl)),
         NEW k,
         \/ /\ k \in DOMAIN ls /\ ls[k].port \notin DOMAIN s.ports
            /\ DOMAIN newLs = DOMAIN ls \ {k} /\ \A l \in DOMAIN newLs : newLs[l] = ls[l]
         \/ /\ k \notin DOMAIN ls /\ newLs[k].port \in DOMAIN s.ports
            /\ \A l \in DOMAIN ls : ls[l].port # newLs[k].port
            /\ DOMAIN newLs = DOMAIN ls \cup {k} /\ \A l \in DOMAIN ls : newLs[l] = ls[l]
  PROVE  Cardinality(UpdatesRequired(newLs, ps, s, nl)) < Cardinality(UpdatesRequired(ls, ps, s, nl))
<1> DEFINE R    == UpdatesRequired(ls, ps, s, nl)
           newR == UpdatesRequired(newLs, ps, s, nl)
           del(l) == NewUpdate("DELETE-LISTENER", 1, l, NoName, NoMember)
           add(q) == NewUpdate("CREATE-LISTENER", 6, NoId, genLoadBalancerPoolName(s, q), NoMember)
           deletes(f) == checkListenerForExtPortDeletedFromService(f, s)
           creates(f) == checkListenersForExtPortAddedToService(f, s)
           pools  == checkPoolsForExtPortAddedToService(ps, s)
           gone == IF k \in DOMAIN ls THEN del(k) ELSE add(newLs[k].port)
<1>1. /\ \A l : del(l).op = "DELETE-LISTENER" /\ del(l).id = l
      /\ \A q \in DOMAIN s.ports : add(q).op = "CREATE-LISTENER" /\ add(q).name.port = q
      /\ \A u \in pools : u.op = "CREATE-POOL"
  BY DEF NewUpdate, genLoadBalancerPoolName, checkPoolsForExtPortAddedToService
<1>2. \A f, x : x \in deletes(f) <=>
                  \E l \in DOMAIN f : x = del(l) /\ f[l].port \notin DOMAIN s.ports
  BY DEF checkListenerForExtPortDeletedFromService
<1>3. \A f, x : x \in creates(f) <=>
                  \E q \in DOMAIN s.ports : x = add(q) /\ \A l \in DOMAIN f : f[l].port # q
  BY DEF checkListenersForExtPortAddedToService
<1>4. \A f : OtherPlan(f, ps, s) = deletes(f) \cup creates(f) \cup pools
  BY DEF OtherPlan
<1> HIDE DEF del, add, deletes, creates, pools
<1>5. deletes(newLs) \subseteq deletes(ls) /\ creates(newLs) \subseteq creates(ls)
  BY <1>2, <1>3
<1>6. gone \in deletes(ls) \cup creates(ls) /\ gone \notin deletes(newLs) \cup creates(newLs)
      /\ gone.op \in {"DELETE-LISTENER", "CREATE-LISTENER"}
  <2>1. CASE k \in DOMAIN ls
    BY <1>1, <1>2, <1>3, <2>1
  <2>2. CASE k \notin DOMAIN ls
    BY <1>1, <1>2, <1>3, <2>2
  <2> QED
    BY <2>1, <2>2
<1>7. /\ gone \in OtherPlan(ls, ps, s)
      /\ OtherPlan(newLs, ps, s) \subseteq OtherPlan(ls, ps, s) \ {gone}
  BY <1>1, <1>4, <1>5, <1>6
<1> HIDE DEF gone
<1>8. gone \in R
  BY <1>7, PlanByPool
<1>9. newR \subseteq (R \ {gone}) \cup {}
  <2>1. ASSUME NEW u \in newR
        PROVE  u \in R /\ (u.op \notin PoolOps => u \in OtherPlan(newLs, ps, s))
    <3>1. IF u.op \in PoolOps
          THEN u.id \in DOMAIN ps /\ u \in PoolPlan(ps[u.id], u.id, s, nl)
          ELSE u \in OtherPlan(newLs, ps, s)
      BY PlanByPool
    <3>2. /\ OtherPlan(ls, ps, s) \subseteq R
          /\ \A i \in DOMAIN ps : PoolPlan(ps[i], i, s, nl) \subseteq R
      BY PlanByPool
    <3> QED
      BY <1>7, <3>1, <3>2
  <2> QED
    BY <1>6, <1>7, <2>1 DEF PoolOps, MemberOps
<1>10. {gone} \in SUBSET R
  BY <1>8
<1> HIDE DEF R, newR
<1> QED
  BY <1>9, <1>10, Fewer DEF R, newR

LEMMA ProgressStep ==
  ASSUME IsFiniteSet(Ports), NEW p \in Procs, IInv, IInv', SInv(p), CInv(p), NeededInv(p),
         NEW u \in job[p].plan, Process(p, u)
  PROVE  \/ lb' = [lb EXCEPT !.ready = FALSE]
         \/ Cardinality(Remaining(lb', job[p])) < Cardinality(Remaining(lb, job[p]))
<1> DEFINE plan == job[p].plan
           s    == job[p].svc
           nl   == job[p].nodeList
           ls   == lb.listeners
           ps   == lb.pools
           newLs == lb'.listeners
           new   == lb'.pools
<1>1. Processed(p, u) /\ IsNext(p, u)
  BY ProcessCovers DEF Processed
<1>2. /\ lb \in LoadBalancer /\ Shape(plan, s) /\ Apart(plan)
      /\ \A v \in plan :
           /\ v.op = "DELETE-LISTENER" => v.id \in DOMAIN ls
           /\ v.op \in PoolOps => v.id \in DOMAIN ps /\ ps[v.id].name.port = v.name.port
      /\ ListenersCovered(ls, plan, s) /\ PoolsCovered(ps, plan, s, nl)
      /\ OneListenerPerPort /\ pc[p] = "exec"
  BY <1>1, ProcessFacts
<1>3. /\ ps \in PartialFcns(PoolIds, Pool) /\ new \in PartialFcns(PoolIds, Pool)
      /\ s \in Service /\ lb' \in LoadBalancer
  BY DEF IInv, LoadBalancer, JobOK, Job
<1>4. Needed(ps, plan, s) /\ OnePoolPerPort /\ DueNow(ls, ps, plan, u)
  BY <1>2, PlannedUpdate DEF NeededInv, Processing, SInv
<1>5. IsFiniteSet(UpdatesRequired(ls, ps, s, nl))
  BY <1>2, <1>3, <1>4, PlanIsFinite
<1>6. IF u.op \in CreateOps
      THEN /\ u.name.port \in DOMAIN s.ports
           /\ u.name = genLoadBalancerPoolName(s, u.name.port)
      ELSE TRUE
  BY <1>2 DEF Shape
<1> SUFFICES ASSUME lb' # [lb EXCEPT !.ready = FALSE]
             PROVE  Cardinality(UpdatesRequired(newLs, new, s, nl))
                      < Cardinality(UpdatesRequired(ls, ps, s, nl))
  BY DEF Remaining
<1> HIDE DEF plan, s, nl, ls, ps, newLs, new
<1>7. CASE ListenerDeleted(u)
  <2>1. /\ u.op = "DELETE-LISTENER" /\ new = ps /\ DOMAIN newLs = DOMAIN ls \ {u.id}
        /\ \A l \in DOMAIN newLs : newLs[l] = ls[l]
    BY <1>7 DEF ListenerDeleted, new, ps, newLs, ls
  <2>2. u.id \in DOMAIN ls /\ ls[u.id].port \notin DOMAIN s.ports
    BY <1>2, <2>1 DEF ListenersCovered, plan
  <2> QED
    BY <1>3, <1>5, <2>1, <2>2, FewerByListener
<1>8. CASE ListenerCreated(u)
  <2>1. new = ps /\ u.op = "CREATE-LISTENER"
    BY <1>8 DEF ListenerCreated, new, ps
  <2>2. PICK k : /\ k \notin DOMAIN ls /\ DOMAIN newLs = DOMAIN ls \cup {k}
                 /\ newLs[k].port = u.name.port
                 /\ \A l \in DOMAIN ls : newLs[l] = ls[l]
    BY <1>8 DEF ListenerCreated, newLs, ls
  <2>3. u.name.port \in DOMAIN s.ports /\ \A l \in DOMAIN ls : ls[l].port # u.name.port
    BY <1>4, <1>6, <2>1 DEF DueNow, CreateOps
  <2> QED
    BY <1>3, <1>5, <2>1, <2>2, <2>3, FewerByListener
<1>9. CASE PoolDeleted(u)
  <2>1. /\ u.op = "DELETE-POOL" /\ newLs = ls /\ DOMAIN new = DOMAIN ps \ {u.id}
        /\ \A i \in DOMAIN new : new[i] = ps[i]
    BY <1>9 DEF PoolDeleted, new, ps, newLs, ls
  <2>2. u.id \in DOMAIN ps /\ ps[u.id].name.port \notin DOMAIN s.ports
    BY <1>2, <2>1 DEF Shape, PoolOps, plan
  <2> QED
    BY <1>3, <1>5, <2>1, <2>2, FewerByPoolDeleted
<1>10. CASE PoolCreated(u, s, nl)
  <2>1. newLs = ls /\ u.op = "CREATE-POOL"
    BY <1>10 DEF PoolCreated, newLs, ls
  <2>2. PICK k : /\ k \notin DOMAIN ps /\ DOMAIN new = DOMAIN ps \cup {k}
                 /\ new[k] = NewPool(u.name, nl, getServiceHealthCheckNodePort(s))
                 /\ \A i \in DOMAIN ps : new[i] = ps[i]
    BY <1>10 DEF PoolCreated, new, ps
  <2> DEFINE q == u.name.port
  <2>3. /\ q \in DOMAIN s.ports /\ \A i \in DOMAIN ps : ps[i].name.port # q
        /\ u.name = genLoadBalancerPoolName(s, q)
    BY <1>4, <1>6, <2>1 DEF DueNow, CreateOps
  <2> HIDE DEF q
  <2> QED
    BY <1>3, <1>5, <2>1, <2>2, <2>3, FewerByPoolCreated
<1>11. CASE MembersChanged(u, s, nl)
  <2> DEFINE k == u.id
  <2>1. /\ u.op \in MemberOps \cup {"REPLACE-POOL-MEMBERS"} /\ newLs = ls
        /\ lb' = WithPools(lb, [ps EXCEPT ![k].members = Want(ps, k, s, nl)])
        /\ k \in DOMAIN ps /\ DOMAIN new = DOMAIN ps
        /\ new[k].name = ps[k].name /\ new[k].hm = ps[k].hm
        /\ new[k].members = Want(ps, k, s, nl)
        /\ \A i \in DOMAIN ps \ {k} : new[i] = ps[i]
    BY <1>11 DEF MembersChanged, new, ps, newLs, ls
  <2>2. ps[k] \in Pool
    BY <1>3, <2>1, PartialFcnDef
  <2>3. ps[k].name.port \in DOMAIN s.ports
    <3>1. u \in plan /\ u.op \in PoolOps \ {"DELETE-POOL"}
      BY <2>1 DEF plan, PoolOps, MemberOps
    <3>2. ~ \E v \in plan : v.op = "DELETE-POOL" /\ v.id = k
      BY <1>2, <3>1 DEF Apart, PoolOps
    <3> QED
      BY <1>2, <2>1, <3>2 DEF PoolsCovered, PoolKept
  <2>4. ~NameChanged(ps[k], s)
    <3>1. CASE u.step # 4
      BY <1>4, <2>1, <3>1 DEF Needed, NameChanged, plan
    <3>2. CASE u.step = 4
      <4>1. ASSUME NEW v \in plan, v.op = "UPDATE-POOL", v.id = k PROVE FALSE
        <5>1. v # u /\ v.step = 4
          BY <1>2, <2>1, <4>1 DEF Shape, MemberOps
        <5>2. Precedes(u, v)
          BY <1>1, <5>1 DEF IsNext, plan
        <5>3. k \in Nat
          BY <1>3, <2>1, IdAssumption, PartialFcnDef DEF IdAssumption
        <5> QED
          BY <3>2, <4>1, <5>1, <5>2, <5>3 DEF Precedes
      <4>2. AsService(ps[k], s)
        BY <1>2, <2>1, <2>3, <4>1 DEF PoolsCovered, PoolKept, PoolCovered
      <4> QED
        BY <4>2 DEF AsService, NameChanged
    <3> QED
      BY <3>1, <3>2
  <2>5. ps[k].members # new[k].members
    <3> SUFFICES ASSUME ps[k].members = Want(ps, k, s, nl) PROVE lb' = [lb EXCEPT !.ready = FALSE]
      BY <2>1
    <3> DEFINE want == Want(ps, k, s, nl)
    <3> HIDE DEF want
    <3>1. [ps EXCEPT ![k].members = want] = ps
      <4>1. [ps[k] EXCEPT !.members = want] = ps[k]
        BY <2>2 DEF Pool, want
      <4>2. ps \in [DOMAIN ps -> Pool]
        BY <1>3, PartialFcnDef
      <4>3. [ps EXCEPT ![k] = ps[k]] = ps
        BY <4>2
      <4> QED
        BY <4>1, <4>3
    <3>2. lb' = WithPools(lb, ps)
      BY <2>1, <3>1 DEF want
    <3> QED
      BY <1>2, <3>2 DEF WithPools, LoadBalancer, ps
  <2> HIDE DEF k
  <2> QED
    BY <1>3, <1>5, <2>1, <2>3, <2>4, <2>5, FewerByMembers
<1>12. CASE PoolUpdated(u, s)
  <2> DEFINE k == u.id
  <2>1. /\ u.op = "UPDATE-POOL" /\ newLs = ls /\ k \in DOMAIN ps /\ DOMAIN new = DOMAIN ps
        /\ new[k].name.port = ps[k].name.port /\ new[k].members = ps[k].members
        /\ AsService(new[k], s)
        /\ \A i \in DOMAIN ps \ {k} : new[i] = ps[i]
    BY <1>12 DEF PoolUpdated, new, ps, newLs, ls
  <2>2. ps[k].name.port \in DOMAIN s.ports
    BY <1>2, <2>1 DEF Shape, PoolOps, plan
  <2>3. ~AsService(ps[k], s)
    BY <1>4, <2>1 DEF Needed, plan
  <2> HIDE DEF k
  <2> QED
    BY <1>3, <1>5, <2>1, <2>2, <2>3, FewerByUpdate
<1>13. \/ ListenerDeleted(u) \/ ListenerCreated(u) \/ PoolDeleted(u)
       \/ PoolCreated(u, s, nl) \/ MembersChanged(u, s, nl) \/ PoolUpdated(u, s)
  BY Effects DEF s, nl
<1> QED
  BY <1>7, <1>8, <1>9, <1>10, <1>11, <1>12, <1>13

\* Every update of a run that is alone takes the load balancer closer to what
\* the run wants: planned anew, fewer updates are left.
THEOREM ProgressIsMade ==
  ASSUME NEW q, Procs = {q}, UserPools = {}, IsFiniteSet(Ports)
  PROVE  Spec => UpdatesMakeProgress
<1>1. ProgressInv /\ [Next]_vars =>
        [\A p \in Procs : pc[p] = "exec" /\ pc'[p] # "exec" /\ lb' # lb =>
           \/ lb' = [lb EXCEPT !.ready = FALSE]
           \/ Cardinality(Remaining(lb', job[p])) < Cardinality(Remaining(lb, job[p]))]_vars
  <2> SUFFICES ASSUME ProgressInv, [Next]_vars, NEW p \in Procs,
                      pc[p] = "exec", pc'[p] # "exec", lb' # lb
               PROVE  \/ lb' = [lb EXCEPT !.ready = FALSE]
                      \/ Cardinality(Remaining(lb', job[p])) < Cardinality(Remaining(lb, job[p]))
    OBVIOUS
  <2>1. Procs = {p} /\ IInv /\ SInv(p) /\ CInv(p) /\ NeededInv(p)
    BY DEF ProgressInv, SyncInv
  <2>2. IInv'
    BY <2>1, IInvStep
  <2>3. ~(EditService \/ ChangeNodes \/ AddUserPool \/ Settle \/ UNCHANGED vars)
    BY DEF EditService, ChangeNodes, AddUserPool, Settle, vars
  <2>4. ~(\/ ReadKube(p) \/ FindLoadBalancer(p) \/ RefuseUpdate(p) \/ ListLoadBalancerListeners(p)
          \/ ListLoadBalancerPools(p) \/ ListLoadBalancerPoolMembers(p) \/ Plan(p)
          \/ RefusePlan(p) \/ GetLoadBalancer(p) \/ WaitLoadBalancerReady(p) \/ Rejected(p)
          \/ Fail(p))
    BY DEF ReadKube, FindLoadBalancer, RefuseUpdate, ListLoadBalancerListeners,
       ListLoadBalancerPools, ListLoadBalancerPoolMembers, Plan, RefusePlan, GetLoadBalancer,
       WaitLoadBalancerReady, Rejected, Fail
  <2>5. PICK u \in job[p].plan : Process(p, u)
    BY <2>1, <2>3, <2>4 DEF Next, Run
  <2> QED
    BY <2>1, <2>2, <2>5, ProgressStep
<1>2. Spec => []ProgressInv
  BY ProgressInvHolds
<1> QED
  BY <1>1, <1>2, PTL DEF Spec, UpdatesMakeProgress

-----------------------------------------------------------------------------
(* The plan is exact. *)

\* An empty plan has looked at every pool name: a pool that nobody's port asks
\* for, as one whose name does not parse, would be planned for deletion.
LEMMA EmptyPlanParses ==
  ASSUME NEW ls, NEW ps, NEW s \in Service, NEW nl, UpdatesRequired(ls, ps, s, nl) = {}
  PROVE  NamesParse(ps)
<1> SUFFICES ASSUME NEW i \in DOMAIN ps, ps[i].name = Unparsable PROVE FALSE
  BY DEF NamesParse
<1> DEFINE u == NewUpdate("DELETE-POOL", 2, i, ps[i].name, NoMember)
<1>1. ps[i].name.port \notin DOMAIN s.ports
  <2>1. IsService(s)
    BY ServiceType
  <2>2. DOMAIN s.ports \subseteq Nat
    BY <2>1, PortAssumption DEF IsService, IsPartialFcn
  <2>3. ps[i].name.port = -1
    BY DEF Unparsable
  <2> QED
    BY <2>2, <2>3
<1>2. u \in Raw(ls, ps, s, nl)
  BY <1>1 DEF Raw, checkPoolForExtPortDeletedFromService
<1>3. u.op \notin MemberOps
  BY DEF NewUpdate, MemberOps
<1>4. \A w \in Raw(ls, ps, s, nl) : w.op \notin MemberOps => w \in UpdatesRequired(ls, ps, s, nl)
  BY Merged
<1> HIDE DEF u
<1> QED
  BY <1>2, <1>3, <1>4

\* With one updater the plan is exact, after any failures and for every service
\* and list of nodes: the passes of UpdateLoadBalancer find nothing to do when,
\* and only when, the load balancer is in sync.
THEOREM PlanIsExact ==
  ASSUME NEW q, Procs = {q}, UserPools = {}
  PROVE  Spec => [](\A s \in Service, nl \in SUBSET Nodes :
                      UpdatesRequired(lb.listeners, lb.pools, s, nl) = {} <=> Matches(lb, s, nl))
<1>1. ASSUME SyncInv, NEW s \in Service, NEW nl \in SUBSET Nodes
      PROVE  UpdatesRequired(lb.listeners, lb.pools, s, nl) = {} <=> Matches(lb, s, nl)
  <2>1. /\ IInv /\ OnePoolPerPort /\ OneListenerPerPort /\ ListenerPoolMatch
        /\ lb \in LoadBalancer /\ lb.pools \in PartialFcns(PoolIds, Pool)
    BY <1>1 DEF SyncInv, SInv, CInv, IInv, LoadBalancer
  <2>2. ASSUME UpdatesRequired(lb.listeners, lb.pools, s, nl) = {}
        PROVE  Matches(lb, s, nl)
    <3>1. NamesParse(lb.pools)
      BY <2>2, EmptyPlanParses
    <3>2. Covers(lb.listeners, lb.pools, {}, s, nl)
      BY <2>1, <2>2, <3>1, NewPlanCovers
    <3> QED
      BY <2>1, <3>2, NothingLeft DEF OnePoolPerPort, OneListenerPerPort, ListenerPoolMatch
  <2>3. ASSUME Matches(lb, s, nl)
        PROVE  UpdatesRequired(lb.listeners, lb.pools, s, nl) = {}
    BY <2>1, <2>3, MatchedNeedsNothing
  <2> QED
    BY <2>2, <2>3
<1>2. SyncInv => \A s \in Service, nl \in SUBSET Nodes :
                   UpdatesRequired(lb.listeners, lb.pools, s, nl) = {} <=> Matches(lb, s, nl)
  BY <1>1
<1>3. Spec => []SyncInv
  BY SyncInvHolds
<1> QED
  BY <1>2, <1>3, PTL
=============================================================================
