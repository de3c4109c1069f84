--------------------------- MODULE LbUpdateProofs ---------------------------
(***************************************************************************)
(* Proofs about LbUpdate for every number of processes, every service and  *)
(* set of nodes, and every bound on the events.                            *)
(***************************************************************************)
EXTENDS LbUpdate, TLAPS

-----------------------------------------------------------------------------
(* The types of the model as sets. *)

PartialFcns(S, T) == UNION {[A -> T] : A \in SUBSET S}

Service == [ports : PartialFcns(Ports, NodePorts), local : BOOLEAN,
            hcnp : HealthPorts \cup {0}, quota : Quotas]

LoadBalancer == [listeners : PartialFcns(ListenerIds, Listener),
                 pools : PartialFcns(PoolIds, Pool), ready : BOOLEAN]

Job == [svc : Service, nodes : SUBSET Nodes, nodeList : SUBSET Nodes,
        view : PartialFcns(PoolIds, PoolName \cup {Unparsable}),
        listeners : PartialFcns(ListenerIds, Listener),
        pools : PartialFcns(PoolIds, Pool),
        unread : SUBSET PoolIds, plan : SUBSET Update]

LEMMA PartialFcnDef ==
  ASSUME NEW S, NEW T, NEW f
  PROVE  f \in PartialFcns(S, T) <=> DOMAIN f \subseteq S /\ f \in [DOMAIN f -> T]
<1>1. ASSUME f \in PartialFcns(S, T)
      PROVE  DOMAIN f \subseteq S /\ f \in [DOMAIN f -> T]
  <2>1. PICK A \in SUBSET S : f \in [A -> T]
    BY <1>1 DEF PartialFcns
  <2> QED
    BY <2>1
<1>2. ASSUME DOMAIN f \subseteq S, f \in [DOMAIN f -> T]
      PROVE  f \in PartialFcns(S, T)
  BY <1>2 DEF PartialFcns
<1> QED
  BY <1>1, <1>2

LEMMA PartialFcnsType ==
  ASSUME NEW S, NEW T, NEW f
  PROVE  f \in PartialFcns(S, T) <=> IsPartialFcn(f, S, T)
  BY PartialFcnDef DEF IsPartialFcn

LEMMA ServiceType ==
  ASSUME NEW s
  PROVE  IsService(s) <=> s \in Service
  BY PartialFcnsType DEF IsService, Service

LEMMA LoadBalancerType ==
  ASSUME NEW b
  PROVE  IsLoadBalancer(b) <=> b \in LoadBalancer
  BY PartialFcnsType DEF IsLoadBalancer, LoadBalancer

LEMMA JobType ==
  ASSUME NEW j
  PROVE  IsJob(j) <=> j \in Job /\ j.unread \subseteq DOMAIN j.pools
<1>1. ASSUME IsJob(j) PROVE j \in Job /\ j.unread \subseteq DOMAIN j.pools
  <2>1. j.unread \subseteq PoolIds
    BY <1>1 DEF IsJob, IsPartialFcn
  <2> QED
    BY <1>1, <2>1, PartialFcnsType, ServiceType DEF IsJob, Job
<1>2. ASSUME j \in Job, j.unread \subseteq DOMAIN j.pools PROVE IsJob(j)
  BY <1>2, PartialFcnsType, ServiceType DEF IsJob, Job
<1> QED
  BY <1>1, <1>2

-----------------------------------------------------------------------------
(* What the plan of a run contains. *)

\* The facts about one update that hold whatever happens to the load balancer
\* after the lists it was planned from were read.
UpdateOK(u, pools, s, nodeList) ==
  /\ u \in Update
  /\ u.op \in PoolOps => /\ u.id \in DOMAIN pools
                         /\ u.name.port = pools[u.id].name.port
  /\ u.op = "REPLACE-POOL-MEMBERS" => /\ u.name.port \in DOMAIN s.ports
                                      /\ u.name.nodePort = s.ports[u.name.port]
  /\ u.op = "DELETE-POOL-MEMBER" =>
       /\ u.name.port \in DOMAIN s.ports
       /\ ~(u.member.node \in nodeList /\ u.member.port = s.ports[u.name.port])

LEMMA PoolNameType ==
  ASSUME NEW s \in Service, NEW p \in DOMAIN s.ports
  PROVE  /\ genLoadBalancerPoolName(s, p) \in PoolName
         /\ genLoadBalancerPoolName(s, p).port = p
         /\ genLoadBalancerPoolName(s, p).nodePort = s.ports[p]
  BY PartialFcnDef DEF Service, genLoadBalancerPoolName, PoolName

\* Each pass appends only such updates.
LEMMA PassesOK ==
  ASSUME NEW listeners \in PartialFcns(ListenerIds, Listener),
         NEW pools \in PartialFcns(PoolIds, Pool), NamesParse(pools),
         NEW s \in Service,
         NEW nodeList \in SUBSET Nodes,
         NEW u \in UNION {checkListenerForExtPortDeletedFromService(listeners, s),
                          checkPoolForExtPortDeletedFromService(pools, s),
                          checkPoolForNodesToDelete(pools, s, nodeList),
                          checkPoolForServiceChanges(pools, s),
                          checkPoolForNodesToAdd(pools, s, nodeList),
                          checkPoolsForExtPortAddedToService(pools, s),
                          checkListenersForExtPortAddedToService(listeners, s)}
  PROVE  UpdateOK(u, pools, s, nodeList)
<1> USE DEF UpdateOK, Update, NewUpdate, Ops, MemberOps, PoolOps
<1>1. \A i \in DOMAIN pools :
        /\ i \in PoolIds
        /\ pools[i] \in Pool
        /\ pools[i].name \in PoolName
        /\ pools[i].members \subseteq Member
  <2>1. DOMAIN pools \subseteq PoolIds /\ pools \in [DOMAIN pools -> Pool]
    BY PartialFcnDef
  <2> QED
    BY <2>1 DEF NamesParse, Pool
<1>2. CASE u \in checkListenerForExtPortDeletedFromService(listeners, s)
  BY <1>2, PartialFcnDef DEF checkListenerForExtPortDeletedFromService
<1>3. CASE u \in checkPoolForExtPortDeletedFromService(pools, s)
  BY <1>1, <1>3 DEF checkPoolForExtPortDeletedFromService
<1>4. CASE u \in checkPoolForNodesToDelete(pools, s, nodeList)
  <2>1. PICK i \in SamePortPools(pools, s) :
          \E m \in StaleMembers(pools[i], nodeList) :
            u = NewUpdate("DELETE-POOL-MEMBER", 3, i, pools[i].name, m)
    BY <1>4 DEF checkPoolForNodesToDelete
  <2>2. PICK m \in StaleMembers(pools[i], nodeList) :
            u = NewUpdate("DELETE-POOL-MEMBER", 3, i, pools[i].name, m)
    BY <2>1
  <2>3. /\ i \in DOMAIN pools
        /\ pools[i].name.port \in DOMAIN s.ports
        /\ pools[i].name.nodePort = s.ports[pools[i].name.port]
    BY DEF SamePortPools, KeptPools
  <2>4. m \in Member /\ (m.node \notin nodeList \/ m.port # pools[i].name.nodePort)
    BY <1>1, <2>3 DEF StaleMembers
  <2> QED
    BY <1>1, <2>2, <2>3, <2>4
<1>5. CASE u \in checkPoolForServiceChanges(pools, s)
  <2>1. PICK i \in KeptPools(pools, s), op \in {"UPDATE-POOL", "REPLACE-POOL-MEMBERS"} :
          u = NewUpdate(op, 4, i, genLoadBalancerPoolName(s, pools[i].name.port), NoMember)
    BY <1>5 DEF checkPoolForServiceChanges
  <2>2. i \in DOMAIN pools /\ pools[i].name.port \in DOMAIN s.ports
    BY DEF KeptPools
  <2> QED
    BY <1>1, <2>1, <2>2, PoolNameType
<1>6. CASE u \in checkPoolForNodesToAdd(pools, s, nodeList)
  <2>1. PICK i \in SamePortPools(pools, s) :
          \E n \in MissingNodes(pools[i], nodeList) :
            u = NewUpdate("CREATE-POOL-MEMBER", 5, i, pools[i].name,
                          [node |-> n, port |-> pools[i].name.nodePort])
    BY <1>6 DEF checkPoolForNodesToAdd
  <2>2. PICK n \in MissingNodes(pools[i], nodeList) :
            u = NewUpdate("CREATE-POOL-MEMBER", 5, i, pools[i].name,
                          [node |-> n, port |-> pools[i].name.nodePort])
    BY <2>1
  <2>3. i \in DOMAIN pools /\ n \in Nodes
    BY DEF SamePortPools, KeptPools, MissingNodes
  <2>4. [node |-> n, port |-> pools[i].name.nodePort] \in Member
    BY <1>1, <2>3 DEF Member, PoolName
  <2> QED
    BY <1>1, <2>2, <2>3, <2>4
<1>7. CASE u \in checkPoolsForExtPortAddedToService(pools, s)
  BY <1>7, PoolNameType DEF checkPoolsForExtPortAddedToService
<1>8. CASE u \in checkListenersForExtPortAddedToService(listeners, s)
  BY <1>8, PoolNameType DEF checkListenersForExtPortAddedToService
<1> QED
  BY <1>2, <1>3, <1>4, <1>5, <1>6, <1>7, <1>8

\* Replacing several updates of the members of a pool by one keeps that.
LEMMA PlanOK ==
  ASSUME NEW listeners \in PartialFcns(ListenerIds, Listener),
         NEW pools \in PartialFcns(PoolIds, Pool), NamesParse(pools),
         NEW s \in Service,
         NEW nodeList \in SUBSET Nodes,
         NEW u \in UpdatesRequired(listeners, pools, s, nodeList)
  PROVE  UpdateOK(u, pools, s, nodeList)
<1> DEFINE plan == UNION {checkListenerForExtPortDeletedFromService(listeners, s),
                          checkPoolForExtPortDeletedFromService(pools, s),
                          checkPoolForNodesToDelete(pools, s, nodeList),
                          checkPoolForServiceChanges(pools, s),
                          checkPoolForNodesToAdd(pools, s, nodeList),
                          checkPoolsForExtPortAddedToService(pools, s),
                          checkListenersForExtPortAddedToService(listeners, s)}
<1>1. u \in checkForMultiplePoolMemberUpdates(plan, pools)
  BY DEF UpdatesRequired
<1>2. CASE u \in plan
  BY <1>2, PassesOK
<1>3. ASSUME u \notin plan PROVE UpdateOK(u, pools, s, nodeList)
  <2>1. PICK i \in DOMAIN pools, step \in {3, 5} :
          /\ u = NewUpdate("REPLACE-POOL-MEMBERS", step, i, pools[i].name, NoMember)
          /\ \E v \in MemberUpdates(plan, i) : TRUE
    BY <1>1, <1>3 DEF checkForMultiplePoolMemberUpdates
  <2>2. PICK v \in plan : v.op \in MemberOps /\ v.id = i
    BY <2>1 DEF MemberUpdates
  <2>3. v \in checkPoolForNodesToDelete(pools, s, nodeList)
          \cup checkPoolForNodesToAdd(pools, s, nodeList)
    BY <2>2
    DEF NewUpdate, MemberOps, checkListenerForExtPortDeletedFromService,
        checkPoolForExtPortDeletedFromService, checkPoolForServiceChanges,
        checkPoolsForExtPortAddedToService, checkListenersForExtPortAddedToService
  <2>4. i \in SamePortPools(pools, s)
    BY <2>2, <2>3
    DEF NewUpdate, checkPoolForNodesToDelete, checkPoolForNodesToAdd
  <2>5. /\ i \in PoolIds
        /\ pools[i].name \in PoolName
        /\ pools[i].name.port \in DOMAIN s.ports
        /\ pools[i].name.nodePort = s.ports[pools[i].name.port]
    <3>1. DOMAIN pools \subseteq PoolIds /\ pools \in [DOMAIN pools -> Pool]
      BY PartialFcnDef
    <3> QED
      BY <2>4, <3>1 DEF SamePortPools, KeptPools, NamesParse, Pool
  <2> QED
    BY <2>1, <2>5 DEF UpdateOK, Update, NewUpdate, Ops, MemberOps, PoolOps
<1> QED
  BY <1>2, <1>3

-----------------------------------------------------------------------------
(* Types of the data. *)

LEMMA EmptyType ==
  ASSUME NEW S, NEW T
  PROVE  Empty \in PartialFcns(S, T) /\ DOMAIN Empty = {}
<1>1. DOMAIN Empty = {} /\ Empty \in [{} -> T]
  BY DEF Empty
<1> QED
  BY <1>1, PartialFcnDef

LEMMA ExtendType ==
  ASSUME NEW S, NEW T, NEW f \in PartialFcns(S, T), NEW x \in S, NEW v \in T
  PROVE  Extend(f, x, v) \in PartialFcns(S, T)
<1>1. DOMAIN f \subseteq S /\ f \in [DOMAIN f -> T]
  BY PartialFcnDef
<1>2. Extend(f, x, v) \in [DOMAIN f \cup {x} -> T]
  BY <1>1 DEF Extend
<1> QED
  BY <1>1, <1>2, PartialFcnDef

LEMMA RestrictType ==
  ASSUME NEW S, NEW T, NEW f \in PartialFcns(S, T), NEW D \in SUBSET DOMAIN f
  PROVE  Restrict(f, D) \in PartialFcns(S, T)
<1>1. DOMAIN f \subseteq S /\ f \in [DOMAIN f -> T]
  BY PartialFcnDef
<1>2. Restrict(f, D) \in [D -> T]
  BY <1>1 DEF Restrict
<1>3. D \subseteq S
  BY <1>1
<1> QED
  BY <1>2, <1>3, PartialFcnDef

LEMMA WithPoolsType ==
  ASSUME NEW b \in LoadBalancer, NEW ps \in PartialFcns(PoolIds, Pool)
  PROVE  /\ WithPools(b, ps) \in LoadBalancer
         /\ WithPools(b, ps).pools = ps
         /\ WithPools(b, ps).listeners = b.listeners
  BY DEF LoadBalancer, WithPools

LEMMA WithListenersType ==
  ASSUME NEW b \in LoadBalancer, NEW ls \in PartialFcns(ListenerIds, Listener)
  PROVE  /\ WithListeners(b, ls) \in LoadBalancer
         /\ WithListeners(b, ls).pools = b.pools
         /\ WithListeners(b, ls).listeners = ls
  BY DEF LoadBalancer, WithListeners

\* A request changes one pool at most: the others stay as they are.
LEMMA PoolChangeType ==
  ASSUME NEW ps \in PartialFcns(PoolIds, Pool), NEW i \in DOMAIN ps, NEW pool \in Pool
  PROVE  LET qs == [ps EXCEPT ![i] = pool]
         IN  /\ qs \in PartialFcns(PoolIds, Pool)
             /\ DOMAIN qs = DOMAIN ps
             /\ qs[i] = pool
             /\ \A j \in DOMAIN ps \ {i} : qs[j] = ps[j]
  BY PartialFcnDef

LEMMA HealthMonitorType ==
  ASSUME NEW nodePort \in NodePorts, NEW s \in Service
  PROVE  genLoadBalancerHealthMonitor(nodePort, getServiceHealthCheckNodePort(s))
           \in HealthMonitor
  BY PortAssumption
  DEF PortAssumption, Service, genLoadBalancerHealthMonitor,
      getServiceHealthCheckNodePort, HealthMonitor

LEMMA NewPoolType ==
  ASSUME NEW name \in PoolName, NEW nodeList \in SUBSET Nodes, NEW s \in Service
  PROVE  LET pool == NewPool(name, nodeList, getServiceHealthCheckNodePort(s))
         IN  pool \in Pool /\ pool.name = name
<1>1. name.nodePort \in NodePorts
  BY DEF PoolName
<1>2. genLoadBalancerMembers(name.nodePort, nodeList) \subseteq Member
  BY <1>1 DEF genLoadBalancerMembers, Member
<1> QED
  BY <1>1, <1>2, HealthMonitorType DEF NewPool, Pool

LEMMA NewJobType ==
  ASSUME NEW s \in Service, NEW ns \in SUBSET Nodes
  PROVE  /\ NewJob(s, ns) \in Job
         /\ DOMAIN NewJob(s, ns).view = {}
         /\ DOMAIN NewJob(s, ns).pools = {}
         /\ NewJob(s, ns).plan = {}
  BY EmptyType DEF Job, NewJob

LEMMA NoServiceType == NoService \in Service
  BY EmptyType, QuotaAssumption DEF Service, NoService

LEMMA NodeListType ==
  ASSUME NEW j \in Job, NEW nodeList \in NodeLists(j)
  PROVE  nodeList \in SUBSET Nodes
  BY DEF Job, NodeLists, filterNodesByServiceMemberQuota, Limited, kSubset, getNodeIDs

-----------------------------------------------------------------------------
(* The inductive invariant. *)

\* What a run knows of pools fits load balancer b (KnownPoolsKeepPort).
Knows(b, j) ==
  LET same(i, name) == i \in DOMAIN b.pools => b.pools[i].name.port = name.port
  IN  /\ \A i \in DOMAIN j.view : same(i, j.view[i])
      /\ \A i \in DOMAIN j.pools : same(i, j.pools[i].name)
      /\ \A u \in j.plan : u.op \in PoolOps => same(u.id, u.name)

\* The updates of a plan that remove members spare those the run wants.
Spares(j) ==
  \A u \in j.plan :
    /\ u.op = "REPLACE-POOL-MEMBERS" => /\ u.name.port \in DOMAIN j.svc.ports
                                        /\ u.name.nodePort = j.svc.ports[u.name.port]
    /\ u.op = "DELETE-POOL-MEMBER" =>
         /\ u.name.port \in DOMAIN j.svc.ports
         /\ ~(u.member.node \in j.nodeList /\ u.member.port = j.svc.ports[u.name.port])

JobOK(b, j) ==
  /\ j \in Job
  /\ j.unread \subseteq DOMAIN j.pools
  /\ Knows(b, j)
  /\ Spares(j)

ControlOK ==
  /\ svc \in Services
  /\ nodes \subseteq Nodes
  /\ pc \in [Procs -> {"idle", "find", "listeners", "pools", "members", "get",
                       "wait", "exec"}]
  /\ due \in [Procs -> BOOLEAN]
  /\ outcome \in [Procs -> {"ok", "error"}]
  /\ events \in 0..MaxEvents

IInv ==
  /\ ControlOK
  /\ lb \in LoadBalancer
  /\ ListenerPoolMatch
  /\ job = [p \in Procs |-> job[p]]
  /\ \A p \in Procs : JobOK(lb, job[p])

\* The strengthening implies the properties it is for.
LEMMA IInvStrong == IInv => TypeOK /\ ListenerPoolMatch /\ KnownPoolsKeepPort
<1> SUFFICES ASSUME IInv PROVE TypeOK /\ KnownPoolsKeepPort
  BY DEF IInv
<1>1. TypeOK
  BY LoadBalancerType, JobType DEF IInv, ControlOK, JobOK, TypeOK
<1>2. KnownPoolsKeepPort
  BY DEF IInv, JobOK, Knows, KnownPoolsKeepPort, SamePort
<1> QED
  BY <1>1, <1>2

\* A run that knows nothing fits every load balancer.
LEMMA NewJobOK ==
  ASSUME NEW b, NEW s \in Service, NEW ns \in SUBSET Nodes
  PROVE  JobOK(b, NewJob(s, ns))
<1>1. /\ NewJob(s, ns).view = Empty
      /\ NewJob(s, ns).pools = Empty
      /\ NewJob(s, ns).plan = {}
      /\ NewJob(s, ns).unread = {}
  BY DEF NewJob
<1>2. NewJob(s, ns) \in Job
  BY NewJobType, JobType
<1> QED
  BY <1>1, <1>2, EmptyType DEF JobOK, Knows, Spares

LEMMA FinishedJobOK == \A b : JobOK(b, NewJob(NoService, {}))
  BY NewJobOK, NoServiceType

\* The pools of c are pools of lb, possibly renamed for the same port, or new.
From(c) ==
  \A i \in DOMAIN c.pools :
    \/ i \in DOMAIN lb.pools /\ c.pools[i].name.port = lb.pools[i].name.port
    \/ FreshPool(i)

\* No run is misled by such a change of the load balancer.
LEMMA FromKnows ==
  ASSUME NEW c, From(c), NEW q \in Procs, Knows(lb, job[q])
  PROVE  Knows(c, job[q])
  BY DEF From, FreshPool, Knows

\* A step of process p: the load balancer becomes c and what p knows j.
LEMMA StepOK ==
  ASSUME IInv, ControlOK', NEW p \in Procs, NEW j,
         lb' \in LoadBalancer, ListenerPoolMatch', From(lb'),
         job' = [job EXCEPT ![p] = j], JobOK(lb', j)
  PROVE  IInv'
<1>1. job' = [q \in Procs |-> job'[q]]
  BY DEF IInv
<1>2. ASSUME NEW q \in Procs PROVE JobOK(lb', job'[q])
  <2>1. CASE q = p
    BY <2>1 DEF IInv
  <2>2. CASE q # p
    <3>1. job'[q] = job[q] /\ JobOK(lb, job[q])
      BY <2>2 DEF IInv
    <3> QED
      BY <3>1, FromKnows DEF JobOK
  <2> QED
    BY <2>1, <2>2
<1> QED
  BY <1>1, <1>2 DEF IInv

\* A step that leaves the load balancer as it is.
LEMMA JobStepOK ==
  ASSUME IInv, ControlOK', NEW p \in Procs, NEW j, lb' = lb,
         job' = [job EXCEPT ![p] = j], JobOK(lb, j)
  PROVE  IInv'
<1>1. From(lb')
  BY DEF From
<1>2. ListenerPoolMatch' /\ lb' \in LoadBalancer
  BY DEF IInv, ListenerPoolMatch
<1> QED
  BY <1>1, <1>2, StepOK

\* A step of no process.
LEMMA OtherStepOK ==
  ASSUME IInv, ControlOK', lb' \in LoadBalancer, ListenerPoolMatch', From(lb'),
         job' = job
  PROVE  IInv'
<1>1. ASSUME NEW q \in Procs PROVE JobOK(lb', job'[q])
  BY FromKnows DEF IInv, JobOK
<1> QED
  BY <1>1 DEF IInv

-----------------------------------------------------------------------------
(* Initial states. *)

LEMMA CreateType ==
  ASSUME NEW s \in Service, NEW nodeList \in SUBSET Nodes,
         NEW id \in Injection(DOMAIN s.ports, PoolIds \cap ListenerIds)
  PROVE  LET b == CreateLoadBalancer(s, nodeList, id)
         IN  /\ b \in LoadBalancer
             /\ \A l \in DOMAIN b.listeners :
                  /\ b.listeners[l].pool \in DOMAIN b.pools
                  /\ b.pools[b.listeners[l].pool].name.port = b.listeners[l].port
<1> DEFINE hc      == getServiceHealthCheckNodePort(s)
           ports   == DOMAIN s.ports
           port(i) == CHOOSE p \in ports : id[p] = i
           ids     == {id[p] : p \in ports}
           name(i) == genLoadBalancerPoolName(s, port(i))
           ls      == [l \in ids |-> [port |-> port(l), pool |-> l]]
           ps      == [i \in ids |-> NewPool(name(i), nodeList, hc)]
<1>1. /\ ids \subseteq PoolIds /\ ids \subseteq ListenerIds
      /\ \A i \in ids : port(i) \in ports
  BY DEF Injection
<1>2. ports \subseteq Ports
  BY ServiceType DEF IsService, IsPartialFcn
<1>3. ls \in PartialFcns(ListenerIds, Listener)
  <2>1. ls \in [ids -> Listener]
    BY <1>1, <1>2 DEF Listener
  <2> QED
    BY <1>1, <2>1, PartialFcnDef
<1>4. ASSUME NEW i \in ids
      PROVE  ps[i] \in Pool /\ ps[i].name.port = port(i)
  BY <1>1, NewPoolType, PoolNameType
<1>5. ps \in PartialFcns(PoolIds, Pool)
  <2>1. ps \in [ids -> Pool]
    BY <1>4
  <2> QED
    BY <1>1, <2>1, PartialFcnDef
<1>6. CreateLoadBalancer(s, nodeList, id) = [listeners |-> ls, pools |-> ps, ready |-> FALSE]
  BY DEF CreateLoadBalancer
<1>7. \A l \in DOMAIN ls : /\ ls[l].pool \in DOMAIN ps
                            /\ ps[ls[l].pool].name.port = ls[l].port
  BY <1>4
<1> HIDE DEF ls, ps
<1> QED
  BY <1>3, <1>5, <1>6, <1>7 DEF LoadBalancer

LEMMA IInvInit == Init => IInv
<1> SUFFICES ASSUME Init PROVE IInv
  OBVIOUS
<1>1. ControlOK
  BY UpdateAssumption DEF UpdateAssumption, Init, ControlOK
<1>2. svc \in Service
  BY UpdateAssumption, ServiceType DEF UpdateAssumption, Init
<1>3. lb \in LoadBalancer /\ ListenerPoolMatch
  <2>1. PICK nodeList \in filterNodesByServiceMemberQuota(getNodeIDs(nodes), {}, svc),
             id \in Injection(DOMAIN svc.ports, PoolIds \cap ListenerIds) :
               lb = CreateLoadBalancer(svc, nodeList, id)
    BY DEF Init
  <2>2. nodeList \in SUBSET Nodes
    BY DEF Init, filterNodesByServiceMemberQuota, Limited, kSubset, getNodeIDs
  <2> QED
    BY <1>2, <2>1, <2>2, CreateType DEF ListenerPoolMatch
<1>4. job = [p \in Procs |-> NewJob(NoService, {})]
  BY DEF Init
<1>5. job = [p \in Procs |-> job[p]] /\ \A p \in Procs : JobOK(lb, job[p])
  BY <1>4, FinishedJobOK
<1> QED
  BY <1>1, <1>3, <1>5 DEF IInv

-----------------------------------------------------------------------------
(* Steps that leave the load balancer as it is. *)

LEMMA EventOK ==
  ASSUME IInv, Event PROVE events' \in 0..MaxEvents
  BY UpdateAssumption DEF UpdateAssumption, IInv, ControlOK, Event

LEMMA KubeOK ==
  ASSUME IInv, EditService \/ ChangeNodes PROVE IInv'
<1>1. ControlOK'
  BY EventOK DEF IInv, ControlOK, EditService, ChangeNodes
<1>2. UNCHANGED <<lb, job>>
  BY DEF EditService, ChangeNodes
<1>3. lb' \in LoadBalancer /\ ListenerPoolMatch' /\ From(lb')
  BY <1>2 DEF IInv, ListenerPoolMatch, From
<1> QED
  BY <1>1, <1>2, <1>3, OtherStepOK

LEMMA FinishOK ==
  ASSUME IInv, NEW p \in Procs, NEW r \in {"ok", "error"}, Finish(p, r),
         UNCHANGED <<lb, svc, nodes, due>>, events' \in 0..MaxEvents
  PROVE  IInv'
<1>1. ControlOK'
  BY DEF IInv, ControlOK, Finish
<1> QED
  BY <1>1, FinishedJobOK, JobStepOK DEF Finish

LEMMA FailOK ==
  ASSUME IInv, NEW p \in Procs, Fail(p) PROVE IInv'
<1>1. events' \in 0..MaxEvents
  BY EventOK DEF Fail
<1> QED
  BY <1>1, FinishOK DEF Fail

LEMMA RefuseOK ==
  ASSUME IInv, NEW p \in Procs, RefuseUpdate(p) \/ RefusePlan(p) \/ Rejected(p)
  PROVE  IInv'
<1>1. Finish(p, "error") /\ UNCHANGED <<lb, kube, due>>
  BY DEF RefuseUpdate, RefusePlan, Rejected
<1>2. UNCHANGED <<lb, svc, nodes, due>> /\ events' \in 0..MaxEvents
  BY <1>1 DEF kube, IInv, ControlOK
<1> QED
  BY <1>1, <1>2, FinishOK

LEMMA ReadKubeOK ==
  ASSUME IInv, NEW p \in Procs, ReadKube(p) PROVE IInv'
<1>1. svc \in Service /\ nodes \in SUBSET Nodes
  BY UpdateAssumption, ServiceType DEF UpdateAssumption, IInv, ControlOK
<1>2. ControlOK'
  BY DEF IInv, ControlOK, ReadKube, kube
<1> QED
  BY <1>1, <1>2, NewJobOK, JobStepOK DEF ReadKube

LEMMA NamesType ==
  ASSUME NEW ps \in PartialFcns(PoolIds, Pool)
  PROVE  /\ Names(ps) \in PartialFcns(PoolIds, PoolName \cup {Unparsable})
         /\ \A i \in DOMAIN Names(ps) : Names(ps)[i] = ps[i].name
<1>1. DOMAIN ps \subseteq PoolIds /\ ps \in [DOMAIN ps -> Pool]
  BY PartialFcnDef
<1>2. /\ Names(ps) \in [DOMAIN ps -> PoolName \cup {Unparsable}]
      /\ \A i \in DOMAIN Names(ps) : Names(ps)[i] = ps[i].name
  BY <1>1 DEF Names, Pool
<1> QED
  BY <1>1, <1>2, PartialFcnDef

\* A run reads the load balancer again.
LEMMA ViewOK ==
  ASSUME IInv, NEW p \in Procs, ControlOK', lb' = lb,
         job' = [job EXCEPT ![p].view = Names(lb.pools)]
  PROVE  IInv'
<1> DEFINE j == [job[p] EXCEPT !.view = Names(lb.pools)]
<1>1. JobOK(lb, job[p])
  BY DEF IInv
<1>2. lb.pools \in PartialFcns(PoolIds, Pool)
  BY DEF IInv, LoadBalancer
<1>3. /\ j \in Job
      /\ j.view = Names(lb.pools)
      /\ j.pools = job[p].pools /\ j.unread = job[p].unread
      /\ j.plan = job[p].plan /\ j.svc = job[p].svc /\ j.nodeList = job[p].nodeList
  BY <1>1, <1>2, NamesType DEF JobOK, Job
<1>4. job' = [job EXCEPT ![p] = j]
  BY DEF IInv
<1> HIDE DEF j
<1>5. Knows(lb, j) /\ Spares(j)
  BY <1>1, <1>2, <1>3, NamesType DEF JobOK, Knows, Spares
<1>6. JobOK(lb, j)
  BY <1>1, <1>3, <1>5 DEF JobOK
<1> QED
  BY <1>4, <1>6, JobStepOK

LEMMA ReadAgainOK ==
  ASSUME IInv, NEW p \in Procs,
         FindLoadBalancer(p) \/ GetLoadBalancer(p) \/ WaitLoadBalancerReady(p)
  PROVE  IInv'
<1>1. ControlOK'
  BY DEF IInv, ControlOK, FindLoadBalancer, GetLoadBalancer, WaitLoadBalancerReady, kube
<1>2. lb' = lb
  BY DEF FindLoadBalancer, GetLoadBalancer, WaitLoadBalancerReady
<1>3. CASE job' = [job EXCEPT ![p].view = Names(lb.pools)]
  BY <1>1, <1>2, <1>3, ViewOK
<1>4. CASE job' = job
  BY <1>1, <1>2, <1>4, OtherStepOK DEF IInv, ListenerPoolMatch, From
<1> QED
  BY <1>3, <1>4 DEF FindLoadBalancer, GetLoadBalancer, WaitLoadBalancerReady

LEMMA ListListenersOK ==
  ASSUME IInv, NEW p \in Procs, ListLoadBalancerListeners(p) PROVE IInv'
<1> DEFINE j == [job[p] EXCEPT !.listeners = lb.listeners]
<1>1. JobOK(lb, job[p])
  BY DEF IInv
<1>2. /\ j \in Job
      /\ j.view = job[p].view /\ j.pools = job[p].pools /\ j.unread = job[p].unread
      /\ j.plan = job[p].plan /\ j.svc = job[p].svc /\ j.nodeList = job[p].nodeList
  BY <1>1 DEF JobOK, Job, IInv, LoadBalancer
<1>3. job' = [job EXCEPT ![p] = j] /\ lb' = lb
  BY DEF IInv, ListLoadBalancerListeners
<1>4. ControlOK'
  BY DEF IInv, ControlOK, ListLoadBalancerListeners, kube
<1> HIDE DEF j
<1>5. JobOK(lb, j)
  BY <1>1, <1>2 DEF JobOK, Knows, Spares
<1> QED
  BY <1>3, <1>4, <1>5, JobStepOK

LEMMA ListPoolsOK ==
  ASSUME IInv, NEW p \in Procs, ListLoadBalancerPools(p) PROVE IInv'
<1> DEFINE ps == [i \in DOMAIN lb.pools |-> [lb.pools[i] EXCEPT !.members = {}]]
           j  == [job[p] EXCEPT !.pools = ps, !.unread = DOMAIN lb.pools]
<1>1. JobOK(lb, job[p])
  BY DEF IInv
<1>2. DOMAIN lb.pools \subseteq PoolIds /\ lb.pools \in [DOMAIN lb.pools -> Pool]
  BY PartialFcnDef DEF IInv, LoadBalancer
<1>3. /\ DOMAIN ps = DOMAIN lb.pools
      /\ \A i \in DOMAIN ps : ps[i] \in Pool /\ ps[i].name = lb.pools[i].name
  BY <1>2 DEF Pool
<1>4. ps \in PartialFcns(PoolIds, Pool)
  BY <1>2, <1>3, PartialFcnDef
<1>5. job' = [job EXCEPT ![p] = j] /\ lb' = lb
  BY DEF IInv, ListLoadBalancerPools
<1>6. ControlOK'
  BY DEF IInv, ControlOK, ListLoadBalancerPools, kube
<1> HIDE DEF ps
<1>7. /\ j \in Job
      /\ j.view = job[p].view /\ j.pools = ps /\ j.unread = DOMAIN ps
      /\ j.plan = job[p].plan /\ j.svc = job[p].svc /\ j.nodeList = job[p].nodeList
  BY <1>1, <1>2, <1>3, <1>4 DEF JobOK, Job
<1> HIDE DEF j
<1>8. JobOK(lb, j)
  BY <1>1, <1>3, <1>7 DEF JobOK, Knows, Spares
<1> QED
  BY <1>5, <1>6, <1>8, JobStepOK

LEMMA ListMembersOK ==
  ASSUME IInv, NEW p \in Procs, ListLoadBalancerPoolMembers(p) PROVE IInv'
<1>1. PICK i : \/ /\ i \in DOMAIN lb.pools
                  /\ job' = [job EXCEPT ![p].pools[i].members = lb.pools[i].members,
                                        ![p].unread = @ \ {i}]
                  /\ UNCHANGED <<pc, outcome>>
               \/ Finish(p, "error")
  BY DEF ListLoadBalancerPoolMembers
<1>2. UNCHANGED <<lb, svc, nodes, due, events>>
  BY DEF ListLoadBalancerPoolMembers, kube
<1>3. CASE Finish(p, "error")
  BY <1>2, <1>3, FinishOK DEF IInv, ControlOK
<1>4. ASSUME i \in DOMAIN lb.pools, UNCHANGED <<pc, outcome>>,
             job' = [job EXCEPT ![p].pools[i].members = lb.pools[i].members,
                                ![p].unread = @ \ {i}]
      PROVE  IInv'
  <2> DEFINE ms == lb.pools[i].members
             ps == [job[p].pools EXCEPT ![i].members = ms]
             j  == [job[p] EXCEPT !.pools = ps, !.unread = @ \ {i}]
  <2>1. JobOK(lb, job[p]) /\ job[p].unread \in SUBSET PoolIds
    BY DEF IInv, JobOK, Job
  <2>2. ms \in SUBSET Member
    <3>1. DOMAIN lb.pools \subseteq PoolIds /\ lb.pools \in [DOMAIN lb.pools -> Pool]
      BY PartialFcnDef DEF IInv, LoadBalancer
    <3> QED
      BY <1>4, <3>1 DEF Pool
  <2>3. /\ DOMAIN job[p].pools \subseteq PoolIds
        /\ job[p].pools \in [DOMAIN job[p].pools -> Pool]
    BY <2>1, PartialFcnDef DEF JobOK, Job
  <2>4. /\ DOMAIN ps = DOMAIN job[p].pools
        /\ \A k \in DOMAIN ps : ps[k] \in Pool /\ ps[k].name = job[p].pools[k].name
    BY <2>2, <2>3 DEF Pool
  <2>5. ps \in PartialFcns(PoolIds, Pool)
    <3> HIDE DEF ps
    <3>1. ps = [k \in DOMAIN ps |-> ps[k]]
      BY DEF ps
    <3> QED
      BY <2>3, <2>4, <3>1, PartialFcnDef
  <2>6. job' = [job EXCEPT ![p] = j]
    BY <1>4 DEF IInv
  <2> HIDE DEF ps
  <2>7. /\ j \in Job
        /\ j.view = job[p].view /\ j.pools = ps /\ j.unread = job[p].unread \ {i}
        /\ j.plan = job[p].plan /\ j.svc = job[p].svc /\ j.nodeList = job[p].nodeList
    BY <2>1, <2>5 DEF JobOK, Job
  <2> HIDE DEF j
  <2>8. JobOK(lb, j)
    BY <2>1, <2>4, <2>7 DEF JobOK, Knows, Spares
  <2>9. ControlOK' /\ lb' = lb
    BY <1>2, <1>4 DEF IInv, ControlOK
  <2> QED
    BY <2>6, <2>8, <2>9, JobStepOK
<1> QED
  BY <1>1, <1>3, <1>4

LEMMA PlanStepOK ==
  ASSUME IInv, NEW p \in Procs, Plan(p) PROVE IInv'
<1>1. UNCHANGED <<lb, svc, nodes, due, events>>
  BY DEF Plan, kube
<1>2. CASE Finish(p, "ok")
  BY <1>1, <1>2, FinishOK DEF IInv, ControlOK
<1>3. ASSUME NEW nodeList \in NodeLists(job[p]), NEW plan,
             plan = UpdatesRequired(job[p].listeners, job[p].pools, job[p].svc, nodeList),
             pc' = [pc EXCEPT ![p] = "exec"],
             job' = [job EXCEPT ![p].nodeList = nodeList,
                                ![p].plan = plan,
                                ![p].nodes = {},
                                ![p].listeners = Empty,
                                ![p].pools = Empty],
             UNCHANGED outcome
      PROVE  IInv'
  <2> DEFINE j == [job[p] EXCEPT !.nodeList = nodeList, !.plan = plan, !.nodes = {},
                                 !.listeners = Empty, !.pools = Empty]
  <2>1. JobOK(lb, job[p]) /\ job[p].unread = {}
    BY DEF IInv, Plan
  <2>2. job[p] \in Job
    BY <2>1 DEF JobOK
  <2>3. nodeList \in SUBSET Nodes
    BY <2>2, NodeListType
  <2>4. ASSUME NEW u \in plan
        PROVE  UpdateOK(u, job[p].pools, job[p].svc, nodeList)
    <3>1. /\ NamesParse(job[p].pools)
          /\ job[p].listeners \in PartialFcns(ListenerIds, Listener)
          /\ job[p].pools \in PartialFcns(PoolIds, Pool)
          /\ job[p].svc \in Service
      BY <2>2 DEF Plan, Job
    <3> QED
      BY <1>3, <2>3, <3>1, PlanOK
  <2>5. plan \in SUBSET Update
    BY <2>4 DEF UpdateOK
  <2>6. /\ j \in Job
        /\ j.view = job[p].view /\ j.pools = Empty /\ j.unread = {}
        /\ j.plan = plan /\ j.svc = job[p].svc /\ j.nodeList = nodeList
    BY <2>1, <2>2, <2>3, <2>5, EmptyType DEF Job
  <2>7. job' = [job EXCEPT ![p] = j]
    BY <1>3 DEF IInv
  <2> HIDE DEF j
  <2>8. ASSUME NEW u \in plan, u.op \in PoolOps, u.id \in DOMAIN lb.pools
        PROVE  lb.pools[u.id].name.port = u.name.port
    BY <2>1, <2>4, <2>8 DEF JobOK, Knows, UpdateOK
  <2>9. Knows(lb, j)
    BY <2>1, <2>6, <2>8, EmptyType DEF JobOK, Knows
  <2>10. Spares(j)
    BY <2>4, <2>6 DEF Spares, UpdateOK
  <2>11. JobOK(lb, j)
    BY <2>6, <2>9, <2>10 DEF JobOK
  <2>12. ControlOK' /\ lb' = lb
    BY <1>1, <1>3 DEF IInv, ControlOK
  <2> QED
    BY <2>7, <2>11, <2>12, JobStepOK
<1> QED
  BY <1>2, <1>3 DEF Plan

-----------------------------------------------------------------------------
(* Steps that change the load balancer. *)

LEMMA SettleOK ==
  ASSUME IInv, Settle PROVE IInv'
<1>1. lb' \in LoadBalancer /\ lb'.pools = lb.pools /\ lb'.listeners = lb.listeners
  BY DEF IInv, LoadBalancer, Settle
<1>2. ControlOK' /\ job' = job
  BY DEF IInv, ControlOK, Settle
<1>3. ListenerPoolMatch' /\ From(lb')
  BY <1>1 DEF IInv, ListenerPoolMatch, From
<1> QED
  BY <1>1, <1>2, <1>3, OtherStepOK

\* A new pool disturbs no listener and no run.
LEMMA AddedPoolOK ==
  ASSUME IInv, NEW i \in PoolIds, FreshPool(i), NEW pool \in Pool,
         lb' = WithPools(lb, Extend(lb.pools, i, pool))
  PROVE  lb' \in LoadBalancer /\ ListenerPoolMatch' /\ From(lb')
<1> DEFINE ps == Extend(lb.pools, i, pool)
<1>1. lb \in LoadBalancer /\ lb.pools \in PartialFcns(PoolIds, Pool) /\ ListenerPoolMatch
  BY DEF IInv, LoadBalancer
<1>2. /\ ps \in PartialFcns(PoolIds, Pool)
      /\ DOMAIN ps = DOMAIN lb.pools \cup {i}
      /\ \A k \in DOMAIN lb.pools \ {i} : ps[k] = lb.pools[k]
      /\ i \notin DOMAIN lb.pools
  <2>1. ps \in PartialFcns(PoolIds, Pool)
    BY <1>1, ExtendType
  <2>2. i \notin DOMAIN lb.pools
    BY DEF FreshPool
  <2> QED
    BY <2>1, <2>2 DEF Extend
<1> HIDE DEF ps
<1>3. lb' \in LoadBalancer /\ lb'.pools = ps /\ lb'.listeners = lb.listeners
  <2>1. lb' = WithPools(lb, ps)
    BY DEF ps
  <2> QED
    BY <1>1, <1>2, <2>1, WithPoolsType
<1> QED
  BY <1>1, <1>2, <1>3 DEF ListenerPoolMatch, From

LEMMA AddUserPoolOK ==
  ASSUME IInv, AddUserPool PROVE IInv'
<1>1. PICK i \in PoolIds, pool \in UserPools :
        FreshPool(i) /\ lb' = WithPools(lb, Extend(lb.pools, i, pool))
  BY DEF AddUserPool
<1>2. pool \in Pool
  BY UpdateAssumption DEF UpdateAssumption
<1>3. ControlOK' /\ job' = job
  BY EventOK DEF IInv, ControlOK, AddUserPool
<1> QED
  BY <1>1, <1>2, <1>3, AddedPoolOK, OtherStepOK

\* A change of the members, the name or the health monitor of a pool keeps its
\* port.
LEMMA ChangedPoolOK ==
  ASSUME IInv, NEW i \in DOMAIN lb.pools, NEW pool \in Pool,
         pool.name.port = lb.pools[i].name.port,
         lb' = WithPools(lb, [lb.pools EXCEPT ![i] = pool])
  PROVE  lb' \in LoadBalancer /\ ListenerPoolMatch' /\ From(lb')
<1> DEFINE ps == [lb.pools EXCEPT ![i] = pool]
<1>1. lb \in LoadBalancer /\ lb.pools \in PartialFcns(PoolIds, Pool) /\ ListenerPoolMatch
  BY DEF IInv, LoadBalancer
<1>2. /\ ps \in PartialFcns(PoolIds, Pool)
      /\ DOMAIN ps = DOMAIN lb.pools
      /\ \A k \in DOMAIN lb.pools : ps[k].name.port = lb.pools[k].name.port
  BY <1>1, PoolChangeType
<1> HIDE DEF ps
<1>3. lb' \in LoadBalancer /\ lb'.pools = ps /\ lb'.listeners = lb.listeners
  <2>1. lb' = WithPools(lb, ps)
    BY DEF ps
  <2> QED
    BY <1>1, <1>2, <2>1, WithPoolsType
<1> QED
  BY <1>1, <1>2, <1>3 DEF ListenerPoolMatch, From

\* What a run knows after it has processed update u.
LEMMA ProcessedOK ==
  ASSUME IInv, NEW p \in Procs, NEW u \in job[p].plan, Processed(p, u),
         lb' \in LoadBalancer, ListenerPoolMatch', From(lb')
  PROVE  IInv'
<1> DEFINE rest == job[p].plan \ {u}
           j    == [job[p] EXCEPT !.plan = rest, !.view = Empty]
<1>1. UNCHANGED <<svc, nodes, events, due>>
  BY DEF Processed, kube
<1>2. CASE Finish(p, "ok")
  <2>1. ControlOK'
    BY <1>1, <1>2 DEF IInv, ControlOK, Finish
  <2> QED
    BY <1>2, <2>1, FinishedJobOK, StepOK DEF Finish
<1>3. CASE /\ pc' = [pc EXCEPT ![p] = "get"]
           /\ job' = [job EXCEPT ![p].plan = rest, ![p].view = Empty]
           /\ UNCHANGED outcome
  <2>1. ControlOK'
    BY <1>1, <1>3 DEF IInv, ControlOK
  <2>2. JobOK(lb, job[p]) /\ job[p] \in Job
    BY DEF IInv, JobOK
  <2>3. /\ j \in Job
        /\ j.view = Empty /\ j.pools = job[p].pools /\ j.unread = job[p].unread
        /\ j.plan = rest /\ j.svc = job[p].svc /\ j.nodeList = job[p].nodeList
    BY <2>2, EmptyType DEF Job
  <2>4. job' = [job EXCEPT ![p] = j]
    BY <1>3 DEF IInv
  <2> HIDE DEF j
  <2>5. Knows(lb', job[p])
    BY <2>2, FromKnows DEF JobOK
  <2>6. Knows(lb', j)
    BY <2>3, <2>5, EmptyType DEF Knows
  <2>7. Spares(j)
    BY <2>2, <2>3 DEF JobOK, Spares
  <2>8. JobOK(lb', j)
    BY <2>2, <2>3, <2>6, <2>7 DEF JobOK
  <2> QED
    BY <2>1, <2>4, <2>8, StepOK
<1> QED
  BY <1>2, <1>3 DEF Processed

\* What is known of the update a run processes.
LEMMA UpdateFacts ==
  ASSUME IInv, NEW p \in Procs, NEW u \in job[p].plan
  PROVE  /\ u \in Update
         /\ job[p].svc \in Service
         /\ job[p].nodeList \in SUBSET Nodes
         /\ lb.pools \in PartialFcns(PoolIds, Pool)
         /\ DOMAIN lb.pools \subseteq PoolIds
         /\ \A i \in DOMAIN lb.pools : lb.pools[i] \in Pool
         /\ u.op \in PoolOps /\ u.id \in DOMAIN lb.pools =>
              lb.pools[u.id].name.port = u.name.port
<1>1. job[p] \in Job /\ Knows(lb, job[p]) /\ lb.pools \in PartialFcns(PoolIds, Pool)
  BY DEF IInv, JobOK, LoadBalancer
<1>2. DOMAIN lb.pools \subseteq PoolIds /\ lb.pools \in [DOMAIN lb.pools -> Pool]
  BY <1>1, PartialFcnDef
<1> QED
  BY <1>1, <1>2 DEF Job, Knows

LEMMA DeleteListenerOK ==
  ASSUME IInv, NEW p \in Procs, NEW u \in job[p].plan, deleteLoadBalancerListener(p, u)
  PROVE  IInv'
<1> DEFINE kept == DOMAIN lb.listeners \ {u.id}
           ls   == Restrict(lb.listeners, kept)
<1>1. /\ lb \in LoadBalancer
      /\ lb.listeners \in PartialFcns(ListenerIds, Listener)
      /\ ListenerPoolMatch
  BY DEF IInv, LoadBalancer
<1>2. /\ ls \in PartialFcns(ListenerIds, Listener)
      /\ DOMAIN ls \subseteq DOMAIN lb.listeners
      /\ \A l \in DOMAIN ls : ls[l] = lb.listeners[l]
  <2>1. ls \in PartialFcns(ListenerIds, Listener)
    <3>1. kept \in SUBSET DOMAIN lb.listeners
      OBVIOUS
    <3> HIDE DEF kept
    <3> QED
      BY <1>1, <3>1, RestrictType
  <2> QED
    BY <2>1 DEF Restrict
<1> HIDE DEF ls
<1>3. lb' = WithListeners(lb, ls)
  BY DEF deleteLoadBalancerListener, DeleteLoadBalancerListener, ls
<1>4. lb' \in LoadBalancer /\ lb'.pools = lb.pools /\ lb'.listeners = ls
  BY <1>1, <1>2, <1>3, WithListenersType
<1>5. ListenerPoolMatch' /\ From(lb')
  BY <1>1, <1>2, <1>4 DEF ListenerPoolMatch, From
<1> QED
  BY <1>4, <1>5, ProcessedOK DEF deleteLoadBalancerListener

LEMMA DeletePoolOK ==
  ASSUME IInv, NEW p \in Procs, NEW u \in job[p].plan, deleteLoadBalancerPool(p, u)
  PROVE  IInv'
<1> DEFINE kept == DOMAIN lb.pools \ {u.id}
           ps   == Restrict(lb.pools, kept)
<1>1. /\ lb \in LoadBalancer
      /\ lb.pools \in PartialFcns(PoolIds, Pool)
      /\ ListenerPoolMatch
  BY DEF IInv, LoadBalancer
<1>2. /\ ps \in PartialFcns(PoolIds, Pool)
      /\ DOMAIN ps = DOMAIN lb.pools \ {u.id}
      /\ \A i \in DOMAIN ps : ps[i] = lb.pools[i]
  <2>1. ps \in PartialFcns(PoolIds, Pool)
    <3>1. kept \in SUBSET DOMAIN lb.pools
      OBVIOUS
    <3> HIDE DEF kept
    <3> QED
      BY <1>1, <3>1, RestrictType
  <2> QED
    BY <2>1 DEF Restrict
<1> HIDE DEF ps
<1>3. lb' = WithPools(lb, ps)
  BY DEF deleteLoadBalancerPool, DeleteLoadBalancerPool, ps
<1>4. lb' \in LoadBalancer /\ lb'.pools = ps /\ lb'.listeners = lb.listeners
  BY <1>1, <1>2, <1>3, WithPoolsType
<1>5. PoolUnused(lb, u.id)
  BY DEF deleteLoadBalancerPool, Processed, Accepts
<1>6. ListenerPoolMatch' /\ From(lb')
  BY <1>1, <1>2, <1>4, <1>5 DEF ListenerPoolMatch, PoolUnused, From
<1> QED
  BY <1>4, <1>6, ProcessedOK DEF deleteLoadBalancerPool

\* The members of pool u.id become ms.
LEMMA MembersOK ==
  ASSUME IInv, NEW p \in Procs, NEW u \in job[p].plan, Processed(p, u),
         u.id \in DOMAIN lb.pools, NEW ms \in SUBSET Member,
         lb' = WithPools(lb, [lb.pools EXCEPT ![u.id].members = ms])
  PROVE  IInv'
<1> DEFINE pool == [lb.pools[u.id] EXCEPT !.members = ms]
<1>1. pool \in Pool /\ pool.name = lb.pools[u.id].name
  BY UpdateFacts DEF Pool
<1>2. lb' = WithPools(lb, [lb.pools EXCEPT ![u.id] = pool])
  OBVIOUS
<1> HIDE DEF pool
<1>3. lb' \in LoadBalancer /\ ListenerPoolMatch' /\ From(lb')
  BY <1>1, <1>2, ChangedPoolOK
<1> QED
  BY <1>3, ProcessedOK

LEMMA MemberOpsOK ==
  ASSUME IInv, NEW p \in Procs, NEW u \in job[p].plan,
         \/ deleteLoadBalancerPoolMember(p, u)
         \/ createLoadBalancerPoolMember(p, u)
         \/ replaceLoadBalancerPoolMembers(p, u)
  PROVE  IInv'
<1>1. Processed(p, u) /\ u.id \in DOMAIN lb.pools
  BY DEF deleteLoadBalancerPoolMember, createLoadBalancerPoolMember,
         replaceLoadBalancerPoolMembers, Processed, Accepts
<1> DEFINE ms == lb.pools[u.id].members
<1>2. ms \subseteq Member
  BY <1>1, UpdateFacts DEF Pool
<1>3. CASE deleteLoadBalancerPoolMember(p, u)
  <2>1. lb' = WithPools(lb, [lb.pools EXCEPT ![u.id].members = ms \ {u.member}])
    BY <1>3 DEF deleteLoadBalancerPoolMember, DeleteLoadBalancerPoolMember
  <2> QED
    BY <1>1, <1>2, <2>1, MembersOK
<1>4. CASE createLoadBalancerPoolMember(p, u)
  <2>1. lb' = WithPools(lb, [lb.pools EXCEPT ![u.id].members = ms \cup {u.member}])
    BY <1>4 DEF createLoadBalancerPoolMember, CreateLoadBalancerPoolMember
  <2>2. u.member \in Member
    BY <1>4, UpdateFacts DEF createLoadBalancerPoolMember, Update, MemberOps
  <2>3. ms \cup {u.member} \in SUBSET Member
    BY <1>2, <2>2
  <2> QED
    BY <1>1, <2>1, <2>3, MembersOK
<1>5. CASE replaceLoadBalancerPoolMembers(p, u)
  <2> DEFINE new == genLoadBalancerMembers(u.name.nodePort, job[p].nodeList)
  <2>1. lb' = WithPools(lb, [lb.pools EXCEPT ![u.id].members = new])
    BY <1>5 DEF replaceLoadBalancerPoolMembers, ReplaceLoadBalancerPoolMembers
  <2>2. u.name \in PoolName /\ job[p].nodeList \subseteq Nodes
    BY <1>5, UpdateFacts DEF replaceLoadBalancerPoolMembers, Update
  <2>3. new \subseteq Member
    BY <2>2 DEF genLoadBalancerMembers, Member, PoolName
  <2> HIDE DEF new
  <2> QED
    BY <1>1, <2>1, <2>3, MembersOK
<1> QED
  BY <1>3, <1>4, <1>5

LEMMA UpdatePoolOK ==
  ASSUME IInv, NEW p \in Procs, NEW u \in job[p].plan, updateLoadBalancerPool(p, u)
  PROVE  IInv'
<1> DEFINE hm   == genLoadBalancerHealthMonitor(u.name.nodePort,
                     getServiceHealthCheckNodePort(job[p].svc))
           pool == [lb.pools[u.id] EXCEPT !.name = u.name, !.hm = hm]
<1>1. Processed(p, u) /\ u.op = "UPDATE-POOL" /\ u.id \in DOMAIN lb.pools
  BY DEF updateLoadBalancerPool, Processed, Accepts
<1>2. /\ u.name \in PoolName
      /\ u.name.nodePort \in NodePorts
      /\ u.name.port = lb.pools[u.id].name.port
  BY <1>1, UpdateFacts DEF Update, PoolName, PoolOps
<1>3. hm \in HealthMonitor
  BY <1>2, UpdateFacts, HealthMonitorType
<1>4. lb' = WithPools(lb, [lb.pools EXCEPT ![u.id].name = u.name, ![u.id].hm = hm])
  BY DEF updateLoadBalancerPool, UpdateLoadBalancerPool
<1> HIDE DEF hm
<1>5. pool \in Pool /\ pool.name = u.name
  BY <1>1, <1>2, <1>3, UpdateFacts DEF Pool
<1>6. lb' = WithPools(lb, [lb.pools EXCEPT ![u.id] = pool])
  BY <1>1, <1>4
<1> HIDE DEF pool
<1>7. lb' \in LoadBalancer /\ ListenerPoolMatch' /\ From(lb')
  BY <1>1, <1>2, <1>5, <1>6, ChangedPoolOK
<1> QED
  BY <1>1, <1>7, ProcessedOK

LEMMA CreatePoolOK ==
  ASSUME IInv, NEW p \in Procs, NEW u \in job[p].plan, createLoadBalancerPool(p, u)
  PROVE  IInv'
<1> DEFINE pool == NewPool(u.name, job[p].nodeList, getServiceHealthCheckNodePort(job[p].svc))
<1>1. PICK i \in PoolIds : /\ FreshPool(i)
                           /\ lb' = WithPools(lb, Extend(lb.pools, i, pool))
  BY DEF createLoadBalancerPool, CreateLoadBalancerPool
<1>2. Processed(p, u) /\ u.name \in PoolName
  BY UpdateFacts DEF createLoadBalancerPool, Update
<1>3. pool \in Pool
  BY <1>2, UpdateFacts, NewPoolType
<1> QED
  BY <1>1, <1>2, <1>3, AddedPoolOK, ProcessedOK

LEMMA CreateListenerOK ==
  ASSUME IInv, NEW p \in Procs, NEW u \in job[p].plan, createLoadBalancerListener(p, u)
  PROVE  IInv'
<1> DEFINE i == ListenerPool(p, u)
<1>1. PICK l \in ListenerIds : lb' = CreateLoadBalancerListener(lb, l, u.name, i)
  BY DEF createLoadBalancerListener
<1>2. /\ Processed(p, u) /\ u.op = "CREATE-LISTENER" /\ u.name \in PoolName
      /\ i \in DOMAIN lb.pools
  BY UpdateFacts DEF createLoadBalancerListener, Processed, Accepts, Update
<1>3. i \in DOMAIN job[p].view /\ job[p].view[i] = u.name
  <2>1. i # NoId
    BY <1>2, UpdateFacts, IdAssumption DEF IdAssumption, NoId
  <2> QED
    BY <2>1 DEF ListenerPool
<1> HIDE DEF i
<1>4. lb.pools[i].name.port = u.name.port
  BY <1>2, <1>3 DEF IInv, JobOK, Knows
<1> DEFINE new == [port |-> u.name.port, pool |-> i]
           ls  == Extend(lb.listeners, l, new)
<1>5. new \in Listener
  BY <1>2, UpdateFacts DEF Listener, PoolName
<1>6. /\ lb \in LoadBalancer
      /\ lb.listeners \in PartialFcns(ListenerIds, Listener)
      /\ ListenerPoolMatch
  BY DEF IInv, LoadBalancer
<1>7. /\ ls \in PartialFcns(ListenerIds, Listener)
      /\ DOMAIN ls = DOMAIN lb.listeners \cup {l}
      /\ ls[l] = new
      /\ \A k \in DOMAIN lb.listeners \ {l} : ls[k] = lb.listeners[k]
  <2>1. ls \in PartialFcns(ListenerIds, Listener)
    <3> HIDE DEF new
    <3> QED
      BY <1>5, <1>6, ExtendType
  <2> QED
    BY <2>1 DEF Extend
<1>8. lb' = WithListeners(lb, ls)
  BY <1>1 DEF CreateLoadBalancerListener
<1> HIDE DEF ls
<1>9. lb' \in LoadBalancer /\ lb'.pools = lb.pools /\ lb'.listeners = ls
  BY <1>6, <1>7, <1>8, WithListenersType
<1>10. ListenerPoolMatch' /\ From(lb')
  BY <1>2, <1>4, <1>6, <1>7, <1>9 DEF ListenerPoolMatch, From
<1> QED
  BY <1>2, <1>9, <1>10, ProcessedOK

-----------------------------------------------------------------------------
(* Every step. *)

LEMMA ProcessOK ==
  ASSUME IInv, NEW p \in Procs, NEW u \in job[p].plan, Process(p, u)
  PROVE  IInv'
  BY DeleteListenerOK, DeletePoolOK, MemberOpsOK, UpdatePoolOK, CreatePoolOK,
     CreateListenerOK
  DEF Process

LEMMA RunOK ==
  ASSUME IInv, NEW p \in Procs, Run(p)
  PROVE  IInv'
<1>1. CASE ReadKube(p)
  BY <1>1, ReadKubeOK
<1>2. CASE FindLoadBalancer(p) \/ GetLoadBalancer(p) \/ WaitLoadBalancerReady(p)
  BY <1>2, ReadAgainOK
<1>3. CASE RefuseUpdate(p) \/ RefusePlan(p) \/ Rejected(p)
  BY <1>3, RefuseOK
<1>4. CASE ListLoadBalancerListeners(p)
  BY <1>4, ListListenersOK
<1>5. CASE ListLoadBalancerPools(p)
  BY <1>5, ListPoolsOK
<1>6. CASE ListLoadBalancerPoolMembers(p)
  BY <1>6, ListMembersOK
<1>7. CASE Plan(p)
  BY <1>7, PlanStepOK
<1>8. CASE \E u \in job[p].plan : Process(p, u)
  BY <1>8, ProcessOK
<1> QED
  BY <1>1, <1>2, <1>3, <1>4, <1>5, <1>6, <1>7, <1>8 DEF Run

LEMMA IInvStep == IInv /\ [Next]_vars => IInv'
<1> SUFFICES ASSUME IInv, [Next]_vars PROVE IInv'
  OBVIOUS
<1>1. CASE EditService \/ ChangeNodes
  BY <1>1, KubeOK
<1>2. CASE AddUserPool
  BY <1>2, AddUserPoolOK
<1>3. CASE Settle
  BY <1>3, SettleOK
<1>4. ASSUME NEW p \in Procs, Run(p) PROVE IInv'
  BY <1>4, RunOK
<1>5. ASSUME NEW p \in Procs, Fail(p) PROVE IInv'
  BY <1>5, FailOK
<1>6. CASE UNCHANGED vars
  <2>1. UNCHANGED <<lb, svc, nodes, pc, job, due, outcome, events>>
    BY <1>6 DEF vars
  <2>2. ControlOK' /\ lb' \in LoadBalancer /\ ListenerPoolMatch' /\ From(lb')
    BY <2>1 DEF IInv, ControlOK, ListenerPoolMatch, From
  <2> QED
    BY <2>1, <2>2, OtherStepOK
<1> QED
  BY <1>1, <1>2, <1>3, <1>4, <1>5, <1>6 DEF Next

LEMMA IInvHolds == Spec => []IInv
  BY IInvInit, IInvStep, PTL DEF Spec

\* Every value the runs read, plan and send has its type, for every number of
\* processes.
THEOREM TypeCorrect == Spec => []TypeOK
  BY IInvHolds, IInvStrong, PTL

\* However many runs overlap, and wherever they fail, a listener leads to an
\* existing pool of its own port.
THEOREM ListenersKeepTheirPools == Spec => []ListenerPoolMatch
  BY IInvHolds, IInvStrong, PTL

\* What a run has read of the load balancer may be out of date, but not about
\* which port a pool serves.
THEOREM StaleNamesKeepThePort == Spec => []KnownPoolsKeepPort
  BY IInvHolds, IInvStrong, PTL

-----------------------------------------------------------------------------
(* Members. *)

\* The body of WantedMemberKept for one process and one pool.
Kept(p, i) ==
  \A m \in lb.pools[i].members :
    /\ m.node \in job[p].nodeList
    /\ m.port = job[p].svc.ports[lb.pools[i].name.port]
    => m \in lb'.pools[i].members

LEMMA UnchangedKept ==
  ASSUME NEW p \in Procs, NEW i \in DOMAIN lb.pools,
         lb'.pools[i].members = lb.pools[i].members
  PROVE  Kept(p, i)
  BY DEF Kept

\* Pools other than the one an update names keep their members.
LEMMA OtherPoolKept ==
  ASSUME IInv, NEW p \in Procs, NEW u \in job[p].plan, Process(p, u),
         NEW i \in DOMAIN lb.pools \cap DOMAIN lb'.pools,
         \/ u.op \notin {"DELETE-POOL-MEMBER", "REPLACE-POOL-MEMBERS", "CREATE-POOL-MEMBER"}
         \/ i # u.id
  PROVE  lb'.pools[i].members = lb.pools[i].members
<1> USE UpdateFacts
<1>1. CASE deleteLoadBalancerListener(p, u)
  BY <1>1 DEF deleteLoadBalancerListener, DeleteLoadBalancerListener, WithListeners,
              IInv, LoadBalancer
<1>2. CASE deleteLoadBalancerPool(p, u)
  BY <1>2 DEF deleteLoadBalancerPool, DeleteLoadBalancerPool, WithPools, Restrict,
              IInv, LoadBalancer
<1>3. CASE deleteLoadBalancerPoolMember(p, u)
  BY <1>3 DEF deleteLoadBalancerPoolMember, DeleteLoadBalancerPoolMember, WithPools,
              IInv, LoadBalancer
<1>4. CASE updateLoadBalancerPool(p, u)
  BY <1>4 DEF updateLoadBalancerPool, UpdateLoadBalancerPool, WithPools,
              IInv, LoadBalancer, Pool
<1>5. CASE replaceLoadBalancerPoolMembers(p, u)
  BY <1>5 DEF replaceLoadBalancerPoolMembers, ReplaceLoadBalancerPoolMembers, WithPools,
              IInv, LoadBalancer
<1>6. CASE createLoadBalancerPoolMember(p, u)
  BY <1>6 DEF createLoadBalancerPoolMember, CreateLoadBalancerPoolMember, WithPools,
              IInv, LoadBalancer
<1>7. CASE createLoadBalancerPool(p, u)
  BY <1>7 DEF createLoadBalancerPool, CreateLoadBalancerPool, FreshPool, WithPools,
              Extend, IInv, LoadBalancer
<1>8. CASE createLoadBalancerListener(p, u)
  BY <1>8 DEF createLoadBalancerListener, CreateLoadBalancerListener, WithListeners,
              IInv, LoadBalancer
<1> QED
  BY <1>1, <1>2, <1>3, <1>4, <1>5, <1>6, <1>7, <1>8 DEF Process

\* An update that changes the members of the pool it names spares those the
\* run wants.
LEMMA NamedPoolKept ==
  ASSUME IInv, NEW p \in Procs, NEW u \in job[p].plan, Process(p, u),
         u.id \in DOMAIN lb.pools,
         u.op \in {"DELETE-POOL-MEMBER", "REPLACE-POOL-MEMBERS", "CREATE-POOL-MEMBER"}
  PROVE  Kept(p, u.id)
<1>1. /\ lb \in LoadBalancer /\ Spares(job[p])
      /\ lb.pools[u.id] \in Pool
      /\ lb.pools[u.id].name.port = u.name.port
  BY UpdateFacts DEF IInv, JobOK, PoolOps, MemberOps
<1> DEFINE ms == lb.pools[u.id].members
<1>2. CASE deleteLoadBalancerPoolMember(p, u)
  <2>1. lb'.pools[u.id].members = ms \ {u.member}
    BY <1>1, <1>2 DEF deleteLoadBalancerPoolMember, DeleteLoadBalancerPoolMember,
                      WithPools, LoadBalancer, Pool
  <2>2. ~(/\ u.member.node \in job[p].nodeList
          /\ u.member.port = job[p].svc.ports[u.name.port])
    BY <1>1, <1>2 DEF deleteLoadBalancerPoolMember, Spares
  <2> QED
    BY <1>1, <2>1, <2>2 DEF Kept
<1>3. CASE createLoadBalancerPoolMember(p, u)
  <2>1. lb'.pools[u.id].members = ms \cup {u.member}
    BY <1>1, <1>3 DEF createLoadBalancerPoolMember, CreateLoadBalancerPoolMember,
                      WithPools, LoadBalancer, Pool
  <2> QED
    BY <2>1 DEF Kept
<1>4. CASE replaceLoadBalancerPoolMembers(p, u)
  <2>1. lb'.pools[u.id].members
          = genLoadBalancerMembers(u.name.nodePort, job[p].nodeList)
    BY <1>1, <1>4 DEF replaceLoadBalancerPoolMembers, ReplaceLoadBalancerPoolMembers,
                      WithPools, LoadBalancer, Pool
  <2>2. u.name.nodePort = job[p].svc.ports[u.name.port]
    BY <1>1, <1>4 DEF replaceLoadBalancerPoolMembers, Spares
  <2>3. ASSUME NEW m \in ms, m.node \in job[p].nodeList, m.port = u.name.nodePort
        PROVE  m \in genLoadBalancerMembers(u.name.nodePort, job[p].nodeList)
    <3>1. m = [node |-> m.node, port |-> m.port]
      BY <1>1 DEF Pool, Member
    <3> QED
      BY <2>3, <3>1 DEF genLoadBalancerMembers
  <2> QED
    BY <1>1, <2>1, <2>2, <2>3 DEF Kept
<1> QED
  BY <1>2, <1>3, <1>4
  DEF Process, deleteLoadBalancerListener, deleteLoadBalancerPool,
      updateLoadBalancerPool, createLoadBalancerPool, createLoadBalancerListener

\* A run leaves the "exec" state by a step of its own.
LEMMA OwnStep ==
  ASSUME IInv, Next, NEW p \in Procs, pc[p] = "exec", pc'[p] # "exec"
  PROVE  Fail(p) \/ Rejected(p) \/ \E u \in job[p].plan : Process(p, u)
<1>1. ~(EditService \/ ChangeNodes \/ AddUserPool \/ Settle)
  BY DEF EditService, ChangeNodes, AddUserPool, Settle
<1>2. PICK q \in Procs : Run(q) \/ Fail(q)
  BY <1>1 DEF Next
<1>3. ASSUME q # p PROVE FALSE
  <2>1. pc'[p] = pc[p]
    BY <1>2, <1>3
    DEF Run, Fail, Finish, ReadKube, FindLoadBalancer, RefuseUpdate,
        ListLoadBalancerListeners, ListLoadBalancerPools, ListLoadBalancerPoolMembers,
        Plan, RefusePlan, GetLoadBalancer, WaitLoadBalancerReady, Rejected, Process,
        Processed, deleteLoadBalancerListener, deleteLoadBalancerPool,
        deleteLoadBalancerPoolMember, updateLoadBalancerPool,
        replaceLoadBalancerPoolMembers, createLoadBalancerPoolMember,
        createLoadBalancerPool, createLoadBalancerListener, IInv, ControlOK
  <2> QED
    BY <2>1
<1>4. Run(p) \/ Fail(p)
  BY <1>2, <1>3
<1> QED
  BY <1>4
  DEF Run, ReadKube, FindLoadBalancer, RefuseUpdate, ListLoadBalancerListeners,
      ListLoadBalancerPools, ListLoadBalancerPoolMembers, Plan, RefusePlan,
      GetLoadBalancer, WaitLoadBalancerReady

\* No run takes a member it wants out of a pool, not even when other runs have
\* changed the pool since it was read.
THEOREM WantedMembersStay == Spec => WantedMemberKept
<1>1. ASSUME IInv, [Next]_vars,
             NEW p \in Procs, NEW i \in DOMAIN lb.pools \cap DOMAIN lb'.pools,
             pc[p] = "exec", pc'[p] # "exec",
             lb.pools[i].name.port \in DOMAIN job[p].svc.ports
      PROVE  Kept(p, i)
  <2>1. Next
    BY <1>1 DEF vars
  <2>2. Fail(p) \/ Rejected(p) \/ \E u \in job[p].plan : Process(p, u)
    BY <1>1, <2>1, OwnStep
  <2>3. CASE Fail(p) \/ Rejected(p)
    BY <2>3, UnchangedKept DEF Fail, Rejected
  <2>4. ASSUME NEW u \in job[p].plan, Process(p, u) PROVE Kept(p, i)
    <3>1. CASE /\ u.op \in {"DELETE-POOL-MEMBER", "REPLACE-POOL-MEMBERS",
                             "CREATE-POOL-MEMBER"}
               /\ i = u.id
      BY <1>1, <2>4, <3>1, NamedPoolKept
    <3>2. CASE \/ u.op \notin {"DELETE-POOL-MEMBER", "REPLACE-POOL-MEMBERS",
                                "CREATE-POOL-MEMBER"}
               \/ i # u.id
      BY <1>1, <2>4, <3>2, OtherPoolKept, UnchangedKept
    <3> QED
      BY <3>1, <3>2
  <2> QED
    BY <2>2, <2>3, <2>4
<1>2. IInv /\ [Next]_vars =>
        [\A p \in Procs, i \in DOMAIN lb.pools \cap DOMAIN lb'.pools :
           pc[p] = "exec" /\ pc'[p] # "exec" /\ lb.pools[i].name.port \in DOMAIN job[p].svc.ports =>
             \A m \in lb.pools[i].members :
               /\ m.node \in job[p].nodeList
               /\ m.port = job[p].svc.ports[lb.pools[i].name.port]
               => m \in lb'.pools[i].members]_vars
  BY <1>1 DEF Kept
<1> QED
  BY <1>2, IInvHolds, PTL DEF Spec, WantedMemberKept
=============================================================================
