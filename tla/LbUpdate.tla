------------------------------ MODULE LbUpdate ------------------------------
(***************************************************************************)
(* VpcUpdateLoadBalancer and UpdateLoadBalancer (vpc_provider.go,          *)
(* vpc_lbaas.go) against one load balancer that exists.                    *)
(*                                                                         *)
(* Each process is one run after another of vpcctl or of the cloud         *)
(* provider for the same service.  A run reads the service and the nodes   *)
(* from Kubernetes, finds the load balancer, lists its listeners and pools *)
(* with one API call each and one for the members of every pool, plans     *)
(* (LbPlan), and processes the updates one at a time, waiting before every *)
(* update but the first for the load balancer to be ready again.  Between  *)
(* any two calls the user may edit the service, nodes may come and go,     *)
(* other processes may run, and the run itself may fail or be killed.      *)
(***************************************************************************)
EXTENDS VpcLbApi

CONSTANTS
  Procs,       \* processes that may update the load balancer
  Services,    \* the versions of the service the user may choose
  UserPools,   \* pools the user may add to the load balancer by other means
  NodesNoIP,   \* nodes that report no internal IP address
  MaxEvents    \* bound on the edits, node changes and failures of a behaviour

ASSUME UpdateAssumption ==
  /\ \A s \in Services : IsService(s)
  /\ UserPools \subseteq Pool
  /\ NodesNoIP \subseteq Nodes
  /\ MaxEvents \in Nat
  /\ IsFiniteSet(Nodes)

VARIABLES
  lb,       \* the load balancer, as the VPC API has it
  svc,      \* the service, as Kubernetes has it
  nodes,    \* the nodes selected for the service, as Kubernetes has them
  pc,       \* the call each process makes next
  job,      \* what each process knows: arguments, lists read, plan
  due,      \* Kubernetes has a change to report to the process
  outcome,  \* how the last run of each process ended
  events    \* edits, node changes and failures so far

vars == <<lb, svc, nodes, pc, job, due, outcome, events>>
kube == <<svc, nodes, events>>

Update ==
  {u \in [op : Ops, step : 1..6, id : PoolIds \cup ListenerIds \cup {NoId},
          name : PoolName \cup {NoName}, member : Member \cup {NoMember}] :
     /\ u.op # "DELETE-LISTENER" => u.name \in PoolName
     /\ u.op \in MemberOps => u.member \in Member}

Names(pools) == [i \in DOMAIN pools |-> pools[i].name]

IsJob(j) ==
  /\ j = [svc |-> j.svc, nodes |-> j.nodes, nodeList |-> j.nodeList,
          view |-> j.view, listeners |-> j.listeners, pools |-> j.pools,
          unread |-> j.unread, plan |-> j.plan]
  /\ IsService(j.svc)
  /\ j.nodes \subseteq Nodes
  /\ j.nodeList \subseteq Nodes
  /\ IsPartialFcn(j.view, PoolIds, PoolName \cup {Unparsable})
  /\ IsPartialFcn(j.listeners, ListenerIds, Listener)
  /\ IsPartialFcn(j.pools, PoolIds, Pool)
  /\ j.unread \subseteq DOMAIN j.pools
  /\ j.plan \subseteq Update

Empty     == [x \in {} |-> x]
NoService == [ports |-> Empty, local |-> FALSE, hcnp |-> 0, quota |-> 0]

NewJob(s, ns) ==
  [svc |-> s, nodes |-> ns, nodeList |-> {}, view |-> Empty, listeners |-> Empty,
   pools |-> Empty, unread |-> {}, plan |-> {}]

\* getNodeIDs: the addresses of the nodes that have one.
getNodeIDs(ns) == ns \ NodesNoIP

\* The node lists of a run; the existing members are those of the first pool.
NodeLists(j) ==
  LET existing == IF j.pools = Empty THEN {}
                  ELSE {m.node : m \in j.pools[Min(DOMAIN j.pools)].members}
  IN  filterNodesByServiceMemberQuota(getNodeIDs(j.nodes), existing, j.svc)

TypeOK ==
  /\ IsLoadBalancer(lb)
  /\ svc \in Services
  /\ nodes \subseteq Nodes
  /\ pc \in [Procs -> {"idle", "find", "listeners", "pools", "members", "get",
                       "wait", "exec"}]
  /\ job = [p \in Procs |-> job[p]]
  /\ \A p \in Procs : IsJob(job[p])
  /\ due \in [Procs -> BOOLEAN]
  /\ outcome \in [Procs -> {"ok", "error"}]
  /\ events \in 0..MaxEvents

\* The load balancer was just created for the service and its nodes.
Init ==
  /\ svc \in Services
  /\ nodes \in (SUBSET Nodes) \ {{}}
  /\ \E nodeList \in filterNodesByServiceMemberQuota(getNodeIDs(nodes), {}, svc),
        id \in Injection(DOMAIN svc.ports, PoolIds \cap ListenerIds) :
          lb = CreateLoadBalancer(svc, nodeList, id)
  /\ pc = [p \in Procs |-> "idle"]
  /\ job = [p \in Procs |-> NewJob(NoService, {})]
  /\ due = [p \in Procs |-> FALSE]
  /\ outcome = [p \in Procs |-> "ok"]
  /\ events = 0

-----------------------------------------------------------------------------
(* Kubernetes and the VPC service. *)

\* Identifiers are not used twice while anybody may still refer to them.
FreshPool(i) ==
  /\ i \in PoolIds \ DOMAIN lb.pools
  /\ \A q \in Procs : /\ i \notin DOMAIN job[q].view \cup DOMAIN job[q].pools
                      /\ \A v \in job[q].plan : v.id # i

FreshListener(l) ==
  /\ l \in ListenerIds \ DOMAIN lb.listeners
  /\ \A q \in Procs : /\ l \notin DOMAIN job[q].listeners
                      /\ \A v \in job[q].plan : v.id # l

Event ==
  /\ events < MaxEvents
  /\ events' = events + 1

EditService ==
  /\ Event
  /\ svc' \in Services \ {svc}
  /\ due' = [p \in Procs |-> TRUE]
  /\ UNCHANGED <<lb, nodes, pc, job, outcome>>

ChangeNodes ==
  /\ Event
  /\ nodes' \in (SUBSET Nodes) \ {nodes}
  /\ due' = [p \in Procs |-> TRUE]
  /\ UNCHANGED <<lb, svc, pc, job, outcome>>

AddUserPool ==
  /\ Event
  /\ \E i \in PoolIds, pool \in UserPools :
       /\ FreshPool(i)
       /\ NameUnused(lb, pool.name)
       /\ lb' = WithPools(lb, Extend(lb.pools, i, pool))
  /\ UNCHANGED <<svc, nodes, pc, job, due, outcome>>

\* The service has carried out the last request.
Settle ==
  /\ ~lb.ready
  /\ lb' = [lb EXCEPT !.ready = TRUE]
  /\ UNCHANGED <<svc, nodes, pc, job, due, outcome, events>>

-----------------------------------------------------------------------------
(* Ends of a run.  A run that is over forgets what it knew. *)

Finish(p, result) ==
  /\ pc' = [pc EXCEPT ![p] = "idle"]
  /\ job' = [job EXCEPT ![p] = NewJob(NoService, {})]
  /\ outcome' = [outcome EXCEPT ![p] = result]

\* A call fails or is not answered in time, the wait times out, or the
\* process is killed; whatever it asked the API to do before is done.
Fail(p) ==
  /\ pc[p] # "idle"
  /\ Event
  /\ Finish(p, "error")
  /\ UNCHANGED <<lb, svc, nodes, due>>

-----------------------------------------------------------------------------
(* Reading. *)

\* The cloud provider calls again when something changed or the last call
\* failed.
ReadKube(p) ==
  /\ pc[p] = "idle"
  /\ due[p] \/ outcome[p] = "error"
  /\ pc' = [pc EXCEPT ![p] = "find"]
  /\ job' = [job EXCEPT ![p] = NewJob(svc, nodes)]
  /\ due' = [due EXCEPT ![p] = FALSE]
  /\ UNCHANGED <<lb, kube, outcome>>

FindLoadBalancer(p) ==
  /\ pc[p] = "find"
  /\ lb.ready
  /\ job[p].nodes # {}
  /\ pc' = [pc EXCEPT ![p] = "listeners"]
  /\ job' = [job EXCEPT ![p].view = Names(lb.pools)]
  /\ UNCHANGED <<lb, kube, due, outcome>>

\* Mutant: a load balancer that is busy is skipped as if it had no changes.
MutantRefuseUpdate(p) ==
  /\ pc[p] = "find"
  /\ ~lb.ready \/ job[p].nodes = {}
  /\ Finish(p, IF lb.ready THEN "error" ELSE "ok")
  /\ UNCHANGED <<lb, kube, due>>

\* The load balancer is busy, or no node is left.
RefuseUpdate(p) ==
  /\ pc[p] = "find"
  /\ ~lb.ready \/ job[p].nodes = {}
  /\ Finish(p, "error")
  /\ UNCHANGED <<lb, kube, due>>

ListLoadBalancerListeners(p) ==
  /\ pc[p] = "listeners"
  /\ pc' = [pc EXCEPT ![p] = "pools"]
  /\ job' = [job EXCEPT ![p].listeners = lb.listeners]
  /\ UNCHANGED <<lb, kube, due, outcome>>

ListLoadBalancerPools(p) ==
  /\ pc[p] = "pools"
  /\ pc' = [pc EXCEPT ![p] = "members"]
  /\ job' = [job EXCEPT ![p].pools = [i \in DOMAIN lb.pools |->
                                        [lb.pools[i] EXCEPT !.members = {}]],
                        ![p].unread = DOMAIN lb.pools]
  /\ UNCHANGED <<lb, kube, due, outcome>>

ListLoadBalancerPoolMembers(p) ==
  /\ pc[p] = "members"
  /\ job[p].unread # {}
  /\ LET i == Min(job[p].unread) IN
       \/ /\ i \in DOMAIN lb.pools
          /\ job' = [job EXCEPT ![p].pools[i].members = lb.pools[i].members,
                                ![p].unread = @ \ {i}]
          /\ UNCHANGED <<pc, outcome>>
       \/ /\ i \notin DOMAIN lb.pools
          /\ Finish(p, "error")
  /\ UNCHANGED <<lb, kube, due>>

-----------------------------------------------------------------------------
(* Planning. *)

Plan(p) ==
  /\ pc[p] = "members"
  /\ job[p].unread = {}
  /\ NamesParse(job[p].pools)
  /\ \E nodeList \in NodeLists(job[p]) :
       LET plan == UpdatesRequired(job[p].listeners, job[p].pools, job[p].svc, nodeList)
       IN  IF plan = {}
           THEN Finish(p, "ok")
           ELSE /\ pc' = [pc EXCEPT ![p] = "exec"]
                /\ job' = [job EXCEPT ![p].nodeList = nodeList,
                                      ![p].plan = plan,
                                      ![p].nodes = {},
                                      ![p].listeners = Empty,
                                      ![p].pools = Empty]
                /\ UNCHANGED outcome
  /\ UNCHANGED <<lb, kube, due>>

\* The quota is no number, or a pool has a name that does not parse.
RefusePlan(p) ==
  /\ pc[p] = "members"
  /\ job[p].unread = {}
  /\ NodeLists(job[p]) = {} \/ ~NamesParse(job[p].pools)
  /\ Finish(p, "error")
  /\ UNCHANGED <<lb, kube, due>>

-----------------------------------------------------------------------------
(* Processing the updates. *)

GetLoadBalancer(p) ==
  /\ pc[p] = "get"
  /\ IF lb.ready
     THEN /\ pc' = [pc EXCEPT ![p] = "exec"]
          /\ job' = [job EXCEPT ![p].view = Names(lb.pools)]
     ELSE pc' = [pc EXCEPT ![p] = "wait"] /\ UNCHANGED job
  /\ UNCHANGED <<lb, kube, due, outcome>>

\* A poll of WaitLoadBalancerReady finds the load balancer ready.
WaitLoadBalancerReady(p) ==
  /\ pc[p] = "wait"
  /\ lb.ready
  /\ pc' = [pc EXCEPT ![p] = "exec"]
  /\ job' = [job EXCEPT ![p].view = Names(lb.pools)]
  /\ UNCHANGED <<lb, kube, due, outcome>>

IsNext(p, u) ==
  /\ u \in job[p].plan
  /\ \A v \in job[p].plan \ {u} : Precedes(u, v)

\* Mutant: the newest pool is taken for the one just created.
MutantListenerPool(p, u) ==
  IF u.op = "CREATE-LISTENER" /\ job[p].view # Empty
  THEN Max(DOMAIN job[p].view) ELSE NoId

\* The pool a new listener is to use: the one that had its name when the load
\* balancer was last read.
ListenerPool(p, u) ==
  LET named == {i \in DOMAIN job[p].view : job[p].view[i] = u.name}
  IN  IF u.op = "CREATE-LISTENER" /\ named # {} THEN CHOOSE i \in named : TRUE ELSE NoId

\* The API accepts update u and the run goes on to the next one.
Processed(p, u) ==
  LET rest == job[p].plan \ {u} IN
  /\ pc[p] = "exec"
  /\ IsNext(p, u)
  /\ Accepts(lb, u, ListenerPool(p, u))
  /\ IF rest = {}
     THEN Finish(p, "ok")
     ELSE /\ pc' = [pc EXCEPT ![p] = "get"]
          /\ job' = [job EXCEPT ![p].plan = rest, ![p].view = Empty]
          /\ UNCHANGED outcome
  /\ UNCHANGED <<kube, due>>

deleteLoadBalancerListener(p, u) ==
  /\ Processed(p, u)
  /\ u.op = "DELETE-LISTENER"
  /\ lb' = DeleteLoadBalancerListener(lb, u.id)

deleteLoadBalancerPool(p, u) ==
  /\ Processed(p, u)
  /\ u.op = "DELETE-POOL"
  /\ lb' = DeleteLoadBalancerPool(lb, u.id)

deleteLoadBalancerPoolMember(p, u) ==
  /\ Processed(p, u)
  /\ u.op = "DELETE-POOL-MEMBER"
  /\ lb' = DeleteLoadBalancerPoolMember(lb, u.id, u.member)

updateLoadBalancerPool(p, u) ==
  /\ Processed(p, u)
  /\ u.op = "UPDATE-POOL"
  /\ lb' = UpdateLoadBalancerPool(lb, u.id, u.name,
                                  getServiceHealthCheckNodePort(job[p].svc))

replaceLoadBalancerPoolMembers(p, u) ==
  /\ Processed(p, u)
  /\ u.op = "REPLACE-POOL-MEMBERS"
  /\ lb' = ReplaceLoadBalancerPoolMembers(lb, u.id, u.name, job[p].nodeList)

createLoadBalancerPoolMember(p, u) ==
  /\ Processed(p, u)
  /\ u.op = "CREATE-POOL-MEMBER"
  /\ lb' = CreateLoadBalancerPoolMember(lb, u.id, u.member)

createLoadBalancerPool(p, u) ==
  /\ Processed(p, u)
  /\ u.op = "CREATE-POOL"
  /\ \E i \in PoolIds :
       /\ FreshPool(i)
       /\ lb' = CreateLoadBalancerPool(lb, i, u.name, job[p].nodeList,
                                       getServiceHealthCheckNodePort(job[p].svc))

createLoadBalancerListener(p, u) ==
  /\ Processed(p, u)
  /\ u.op = "CREATE-LISTENER"
  /\ \E l \in ListenerIds :
       /\ FreshListener(l)
       /\ lb' = CreateLoadBalancerListener(lb, l, u.name, ListenerPool(p, u))

\* The API rejects the next update, or no pool has the name of the listener.
Rejected(p) ==
  /\ pc[p] = "exec"
  /\ \E u \in job[p].plan : IsNext(p, u) /\ ~Accepts(lb, u, ListenerPool(p, u))
  /\ Finish(p, "error")
  /\ UNCHANGED <<lb, kube, due>>

-----------------------------------------------------------------------------
Process(p, u) ==
  \/ deleteLoadBalancerListener(p, u)
  \/ deleteLoadBalancerPool(p, u)
  \/ deleteLoadBalancerPoolMember(p, u)
  \/ updateLoadBalancerPool(p, u)
  \/ replaceLoadBalancerPoolMembers(p, u)
  \/ createLoadBalancerPoolMember(p, u)
  \/ createLoadBalancerPool(p, u)
  \/ createLoadBalancerListener(p, u)

Run(p) ==
  \/ ReadKube(p)
  \/ FindLoadBalancer(p)
  \/ RefuseUpdate(p)
  \/ ListLoadBalancerListeners(p)
  \/ ListLoadBalancerPools(p)
  \/ ListLoadBalancerPoolMembers(p)
  \/ Plan(p)
  \/ RefusePlan(p)
  \/ GetLoadBalancer(p)
  \/ WaitLoadBalancerReady(p)
  \/ \E u \in job[p].plan : Process(p, u)
  \/ Rejected(p)

Next ==
  \/ EditService
  \/ ChangeNodes
  \/ AddUserPool
  \/ Settle
  \/ \E p \in Procs : Run(p) \/ Fail(p)

Spec == Init /\ [][Next]_vars

\* The VPC service carries out what it accepted, and a run that can take its
\* next step takes it.
Fairness == WF_vars(Settle) /\ \A p \in Procs : WF_vars(Run(p))

FairSpec == Spec /\ Fairness

-----------------------------------------------------------------------------
(* Properties. *)

\* The load balancer serves exactly the ports of service s: one listener and
\* one pool per port, the pool named for the node port, its members the
\* nodes of nodeList at that node port, its health monitor the one the
\* service asks for.
Matches(b, s, nodeList) ==
  LET at(p)    == {l \in DOMAIN b.listeners : b.listeners[l].port = p}
      named(p) == {i \in DOMAIN b.pools : b.pools[i].name = genLoadBalancerPoolName(s, p)}
      hc       == getServiceHealthCheckNodePort(s)
  IN  /\ {b.listeners[l].port : l \in DOMAIN b.listeners} = DOMAIN s.ports
      /\ {b.pools[i].name.port : i \in DOMAIN b.pools} = DOMAIN s.ports
      /\ \A p \in DOMAIN s.ports : \E l \in ListenerIds, i \in PoolIds :
           /\ at(p) = {l} /\ named(p) = {i}
           /\ b.listeners[l].pool = i
           /\ b.pools[i].members = genLoadBalancerMembers(s.ports[p], nodeList)
           /\ \/ s.local /\ s.hcnp = 0
              \/ b.pools[i].hm = genLoadBalancerHealthMonitor(s.ports[p], hc)

\* The nodes a service is due, of those that are desired: all of them if it has
\* externalTrafficPolicy Local, no quota or a negative one, else as many as the
\* quota allows.  Nothing is right for a quota that is no number.
DueNodes(desired, s) ==
  LET limited == ~s.local /\ s.quota > 0
  IN  {S \in SUBSET desired :
         /\ s.local \/ s.quota # BadQuota
         /\ limited => Cardinality(S) <= s.quota
         /\ S # desired => limited /\ Cardinality(S) = s.quota}

\* A run that reports success leaves the load balancer as its service and its
\* nodes ask for, whatever unfinished runs left before it (the eight steps of
\* UpdateLoadBalancer and the order of its updates).
SuccessMeansInSync ==
  [][\A p \in Procs :
       pc[p] # "idle" /\ pc'[p] = "idle" /\ outcome'[p] = "ok" =>
         \E nodeList \in IF pc[p] = "exec" THEN {job[p].nodeList}
                         ELSE DueNodes(getNodeIDs(job[p].nodes), job[p].svc) :
           Matches(lb', job[p].svc, nodeList)]_vars

\* When every run is over, none failed and Kubernetes has nothing left to
\* report, the load balancer serves the service and the nodes as Kubernetes has
\* them now: no edit and no node change was lost to a run that had read the
\* service before, or to a run that was refused, rejected or killed.  Members
\* are as many as the quota allows, and a quota that is no number does not pass.
QuietMeansInSync ==
  (\A p \in Procs : pc[p] = "idle" /\ ~due[p] /\ outcome[p] = "ok") =>
    \E nodeList \in DueNodes(getNodeIDs(nodes), svc) :
      Matches(lb, svc, nodeList)

\* The order of the updates respects rules 1 to 3: when a run that no other
\* disturbs sends an update, the API has no reason to reject it.
NoUpdateRejected ==
  \A p \in Procs : pc[p] = "exec" =>
    \A u \in job[p].plan : IsNext(p, u) => Accepts(lb, u, ListenerPool(p, u))

\* No update takes the last member from a pool that stays: traffic to a port
\* always has a node to go to.
PoolNeverDrained ==
  [][\A i \in DOMAIN lb.pools \cap DOMAIN lb'.pools :
       lb.pools[i].members # {} => lb'.pools[i].members # {}]_vars

\* A member the run wants (its node is selected, its port is the node port
\* of the service) is never taken out on the way, not even by the
\* replacement that stands for several updates.
WantedMemberKept ==
  [][\A p \in Procs, i \in DOMAIN lb.pools \cap DOMAIN lb'.pools :
       pc[p] = "exec" /\ pc'[p] # "exec" /\ lb.pools[i].name.port \in DOMAIN job[p].svc.ports =>
         \A m \in lb.pools[i].members :
           /\ m.node \in job[p].nodeList
           /\ m.port = job[p].svc.ports[lb.pools[i].name.port]
           => m \in lb'.pools[i].members]_vars

\* A listener leads to a pool that exists and that was made for its port:
\* connections to one external port never reach the node port of another.
ListenerPoolMatch ==
  \A l \in DOMAIN lb.listeners :
    /\ lb.listeners[l].pool \in DOMAIN lb.pools
    /\ lb.pools[lb.listeners[l].pool].name.port = lb.listeners[l].port

\* What a run knows of a pool may be old, but never names a pool of another
\* port: when its pool still exists, an update changes the pool of the port it
\* was planned for.
PoolOps == MemberOps \cup {"DELETE-POOL", "REPLACE-POOL-MEMBERS", "UPDATE-POOL"}

SamePort(i, name) == i \in DOMAIN lb.pools => lb.pools[i].name.port = name.port

KnownPoolsKeepPort ==
  \A p \in Procs :
    /\ \A i \in DOMAIN job[p].view : SamePort(i, job[p].view[i])
    /\ \A i \in DOMAIN job[p].pools : SamePort(i, job[p].pools[i].name)
    /\ \A u \in job[p].plan : u.op \in PoolOps => SamePort(u.id, u.name)

\* There is one pool for an external port: checkPoolsForExtPortAddedToService
\* creates none where one exists.
OnePoolPerPort ==
  \A i, j \in DOMAIN lb.pools :
    lb.pools[i].name.port = lb.pools[j].name.port => i = j

\* Nothing is left to do on a load balancer that matches, and the quota
\* selects the nodes it has: runs do not move members back and forth.
InSyncIsStable ==
  \A nodeList \in SUBSET Nodes :
    (nodeList # {} /\ Matches(lb, svc, nodeList)) =>
      LET again == NodeLists([NewJob(svc, nodes) EXCEPT !.pools = lb.pools])
      IN  nodeList \in filterNodesByServiceMemberQuota(getNodeIDs(nodes), {}, svc)
          => /\ again = {nodeList}
             /\ UpdatesRequired(lb.listeners, lb.pools, svc, nodeList) = {}

\* A pool whose name the controller cannot parse is somebody else's: no run
\* deletes it or changes it.
ForeignPoolUntouched ==
  [][\A i \in DOMAIN lb.pools : lb.pools[i].name = Unparsable =>
       i \in DOMAIN lb'.pools /\ lb'.pools[i] = lb.pools[i]]_vars

\* For its clients the load balancer behaves as LbRoutes says, however many runs
\* with old knowledge update it at once.
Routes == INSTANCE LbRoutes WITH
  PortNumbers <- Ports \cup {Unparsable.port},
  serves <- [i \in DOMAIN lb.pools |-> lb.pools[i].name.port],
  routes <- lb.listeners

ImplementsRoutes == Routes!Spec

\* Every update that changes anything takes the load balancer closer to what its
\* run wants: planned anew for the same service and nodes, fewer updates are
\* left than before.  So a run that fails leaves less to do for the next.
Remaining(b, j) == UpdatesRequired(b.listeners, b.pools, j.svc, j.nodeList)

UpdatesMakeProgress ==
  [][\A p \in Procs : pc[p] = "exec" /\ pc'[p] # "exec" /\ lb' # lb =>
       \/ lb' = [lb EXCEPT !.ready = FALSE]
       \/ Cardinality(Remaining(lb', job[p])) < Cardinality(Remaining(lb, job[p]))]_vars

\* vpc_lbaas.go:543 "Verify that there are nodes available to associate with
\* this load balancer": a run that processes updates has a node to associate.
NodesAvailable == \A p \in Procs : pc[p] = "exec" => job[p].nodeList # {}

\* vpc_lbaas.go:588, rule 4, "all CREATE operations will be done last".
CreatesLast ==
  \A p \in Procs : \A u, v \in job[p].plan :
    /\ u.op \in {"CREATE-LISTENER", "CREATE-POOL", "CREATE-POOL-MEMBER"}
    /\ Precedes(u, v)
    => v.op \in {"CREATE-LISTENER", "CREATE-POOL", "CREATE-POOL-MEMBER"}

\* When edits, node changes and failures stop, the load balancer comes to
\* serve the service and its nodes, and stays so; unless the service asks for
\* a quota that is no number, or somebody else added a pool.
InSync ==
  \/ nodes = {} \/ (~svc.local /\ svc.quota = BadQuota) \/ ~NamesParse(lb.pools)
  \/ \E nodeList \in DueNodes(getNodeIDs(nodes), svc) : Matches(lb, svc, nodeList)

EventuallyInSync == <>[]InSync
=============================================================================
