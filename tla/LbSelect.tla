------------------------------ MODULE LbSelect ------------------------------
(***************************************************************************)
(* The subnets and nodes a load balancer is given, from the annotations of *)
(* its service: the first half of CreateLoadBalancer and UpdateLoadBalancer *)
(* of vpc_lbaas.go with the filters and validations of vpc_config.go.      *)
(*                                                                         *)
(* Subnets are chosen once, when the load balancer is created, from the    *)
(* subnets of one VPC; every update looks the annotation up again among    *)
(* all subnets of the account, which were renamed, deleted and created     *)
(* meanwhile, and refuses a service that asks for other subnets than the   *)
(* load balancer has.  Nodes are chosen anew by every update; what becomes *)
(* of them in the pools is the subject of LbUpdate.                        *)
(***************************************************************************)
EXTENDS Integers, Sequences, SequencesExt

CONSTANTS
  SubnetIds,     \* subnets there can be in the account
  Cidr, Vpc, SubnetZone,  \* the address block, VPC and zone of each
  SubnetNames,   \* names of subnets
  VpcName,       \* configuration: the VPC of the cluster
  ConfigNames,   \* configuration: the names of the subnets of the cluster
  PartOf,        \* a name and a configured name that contains it
  Nodes,
  NodeLabels,    \* the labels of each node at first; "" for one it has not
  LabelValues,   \* values of labels
  Allowed,       \* labels that a node selector can name
  Services,      \* what a service can ask for
  MaxEdits,      \* bound on edits of services, nodes and subnets
  MaxFaults      \* bound on calls that fail

Labels == {"dedicated", "zone", "arch"}

\* One token of the annotation names at most one subnet of a VPC: identifiers,
\* names and address blocks look different, and blocks do not overlap.
ASSUME SubnetsAssumption ==
  /\ \A i, j \in SubnetIds : Cidr[i] # j /\ (Vpc[i] = Vpc[j] /\ Cidr[i] = Cidr[j] => i = j)
  /\ \A n \in SubnetNames : n \notin SubnetIds /\ \A i \in SubnetIds : n # Cidr[i]
  /\ "none" \notin SubnetNames /\ "deleted" \notin SubnetNames

ASSUME NodesAssumption ==
  /\ "" \in LabelValues /\ "edge" \in LabelValues
  /\ NodeLabels \in [Nodes -> [Labels -> LabelValues]]

ASSUME SelectAssumption ==
  /\ \A s \in Services : s.public \in BOOLEAN
  /\ MaxEdits \in Nat
  /\ MaxFaults \in Nat

VARIABLES
  svc,      \* the service, with its annotations
  nodes,    \* the labels and the state of each node
  subnets,  \* the name of each subnet, "none" before and "deleted" after its time
  lb,       \* the load balancer of the service
  made,     \* the service it was created for and the names of the subnets then
  job,      \* what the run does next and what it has read
  due,      \* the service controller has to call (again)
  edits,    \* edits so far
  faults    \* failed calls so far

vars == <<svc, nodes, subnets, lb, made, job, due, edits, faults>>

NoLb == [exists |-> FALSE, public |-> FALSE, subnets |-> {}, members |-> {},
         of |-> CHOOSE s \in Services : TRUE]

ListType == [SubnetIds -> SubnetNames \cup {"none", "deleted"}]

\* The subnets of a list, which gives the names of all that there are.
Listed(list) == {i \in SubnetIds : list[i] \in SubnetNames}

\* The API keeps the names in a VPC distinct.
Distinct(list) ==
  \A i, j \in Listed(list) : Vpc[i] = Vpc[j] /\ list[i] = list[j] => i = j

-----------------------------------------------------------------------------
(* Nodes.  A list of nodes gives the labels of each node in it. *)

\* getKubeNodes: without nodes that are cordoned or not ready.
getKubeNodes ==
  LET usable == {n \in Nodes : nodes[n].schedulable /\ nodes[n].ready}
  IN  [n \in usable |-> nodes[n].labels]

findNodesMatchingLabelValue(list, label, value) ==
  {n \in DOMAIN list : label \in DOMAIN list[n] /\ list[n][label] = value}

\* The selector as a label and a value; anything else counts for none.
HasSelector(service) ==
  Len(service.selector) = 2 /\ service.selector[1] \in Allowed

filterNodesByServiceZone(list, service) ==
  IF service.zone = "" THEN DOMAIN list
  ELSE findNodesMatchingLabelValue(list, "zone", service.zone)

\* Mutant: edge nodes or none.
MutantEdgeOnly(list, candidates) ==
  candidates \cap findNodesMatchingLabelValue(list, "dedicated", "edge")

\* The edge nodes among the candidates, or all if there are none.
filterNodesByEdgeLabel(list, candidates) ==
  LET edge == candidates \cap findNodesMatchingLabelValue(list, "dedicated", "edge")
  IN  IF edge = {} THEN candidates ELSE edge

\* Mutant: edge nodes first, then those of the zone.
MutantFilterNodes(list, service) ==
  IF HasSelector(service)
  THEN findNodesMatchingLabelValue(list, service.selector[1], service.selector[2])
  ELSE filterNodesByEdgeLabel(list, DOMAIN list) \cap filterNodesByServiceZone(list, service)

\* A selector replaces the zone and the edge label.
FilterNodes(list, service) ==
  IF HasSelector(service)
  THEN findNodesMatchingLabelValue(list, service.selector[1], service.selector[2])
  ELSE filterNodesByEdgeLabel(list, filterNodesByServiceZone(list, service))

-----------------------------------------------------------------------------
(* Subnets. *)

\* Mutant: all VPCs.
MutantFilterSubnetsByVpcName(list) == Listed(list)

filterSubnetsByVpcName(list) == {i \in Listed(list) : Vpc[i] = VpcName}

\* The configured names are searched for the name as a substring.
filterSubnetsByName(list, candidates) ==
  {i \in candidates : list[i] \in ConfigNames \/ \E c \in ConfigNames : <<list[i], c>> \in PartOf}

\* Mutant: address blocks of every VPC.
MutantMatching(list, candidates, vpc, token) ==
  {i \in candidates : token = i \/ (Vpc[i] = vpc /\ list[i] = token) \/ Cidr[i] = token}

\* The subnets of the list that a token stands for: by its identifier in any
\* VPC, by its name or address block in this one.
Matching(list, candidates, vpc, token) ==
  {i \in candidates : token = i \/ (Vpc[i] = vpc /\ token \in {list[i], Cidr[i]})}

\* Is every token a subnet of the VPC?
SubnetsValid(service, list, candidates, vpc) ==
  \A t \in ToSet(service.subnets) :
    LET found == Matching(list, candidates, vpc, t)
    IN  found # {} /\ \A i \in found : Vpc[i] = vpc

\* The subnets of all tokens, each of them once.
validateServiceSubnets(service, list, candidates, vpc) ==
  UNION {Matching(list, candidates, vpc, t) : t \in ToSet(service.subnets)}

\* Mutant: all subnets of the cluster when there is one in the zone.
MutantServiceZone(service, clusterSubnets) ==
  IF \E i \in clusterSubnets : SubnetZone[i] = service.zone THEN clusterSubnets ELSE {}

validateServiceZone(service, clusterSubnets) ==
  {i \in clusterSubnets : SubnetZone[i] = service.zone}

\* The subnets for a new load balancer; none if the service is refused.
SubnetsForNew(service, list) ==
  LET vpcSubnets     == filterSubnetsByVpcName(list)
      clusterSubnets == filterSubnetsByName(list, vpcSubnets)
      vpc            == Vpc[CHOOSE i \in clusterSubnets : TRUE]
  IN  CASE clusterSubnets = {}     -> {}
        [] clusterSubnets # {} /\ service.subnets # <<>> ->
             IF SubnetsValid(service, list, vpcSubnets, vpc)
             THEN validateServiceSubnets(service, list, vpcSubnets, vpc)
             ELSE {}
        [] clusterSubnets # {} /\ service.subnets = <<>> /\ service.zone # "" ->
             validateServiceZone(service, clusterSubnets)
        [] OTHER                   -> clusterSubnets

\* The VPC of the first subnet of the load balancer that is in the list.
getVpcID(l, list) ==
  IF l.subnets \cap Listed(list) = {} THEN ""
  ELSE Vpc[CHOOSE i \in l.subnets \cap Listed(list) : TRUE]

\* Mutant: some of the subnets will do.
MutantSubnetsNotUpdated(service, l, list) ==
  service.subnets # <<>> =>
    /\ SubnetsValid(service, list, Listed(list), getVpcID(l, list))
    /\ validateServiceSubnets(service, list, Listed(list), getVpcID(l, list)) \subseteq l.subnets

\* The subnets of the annotation are those of the load balancer.
validateServiceSubnetsNotUpdated(service, l, list) ==
  service.subnets # <<>> =>
    /\ SubnetsValid(service, list, Listed(list), getVpcID(l, list))
    /\ validateServiceSubnets(service, list, Listed(list), getVpcID(l, list)) = l.subnets

validateServiceTypeNotUpdated(service, l) == service.public = l.public

Lb == [exists : BOOLEAN, public : BOOLEAN, subnets : SUBSET SubnetIds,
       members : SUBSET Nodes, of : Services]

-----------------------------------------------------------------------------
(* Users. *)

Idle == [pc |-> "idle", svc |-> NoLb.of, nodes |-> [n \in {} |-> n], lb |-> NoLb,
         list |-> [i \in SubnetIds |-> "none"], why |-> "", subnets |-> {}, members |-> {}]

\* The subnets of an account, with different names in each VPC.
Init ==
  /\ svc \in Services
  /\ nodes = [n \in Nodes |-> [labels |-> NodeLabels[n], schedulable |-> TRUE, ready |-> TRUE]]
  /\ subnets \in [SubnetIds -> SubnetNames \cup {"none"}]
  /\ Distinct(subnets)
  /\ lb = NoLb
  /\ made = [svc |-> NoLb.of, list |-> Idle.list]
  /\ job = Idle
  /\ due = TRUE
  /\ edits = 0
  /\ faults = 0

Edit  == edits < MaxEdits /\ edits' = edits + 1 /\ UNCHANGED faults
Fault == faults < MaxFaults /\ faults' = faults + 1 /\ UNCHANGED edits

EditService ==
  /\ Edit
  /\ \E s \in Services \ {svc} : svc' = s
  /\ due' = TRUE
  /\ UNCHANGED <<nodes, subnets, lb, made, job>>

\* A node is cordoned or not, becomes ready or not, or changes its use.
EditNode(n) ==
  /\ Edit
  /\ \/ nodes' = [nodes EXCEPT ![n].schedulable = ~@]
     \/ nodes' = [nodes EXCEPT ![n].ready = ~@]
     \/ nodes' = [nodes EXCEPT ![n].labels["dedicated"] = IF @ = "edge" THEN "" ELSE "edge"]
  /\ due' = TRUE
  /\ UNCHANGED <<svc, subnets, lb, made, job>>

\* A subnet is created or gets another name, one not yet used in its VPC.
NameSubnet(i) ==
  /\ Edit
  /\ subnets[i] # "deleted"
  /\ \E n \in SubnetNames :
       /\ \A j \in SubnetIds : Vpc[j] = Vpc[i] => subnets[j] # n
       /\ subnets' = [subnets EXCEPT ![i] = n]
  /\ UNCHANGED <<svc, nodes, lb, made, job, due>>

\* The API refuses to delete a subnet that a load balancer is attached to.
DeleteSubnet(i) ==
  /\ Edit
  /\ i \in Listed(subnets)
  /\ i \notin lb.subnets
  /\ subnets' = [subnets EXCEPT ![i] = "deleted"]
  /\ UNCHANGED <<svc, nodes, lb, made, job, due>>

-----------------------------------------------------------------------------
(* A call for the service. *)

\* The caller reads the service and the nodes.
ReadKube ==
  /\ job.pc = "idle"
  /\ due
  /\ svc.wanted
  /\ job' = [Idle EXCEPT !.pc = "find", !.svc = svc, !.nodes = getKubeNodes]
  /\ due' = FALSE
  /\ UNCHANGED <<svc, nodes, subnets, lb, made, edits, faults>>

\* Without a load balancer one is created, else it is updated.
FindLoadBalancer ==
  /\ job.pc = "find"
  /\ job' = [job EXCEPT !.pc = IF lb.exists THEN "update" ELSE "create", !.lb = lb]
  /\ UNCHANGED <<svc, nodes, subnets, lb, made, due, edits, faults>>

\* The run ends with an error and is tried again.
Refuse(why) == job' = [job EXCEPT !.pc = "refused", !.why = why, !.list = subnets]

\* Mutant: without the check.
MutantProceed(chosen) ==
  job' = [job EXCEPT !.pc = "request", !.list = subnets, !.subnets = chosen,
                     !.members = FilterNodes(job.nodes, job.svc)]

\* The nodes are chosen, and there must be one.
Proceed(chosen) ==
  LET members == FilterNodes(job.nodes, job.svc)
  IN  IF members = {} THEN Refuse("nodes")
      ELSE job' = [job EXCEPT !.pc = "request", !.list = subnets, !.subnets = chosen,
                              !.members = members]

\* Subnets are listed, the service is validated, and subnets and nodes chosen.
CreateLoadBalancer ==
  /\ job.pc = "create"
  /\ IF ~job.svc.tcp THEN Refuse("protocol")
     ELSE IF SubnetsForNew(job.svc, subnets) = {} THEN Refuse("subnets")
     ELSE Proceed(SubnetsForNew(job.svc, subnets))
  /\ UNCHANGED <<svc, nodes, subnets, lb, made, due, edits, faults>>

UpdateLoadBalancer ==
  /\ job.pc = "update"
  /\ IF ~job.svc.tcp THEN Refuse("protocol")
     ELSE IF ~validateServiceTypeNotUpdated(job.svc, job.lb) THEN Refuse("type")
     ELSE IF ~validateServiceSubnetsNotUpdated(job.svc, job.lb, subnets) THEN Refuse("subnets")
     ELSE Proceed(job.lb.subnets)
  /\ UNCHANGED <<svc, nodes, subnets, lb, made, due, edits, faults>>

\* The API wants subnets that there are, all in one VPC.
Accepts(ids) == ids \subseteq Listed(subnets) /\ \A i, j \in ids : Vpc[i] = Vpc[j]

\* The requests for the new load balancer, or for the members of the old one.
Request ==
  /\ job.pc = "request"
  /\ Accepts(job.subnets)
  /\ lb' = [exists |-> TRUE, subnets |-> job.subnets, members |-> job.members, of |-> job.svc,
            public |-> IF job.lb.exists THEN lb.public ELSE job.svc.public]
  /\ made' = IF job.lb.exists THEN made ELSE [svc |-> job.svc, list |-> job.list]
  /\ job' = Idle
  /\ UNCHANGED <<svc, nodes, subnets, due, edits, faults>>

Rejected ==
  /\ job.pc = "request"
  /\ ~Accepts(job.subnets)
  /\ Refuse("api")
  /\ UNCHANGED <<svc, nodes, subnets, lb, made, due, edits, faults>>

\* A call fails or is not answered.
Fail ==
  /\ job.pc \in {"find", "create", "update", "request"}
  /\ Fault
  /\ Refuse("failed")
  /\ UNCHANGED <<svc, nodes, subnets, lb, made, due>>

\* The error is reported; the service controller will call again.
Retry ==
  /\ job.pc = "refused"
  /\ job' = Idle
  /\ due' = TRUE
  /\ UNCHANGED <<svc, nodes, subnets, lb, made, edits, faults>>

\* delete-lb, for a service that is gone; see LbLifecycle.
DeleteLoadBalancer ==
  /\ job.pc = "idle"
  /\ ~svc.wanted
  /\ lb.exists
  /\ lb' = NoLb
  /\ made' = [svc |-> NoLb.of, list |-> Idle.list]
  /\ UNCHANGED <<svc, nodes, subnets, job, due, edits, faults>>

Run ==
  \/ ReadKube
  \/ FindLoadBalancer
  \/ CreateLoadBalancer
  \/ UpdateLoadBalancer
  \/ Request
  \/ Rejected
  \/ Retry
  \/ DeleteLoadBalancer

Next ==
  \/ EditService
  \/ \E n \in Nodes : EditNode(n)
  \/ \E i \in SubnetIds : NameSubnet(i) \/ DeleteSubnet(i)
  \/ Fail
  \/ Run

Spec == Init /\ [][Next]_vars

\* A started call goes on, and the service controller calls until one succeeds.
FairSpec == Spec /\ WF_vars(Run)

-----------------------------------------------------------------------------
(* Properties. *)

\* A request always has subnets and nodes.
TypeOK ==
  /\ svc \in Services
  /\ nodes \in [Nodes -> [labels : [Labels -> LabelValues], schedulable : BOOLEAN, ready : BOOLEAN]]
  /\ subnets \in ListType
  /\ lb \in Lb
  /\ made \in [svc : Services, list : ListType]
  /\ job.pc \in {"idle", "find", "create", "update", "request", "refused"}
  /\ job = [pc |-> job.pc, svc |-> job.svc, nodes |-> job.nodes, lb |-> job.lb,
            list |-> job.list, why |-> job.why, subnets |-> job.subnets,
            members |-> job.members]
  /\ job.svc \in Services
  /\ DOMAIN job.nodes \subseteq Nodes
  /\ job.nodes \in [DOMAIN job.nodes -> [Labels -> LabelValues]]
  /\ job.lb \in Lb
  /\ job.list \in ListType
  /\ job.subnets \subseteq SubnetIds
  /\ job.members \subseteq Nodes
  /\ job.pc = "request" => job.subnets # {} /\ job.members # {}
  /\ due \in BOOLEAN
  /\ edits \in 0..MaxEdits
  /\ faults \in 0..MaxFaults

\* A load balancer is in the VPC of the cluster, on subnets that exist, whatever
\* subnets of other VPCs have the same names and address blocks.
AtHome ==
  lb.exists => /\ lb.subnets # {}
               /\ \A i \in lb.subnets : i \in Listed(subnets) /\ Vpc[i] = VpcName

\* Once created, a load balancer is not refused its updates: no update is refused
\* for protocol, type or subnets while the service asks for the same as when it
\* was created and its own subnets still have their names, whatever else happens
\* to the subnets of the account.
UntouchedNotRefused ==
  job.pc = "refused" /\ job.lb.exists =>
    \/ job.svc.subnets # made.svc.subnets \/ job.svc.public # made.svc.public \/ ~job.svc.tcp
    \/ \E i \in job.lb.subnets : job.list[i] # made.list[i]
    \/ job.why \notin {"protocol", "type", "subnets"}

\* What the annotation means: the subnets of the cluster's VPC that one of its
\* tokens names by identifier, name or address block.
Meant(service, list) ==
  {i \in filterSubnetsByVpcName(list) : {i, list[i], Cidr[i]} \cap ToSet(service.subnets) # {}}

AllMeant(service, list) ==
  \A t \in ToSet(service.subnets) :
    \E i \in filterSubnetsByVpcName(list) : t \in {i, list[i], Cidr[i]}

\* An update goes ahead only if the load balancer is on the subnets that the
\* annotation means by now: not more, not fewer, each token one of them.
ChangedIsRefused ==
  job.pc = "request" /\ job.lb.exists /\ job.svc.subnets # <<>> =>
    AllMeant(job.svc, job.list) /\ Meant(job.svc, job.list) = lb.subnets

\* Nodes that the service can use, edge or not.
Fitting(list, service) ==
  {n \in DOMAIN list :
     IF HasSelector(service)
     THEN service.selector[1] \in Labels /\ list[n][service.selector[1]] = service.selector[2]
     ELSE service.zone \in {"", list[n]["zone"]}}

\* A call is refused for want of nodes only if no node fits: edge nodes of other
\* zones, or that the selector excludes, do not starve a service.
NotStarved ==
  job.pc = "refused" /\ job.why = "nodes" => Fitting(job.nodes, job.svc) = {}

\* While a service keeps the zone its load balancer was created for, the load
\* balancer and the nodes it sends to are in that zone together.
ZoneTogether ==
  LET zone == made.svc.zone IN
  /\ lb.exists /\ zone # "" /\ made.svc.subnets = <<>>
  /\ lb.of.zone = zone /\ ~HasSelector(lb.of)
  => /\ \A i \in lb.subnets : SubnetZone[i] = zone
     /\ \A n \in lb.members : nodes[n].labels["zone"] = zone

\* Can the service as it is have its load balancer?
Servable ==
  /\ svc.tcp
  /\ Fitting(getKubeNodes, svc) # {}
  /\ AllMeant(svc, subnets)
  /\ IF lb.exists
     THEN svc.public = lb.public /\ (svc.subnets = <<>> \/ Meant(svc, subnets) = lb.subnets)
     ELSE SubnetsForNew(svc, subnets) # {}

\* When edits stop, a service that can have its load balancer has one, with the
\* nodes it is due, and a service that is gone has none.
EventuallyPlaced ==
  <>[](IF ~svc.wanted THEN ~lb.exists
       ELSE Servable => lb.exists /\ lb.members = FilterNodes(getKubeNodes, svc))
=============================================================================
