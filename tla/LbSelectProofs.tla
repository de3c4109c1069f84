--------------------------- MODULE LbSelectProofs ---------------------------
(***************************************************************************)
(* What subnets and nodes a load balancer is given, for every account,     *)
(* cluster and set of annotations.  The invariant keeps, beside the types, *)
(* what the load balancer was created from: that is what an update, which  *)
(* looks up the same annotation in another list and in a VPC found by      *)
(* other means, is compared with.                                          *)
(***************************************************************************)
EXTENDS LbSelect, TLAPS

ZonesFixed ==
  /\ \A n \in Nodes : nodes[n].labels["zone"] = NodeLabels[n]["zone"]
  /\ \A n \in DOMAIN job.nodes : job.nodes[n]["zone"] = NodeLabels[n]["zone"]

\* What a new load balancer has from the service and the list it is made from.
MadeFrom(ids, service, list) ==
  /\ \A i \in ids : Vpc[i] = VpcName
  /\ service.subnets # <<>> => AllMeant(service, list) /\ Meant(service, list) = ids
  /\ service.subnets = <<>> /\ service.zone # "" =>
       \A i \in ids : SubnetZone[i] = service.zone

\* The nodes of a service that names a zone and has no selector.
InZone(members, service) ==
  service.zone # "" /\ ~HasSelector(service) =>
    \A n \in members : NodeLabels[n]["zone"] = service.zone

MadeOK ==
  lb.exists => /\ lb.public = made.svc.public
               /\ MadeFrom(lb.subnets, made.svc, made.list)
               /\ InZone(lb.members, lb.of)

JobOK ==
  /\ job.lb.exists => job.lb = lb /\ job.pc # "idle"
  /\ job.pc = "update" => job.lb.exists
  /\ job.pc = "create" => ~job.lb.exists
  /\ job.pc = "request" =>
       /\ InZone(job.members, job.svc)
       /\ job.lb.exists => job.subnets = lb.subnets
       /\ ~job.lb.exists => MadeFrom(job.subnets, job.svc, job.list)

IInv ==
  /\ TypeOK
  /\ Distinct(subnets)
  /\ ZonesFixed
  /\ AtHome
  /\ MadeOK
  /\ JobOK
  /\ UntouchedNotRefused
  /\ ChangedIsRefused
  /\ NotStarved

-----------------------------------------------------------------------------
(* Tokens and nodes. *)

LEMMA ListedType == ASSUME NEW list PROVE Listed(list) \subseteq SubnetIds
  BY DEF Listed

\* What names a subnet of the list.
Tokens(list, i) == {i, list[i], Cidr[i]}

\* A token names one subnet of a VPC at most.
LEMMA OneSubnet ==
  ASSUME NEW list, Distinct(list), NEW i \in Listed(list), NEW j \in Listed(list),
         Vpc[i] = Vpc[j], NEW t, t \in Tokens(list, i), t \in Tokens(list, j)
  PROVE  i = j
<1>1. /\ i \in SubnetIds /\ j \in SubnetIds
      /\ list[i] \in SubnetNames /\ list[j] \in SubnetNames
  BY DEF Listed
<1>2. /\ list[i] # j /\ list[j] # i /\ list[i] # Cidr[j] /\ list[j] # Cidr[i]
      /\ Cidr[i] # j /\ Cidr[j] # i
  BY <1>1, SubnetsAssumption
<1>3. CASE t = i
  BY <1>2, <1>3 DEF Tokens
<1>4. CASE t = list[i]
  BY <1>2, <1>4 DEF Distinct, Tokens
<1>5. CASE t = Cidr[i]
  BY <1>1, <1>2, <1>5, SubnetsAssumption DEF Tokens
<1> QED
  BY <1>3, <1>4, <1>5 DEF Tokens

\* The identifier of a subnet of another VPC stands for no subnet of this one.
LEMMA NoOtherSubnet ==
  ASSUME NEW list, NEW i \in Listed(list), NEW j \in SubnetIds, j \in {i, list[i], Cidr[i]}
  PROVE  i = j
  BY SubnetsAssumption DEF Listed

\* A valid annotation means what it is looked up to be.
LEMMA ValidMeans ==
  ASSUME NEW service, NEW list, NEW candidates,
         filterSubnetsByVpcName(list) \subseteq candidates, candidates \subseteq Listed(list),
         SubnetsValid(service, list, candidates, VpcName)
  PROVE  /\ AllMeant(service, list)
         /\ validateServiceSubnets(service, list, candidates, VpcName) = Meant(service, list)
<1> DEFINE Found(t) == Matching(list, candidates, VpcName, t)
<1>1. \A t \in ToSet(service.subnets) :
        Found(t) # {} /\ \A i \in Found(t) : Vpc[i] = VpcName
  BY DEF SubnetsValid
<1>2. \A t, i : i \in Found(t) <=>
        i \in candidates /\ (t = i \/ (Vpc[i] = VpcName /\ t \in {list[i], Cidr[i]}))
  BY DEF Matching
<1>3. \A i : i \in filterSubnetsByVpcName(list) <=> i \in candidates /\ Vpc[i] = VpcName
  BY DEF filterSubnetsByVpcName
<1> HIDE DEF Found
<1>4. AllMeant(service, list)
  BY <1>1, <1>2, <1>3 DEF AllMeant
<1>5. \A i : i \in Meant(service, list) <=> \E t \in ToSet(service.subnets) : i \in Found(t)
  BY <1>1, <1>2, <1>3 DEF Meant
<1>6. validateServiceSubnets(service, list, candidates, VpcName)
        = UNION {Found(t) : t \in ToSet(service.subnets)}
  BY DEF validateServiceSubnets, Found
<1> QED
  BY <1>4, <1>5, <1>6

\* The subnets of a new load balancer.
LEMMA NewSubnets ==
  ASSUME NEW service, NEW list, SubnetsForNew(service, list) # {}
  PROVE  /\ SubnetsForNew(service, list) \subseteq SubnetIds
         /\ MadeFrom(SubnetsForNew(service, list), service, list)
<1> DEFINE vpcSubnets == filterSubnetsByVpcName(list)
           clusterSubnets == filterSubnetsByName(list, vpcSubnets)
           vpc == Vpc[CHOOSE i \in clusterSubnets : TRUE]
           new == SubnetsForNew(service, list)
<1>1. /\ \A i \in vpcSubnets : i \in Listed(list) /\ i \in SubnetIds /\ Vpc[i] = VpcName
      /\ clusterSubnets \subseteq vpcSubnets
  BY DEF filterSubnetsByVpcName, filterSubnetsByName, Listed
<1>2. clusterSubnets # {}
  BY DEF SubnetsForNew
<1>3. vpc = VpcName
  BY <1>1, <1>2
<1>4. CASE service.subnets # <<>>
  <2>1. SubnetsValid(service, list, vpcSubnets, vpc)
        /\ new = validateServiceSubnets(service, list, vpcSubnets, vpc)
    BY <1>2, <1>4 DEF SubnetsForNew
  <2>2. AllMeant(service, list) /\ new = Meant(service, list)
    BY <1>1, <1>3, <2>1, ValidMeans
  <2>3. Meant(service, list) \subseteq vpcSubnets
    BY DEF Meant
  <2> QED
    BY <1>1, <1>4, <2>2, <2>3 DEF MadeFrom
<1>5. CASE service.subnets = <<>> /\ service.zone # ""
  <2>1. new = validateServiceZone(service, clusterSubnets)
    BY <1>2, <1>5 DEF SubnetsForNew
  <2> QED
    BY <1>1, <1>5, <2>1 DEF MadeFrom, validateServiceZone
<1>6. CASE service.subnets = <<>> /\ service.zone = ""
  <2>1. new = clusterSubnets
    BY <1>2, <1>6 DEF SubnetsForNew
  <2> QED
    BY <1>1, <1>6, <2>1 DEF MadeFrom
<1> QED
  BY <1>4, <1>5, <1>6

\* The nodes chosen for a service.
LEMMA ChosenNodes ==
  ASSUME NEW service, NEW list, list \in [DOMAIN list -> [Labels -> LabelValues]]
  PROVE  /\ FilterNodes(list, service) \subseteq DOMAIN list
         /\ service.zone # "" /\ ~HasSelector(service) =>
              \A n \in FilterNodes(list, service) : list[n]["zone"] = service.zone
         /\ FilterNodes(list, service) = {} => Fitting(list, service) = {}
<1>1. \A n \in DOMAIN list : DOMAIN list[n] = Labels
  OBVIOUS
<1>2. "zone" \in Labels
  BY DEF Labels
<1>3. CASE HasSelector(service)
  BY <1>1, <1>3 DEF FilterNodes, findNodesMatchingLabelValue, Fitting
<1>4. CASE ~HasSelector(service)
  <2> DEFINE zone == filterNodesByServiceZone(list, service)
  <2>1. /\ zone \subseteq DOMAIN list
        /\ service.zone # "" => \A n \in zone : list[n]["zone"] = service.zone
        /\ \A n \in Fitting(list, service) : n \in zone
    BY <1>1, <1>2, <1>4 DEF filterNodesByServiceZone, findNodesMatchingLabelValue, Fitting
  <2>2. /\ FilterNodes(list, service) \subseteq zone
        /\ FilterNodes(list, service) = {} => zone = {}
    BY <1>4 DEF FilterNodes, filterNodesByEdgeLabel
  <2> QED
    BY <1>4, <2>1, <2>2
<1> QED
  BY <1>3, <1>4

-----------------------------------------------------------------------------
(* Steps. *)

\* An update of a service that asks for what the load balancer was created with
\* finds the same subnets again.
LEMMA UntouchedFound ==
  ASSUME NEW list \in ListType, Distinct(list), NEW ids, ids # {},
         \A i \in ids : i \in Listed(list) /\ Vpc[i] = VpcName,
         NEW service, NEW old, NEW before, old.subnets = service.subnets,
         service.subnets # <<>>, MadeFrom(ids, old, before),
         \A i \in ids : list[i] = before[i]
  PROVE  /\ SubnetsValid(service, list, Listed(list), VpcName)
         /\ validateServiceSubnets(service, list, Listed(list), VpcName) = ids
<1> DEFINE Found(t) == Matching(list, Listed(list), VpcName, t)
           tokens == ToSet(service.subnets)
<1>1. \A t \in tokens : \E i \in ids : t \in {i, list[i], Cidr[i]}
  <2>1. AllMeant(old, before) /\ Meant(old, before) = ids
    BY DEF MadeFrom
  <2> TAKE t \in tokens
  <2>2. PICK i \in filterSubnetsByVpcName(before) : t \in {i, before[i], Cidr[i]}
    BY <2>1 DEF AllMeant
  <2>3. i \in Meant(old, before)
    BY <2>2 DEF Meant
  <2> QED
    BY <2>1, <2>2, <2>3
<1>2. \A i \in ids : \E t \in tokens : t \in {i, list[i], Cidr[i]}
  <2> TAKE i \in ids
  <2>1. i \in Meant(old, before)
    BY DEF MadeFrom
  <2>2. {i, before[i], Cidr[i]} \cap tokens # {}
    BY <2>1 DEF Meant
  <2> QED
    BY <2>2
<1>3. \A t, i : i \in Found(t) <=>
        i \in Listed(list) /\ (t = i \/ (Vpc[i] = VpcName /\ t \in {list[i], Cidr[i]}))
  BY DEF Matching
<1>4. ASSUME NEW t \in tokens, NEW i \in ids, t \in {i, list[i], Cidr[i]}
      PROVE  Found(t) = {i}
  <2>1. i \in Found(t)
    BY <1>3, <1>4
  <2>2. ASSUME NEW j \in Found(t) PROVE j = i
    <3>1. j \in Listed(list)
      BY <1>3
    <3>2. CASE Vpc[j] = VpcName
      <4>1. t \in Tokens(list, j) /\ Vpc[i] = Vpc[j]
        BY <1>3, <3>2 DEF Tokens
      <4>2. i \in Listed(list) /\ t \in Tokens(list, i)
        BY <1>4 DEF Tokens
      <4> QED
        BY <3>1, <4>1, <4>2, OneSubnet
    <3>3. CASE Vpc[j] # VpcName
      <4>1. j = t /\ j \in SubnetIds
        BY <1>3, <3>1, <3>3, ListedType
      <4> QED
        BY <1>4, <4>1, NoOtherSubnet
    <3> QED
      BY <3>2, <3>3
  <2> QED
    BY <2>1, <2>2
<1>5. SubnetsValid(service, list, Listed(list), VpcName)
  <2> SUFFICES ASSUME NEW t \in tokens
               PROVE  Found(t) # {} /\ \A i \in Found(t) : Vpc[i] = VpcName
    BY DEF SubnetsValid
  <2>1. PICK i \in ids : t \in {i, list[i], Cidr[i]}
    BY <1>1
  <2>2. Found(t) = {i}
    BY <1>4, <2>1
  <2> QED
    BY <2>2
<1> HIDE DEF Found
<1>6. UNION {Found(t) : t \in tokens} = ids
  BY <1>1, <1>2, <1>4
<1> QED
  BY <1>5, <1>6 DEF validateServiceSubnets, Found

LEMMA HomeVpc ==
  ASSUME AtHome, lb.exists PROVE getVpcID(lb, subnets) = VpcName
<1>1. lb.subnets \cap Listed(subnets) # {}
  BY DEF AtHome
<1>2. \A i \in lb.subnets \cap Listed(subnets) : Vpc[i] = VpcName
  BY DEF AtHome
<1> QED
  BY <1>1, <1>2 DEF getVpcID

LEMMA NoLbOK == ASSUME NEW s \in Services PROVE NoLb \in Lb /\ NoLb.exists = FALSE /\ NoLb.of \in Services
<1>1. (CHOOSE x \in Services : TRUE) \in Services
  OBVIOUS
<1> QED
  BY <1>1 DEF NoLb, Lb

LEMMA IdleOK ==
  ASSUME svc \in Services, job' = Idle
  PROVE  /\ job' = [pc |-> job'.pc, svc |-> job'.svc, nodes |-> job'.nodes, lb |-> job'.lb,
                    list |-> job'.list, why |-> job'.why, subnets |-> job'.subnets,
                    members |-> job'.members]
         /\ job'.pc = "idle" /\ job'.svc \in Services /\ DOMAIN job'.nodes = {}
         /\ job'.nodes \in [DOMAIN job'.nodes -> [Labels -> LabelValues]]
         /\ job'.lb \in Lb /\ job'.lb.exists = FALSE /\ job'.list \in ListType
         /\ job'.subnets = {} /\ job'.members = {}
  BY NoLbOK DEF Idle, ListType

LEMMA SelectInit == Init => IInv
<1> SUFFICES ASSUME Init PROVE IInv
  OBVIOUS
<1>1. /\ svc \in Services /\ subnets \in ListType /\ due \in BOOLEAN /\ Distinct(subnets)
  BY DEF Init, ListType
<1>2. /\ nodes \in [Nodes -> [labels : [Labels -> LabelValues], schedulable : BOOLEAN, ready : BOOLEAN]]
      /\ \A n \in Nodes : nodes[n].labels["zone"] = NodeLabels[n]["zone"]
  BY NodesAssumption DEF Init
<1>3. lb \in Lb /\ lb.exists = FALSE /\ made.svc \in Services
      /\ made = [svc |-> made.svc, list |-> made.list] /\ made.list \in ListType
  BY <1>1, NoLbOK DEF Init, Idle, ListType
<1>4. /\ job = [pc |-> job.pc, svc |-> job.svc, nodes |-> job.nodes, lb |-> job.lb,
                list |-> job.list, why |-> job.why, subnets |-> job.subnets,
                members |-> job.members]
      /\ job.pc = "idle" /\ job.svc \in Services /\ DOMAIN job.nodes = {}
      /\ job.nodes \in [DOMAIN job.nodes -> [Labels -> LabelValues]]
      /\ job.lb \in Lb /\ job.lb.exists = FALSE /\ job.list \in ListType
      /\ job.subnets = {} /\ job.members = {}
  BY <1>1, NoLbOK DEF Init, Idle, ListType
<1>5. edits \in 0..MaxEdits /\ faults \in 0..MaxFaults
  BY SelectAssumption DEF Init
<1>6. TypeOK
  BY <1>1, <1>2, <1>3, <1>4, <1>5 DEF TypeOK
<1> QED
  BY <1>1, <1>2, <1>3, <1>4, <1>6 DEF IInv, ZonesFixed, AtHome, MadeOK, JobOK,
     UntouchedNotRefused, ChangedIsRefused, NotStarved

-----------------------------------------------------------------------------
(* Users. *)

JobProps == MadeOK /\ JobOK /\ UntouchedNotRefused /\ ChangedIsRefused /\ NotStarved

LEMMA QuietKept == ASSUME JobProps, UNCHANGED <<lb, made, job>> PROVE JobProps'
  BY DEF JobProps, MadeOK, JobOK, UntouchedNotRefused, ChangedIsRefused, NotStarved

LEMMA EditBound ==
  ASSUME edits \in 0..MaxEdits, faults \in 0..MaxFaults, Edit \/ Fault
  PROVE  edits' \in 0..MaxEdits /\ faults' \in 0..MaxFaults
  BY SelectAssumption DEF Edit, Fault

LEMMA EditServiceOK == ASSUME IInv, EditService PROVE IInv'
<1>1. /\ svc' \in Services /\ due' \in BOOLEAN /\ Edit
      /\ UNCHANGED <<nodes, subnets, lb, made, job>>
  BY DEF EditService
<1>2. TypeOK'
  BY <1>1, EditBound DEF IInv, TypeOK
<1>3. Distinct(subnets)' /\ ZonesFixed' /\ AtHome'
  BY <1>1 DEF IInv, Distinct, Listed, ZonesFixed, AtHome
<1>4. JobProps'
  BY <1>1, QuietKept DEF IInv, JobProps
<1> QED
  BY <1>2, <1>3, <1>4 DEF IInv, JobProps

LEMMA EditNodeOK == ASSUME IInv, NEW n \in Nodes, EditNode(n) PROVE IInv'
<1> DEFINE State == [labels : [Labels -> LabelValues], schedulable : BOOLEAN, ready : BOOLEAN]
<1>1. /\ due' \in BOOLEAN /\ Edit /\ UNCHANGED <<svc, subnets, lb, made, job>>
      /\ nodes \in [Nodes -> State]
      /\ \A m \in Nodes : nodes[m].labels["zone"] = NodeLabels[m]["zone"]
  BY DEF EditNode, IInv, TypeOK, ZonesFixed
<1>2. PICK state : /\ nodes' = [nodes EXCEPT ![n] = state]
                   /\ state \in State /\ state.labels["zone"] = nodes[n].labels["zone"]
  <2>1. nodes[n] \in State
    BY <1>1
  <2>2. CASE nodes' = [nodes EXCEPT ![n].schedulable = ~@]
    <3> DEFINE state == [nodes[n] EXCEPT !.schedulable = ~@]
    <3>1. state \in State /\ state.labels["zone"] = nodes[n].labels["zone"]
      BY <2>1
    <3> QED
      BY <2>2, <3>1
  <2>3. CASE nodes' = [nodes EXCEPT ![n].ready = ~@]
    <3> DEFINE state == [nodes[n] EXCEPT !.ready = ~@]
    <3>1. state \in State /\ state.labels["zone"] = nodes[n].labels["zone"]
      BY <2>1
    <3> QED
      BY <2>3, <3>1
  <2>4. CASE nodes' = [nodes EXCEPT ![n].labels["dedicated"] = IF @ = "edge" THEN "" ELSE "edge"]
    <3> DEFINE labels == [nodes[n].labels EXCEPT !["dedicated"] = IF @ = "edge" THEN "" ELSE "edge"]
               state  == [nodes[n] EXCEPT !.labels = labels]
    <3>1. labels \in [Labels -> LabelValues] /\ labels["zone"] = nodes[n].labels["zone"]
      <4>1. nodes[n].labels \in [Labels -> LabelValues] /\ "zone" \in Labels
        BY <2>1 DEF Labels
      <4>2. (IF nodes[n].labels["dedicated"] = "edge" THEN "" ELSE "edge") \in LabelValues
        BY NodesAssumption
      <4>3. "zone" # "dedicated"
        OBVIOUS
      <4> QED
        BY <4>1, <4>2, <4>3
    <3>2. state \in State /\ state.labels = labels
      BY <2>1, <3>1
    <3>3. nodes' = [nodes EXCEPT ![n] = state]
      BY <2>4
    <3> QED
      BY <3>1, <3>2, <3>3
  <2> QED
    BY <2>2, <2>3, <2>4 DEF EditNode
<1>3. nodes' \in [Nodes -> State] /\ \A m \in Nodes : nodes'[m].labels["zone"] = NodeLabels[m]["zone"]
  BY <1>1, <1>2
<1>4. TypeOK'
  BY <1>1, <1>3, EditBound DEF IInv, TypeOK
<1>5. Distinct(subnets)' /\ ZonesFixed' /\ AtHome'
  BY <1>1, <1>3 DEF IInv, Distinct, Listed, ZonesFixed, AtHome
<1>6. JobProps'
  BY <1>1, QuietKept DEF IInv, JobProps
<1> QED
  BY <1>4, <1>5, <1>6 DEF IInv, JobProps

\* A subnet gets another name, or none when it is deleted.
LEMMA SubnetOK ==
  ASSUME IInv, Edit, UNCHANGED <<svc, nodes, lb, made, job, due>>, NEW i \in SubnetIds,
         NEW name \in SubnetNames \cup {"deleted"}, subnets' = [subnets EXCEPT ![i] = name],
         name \in SubnetNames => \A j \in SubnetIds : Vpc[j] = Vpc[i] => subnets[j] # name,
         name = "deleted" => i \notin lb.subnets
  PROVE  IInv'
<1>1. subnets \in ListType
  BY DEF IInv, TypeOK
<1>2. subnets' \in ListType
  BY <1>1 DEF ListType
<1>3. /\ subnets'[i] = name
      /\ \A j \in SubnetIds : j # i => subnets'[j] = subnets[j]
  BY <1>1 DEF ListType
<1>4. TypeOK'
  BY <1>2, EditBound DEF IInv, TypeOK
<1>5. Distinct(subnets)'
  BY <1>3 DEF IInv, Distinct, Listed
<1>6. AtHome'
  BY <1>3 DEF IInv, AtHome, Listed
<1>7. ZonesFixed'
  BY DEF IInv, ZonesFixed
<1>8. JobProps'
  BY QuietKept DEF IInv, JobProps
<1> QED
  BY <1>4, <1>5, <1>6, <1>7, <1>8 DEF IInv, JobProps

LEMMA NameSubnetOK == ASSUME IInv, NEW i \in SubnetIds, NameSubnet(i) PROVE IInv'
<1>1. PICK n \in SubnetNames :
        /\ \A j \in SubnetIds : Vpc[j] = Vpc[i] => subnets[j] # n
        /\ subnets' = [subnets EXCEPT ![i] = n]
  BY DEF NameSubnet
<1>2. Edit /\ UNCHANGED <<svc, nodes, lb, made, job, due>> /\ n # "deleted"
  BY SubnetsAssumption DEF NameSubnet
<1> QED
  BY <1>1, <1>2, SubnetOK

LEMMA DeleteSubnetOK == ASSUME IInv, NEW i \in SubnetIds, DeleteSubnet(i) PROVE IInv'
<1>1. /\ Edit /\ UNCHANGED <<svc, nodes, lb, made, job, due>>
      /\ i \notin lb.subnets /\ subnets' = [subnets EXCEPT ![i] = "deleted"]
  BY DEF DeleteSubnet
<1>2. "deleted" \notin SubnetNames
  BY SubnetsAssumption
<1>3. PICK name : name = "deleted"
  OBVIOUS
<1>4. /\ name \in SubnetNames \cup {"deleted"} /\ subnets' = [subnets EXCEPT ![i] = name]
      /\ name \in SubnetNames => \A j \in SubnetIds : Vpc[j] = Vpc[i] => subnets[j] # name
      /\ name = "deleted" => i \notin lb.subnets
  BY <1>1, <1>2, <1>3
<1> QED
  BY <1>1, <1>4, SubnetOK

-----------------------------------------------------------------------------
(* Runs. *)

\* Steps of a run that leave the services, nodes, subnets and the load balancer
\* as they are keep everything but what concerns the run.
RunTypeOK ==
  /\ job.pc \in {"idle", "find", "create", "update", "request", "refused"}
  /\ job = [pc |-> job.pc, svc |-> job.svc, nodes |-> job.nodes, lb |-> job.lb,
            list |-> job.list, why |-> job.why, subnets |-> job.subnets,
            members |-> job.members]
  /\ job.svc \in Services
  /\ DOMAIN job.nodes \subseteq Nodes
  /\ job.nodes \in [DOMAIN job.nodes -> [Labels -> LabelValues]]
  /\ job.lb \in Lb
  /\ job.list \in ListType
  /\ job.subnets \subseteq SubnetIds
  /\ job.members \subseteq Nodes
  /\ job.pc = "request" => job.subnets # {} /\ job.members # {}
  /\ \A n \in DOMAIN job.nodes : job.nodes[n]["zone"] = NodeLabels[n]["zone"]

RunProps == RunTypeOK /\ JobOK /\ UntouchedNotRefused /\ ChangedIsRefused /\ NotStarved

LEMMA RunKeeps ==
  ASSUME IInv, UNCHANGED <<svc, nodes, subnets, lb, made>>, due' \in BOOLEAN,
         edits' \in 0..MaxEdits, faults' \in 0..MaxFaults, RunProps'
  PROVE  IInv'
<1>1. TypeOK'
  BY DEF IInv, TypeOK, RunProps, RunTypeOK
<1>2. Distinct(subnets)' /\ AtHome' /\ MadeOK'
  BY DEF IInv, Distinct, Listed, AtHome, MadeOK
<1>3. ZonesFixed'
  BY DEF IInv, ZonesFixed, RunProps, RunTypeOK
<1> QED
  BY <1>1, <1>2, <1>3 DEF IInv, RunProps

LEMMA RunHolds == ASSUME IInv PROVE RunProps
  BY DEF IInv, RunProps, RunTypeOK, TypeOK, ZonesFixed

LEMMA IdleHolds == ASSUME svc \in Services, job' = Idle PROVE RunProps'
<1>1. /\ job'.pc = "idle" /\ job'.lb.exists = FALSE
      /\ DOMAIN job'.nodes = {}
  BY IdleOK
<1>2. RunTypeOK'
  BY IdleOK DEF RunTypeOK
<1> QED
  BY <1>1, <1>2 DEF RunProps, JobOK, UntouchedNotRefused, ChangedIsRefused, NotStarved

LEMMA KubeNodes ==
  ASSUME IInv
  PROVE  /\ DOMAIN getKubeNodes \subseteq Nodes
         /\ getKubeNodes \in [DOMAIN getKubeNodes -> [Labels -> LabelValues]]
         /\ \A n \in DOMAIN getKubeNodes : getKubeNodes[n]["zone"] = NodeLabels[n]["zone"]
  BY DEF IInv, TypeOK, ZonesFixed, getKubeNodes

LEMMA ReadKubeOK == ASSUME IInv, ReadKube PROVE IInv'
<1>1. job' = [Idle EXCEPT !.pc = "find", !.svc = svc, !.nodes = getKubeNodes]
      /\ svc \in Services
  BY DEF ReadKube, IInv, TypeOK
<1>2. NoLb \in Lb /\ NoLb.exists = FALSE /\ NoLb.of \in Services
  BY <1>1, NoLbOK
<1>3. /\ job' = [pc |-> job'.pc, svc |-> job'.svc, nodes |-> job'.nodes, lb |-> job'.lb,
                 list |-> job'.list, why |-> job'.why, subnets |-> job'.subnets,
                 members |-> job'.members]
      /\ job'.pc = "find" /\ job'.svc = svc /\ job'.nodes = getKubeNodes
      /\ job'.lb = NoLb /\ job'.subnets = {} /\ job'.members = {}
      /\ job'.list = [i \in SubnetIds |-> "none"]
  BY <1>1 DEF Idle
<1>4. RunTypeOK'
  BY <1>1, <1>2, <1>3, KubeNodes DEF RunTypeOK, ListType
<1>5. RunProps'
  BY <1>2, <1>3, <1>4 DEF RunProps, JobOK, UntouchedNotRefused, ChangedIsRefused, NotStarved
<1>6. due' \in BOOLEAN /\ edits' \in 0..MaxEdits /\ faults' \in 0..MaxFaults
  BY DEF ReadKube, IInv, TypeOK
<1> QED
  BY <1>5, <1>6, RunKeeps DEF ReadKube

LEMMA FindLoadBalancerOK == ASSUME IInv, FindLoadBalancer PROVE IInv'
<1>1. /\ job' = [job EXCEPT !.pc = IF lb.exists THEN "update" ELSE "create", !.lb = lb]
      /\ lb \in Lb /\ RunProps /\ UNCHANGED <<lb, made>>
  BY RunHolds DEF FindLoadBalancer, IInv, TypeOK
<1>2. /\ job' = [pc |-> job'.pc, svc |-> job'.svc, nodes |-> job'.nodes, lb |-> job'.lb,
                 list |-> job'.list, why |-> job'.why, subnets |-> job'.subnets,
                 members |-> job'.members]
      /\ job'.pc = (IF lb.exists THEN "update" ELSE "create") /\ job'.lb = lb
      /\ job'.svc = job.svc /\ job'.nodes = job.nodes /\ job'.list = job.list
      /\ job'.subnets = job.subnets /\ job'.members = job.members
  BY <1>1 DEF RunProps, RunTypeOK
<1>3. RunTypeOK'
  BY <1>1, <1>2 DEF RunProps, RunTypeOK
<1>4. RunProps'
  BY <1>1, <1>2, <1>3 DEF RunProps, JobOK, UntouchedNotRefused, ChangedIsRefused, NotStarved
<1>5. due' \in BOOLEAN /\ edits' \in 0..MaxEdits /\ faults' \in 0..MaxFaults
  BY DEF FindLoadBalancer, IInv, TypeOK
<1> QED
  BY <1>4, <1>5, RunKeeps DEF FindLoadBalancer

\* A run that ends with an error: not for the annotations of a service that asks
\* for what its load balancer was created with, and not for want of nodes when
\* there are some.
LEMMA RefuseOK ==
  ASSUME IInv, NEW why, Refuse(why), UNCHANGED <<lb, made>>, job.pc # "idle",
         why = "nodes" => Fitting(job.nodes, job.svc) = {},
         /\ job.lb.exists /\ why \in {"protocol", "type", "subnets"}
         /\ job.svc.subnets = made.svc.subnets /\ job.svc.public = made.svc.public
         /\ job.svc.tcp
         => \E i \in job.lb.subnets : subnets[i] # made.list[i]
  PROVE  RunProps'
<1>1. RunProps /\ subnets \in ListType
  BY RunHolds DEF IInv, TypeOK
<1>2. /\ job' = [pc |-> job'.pc, svc |-> job'.svc, nodes |-> job'.nodes, lb |-> job'.lb,
                 list |-> job'.list, why |-> job'.why, subnets |-> job'.subnets,
                 members |-> job'.members]
      /\ job'.pc = "refused" /\ job'.lb = job.lb /\ job'.why = why /\ job'.list = subnets
      /\ job'.svc = job.svc /\ job'.nodes = job.nodes
      /\ job'.subnets = job.subnets /\ job'.members = job.members
  BY <1>1 DEF Refuse, RunProps, RunTypeOK
<1>3. RunTypeOK'
  BY <1>1, <1>2 DEF RunProps, RunTypeOK
<1>4. JobOK'
  BY <1>1, <1>2 DEF RunProps, JobOK
<1>5. UntouchedNotRefused'
  BY <1>2 DEF UntouchedNotRefused
<1>6. ChangedIsRefused' /\ NotStarved'
  BY <1>2 DEF ChangedIsRefused, NotStarved, Fitting
<1> QED
  BY <1>3, <1>4, <1>5, <1>6 DEF RunProps

\* The subnets for the load balancer are chosen, nodes are, and there are some.
LEMMA ProceedOK ==
  ASSUME IInv, NEW chosen \in SUBSET SubnetIds, chosen # {}, Proceed(chosen),
         UNCHANGED <<lb, made>>, job.pc \in {"create", "update"},
         job.lb.exists => chosen = lb.subnets,
         ~job.lb.exists => MadeFrom(chosen, job.svc, subnets),
         job.lb.exists /\ job.svc.subnets # <<>> =>
           AllMeant(job.svc, subnets) /\ Meant(job.svc, subnets) = lb.subnets
  PROVE  RunProps'
<1> DEFINE members == FilterNodes(job.nodes, job.svc)
<1>1. RunProps /\ subnets \in ListType
  BY RunHolds DEF IInv, TypeOK
<1>2. /\ members \subseteq DOMAIN job.nodes
      /\ job.svc.zone # "" /\ ~HasSelector(job.svc) =>
           \A n \in members : job.nodes[n]["zone"] = job.svc.zone
      /\ members = {} => Fitting(job.nodes, job.svc) = {}
  BY <1>1, ChosenNodes DEF RunProps, RunTypeOK
<1>3. InZone(members, job.svc) /\ members \subseteq Nodes
  BY <1>1, <1>2 DEF InZone, RunProps, RunTypeOK
<1>4. CASE members = {}
  <2>1. Refuse("nodes")
    BY <1>4 DEF Proceed
  <2> QED
    BY <1>2, <1>4, <2>1, RefuseOK
<1>5. CASE members # {}
  <2>1. job' = [job EXCEPT !.pc = "request", !.list = subnets, !.subnets = chosen,
                           !.members = members]
    BY <1>5 DEF Proceed
  <2> HIDE DEF members
  <2>2. /\ job' = [pc |-> job'.pc, svc |-> job'.svc, nodes |-> job'.nodes, lb |-> job'.lb,
                   list |-> job'.list, why |-> job'.why, subnets |-> job'.subnets,
                   members |-> job'.members]
        /\ job'.pc = "request" /\ job'.lb = job.lb /\ job'.list = subnets
        /\ job'.svc = job.svc /\ job'.nodes = job.nodes
        /\ job'.subnets = chosen /\ job'.members = members
    BY <1>1, <2>1 DEF RunProps, RunTypeOK
  <2>3. RunTypeOK'
    BY <1>1, <1>3, <1>5, <2>2 DEF RunProps, RunTypeOK
  <2>4. job.lb.exists => job.lb = lb
    BY <1>1 DEF RunProps, JobOK
  <2>5. JobOK'
    BY <1>3, <2>2, <2>4 DEF JobOK, InZone, HasSelector, MadeFrom, AllMeant, Meant,
       filterSubnetsByVpcName, Listed
  <2>6. ChangedIsRefused'
    BY <2>2 DEF ChangedIsRefused, AllMeant, Meant, filterSubnetsByVpcName, Listed
  <2>7. UntouchedNotRefused' /\ NotStarved'
    BY <2>2 DEF UntouchedNotRefused, NotStarved
  <2> QED
    BY <2>3, <2>5, <2>6, <2>7 DEF RunProps
<1> QED
  BY <1>4, <1>5

LEMMA CreateLoadBalancerOK == ASSUME IInv, CreateLoadBalancer PROVE IInv'
<1> DEFINE chosen == SubnetsForNew(job.svc, subnets)
<1>1. /\ job.pc = "create" /\ UNCHANGED <<svc, nodes, subnets, lb, made>>
      /\ ~job.lb.exists
      /\ due' \in BOOLEAN /\ edits' \in 0..MaxEdits /\ faults' \in 0..MaxFaults
  BY DEF CreateLoadBalancer, IInv, TypeOK, JobOK
<1>2. CASE Refuse("protocol")
  BY <1>1, <1>2, RefuseOK, RunKeeps
<1>3. CASE Refuse("subnets")
  BY <1>1, <1>3, RefuseOK, RunKeeps
<1>4. CASE chosen # {} /\ Proceed(chosen)
  <2>1. chosen \subseteq SubnetIds /\ MadeFrom(chosen, job.svc, subnets)
    BY <1>4, NewSubnets
  <2> HIDE DEF chosen
  <2>2. RunProps'
    BY <1>1, <1>4, <2>1, ProceedOK
  <2> QED
    BY <1>1, <2>2, RunKeeps
<1> QED
  BY <1>2, <1>3, <1>4 DEF CreateLoadBalancer

LEMMA UpdateLoadBalancerOK == ASSUME IInv, UpdateLoadBalancer PROVE IInv'
<1>1. /\ job.pc = "update" /\ UNCHANGED <<svc, nodes, subnets, lb, made>>
      /\ job.lb.exists /\ job.lb = lb
      /\ due' \in BOOLEAN /\ edits' \in 0..MaxEdits /\ faults' \in 0..MaxFaults
  BY DEF UpdateLoadBalancer, IInv, TypeOK, JobOK
<1>2. /\ lb.exists /\ lb.subnets # {} /\ lb.subnets \subseteq SubnetIds
      /\ \A i \in lb.subnets : i \in Listed(subnets) /\ Vpc[i] = VpcName
      /\ lb.public = made.svc.public /\ MadeFrom(lb.subnets, made.svc, made.list)
      /\ subnets \in ListType /\ Distinct(subnets)
  BY <1>1 DEF IInv, AtHome, MadeOK, TypeOK, Listed
<1>3. getVpcID(job.lb, subnets) = VpcName
  BY <1>1, HomeVpc DEF IInv
<1>4. CASE ~job.svc.tcp /\ Refuse("protocol")
  BY <1>1, <1>4, RefuseOK, RunKeeps
<1>5. CASE ~validateServiceTypeNotUpdated(job.svc, job.lb) /\ Refuse("type")
  <2>1. job.svc.public # made.svc.public
    BY <1>1, <1>2, <1>5 DEF validateServiceTypeNotUpdated
  <2> QED
    BY <1>1, <1>5, <2>1, RefuseOK, RunKeeps
<1>6. CASE ~validateServiceSubnetsNotUpdated(job.svc, job.lb, subnets) /\ Refuse("subnets")
  <2>1. ASSUME job.svc.subnets = made.svc.subnets,
               \A i \in lb.subnets : subnets[i] = made.list[i]
        PROVE  FALSE
    <3>1. job.svc.subnets # <<>>
      BY <1>6 DEF validateServiceSubnetsNotUpdated
    <3>2. /\ SubnetsValid(job.svc, subnets, Listed(subnets), VpcName)
          /\ validateServiceSubnets(job.svc, subnets, Listed(subnets), VpcName) = lb.subnets
      BY <1>2, <2>1, <3>1, UntouchedFound
    <3> QED
      BY <1>1, <1>3, <1>6, <3>2 DEF validateServiceSubnetsNotUpdated
  <2>2. RunProps'
    BY <1>1, <1>6, <2>1, RefuseOK
  <2> QED
    BY <1>1, <2>2, RunKeeps
<1>7. CASE /\ validateServiceSubnetsNotUpdated(job.svc, job.lb, subnets)
           /\ Proceed(job.lb.subnets)
  <2>1. ASSUME job.svc.subnets # <<>>
        PROVE  AllMeant(job.svc, subnets) /\ Meant(job.svc, subnets) = lb.subnets
    <3>1. /\ SubnetsValid(job.svc, subnets, Listed(subnets), VpcName)
          /\ validateServiceSubnets(job.svc, subnets, Listed(subnets), VpcName) = lb.subnets
      BY <1>1, <1>3, <1>7, <2>1 DEF validateServiceSubnetsNotUpdated
    <3>2. filterSubnetsByVpcName(subnets) \subseteq Listed(subnets)
      BY DEF filterSubnetsByVpcName
    <3> QED
      BY <3>1, <3>2, ValidMeans
  <2>2. RunProps'
    BY <1>1, <1>2, <1>7, <2>1, ProceedOK
  <2> QED
    BY <1>1, <2>2, RunKeeps
<1> QED
  BY <1>4, <1>5, <1>6, <1>7 DEF UpdateLoadBalancer

LEMMA RequestOK == ASSUME IInv, Request PROVE IInv'
<1>1. /\ job.pc = "request" /\ job.subnets \subseteq Listed(subnets) /\ job' = Idle
      /\ UNCHANGED <<svc, nodes, subnets, due, edits, faults>>
      /\ lb' = [exists |-> TRUE, subnets |-> job.subnets, members |-> job.members,
                of |-> job.svc, public |-> IF job.lb.exists THEN lb.public ELSE job.svc.public]
      /\ made' = IF job.lb.exists THEN made ELSE [svc |-> job.svc, list |-> job.list]
  BY DEF Request, Accepts
<1>2. RunProps /\ AtHome /\ MadeOK /\ svc \in Services /\ lb \in Lb
  BY RunHolds DEF IInv, TypeOK
<1>3. /\ job.subnets # {} /\ job.subnets \subseteq SubnetIds /\ job.members \subseteq Nodes
      /\ job.svc \in Services /\ job.list \in ListType /\ job.svc.public \in BOOLEAN
      /\ lb.public \in BOOLEAN /\ InZone(job.members, job.svc)
      /\ job.lb.exists => job.lb = lb /\ job.subnets = lb.subnets
      /\ ~job.lb.exists => MadeFrom(job.subnets, job.svc, job.list)
  BY <1>1, <1>2, SelectAssumption DEF RunProps, RunTypeOK, JobOK, Lb
<1>4. /\ lb' \in Lb /\ lb'.exists /\ lb'.subnets = job.subnets /\ lb'.members = job.members
      /\ lb'.of = job.svc
      /\ lb'.public = IF job.lb.exists THEN lb.public ELSE job.svc.public
  BY <1>1, <1>3 DEF Lb
<1>5. RunProps'
  BY <1>1, <1>2, IdleHolds
<1>6. \A i \in job.subnets : Vpc[i] = VpcName
  BY <1>2, <1>3 DEF AtHome, MadeFrom
<1>7. AtHome'
  BY <1>1, <1>3, <1>4, <1>6 DEF AtHome, Listed
<1>8. MadeOK'
  <2>1. InZone(lb'.members, lb'.of)
    BY <1>3, <1>4
  <2>2. CASE job.lb.exists
    BY <1>1, <1>2, <1>3, <1>4, <2>1, <2>2 DEF MadeOK, InZone, HasSelector, MadeFrom, AllMeant,
       Meant, filterSubnetsByVpcName, Listed
  <2>3. CASE ~job.lb.exists
    BY <1>1, <1>3, <1>4, <2>1, <2>3 DEF MadeOK, InZone, HasSelector, MadeFrom, AllMeant,
       Meant, filterSubnetsByVpcName, Listed
  <2> QED
    BY <2>2, <2>3
<1>9. made' \in [svc : Services, list : ListType]
  BY <1>1, <1>3 DEF IInv, TypeOK
<1>10. TypeOK' /\ Distinct(subnets)' /\ ZonesFixed'
  BY <1>1, <1>4, <1>5, <1>9
     DEF IInv, TypeOK, Distinct, Listed, ZonesFixed, RunProps, RunTypeOK
<1> QED
  BY <1>5, <1>7, <1>8, <1>10 DEF IInv, RunProps

LEMMA DeleteLoadBalancerOK == ASSUME IInv, DeleteLoadBalancer PROVE IInv'
<1>1. /\ job.pc = "idle" /\ lb' = NoLb /\ made' = [svc |-> NoLb.of, list |-> Idle.list]
      /\ UNCHANGED <<svc, nodes, subnets, job, due, edits, faults>>
  BY DEF DeleteLoadBalancer
<1>2. lb' \in Lb /\ ~lb'.exists /\ NoLb.of \in Services
  BY <1>1, NoLbOK DEF IInv, TypeOK
<1>3. made' \in [svc : Services, list : ListType]
  BY <1>1, <1>2 DEF Idle, ListType
<1>4. TypeOK' /\ Distinct(subnets)' /\ ZonesFixed' /\ AtHome' /\ MadeOK'
  BY <1>1, <1>2, <1>3 DEF IInv, TypeOK, Distinct, Listed, ZonesFixed, AtHome, MadeOK
<1>5. ~job.lb.exists
  BY <1>1 DEF IInv, JobOK
<1>6. JobOK' /\ UntouchedNotRefused' /\ ChangedIsRefused' /\ NotStarved'
  BY <1>1, <1>5 DEF JobOK, UntouchedNotRefused, ChangedIsRefused, NotStarved
<1> QED
  BY <1>4, <1>6 DEF IInv

LEMMA SelectStep == IInv /\ [Next]_vars => IInv'
<1> SUFFICES ASSUME IInv, [Next]_vars PROVE IInv'
  OBVIOUS
<1>1. CASE EditService
  BY <1>1, EditServiceOK
<1>2. ASSUME NEW n \in Nodes, EditNode(n) PROVE IInv'
  BY <1>2, EditNodeOK
<1>3. ASSUME NEW i \in SubnetIds, NameSubnet(i) \/ DeleteSubnet(i) PROVE IInv'
  BY <1>3, NameSubnetOK, DeleteSubnetOK
<1>4. CASE Fail
  <2>1. /\ Refuse("failed") /\ job.pc # "idle"
        /\ UNCHANGED <<svc, nodes, subnets, lb, made>> /\ due' \in BOOLEAN
        /\ edits' \in 0..MaxEdits /\ faults' \in 0..MaxFaults
    BY <1>4, EditBound DEF Fail, IInv, TypeOK
  <2> QED
    BY <2>1, RefuseOK, RunKeeps
<1>5. CASE ReadKube
  BY <1>5, ReadKubeOK
<1>6. CASE FindLoadBalancer
  BY <1>6, FindLoadBalancerOK
<1>7. CASE CreateLoadBalancer
  BY <1>7, CreateLoadBalancerOK
<1>8. CASE UpdateLoadBalancer
  BY <1>8, UpdateLoadBalancerOK
<1>9. CASE Request
  BY <1>9, RequestOK
<1>10. CASE Rejected
  <2>1. /\ Refuse("api") /\ job.pc # "idle"
        /\ UNCHANGED <<svc, nodes, subnets, lb, made>> /\ due' \in BOOLEAN
        /\ edits' \in 0..MaxEdits /\ faults' \in 0..MaxFaults
    BY <1>10 DEF Rejected, IInv, TypeOK
  <2> QED
    BY <2>1, RefuseOK, RunKeeps
<1>11. CASE Retry
  <2>1. /\ job' = Idle /\ svc \in Services
        /\ UNCHANGED <<svc, nodes, subnets, lb, made>> /\ due' \in BOOLEAN
        /\ edits' \in 0..MaxEdits /\ faults' \in 0..MaxFaults
    BY <1>11 DEF Retry, IInv, TypeOK
  <2> QED
    BY <2>1, IdleHolds, RunKeeps
<1>12. CASE DeleteLoadBalancer
  BY <1>12, DeleteLoadBalancerOK
<1>13. CASE UNCHANGED vars
  <2>1. /\ UNCHANGED <<svc, nodes, subnets, lb, made, job, due, edits, faults>>
        /\ RunProps
    BY <1>13, RunHolds DEF vars
  <2>2. RunProps'
    BY <2>1 DEF RunProps, RunTypeOK, JobOK, UntouchedNotRefused, ChangedIsRefused, NotStarved
  <2>3. due' \in BOOLEAN /\ edits' \in 0..MaxEdits /\ faults' \in 0..MaxFaults
    BY <2>1 DEF IInv, TypeOK
  <2> QED
    BY <2>1, <2>2, <2>3, RunKeeps
<1> QED
  BY <1>1, <1>2, <1>3, <1>4, <1>5, <1>6, <1>7, <1>8, <1>9, <1>10, <1>11, <1>12, <1>13
     DEF Next, Run

LEMMA SelectInvariant == Spec => []IInv
<1> QED
  BY SelectInit, SelectStep, PTL DEF Spec

-----------------------------------------------------------------------------
(* What the run of TLC checks on a small instance. *)

\* The service, the account and the run keep their types, and a request always
\* has subnets and nodes.
THEOREM SelectTypeCorrect == Spec => []TypeOK
<1>1. IInv => TypeOK
  BY DEF IInv
<1> QED
  BY <1>1, SelectInvariant, PTL

\* The load balancer is in the VPC of the cluster, for every account.
THEOREM LoadBalancersStayAtHome == Spec => []AtHome
<1>1. IInv => AtHome
  BY DEF IInv
<1> QED
  BY <1>1, SelectInvariant, PTL

\* What was accepted when the load balancer was created is accepted ever after.
THEOREM UntouchedAccepted == Spec => []UntouchedNotRefused
<1>1. IInv => UntouchedNotRefused
  BY DEF IInv
<1> QED
  BY <1>1, SelectInvariant, PTL

\* No update goes ahead against an annotation that means other subnets.
THEOREM ChangesRefused == Spec => []ChangedIsRefused
<1>1. IInv => ChangedIsRefused
  BY DEF IInv
<1> QED
  BY <1>1, SelectInvariant, PTL

\* No service is refused for want of nodes while one fits.
THEOREM NobodyStarves == Spec => []NotStarved
<1>1. IInv => NotStarved
  BY DEF IInv
<1> QED
  BY <1>1, SelectInvariant, PTL

\* Subnets and nodes are in the zone the service names.
THEOREM ZonesMatch == Spec => []ZoneTogether
<1>1. IInv => ZoneTogether
  <2> SUFFICES ASSUME IInv, lb.exists, made.svc.zone # "", made.svc.subnets = <<>>,
                      lb.of.zone = made.svc.zone, ~HasSelector(lb.of)
               PROVE  /\ \A i \in lb.subnets : SubnetZone[i] = made.svc.zone
                      /\ \A n \in lb.members : nodes[n].labels["zone"] = made.svc.zone
    BY DEF ZoneTogether
  <2>1. \A i \in lb.subnets : SubnetZone[i] = made.svc.zone
    BY DEF IInv, MadeOK, MadeFrom
  <2>2. lb.members \subseteq Nodes
    BY DEF IInv, TypeOK, Lb
  <2>3. \A n \in lb.members : NodeLabels[n]["zone"] = made.svc.zone
    BY DEF IInv, MadeOK, InZone
  <2> QED
    BY <2>1, <2>2, <2>3 DEF IInv, ZonesFixed
<1> QED
  BY <1>1, SelectInvariant, PTL

-----------------------------------------------------------------------------
(* When nothing is due. *)

\* The load balancer is there for the service as it is, with its nodes.
Placed == lb.exists /\ lb.of = svc /\ lb.members = FilterNodes(getKubeNodes, svc)

\* No call is due only if the last one read the service and nodes as they are.
Current ==
  ~due => /\ svc.wanted
          /\ job.pc \in {"find", "create", "update", "request"} =>
               job.svc = svc /\ job.nodes = getKubeNodes
          /\ job.pc = "request" => job.members = FilterNodes(getKubeNodes, svc)
          /\ job.pc = "idle" => Placed

\* The same service and nodes are given the same nodes.
LEMMA SameNodes ==
  ASSUME UNCHANGED <<svc, nodes>>
  PROVE  /\ getKubeNodes' = getKubeNodes
         /\ FilterNodes(getKubeNodes, svc)' = FilterNodes(getKubeNodes, svc)
<1>1. getKubeNodes' = getKubeNodes
  BY DEF getKubeNodes
<1> QED
  BY <1>1 DEF FilterNodes, HasSelector, filterNodesByEdgeLabel, filterNodesByServiceZone,
              findNodesMatchingLabelValue

LEMMA CurrentInit == Init => Current
  BY DEF Init, Current

JobFields ==
  job = [pc |-> job.pc, svc |-> job.svc, nodes |-> job.nodes, lb |-> job.lb,
         list |-> job.list, why |-> job.why, subnets |-> job.subnets,
         members |-> job.members]

LEMMA Refused == ASSUME JobFields, NEW why, Refuse(why) PROVE job'.pc = "refused"
  BY DEF JobFields, Refuse

\* What is chosen for a run is chosen from what it read.
LEMMA Chosen ==
  ASSUME JobFields, NEW chosen, Proceed(chosen)
  PROVE  \/ job'.pc = "refused"
         \/ /\ job'.pc = "request" /\ job'.svc = job.svc /\ job'.nodes = job.nodes
            /\ job'.members = FilterNodes(job.nodes, job.svc)
<1> DEFINE members == FilterNodes(job.nodes, job.svc)
<1>1. CASE members = {}
  <2>1. Refuse("nodes")
    BY <1>1 DEF Proceed
  <2> QED
    BY <2>1, Refused
<1>2. CASE members # {}
  <2>1. job' = [job EXCEPT !.pc = "request", !.list = subnets, !.subnets = chosen,
                           !.members = members]
    BY <1>2 DEF Proceed
  <2> HIDE DEF members
  <2>2. /\ job'.pc = "request" /\ job'.svc = job.svc /\ job'.nodes = job.nodes
        /\ job'.members = members
    BY <2>1 DEF JobFields
  <2> QED
    BY <2>2 DEF members
<1> QED
  BY <1>1, <1>2

LEMMA CurrentChooses ==
  ASSUME JobFields, Current, job.pc \in {"create", "update"}, UNCHANGED <<svc, nodes, lb, due>>,
         job'.pc = "refused" \/ \E chosen : Proceed(chosen)
  PROVE  Current'
<1>1. /\ getKubeNodes' = getKubeNodes
      /\ FilterNodes(getKubeNodes, svc)' = FilterNodes(getKubeNodes, svc)
  BY SameNodes
<1>2. \/ job'.pc = "refused"
      \/ /\ job'.pc = "request" /\ job'.svc = job.svc /\ job'.nodes = job.nodes
         /\ job'.members = FilterNodes(job.nodes, job.svc)
  BY Chosen
<1>3. ASSUME ~due, job'.pc = "request"
      PROVE  /\ svc.wanted /\ job'.svc = svc /\ job'.nodes = getKubeNodes
             /\ job'.members = FilterNodes(getKubeNodes, svc)
  BY <1>2, <1>3 DEF Current
<1>4. ~due => svc.wanted
  BY DEF Current
<1> QED
  BY <1>1, <1>2, <1>3, <1>4 DEF Current

LEMMA CurrentStep == ASSUME IInv, Current, [Next]_vars PROVE Current'
<1>1. JobFields
  BY DEF IInv, TypeOK, JobFields
<1>2. CASE EditService \/ (\E n \in Nodes : EditNode(n)) \/ Retry
  <2>1. due' = TRUE
    BY <1>2, Zenon DEF EditService, EditNode, Retry
  <2> QED
    BY <2>1 DEF Current
<1>3. ASSUME UNCHANGED <<svc, nodes, lb, job, due>> PROVE Current'
  BY <1>3, SameNodes DEF Current, Placed
<1>4. CASE (\E i \in SubnetIds : NameSubnet(i) \/ DeleteSubnet(i)) \/ UNCHANGED vars
  BY <1>3, <1>4 DEF NameSubnet, DeleteSubnet, vars
<1>5. CASE ReadKube
  <2>1. /\ job' = [Idle EXCEPT !.pc = "find", !.svc = svc, !.nodes = getKubeNodes]
        /\ svc.wanted /\ UNCHANGED <<svc, nodes, lb>>
    BY <1>5 DEF ReadKube
  <2>2. job'.pc = "find" /\ job'.svc = svc /\ job'.nodes = getKubeNodes
    BY <2>1, Zenon DEF Idle
  <2> QED
    BY <2>1, <2>2 DEF Current, getKubeNodes
<1>6. CASE FindLoadBalancer
  <2>1. /\ job'.pc \in {"create", "update"} /\ job'.svc = job.svc /\ job'.nodes = job.nodes
        /\ job.pc = "find" /\ UNCHANGED <<svc, nodes, lb, due>>
    BY <1>1, <1>6 DEF FindLoadBalancer, JobFields
  <2> QED
    BY <2>1 DEF Current, getKubeNodes
<1>7. CASE CreateLoadBalancer
  <2>1. \/ Refuse("protocol") \/ Refuse("subnets")
        \/ \E chosen : Proceed(chosen)
    BY <1>7, Zenon DEF CreateLoadBalancer
  <2>2. job'.pc = "refused" \/ \E chosen : Proceed(chosen)
    BY <1>1, <2>1, Refused
  <2> QED
    BY <1>1, <1>7, <2>2, CurrentChooses DEF CreateLoadBalancer
<1>8. CASE UpdateLoadBalancer
  <2>1. \/ Refuse("protocol") \/ Refuse("type") \/ Refuse("subnets")
        \/ \E chosen : Proceed(chosen)
    BY <1>8, Zenon DEF UpdateLoadBalancer
  <2>2. job'.pc = "refused" \/ \E chosen : Proceed(chosen)
    BY <1>1, <2>1, Refused
  <2> QED
    BY <1>1, <1>8, <2>2, CurrentChooses DEF UpdateLoadBalancer
<1>9. CASE Request
  <2>1. /\ lb'.exists /\ lb'.of = job.svc /\ lb'.members = job.members
        /\ job' = Idle /\ job.pc = "request" /\ UNCHANGED <<svc, nodes, due>>
    BY <1>9 DEF Request
  <2>2. job'.pc = "idle"
    BY <2>1, Zenon DEF Idle
  <2> QED
    BY <2>1, <2>2, SameNodes DEF Current, Placed
<1>10. CASE Rejected \/ Fail
  <2>1. (\E why : Refuse(why)) /\ UNCHANGED <<svc, nodes, lb, due>>
    BY <1>10, Zenon DEF Rejected, Fail
  <2>2. job'.pc = "refused"
    BY <1>1, <2>1, Refused
  <2> QED
    BY <2>1, <2>2 DEF Current
<1>11. CASE DeleteLoadBalancer
  BY <1>11 DEF DeleteLoadBalancer, Current
<1> QED
  BY <1>2, <1>4, <1>5, <1>6, <1>7, <1>8, <1>9, <1>10, <1>11 DEF Next, Run

\* What EventuallyPlaced comes down to: where no run is under way and none is
\* due, no edit of the service and no change of the nodes was lost to a run that
\* had read them before, nor to the runs that were refused or failed.  The load
\* balancer is the one of the service as it is, with the nodes it is due.
THEOREM QuietIsPlaced == Spec => [](job.pc = "idle" /\ ~due => Placed)
<1>1. Current => (job.pc = "idle" /\ ~due => Placed)
  BY DEF Current
<1>2. IInv /\ Current /\ [Next]_vars => Current'
  BY CurrentStep
<1> QED
  BY <1>1, <1>2, CurrentInit, SelectInvariant, PTL DEF Spec
=============================================================================
