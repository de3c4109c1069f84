-------------------------- MODULE LbMonitorProofs --------------------------
(***************************************************************************)
(* What the monitor knows, deletes and reports, for every set of services, *)
(* names and load balancers, every page size and every number of faults.   *)
(* The invariant relates the half-read list to the load balancers that did *)
(* not change since the run began to list: those before the start value    *)
(* are in the list as they are.  It needs that names are unique in the     *)
(* account and that an identifier in the list is not given away again.     *)
(***************************************************************************)
EXTENDS LbMonitor, SequenceTheorems, WellFoundedInduction, TLAPS

Lb == [for : Services \cup Others, status : Statuses]

LbsOK ==
  /\ DOMAIN lbs \subseteq LbIds
  /\ lbs \in [DOMAIN lbs -> Lb]
  /\ \A i, j \in DOMAIN lbs : Name(i) = Name(j) => i = j

MonOK ==
  /\ mon.pc \in {"idle", "init", "list", "process"}
  /\ mon = [pc |-> mon.pc, services |-> mon.services, start |-> mon.start,
            vpcMap |-> mon.vpcMap, stale |-> mon.stale, todo |-> mon.todo]
  /\ mon.services \in [Services -> Types]
  /\ mon.start \in LbIds \cup {0}
  /\ mon.pc = "init" => mon.start = 0
  /\ DOMAIN mon.vpcMap \subseteq OwnNames
  /\ mon.vpcMap \in [DOMAIN mon.vpcMap -> Entry]
  /\ mon.stale \subseteq LbIds
  /\ mon.todo \subseteq Services
  /\ mon.stale \cup mon.todo # {} <=> mon.pc = "process"

\* The entry of load balancer i is in the list as it is.
Exact(i) ==
  /\ Name(i) \in DOMAIN mon.vpcMap
  /\ mon.vpcMap[Name(i)] = [id |-> i, status |-> lbs[i].status]

SameExact ==
  mon.pc \in {"list", "process"} =>
    \A i \in same :
      lbs[i].for \in Services /\ (mon.pc = "process" \/ i < mon.start) => Exact(i)

\* A listed load balancer has the name it is listed under, as long as it exists.
EntriesNamed ==
  \A n \in DOMAIN mon.vpcMap :
    mon.vpcMap[n].id \in DOMAIN lbs => Name(mon.vpcMap[n].id) = n

StaleListed ==
  \A i \in mon.stale : \E n \in DOMAIN mon.vpcMap :
    /\ mon.vpcMap[n].id = i
    /\ \A s \in Services : mon.services[s] # "other" => NameOf[s] # n

ListOK == same \subseteq DOMAIN lbs /\ SameExact /\ EntriesNamed /\ StaleListed

MemoryOK ==
  /\ vpc \in {"none", "valid", "invalid"}
  /\ status \in [Services -> Statuses \cup {"", "not_found"}]
  /\ told \in [Services -> {"none", "normal", "warning"}]
  /\ ailing \subseteq Services
  /\ \A s \in Services : status[s] \notin {"", "active"} => s \in ailing

UsersOK ==
  /\ kube \in [Services -> Types]
  /\ edits \in 0..MaxEdits
  /\ faults \in 0..MaxFaults

IInv == LbsOK /\ MonOK /\ ListOK /\ MemoryOK /\ UsersOK

LEMMA OwnAreNames == OwnNames \subseteq Names
  BY DEF OwnNames

LEMMA IInvTypes == IInv => TypeOK
  BY OwnAreNames DEF IInv, LbsOK, Lb, MonOK, ListOK, MemoryOK, UsersOK, TypeOK

-----------------------------------------------------------------------------
(* Names. *)

LEMMA PrefixType == lbPrefix \in Seq(Chars)
<1>1. <<"kube", "-">> \in Seq(Chars) /\ <<"-">> \in Seq(Chars)
  <2>1. ASSUME NEW a \in Chars, NEW b \in Chars
        PROVE  <<a, b>> \in Seq(Chars) /\ <<a>> \in Seq(Chars)
    OBVIOUS
  <2>2. "kube" \in Chars /\ "-" \in Chars
    BY MonitorAssumption
  <2> QED
    BY <2>1, <2>2
<1>2. \A a, b \in Seq(Chars) : a \o b \in Seq(Chars)
  OBVIOUS
<1> QED
  BY <1>1, <1>2, MonitorAssumption DEF lbPrefix

LEMMA IDType == \A s \in Services : serviceID(s) \in Seq(Chars)
  BY MonitorAssumption DEF serviceID

\* The monitor takes the name of a load balancer of its own cluster for one.
LEMMA ServiceNamesOwn == \A s \in Services : NameOf[s] \in OwnNames
<1> SUFFICES ASSUME NEW s \in Services PROVE NameOf[s] \in OwnNames
  OBVIOUS
<1> DEFINE ret == lbPrefix \o serviceID(s)
           n   == vpcGetLoadBalancerName(s)
<1>1. /\ lbPrefix \in Seq(Chars) /\ ret \in Seq(Chars)
      /\ Len(ret) = Len(lbPrefix) + Len(serviceID(s)) /\ Len(lbPrefix) \in Nat
      /\ Len(serviceID(s)) \in Nat
  BY PrefixType, IDType
<1>2. \A k \in 1..Len(lbPrefix) : ret[k] = lbPrefix[k]
  BY <1>1, IDType
<1>3. NameLimit \in Nat /\ Len(lbPrefix) <= NameLimit
  BY MonitorAssumption, NamesAssumption
<1>4. n \in Seq(Chars) /\ Len(n) >= Len(lbPrefix) /\ Len(n) \in Nat
      /\ \A k \in 1..Len(lbPrefix) : n[k] = lbPrefix[k]
  <2>1. CASE Len(ret) > NameLimit
    <3>1. n = SubSeq(ret, 1, NameLimit)
      BY <2>1 DEF vpcGetLoadBalancerName
    <3>2. /\ n \in Seq(Chars) /\ Len(n) = NameLimit
          /\ \A k \in 1..NameLimit : n[k] = ret[k]
      BY <3>1, <2>1, <1>1, <1>3
    <3> QED
      BY <3>2, <1>1, <1>2, <1>3
  <2>2. CASE ~(Len(ret) > NameLimit)
    <3>1. n = ret
      BY <2>2 DEF vpcGetLoadBalancerName
    <3> QED
      BY <3>1, <1>1, <1>2
  <2> QED
    BY <2>1, <2>2
<1> HIDE DEF n
<1>5. SubSeq(n, 1, Len(lbPrefix)) = lbPrefix
  <2> DEFINE a == SubSeq(n, 1, Len(lbPrefix))
  <2>1. a \in Seq(Chars) /\ Len(a) = Len(lbPrefix)
        /\ \A k \in 1..Len(lbPrefix) : a[k] = n[k]
    BY <1>1, <1>4
  <2> HIDE DEF a
  <2>2. a = lbPrefix
    BY <2>1, <1>1, <1>4, SeqEqual
  <2> QED
    BY <2>2 DEF a
<1>6. SubSeq(lbPrefix, 1, Len(lbPrefix)) = lbPrefix
  BY <1>1
<1>7. IsPrefix(lbPrefix, n)
  BY <1>4, <1>5, <1>6, <1>1 DEF IsPrefix
<1>8. NameOf[s] = n
  BY DEF NameOf, n
<1> QED
  BY <1>7, <1>8 DEF OwnNames, Names

\* No load balancer of another cluster is taken for one of this cluster.
LEMMA OtherNamesForeign == \A o \in Others : NameOf[o] \notin OwnNames
<1> SUFFICES ASSUME NEW o \in Others PROVE NameOf[o] \notin OwnNames
  OBVIOUS
<1>1. NameOf[o] = OtherName[o]
  BY MonitorAssumption DEF NameOf
<1> QED
  BY <1>1, NamesAssumption DEF OwnNames, lbPrefix

-----------------------------------------------------------------------------
(* Load balancers that become new.  The list stays true as long as no         *)
(* identifier in it is given to another load balancer.                        *)

MonKept ==
  \/ mon' = Idle
  \/ /\ mon'.pc = mon.pc
     /\ mon'.services = mon.services
     /\ mon'.start = mon.start
     /\ mon'.vpcMap = mon.vpcMap
     /\ mon'.stale \subseteq mon.stale

LEMMA BecomeOK ==
  ASSUME IInv, NEW new, Become(new), MonKept,
         \A i \in DOMAIN new : i \in LbIds /\ new[i] \in Lb,
         new = [i \in DOMAIN new |-> new[i]],
         \A i, j \in DOMAIN new : NameOf[new[i].for] = NameOf[new[j].for] => i = j,
         \A n \in DOMAIN mon.vpcMap : mon.vpcMap[n].id \in DOMAIN new =>
           /\ mon.vpcMap[n].id \in DOMAIN lbs
           /\ new[mon.vpcMap[n].id].for = lbs[mon.vpcMap[n].id].for
  PROVE  LbsOK' /\ ListOK'
<1>1. lbs' = new /\ same' = {i \in same : i \in DOMAIN new /\ new[i] = lbs[i]}
  BY DEF Become
<1>2. LbsOK'
  <2>1. DOMAIN lbs' \subseteq LbIds
    BY <1>1
  <2>2. lbs' \in [DOMAIN lbs' -> Lb]
    BY <1>1
  <2>3. \A i, j \in DOMAIN lbs' : Name(i)' = Name(j)' => i = j
    BY <1>1 DEF Name
  <2> QED
    BY <2>1, <2>2, <2>3 DEF LbsOK
<1>3. same' \subseteq DOMAIN lbs'
  BY <1>1
<1>4. \A i \in same' : i \in same /\ lbs'[i] = lbs[i]
  BY <1>1
<1>5. CASE mon' = Idle
  BY <1>2, <1>3, <1>5 DEF Idle, ListOK, SameExact, EntriesNamed, StaleListed
<1>6. CASE mon' # Idle
  <2>1. SameExact'
    BY <1>4, <1>6 DEF MonKept, IInv, ListOK, SameExact, Exact, Name
  <2>2. EntriesNamed'
    BY <1>1, <1>6 DEF MonKept, IInv, ListOK, EntriesNamed, Name
  <2>3. StaleListed'
    BY <1>6 DEF MonKept, IInv, ListOK, StaleListed
  <2> QED
    BY <1>2, <1>3, <2>1, <2>2, <2>3 DEF ListOK
<1> QED
  BY <1>5, <1>6

LEMMA LbsFacts ==
  ASSUME LbsOK
  PROVE  /\ DOMAIN lbs \subseteq LbIds
         /\ \A i \in DOMAIN lbs : lbs[i] \in Lb
         /\ \A i \in DOMAIN lbs : lbs[i].for \in Services \cup Others
         /\ \A i, j \in DOMAIN lbs : NameOf[lbs[i].for] = NameOf[lbs[j].for] => i = j
  BY DEF LbsOK, Lb, Name

LEMMA NewLbOK ==
  ASSUME IInv, NEW x \in Services \cup Others, NewLb(x), MonKept
  PROVE  LbsOK' /\ ListOK'
<1>1. PICK i \in LbIds \ (DOMAIN lbs \cup mon.stale) :
        /\ \A n \in DOMAIN mon.vpcMap : mon.vpcMap[n].id # i
        /\ Become([j \in DOMAIN lbs \cup {i} |->
                    IF j = i THEN [for |-> x, status |-> "create_pending"] ELSE lbs[j]])
  BY DEF NewLb
<1>2. \A j \in DOMAIN lbs : NameOf[lbs[j].for] # NameOf[x]
  BY DEF NewLb, Name
<1> DEFINE made == [for |-> x, status |-> "create_pending"]
           new  == [j \in DOMAIN lbs \cup {i} |-> IF j = i THEN made ELSE lbs[j]]
<1>3. made \in Lb /\ made.for = x
  BY DEF Lb, Statuses
<1>4. /\ DOMAIN new = DOMAIN lbs \cup {i}
      /\ new[i] = made
      /\ \A j \in DOMAIN lbs : new[j] = lbs[j]
  BY <1>1
<1>5. \A j \in DOMAIN new : j \in LbIds /\ new[j] \in Lb
  BY <1>1, <1>3, <1>4, LbsFacts DEF IInv
<1>6. \A j, k \in DOMAIN new : NameOf[new[j].for] = NameOf[new[k].for] => j = k
  BY <1>2, <1>3, <1>4, LbsFacts DEF IInv
<1>7. Become(new) /\ new = [j \in DOMAIN new |-> new[j]]
  BY <1>1
<1>8. \A n \in DOMAIN mon.vpcMap : mon.vpcMap[n].id \in DOMAIN new =>
        /\ mon.vpcMap[n].id \in DOMAIN lbs
        /\ new[mon.vpcMap[n].id].for = lbs[mon.vpcMap[n].id].for
  BY <1>1, <1>4
<1> HIDE DEF new
<1> QED
  BY <1>5, <1>6, <1>7, <1>8, BecomeOK

\* Load balancer i changes its status.
LEMMA StatusOK ==
  ASSUME IInv, NEW i \in DOMAIN lbs, NEW st \in Statuses,
         Become([lbs EXCEPT ![i].status = st]), MonKept
  PROVE  LbsOK' /\ ListOK'
<1> DEFINE new == [lbs EXCEPT ![i].status = st]
<1>1. /\ DOMAIN new = DOMAIN lbs
      /\ \A j \in DOMAIN lbs : new[j] \in Lb /\ new[j].for = lbs[j].for
  BY LbsFacts DEF IInv, Lb
<1>2. Become(new) /\ new = [j \in DOMAIN new |-> new[j]]
  OBVIOUS
<1> HIDE DEF new
<1>3. \A j, k \in DOMAIN new : NameOf[new[j].for] = NameOf[new[k].for] => j = k
  BY <1>1, LbsFacts DEF IInv
<1>4. \A j \in DOMAIN new : j \in LbIds /\ new[j] \in Lb
  BY <1>1, LbsFacts DEF IInv
<1> QED
  BY <1>1, <1>2, <1>3, <1>4, BecomeOK

LEMMA RemoveOK ==
  ASSUME IInv, NEW i \in DOMAIN lbs, Become(Restrict(lbs, DOMAIN lbs \ {i})), MonKept
  PROVE  LbsOK' /\ ListOK'
<1> DEFINE new == Restrict(lbs, DOMAIN lbs \ {i})
<1>1. /\ DOMAIN new = DOMAIN lbs \ {i}
      /\ \A j \in DOMAIN new : new[j] = lbs[j]
      /\ new = [j \in DOMAIN new |-> new[j]]
  BY DEF Restrict
<1>2. Become(new)
  OBVIOUS
<1> HIDE DEF new
<1>3. \A j, k \in DOMAIN new : NameOf[new[j].for] = NameOf[new[k].for] => j = k
  BY <1>1, LbsFacts DEF IInv
<1>4. \A j \in DOMAIN new : j \in LbIds /\ new[j] \in Lb
  BY <1>1, LbsFacts DEF IInv
<1>5. \A n \in DOMAIN mon.vpcMap : mon.vpcMap[n].id \in DOMAIN new =>
        /\ mon.vpcMap[n].id \in DOMAIN lbs
        /\ new[mon.vpcMap[n].id].for = lbs[mon.vpcMap[n].id].for
  BY <1>1
<1> QED
  BY <1>1, <1>2, <1>3, <1>4, <1>5, BecomeOK

-----------------------------------------------------------------------------
(* Runs that end, go on or stay as they are. *)

LEMMA MonSame == ASSUME MonOK, mon' = mon PROVE MonKept /\ MonOK'
  BY DEF MonKept, MonOK

LEMMA IdleOK == ASSUME mon' = Idle PROVE MonKept /\ MonOK'
  BY DEF MonKept, MonOK, Idle, Types

LEMMA ContinueOK ==
  ASSUME MonOK, mon.pc = "process", NEW stale \in SUBSET mon.stale, NEW todo \in SUBSET mon.todo,
         Continue(stale, todo)
  PROVE  MonKept /\ MonOK'
<1>1. CASE stale \cup todo = {}
  BY <1>1, IdleOK DEF Continue
<1>2. CASE stale \cup todo # {}
  <2>1. mon' = [mon EXCEPT !.stale = stale, !.todo = todo]
    BY <1>2 DEF Continue
  <2>2. /\ mon'.pc = mon.pc /\ mon'.services = mon.services /\ mon'.start = mon.start
        /\ mon'.vpcMap = mon.vpcMap /\ mon'.stale = stale /\ mon'.todo = todo
        /\ mon' = [pc |-> mon'.pc, services |-> mon'.services, start |-> mon'.start,
                   vpcMap |-> mon'.vpcMap, stale |-> mon'.stale, todo |-> mon'.todo]
    BY <2>1 DEF MonOK
  <2> QED
    BY <2>2, <1>2 DEF MonKept, MonOK
<1> QED
  BY <1>1, <1>2

\* A step that leaves the load balancers alone and ends the run or not.
LEMMA QuietOK ==
  ASSUME IInv, lbs' = lbs, MonKept, same' \subseteq same
  PROVE  LbsOK' /\ ListOK'
<1>1. LbsOK'
  BY DEF IInv, LbsOK, Name
<1>2. same' \subseteq DOMAIN lbs'
  BY DEF IInv, ListOK
<1>3. CASE mon' = Idle
  BY <1>1, <1>2, <1>3 DEF Idle, ListOK, SameExact, EntriesNamed, StaleListed
<1>4. CASE mon' # Idle
  <2>1. SameExact'
    BY <1>4 DEF MonKept, IInv, ListOK, SameExact, Exact, Name
  <2>2. EntriesNamed'
    BY <1>4 DEF MonKept, IInv, ListOK, EntriesNamed, Name
  <2>3. StaleListed'
    BY <1>4 DEF MonKept, IInv, ListOK, StaleListed
  <2> QED
    BY <1>1, <1>2, <2>1, <2>2, <2>3 DEF ListOK
<1> QED
  BY <1>3, <1>4

-----------------------------------------------------------------------------
(* The steps of a run. *)

LEMMA StartOK ==
  ASSUME IInv, VpcMonitorLoadBalancers
  PROVE  MonOK' /\ LbsOK' /\ ListOK'
<1>1. /\ mon' = [Idle EXCEPT !.pc = "init", !.services = kube]
      /\ lbs' = lbs /\ same' = same
  BY DEF VpcMonitorLoadBalancers
<1>2. /\ mon'.pc = "init" /\ mon'.services = kube /\ mon'.start = 0
      /\ DOMAIN mon'.vpcMap = {} /\ mon'.vpcMap \in [DOMAIN mon'.vpcMap -> Entry]
      /\ mon'.stale = {} /\ mon'.todo = {}
      /\ mon' = [pc |-> mon'.pc, services |-> mon'.services, start |-> mon'.start,
                 vpcMap |-> mon'.vpcMap, stale |-> mon'.stale, todo |-> mon'.todo]
  BY <1>1 DEF Idle
<1>3. MonOK'
  BY <1>2 DEF IInv, UsersOK, MonOK
<1>4. LbsOK'
  BY <1>1 DEF IInv, LbsOK, Name
<1>5. ListOK'
  BY <1>1, <1>2 DEF IInv, ListOK, SameExact, EntriesNamed, StaleListed
<1> QED
  BY <1>3, <1>4, <1>5

\* All load balancers are at the start value or behind it when a run begins to
\* list.
LEMMA InitOK ==
  ASSUME IInv, InitCloudVpc
  PROVE  MonOK' /\ LbsOK' /\ ListOK'
<1>1. /\ mon' = [mon EXCEPT !.pc = "list"] /\ mon.pc = "init"
      /\ same' = DOMAIN lbs /\ lbs' = lbs
  BY DEF InitCloudVpc
<1>2. /\ mon'.pc = "list" /\ mon'.services = mon.services /\ mon'.start = mon.start
      /\ mon'.vpcMap = mon.vpcMap /\ mon'.stale = mon.stale /\ mon'.todo = mon.todo
      /\ mon' = [pc |-> mon'.pc, services |-> mon'.services, start |-> mon'.start,
                 vpcMap |-> mon'.vpcMap, stale |-> mon'.stale, todo |-> mon'.todo]
  BY <1>1 DEF IInv, MonOK
<1>3. MonOK'
  BY <1>1, <1>2 DEF IInv, MonOK
<1>4. LbsOK'
  BY <1>1 DEF IInv, LbsOK, Name
<1>5. \A i \in same' : ~(i < mon'.start)
  BY <1>1, <1>2, LbsFacts, MonitorAssumption DEF IInv, MonOK
<1>6. SameExact'
  BY <1>2, <1>5 DEF SameExact
<1>7. EntriesNamed' /\ StaleListed'
  BY <1>1, <1>2 DEF IInv, ListOK, EntriesNamed, StaleListed, Name
<1> QED
  BY <1>1, <1>3, <1>4, <1>6, <1>7 DEF ListOK

LEMMA MinIsLeast ==
  ASSUME NEW S \in SUBSET Nat, S # {}
  PROVE  Min(S) \in S /\ \A k \in S : Min(S) <= k
<1> DEFINE R == OpToRel(<, Nat)
<1>1. PICK k \in S : \A l \in S : <<l, k>> \notin R
  BY NatLessThanWellFounded, WFMin
<1>2. ASSUME NEW l \in S
      PROVE  k <= l
  <2>1. <<l, k>> \notin {p \in Nat \X Nat : p[1] < p[2]}
    BY <1>1 DEF OpToRel
  <2> QED
    BY <2>1
<1> QED
  BY <1>2 DEF Min

LEMMA MaxOfOne == \A i \in Nat : Max({i}) = i
  BY DEF Max

\* A page adds the load balancers of the cluster on it and changes no other
\* entry: names are unique.
LEMMA ListedOK ==
  ASSUME IInv, NEW page \in SUBSET DOMAIN lbs
  PROVE  LET vpcMap == Listed(page) IN
         /\ DOMAIN vpcMap \subseteq OwnNames
         /\ vpcMap \in [DOMAIN vpcMap -> Entry]
         /\ \A n \in DOMAIN vpcMap : vpcMap[n].id \in DOMAIN lbs => Name(vpcMap[n].id) = n
         /\ \A i \in page : lbs[i].for \in Services =>
              /\ Name(i) \in DOMAIN vpcMap
              /\ vpcMap[Name(i)] = [id |-> i, status |-> lbs[i].status]
         /\ \A i \in DOMAIN lbs \ page : Name(i) \in DOMAIN mon.vpcMap =>
              /\ Name(i) \in DOMAIN vpcMap
              /\ vpcMap[Name(i)] = mon.vpcMap[Name(i)]
<1> DEFINE own   == {i \in page : Name(i) \in OwnNames}
           at(n) == {i \in own : Name(i) = n}
           vpcMap == Listed(page)
<1>1. vpcMap = [n \in DOMAIN mon.vpcMap \cup {Name(i) : i \in own} |->
                  IF at(n) = {} THEN mon.vpcMap[n]
                  ELSE [id |-> Max(at(n)), status |-> lbs[Max(at(n))].status]]
  BY DEF Listed
<1>2. \A i \in own : at(Name(i)) = {i} /\ Max(at(Name(i))) = i
  BY MaxOfOne, MonitorAssumption DEF IInv, LbsOK
<1>3. DOMAIN vpcMap = DOMAIN mon.vpcMap \cup {Name(i) : i \in own}
  BY <1>1
<1>4. \A i \in own : /\ Name(i) \in DOMAIN vpcMap
                     /\ vpcMap[Name(i)] = [id |-> i, status |-> lbs[i].status]
  BY <1>1, <1>2
<1>5. \A n \in DOMAIN vpcMap : (\A i \in own : Name(i) # n) =>
        n \in DOMAIN mon.vpcMap /\ vpcMap[n] = mon.vpcMap[n]
  BY <1>1
<1> HIDE DEF vpcMap, at
<1>6. \A i \in own : [id |-> i, status |-> lbs[i].status] \in Entry
  BY LbsFacts DEF IInv, Entry, Lb
<1>7. vpcMap \in [DOMAIN vpcMap -> Entry]
  <2>1. \A n \in DOMAIN vpcMap : vpcMap[n] \in Entry
    BY <1>4, <1>5, <1>6 DEF IInv, MonOK
  <2> QED
    BY <2>1, <1>1
<1>8. DOMAIN vpcMap \subseteq OwnNames
  BY <1>3 DEF IInv, MonOK
<1>9. \A n \in DOMAIN vpcMap : vpcMap[n].id \in DOMAIN lbs => Name(vpcMap[n].id) = n
  <2> SUFFICES ASSUME NEW n \in DOMAIN vpcMap, vpcMap[n].id \in DOMAIN lbs
               PROVE  Name(vpcMap[n].id) = n
    OBVIOUS
  <2>1. CASE \A i \in own : Name(i) # n
    <3>1. n \in DOMAIN mon.vpcMap /\ vpcMap[n] = mon.vpcMap[n]
      BY <1>5, <2>1
    <3> QED
      BY <3>1 DEF IInv, ListOK, EntriesNamed
  <2>2. ASSUME NEW i \in own, Name(i) = n
        PROVE  Name(vpcMap[n].id) = n
    <3>1. vpcMap[Name(i)] = [id |-> i, status |-> lbs[i].status]
      BY <1>4
    <3>2. vpcMap[n].id = i
      BY <3>1, <2>2
    <3> QED
      BY <3>2, <2>2
  <2> QED
    BY <2>1, <2>2
<1>10. \A i \in page : lbs[i].for \in Services => i \in own
  BY ServiceNamesOwn DEF Name
<1>11. \A i \in DOMAIN lbs \ page : Name(i) \in DOMAIN mon.vpcMap =>
         Name(i) \in DOMAIN vpcMap /\ \A j \in own : Name(j) # Name(i)
  BY <1>3 DEF IInv, LbsOK
<1> QED
  BY <1>4, <1>5, <1>7, <1>8, <1>9, <1>10, <1>11 DEF vpcMap

\* After a page that is not the last one, the load balancers before the new
\* start value are listed.
LEMMA NextPageOK ==
  ASSUME IInv, mon.pc = "list", NEW page, page = Page(FromStart), page # FromStart,
         mon' = [mon EXCEPT !.vpcMap = Listed(page), !.start = Min(FromStart \ page)],
         lbs' = lbs, same' = same
  PROVE  MonOK' /\ LbsOK' /\ ListOK'
<1> DEFINE vpcMap == Listed(page)
           start  == Min(FromStart \ page)
<1>1. page \subseteq FromStart /\ FromStart \subseteq DOMAIN lbs /\ DOMAIN lbs \subseteq Nat
  BY LbsFacts, MonitorAssumption DEF Page, FromStart, IInv
<1>2. start \in FromStart \ page /\ \A i \in FromStart \ page : start <= i
  BY <1>1, MinIsLeast
<1>3. /\ mon'.pc = "list" /\ mon'.services = mon.services /\ mon'.start = start
      /\ mon'.vpcMap = vpcMap /\ mon'.stale = mon.stale /\ mon'.todo = mon.todo
      /\ mon' = [pc |-> mon'.pc, services |-> mon'.services, start |-> mon'.start,
                 vpcMap |-> mon'.vpcMap, stale |-> mon'.stale, todo |-> mon'.todo]
  BY DEF IInv, MonOK
<1>4. /\ DOMAIN vpcMap \subseteq OwnNames
      /\ vpcMap \in [DOMAIN vpcMap -> Entry]
      /\ \A n \in DOMAIN vpcMap : vpcMap[n].id \in DOMAIN lbs => Name(vpcMap[n].id) = n
      /\ \A i \in page : lbs[i].for \in Services =>
           /\ Name(i) \in DOMAIN vpcMap
           /\ vpcMap[Name(i)] = [id |-> i, status |-> lbs[i].status]
      /\ \A i \in DOMAIN lbs \ page : Name(i) \in DOMAIN mon.vpcMap =>
           /\ Name(i) \in DOMAIN vpcMap
           /\ vpcMap[Name(i)] = mon.vpcMap[Name(i)]
  BY <1>1, ListedOK
<1> HIDE DEF vpcMap, start
<1>5. start \in LbIds
  BY <1>1, <1>2, LbsFacts DEF IInv
<1>6. mon.stale = {} /\ mon.todo = {}
  BY DEF IInv, MonOK
<1>7. MonOK'
  BY <1>3, <1>4, <1>5, <1>6 DEF IInv, MonOK
<1>8. LbsOK'
  BY DEF IInv, LbsOK, Name
<1>9. ASSUME NEW i \in same', lbs'[i].for \in Services, i < start
      PROVE  Exact(i)'
  <2>1. i \in DOMAIN lbs /\ i \in Nat
    BY <1>9, <1>1 DEF IInv, ListOK
  <2>2. CASE i \in page
    BY <2>2, <1>3, <1>4, <1>9 DEF Exact, Name
  <2>3. CASE i \notin page
    <3>1. i \notin FromStart
      BY <2>3, <1>2, <1>9, <2>1, <1>1
    <3>2. i < mon.start
      BY <3>1, <2>1, MonitorAssumption DEF FromStart, IInv, MonOK
    <3>3. Exact(i)
      BY <3>2, <1>9 DEF IInv, ListOK, SameExact
    <3> QED
      BY <3>3, <2>1, <2>3, <1>3, <1>4 DEF Exact, Name
  <2> QED
    BY <2>2, <2>3
<1>10. SameExact'
  BY <1>3, <1>9 DEF SameExact
<1>11. EntriesNamed'
  BY <1>3, <1>4 DEF EntriesNamed, Name
<1>12. StaleListed'
  BY <1>3, <1>6 DEF StaleListed
<1>13. same' \subseteq DOMAIN lbs'
  BY DEF IInv, ListOK
<1> QED
  BY <1>7, <1>8, <1>10, <1>11, <1>12, <1>13 DEF ListOK

\* After the last page all of them are listed.
LEMMA MakeMapsOK ==
  ASSUME IInv, mon.pc = "list", MakeMaps(Listed(FromStart)), lbs' = lbs
  PROVE  MonOK' /\ LbsOK' /\ ListOK'
<1> DEFINE vpcMap == Listed(FromStart)
           kubeNames == {NameOf[s] : s \in {t \in Services : mon.services[t] # "other"}}
<1>1. PICK stale \in {StaleLbs(vpcMap)}, todo \in LbMaps :
        IF stale \cup todo = {}
        THEN EndRun
        ELSE /\ mon' = [mon EXCEPT !.pc = "process", !.vpcMap = vpcMap, !.start = 0,
                                   !.stale = stale, !.todo = todo]
             /\ UNCHANGED same
  BY DEF MakeMaps
<1>2. CASE stale \cup todo = {}
  <2>1. mon' = Idle /\ same' = {}
    BY <1>1, <1>2 DEF EndRun
  <2> QED
    BY <2>1, IdleOK, QuietOK
<1>3. CASE stale \cup todo # {}
  <2>1. FromStart \subseteq DOMAIN lbs
    BY DEF FromStart
  <2>2. /\ DOMAIN vpcMap \subseteq OwnNames
        /\ vpcMap \in [DOMAIN vpcMap -> Entry]
        /\ \A n \in DOMAIN vpcMap : vpcMap[n].id \in DOMAIN lbs => Name(vpcMap[n].id) = n
        /\ \A i \in FromStart : lbs[i].for \in Services =>
             /\ Name(i) \in DOMAIN vpcMap
             /\ vpcMap[Name(i)] = [id |-> i, status |-> lbs[i].status]
        /\ \A i \in DOMAIN lbs \ FromStart : Name(i) \in DOMAIN mon.vpcMap =>
             /\ Name(i) \in DOMAIN vpcMap
             /\ vpcMap[Name(i)] = mon.vpcMap[Name(i)]
    BY <2>1, ListedOK
  <2>3. \A i \in stale : \E n \in DOMAIN vpcMap : vpcMap[n].id = i /\ n \notin kubeNames
    BY DEF StaleLbs
  <2>4. todo \subseteq Services
    BY DEF LbMaps
  <2> HIDE DEF vpcMap
  <2>5. /\ mon'.pc = "process" /\ mon'.services = mon.services /\ mon'.start = 0
        /\ mon'.vpcMap = vpcMap /\ mon'.stale = stale /\ mon'.todo = todo
        /\ mon' = [pc |-> mon'.pc, services |-> mon'.services, start |-> mon'.start,
                   vpcMap |-> mon'.vpcMap, stale |-> mon'.stale, todo |-> mon'.todo]
        /\ same' = same
    BY <1>1, <1>3 DEF IInv, MonOK
  <2>6. stale \subseteq LbIds
    BY <2>2, <2>3 DEF Entry
  <2>7. MonOK'
    BY <1>3, <2>2, <2>4, <2>5, <2>6 DEF IInv, MonOK
  <2>8. LbsOK'
    BY DEF IInv, LbsOK, Name
  <2>9. ASSUME NEW i \in same', lbs'[i].for \in Services
        PROVE  Exact(i)'
    <3>1. i \in DOMAIN lbs /\ i \in Nat
      BY <2>5, LbsFacts, MonitorAssumption DEF IInv, ListOK
    <3>2. CASE i \in FromStart
      BY <3>2, <2>2, <2>5, <2>9 DEF Exact, Name
    <3>3. CASE i \notin FromStart
      <4>1. i < mon.start
        BY <3>1, <3>3, MonitorAssumption DEF FromStart, IInv, MonOK
      <4>2. Exact(i)
        BY <4>1, <2>5, <2>9 DEF IInv, ListOK, SameExact
      <4> QED
        BY <4>2, <3>1, <3>3, <2>2, <2>5 DEF Exact, Name
    <3> QED
      BY <3>2, <3>3
  <2>10. SameExact'
    BY <2>9 DEF SameExact
  <2>11. EntriesNamed'
    BY <2>2, <2>5 DEF EntriesNamed, Name
  <2>12. StaleListed'
    BY <2>3, <2>5 DEF StaleListed
  <2>13. same' \subseteq DOMAIN lbs'
    BY <2>5 DEF IInv, ListOK
  <2> QED
    BY <2>7, <2>8, <2>10, <2>11, <2>12, <2>13 DEF ListOK
<1> QED
  BY <1>2, <1>3

LEMMA ListPageOK ==
  ASSUME IInv, ListPage
  PROVE  MonOK' /\ LbsOK' /\ ListOK'
<1>1. mon.pc = "list" /\ lbs' = lbs
  BY DEF ListPage
<1>2. CASE Page(FromStart) = FromStart
  BY <1>1, <1>2, MakeMapsOK DEF ListPage
<1>3. CASE Page(FromStart) # FromStart
  <2>1. /\ mon' = [mon EXCEPT !.vpcMap = Listed(Page(FromStart)),
                              !.start = Min(FromStart \ Page(FromStart))]
        /\ same' = same
    BY <1>3 DEF ListPage
  <2> QED
    BY <1>1, <1>3, <2>1, NextPageOK
<1> QED
  BY <1>2, <1>3

LEMMA DeleteStaleOK ==
  ASSUME IInv, NEW i \in LbIds, DeleteStale(i)
  PROVE  MonOK' /\ LbsOK' /\ ListOK'
<1>1. mon.pc = "process" /\ Continue(mon.stale \ {i}, mon.todo)
  BY DEF DeleteStale
<1>2. MonKept /\ MonOK'
  BY <1>1, ContinueOK DEF IInv
<1>3. CASE i \in DOMAIN lbs /\ lbs[i].status \in {"active", "failed"}
  <2>1. Become([lbs EXCEPT ![i].status = "delete_pending"])
    BY <1>3 DEF DeleteStale
  <2>2. "delete_pending" \in Statuses
    BY DEF Statuses
  <2> QED
    BY <1>2, <1>3, <2>1, <2>2, StatusOK
<1>4. CASE ~(i \in DOMAIN lbs /\ lbs[i].status \in {"active", "failed"})
  <2>1. Become(lbs)
    BY <1>4 DEF DeleteStale
  <2> QED
    BY <1>2, <2>1, QuietOK DEF Become
<1> QED
  BY <1>3, <1>4

\* A service that has had an active load balancer all along is seen as active.
LEMMA SteadySeen ==
  ASSUME IInv, mon.pc = "process", NEW s \in Services, s \in Steady
  PROVE  NameOf[s] \in DOMAIN mon.vpcMap /\ mon.vpcMap[NameOf[s]].status = "active"
<1>1. PICK i \in same : lbs[i].status = "active" /\ lbs[i].for = s
  BY DEF Steady
<1>2. Exact(i) /\ Name(i) = NameOf[s]
  BY <1>1 DEF IInv, ListOK, SameExact, Name
<1> QED
  BY <1>1, <1>2 DEF Exact

Seen(s) == IF NameOf[s] \in DOMAIN mon.vpcMap THEN mon.vpcMap[NameOf[s]].status ELSE "not_found"

LEMMA VerifyFacts ==
  ASSUME IInv, NEW s \in Services, VerifyService(s)
  PROVE  /\ mon.pc = "process"
         /\ s \in mon.todo
         /\ status' = [status EXCEPT ![s] = Seen(s)]
         /\ Report(s, Seen(s))
         /\ ailing' = IF s \in Steady THEN ailing ELSE ailing \cup {s}
         /\ Continue({}, mon.todo \ {s})
         /\ same' \subseteq same
         /\ UNCHANGED <<kube, lbs, vpc, bounds>>
         /\ Seen(s) \in Statuses \cup {"not_found"}
         /\ Seen(s) # "active" => s \notin Steady
<1>1. /\ mon.pc = "process"
      /\ s \in mon.todo
      /\ status' = [status EXCEPT ![s] = Seen(s)]
      /\ Report(s, Seen(s))
      /\ ailing' = IF s \in Steady THEN ailing ELSE ailing \cup {s}
      /\ Continue({}, mon.todo \ {s})
      /\ UNCHANGED <<kube, lbs, vpc, bounds>>
  BY DEF VerifyService, Seen
<1>2. same' \subseteq same
  BY DEF VerifyService
<1>3. Seen(s) \in Statuses \cup {"not_found"}
  BY DEF Seen, IInv, MonOK, Entry
<1>4. Seen(s) # "active" => s \notin Steady
  BY <1>1, SteadySeen DEF Seen
<1> QED
  BY <1>1, <1>2, <1>3, <1>4

LEMMA VerifyOK ==
  ASSUME IInv, NEW s \in Services, VerifyService(s)
  PROVE  MonOK' /\ LbsOK' /\ ListOK' /\ MemoryOK' /\ UsersOK'
<1>1. MonKept /\ MonOK'
  BY VerifyFacts, ContinueOK DEF IInv
<1>2. LbsOK' /\ ListOK'
  BY <1>1, VerifyFacts, QuietOK
<1>3. UsersOK'
  BY VerifyFacts DEF bounds, IInv, UsersOK
<1>4. told' \in [Services -> {"none", "normal", "warning"}]
  BY VerifyFacts DEF Report, IInv, MemoryOK
<1>5. status' \in [Services -> Statuses \cup {"", "not_found"}]
  BY VerifyFacts DEF IInv, MemoryOK
<1>6. ASSUME NEW t \in Services, status'[t] \notin {"", "active"}
      PROVE  t \in ailing'
  <2>1. CASE t = s
    BY <1>6, <2>1, VerifyFacts DEF IInv, MemoryOK
  <2>2. CASE t # s
    BY <1>6, <2>2, VerifyFacts DEF IInv, MemoryOK
  <2> QED
    BY <2>1, <2>2
<1>7. ailing' \subseteq Services /\ vpc' = vpc
  <2>1. ailing' = ailing \/ ailing' = ailing \cup {s}
    BY VerifyFacts
  <2>2. ailing \subseteq Services
    BY DEF IInv, MemoryOK
  <2>3. vpc' = vpc
    BY VerifyFacts
  <2> QED
    BY <2>1, <2>2, <2>3
<1>8. \A t \in Services : status'[t] \notin {"", "active"} => t \in ailing'
  BY <1>6
<1>9. MemoryOK'
  BY <1>4, <1>5, <1>7, <1>8 DEF IInv, MemoryOK
<1> QED
  BY <1>1, <1>2, <1>3, <1>9

-----------------------------------------------------------------------------
(* The invariant. *)

LEMMA MemoryKept == ASSUME MemoryOK, UNCHANGED process PROVE MemoryOK'
  BY DEF MemoryOK, process

LEMMA EditOK == ASSUME UsersOK, Edit, UNCHANGED kube PROVE UsersOK'
  BY MonitorAssumption DEF Edit, UsersOK

LEMMA FaultOK == ASSUME UsersOK, Fault, UNCHANGED kube PROVE UsersOK'
  BY MonitorAssumption DEF Fault, UsersOK

LEMMA UsersKept == ASSUME UsersOK, UNCHANGED <<kube, bounds>> PROVE UsersOK'
  BY DEF UsersOK, bounds

LEMMA MonitorInit == Init => IInv
<1> SUFFICES ASSUME Init PROVE IInv
  OBVIOUS
<1>1. PICK id \in Injection(Others, LbIds) :
        lbs = [i \in Range(id) |->
                 [for |-> CHOOSE x \in DOMAIN id : id[x] = i, status |-> "active"]]
  BY DEF Init
<1>2. id \in [Others -> LbIds] /\ Range(id) \subseteq LbIds /\ DOMAIN lbs = Range(id)
  BY <1>1 DEF Injection, Range
<1>3. \A i \in DOMAIN lbs : /\ lbs[i].for \in Others /\ id[lbs[i].for] = i
                            /\ lbs[i] = [for |-> lbs[i].for, status |-> "active"]
  BY <1>1, <1>2 DEF Range
<1>4. \A i \in DOMAIN lbs : lbs[i] \in Lb
  BY <1>3 DEF Lb, Statuses
<1>5. \A i, j \in DOMAIN lbs : Name(i) = Name(j) => i = j
  <2>1. \A o \in Others : NameOf[o] = OtherName[o]
    BY MonitorAssumption DEF NameOf
  <2> SUFFICES ASSUME NEW i \in DOMAIN lbs, NEW j \in DOMAIN lbs, Name(i) = Name(j)
               PROVE  i = j
    OBVIOUS
  <2>2. lbs[i].for = lbs[j].for
    BY <1>3, <2>1, MonitorAssumption DEF Name
  <2> QED
    BY <1>3, <2>2
<1>6. LbsOK
  BY <1>1, <1>2, <1>4, <1>5 DEF LbsOK
<1>7. mon = Idle /\ same = {}
  BY DEF Init
<1>8. MonOK
  BY <1>7 DEF MonOK, Idle, Types
<1>9. ListOK
  BY <1>7 DEF ListOK, SameExact, EntriesNamed, StaleListed, Idle
<1>10. MemoryOK
  BY DEF Init, MemoryOK
<1>11. UsersOK
  <2>1. kube \in [Services -> Types]
    BY DEF Init, Types
  <2>2. edits \in 0..MaxEdits /\ faults \in 0..MaxFaults
    <3>1. edits = 0 /\ faults = 0
      BY DEF Init
    <3>2. MaxEdits \in Nat /\ MaxFaults \in Nat
      BY MonitorAssumption
    <3> QED
      BY <3>1, <3>2
  <2> QED
    BY <2>1, <2>2 DEF UsersOK
<1> QED
  BY <1>6, <1>8, <1>9, <1>10, <1>11 DEF IInv

LEMMA MonitorStep == IInv /\ [Next]_vars => IInv'
<1> SUFFICES ASSUME IInv, [Next]_vars PROVE IInv'
  OBVIOUS
<1> USE DEF IInv
<1>1. ASSUME NEW s \in Services, SetService(s) PROVE IInv'
  <2>1. kube' \in [Services -> Types]
    BY <1>1 DEF SetService, UsersOK
  <2>2. UsersOK'
    BY <1>1, <2>1, MonitorAssumption DEF SetService, Edit, UsersOK
  <2>3. MonKept /\ MonOK'
    BY <1>1, MonSame DEF SetService
  <2> QED
    BY <1>1, <2>2, <2>3, QuietOK, MemoryKept DEF SetService
<1>2. ASSUME NEW s \in Services, CreateLb(s) PROVE IInv'
  BY <1>2, MonSame, NewLbOK, MemoryKept, UsersKept DEF CreateLb
<1>3. CASE CreateOtherLb
  BY <1>3, MonSame, NewLbOK, MemoryKept, UsersKept DEF CreateOtherLb
<1>4. ASSUME NEW i \in LbIds, ChangeLb(i) PROVE IInv'
  <2>1. PICK st \in {"active", "failed", "delete_pending"} :
          Become([lbs EXCEPT ![i].status = st])
    BY <1>4 DEF ChangeLb
  <2>2. i \in DOMAIN lbs /\ st \in Statuses /\ mon' = mon
    BY <1>4 DEF ChangeLb, Statuses
  <2>3. LbsOK' /\ ListOK' /\ MonOK'
    BY <2>1, <2>2, MonSame, StatusOK
  <2> QED
    BY <1>4, <2>3, MemoryKept, EditOK DEF ChangeLb
<1>5. ASSUME NEW i \in LbIds, Settle(i) PROVE IInv'
  <2>1. i \in DOMAIN lbs /\ mon' = mon
    BY <1>5 DEF Settle
  <2>2. \/ Become([lbs EXCEPT ![i].status = "active"])
        \/ Become(Restrict(lbs, DOMAIN lbs \ {i}))
    BY <1>5 DEF Settle
  <2>3. "active" \in Statuses
    BY DEF Statuses
  <2>4. LbsOK' /\ ListOK' /\ MonOK'
    BY <2>1, <2>2, <2>3, MonSame, StatusOK, RemoveOK
  <2> QED
    BY <1>5, <2>4, MemoryKept, UsersKept DEF Settle
<1>6. CASE RotateKey
  <2>1. LbsOK' /\ MonOK' /\ ListOK'
    BY <1>6, MonSame, QuietOK DEF RotateKey
  <2>2. MemoryOK'
    BY <1>6 DEF RotateKey, MemoryOK
  <2> QED
    BY <1>6, <2>1, <2>2, FaultOK DEF RotateKey
<1>7. CASE Restart
  <2>1. LbsOK' /\ MonOK' /\ ListOK'
    BY <1>7, IdleOK, QuietOK DEF Restart
  <2>2. MemoryOK'
    BY <1>7 DEF Restart, MemoryOK
  <2> QED
    BY <1>7, <2>1, <2>2, FaultOK DEF Restart
<1>8. CASE InitFails
  BY <1>8, IdleOK, QuietOK, MemoryKept, FaultOK DEF InitFails, EndRun
<1>9. CASE ListFails
  BY <1>9, IdleOK, QuietOK, MemoryKept, FaultOK DEF ListFails, EndRun
<1>10. CASE VpcMonitorLoadBalancers
  BY <1>10, StartOK, MemoryKept, UsersKept DEF VpcMonitorLoadBalancers
<1>11. CASE InitCloudVpc
  <2>1. MemoryOK'
    BY <1>11 DEF InitCloudVpc, MemoryOK
  <2>2. UNCHANGED <<kube, bounds>>
    BY <1>11 DEF InitCloudVpc, bounds
  <2>3. UsersOK'
    BY <2>2, UsersKept
  <2>4. MonOK' /\ LbsOK' /\ ListOK'
    BY <1>11, InitOK
  <2> QED
    BY <2>1, <2>3, <2>4
<1>12. CASE ListPage
  BY <1>12, ListPageOK, MemoryKept, UsersKept DEF ListPage
<1>13. CASE ListRefused
  BY <1>13, IdleOK, QuietOK, MemoryKept, UsersKept DEF ListRefused, EndRun
<1>14. ASSUME NEW i \in LbIds, DeleteStale(i) PROVE IInv'
  BY <1>14, DeleteStaleOK, MemoryKept, UsersKept DEF DeleteStale
<1>15. ASSUME NEW s \in Services, VerifyService(s) PROVE IInv'
  BY <1>15, VerifyOK
<1>16. CASE UNCHANGED vars
  <2>1. LbsOK' /\ MonOK' /\ ListOK'
    BY <1>16, MonSame, QuietOK DEF vars
  <2>2. UNCHANGED process /\ UNCHANGED <<kube, bounds>>
    BY <1>16 DEF vars, process, bounds
  <2> QED
    <3>1. MemoryOK'
      BY <2>2, MemoryKept
    <3>2. UsersOK'
      BY <2>2, UsersKept
    <3> QED
      BY <2>1, <3>1, <3>2
<1> QED
  BY <1>1, <1>2, <1>3, <1>4, <1>5, <1>6, <1>7, <1>8, <1>9, <1>10, <1>11, <1>12, <1>13,
     <1>14, <1>15, <1>16 DEF Next, Run

LEMMA MonitorInvariant == Spec => []IInv
<1> QED
  BY MonitorInit, MonitorStep, PTL DEF Spec

-----------------------------------------------------------------------------
(* What the run of TLC checks on a small instance. *)

\* The state of a run, the load balancers and the memory keep their types.
THEOREM MonitorTypeCorrect == Spec => []TypeOK
<1> QED
  BY MonitorInvariant, IInvTypes, PTL

\* However many pages there are and whatever comes and goes while they are read,
\* a run holds every load balancer of the cluster that did not change as it is.
THEOREM PagesAreExact == Spec => []ListingExact
<1>1. IInv => ListingExact
  BY DEF IInv, ListOK, SameExact, Exact, ListingExact
<1> QED
  BY <1>1, MonitorInvariant, PTL

\* No run deletes a load balancer of another cluster, or one with a service in
\* the list the run began with.
THEOREM ForeignSpared == Spec => []OthersSpared
<1>1. IInv => OthersSpared
  <2> SUFFICES ASSUME IInv, NEW i \in mon.stale \cap DOMAIN lbs
               PROVE  lbs[i].for \in Services /\ mon.services[lbs[i].for] = "other"
    BY DEF OthersSpared
  <2>1. PICK n \in DOMAIN mon.vpcMap :
          /\ mon.vpcMap[n].id = i
          /\ \A s \in Services : mon.services[s] # "other" => NameOf[s] # n
    BY DEF IInv, ListOK, StaleListed
  <2>2. NameOf[lbs[i].for] = n /\ n \in OwnNames
    BY <2>1 DEF IInv, ListOK, EntriesNamed, MonOK, Name
  <2>3. lbs[i].for \in Services
    BY <2>2, LbsFacts, OtherNamesForeign DEF IInv
  <2> QED
    BY <2>1, <2>2, <2>3
<1> QED
  BY <1>1, MonitorInvariant, PTL

\* No warning after one look only, or while all is well.
THEOREM WarningsAreEarned == Spec => NoFalseAlarm
<1> DEFINE Earned == \A s \in Services : told[s] # "warning" /\ told'[s] = "warning" =>
                       s \notin Steady /\ s \in ailing
<1>1. IInv /\ [Next]_vars => [Earned]_vars
  <2> SUFFICES ASSUME IInv, [Next]_vars, NEW s \in Services,
                      told[s] # "warning", told'[s] = "warning"
               PROVE  s \notin Steady /\ s \in ailing
    OBVIOUS
  <2>1. PICK t \in Services : VerifyService(t)
    BY DEF Next, Run, vars, process, SetService, CreateLb, CreateOtherLb, ChangeLb, Settle,
           RotateKey, Restart, InitFails, ListFails, VpcMonitorLoadBalancers, InitCloudVpc,
           ListPage, ListRefused, DeleteStale
  <2>2. t = s /\ Seen(s) # "active" /\ status[s] = Seen(s)
    BY <2>1, VerifyFacts DEF Report, IInv, MemoryOK
  <2>3. Seen(s) # ""
    BY <2>1, <2>2, VerifyFacts DEF Statuses
  <2> QED
    BY <2>1, <2>2, <2>3, VerifyFacts DEF IInv, MemoryOK
<1> QED
  BY <1>1, MonitorInvariant, PTL DEF Spec, NoFalseAlarm
=============================================================================
