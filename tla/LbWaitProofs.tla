---------------------------- MODULE LbWaitProofs ----------------------------
(***************************************************************************)
(* Proofs about LbWait for every sleep, wait and latency.                  *)
(***************************************************************************)
EXTENDS LbWait, TLAPS

\* The clock at each point of the loop: it is at most maxWait before a sleep,
\* and i iterations have slept i times.
Clock ==
  /\ pc = "sleep" => elapsed <= maxWait
  /\ pc = "get" => elapsed <= maxWait + minSleep
  /\ elapsed <= maxWait + minSleep + MaxLatency
  /\ elapsed >= i * minSleep
  /\ pc = "get" => elapsed >= (i + 1) * minSleep
  /\ pc \in {"sleep", "get"} => i < Iterations

IInv == TypeOK /\ Clock /\ NoEarlyTimeout

\* The whole sleeps that fit in maxWait leave less than one sleep of it.
LEMMA DivisionBound ==
  ASSUME NEW a \in Nat, NEW b \in Nat \ {0}
  PROVE  /\ a \div b \in Nat
         /\ (a \div b) * b > a - b
  BY Z3

\* The arguments are numbers whatever pair was chosen.
LEMMA ArgumentTypes ==
  ASSUME <<minSleep, maxWait>> \in Waits
  PROVE  /\ minSleep \in Nat \ {0}
         /\ maxWait \in Nat
         /\ Iterations \in Nat
         /\ Iterations * minSleep > maxWait - minSleep
<1>1. minSleep \in Nat \ {0} /\ maxWait \in Nat
  BY WaitAssumption DEF WaitAssumption
<1> QED
  BY <1>1, DivisionBound DEF Iterations

LEMMA IInvInit == Init => IInv
<1> SUFFICES ASSUME Init PROVE IInv
  OBVIOUS
<1>1. <<minSleep, maxWait>> \in Waits
  <2>1. PICK w \in Waits : minSleep = w[1] /\ maxWait = w[2]
    BY DEF Init
  <2>2. w = <<w[1], w[2]>>
    BY WaitAssumption DEF WaitAssumption
  <2> QED
    BY <2>1, <2>2
<1>2. TypeOK
  BY <1>1, ArgumentTypes DEF Init, TypeOK, Status, Iterations
<1>3. Clock /\ NoEarlyTimeout
  BY <1>1, ArgumentTypes, WaitAssumption
  DEF Init, Clock, NoEarlyTimeout, WaitAssumption
<1> QED
  BY <1>2, <1>3 DEF IInv

LEMMA IInvStep == IInv /\ [Next]_vars => IInv'
<1> SUFFICES ASSUME IInv, [Next]_vars PROVE IInv'
  OBVIOUS
<1> USE DEF IInv
<1>1. /\ minSleep \in Nat \ {0}
      /\ maxWait \in Nat
      /\ Iterations \in Nat
      /\ Iterations * minSleep > maxWait - minSleep
      /\ MaxLatency \in Nat
      /\ i \in 0..Iterations
  BY ArgumentTypes, WaitAssumption DEF TypeOK, WaitAssumption, Iterations
<1>2. CASE StatusChange
  BY <1>1, <1>2
  DEF StatusChange, args, TypeOK, Clock, NoEarlyTimeout, Results, Status, Iterations
<1>3. CASE ReturnReady
  BY <1>1, <1>3
  DEF ReturnReady, Head, args, TypeOK, Clock, NoEarlyTimeout, Results, Iterations
<1>4. CASE GiveUp
  <2>1. elapsed > maxWait - minSleep
    <3>1. CASE i >= Iterations
      <4>1. i = Iterations
        BY <1>1, <3>1
      <4> QED
        BY <1>1, <4>1 DEF Clock, TypeOK
    <3>2. CASE elapsed > maxWait
      BY <1>1, <3>2 DEF TypeOK
    <3> QED
      BY <1>4, <3>1, <3>2 DEF GiveUp
  <2> QED
    BY <1>1, <1>4, <2>1
    DEF GiveUp, Head, args, TypeOK, Clock, NoEarlyTimeout, Results, Iterations
<1>5. CASE SleepNext
  BY <1>1, <1>5
  DEF SleepNext, Head, args, TypeOK, Clock, NoEarlyTimeout, Results, Iterations
<1>6. CASE Sleep
  BY <1>1, <1>6
  DEF Sleep, args, TypeOK, Clock, NoEarlyTimeout, Results, Iterations
<1>7. CASE GetLoadBalancer
  BY <1>1, <1>7
  DEF GetLoadBalancer, args, TypeOK, Clock, NoEarlyTimeout, Results, Status, Iterations
<1>8. CASE GetFails
  BY <1>1, <1>8
  DEF GetFails, args, TypeOK, Clock, NoEarlyTimeout, Results, Iterations
<1>9. CASE UNCHANGED vars
  BY <1>9 DEF vars, TypeOK, Clock, NoEarlyTimeout, Iterations
<1> QED
  BY <1>2, <1>3, <1>4, <1>5, <1>6, <1>7, <1>8, <1>9 DEF Next, Wait

LEMMA IInvHolds == Spec => []IInv
  BY IInvInit, IInvStep, PTL DEF Spec

\* However slow the API is, a wait overruns maxWait by at most one sleep and
\* one Get, for every sleep and wait a caller may use.
THEOREM WaitIsBounded == Spec => []BoundedWait
<1>1. IInv => BoundedWait
  BY DEF IInv, Clock, BoundedWait
<1> QED
  BY <1>1, IInvHolds, PTL

\* A wait reports "not ready" only in the last sleep before maxWait or later,
\* for every sleep and wait a caller may use.
THEOREM WaitIsNotCutShort == Spec => []NoEarlyTimeout
<1>1. IInv => NoEarlyTimeout
  BY DEF IInv
<1> QED
  BY <1>1, IInvHolds, PTL

\* The loop never does more iterations than it may, for every sleep and wait.
THEOREM WaitTypeCorrect == Spec => []TypeOK
<1>1. IInv => TypeOK
  BY DEF IInv
<1> QED
  BY <1>1, IInvHolds, PTL
=============================================================================
