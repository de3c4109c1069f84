------------------------------- MODULE LbWait -------------------------------
(***************************************************************************)
(* WaitLoadBalancerReady (vpc_lbaas.go): the polling loop between two      *)
(* updates of UpdateLoadBalancer, with its clock.  The load balancer moves *)
(* on by itself, becomes busy again when another process sends a request,  *)
(* and may be deleted; a Get takes up to MaxLatency seconds or fails.      *)
(***************************************************************************)
EXTENDS Integers

CONSTANTS
  Waits,       \* <<minSleep, maxWait>> pairs the callers use, in seconds
  MaxLatency   \* bound on the seconds one Get takes

ASSUME WaitAssumption ==
  /\ Waits \subseteq (Nat \ {0}) \X Nat
  /\ MaxLatency \in Nat

VARIABLES
  status,    \* of the load balancer, as the VPC API has it
  lb,        \* its status when it was last read
  minSleep, maxWait,  \* the arguments
  i,         \* iterations done
  elapsed,   \* seconds since startTime
  pc         \* "head" of the loop, "sleep", "get", or the result

vars == <<status, lb, minSleep, maxWait, i, elapsed, pc>>
args == <<minSleep, maxWait>>

Status  == {"ready", "busy", "gone"}
Results == {"ok", "not ready", "error"}

TypeOK ==
  /\ status \in Status
  /\ lb \in {"ready", "busy"}
  /\ <<minSleep, maxWait>> \in Waits
  /\ i \in 0..(maxWait \div minSleep)
  /\ elapsed \in Nat
  /\ pc \in {"head", "sleep", "get"} \cup Results

\* Called only with a load balancer that was just seen busy.
Init ==
  /\ status \in Status
  /\ lb = "busy"
  /\ \E w \in Waits : minSleep = w[1] /\ maxWait = w[2]
  /\ i = 0
  /\ elapsed = 0
  /\ pc = "head"

-----------------------------------------------------------------------------
StatusChange ==
  /\ pc \notin Results
  /\ status # "gone"
  /\ status' \in Status \ {status}
  /\ UNCHANGED <<lb, args, i, elapsed, pc>>

\* The tests at the head of an iteration.
Head(next) ==
  /\ pc = "head"
  /\ pc' = next
  /\ UNCHANGED <<status, lb, args, i, elapsed>>

\* Mutant: one iteration too few.
MutantIterations == maxWait \div minSleep - 1

Iterations == maxWait \div minSleep

ReturnReady == i < Iterations /\ lb = "ready" /\ Head("ok")

\* Mutant: the loop does not look at the time.
MutantGiveUp == i >= Iterations /\ Head("not ready")

GiveUp ==
  /\ i >= Iterations \/ (lb # "ready" /\ elapsed > maxWait)
  /\ Head("not ready")

\* Mutant: one iteration too many.
MutantLastIteration ==
  /\ i <= Iterations
  /\ lb # "ready"
  /\ elapsed <= maxWait
  /\ Head("sleep")

\* Mutant: the time is tested only when the loop ends.
MutantNoTimeout ==
  /\ i < Iterations
  /\ lb # "ready"
  /\ Head("sleep")

SleepNext ==
  /\ i < Iterations
  /\ lb # "ready"
  /\ elapsed <= maxWait
  /\ Head("sleep")

Sleep ==
  /\ pc = "sleep"
  /\ elapsed' = elapsed + minSleep
  /\ pc' = "get"
  /\ UNCHANGED <<status, lb, args, i>>

GetLoadBalancer ==
  /\ pc = "get"
  /\ status # "gone"
  /\ \E t \in 0..MaxLatency : elapsed' = elapsed + t
  /\ lb' = status
  /\ i' = i + 1
  /\ pc' = "head"
  /\ UNCHANGED <<status, args>>

\* The load balancer is gone, or the call fails.
GetFails ==
  /\ pc = "get"
  /\ \E t \in 0..MaxLatency : elapsed' = elapsed + t
  /\ pc' = "error"
  /\ UNCHANGED <<status, lb, args, i>>

Wait == ReturnReady \/ GiveUp \/ SleepNext \/ Sleep \/ GetLoadBalancer \/ GetFails

Next == StatusChange \/ Wait

Spec == Init /\ [][Next]_vars

FairSpec == Spec /\ WF_vars(Wait)

-----------------------------------------------------------------------------
(* Properties. *)

\* However slow the API is, the wait overruns maxWait by one more sleep and
\* one more Get at most.
BoundedWait == elapsed <= maxWait + minSleep + MaxLatency

\* The wait never gives up more than one sleep before maxWait, although it
\* counts iterations and not seconds.
NoEarlyTimeout == pc = "not ready" => elapsed > maxWait - minSleep

\* The wait ends.
Termination == <>(pc \in Results)

\* vpc_lbaas.go:740 "until the state of the load balancer goes to
\* Online/Active -OR- until the maxWait timeout occurs": a wait whose last Get
\* found the load balancer ready within maxWait does not report that it is
\* not ready.
ReadyIsReported == pc = "not ready" /\ elapsed <= maxWait => lb # "ready"
=============================================================================
