------------------------- MODULE WorkerPolicyProofs -------------------------
(***************************************************************************)
(* The worker count is right for every number of cores, topics and         *)
(* requested workers.  The scan keeps what it has passed in mind: no       *)
(* number between where it is and where it began divides K.                *)
(***************************************************************************)
EXTENDS WorkerPolicy, TLAPS

Inputs ==
  /\ sequential \in BOOLEAN
  /\ requested \in 0..MaxRequest /\ cores \in 0..MaxCores /\ K \in 0..MaxTopics

(* Nothing the scan has passed divides K.                                   *)
Passed == \A n \in d + 1..Request : K % n # 0

Scanning ==
  /\ mode = "pipeline" /\ ~FallsBack
  /\ d \in 1..Request /\ Passed

Progress ==
  \/ pc = "decide" /\ mode = "undecided" /\ d = 0 /\ workers = 0
  \/ pc = "scan" /\ Scanning /\ workers = 0
  \/ pc = "done" /\ Scanning /\ workers = d /\ EqualShare(d)
  \/ pc = "done" /\ mode = "sequential" /\ d = 0 /\ workers = 0

IInv == Inputs /\ Progress

(* With topics and cores to use, the first candidate is a possible pool.    *)
LEMMA RequestRange ==
  ASSUME Inputs, ~FallsBack
  PROVE  Request \in 1..K
<1> USE BoundsAssumption
<1>1. K \in Nat /\ K > 0 /\ cores \in Nat /\ cores >= 3 /\ requested \in Nat
  BY DEF Inputs, FallsBack
<1>2. AtMost(cores, K) \in 1..K
  BY <1>1 DEF AtMost
<1> QED
  BY <1>1, <1>2 DEF Request, AtMost

(* One worker is always an even share, so the scan ends before zero.        *)
LEMMA OneDivides ==
  ASSUME NEW n \in Nat
  PROVE  n % 1 = 0
<1> QED
  OBVIOUS

LEMMA InvariantHolds == Spec => []IInv
<1>1. Init => IInv
  BY BoundsAssumption DEF Init, IInv, Inputs, Progress
<1>2. IInv /\ [Next]_vars => IInv'
  <2> SUFFICES ASSUME IInv, [Next]_vars PROVE IInv'
    OBVIOUS
  <2> USE DEF IInv
  <2>1. CASE ChooseSequential
    BY <2>1 DEF ChooseSequential, Inputs, Progress, inputs
  <2>2. CASE ChoosePipeline
    <3>1. Request \in 1..K /\ K \in Nat
      BY <2>2, RequestRange, BoundsAssumption DEF ChoosePipeline, Inputs
    <3>2. Request' = Request /\ FallsBack' = FallsBack /\ Inputs'
      BY <2>2 DEF ChoosePipeline, inputs, Request, AtMost, FallsBack, Inputs
    <3>3. d' \in 1..Request /\ d' + 1..Request = {}
      BY <2>2, <3>1 DEF ChoosePipeline
    <3>4. Scanning' /\ workers = 0
      BY <2>2, <3>2, <3>3 DEF ChoosePipeline, Scanning, Passed, Progress, inputs
    <3> QED
      BY <2>2, <3>2, <3>4 DEF ChoosePipeline, Progress
  <2>3. CASE Accept
    <3>1. Scanning /\ Request' = Request /\ FallsBack' = FallsBack /\ Inputs'
      BY <2>3 DEF Accept, inputs, Request, AtMost, FallsBack, Inputs, Progress, Scanning
    <3>2. Scanning' /\ EqualShare(d)'
      BY <2>3, <3>1 DEF Accept, inputs, Scanning, Passed, EqualShare
    <3> QED
      BY <2>3, <3>1, <3>2 DEF Accept, Progress
  <2>4. CASE Descend
    <3>1. Scanning /\ workers = 0 /\ Request' = Request /\ FallsBack' = FallsBack /\ Inputs'
      BY <2>4 DEF Descend, inputs, Request, AtMost, FallsBack, Inputs, Progress, Scanning
    <3>2. K \in Nat /\ Request \in 1..K
      BY <3>1, RequestRange, BoundsAssumption DEF Scanning, Inputs
    <3>3. d # 1
      BY <2>4, <3>2, OneDivides DEF Descend, EqualShare
    <3>4. d' = d - 1 /\ d' \in 1..Request /\ K % d # 0 /\ K' = K
      BY <2>4, <3>1, <3>2, <3>3 DEF Descend, EqualShare, Scanning, inputs
    <3>5. ASSUME NEW n \in d' + 1..Request PROVE K % n # 0
      <4>1. n = d \/ n \in d + 1..Request
        BY <3>1, <3>2, <3>4 DEF Scanning
      <4> QED
        BY <4>1, <3>1, <3>4 DEF Scanning, Passed
    <3>6. Scanning'
      BY <2>4, <3>1, <3>4, <3>5 DEF Descend, Scanning, Passed
    <3> QED
      BY <2>4, <3>1, <3>6 DEF Descend, Progress
  <2>5. CASE UNCHANGED vars
    BY <2>5 DEF vars, inputs, Inputs, Progress, Scanning, Passed, Request, AtMost,
                FallsBack, EqualShare
  <2> QED
    BY <2>1, <2>2, <2>3, <2>4, <2>5 DEF Next
<1> QED
  BY <1>1, <1>2, PTL DEF Spec

(* Every variable keeps its type and the scan never divides by zero,        *)
(* whatever the machine, the bag and the request.                           *)
THEOREM ScanIsSafe == Spec => []TypeOK
<1>1. IInv => TypeOK
  <2> SUFFICES ASSUME IInv PROVE TypeOK
    OBVIOUS
  <2>1. Scanning => d \in 1..K /\ K \in 0..MaxTopics
    BY RequestRange, BoundsAssumption DEF IInv, Inputs, Scanning
  <2> QED
    BY <2>1, BoundsAssumption DEF IInv, Inputs, Progress, Scanning, TypeOK
<1> QED
  BY <1>1, InvariantHolds, PTL

(* A pipeline's pool always divides the slots evenly: resolve_worker_policy *)
(* establishes what ParallelConvert assumes as PoolAssumption.              *)
THEOREM PoolAlwaysFits == Spec => []PoolFitsSlots
<1>1. IInv => PoolFitsSlots
  <2> SUFFICES ASSUME IInv, pc = "done", mode = "pipeline"
               PROVE  workers \in 1..K /\ K % workers = 0
    BY DEF PoolFitsSlots
  <2>1. Scanning /\ workers = d /\ EqualShare(d)
    BY DEF IInv, Progress
  <2>2. Request \in 1..K /\ K \in Nat
    BY <2>1, RequestRange, BoundsAssumption DEF IInv, Inputs, Scanning
  <2> QED
    BY <2>1, <2>2 DEF Scanning, EqualShare
<1> QED
  BY <1>1, InvariantHolds, PTL

(* No admissible larger pool is ever passed over by largest_divisor_le.     *)
THEOREM PoolIsLargest == Spec => []LargestEvenShare
<1>1. IInv => LargestEvenShare
  <2> SUFFICES ASSUME IInv, pc = "done", mode = "pipeline"
               PROVE  \A n \in workers + 1..K : n > Request \/ K % n # 0
    BY DEF LargestEvenShare
  <2>1. Scanning /\ workers = d
    BY DEF IInv, Progress
  <2>2. K \in Nat /\ Request \in 1..K
    BY <2>1, RequestRange, BoundsAssumption DEF IInv, Inputs, Scanning
  <2>3. ASSUME NEW n \in workers + 1..K, n <= Request
        PROVE  K % n # 0
    <3>1. n \in d + 1..Request
      BY <2>1, <2>2, <2>3 DEF Scanning
    <3> QED
      BY <2>1, <3>1 DEF Scanning, Passed
  <2> QED
    BY <2>1, <2>2, <2>3 DEF Scanning
<1> QED
  BY <1>1, InvariantHolds, PTL
=============================================================================
