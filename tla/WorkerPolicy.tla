---------------------------- MODULE WorkerPolicy ----------------------------
(***************************************************************************)
(* resolve_worker_policy: which driver convert() runs and how many workers *)
(* the pipeline gets.  run_convert_parallel splits its K slots into        *)
(* K / workers consecutive blocks and looks every slot's worker up in that *)
(* split, so a count that does not divide K would leave slots unowned.     *)
(***************************************************************************)
EXTENDS Integers

CONSTANTS MaxCores, MaxRequest, MaxTopics   (* bounds of the inputs *)

ASSUME BoundsAssumption ==
  MaxCores \in Nat /\ MaxRequest \in Nat /\ MaxTopics \in Nat

VARIABLES
  sequential, requested,   (* ConvertOptions: sequential and workers, 0: auto *)
  cores,                   (* hardware_concurrency(), 0 when it is unknown    *)
  K,                       (* decoded topics                                  *)
  pc,
  d,                       (* the divisor largest_divisor_le is at            *)
  mode, workers            (* the policy                                      *)

inputs == <<sequential, requested, cores, K>>
vars == <<inputs, pc, d, mode, workers>>

AtMost(a, b) == IF a <= b THEN a ELSE b

Init ==
  /\ sequential \in BOOLEAN
  /\ requested \in 0..MaxRequest /\ cores \in 0..MaxCores /\ K \in 0..MaxTopics
  /\ pc = "decide" /\ d = 0
  /\ mode = "undecided" /\ workers = 0

(* A definition marked "variant" is a plausible mistake in the next one.    *)

(* variant: an empty bag is not a reason to fall back.                      *)
FallsBackWithTopicsOnly == sequential \/ cores < 3
FallsBack == sequential \/ cores < 3 \/ K = 0

Request == AtMost(IF requested > 0 THEN requested ELSE AtMost(cores, K), K)

(* variant: any count below K is good enough.                               *)
AnyShare(n) == TRUE
EqualShare(n) == K % n = 0

ChooseSequential ==
  /\ pc = "decide" /\ FallsBack
  /\ pc' = "done" /\ mode' = "sequential"
  /\ UNCHANGED <<inputs, d, workers>>

ChoosePipeline ==
  /\ pc = "decide" /\ ~FallsBack
  /\ pc' = "scan" /\ mode' = "pipeline" /\ d' = Request
  /\ UNCHANGED <<inputs, workers>>

(* largest_divisor_le, from the request downwards.  K divides itself, so a  *)
(* request of K or more is settled at the first look.                       *)
Accept ==
  /\ pc = "scan" /\ EqualShare(d)
  /\ pc' = "done" /\ workers' = d
  /\ UNCHANGED <<inputs, d, mode>>

(* variant: the scan halves the count.                                      *)
Halve ==
  /\ pc = "scan" /\ ~EqualShare(d)
  /\ d' = d \div 2
  /\ UNCHANGED <<inputs, pc, mode, workers>>

Descend ==
  /\ pc = "scan" /\ ~EqualShare(d)
  /\ d' = d - 1
  /\ UNCHANGED <<inputs, pc, mode, workers>>

Next == ChooseSequential \/ ChoosePipeline \/ Accept \/ Descend

Spec == Init /\ [][Next]_vars

-----------------------------------------------------------------------------
(* Properties.                                                              *)

(* The scan stays at counts of at least one worker and never divides by 0.  *)
TypeOK ==
  /\ sequential \in BOOLEAN
  /\ requested \in 0..MaxRequest /\ cores \in 0..MaxCores /\ K \in 0..MaxTopics
  /\ pc \in {"decide", "scan", "done"}
  /\ mode \in {"undecided", "sequential", "pipeline"}
  /\ d \in 0..MaxTopics /\ workers \in 0..MaxTopics
  /\ pc = "scan" => d > 0

(* What run_convert_parallel relies on: whenever the pipeline is chosen it  *)
(* gets workers, and they share the slots evenly (PoolAssumption of         *)
(* ParallelConvert).                                                        *)
PoolFitsSlots ==
  pc = "done" /\ mode = "pipeline" => workers \in 1..K /\ K % workers = 0

(* The pool is as large as it may be: every larger count is either more     *)
(* than was asked for, more than there are topics, or an uneven share.      *)
LargestEvenShare ==
  pc = "done" /\ mode = "pipeline" =>
    \A n \in workers + 1..K : n > Request \/ K % n # 0
=============================================================================
