---------------------------- MODULE BoundedQueue ----------------------------
(***************************************************************************)
(* BoundedQueue and the flag it polls, at the level of condition variables *)
(* and notifications.  Between two waits the mutex is held, so a critical  *)
(* section is one step; a notification sent after the unlock is a step of  *)
(* its own.  Raising the abort flag notifies nobody: a waiter then depends *)
(* on the k_wait_backoff timeout alone.                                    *)
(*                                                                         *)
(* Producers push a number of items each and the last one to leave closes  *)
(* the queue; consumers pop until they are refused.  Items are alike here. *)
(***************************************************************************)
EXTENDS Integers, FiniteSets

CONSTANTS Producers, Consumers, Capacity, Pushes (* per producer *)

ASSUME QueueAssumption ==
  /\ IsFiniteSet(Producers) /\ Producers # {}
  /\ IsFiniteSet(Consumers) /\ Consumers # {}
  /\ Producers \cap Consumers = {}
  /\ Capacity \in Nat \ {0} /\ Pushes \in Nat \ {0}

VARIABLES
  size,     (* q_.size()                                                    *)
  closed,
  aborted,
  pc,       (* where each thread stands                                     *)
  left,     (* pushes each producer still has to make                       *)
  active    (* producers that have not left                                 *)

vars == <<size, closed, aborted, pc, left, active>>
Threads == Producers \cup Consumers

(* "ready": about to take the lock; "asleep": in wait_for on the side's     *)
(* condition variable.                                                      *)
Asleep(side) == {t \in side : pc[t] = "asleep"}
Ready(side) == {t \in side : pc[t] = "ready"}
Notifying == {p \in Producers : pc[p] = "notify"}

Init ==
  /\ size = 0 /\ closed = FALSE /\ aborted = FALSE
  /\ pc = [t \in Threads |-> "ready"]
  /\ left = [p \in Producers |-> Pushes]
  /\ active = Cardinality(Producers)

(* The variants are plausible mistakes in the definition that follows.      *)

(* notify_one: any one of the waiters, if there is one.                     *)
WokenByOne(side) ==
  IF Asleep(side) = {} THEN {{}} ELSE {{t} : t \in Asleep(side)}
(* variant: close() forgets the waiters.                                    *)
WokenByNone(side) == {}
WokenByAll(side) == Asleep(side)

(* t moves on and the threads it notified compete for the lock again.       *)
Moves(t, to, woken) ==
  pc' = [u \in Threads |-> IF u = t THEN to ELSE IF u \in woken THEN "ready" ELSE pc[u]]

(* The wait conditions of push() and pop().                                 *)
MustWaitForItem == size = 0 /\ ~closed /\ ~aborted
(* variant: room for one item too many.                                     *)
MustWaitForRoomTooLate == size > Capacity /\ ~closed /\ ~aborted
MustWaitForRoom == size >= Capacity /\ ~closed /\ ~aborted

AfterPush(p) == IF left[p] = 1 THEN "release" ELSE "ready"

-----------------------------------------------------------------------------
PushWaits(p) ==
  /\ pc[p] = "ready" /\ MustWaitForRoom
  /\ Moves(p, "asleep", {})
  /\ UNCHANGED <<size, closed, aborted, left, active>>

PushRefused(p) ==
  /\ pc[p] = "ready" /\ (closed \/ aborted)
  /\ left' = [left EXCEPT ![p] = @ - 1]
  /\ Moves(p, AfterPush(p), {})
  /\ UNCHANGED <<size, closed, aborted, active>>

PushAccepted(p) ==
  /\ pc[p] = "ready" /\ ~MustWaitForRoom /\ ~(closed \/ aborted)
  /\ size' = size + 1
  /\ Moves(p, "notify", {})
  /\ UNCHANGED <<closed, aborted, left, active>>

(* variant: an accepted push notifies nobody.                               *)
PushForgetsToNotify(p) ==
  /\ pc[p] = "notify"
  /\ Moves(p, AfterPush(p), {})
  /\ left' = [left EXCEPT ![p] = @ - 1]
  /\ UNCHANGED <<size, closed, aborted, active>>

PushNotifies(p) ==
  /\ pc[p] = "notify"
  /\ \E woken \in WokenByOne(Consumers) : Moves(p, AfterPush(p), woken)
  /\ left' = [left EXCEPT ![p] = @ - 1]
  /\ UNCHANGED <<size, closed, aborted, active>>

(* active_producers.fetch_sub: the last producer closes the queue.          *)
Release(p) ==
  /\ pc[p] = "release"
  /\ active' = active - 1
  /\ Moves(p, IF active = 1 THEN "close" ELSE "done", {})
  /\ UNCHANGED <<size, closed, aborted, left>>

Close(p) ==
  /\ pc[p] = "close"
  /\ closed' = TRUE
  /\ Moves(p, "notify_items", {})
  /\ UNCHANGED <<size, aborted, left, active>>

CloseNotifiesItems(p) ==
  /\ pc[p] = "notify_items"
  /\ Moves(p, "notify_room", WokenByAll(Consumers))
  /\ UNCHANGED <<size, closed, aborted, left, active>>

CloseNotifiesRoom(p) ==
  /\ pc[p] = "notify_room"
  /\ Moves(p, "done", WokenByAll(Producers))
  /\ UNCHANGED <<size, closed, aborted, left, active>>

PopWaits(c) ==
  /\ pc[c] = "ready" /\ MustWaitForItem
  /\ Moves(c, "asleep", {})
  /\ UNCHANGED <<size, closed, aborted, left, active>>

PopTakes(c) ==
  /\ pc[c] = "ready" /\ size > 0
  /\ size' = size - 1
  /\ \E woken \in WokenByOne(Producers) : Moves(c, "ready", woken)
  /\ UNCHANGED <<closed, aborted, left, active>>

(* variant: closed is tested before the queue is.                           *)
PopEndsOnceClosed(c) ==
  /\ pc[c] = "ready" /\ closed
  /\ Moves(c, "done", {})
  /\ UNCHANGED <<size, closed, aborted, left, active>>

PopEnds(c) ==
  /\ pc[c] = "ready" /\ size = 0 /\ ~MustWaitForItem
  /\ Moves(c, "done", {})
  /\ UNCHANGED <<size, closed, aborted, left, active>>

(* A consumer that stops popping: its own work failed, or it saw the flag.  *)
ConsumerLeaves(c) ==
  /\ pc[c] = "ready" /\ aborted
  /\ Moves(c, "done", {})
  /\ UNCHANGED <<size, closed, aborted, left, active>>

(* AbortFlag::set, by any thread of the pipeline, also one that does not    *)
(* use this queue.                                                          *)
Abort ==
  /\ ~aborted
  /\ aborted' = TRUE
  /\ UNCHANGED <<size, closed, pc, left, active>>

(* variant: wait() instead of wait_for().                                   *)
WaitHasNoTimeout(t) == FALSE /\ UNCHANGED vars

(* wait_for returns without a notification: timeout or spurious wake-up.    *)
WaitExpires(t) ==
  /\ pc[t] = "asleep"
  /\ Moves(t, "ready", {})
  /\ UNCHANGED <<size, closed, aborted, left, active>>

Producer(p) ==
  \/ PushWaits(p) \/ PushRefused(p) \/ PushAccepted(p) \/ PushNotifies(p)
  \/ Release(p) \/ Close(p) \/ CloseNotifiesItems(p) \/ CloseNotifiesRoom(p)

Consumer(c) == PopWaits(c) \/ PopTakes(c) \/ PopEnds(c) \/ ConsumerLeaves(c)

AllDone == \A t \in Threads : pc[t] = "done"
Finished == AllDone /\ UNCHANGED vars

Next ==
  \/ \E p \in Producers : Producer(p)
  \/ \E c \in Consumers : Consumer(c)
  \/ \E t \in Threads : WaitExpires(t)
  \/ Abort
  \/ Finished

Spec == Init /\ [][Next]_vars

(* Threads are scheduled.  A timeout is relied on only once the flag is up: *)
(* before that the notifications alone have to keep everyone moving.        *)
Fairness ==
  /\ \A p \in Producers : WF_vars(Producer(p))
  /\ \A c \in Consumers : WF_vars(Consumer(c))
  /\ \A t \in Threads : WF_vars(aborted /\ WaitExpires(t))

FairSpec == Spec /\ Fairness

-----------------------------------------------------------------------------
(* Properties.                                                              *)

(* The queue never outgrows its capacity and every variable has its type.   *)
TypeOK ==
  /\ size \in 0..Capacity
  /\ closed \in BOOLEAN /\ aborted \in BOOLEAN
  /\ pc \in [Threads -> {"ready", "asleep", "notify", "release", "close",
                         "notify_items", "notify_room", "done"}]
  /\ left \in [Producers -> 0..Pushes]
  /\ active \in 0..Cardinality(Producers)

(* No wake-up is lost: as long as nothing aborted, a consumer sleeps only   *)
(* while every item in the queue has a notification on its way or a         *)
(* consumer awake to take it, and a producer sleeps only while every free   *)
(* place has a producer awake to fill it.                                   *)
NoLostWakeup ==
  ~aborted =>
    /\ Asleep(Consumers) # {} =>
         size <= Cardinality(Notifying) + Cardinality(Ready(Consumers))
    /\ Asleep(Producers) # {} => Capacity - size <= Cardinality(Ready(Producers))

(* Once closed, sleepers remain only until close() has notified them.       *)
CloseWakesEveryone ==
  closed /\ ~aborted =>
    /\ Asleep(Producers) = {}
    /\ Asleep(Consumers) # {} => \E p \in Producers : pc[p] = "notify_items"

(* Without an abort nothing that was accepted stays behind in the queue.    *)
DrainedAtEnd == AllDone /\ ~aborted => size = 0

(* Every call returns and every thread finishes, whether the queue is       *)
(* closed in the end or an abort comes at any moment.                       *)
EveryCallReturns == <>AllDone
=============================================================================
