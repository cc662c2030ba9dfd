-------------------------- MODULE BoundedQueueProofs --------------------------
(***************************************************************************)
(* Proofs about BoundedQueue, for any number of producers and consumers,   *)
(* any capacity and any number of pushes: no notification is lost, close() *)
(* leaves no sleeper behind, and nothing accepted stays in the queue.      *)
(*                                                                         *)
(* The wake-up argument counts: an item that arrives while somebody sleeps *)
(* comes with a notification on its way, and a consumer it wakes is one    *)
(* more that is awake.  That the consumers' ends meet needs the count of   *)
(* producers: closed means that no producer is left in push().             *)
(***************************************************************************)
EXTENDS BoundedQueue, FiniteSetTheorems, TLAPS

Places == {"ready", "asleep", "notify", "release", "close",
           "notify_items", "notify_room", "done"}

(* Where the threads stand; a producer in push() still has one to make.     *)
Control ==
  /\ size \in 0..Capacity
  /\ closed \in BOOLEAN /\ aborted \in BOOLEAN
  /\ pc \in [Threads -> Places]
  /\ \A c \in Consumers : pc[c] \in {"ready", "asleep", "done"}
  /\ left \in [Producers -> 0..Pushes]
  /\ \A p \in Producers : pc[p] \in {"ready", "asleep", "notify"} => left[p] # 0

(* The producers that active counts.                                        *)
Pushing == {p \in Producers : pc[p] \in {"ready", "asleep", "notify", "release"}}
Counted == active = Cardinality(Pushing)

ClosesLast ==
  /\ closed => active = 0
  /\ \A p \in Producers : pc[p] = "close" => active = 0

WakesForItems ==
  ~aborted /\ Asleep(Consumers) # {} =>
    size <= Cardinality(Notifying) + Cardinality(Ready(Consumers))

WakesForRoom ==
  ~aborted /\ Asleep(Producers) # {} => Capacity - size <= Cardinality(Ready(Producers))

(* A consumer that sleeps on a closed queue is about to be notified.        *)
CloseNotifies ==
  closed /\ Asleep(Consumers) # {} => \E p \in Producers : pc[p] = "notify_items"

(* A consumer ends undisturbed only on a closed and empty queue.            *)
LeavesEmpty ==
  ~aborted => \A c \in Consumers : pc[c] = "done" => closed /\ size = 0

IInv ==
  /\ Control /\ Counted /\ ClosesLast
  /\ WakesForItems /\ WakesForRoom /\ CloseNotifies /\ LeavesEmpty

-----------------------------------------------------------------------------
(* Sides are finite, and moving a thread moves it in and out of them.       *)

LEMMA Sides ==
  /\ IsFiniteSet(Producers) /\ Producers # {}
  /\ IsFiniteSet(Consumers) /\ Consumers # {}
  /\ \A p \in Producers : p \in Threads /\ p \notin Consumers
  /\ \A c \in Consumers : c \in Threads /\ c \notin Producers
  /\ Capacity \in Nat \ {0} /\ Pushes \in Nat \ {0}
  BY QueueAssumption DEF Threads

LEMMA SetsFinite ==
  /\ IsFiniteSet(Pushing) /\ Cardinality(Pushing) \in Nat
  /\ IsFiniteSet(Notifying) /\ Cardinality(Notifying) \in Nat
  /\ IsFiniteSet(Ready(Producers)) /\ Cardinality(Ready(Producers)) \in Nat
  /\ IsFiniteSet(Ready(Consumers)) /\ Cardinality(Ready(Consumers)) \in Nat
<1>1. Pushing \in SUBSET Producers /\ Notifying \in SUBSET Producers
  BY DEF Pushing, Notifying
<1>2. Ready(Producers) \in SUBSET Producers /\ Ready(Consumers) \in SUBSET Consumers
  BY DEF Ready
<1>. QED
  BY <1>1, <1>2, Sides, FS_Subset, FS_CardinalityType

(* The same holds of the next state: only the constants say so.             *)
LEMMA SetsAfter ==
  /\ Cardinality(Notifying') \in Nat
  /\ Cardinality(Ready(Consumers)') \in Nat /\ Cardinality(Ready(Producers)') \in Nat
<1>1. Notifying' \in SUBSET Producers
  BY DEF Notifying
<1>2. Ready(Producers)' \in SUBSET Producers /\ Ready(Consumers)' \in SUBSET Consumers
  BY DEF Ready
<1>. QED
  BY <1>1, <1>2, Sides, FS_Subset, FS_CardinalityType

(* Adding and removing one element.                                       *)
LEMMA OneMore ==
  ASSUME NEW S, IsFiniteSet(S), NEW x, x \notin S
  PROVE  Cardinality(S \cup {x}) = Cardinality(S) + 1
  BY FS_AddElement

LEMMA OneLess ==
  ASSUME NEW S, IsFiniteSet(S), NEW x \in S
  PROVE  Cardinality(S \ {x}) = Cardinality(S) - 1
  BY FS_RemoveElement

LEMMA MoveFacts ==
  ASSUME Control, NEW t \in Threads, NEW to, NEW woken, Moves(t, to, woken)
  PROVE  /\ pc'[t] = to
         /\ \A u \in Threads : u # t => pc'[u] = IF u \in woken THEN "ready" ELSE pc[u]
         /\ pc' = [u \in Threads |-> pc'[u]]
  BY DEF Moves

LEMMA WokenIsAsleep ==
  ASSUME NEW side, NEW woken \in WokenByOne(side)
  PROVE  \/ woken = {} /\ Asleep(side) = {}
         \/ \E t \in Asleep(side) : woken = {t}
  BY DEF WokenByOne

-----------------------------------------------------------------------------
(* Where the threads stand.                                                 *)

LEMMA ControlInit == Init => Control
<1>. SUFFICES ASSUME Init PROVE Control
  OBVIOUS
<1>1. size \in 0..Capacity
  BY Sides DEF Init
<1>2. left \in [Producers -> 0..Pushes] /\ \A p \in Producers : left[p] # 0
  BY Sides DEF Init
<1>3. pc \in [Threads -> Places] /\ \A t \in Threads : pc[t] = "ready"
  BY DEF Init, Places
<1>. QED
  BY <1>1, <1>2, <1>3, Sides DEF Init, Control

LEMMA ControlStep ==
  ASSUME Control, [Next]_vars
  PROVE  Control'
<1>. USE Sides
<1>0. /\ size \in 0..Capacity /\ closed \in BOOLEAN /\ aborted \in BOOLEAN
      /\ pc \in [Threads -> Places] /\ left \in [Producers -> 0..Pushes]
      /\ \A c \in Consumers : pc[c] \in {"ready", "asleep", "done"}
      /\ \A p \in Producers : pc[p] \in {"ready", "asleep", "notify"} => left[p] # 0
  BY DEF Control
<1>a. ASSUME NEW t \in Threads, NEW to \in Places, NEW woken, Moves(t, to, woken),
             UNCHANGED <<closed, aborted, left>> \/ (closed' = TRUE /\ UNCHANGED <<aborted, left>>),
             size' \in 0..Capacity,
             t \in Consumers => to \in {"ready", "asleep", "done"},
             t \in Producers /\ to \in {"ready", "asleep", "notify"} => left[t] # 0,
             woken \subseteq Asleep(Threads)
      PROVE  Control'
  <2>1. /\ pc'[t] = to /\ pc' = [u \in Threads |-> pc'[u]]
        /\ \A u \in Threads : u # t => pc'[u] = IF u \in woken THEN "ready" ELSE pc[u]
    BY <1>a, MoveFacts
  <2>2. \A u \in Threads : u # t => pc'[u] = pc[u] \/ (pc[u] = "asleep" /\ pc'[u] = "ready")
    BY <1>a, <2>1 DEF Asleep
  <2>3. pc' \in [Threads -> Places]
    BY <1>0, <1>a, <2>1, <2>2 DEF Places
  <2>4. \A c \in Consumers : pc'[c] \in {"ready", "asleep", "done"}
    BY <1>0, <1>a, <2>1, <2>2
  <2>5. \A p \in Producers : pc'[p] \in {"ready", "asleep", "notify"} => left[p] # 0
    BY <1>0, <1>a, <2>1, <2>2
  <2>. QED
    BY <1>0, <1>a, <2>3, <2>4, <2>5 DEF Control
<1>b. ASSUME NEW p \in Producers, pc[p] \in {"ready", "notify"}, NEW woken,
             Moves(p, AfterPush(p), woken), woken \subseteq Asleep(Threads),
             left' = [left EXCEPT ![p] = left[p] - 1], UNCHANGED <<size, closed, aborted>>
      PROVE  Control'
  <2>1. /\ pc'[p] = AfterPush(p) /\ pc' = [u \in Threads |-> pc'[u]]
        /\ \A u \in Threads : u # p => pc'[u] = IF u \in woken THEN "ready" ELSE pc[u]
    BY <1>b, MoveFacts
  <2>2. \A u \in Threads : u # p => pc'[u] = pc[u] \/ (pc[u] = "asleep" /\ pc'[u] = "ready")
    BY <1>b, <2>1 DEF Asleep
  <2>3. /\ left[p] \in 1..Pushes /\ left'[p] = left[p] - 1
        /\ \A u \in Producers : u # p => left'[u] = left[u]
        /\ left' \in [Producers -> 0..Pushes]
    BY <1>0, <1>b
  <2>4. pc'[p] = "release" \/ (pc'[p] = "ready" /\ left'[p] # 0)
    BY <2>1, <2>3 DEF AfterPush
  <2>5. pc' \in [Threads -> Places]
    BY <1>0, <2>1, <2>2, <2>4 DEF Places
  <2>6. \A c \in Consumers : pc'[c] \in {"ready", "asleep", "done"}
    BY <1>0, <2>2
  <2>7. \A u \in Producers : pc'[u] \in {"ready", "asleep", "notify"} => left'[u] # 0
    BY <1>0, <2>2, <2>3, <2>4
  <2>. QED
    BY <1>0, <1>b, <2>3, <2>5, <2>6, <2>7 DEF Control
<1>1. ASSUME NEW p \in Producers, PushWaits(p) PROVE Control'
  BY <1>0, <1>1, <1>a DEF PushWaits, Places
<1>2. ASSUME NEW p \in Producers, PushRefused(p) PROVE Control'
  <2>1. /\ pc[p] = "ready" /\ Moves(p, AfterPush(p), {})
        /\ left' = [left EXCEPT ![p] = left[p] - 1] /\ UNCHANGED <<size, closed, aborted>>
    BY <1>2 DEF PushRefused
  <2>2. PICK woken : woken = {}
    OBVIOUS
  <2>3. Moves(p, AfterPush(p), woken) /\ woken \subseteq Asleep(Threads)
    BY <2>1, <2>2
  <2>. QED
    BY <2>1, <2>3, <1>b
<1>3. ASSUME NEW p \in Producers, PushAccepted(p) PROVE Control'
  <2>1. size + 1 \in 0..Capacity
    BY <1>0, <1>3 DEF PushAccepted, MustWaitForRoom
  <2>. QED
    BY <1>0, <1>3, <2>1, <1>a DEF PushAccepted, Places
<1>4. ASSUME NEW p \in Producers, PushNotifies(p) PROVE Control'
  <2>1. PICK woken \in WokenByOne(Consumers) : Moves(p, AfterPush(p), woken)
    BY <1>4 DEF PushNotifies
  <2>2. woken \subseteq Asleep(Threads)
    BY <2>1, WokenIsAsleep DEF Asleep
  <2>. QED
    BY <1>4, <2>1, <2>2, <1>b DEF PushNotifies
<1>5. ASSUME NEW p \in Producers, Release(p) PROVE Control'
  <2>1. (IF active = 1 THEN "close" ELSE "done") \in Places \ {"ready", "asleep", "notify"}
    BY DEF Places
  <2>. QED
    BY <1>0, <1>5, <2>1, <1>a DEF Release
<1>6. ASSUME NEW p \in Producers, Close(p) PROVE Control'
  BY <1>0, <1>6, <1>a DEF Close, Places
<1>7. ASSUME NEW p \in Producers, CloseNotifiesItems(p) PROVE Control'
  BY <1>0, <1>7, <1>a DEF CloseNotifiesItems, Places, WokenByAll, Asleep
<1>8. ASSUME NEW p \in Producers, CloseNotifiesRoom(p) PROVE Control'
  BY <1>0, <1>8, <1>a DEF CloseNotifiesRoom, Places, WokenByAll, Asleep
<1>9. ASSUME NEW c \in Consumers, PopWaits(c) PROVE Control'
  BY <1>0, <1>9, <1>a DEF PopWaits, Places
<1>10. ASSUME NEW c \in Consumers, PopTakes(c) PROVE Control'
  <2>1. PICK woken \in WokenByOne(Producers) : Moves(c, "ready", woken)
    BY <1>10 DEF PopTakes
  <2>2. woken \subseteq Asleep(Threads)
    BY <2>1, WokenIsAsleep DEF Asleep
  <2>3. size - 1 \in 0..Capacity
    BY <1>0, <1>10 DEF PopTakes
  <2>. QED
    BY <1>10, <2>1, <2>2, <2>3, <1>a DEF PopTakes, Places
<1>11. ASSUME NEW c \in Consumers, PopEnds(c) \/ ConsumerLeaves(c) PROVE Control'
  <2>1. Moves(c, "done", {}) /\ UNCHANGED <<size, closed, aborted, left>>
    BY <1>11 DEF PopEnds, ConsumerLeaves
  <2>. QED
    BY <1>0, <2>1, <1>a DEF Places
<1>12. ASSUME NEW t \in Threads, WaitExpires(t) PROVE Control'
  <2>1. t \in Producers => left[t] # 0
    BY <1>0, <1>12 DEF WaitExpires
  <2>. QED
    BY <1>0, <1>12, <2>1, <1>a DEF WaitExpires, Places
<1>13. CASE Abort \/ UNCHANGED vars
  BY <1>13 DEF Control, Abort, vars
<1>. QED
  BY <1>1, <1>2, <1>3, <1>4, <1>5, <1>6, <1>7, <1>8, <1>9, <1>10, <1>11, <1>12, <1>13
  DEF Next, Producer, Consumer, Finished

-----------------------------------------------------------------------------
(* What a move does to the sets that are counted.                           *)

LEMMA SideMoves ==
  ASSUME Control, NEW t \in Threads, NEW to, NEW woken, Moves(t, to, woken),
         woken \subseteq Asleep(Threads), NEW side \in {Producers, Consumers}
  PROVE  /\ Ready(side)' = IF t \in side /\ to = "ready"
                           THEN Ready(side) \cup (woken \cap side) \cup {t}
                           ELSE (Ready(side) \cup (woken \cap side)) \ {t}
         /\ Asleep(side)' = IF t \in side /\ to = "asleep"
                            THEN (Asleep(side) \ woken) \cup {t}
                            ELSE Asleep(side) \ (woken \cup {t})
<1>1. /\ pc'[t] = to
      /\ \A u \in Threads : u # t => pc'[u] = IF u \in woken THEN "ready" ELSE pc[u]
  BY MoveFacts
<1>2. side \subseteq Threads
  BY Sides
<1>3. \A u \in woken : pc[u] = "asleep"
  BY DEF Asleep
<1>4. \A u \in Threads : u # t => (pc'[u] = "ready" <=> pc[u] = "ready" \/ u \in woken)
  BY <1>1
<1>5. \A u \in Threads : u # t => (pc'[u] = "asleep" <=> pc[u] = "asleep" /\ u \notin woken)
  BY <1>1
<1>6. Ready(side)' = {u \in side : pc'[u] = "ready"}
  BY DEF Ready
<1>7. Asleep(side)' = {u \in side : pc'[u] = "asleep"}
  BY DEF Asleep
<1>. QED
  BY <1>1, <1>2, <1>4, <1>5, <1>6, <1>7 DEF Ready, Asleep

LEMMA ProducerMoves ==
  ASSUME Control, NEW t \in Threads, NEW to, NEW woken, Moves(t, to, woken),
         woken \subseteq Asleep(Threads)
  PROVE  /\ Notifying' = IF t \in Producers /\ to = "notify"
                          THEN Notifying \cup {t} ELSE Notifying \ {t}
         /\ Pushing' = IF t \in Producers /\ to \in {"ready", "asleep", "notify", "release"}
                        THEN Pushing \cup {t} ELSE Pushing \ {t}
<1>1. /\ pc'[t] = to
      /\ \A u \in Threads : u # t => pc'[u] = IF u \in woken THEN "ready" ELSE pc[u]
  BY MoveFacts
<1>2. Producers \subseteq Threads
  BY Sides
<1>3. \A u \in woken : pc[u] = "asleep"
  BY DEF Asleep
<1>4. \A u \in Threads : u # t => (pc'[u] = "notify" <=> pc[u] = "notify")
  BY <1>1, <1>3
<1>5. \A u \in Threads : u # t =>
         (pc'[u] \in {"ready", "asleep", "notify", "release"}
            <=> pc[u] \in {"ready", "asleep", "notify", "release"})
  BY <1>1, <1>3
<1>6. Notifying' = {u \in Producers : pc'[u] = "notify"}
  BY DEF Notifying
<1>7. Pushing' = {u \in Producers : pc'[u] \in {"ready", "asleep", "notify", "release"}}
  BY DEF Pushing
<1>. QED
  BY <1>1, <1>2, <1>4, <1>5, <1>6, <1>7 DEF Notifying, Pushing

-----------------------------------------------------------------------------
(* active counts the producers in push(): the queue is closed after them.   *)

LEMMA CountStep ==
  ASSUME Control, Counted, ClosesLast, [Next]_vars
  PROVE  Counted' /\ ClosesLast'
<1>. USE Sides
<1>0. /\ closed \in BOOLEAN /\ pc \in [Threads -> Places]
      /\ \A c \in Consumers : pc[c] \in {"ready", "asleep", "done"}
      /\ left \in [Producers -> 0..Pushes]
      /\ IsFiniteSet(Pushing) /\ active = Cardinality(Pushing) /\ active \in Nat
      /\ closed => active = 0
      /\ \A p \in Producers : pc[p] = "close" => active = 0
  BY SetsFinite DEF Control, Counted, ClosesLast
<1>a. ASSUME NEW t \in Threads, NEW to, NEW woken, Moves(t, to, woken),
             woken \subseteq Asleep(Threads), to # "close",
             t \in Producers => (pc[t] \in {"ready", "asleep", "notify", "release"}
                                  <=> to \in {"ready", "asleep", "notify", "release"}),
             active' = active, closed' = closed \/ active = 0
      PROVE  Counted' /\ ClosesLast'
  <2>1. Pushing' = Pushing
    BY <1>a, ProducerMoves DEF Pushing
  <2>2. \A u \in Producers : pc'[u] = "close" => pc[u] = "close"
    BY <1>a, MoveFacts DEF Asleep
  <2>3. closed' => active' = 0
    BY <1>0, <1>a
  <2>. QED
    BY <1>0, <1>a, <2>1, <2>2, <2>3 DEF Counted, ClosesLast
<1>1. ASSUME NEW p \in Producers, PushWaits(p) PROVE Counted' /\ ClosesLast'
  BY <1>0, <1>1, <1>a DEF PushWaits
<1>2. ASSUME NEW p \in Producers, PushRefused(p) PROVE Counted' /\ ClosesLast'
  <2>1. AfterPush(p) \in {"ready", "release"}
    BY DEF AfterPush
  <2>2. pc[p] = "ready" /\ Moves(p, AfterPush(p), {}) /\ UNCHANGED <<closed, active>>
    BY <1>2 DEF PushRefused
  <2>. QED
    BY <1>0, <2>1, <2>2, <1>a
<1>3. ASSUME NEW p \in Producers, PushAccepted(p) PROVE Counted' /\ ClosesLast'
  BY <1>0, <1>3, <1>a DEF PushAccepted
<1>4. ASSUME NEW p \in Producers, PushNotifies(p) PROVE Counted' /\ ClosesLast'
  <2>1. PICK woken \in WokenByOne(Consumers) : Moves(p, AfterPush(p), woken)
    BY <1>4 DEF PushNotifies
  <2>2. woken \subseteq Asleep(Threads)
    BY <2>1, WokenIsAsleep DEF Asleep
  <2>3. AfterPush(p) \in {"ready", "release"}
    BY DEF AfterPush
  <2>4. pc[p] = "notify" /\ UNCHANGED <<closed, active>>
    BY <1>4 DEF PushNotifies
  <2>. QED
    BY <1>0, <2>1, <2>2, <2>3, <2>4, <1>a
<1>5. ASSUME NEW p \in Producers, Release(p) PROVE Counted' /\ ClosesLast'
  <2>1. /\ pc[p] = "release" /\ active' = active - 1 /\ UNCHANGED closed
        /\ Moves(p, IF active = 1 THEN "close" ELSE "done", {})
    BY <1>5 DEF Release
  <2>2. p \in Pushing
    BY <2>1 DEF Pushing
  <2>3. Pushing' = Pushing \ {p}
    BY <2>1, ProducerMoves
  <2>4. Cardinality(Pushing') = active - 1
    BY <1>0, <2>2, <2>3, OneLess
  <2>5. active # 0
    BY <1>0, <2>2, FS_EmptySet
  <2>6. \A u \in Producers : pc'[u] = "close" => active = 1
    BY <1>0, <2>1, <2>5, MoveFacts
  <2>7. closed' => active' = 0
    BY <1>0, <2>1, <2>5
  <2>. QED
    BY <1>0, <2>1, <2>4, <2>6, <2>7 DEF Counted, ClosesLast
<1>6. ASSUME NEW p \in Producers, Close(p) PROVE Counted' /\ ClosesLast'
  <2>1. pc[p] = "close" /\ active = 0 /\ UNCHANGED active /\ Moves(p, "notify_items", {})
    BY <1>0, <1>6 DEF Close
  <2>. QED
    BY <2>1, <1>a
<1>7. ASSUME NEW p \in Producers, CloseNotifiesItems(p) PROVE Counted' /\ ClosesLast'
  BY <1>0, <1>7, <1>a DEF CloseNotifiesItems, WokenByAll, Asleep
<1>8. ASSUME NEW p \in Producers, CloseNotifiesRoom(p) PROVE Counted' /\ ClosesLast'
  BY <1>0, <1>8, <1>a DEF CloseNotifiesRoom, WokenByAll, Asleep
<1>9. ASSUME NEW c \in Consumers, Consumer(c) PROVE Counted' /\ ClosesLast'
  <2>1. PICK to \in {"ready", "asleep", "done"}, woken \in SUBSET Asleep(Threads) :
           Moves(c, to, woken) /\ UNCHANGED <<closed, active>>
    BY <1>9, WokenIsAsleep
    DEF Consumer, PopWaits, PopTakes, PopEnds, ConsumerLeaves, WokenByOne, Asleep
  <2>. QED
    BY <1>0, <2>1, <1>a
<1>10. ASSUME NEW t \in Threads, WaitExpires(t) PROVE Counted' /\ ClosesLast'
  BY <1>0, <1>10, <1>a DEF WaitExpires
<1>11. CASE Abort \/ UNCHANGED vars
  BY <1>11 DEF Counted, ClosesLast, Pushing, Abort, vars
<1>. QED
  BY <1>1, <1>2, <1>3, <1>4, <1>5, <1>6, <1>7, <1>8, <1>9, <1>10, <1>11
  DEF Next, Producer, Finished

-----------------------------------------------------------------------------
(* An item that arrives while a consumer sleeps comes with a notification.  *)

LEMMA ItemsStep ==
  ASSUME IInv, [Next]_vars
  PROVE  WakesForItems'
<1>. USE Sides
<1>0. /\ Control /\ closed \in BOOLEAN /\ aborted \in BOOLEAN
      /\ size \in Nat /\ Capacity \in Nat
      /\ \A c \in Consumers : pc[c] \in {"ready", "asleep", "done"}
      /\ closed => Pushing = {}
      /\ IsFiniteSet(Notifying) /\ Cardinality(Notifying) \in Nat
      /\ IsFiniteSet(Ready(Consumers)) /\ Cardinality(Ready(Consumers)) \in Nat
      /\ ~aborted /\ Asleep(Consumers) # {} =>
            size <= Cardinality(Notifying) + Cardinality(Ready(Consumers))
  <2>1. closed => Pushing = {}
    BY SetsFinite, FS_EmptySet DEF IInv, ClosesLast, Counted
  <2>. QED
    BY <2>1, SetsFinite DEF IInv, Control, WakesForItems
<1>. SUFFICES ASSUME ~aborted', Asleep(Consumers)' # {}
              PROVE  size' <= Cardinality(Notifying') + Cardinality(Ready(Consumers)')
  BY DEF WakesForItems
<1>b. ~aborted
  BY <1>0 DEF Next, Producer, Consumer, Finished, PushWaits, PushRefused, PushAccepted,
              PushNotifies, Release, Close, CloseNotifiesItems, CloseNotifiesRoom, PopWaits,
              PopTakes, PopEnds, ConsumerLeaves, Abort, WaitExpires, vars
(* Nothing that is counted moves.                                           *)
<1>a. ASSUME NEW p \in Producers, pc[p] # "notify", NEW to, to # "notify",
             NEW woken, woken \in SUBSET Asleep(Producers), Moves(p, to, woken), size' = size
      PROVE  size' <= Cardinality(Notifying') + Cardinality(Ready(Consumers)')
  <2>1. p \in Threads /\ p \notin Consumers /\ woken \subseteq Asleep(Threads)
    BY <1>a DEF Asleep, Threads
  <2>2. Notifying' = Notifying
    BY <1>0, <1>a, <2>1, ProducerMoves DEF Notifying
  <2>3. woken \cap Consumers = {}
    BY <1>a DEF Asleep
  <2>4. Ready(Consumers)' = Ready(Consumers)
    BY <1>0, <1>a, <2>1, <2>3, SideMoves DEF Ready
  <2>5. Asleep(Consumers)' = Asleep(Consumers)
    BY <1>0, <1>a, <2>1, <2>3, SideMoves DEF Asleep
  <2>. QED
    BY <1>0, <1>a, <1>b, <2>2, <2>4, <2>5
<1>1. ASSUME NEW p \in Producers, PushWaits(p)
      PROVE  size' <= Cardinality(Notifying') + Cardinality(Ready(Consumers)')
  BY <1>1, <1>a DEF PushWaits
<1>2. ASSUME NEW p \in Producers, PushRefused(p)
      PROVE  size' <= Cardinality(Notifying') + Cardinality(Ready(Consumers)')
  <2>1. p \in Pushing /\ closed
    BY <1>2, <1>b DEF PushRefused, Pushing
  <2>. QED
    BY <1>0, <2>1
<1>3. ASSUME NEW p \in Producers, PushAccepted(p)
      PROVE  size' <= Cardinality(Notifying') + Cardinality(Ready(Consumers)')
  <2>1. /\ pc[p] = "ready" /\ size' = size + 1 /\ Moves(p, "notify", {})
        /\ p \in Threads /\ p \notin Consumers /\ {} \subseteq Asleep(Threads)
    BY <1>3 DEF PushAccepted
  <2>2. Notifying' = Notifying \cup {p} /\ p \notin Notifying
    BY <1>0, <2>1, ProducerMoves DEF Notifying
  <2>3. Ready(Consumers)' = Ready(Consumers) /\ Asleep(Consumers)' = Asleep(Consumers)
    BY <1>0, <2>1, SideMoves DEF Ready, Asleep
  <2>4. Cardinality(Notifying') = Cardinality(Notifying) + 1
    BY <1>0, <2>2, OneMore
  <2>. QED
    BY <1>0, <1>b, <2>1, <2>3, <2>4
<1>4. ASSUME NEW p \in Producers, PushNotifies(p)
      PROVE  size' <= Cardinality(Notifying') + Cardinality(Ready(Consumers)')
  <2>1. PICK woken \in WokenByOne(Consumers) : Moves(p, AfterPush(p), woken)
    BY <1>4 DEF PushNotifies
  <2>2. /\ pc[p] = "notify" /\ size' = size /\ AfterPush(p) \in {"ready", "release"}
        /\ p \in Threads /\ p \notin Consumers /\ p \in Notifying
    BY <1>4 DEF PushNotifies, AfterPush, Notifying
  <2>3. woken \subseteq Asleep(Threads) /\ woken \subseteq Asleep(Consumers)
    BY <2>1, WokenIsAsleep DEF Asleep, Threads
  <2>4. Notifying' = Notifying \ {p}
    BY <1>0, <2>1, <2>2, <2>3, ProducerMoves
  <2>5. Cardinality(Notifying') = Cardinality(Notifying) - 1
    BY <1>0, <2>2, <2>4, OneLess
  <2>6. Ready(Consumers)' = Ready(Consumers) \cup woken
    BY <1>0, <2>1, <2>2, <2>3, SideMoves DEF Ready, Asleep
  <2>7. Asleep(Consumers)' = Asleep(Consumers) \ woken
    BY <1>0, <2>1, <2>2, <2>3, SideMoves DEF Asleep
  <2>8. Asleep(Consumers) # {}
    BY <2>7
  <2>9. PICK c \in Asleep(Consumers) : woken = {c}
    BY <2>1, <2>8, WokenIsAsleep
  <2>10. c \notin Ready(Consumers)
    BY DEF Ready, Asleep
  <2>11. Cardinality(Ready(Consumers)') = Cardinality(Ready(Consumers)) + 1
    BY <1>0, <2>6, <2>9, <2>10, OneMore
  <2>. QED
    BY <1>0, <1>b, <2>2, <2>5, <2>8, <2>11
<1>5. ASSUME NEW p \in Producers, Release(p)
      PROVE  size' <= Cardinality(Notifying') + Cardinality(Ready(Consumers)')
  <2>1. /\ pc[p] = "release" /\ size' = size
        /\ Moves(p, IF active = 1 THEN "close" ELSE "done", {})
    BY <1>5 DEF Release
  <2>. QED
    BY <2>1, <1>a
<1>6. ASSUME NEW p \in Producers, Close(p)
      PROVE  size' <= Cardinality(Notifying') + Cardinality(Ready(Consumers)')
  BY <1>6, <1>a DEF Close
<1>7. ASSUME NEW p \in Producers, CloseNotifiesItems(p)
      PROVE  size' <= Cardinality(Notifying') + Cardinality(Ready(Consumers)')
  <2>1. Moves(p, "notify_room", Asleep(Consumers)) /\ p \in Threads /\ p \notin Consumers
    BY <1>7 DEF CloseNotifiesItems, WokenByAll
  <2>2. Asleep(Consumers) \subseteq Asleep(Threads)
    BY DEF Asleep, Threads
  <2>3. Asleep(Consumers)' = {}
    BY <1>0, <2>1, <2>2, SideMoves
  <2>. QED
    BY <2>3
<1>8. ASSUME NEW p \in Producers, CloseNotifiesRoom(p)
      PROVE  size' <= Cardinality(Notifying') + Cardinality(Ready(Consumers)')
  BY <1>8, <1>a DEF CloseNotifiesRoom, WokenByAll
<1>9. ASSUME NEW c \in Consumers, PopWaits(c) \/ PopEnds(c)
      PROVE  size' <= Cardinality(Notifying') + Cardinality(Ready(Consumers)')
  <2>1. size' = 0
    BY <1>9 DEF PopWaits, PopEnds, MustWaitForItem
  <2>. QED
    BY <2>1, SetsAfter
<1>10. ASSUME NEW c \in Consumers, PopTakes(c)
      PROVE  size' <= Cardinality(Notifying') + Cardinality(Ready(Consumers)')
  <2>1. PICK woken \in WokenByOne(Producers) : Moves(c, "ready", woken)
    BY <1>10 DEF PopTakes
  <2>2. pc[c] = "ready" /\ size' = size - 1 /\ c \in Threads /\ c \notin Producers
    BY <1>10 DEF PopTakes
  <2>3. woken \subseteq Asleep(Threads) /\ woken \subseteq Asleep(Producers)
    BY <2>1, WokenIsAsleep DEF Asleep, Threads
  <2>4. woken \cap Consumers = {}
    BY <2>3 DEF Asleep
  <2>5. Notifying' = Notifying
    BY <1>0, <2>1, <2>2, <2>3, ProducerMoves DEF Notifying
  <2>6. Ready(Consumers)' = Ready(Consumers)
    BY <1>0, <2>1, <2>2, <2>3, <2>4, SideMoves DEF Ready
  <2>7. Asleep(Consumers)' = Asleep(Consumers)
    BY <1>0, <2>1, <2>2, <2>3, <2>4, SideMoves DEF Asleep
  <2>. QED
    BY <1>0, <1>b, <2>2, <2>5, <2>6, <2>7
<1>11. ASSUME NEW c \in Consumers, ConsumerLeaves(c)
      PROVE  size' <= Cardinality(Notifying') + Cardinality(Ready(Consumers)')
  BY <1>11, <1>b DEF ConsumerLeaves
<1>12. ASSUME NEW t \in Producers, WaitExpires(t)
      PROVE  size' <= Cardinality(Notifying') + Cardinality(Ready(Consumers)')
  BY <1>12, <1>a DEF WaitExpires
<1>13. ASSUME NEW t \in Consumers, WaitExpires(t)
      PROVE  size' <= Cardinality(Notifying') + Cardinality(Ready(Consumers)')
  <2>1. /\ pc[t] = "asleep" /\ Moves(t, "ready", {}) /\ size' = size
        /\ t \in Threads /\ t \notin Producers /\ {} \subseteq Asleep(Threads)
    BY <1>13 DEF WaitExpires
  <2>2. Notifying' = Notifying
    BY <1>0, <2>1, ProducerMoves DEF Notifying
  <2>3. Ready(Consumers)' = Ready(Consumers) \cup {t} /\ t \notin Ready(Consumers)
    BY <1>0, <2>1, SideMoves DEF Ready
  <2>4. Cardinality(Ready(Consumers)') = Cardinality(Ready(Consumers)) + 1
    BY <1>0, <2>3, OneMore
  <2>5. Asleep(Consumers) # {}
    BY <1>13, <2>1 DEF Asleep
  <2>. QED
    BY <1>0, <1>b, <2>1, <2>2, <2>4, <2>5
<1>14. CASE Abort \/ UNCHANGED vars
  BY <1>0, <1>b, <1>14 DEF Abort, vars, Notifying, Ready, Asleep
<1>. QED
  BY <1>1, <1>2, <1>3, <1>4, <1>5, <1>6, <1>7, <1>8, <1>9, <1>10, <1>11, <1>12, <1>13, <1>14
  DEF Next, Producer, Consumer, Finished, Threads

-----------------------------------------------------------------------------
(* A place that comes free while a producer sleeps wakes one.               *)

LEMMA RoomStep ==
  ASSUME IInv, [Next]_vars
  PROVE  WakesForRoom'
<1>. USE Sides
<1>0. /\ Control /\ closed \in BOOLEAN /\ aborted \in BOOLEAN
      /\ size \in Nat /\ Capacity \in Nat
      /\ \A c \in Consumers : pc[c] \in {"ready", "asleep", "done"}
      /\ closed => Pushing = {}
      /\ IsFiniteSet(Ready(Producers)) /\ Cardinality(Ready(Producers)) \in Nat
      /\ ~aborted /\ Asleep(Producers) # {} => Capacity - size <= Cardinality(Ready(Producers))
  <2>1. closed => Pushing = {}
    BY SetsFinite, FS_EmptySet DEF IInv, ClosesLast, Counted
  <2>. QED
    BY <2>1, SetsFinite DEF IInv, Control, WakesForRoom
<1>. SUFFICES ASSUME ~aborted', Asleep(Producers)' # {}
              PROVE  Capacity - size' <= Cardinality(Ready(Producers)')
  BY DEF WakesForRoom
<1>b. ~aborted
  BY <1>0 DEF Next, Producer, Consumer, Finished, PushWaits, PushRefused, PushAccepted,
              PushNotifies, Release, Close, CloseNotifiesItems, CloseNotifiesRoom, PopWaits,
              PopTakes, PopEnds, ConsumerLeaves, Abort, WaitExpires, vars
<1>c. Cardinality(Ready(Producers)') \in Nat
  BY SetsAfter
(* A step that takes no producer out of "ready" and none to sleep.          *)
<1>a. ASSUME NEW t \in Threads, NEW to, to # "asleep", NEW woken, woken \in SUBSET Asleep(Consumers),
             Moves(t, to, woken), size' = size, t \in Producers => pc[t] # "ready"
      PROVE  Capacity - size' <= Cardinality(Ready(Producers)')
  <2>1. woken \subseteq Asleep(Threads) /\ woken \cap Producers = {}
    BY <1>a DEF Asleep, Threads
  <2>2. Asleep(Producers) # {}
    BY <1>0, <1>a, <2>1, SideMoves
  <2>3. Ready(Producers)' = Ready(Producers) \/ Ready(Producers)' = Ready(Producers) \cup {t}
    BY <1>0, <1>a, <2>1, SideMoves DEF Ready
  <2>4. CASE Ready(Producers)' = Ready(Producers)
    BY <1>0, <1>b, <1>a, <2>2, <2>4
  <2>5. CASE Ready(Producers)' = Ready(Producers) \cup {t} /\ t \notin Ready(Producers)
    <3>1. Cardinality(Ready(Producers)') = Cardinality(Ready(Producers)) + 1
      BY <1>0, <2>5, OneMore
    <3>. QED
      BY <1>0, <1>b, <1>a, <2>2, <3>1
  <2>6. CASE t \in Ready(Producers)
    BY <1>0, <1>b, <1>a, <2>2, <2>6 DEF Ready
  <2>. QED
    BY <2>3, <2>4, <2>5, <2>6
<1>1. ASSUME NEW p \in Producers, PushWaits(p)
      PROVE  Capacity - size' <= Cardinality(Ready(Producers)')
  <2>1. size' = size /\ size >= Capacity
    BY <1>1 DEF PushWaits, MustWaitForRoom
  <2>. QED
    BY <1>0, <1>c, <2>1
<1>2. ASSUME NEW p \in Producers, PushRefused(p)
      PROVE  Capacity - size' <= Cardinality(Ready(Producers)')
  <2>1. p \in Pushing /\ closed
    BY <1>2, <1>b DEF PushRefused, Pushing
  <2>. QED
    BY <1>0, <2>1
<1>3. ASSUME NEW p \in Producers, PushAccepted(p)
      PROVE  Capacity - size' <= Cardinality(Ready(Producers)')
  <2>1. /\ pc[p] = "ready" /\ size' = size + 1 /\ Moves(p, "notify", {})
        /\ p \in Threads /\ {} \subseteq Asleep(Threads)
    BY <1>3 DEF PushAccepted
  <2>2. Ready(Producers)' = Ready(Producers) \ {p} /\ p \in Ready(Producers)
    BY <1>0, <2>1, SideMoves DEF Ready
  <2>3. Asleep(Producers)' = Asleep(Producers)
    BY <1>0, <2>1, SideMoves DEF Asleep
  <2>4. Cardinality(Ready(Producers)') = Cardinality(Ready(Producers)) - 1
    BY <1>0, <2>2, OneLess
  <2>. QED
    BY <1>0, <1>b, <2>1, <2>3, <2>4
<1>4. ASSUME NEW p \in Producers, PushNotifies(p)
      PROVE  Capacity - size' <= Cardinality(Ready(Producers)')
  <2>1. PICK woken \in WokenByOne(Consumers) : Moves(p, AfterPush(p), woken)
    BY <1>4 DEF PushNotifies
  <2>2. pc[p] = "notify" /\ size' = size /\ AfterPush(p) # "asleep" /\ p \in Threads
    BY <1>4 DEF PushNotifies, AfterPush
  <2>3. woken \in SUBSET Asleep(Consumers)
    BY <2>1, WokenIsAsleep
  <2>. QED
    BY <2>1, <2>2, <2>3, <1>a
<1>5. ASSUME NEW p \in Producers, Release(p)
      PROVE  Capacity - size' <= Cardinality(Ready(Producers)')
  <2>1. /\ pc[p] = "release" /\ size' = size
        /\ Moves(p, IF active = 1 THEN "close" ELSE "done", {})
    BY <1>5 DEF Release
  <2>. QED
    BY <2>1, <1>a
<1>6. ASSUME NEW p \in Producers, Close(p)
      PROVE  Capacity - size' <= Cardinality(Ready(Producers)')
  BY <1>6, <1>a DEF Close
<1>7. ASSUME NEW p \in Producers, CloseNotifiesItems(p)
      PROVE  Capacity - size' <= Cardinality(Ready(Producers)')
  BY <1>7, <1>a DEF CloseNotifiesItems, WokenByAll
<1>8. ASSUME NEW p \in Producers, CloseNotifiesRoom(p)
      PROVE  Capacity - size' <= Cardinality(Ready(Producers)')
  <2>1. Moves(p, "done", Asleep(Producers)) /\ p \in Threads
    BY <1>8 DEF CloseNotifiesRoom, WokenByAll
  <2>2. Asleep(Producers) \subseteq Asleep(Threads)
    BY DEF Asleep, Threads
  <2>3. Asleep(Producers)' = {}
    BY <1>0, <2>1, <2>2, SideMoves
  <2>. QED
    BY <2>3
<1>9. ASSUME NEW c \in Consumers, PopWaits(c)
      PROVE  Capacity - size' <= Cardinality(Ready(Producers)')
  <2>1. /\ size' = size /\ Moves(c, "asleep", {}) /\ c \in Threads /\ c \notin Producers
        /\ {} \subseteq Asleep(Threads)
    BY <1>9 DEF PopWaits
  <2>2. Ready(Producers)' = Ready(Producers)
    BY <1>0, <2>1, SideMoves DEF Ready
  <2>3. Asleep(Producers)' = Asleep(Producers)
    BY <1>0, <2>1, SideMoves DEF Asleep
  <2>. QED
    BY <1>0, <1>b, <2>1, <2>2, <2>3
<1>10. ASSUME NEW c \in Consumers, PopTakes(c)
      PROVE  Capacity - size' <= Cardinality(Ready(Producers)')
  <2>1. PICK woken \in WokenByOne(Producers) : Moves(c, "ready", woken)
    BY <1>10 DEF PopTakes
  <2>2. pc[c] = "ready" /\ size' = size - 1 /\ c \in Threads /\ c \notin Producers
    BY <1>10 DEF PopTakes
  <2>3. woken \subseteq Asleep(Threads) /\ woken \subseteq Asleep(Producers)
    BY <2>1, WokenIsAsleep DEF Asleep, Threads
  <2>4. Ready(Producers)' = Ready(Producers) \cup woken
    BY <1>0, <2>1, <2>2, <2>3, SideMoves DEF Ready, Asleep
  <2>5. Asleep(Producers)' = Asleep(Producers) \ woken
    BY <1>0, <2>1, <2>2, <2>3, SideMoves DEF Asleep
  <2>6. Asleep(Producers) # {}
    BY <2>5
  <2>7. PICK p \in Asleep(Producers) : woken = {p}
    BY <2>1, <2>6, WokenIsAsleep
  <2>8. p \notin Ready(Producers)
    BY DEF Ready, Asleep
  <2>9. Cardinality(Ready(Producers)') = Cardinality(Ready(Producers)) + 1
    BY <1>0, <2>4, <2>7, <2>8, OneMore
  <2>. QED
    BY <1>0, <1>b, <2>2, <2>6, <2>9
<1>11. ASSUME NEW c \in Consumers, PopEnds(c) \/ ConsumerLeaves(c)
      PROVE  Capacity - size' <= Cardinality(Ready(Producers)')
  <2>1. Moves(c, "done", {}) /\ size' = size
    BY <1>11 DEF PopEnds, ConsumerLeaves
  <2>. QED
    BY <2>1, <1>a
<1>12. ASSUME NEW t \in Threads, WaitExpires(t)
      PROVE  Capacity - size' <= Cardinality(Ready(Producers)')
  BY <1>12, <1>a DEF WaitExpires
<1>13. CASE Abort \/ UNCHANGED vars
  BY <1>0, <1>b, <1>13 DEF Abort, vars, Ready, Asleep
<1>. QED
  BY <1>1, <1>2, <1>3, <1>4, <1>5, <1>6, <1>7, <1>8, <1>9, <1>10, <1>11, <1>12, <1>13
  DEF Next, Producer, Consumer, Finished

-----------------------------------------------------------------------------
(* After close(): nobody sleeps un-notified, nobody leaves items behind.    *)

LEMMA CloseStep ==
  ASSUME IInv, [Next]_vars
  PROVE  CloseNotifies'
<1>. USE Sides
<1>0. /\ Control /\ closed \in BOOLEAN /\ pc \in [Threads -> Places]
      /\ \A c \in Consumers : pc[c] \in {"ready", "asleep", "done"}
      /\ closed /\ Asleep(Consumers) # {} => \E p \in Producers : pc[p] = "notify_items"
  BY DEF IInv, Control, CloseNotifies
<1>. SUFFICES ASSUME closed', Asleep(Consumers)' # {}
              PROVE  \E p \in Producers : pc'[p] = "notify_items"
  BY DEF CloseNotifies
(* The notifying producer stays, and nobody new sleeps.                     *)
<1>a. ASSUME NEW t \in Threads, NEW to, NEW woken \in SUBSET Asleep(Threads),
             Moves(t, to, woken), closed' = closed,
             t \in Consumers => to # "asleep", pc[t] # "notify_items"
      PROVE  \E p \in Producers : pc'[p] = "notify_items"
  <2>1. Asleep(Consumers) # {}
    BY <1>0, <1>a, SideMoves
  <2>2. PICK p \in Producers : pc[p] = "notify_items"
    BY <1>0, <1>a, <2>1
  <2>3. p # t /\ p \notin woken
    BY <1>a, <2>2 DEF Asleep
  <2>4. pc'[p] = "notify_items"
    BY <1>0, <1>a, <2>2, <2>3, MoveFacts
  <2>. QED
    BY <2>4
<1>1. ASSUME NEW p \in Producers, PushWaits(p)
      PROVE  \E q \in Producers : pc'[q] = "notify_items"
  <2>1. /\ pc[p] = "ready" /\ closed' = closed /\ Moves(p, "asleep", {})
        /\ p \in Threads /\ p \notin Consumers /\ {} \subseteq Asleep(Threads)
    BY <1>1 DEF PushWaits
  <2>. QED
    BY <2>1, <1>a
<1>2. ASSUME NEW p \in Producers, PushRefused(p)
      PROVE  \E q \in Producers : pc'[q] = "notify_items"
  <2>1. /\ pc[p] = "ready" /\ closed' = closed /\ Moves(p, AfterPush(p), {})
        /\ p \in Threads /\ p \notin Consumers /\ {} \subseteq Asleep(Threads)
    BY <1>2 DEF PushRefused
  <2>. QED
    BY <2>1, <1>a
<1>3. ASSUME NEW p \in Producers, PushAccepted(p)
      PROVE  \E q \in Producers : pc'[q] = "notify_items"
  BY <1>3, <1>a DEF PushAccepted
<1>4. ASSUME NEW p \in Producers, PushNotifies(p)
      PROVE  \E q \in Producers : pc'[q] = "notify_items"
  <2>1. PICK woken \in WokenByOne(Consumers) : Moves(p, AfterPush(p), woken)
    BY <1>4 DEF PushNotifies
  <2>2. woken \subseteq Asleep(Threads)
    BY <2>1, WokenIsAsleep DEF Asleep
  <2>. QED
    BY <1>4, <2>1, <2>2, <1>a DEF PushNotifies
<1>5. ASSUME NEW p \in Producers, Release(p)
      PROVE  \E q \in Producers : pc'[q] = "notify_items"
  <2>1. /\ pc[p] = "release" /\ closed' = closed
        /\ Moves(p, IF active = 1 THEN "close" ELSE "done", {})
        /\ p \in Threads /\ p \notin Consumers /\ {} \subseteq Asleep(Threads)
    BY <1>5 DEF Release
  <2>. QED
    BY <2>1, <1>a
<1>6. ASSUME NEW p \in Producers, Close(p)
      PROVE  \E q \in Producers : pc'[q] = "notify_items"
  BY <1>0, <1>6, MoveFacts DEF Close
<1>7. ASSUME NEW p \in Producers, CloseNotifiesItems(p)
      PROVE  \E q \in Producers : pc'[q] = "notify_items"
  <2>1. Moves(p, "notify_room", Asleep(Consumers)) /\ p \in Threads /\ p \notin Consumers
    BY <1>7 DEF CloseNotifiesItems, WokenByAll
  <2>2. Asleep(Consumers) \subseteq Asleep(Threads)
    BY DEF Asleep, Threads
  <2>3. Asleep(Consumers)' = {}
    BY <1>0, <2>1, <2>2, SideMoves
  <2>. QED
    BY <2>3
<1>8. ASSUME NEW p \in Producers, CloseNotifiesRoom(p)
      PROVE  \E q \in Producers : pc'[q] = "notify_items"
  BY <1>8, <1>a DEF CloseNotifiesRoom, WokenByAll, Asleep
<1>9. ASSUME NEW c \in Consumers, PopWaits(c)
      PROVE  \E q \in Producers : pc'[q] = "notify_items"
  BY <1>9 DEF PopWaits, MustWaitForItem
<1>10. ASSUME NEW c \in Consumers, PopTakes(c)
      PROVE  \E q \in Producers : pc'[q] = "notify_items"
  <2>1. PICK woken \in WokenByOne(Producers) : Moves(c, "ready", woken)
    BY <1>10 DEF PopTakes
  <2>2. woken \subseteq Asleep(Threads)
    BY <2>1, WokenIsAsleep DEF Asleep
  <2>. QED
    BY <1>10, <2>1, <2>2, <1>a DEF PopTakes
<1>11. ASSUME NEW c \in Consumers, PopEnds(c) \/ ConsumerLeaves(c)
      PROVE  \E q \in Producers : pc'[q] = "notify_items"
  <2>1. /\ pc[c] = "ready" /\ Moves(c, "done", {}) /\ closed' = closed
        /\ c \in Threads /\ {} \subseteq Asleep(Threads)
    BY <1>11 DEF PopEnds, ConsumerLeaves
  <2>. QED
    BY <2>1, <1>a
<1>12. ASSUME NEW t \in Threads, WaitExpires(t)
      PROVE  \E q \in Producers : pc'[q] = "notify_items"
  <2>1. /\ pc[t] = "asleep" /\ Moves(t, "ready", {}) /\ closed' = closed
        /\ {} \subseteq Asleep(Threads)
    BY <1>12 DEF WaitExpires
  <2>. QED
    BY <2>1, <1>a
<1>13. CASE Abort \/ UNCHANGED vars
  BY <1>0, <1>13 DEF Abort, vars, Asleep
<1>. QED
  BY <1>1, <1>2, <1>3, <1>4, <1>5, <1>6, <1>7, <1>8, <1>9, <1>10, <1>11, <1>12, <1>13
  DEF Next, Producer, Consumer, Finished

LEMMA LeavesStep ==
  ASSUME IInv, [Next]_vars
  PROVE  LeavesEmpty'
<1>. USE Sides
<1>0. /\ Control /\ closed \in BOOLEAN /\ aborted \in BOOLEAN /\ size \in Nat
      /\ pc \in [Threads -> Places]
      /\ ~aborted => \A c \in Consumers : pc[c] = "done" => closed /\ size = 0
  BY DEF IInv, Control, LeavesEmpty
<1>. SUFFICES ASSUME ~aborted', NEW c \in Consumers, pc'[c] = "done"
              PROVE  closed' /\ size' = 0
  BY DEF LeavesEmpty
(* c was done before, closed stays up and the queue does not grow.          *)
<1>a. ASSUME NEW t \in Threads, NEW to, to # "done" \/ t \in Producers, NEW woken,
             Moves(t, to, woken), ~aborted, closed => closed',
             ~closed \/ size = 0 => ~closed \/ size' = 0
      PROVE  closed' /\ size' = 0
  <2>1. pc[c] = "done"
    BY <1>0, <1>a, MoveFacts
  <2>. QED
    BY <1>0, <1>a, <2>1
<1>1. ASSUME NEW p \in Producers, Producer(p)
      PROVE  closed' /\ size' = 0
  <2>1. PICK to, woken : Moves(p, to, woken)
    BY <1>1 DEF Producer, PushWaits, PushRefused, PushAccepted, PushNotifies, Release, Close,
                CloseNotifiesItems, CloseNotifiesRoom
  <2>2. /\ ~aborted /\ (closed => closed') /\ (~closed \/ size' = size)
    BY <1>1 DEF Producer, PushWaits, PushRefused, PushAccepted, PushNotifies, Release, Close,
                CloseNotifiesItems, CloseNotifiesRoom
  <2>. QED
    BY <2>1, <2>2, <1>a
<1>2. ASSUME NEW d \in Consumers, PopWaits(d)
      PROVE  closed' /\ size' = 0
  <2>1. Moves(d, "asleep", {}) /\ ~aborted /\ closed' = closed /\ size' = size
    BY <1>2 DEF PopWaits
  <2>. QED
    BY <2>1, <1>a
<1>3. ASSUME NEW d \in Consumers, PopTakes(d)
      PROVE  closed' /\ size' = 0
  <2>1. PICK woken : Moves(d, "ready", woken)
    BY <1>3 DEF PopTakes
  <2>2. ~aborted /\ closed' = closed /\ size # 0
    BY <1>0, <1>3 DEF PopTakes
  <2>. QED
    BY <1>0, <2>1, <2>2, MoveFacts
<1>4. ASSUME NEW d \in Consumers, PopEnds(d)
      PROVE  closed' /\ size' = 0
  BY <1>4 DEF PopEnds, MustWaitForItem
<1>5. ASSUME NEW d \in Consumers, ConsumerLeaves(d)
      PROVE  closed' /\ size' = 0
  BY <1>5 DEF ConsumerLeaves
<1>6. ASSUME NEW t \in Threads, WaitExpires(t)
      PROVE  closed' /\ size' = 0
  <2>1. Moves(t, "ready", {}) /\ ~aborted /\ closed' = closed /\ size' = size
    BY <1>6 DEF WaitExpires
  <2>. QED
    BY <2>1, <1>a
<1>7. CASE Abort \/ UNCHANGED vars
  BY <1>0, <1>7 DEF Abort, vars
<1>. QED
  BY <1>1, <1>2, <1>3, <1>4, <1>5, <1>6, <1>7 DEF Next, Consumer, Finished

-----------------------------------------------------------------------------
(* The invariant is inductive, and it holds what the queue promises.        *)

LEMMA InvariantInit == Init => IInv
<1>. SUFFICES ASSUME Init PROVE IInv
  OBVIOUS
<1>1. \A t \in Threads : pc[t] = "ready"
  BY DEF Init
<1>2. Pushing = Producers /\ Asleep(Consumers) = {} /\ Asleep(Producers) = {}
  BY <1>1, Sides DEF Pushing, Asleep
<1>3. \A p \in Producers : pc[p] # "close"
  BY <1>1, Sides
<1>4. \A c \in Consumers : pc[c] # "done"
  BY <1>1, Sides
<1>. QED
  BY <1>2, <1>3, <1>4, ControlInit
  DEF Init, IInv, Counted, ClosesLast, WakesForItems, WakesForRoom, CloseNotifies, LeavesEmpty

LEMMA Invariant == Spec => []IInv
<1>1. IInv /\ [Next]_vars => IInv'
  <2>. SUFFICES ASSUME IInv, [Next]_vars PROVE IInv'
    OBVIOUS
  <2>1. Control' /\ Counted' /\ ClosesLast'
    BY ControlStep, CountStep DEF IInv
  <2>. QED
    BY <2>1, ItemsStep, RoomStep, CloseStep, LeavesStep DEF IInv
<1>. QED
  BY <1>1, InvariantInit, PTL DEF Spec

(* The queue never holds more than its capacity, and active counts at most  *)
(* the producers there are.                                                 *)
THEOREM QueueTyped == Spec => []TypeOK
<1>1. IInv => TypeOK
  <2>. SUFFICES ASSUME IInv PROVE TypeOK
    OBVIOUS
  <2>1. Pushing \in SUBSET Producers
    BY DEF Pushing
  <2>2. active \in 0..Cardinality(Producers)
    BY <2>1, Sides, SetsFinite, FS_Subset, FS_CardinalityType DEF IInv, Counted
  <2>. QED
    BY <2>2 DEF IInv, Control, TypeOK, Places
<1>. QED
  BY <1>1, Invariant, PTL

(* No notification is lost in push() and pop(), which notify one waiter     *)
(* each, push() after it released the lock: whoever sleeps is not needed.   *)
THEOREM WakeupsSuffice == Spec => []NoLostWakeup
<1>1. IInv => NoLostWakeup
  BY DEF IInv, WakesForItems, WakesForRoom, NoLostWakeup
<1>. QED
  BY <1>1, Invariant, PTL

(* close() comes after the last push, so no producer sleeps on a closed     *)
(* queue; a consumer that does has its notification still to come.          *)
THEOREM CloseReachesSleepers == Spec => []CloseWakesEveryone
<1>1. IInv => CloseWakesEveryone
  <2>. SUFFICES ASSUME IInv, closed, ~aborted
                PROVE  /\ Asleep(Producers) = {}
                       /\ Asleep(Consumers) # {} => \E p \in Producers : pc[p] = "notify_items"
    BY DEF CloseWakesEveryone
  <2>1. Pushing = {}
    BY SetsFinite, FS_EmptySet DEF IInv, ClosesLast, Counted
  <2>2. Asleep(Producers) \subseteq Pushing
    BY DEF Asleep, Pushing
  <2>. QED
    BY <2>1, <2>2 DEF IInv, CloseNotifies
<1>. QED
  BY <1>1, Invariant, PTL

(* pop() refuses only once the queue is closed and empty: when everyone is  *)
(* done and nothing aborted, every accepted item has been taken.            *)
THEOREM NothingLeftBehind == Spec => []DrainedAtEnd
<1>1. IInv => DrainedAtEnd
  BY Sides DEF IInv, LeavesEmpty, DrainedAtEnd, AllDone
<1>. QED
  BY <1>1, Invariant, PTL
=============================================================================
