----------------------- MODULE ParallelConvertProofs -----------------------
(***************************************************************************)
(* Proofs about ParallelConvert, for every bag, pool size and capacity.    *)
(*                                                                         *)
(* Two invariants, one on top of the other.  IInv says where the threads   *)
(* stand, who is counted as a producer, what the abort flag means and what *)
(* the decoders were fed.  OInv adds the order: of the queues, of what a   *)
(* decoder consumed and of what was handed over, down to the output bag;   *)
(* the refinement of ConvertContract and the exactness of the result       *)
(* follow from it.                                                         *)
(***************************************************************************)
EXTENDS ParallelConvert, FiniteSetTheorems, TLAPS

-----------------------------------------------------------------------------
(* The sequences the items travel in.                                       *)

LEMMA ItemsOfAppend ==
  ASSUME NEW S, NEW q \in Seq(S), NEW x \in S
  PROVE  Items(Append(q, x)) = Items(q) \cup {x}
<1>1. Len(Append(q, x)) = Len(q) + 1
  OBVIOUS
<1>2. \A i \in 1..Len(q) : Append(q, x)[i] = q[i]
  OBVIOUS
<1>3. Append(q, x)[Len(q) + 1] = x
  OBVIOUS
<1>4. 1..Len(q) + 1 = 1..Len(q) \cup {Len(q) + 1}
  OBVIOUS
<1>. QED
  BY <1>1, <1>2, <1>3, <1>4 DEF Items

LEMMA ItemsOfTail ==
  ASSUME NEW S, NEW q \in Seq(S), q # <<>>
  PROVE  Items(q) = {Head(q)} \cup Items(Tail(q))
<1>1. Len(Tail(q)) = Len(q) - 1 /\ Len(q) >= 1 /\ Head(q) = q[1]
  OBVIOUS
<1>2. \A i \in 1..Len(q) - 1 : Tail(q)[i] = q[i + 1]
  OBVIOUS
<1>3. ASSUME NEW i \in 1..Len(q) PROVE q[i] = Head(q) \/ q[i] \in Items(Tail(q))
  <2>1. CASE i = 1
    BY <1>1, <2>1
  <2>2. CASE i # 1
    <3>1. i - 1 \in 1..Len(Tail(q)) /\ Tail(q)[i - 1] = q[i]
      BY <1>1, <1>2, <2>2
    <3>. QED
      BY <3>1 DEF Items
  <2>. QED
    BY <2>1, <2>2
<1>4. Head(q) \in Items(q)
  BY <1>1 DEF Items
<1>5. Items(Tail(q)) \subseteq Items(q)
  BY <1>1, <1>2 DEF Items
<1>. QED
  BY <1>3, <1>4, <1>5 DEF Items

(* A sequence holds finitely many items.                                    *)
LEMMA ItemsFinite ==
  ASSUME NEW S, NEW q \in Seq(S)
  PROVE  IsFiniteSet(Items(q)) /\ Cardinality(Items(q)) \in Nat
<1> DEFINE f == [i \in 1..Len(q) |-> q[i]]
<1>1. f \in Surjection(1..Len(q), Items(q))
  BY DEF Surjection, Items
<1>2. IsFiniteSet(1..Len(q))
  BY FS_Interval
<1> QED
  BY <1>1, <1>2, FS_Surjection, FS_CardinalityType

-----------------------------------------------------------------------------
(* The item a stream is owed for its place in the order.                    *)

LEMMA RawIsOwed ==
  ASSUME NEW s \in Passthrough, NEW m \in MessagesOf(s)
  PROVE  RawItem(m) \in Expected[s]
<1> QED
  BY DEF Expected, Streams

LEMMA CloudIsOwed ==
  ASSUME NEW s \in DecodedTopics, NEW m \in MessagesOf(s), NEW k \in 1..Clouds[m]
  PROVE  CloudItem(m, k, UpTo(m)) \in Expected[s]
<1>1. s \notin Passthrough /\ s \in Streams
  BY BagAssumption DEF Streams
<1>2. CloudItem(m, k, UpTo(m)) \in CloudsOwed(s)
  BY DEF CloudsOwed
<1> QED
  BY <1>1, <1>2 DEF Expected

LEMMA TrailIsOwed ==
  ASSUME NEW s \in Trailing
  PROVE  TrailItem(s, MessagesOf(s)) \in Expected[s]
<1>1. s \notin Passthrough /\ s \in Streams
  BY BagAssumption DEF Streams
<1> QED
  BY <1>1 DEF Expected, TrailOwed

(* And there is nothing else: an owed item is a copy, one of the clouds a   *)
(* message completes, or the trailing scan.                                 *)
IsRaw(s, y) ==
  /\ s \in Passthrough /\ y.src \in MessagesOf(s)
  /\ y = RawItem(y.src)

IsCloud(s, y) ==
  /\ s \in DecodedTopics /\ y.src \in MessagesOf(s)
  /\ y.nth \in 1..Clouds[y.src]
  /\ y = CloudItem(y.src, y.nth, UpTo(y.src))

IsTrail(s, y) ==
  /\ s \in DecodedTopics /\ s \in Trailing
  /\ y = TrailItem(s, MessagesOf(s))

LEMMA OwedShapes ==
  ASSUME NEW s \in Streams, NEW y \in Expected[s]
  PROVE  IsRaw(s, y) \/ IsCloud(s, y) \/ IsTrail(s, y)
<1>1. CASE s \in Passthrough
  <2>1. y \in {RawItem(m) : m \in MessagesOf(s)}
    BY <1>1 DEF Expected
  <2>2. PICK m \in MessagesOf(s) : y = RawItem(m)
    BY <2>1
  <2>3. y.src = m
    BY <2>2 DEF RawItem
  <2> QED
    BY <1>1, <2>2, <2>3 DEF IsRaw
<1>2. CASE s \notin Passthrough
  <2>1. s \in DecodedTopics /\ y \in CloudsOwed(s) \cup TrailOwed(s)
    BY <1>2 DEF Expected, Streams
  <2>2. CASE y \in CloudsOwed(s)
    <3>1. PICK m \in MessagesOf(s) : y \in {CloudItem(m, k, UpTo(m)) : k \in 1..Clouds[m]}
      BY <2>2 DEF CloudsOwed
    <3>2. PICK k \in 1..Clouds[m] : y = CloudItem(m, k, UpTo(m))
      BY <3>1
    <3>3. y.src = m /\ y.nth = k
      BY <3>2 DEF CloudItem
    <3> QED
      BY <2>1, <3>2, <3>3 DEF IsCloud
  <2>3. CASE y \in TrailOwed(s)
    <3>1. s \in Trailing /\ y \in {TrailItem(s, MessagesOf(s))}
      BY <2>3 DEF TrailOwed
    <3> QED
      BY <2>1, <3>1 DEF IsTrail
  <2> QED
    BY <2>1, <2>2, <2>3
<1> QED
  BY <1>1, <1>2

(* What the three kinds have in common.                                     *)
LEMMA OwedFields ==
  ASSUME NEW s \in Streams, NEW y \in Expected[s]
  PROVE  /\ y.stream = s /\ y.nth \in Nat
         /\ y.src \in 1..Len(Bag) + 1
         /\ y.src # Len(Bag) + 1 => y.src \in Messages /\ Bag[y.src] = s
<1> USE BagAssumption
<1>1. CASE IsRaw(s, y)
  BY <1>1 DEF IsRaw, RawItem, MessagesOf, Messages
<1>2. CASE IsCloud(s, y)
  BY <1>2 DEF IsCloud, CloudItem, MessagesOf, Messages
<1>3. CASE IsTrail(s, y)
  BY <1>3 DEF IsTrail, TrailItem
<1> QED
  BY <1>1, <1>2, <1>3, OwedShapes

(* A stream is owed at most one item for each place.                        *)
LEMMA OwedOnce ==
  ASSUME NEW s \in Streams, NEW x \in Expected[s], NEW y \in Expected[s],
         x.src = y.src, x.nth = y.nth
  PROVE  x = y
<1> USE BagAssumption
<1>1. CASE IsRaw(s, x)
  <2>1. x.src \in Messages /\ x.nth = 0 /\ s \notin DecodedTopics
    BY <1>1 DEF IsRaw, RawItem, MessagesOf
  <2>2. IsRaw(s, y)
    BY <2>1, OwedShapes DEF IsCloud, IsTrail
  <2> QED
    BY <1>1, <2>2 DEF IsRaw
<1>2. CASE IsCloud(s, x)
  <2>1. x.src \in Messages /\ s \notin Passthrough
    BY <1>2 DEF IsCloud, MessagesOf
  <2>2. ~IsTrail(s, y) /\ ~IsRaw(s, y)
    BY <2>1 DEF IsTrail, IsRaw, TrailItem, Messages
  <2>3. IsCloud(s, y)
    BY <2>2, OwedShapes
  <2> QED
    BY <1>2, <2>3 DEF IsCloud
<1>3. CASE IsTrail(s, x)
  <2>1. x.src = Len(Bag) + 1 /\ s \notin Passthrough
    BY <1>3 DEF IsTrail, TrailItem
  <2>2. ~IsCloud(s, y) /\ ~IsRaw(s, y)
    BY <2>1 DEF IsCloud, IsRaw, MessagesOf, Messages
  <2>3. IsTrail(s, y)
    BY <2>2, OwedShapes
  <2> QED
    BY <1>3, <2>3 DEF IsTrail
<1> QED
  BY <1>1, <1>2, <1>3, OwedShapes

-----------------------------------------------------------------------------
(* The assignment of slots to workers.                                      *)

(* The K / workers blocks cover the slots exactly: workers divides K.       *)
LEMMA BlocksCoverSlots ==
  /\ Workers \in Nat \ {0} /\ Len(Slots) \in Nat \ {0}
  /\ Per \in Nat \ {0} /\ Per * Workers = Len(Slots)
<1>1. Workers \in Nat \ {0} /\ Len(Slots) \in Nat \ {0}
  BY BagAssumption, PoolAssumption
<1>2. /\ Per \in Nat
      /\ Len(Slots) = Workers * Per + (Len(Slots) % Workers)
  BY <1>1, PoolAssumption DEF Per
<1>3. Per * Workers = Len(Slots)
  BY <1>1, <1>2, PoolAssumption
<1>4. Per # 0
  BY <1>1, <1>2, <1>3
<1>. QED
  BY <1>1, <1>2, <1>3, <1>4

(* A worker's slots are slots of the list.                                  *)
LEMMA AssignedIndex ==
  ASSUME NEW w \in Pool, NEW i \in 1..Per
  PROVE  /\ (w - 1) * Per + i \in 1..Len(Slots)
         /\ Assigned(w, i) \in DecodedTopics
<1>. USE BlocksCoverSlots
<1>1. w - 1 \in Nat /\ w - 1 <= Workers - 1
  BY DEF Pool
<1>2. (w - 1) * Per \in Nat
  BY <1>1
<1>3. (w - 1) * Per <= (Workers - 1) * Per
  BY <1>1
<1>4. (Workers - 1) * Per = Len(Slots) - Per
  OBVIOUS
<1>5. (w - 1) * Per + i \in 1..Len(Slots)
  BY <1>2, <1>3, <1>4
<1>. QED
  BY <1>5 DEF Assigned, DecodedTopics

(* No slot belongs to two workers.                                          *)
LEMMA AssignedOnce ==
  ASSUME NEW v \in Pool, NEW w \in Pool, NEW i \in 1..Per, NEW j \in 1..Per,
         Assigned(v, i) = Assigned(w, j)
  PROVE  v = w
<1>. USE BlocksCoverSlots
<1>1. (v - 1) * Per + i = (w - 1) * Per + j
  BY AssignedIndex, BagAssumption DEF Assigned
<1>2. \A a, b \in Nat : a < b => b * Per >= a * Per + Per
  <2>. SUFFICES ASSUME NEW a \in Nat, NEW b \in Nat, a < b
                PROVE  b * Per >= a * Per + Per
    OBVIOUS
  <2>1. PICK d \in Nat : b = a + 1 + d
    <3>. DEFINE d == b - a - 1
    <3>1. d \in Nat /\ b = a + 1 + d
      OBVIOUS
    <3>. QED
      BY <3>1
  <2>2. b * Per = a * Per + Per + d * Per
    BY <2>1
  <2>3. d * Per >= 0
    BY <2>1
  <2>. QED
    BY <2>1, <2>2, <2>3
<1>3. v - 1 \in Nat /\ w - 1 \in Nat
  BY DEF Pool
<1>4. ~ (v - 1 < w - 1)
  <2>. SUFFICES ASSUME v - 1 < w - 1 PROVE FALSE
    OBVIOUS
  <2>1. PICK x \in Nat, y \in Nat : x = (v - 1) * Per /\ y = (w - 1) * Per
    BY <1>3
  <2>2. y >= x + Per
    BY <1>2, <1>3, <2>1
  <2>3. x + i = y + j
    BY <1>1, <2>1
  <2>. QED
    BY <2>2, <2>3
<1>5. ~ (w - 1 < v - 1)
  <2>. SUFFICES ASSUME w - 1 < v - 1 PROVE FALSE
    OBVIOUS
  <2>1. PICK x \in Nat, y \in Nat : x = (w - 1) * Per /\ y = (v - 1) * Per
    BY <1>3
  <2>2. y >= x + Per
    BY <1>2, <1>3, <2>1
  <2>3. x + j = y + i
    BY <1>1, <2>1
  <2>. QED
    BY <2>2, <2>3
<1>. QED
  BY <1>3, <1>4, <1>5 DEF Pool

(* Every slot belongs to some worker, so the reader's lookup always finds   *)
(* an owner.                                                                *)
LEMMA EverySlotOwned ==
  ASSUME NEW t \in DecodedTopics
  PROVE  /\ Owner(t) \in Pool
         /\ \E i \in 1..Per : Assigned(Owner(t), i) = t
<1>. USE BlocksCoverSlots
<1>1. PICK n \in 1..Len(Slots) : Slots[n] = t
  BY DEF DecodedTopics
<1>. DEFINE q == (n - 1) \div Per
            r == (n - 1) % Per
<1>2. /\ q \in Nat /\ r \in 0..Per - 1
      /\ n - 1 = Per * q + r
  BY <1>1
<1>3. q < Workers
  <2>. SUFFICES ASSUME q >= Workers PROVE FALSE
    BY <1>2
  <2>1. PICK d \in Nat : q = Workers + d
    <3>. DEFINE d == q - Workers
    <3>1. d \in Nat /\ q = Workers + d
      BY <1>2
    <3>. QED
      BY <3>1
  <2>2. Per * q = Per * Workers + Per * d /\ Per * d >= 0
    BY <2>1
  <2>. QED
    BY <1>1, <1>2, <2>2
<1>4. q + 1 \in Pool /\ r + 1 \in 1..Per
  BY <1>2, <1>3 DEF Pool
<1>5. Assigned(q + 1, r + 1) = t
  <2>1. (q + 1 - 1) * Per + (r + 1) = n
    BY <1>1, <1>2
  <2>. QED
    BY <1>1, <2>1 DEF Assigned
<1>6. \E w \in Pool : \E i \in 1..Per : Assigned(w, i) = t
  BY <1>4, <1>5
<1>. QED
  BY <1>6 DEF Owner

(* The owner of a worker's slot is that worker.                             *)
LEMMA OwnerOfAssigned ==
  ASSUME NEW w \in Pool, NEW i \in 1..Per
  PROVE  Owner(Assigned(w, i)) = w
  BY AssignedIndex, AssignedOnce, EverySlotOwned

(* What most steps need to know of the constants.                           *)
LEMMA Sizes ==
  Workers \in Nat \ {0} /\ Per \in Nat \ {0} /\ Len(Bag) \in Nat
  BY BlocksCoverSlots, BagAssumption

-----------------------------------------------------------------------------
(* Which phases of the threads go together.                                 *)

Launching == {"launch", "unwind"}
Running == {"write", "raise", "store", "join", "returned"}
Reading == {"unborn", "read", "push", "raise", "store"}
Leaving == {"release", "close_write", "done"}

Phases ==
  /\ main \in Launching => reader = "unborn"
  /\ main \in Running => reader # "unborn"
  /\ reader # "unborn" => launched = Workers
  /\ \A w \in Pool : worker[w] = "unborn" <=> launched < w
  /\ reader \in Reading => closed_in = 0
  /\ reader = "close" => closed_in < Workers
  /\ reader \in Leaving => closed_in = Workers
  /\ reader = "push" => next \in Messages /\ Bag[next] \in Streams
  /\ \A w \in Pool : worker[w] = "trail" => slot[w] <= Per

ControlInv == ControlTypes /\ Phases

LEMMA ControlInit == Init => ControlInv
<1>. USE Sizes
<1>. SUFFICES ASSUME Init PROVE ControlInv
  OBVIOUS
<1>1. ControlTypes
  BY DEF Init, ControlTypes, MainPlaces, ReaderPlaces, WorkerPlaces
<1>2. Phases
  BY DEF Init, Phases, Launching, Running, Reading, Leaving, Pool
<1>. QED
  BY <1>1, <1>2 DEF ControlInv

LEMMA ControlStep == ControlInv /\ [Next]_vars => ControlInv'
<1>. USE Sizes
     DEF ControlInv, ControlTypes, Phases, MainPlaces, ReaderPlaces, WorkerPlaces,
         Launching, Running, Reading, Leaving, mainVars, readerVars, workerVars,
         queueVars, abortVars, Pool, Messages
<1>. SUFFICES ASSUME ControlInv, [Next]_vars PROVE ControlInv'
  OBVIOUS
<1>1. CASE LaunchWorker
  BY <1>1 DEF LaunchWorker
<1>2. CASE LaunchReader
  BY <1>2 DEF LaunchReader
<1>3. CASE LaunchFails
  BY <1>3 DEF LaunchFails
<1>4. CASE Unwind
  BY <1>4 DEF Unwind
<1>5. CASE WriterPop
  BY <1>5 DEF WriterPop
<1>6. CASE WriterThrows
  BY <1>6 DEF WriterThrows
<1>7. CASE WriterEnds
  BY <1>7 DEF WriterEnds
<1>8. CASE MainAborts
  BY <1>8 DEF MainAborts, AfterExchange
<1>9. CASE MainStores
  BY <1>9 DEF MainStores
<1>10. CASE Join
  BY <1>10 DEF Join
<1>11. CASE ReaderReads
  BY <1>11 DEF ReaderReads, AtMessage
<1>12. CASE ReaderSkips
  BY <1>12 DEF ReaderSkips, AtMessage
<1>13. CASE ReaderThrows
  BY <1>13 DEF ReaderThrows, AtMessage
<1>14. CASE ReaderDispatches
  BY <1>14 DEF ReaderDispatches
<1>15. CASE ReaderForwards
  BY <1>15 DEF ReaderForwards
<1>16. CASE ReaderEnds
  BY <1>16 DEF ReaderEnds
<1>17. CASE ReaderAborts
  BY <1>17 DEF ReaderAborts, AfterExchange
<1>18. CASE ReaderStores
  BY <1>18 DEF ReaderStores
<1>19. CASE ReaderClosesQueue
  BY <1>19 DEF ReaderClosesQueue
<1>20. CASE ReaderReleases
  BY <1>20 DEF ReaderReleases, AfterRelease
<1>21. CASE ReaderClosesWrite
  BY <1>21 DEF ReaderClosesWrite
<1>22. ASSUME NEW w \in Pool, WorkerPops(w) PROVE ControlInv'
  BY <1>22 DEF WorkerPops, Goto
<1>23. ASSUME NEW w \in Pool, WorkerEmits(w) PROVE ControlInv'
  BY <1>23 DEF WorkerEmits, PushCloud
<1>24. ASSUME NEW w \in Pool, WorkerFinishesMessage(w) PROVE ControlInv'
  BY <1>24 DEF WorkerFinishesMessage, Goto
<1>25. ASSUME NEW w \in Pool, WorkerReachesEnd(w) PROVE ControlInv'
  BY <1>25 DEF WorkerReachesEnd, Goto
<1>26. ASSUME NEW w \in Pool, WorkerFlushes(w) PROVE ControlInv'
  <2>1. CASE Assigned(w, slot[w]) \in Trailing
    BY <1>26, <2>1 DEF WorkerFlushes, Goto
  <2>2. CASE Assigned(w, slot[w]) \notin Trailing
    <3>1. /\ slot' = [slot EXCEPT ![w] = slot[w] + 1]
          /\ worker[w] = "flush" /\ slot[w] <= Per /\ worker' = worker
      BY <1>26, <2>2 DEF WorkerFlushes
    <3>2. UNCHANGED <<main, launched, reader, next, advanced, closed_in,
                      write_closed, aborted, ep>>
      BY <1>26 DEF WorkerFlushes
    <3>3. slot' \in [Pool -> 1..Per + 1]
      BY <3>1
    <3>. QED
      BY <3>1, <3>2, <3>3
  <2>. QED
    BY <2>1, <2>2
<1>27. ASSUME NEW w \in Pool, WorkerEmitsTrailing(w) PROVE ControlInv'
  BY <1>27 DEF WorkerEmitsTrailing, PushCloud, Goto
<1>28. ASSUME NEW w \in Pool, WorkerEndsFlush(w) PROVE ControlInv'
  BY <1>28 DEF WorkerEndsFlush, Goto
<1>29. ASSUME NEW w \in Pool, WorkerThrows(w) PROVE ControlInv'
  BY <1>29 DEF WorkerThrows, Goto
<1>30. ASSUME NEW w \in Pool, WorkerAborts(w) PROVE ControlInv'
  BY <1>30 DEF WorkerAborts, AfterExchange, Goto
<1>31. ASSUME NEW w \in Pool, WorkerStores(w) PROVE ControlInv'
  BY <1>31 DEF WorkerStores, Goto
<1>32. ASSUME NEW w \in Pool, WorkerReleases(w) PROVE ControlInv'
  BY <1>32 DEF WorkerReleases, AfterRelease, Goto
<1>33. ASSUME NEW w \in Pool, WorkerClosesWrite(w) PROVE ControlInv'
  BY <1>33 DEF WorkerClosesWrite, Goto
<1>34. CASE UNCHANGED vars
  BY <1>34 DEF vars
<1>. QED
  BY <1>1, <1>2, <1>3, <1>4, <1>5, <1>6, <1>7, <1>8, <1>9, <1>10, <1>11, <1>12,
     <1>13, <1>14, <1>15, <1>16, <1>17, <1>18, <1>19, <1>20, <1>21, <1>22,
     <1>23, <1>24, <1>25, <1>26, <1>27, <1>28, <1>29, <1>30, <1>31, <1>32,
     <1>33, <1>34
  DEF Next, Main, Reader, Worker, Stopped, Ended

-----------------------------------------------------------------------------
(* The producer count.                                                      *)

Live == {w \in Pool : worker[w] \notin {"unborn", "close_write", "done"}}
ReaderHolds == IF reader \in {"close_write", "done"} THEN 0 ELSE 1

(* A worker that could not be started was already counted.                  *)
Overcount ==
  IF main \in {"unwind", "threw", "terminated"} /\ launched < Workers THEN 1 ELSE 0

Counted == active_producers = ReaderHolds + Cardinality(Live) + Overcount

LEMMA LiveFinite == IsFiniteSet(Live) /\ Cardinality(Live) \in Nat
<1>1. IsFiniteSet(Pool)
  BY FS_Interval, Sizes DEF Pool
<1>2. Live \in SUBSET Pool
  BY DEF Live
<1>. QED
  BY <1>1, <1>2, FS_Subset, FS_CardinalityType

LEMMA CountedInit == Init => Counted
<1>. SUFFICES ASSUME Init PROVE Counted
  OBVIOUS
<1>1. Live = {}
  BY DEF Init, Live
<1>2. ReaderHolds = 1 /\ Overcount = 0
  BY DEF Init, ReaderHolds, Overcount
<1>. QED
  BY <1>1, <1>2, FS_EmptySet DEF Init, Counted

(* Only launching a worker and leaving the pool change who is counted.      *)
LEMMA CountedStep == ControlInv /\ Counted /\ [Next]_vars => Counted'
<1>. USE DEF mainVars, readerVars, workerVars, queueVars, abortVars
<1>. SUFFICES ASSUME ControlInv, Counted, [Next]_vars PROVE Counted'
  OBVIOUS
<1>. DEFINE Same == UNCHANGED <<active_producers, Live, ReaderHolds, Overcount>>
<1>0. Same => Counted'
  BY DEF Counted
<1>1. CASE LaunchWorker
  <2>1. launched + 1 \in Pool /\ worker[launched + 1] = "unborn"
    BY <1>1, Sizes DEF LaunchWorker, ControlInv, ControlTypes, Phases, Pool
  <2>2. Live' = Live \cup {launched + 1} /\ launched + 1 \notin Live
    BY <1>1, <2>1 DEF LaunchWorker, Live, ControlInv, ControlTypes
  <2>3. Cardinality(Live') = Cardinality(Live) + 1
    BY <2>2, LiveFinite, FS_AddElement
  <2>4. ReaderHolds' = ReaderHolds /\ Overcount' = 0 /\ Overcount = 0
    BY <1>1 DEF LaunchWorker, ReaderHolds, Overcount
  <2>5. ReaderHolds \in Nat
    BY DEF ReaderHolds
  <2>. QED
    BY <1>1, <2>3, <2>4, <2>5, LiveFinite DEF LaunchWorker, Counted
<1>2. CASE LaunchFails
  <2>1. UNCHANGED <<Live, ReaderHolds>> /\ Overcount = 0
    BY <1>2 DEF LaunchFails, Live, ReaderHolds, Overcount
  <2>2. Overcount' = IF launched < Workers THEN 1 ELSE 0
    BY <1>2 DEF LaunchFails, Overcount
  <2>3. ReaderHolds \in Nat
    BY DEF ReaderHolds
  <2>. QED
    BY <1>2, <2>1, <2>2, <2>3, LiveFinite DEF LaunchFails, Counted
<1>3. CASE Unwind
  <2>1. UNCHANGED <<active_producers, Live, ReaderHolds, launched>>
    BY <1>3 DEF Unwind, Live, ReaderHolds
  <2>2. main = "unwind" /\ main' \in {"threw", "terminated"}
    BY <1>3 DEF Unwind
  <2>. QED
    BY <1>0, <2>1, <2>2 DEF Overcount
<1>4. CASE LaunchReader
  BY <1>0, <1>4 DEF LaunchReader, Live, ReaderHolds, Overcount, ControlInv, Phases, Launching
<1>5. CASE WriterPop
  BY <1>0, <1>5 DEF WriterPop, Live, ReaderHolds, Overcount
<1>6. CASE WriterThrows
  BY <1>0, <1>6 DEF WriterThrows, Live, ReaderHolds, Overcount
<1>7. CASE WriterEnds
  BY <1>0, <1>7 DEF WriterEnds, Live, ReaderHolds, Overcount
<1>8. CASE MainAborts
  BY <1>0, <1>8 DEF MainAborts, AfterExchange, Live, ReaderHolds, Overcount
<1>9. CASE MainStores
  BY <1>0, <1>9 DEF MainStores, Live, ReaderHolds, Overcount
<1>10. CASE Join
  BY <1>0, <1>10, Sizes DEF Join, Live, ReaderHolds, Overcount, ControlInv,
     ControlTypes, Phases, Running
<1>11. CASE ReaderReads
  BY <1>0, <1>11 DEF ReaderReads, AtMessage, Live, ReaderHolds, Overcount
<1>12. CASE ReaderSkips
  BY <1>0, <1>12 DEF ReaderSkips, AtMessage, Live, ReaderHolds, Overcount
<1>13. CASE ReaderThrows
  BY <1>0, <1>13 DEF ReaderThrows, AtMessage, Live, ReaderHolds, Overcount
<1>14. CASE ReaderDispatches
  BY <1>0, <1>14 DEF ReaderDispatches, Live, ReaderHolds, Overcount
<1>15. CASE ReaderForwards
  BY <1>0, <1>15 DEF ReaderForwards, Live, ReaderHolds, Overcount
<1>16. CASE ReaderEnds
  BY <1>0, <1>16 DEF ReaderEnds, Live, ReaderHolds, Overcount
<1>17. CASE ReaderAborts
  BY <1>0, <1>17 DEF ReaderAborts, AfterExchange, Live, ReaderHolds, Overcount
<1>18. CASE ReaderStores
  BY <1>0, <1>18 DEF ReaderStores, Live, ReaderHolds, Overcount
<1>19. CASE ReaderClosesQueue
  BY <1>0, <1>19 DEF ReaderClosesQueue, Live, ReaderHolds, Overcount
<1>20. CASE ReaderReleases
  <2>1. ReaderHolds = 1 /\ ReaderHolds' = 0
    BY <1>20 DEF ReaderReleases, AfterRelease, ReaderHolds
  <2>2. UNCHANGED <<Live, Overcount>>
    BY <1>20 DEF ReaderReleases, Live, Overcount
  <2>3. Overcount \in Nat
    BY DEF Overcount
  <2>. QED
    BY <1>20, <2>1, <2>2, <2>3, LiveFinite DEF ReaderReleases, Counted
<1>21. CASE ReaderClosesWrite
  BY <1>0, <1>21 DEF ReaderClosesWrite, Live, ReaderHolds, Overcount
<1>22. ASSUME NEW w \in Pool, WorkerPops(w) PROVE Counted'
  BY <1>0, <1>22 DEF WorkerPops, Goto, Live, ReaderHolds, Overcount,
     ControlInv, ControlTypes
<1>23. ASSUME NEW w \in Pool, WorkerEmits(w) PROVE Counted'
  BY <1>0, <1>23 DEF WorkerEmits, PushCloud, Live, ReaderHolds, Overcount,
     ControlInv, ControlTypes
<1>24. ASSUME NEW w \in Pool, WorkerFinishesMessage(w) PROVE Counted'
  BY <1>0, <1>24 DEF WorkerFinishesMessage, Goto, Live, ReaderHolds, Overcount,
     ControlInv, ControlTypes
<1>25. ASSUME NEW w \in Pool, WorkerReachesEnd(w) PROVE Counted'
  BY <1>0, <1>25 DEF WorkerReachesEnd, Goto, Live, ReaderHolds, Overcount,
     ControlInv, ControlTypes
<1>26. ASSUME NEW w \in Pool, WorkerFlushes(w) PROVE Counted'
  BY <1>0, <1>26 DEF WorkerFlushes, Goto, Live, ReaderHolds, Overcount,
     ControlInv, ControlTypes
<1>27. ASSUME NEW w \in Pool, WorkerEmitsTrailing(w) PROVE Counted'
  BY <1>0, <1>27 DEF WorkerEmitsTrailing, PushCloud, Goto, Live, ReaderHolds, Overcount,
     ControlInv, ControlTypes
<1>28. ASSUME NEW w \in Pool, WorkerEndsFlush(w) PROVE Counted'
  BY <1>0, <1>28 DEF WorkerEndsFlush, Goto, Live, ReaderHolds, Overcount,
     ControlInv, ControlTypes
<1>29. ASSUME NEW w \in Pool, WorkerThrows(w) PROVE Counted'
  BY <1>0, <1>29 DEF WorkerThrows, Goto, Live, ReaderHolds, Overcount,
     ControlInv, ControlTypes
<1>30. ASSUME NEW w \in Pool, WorkerAborts(w) PROVE Counted'
  BY <1>0, <1>30 DEF WorkerAborts, AfterExchange, Goto, Live, ReaderHolds, Overcount,
     ControlInv, ControlTypes
<1>31. ASSUME NEW w \in Pool, WorkerStores(w) PROVE Counted'
  BY <1>0, <1>31 DEF WorkerStores, Goto, Live, ReaderHolds, Overcount,
     ControlInv, ControlTypes
<1>32. ASSUME NEW w \in Pool, WorkerReleases(w) PROVE Counted'
  <2>1. Live' = Live \ {w} /\ w \in Live
    BY <1>32 DEF WorkerReleases, Goto, AfterRelease, Live, ControlInv, ControlTypes
  <2>2. Cardinality(Live') = Cardinality(Live) - 1
    BY <2>1, LiveFinite, FS_RemoveElement
  <2>3. UNCHANGED <<ReaderHolds, Overcount>>
    BY <1>32 DEF WorkerReleases, ReaderHolds, Overcount
  <2>4. ReaderHolds \in Nat /\ Overcount \in Nat
    BY DEF ReaderHolds, Overcount
  <2>. QED
    BY <1>32, <2>2, <2>3, <2>4, LiveFinite DEF WorkerReleases, Counted
<1>33. ASSUME NEW w \in Pool, WorkerClosesWrite(w) PROVE Counted'
  BY <1>0, <1>33 DEF WorkerClosesWrite, Goto, Live, ReaderHolds, Overcount,
     ControlInv, ControlTypes
<1>34. CASE UNCHANGED vars
  BY <1>0, <1>34 DEF vars, Live, ReaderHolds, Overcount
<1>. QED
  BY <1>1, <1>2, <1>3, <1>4, <1>5, <1>6, <1>7, <1>8, <1>9, <1>10, <1>11, <1>12,
     <1>13, <1>14, <1>15, <1>16, <1>17, <1>18, <1>19, <1>20, <1>21, <1>22,
     <1>23, <1>24, <1>25, <1>26, <1>27, <1>28, <1>29, <1>30, <1>31, <1>32,
     <1>33, <1>34
  DEF Next, Main, Reader, Worker, Stopped, Ended

(* The last producer to leave, and only it, closes the write queue, and     *)
(* nothing is counted any more once it was chosen.                          *)
Closing(w) == worker[w] = "close_write"

OneCloser ==
  /\ write_closed => active_producers = 0
  /\ reader = "close_write" => active_producers = 0
  /\ \A w \in Pool : Closing(w) => active_producers = 0
  /\ write_closed => reader # "close_write" /\ \A w \in Pool : ~Closing(w)
  /\ reader = "close_write" => \A w \in Pool : ~Closing(w)
  /\ \A v, w \in Pool : Closing(v) /\ Closing(w) => v = w

(* Nobody is counted when the count is zero.                                *)
LEMMA ZeroMeansNone ==
  ASSUME Counted, active_producers = 0
  PROVE  reader \in {"close_write", "done"} /\ Live = {}
<1>1. ReaderHolds \in Nat /\ Overcount \in Nat
  BY DEF ReaderHolds, Overcount
<1>2. ReaderHolds = 0 /\ Cardinality(Live) = 0
  BY <1>1, LiveFinite DEF Counted
<1>. QED
  BY <1>2, LiveFinite, FS_EmptySet DEF ReaderHolds

(* Somebody is counted while the reader or a worker is still at work.       *)
LEMMA SomeoneCounted ==
  ASSUME Counted
  PROVE  /\ reader \notin {"close_write", "done"} => active_producers # 0
         /\ \A w \in Pool :
              worker[w] \notin {"unborn", "close_write", "done"} => active_producers # 0
  BY ZeroMeansNone DEF Live

LEMMA OneCloserInit == Init => OneCloser
  BY DEF Init, OneCloser, Closing

LEMMA OneCloserStep ==
  ControlInv /\ Counted /\ OneCloser /\ [Next]_vars => OneCloser'
<1>. USE DEF OneCloser, Closing, mainVars, readerVars, workerVars, queueVars, abortVars
<1>. SUFFICES ASSUME ControlInv, Counted, OneCloser, [Next]_vars PROVE OneCloser'
  OBVIOUS
<1>1. CASE LaunchWorker
  <2>1. reader = "unborn" /\ active_producers # 0
    BY <1>1, SomeoneCounted DEF LaunchWorker, ControlInv, Phases, Launching
  <2>. QED
    BY <1>1, <2>1 DEF LaunchWorker, ControlInv, ControlTypes
<1>2. CASE LaunchFails
  <2>1. reader = "unborn" /\ active_producers # 0
    BY <1>2, SomeoneCounted DEF LaunchFails, ControlInv, Phases, Launching
  <2>. QED
    BY <1>2, <2>1 DEF LaunchFails, ControlInv, ControlTypes
<1>3. CASE LaunchReader
  BY <1>3 DEF LaunchReader
<1>4. CASE Unwind
  BY <1>4 DEF Unwind
<1>5. CASE WriterPop
  BY <1>5 DEF WriterPop
<1>6. CASE WriterThrows
  BY <1>6 DEF WriterThrows
<1>7. CASE WriterEnds
  BY <1>7 DEF WriterEnds
<1>8. CASE MainAborts
  BY <1>8 DEF MainAborts, AfterExchange
<1>9. CASE MainStores
  BY <1>9 DEF MainStores
<1>10. CASE Join
  BY <1>10 DEF Join
<1>11. CASE ReaderReads
  BY <1>11 DEF ReaderReads, AtMessage
<1>12. CASE ReaderSkips
  BY <1>12 DEF ReaderSkips, AtMessage
<1>13. CASE ReaderThrows
  BY <1>13 DEF ReaderThrows, AtMessage
<1>14. CASE ReaderDispatches
  BY <1>14 DEF ReaderDispatches
<1>15. CASE ReaderForwards
  BY <1>15 DEF ReaderForwards
<1>16. CASE ReaderEnds
  BY <1>16 DEF ReaderEnds
<1>17. CASE ReaderAborts
  BY <1>17 DEF ReaderAborts, AfterExchange
<1>18. CASE ReaderStores
  BY <1>18 DEF ReaderStores
<1>19. CASE ReaderClosesQueue
  BY <1>19 DEF ReaderClosesQueue
<1>20. CASE ReaderReleases
  <2>1. active_producers # 0
    BY <1>20, SomeoneCounted DEF ReaderReleases
  <2>2. ~write_closed /\ reader # "close_write" /\ \A v \in Pool : ~Closing(v)
    BY <2>1
  <2>3. CASE active_producers = 1
    BY <1>20, <2>2, <2>3 DEF ReaderReleases, AfterRelease
  <2>4. CASE active_producers # 1
    BY <1>20, <2>2, <2>4 DEF ReaderReleases, AfterRelease
  <2>. QED
    BY <2>3, <2>4
<1>21. CASE ReaderClosesWrite
  BY <1>21 DEF ReaderClosesWrite
<1>22. ASSUME NEW w \in Pool, WorkerPops(w) PROVE OneCloser'
  BY <1>22 DEF WorkerPops, Goto, ControlInv, ControlTypes
<1>23. ASSUME NEW w \in Pool, WorkerEmits(w) PROVE OneCloser'
  BY <1>23 DEF WorkerEmits, PushCloud, ControlInv, ControlTypes
<1>24. ASSUME NEW w \in Pool, WorkerFinishesMessage(w) PROVE OneCloser'
  BY <1>24 DEF WorkerFinishesMessage, Goto, ControlInv, ControlTypes
<1>25. ASSUME NEW w \in Pool, WorkerReachesEnd(w) PROVE OneCloser'
  BY <1>25 DEF WorkerReachesEnd, Goto, ControlInv, ControlTypes
<1>26. ASSUME NEW w \in Pool, WorkerFlushes(w) PROVE OneCloser'
  BY <1>26 DEF WorkerFlushes, Goto, ControlInv, ControlTypes
<1>27. ASSUME NEW w \in Pool, WorkerEmitsTrailing(w) PROVE OneCloser'
  BY <1>27 DEF WorkerEmitsTrailing, PushCloud, Goto, ControlInv, ControlTypes
<1>28. ASSUME NEW w \in Pool, WorkerEndsFlush(w) PROVE OneCloser'
  BY <1>28 DEF WorkerEndsFlush, Goto, ControlInv, ControlTypes
<1>29. ASSUME NEW w \in Pool, WorkerThrows(w) PROVE OneCloser'
  BY <1>29 DEF WorkerThrows, Goto, ControlInv, ControlTypes
<1>30. ASSUME NEW w \in Pool, WorkerAborts(w) PROVE OneCloser'
  BY <1>30 DEF WorkerAborts, AfterExchange, Goto, ControlInv, ControlTypes
<1>31. ASSUME NEW w \in Pool, WorkerStores(w) PROVE OneCloser'
  BY <1>31 DEF WorkerStores, Goto, ControlInv, ControlTypes
<1>32. ASSUME NEW w \in Pool, WorkerReleases(w) PROVE OneCloser'
  <2>1. active_producers # 0
    BY <1>32, SomeoneCounted DEF WorkerReleases
  <2>2. ~write_closed /\ reader # "close_write" /\ \A v \in Pool : ~Closing(v)
    BY <2>1
  <2>3. CASE active_producers = 1
    BY <1>32, <2>2, <2>3 DEF WorkerReleases, AfterRelease, Goto, ControlInv, ControlTypes
  <2>4. CASE active_producers # 1
    BY <1>32, <2>2, <2>4 DEF WorkerReleases, AfterRelease, Goto, ControlInv, ControlTypes
  <2>. QED
    BY <2>3, <2>4
<1>33. ASSUME NEW w \in Pool, WorkerClosesWrite(w) PROVE OneCloser'
  BY <1>33 DEF WorkerClosesWrite, Goto, ControlInv, ControlTypes
<1>34. CASE UNCHANGED vars
  BY <1>34 DEF vars
<1>. QED
  BY <1>1, <1>2, <1>3, <1>4, <1>5, <1>6, <1>7, <1>8, <1>9, <1>10, <1>11, <1>12,
     <1>13, <1>14, <1>15, <1>16, <1>17, <1>18, <1>19, <1>20, <1>21, <1>22,
     <1>23, <1>24, <1>25, <1>26, <1>27, <1>28, <1>29, <1>30, <1>31, <1>32,
     <1>33, <1>34
  DEF Next, Main, Reader, Worker, Stopped, Ended

-----------------------------------------------------------------------------
(* The abort flag.                                                          *)

(* The flag is up before its exception is stored, but then the thread that  *)
(* raised it is still about to store it.                                    *)
Storing == main = "store" \/ reader = "store" \/ \E w \in Pool : worker[w] = "store"

AbortInv ==
  /\ ~aborted => ~ep /\ ~Storing
  /\ aborted => ep \/ Storing
  /\ main = "returned" =>
       ~ep /\ reader = "done" /\ \A w \in Pool : worker[w] = "done"

LEMMA FlagInit == Init => FlagTypes /\ AbortInv
  BY DEF Init, FlagTypes, AbortInv, Storing

LEMMA FlagTypesStep == FlagTypes /\ [Next]_vars => FlagTypes'
<1>. USE DEF FlagTypes, mainVars, readerVars, workerVars, queueVars, abortVars
<1>. SUFFICES ASSUME FlagTypes, [Next]_vars PROVE FlagTypes'
  OBVIOUS
<1>1. CASE LaunchWorker
  BY <1>1 DEF LaunchWorker
<1>2. CASE LaunchReader
  BY <1>2 DEF LaunchReader
<1>3. CASE LaunchFails
  BY <1>3 DEF LaunchFails
<1>4. CASE Unwind
  BY <1>4 DEF Unwind
<1>5. CASE WriterPop
  BY <1>5 DEF WriterPop
<1>6. CASE WriterThrows
  BY <1>6 DEF WriterThrows
<1>7. CASE WriterEnds
  BY <1>7 DEF WriterEnds
<1>8. CASE MainAborts
  BY <1>8 DEF MainAborts, AfterExchange
<1>9. CASE MainStores
  BY <1>9 DEF MainStores
<1>10. CASE Join
  BY <1>10 DEF Join
<1>11. CASE ReaderReads
  BY <1>11 DEF ReaderReads, AtMessage
<1>12. CASE ReaderSkips
  BY <1>12 DEF ReaderSkips, AtMessage
<1>13. CASE ReaderThrows
  BY <1>13 DEF ReaderThrows, AtMessage
<1>14. CASE ReaderDispatches
  BY <1>14 DEF ReaderDispatches
<1>15. CASE ReaderForwards
  BY <1>15 DEF ReaderForwards
<1>16. CASE ReaderEnds
  BY <1>16 DEF ReaderEnds
<1>17. CASE ReaderAborts
  BY <1>17 DEF ReaderAborts, AfterExchange
<1>18. CASE ReaderStores
  BY <1>18 DEF ReaderStores
<1>19. CASE ReaderClosesQueue
  BY <1>19 DEF ReaderClosesQueue
<1>20. CASE ReaderReleases
  BY <1>20 DEF ReaderReleases, AfterRelease
<1>21. CASE ReaderClosesWrite
  BY <1>21 DEF ReaderClosesWrite
<1>22. ASSUME NEW w \in Pool, WorkerPops(w) PROVE FlagTypes'
  BY <1>22 DEF WorkerPops, Goto
<1>23. ASSUME NEW w \in Pool, WorkerEmits(w) PROVE FlagTypes'
  BY <1>23 DEF WorkerEmits, PushCloud
<1>24. ASSUME NEW w \in Pool, WorkerFinishesMessage(w) PROVE FlagTypes'
  BY <1>24 DEF WorkerFinishesMessage, Goto
<1>25. ASSUME NEW w \in Pool, WorkerReachesEnd(w) PROVE FlagTypes'
  BY <1>25 DEF WorkerReachesEnd, Goto
<1>26. ASSUME NEW w \in Pool, WorkerFlushes(w) PROVE FlagTypes'
  BY <1>26 DEF WorkerFlushes, Goto
<1>27. ASSUME NEW w \in Pool, WorkerEmitsTrailing(w) PROVE FlagTypes'
  BY <1>27 DEF WorkerEmitsTrailing, PushCloud, Goto
<1>28. ASSUME NEW w \in Pool, WorkerEndsFlush(w) PROVE FlagTypes'
  BY <1>28 DEF WorkerEndsFlush, Goto
<1>29. ASSUME NEW w \in Pool, WorkerThrows(w) PROVE FlagTypes'
  BY <1>29 DEF WorkerThrows, Goto
<1>30. ASSUME NEW w \in Pool, WorkerAborts(w) PROVE FlagTypes'
  BY <1>30 DEF WorkerAborts, AfterExchange, Goto
<1>31. ASSUME NEW w \in Pool, WorkerStores(w) PROVE FlagTypes'
  BY <1>31 DEF WorkerStores, Goto
<1>32. ASSUME NEW w \in Pool, WorkerReleases(w) PROVE FlagTypes'
  BY <1>32 DEF WorkerReleases, AfterRelease, Goto
<1>33. ASSUME NEW w \in Pool, WorkerClosesWrite(w) PROVE FlagTypes'
  BY <1>33 DEF WorkerClosesWrite, Goto
<1>34. CASE UNCHANGED vars
  BY <1>34 DEF vars
<1>. QED
  BY <1>1, <1>2, <1>3, <1>4, <1>5, <1>6, <1>7, <1>8, <1>9, <1>10, <1>11,
     <1>12, <1>13, <1>14, <1>15, <1>16, <1>17, <1>18, <1>19, <1>20, <1>21,
     <1>22, <1>23, <1>24, <1>25, <1>26, <1>27, <1>28, <1>29, <1>30, <1>31,
     <1>32, <1>33, <1>34
  DEF Next, Main, Reader, Worker, Stopped, Ended

LEMMA AbortStep == ControlInv /\ FlagTypes /\ AbortInv /\ [Next]_vars => AbortInv'
<1>. USE DEF AbortInv, Storing, FlagTypes, mainVars, readerVars, workerVars, queueVars,
             abortVars
<1>. SUFFICES ASSUME ControlInv, FlagTypes, AbortInv, [Next]_vars PROVE AbortInv'
  OBVIOUS
<1>1. CASE LaunchWorker
  <2>1. PICK n \in Pool : n = launched + 1
    BY <1>1, Sizes DEF LaunchWorker, ControlInv, ControlTypes, Pool
  <2>2. worker[n] = "unborn"
    BY <2>1, Sizes DEF ControlInv, ControlTypes, Phases, Pool
  <2>3. /\ worker' = [worker EXCEPT ![n] = "pop"] /\ main' = "launch" /\ main = "launch"
        /\ UNCHANGED <<reader, aborted, ep>>
    BY <1>1, <2>1 DEF LaunchWorker
  <2>. QED
    BY <2>2, <2>3 DEF ControlInv, ControlTypes
<1>2. CASE LaunchReader
  BY <1>2 DEF LaunchReader, ControlInv, Phases, Launching
<1>3. CASE LaunchFails
  BY <1>3 DEF LaunchFails
<1>4. CASE Unwind
  BY <1>4 DEF Unwind
<1>5. CASE WriterPop
  BY <1>5 DEF WriterPop
<1>6. CASE WriterThrows
  BY <1>6 DEF WriterThrows
<1>7. CASE WriterEnds
  BY <1>7 DEF WriterEnds
<1>8. CASE MainAborts
  BY <1>8 DEF MainAborts, AfterExchange
<1>9. CASE MainStores
  BY <1>9 DEF MainStores
<1>10. CASE Join
  BY <1>10 DEF Join
<1>11. CASE ReaderReads
  BY <1>11 DEF ReaderReads, AtMessage
<1>12. CASE ReaderSkips
  BY <1>12 DEF ReaderSkips, AtMessage
<1>13. CASE ReaderThrows
  BY <1>13 DEF ReaderThrows, AtMessage
<1>14. CASE ReaderDispatches
  BY <1>14 DEF ReaderDispatches
<1>15. CASE ReaderForwards
  BY <1>15 DEF ReaderForwards
<1>16. CASE ReaderEnds
  BY <1>16 DEF ReaderEnds
<1>17. CASE ReaderAborts
  BY <1>17 DEF ReaderAborts, AfterExchange
<1>18. CASE ReaderStores
  BY <1>18 DEF ReaderStores
<1>19. CASE ReaderClosesQueue
  BY <1>19 DEF ReaderClosesQueue
<1>20. CASE ReaderReleases
  BY <1>20 DEF ReaderReleases, AfterRelease
<1>21. CASE ReaderClosesWrite
  BY <1>21 DEF ReaderClosesWrite
<1>22. ASSUME NEW w \in Pool, WorkerPops(w) PROVE AbortInv'
  BY <1>22 DEF WorkerPops, Goto, ControlInv, ControlTypes
<1>23. ASSUME NEW w \in Pool, WorkerEmits(w) PROVE AbortInv'
  BY <1>23 DEF WorkerEmits, PushCloud, ControlInv, ControlTypes
<1>24. ASSUME NEW w \in Pool, WorkerFinishesMessage(w) PROVE AbortInv'
  BY <1>24 DEF WorkerFinishesMessage, Goto, ControlInv, ControlTypes
<1>25. ASSUME NEW w \in Pool, WorkerReachesEnd(w) PROVE AbortInv'
  BY <1>25 DEF WorkerReachesEnd, Goto, ControlInv, ControlTypes
<1>26. ASSUME NEW w \in Pool, WorkerFlushes(w) PROVE AbortInv'
  BY <1>26 DEF WorkerFlushes, Goto, ControlInv, ControlTypes
<1>27. ASSUME NEW w \in Pool, WorkerEmitsTrailing(w) PROVE AbortInv'
  BY <1>27 DEF WorkerEmitsTrailing, PushCloud, Goto, ControlInv,
     ControlTypes
<1>28. ASSUME NEW w \in Pool, WorkerEndsFlush(w) PROVE AbortInv'
  BY <1>28 DEF WorkerEndsFlush, Goto, ControlInv, ControlTypes
<1>29. ASSUME NEW w \in Pool, WorkerThrows(w) PROVE AbortInv'
  BY <1>29 DEF WorkerThrows, Goto, ControlInv, ControlTypes
<1>30. ASSUME NEW w \in Pool, WorkerAborts(w) PROVE AbortInv'
  BY <1>30 DEF WorkerAborts, AfterExchange, Goto, ControlInv, ControlTypes
<1>31. ASSUME NEW w \in Pool, WorkerStores(w) PROVE AbortInv'
  BY <1>31 DEF WorkerStores, Goto, ControlInv, ControlTypes
<1>32. ASSUME NEW w \in Pool, WorkerReleases(w) PROVE AbortInv'
  BY <1>32 DEF WorkerReleases, AfterRelease, Goto, ControlInv, ControlTypes
<1>33. ASSUME NEW w \in Pool, WorkerClosesWrite(w) PROVE AbortInv'
  BY <1>33 DEF WorkerClosesWrite, Goto, ControlInv, ControlTypes
<1>34. CASE UNCHANGED vars
  BY <1>34 DEF vars
<1>. QED
  BY <1>1, <1>2, <1>3, <1>4, <1>5, <1>6, <1>7, <1>8, <1>9, <1>10, <1>11,
     <1>12, <1>13, <1>14, <1>15, <1>16, <1>17, <1>18, <1>19, <1>20, <1>21,
     <1>22, <1>23, <1>24, <1>25, <1>26, <1>27, <1>28, <1>29, <1>30, <1>31,
     <1>32, <1>33, <1>34
  DEF Next, Main, Reader, Worker, Stopped, Ended

-----------------------------------------------------------------------------
(* The data the threads hand over.                                          *)

LEMMA Capacities == InCap \in Nat \ {0} /\ WriteCap \in Nat \ {0}
  BY PoolAssumption

(* A push that may happen respects the capacity and appends, or refuses.    *)
LEMMA PushKeepsType ==
  ASSUME NEW S, NEW q \in Seq(S), NEW x \in S, NEW cap \in Nat, NEW closed,
         Len(q) <= cap, MayPush(q, cap, closed)
  PROVE  Pushed(q, x, closed) \in Seq(S) /\ Len(Pushed(q, x, closed)) <= cap
<1>1. CASE closed \/ aborted
  BY <1>1 DEF Pushed
<1>2. CASE ~(closed \/ aborted)
  <2>1. Pushed(q, x, closed) = Append(q, x)
    BY <1>2 DEF Pushed
  <2>2. Len(q) < cap
    BY <1>2 DEF MayPush
  <2>. QED
    BY <2>1, <2>2
<1>. QED
  BY <1>1, <1>2

LEMMA PopKeepsType ==
  ASSUME NEW S, NEW q \in Seq(S), q # <<>>
  PROVE  Head(q) \in S /\ Tail(q) \in Seq(S) /\ Len(Tail(q)) = Len(q) - 1
  OBVIOUS

(* A worker decodes a message of a decoded topic.                           *)
TaskInv ==
  \A w \in Pool : worker[w] = "decode" => task[w] \in DecodedMessages

DataInv == DataTypes /\ TaskInv

LEMMA DataInit == Init => DataInv
<1>. SUFFICES ASSUME Init PROVE DataInv
  OBVIOUS
<1>1. DataTypes
  BY Sizes, Capacities DEF Init, DataTypes
<1>2. TaskInv
  BY DEF Init, TaskInv
<1>. QED
  BY <1>1, <1>2 DEF DataInv

LEMMA DataStep == ControlInv /\ DataInv /\ [Next]_vars => DataInv'
<1>. USE DEF mainVars, readerVars, workerVars, queueVars, abortVars
<1>. SUFFICES ASSUME ControlInv, DataInv, [Next]_vars PROVE DataInv'
  OBVIOUS
<1>. USE Sizes DEF DataInv, DataTypes, TaskInv
<1>1. CASE LaunchWorker
  <2>1. launched + 1 \in Pool
    BY <1>1 DEF LaunchWorker, ControlInv, ControlTypes, Pool
  <2>. QED
    BY <1>1, <2>1 DEF LaunchWorker, ControlInv, ControlTypes
<1>2. CASE LaunchReader
  BY <1>2 DEF LaunchReader
<1>3. CASE LaunchFails
  BY <1>3 DEF LaunchFails
<1>4. CASE Unwind
  BY <1>4 DEF Unwind
<1>5. CASE WriterPop
  <2>1. /\ Head(write_queue) \in Item /\ Tail(write_queue) \in Seq(Item)
        /\ Len(Tail(write_queue)) <= WriteCap
    BY <1>5, PopKeepsType, Capacities DEF WriterPop, MayPop
  <2>. DEFINE x == Head(write_queue)
  <2>2. x.stream \in Streams
    BY <2>1 DEF Item
  <2>3. Append(written[x.stream], x) \in Seq(Item)
    BY <2>1, <2>2
  <2>4. written' = [written EXCEPT ![x.stream] = Append(written[x.stream], x)]
    BY <1>5 DEF WriterPop
  <2>5. written' \in [Streams -> Seq(Item)]
    BY <2>2, <2>3, <2>4
  <2>. QED
    BY <1>5, <2>1, <2>5 DEF WriterPop
<1>6. CASE WriterThrows
  <2>1. Tail(write_queue) \in Seq(Item) /\ Len(Tail(write_queue)) <= WriteCap
    BY <1>6, PopKeepsType, Capacities DEF WriterThrows, MayPop
  <2>. QED
    BY <1>6, <2>1 DEF WriterThrows
<1>7. CASE WriterEnds
  BY <1>7 DEF WriterEnds
<1>8. CASE MainAborts
  BY <1>8 DEF MainAborts, AfterExchange
<1>9. CASE MainStores
  BY <1>9 DEF MainStores
<1>10. CASE Join
  BY <1>10 DEF Join
<1>11. CASE ReaderReads
  BY <1>11 DEF ReaderReads, AtMessage
<1>12. CASE ReaderSkips
  BY <1>12 DEF ReaderSkips, AtMessage
<1>13. CASE ReaderThrows
  BY <1>13 DEF ReaderThrows, AtMessage
<1>14. CASE ReaderDispatches
  <2>. DEFINE o == Owner(Bag[next])
              closed == o <= closed_in
  <2>1. o \in Pool
    BY <1>14, EverySlotOwned DEF ReaderDispatches
  <2>2. next \in DecodedMessages
    BY <1>14 DEF ReaderDispatches, ControlInv, Phases, DecodedMessages
  <2>3. /\ MayPush(in_queue[o], InCap, closed)
        /\ in_queue' = [in_queue EXCEPT ![o] = Pushed(in_queue[o], next, closed)]
    BY <1>14 DEF ReaderDispatches
  <2>4. /\ Pushed(in_queue[o], next, closed) \in Seq(DecodedMessages)
        /\ Len(Pushed(in_queue[o], next, closed)) <= InCap
    BY <2>1, <2>2, <2>3, PushKeepsType, Capacities
  <2>5. /\ in_queue' \in [Pool -> Seq(DecodedMessages)]
        /\ \A w \in Pool : Len(in_queue'[w]) <= InCap
    BY <2>1, <2>3, <2>4
  <2>. QED
    BY <1>14, <2>5 DEF ReaderDispatches
<1>15. CASE ReaderForwards
  <2>1. RawItem(next) \in Item
    BY <1>15 DEF ReaderForwards, ControlInv, Phases, Messages, RawItem, Item
  <2>2. MayPush(write_queue, WriteCap, write_closed)
        /\ write_queue' = Pushed(write_queue, RawItem(next), write_closed)
    BY <1>15 DEF ReaderForwards
  <2>3. write_queue' \in Seq(Item) /\ Len(write_queue') <= WriteCap
    BY <2>1, <2>2, PushKeepsType, Capacities
  <2>. QED
    BY <1>15, <2>3 DEF ReaderForwards
<1>16. CASE ReaderEnds
  BY <1>16 DEF ReaderEnds
<1>17. CASE ReaderAborts
  BY <1>17 DEF ReaderAborts, AfterExchange
<1>18. CASE ReaderStores
  BY <1>18 DEF ReaderStores
<1>19. CASE ReaderClosesQueue
  BY <1>19 DEF ReaderClosesQueue
<1>20. CASE ReaderReleases
  BY <1>20 DEF ReaderReleases, AfterRelease
<1>21. CASE ReaderClosesWrite
  BY <1>21 DEF ReaderClosesWrite
<1>22. ASSUME NEW w \in Pool, WorkerPops(w) PROVE DataInv'
  <2>. DEFINE m == Head(in_queue[w])
  <2>1. /\ m \in DecodedMessages /\ Tail(in_queue[w]) \in Seq(DecodedMessages)
        /\ Len(Tail(in_queue[w])) <= InCap
    BY <1>22, PopKeepsType, Capacities DEF WorkerPops, MayPop
  <2>2. /\ m \in Messages /\ Bag[m] \in DecodedTopics /\ m \in 0..Len(Bag)
    BY <2>1 DEF DecodedMessages, Messages
  <2>3. /\ in_queue' \in [Pool -> Seq(DecodedMessages)]
        /\ \A v \in Pool : Len(in_queue'[v]) <= InCap
    BY <1>22, <2>1 DEF WorkerPops
  <2>4. /\ fed' \in [DecodedTopics -> SUBSET Messages] /\ packets' \in [DecodedTopics -> Nat]
        /\ task' \in [Pool -> 0..Len(Bag)] /\ nth' \in [Pool -> Nat]
    BY <1>22, <2>2 DEF WorkerPops
  <2>5. TaskInv'
    BY <1>22, <2>1 DEF WorkerPops, Goto, ControlInv, ControlTypes
  <2>6. UNCHANGED <<clouds_produced, write_queue, written>>
    BY <1>22 DEF WorkerPops
  <2>. QED
    BY <2>3, <2>4, <2>5, <2>6
<1>23. ASSUME NEW w \in Pool, WorkerEmits(w) PROVE DataInv'
  <2>. DEFINE x == CloudItem(task[w], nth[w] + 1, fed[Bag[task[w]]])
  <2>0. Bag[task[w]] \in DecodedTopics
    BY <1>23 DEF WorkerEmits, DecodedMessages
  <2>1. x \in Item /\ x.stream \in DecodedTopics
    BY <1>23, <2>0 DEF WorkerEmits, CloudItem, Item, Streams, DecodedMessages, Messages
  <2>2. /\ MayPush(write_queue, WriteCap, write_closed)
        /\ write_queue' = Pushed(write_queue, x, write_closed)
        /\ clouds_produced' = [clouds_produced EXCEPT ![x.stream] = @ + 1]
    BY <1>23 DEF WorkerEmits, PushCloud
  <2>3. write_queue' \in Seq(Item) /\ Len(write_queue') <= WriteCap
    BY <2>1, <2>2, PushKeepsType, Capacities
  <2>4. clouds_produced' \in [DecodedTopics -> Nat]
    BY <2>1, <2>2
  <2>5. nth' \in [Pool -> Nat] /\ UNCHANGED <<worker, task, fed, packets, in_queue, written>>
    BY <1>23 DEF WorkerEmits, PushCloud
  <2>. QED
    BY <2>3, <2>4, <2>5
<1>24. ASSUME NEW w \in Pool, WorkerFinishesMessage(w) PROVE DataInv'
  BY <1>24 DEF WorkerFinishesMessage, Goto, ControlInv, ControlTypes
<1>25. ASSUME NEW w \in Pool, WorkerReachesEnd(w) PROVE DataInv'
  BY <1>25 DEF WorkerReachesEnd, Goto, ControlInv, ControlTypes
<1>26. ASSUME NEW w \in Pool, WorkerFlushes(w) PROVE DataInv'
  BY <1>26 DEF WorkerFlushes, Goto, ControlInv, ControlTypes
<1>27. ASSUME NEW w \in Pool, WorkerEmitsTrailing(w) PROVE DataInv'
  <2>. DEFINE x == TrailItem(Assigned(w, slot[w]), fed[Assigned(w, slot[w])])
  <2>0. Assigned(w, slot[w]) \in DecodedTopics
    BY <1>27, AssignedIndex DEF WorkerEmitsTrailing, ControlInv, ControlTypes, Phases
  <2>1. x \in Item /\ x.stream \in DecodedTopics
    BY <2>0 DEF TrailItem, Item, Streams
  <2>2. /\ MayPush(write_queue, WriteCap, write_closed)
        /\ write_queue' = Pushed(write_queue, x, write_closed)
        /\ clouds_produced' = [clouds_produced EXCEPT ![x.stream] = @ + 1]
    BY <1>27 DEF WorkerEmitsTrailing, PushCloud
  <2>3. write_queue' \in Seq(Item) /\ Len(write_queue') <= WriteCap
    BY <2>1, <2>2, PushKeepsType, Capacities
  <2>4. clouds_produced' \in [DecodedTopics -> Nat]
    BY <2>1, <2>2
  <2>5. TaskInv' /\ UNCHANGED <<task, nth, fed, packets, in_queue, written>>
    BY <1>27 DEF WorkerEmitsTrailing, PushCloud, Goto, ControlInv, ControlTypes
  <2>. QED
    BY <2>3, <2>4, <2>5
<1>28. ASSUME NEW w \in Pool, WorkerEndsFlush(w) PROVE DataInv'
  BY <1>28 DEF WorkerEndsFlush, Goto, ControlInv, ControlTypes
<1>29. ASSUME NEW w \in Pool, WorkerThrows(w) PROVE DataInv'
  BY <1>29 DEF WorkerThrows, Goto, ControlInv, ControlTypes
<1>30. ASSUME NEW w \in Pool, WorkerAborts(w) PROVE DataInv'
  BY <1>30 DEF WorkerAborts, AfterExchange, Goto, ControlInv, ControlTypes
<1>31. ASSUME NEW w \in Pool, WorkerStores(w) PROVE DataInv'
  BY <1>31 DEF WorkerStores, Goto, ControlInv, ControlTypes
<1>32. ASSUME NEW w \in Pool, WorkerReleases(w) PROVE DataInv'
  BY <1>32 DEF WorkerReleases, AfterRelease, Goto, ControlInv, ControlTypes
<1>33. ASSUME NEW w \in Pool, WorkerClosesWrite(w) PROVE DataInv'
  BY <1>33 DEF WorkerClosesWrite, Goto, ControlInv, ControlTypes
<1>34. CASE UNCHANGED vars
  BY <1>34 DEF vars
<1>. QED
  BY <1>1, <1>2, <1>3, <1>4, <1>5, <1>6, <1>7, <1>8, <1>9, <1>10, <1>11,
     <1>12, <1>13, <1>14, <1>15, <1>16, <1>17, <1>18, <1>19, <1>20, <1>21,
     <1>22, <1>23, <1>24, <1>25, <1>26, <1>27, <1>28, <1>29, <1>30, <1>31,
     <1>32, <1>33, <1>34
  DEF Next, Main, Reader, Worker, Stopped, Ended

-----------------------------------------------------------------------------
(* What the decoders have been fed.                                         *)

(* A message the reader has passed is in its decoder or on its way there.   *)
Delivered(m) == m \in fed[Bag[m]] \/ m \in Items(in_queue[Owner(Bag[m])])

FedInv ==
  /\ \A t \in DecodedTopics : fed[t] \subseteq MessagesOf(t)
  /\ ~aborted => \A m \in DecodedMessages : m < next => Delivered(m)
  /\ reader \in {"close"} \cup Leaving => aborted \/ next = Len(Bag) + 1
  /\ FlushesWholeTopics

LEMMA FedInit == Init => FedInv
  BY Sizes DEF Init, FedInv, Leaving, FlushesWholeTopics, DecodedMessages, Messages

LEMMA FedStep == ControlInv /\ AbortInv /\ DataInv /\ FedInv /\ [Next]_vars => FedInv'
<1>. USE DEF mainVars, readerVars, workerVars, queueVars, abortVars
<1>. SUFFICES ASSUME ControlInv, AbortInv, DataInv, FedInv, [Next]_vars PROVE FedInv'
  OBVIOUS
<1>. DEFINE Quiet == UNCHANGED <<fed, in_queue, next, reader, worker>> /\ (aborted => aborted')
<1>0. Quiet => FedInv'
  BY DEF FedInv, Delivered, FlushesWholeTopics
<1>1. CASE LaunchWorker
  <2>1. UNCHANGED <<fed, in_queue, next, reader, aborted>>
    BY <1>1 DEF LaunchWorker
  <2>2. \A w \in Pool : worker'[w] \in {"flush", "trail"} => worker[w] \in {"flush", "trail"}
    BY <1>1 DEF LaunchWorker, ControlInv, ControlTypes
  <2>. QED
    BY <2>1, <2>2 DEF FedInv, Delivered, FlushesWholeTopics
<1>2. CASE LaunchReader
  <2>1. UNCHANGED <<fed, in_queue, next, worker, aborted>>
    BY <1>2 DEF LaunchReader
  <2>2. reader' \in {"close"} \cup Leaving => reader \in {"close"} \cup Leaving \/ aborted
    BY <1>2 DEF LaunchReader, Leaving
  <2>. QED
    BY <2>1, <2>2 DEF FedInv, Delivered, FlushesWholeTopics
<1>3. CASE LaunchFails
  BY <1>0, <1>3 DEF LaunchFails
<1>4. CASE Unwind
  BY <1>0, <1>4 DEF Unwind
<1>5. CASE WriterPop
  BY <1>0, <1>5 DEF WriterPop
<1>6. CASE WriterThrows
  BY <1>0, <1>6 DEF WriterThrows
<1>7. CASE WriterEnds
  BY <1>0, <1>7 DEF WriterEnds
<1>8. CASE MainAborts
  BY <1>0, <1>8 DEF MainAborts, AfterExchange
<1>9. CASE MainStores
  BY <1>0, <1>9 DEF MainStores
<1>10. CASE Join
  BY <1>0, <1>10 DEF Join
<1>11. CASE ReaderReads
  <2>1. UNCHANGED <<fed, in_queue, next, worker, aborted>>
    BY <1>11 DEF ReaderReads, AtMessage
  <2>2. reader' \in {"close"} \cup Leaving => reader \in {"close"} \cup Leaving \/ aborted
    BY <1>11 DEF ReaderReads, AtMessage, Leaving
  <2>. QED
    BY <2>1, <2>2 DEF FedInv, Delivered, FlushesWholeTopics
<1>12. CASE ReaderSkips
  <2>1. UNCHANGED <<fed, in_queue, worker, aborted>> /\ next' = next + 1
        /\ reader' = "read" /\ next \in Nat
    BY <1>12 DEF ReaderSkips, AtMessage, ControlInv, ControlTypes
  <2>2. next \notin DecodedMessages
    BY <1>12, BagAssumption DEF ReaderSkips, AtMessage, DecodedMessages, Streams
  <2>3. \A m \in DecodedMessages : m < next + 1 => m < next
    BY <2>1, <2>2 DEF DecodedMessages, Messages
  <2>. QED
    BY <2>1, <2>3 DEF FedInv, Delivered, FlushesWholeTopics, Leaving
<1>13. CASE ReaderThrows
  <2>1. UNCHANGED <<fed, in_queue, next, worker, aborted>>
    BY <1>13 DEF ReaderThrows, AtMessage
  <2>2. reader' \in {"close"} \cup Leaving => reader \in {"close"} \cup Leaving \/ aborted
    BY <1>13 DEF ReaderThrows, AtMessage, Leaving
  <2>. QED
    BY <2>1, <2>2 DEF FedInv, Delivered, FlushesWholeTopics
<1>14. CASE ReaderDispatches
  <2>. DEFINE o == Owner(Bag[next])
              closed == o <= closed_in
  <2>1. o \in Pool /\ next \in DecodedMessages /\ next \in Nat
    BY <1>14, EverySlotOwned DEF ReaderDispatches, ControlInv, ControlTypes, Phases,
                             DecodedMessages
  <2>2. ~closed
    BY <1>14, <2>1 DEF ReaderDispatches, ControlInv, Phases, Reading, Pool
  <2>3. /\ in_queue' = [in_queue EXCEPT ![o] = Pushed(in_queue[o], next, closed)]
        /\ next' = next + 1 /\ reader' = "read"
        /\ UNCHANGED <<fed, worker, aborted>>
    BY <1>14 DEF ReaderDispatches
  <2>4. ASSUME ~aborted, NEW m \in DecodedMessages, m < next + 1
        PROVE  Delivered(m)'
    <3>1. in_queue' = [in_queue EXCEPT ![o] = Append(in_queue[o], next)]
      BY <2>2, <2>3, <2>4 DEF Pushed
    <3>2. in_queue \in [Pool -> Seq(DecodedMessages)]
      BY DEF DataInv, DataTypes
    <3>3. Items(in_queue'[o]) = Items(in_queue[o]) \cup {next}
      BY <2>1, <3>1, <3>2, ItemsOfAppend
    <3>4. Owner(Bag[m]) \in Pool
      BY EverySlotOwned DEF DecodedMessages
    <3>5. Items(in_queue[Owner(Bag[m])]) \subseteq Items(in_queue'[Owner(Bag[m])])
      BY <3>1, <3>2, <3>3, <3>4
    <3>6. CASE m = next
      BY <3>3, <3>6 DEF Delivered
    <3>7. CASE m # next
      <4>1. m < next
        BY <2>1, <2>4, <3>7 DEF DecodedMessages, Messages
      <4>2. Delivered(m)
        BY <2>4, <4>1 DEF FedInv
      <4>. QED
        BY <2>3, <3>5, <4>2 DEF Delivered
    <3>. QED
      BY <3>6, <3>7
  <2>. QED
    BY <2>3, <2>4 DEF FedInv, FlushesWholeTopics, Leaving
<1>15. CASE ReaderForwards
  <2>1. UNCHANGED <<fed, in_queue, worker, aborted>> /\ next' = next + 1
        /\ reader' = "read" /\ next \in Nat
    BY <1>15 DEF ReaderForwards, ControlInv, ControlTypes
  <2>2. next \notin DecodedMessages
    BY <1>15, BagAssumption DEF ReaderForwards, DecodedMessages, Streams
  <2>3. \A m \in DecodedMessages : m < next + 1 => m < next
    BY <2>1, <2>2 DEF DecodedMessages, Messages
  <2>. QED
    BY <2>1, <2>3 DEF FedInv, Delivered, FlushesWholeTopics, Leaving
<1>16. CASE ReaderEnds
  <2>1. UNCHANGED <<fed, in_queue, next, worker, aborted>>
    BY <1>16 DEF ReaderEnds
  <2>2. aborted \/ next = Len(Bag) + 1
    BY <1>16, Sizes DEF ReaderEnds, ControlInv, ControlTypes, Messages
  <2>. QED
    BY <2>1, <2>2 DEF FedInv, Delivered, FlushesWholeTopics
<1>17. CASE ReaderAborts
  <2>1. UNCHANGED <<fed, in_queue, next, worker>> /\ aborted'
    BY <1>17 DEF ReaderAborts
  <2>. QED
    BY <2>1 DEF FedInv, Delivered, FlushesWholeTopics
<1>18. CASE ReaderStores
  <2>1. UNCHANGED <<fed, in_queue, next, worker, aborted>>
    BY <1>18 DEF ReaderStores
  <2>2. reader' \in {"close"} \cup Leaving => reader \in {"close"} \cup Leaving \/ aborted
    BY <1>18 DEF ReaderStores, Leaving, AbortInv, Storing
  <2>. QED
    BY <2>1, <2>2 DEF FedInv, Delivered, FlushesWholeTopics
<1>19. CASE ReaderClosesQueue
  <2>1. UNCHANGED <<fed, in_queue, next, worker, aborted>>
    BY <1>19 DEF ReaderClosesQueue
  <2>2. reader' \in {"close"} \cup Leaving => reader \in {"close"} \cup Leaving \/ aborted
    BY <1>19 DEF ReaderClosesQueue, Leaving
  <2>. QED
    BY <2>1, <2>2 DEF FedInv, Delivered, FlushesWholeTopics
<1>20. CASE ReaderReleases
  <2>1. UNCHANGED <<fed, in_queue, next, worker, aborted>>
    BY <1>20 DEF ReaderReleases, AfterRelease
  <2>2. reader' \in {"close"} \cup Leaving => reader \in {"close"} \cup Leaving \/ aborted
    BY <1>20 DEF ReaderReleases, AfterRelease, Leaving
  <2>. QED
    BY <2>1, <2>2 DEF FedInv, Delivered, FlushesWholeTopics
<1>21. CASE ReaderClosesWrite
  <2>1. UNCHANGED <<fed, in_queue, next, worker, aborted>>
    BY <1>21 DEF ReaderClosesWrite
  <2>2. reader' \in {"close"} \cup Leaving => reader \in {"close"} \cup Leaving \/ aborted
    BY <1>21 DEF ReaderClosesWrite, Leaving
  <2>. QED
    BY <2>1, <2>2 DEF FedInv, Delivered, FlushesWholeTopics
<1>22. ASSUME NEW w \in Pool, WorkerPops(w) PROVE FedInv'
  <2>. DEFINE m == Head(in_queue[w])
  <2>1. /\ in_queue \in [Pool -> Seq(DecodedMessages)] /\ in_queue[w] # <<>>
        /\ fed \in [DecodedTopics -> SUBSET Messages]
    BY <1>22 DEF WorkerPops, MayPop, DataInv, DataTypes
  <2>2. m \in DecodedMessages /\ Bag[m] \in DecodedTopics /\ m \in MessagesOf(Bag[m])
    <3>1. m \in DecodedMessages
      BY <2>1, PopKeepsType
    <3>. QED
      BY <3>1 DEF DecodedMessages, MessagesOf
  <2>3. Items(in_queue[w]) = {m} \cup Items(Tail(in_queue[w]))
    BY <2>1, ItemsOfTail
  <2>4. /\ in_queue' = [in_queue EXCEPT ![w] = Tail(in_queue[w])]
        /\ fed' = [fed EXCEPT ![Bag[m]] = fed[Bag[m]] \cup {m}]
        /\ worker' = [worker EXCEPT ![w] = "decode"]
        /\ UNCHANGED <<next, reader, aborted>>
    BY <1>22 DEF WorkerPops, Goto
  <2>5. \A t \in DecodedTopics :
          fed[t] \subseteq fed'[t] /\ fed'[t] \subseteq MessagesOf(t)
    BY <2>1, <2>2, <2>4 DEF FedInv
  <2>6. ASSUME NEW n \in DecodedMessages, Delivered(n) PROVE Delivered(n)'
    <3>1. Bag[n] \in DecodedTopics /\ Owner(Bag[n]) \in Pool
      BY EverySlotOwned DEF DecodedMessages
    <3>2. CASE n = m
      BY <2>1, <2>2, <2>4, <3>2 DEF Delivered
    <3>3. CASE n # m
      <4>1. n \in Items(in_queue[Owner(Bag[n])]) => n \in Items(in_queue'[Owner(Bag[n])])
        BY <2>1, <2>3, <2>4, <3>1, <3>3
      <4>2. n \in fed[Bag[n]] => n \in fed'[Bag[n]]
        BY <2>5, <3>1
      <4>. QED
        BY <2>6, <4>1, <4>2 DEF Delivered
    <3>. QED
      BY <3>2, <3>3
  <2>7. FlushesWholeTopics'
    <3>. SUFFICES ASSUME NEW v \in Pool, worker'[v] \in {"flush", "trail"}, NEW i \in 1..Per
                  PROVE  fed'[Assigned(v, i)] = MessagesOf(Assigned(v, i))
      BY DEF FlushesWholeTopics, Assigned, Per, MessagesOf, Messages
    <3>1. worker[v] \in {"flush", "trail"}
      BY <2>4 DEF ControlInv, ControlTypes
    <3>2. fed[Assigned(v, i)] = MessagesOf(Assigned(v, i))
      BY <3>1 DEF FedInv, FlushesWholeTopics
    <3>. QED
      BY <2>5, <3>2, AssignedIndex
  <2>. QED
    BY <2>4, <2>5, <2>6, <2>7 DEF FedInv
<1>23. ASSUME NEW w \in Pool, WorkerEmits(w) PROVE FedInv'
  <2>1. UNCHANGED <<fed, in_queue, next, reader>> /\ (aborted => aborted')
    BY <1>23 DEF WorkerEmits, PushCloud
  <2>2. \A v \in Pool : worker'[v] \in {"flush", "trail"} => worker[v] \in {"flush", "trail"}
    BY <1>23 DEF WorkerEmits, PushCloud, ControlInv, ControlTypes
  <2>. QED
    BY <2>1, <2>2 DEF FedInv, Delivered, FlushesWholeTopics
<1>24. ASSUME NEW w \in Pool, WorkerFinishesMessage(w) PROVE FedInv'
  <2>1. UNCHANGED <<fed, in_queue, next, reader>> /\ (aborted => aborted')
    BY <1>24 DEF WorkerFinishesMessage, Goto
  <2>2. \A v \in Pool : worker'[v] \in {"flush", "trail"} => worker[v] \in {"flush", "trail"}
    BY <1>24 DEF WorkerFinishesMessage, Goto, ControlInv, ControlTypes
  <2>. QED
    BY <2>1, <2>2 DEF FedInv, Delivered, FlushesWholeTopics
<1>25. ASSUME NEW w \in Pool, WorkerReachesEnd(w) PROVE FedInv'
  <2>1. UNCHANGED <<fed, in_queue, next, reader, aborted>>
    BY <1>25 DEF WorkerReachesEnd
  <2>2. ASSUME ~aborted, NEW i \in 1..Per
        PROVE  fed[Assigned(w, i)] = MessagesOf(Assigned(w, i))
    <3>. DEFINE t == Assigned(w, i)
    <3>1. t \in DecodedTopics /\ Owner(t) = w
      BY AssignedIndex, OwnerOfAssigned
    <3>2. in_queue[w] = <<>> /\ w <= closed_in
      BY <1>25, <2>2 DEF WorkerReachesEnd, PopRefused
    <3>3. next = Len(Bag) + 1
      <4>1. closed_in # 0
        BY <3>2, Sizes DEF Pool, ControlInv, ControlTypes
      <4>2. reader \in {"close"} \cup Leaving
        BY <4>1 DEF ControlInv, ControlTypes, ReaderPlaces, Phases, Reading, Leaving
      <4>. QED
        BY <2>2, <4>2 DEF FedInv
    <3>4. ASSUME NEW m \in MessagesOf(t) PROVE m \in fed[t]
      <4>1. m \in DecodedMessages /\ Bag[m] = t /\ m < next
        BY <3>1, <3>3, Sizes DEF MessagesOf, DecodedMessages, Messages
      <4>2. Delivered(m)
        BY <2>2, <4>1 DEF FedInv
      <4>3. Items(in_queue[w]) = {}
        BY <3>2 DEF Items
      <4>. QED
        BY <3>1, <4>1, <4>2, <4>3 DEF Delivered
    <3>. QED
      BY <3>1, <3>4 DEF FedInv
  <2>3. ASSUME NEW v \in Pool, worker'[v] \in {"flush", "trail"}
        PROVE  worker[v] \in {"flush", "trail"} \/ (v = w /\ ~aborted)
    BY <1>25, <2>3 DEF WorkerReachesEnd, Goto, ControlInv, ControlTypes
  <2>4. FlushesWholeTopics'
    <3>. SUFFICES ASSUME NEW v \in Pool, worker'[v] \in {"flush", "trail"}, NEW i \in 1..Per
                  PROVE  fed[Assigned(v, i)] = MessagesOf(Assigned(v, i))
      BY <2>1 DEF FlushesWholeTopics
    <3>. QED
      BY <2>2, <2>3 DEF FedInv, FlushesWholeTopics
  <2>. QED
    BY <2>1, <2>4 DEF FedInv, Delivered
<1>26. ASSUME NEW w \in Pool, WorkerFlushes(w) PROVE FedInv'
  <2>1. UNCHANGED <<fed, in_queue, next, reader>> /\ (aborted => aborted')
    BY <1>26 DEF WorkerFlushes, Goto
  <2>2. \A v \in Pool : worker'[v] \in {"flush", "trail"} => worker[v] \in {"flush", "trail"}
    BY <1>26 DEF WorkerFlushes, Goto, ControlInv, ControlTypes
  <2>. QED
    BY <2>1, <2>2 DEF FedInv, Delivered, FlushesWholeTopics
<1>27. ASSUME NEW w \in Pool, WorkerEmitsTrailing(w) PROVE FedInv'
  <2>1. UNCHANGED <<fed, in_queue, next, reader>> /\ (aborted => aborted')
    BY <1>27 DEF WorkerEmitsTrailing, PushCloud, Goto
  <2>2. \A v \in Pool : worker'[v] \in {"flush", "trail"} => worker[v] \in {"flush", "trail"}
    BY <1>27 DEF WorkerEmitsTrailing, PushCloud, Goto, ControlInv, ControlTypes
  <2>. QED
    BY <2>1, <2>2 DEF FedInv, Delivered, FlushesWholeTopics
<1>28. ASSUME NEW w \in Pool, WorkerEndsFlush(w) PROVE FedInv'
  <2>1. UNCHANGED <<fed, in_queue, next, reader>> /\ (aborted => aborted')
    BY <1>28 DEF WorkerEndsFlush, Goto
  <2>2. \A v \in Pool : worker'[v] \in {"flush", "trail"} => worker[v] \in {"flush", "trail"}
    BY <1>28 DEF WorkerEndsFlush, Goto, ControlInv, ControlTypes
  <2>. QED
    BY <2>1, <2>2 DEF FedInv, Delivered, FlushesWholeTopics
<1>29. ASSUME NEW w \in Pool, WorkerThrows(w) PROVE FedInv'
  <2>1. UNCHANGED <<fed, in_queue, next, reader>> /\ (aborted => aborted')
    BY <1>29 DEF WorkerThrows, Goto
  <2>2. \A v \in Pool : worker'[v] \in {"flush", "trail"} => worker[v] \in {"flush", "trail"}
    BY <1>29 DEF WorkerThrows, Goto, ControlInv, ControlTypes
  <2>. QED
    BY <2>1, <2>2 DEF FedInv, Delivered, FlushesWholeTopics
<1>30. ASSUME NEW w \in Pool, WorkerAborts(w) PROVE FedInv'
  <2>1. UNCHANGED <<fed, in_queue, next, reader>> /\ (aborted => aborted')
    BY <1>30 DEF WorkerAborts, AfterExchange, Goto
  <2>2. \A v \in Pool : worker'[v] \in {"flush", "trail"} => worker[v] \in {"flush", "trail"}
    BY <1>30 DEF WorkerAborts, AfterExchange, Goto, ControlInv, ControlTypes
  <2>. QED
    BY <2>1, <2>2 DEF FedInv, Delivered, FlushesWholeTopics
<1>31. ASSUME NEW w \in Pool, WorkerStores(w) PROVE FedInv'
  <2>1. UNCHANGED <<fed, in_queue, next, reader>> /\ (aborted => aborted')
    BY <1>31 DEF WorkerStores, Goto
  <2>2. \A v \in Pool : worker'[v] \in {"flush", "trail"} => worker[v] \in {"flush", "trail"}
    BY <1>31 DEF WorkerStores, Goto, ControlInv, ControlTypes
  <2>. QED
    BY <2>1, <2>2 DEF FedInv, Delivered, FlushesWholeTopics
<1>32. ASSUME NEW w \in Pool, WorkerReleases(w) PROVE FedInv'
  <2>1. UNCHANGED <<fed, in_queue, next, reader>> /\ (aborted => aborted')
    BY <1>32 DEF WorkerReleases, AfterRelease, Goto
  <2>2. \A v \in Pool : worker'[v] \in {"flush", "trail"} => worker[v] \in {"flush", "trail"}
    BY <1>32 DEF WorkerReleases, AfterRelease, Goto, ControlInv, ControlTypes
  <2>. QED
    BY <2>1, <2>2 DEF FedInv, Delivered, FlushesWholeTopics
<1>33. ASSUME NEW w \in Pool, WorkerClosesWrite(w) PROVE FedInv'
  <2>1. UNCHANGED <<fed, in_queue, next, reader>> /\ (aborted => aborted')
    BY <1>33 DEF WorkerClosesWrite, Goto
  <2>2. \A v \in Pool : worker'[v] \in {"flush", "trail"} => worker[v] \in {"flush", "trail"}
    BY <1>33 DEF WorkerClosesWrite, Goto, ControlInv, ControlTypes
  <2>. QED
    BY <2>1, <2>2 DEF FedInv, Delivered, FlushesWholeTopics
<1>34. CASE UNCHANGED vars
  BY <1>0, <1>34 DEF vars
<1>. QED
  BY <1>1, <1>2, <1>3, <1>4, <1>5, <1>6, <1>7, <1>8, <1>9, <1>10, <1>11,
     <1>12, <1>13, <1>14, <1>15, <1>16, <1>17, <1>18, <1>19, <1>20, <1>21,
     <1>22, <1>23, <1>24, <1>25, <1>26, <1>27, <1>28, <1>29, <1>30, <1>31,
     <1>32, <1>33, <1>34
  DEF Next, Main, Reader, Worker, Stopped, Ended

-----------------------------------------------------------------------------
(* The inductive invariant, and what follows from it.                       *)

IInv == ControlInv /\ Counted /\ OneCloser /\ FlagTypes /\ AbortInv /\ DataInv
        /\ FedInv

LEMMA Induction == Spec => []IInv
<1>1. Init => IInv
  BY ControlInit, CountedInit, OneCloserInit, FlagInit, DataInit,
     FedInit DEF IInv
<1>2. IInv /\ [Next]_vars => IInv'
  BY ControlStep, CountedStep, OneCloserStep, FlagTypesStep, AbortStep, DataStep,
     FedStep DEF IInv
<1>. QED
  BY <1>1, <1>2, PTL DEF Spec

(* At most the reader, every worker and one worker that failed to start are *)
(* counted, and the last of these leaves room for no other.                 *)
LEMMA CountBounded ==
  ASSUME ControlInv, Counted
  PROVE  active_producers \in 0..Workers + 1
<1>1. launched \in 0..Workers
  BY DEF ControlInv, ControlTypes
<1>2. Live \in SUBSET (1..launched)
  BY <1>1, Sizes DEF Live, Pool, ControlInv, Phases
<1>3. Cardinality(Live) \in Nat /\ Cardinality(Live) <= launched
  <2>1. IsFiniteSet(1..launched) /\ Cardinality(1..launched) = launched
    BY <1>1, FS_Interval
  <2>. QED
    BY <1>2, <2>1, FS_Subset, LiveFinite
<1>4. ReaderHolds \in 0..1
  BY DEF ReaderHolds
<1>5. Overcount \in 0..1 /\ (Overcount = 1 => launched < Workers)
  BY DEF Overcount
<1>. QED
  BY <1>1, <1>3, <1>4, <1>5, Sizes DEF Counted

(* Every variable keeps its type, the queues their capacities, and the      *)
(* count of producers neither wraps below zero nor exceeds the pool: for    *)
(* run_convert_parallel with any bag, pool and queue size.                  *)
THEOREM TypeCorrect == Spec => []TypeOK
<1>1. IInv => TypeOK
  BY CountBounded DEF IInv, ControlInv, DataInv, TypeOK
<1>. QED
  BY <1>1, Induction, PTL

(* The write queue is closed only when the reader and every worker are      *)
(* done, so no push into it is refused for being late: for any pool size,   *)
(* whatever fails and in whatever order the threads leave.                  *)
THEOREM ClosesLast == Spec => []WriteQueueClosesLast
<1>1. IInv => WriteQueueClosesLast
  <2>. SUFFICES ASSUME IInv, write_closed
                PROVE  reader = "done" /\ \A w \in Pool : worker[w] = "done"
    BY DEF WriteQueueClosesLast
  <2>1. active_producers = 0 /\ reader # "close_write"
        /\ \A w \in Pool : worker[w] # "close_write"
    BY DEF IInv, OneCloser, Closing
  <2>2. reader = "done" /\ Live = {}
    BY <2>1, ZeroMeansNone DEF IInv
  <2>3. \A w \in Pool : worker[w] # "unborn"
    BY <2>2, Sizes DEF IInv, ControlInv, ControlTypes, Phases, Pool
  <2>. QED
    BY <2>1, <2>2, <2>3 DEF Live
<1>. QED
  BY <1>1, Induction, PTL

(* A decoder is flushed only after it was fed its whole topic, however the  *)
(* threads interleave and whichever of them fails.                          *)
THEOREM FlushIsComplete == Spec => []FlushesWholeTopics
<1>1. IInv => FlushesWholeTopics
  BY DEF IInv, FedInv
<1>. QED
  BY <1>1, Induction, PTL

(* A returned result means that no thread met an exception: the abort flag  *)
(* is down, nothing is stored and nobody is about to store, although the    *)
(* flag goes up in one step and the exception is stored in another.         *)
THEOREM FailuresReachTheCaller == Spec => []NoSilentFailure
<1>1. IInv => NoSilentFailure
  BY DEF IInv, AbortInv, Storing, NoSilentFailure, FlagTypes
<1>. QED
  BY <1>1, Induction, PTL

-----------------------------------------------------------------------------
(* The end of the call.                                                     *)

AllDone == reader = "done" /\ \A w \in Pool : worker[w] = "done"
NobodyStarted == reader = "unborn" /\ \A w \in Pool : worker[w] = "unborn"

(* Nobody but a failed launch leaves workers that are not joined.           *)
EndInv ==
  /\ main = "unwind" => "launch" \in Failures
  /\ main = "returned" => AllDone
  /\ main = "threw" => AllDone \/ NobodyStarted
  /\ main = "terminated" => "launch" \in Failures /\ launched > 0

LEMMA EndStep == ControlInv /\ EndInv /\ [Next]_vars => EndInv'
<1>. SUFFICES ASSUME ControlInv, EndInv, [Next]_vars PROVE EndInv'
  OBVIOUS
<1>1. CASE Ended
  <2>1. UNCHANGED <<main, launched, reader, worker>>
    BY <1>1 DEF Next, Stopped, vars, mainVars, readerVars, workerVars
  <2>. QED
    BY <2>1 DEF EndInv, Ended, AllDone, NobodyStarted
<1>2. CASE ~Ended /\ main' = main
  BY <1>2 DEF EndInv, Ended
<1>3. CASE ~Ended /\ main' # main
  <2>1. Main
    BY <1>3 DEF Next, Stopped, vars, mainVars, Reader, Worker, PushCloud,
       ReaderReads, ReaderSkips, ReaderThrows, ReaderDispatches, ReaderForwards, ReaderEnds,
       ReaderAborts, ReaderStores, ReaderClosesQueue, ReaderReleases, ReaderClosesWrite,
       WorkerPops, WorkerEmits, WorkerFinishesMessage, WorkerReachesEnd, WorkerFlushes,
       WorkerEmitsTrailing, WorkerEndsFlush, WorkerThrows, WorkerAborts, WorkerStores,
       WorkerReleases, WorkerClosesWrite
  <2>2. CASE LaunchFails
    BY <2>2 DEF LaunchFails, EndInv, Ended
  <2>3. CASE Unwind
    <3>1. /\ main = "unwind" /\ "launch" \in Failures /\ UNCHANGED <<launched, reader, worker>>
          /\ main' = IF launched = 0 THEN "threw" ELSE "terminated"
      BY <2>3 DEF Unwind, EndInv, readerVars, workerVars
    <3>2. reader = "unborn" /\ launched \in Nat /\ \A w \in Pool : w > 0
      BY <3>1, Sizes DEF ControlInv, ControlTypes, Phases, Launching, Pool
    <3>3. launched = 0 => NobodyStarted
      BY <3>2 DEF ControlInv, Phases, NobodyStarted
    <3>. QED
      BY <3>1, <3>2, <3>3 DEF EndInv, NobodyStarted
  <2>4. CASE Join
    <3>1. AllDone' /\ main' \in {"threw", "returned"}
      BY <2>4 DEF Join, AllDone, readerVars, workerVars
    <3>. QED
      BY <3>1 DEF EndInv
  <2>5. CASE LaunchWorker \/ LaunchReader \/ WriterPop \/ WriterThrows \/ WriterEnds
              \/ MainAborts \/ MainStores
    <3>1. main' \in {"launch", "write", "raise", "store", "join"}
      BY <2>5 DEF LaunchWorker, LaunchReader, WriterPop, WriterThrows, WriterEnds,
         MainAborts, MainStores, AfterExchange
    <3>. QED
      BY <3>1 DEF EndInv, Ended
  <2>. QED
    BY <2>1, <2>2, <2>3, <2>4, <2>5 DEF Main
<1>. QED
  BY <1>1, <1>2, <1>3

(* No thread outlives the call, which shares its locals with all of them:   *)
(* when it returns or throws, every thread has come to its end, or none was *)
(* started.  And only a std::thread that cannot be started ends the process *)
(* instead.                                                                 *)
THEOREM NoThreadOutlivesTheCall ==
  Spec => [](/\ main = "returned" => AllDone
             /\ main = "threw" => AllDone \/ NobodyStarted
             /\ "launch" \notin Failures => NeverTerminated)
<1>1. Init => EndInv
  BY DEF Init, EndInv, Ended
<1>2. IInv /\ IInv' /\ EndInv /\ [Next]_vars => EndInv'
  BY EndStep DEF IInv
<1>3. EndInv => /\ main = "returned" => AllDone
                /\ main = "threw" => AllDone \/ NobodyStarted
                /\ "launch" \notin Failures => NeverTerminated
  BY DEF EndInv, NeverTerminated
<1>. QED
  BY <1>1, <1>2, <1>3, Induction, PTL DEF Spec

-----------------------------------------------------------------------------
(* The order of the items.  Everything below holds on top of IInv.          *)

dataVars == <<next, advanced, task, nth, slot, fed, packets, clouds_produced,
              in_queue, write_queue, written>>

(* The writer still takes what comes, or took all of it.                    *)
Writing == main \in {"launch", "write"}
Healthy == ~aborted /\ (Writing \/ main \in {"join", "returned"})

(* A worker that is not in the middle of a message.                         *)
Idle(w) ==
  \/ worker[w] \in {"unborn", "pop", "flush", "trail"}
  \/ ~aborted /\ worker[w] \in Leaving

(* What the steps that move no data may do.                                 *)
Quiet ==
  /\ UNCHANGED dataVars
  /\ aborted => aborted'
  /\ write_closed => write_closed'
  /\ Writing' => Writing
  /\ Healthy' => Healthy
  /\ Healthy' /\ ~Writing' /\ Writing => write_queue = <<>> /\ write_closed
  /\ \A w \in Pool : Idle(w)' =>
       Idle(w) \/ (worker[w] = "decode" /\ nth[w] = Clouds[task[w]])
  /\ \A w \in Pool : ~aborted' /\ worker'[w] \in Leaving =>
       worker[w] \in Leaving \/ (worker[w] = "flush" /\ slot[w] > Per)
  /\ \A w \in Pool : worker'[w] = "trail" => worker[w] = "trail"

LEMMA QuietSteps ==
  ASSUME IInv, [Next]_vars
  PROVE  \/ Quiet
         \/ WriterPop \/ WriterThrows
         \/ ReaderSkips \/ ReaderDispatches \/ ReaderForwards
         \/ \E w \in Pool : \/ WorkerPops(w) \/ WorkerEmits(w)
                            \/ WorkerFlushes(w) \/ WorkerEmitsTrailing(w)
<1>. USE DEF Quiet, Writing, Healthy, Idle, Leaving, dataVars,
             mainVars, readerVars, workerVars, queueVars, abortVars
<1>0. worker \in [Pool -> WorkerPlaces] /\ aborted \in BOOLEAN
  BY DEF IInv, ControlInv, ControlTypes, FlagTypes
<1>1. CASE LaunchWorker
  <2>1. launched + 1 \in Pool /\ worker[launched + 1] = "unborn"
    BY <1>1, Sizes DEF LaunchWorker, IInv, ControlInv, ControlTypes, Phases, Pool
  <2>. QED
    BY <1>0, <1>1, <2>1 DEF LaunchWorker
<1>2. CASE LaunchReader
  BY <1>2 DEF LaunchReader
<1>3. CASE LaunchFails
  BY <1>3 DEF LaunchFails
<1>4. CASE Unwind
  BY <1>4 DEF Unwind
<1>5. CASE WriterEnds
  BY <1>5 DEF WriterEnds, PopRefused
<1>6. CASE MainAborts
  BY <1>6 DEF MainAborts, AfterExchange
<1>7. CASE MainStores
  <2>1. aborted
    BY <1>7 DEF MainStores, IInv, AbortInv, Storing
  <2>. QED
    BY <1>7, <2>1 DEF MainStores
<1>8. CASE Join
  BY <1>8 DEF Join
<1>9. CASE ReaderReads
  BY <1>9 DEF ReaderReads
<1>10. CASE ReaderThrows
  BY <1>10 DEF ReaderThrows
<1>11. CASE ReaderEnds
  BY <1>11 DEF ReaderEnds
<1>12. CASE ReaderAborts
  BY <1>12 DEF ReaderAborts
<1>13. CASE ReaderStores
  BY <1>13 DEF ReaderStores
<1>14. CASE ReaderClosesQueue
  BY <1>14 DEF ReaderClosesQueue
<1>15. CASE ReaderReleases
  BY <1>15 DEF ReaderReleases
<1>16. CASE ReaderClosesWrite
  BY <1>16 DEF ReaderClosesWrite
<1>17. ASSUME NEW w \in Pool, WorkerFinishesMessage(w) PROVE Quiet
  BY <1>0, <1>17 DEF WorkerFinishesMessage, Goto
<1>18. ASSUME NEW w \in Pool, WorkerReachesEnd(w) PROVE Quiet
  BY <1>0, <1>18 DEF WorkerReachesEnd, Goto
<1>19. ASSUME NEW w \in Pool, WorkerEndsFlush(w) PROVE Quiet
  BY <1>0, <1>19 DEF WorkerEndsFlush, Goto
<1>20. ASSUME NEW w \in Pool, WorkerThrows(w) PROVE Quiet
  BY <1>0, <1>20 DEF WorkerThrows, Goto
<1>21. ASSUME NEW w \in Pool, WorkerAborts(w) PROVE Quiet
  BY <1>0, <1>21 DEF WorkerAborts, AfterExchange, Goto
<1>22. ASSUME NEW w \in Pool, WorkerStores(w) PROVE Quiet
  <2>1. aborted
    BY <1>22 DEF WorkerStores, IInv, AbortInv, Storing
  <2>. QED
    BY <1>0, <1>22, <2>1 DEF WorkerStores, Goto
<1>23. ASSUME NEW w \in Pool, WorkerReleases(w) PROVE Quiet
  BY <1>0, <1>23 DEF WorkerReleases, AfterRelease, Goto
<1>24. ASSUME NEW w \in Pool, WorkerClosesWrite(w) PROVE Quiet
  BY <1>0, <1>24 DEF WorkerClosesWrite, Goto
<1>25. CASE UNCHANGED vars
  BY <1>25 DEF vars
<1>. QED
  BY <1>1, <1>2, <1>3, <1>4, <1>5, <1>6, <1>7, <1>8, <1>9, <1>10, <1>11, <1>12,
     <1>13, <1>14, <1>15, <1>16, <1>17, <1>18, <1>19, <1>20, <1>21, <1>22,
     <1>23, <1>24, <1>25
  DEF Next, Main, Reader, Worker, Stopped

-----------------------------------------------------------------------------
(* The worker queues: first in, first out, behind the reader.               *)

(* Each queue holds messages of its worker's topics that the decoders have  *)
(* not come to, in the order of the bag.                                    *)
QueueInOrder ==
  /\ \A t \in DecodedTopics : \A n \in fed[t] : n < next
  /\ \A w \in Pool : \A i \in 1..Len(in_queue[w]) :
       /\ in_queue[w][i] < next
       /\ Owner(Bag[in_queue[w][i]]) = w
       /\ \A n \in fed[Bag[in_queue[w][i]]] : n < in_queue[w][i]
       /\ \A j \in 1..i - 1 : in_queue[w][j] < in_queue[w][i]

(* What popping does, in terms of positions.                                *)
LEMMA TailPositions ==
  ASSUME NEW S, NEW q \in Seq(S), q # <<>>
  PROVE  /\ Len(Tail(q)) = Len(q) - 1 /\ Len(q) \in Nat \ {0}
         /\ Head(q) = q[1] /\ Head(q) \in S /\ Tail(q) \in Seq(S)
         /\ \A i \in 1..Len(q) - 1 : Tail(q)[i] = q[i + 1]
  OBVIOUS

(* The queue and the decoders of a worker as it pops message m.             *)
LEMMA PopFacts ==
  ASSUME IInv, NEW w \in Pool, WorkerPops(w)
  PROVE  LET m == in_queue[w][1]
         IN  /\ in_queue[w] \in Seq(DecodedMessages) /\ in_queue[w] # <<>>
             /\ m \in DecodedMessages /\ Bag[m] \in DecodedTopics /\ m \in MessagesOf(Bag[m])
             /\ m \in Nat \ {0}
             /\ in_queue' = [in_queue EXCEPT ![w] = Tail(in_queue[w])]
             /\ fed' = [fed EXCEPT ![Bag[m]] = fed[Bag[m]] \cup {m}]
             /\ packets' = [packets EXCEPT ![Bag[m]] = packets[Bag[m]] + 1]
             /\ task' = [task EXCEPT ![w] = m]
             /\ nth' = [nth EXCEPT ![w] = 0]
             /\ worker' = [worker EXCEPT ![w] = "decode"]
             /\ UNCHANGED <<next, slot, aborted, write_queue, written, advanced,
                            clouds_produced, main>>
             /\ fed \in [DecodedTopics -> SUBSET Messages]
             /\ worker \in [Pool -> WorkerPlaces]
             /\ task \in [Pool -> 0..Len(Bag)] /\ nth \in [Pool -> Nat]
             /\ in_queue \in [Pool -> Seq(DecodedMessages)]
<1>. DEFINE m == in_queue[w][1]
<1>1. in_queue \in [Pool -> Seq(DecodedMessages)] /\ in_queue[w] # <<>>
  BY DEF IInv, DataInv, DataTypes, WorkerPops, MayPop
<1>2. Head(in_queue[w]) = m /\ m \in DecodedMessages
  BY <1>1, TailPositions
<1>3. Bag[m] \in DecodedTopics /\ m \in MessagesOf(Bag[m]) /\ m \in Nat \ {0}
  BY <1>2, Sizes DEF DecodedMessages, MessagesOf, Messages
<1>. QED
  BY <1>1, <1>2, <1>3 DEF WorkerPops, Goto, mainVars, readerVars, abortVars,
     IInv, DataInv, DataTypes, ControlInv, ControlTypes

LEMMA QueueOrderStep ==
  ASSUME IInv, QueueInOrder, [Next]_vars
  PROVE  QueueInOrder'
<1>. USE DEF mainVars, readerVars, workerVars, queueVars, abortVars
<1>0. /\ next \in Nat
      /\ in_queue \in [Pool -> Seq(DecodedMessages)]
      /\ fed \in [DecodedTopics -> SUBSET Messages]
      /\ \A m \in DecodedMessages : m \in Nat /\ Bag[m] \in DecodedTopics
      /\ \A m \in Messages : m \in Nat
  BY Sizes DEF IInv, ControlInv, ControlTypes, DataInv, DataTypes, DecodedMessages, Messages
<1>1. ASSUME UNCHANGED <<fed, in_queue>>, next' \in {next, next + 1}
      PROVE  QueueInOrder'
  <2>1. \A n \in Nat : n < next => n < next'
    BY <1>0, <1>1
  <2>2. ASSUME NEW t \in DecodedTopics, NEW n \in fed[t] PROVE n < next'
    BY <1>0, <2>1 DEF QueueInOrder
  <2>3. ASSUME NEW w \in Pool, NEW i \in 1..Len(in_queue[w]) PROVE in_queue[w][i] < next'
    BY <1>0, <2>1 DEF QueueInOrder
  <2>. QED
    BY <1>1, <2>2, <2>3 DEF QueueInOrder
<1>2. CASE Quiet
  BY <1>1, <1>2 DEF Quiet, dataVars
<1>3. CASE WriterPop
  BY <1>1, <1>3 DEF WriterPop
<1>4. CASE WriterThrows
  BY <1>1, <1>4 DEF WriterThrows
<1>5. CASE ReaderSkips
  BY <1>1, <1>5 DEF ReaderSkips
<1>6. CASE ReaderForwards
  BY <1>1, <1>6 DEF ReaderForwards
<1>7. CASE ReaderDispatches
  <2>. DEFINE o == Owner(Bag[next])
              closed == o <= closed_in
  <2>1. o \in Pool /\ next \in DecodedMessages
    BY <1>7, EverySlotOwned DEF ReaderDispatches, IInv, ControlInv, Phases, DecodedMessages
  <2>2. /\ in_queue' = [in_queue EXCEPT ![o] = Pushed(in_queue[o], next, closed)]
        /\ next' = next + 1 /\ fed' = fed
    BY <1>7 DEF ReaderDispatches
  <2>3. CASE closed \/ aborted
    <3>1. in_queue' = in_queue
      BY <1>0, <2>1, <2>2, <2>3 DEF Pushed
    <3>. QED
      BY <1>1, <2>2, <3>1
  <2>4. CASE ~(closed \/ aborted)
    <3>. DEFINE q == in_queue[o]
    <3>1. /\ in_queue'[o] = Append(q, next) /\ q \in Seq(DecodedMessages)
          /\ \A v \in Pool : v # o => in_queue'[v] = in_queue[v]
      BY <1>0, <2>1, <2>2, <2>4 DEF Pushed
    <3>2. ASSUME NEW v \in Pool, NEW i \in 1..Len(in_queue'[v])
          PROVE  /\ in_queue'[v][i] < next'
                 /\ Owner(Bag[in_queue'[v][i]]) = v
                 /\ \A n \in fed[Bag[in_queue'[v][i]]] : n < in_queue'[v][i]
                 /\ \A j \in 1..i - 1 : in_queue'[v][j] < in_queue'[v][i]
      <4>1. CASE v = o /\ i = Len(q) + 1
        <5>1. in_queue'[v][i] = next /\ Bag[next] \in DecodedTopics /\ next < next'
          BY <1>0, <2>1, <2>2, <3>1, <4>1
        <5>2. \A j \in 1..i - 1 : in_queue'[v][j] = q[j] /\ q[j] < next
          BY <2>1, <3>1, <4>1 DEF QueueInOrder
        <5>3. Owner(Bag[next]) = v
          BY <4>1
        <5>4. \A n \in fed[Bag[next]] : n < next
          BY <5>1 DEF QueueInOrder
        <5>. QED
          BY <5>1, <5>2, <5>3, <5>4
      <4>2. CASE ~(v = o /\ i = Len(q) + 1)
        <5>1. i \in 1..Len(in_queue[v]) /\ \A j \in 1..i : in_queue'[v][j] = in_queue[v][j]
          BY <2>1, <3>1, <4>2
        <5>2. in_queue[v][i] \in Nat
          BY <1>0, <5>1
        <5>3. /\ in_queue[v][i] < next
              /\ Owner(Bag[in_queue[v][i]]) = v
              /\ \A n \in fed[Bag[in_queue[v][i]]] : n < in_queue[v][i]
              /\ \A j \in 1..i - 1 : in_queue[v][j] < in_queue[v][i]
          BY <5>1 DEF QueueInOrder
        <5>4. in_queue'[v][i] = in_queue[v][i] /\ in_queue[v][i] < next'
          BY <1>0, <2>2, <5>1, <5>2, <5>3
        <5>5. \A j \in 1..i - 1 : in_queue'[v][j] < in_queue[v][i]
          <6>1. \A j \in 1..i - 1 : j \in 1..i
            OBVIOUS
          <6>. QED
            BY <5>1, <5>3, <6>1
        <5>. QED
          BY <5>3, <5>4, <5>5
      <4>. QED
        BY <4>1, <4>2
    <3>3. ASSUME NEW t \in DecodedTopics, NEW n \in fed[t] PROVE n < next'
      BY <1>0, <2>2 DEF QueueInOrder
    <3>. QED
      BY <2>2, <3>2, <3>3 DEF QueueInOrder
  <2>. QED
    BY <2>3, <2>4
<1>8. ASSUME NEW w \in Pool, WorkerPops(w) PROVE QueueInOrder'
  <2>. DEFINE q == in_queue[w]
              m == q[1]
  <2>1. /\ q \in Seq(DecodedMessages) /\ q # <<>> /\ m \in DecodedMessages
        /\ in_queue' = [in_queue EXCEPT ![w] = Tail(q)]
        /\ fed' = [fed EXCEPT ![Bag[m]] = fed[Bag[m]] \cup {m}]
        /\ next' = next /\ m \in Nat /\ Bag[m] \in DecodedTopics
    BY <1>8, PopFacts
  <2>2. /\ Len(Tail(q)) = Len(q) - 1 /\ Len(q) \in Nat \ {0}
        /\ \A i \in 1..Len(q) - 1 : Tail(q)[i] = q[i + 1]
    BY <2>1, TailPositions
  <2>3. m < next /\ Owner(Bag[m]) = w
    BY <2>2 DEF QueueInOrder
  <2>4. ASSUME NEW t \in DecodedTopics, NEW n \in fed'[t] PROVE n < next'
    BY <1>0, <2>1, <2>3 DEF QueueInOrder
  <2>5. ASSUME NEW v \in Pool, NEW i \in 1..Len(in_queue'[v])
        PROVE  /\ in_queue'[v][i] < next
               /\ Owner(Bag[in_queue'[v][i]]) = v
               /\ \A n \in fed'[Bag[in_queue'[v][i]]] : n < in_queue'[v][i]
               /\ \A j \in 1..i - 1 : in_queue'[v][j] < in_queue'[v][i]
    <3>1. CASE v = w
      <4>1. /\ i + 1 \in 1..Len(q) /\ in_queue'[v][i] = q[i + 1]
            /\ \A j \in 1..i - 1 : in_queue'[v][j] = q[j + 1] /\ j + 1 \in 1..(i + 1) - 1
        BY <1>0, <2>1, <2>2, <3>1
      <4>2. m < q[i + 1] /\ q[i + 1] \in DecodedMessages
        BY <2>1, <2>2, <4>1 DEF QueueInOrder
      <4>3. ASSUME NEW n \in fed'[Bag[q[i + 1]]] PROVE n < q[i + 1]
        <5>1. n \in fed[Bag[q[i + 1]]] \/ n = m
          BY <1>0, <2>1, <4>2
        <5>. QED
          BY <4>1, <4>2, <5>1 DEF QueueInOrder
      <4>. QED
        BY <3>1, <4>1, <4>3 DEF QueueInOrder
    <3>2. CASE v # w
      <4>1. in_queue'[v] = in_queue[v] /\ in_queue[v][i] \in DecodedMessages
        BY <1>0, <2>1, <3>2
      <4>2. Bag[in_queue[v][i]] # Bag[m]
        BY <2>3, <3>2, <4>1 DEF QueueInOrder
      <4>3. fed'[Bag[in_queue[v][i]]] = fed[Bag[in_queue[v][i]]]
        BY <1>0, <2>1, <4>1, <4>2
      <4>. QED
        BY <4>1, <4>3 DEF QueueInOrder
    <3>. QED
      BY <3>1, <3>2
  <2>. QED
    BY <2>1, <2>4, <2>5 DEF QueueInOrder
<1>9. ASSUME NEW w \in Pool, WorkerEmits(w) PROVE QueueInOrder'
  BY <1>1, <1>9 DEF WorkerEmits, PushCloud
<1>10. ASSUME NEW w \in Pool, WorkerFlushes(w) PROVE QueueInOrder'
  BY <1>1, <1>10 DEF WorkerFlushes
<1>11. ASSUME NEW w \in Pool, WorkerEmitsTrailing(w) PROVE QueueInOrder'
  BY <1>1, <1>11 DEF WorkerEmitsTrailing, PushCloud
<1>. QED
  BY <1>2, <1>3, <1>4, <1>5, <1>6, <1>7, <1>8, <1>9, <1>10, <1>11, QuietSteps

-----------------------------------------------------------------------------
(* The messages in the decoders.                                            *)

(* The task of a worker is the last message its topic's decoder was fed, in *)
(* the order of the bag; between two messages it has no cloud left to give. *)
TaskOrder ==
  \A w \in Pool : task[w] # 0 =>
    /\ task[w] \in DecodedMessages /\ Owner(Bag[task[w]]) = w
    /\ task[w] \in fed[Bag[task[w]]]
    /\ nth[w] <= Clouds[task[w]]
    /\ Idle(w) => nth[w] = Clouds[task[w]]
    /\ ~aborted => fed[Bag[task[w]]] = UpTo(task[w])

(* A worker leaves undisturbed only with its topics decoded and flushed.    *)
Finished ==
  \A w \in Pool : ~aborted /\ worker[w] \in Leaving =>
    /\ slot[w] = Per + 1
    /\ \A i \in 1..Per : fed[Assigned(w, i)] = MessagesOf(Assigned(w, i))

LEMMA TaskStays ==
  ASSUME TaskOrder, UNCHANGED <<task, nth, fed>>, aborted => aborted',
         \A w \in Pool : Idle(w)' =>
           Idle(w) \/ (worker[w] = "decode" /\ nth[w] = Clouds[task[w]])
  PROVE  TaskOrder'
BY DEF TaskOrder

LEMMA FinishedStays ==
  ASSUME IInv, Finished, UNCHANGED <<slot, fed>>, aborted => aborted',
         \A w \in Pool : ~aborted' /\ worker'[w] \in Leaving =>
           worker[w] \in Leaving \/ (worker[w] = "flush" /\ slot[w] > Per)
  PROVE  Finished'
<1>1. ASSUME NEW w \in Pool, worker[w] = "flush", slot[w] > Per
      PROVE  /\ slot[w] = Per + 1
             /\ \A i \in 1..Per : fed[Assigned(w, i)] = MessagesOf(Assigned(w, i))
  <2>1. slot[w] = Per + 1
    BY <1>1, Sizes DEF IInv, ControlInv, ControlTypes
  <2>. QED
    BY <1>1, <2>1 DEF IInv, FedInv, FlushesWholeTopics
<1>. QED
  BY <1>1 DEF Finished

(* The scan a worker hands over in the flush loop is one that was left.     *)
TrailIsLeft ==
  \A w \in Pool : worker[w] = "trail" => Assigned(w, slot[w]) \in Trailing

(* Popping feeds the next message of its topic: the earlier ones have been  *)
(* delivered, and none of them is still in the queue behind it.             *)
LEMMA PopsInOrder ==
  ASSUME IInv, QueueInOrder, ~aborted, NEW w \in Pool, WorkerPops(w)
  PROVE  LET m == in_queue[w][1]
         IN  fed[Bag[m]] \cup {m} = UpTo(m)
<1>. DEFINE q == in_queue[w]
            m == q[1]
<1>1. /\ q \in Seq(DecodedMessages) /\ q # <<>>
      /\ m \in DecodedMessages /\ Bag[m] \in DecodedTopics /\ m \in MessagesOf(Bag[m])
  BY PopFacts
<1>2. /\ m < next /\ Owner(Bag[m]) = w
      /\ \A n \in fed[Bag[m]] : n < m
      /\ \A i \in 1..Len(q) : i # 1 => m < q[i]
  <2>1. 1 \in 1..Len(q) /\ \A i \in 1..Len(q) : i # 1 => 1 \in 1..i - 1
    BY <1>1
  <2>. QED
    BY <2>1 DEF QueueInOrder
<1>3. fed[Bag[m]] \subseteq MessagesOf(Bag[m])
  BY <1>1 DEF IInv, FedInv
<1>4. \A k \in MessagesOf(Bag[m]) : k \in Nat /\ k \in DecodedMessages /\ Bag[k] = Bag[m]
  BY <1>1, Sizes DEF MessagesOf, Messages, DecodedMessages
<1>5. next \in Nat /\ m \in Nat
  BY <1>1, <1>4, Sizes DEF IInv, ControlInv, ControlTypes
<1>6. ASSUME NEW k \in MessagesOf(Bag[m]), k < m PROVE k \in fed[Bag[m]]
  <2>1. Delivered(k)
    BY <1>2, <1>4, <1>5, <1>6 DEF IInv, FedInv
  <2>2. k \notin Items(q)
    BY <1>2, <1>4, <1>5, <1>6 DEF Items
  <2>. QED
    BY <1>2, <1>4, <2>1, <2>2 DEF Delivered
<1>7. ASSUME NEW k \in UpTo(m) PROVE k \in fed[Bag[m]] \cup {m}
  BY <1>4, <1>5, <1>6 DEF UpTo
<1>8. fed[Bag[m]] \cup {m} \subseteq UpTo(m)
  BY <1>1, <1>2, <1>3, <1>4, <1>5 DEF UpTo
<1>. QED
  BY <1>7, <1>8

LEMMA TaskOrderStep ==
  ASSUME IInv, QueueInOrder, TaskOrder, [Next]_vars
  PROVE  TaskOrder'
<1>. USE DEF mainVars, readerVars, workerVars, queueVars, abortVars
<1>0. /\ worker \in [Pool -> WorkerPlaces] /\ task \in [Pool -> 0..Len(Bag)]
      /\ nth \in [Pool -> Nat] /\ fed \in [DecodedTopics -> SUBSET Messages]
      /\ \A m \in Messages : Clouds[m] \in Nat
  BY BagAssumption DEF IInv, ControlInv, ControlTypes, DataInv, DataTypes
<1>1. CASE Quiet
  BY <1>1, TaskStays DEF Quiet, dataVars
<1>2. CASE WriterPop
  BY <1>2, TaskStays DEF WriterPop, Idle
<1>3. CASE WriterThrows
  BY <1>3, TaskStays DEF WriterThrows, Idle
<1>4. CASE ReaderSkips
  BY <1>4, TaskStays DEF ReaderSkips, Idle
<1>5. CASE ReaderDispatches
  BY <1>5, TaskStays DEF ReaderDispatches, Idle
<1>6. CASE ReaderForwards
  BY <1>6, TaskStays DEF ReaderForwards, Idle
<1>7. ASSUME NEW w \in Pool, WorkerPops(w) PROVE TaskOrder'
  <2>. DEFINE m == in_queue[w][1]
  <2>1. /\ m \in DecodedMessages /\ Bag[m] \in DecodedTopics /\ m \in Messages
        /\ fed' = [fed EXCEPT ![Bag[m]] = fed[Bag[m]] \cup {m}]
        /\ task' = [task EXCEPT ![w] = m] /\ nth' = [nth EXCEPT ![w] = 0]
        /\ worker' = [worker EXCEPT ![w] = "decode"] /\ aborted' = aborted
    BY <1>7, PopFacts DEF DecodedMessages
  <2>2. Owner(Bag[m]) = w
    <3>1. 1 \in 1..Len(in_queue[w])
      BY <1>7, PopFacts
    <3>. QED
      BY <3>1 DEF QueueInOrder
  <2>3. ASSUME NEW v \in Pool, v # w
        PROVE  /\ task'[v] = task[v] /\ nth'[v] = nth[v] /\ (Idle(v)' => Idle(v))
               /\ task[v] # 0 => fed'[Bag[task[v]]] = fed[Bag[task[v]]]
    <3>1. task[v] # 0 => Bag[task[v]] \in DecodedTopics /\ Bag[task[v]] # Bag[m]
      BY <2>2, <2>3 DEF TaskOrder, DecodedMessages
    <3>2. task[v] # 0 => fed'[Bag[task[v]]] = fed[Bag[task[v]]]
      BY <1>0, <2>1, <3>1
    <3>. QED
      BY <1>0, <2>1, <2>3, <3>2 DEF Idle
  <2>4. /\ task'[w] = m /\ nth'[w] = 0 /\ ~Idle(w)'
        /\ m \in fed'[Bag[m]] /\ fed'[Bag[m]] = fed[Bag[m]] \cup {m}
    BY <1>0, <2>1 DEF Idle, Leaving
  <2>5. ~aborted => fed'[Bag[m]] = UpTo(m)
    BY <1>7, <2>4, PopsInOrder
  <2>6. 0 <= Clouds[m]
    BY <1>0, <2>1
  <2>7. ASSUME NEW v \in Pool, task'[v] # 0
        PROVE  /\ task'[v] \in DecodedMessages /\ Owner(Bag[task'[v]]) = v
               /\ task'[v] \in fed'[Bag[task'[v]]]
               /\ nth'[v] <= Clouds[task'[v]]
               /\ Idle(v)' => nth'[v] = Clouds[task'[v]]
               /\ ~aborted' => fed'[Bag[task'[v]]] = UpTo(task'[v])
    <3>1. CASE v = w
      BY <2>1, <2>2, <2>4, <2>5, <2>6, <3>1
    <3>2. CASE v # w
      <4>1. /\ task[v] # 0 /\ task'[v] = task[v] /\ nth'[v] = nth[v]
            /\ fed'[Bag[task[v]]] = fed[Bag[task[v]]] /\ (Idle(v)' => Idle(v))
        BY <2>3, <2>7, <3>2
      <4>2. /\ task[v] \in DecodedMessages /\ Owner(Bag[task[v]]) = v
            /\ task[v] \in fed[Bag[task[v]]]
            /\ nth[v] <= Clouds[task[v]]
            /\ Idle(v) => nth[v] = Clouds[task[v]]
            /\ ~aborted => fed[Bag[task[v]]] = UpTo(task[v])
        BY <4>1 DEF TaskOrder
      <4>. QED
        BY <2>1, <4>1, <4>2
    <3>. QED
      BY <3>1, <3>2
  <2>. QED
    BY <2>7 DEF TaskOrder
<1>8. ASSUME NEW w \in Pool, WorkerEmits(w) PROVE TaskOrder'
  <2>1. /\ worker' = worker /\ aborted' = aborted /\ fed' = fed /\ task' = task
        /\ worker[w] = "decode" /\ nth' = [nth EXCEPT ![w] = nth[w] + 1]
        /\ nth[w] < Clouds[task[w]] /\ task[w] \in Messages
    BY <1>8 DEF WorkerEmits, PushCloud, IInv, DataInv, TaskInv, DecodedMessages
  <2>2. nth[w] + 1 <= Clouds[task[w]] /\ nth'[w] = nth[w] + 1
    BY <1>0, <2>1
  <2>3. \A v \in Pool : Idle(v)' => Idle(v) /\ v # w
    BY <2>1 DEF Idle, Leaving
  <2>4. \A v \in Pool : v # w => nth'[v] = nth[v]
    BY <1>0, <2>1
  <2>. QED
    BY <2>1, <2>2, <2>3, <2>4 DEF TaskOrder
<1>9. ASSUME NEW w \in Pool, WorkerFlushes(w) PROVE TaskOrder'
  BY <1>0, <1>9, TaskStays DEF WorkerFlushes, Goto, Idle
<1>10. ASSUME NEW w \in Pool, WorkerEmitsTrailing(w) PROVE TaskOrder'
  BY <1>0, <1>10, TaskStays DEF WorkerEmitsTrailing, PushCloud, Goto, Idle
<1>. QED
  BY <1>1, <1>2, <1>3, <1>4, <1>5, <1>6, <1>7, <1>8, <1>9, <1>10, QuietSteps

LEMMA FinishedStep ==
  ASSUME IInv, Finished, [Next]_vars
  PROVE  Finished'
<1>. USE DEF mainVars, readerVars, workerVars, queueVars, abortVars
<1>0. /\ worker \in [Pool -> WorkerPlaces] /\ slot \in [Pool -> 1..Per + 1]
      /\ fed \in [DecodedTopics -> SUBSET Messages]
  BY DEF IInv, ControlInv, ControlTypes, DataInv, DataTypes
<1>1. CASE Quiet
  BY <1>1, FinishedStays DEF Quiet, dataVars
<1>2. CASE WriterPop
  BY <1>2, FinishedStays DEF WriterPop
<1>3. CASE WriterThrows
  BY <1>3, FinishedStays DEF WriterThrows
<1>4. CASE ReaderSkips
  BY <1>4, FinishedStays DEF ReaderSkips
<1>5. CASE ReaderDispatches
  BY <1>5, FinishedStays DEF ReaderDispatches
<1>6. CASE ReaderForwards
  BY <1>6, FinishedStays DEF ReaderForwards
<1>7. ASSUME NEW w \in Pool, WorkerPops(w) PROVE Finished'
  <2>. DEFINE m == in_queue[w][1]
  <2>1. /\ Bag[m] \in DecodedTopics /\ m \in MessagesOf(Bag[m])
        /\ fed' = [fed EXCEPT ![Bag[m]] = fed[Bag[m]] \cup {m}]
        /\ worker' = [worker EXCEPT ![w] = "decode"]
        /\ slot' = slot /\ aborted' = aborted
    BY <1>7, PopFacts
  <2>2. \A v \in Pool : worker'[v] \in Leaving => worker[v] \in Leaving
    BY <1>0, <2>1 DEF Leaving
  <2>3. \A t \in DecodedTopics : fed[t] = MessagesOf(t) => fed'[t] = MessagesOf(t)
    BY <1>0, <2>1
  <2>. QED
    BY <2>1, <2>2, <2>3, AssignedIndex DEF Finished
<1>8. ASSUME NEW w \in Pool, WorkerEmits(w) PROVE Finished'
  BY <1>8, FinishedStays DEF WorkerEmits, PushCloud
<1>9. ASSUME NEW w \in Pool, WorkerFlushes(w) PROVE Finished'
  <2>1. \A v \in Pool : worker'[v] \in Leaving => worker[v] \in Leaving /\ slot'[v] = slot[v]
    BY <1>0, <1>9 DEF WorkerFlushes, Goto, Leaving
  <2>. QED
    BY <1>9, <2>1 DEF WorkerFlushes, Finished
<1>10. ASSUME NEW w \in Pool, WorkerEmitsTrailing(w) PROVE Finished'
  <2>1. \A v \in Pool : worker'[v] \in Leaving => worker[v] \in Leaving /\ slot'[v] = slot[v]
    BY <1>0, <1>10 DEF WorkerEmitsTrailing, PushCloud, Goto, Leaving
  <2>. QED
    BY <1>10, <2>1 DEF WorkerEmitsTrailing, PushCloud, Finished
<1>. QED
  BY <1>1, <1>2, <1>3, <1>4, <1>5, <1>6, <1>7, <1>8, <1>9, <1>10, QuietSteps

LEMMA TrailIsLeftStep ==
  ASSUME IInv, TrailIsLeft, [Next]_vars
  PROVE  TrailIsLeft'
<1>. USE DEF mainVars, readerVars, workerVars, queueVars, abortVars, TrailIsLeft, Assigned, Per
<1>0. /\ worker \in [Pool -> WorkerPlaces] /\ slot \in [Pool -> 1..Per + 1]
  BY DEF IInv, ControlInv, ControlTypes
<1>1. CASE Quiet
  BY <1>1 DEF Quiet, dataVars
<1>2. CASE WriterPop
  BY <1>2 DEF WriterPop
<1>3. CASE WriterThrows
  BY <1>3 DEF WriterThrows
<1>4. CASE ReaderSkips
  BY <1>4 DEF ReaderSkips
<1>5. CASE ReaderDispatches
  BY <1>5 DEF ReaderDispatches
<1>6. CASE ReaderForwards
  BY <1>6 DEF ReaderForwards
<1>7. ASSUME NEW w \in Pool, WorkerPops(w) PROVE TrailIsLeft'
  BY <1>0, <1>7 DEF WorkerPops, Goto
<1>8. ASSUME NEW w \in Pool, WorkerEmits(w) PROVE TrailIsLeft'
  BY <1>8 DEF WorkerEmits, PushCloud
<1>9. ASSUME NEW w \in Pool, WorkerFlushes(w) PROVE TrailIsLeft'
  BY <1>0, <1>9 DEF WorkerFlushes, Goto
<1>10. ASSUME NEW w \in Pool, WorkerEmitsTrailing(w) PROVE TrailIsLeft'
  BY <1>0, <1>10 DEF WorkerEmitsTrailing, PushCloud, Goto
<1>. QED
  BY <1>1, <1>2, <1>3, <1>4, <1>5, <1>6, <1>7, <1>8, <1>9, <1>10, QuietSteps

-----------------------------------------------------------------------------
(* The clouds and copies that have left the decoders.                       *)

(* The item x of its stream has been handed to the write queue.             *)
Produced(x) ==
  LET w == Owner(x.stream)
  IN  IF x.stream \in Passthrough THEN x.src < next
      ELSE IF x.src = Len(Bag) + 1
           THEN \E i \in 1..slot[w] - 1 : Assigned(w, i) = x.stream
           ELSE x.src \in fed[x.stream] /\ (task[w] = x.src => x.nth <= nth[w])

Sent(s) == Items(written[s]) \cup {x \in Items(write_queue) : x.stream = s}

(* While nothing has failed, what was handed over is on its way or written. *)
Accounted ==
  Healthy => \A s \in Streams : Sent(s) = {x \in Expected[s] : Produced(x)}

(* The i-th item of the write queue is the next one its stream is owed once *)
(* the items before it are written.                                         *)
InTurn(i) ==
  LET x == write_queue[i]
  IN  /\ x.stream \in Streams /\ x \in Expected[x.stream]
      /\ x \notin Items(written[x.stream])
      /\ \A j \in 1..i - 1 : write_queue[j] # x
      /\ \A y \in Expected[x.stream] : Before(y, x) =>
           y \in Items(written[x.stream]) \/ \E j \in 1..i - 1 : write_queue[j] = y

WriteInOrder == Writing => \A i \in 1..Len(write_queue) : InTurn(i)

(* The writer loop ends undisturbed only with everything written.           *)
Drained == Healthy /\ ~Writing => write_queue = <<>> /\ write_closed

(* The fields of an owed item, by the kind of its stream.                   *)
LEMMA OwedOfDecoded ==
  ASSUME NEW t \in DecodedTopics, NEW y \in Expected[t]
  PROVE  /\ y.stream = t /\ t \in Streams /\ t \notin Passthrough
         /\ y.src \in 1..Len(Bag) + 1 /\ y.nth \in Nat
         /\ y.src = Len(Bag) + 1 => t \in Trailing /\ y = TrailItem(t, MessagesOf(t))
         /\ y.src # Len(Bag) + 1 =>
              /\ y.src \in MessagesOf(t) /\ y.src \in DecodedMessages
              /\ y.nth \in 1..Clouds[y.src]
              /\ y = CloudItem(y.src, y.nth, UpTo(y.src))
<1>1. t \in Streams /\ t \notin Passthrough
  BY BagAssumption DEF Streams
<1>2. IsCloud(t, y) \/ IsTrail(t, y)
  BY <1>1, OwedShapes DEF IsRaw
<1>3. IsTrail(t, y) => y.src = Len(Bag) + 1
  BY DEF IsTrail, TrailItem
<1>4. IsCloud(t, y) => y.src # Len(Bag) + 1
  BY Sizes DEF IsCloud, MessagesOf, Messages
<1>. QED
  BY <1>1, <1>2, <1>3, <1>4, OwedFields DEF IsCloud, IsTrail, DecodedMessages, MessagesOf

LEMMA OwedOfCopied ==
  ASSUME NEW s \in Passthrough, NEW y \in Expected[s]
  PROVE  /\ y.stream = s /\ s \in Streams /\ s \notin DecodedTopics
         /\ y.src \in Messages /\ Bag[y.src] = s /\ y.nth = 0 /\ y = RawItem(y.src)
<1>1. s \in Streams /\ s \notin DecodedTopics
  BY BagAssumption DEF Streams
<1>2. IsRaw(s, y)
  BY <1>1, OwedShapes DEF IsCloud, IsTrail
<1>. QED
  BY <1>1, <1>2, OwedFields DEF IsRaw, RawItem, MessagesOf

(* Handing over x, which its stream is owed next, keeps the account and the *)
(* order of the queue.                                                      *)
LEMMA PushKeepsOrder ==
  ASSUME IInv, Healthy, Accounted, WriteInOrder,
         UNCHANGED <<main, written, aborted>>,
         NEW s \in Streams, NEW x \in Expected[s], x \in Item,
         write_queue' = Append(write_queue, x), ~Produced(x),
         \A y \in Expected[s] : Before(y, x) => Produced(y),
         \A u \in Streams : \A y \in Expected[u] : Produced(y)' <=> Produced(y) \/ y = x
  PROVE  /\ Accounted' /\ WriteInOrder'
         /\ x \notin Sent(s) /\ Sent(s)' = Sent(s) \cup {x}
         /\ \A u \in Streams : u # s => Sent(u)' = Sent(u)
<1>1. write_queue \in Seq(Item) /\ x.stream = s
  BY OwedFields DEF IInv, DataInv, DataTypes
<1>2. Items(write_queue') = Items(write_queue) \cup {x}
  BY <1>1, ItemsOfAppend
<1>3. /\ Sent(s)' = Sent(s) \cup {x}
      /\ \A u \in Streams : u # s => Sent(u)' = Sent(u)
  BY <1>1, <1>2 DEF Sent, Items
<1>4. \A u \in Streams : Sent(u) = {y \in Expected[u] : Produced(y)}
  BY DEF Accounted
<1>5. x \notin Sent(s)
  BY <1>4
<1>6. Accounted'
  <2>1. ASSUME NEW u \in Streams PROVE Sent(u)' = {y \in Expected[u] : Produced(y)'}
    <3>1. CASE u = s
      BY <1>3, <1>4, <3>1
    <3>2. CASE u # s
      <4>1. x \notin Expected[u]
        BY <1>1, <3>2, OwedFields
      <4>. QED
        BY <1>3, <1>4, <3>2, <4>1
    <3>. QED
      BY <3>1, <3>2
  <2>. QED
    BY <2>1 DEF Accounted
<1>7. WriteInOrder'
  <2>. DEFINE n == Len(write_queue)
  <2>1. /\ n \in Nat /\ Len(write_queue') = n + 1 /\ write_queue'[n + 1] = x
        /\ \A i \in 1..n : write_queue'[i] = write_queue[i]
    BY <1>1
  <2>. SUFFICES ASSUME Writing', NEW i \in 1..Len(write_queue') PROVE InTurn(i)'
    BY DEF WriteInOrder
  <2>2. CASE i = n + 1
    <3>1. x \notin Items(written[s]) /\ \A j \in 1..n : write_queue[j] # x
      BY <1>1, <1>5 DEF Sent, Items
    <3>2. ASSUME NEW y \in Expected[s], Before(y, x)
          PROVE  y \in Items(written[s]) \/ \E j \in 1..n : write_queue[j] = y
      BY <1>4, <3>2 DEF Sent, Items
    <3>3. \A j \in 1..i - 1 : j \in 1..n /\ write_queue'[j] = write_queue[j]
      BY <2>1, <2>2
    <3>4. 1..i - 1 = 1..n
      BY <2>1, <2>2
    <3>. QED
      BY <1>1, <2>1, <2>2, <3>1, <3>2, <3>3, <3>4 DEF InTurn, Items
  <2>3. CASE i # n + 1
    <3>1. i \in 1..n /\ \A j \in 1..i - 1 : write_queue'[j] = write_queue[j]
      BY <2>1, <2>3
    <3>2. InTurn(i)
      BY <3>1 DEF Writing, WriteInOrder
    <3>3. write_queue'[i] = write_queue[i]
      BY <2>1, <3>1
    <3>. QED
      BY <3>1, <3>2, <3>3 DEF InTurn, Items
  <2>. QED
    BY <2>2, <2>3
<1>. QED
  BY <1>3, <1>5, <1>6, <1>7

(* A step that hands nothing over and neither takes from the queue.         *)
LEMMA NothingHandedOver ==
  ASSUME UNCHANGED <<write_queue, written>>, Healthy' => Healthy, Writing' => Writing,
         \A u \in Streams : \A y \in Expected[u] : Produced(y)' <=> Produced(y)
  PROVE  /\ Accounted => Accounted'
         /\ WriteInOrder => WriteInOrder'
         /\ \A u : Sent(u)' = Sent(u)
<1>1. \A u : Sent(u)' = Sent(u)
  BY DEF Sent, Items
<1>2. Accounted => Accounted'
  BY <1>1 DEF Accounted
<1>3. WriteInOrder => WriteInOrder'
  <2>1. \A i : InTurn(i) => InTurn(i)'
    BY DEF InTurn, Items
  <2>. QED
    BY <2>1 DEF WriteInOrder
<1>. QED
  BY <1>1, <1>2, <1>3

(* The writer takes the oldest item, the next one its stream is owed.       *)
LEMMA PopWrites ==
  ASSUME IInv, WriteInOrder, WriterPop
  PROVE  LET x == write_queue[1]
         IN  /\ write_queue \in Seq(Item) /\ write_queue # <<>> /\ main = "write"
             /\ x \in Item /\ x.stream \in Streams /\ x \in Expected[x.stream]
             /\ x \notin Items(written[x.stream])
             /\ \A y \in Expected[x.stream] : Before(y, x) => y \in Items(written[x.stream])
             /\ written' = [written EXCEPT ![x.stream] = Append(written[x.stream], x)]
             /\ Items(written'[x.stream]) = Items(written[x.stream]) \cup {x}
             /\ \A u \in Streams : u # x.stream => written'[u] = written[u]
             /\ \A u \in Streams : Sent(u)' = Sent(u)
<1>. DEFINE x == write_queue[1]
<1>1. /\ write_queue \in Seq(Item) /\ write_queue # <<>> /\ main = "write"
      /\ written \in [Streams -> Seq(Item)] /\ write_queue' = Tail(write_queue)
  BY DEF WriterPop, MayPop, IInv, DataInv, DataTypes
<1>2. Head(write_queue) = x /\ x \in Item /\ 1 \in 1..Len(write_queue)
  BY <1>1, TailPositions
<1>3. /\ x.stream \in Streams /\ x \in Expected[x.stream]
      /\ x \notin Items(written[x.stream])
      /\ \A y \in Expected[x.stream] : Before(y, x) => y \in Items(written[x.stream])
  BY <1>1, <1>2 DEF WriteInOrder, InTurn, Writing
<1>4. written' = [written EXCEPT ![x.stream] = Append(written[x.stream], x)]
  BY <1>2 DEF WriterPop
<1>5. written[x.stream] \in Seq(Item) /\ written'[x.stream] = Append(written[x.stream], x)
  BY <1>1, <1>3, <1>4
<1>6. Items(written'[x.stream]) = Items(written[x.stream]) \cup {x}
  BY <1>2, <1>5, ItemsOfAppend
<1>7. \A u \in Streams : u # x.stream => written'[u] = written[u]
  BY <1>1, <1>4
<1>8. Items(write_queue) = {x} \cup Items(write_queue')
  BY <1>1, <1>2, ItemsOfTail
<1>9. ASSUME NEW u \in Streams PROVE Sent(u)' = Sent(u)
  <2>1. Sent(u)' = Items(written'[u]) \cup {y \in Items(write_queue') : y.stream = u}
    BY DEF Sent, Items
  <2>. QED
    BY <1>6, <1>7, <1>8, <2>1 DEF Sent
<1>. QED
  BY <1>1, <1>2, <1>3, <1>4, <1>6, <1>7, <1>9

LEMMA PopKeepsOrder ==
  ASSUME IInv, WriteInOrder, WriterPop
  PROVE  WriteInOrder'
<1>. DEFINE q == write_queue
            x == q[1]
<1>1. /\ q \in Seq(Item) /\ q # <<>> /\ main = "write"
      /\ x.stream \in Streams /\ Items(written'[x.stream]) = Items(written[x.stream]) \cup {x}
      /\ \A u \in Streams : u # x.stream => written'[u] = written[u]
  BY PopWrites
<1>2. /\ write_queue' = Tail(q) /\ Len(Tail(q)) = Len(q) - 1 /\ Len(q) \in Nat \ {0}
      /\ \A i \in 1..Len(q) - 1 : Tail(q)[i] = q[i + 1]
  BY <1>1, TailPositions DEF WriterPop
<1>3. ASSUME NEW i \in 1..Len(write_queue') PROVE InTurn(i)'
  <2>. DEFINE z == q[i + 1]
  <2>1. /\ write_queue'[i] = z /\ i + 1 \in 1..Len(q)
        /\ \A j \in 1..i - 1 : write_queue'[j] = q[j + 1] /\ j + 1 \in 1..(i + 1) - 1
        /\ 1 \in 1..(i + 1) - 1
    BY <1>2
  <2>2. InTurn(i + 1)
    BY <1>1, <2>1 DEF WriteInOrder, Writing
  <2>3. z.stream \in Streams /\ z \in Expected[z.stream] /\ z # x
    BY <2>1, <2>2 DEF InTurn
  <2>4. \A y : y \in Items(written[z.stream]) => y \in Items(written'[z.stream])
    BY <1>1, <2>3
  <2>5. z \notin Items(written'[z.stream])
    <3>1. z \notin Items(written[z.stream])
      BY <2>2 DEF InTurn
    <3>. QED
      BY <1>1, <2>3, <3>1
  <2>6. \A j \in 1..i - 1 : write_queue'[j] # z
    BY <2>1, <2>2 DEF InTurn
  <2>7. ASSUME NEW y \in Expected[z.stream], Before(y, z)
        PROVE  y \in Items(written'[z.stream]) \/ \E j \in 1..i - 1 : write_queue'[j] = y
    <3>1. y \in Items(written[z.stream]) \/ \E j \in 1..(i + 1) - 1 : q[j] = y
      BY <2>2, <2>7 DEF InTurn
    <3>2. ASSUME NEW j \in 1..(i + 1) - 1, q[j] = y
          PROVE  y \in Items(written'[z.stream]) \/ \E k \in 1..i - 1 : write_queue'[k] = y
      <4>1. CASE j = 1
        <5>1. y.stream = z.stream
          BY <2>3, <2>7, OwedFields
        <5>. QED
          BY <1>1, <2>3, <3>2, <4>1, <5>1
      <4>2. CASE j # 1
        <5>1. j - 1 \in 1..i - 1 /\ (j - 1) + 1 = j
          BY <4>2
        <5>. QED
          BY <2>1, <3>2, <5>1
      <4>. QED
        BY <4>1, <4>2
    <3>. QED
      BY <2>4, <3>1, <3>2
  <2>8. write_queue'[i] = z
    BY <2>1
  <2>. HIDE DEF z, x, q
  <2>. QED
    BY <2>3, <2>5, <2>6, <2>7, <2>8 DEF InTurn, Items
<1>. QED
  BY <1>3 DEF WriteInOrder

-----------------------------------------------------------------------------
(* One lemma for each push: what it hands over is the next item its stream  *)
(* is owed.                                                                 *)

(* While nothing has failed a producer finds the queue open.                *)
LEMMA PushedWhenHealthy ==
  ASSUME IInv, ~aborted,
         reader = "push" \/ \E w \in Pool : worker[w] \in {"decode", "trail"}
  PROVE  /\ ~write_closed
         /\ \A x : Pushed(write_queue, x, write_closed) = Append(write_queue, x)
<1>1. ~write_closed
  BY SomeoneCounted DEF IInv, OneCloser
<1>. QED
  BY <1>1 DEF Pushed

LEMMA ForwardHandsOver ==
  ASSUME IInv, ~aborted, ReaderForwards
  PROVE  LET x == RawItem(next)
             s == Bag[next]
         IN  /\ s \in Streams /\ s \notin DecodedTopics /\ x \in Expected[s] /\ x \in Item
             /\ write_queue' = Append(write_queue, x) /\ ~Produced(x)
             /\ \A y \in Expected[s] : Before(y, x) => Produced(y)
             /\ \A u \in Streams : \A y \in Expected[u] : Produced(y)' <=> Produced(y) \/ y = x
<1>. DEFINE x == RawItem(next)
            s == Bag[next]
<1>. USE DEF mainVars, readerVars, workerVars, queueVars, abortVars
<1>1. /\ s \in Passthrough /\ s \in Streams /\ s \notin DecodedTopics
      /\ next \in Messages /\ next \in Nat /\ next \in MessagesOf(s)
      /\ next' = next + 1 /\ fed' = fed /\ task' = task /\ nth' = nth /\ slot' = slot
  BY BagAssumption, Sizes DEF ReaderForwards, IInv, ControlInv, ControlTypes, Phases,
     Streams, MessagesOf, Messages
<1>2. x \in Expected[s] /\ x.src = next /\ x.nth = 0 /\ x.stream = s
  BY <1>1, RawIsOwed DEF RawItem
<1>3. x \in Item
  BY <1>1, Sizes DEF RawItem, Item, Messages
<1>4. write_queue' = Append(write_queue, x)
  BY PushedWhenHealthy DEF ReaderForwards
<1>5. ~Produced(x)
  BY <1>1, <1>2 DEF Produced
<1>6. ASSUME NEW y \in Expected[s], Before(y, x) PROVE Produced(y)
  BY <1>1, <1>2, <1>6, OwedOfCopied, Sizes DEF Before, Produced, Messages
<1>7. ASSUME NEW u \in Streams, NEW y \in Expected[u]
      PROVE  Produced(y)' <=> Produced(y) \/ y = x
  <2>1. CASE u \in Passthrough
    <3>1. y.stream = u /\ y.src \in Nat /\ y = RawItem(y.src)
      BY <2>1, OwedOfCopied, Sizes DEF Messages
    <3>2. (Produced(y) <=> y.src < next) /\ (Produced(y)' <=> y.src < next + 1)
      BY <1>1, <2>1, <3>1 DEF Produced
    <3>. QED
      BY <1>1, <1>2, <3>1, <3>2
  <2>2. CASE u \notin Passthrough
    <3>1. u \in DecodedTopics /\ y.stream = u
      BY <2>2, OwedFields DEF Streams
    <3>. QED
      BY <1>1, <1>2, <2>2, <3>1 DEF Produced
  <2>. QED
    BY <2>1, <2>2
<1>. QED
  BY <1>1, <1>2, <1>3, <1>4, <1>5, <1>6, <1>7

LEMMA EmitHandsOver ==
  ASSUME IInv, QueueInOrder, TaskOrder, ~aborted, NEW w \in Pool, WorkerEmits(w)
  PROVE  LET x == CloudItem(task[w], nth[w] + 1, UpTo(task[w]))
             t == Bag[task[w]]
         IN  /\ t \in DecodedTopics /\ x \in Expected[t] /\ x \in Item
             /\ write_queue' = Append(write_queue, x) /\ ~Produced(x)
             /\ clouds_produced' = [clouds_produced EXCEPT ![t] = @ + 1]
             /\ \A y \in Expected[t] : Before(y, x) => Produced(y)
             /\ \A u \in Streams : \A y \in Expected[u] : Produced(y)' <=> Produced(y) \/ y = x
<1>. DEFINE m == task[w]
            k == nth[w] + 1
            x == CloudItem(m, k, UpTo(m))
            t == Bag[m]
<1>. USE DEF mainVars, readerVars, workerVars, queueVars, abortVars
<1>1. /\ m \in DecodedMessages /\ m \in Messages /\ t \in DecodedTopics /\ m \in MessagesOf(t)
      /\ m \in Nat \ {0} /\ m # Len(Bag) + 1 /\ m \in 1..Len(Bag) + 1
      /\ Owner(t) = w /\ m \in fed[t] /\ fed[t] = UpTo(m)
  <2>1. m \in DecodedMessages /\ m # 0
    BY Sizes DEF WorkerEmits, IInv, DataInv, TaskInv, DecodedMessages, Messages
  <2>. QED
    BY <2>1, Sizes DEF TaskOrder, DecodedMessages, Messages, MessagesOf
<1>2. /\ nth[w] \in Nat /\ k \in 1..Clouds[m] /\ Clouds[m] \in Nat
      /\ nth' = [nth EXCEPT ![w] = k] /\ nth'[w] = k
      /\ next' = next /\ fed' = fed /\ task' = task /\ slot' = slot
      /\ \A v \in Pool : v # w => nth'[v] = nth[v]
  BY <1>1, BagAssumption DEF WorkerEmits, PushCloud, IInv, DataInv, DataTypes
<1>3. x \in Expected[t] /\ x.src = m /\ x.nth = k /\ x.stream = t
  BY <1>1, <1>2, CloudIsOwed DEF CloudItem
<1>4. x \in Item
  BY <1>1, <1>2, <1>3 DEF CloudItem, Item, UpTo, MessagesOf, Streams
<1>5. /\ write_queue' = Append(write_queue, x)
      /\ clouds_produced' = [clouds_produced EXCEPT ![t] = @ + 1]
  BY <1>1, <1>3, PushedWhenHealthy DEF WorkerEmits, PushCloud
<1>6. t \notin Passthrough
  BY <1>1, BagAssumption
<1>7. ~Produced(x)
  BY <1>1, <1>2, <1>3, <1>6 DEF Produced
<1>8. ASSUME NEW y \in Expected[t], Before(y, x) PROVE Produced(y)
  <2>1. y.src \in 1..Len(Bag) + 1 /\ y.nth \in Nat /\ y.stream = t
    BY <1>1, OwedOfDecoded
  <2>2. y.src <= m /\ (y.src = m => y.nth <= nth[w])
    BY <1>1, <1>2, <1>3, <1>8, <2>1 DEF Before
  <2>3. y.src # Len(Bag) + 1
    BY <1>1, <2>1, <2>2, Sizes DEF Messages
  <2>4. y.src \in fed[t]
    BY <1>1, <2>2, <2>3, OwedOfDecoded DEF UpTo
  <2>. QED
    BY <1>1, <1>6, <2>1, <2>2, <2>3, <2>4 DEF Produced
<1>9. ASSUME NEW u \in Streams, NEW y \in Expected[u]
      PROVE  Produced(y)' <=> Produced(y) \/ y = x
  <2>0. y.stream = u
    BY OwedFields
  <2>1. CASE u \in Passthrough
    BY <1>2, <1>3, <1>6, <2>0, <2>1 DEF Produced
  <2>2. CASE u \notin Passthrough
    <3>1. u \in DecodedTopics /\ Owner(u) \in Pool /\ y.nth \in Nat
      BY <2>2, EverySlotOwned, OwedFields DEF Streams
    <3>2. CASE y.src = m
      <4>1. u = t
        BY <1>1, <3>2, OwedFields
      <4>2. (Produced(y) <=> y.nth <= nth[w]) /\ (Produced(y)' <=> y.nth <= k)
        BY <1>1, <1>2, <1>6, <2>0, <3>2, <4>1 DEF Produced
      <4>3. y.nth = k => y = x
        BY <1>3, <3>2, <4>1, OwedOnce
      <4>. QED
        BY <1>2, <1>3, <3>1, <4>2, <4>3
    <3>3. CASE y.src # m
      <4>1. task[Owner(u)] = y.src => nth'[Owner(u)] = nth[Owner(u)]
        BY <1>2, <3>1, <3>3
      <4>. QED
        BY <1>2, <1>3, <2>0, <2>2, <3>3, <4>1 DEF Produced
    <3>. QED
      BY <3>2, <3>3
  <2>. QED
    BY <2>1, <2>2
<1>. QED
  BY <1>1, <1>3, <1>4, <1>5, <1>7, <1>8, <1>9

(* A worker's slots are different topics.                                   *)
LEMMA AssignedDistinct ==
  ASSUME NEW w \in Pool, NEW i \in 1..Per, NEW j \in 1..Per, Assigned(w, i) = Assigned(w, j)
  PROVE  i = j
<1>1. (w - 1) * Per + i = (w - 1) * Per + j
  BY AssignedIndex, BagAssumption DEF Assigned
<1>2. (w - 1) * Per \in Int
  BY Sizes DEF Pool
<1>. QED
  BY <1>1, <1>2

(* Passing the i-th slot of worker w produces its trailing scan, and        *)
(* nothing where the decoder left none.                                     *)
LEMMA SlotPasses ==
  ASSUME IInv, NEW w \in Pool, slot[w] <= Per, UNCHANGED <<next, fed, task, nth>>,
         slot' = [slot EXCEPT ![w] = slot[w] + 1],
         NEW u \in Streams, NEW y \in Expected[u]
  PROVE  Produced(y)' <=>
           Produced(y) \/ (u = Assigned(w, slot[w]) /\ y.src = Len(Bag) + 1)
<1>1. /\ slot \in [Pool -> 1..Per + 1] /\ slot[w] \in 1..Per
      /\ slot'[w] = slot[w] + 1 /\ \A v \in Pool : v # w => slot'[v] = slot[v]
  BY Sizes DEF IInv, ControlInv, ControlTypes
<1>2. y.stream = u
  BY OwedFields
<1>3. CASE u \in Passthrough
  <2>1. u # Assigned(w, slot[w])
    BY <1>1, <1>3, AssignedIndex, BagAssumption
  <2>. QED
    BY <1>2, <1>3, <2>1 DEF Produced
<1>4. CASE u \notin Passthrough /\ y.src # Len(Bag) + 1
  BY <1>2, <1>4 DEF Produced
<1>5. CASE u \notin Passthrough /\ y.src = Len(Bag) + 1
  <2>1. u \in DecodedTopics /\ Owner(u) \in Pool
    BY <1>5, EverySlotOwned DEF Streams
  <2>2. /\ Produced(y) <=> \E i \in 1..slot[Owner(u)] - 1 : Assigned(Owner(u), i) = u
        /\ Produced(y)' <=> \E i \in 1..slot'[Owner(u)] - 1 : Assigned(Owner(u), i) = u
    BY <1>2, <1>5 DEF Produced, Assigned, Per
  <2>3. CASE Owner(u) = w
    <3>1. 1..slot'[w] - 1 = (1..slot[w] - 1) \cup {slot[w]}
      BY <1>1
    <3>. QED
      BY <1>5, <2>2, <2>3, <3>1
  <2>4. CASE Owner(u) # w
    <3>1. u # Assigned(w, slot[w])
      BY <1>1, <2>4, OwnerOfAssigned
    <3>. QED
      BY <1>1, <2>1, <2>2, <2>4, <3>1
  <2>. QED
    BY <2>3, <2>4
<1>. QED
  BY <1>3, <1>4, <1>5

LEMMA TrailHandsOver ==
  ASSUME IInv, TaskOrder, TrailIsLeft, ~aborted, NEW w \in Pool, WorkerEmitsTrailing(w)
  PROVE  LET t == Assigned(w, slot[w])
             x == TrailItem(t, MessagesOf(t))
         IN  /\ t \in DecodedTopics /\ x \in Expected[t] /\ x \in Item
             /\ write_queue' = Append(write_queue, x) /\ ~Produced(x)
             /\ clouds_produced' = [clouds_produced EXCEPT ![t] = @ + 1]
             /\ \A y \in Expected[t] : Before(y, x) => Produced(y)
             /\ \A u \in Streams : \A y \in Expected[u] : Produced(y)' <=> Produced(y) \/ y = x
<1>. DEFINE t == Assigned(w, slot[w])
            x == TrailItem(t, MessagesOf(t))
<1>. USE DEF mainVars, readerVars, workerVars, queueVars, abortVars
<1>1. /\ worker[w] = "trail" /\ slot[w] \in 1..Per /\ t \in DecodedTopics /\ Owner(t) = w
      /\ t \in Trailing /\ fed[t] = MessagesOf(t) /\ t \in Streams /\ t \notin Passthrough
      /\ slot' = [slot EXCEPT ![w] = slot[w] + 1]
      /\ UNCHANGED <<next, fed, task, nth>>
  <2>1. worker[w] = "trail" /\ slot[w] \in 1..Per
    BY Sizes DEF WorkerEmitsTrailing, IInv, ControlInv, ControlTypes, Phases
  <2>2. t \in DecodedTopics /\ Owner(t) = w
    BY <2>1, AssignedIndex, OwnerOfAssigned
  <2>3. fed[t] = MessagesOf(t)
    BY <2>1 DEF IInv, FedInv, FlushesWholeTopics
  <2>. QED
    BY <2>1, <2>2, <2>3, BagAssumption DEF WorkerEmitsTrailing, PushCloud, TrailIsLeft, Streams
<1>2. x \in Expected[t] /\ x.src = Len(Bag) + 1 /\ x.nth = 1 /\ x.stream = t
  BY <1>1, TrailIsOwed DEF TrailItem
<1>3. x \in Item
  BY <1>1, <1>2, Sizes DEF TrailItem, Item, MessagesOf
<1>4. /\ write_queue' = Append(write_queue, x)
      /\ clouds_produced' = [clouds_produced EXCEPT ![t] = @ + 1]
  BY <1>1, <1>2, PushedWhenHealthy DEF WorkerEmitsTrailing, PushCloud
<1>5. ~Produced(x)
  <2>1. \A i \in 1..slot[w] - 1 : i \in 1..Per /\ i # slot[w]
    BY <1>1, Sizes
  <2>2. \A i \in 1..slot[w] - 1 : Assigned(w, i) # t
    BY <1>1, <2>1, AssignedDistinct
  <2>. QED
    BY <1>1, <1>2, <2>2 DEF Produced
<1>6. ASSUME NEW y \in Expected[t], Before(y, x) PROVE Produced(y)
  <2>1. y # x /\ y.stream = t /\ y.src \in 1..Len(Bag) + 1
    BY <1>1, <1>2, <1>6, OwedOfDecoded DEF Before
  <2>2. y.src # Len(Bag) + 1
    BY <1>1, <2>1, OwedOfDecoded
  <2>3. y.src \in fed[t] /\ y.nth \in 1..Clouds[y.src] /\ y.src # 0 /\ y.src \in Messages
    <3>1. y.src \in MessagesOf(t) /\ y.nth \in 1..Clouds[y.src]
      BY <1>1, <2>2, OwedOfDecoded
    <3>. QED
      BY <1>1, <3>1, Sizes DEF MessagesOf, Messages
  <2>4. Clouds[y.src] \in Nat /\ (task[w] = y.src => y.nth <= nth[w])
    BY <1>1, <2>3, BagAssumption DEF TaskOrder, Idle
  <2>. QED
    BY <1>1, <2>1, <2>2, <2>3, <2>4 DEF Produced
<1>7. ASSUME NEW u \in Streams, NEW y \in Expected[u]
      PROVE  Produced(y)' <=> Produced(y) \/ y = x
  <2>1. slot[w] <= Per
    BY <1>1, Sizes
  <2>2. Produced(y)' <=> Produced(y) \/ (u = t /\ y.src = Len(Bag) + 1)
    BY <1>1, <2>1, SlotPasses
  <2>3. y = x => u = t /\ y.src = Len(Bag) + 1
    BY <1>2, OwedFields
  <2>4. u = t /\ y.src = Len(Bag) + 1 => y = x
    BY <1>1, OwedOfDecoded
  <2>. QED
    BY <2>2, <2>3, <2>4
<1>. QED
  BY <1>1, <1>2, <1>3, <1>4, <1>5, <1>6, <1>7

(* A decoder that is fed a message has not produced any of its clouds.      *)
LEMMA PopProducesNothing ==
  ASSUME IInv, QueueInOrder, TaskOrder, NEW w \in Pool, WorkerPops(w),
         NEW u \in Streams, NEW y \in Expected[u]
  PROVE  Produced(y)' <=> Produced(y)
<1>. DEFINE m == in_queue[w][1]
            t == Bag[m]
<1>1. /\ m \in DecodedMessages /\ t \in DecodedTopics /\ m \in Messages
      /\ fed' = [fed EXCEPT ![t] = fed[t] \cup {m}] /\ fed'[t] = fed[t] \cup {m}
      /\ \A v \in DecodedTopics : v # t => fed'[v] = fed[v]
      /\ task' = [task EXCEPT ![w] = m] /\ nth' = [nth EXCEPT ![w] = 0]
      /\ task'[w] = m /\ nth'[w] = 0
      /\ \A v \in Pool : v # w => task'[v] = task[v] /\ nth'[v] = nth[v]
      /\ next' = next /\ slot' = slot
  <2>1. /\ m \in DecodedMessages /\ t \in DecodedTopics
        /\ fed \in [DecodedTopics -> SUBSET Messages]
        /\ task \in [Pool -> 0..Len(Bag)] /\ nth \in [Pool -> Nat]
        /\ fed' = [fed EXCEPT ![t] = fed[t] \cup {m}]
        /\ task' = [task EXCEPT ![w] = m] /\ nth' = [nth EXCEPT ![w] = 0]
        /\ next' = next /\ slot' = slot
    BY PopFacts
  <2>. QED
    BY <2>1 DEF DecodedMessages
<1>2. Owner(t) = w /\ m \notin fed[t]
  <2>1. 1 \in 1..Len(in_queue[w])
    BY PopFacts
  <2>2. \A n \in fed[t] : n < m
    BY <2>1 DEF QueueInOrder
  <2>. QED
    BY <1>1, <2>1, <2>2, Sizes DEF QueueInOrder, Messages
<1>3. y.stream = u
  BY OwedFields
<1>4. CASE u \in Passthrough \/ y.src = Len(Bag) + 1
  BY <1>1, <1>3, <1>4 DEF Produced, Assigned, Per
<1>5. CASE u \notin Passthrough /\ y.src # Len(Bag) + 1
  <2>1. /\ u \in DecodedTopics /\ y.src \in MessagesOf(u) /\ y.src # 0
        /\ y.nth \in 1..Clouds[y.src] /\ Clouds[y.src] \in Nat /\ Owner(u) \in Pool
        /\ Bag[y.src] = u
    <3>1. u \in DecodedTopics
      BY <1>5 DEF Streams
    <3>2. y.src \in MessagesOf(u) /\ y.nth \in 1..Clouds[y.src]
      BY <1>5, <3>1, OwedOfDecoded
    <3>. QED
      BY <3>1, <3>2, EverySlotOwned, BagAssumption, Sizes DEF MessagesOf, Messages
  <2>2. /\ Produced(y) <=> y.src \in fed[u] /\ (task[Owner(u)] = y.src => y.nth <= nth[Owner(u)])
        /\ Produced(y)' <=> y.src \in fed'[u] /\ (task'[Owner(u)] = y.src => y.nth <= nth'[Owner(u)])
    BY <1>3, <1>5 DEF Produced
  <2>3. CASE Owner(u) # w
    BY <1>1, <1>2, <2>1, <2>2, <2>3
  <2>4. CASE Owner(u) = w /\ y.src = m
    <3>1. u = t /\ ~(y.nth <= 0)
      BY <2>1, <2>4
    <3>. QED
      BY <1>1, <1>2, <2>2, <2>4, <3>1
  <2>5. CASE Owner(u) = w /\ y.src # m
    <3>1. y.src \in fed'[u] <=> y.src \in fed[u]
      BY <1>1, <2>1, <2>5
    <3>2. task[w] = y.src => nth[w] = Clouds[y.src]
      <4>1. Idle(w)
        BY DEF WorkerPops, Idle
      <4>. QED
        BY <2>1, <4>1 DEF TaskOrder
    <3>. QED
      BY <1>1, <2>1, <2>2, <2>5, <3>1, <3>2
  <2>. QED
    BY <2>3, <2>4, <2>5
<1>. QED
  BY <1>4, <1>5

-----------------------------------------------------------------------------
(* Every step keeps the account, the order and the counts.                  *)

(* What the result will report as clouds was handed over.                   *)
CloudsCounted ==
  Healthy => \A t \in DecodedTopics : clouds_produced[t] = Cardinality(Sent(t))

LEMMA SentFinite ==
  ASSUME IInv, NEW s \in Streams
  PROVE  IsFiniteSet(Sent(s)) /\ Cardinality(Sent(s)) \in Nat
<1>1. written[s] \in Seq(Item) /\ write_queue \in Seq(Item)
  BY DEF IInv, DataInv, DataTypes
<1>2. IsFiniteSet(Items(written[s]) \cup Items(write_queue))
  BY <1>1, ItemsFinite, FS_Union
<1>3. Sent(s) \in SUBSET (Items(written[s]) \cup Items(write_queue))
  BY DEF Sent
<1>. QED
  BY <1>2, <1>3, FS_Subset, FS_CardinalityType

(* Handing over a cloud of topic t counts it.                               *)
LEMMA CountedWhenSent ==
  ASSUME IInv, Healthy, CloudsCounted, NEW t \in DecodedTopics, NEW x, x \notin Sent(t),
         Sent(t)' = Sent(t) \cup {x},
         \A u \in Streams : u # t => Sent(u)' = Sent(u),
         clouds_produced' = [clouds_produced EXCEPT ![t] = @ + 1]
  PROVE  CloudsCounted'
<1>1. \A u \in DecodedTopics : u \in Streams
  BY DEF Streams
<1>2. Cardinality(Sent(t)') = Cardinality(Sent(t)) + 1
  BY <1>1, SentFinite, FS_AddElement
<1>3. clouds_produced \in [DecodedTopics -> Nat]
  BY DEF IInv, DataInv, DataTypes
<1>4. ASSUME NEW u \in DecodedTopics PROVE clouds_produced'[u] = Cardinality(Sent(u)')
  <2>1. clouds_produced[u] = Cardinality(Sent(u))
    BY DEF CloudsCounted
  <2>2. CASE u = t
    BY <1>2, <1>3, <2>1, <2>2
  <2>3. CASE u # t
    BY <1>1, <1>3, <2>1, <2>3
  <2>. QED
    BY <2>2, <2>3
<1>. QED
  BY <1>4 DEF CloudsCounted

OrderInv ==
  /\ QueueInOrder /\ TaskOrder /\ TrailIsLeft /\ Finished
  /\ Accounted /\ WriteInOrder /\ CloudsCounted

LEMMA NothingCounted ==
  ASSUME UNCHANGED clouds_produced, Healthy' => Healthy, CloudsCounted,
         \A u \in Streams : Sent(u)' = Sent(u)
  PROVE  CloudsCounted'
BY DEF CloudsCounted, Streams

LEMMA AccountStep ==
  ASSUME IInv, OrderInv, [Next]_vars
  PROVE  Accounted' /\ WriteInOrder' /\ CloudsCounted'
<1>. USE DEF mainVars, readerVars, workerVars, queueVars, abortVars
<1>. USE DEF OrderInv
<1>0. ASSUME UNCHANGED <<write_queue, written, clouds_produced>>,
             Healthy' => Healthy, Writing' => Writing,
             \A u \in Streams : \A y \in Expected[u] : Produced(y)' <=> Produced(y)
      PROVE  Accounted' /\ WriteInOrder' /\ CloudsCounted'
  <2>1. Accounted' /\ WriteInOrder' /\ \A u : Sent(u)' = Sent(u)
    BY <1>0, NothingHandedOver
  <2>. QED
    BY <1>0, <2>1, NothingCounted
<1>01. ASSUME UNCHANGED <<main, aborted, write_queue, written>>, aborted
       PROVE  Accounted' /\ WriteInOrder' /\ CloudsCounted'
  <2>1. ~Healthy'
    BY <1>01 DEF Healthy
  <2>2. \A i : InTurn(i) => InTurn(i)'
    BY <1>01 DEF InTurn, Items
  <2>. QED
    BY <1>01, <2>1, <2>2 DEF Accounted, CloudsCounted, WriteInOrder, Writing
<1>02. ASSUME UNCHANGED <<main, aborted>> PROVE (Healthy' <=> Healthy) /\ (Writing' <=> Writing)
  BY <1>02 DEF Healthy, Writing
<1>03. ASSUME UNCHANGED <<main, aborted, written>>, ~aborted, ~Healthy
       PROVE  Accounted' /\ WriteInOrder' /\ CloudsCounted'
  BY <1>03 DEF Healthy, Writing, Accounted, CloudsCounted, WriteInOrder
<1>1. CASE Quiet
  <2>1. \A u \in Streams : \A y \in Expected[u] : Produced(y)' <=> Produced(y)
    BY <1>1 DEF Quiet, dataVars, Produced, Assigned, Per
  <2>. QED
    BY <1>0, <1>1, <2>1 DEF Quiet, dataVars
<1>2. CASE WriterPop
  <2>1. \A u \in Streams : Sent(u)' = Sent(u)
    BY <1>2, PopWrites
  <2>2. \A y : Produced(y)' <=> Produced(y)
    BY <1>2 DEF WriterPop, Produced, Assigned, Per
  <2>3. UNCHANGED <<main, aborted, clouds_produced>>
    BY <1>2 DEF WriterPop
  <2>4. Accounted'
    BY <1>02, <2>1, <2>2, <2>3 DEF Accounted
  <2>5. CloudsCounted'
    BY <1>02, <2>1, <2>3, NothingCounted
  <2>. QED
    BY <1>2, <2>4, <2>5, PopKeepsOrder
<1>3. CASE WriterThrows
  BY <1>3 DEF WriterThrows, Healthy, Writing, Accounted, WriteInOrder, CloudsCounted
<1>4. CASE ReaderSkips
  <2>1. /\ Bag[next] \notin Streams /\ next' = next + 1 /\ next \in Nat
        /\ UNCHANGED <<write_queue, written, clouds_produced, main, aborted, slot, fed, task, nth>>
    BY <1>4, Sizes DEF ReaderSkips, IInv, ControlInv, ControlTypes
  <2>2. ASSUME NEW u \in Streams, NEW y \in Expected[u] PROVE Produced(y)' <=> Produced(y)
    <3>1. u \in Passthrough => y.src \in Nat /\ y.src # next
      BY <2>1, OwedOfCopied, Sizes DEF Messages
    <3>2. y.stream = u
      BY OwedFields
    <3>. QED
      BY <2>1, <3>1, <3>2 DEF Produced, Assigned, Per
  <2>. QED
    BY <1>0, <1>02, <2>1, <2>2
<1>5. CASE ReaderDispatches
  <2>1. /\ Bag[next] \in DecodedTopics /\ next' = next + 1 /\ next \in Nat
        /\ UNCHANGED <<write_queue, written, clouds_produced, main, aborted, slot, fed, task, nth>>
    BY <1>5, Sizes DEF ReaderDispatches, IInv, ControlInv, ControlTypes
  <2>2. ASSUME NEW u \in Streams, NEW y \in Expected[u] PROVE Produced(y)' <=> Produced(y)
    <3>1. u \in Passthrough => y.src \in Nat /\ y.src # next
      BY <2>1, OwedOfCopied, Sizes DEF Messages
    <3>2. y.stream = u
      BY OwedFields
    <3>. QED
      BY <2>1, <3>1, <3>2 DEF Produced, Assigned, Per
  <2>. QED
    BY <1>0, <1>02, <2>1, <2>2
<1>6. CASE ReaderForwards
  <2>1. UNCHANGED <<main, aborted, written, clouds_produced>>
    BY <1>6 DEF ReaderForwards
  <2>2. CASE aborted
    BY <1>6, <1>01, <2>1, <2>2 DEF ReaderForwards, Pushed
  <2>3. CASE ~aborted /\ ~Healthy
    BY <1>03, <2>1, <2>3
  <2>4. CASE ~aborted /\ Healthy
    <3>. DEFINE s == Bag[next]
                x == RawItem(next)
    <3>1. /\ s \in Streams /\ s \notin DecodedTopics /\ x \in Expected[s] /\ x \in Item
          /\ write_queue' = Append(write_queue, x) /\ ~Produced(x)
          /\ \A y \in Expected[s] : Before(y, x) => Produced(y)
          /\ \A u \in Streams : \A y \in Expected[u] : Produced(y)' <=> Produced(y) \/ y = x
      BY <1>6, <2>4, ForwardHandsOver
    <3>. HIDE DEF s, x
    <3>2. Accounted' /\ WriteInOrder' /\ \A u \in Streams : u # s => Sent(u)' = Sent(u)
      BY <2>1, <2>4, <3>1, PushKeepsOrder
    <3>. QED
      BY <2>1, <2>4, <3>1, <3>2 DEF CloudsCounted, Streams
  <2>. QED
    BY <2>2, <2>3, <2>4
<1>7. ASSUME NEW w \in Pool, WorkerPops(w)
      PROVE  Accounted' /\ WriteInOrder' /\ CloudsCounted'
  BY <1>0, <1>02, <1>7, PopFacts, PopProducesNothing
<1>8. ASSUME NEW w \in Pool, WorkerEmits(w)
      PROVE  Accounted' /\ WriteInOrder' /\ CloudsCounted'
  <2>1. UNCHANGED <<main, aborted, written>>
    BY <1>8 DEF WorkerEmits, PushCloud
  <2>2. CASE aborted
    BY <1>8, <1>01, <2>1, <2>2 DEF WorkerEmits, PushCloud, Pushed
  <2>3. CASE ~aborted /\ ~Healthy
    BY <1>03, <2>1, <2>3
  <2>4. CASE ~aborted /\ Healthy
    <3>1. PICK t \in DecodedTopics, x \in Item :
             /\ x \in Expected[t]
             /\ write_queue' = Append(write_queue, x) /\ ~Produced(x)
             /\ clouds_produced' = [clouds_produced EXCEPT ![t] = @ + 1]
             /\ \A y \in Expected[t] : Before(y, x) => Produced(y)
             /\ \A u \in Streams : \A y \in Expected[u] : Produced(y)' <=> Produced(y) \/ y = x
      BY <1>8, <2>4, EmitHandsOver
    <3>2. t \in Streams
      BY <3>1 DEF Streams
    <3>3. /\ Accounted' /\ WriteInOrder' /\ x \notin Sent(t) /\ Sent(t)' = Sent(t) \cup {x}
          /\ \A u \in Streams : u # t => Sent(u)' = Sent(u)
      BY <2>1, <2>4, <3>1, <3>2, PushKeepsOrder
    <3>. QED
      BY <2>4, <3>1, <3>3, CountedWhenSent
  <2>. QED
    BY <2>2, <2>3, <2>4
<1>9. ASSUME NEW w \in Pool, WorkerFlushes(w)
      PROVE  Accounted' /\ WriteInOrder' /\ CloudsCounted'
  <2>. DEFINE t == Assigned(w, slot[w])
  <2>1. /\ slot[w] <= Per
        /\ UNCHANGED <<next, fed, task, nth, write_queue, written, clouds_produced, main, aborted>>
    BY <1>9 DEF WorkerFlushes
  <2>2. ASSUME NEW u \in Streams, NEW y \in Expected[u] PROVE Produced(y)' <=> Produced(y)
    <3>1. CASE t \in Trailing
      <4>1. slot' = slot
        BY <1>9, <3>1 DEF WorkerFlushes
      <4>. QED
        BY <2>1, <4>1 DEF Produced, Assigned, Per
    <3>2. CASE t \notin Trailing
      <4>1. slot' = [slot EXCEPT ![w] = slot[w] + 1]
        BY <1>9, <3>2 DEF WorkerFlushes
      <4>2. Produced(y)' <=> Produced(y) \/ (u = t /\ y.src = Len(Bag) + 1)
        BY <2>1, <4>1, SlotPasses
      <4>3. slot[w] \in 1..Per /\ t \in DecodedTopics
        BY <2>1, Sizes, AssignedIndex DEF IInv, ControlInv, ControlTypes
      <4>4. u = t => y.src # Len(Bag) + 1
        BY <3>2, <4>3, OwedOfDecoded
      <4>. QED
        BY <4>2, <4>4
    <3>. QED
      BY <3>1, <3>2
  <2>. QED
    BY <1>0, <1>02, <2>1, <2>2
<1>10. ASSUME NEW w \in Pool, WorkerEmitsTrailing(w)
       PROVE  Accounted' /\ WriteInOrder' /\ CloudsCounted'
  <2>1. UNCHANGED <<main, aborted, written>>
    BY <1>10 DEF WorkerEmitsTrailing, PushCloud
  <2>2. CASE aborted
    BY <1>10, <1>01, <2>1, <2>2 DEF WorkerEmitsTrailing, PushCloud, Pushed
  <2>3. CASE ~aborted /\ ~Healthy
    BY <1>03, <2>1, <2>3
  <2>4. CASE ~aborted /\ Healthy
    <3>1. PICK t \in DecodedTopics, x \in Item :
             /\ x \in Expected[t]
             /\ write_queue' = Append(write_queue, x) /\ ~Produced(x)
             /\ clouds_produced' = [clouds_produced EXCEPT ![t] = @ + 1]
             /\ \A y \in Expected[t] : Before(y, x) => Produced(y)
             /\ \A u \in Streams : \A y \in Expected[u] : Produced(y)' <=> Produced(y) \/ y = x
      BY <1>10, <2>4, TrailHandsOver
    <3>2. t \in Streams
      BY <3>1 DEF Streams
    <3>3. /\ Accounted' /\ WriteInOrder' /\ x \notin Sent(t) /\ Sent(t)' = Sent(t) \cup {x}
          /\ \A u \in Streams : u # t => Sent(u)' = Sent(u)
      BY <2>1, <2>4, <3>1, <3>2, PushKeepsOrder
    <3>. QED
      BY <2>4, <3>1, <3>3, CountedWhenSent
  <2>. QED
    BY <2>2, <2>3, <2>4
<1>. QED
  BY <1>1, <1>2, <1>3, <1>4, <1>5, <1>6, <1>7, <1>8, <1>9, <1>10, QuietSteps

LEMMA DrainedStep ==
  ASSUME IInv, Drained, [Next]_vars
  PROVE  Drained'
<1>. USE DEF mainVars, readerVars, workerVars, queueVars, abortVars
<1>1. CASE Quiet
  BY <1>1 DEF Quiet, dataVars, Drained
<1>2. CASE WriterPop
  BY <1>2 DEF WriterPop, Drained, Writing
<1>3. CASE WriterThrows
  BY <1>3 DEF WriterThrows, Drained, Healthy, Writing
<1>0. ASSUME UNCHANGED <<main, aborted, write_closed>>,
             \/ write_queue' = write_queue
             \/ \E x : write_queue' = Pushed(write_queue, x, write_closed)
      PROVE  Drained'
  BY <1>0 DEF Drained, Healthy, Writing, Pushed
<1>4. CASE ReaderSkips
  BY <1>0, <1>4 DEF ReaderSkips
<1>5. CASE ReaderDispatches
  BY <1>0, <1>5 DEF ReaderDispatches
<1>6. CASE ReaderForwards
  BY <1>0, <1>6 DEF ReaderForwards
<1>7. ASSUME NEW w \in Pool, WorkerPops(w) PROVE Drained'
  BY <1>0, <1>7 DEF WorkerPops
<1>8. ASSUME NEW w \in Pool, WorkerEmits(w) PROVE Drained'
  BY <1>0, <1>8 DEF WorkerEmits, PushCloud
<1>9. ASSUME NEW w \in Pool, WorkerFlushes(w) PROVE Drained'
  BY <1>0, <1>9 DEF WorkerFlushes
<1>10. ASSUME NEW w \in Pool, WorkerEmitsTrailing(w) PROVE Drained'
  BY <1>0, <1>10 DEF WorkerEmitsTrailing, PushCloud
<1>. QED
  BY <1>1, <1>2, <1>3, <1>4, <1>5, <1>6, <1>7, <1>8, <1>9, <1>10, QuietSteps

(* No stream is written an item twice.                                      *)
WrittenOnce == \A s \in Streams : Len(written[s]) = Cardinality(Items(written[s]))

LEMMA WrittenOnceStep ==
  ASSUME IInv, OrderInv, WrittenOnce, [Next]_vars
  PROVE  WrittenOnce'
<1>. USE DEF mainVars, readerVars, workerVars, queueVars, abortVars
<1>1. CASE WriterPop
  <2>. DEFINE x == write_queue[1]
  <2>1. /\ x \in Item /\ x.stream \in Streams /\ x \notin Items(written[x.stream])
        /\ written' = [written EXCEPT ![x.stream] = Append(written[x.stream], x)]
        /\ Items(written'[x.stream]) = Items(written[x.stream]) \cup {x}
        /\ \A u \in Streams : u # x.stream => written'[u] = written[u]
    BY <1>1, PopWrites DEF OrderInv
  <2>2. written \in [Streams -> Seq(Item)]
    BY DEF IInv, DataInv, DataTypes
  <2>3. Len(written'[x.stream]) = Len(written[x.stream]) + 1
    BY <2>1, <2>2
  <2>4. Cardinality(Items(written'[x.stream])) = Cardinality(Items(written[x.stream])) + 1
    <3>1. IsFiniteSet(Items(written[x.stream]))
      BY <2>1, <2>2, ItemsFinite
    <3>. QED
      BY <2>1, <3>1, FS_AddElement
  <2>5. ASSUME NEW s \in Streams PROVE Len(written'[s]) = Cardinality(Items(written'[s]))
    BY <2>1, <2>3, <2>4 DEF WrittenOnce
  <2>. QED
    BY <2>5 DEF WrittenOnce, Items
<1>2. ASSUME written' = written PROVE WrittenOnce'
  BY <1>2 DEF WrittenOnce, Items
<1>3. CASE Quiet
  BY <1>2, <1>3 DEF Quiet, dataVars
<1>4. CASE WriterThrows \/ ReaderSkips \/ ReaderDispatches \/ ReaderForwards
  BY <1>2, <1>4 DEF WriterThrows, ReaderSkips, ReaderDispatches, ReaderForwards
<1>5. ASSUME NEW w \in Pool,
             WorkerPops(w) \/ WorkerEmits(w) \/ WorkerFlushes(w) \/ WorkerEmitsTrailing(w)
      PROVE  WrittenOnce'
  BY <1>2, <1>5 DEF WorkerPops, WorkerEmits, WorkerFlushes, WorkerEmitsTrailing, PushCloud
<1>. QED
  BY <1>1, <1>3, <1>4, <1>5, QuietSteps

(* Progress counts the decoded messages the reader has passed.              *)
Passed == {m \in DecodedMessages : m < next}
AdvancedCounts == advanced = Cardinality(Passed)

LEMMA PassedFinite == IsFiniteSet(Passed) /\ Cardinality(Passed) \in Nat
<1>1. IsFiniteSet(1..Len(Bag))
  BY FS_Interval, Sizes
<1>2. Passed \in SUBSET (1..Len(Bag))
  BY DEF Passed, DecodedMessages, Messages
<1>. QED
  BY <1>1, <1>2, FS_Subset, FS_CardinalityType

LEMMA AdvancedStep ==
  ASSUME IInv, AdvancedCounts, [Next]_vars
  PROVE  AdvancedCounts'
<1>. USE DEF mainVars, readerVars, workerVars, queueVars, abortVars
<1>0. next \in Nat /\ \A m \in DecodedMessages : m \in Nat /\ Bag[m] \in DecodedTopics
  BY Sizes DEF IInv, ControlInv, ControlTypes, DecodedMessages, Messages
<1>1. ASSUME UNCHANGED <<next, advanced>> PROVE AdvancedCounts'
  BY <1>1 DEF AdvancedCounts, Passed
<1>2. ASSUME next' = next + 1, advanced' = advanced, Bag[next] \notin DecodedTopics
      PROVE  AdvancedCounts'
  <2>1. Passed' = Passed
    BY <1>0, <1>2 DEF Passed, DecodedMessages, Messages
  <2>. QED
    BY <1>2, <2>1 DEF AdvancedCounts
<1>3. CASE ReaderDispatches
  <2>1. /\ next \in DecodedMessages /\ next' = next + 1 /\ advanced' = advanced + 1
    BY <1>3 DEF ReaderDispatches, IInv, ControlInv, Phases, DecodedMessages
  <2>2. Passed' = Passed \cup {next} /\ next \notin Passed
    BY <1>0, <2>1 DEF Passed, DecodedMessages, Messages
  <2>. QED
    BY <2>1, <2>2, PassedFinite, FS_AddElement DEF AdvancedCounts
<1>4. CASE ReaderSkips
  BY <1>2, <1>4 DEF ReaderSkips, Streams
<1>5. CASE ReaderForwards
  BY <1>2, <1>5, BagAssumption DEF ReaderForwards
<1>6. CASE Quiet
  BY <1>1, <1>6 DEF Quiet, dataVars
<1>7. CASE WriterPop \/ WriterThrows
  BY <1>1, <1>7 DEF WriterPop, WriterThrows
<1>8. ASSUME NEW w \in Pool,
             WorkerPops(w) \/ WorkerEmits(w) \/ WorkerFlushes(w) \/ WorkerEmitsTrailing(w)
      PROVE  AdvancedCounts'
  BY <1>1, <1>8 DEF WorkerPops, WorkerEmits, WorkerFlushes, WorkerEmitsTrailing, PushCloud
<1>. QED
  BY <1>3, <1>4, <1>5, <1>6, <1>7, <1>8, QuietSteps

(* A slot has counted the messages its decoder was fed: none is fed twice,  *)
(* since a worker's queue only holds messages its decoders have not come to.*)
PacketsCounted == \A t \in DecodedTopics : packets[t] = Cardinality(fed[t])

LEMMA PopIsFresh ==
  ASSUME IInv, QueueInOrder, NEW w \in Pool, WorkerPops(w)
  PROVE  in_queue[w][1] \notin fed[Bag[in_queue[w][1]]]
<1>1. 1 \in 1..Len(in_queue[w]) /\ in_queue[w][1] \in Nat
  BY PopFacts
<1>2. \A n \in fed[Bag[in_queue[w][1]]] : n < in_queue[w][1]
  BY <1>1 DEF QueueInOrder
<1>. QED
  BY <1>1, <1>2

LEMMA PacketsStep ==
  ASSUME IInv, QueueInOrder, PacketsCounted, [Next]_vars
  PROVE  PacketsCounted'
<1>. USE DEF mainVars, readerVars, workerVars, queueVars, abortVars
<1>1. ASSUME UNCHANGED <<fed, packets>> PROVE PacketsCounted'
  BY <1>1 DEF PacketsCounted
<1>2. ASSUME NEW w \in Pool, WorkerPops(w) PROVE PacketsCounted'
  <2>1. PICK m : m = in_queue[w][1]
    OBVIOUS
  <2>2. /\ m \in Messages /\ Bag[m] \in DecodedTopics
        /\ fed \in [DecodedTopics -> SUBSET Messages] /\ packets \in [DecodedTopics -> Nat]
        /\ fed' = [fed EXCEPT ![Bag[m]] = fed[Bag[m]] \cup {m}]
        /\ packets' = [packets EXCEPT ![Bag[m]] = packets[Bag[m]] + 1]
        /\ m \notin fed[Bag[m]]
    BY <1>2, <2>1, PopFacts, PopIsFresh DEF DecodedMessages, IInv, DataInv, DataTypes
  <2>3. IsFiniteSet(fed[Bag[m]])
    <3>1. IsFiniteSet(1..Len(Bag))
      BY FS_Interval, Sizes
    <3>2. fed[Bag[m]] \in SUBSET (1..Len(Bag))
      BY <2>2 DEF Messages
    <3>. QED
      BY <3>1, <3>2, FS_Subset
  <2>4. Cardinality(fed[Bag[m]] \cup {m}) = Cardinality(fed[Bag[m]]) + 1
    BY <2>2, <2>3, FS_AddElement
  <2>5. /\ fed'[Bag[m]] = fed[Bag[m]] \cup {m} /\ packets'[Bag[m]] = packets[Bag[m]] + 1
        /\ \A t \in DecodedTopics : t # Bag[m] => fed'[t] = fed[t] /\ packets'[t] = packets[t]
    BY <2>2
  <2>. QED
    BY <2>2, <2>4, <2>5 DEF PacketsCounted
<1>3. CASE Quiet
  BY <1>1, <1>3 DEF Quiet, dataVars
<1>4. CASE WriterPop \/ WriterThrows
  BY <1>1, <1>4 DEF WriterPop, WriterThrows
<1>5. CASE ReaderSkips \/ ReaderDispatches \/ ReaderForwards
  BY <1>1, <1>5 DEF ReaderSkips, ReaderDispatches, ReaderForwards
<1>6. ASSUME NEW w \in Pool, WorkerEmits(w) \/ WorkerFlushes(w) \/ WorkerEmitsTrailing(w)
      PROVE  PacketsCounted'
  BY <1>1, <1>6 DEF WorkerEmits, WorkerFlushes, WorkerEmitsTrailing, PushCloud
<1>. QED
  BY <1>2, <1>3, <1>4, <1>5, <1>6, QuietSteps

-----------------------------------------------------------------------------
(* The order and the counts are invariant, on top of IInv.                  *)

OInv == IInv /\ OrderInv /\ Drained /\ WrittenOnce /\ AdvancedCounts /\ PacketsCounted

LEMMA OrderInit == Init => OrderInv /\ Drained /\ WrittenOnce /\ AdvancedCounts /\ PacketsCounted
<1>. SUFFICES ASSUME Init
     PROVE  OrderInv /\ Drained /\ WrittenOnce /\ AdvancedCounts /\ PacketsCounted
  OBVIOUS
<1>. USE DEF Init
<1>1. QueueInOrder /\ TaskOrder /\ TrailIsLeft /\ Finished /\ WriteInOrder /\ Drained
  BY DEF QueueInOrder, TaskOrder, TrailIsLeft, Finished, Leaving, WriteInOrder, Drained, Writing
<1>2. \A s \in Streams : Items(written[s]) = {} /\ Sent(s) = {} /\ Len(written[s]) = 0
  BY DEF Items, Sent
<1>3. ASSUME NEW s \in Streams, NEW x \in Expected[s] PROVE ~Produced(x)
  <2>1. x.stream = s
    BY OwedFields
  <2>2. CASE s \in Passthrough
    BY <2>1, <2>2, OwedOfCopied, Sizes DEF Produced, Messages
  <2>3. CASE s \notin Passthrough
    <3>1. s \in DecodedTopics /\ Owner(s) \in Pool
      BY <2>3, EverySlotOwned DEF Streams
    <3>. QED
      BY <2>1, <2>3, <3>1 DEF Produced
  <2>. QED
    BY <2>2, <2>3
<1>4. Accounted /\ CloudsCounted /\ WrittenOnce
  <2>1. \A t \in DecodedTopics : t \in Streams
    BY DEF Streams
  <2>. QED
    BY <1>2, <1>3, <2>1, FS_EmptySet DEF Accounted, CloudsCounted, WrittenOnce
<1>5. AdvancedCounts
  <2>1. Passed = {}
    BY Sizes DEF Passed, DecodedMessages, Messages
  <2>. QED
    BY <2>1, FS_EmptySet DEF AdvancedCounts
<1>6. PacketsCounted
  BY FS_EmptySet DEF PacketsCounted
<1>. QED
  BY <1>1, <1>4, <1>5, <1>6 DEF OrderInv

LEMMA OrderInduction == Spec => []OInv
<1>1. Init /\ IInv => OInv
  BY OrderInit DEF OInv
<1>2. IInv' /\ OInv /\ [Next]_vars => OInv'
  BY QueueOrderStep, TaskOrderStep, TrailIsLeftStep, FinishedStep, AccountStep,
     DrainedStep, WrittenOnceStep, AdvancedStep, PacketsStep DEF OInv, OrderInv
<1>. QED
  BY <1>1, <1>2, Induction, PTL DEF Spec

(* The numbers of a returned result are what happened, for every bag and    *)
(* pool: each topic's count of clouds is the length of its stream, its count*)
(* of packets the number of its messages, and the progress bar came to the  *)
(* number of decoded messages.                                              *)
THEOREM ResultMatchesOutput == Spec => []ResultIsExact
<1>1. OInv => ResultIsExact
  <2>. SUFFICES ASSUME OInv, main = "returned"
       PROVE  /\ \A t \in DecodedTopics : /\ clouds_produced[t] = Len(written[t])
                                           /\ packets[t] = Cardinality(MessagesOf(t))
              /\ advanced = Cardinality(DecodedMessages)
    BY DEF ResultIsExact
  <2>1. ~aborted /\ reader = "done" /\ \A w \in Pool : worker[w] = "done"
    BY DEF OInv, IInv, AbortInv, Storing, FlagTypes
  <2>2. Healthy /\ ~Writing /\ write_queue = <<>>
    BY <2>1 DEF OInv, Drained, Healthy, Writing
  <2>3. \A t \in DecodedTopics : Sent(t) = Items(written[t]) /\ t \in Streams
    BY <2>2 DEF Sent, Items, Streams
  <2>4. \A t \in DecodedTopics : clouds_produced[t] = Len(written[t])
    BY <2>2, <2>3 DEF OInv, OrderInv, CloudsCounted, WrittenOnce
  <2>5. next = Len(Bag) + 1
    BY <2>1 DEF OInv, IInv, FedInv, Leaving
  <2>6. Passed = DecodedMessages
    BY <2>5, Sizes DEF Passed, DecodedMessages, Messages
  <2>7. ASSUME NEW t \in DecodedTopics PROVE packets[t] = Cardinality(MessagesOf(t))
    <3>1. Owner(t) \in Pool /\ \E i \in 1..Per : Assigned(Owner(t), i) = t
      BY EverySlotOwned
    <3>2. fed[t] = MessagesOf(t)
      BY <2>1, <3>1 DEF OInv, OrderInv, Finished, Leaving
    <3>. QED
      BY <3>2 DEF OInv, PacketsCounted
  <2>. QED
    BY <2>4, <2>6, <2>7 DEF OInv, AdvancedCounts
<1>. QED
  BY <1>1, OrderInduction, PTL

-----------------------------------------------------------------------------
(* The refinement.  ConvertContract's operators over the constants are the  *)
(* ones of BagStream under other names.                                     *)

LEMMA SameStreams ==
  /\ Contract!Streams = Streams /\ Contract!Expected = Expected
  /\ \A x, y : Contract!Before(x, y) <=> Before(x, y)
  /\ \A q : Contract!Items(q) = Items(q)
<1>1. Contract!DecodedTopics = DecodedTopics /\ Contract!Messages = Messages
  BY DEF Contract!DecodedTopics, DecodedTopics, Contract!Messages, Messages
<1>2. \A t : Contract!MessagesOf(t) = MessagesOf(t)
  BY <1>1 DEF Contract!MessagesOf, MessagesOf
<1>3. Contract!Streams = Streams
  BY <1>1 DEF Contract!Streams, Streams
<1>4. \A m : Contract!UpTo(m) = UpTo(m) /\ Contract!RawItem(m) = RawItem(m)
  BY <1>2 DEF Contract!UpTo, UpTo, Contract!RawItem, RawItem
<1>5. \A m, k, f : Contract!CloudItem(m, k, f) = CloudItem(m, k, f)
  BY DEF Contract!CloudItem, CloudItem
<1>6. \A t, f : Contract!TrailItem(t, f) = TrailItem(t, f)
  BY DEF Contract!TrailItem, TrailItem
<1>7. \A t : Contract!CloudsOwed(t) = CloudsOwed(t)
  BY <1>2, <1>4, <1>5 DEF Contract!CloudsOwed, CloudsOwed
<1>8. \A t : Contract!TrailOwed(t) = TrailOwed(t)
  BY <1>2, <1>6 DEF Contract!TrailOwed, TrailOwed
<1>9. Contract!Expected = Expected
  BY <1>2, <1>3, <1>4, <1>7, <1>8 DEF Contract!Expected, Expected
<1>. QED
  BY <1>3, <1>9 DEF Contract!Before, Before, Contract!Items, Items

(* Once every thread is done undisturbed, every owed item was handed over.  *)
LEMMA DoneIsComplete ==
  ASSUME OInv, ~aborted, main = "join", reader = "done",
         \A w \in Pool : worker[w] = "done"
  PROVE  \A s \in Streams : Expected[s] \subseteq Items(written[s])
<1>1. Healthy /\ ~Writing /\ write_queue = <<>>
  BY DEF OInv, Drained, Healthy, Writing
<1>2. next = Len(Bag) + 1
  BY DEF OInv, IInv, FedInv, Leaving
<1>3. ASSUME NEW s \in Streams, NEW y \in Expected[s] PROVE Produced(y)
  <2>1. y.stream = s /\ y.src \in 1..Len(Bag) + 1
    BY OwedFields
  <2>2. CASE s \in Passthrough
    BY <1>2, <2>1, <2>2, OwedOfCopied, Sizes DEF Produced, Messages
  <2>3. CASE s \notin Passthrough
    <3>. DEFINE w == Owner(s)
    <3>1. s \in DecodedTopics
      BY <2>3 DEF Streams
    <3>2. w \in Pool /\ \E i \in 1..Per : Assigned(w, i) = s
      BY <3>1, EverySlotOwned
    <3>3. slot[w] = Per + 1 /\ fed[s] = MessagesOf(s)
      BY <3>2 DEF OInv, OrderInv, Finished, Leaving
    <3>4. CASE y.src = Len(Bag) + 1
      <4>1. slot[w] - 1 = Per
        BY <3>3, Sizes
      <4>. QED
        BY <2>1, <2>3, <3>2, <3>4, <4>1 DEF Produced
    <3>5. CASE y.src # Len(Bag) + 1
      <4>1. y.src \in MessagesOf(s) /\ y.nth \in 1..Clouds[y.src]
        BY <3>1, <3>5, OwedOfDecoded
      <4>2. Clouds[y.src] \in Nat /\ y.src # 0
        BY <4>1, BagAssumption, Sizes DEF MessagesOf, Messages
      <4>3. task[w] = y.src => nth[w] = Clouds[y.src]
        BY <3>2, <4>2 DEF OInv, OrderInv, TaskOrder, Idle, Leaving
      <4>. QED
        BY <2>1, <2>3, <3>3, <3>5, <4>1, <4>2, <4>3 DEF Produced
    <3>. QED
      BY <3>4, <3>5
  <2>. QED
    BY <2>2, <2>3
<1>4. \A s \in Streams : Sent(s) = Items(written[s])
  BY <1>1 DEF Sent, Items
<1>. QED
  BY <1>1, <1>3, <1>4 DEF OInv, OrderInv, Accounted

(* The writer writes what its stream is owed next.                          *)
LEMMA PopIsWrite ==
  ASSUME OInv, WriterPop
  PROVE  Contract!Next
<1>. DEFINE x == write_queue[1]
            s == x.stream
<1>1. /\ main = "write" /\ s \in Streams /\ x \in Expected[s]
      /\ x \notin Items(written[s])
      /\ \A y \in Expected[s] : Before(y, x) => y \in Items(written[s])
      /\ written' = [written EXCEPT ![s] = Append(written[s], x)]
  BY PopWrites DEF OInv, OrderInv
<1>2. UNCHANGED <<main, aborted, reader, worker>>
  BY DEF WriterPop, readerVars, workerVars, abortVars
<1>3. Contract!NextOwed(s, x)
  BY <1>1, SameStreams DEF Contract!NextOwed
<1>4. Faulted' = Faulted
  BY <1>2 DEF Faulted
<1>5. Contract!Write(s)
  BY <1>1, <1>2, <1>3, <1>4, SameStreams DEF Contract!Write, Ended
<1>. QED
  BY <1>1, <1>5, SameStreams DEF Contract!Next

(* The call ends as the contract allows.                                    *)
LEMMA JoinEnds ==
  ASSUME OInv, Join
  PROVE  Contract!Next
<1>1. /\ main = "join" /\ reader = "done" /\ \A w \in Pool : worker[w] = "done"
      /\ main' = (IF ep THEN "threw" ELSE "returned")
      /\ UNCHANGED <<written, aborted, reader, worker>>
  BY DEF Join, readerVars, workerVars, abortVars
<1>2. CASE ep
  <2>1. aborted
    BY <1>2 DEF OInv, IInv, AbortInv
  <2>2. Contract!Fail
    BY <1>1, <1>2, <2>1 DEF Contract!Fail, Ended, Faulted
  <2>. QED
    BY <2>2 DEF Contract!Next
<1>3. CASE ~ep
  <2>1. ~aborted
    BY <1>1, <1>3 DEF OInv, IInv, AbortInv, Storing
  <2>2. \A s \in Streams : Expected[s] \subseteq Items(written[s])
    BY <1>1, <2>1, DoneIsComplete
  <2>3. ~Faulted /\ ~Faulted'
    BY <1>1, <1>3, <2>1 DEF Faulted
  <2>4. Faulted' = Faulted
    <3>1. Faulted \in BOOLEAN /\ Faulted' \in BOOLEAN
      BY <2>1, <1>1 DEF Faulted
    <3>. QED
      BY <2>3, <3>1
  <2>5. ~Ended /\ main' = "returned" /\ Ended'
    BY <1>1, <1>3 DEF Ended
  <2>6. Contract!Return
    BY <1>1, <2>2, <2>3, <2>4, <2>5, SameStreams DEF Contract!Return
  <2>. QED
    BY <2>6 DEF Contract!Next
<1>. QED
  BY <1>2, <1>3

LEMMA UnwindFails ==
  ASSUME Unwind
  PROVE  Contract!Next
<1>1. /\ main = "unwind" /\ main' \in {"threw", "terminated"} /\ written' = written
  BY DEF Unwind
<1>2. Contract!Fail
  BY <1>1 DEF Contract!Fail, Ended, Faulted
<1>. QED
  BY <1>2 DEF Contract!Next

(* The other steps write nothing and keep a failure in sight: a raise stays *)
(* on its thread until the flag is up.                                      *)
LEMMA QuietForCaller ==
  ASSUME IInv, ~Ended,
         \/ Main /\ ~WriterPop /\ ~Join /\ ~Unwind
         \/ Reader
         \/ \E w \in Pool : Worker(w)
  PROVE  written' = written /\ ~Ended' /\ (Faulted => Faulted')
<1>. USE DEF mainVars, readerVars, workerVars, queueVars, abortVars
<1>0. worker \in [Pool -> WorkerPlaces]
  BY DEF IInv, ControlInv, ControlTypes
<1>1. CASE Main /\ ~WriterPop /\ ~Join /\ ~Unwind
  <2>1. CASE LaunchReader
    <3>1. reader = "unborn"
      BY <2>1 DEF LaunchReader, IInv, ControlInv, Phases, Launching
    <3>. QED
      BY <2>1, <3>1 DEF LaunchReader, Faulted, Ended
  <2>2. CASE LaunchWorker
    <3>1. /\ launched + 1 \in Pool /\ worker[launched + 1] = "unborn" /\ main' = main
      BY <2>2, Sizes DEF LaunchWorker, IInv, ControlInv, ControlTypes, Phases, Pool
    <3>. QED
      BY <1>0, <2>2, <3>1 DEF LaunchWorker, Faulted, Ended
  <2>3. CASE LaunchFails
    BY <2>3 DEF LaunchFails, Faulted, Ended
  <2>4. CASE WriterThrows
    BY <2>4 DEF WriterThrows, Faulted, Ended
  <2>5. CASE WriterEnds
    BY <2>5 DEF WriterEnds, Faulted, Ended
  <2>6. CASE MainAborts
    BY <2>6 DEF MainAborts, AfterExchange, Faulted, Ended
  <2>7. CASE MainStores
    BY <2>7 DEF MainStores, Faulted, Ended
  <2>. QED
    BY <1>1, <2>1, <2>2, <2>3, <2>4, <2>5, <2>6, <2>7 DEF Main
<1>2. CASE Reader
  <2>1. /\ UNCHANGED <<main, written, worker>> /\ (aborted => aborted')
        /\ reader = "raise" => aborted'
    BY <1>2 DEF Reader, ReaderReads, ReaderSkips, ReaderThrows, ReaderDispatches,
       ReaderForwards, ReaderEnds, ReaderAborts, ReaderStores, ReaderClosesQueue,
       ReaderReleases, ReaderClosesWrite, AtMessage
  <2>. QED
    BY <2>1 DEF Faulted, Ended
<1>3. ASSUME NEW w \in Pool, Worker(w)
      PROVE  written' = written /\ ~Ended' /\ (Faulted => Faulted')
  <2>1. CASE WorkerAborts(w)
    BY <2>1 DEF WorkerAborts, Faulted, Ended
  <2>2. CASE ~WorkerAborts(w)
    <3>1. UNCHANGED <<main, written, reader, aborted>> /\ worker[w] # "raise"
      BY <1>3, <2>2 DEF Worker, WorkerPops, WorkerEmits, WorkerFinishesMessage,
         WorkerReachesEnd, WorkerFlushes, WorkerEmitsTrailing, WorkerEndsFlush,
         WorkerThrows, WorkerStores, WorkerReleases, WorkerClosesWrite, PushCloud
    <3>2. \A v \in Pool : v # w => worker'[v] = worker[v]
      BY <1>0, <1>3, <2>2 DEF Worker, WorkerPops, WorkerEmits, WorkerFinishesMessage,
         WorkerReachesEnd, WorkerFlushes, WorkerEmitsTrailing, WorkerEndsFlush,
         WorkerThrows, WorkerStores, WorkerReleases, WorkerClosesWrite, PushCloud, Goto
    <3>. QED
      BY <3>1, <3>2 DEF Faulted, Ended
  <2>. QED
    BY <2>1, <2>2
<1>. QED
  BY <1>1, <1>2, <1>3

LEMMA StepImplements ==
  ASSUME OInv, [Next]_vars
  PROVE  [Contract!Next]_(Contract!contractVars)
<1>1. CASE UNCHANGED vars
  BY <1>1 DEF vars, mainVars, readerVars, workerVars, abortVars,
     Contract!contractVars, Ended, Faulted
<1>2. CASE ~Ended /\ WriterPop
  BY <1>2, PopIsWrite
<1>3. CASE ~Ended /\ Join
  BY <1>3, JoinEnds
<1>4. CASE ~Ended /\ Unwind
  BY <1>4, UnwindFails
<1>5. ASSUME written' = written, ~Ended, ~Ended', Faulted => Faulted'
      PROVE  [Contract!Next]_(Contract!contractVars)
  <2>1. CASE Faulted <=> Faulted'
    BY <1>5, <2>1 DEF Contract!contractVars
  <2>2. CASE ~Faulted /\ Faulted'
    <3>1. Contract!Fault
      BY <1>5, <2>2 DEF Contract!Fault
    <3>. QED
      BY <3>1 DEF Contract!Next
  <2>. QED
    BY <1>5, <2>1, <2>2
<1>. QED
  BY <1>1, <1>2, <1>3, <1>4, <1>5, QuietForCaller DEF OInv, Next, Stopped

(* run_convert_parallel keeps the promise of convert() for every bag, pool  *)
(* and queue size, however its threads interleave and whichever of them     *)
(* fails: each stream grows by exactly the next item it is owed, the call   *)
(* returns only with every stream complete, and it fails only after an      *)
(* exception.                                                               *)
THEOREM PipelineImplements == Spec => ImplementsContract
<1>1. Init => Contract!Init
  BY SameStreams DEF Init, Contract!Init, Ended, Faulted
<1>2. OInv /\ [Next]_vars => [Contract!Next]_(Contract!contractVars)
  BY StepImplements
<1>. QED
  BY <1>1, <1>2, OrderInduction, PTL DEF Spec, ImplementsContract, Contract!Spec

-----------------------------------------------------------------------------
(* The output itself: what the contract leaves of it is a single bag.       *)

(* Before orders what a stream is owed.                                     *)
LEMMA OwedOrder ==
  ASSUME NEW s \in Streams, NEW x \in Expected[s], NEW y \in Expected[s]
  PROVE  /\ x = y \/ Before(x, y) \/ Before(y, x)
         /\ ~(Before(x, y) /\ Before(y, x))
<1>1. /\ x.src \in Nat /\ y.src \in Nat /\ x.nth \in Nat /\ y.nth \in Nat
  <2>1. x.src \in 1..Len(Bag) + 1 /\ y.src \in 1..Len(Bag) + 1 /\ x.nth \in Nat /\ y.nth \in Nat
    BY OwedFields
  <2> QED
    BY <2>1
<1>2. x.src = y.src /\ x.nth = y.nth => x = y
  BY OwedOnce
<1> QED
  BY <1>1, <1>2 DEF Before

(* An item's place in a listing is the number of items owed before it.      *)
LEMMA PlaceInListing ==
  ASSUME NEW s \in Streams, NEW q \in Seq(Expected[s]), Listing(q, s), NEW i \in 1..Len(q)
  PROVE  Cardinality({y \in Expected[s] : Before(y, q[i])}) = i - 1
<1> DEFINE P == {y \in Expected[s] : Before(y, q[i])}
           f == [j \in 1..i - 1 |-> q[j]]
<1>0. Len(q) \in Nat /\ i \in Nat /\ i - 1 \in Nat /\ \A j \in 1..i - 1 : j \in 1..Len(q) /\ j < i
  OBVIOUS
<1>1. \A j \in 1..Len(q) : q[j] \in Expected[s]
  OBVIOUS
<1>2. \A j, k \in 1..Len(q) : j < k => Before(q[j], q[k])
  BY DEF Listing
<1>3. \A j, k \in 1..Len(q) : Before(q[j], q[k]) => j < k
  <2> SUFFICES ASSUME NEW j \in 1..Len(q), NEW k \in 1..Len(q), Before(q[j], q[k]) PROVE j < k
    OBVIOUS
  <2>1. ~Before(q[k], q[j]) /\ q[j] \in Expected[s] /\ q[k] \in Expected[s]
    BY <1>1, OwedOrder
  <2>2. j # k
    BY <2>1
  <2> QED
    BY <1>2, <2>1, <2>2
<1>4. \A y \in P : \E j \in 1..i - 1 : y = q[j]
  <2> SUFFICES ASSUME NEW y \in P PROVE \E j \in 1..i - 1 : y = q[j]
    OBVIOUS
  <2>1. PICK j \in 1..Len(q) : y = q[j]
    BY DEF Listing, Items
  <2>2. j < i
    BY <1>3, <2>1
  <2> QED
    BY <2>1, <2>2
<1>5. \A j \in 1..i - 1 : q[j] \in P
  BY <1>0, <1>1, <1>2
<1>6. \A j, k \in 1..i - 1 : q[j] = q[k] => j = k
  <2> SUFFICES ASSUME NEW j \in 1..i - 1, NEW k \in 1..i - 1, q[j] = q[k], j # k PROVE FALSE
    OBVIOUS
  <2>1. Before(q[j], q[k]) \/ Before(q[k], q[j])
    BY <1>0, <1>2
  <2>2. Before(q[j], q[j])
    BY <2>1
  <2> QED
    BY <1>0, <1>1, <2>2, OwedOrder
<1>7. f \in Surjection(1..i - 1, P) /\ f \in Injection(1..i - 1, P)
  BY <1>4, <1>5, <1>6 DEF Surjection, Injection, IsInjective
<1>8. IsFiniteSet(1..i - 1) /\ Cardinality(1..i - 1) = i - 1
  <2>1. PICK k \in Nat : k = i - 1
    BY <1>0
  <2>2. k \in Int /\ 1 \in Int /\ IsFiniteSet(1..k)
    BY FS_Interval
  <2>3. Cardinality(1..k) = IF 1 > k THEN 0 ELSE k - 1 + 1
    BY <2>2, FS_Interval
  <2> QED
    BY <2>1, <2>2, <2>3
<1> HIDE DEF f, P
<1>9. Cardinality(P) = i - 1
  BY <1>7, <1>8, FS_Surjection
<1> QED
  BY <1>9 DEF P

(* So there is one listing at most.                                         *)
LEMMA ListingsAgree ==
  ASSUME NEW s \in Streams, NEW q \in Seq(Expected[s]), Listing(q, s),
         NEW r \in Seq(Expected[s]), Listing(r, s)
  PROVE  q = r
<1>1. \A i \in 1..Len(q) : i \in 1..Len(r) /\ q[i] = r[i]
  <2> SUFFICES ASSUME NEW i \in 1..Len(q) PROVE i \in 1..Len(r) /\ q[i] = r[i]
    OBVIOUS
  <2>1. PICK j \in 1..Len(r) : r[j] = q[i]
    BY DEF Listing, Items
  <2>2. Cardinality({y \in Expected[s] : Before(y, q[i])}) = i - 1
    BY PlaceInListing
  <2>3. Cardinality({y \in Expected[s] : Before(y, r[j])}) = j - 1
    BY PlaceInListing
  <2>4. i = j
    BY <2>1, <2>2, <2>3
  <2> QED
    BY <2>1, <2>4
<1>2. \A i \in 1..Len(r) : i \in 1..Len(q)
  <2> SUFFICES ASSUME NEW i \in 1..Len(r) PROVE i \in 1..Len(q)
    OBVIOUS
  <2>1. PICK j \in 1..Len(q) : q[j] = r[i]
    BY DEF Listing, Items
  <2>2. Cardinality({y \in Expected[s] : Before(y, r[i])}) = i - 1
    BY PlaceInListing
  <2>3. Cardinality({y \in Expected[s] : Before(y, q[j])}) = j - 1
    BY PlaceInListing
  <2>4. i = j
    BY <2>1, <2>2, <2>3
  <2> QED
    BY <2>4
<1>3. Len(q) = Len(r)
  <2>1. Len(q) \in Nat /\ Len(r) \in Nat
    OBVIOUS
  <2>2. Len(q) > 0 => Len(q) \in 1..Len(r)
    BY <1>1, <2>1
  <2>3. Len(r) > 0 => Len(r) \in 1..Len(q)
    BY <1>2, <2>1
  <2> QED
    BY <2>1, <2>2, <2>3
<1> QED
  BY <1>1, <1>3

(* At any time a stream is a beginning of its listing.                      *)
OutputInv ==
  /\ written \in [Streams -> Seq(Item)]
  /\ \A s \in Streams :
       /\ Items(written[s]) \subseteq Expected[s]
       /\ \A y \in Items(written[s]), z \in Expected[s] : Before(z, y) => z \in Items(written[s])
       /\ \A i, j \in 1..Len(written[s]) : i < j => Before(written[s][i], written[s][j])
  /\ main = "returned" => \A s \in Streams : Expected[s] \subseteq Items(written[s])

LEMMA OutputStep ==
  ASSUME OutputInv, [Contract!Next]_(Contract!contractVars), written' \in [Streams -> Seq(Item)]
  PROVE  OutputInv'
<1>1. CASE UNCHANGED Contract!contractVars
  <2>1. written' = written /\ (main' = "returned" => main = "returned")
    BY <1>1 DEF Contract!contractVars, Ended
  <2> QED
    BY <2>1 DEF OutputInv
<1>2. ASSUME NEW t \in Streams, Contract!Write(t) PROVE OutputInv'
  <2>1. PICK x \in Expected[t] :
          /\ written' = [written EXCEPT ![t] = Append(@, x)]
          /\ x \notin Items(written[t])
          /\ \A y \in Expected[t] : Before(y, x) => y \in Items(written[t])
    BY <1>2, SameStreams DEF Contract!Write, Contract!NextOwed
  <2>2. main' # "returned"
    BY <1>2 DEF Contract!Write, Ended
  <2>3. PICK q : q = written[t]
    OBVIOUS
  <2>4. /\ \A s \in Streams : s # t => written'[s] = written[s]
        /\ written'[t] = Append(q, x) /\ q \in Seq(Item)
    BY <2>1, <2>3 DEF OutputInv
  <2>5. /\ Items(q) \subseteq Expected[t] /\ x \notin Items(q)
        /\ \A y \in Items(q), z \in Expected[t] : Before(z, y) => z \in Items(q)
        /\ \A y \in Expected[t] : Before(y, x) => y \in Items(q)
        /\ \A i, j \in 1..Len(q) : i < j => Before(q[i], q[j])
    BY <2>1, <2>3 DEF OutputInv
  <2>6. \A y \in Items(q) : Before(y, x)
    BY <2>5, OwedOrder
  <2>7. /\ Len(Append(q, x)) = Len(q) + 1 /\ Len(q) \in Nat /\ Append(q, x)[Len(q) + 1] = x
        /\ \A i \in 1..Len(q) : Append(q, x)[i] = q[i] /\ q[i] \in Items(q)
    BY <2>4 DEF Items
  <2>8. Items(Append(q, x)) = Items(q) \cup {x}
    <3>1. 1..Len(q) + 1 = 1..Len(q) \cup {Len(q) + 1}
      BY <2>7
    <3> QED
      BY <2>7, <3>1 DEF Items
  <2>9. ASSUME NEW i \in 1..Len(q) + 1, NEW j \in 1..Len(q) + 1, i < j
        PROVE  Before(Append(q, x)[i], Append(q, x)[j])
    <3>1. i \in 1..Len(q)
      BY <2>7, <2>9
    <3>2. CASE j = Len(q) + 1
      BY <2>6, <2>7, <3>1, <3>2
    <3>3. CASE j \in 1..Len(q)
      BY <2>5, <2>7, <2>9, <3>1, <3>3
    <3> QED
      BY <2>7, <3>2, <3>3
  <2>10. /\ Items(Append(q, x)) \subseteq Expected[t]
         /\ \A y \in Items(Append(q, x)), z \in Expected[t] :
              Before(z, y) => z \in Items(Append(q, x))
    BY <2>5, <2>8
  <2>11. ASSUME NEW s \in Streams
         PROVE  /\ Items(written'[s]) \subseteq Expected[s]
                /\ \A y \in Items(written'[s]), z \in Expected[s] :
                     Before(z, y) => z \in Items(written'[s])
                /\ \A i, j \in 1..Len(written'[s]) :
                     i < j => Before(written'[s][i], written'[s][j])
    <3>1. CASE s = t
      BY <2>4, <2>7, <2>9, <2>10, <3>1
    <3>2. CASE s # t
      BY <2>4, <3>2 DEF OutputInv
    <3> QED
      BY <3>1, <3>2
  <2> QED
    BY <2>2, <2>11 DEF OutputInv
<1>3. CASE Contract!Fault \/ Contract!Fail
  <2>1. written' = written /\ main' # "returned"
    BY <1>3 DEF Contract!Fault, Contract!Fail, Ended
  <2> QED
    BY <2>1 DEF OutputInv
<1>4. CASE Contract!Return
  <2>1. written' = written /\ \A s \in Streams : Expected[s] \subseteq Items(written[s])
    BY <1>4, SameStreams DEF Contract!Return
  <2> QED
    BY <2>1 DEF OutputInv
<1> QED
  BY <1>1, <1>2, <1>3, <1>4, SameStreams DEF Contract!Next

(* A stream that holds all it is owed is the stream the bag determines.     *)
LEMMA CompleteIsOutput ==
  ASSUME OutputInv, main = "returned", NEW s \in Streams
  PROVE  written[s] = Output(s)
<1>1. PICK q \in Seq(Item) : q = written[s]
  BY DEF OutputInv
<1>2. Items(q) = Expected[s]
  BY <1>1 DEF OutputInv
<1>3. q \in Seq(Expected[s])
  BY <1>2 DEF Items
<1>4. Listing(q, s)
  BY <1>1, <1>2 DEF OutputInv, Listing
<1>5. PICK r : r = CHOOSE o \in Seq(Expected[s]) : Listing(o, s)
  OBVIOUS
<1>6. r \in Seq(Expected[s]) /\ Listing(r, s)
  BY <1>3, <1>4, <1>5
<1>7. q = r
  BY <1>3, <1>4, <1>6, ListingsAgree
<1> QED
  BY <1>1, <1>5, <1>7 DEF Output

(* The bag determines the output of a successful call: neither the number   *)
(* of workers, nor the queues' capacities, nor the scheduling of threads    *)
(* shows in any topic.  SequentialConvertProofs proves the same of the      *)
(* other driver, so which of them ran cannot be told from the topics.       *)
THEOREM OutputIsDetermined ==
  Spec => [](main = "returned" => \A s \in Streams : written[s] = Output(s))
<1>1. Init => OutputInv
  <2> SUFFICES ASSUME Init PROVE OutputInv
    OBVIOUS
  <2>1. written = [s \in Streams |-> <<>>] /\ main = "launch"
    BY DEF Init
  <2>2. \A s \in Streams : written[s] = <<>> /\ Items(<<>>) = {} /\ Len(<<>>) = 0
    BY <2>1 DEF Items
  <2>3. <<>> \in Seq(Item)
    OBVIOUS
  <2> QED
    BY <2>1, <2>2, <2>3 DEF OutputInv
<1>2. OInv /\ OInv' /\ OutputInv /\ [Next]_vars => OutputInv'
  BY StepImplements, OutputStep DEF OInv, IInv, DataInv, DataTypes
<1>3. OutputInv => (main = "returned" => \A s \in Streams : written[s] = Output(s))
  BY CompleteIsOutput
<1> QED
  BY <1>1, <1>2, <1>3, OrderInduction, PTL DEF Spec
=============================================================================
