----------------------- MODULE SequentialConvertProofs -----------------------
(***************************************************************************)
(* The sequential driver implements the contract of convert() for every    *)
(* bag.  While the call is alive each stream holds exactly the owed items  *)
(* the loop has passed, so the next item written is the next one owed and  *)
(* the call returns with nothing outstanding.                              *)
(***************************************************************************)
EXTENDS ReportedConvert, FiniteSetTheorems, TLAPS

LEMMA ItemsOfAppend ==
  ASSUME NEW S, NEW q \in Seq(S), NEW x \in S
  PROVE  Items(Append(q, x)) = Items(q) \cup {x}
<1>1. Len(Append(q, x)) = Len(q) + 1
  OBVIOUS
<1>2. \A i \in 1..Len(q) : Append(q, x)[i] = q[i]
  OBVIOUS
<1>3. Append(q, x)[Len(q) + 1] = x
  OBVIOUS
<1>4. 1..Len(q) + 1 = 1..Len(q) \cup {Len(q) + 1}
  OBVIOUS
<1>. QED
  BY <1>1, <1>2, <1>3, <1>4 DEF Items

-----------------------------------------------------------------------------
(* The item a stream is owed for its place in the order.                    *)

LEMMA RawIsOwed ==
  ASSUME NEW s \in Passthrough, NEW m \in MessagesOf(s)
  PROVE  RawItem(m) \in Expected[s]
<1> QED
  BY DEF Expected, Streams

LEMMA CloudIsOwed ==
  ASSUME NEW s \in DecodedTopics, NEW m \in MessagesOf(s), NEW k \in 1..Clouds[m]
  PROVE  CloudItem(m, k, UpTo(m)) \in Expected[s]
<1>1. s \notin Passthrough /\ s \in Streams
  BY BagAssumption DEF Streams
<1>2. CloudItem(m, k, UpTo(m)) \in CloudsOwed(s)
  BY DEF CloudsOwed
<1> QED
  BY <1>1, <1>2 DEF Expected

LEMMA TrailIsOwed ==
  ASSUME NEW s \in Trailing
  PROVE  TrailItem(s, MessagesOf(s)) \in Expected[s]
<1>1. s \notin Passthrough /\ s \in Streams
  BY BagAssumption DEF Streams
<1> QED
  BY <1>1 DEF Expected, TrailOwed

(* And there is nothing else: an owed item is a copy, one of the clouds a   *)
(* message completes, or the trailing scan.                                 *)
IsRaw(s, y) ==
  /\ s \in Passthrough /\ y.src \in MessagesOf(s)
  /\ y = RawItem(y.src)

IsCloud(s, y) ==
  /\ s \in DecodedTopics /\ y.src \in MessagesOf(s)
  /\ y.nth \in 1..Clouds[y.src]
  /\ y = CloudItem(y.src, y.nth, UpTo(y.src))

IsTrail(s, y) ==
  /\ s \in DecodedTopics /\ s \in Trailing
  /\ y = TrailItem(s, MessagesOf(s))

LEMMA OwedShapes ==
  ASSUME NEW s \in Streams, NEW y \in Expected[s]
  PROVE  IsRaw(s, y) \/ IsCloud(s, y) \/ IsTrail(s, y)
<1>1. CASE s \in Passthrough
  <2>1. y \in {RawItem(m) : m \in MessagesOf(s)}
    BY <1>1 DEF Expected
  <2>2. PICK m \in MessagesOf(s) : y = RawItem(m)
    BY <2>1
  <2>3. y.src = m
    BY <2>2 DEF RawItem
  <2> QED
    BY <1>1, <2>2, <2>3 DEF IsRaw
<1>2. CASE s \notin Passthrough
  <2>1. s \in DecodedTopics /\ y \in CloudsOwed(s) \cup TrailOwed(s)
    BY <1>2 DEF Expected, Streams
  <2>2. CASE y \in CloudsOwed(s)
    <3>1. PICK m \in MessagesOf(s) : y \in {CloudItem(m, k, UpTo(m)) : k \in 1..Clouds[m]}
      BY <2>2 DEF CloudsOwed
    <3>2. PICK k \in 1..Clouds[m] : y = CloudItem(m, k, UpTo(m))
      BY <3>1
    <3>3. y.src = m /\ y.nth = k
      BY <3>2 DEF CloudItem
    <3> QED
      BY <2>1, <3>2, <3>3 DEF IsCloud
  <2>3. CASE y \in TrailOwed(s)
    <3>1. s \in Trailing /\ y \in {TrailItem(s, MessagesOf(s))}
      BY <2>3 DEF TrailOwed
    <3> QED
      BY <2>1, <3>1 DEF IsTrail
  <2> QED
    BY <2>1, <2>2, <2>3
<1> QED
  BY <1>1, <1>2

(* What the three kinds have in common.                                     *)
LEMMA OwedFields ==
  ASSUME NEW s \in Streams, NEW y \in Expected[s]
  PROVE  /\ y.stream = s /\ y.nth \in Nat
         /\ y.src \in 1..Len(Bag) + 1
         /\ y.src # Len(Bag) + 1 => y.src \in Messages /\ Bag[y.src] = s
<1> USE BagAssumption
<1>1. CASE IsRaw(s, y)
  BY <1>1 DEF IsRaw, RawItem, MessagesOf, Messages
<1>2. CASE IsCloud(s, y)
  BY <1>2 DEF IsCloud, CloudItem, MessagesOf, Messages
<1>3. CASE IsTrail(s, y)
  BY <1>3 DEF IsTrail, TrailItem
<1> QED
  BY <1>1, <1>2, <1>3, OwedShapes

(* A stream is owed at most one item for each place.                        *)
LEMMA OwedOnce ==
  ASSUME NEW s \in Streams, NEW x \in Expected[s], NEW y \in Expected[s],
         x.src = y.src, x.nth = y.nth
  PROVE  x = y
<1> USE BagAssumption
<1>1. CASE IsRaw(s, x)
  <2>1. x.src \in Messages /\ x.nth = 0 /\ s \notin DecodedTopics
    BY <1>1 DEF IsRaw, RawItem, MessagesOf
  <2>2. IsRaw(s, y)
    BY <2>1, OwedShapes DEF IsCloud, IsTrail
  <2> QED
    BY <1>1, <2>2 DEF IsRaw
<1>2. CASE IsCloud(s, x)
  <2>1. x.src \in Messages /\ s \notin Passthrough
    BY <1>2 DEF IsCloud, MessagesOf
  <2>2. ~IsTrail(s, y) /\ ~IsRaw(s, y)
    BY <2>1 DEF IsTrail, IsRaw, TrailItem, Messages
  <2>3. IsCloud(s, y)
    BY <2>2, OwedShapes
  <2> QED
    BY <1>2, <2>3 DEF IsCloud
<1>3. CASE IsTrail(s, x)
  <2>1. x.src = Len(Bag) + 1 /\ s \notin Passthrough
    BY <1>3 DEF IsTrail, TrailItem
  <2>2. ~IsCloud(s, y) /\ ~IsRaw(s, y)
    BY <2>1 DEF IsCloud, IsRaw, MessagesOf, Messages
  <2>3. IsTrail(s, y)
    BY <2>2, OwedShapes
  <2> QED
    BY <1>3, <2>3 DEF IsTrail
<1> QED
  BY <1>1, <1>2, <1>3, OwedShapes

-----------------------------------------------------------------------------
(* Where the call stands and what it has written.                           *)

Item == [stream : Streams, src : 1..Len(Bag) + 1, nth : Nat, after : SUBSET Messages]

Types ==
  /\ main \in {"read", "decode", "flush", "unwind", "returned", "threw"}
  /\ next \in 1..Len(Bag) + 1 /\ nth \in Nat
  /\ main = "decode" =>
       next \in Messages /\ Bag[next] \in DecodedTopics /\ nth <= Clouds[next]
  /\ main \in {"flush", "returned"} => next = Len(Bag) + 1
  /\ main = "returned" => flushed = DecodedTopics
  /\ flushed \subseteq DecodedTopics
  /\ main \in {"read", "decode"} => flushed = {}

DataTypes ==
  /\ packets \in [DecodedTopics -> Nat] /\ advanced \in Nat
  /\ clouds_produced \in [DecodedTopics -> Nat]
  /\ fed \in [DecodedTopics -> SUBSET Messages]
  /\ written \in [Streams -> Seq(Item)]

Live == main \notin {"unwind", "threw"}

(* The messages the decoders have consumed.                                 *)
Reached(m) == m < next \/ (main = "decode" /\ m = next)

FedInv == Live =>
  \A t \in DecodedTopics : fed[t] = {m \in MessagesOf(t) : Reached(m)}

(* The items the call has come past.                                        *)
Covered(x) ==
  \/ x.src < next
  \/ main = "decode" /\ x.src = next /\ x.nth <= nth
  \/ x.src = Len(Bag) + 1 /\ x.stream \in flushed

WrittenInv == Live =>
  \A s \in Streams : Items(written[s]) = {x \in Expected[s] : Covered(x)}

IInv == Types /\ DataTypes /\ FedInv /\ WrittenInv

-----------------------------------------------------------------------------
LEMMA Sizes ==
  /\ Len(Bag) \in Nat /\ Messages = 1..Len(Bag)
  /\ \A m \in Messages : Clouds[m] \in Nat
  /\ DecodedTopics \cap Passthrough = {}
  /\ DecodedTopics \subseteq Streams /\ Passthrough \subseteq Streams
  /\ Trailing \subseteq DecodedTopics
BY BagAssumption DEF Messages, Streams

LEMMA InitHolds == Init => IInv
<1> SUFFICES ASSUME Init PROVE IInv
  OBVIOUS
<1> USE DEF Init
<1>1. Types
  BY Sizes DEF Types
<1>2. DataTypes
  BY DEF DataTypes
<1>3. FedInv
  <2>1. ASSUME NEW t \in DecodedTopics, NEW m \in MessagesOf(t) PROVE ~Reached(m)
    BY Sizes DEF Reached, MessagesOf
  <2> QED
    BY <2>1 DEF FedInv
<1>4. WrittenInv
  <2> SUFFICES ASSUME NEW s \in Streams
               PROVE  Items(written[s]) = {x \in Expected[s] : Covered(x)}
    BY DEF WrittenInv
  <2>1. Items(written[s]) = {}
    BY DEF Items
  <2>2. ASSUME NEW x \in Expected[s] PROVE ~Covered(x)
    BY OwedFields, Sizes DEF Covered
  <2> QED
    BY <2>1, <2>2
<1> QED
  BY <1>1, <1>2, <1>3, <1>4 DEF IInv

(* Appending an owed item x that was not covered and is all a step newly    *)
(* covers keeps WrittenInv.                                                 *)
LEMMA PutKeepsWritten ==
  ASSUME IInv, Live, NEW s \in Streams, NEW x \in Expected[s], x \in Item, Put(x),
         \A u \in Streams : \A y \in Expected[u] : Covered(y)' <=> Covered(y) \/ y = x
  PROVE  /\ written' \in [Streams -> Seq(Item)]
         /\ \A u \in Streams : Items(written'[u]) = {y \in Expected[u] : Covered(y)'}
<1> USE DEF IInv, DataTypes
<1>1. x.stream = s
  BY OwedFields
<1>2. written' = [written EXCEPT ![s] = Append(@, x)]
  BY <1>1 DEF Put
<1>3. written' \in [Streams -> Seq(Item)]
  BY <1>2
<1>4. ASSUME NEW u \in Streams
      PROVE  Items(written'[u]) = {y \in Expected[u] : Covered(y)'}
  <2>1. Items(written[u]) = {y \in Expected[u] : Covered(y)}
    BY DEF WrittenInv
  <2>2. CASE u = s
    <3>1. written'[u] = Append(written[s], x) /\ written[s] \in Seq(Item)
      BY <1>2, <2>2
    <3>2. Items(written'[u]) = Items(written[s]) \cup {x}
      BY <3>1, ItemsOfAppend
    <3> QED
      BY <2>1, <2>2, <3>2
  <2>3. CASE u # s
    <3>1. written'[u] = written[u]
      BY <1>2, <2>3
    <3>2. x \notin Expected[u]
      BY <1>1, <2>3, OwedFields
    <3> QED
      BY <2>1, <3>1, <3>2
  <2> QED
    BY <2>2, <2>3
<1> QED
  BY <1>3, <1>4

(* A step that writes nothing and covers nothing new keeps WrittenInv.      *)
LEMMA QuietKeepsWritten ==
  ASSUME IInv, Live, UNCHANGED written,
         \A u \in Streams : \A y \in Expected[u] : Covered(y)' <=> Covered(y)
  PROVE  WrittenInv'
<1>1. ASSUME NEW u \in Streams
      PROVE  Items(written'[u]) = {y \in Expected[u] : Covered(y)'}
  BY DEF IInv, WrittenInv
<1> QED
  BY <1>1 DEF WrittenInv, Items

-----------------------------------------------------------------------------
(* One lemma for each action that writes: what it writes is the next item   *)
(* its stream is owed.                                                      *)

LEMMA EmitWrites ==
  ASSUME IInv, Emit
  PROVE  LET x == CloudItem(next, nth + 1, UpTo(next))
         IN  /\ x \in Expected[Bag[next]] /\ x \in Item /\ Put(x) /\ ~Covered(x)
             /\ \A y \in Expected[Bag[next]] : Before(y, x) => Covered(y)
             /\ \A u \in Streams : \A y \in Expected[u] : Covered(y)' <=> Covered(y) \/ y = x
<1> DEFINE x == CloudItem(next, nth + 1, UpTo(next))
           t == Bag[next]
<1> USE DEF IInv, Types, Emit, CloudRemains
<1>1. /\ main = "decode" /\ main' = main /\ next' = next /\ flushed' = flushed
      /\ flushed = {} /\ nth' = nth + 1 /\ nth \in Nat
      /\ next \in Messages /\ next \in 1..Len(Bag) + 1
      /\ t \in DecodedTopics /\ t \in Streams /\ t \notin Passthrough
      /\ nth + 1 \in 1..Clouds[next] /\ next \in MessagesOf(t)
  BY Sizes DEF MessagesOf
<1>2. x.src = next /\ x.nth = nth + 1 /\ x.stream = t
  BY DEF CloudItem
<1>3. x \in Expected[t]
  BY <1>1, CloudIsOwed
<1>4. x \in Item
  BY <1>1 DEF CloudItem, Item, UpTo, MessagesOf
<1>5. fed[t] = UpTo(next)
  <2>1. fed[t] = {m \in MessagesOf(t) : Reached(m)}
    BY <1>1 DEF FedInv, Live
  <2>2. ASSUME NEW m \in MessagesOf(t) PROVE Reached(m) <=> m <= next
    <3>1. m \in Nat /\ next \in Nat
      BY Sizes DEF MessagesOf
    <3> QED
      BY <1>1, <3>1 DEF Reached
  <2> QED
    BY <2>1, <2>2 DEF UpTo
<1>6. Put(x)
  BY <1>5
<1>7. ~Covered(x)
  BY <1>1, <1>2, Sizes DEF Covered
<1>8. ASSUME NEW y \in Expected[t], Before(y, x) PROVE Covered(y)
  BY <1>1, <1>2, <1>8, OwedFields DEF Before, Covered
<1>9. ASSUME NEW u \in Streams, NEW y \in Expected[u]
      PROVE  Covered(y)' <=> Covered(y) \/ y = x
  <2>1. /\ y.nth \in Nat /\ y.src \in 1..Len(Bag) + 1
        /\ y.src # Len(Bag) + 1 => Bag[y.src] = u
    BY OwedFields
  <2>2. y.src = next => u = t
    BY <1>1, <2>1, Sizes
  <2>3. y.src = next /\ y.nth = nth + 1 => y = x
    BY <1>2, <1>3, <2>2, OwedOnce
  <2>4. Covered(y)' <=> y.src < next \/ (y.src = next /\ y.nth <= nth + 1)
    BY <1>1, <2>1, Sizes DEF Covered
  <2>5. Covered(y) <=> y.src < next \/ (y.src = next /\ y.nth <= nth)
    BY <1>1, <2>1, Sizes DEF Covered
  <2> QED
    BY <1>1, <1>2, <2>1, <2>3, <2>4, <2>5
<1> QED
  BY <1>3, <1>4, <1>6, <1>7, <1>8, <1>9

LEMMA CopyWrites ==
  ASSUME IInv, Copy
  PROVE  LET x == RawItem(next)
         IN  /\ x \in Expected[Bag[next]] /\ x \in Item /\ Put(x) /\ ~Covered(x)
             /\ \A y \in Expected[Bag[next]] : Before(y, x) => Covered(y)
             /\ \A u \in Streams : \A y \in Expected[u] : Covered(y)' <=> Covered(y) \/ y = x
<1> DEFINE x == RawItem(next)
           t == Bag[next]
<1> USE DEF IInv, Types, Copy
<1>1. /\ main = "read" /\ main' = main /\ next' = next + 1 /\ flushed' = flushed
      /\ flushed = {} /\ nth \in Nat
      /\ next \in Messages /\ next \in 1..Len(Bag) + 1
      /\ t \in Passthrough /\ t \in Streams /\ next \in MessagesOf(t)
  BY Sizes DEF MessagesOf
<1>2. x.src = next /\ x.nth = 0 /\ x.stream = t
  BY DEF RawItem
<1>3. x \in Expected[t]
  BY <1>1, RawIsOwed
<1>4. x \in Item
  BY <1>1 DEF RawItem, Item
<1>5. Put(x)
  OBVIOUS
<1>6. ~Covered(x)
  BY <1>1, <1>2, Sizes DEF Covered
<1>7. ASSUME NEW y \in Expected[t], Before(y, x) PROVE Covered(y)
  BY <1>1, <1>2, <1>7, OwedFields DEF Before, Covered
<1>8. ASSUME NEW u \in Streams, NEW y \in Expected[u]
      PROVE  Covered(y)' <=> Covered(y) \/ y = x
  <2>1. /\ y.nth \in Nat /\ y.src \in 1..Len(Bag) + 1
        /\ y.src # Len(Bag) + 1 => Bag[y.src] = u
    BY OwedFields
  <2>2. y.src = next => u = t
    BY <1>1, <2>1, Sizes
  <2>3. y.src = next => y = x
    <3> SUFFICES ASSUME y.src = next PROVE y = x
      OBVIOUS
    <3>1. u = t /\ t \notin DecodedTopics
      BY <1>1, <2>2, Sizes
    <3>2. IsRaw(u, y)
      BY <3>1, OwedShapes DEF IsCloud, IsTrail
    <3> QED
      BY <3>2 DEF IsRaw
  <2>4. Covered(y)' <=> y.src < next + 1
    BY <1>1, <2>1, Sizes DEF Covered
  <2>5. Covered(y) <=> y.src < next
    BY <1>1, <2>1 DEF Covered
  <2> QED
    BY <1>1, <1>2, <2>1, <2>3, <2>4, <2>5
<1> QED
  BY <1>3, <1>4, <1>5, <1>6, <1>7, <1>8

LEMMA FlushCovers ==
  ASSUME IInv, NEW t \in DecodedTopics, Flush(t),
         NEW u \in Streams, NEW y \in Expected[u]
  PROVE  Covered(y)' <=> Covered(y) \/ (u = t /\ y.src = Len(Bag) + 1)
<1> USE DEF IInv, Types, Flush
<1>1. /\ main = "flush" /\ main' = main /\ next' = next /\ next = Len(Bag) + 1
      /\ flushed' = flushed \cup {t}
  OBVIOUS
<1>2. y.stream = u /\ y.src \in 1..Len(Bag) + 1
  BY OwedFields
<1> QED
  BY <1>1, <1>2, Sizes DEF Covered

LEMMA FlushWrites ==
  ASSUME IInv, NEW t \in DecodedTopics, Flush(t), t \in Trailing
  PROVE  LET x == TrailItem(t, MessagesOf(t))
         IN  /\ x \in Expected[t] /\ x \in Item /\ Put(x) /\ ~Covered(x)
             /\ \A y \in Expected[t] : Before(y, x) => Covered(y)
             /\ \A u \in Streams : \A y \in Expected[u] : Covered(y)' <=> Covered(y) \/ y = x
<1> DEFINE x == TrailItem(t, MessagesOf(t))
<1> USE DEF IInv, Types, Flush
<1>1. /\ main = "flush" /\ next = Len(Bag) + 1 /\ t \notin flushed
      /\ t \in Streams /\ t \notin Passthrough
  BY Sizes
<1>2. x.src = Len(Bag) + 1 /\ x.nth = 1 /\ x.stream = t
  BY DEF TrailItem
<1>3. x \in Expected[t]
  BY TrailIsOwed
<1>4. x \in Item
  BY <1>1, Sizes DEF TrailItem, Item, MessagesOf
<1>5. Put(x)
  <2>1. fed[t] = {m \in MessagesOf(t) : Reached(m)}
    BY <1>1 DEF FedInv, Live
  <2>2. ASSUME NEW m \in MessagesOf(t) PROVE Reached(m)
    <3>1. m \in 1..Len(Bag)
      BY Sizes DEF MessagesOf
    <3> QED
      BY <1>1, <3>1, Sizes DEF Reached
  <2>3. fed[t] = MessagesOf(t)
    BY <2>1, <2>2
  <2> QED
    BY <2>3
<1>6. ~Covered(x)
  BY <1>1, <1>2, Sizes DEF Covered
<1>7. ASSUME NEW u \in Streams, NEW y \in Expected[u], u = t /\ y.src = Len(Bag) + 1
      PROVE  y = x
  <2>1. ~IsCloud(t, y) /\ ~IsRaw(t, y)
    BY <1>7, Sizes DEF IsCloud, IsRaw, MessagesOf
  <2>2. IsTrail(t, y)
    BY <1>7, <2>1, OwedShapes
  <2> QED
    BY <2>2 DEF IsTrail
<1>8. ASSUME NEW y \in Expected[t], Before(y, x) PROVE Covered(y)
  <2>1. y.src \in 1..Len(Bag) + 1 /\ y.nth \in Nat
    BY <1>1, OwedFields
  <2>2. y # x
    BY <1>2, <1>8 DEF Before
  <2>3. y.src # Len(Bag) + 1
    BY <1>1, <1>7, <2>2
  <2> QED
    BY <1>1, <2>1, <2>3, Sizes DEF Covered
<1>9. ASSUME NEW u \in Streams, NEW y \in Expected[u]
      PROVE  Covered(y)' <=> Covered(y) \/ y = x
  <2>1. Covered(y)' <=> Covered(y) \/ (u = t /\ y.src = Len(Bag) + 1)
    BY FlushCovers
  <2>2. y = x => u = t /\ y.src = Len(Bag) + 1
    BY <1>2, OwedFields
  <2> QED
    BY <1>7, <2>1, <2>2
<1> QED
  BY <1>3, <1>4, <1>5, <1>6, <1>8, <1>9

-----------------------------------------------------------------------------
(* The invariant is inductive, one action at a time.                        *)

LEMMA StepKeepsTypes ==
  ASSUME IInv, [Next]_vars
  PROVE  Types'
<1> USE Sizes DEF IInv, Types, counts
<1>1. CASE Feed
  BY <1>1 DEF Feed
<1>2. CASE Emit
  BY <1>2 DEF Emit, CloudRemains
<1>3. CASE FinishMessage
  BY <1>3 DEF FinishMessage
<1>4. CASE Copy
  BY <1>4 DEF Copy
<1>5. CASE Skip
  BY <1>5 DEF Skip
<1>6. CASE EndOfInput
  BY <1>6 DEF EndOfInput
<1>7. ASSUME NEW t \in DecodedTopics, Flush(t) PROVE Types'
  BY <1>7 DEF Flush
<1>8. CASE Return
  BY <1>8 DEF Return
<1>9. CASE Throw
  BY <1>9 DEF Throw
<1>10. CASE Unwind
  BY <1>10 DEF Unwind
<1>11. CASE UNCHANGED vars
  BY <1>11 DEF vars
<1> QED
  BY <1>1, <1>2, <1>3, <1>4, <1>5, <1>6, <1>7, <1>8, <1>9, <1>10, <1>11 DEF Next, Stopped

(* A step that leaves the bag, the decoders and the counts alone.           *)
LEMMA NothingMoves ==
  ASSUME DataTypes, UNCHANGED <<counts, fed, written>>
  PROVE  DataTypes'
BY DEF DataTypes, counts

LEMMA StepKeepsData ==
  ASSUME IInv, [Next]_vars
  PROVE  DataTypes'
<1> USE DEF IInv
<1>1. CASE Feed
  <2>1. next \in Messages /\ Bag[next] \in DecodedTopics
    BY <1>1 DEF Feed
  <2>2. packets' \in [DecodedTopics -> Nat] /\ advanced' \in Nat
    BY <1>1, <2>1 DEF Feed, DataTypes
  <2>3. fed' \in [DecodedTopics -> SUBSET Messages]
    BY <1>1, <2>1 DEF Feed, DataTypes
  <2> QED
    BY <1>1, <2>2, <2>3 DEF Feed, DataTypes
<1>2. CASE Emit
  <2>1. Live /\ next \in Messages /\ Bag[next] \in DecodedTopics /\ Bag[next] \in Streams
    BY <1>2, Sizes DEF Emit, Live, Types
  <2>2. written' \in [Streams -> Seq(Item)]
    BY <1>2, <2>1, EmitWrites, PutKeepsWritten
  <2>3. clouds_produced' \in [DecodedTopics -> Nat]
    BY <1>2, <2>1 DEF Emit, DataTypes
  <2> QED
    BY <1>2, <2>2, <2>3 DEF Emit, DataTypes
<1>3. CASE FinishMessage
  BY <1>3, NothingMoves DEF FinishMessage
<1>4. CASE Copy
  <2>1. Live /\ next \in Messages /\ Bag[next] \in Streams
    BY <1>4, Sizes DEF Copy, Live, Types
  <2>2. written' \in [Streams -> Seq(Item)]
    BY <1>4, <2>1, CopyWrites, PutKeepsWritten
  <2> QED
    BY <1>4, <2>2 DEF Copy, DataTypes, counts
<1>5. CASE Skip
  BY <1>5, NothingMoves DEF Skip
<1>6. CASE EndOfInput
  BY <1>6, NothingMoves DEF EndOfInput
<1>7. ASSUME NEW t \in DecodedTopics, Flush(t) PROVE DataTypes'
  <2>1. CASE t \in Trailing
    <3>1. Live /\ t \in Streams
      BY <1>7, Sizes DEF Flush, Live, Types
    <3>2. written' \in [Streams -> Seq(Item)]
      BY <1>7, <2>1, <3>1, FlushWrites, PutKeepsWritten
    <3>3. clouds_produced' \in [DecodedTopics -> Nat]
      BY <1>7, <2>1 DEF Flush, DataTypes
    <3> QED
      BY <1>7, <3>2, <3>3 DEF Flush, DataTypes
  <2>2. CASE t \notin Trailing
    BY <1>7, <2>2 DEF Flush, DataTypes
  <2> QED
    BY <2>1, <2>2
<1>8. CASE Return
  BY <1>8, NothingMoves DEF Return
<1>9. CASE Throw
  BY <1>9, NothingMoves DEF Throw
<1>10. CASE Unwind
  BY <1>10, NothingMoves DEF Unwind
<1>11. CASE UNCHANGED vars
  BY <1>11, NothingMoves DEF vars
<1> QED
  BY <1>1, <1>2, <1>3, <1>4, <1>5, <1>6, <1>7, <1>8, <1>9, <1>10, <1>11 DEF Next, Stopped

(* fed changes only in Feed; elsewhere what counts as reached must not.     *)
LEMMA FedStays ==
  ASSUME IInv, Live, UNCHANGED fed,
         \A t \in DecodedTopics : \A m \in MessagesOf(t) : Reached(m)' <=> Reached(m)
  PROVE  FedInv'
BY DEF IInv, FedInv

LEMMA StepKeepsFed ==
  ASSUME IInv, [Next]_vars
  PROVE  FedInv'
<1> USE DEF IInv
<1>0. ASSUME NEW t \in DecodedTopics, NEW m \in MessagesOf(t)
      PROVE  m \in 1..Len(Bag) /\ m \in Messages /\ Bag[m] = t
  BY Sizes DEF MessagesOf
<1>1. CASE Feed
  <2> DEFINE d == Bag[next]
  <2>1. /\ main = "read" /\ main' = "decode" /\ next' = next
        /\ next \in Messages /\ d \in DecodedTopics /\ next \in MessagesOf(d) /\ Live
        /\ fed' = [fed EXCEPT ![d] = @ \cup {next}]
    BY <1>1 DEF Feed, Live, MessagesOf
  <2>2. ASSUME NEW t \in DecodedTopics
        PROVE  fed'[t] = {m \in MessagesOf(t) : Reached(m)'}
    <3>1. fed[t] = {m \in MessagesOf(t) : m < next}
      BY <2>1 DEF FedInv, Reached
    <3>2. \A m \in MessagesOf(t) : Reached(m)' <=> (m < next \/ m = next)
      BY <2>1 DEF Reached
    <3>3. CASE t = d
      <4>1. fed'[t] = fed[t] \cup {next}
        BY <2>1, <3>3 DEF DataTypes
      <4> QED
        BY <2>1, <3>1, <3>2, <3>3, <4>1
    <3>4. CASE t # d
      <4>1. fed'[t] = fed[t]
        BY <2>1, <3>4 DEF DataTypes
      <4>2. \A m \in MessagesOf(t) : m # next
        BY <1>0, <3>4
      <4> QED
        BY <3>1, <3>2, <4>1, <4>2
    <3> QED
      BY <3>3, <3>4
  <2> QED
    BY <2>2 DEF FedInv
<1>2. CASE Emit
  BY <1>2, FedStays DEF Emit, Live, Reached
<1>3. CASE FinishMessage
  <2>1. /\ main = "decode" /\ main' = "read" /\ next' = next + 1
        /\ next \in 1..Len(Bag) + 1 /\ Live /\ fed' = fed
    BY <1>3 DEF FinishMessage, Live, Types
  <2>2. ASSUME NEW t \in DecodedTopics, NEW m \in MessagesOf(t)
        PROVE  Reached(m)' <=> Reached(m)
    BY <1>0, <2>1, Sizes DEF Reached
  <2> QED
    BY <2>1, <2>2, FedStays
<1>4. CASE Copy
  <2>1. /\ main = "read" /\ main' = main /\ next' = next + 1 /\ Bag[next] \notin DecodedTopics
        /\ next \in 1..Len(Bag) + 1 /\ Live /\ fed' = fed
    BY <1>4, Sizes DEF Copy, Live, Types
  <2>2. ASSUME NEW t \in DecodedTopics, NEW m \in MessagesOf(t)
        PROVE  Reached(m)' <=> Reached(m)
    <3>1. m # next
      BY <1>0, <2>1
    <3> QED
      BY <1>0, <2>1, <3>1, Sizes DEF Reached
  <2> QED
    BY <2>1, <2>2, FedStays
<1>5. CASE Skip
  <2>1. /\ main = "read" /\ main' = main /\ next' = next + 1 /\ Bag[next] \notin DecodedTopics
        /\ next \in 1..Len(Bag) + 1 /\ Live /\ fed' = fed
    BY <1>5, Sizes DEF Skip, Live, Types
  <2>2. ASSUME NEW t \in DecodedTopics, NEW m \in MessagesOf(t)
        PROVE  Reached(m)' <=> Reached(m)
    <3>1. m # next
      BY <1>0, <2>1
    <3> QED
      BY <1>0, <2>1, <3>1, Sizes DEF Reached
  <2> QED
    BY <2>1, <2>2, FedStays
<1>6. CASE EndOfInput
  BY <1>6, FedStays DEF EndOfInput, Live, Reached
<1>7. ASSUME NEW t \in DecodedTopics, Flush(t) PROVE FedInv'
  BY <1>7, FedStays DEF Flush, Live, Reached
<1>8. CASE Return
  BY <1>8, FedStays DEF Return, Live, Reached
<1>9. CASE Throw
  BY <1>9 DEF Throw, FedInv, Live
<1>10. CASE Unwind
  BY <1>10 DEF Unwind, FedInv, Live
<1>11. CASE UNCHANGED vars
  BY <1>11 DEF vars, FedInv, Live, Reached
<1> QED
  BY <1>1, <1>2, <1>3, <1>4, <1>5, <1>6, <1>7, <1>8, <1>9, <1>10, <1>11 DEF Next, Stopped

LEMMA StepKeepsWritten ==
  ASSUME IInv, [Next]_vars
  PROVE  WrittenInv'
<1> USE DEF IInv
<1>0. ASSUME NEW u \in Streams, NEW y \in Expected[u]
      PROVE  /\ y.nth \in Nat /\ y.src \in 1..Len(Bag) + 1
             /\ y.src # Len(Bag) + 1 => y.src \in Messages /\ Bag[y.src] = u
             /\ y.src # Len(Bag) + 1 /\ u \in DecodedTopics =>
                  y.nth \in 1..Clouds[y.src]
  <2>1. y.src # Len(Bag) + 1 /\ u \in DecodedTopics => IsCloud(u, y)
    BY OwedShapes, Sizes DEF IsRaw, IsTrail, TrailItem
  <2> QED
    BY <2>1, OwedFields DEF IsCloud
<1>1. CASE Feed
  <2>1. /\ main = "read" /\ main' = "decode" /\ next' = next /\ nth' = 0
        /\ next \in Messages /\ Bag[next] \in DecodedTopics /\ Live
        /\ flushed' = flushed /\ flushed = {} /\ written' = written
    BY <1>1 DEF Feed, Live, Types
  <2>2. ASSUME NEW u \in Streams, NEW y \in Expected[u]
        PROVE  Covered(y)' <=> Covered(y)
    <3>1. y.src = next => y.nth # 0
      BY <1>0, <2>1, Sizes
    <3> QED
      BY <1>0, <2>1, <3>1 DEF Covered
  <2> QED
    BY <2>1, <2>2, QuietKeepsWritten
<1>2. CASE Emit
  <2>1. Live /\ Bag[next] \in Streams
    BY <1>2, Sizes DEF Emit, Live, Types
  <2> QED
    BY <1>2, <2>1, EmitWrites, PutKeepsWritten DEF WrittenInv
<1>3. CASE FinishMessage
  <2>1. /\ main = "decode" /\ main' = "read" /\ next' = next + 1 /\ Live
        /\ next \in Messages /\ Bag[next] \in DecodedTopics
        /\ nth \in Nat /\ ~(nth < Clouds[next]) /\ Clouds[next] \in Nat
        /\ flushed' = flushed /\ flushed = {} /\ written' = written
    BY <1>3, Sizes DEF FinishMessage, Live, Types, CloudRemains
  <2>2. ASSUME NEW u \in Streams, NEW y \in Expected[u]
        PROVE  Covered(y)' <=> Covered(y)
    <3>1. y.src = next => y.nth <= nth
      BY <1>0, <2>1, Sizes
    <3> QED
      BY <1>0, <2>1, <3>1, Sizes DEF Covered
  <2> QED
    BY <2>1, <2>2, QuietKeepsWritten
<1>4. CASE Copy
  <2>1. Live /\ Bag[next] \in Streams
    BY <1>4, Sizes DEF Copy, Live, Types
  <2> QED
    BY <1>4, <2>1, CopyWrites, PutKeepsWritten DEF WrittenInv
<1>5. CASE Skip
  <2>1. /\ main = "read" /\ main' = main /\ next' = next + 1 /\ Live
        /\ next \in Messages /\ Bag[next] \notin Streams
        /\ flushed' = flushed /\ flushed = {} /\ written' = written
    BY <1>5 DEF Skip, Live, Types
  <2>2. ASSUME NEW u \in Streams, NEW y \in Expected[u]
        PROVE  Covered(y)' <=> Covered(y)
    <3>1. y.src # next
      BY <1>0, <2>1, Sizes
    <3> QED
      BY <1>0, <2>1, <3>1, Sizes DEF Covered
  <2> QED
    BY <2>1, <2>2, QuietKeepsWritten
<1>6. CASE EndOfInput
  BY <1>6, QuietKeepsWritten DEF EndOfInput, Live, Covered
<1>7. ASSUME NEW t \in DecodedTopics, Flush(t) PROVE WrittenInv'
  <2>1. Live /\ t \in Streams
    BY <1>7, Sizes DEF Flush, Live
  <2>2. CASE t \in Trailing
    BY <1>7, <2>1, <2>2, FlushWrites, PutKeepsWritten DEF WrittenInv
  <2>3. CASE t \notin Trailing
    <3>1. ASSUME NEW u \in Streams, NEW y \in Expected[u]
          PROVE  ~(u = t /\ y.src = Len(Bag) + 1)
      <4> SUFFICES ASSUME u = t, y.src = Len(Bag) + 1 PROVE FALSE
        OBVIOUS
      <4>1. y.src \notin MessagesOf(u)
        BY Sizes DEF MessagesOf
      <4> QED
        BY <2>3, <4>1, OwedShapes DEF IsRaw, IsCloud, IsTrail
    <3>2. written' = written
      BY <1>7, <2>3 DEF Flush
    <3> QED
      BY <1>7, <2>1, <3>1, <3>2, FlushCovers, QuietKeepsWritten
  <2> QED
    BY <2>2, <2>3
<1>8. CASE Return
  BY <1>8, QuietKeepsWritten DEF Return, Live, Covered
<1>9. CASE Throw
  BY <1>9 DEF Throw, WrittenInv, Live
<1>10. CASE Unwind
  BY <1>10 DEF Unwind, WrittenInv, Live
<1>11. CASE UNCHANGED vars
  BY <1>11 DEF vars, WrittenInv, Live, Covered
<1> QED
  BY <1>1, <1>2, <1>3, <1>4, <1>5, <1>6, <1>7, <1>8, <1>9, <1>10, <1>11 DEF Next, Stopped

LEMMA InvariantHolds == Spec => []IInv
<1>1. IInv /\ [Next]_vars => IInv'
  BY StepKeepsTypes, StepKeepsData, StepKeepsFed, StepKeepsWritten DEF IInv
<1> QED
  BY <1>1, InitHolds, PTL DEF Spec

-----------------------------------------------------------------------------
(* The refinement.  ConvertContract's operators over the constants are the  *)
(* ones of BagStream under other names.                                     *)

LEMMA SameStreams ==
  /\ Contract!Streams = Streams /\ Contract!Expected = Expected
  /\ \A x, y : Contract!Before(x, y) <=> Before(x, y)
  /\ \A q : Contract!Items(q) = Items(q)
<1>1. Contract!DecodedTopics = DecodedTopics /\ Contract!Messages = Messages
  BY DEF Contract!DecodedTopics, DecodedTopics, Contract!Messages, Messages
<1>2. \A t : Contract!MessagesOf(t) = MessagesOf(t)
  BY <1>1 DEF Contract!MessagesOf, MessagesOf
<1>3. Contract!Streams = Streams
  BY <1>1 DEF Contract!Streams, Streams
<1>4. \A m : Contract!UpTo(m) = UpTo(m) /\ Contract!RawItem(m) = RawItem(m)
  BY <1>2 DEF Contract!UpTo, UpTo, Contract!RawItem, RawItem
<1>5. \A m, k, f : Contract!CloudItem(m, k, f) = CloudItem(m, k, f)
  BY DEF Contract!CloudItem, CloudItem
<1>6. \A t, f : Contract!TrailItem(t, f) = TrailItem(t, f)
  BY DEF Contract!TrailItem, TrailItem
<1>7. \A t : Contract!CloudsOwed(t) = CloudsOwed(t)
  BY <1>2, <1>4, <1>5 DEF Contract!CloudsOwed, CloudsOwed
<1>8. \A t : Contract!TrailOwed(t) = TrailOwed(t)
  BY <1>2, <1>6 DEF Contract!TrailOwed, TrailOwed
<1>9. Contract!Expected = Expected
  BY <1>2, <1>3, <1>4, <1>7, <1>8 DEF Contract!Expected, Expected
<1> QED
  BY <1>3, <1>9 DEF Contract!Before, Before, Contract!Items, Items

(* Writing the next owed item is what the contract calls Write.             *)
LEMMA WriteStep ==
  ASSUME IInv, main \in {"read", "decode", "flush"}, main' = main,
         NEW s \in Streams, NEW x \in Expected[s], Put(x), ~Covered(x),
         \A y \in Expected[s] : Before(y, x) => Covered(y)
  PROVE  Contract!Next
<1>1. Items(written[s]) = {y \in Expected[s] : Covered(y)}
  BY DEF IInv, WrittenInv, Live
<1>2. x.stream = s
  BY OwedFields
<1>3. Contract!NextOwed(s, x)
  BY <1>1, SameStreams DEF Contract!NextOwed
<1>4. written' = [written EXCEPT ![s] = Append(@, x)]
  BY <1>2 DEF Put
<1>5. Contract!Write(s)
  BY <1>3, <1>4, SameStreams DEF Contract!Write, Ended
<1> QED
  BY <1>5, SameStreams DEF Contract!Next

(* At the end of the flush loop nothing is owed any more.                   *)
LEMMA ReturnIsComplete ==
  ASSUME IInv, Return
  PROVE  \A s \in Streams : Expected[s] \subseteq Items(written[s])
<1>1. main = "flush" /\ flushed = DecodedTopics /\ next = Len(Bag) + 1 /\ Live
  BY DEF Return, IInv, Types, Live
<1>2. ASSUME NEW s \in Streams, NEW y \in Expected[s]
      PROVE  Covered(y)
  <2>1. y.src \in 1..Len(Bag) + 1 /\ y.stream = s
    BY <1>2, OwedFields
  <2>2. CASE y.src = Len(Bag) + 1
    <3>1. y.src \notin MessagesOf(s)
      BY <2>2, Sizes DEF MessagesOf
    <3>2. s \in DecodedTopics
      BY <1>2, <3>1, OwedShapes DEF IsRaw, IsCloud, IsTrail
    <3> QED
      BY <1>1, <2>1, <2>2, <3>2 DEF Covered
  <2>3. CASE y.src # Len(Bag) + 1
    BY <1>1, <2>1, <2>3, Sizes DEF Covered
  <2> QED
    BY <2>2, <2>3
<1> QED
  BY <1>1, <1>2 DEF IInv, WrittenInv

LEMMA StepImplements ==
  ASSUME IInv, [Next]_vars
  PROVE  [Contract!Next]_(Contract!contractVars)
<1> USE DEF Ended
<1>0. ASSUME UNCHANGED written, main \in {"read", "decode", "flush"},
             main' \in {"read", "decode", "flush"}
      PROVE  UNCHANGED Contract!contractVars
  BY <1>0 DEF Contract!contractVars
<1>1. CASE Feed
  BY <1>0, <1>1 DEF Feed
<1>2. CASE Emit
  <2>1. Bag[next] \in Streams /\ main = "decode" /\ main' = main
    BY <1>2, Sizes DEF Emit, IInv, Types
  <2> QED
    BY <1>2, <2>1, EmitWrites, WriteStep
<1>3. CASE FinishMessage
  BY <1>0, <1>3 DEF FinishMessage
<1>4. CASE Copy
  <2>1. Bag[next] \in Streams /\ main = "read" /\ main' = main
    BY <1>4, Sizes DEF Copy
  <2> QED
    BY <1>4, <2>1, CopyWrites, WriteStep
<1>5. CASE Skip
  BY <1>0, <1>5 DEF Skip
<1>6. CASE EndOfInput
  BY <1>0, <1>6 DEF EndOfInput
<1>7. ASSUME NEW t \in DecodedTopics, Flush(t)
      PROVE  [Contract!Next]_(Contract!contractVars)
  <2>1. t \in Streams /\ main = "flush" /\ main' = main
    BY <1>7, Sizes DEF Flush
  <2>2. CASE t \in Trailing
    BY <1>7, <2>1, <2>2, FlushWrites, WriteStep
  <2>3. CASE t \notin Trailing
    BY <1>0, <1>7, <2>1, <2>3 DEF Flush
  <2> QED
    BY <2>2, <2>3
<1>8. CASE Return
  <2>1. Contract!Return
    BY <1>8, ReturnIsComplete, SameStreams DEF Return, Contract!Return
  <2> QED
    BY <2>1 DEF Contract!Next
<1>9. CASE Throw
  <2>1. main \in {"read", "decode", "flush"}
    BY <1>9 DEF Throw, AboutToWrite
  <2>2. Contract!Fault
    BY <1>9, <2>1 DEF Throw, Contract!Fault
  <2> QED
    BY <2>2 DEF Contract!Next
<1>10. CASE Unwind
  <2>1. Contract!Fail
    BY <1>10 DEF Unwind, Contract!Fail
  <2> QED
    BY <2>1 DEF Contract!Next
<1>11. CASE UNCHANGED vars
  BY <1>11 DEF vars, Contract!contractVars
<1> QED
  BY <1>1, <1>2, <1>3, <1>4, <1>5, <1>6, <1>7, <1>8, <1>9, <1>10, <1>11 DEF Next, Stopped

(* run_convert_sequential keeps the promise of convert() on every bag: each *)
(* stream grows by exactly the next item it is owed, the call returns only  *)
(* with every stream complete, trailing scans included, and throws only     *)
(* after a failure.                                                         *)
THEOREM SequentialImplements == Spec => ImplementsContract
<1>1. Init => Contract!Init
  BY SameStreams DEF Init, Contract!Init, Ended
<1>2. IInv /\ [Next]_vars => [Contract!Next]_(Contract!contractVars)
  BY StepImplements
<1> QED
  BY <1>1, <1>2, InvariantHolds, PTL DEF Spec, ImplementsContract, Contract!Spec

-----------------------------------------------------------------------------
(* The output itself: what the contract leaves of it is a single bag.       *)

(* Before orders what a stream is owed.                                     *)
LEMMA OwedOrder ==
  ASSUME NEW s \in Streams, NEW x \in Expected[s], NEW y \in Expected[s]
  PROVE  /\ x = y \/ Before(x, y) \/ Before(y, x)
         /\ ~(Before(x, y) /\ Before(y, x))
<1>1. /\ x.src \in Nat /\ y.src \in Nat /\ x.nth \in Nat /\ y.nth \in Nat
  <2>1. x.src \in 1..Len(Bag) + 1 /\ y.src \in 1..Len(Bag) + 1 /\ x.nth \in Nat /\ y.nth \in Nat
    BY OwedFields
  <2> QED
    BY <2>1
<1>2. x.src = y.src /\ x.nth = y.nth => x = y
  BY OwedOnce
<1> QED
  BY <1>1, <1>2 DEF Before

(* An item's place in a listing is the number of items owed before it.      *)
LEMMA PlaceInListing ==
  ASSUME NEW s \in Streams, NEW q \in Seq(Expected[s]), Listing(q, s), NEW i \in 1..Len(q)
  PROVE  Cardinality({y \in Expected[s] : Before(y, q[i])}) = i - 1
<1> DEFINE P == {y \in Expected[s] : Before(y, q[i])}
           f == [j \in 1..i - 1 |-> q[j]]
<1>0. Len(q) \in Nat /\ i \in Nat /\ i - 1 \in Nat /\ \A j \in 1..i - 1 : j \in 1..Len(q) /\ j < i
  OBVIOUS
<1>1. \A j \in 1..Len(q) : q[j] \in Expected[s]
  OBVIOUS
<1>2. \A j, k \in 1..Len(q) : j < k => Before(q[j], q[k])
  BY DEF Listing
<1>3. \A j, k \in 1..Len(q) : Before(q[j], q[k]) => j < k
  <2> SUFFICES ASSUME NEW j \in 1..Len(q), NEW k \in 1..Len(q), Before(q[j], q[k]) PROVE j < k
    OBVIOUS
  <2>1. ~Before(q[k], q[j]) /\ q[j] \in Expected[s] /\ q[k] \in Expected[s]
    BY <1>1, OwedOrder
  <2>2. j # k
    BY <2>1
  <2> QED
    BY <1>2, <2>1, <2>2
<1>4. \A y \in P : \E j \in 1..i - 1 : y = q[j]
  <2> SUFFICES ASSUME NEW y \in P PROVE \E j \in 1..i - 1 : y = q[j]
    OBVIOUS
  <2>1. PICK j \in 1..Len(q) : y = q[j]
    BY DEF Listing, Items
  <2>2. j < i
    BY <1>3, <2>1
  <2> QED
    BY <2>1, <2>2
<1>5. \A j \in 1..i - 1 : q[j] \in P
  BY <1>0, <1>1, <1>2
<1>6. \A j, k \in 1..i - 1 : q[j] = q[k] => j = k
  <2> SUFFICES ASSUME NEW j \in 1..i - 1, NEW k \in 1..i - 1, q[j] = q[k], j # k PROVE FALSE
    OBVIOUS
  <2>1. Before(q[j], q[k]) \/ Before(q[k], q[j])
    BY <1>0, <1>2
  <2>2. Before(q[j], q[j])
    BY <2>1
  <2> QED
    BY <1>0, <1>1, <2>2, OwedOrder
<1>7. f \in Surjection(1..i - 1, P) /\ f \in Injection(1..i - 1, P)
  BY <1>4, <1>5, <1>6 DEF Surjection, Injection, IsInjective
<1>8. IsFiniteSet(1..i - 1) /\ Cardinality(1..i - 1) = i - 1
  <2>1. PICK k \in Nat : k = i - 1
    BY <1>0
  <2>2. k \in Int /\ 1 \in Int /\ IsFiniteSet(1..k)
    BY FS_Interval
  <2>3. Cardinality(1..k) = IF 1 > k THEN 0 ELSE k - 1 + 1
    BY <2>2, FS_Interval
  <2> QED
    BY <2>1, <2>2, <2>3
<1> HIDE DEF f, P
<1>9. Cardinality(P) = i - 1
  BY <1>7, <1>8, FS_Surjection
<1> QED
  BY <1>9 DEF P

(* So there is one listing at most.                                         *)
LEMMA ListingsAgree ==
  ASSUME NEW s \in Streams, NEW q \in Seq(Expected[s]), Listing(q, s),
         NEW r \in Seq(Expected[s]), Listing(r, s)
  PROVE  q = r
<1>1. \A i \in 1..Len(q) : i \in 1..Len(r) /\ q[i] = r[i]
  <2> SUFFICES ASSUME NEW i \in 1..Len(q) PROVE i \in 1..Len(r) /\ q[i] = r[i]
    OBVIOUS
  <2>1. PICK j \in 1..Len(r) : r[j] = q[i]
    BY DEF Listing, Items
  <2>2. Cardinality({y \in Expected[s] : Before(y, q[i])}) = i - 1
    BY PlaceInListing
  <2>3. Cardinality({y \in Expected[s] : Before(y, r[j])}) = j - 1
    BY PlaceInListing
  <2>4. i = j
    BY <2>1, <2>2, <2>3
  <2> QED
    BY <2>1, <2>4
<1>2. \A i \in 1..Len(r) : i \in 1..Len(q)
  <2> SUFFICES ASSUME NEW i \in 1..Len(r) PROVE i \in 1..Len(q)
    OBVIOUS
  <2>1. PICK j \in 1..Len(q) : q[j] = r[i]
    BY DEF Listing, Items
  <2>2. Cardinality({y \in Expected[s] : Before(y, r[i])}) = i - 1
    BY PlaceInListing
  <2>3. Cardinality({y \in Expected[s] : Before(y, q[j])}) = j - 1
    BY PlaceInListing
  <2>4. i = j
    BY <2>1, <2>2, <2>3
  <2> QED
    BY <2>4
<1>3. Len(q) = Len(r)
  <2>1. Len(q) \in Nat /\ Len(r) \in Nat
    OBVIOUS
  <2>2. Len(q) > 0 => Len(q) \in 1..Len(r)
    BY <1>1, <2>1
  <2>3. Len(r) > 0 => Len(r) \in 1..Len(q)
    BY <1>2, <2>1
  <2> QED
    BY <2>1, <2>2, <2>3
<1> QED
  BY <1>1, <1>3

(* At any time a stream is a beginning of its listing.                      *)
OutputInv ==
  /\ written \in [Streams -> Seq(Item)]
  /\ \A s \in Streams :
       /\ Items(written[s]) \subseteq Expected[s]
       /\ \A y \in Items(written[s]), z \in Expected[s] : Before(z, y) => z \in Items(written[s])
       /\ \A i, j \in 1..Len(written[s]) : i < j => Before(written[s][i], written[s][j])
  /\ main = "returned" => \A s \in Streams : Expected[s] \subseteq Items(written[s])

LEMMA OutputStep ==
  ASSUME OutputInv, [Contract!Next]_(Contract!contractVars), written' \in [Streams -> Seq(Item)]
  PROVE  OutputInv'
<1>1. CASE UNCHANGED Contract!contractVars
  <2>1. written' = written /\ (main' = "returned" => main = "returned")
    BY <1>1 DEF Contract!contractVars, Ended
  <2> QED
    BY <2>1 DEF OutputInv
<1>2. ASSUME NEW t \in Streams, Contract!Write(t) PROVE OutputInv'
  <2>1. PICK x \in Expected[t] :
          /\ written' = [written EXCEPT ![t] = Append(@, x)]
          /\ x \notin Items(written[t])
          /\ \A y \in Expected[t] : Before(y, x) => y \in Items(written[t])
    BY <1>2, SameStreams DEF Contract!Write, Contract!NextOwed
  <2>2. main' # "returned"
    BY <1>2 DEF Contract!Write, Ended
  <2>3. PICK q : q = written[t]
    OBVIOUS
  <2>4. /\ \A s \in Streams : s # t => written'[s] = written[s]
        /\ written'[t] = Append(q, x) /\ q \in Seq(Item)
    BY <2>1, <2>3 DEF OutputInv
  <2>5. /\ Items(q) \subseteq Expected[t] /\ x \notin Items(q)
        /\ \A y \in Items(q), z \in Expected[t] : Before(z, y) => z \in Items(q)
        /\ \A y \in Expected[t] : Before(y, x) => y \in Items(q)
        /\ \A i, j \in 1..Len(q) : i < j => Before(q[i], q[j])
    BY <2>1, <2>3 DEF OutputInv
  <2>6. \A y \in Items(q) : Before(y, x)
    BY <2>5, OwedOrder
  <2>7. /\ Len(Append(q, x)) = Len(q) + 1 /\ Len(q) \in Nat /\ Append(q, x)[Len(q) + 1] = x
        /\ \A i \in 1..Len(q) : Append(q, x)[i] = q[i] /\ q[i] \in Items(q)
    BY <2>4 DEF Items
  <2>8. Items(Append(q, x)) = Items(q) \cup {x}
    <3>1. 1..Len(q) + 1 = 1..Len(q) \cup {Len(q) + 1}
      BY <2>7
    <3> QED
      BY <2>7, <3>1 DEF Items
  <2>9. ASSUME NEW i \in 1..Len(q) + 1, NEW j \in 1..Len(q) + 1, i < j
        PROVE  Before(Append(q, x)[i], Append(q, x)[j])
    <3>1. i \in 1..Len(q)
      BY <2>7, <2>9
    <3>2. CASE j = Len(q) + 1
      BY <2>6, <2>7, <3>1, <3>2
    <3>3. CASE j \in 1..Len(q)
      BY <2>5, <2>7, <2>9, <3>1, <3>3
    <3> QED
      BY <2>7, <3>2, <3>3
  <2>10. /\ Items(Append(q, x)) \subseteq Expected[t]
         /\ \A y \in Items(Append(q, x)), z \in Expected[t] :
              Before(z, y) => z \in Items(Append(q, x))
    BY <2>5, <2>8
  <2>11. ASSUME NEW s \in Streams
         PROVE  /\ Items(written'[s]) \subseteq Expected[s]
                /\ \A y \in Items(written'[s]), z \in Expected[s] :
                     Before(z, y) => z \in Items(written'[s])
                /\ \A i, j \in 1..Len(written'[s]) :
                     i < j => Before(written'[s][i], written'[s][j])
    <3>1. CASE s = t
      BY <2>4, <2>7, <2>9, <2>10, <3>1
    <3>2. CASE s # t
      BY <2>4, <3>2 DEF OutputInv
    <3> QED
      BY <3>1, <3>2
  <2> QED
    BY <2>2, <2>11 DEF OutputInv
<1>3. CASE Contract!Fault \/ Contract!Fail
  <2>1. written' = written /\ main' # "returned"
    BY <1>3 DEF Contract!Fault, Contract!Fail, Ended
  <2> QED
    BY <2>1 DEF OutputInv
<1>4. CASE Contract!Return
  <2>1. written' = written /\ \A s \in Streams : Expected[s] \subseteq Items(written[s])
    BY <1>4, SameStreams DEF Contract!Return
  <2> QED
    BY <2>1 DEF OutputInv
<1> QED
  BY <1>1, <1>2, <1>3, <1>4, SameStreams DEF Contract!Next

(* A stream that holds all it is owed is the stream the bag determines.     *)
LEMMA CompleteIsOutput ==
  ASSUME OutputInv, main = "returned", NEW s \in Streams
  PROVE  written[s] = Output(s)
<1>1. PICK q \in Seq(Item) : q = written[s]
  BY DEF OutputInv
<1>2. Items(q) = Expected[s]
  BY <1>1 DEF OutputInv
<1>3. q \in Seq(Expected[s])
  BY <1>2 DEF Items
<1>4. Listing(q, s)
  BY <1>1, <1>2 DEF OutputInv, Listing
<1>5. PICK r : r = CHOOSE o \in Seq(Expected[s]) : Listing(o, s)
  OBVIOUS
<1>6. r \in Seq(Expected[s]) /\ Listing(r, s)
  BY <1>3, <1>4, <1>5
<1>7. q = r
  BY <1>3, <1>4, <1>6, ListingsAgree
<1> QED
  BY <1>1, <1>5, <1>7 DEF Output

(* The bag determines the output of a successful call, and it is the one    *)
(* the pipeline writes (ParallelConvertProofs): the order in which the      *)
(* topics are flushed shows in none of them.                                *)
THEOREM OutputIsDetermined ==
  Spec => [](main = "returned" => \A s \in Streams : written[s] = Output(s))
<1>1. Init => OutputInv
  <2> SUFFICES ASSUME Init PROVE OutputInv
    OBVIOUS
  <2>1. written = [s \in Streams |-> <<>>] /\ main = "read"
    BY DEF Init
  <2>2. \A s \in Streams : written[s] = <<>> /\ Items(<<>>) = {} /\ Len(<<>>) = 0
    BY <2>1 DEF Items
  <2>3. <<>> \in Seq(Item)
    OBVIOUS
  <2> QED
    BY <2>1, <2>2, <2>3 DEF OutputInv
<1>2. IInv /\ IInv' /\ OutputInv /\ [Next]_vars => OutputInv'
  BY StepImplements, OutputStep DEF IInv, DataTypes
<1>3. OutputInv => (main = "returned" => \A s \in Streams : written[s] = Output(s))
  BY CompleteIsOutput
<1> QED
  BY <1>1, <1>2, <1>3, InvariantHolds, PTL DEF Spec

(* Every variable keeps its type, and no message is given more clouds than  *)
(* its decoder made of it.                                                  *)
THEOREM SequentialTypes == Spec => []TypeOK
<1>1. IInv => TypeOK
  BY DEF IInv, Types, DataTypes, TypeOK
<1> QED
  BY <1>1, InvariantHolds, PTL

-----------------------------------------------------------------------------
(* The counts of the result, kept while the call runs: they are taken where *)
(* the messages are fed and the clouds written, not derived from them.      *)

Consumed == UNION {fed[t] : t \in DecodedTopics}

CountsInv ==
  /\ \A t \in DecodedTopics :
       /\ clouds_produced[t] = Len(written[t])
       /\ packets[t] = Cardinality(fed[t])
  /\ advanced = Cardinality(Consumed)

LEMMA MessageSetsFinite ==
  ASSUME NEW S \in SUBSET Messages
  PROVE  IsFiniteSet(S)
<1>1. IsFiniteSet(1..Len(Bag))
  BY FS_Interval, Sizes
<1> QED
  BY <1>1, FS_Subset, Sizes

LEMMA CountsInit == Init => CountsInv
<1> SUFFICES ASSUME Init PROVE CountsInv
  OBVIOUS
<1>1. Consumed = {}
  BY DEF Init, Consumed
<1>2. \A t \in DecodedTopics : fed[t] = {} /\ written[t] = <<>> /\ packets[t] = 0 /\ clouds_produced[t] = 0
  BY Sizes DEF Init
<1>3. Cardinality({}) = 0
  BY FS_EmptySet
<1> QED
  BY <1>1, <1>2, <1>3 DEF Init, CountsInv

(* The decoder of t writes one more cloud, and that is counted.             *)
LEMMA CloudCounted ==
  ASSUME IInv, CountsInv, NEW t \in DecodedTopics, NEW x \in Item, x.stream = t, Put(x),
         clouds_produced' = [clouds_produced EXCEPT ![t] = @ + 1],
         UNCHANGED <<fed, packets, advanced>>
  PROVE  CountsInv'
<1>1. written \in [Streams -> Seq(Item)] /\ clouds_produced \in [DecodedTopics -> Nat]
  BY DEF IInv, DataTypes
<1>2. written' = [written EXCEPT ![t] = Append(@, x)] /\ t \in Streams
  BY Sizes DEF Put
<1>3. written[t] \in Seq(Item) /\ written'[t] = Append(written[t], x)
  BY <1>1, <1>2
<1>4. Len(written'[t]) = Len(written[t]) + 1
  BY <1>3
<1>5. \A u \in DecodedTopics : u # t => written'[u] = written[u] /\ clouds_produced'[u] = clouds_produced[u]
  BY <1>1, <1>2, Sizes
<1>6. clouds_produced'[t] = clouds_produced[t] + 1
  BY <1>1
<1>7. \A u \in DecodedTopics : clouds_produced'[u] = Len(written'[u])
  BY <1>4, <1>5, <1>6 DEF CountsInv
<1>8. Consumed' = Consumed
  BY DEF Consumed
<1> QED
  BY <1>7, <1>8 DEF CountsInv

LEMMA CountsStay ==
  ASSUME CountsInv, UNCHANGED <<counts, fed, written>>
  PROVE  CountsInv'
BY DEF CountsInv, Consumed, counts

LEMMA StepKeepsCounts ==
  ASSUME IInv, CountsInv, [Next]_vars
  PROVE  CountsInv'
<1>1. CASE Feed
  <2>0. PICK d \in DecodedTopics : d = Bag[next]
    BY <1>1 DEF Feed
  <2>1. /\ main = "read" /\ next \in Messages /\ next \in MessagesOf(d)
        /\ packets' = [packets EXCEPT ![d] = @ + 1]
        /\ fed' = [fed EXCEPT ![d] = @ \cup {next}]
        /\ advanced' = advanced + 1 /\ UNCHANGED <<clouds_produced, written>>
    BY <1>1, <2>0 DEF Feed, MessagesOf
  <2>2. /\ fed \in [DecodedTopics -> SUBSET Messages] /\ packets \in [DecodedTopics -> Nat]
        /\ advanced \in Nat
    BY DEF IInv, DataTypes
  <2>3. \A t \in DecodedTopics : next \notin fed[t]
    BY <2>1, Sizes DEF IInv, FedInv, Live, Reached
  <2>4. /\ fed'[d] = fed[d] \cup {next} /\ packets'[d] = packets[d] + 1
        /\ \A t \in DecodedTopics : t # d => fed'[t] = fed[t] /\ packets'[t] = packets[t]
    BY <2>1, <2>2
  <2>5. Cardinality(fed[d] \cup {next}) = Cardinality(fed[d]) + 1
    BY <2>2, <2>3, MessageSetsFinite, FS_AddElement
  <2>6. \A t \in DecodedTopics : packets'[t] = Cardinality(fed'[t])
    BY <2>4, <2>5 DEF CountsInv
  <2>7. Consumed' = Consumed \cup {next}
    <3>1. Consumed' = UNION {fed'[t] : t \in DecodedTopics}
      BY DEF Consumed
    <3>2. \A m : m \in Consumed' <=> \E t \in DecodedTopics : m \in fed'[t]
      BY <3>1
    <3>3. \A m : m \in Consumed <=> \E t \in DecodedTopics : m \in fed[t]
      BY DEF Consumed
    <3> QED
      BY <2>4, <3>2, <3>3
  <2>8. Consumed \in SUBSET Messages /\ next \notin Consumed
    BY <2>2, <2>3 DEF Consumed
  <2>9. Cardinality(Consumed') = Cardinality(Consumed) + 1
    BY <2>7, <2>8, MessageSetsFinite, FS_AddElement
  <2>10. \A t \in DecodedTopics : clouds_produced'[t] = Len(written'[t])
    BY <2>1 DEF CountsInv
  <2> QED
    BY <2>1, <2>6, <2>9, <2>10 DEF CountsInv
<1>2. CASE Emit
  <2>0. PICK t \in DecodedTopics : t = Bag[next]
    BY <1>2 DEF Emit, IInv, Types
  <2>1. PICK x \in Item : x = CloudItem(next, nth + 1, UpTo(next)) /\ Put(x)
    BY <1>2, EmitWrites
  <2>2. x.stream = t
    BY <2>0, <2>1 DEF CloudItem
  <2> QED
    BY <1>2, <2>0, <2>1, <2>2, CloudCounted DEF Emit
<1>3. CASE FinishMessage
  BY <1>3, CountsStay DEF FinishMessage
<1>4. CASE Copy
  <2>1. PICK x \in Item : x = RawItem(next) /\ Put(x)
    BY <1>4, CopyWrites
  <2>2. x.stream \notin DecodedTopics
    BY <1>4, <2>1, Sizes DEF Copy, RawItem
  <2>3. \A u \in DecodedTopics : written'[u] = written[u]
    BY <2>1, <2>2, Sizes DEF Put, IInv, DataTypes
  <2>4. UNCHANGED <<fed, counts>> /\ Consumed' = Consumed
    BY <1>4 DEF Copy, Consumed
  <2> QED
    BY <2>3, <2>4 DEF CountsInv, counts
<1>5. CASE Skip
  BY <1>5, CountsStay DEF Skip
<1>6. CASE EndOfInput
  BY <1>6, CountsStay DEF EndOfInput
<1>7. ASSUME NEW t \in DecodedTopics, Flush(t) PROVE CountsInv'
  <2>1. CASE t \in Trailing
    <3>1. PICK x \in Item : x = TrailItem(t, MessagesOf(t)) /\ Put(x)
      BY <1>7, <2>1, FlushWrites
    <3>2. x.stream = t
      BY <3>1 DEF TrailItem
    <3> QED
      BY <1>7, <2>1, <3>1, <3>2, CloudCounted DEF Flush
  <2>2. CASE t \notin Trailing
    BY <1>7, <2>2, CountsStay DEF Flush, counts
  <2> QED
    BY <2>1, <2>2
<1>8. CASE Return
  BY <1>8, CountsStay DEF Return
<1>9. CASE Throw
  BY <1>9, CountsStay DEF Throw
<1>10. CASE Unwind
  BY <1>10, CountsStay DEF Unwind
<1>11. CASE UNCHANGED vars
  BY <1>11, CountsStay DEF vars
<1> QED
  BY <1>1, <1>2, <1>3, <1>4, <1>5, <1>6, <1>7, <1>8, <1>9, <1>10, <1>11 DEF Next, Stopped

(* A call that returns reports, for every decoded topic, the packets its    *)
(* messages held and the clouds its stream was given, trailing scan         *)
(* included, and has advanced the progress once for each of those messages. *)
THEOREM SequentialResult == Spec => []ResultIsExact
<1>1. IInv /\ CountsInv /\ [Next]_vars => CountsInv'
  BY StepKeepsCounts
<1>2. IInv /\ CountsInv => ResultIsExact
  <2> SUFFICES ASSUME IInv, CountsInv, main = "returned" PROVE ResultIsExact
    BY DEF ResultIsExact
  <2>1. next = Len(Bag) + 1 /\ Live
    BY DEF IInv, Types, Live
  <2>2. \A t \in DecodedTopics : fed[t] = {m \in MessagesOf(t) : Reached(m)}
    BY <2>1 DEF IInv, FedInv
  <2>3. \A m \in Messages : Reached(m)
    BY <2>1, Sizes DEF Reached
  <2>4. \A t \in DecodedTopics : fed[t] = MessagesOf(t)
    BY <2>2, <2>3 DEF MessagesOf
  <2>5. Consumed = {m \in Messages : Bag[m] \in DecodedTopics}
    BY <2>4 DEF Consumed, MessagesOf
  <2> QED
    BY <2>4, <2>5 DEF CountsInv, ResultIsExact
<1> QED
  BY <1>1, <1>2, CountsInit, InvariantHolds, PTL DEF Spec

-----------------------------------------------------------------------------
(* The driver with its reporter.                                            *)

(* What the reporter has shown is at most what it counted, and it counted   *)
(* what was fed; finalize() comes once everything was.                      *)
ReportInv ==
  /\ listening => done = advanced /\ (last # None => last \in Nat /\ last <= done)
  /\ finalized => main = "returned" /\ (listening => last = Total)

LEMMA ReportedStepConverts ==
  ASSUME [ReportedNext]_reportedVars
  PROVE  [Next]_vars
  BY DEF ReportedNext, reportedVars, FeedAndAdvance, Finalize, Next

(* The reporter never keeps the driver from anything: with it or without,   *)
(* the call is one of run_convert_sequential, and what is proved of that    *)
(* holds here.                                                              *)
THEOREM ReportedConverts == ReportedSpec => Spec
<1>1. ReportedInit => Init
  BY DEF ReportedInit
<1>2. [ReportedNext]_reportedVars => [Next]_vars
  BY ReportedStepConverts
<1> QED
  BY <1>1, <1>2, PTL DEF ReportedSpec, Spec

LEMMA StaysReturned ==
  ASSUME main = "returned", [Next]_vars
  PROVE  main' = main /\ advanced' = advanced
  BY DEF Next, vars, counts, Feed, Emit, FinishMessage, Copy, Skip, EndOfInput, Flush, Return, Throw,
         AboutToWrite, Unwind, Stopped

LEMMA StepKeepsReport ==
  ASSUME IInv, ResultIsExact, CountsInv, CountsInv', ReportInv, [ReportedNext]_reportedVars
  PROVE  /\ ReportInv'
         /\ listening =>
              /\ last' # None => last' <= advanced' /\ (last = None \/ last <= last')
              /\ finalized' => last' = Total
<1>0. advanced \in Nat
  BY DEF IInv, DataTypes
<1>1. CASE FeedAndAdvance
  <2>1. /\ listening' = listening /\ finalized' = finalized /\ advanced' = advanced + 1
        /\ main = "read"
    BY <1>1 DEF FeedAndAdvance, Feed, Reporter!Advance
  <2>2. ~finalized
    BY <2>1 DEF ReportInv
  <2>3. CASE ~listening
    BY <2>1, <2>2, <2>3 DEF ReportInv
  <2>4. CASE listening
    <3>1. done' = done + 1 /\ (last' = done + 1 \/ last' = last)
      BY <1>1, <2>4 DEF FeedAndAdvance, Reporter!Advance, Reporter!Emit
    <3> QED
      BY <1>0, <2>1, <2>2, <2>4, <3>1 DEF ReportInv
  <2> QED
    BY <2>3, <2>4
<1>2. CASE Finalize
  <2>1. main = "returned" /\ UNCHANGED <<main, advanced>> /\ UNCHANGED <<listening, done>>
        /\ (listening => last' = done)
    BY <1>2 DEF Finalize, Reporter!Finalize, Reporter!Emit, vars, counts
  <2>2. advanced = Total
    BY <2>1 DEF ResultIsExact, Total
  <2> QED
    BY <1>0, <2>1, <2>2 DEF ReportInv
<1>3. CASE [Next]_vars /\ UNCHANGED <<listening, done, last, finalized>> /\ (advanced' = advanced)
  <2>1. finalized => main' = "returned"
    BY <1>3, StaysReturned DEF ReportInv
  <2> QED
    BY <1>0, <1>3, <2>1 DEF ReportInv
<1>4. \/ FeedAndAdvance \/ Finalize
      \/ [Next]_vars /\ UNCHANGED <<listening, done, last, finalized>> /\ advanced' = advanced
  BY ReportedStepConverts
     DEF ReportedNext, reportedVars, reporterVars, Silent, vars, counts, Emit, FinishMessage, Copy, Skip,
         EndOfInput, Flush, Return, Throw, Unwind, Stopped
<1> QED
  BY <1>1, <1>2, <1>3, <1>4

(* The progress shown never goes back, never claims a message that was not  *)
(* fed, and stands at the total when finalize() is through, whatever the    *)
(* interval throttled.                                                      *)
THEOREM ProgressShownIsTrue == ReportedSpec => ProgressIsTrue
<1>1. ReportedInit => ReportInv
  BY DEF ReportedInit, Init, Reporter!Init, ReportInv
<1>2. IInv /\ CountsInv /\ [Next]_vars => CountsInv'
  BY StepKeepsCounts
<1>3. [ReportedNext]_reportedVars => [Next]_vars
  BY ReportedStepConverts
<1>4. IInv /\ CountsInv /\ ResultIsExact /\ ReportInv /\ [ReportedNext]_reportedVars =>
        /\ ReportInv'
        /\ [listening =>
              /\ last' # None => last' <= advanced' /\ (last = None \/ last <= last')
              /\ finalized' => last' = Total]_reportedVars
  BY <1>2, <1>3, StepKeepsReport
<1> QED
  BY <1>1, <1>2, <1>3, <1>4, CountsInit, InvariantHolds, SequentialResult, ReportedConverts, PTL
     DEF ReportedSpec, ReportedInit, Spec, ProgressIsTrue
=============================================================================
