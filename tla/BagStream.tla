------------------------------ MODULE BagStream ------------------------------
(***************************************************************************)
(* What one convert() call is given and what it owes the output bag.       *)
(*                                                                         *)
(* The input bag is the sequence of its messages, each reduced to its      *)
(* topic.  A decoded topic turns messages into point clouds through a      *)
(* stateful decoder; every other registered topic is copied verbatim.      *)
(* An output item records the stream it belongs to, the message that       *)
(* completed it, its rank among that message's clouds and the set of       *)
(* messages the decoder had consumed by then, so an item decoded from a    *)
(* reordered or incomplete input differs from the one that is owed.        *)
(***************************************************************************)
EXTENDS Naturals, Sequences, FiniteSets

CONSTANTS
  Slots,        (* the decoded in_topics, in rule order                     *)
  Passthrough,  (* the topics whose messages are copied                     *)
  Bag,          (* the topic of each message, in reading order              *)
  Clouds,       (* how many clouds surface while message m is decoded       *)
  Trailing      (* decoded topics whose last scan surfaces only at flush()  *)

DecodedTopics == {Slots[i] : i \in 1..Len(Slots)}
Streams == DecodedTopics \cup Passthrough
Messages == 1..Len(Bag)
MessagesOf(t) == {m \in Messages : Bag[m] = t}

(* A topic is decoded only when its packets were identified, so it has at  *)
(* least one message, and a trailing scan needs a decoder that was fed.    *)
ASSUME BagAssumption ==
  /\ Slots \in Seq(DecodedTopics) /\ Len(Slots) > 0
  /\ \A i, j \in 1..Len(Slots) : Slots[i] = Slots[j] => i = j
  /\ DecodedTopics \cap Passthrough = {}
  /\ Len(Bag) \in Nat
  /\ Clouds \in [Messages -> Nat]
  /\ Trailing \subseteq DecodedTopics
  /\ \A t \in DecodedTopics : MessagesOf(t) # {}

CloudItem(m, k, fed) == [stream |-> Bag[m], src |-> m, nth |-> k, after |-> fed]
TrailItem(t, fed) == [stream |-> t, src |-> Len(Bag) + 1, nth |-> 1, after |-> fed]
RawItem(m) == [stream |-> Bag[m], src |-> m, nth |-> 0, after |-> {}]

UpTo(m) == {j \in MessagesOf(Bag[m]) : j <= m}

(* Everything the output bag must hold on each stream.                     *)
CloudsOwed(t) == UNION {{CloudItem(m, k, UpTo(m)) : k \in 1..Clouds[m]} : m \in MessagesOf(t)}
TrailOwed(t) == IF t \in Trailing THEN {TrailItem(t, MessagesOf(t))} ELSE {}

Expected == [s \in Streams |->
  IF s \in Passthrough THEN {RawItem(m) : m \in MessagesOf(s)}
                       ELSE CloudsOwed(s) \cup TrailOwed(s)]

(* The order in which the items of one stream are owed.                    *)
Before(x, y) ==
  \/ x.src < y.src
  \/ x.src = y.src /\ x.nth < y.nth

Items(q) == {q[i] : i \in 1..Len(q)}

(* The items of a stream in the order they are owed.                       *)
Listing(q, s) ==
  /\ Items(q) = Expected[s]
  /\ \A i, j \in 1..Len(q) : i < j => Before(q[i], q[j])

Output(s) == CHOOSE q \in Seq(Expected[s]) : Listing(q, s)
=============================================================================
