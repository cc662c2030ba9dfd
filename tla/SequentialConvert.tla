-------------------------- MODULE SequentialConvert --------------------------
(***************************************************************************)
(* run_convert_sequential: one thread reads, decodes, writes and in the    *)
(* end flushes every decoder, in the order of an unordered_map.  Every     *)
(* cloud goes straight to the writer, so a failure leaves a prefix.        *)
(***************************************************************************)
EXTENDS BagStream

CONSTANTS Failures   (* where an exception may occur: read, decode, write *)

ASSUME FailuresAssumption == Failures \subseteq {"read", "decode", "write"}

VARIABLES
  main,              (* where the call stands                               *)
  next,              (* the message it is at                                *)
  nth,               (* clouds of that message already written              *)
  packets,           (* per topic, the messages the result will report      *)
  fed,               (* the messages each topic's decoder has consumed      *)
  clouds_produced,   (* per topic, the clouds the result will report        *)
  flushed,           (* topics whose decoder the last loop has flushed      *)
  advanced,          (* ProgressReporter                                    *)
  written            (* the output bag, stream by stream                    *)

counts == <<packets, clouds_produced, advanced>>
vars == <<main, next, nth, fed, flushed, counts, written>>

Init ==
  /\ main = "read" /\ next = 1 /\ nth = 0
  /\ packets = [t \in DecodedTopics |-> 0]
  /\ fed = [t \in DecodedTopics |-> {}]
  /\ clouds_produced = [t \in DecodedTopics |-> 0]
  /\ flushed = {} /\ advanced = 0
  /\ written = [s \in Streams |-> <<>>]

Put(x) == written' = [written EXCEPT ![x.stream] = Append(@, x)]

(* A definition marked "variant" is a plausible mistake in the next one.    *)

-----------------------------------------------------------------------------
(* Extract the packets of a decoded topic's message and feed the decoder.   *)
Feed ==
  /\ main = "read" /\ next \in Messages /\ Bag[next] \in DecodedTopics
  /\ main' = "decode" /\ nth' = 0
  /\ LET t == Bag[next]
     IN  /\ packets' = [packets EXCEPT ![t] = @ + 1]
         /\ fed' = [fed EXCEPT ![t] = @ \cup {next}]
  /\ advanced' = advanced + 1
  /\ UNCHANGED <<next, flushed, clouds_produced, written>>

(* variant: one cloud too many for the message.                             *)
CloudRemainsOnceMore == nth <= Clouds[next]
CloudRemains == nth < Clouds[next]

Emit ==
  /\ main = "decode" /\ CloudRemains
  /\ LET t == Bag[next]
     IN  /\ clouds_produced' = [clouds_produced EXCEPT ![t] = @ + 1]
         /\ Put(CloudItem(next, nth + 1, fed[t]))
  /\ nth' = nth + 1
  /\ UNCHANGED <<main, next, fed, flushed, packets, advanced>>

FinishMessage ==
  /\ main = "decode" /\ ~CloudRemains
  /\ main' = "read" /\ next' = next + 1
  /\ UNCHANGED <<nth, fed, flushed, counts, written>>

Copy ==
  /\ main = "read" /\ next \in Messages /\ Bag[next] \in Passthrough
  /\ Put(RawItem(next)) /\ next' = next + 1
  /\ UNCHANGED <<main, nth, fed, flushed, counts>>

Skip ==
  /\ main = "read" /\ next \in Messages /\ Bag[next] \notin Streams
  /\ next' = next + 1
  /\ UNCHANGED <<main, nth, fed, flushed, counts, written>>

EndOfInput ==
  /\ main = "read" /\ next \notin Messages
  /\ main' = "flush"
  /\ UNCHANGED <<next, nth, fed, flushed, counts, written>>

(* One round of the flush loop.                                             *)
(* variant: the trailing scan is written but not counted.                   *)
FlushUncounted(t) ==
  /\ main = "flush" /\ t \notin flushed
  /\ flushed' = flushed \cup {t}
  /\ IF t \in Trailing THEN Put(TrailItem(t, fed[t])) ELSE UNCHANGED written
  /\ UNCHANGED <<main, next, nth, fed, packets, advanced, clouds_produced>>

Flush(t) ==
  /\ main = "flush" /\ t \notin flushed
  /\ flushed' = flushed \cup {t}
  /\ IF t \in Trailing
     THEN /\ clouds_produced' = [clouds_produced EXCEPT ![t] = @ + 1]
          /\ Put(TrailItem(t, fed[t]))
     ELSE UNCHANGED <<clouds_produced, written>>
  /\ UNCHANGED <<main, next, nth, fed, packets, advanced>>

(* variant: no flush after the loop, the defect the Velodyne and Hesai      *)
(* regression tests are about.                                              *)
ReturnUnflushed ==
  /\ main = "flush" /\ main' = "returned"
  /\ UNCHANGED <<next, nth, fed, flushed, counts, written>>

Return ==
  /\ main = "flush" /\ flushed = DecodedTopics
  /\ main' = "returned"
  /\ UNCHANGED <<next, nth, fed, flushed, counts, written>>

(* Reading throws between messages, decoding while a message or a flush is  *)
(* under way, writing where a cloud or a copy is about to be written; the   *)
(* exception leaves the function.                                           *)
AboutToWrite ==
  \/ main = "decode" /\ CloudRemains
  \/ main = "read" /\ next \in Messages /\ Bag[next] \in Passthrough
  \/ main = "flush" /\ Trailing \ flushed # {}

Throw ==
  /\ \/ "read" \in Failures /\ main = "read"
     \/ "decode" \in Failures /\ main \in {"decode", "flush"}
     \/ "write" \in Failures /\ AboutToWrite
  /\ main' = "unwind"
  /\ UNCHANGED <<next, nth, fed, flushed, counts, written>>

Unwind ==
  /\ main = "unwind" /\ main' = "threw"
  /\ UNCHANGED <<next, nth, fed, flushed, counts, written>>

Ended == main \in {"returned", "threw"}
Stopped == Ended /\ UNCHANGED vars

Next ==
  \/ Feed \/ Emit \/ FinishMessage \/ Copy \/ Skip \/ EndOfInput
  \/ \E t \in DecodedTopics : Flush(t)
  \/ Return \/ Throw \/ Unwind \/ Stopped

Spec == Init /\ [][Next]_vars

-----------------------------------------------------------------------------
(* Properties.                                                              *)

(* Every variable keeps its type, and a message never yields more clouds    *)
(* than its decoder made of it.                                             *)
TypeOK ==
  /\ main \in {"read", "decode", "flush", "unwind", "returned", "threw"}
  /\ next \in 1..Len(Bag) + 1 /\ nth \in Nat
  /\ main = "decode" => next \in Messages /\ nth <= Clouds[next]
  /\ packets \in [DecodedTopics -> Nat] /\ advanced \in Nat
  /\ fed \in [DecodedTopics -> SUBSET Messages]
  /\ clouds_produced \in [DecodedTopics -> Nat]
  /\ flushed \subseteq DecodedTopics
  /\ DOMAIN written = Streams

(* The numbers a successful call reports are what happened, topic by topic, *)
(* and they are the ones the pipeline reports (test_convert_parallel_       *)
(* equivalence compares the two on one bag).                                *)
ResultIsExact ==
  main = "returned" =>
    /\ \A t \in DecodedTopics :
         /\ clouds_produced[t] = Len(written[t])
         /\ packets[t] = Cardinality(MessagesOf(t))
    /\ advanced = Cardinality({m \in Messages : Bag[m] \in DecodedTopics})

Contract == INSTANCE ConvertContract WITH
  status <- IF Ended THEN main ELSE "running",
  failed <- main \in {"unwind", "threw"},
  written <- written

(* The sequential driver implements the contract of convert(), the one the  *)
(* pipeline implements too: whichever runs, a caller gets the same streams. *)
ImplementsContract == Contract!Spec
=============================================================================
