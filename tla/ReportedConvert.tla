--------------------------- MODULE ReportedConvert ---------------------------
(***************************************************************************)
(* The sequential driver with the reporter it drives: advance() for each   *)
(* message fed to a decoder, and finalize() by convert() when the driver   *)
(* has returned and the writer is closed, but not when it threw.           *)
(***************************************************************************)
EXTENDS SequentialConvert

CONSTANTS None

VARIABLES
  listening, done, last,   (* ProgressReporter                               *)
  finalized                (* convert() has called finalize()                *)

Reporter == INSTANCE ProgressReporter

reporterVars == <<listening, done, last>>
reportedVars == <<vars, reporterVars, finalized>>

(* sum_decoded_message_counts: what the metadata counts for decoded topics. *)
Total == Cardinality({m \in Messages : Bag[m] \in DecodedTopics})

ReportedInit == Init /\ Reporter!Init /\ finalized = FALSE

Silent == UNCHANGED <<reporterVars, finalized>>

FeedAndAdvance == Feed /\ Reporter!Advance /\ UNCHANGED finalized

Finalize ==
  /\ main = "returned" /\ ~finalized
  /\ Reporter!Finalize /\ finalized' = TRUE
  /\ UNCHANGED vars

ReportedNext ==
  \/ FeedAndAdvance
  \/ Finalize
  \/ /\ \/ Emit \/ FinishMessage \/ Copy \/ Skip \/ EndOfInput
        \/ \E t \in DecodedTopics : Flush(t)
        \/ Return \/ Throw \/ Unwind \/ Stopped
     /\ Silent

ReportedSpec == ReportedInit /\ [][ReportedNext]_reportedVars

-----------------------------------------------------------------------------
(* Properties.                                                              *)

(* The progress a user sees never goes back and never claims a message that *)
(* was not fed, and when the call is about to return it stands at the total *)
(* whatever was throttled ("so the bar always lands on 100%").              *)
ProgressIsTrue ==
  [][listening =>
       /\ last' # None => last' <= advanced' /\ (last = None \/ last <= last')
       /\ finalized' => last' = Total]_reportedVars
=============================================================================
