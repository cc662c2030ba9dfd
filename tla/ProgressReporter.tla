--------------------------- MODULE ProgressReporter ---------------------------
(***************************************************************************)
(* The throttled reporter of convert()'s progress.  One thread at a time   *)
(* calls it (the sequential loop or the reader thread, and after the join  *)
(* the calling thread), so its try-lock never fails and a call is one      *)
(* step.  Time is a choice: the interval may or may not have passed.       *)
(***************************************************************************)
EXTENDS Naturals

CONSTANTS None

VARIABLES
  listening,   (* whether there is a callback                               *)
  done,        (* done_                                                     *)
  last         (* messages_done of the last event, None before the first     *)

Init == listening \in BOOLEAN /\ done = 0 /\ last = None

(* emit_locked: what the callback throws is swallowed.                      *)
Emit(n) == last' = n

Advance ==
  /\ IF listening
     THEN /\ done' = done + 1
          /\ \/ Emit(done + 1)
             \/ UNCHANGED last                      (* less than 50 ms passed *)
     ELSE UNCHANGED <<done, last>>
  /\ UNCHANGED listening

(* A definition marked "variant" is a plausible mistake in the next one.    *)
(* variant: the last event is throttled like the others.                    *)
FinalizeThrottled ==
  /\ (listening /\ Emit(done)) \/ UNCHANGED last
  /\ UNCHANGED <<listening, done>>

Finalize ==
  /\ IF listening THEN Emit(done) ELSE UNCHANGED last
  /\ UNCHANGED <<listening, done>>
=============================================================================
