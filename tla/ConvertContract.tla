--------------------------- MODULE ConvertContract ---------------------------
(***************************************************************************)
(* What a caller of convert() is promised, whichever driver runs it: each  *)
(* output stream grows by exactly the next item it is owed, the call       *)
(* returns only once every stream is complete and nothing failed, and it   *)
(* throws only because something failed.                                   *)
(***************************************************************************)
EXTENDS BagStream

VARIABLES
  status,   (* how the call stands: running, returned, threw, terminated *)
  failed,   (* some thread has met an exception                          *)
  written   (* what the output bag holds, stream by stream               *)

contractVars == <<status, failed, written>>

Init ==
  /\ status = "running"
  /\ failed = FALSE
  /\ written = [s \in Streams |-> <<>>]

(* x is the next item stream s is owed. *)
NextOwed(s, x) ==
  /\ x \notin Items(written[s])
  /\ \A y \in Expected[s] : Before(y, x) => y \in Items(written[s])

Write(s) ==
  /\ status = "running"
  /\ UNCHANGED <<status, failed>>
  /\ \E x \in Expected[s] :
        /\ written' = [written EXCEPT ![s] = Append(@, x)]
        /\ NextOwed(s, x)

Fault ==
  /\ status = "running" /\ ~failed
  /\ failed' = TRUE
  /\ UNCHANGED <<status, written>>

Return ==
  /\ status = "running" /\ ~failed
  /\ \A s \in Streams : Expected[s] \subseteq Items(written[s])
  /\ status' = "returned"
  /\ UNCHANGED <<failed, written>>

(* A failure reaches the caller as an exception, or ends the process.       *)
Fail ==
  /\ status = "running" /\ failed
  /\ status' \in {"threw", "terminated"}
  /\ UNCHANGED <<failed, written>>

Next == (\E s \in Streams : Write(s)) \/ Fault \/ Return \/ Fail

Spec == Init /\ [][Next]_contractVars
=============================================================================
