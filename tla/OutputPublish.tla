---------------------------- MODULE OutputPublish ----------------------------
(***************************************************************************)
(* What one call of convert() leaves in the file system, and what the next *)
(* one, started by the user on the same output path, makes of it.  A call  *)
(* creates up to four things:                                              *)
(*                                                                         *)
(*   final     the output path itself                                      *)
(*   scratch   the sibling directory rosbag2's writer fills when the       *)
(*             output is a bare file, renamed onto final at the end        *)
(*   synth     a temporary metadata directory for a bare sqlite3 input     *)
(*   config    a temporary file with the options of the MCAP plugin        *)
(*                                                                         *)
(* Any step may throw and the process may die at any point.  Calls follow  *)
(* one another; two at once on the same path are outside this module.      *)
(***************************************************************************)
EXTENDS Naturals, FiniteSets

CONSTANTS
  Messages,      (* messages the drivers write                               *)
  MaxCalls,      (* bound: calls of convert()                                *)
  None,
  Emptied        (* a scratch directory whose file was moved away            *)

ASSUME PublishAssumption == Messages \in Nat /\ MaxCalls \in Nat \ {0}

Storages == {"mcap", "sqlite3"}

(* The bags and options a call may be given: the layout (a directory output *)
(* keeps the input's storage), whether an MCAP input embeds definitions,    *)
(* and whether MCAP write options are set.                                  *)
Jobs ==
  {j \in [bare : BOOLEAN, input : Storages, output : Storages,
          embeds : BOOLEAN, options : BOOLEAN] :
     /\ ~j.bare => j.output = j.input
     /\ j.embeds => j.input = "mcap"}

UsesDefinitions(j) == j.bare /\ j.input = "mcap" /\ j.output = "mcap" /\ j.embeds
UsesScratch(j) == j.bare /\ ~UsesDefinitions(j)
Synthesizes(j) == j.bare /\ j.input = "sqlite3"
WritesConfig(j) == j.options /\ j.output = "mcap" /\ ~UsesDefinitions(j)

(* A bag on disk: the call that wrote it, the messages it holds, whether    *)
(* its writer closed it, and whether it was written in place.               *)
Bags == [by : 1..MaxCalls, holds : 0..Messages, closed : BOOLEAN, inplace : BOOLEAN]
Whole(b) == b.holds = Messages /\ b.closed

ASSUME DistinctAssumption == None \notin Bags /\ Emptied \notin Bags /\ None # Emptied

VARIABLES
  stage, thrown,   (* where the call is; whether it is unwinding             *)
  call, job,       (* the call's number and its input                        *)
  final, scratch,  (* Bags, None; scratch may also be an emptied directory   *)
  synth, config,   (* the calls whose temporary directory / file exists      *)
  found,           (* history: final was there when the call started         *)
  faulted          (* history: something failed in this call                 *)

disk == <<final, scratch, synth, config>>
vars == <<stage, thrown, call, job, disk, found, faulted>>

Running == {"inspect", "check", "clear", "config", "open", "write", "close",
            "unconfig", "rename", "sweep", "unsynth"}

Init ==
  /\ stage = "idle" /\ thrown = FALSE /\ call = 0 /\ job \in Jobs
  /\ final = None /\ scratch = None /\ synth = {} /\ config = {}
  /\ found = FALSE /\ faulted = FALSE

-----------------------------------------------------------------------------
(* A definition marked "variant" is a plausible mistake in the next one.    *)

Goto(s) == stage' = s

(* The stages between two steps that depend on the kind of output.          *)
AfterCheck == IF UsesScratch(job) THEN "clear"
              ELSE IF WritesConfig(job) THEN "config" ELSE "open"
AfterClear == IF WritesConfig(job) THEN "config" ELSE "open"
(* variant: the file is moved whether or not the driver got to the end.     *)
AfterCloseAlways == IF UsesScratch(job) THEN "rename" ELSE "unsynth"
AfterClose == IF UsesScratch(job) /\ ~thrown THEN "rename" ELSE "unsynth"

Start(j) ==
  /\ stage \in {"idle", "returned", "threw", "died"} /\ call < MaxCalls
  /\ call' = call + 1 /\ job' = j /\ thrown' = FALSE
  /\ found' = (final # None) /\ faulted' = FALSE
  /\ Goto("inspect")
  /\ UNCHANGED disk

(* inspect(), the synthesized metadata, opening and resolving the input.    *)
Inspect ==
  /\ stage = "inspect"
  /\ synth' = IF Synthesizes(job) THEN synth \cup {call} ELSE synth
  /\ Goto("check")
  /\ UNCHANGED <<thrown, call, job, final, scratch, config, found, faulted>>

(* Whether the check of the output path refuses it.                         *)
(* variant: nothing is checked.                                             *)
AcceptsAll == FALSE
Refuses == final # None

Check ==
  /\ stage = "check"
  /\ IF Refuses THEN Goto("unsynth") /\ thrown' = TRUE
     ELSE Goto(AfterCheck) /\ UNCHANGED thrown
  /\ UNCHANGED <<call, job, disk, found, faulted>>

(* compute_writer_uri: what is left of the scratch directory of an earlier  *)
(* call.                                                                    *)
(* variant: leftovers stay.                                                 *)
LeftoversKept == scratch
Leftovers == None

Clear ==
  /\ stage = "clear"
  /\ scratch' = Leftovers
  /\ Goto(AfterClear)
  /\ UNCHANGED <<thrown, call, job, final, synth, config, found, faulted>>

Config ==
  /\ stage = "config"
  /\ config' = config \cup {call}
  /\ Goto("open")
  /\ UNCHANGED <<thrown, call, job, final, scratch, synth, found, faulted>>

(* The bag this call is writing, and its becoming b.                        *)
Target == IF UsesScratch(job) THEN scratch ELSE final
Update(b) == IF UsesScratch(job) THEN scratch' = b /\ UNCHANGED final
             ELSE final' = b /\ UNCHANGED scratch

NewBag == [by |-> call, holds |-> 0, closed |-> FALSE, inplace |-> ~UsesScratch(job)]

(* The writer makes its file: rosbag2's refuses a directory that exists, the *)
(* definition writer truncates.                                             *)
Open ==
  /\ stage = "open"
  /\ IF Target = None \/ UsesDefinitions(job)
     THEN Update(NewBag) /\ Goto("write") /\ UNCHANGED thrown
     ELSE Goto("unconfig") /\ thrown' = TRUE /\ UNCHANGED <<final, scratch>>
  /\ UNCHANGED <<call, job, synth, config, found, faulted>>

(* rosbag2's writer may fail after it has made the directory.               *)
OpenThrows ==
  /\ stage = "open"
  /\ \/ UNCHANGED <<final, scratch>>
     \/ ~UsesDefinitions(job) /\ Target = None /\ Update(NewBag)
  /\ Goto("unconfig") /\ thrown' = TRUE /\ faulted' = TRUE
  /\ UNCHANGED <<call, job, synth, config, found>>

(* variant: the driver returns before it wrote everything.                  *)
MayReturnEarly == TRUE
MayReturn == Target.holds = Messages

(* variant: the last message is written twice.                              *)
MayWriteAgain == Target.holds <= Messages
MayWrite == Target.holds < Messages

Write ==
  /\ stage = "write" /\ MayWrite
  /\ Update([Target EXCEPT !.holds = @ + 1])
  /\ UNCHANGED <<stage, thrown, call, job, synth, config, found, faulted>>

DriverReturns ==
  /\ stage = "write" /\ MayReturn
  /\ Goto("close")
  /\ UNCHANGED <<thrown, call, job, disk, found, faulted>>

(* The writer's destructor, on the way out or on an exception.              *)
Close ==
  /\ stage = "close"
  /\ Update([Target EXCEPT !.closed = TRUE])
  /\ Goto("unconfig")
  /\ UNCHANGED <<thrown, call, job, synth, config, found, faulted>>

(* ~StorageConfigFile.                                                      *)
(* variant: the file is removed at the end of the normal path only.         *)
ConfigKeptOnThrow == IF thrown THEN config ELSE config \ {call}
ConfigRemoved == config \ {call}

Unconfig ==
  /\ stage = "unconfig"
  /\ config' = ConfigRemoved
  /\ Goto(AfterClose)
  /\ UNCHANGED <<thrown, call, job, final, scratch, synth, found, faulted>>

(* collapse_scratch_to_bare_file: rename, then remove the directory.        *)
Rename ==
  /\ stage = "rename"
  /\ final' = scratch /\ scratch' = Emptied
  /\ Goto("sweep")
  /\ UNCHANGED <<thrown, call, job, synth, config, found, faulted>>

Sweep ==
  /\ stage = "sweep"
  /\ scratch' = None
  /\ Goto("unsynth")
  /\ UNCHANGED <<thrown, call, job, final, synth, config, found, faulted>>

(* ~TempDirGuard; convert() is left.                                        *)
Unsynth ==
  /\ stage = "unsynth"
  /\ synth' = synth \ {call}
  /\ Goto(IF thrown THEN "threw" ELSE "returned")
  /\ UNCHANGED <<thrown, call, job, final, scratch, config, found, faulted>>

(* So may any other step but a destructor; the destructors of what the     *)
(* call has made run before it is left.                                     *)
Throw ==
  /\ stage \in Running \ {"open", "close", "unconfig", "unsynth"}
  /\ thrown' = TRUE /\ faulted' = TRUE
  /\ Goto(IF stage = "write" THEN "close" ELSE "unsynth")
  /\ UNCHANGED <<call, job, disk, found>>

(* The process dies: killed, out of memory, std::terminate.                 *)
Die ==
  /\ stage \in Running
  /\ Goto("died") /\ faulted' = TRUE
  /\ UNCHANGED <<thrown, call, job, disk, found>>

Next ==
  \/ \E j \in Jobs : Start(j)
  \/ Inspect \/ Check \/ Clear \/ Config \/ Open \/ OpenThrows \/ Write
  \/ DriverReturns \/ Close \/ Unconfig \/ Rename \/ Sweep \/ Unsynth \/ Throw \/ Die

Spec == Init /\ [][Next]_vars

-----------------------------------------------------------------------------
(* Properties.                                                              *)

(* Every variable keeps its type; no bag ever holds more than the input.    *)
TypeOK ==
  /\ stage \in Running \cup {"idle", "returned", "threw", "died"}
  /\ thrown \in BOOLEAN /\ call \in 0..MaxCalls /\ job \in Jobs
  /\ final \in Bags \cup {None} /\ scratch \in Bags \cup {None, Emptied}
  /\ synth \subseteq 1..MaxCalls /\ config \subseteq 1..MaxCalls
  /\ found \in BOOLEAN /\ faulted \in BOOLEAN

(* A bag that goes through the scratch directory appears at the output path *)
(* only whole: no exception and no crash publishes a truncated one.         *)
PublishedIsWhole == final # None /\ ~final.inplace => Whole(final)

(* When convert() returns, the output path holds this call's own bag, whole,*)
(* and nothing else the call has made is left.                              *)
ReturnsItsOwnBag ==
  stage = "returned" =>
    /\ final # None /\ final.by = call /\ Whole(final)
    /\ UsesScratch(job) => scratch = None

(* What an earlier call put at the output path is never touched again       *)
(* ("refusing to overwrite").                                               *)
NeverOverwrites ==
  [][final # None /\ final.by # call => final' = final]_vars

(* A call in which nothing fails is refused only because the output was     *)
(* there before it: no scratch directory of a failed or killed call stands  *)
(* in the way of a retry ("Defensive cleanup for leftovers from a prior     *)
(* failed run").                                                            *)
RetryIsNotBlocked == stage = "threw" /\ ~faulted => found

(* A call that returns or throws leaves no temporary file of its own.       *)
TemporariesAreRemoved ==
  stage \in {"returned", "threw"} => call \notin synth \cup config
=============================================================================
