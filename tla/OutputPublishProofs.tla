------------------------- MODULE OutputPublishProofs -------------------------
(***************************************************************************)
(* Proofs about OutputPublish and about CommandLine, which drives it, for  *)
(* any number of messages and of calls.                                    *)
(*                                                                         *)
(* The invariant follows one call through its stages: what the check of    *)
(* the output path has established, what the bag being written is known to *)
(* be, and which temporary files exist.  Everything before Start is the    *)
(* leftover of other calls, of which it says only that it is theirs.       *)
(*                                                                         *)
(* The command line takes no step on the disk but those of convert(), so   *)
(* all of that holds of it, too; its own invariant follows one invocation  *)
(* from its arguments to its exit status.                                  *)
(***************************************************************************)
EXTENDS CommandLine, TLAPS

Preparing == {"inspect", "check", "clear", "config", "open"}

(* Only a call that writes, or that is about to publish, is not unwinding.  *)
Forward ==
  /\ stage \in Preparing \cup {"write", "rename", "sweep", "returned"} => ~thrown
  /\ stage = "threw" => thrown

(* The output path as the check found it, until this call fills it.         *)
PathIsFree ==
  /\ stage \in {"inspect", "check"} => found = (final # None)
  /\ stage \in {"clear", "config", "open"} => final = None
  /\ stage \in {"write", "close", "unconfig", "rename"} /\ UsesScratch(job) => final = None
  /\ stage \in {"config", "open"} /\ UsesScratch(job) => scratch = None
  /\ stage \in {"clear", "rename", "sweep"} => UsesScratch(job)

(* The bag being written.                                                   *)
Own(b) == b \in Bags /\ b.by = call /\ b.inplace = ~UsesScratch(job)

BagIsOwn ==
  /\ stage \in {"write", "close"} => Own(Target)
  /\ stage = "close" /\ ~thrown => Target.holds = Messages
  /\ stage = "unconfig" /\ ~thrown => Own(Target) /\ Whole(Target)
  /\ stage = "rename" => Own(Target) /\ Whole(Target)
  /\ stage = "sweep" => Own(final) /\ Whole(final)
  /\ stage \in {"unsynth", "returned"} /\ ~thrown =>
       /\ Own(final) /\ Whole(final)
       /\ UsesScratch(job) => scratch = None

(* Temporaries and bags belong to calls already made.                       *)
Temporaries ==
  /\ synth \subseteq 1..call /\ config \subseteq 1..call
  /\ stage \in {"inspect", "check", "clear", "config", "rename", "sweep", "unsynth",
                "returned", "threw"} => call \notin config
  /\ stage \in {"returned", "threw"} => call \notin synth
  /\ final # None => final.by <= call
  /\ stage \in Running => call >= 1

Unfaulted == thrown /\ ~faulted => found

IInv ==
  /\ TypeOK /\ Forward /\ PathIsFree /\ BagIsOwn /\ Temporaries /\ Unfaulted
  /\ PublishedIsWhole

-----------------------------------------------------------------------------
USE PublishAssumption, DistinctAssumption

LEMMA InitInv == Init => IInv
<1> SUFFICES ASSUME Init PROVE IInv
  OBVIOUS
<1>1. TypeOK
  <2>1. stage \in Running \cup {"idle", "returned", "threw", "died"}
    BY DEF Init
  <2>2. call \in 0..MaxCalls
    BY DEF Init
  <2>3. synth \subseteq 1..MaxCalls /\ config \subseteq 1..MaxCalls
    BY DEF Init
  <2>4. final \in Bags \cup {None} /\ scratch \in Bags \cup {None, Emptied}
    BY DEF Init
  <2>5. thrown \in BOOLEAN /\ found \in BOOLEAN /\ faulted \in BOOLEAN /\ job \in Jobs
    BY DEF Init
  <2>6. QED  BY <2>1, <2>2, <2>3, <2>4, <2>5 DEF TypeOK
<1>2. Forward /\ PathIsFree /\ BagIsOwn
  BY DEF Init, Forward, PathIsFree, BagIsOwn, Preparing
<1>3. Temporaries
  BY DEF Init, Temporaries, Running
<1>4. Unfaulted /\ PublishedIsWhole
  BY DEF Init, Unfaulted, PublishedIsWhole
<1>5. QED  BY <1>1, <1>2, <1>3, <1>4 DEF IInv

(* A call starts from whatever the others left, and it is a new one.        *)
LEMMA StartInv == \A j \in Jobs : IInv /\ Start(j) => IInv'
<1> SUFFICES ASSUME NEW j \in Jobs, IInv, Start(j)
             PROVE  IInv'
  OBVIOUS
<1> USE DEF Goto, disk
<1>1. TypeOK'
  <2>1. stage' \in Running
    BY DEF Start, Running
  <2>2. call' \in 0..MaxCalls
    BY DEF Start, IInv, TypeOK
  <2>3. /\ synth' \subseteq 1..MaxCalls /\ config' \subseteq 1..MaxCalls
        /\ final' \in Bags \cup {None} /\ scratch' \in Bags \cup {None, Emptied}
    BY DEF Start, IInv, TypeOK
  <2>4. thrown' \in BOOLEAN /\ found' \in BOOLEAN /\ faulted' \in BOOLEAN /\ job' \in Jobs
    BY DEF Start
  <2>5. QED  BY <2>1, <2>2, <2>3, <2>4 DEF TypeOK
<1>2. (Forward /\ PathIsFree /\ BagIsOwn)'
  BY DEF Start, Forward, PathIsFree, BagIsOwn, Preparing
<1>3. Temporaries'
  BY DEF IInv, TypeOK, Start, Temporaries, Running, Bags
<1>4. (Unfaulted /\ PublishedIsWhole)'
  BY DEF IInv, Start, Unfaulted, PublishedIsWhole, Whole
<1>5. QED  BY <1>1, <1>2, <1>3, <1>4 DEF IInv

LEMMA PrepareInv ==
  ASSUME IInv, Inspect \/ Check \/ Clear \/ Config
  PROVE  IInv'
<1> USE DEF IInv, TypeOK, Forward, PathIsFree, BagIsOwn, Temporaries, Unfaulted,
            PublishedIsWhole, Running, Preparing, Goto, disk
<1>1. CASE Inspect  BY <1>1 DEF Inspect
<1>2. CASE Check    BY <1>2 DEF Check, Refuses, AfterCheck
<1>3. CASE Clear    BY <1>3 DEF Clear, Leftovers, AfterClear
<1>4. CASE Config   BY <1>4 DEF Config
<1>5. QED  BY <1>1, <1>2, <1>3, <1>4

(* What a new bag is.                                                       *)
LEMMA NewBagIsOwn ==
  ASSUME IInv, stage = "open"
  PROVE  /\ NewBag \in Bags /\ NewBag.by = call /\ NewBag.inplace = ~UsesScratch(job)
         /\ NewBag # None
<1>1. NewBag.by = call /\ NewBag.inplace = ~UsesScratch(job)
  BY DEF NewBag
<1>2. call \in 1..MaxCalls /\ 0 \in 0..Messages /\ (~UsesScratch(job)) \in BOOLEAN
  BY DEF IInv, TypeOK, Temporaries, Running
<1>3. NewBag \in Bags
  BY <1>2, Zenon DEF NewBag, Bags
<1>4. QED  BY <1>1, <1>3

LEMMA OpenInv ==
  ASSUME IInv, Open
  PROVE  IInv'
<1>1. /\ stage = "open" /\ ~thrown /\ final = None
      /\ UsesScratch(job) => scratch = None
      /\ UNCHANGED <<call, job, synth, config, found, faulted>>
  BY DEF IInv, Forward, PathIsFree, Preparing, Open
<1>2. Target = None
  BY <1>1 DEF Target
<1>3. stage' = "write" /\ thrown' = thrown /\ Update(NewBag)
  BY <1>2 DEF Open, Goto
<1>4. CASE UsesScratch(job)
  <2>1. scratch' = NewBag /\ final' = final
    BY <1>3, <1>4 DEF Update
  <2>2. TypeOK'
    BY <1>1, <1>3, <2>1, NewBagIsOwn DEF IInv, TypeOK, Running
  <2>3. (Forward /\ PathIsFree /\ Unfaulted /\ PublishedIsWhole)'
    BY <1>1, <1>3, <2>1 DEF Forward, PathIsFree, Unfaulted, PublishedIsWhole
  <2>4. BagIsOwn'
    BY <1>1, <1>3, <1>4, <2>1, NewBagIsOwn DEF BagIsOwn, Own, Target, UsesScratch, UsesDefinitions
  <2>5. Temporaries'
    BY <1>1, <1>3, <2>1 DEF IInv, Temporaries, Running
  <2>6. QED  BY <2>2, <2>3, <2>4, <2>5 DEF IInv
<1>5. CASE ~UsesScratch(job)
  <2>1. final' = NewBag /\ scratch' = scratch
    BY <1>3, <1>5 DEF Update
  <2>2. TypeOK'
    BY <1>1, <1>3, <2>1, NewBagIsOwn DEF IInv, TypeOK, Running
  <2>3. (Forward /\ PathIsFree /\ Unfaulted /\ PublishedIsWhole)'
    BY <1>1, <1>3, <1>5, <2>1, NewBagIsOwn
       DEF Forward, PathIsFree, Unfaulted, PublishedIsWhole, UsesScratch, UsesDefinitions
  <2>4. BagIsOwn'
    BY <1>1, <1>3, <1>5, <2>1, NewBagIsOwn DEF BagIsOwn, Own, Target, UsesScratch, UsesDefinitions
  <2>5. Temporaries'
    BY <1>1, <1>3, <2>1, NewBagIsOwn DEF IInv, TypeOK, Temporaries, Running
  <2>6. QED  BY <2>2, <2>3, <2>4, <2>5 DEF IInv
<1>6. QED  BY <1>4, <1>5

LEMMA OpenThrowsInv ==
  ASSUME IInv, OpenThrows
  PROVE  IInv'
<1>1. /\ stage = "open" /\ final = None
      /\ stage' = "unconfig" /\ thrown' = TRUE /\ faulted' = TRUE
      /\ UNCHANGED <<call, job, synth, config, found>>
  BY DEF IInv, PathIsFree, OpenThrows, Goto
<1>2. \/ UNCHANGED <<final, scratch>>
      \/ UsesScratch(job) /\ scratch' = NewBag /\ final' = final
      \/ ~UsesScratch(job) /\ final' = NewBag /\ scratch' = scratch
  BY DEF OpenThrows, Update
<1>3. TypeOK'
  BY <1>1, <1>2, NewBagIsOwn DEF IInv, TypeOK, Running
<1>4. (Forward /\ PathIsFree /\ Unfaulted /\ PublishedIsWhole)'
  BY <1>1, <1>2, NewBagIsOwn
     DEF Forward, PathIsFree, Unfaulted, PublishedIsWhole, Preparing, UsesScratch, UsesDefinitions
<1>5. BagIsOwn'
  BY <1>1 DEF BagIsOwn
<1>6. Temporaries'
  BY <1>1, <1>2, NewBagIsOwn DEF IInv, TypeOK, Temporaries, Running
<1>7. QED  BY <1>3, <1>4, <1>5, <1>6 DEF IInv

LEMMA WriteInv ==
  ASSUME IInv, Write \/ DriverReturns \/ Close
  PROVE  IInv'
<1> USE DEF IInv, TypeOK, Forward, PathIsFree, BagIsOwn, Temporaries, Unfaulted,
            PublishedIsWhole, Running, Preparing, Goto, disk, Target, Update, Own, Bags, Whole
<1>1. CASE Write          BY <1>1 DEF Write, MayWrite
<1>2. CASE DriverReturns  BY <1>2 DEF DriverReturns, MayReturn
<1>3. CASE Close          BY <1>3 DEF Close
<1>4. QED  BY <1>1, <1>2, <1>3

LEMMA PublishInv ==
  ASSUME IInv, Unconfig \/ Rename \/ Sweep \/ Unsynth \/ Throw \/ Die
  PROVE  IInv'
<1> USE DEF IInv, TypeOK, Forward, PathIsFree, BagIsOwn, Temporaries, Unfaulted,
            PublishedIsWhole, Running, Preparing, Goto, disk, Target, Own
<1>1. CASE Unconfig  BY <1>1 DEF Unconfig, ConfigRemoved, AfterClose
<1>2. CASE Rename    BY <1>2 DEF Rename
<1>3. CASE Sweep     BY <1>3 DEF Sweep
<1>4. CASE Unsynth   BY <1>4 DEF Unsynth
<1>5. CASE Throw     BY <1>5 DEF Throw
<1>6. CASE Die       BY <1>6 DEF Die
<1>7. QED  BY <1>1, <1>2, <1>3, <1>4, <1>5, <1>6

LEMMA Unchanged == IInv /\ UNCHANGED vars => IInv'
  BY DEF IInv, TypeOK, Forward, PathIsFree, BagIsOwn, Temporaries, Unfaulted,
         PublishedIsWhole, Running, Preparing, vars, disk, Target, Own, Whole

LEMMA Invariance == Spec => []IInv
<1>1. IInv /\ [Next]_vars => IInv'
  BY StartInv, PrepareInv, OpenInv, OpenThrowsInv, WriteInv, PublishInv, Unchanged DEF Next
<1>2. QED  BY InitInv, <1>1, PTL DEF Spec

(* Every variable keeps its type and no bag outgrows the input.             *)
THEOREM PublishTypes == Spec => []TypeOK
  BY Invariance, PTL DEF IInv

(* No exception and no crash, in any number of calls, publishes a truncated *)
(* bag through the scratch directory.                                       *)
THEOREM PublishIsAtomic == Spec => []PublishedIsWhole
  BY Invariance, PTL DEF IInv

(* A call that returns has published its own bag, whole.                    *)
THEOREM ReturnMeansPublished == Spec => []ReturnsItsOwnBag
<1>1. IInv => ReturnsItsOwnBag
  BY DEF IInv, TypeOK, Forward, BagIsOwn, Own, ReturnsItsOwnBag
<1>2. QED  BY Invariance, <1>1, PTL

(* No leftover of another call makes one that does not fail throw.          *)
THEOREM RetryAlwaysPossible == Spec => []RetryIsNotBlocked
<1>1. IInv => RetryIsNotBlocked
  BY DEF IInv, Forward, Unfaulted, RetryIsNotBlocked
<1>2. QED  BY Invariance, <1>1, PTL

(* No call leaves a temporary file when it returns or throws.               *)
THEOREM NoTemporariesLeft == Spec => []TemporariesAreRemoved
<1>1. IInv => TemporariesAreRemoved
  BY DEF IInv, Temporaries, TemporariesAreRemoved
<1>2. QED  BY Invariance, <1>1, PTL

(* No call ever changes what another one put at the output path.            *)
THEOREM NothingIsOverwritten == Spec => NeverOverwrites
<1>1. IInv /\ [Next]_vars => [final # None /\ final.by # call => final' = final]_vars
  <2> SUFFICES ASSUME IInv, Next, final # None, final.by # call
               PROVE  final' = final
    OBVIOUS
  <2>1. CASE \E j \in Jobs : Start(j)  BY <2>1 DEF Start, disk
  <2>2. CASE Inspect \/ Check \/ Clear \/ Config
    BY <2>2 DEF Inspect, Check, Clear, Config, disk
  <2>3. CASE Open \/ OpenThrows
    BY <2>3 DEF Open, OpenThrows, Update, Target, IInv, PathIsFree
  <2>4. CASE Write \/ Close
    BY <2>4 DEF Write, Close, Update, Target, IInv, BagIsOwn, Own
  <2>5. CASE Rename
    BY <2>5 DEF Rename, IInv, PathIsFree
  <2>6. CASE DriverReturns \/ Unconfig \/ Sweep \/ Unsynth \/ Throw \/ Die
    BY <2>6 DEF DriverReturns, Unconfig, Sweep, Unsynth, Throw, Die, disk
  <2>7. QED  BY <2>1, <2>2, <2>3, <2>4, <2>5, <2>6 DEF Next
<1>2. QED  BY Invariance, <1>1, PTL DEF Spec, NeverOverwrites

-----------------------------------------------------------------------------
(* The command line.                                                        *)

(* Which arguments lead where; no conversion was begun before "convert".    *)
Parsed ==
  /\ at \in {"parse", "load", "guard", "flags", "call"} => args \in Args
  /\ at \in {"report", "plan"} => args.dryrun
  /\ at \in {"guard", "flags", "call", "convert", "table", "unwind"} => ~args.dryrun
  /\ at \in {"parse", "report", "load", "plan", "guard", "flags", "call"} => mine = 0

(* The conversion the invocation speaks of is the last one begun.           *)
Speaks ==
  /\ at \in {"convert", "table"} => mine = call
  /\ at = "table" => stage = "returned"

Exited ==
  at = "exited" =>
    /\ status = ExitOk /\ args.syntax = "right" /\ ~args.dryrun =>
         mine = call /\ stage = "returned"
    /\ status = ExitUsage \/ args.dryrun => mine = 0

(* Only a guard hides the cursor, and none outlives main().                 *)
Guarded ==
  /\ ~bar => cursor = "shown"
  /\ at \in {"parse", "report", "load", "plan", "guard", "exited"} => ~bar

CliInv == Parsed /\ Speaks /\ Exited /\ Guarded

LEMMA JobsOfArgs ==
  ASSUME NEW a \in Args, DetectInput(a.input) # None
  PROVE  JobOf(a) \in Jobs
<1>1. /\ a.input \in Paths /\ a.ext \in Storages \cup {None} /\ a.embeds \in BOOLEAN
      /\ a.input.is = "other" <=> a.input.says = None
      /\ a.ext # None => a.input.is = "file"
      /\ a.embeds => a.input = Plain.input
  BY DEF Args, Options
<1>2. a.input.is # "other" /\ a.input.says \in Storages /\ a.input.is \in {"file", "directory"}
  BY <1>1 DEF DetectInput, Paths
<1>3. DetectInput(a.input) = [bare |-> a.input.is = "file", storage |-> a.input.says]
  BY <1>2 DEF DetectInput
<1>4. a.embeds => a.input.says = "mcap"
  BY <1>1 DEF Plain
<1>5. PICK in : in = DetectInput(a.input)
  OBVIOUS
<1>6. in.bare = (a.input.is = "file") /\ in.storage = a.input.says /\ in.bare \in BOOLEAN
  BY <1>3, <1>5
<1>7. OutputStorage(in, a.ext) \in Storages /\ (~in.bare => OutputStorage(in, a.ext) = in.storage)
  BY <1>1, <1>2, <1>6 DEF OutputStorage
<1>8. JobOf(a) = [bare |-> in.bare, input |-> in.storage, output |-> OutputStorage(in, a.ext),
                  embeds |-> a.embeds, options |-> a.mcap = "good"]
  BY <1>5 DEF JobOf
<1>9. (a.mcap = "good") \in BOOLEAN
  OBVIOUS
<1> QED  BY <1>1, <1>2, <1>4, <1>6, <1>7, <1>8, <1>9 DEF Jobs

(* Whatever the command line does, the disk sees at most a step of          *)
(* convert().                                                               *)
LEMMA CliSteps ==
  ASSUME Parsed, [CliNext]_cliVars
  PROVE  [Next]_vars
<1>1. CASE ConvertStep
  BY <1>1 DEF ConvertStep, Next
<1>2. CASE CallConvert
  <2>1. CASE DetectInput(args.input) = None
    BY <1>2, <2>1 DEF CallConvert
  <2>2. CASE DetectInput(args.input) # None
    <3>1. args \in Args
      BY <1>2 DEF CallConvert, Parsed
    <3>2. Start(JobOf(args)) /\ JobOf(args) \in Jobs
      BY <1>2, <2>2, <3>1, JobsOfArgs DEF CallConvert
    <3> QED  BY <3>2 DEF Next
  <2> QED  BY <2>1, <2>2
<1>3. CASE Kill
  BY <1>3 DEF Kill, Next
<1>4. CASE (\E a \in Args : Invoke(a)) \/ ParseArgs \/ Report \/ LoadConfig \/ PlanAndPrint
           \/ MakeGuard \/ ParseFlags
  BY <1>4 DEF Invoke, ParseArgs, Report, LoadConfig, PlanAndPrint, MakeGuard, ParseFlags
<1>5. CASE ConvertReturns \/ ConvertThrows \/ PrintTable \/ HandleException \/ UNCHANGED cliVars
  BY <1>5 DEF ConvertReturns, ConvertThrows, PrintTable, HandleException, cliVars
<1> QED  BY <1>1, <1>2, <1>3, <1>4, <1>5 DEF CliNext

(* Parsing one of the command lines there are.                              *)
LEMMA ParseInv ==
  ASSUME CliInv, (\E a \in Args : Invoke(a)) \/ ParseArgs \/ Report \/ LoadConfig \/ PlanAndPrint
  PROVE  CliInv'
<1> USE DEF CliInv, Parsed, Speaks, Exited, Guarded, Exit, Proceed, ExitOk, ExitUsage, ExitRuntime, vars,
            disk
<1>1. ASSUME NEW a \in Args, Invoke(a) PROVE CliInv'
  BY <1>1 DEF Invoke
<1>2. CASE ParseArgs
  <2>1. at = "parse" /\ UNCHANGED <<call, stage>> /\ args \in Args /\ mine = 0 /\ ~bar
    BY <1>2 DEF ParseArgs
  <2>2. CASE args.syntax = "help"
    BY <1>2, <2>1, <2>2 DEF ParseArgs, CursorAfter
  <2>3. CASE args.syntax # "help" /\ (args.syntax = "wrong" \/ Rejects(args))
    <3>1. "dryrun" \in DOMAIN Plain \ {"syntax"} /\ Plain.dryrun = FALSE
      BY DEF Plain
    <3>2. args.syntax = "wrong" => args.dryrun = FALSE
      BY <2>1, <3>1 DEF Args
    <3>3. ~args.dryrun
      BY <2>3, <3>2 DEF Rejects
    <3>4. Exit(ExitUsage)
      BY <1>2, <2>3, <3>3 DEF ParseArgs
    <3> QED  BY <2>1, <3>4 DEF CursorAfter
  <2>4. CASE args.syntax # "help" /\ ~(args.syntax = "wrong" \/ Rejects(args))
    <3>1. \/ args.dryrun /\ args.config = None /\ Proceed("report")
          \/ Proceed("load")
      BY <1>2, <2>4 DEF ParseArgs
    <3> QED  BY <2>1, <3>1
  <2> QED  BY <2>2, <2>3, <2>4
<1>3. CASE Report        BY <1>3 DEF Report, CursorAfter
<1>4. CASE LoadConfig    BY <1>4 DEF LoadConfig, CursorAfter
<1>5. CASE PlanAndPrint  BY <1>5 DEF PlanAndPrint, CursorAfter
<1> QED  BY <1>1, <1>2, <1>3, <1>4, <1>5

(* From the guard to the end of convert().                                  *)
LEMMA RunInv ==
  ASSUME CliInv, MakeGuard \/ ParseFlags \/ CallConvert \/ ConvertStep \/ ConvertReturns \/ ConvertThrows
  PROVE  CliInv'
<1> USE DEF CliInv, Parsed, Speaks, Exited, Guarded, Proceed, vars, disk
<1>1. CASE MakeGuard       BY <1>1 DEF MakeGuard
<1>2. CASE ParseFlags      BY <1>2 DEF ParseFlags
<1>3. CASE CallConvert
  <2>1. CASE DetectInput(args.input) = None
    BY <1>3, <2>1 DEF CallConvert
  <2>2. CASE DetectInput(args.input) # None
    BY <1>3, <2>2 DEF CallConvert, Plain
  <2> QED  BY <2>1, <2>2
<1>4. CASE ConvertStep
  <2>1. call' = call
    BY <1>4 DEF ConvertStep, Inspect, Check, Clear, Config, Open, OpenThrows, Write, DriverReturns,
                Close, Unconfig, Rename, Sweep, Unsynth, Throw
  <2> QED  BY <1>4, <2>1 DEF ConvertStep, cli
<1>5. CASE ConvertReturns  BY <1>5 DEF ConvertReturns
<1>6. CASE ConvertThrows   BY <1>6 DEF ConvertThrows
<1> QED  BY <1>1, <1>2, <1>3, <1>4, <1>5, <1>6

LEMMA ExitInv ==
  ASSUME CliInv, PrintTable \/ HandleException \/ Kill \/ UNCHANGED cliVars
  PROVE  CliInv'
<1> USE DEF CliInv, Parsed, Speaks, Exited, Guarded, Exit, Proceed, ExitOk, ExitUsage, ExitRuntime, vars,
            disk
<1>1. CASE PrintTable          BY <1>1 DEF PrintTable, CursorAfter
<1>2. CASE HandleException     BY <1>2 DEF HandleException, Caught, CursorAfter
<1>3. CASE Kill                BY <1>3 DEF Kill
<1>4. CASE UNCHANGED cliVars   BY <1>4 DEF cliVars, cli
<1> QED  BY <1>1, <1>2, <1>3, <1>4

LEMMA CliInvariance == CliSpec => []CliInv
<1>1. CliInit => CliInv
  BY DEF CliInit, CliInv, Parsed, Speaks, Exited, Guarded
<1>2. CliInv /\ [CliNext]_cliVars => CliInv'
  BY ParseInv, RunInv, ExitInv DEF CliNext
<1> QED  BY <1>1, <1>2, PTL DEF CliSpec

(* `nebuladec convert`, called again and again, does to the disk only what  *)
(* successive calls of convert() do: every theorem above holds of it.       *)
THEOREM CommandLineConverts == CliSpec => Spec
<1>1. CliInit => Init
  BY DEF CliInit
<1>2. CliInv /\ [CliNext]_cliVars => [Next]_vars
  BY CliSteps DEF CliInv
<1> QED  BY <1>1, <1>2, CliInvariance, PTL DEF CliSpec, Spec

(* A conversion that exits with 0 has left its own bag, whole, at the       *)
(* output path; 64 and the dry run mean that nothing was converted.         *)
THEOREM ExitStatusIsTrue == CliSpec => []StatusIsTrue
<1>1. CliInv /\ ReturnsItsOwnBag => StatusIsTrue
  BY DEF CliInv, Exited, ReturnsItsOwnBag, StatusIsTrue
<1> QED  BY <1>1, CliInvariance, CommandLineConverts, ReturnMeansPublished, PTL

(* main() exits with the cursor shown, also when convert() throws.          *)
THEOREM CursorComesBack == CliSpec => []CursorIsRestored
<1>1. CliInv => CursorIsRestored
  BY DEF CliInv, Guarded, CursorIsRestored
<1> QED  BY <1>1, CliInvariance, PTL
=============================================================================
