----------------------------- MODULE CommandLine -----------------------------
(***************************************************************************)
(* `nebuladec convert` as its user sees it: the exit status, the terminal, *)
(* and, through OutputPublish, the bags on disk.  The program is invoked   *)
(* again and again on one output path; a call of it parses the arguments,  *)
(* and reports, plans or converts.  It may be killed anywhere (Ctrl-C, no  *)
(* handler is installed).                                                  *)
(*                                                                         *)
(* The options are reduced to what run_convert() branches on.  Each call   *)
(* gets a terminal of its own, with the cursor shown.                      *)
(***************************************************************************)
EXTENDS OutputPublish

ExitOk == 0
ExitUsage == 64
ExitRuntime == 70

(* An input path as detect_input() sees it: what is there, and the storage  *)
(* its extension (of a file) or its metadata.yaml (in a directory) names.   *)
Paths == [is : {"file", "directory", "other"}, says : Storages \cup {None}]

(* The command line, and what its config file turns out to be.              *)
Options ==
  [syntax : {"help", "wrong", "right"}, dryrun : BOOLEAN, output : BOOLEAN,
   config : {None, "bad", "good"}, mcap : {"unset", "good", "bad"},
   quiet : BOOLEAN,                          (* --no-progress, or not a TTY *)
   input : Paths, ext : Storages \cup {None}, embeds : BOOLEAN]

Plain ==
  [syntax |-> "right", dryrun |-> FALSE, output |-> TRUE, config |-> "good",
   mcap |-> "unset", quiet |-> TRUE, input |-> [is |-> "file", says |-> "mcap"],
   ext |-> None, embeds |-> FALSE]

(* One command line for all that differ only in what is not looked at.      *)
Args ==
  {a \in Options :
     LET same(fields) == \A f \in fields : a[f] = Plain[f]
         converts == a.syntax = "right" /\ ~a.dryrun /\ a.output /\ a.config = "good"
     IN  /\ a.syntax # "right" => same(DOMAIN Plain \ {"syntax"})
         /\ a.dryrun => a.output = FALSE
         /\ ~converts => same({"mcap", "quiet", "ext", "embeds"})
         /\ a.input.is = "other" <=> a.input.says = None
         /\ a.ext # None => a.input.is = "file"
         /\ a.embeds => a.input = Plain.input}

VARIABLES
  at,       (* where main() is                                              *)
  args,     (* its command line; forgotten (Plain) once convert() has it     *)
  mine,     (* the convert() call of this invocation, 0 before               *)
  bar,      (* whether a ProgressBarGuard lives                              *)
  cursor,   (* the terminal's cursor                                         *)
  status    (* the exit status                                               *)

cli == <<at, args, mine, bar, cursor, status>>
cliVars == <<vars, cli>>

CliInit ==
  /\ Init /\ job = CHOOSE j \in Jobs : TRUE
  /\ at = "idle" /\ args = Plain /\ mine = 0
  /\ bar = FALSE /\ cursor = "shown" /\ status = None

-----------------------------------------------------------------------------
(* A definition marked "variant" is a plausible mistake in the next one.    *)

Proceed(place) == at' = place /\ UNCHANGED <<args, mine, bar, cursor, status>>

Invoke(a) ==
  /\ at \in {"idle", "exited", "died"} /\ call < MaxCalls
  /\ at' = "parse" /\ args' = a /\ mine' = 0
  /\ bar' = FALSE /\ cursor' = "shown" /\ status' = None
  /\ UNCHANGED vars

(* The destructor of the guard, when `options` goes out of scope: on return *)
(* and on an exception.                                                     *)
(* variant: on return only.                                                 *)
CursorOnReturn(c) == IF bar /\ c = ExitOk THEN "shown" ELSE cursor
CursorAfter(c) == IF bar THEN "shown" ELSE cursor

Exit(c) ==
  /\ at' = "exited" /\ status' = c
  /\ cursor' = CursorAfter(c) /\ bar' = FALSE
  /\ UNCHANGED <<args, mine>>

(* main's convert->callback.                                                *)
Rejects(a) == ~a.dryrun /\ (~a.output \/ a.config = None)

ParseArgs ==
  /\ at = "parse"
  /\ CASE args.syntax = "help" -> Exit(ExitOk)
       [] args.syntax = "wrong" \/ Rejects(args) -> Exit(ExitUsage)
       [] args.dryrun /\ args.config = None -> Proceed("report")
       [] OTHER -> Proceed("load")
  /\ UNCHANGED vars

(* detect_input: the storage and layout of the input, or None (it throws).  *)
DetectInput(p) == IF p.is = "other" THEN None ELSE [bare |-> p.is = "file", storage |-> p.says]

(* print_inspect_only: any inspection may throw.                            *)
Report ==
  /\ at = "report"
  /\ \/ DetectInput(args.input) # None /\ Exit(ExitOk)
     \/ Exit(ExitRuntime)
  /\ UNCHANGED vars

LoadConfig ==
  /\ at = "load"
  /\ IF args.config = "bad" THEN Exit(ExitUsage)
     ELSE Proceed(IF args.dryrun THEN "plan" ELSE "guard")
  /\ UNCHANGED vars

(* plan_convert and print_dry_run: a row with an error is a failure.        *)
PlanAndPrint ==
  /\ at = "plan"
  /\ \/ DetectInput(args.input) # None /\ Exit(ExitOk)
     \/ Exit(ExitRuntime)
  /\ UNCHANGED vars

MakeGuard ==
  /\ at = "guard"
  /\ at' = "flags"
  /\ bar' = ~args.quiet /\ cursor' = IF args.quiet THEN cursor ELSE "hidden"
  /\ UNCHANGED <<args, mine, status, vars>>

(* parse_mcap_compression and parse_chunk_size, after the guard is made.    *)
ParseFlags ==
  /\ at = "flags"
  /\ Proceed(IF args.mcap = "bad" THEN "unwind" ELSE "call")
  /\ UNCHANGED vars

(* The storage of the output: a file's extension decides if it names one.   *)
OutputStorage(in, ext) == IF in.bare /\ ext # None THEN ext ELSE in.storage

JobOf(a) ==
  LET in == DetectInput(a.input)
  IN  [bare |-> in.bare, input |-> in.storage, output |-> OutputStorage(in, a.ext),
       embeds |-> a.embeds, options |-> a.mcap = "good"]

CallConvert ==
  /\ at = "call"
  /\ IF DetectInput(args.input) = None THEN Proceed("unwind") /\ UNCHANGED vars
     ELSE /\ Start(JobOf(args))
          /\ at' = "convert" /\ mine' = call' /\ args' = Plain
          /\ UNCHANGED <<bar, cursor, status>>

(* convert() takes a step.                                                  *)
ConvertStep ==
  /\ at = "convert"
  /\ \/ Inspect \/ Check \/ Clear \/ Config \/ Open \/ OpenThrows \/ Write
     \/ DriverReturns \/ Close \/ Unconfig \/ Rename \/ Sweep \/ Unsynth \/ Throw
  /\ UNCHANGED cli

ConvertReturns == at = "convert" /\ stage = "returned" /\ Proceed("table") /\ UNCHANGED vars
ConvertThrows == at = "convert" /\ stage = "threw" /\ Proceed("unwind") /\ UNCHANGED vars

(* The result table; printing it may throw, too.                            *)
PrintTable ==
  /\ at = "table"
  /\ Exit(ExitOk) \/ Proceed("unwind")
  /\ UNCHANGED vars

(* The exit status after an exception.                                      *)
(* variant: the handler falls through to the last return.                   *)
CaughtFallsThrough == ExitOk
Caught == ExitRuntime

HandleException == at = "unwind" /\ Exit(Caught) /\ UNCHANGED vars

(* The process dies: a signal, the end of memory, std::terminate.           *)
Kill ==
  /\ at \notin {"idle", "exited", "died"}
  /\ Proceed("died")
  /\ IF at = "convert" /\ stage \in Running THEN Die ELSE UNCHANGED vars

CliNext ==
  \/ \E a \in Args : Invoke(a)
  \/ ParseArgs \/ Report \/ LoadConfig \/ PlanAndPrint \/ MakeGuard \/ ParseFlags
  \/ CallConvert \/ ConvertStep \/ ConvertReturns \/ ConvertThrows \/ PrintTable
  \/ HandleException \/ Kill

CliSpec == CliInit /\ [][CliNext]_cliVars

-----------------------------------------------------------------------------
(* Properties.                                                              *)

(* "Exit codes: 0 (success), 64 (usage error), 70 (runtime error)": after a *)
(* conversion that exits with 0 the output path holds the bag of this very  *)
(* invocation, whole, whatever earlier ones left behind; 64 means that no   *)
(* conversion was begun.                                                    *)
StatusIsTrue ==
  at = "exited" =>
    /\ status = ExitOk /\ args.syntax = "right" /\ ~args.dryrun =>
         /\ mine = call /\ final # None
         /\ final.by = mine /\ Whole(final)
    /\ status = ExitUsage \/ args.dryrun => mine = 0

(* A call that gets to exit leaves the cursor shown, also when the          *)
(* conversion throws.                                                       *)
CursorIsRestored == at = "exited" => cursor = "shown"

(* "the destructor restores the console cursor ... even if the user         *)
(* Ctrl-C'd mid-decode."                                                    *)
CursorSurvivesInterrupts == at \in {"exited", "died"} /\ mine # 0 => cursor = "shown"
=============================================================================
