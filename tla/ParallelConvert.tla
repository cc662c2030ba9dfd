--------------------------- MODULE ParallelConvert ---------------------------
(***************************************************************************)
(* run_convert_parallel: a reader thread, a pool of decode workers and the *)
(* writer loop on the calling thread, joined by bounded queues and one     *)
(* abort flag.  Every thread is a program counter; a push into a full      *)
(* queue or a pop from an empty one is a step that is not enabled.         *)
(*                                                                         *)
(* BoundedQueue's mutex makes each push and pop one step (module           *)
(* BoundedQueue shows what its condition variables add).  Work that is     *)
(* local to a thread is merged with the queue operation before it.         *)
(***************************************************************************)
EXTENDS BagStream

CONSTANTS
  Workers,   (* the size of the worker pool                                 *)
  InCap,     (* k_default_input_queue_capacity                              *)
  WriteCap,  (* k_default_output_queue_capacity                             *)
  Failures   (* where an exception may occur: read, decode, write, launch   *)

(* resolve_worker_policy only returns divisors of the number of slots.      *)
ASSUME PoolAssumption ==
  /\ Workers \in 1..Len(Slots) /\ Len(Slots) % Workers = 0
  /\ InCap \in Nat \ {0} /\ WriteCap \in Nat \ {0}
  /\ Failures \subseteq {"read", "decode", "write", "launch"}

VARIABLES
  main,              (* where the calling thread stands                     *)
  launched,          (* workers started so far                              *)
  reader,            (* where the reader thread stands                      *)
  next,              (* the message the reader is at                        *)
  advanced,          (* ProgressReporter: messages the reader has counted   *)
  closed_in,         (* worker queues 1..closed_in are closed               *)
  worker,            (* where each worker stands                            *)
  task,              (* the message a worker is decoding                    *)
  nth,               (* clouds of that message already handed over          *)
  slot,              (* the slot a flushing worker is at                    *)
  fed,               (* the messages each slot's decoder has consumed       *)
  packets,           (* per slot, the messages the result will report       *)
  clouds_produced,   (* per slot, the clouds the result will report         *)
  in_queue,          (* worker_in_queues: messages awaiting each worker     *)
  write_queue,       (* items awaiting the writer                           *)
  write_closed,
  active_producers,
  aborted,           (* AbortFlag: the atomic                               *)
  ep,                (* AbortFlag: an exception has been stored             *)
  written            (* the output bag, stream by stream                    *)

mainVars == <<main, launched, written>>
readerVars == <<reader, next, advanced, closed_in>>
workerVars == <<worker, task, nth, slot, fed, packets, clouds_produced>>
queueVars == <<in_queue, write_queue, write_closed>>
abortVars == <<aborted, ep>>
vars == <<mainVars, readerVars, workerVars, queueVars, abortVars, active_producers>>

Pool == 1..Workers

(* worker_assignments: consecutive blocks of K / workers slots.             *)
Per == Len(Slots) \div Workers
Assigned(w, i) == Slots[(w - 1) * Per + i]
Owner(t) == CHOOSE w \in Pool : \E i \in 1..Per : Assigned(w, i) = t

Init ==
  /\ main = "launch" /\ launched = 0
  /\ written = [s \in Streams |-> <<>>]
  /\ reader = "unborn" /\ next = 1 /\ advanced = 0 /\ closed_in = 0
  /\ worker = [w \in Pool |-> "unborn"]
  /\ task = [w \in Pool |-> 0]
  /\ nth = [w \in Pool |-> 0]
  /\ slot = [w \in Pool |-> 1]
  /\ fed = [t \in DecodedTopics |-> {}]
  /\ packets = [t \in DecodedTopics |-> 0]
  /\ clouds_produced = [t \in DecodedTopics |-> 0]
  /\ in_queue = [w \in Pool |-> <<>>]
  /\ write_queue = <<>> /\ write_closed = FALSE
  /\ active_producers = 1
  /\ aborted = FALSE /\ ep = FALSE

-----------------------------------------------------------------------------
(* What the threads share.  A definition marked "variant" is a plausible    *)
(* mistake in the one that follows it, which the runs put in its place to   *)
(* see that a property notices.                                             *)

(* BoundedQueue::push: wait for room, refuse once closed or aborted.        *)
(* variant: one item too many fits.                                         *)
MayPushAtCapacity(q, cap, closed) == Len(q) <= cap \/ closed \/ aborted
(* variant: the wait for room does not look at the abort flag.              *)
MayPushDeafToAbort(q, cap, closed) == Len(q) < cap \/ closed
MayPush(q, cap, closed) == Len(q) < cap \/ closed \/ aborted
(* variant: push_front.                                                     *)
PushedInFront(q, x, closed) == IF closed \/ aborted THEN q ELSE <<x>> \o q
Pushed(q, x, closed) == IF closed \/ aborted THEN q ELSE Append(q, x)

(* BoundedQueue::pop: an item is preferred; FALSE is end of input or abort. *)
MayPop(q) == q # <<>>
(* variant: the wait is not a loop, so a wake-up without an item ends it.   *)
PopRefusedOnWake(q, closed) == q = <<>>
(* variant: end of input is preferred over the items that remain.           *)
PopRefusedOnceClosed(q, closed) == closed \/ (q = <<>> /\ aborted)
PopRefused(q, closed) == q = <<>> /\ (closed \/ aborted)

(* AbortFlag::set, first half: the compare-exchange.  Only its winner goes  *)
(* on to store the exception; the caller continues at "after".              *)
AfterExchange(after) == IF aborted THEN after ELSE "store"

(* A producer leaves: the last of them to do so closes the write queue.     *)
(* variant: fetch_sub taken to return the new count.                        *)
AfterReleaseByNewCount ==
  IF active_producers - 1 = 1 THEN "close_write" ELSE "done"
AfterRelease == IF active_producers = 1 THEN "close_write" ELSE "done"

-----------------------------------------------------------------------------
(* The calling thread: launch the pool and the reader, write, join.         *)

LaunchWorker ==
  /\ main = "launch" /\ launched < Workers
  /\ active_producers' = active_producers + 1
  /\ launched' = launched + 1
  /\ worker' = [worker EXCEPT ![launched + 1] = "pop"]
  /\ UNCHANGED <<main, written, readerVars, task, nth, slot, fed, packets,
                 clouds_produced, queueVars, abortVars>>

LaunchReader ==
  /\ main = "launch" /\ launched = Workers
  /\ reader' = "read" /\ main' = "write"
  /\ UNCHANGED <<launched, written, next, advanced, closed_in, workerVars,
                 queueVars, abortVars, active_producers>>

(* std::thread throws when the system has no thread to give.                *)
LaunchFails ==
  /\ main = "launch" /\ "launch" \in Failures
  /\ main' = "unwind"
  /\ active_producers' = IF launched < Workers THEN active_producers + 1
                                               ELSE active_producers
  /\ UNCHANGED <<launched, written, readerVars, workerVars, queueVars, abortVars>>

(* Nothing joins on this path: destroying a joinable std::thread ends the   *)
(* process.                                                                 *)
Unwind ==
  /\ main = "unwind"
  /\ main' = IF launched = 0 THEN "threw" ELSE "terminated"
  /\ UNCHANGED <<launched, written, readerVars, workerVars, queueVars,
                 abortVars, active_producers>>

(* An empty cloud would not be written, but Decoder and adapters hand over  *)
(* none.                                                                    *)
WriterPop ==
  /\ main = "write" /\ MayPop(write_queue)
  /\ LET x == Head(write_queue)
     IN  written' = [written EXCEPT ![x.stream] = Append(@, x)]
  /\ write_queue' = Tail(write_queue)
  /\ UNCHANGED <<main, launched, readerVars, workerVars, in_queue,
                 write_closed, abortVars, active_producers>>

WriterThrows ==
  /\ main = "write" /\ "write" \in Failures /\ MayPop(write_queue)
  /\ write_queue' = Tail(write_queue)
  /\ main' = "raise"
  /\ UNCHANGED <<launched, written, readerVars, workerVars, in_queue,
                 write_closed, abortVars, active_producers>>

WriterEnds ==
  /\ main = "write" /\ PopRefused(write_queue, write_closed)
  /\ main' = "join"
  /\ UNCHANGED <<launched, written, readerVars, workerVars, queueVars,
                 abortVars, active_producers>>

MainAborts ==
  /\ main = "raise"
  /\ main' = AfterExchange("join")
  /\ aborted' = TRUE
  /\ UNCHANGED <<launched, written, readerVars, workerVars, queueVars, ep,
                 active_producers>>

MainStores ==
  /\ main = "store"
  /\ main' = "join"
  /\ ep' = TRUE
  /\ UNCHANGED <<launched, written, readerVars, workerVars, queueVars, aborted,
                 active_producers>>

(* variant: the workers are not joined.                                     *)
JoinReaderOnly ==
  /\ main = "join"
  /\ reader = "done"
  /\ main' = IF ep THEN "threw" ELSE "returned"
  /\ UNCHANGED <<launched, written, readerVars, workerVars, queueVars,
                 abortVars, active_producers>>

(* Join the reader and the workers, then take() and rethrow, or return.     *)
Join ==
  /\ main = "join"
  /\ reader = "done" /\ \A w \in Pool : worker[w] = "done"
  /\ main' = IF ep THEN "threw" ELSE "returned"
  /\ UNCHANGED <<launched, written, readerVars, workerVars, queueVars,
                 abortVars, active_producers>>

Main ==
  \/ LaunchWorker \/ LaunchReader \/ LaunchFails \/ Unwind
  \/ WriterPop \/ WriterThrows \/ WriterEnds
  \/ MainAborts \/ MainStores \/ Join

-----------------------------------------------------------------------------
(* The reader thread.                                                       *)

AtMessage == reader = "read" /\ ~aborted /\ next \in Messages

ReaderReads ==
  /\ AtMessage /\ Bag[next] \in Streams
  /\ reader' = "push"
  /\ UNCHANGED <<next, advanced, closed_in, mainVars, workerVars, queueVars,
                 abortVars, active_producers>>

(* A null message, or one of a topic the metadata does not name.            *)
ReaderSkips ==
  /\ AtMessage /\ Bag[next] \notin Streams
  /\ next' = next + 1
  /\ UNCHANGED <<reader, advanced, closed_in, mainVars, workerVars, queueVars,
                 abortVars, active_producers>>

ReaderThrows ==
  /\ AtMessage /\ "read" \in Failures
  /\ reader' = "raise"
  /\ UNCHANGED <<next, advanced, closed_in, mainVars, workerVars, queueVars,
                 abortVars, active_producers>>

(* push()'s answer is not looked at: a refused message counts as read.      *)
ReaderDispatches ==
  /\ reader = "push" /\ Bag[next] \in DecodedTopics
  /\ LET w == Owner(Bag[next])
         closed == w <= closed_in
     IN  /\ MayPush(in_queue[w], InCap, closed)
         /\ in_queue' = [in_queue EXCEPT ![w] = Pushed(@, next, closed)]
  /\ reader' = "read" /\ next' = next + 1 /\ advanced' = advanced + 1
  /\ UNCHANGED <<closed_in, mainVars, workerVars, write_queue, write_closed,
                 abortVars, active_producers>>

ReaderForwards ==
  /\ reader = "push" /\ Bag[next] \in Passthrough
  /\ MayPush(write_queue, WriteCap, write_closed)
  /\ write_queue' = Pushed(write_queue, RawItem(next), write_closed)
  /\ reader' = "read" /\ next' = next + 1
  /\ UNCHANGED <<advanced, closed_in, mainVars, workerVars, in_queue,
                 write_closed, abortVars, active_producers>>

ReaderEnds ==
  /\ reader = "read" /\ (aborted \/ next \notin Messages)
  /\ reader' = "close"
  /\ UNCHANGED <<next, advanced, closed_in, mainVars, workerVars, queueVars,
                 abortVars, active_producers>>

ReaderAborts ==
  /\ reader = "raise"
  /\ reader' = AfterExchange("close")
  /\ aborted' = TRUE
  /\ UNCHANGED <<next, advanced, closed_in, mainVars, workerVars, queueVars, ep,
                 active_producers>>

ReaderStores ==
  /\ reader = "store"
  /\ reader' = "close"
  /\ ep' = TRUE
  /\ UNCHANGED <<next, advanced, closed_in, mainVars, workerVars, queueVars,
                 aborted, active_producers>>

ReaderClosesQueue ==
  /\ reader = "close"
  /\ closed_in' = closed_in + 1
  /\ reader' = IF closed_in + 1 = Workers THEN "release" ELSE "close"
  /\ UNCHANGED <<next, advanced, mainVars, workerVars, queueVars, abortVars,
                 active_producers>>

ReaderReleases ==
  /\ reader = "release"
  /\ reader' = AfterRelease
  /\ active_producers' = active_producers - 1
  /\ UNCHANGED <<next, advanced, closed_in, mainVars, workerVars, queueVars,
                 abortVars>>

ReaderClosesWrite ==
  /\ reader = "close_write"
  /\ reader' = "done"
  /\ write_closed' = TRUE
  /\ UNCHANGED <<next, advanced, closed_in, mainVars, workerVars, in_queue,
                 write_queue, abortVars, active_producers>>

Reader ==
  \/ ReaderReads \/ ReaderSkips \/ ReaderThrows
  \/ ReaderDispatches \/ ReaderForwards \/ ReaderEnds
  \/ ReaderAborts \/ ReaderStores
  \/ ReaderClosesQueue \/ ReaderReleases \/ ReaderClosesWrite

-----------------------------------------------------------------------------
(* A worker thread: ParallelWorker::run and the lambda around it.           *)

Goto(w, pc) == worker' = [worker EXCEPT ![w] = pc]

(* pop(), and process_msg up to the decoder's consumption of the packets.   *)
WorkerPops(w) ==
  /\ worker[w] = "pop" /\ MayPop(in_queue[w])
  /\ LET m == Head(in_queue[w])
     IN  /\ task' = [task EXCEPT ![w] = m]
         /\ packets' = [packets EXCEPT ![Bag[m]] = @ + 1]
         /\ fed' = [fed EXCEPT ![Bag[m]] = @ \cup {m}]
  /\ nth' = [nth EXCEPT ![w] = 0]
  /\ in_queue' = [in_queue EXCEPT ![w] = Tail(@)]
  /\ Goto(w, "decode")
  /\ UNCHANGED <<slot, clouds_produced, mainVars, readerVars, write_queue,
                 write_closed, abortVars, active_producers>>

PushCloud(w, x) ==
  /\ MayPush(write_queue, WriteCap, write_closed)
  /\ write_queue' = Pushed(write_queue, x, write_closed)
  /\ clouds_produced' = [clouds_produced EXCEPT ![x.stream] = @ + 1]
  /\ UNCHANGED <<task, fed, packets, mainVars, readerVars, in_queue, write_closed,
                 abortVars, active_producers>>

WorkerEmits(w) ==
  /\ worker[w] = "decode" /\ nth[w] < Clouds[task[w]]
  /\ PushCloud(w, CloudItem(task[w], nth[w] + 1, fed[Bag[task[w]]]))
  /\ nth' = [nth EXCEPT ![w] = @ + 1]
  /\ UNCHANGED <<worker, slot>>

WorkerFinishesMessage(w) ==
  /\ worker[w] = "decode" /\ nth[w] = Clouds[task[w]]
  /\ Goto(w, IF aborted THEN "release" ELSE "pop")
  /\ UNCHANGED <<task, nth, slot, fed, packets, clouds_produced, mainVars, readerVars,
                 queueVars, abortVars, active_producers>>

WorkerReachesEnd(w) ==
  /\ worker[w] = "pop" /\ PopRefused(in_queue[w], w <= closed_in)
  /\ Goto(w, IF aborted THEN "release" ELSE "flush")
  /\ UNCHANGED <<task, nth, slot, fed, packets, clouds_produced, mainVars, readerVars,
                 queueVars, abortVars, active_producers>>

(* The flush loop: past the last slot or aborted, leave it.                 *)
WorkerEndsFlush(w) ==
  /\ worker[w] = "flush" /\ (slot[w] > Per \/ aborted)
  /\ Goto(w, "release")
  /\ UNCHANGED <<task, nth, slot, fed, packets, clouds_produced, mainVars, readerVars,
                 queueVars, abortVars, active_producers>>

WorkerFlushes(w) ==
  /\ worker[w] = "flush" /\ slot[w] <= Per /\ ~aborted
  /\ IF Assigned(w, slot[w]) \in Trailing
     THEN Goto(w, "trail") /\ UNCHANGED slot
     ELSE slot' = [slot EXCEPT ![w] = @ + 1] /\ UNCHANGED worker
  /\ UNCHANGED <<task, nth, fed, packets, clouds_produced, mainVars, readerVars,
                 queueVars, abortVars, active_producers>>

WorkerEmitsTrailing(w) ==
  /\ worker[w] = "trail"
  /\ LET t == Assigned(w, slot[w]) IN PushCloud(w, TrailItem(t, fed[t]))
  /\ slot' = [slot EXCEPT ![w] = @ + 1]
  /\ Goto(w, "flush")
  /\ UNCHANGED nth

WorkerThrows(w) ==
  /\ "decode" \in Failures
  /\ \/ worker[w] = "decode"
     \/ worker[w] = "flush" /\ slot[w] <= Per /\ ~aborted
  /\ Goto(w, "raise")
  /\ UNCHANGED <<task, nth, slot, fed, packets, clouds_produced, mainVars, readerVars,
                 queueVars, abortVars, active_producers>>

WorkerAborts(w) ==
  /\ worker[w] = "raise"
  /\ Goto(w, AfterExchange("release"))
  /\ aborted' = TRUE
  /\ UNCHANGED <<task, nth, slot, fed, packets, clouds_produced, mainVars, readerVars,
                 queueVars, ep, active_producers>>

WorkerStores(w) ==
  /\ worker[w] = "store"
  /\ Goto(w, "release")
  /\ ep' = TRUE
  /\ UNCHANGED <<task, nth, slot, fed, packets, clouds_produced, mainVars, readerVars,
                 queueVars, aborted, active_producers>>

WorkerReleases(w) ==
  /\ worker[w] = "release"
  /\ Goto(w, AfterRelease)
  /\ active_producers' = active_producers - 1
  /\ UNCHANGED <<task, nth, slot, fed, packets, clouds_produced, mainVars, readerVars,
                 queueVars, abortVars>>

WorkerClosesWrite(w) ==
  /\ worker[w] = "close_write"
  /\ Goto(w, "done")
  /\ write_closed' = TRUE
  /\ UNCHANGED <<task, nth, slot, fed, packets, clouds_produced, mainVars, readerVars,
                 in_queue, write_queue, abortVars, active_producers>>

Worker(w) ==
  \/ WorkerPops(w) \/ WorkerEmits(w) \/ WorkerFinishesMessage(w)
  \/ WorkerReachesEnd(w) \/ WorkerFlushes(w) \/ WorkerEmitsTrailing(w)
  \/ WorkerEndsFlush(w) \/ WorkerThrows(w)
  \/ WorkerAborts(w) \/ WorkerStores(w)
  \/ WorkerReleases(w) \/ WorkerClosesWrite(w)

-----------------------------------------------------------------------------
Ended == main \in {"returned", "threw", "terminated"}

(* Once the call has ended no thread of it takes a step.                    *)
Stopped == Ended /\ UNCHANGED vars

Next ==
  \/ ~Ended /\ (Main \/ Reader \/ \E w \in Pool : Worker(w))
  \/ Stopped

Spec == Init /\ [][Next]_vars

(* The operating system schedules every thread that can run.                *)
Fairness ==
  /\ WF_vars(~Ended /\ Main)
  /\ WF_vars(~Ended /\ Reader)
  /\ \A w \in Pool : WF_vars(~Ended /\ Worker(w))

FairSpec == Spec /\ Fairness

-----------------------------------------------------------------------------
(* Properties.                                                              *)

MainPlaces == {"launch", "unwind", "write", "raise", "store", "join",
               "returned", "threw", "terminated"}
ReaderPlaces == {"unborn", "read", "push", "raise", "store", "close",
                 "release", "close_write", "done"}
WorkerPlaces == {"unborn", "pop", "decode", "flush", "trail", "raise", "store",
                 "release", "close_write", "done"}

DecodedMessages == {m \in Messages : Bag[m] \in DecodedTopics}
Item == [stream : Streams, src : 1..Len(Bag) + 1, nth : Nat, after : SUBSET Messages]

ControlTypes ==
  /\ main \in MainPlaces /\ launched \in 0..Workers
  /\ reader \in ReaderPlaces /\ next \in 1..Len(Bag) + 1
  /\ advanced \in Nat /\ closed_in \in 0..Workers
  /\ worker \in [Pool -> WorkerPlaces]
  /\ slot \in [Pool -> 1..Per + 1]

FlagTypes == write_closed \in BOOLEAN /\ aborted \in BOOLEAN /\ ep \in BOOLEAN

DataTypes ==
  /\ task \in [Pool -> 0..Len(Bag)]
  /\ nth \in [Pool -> Nat]
  /\ fed \in [DecodedTopics -> SUBSET Messages]
  /\ packets \in [DecodedTopics -> Nat] /\ clouds_produced \in [DecodedTopics -> Nat]
  /\ in_queue \in [Pool -> Seq(DecodedMessages)]
  /\ \A w \in Pool : Len(in_queue[w]) <= InCap
  /\ write_queue \in Seq(Item) /\ Len(write_queue) <= WriteCap
  /\ written \in [Streams -> Seq(Item)]

(* Every variable keeps its type, no queue outgrows its capacity and the    *)
(* unsigned count of producers neither wraps nor overcounts.                *)
TypeOK ==
  /\ ControlTypes /\ FlagTypes /\ DataTypes
  /\ active_producers \in 0..Workers + 1

(* The write queue closes only once the reader and every worker are through *)
(* with it, so a push into it is never refused for being late: what the     *)
(* active_producers count is for (bag_io.cpp, steps 5 to 7).                *)
WriteQueueClosesLast ==
  write_closed => reader = "done" /\ \A w \in Pool : worker[w] = "done"

(* A decoder is flushed only after it was fed every message of its topic,   *)
(* also when an abort elsewhere stopped the reader early: a trailing scan   *)
(* is never cut from a truncated input.                                     *)
FlushesWholeTopics ==
  \A w \in Pool : worker[w] \in {"flush", "trail"} =>
    \A i \in 1..Per : fed[Assigned(w, i)] = MessagesOf(Assigned(w, i))

(* An exception in any thread is what the caller gets: convert() does not   *)
(* return a result while the flag is up or an exception is in flight, even  *)
(* though the flag is raised before the exception is stored.                *)
NoSilentFailure ==
  main = "returned" =>
    /\ ~aborted /\ ~ep
    /\ reader \notin {"raise", "store"}
    /\ \A w \in Pool : worker[w] \notin {"raise", "store"}

(* The numbers a successful call reports are what happened, topic by topic: *)
(* the clouds counted were all written, every message of the topic was      *)
(* decoded and counted once, and progress counted every decoded message.    *)
ResultIsExact ==
  main = "returned" =>
    /\ \A t \in DecodedTopics :
         /\ clouds_produced[t] = Len(written[t])
         /\ packets[t] = Cardinality(MessagesOf(t))
    /\ advanced = Cardinality(DecodedMessages)

(* An exception has been raised, whether or not the flag shows it yet.      *)
Faulted ==
  \/ aborted
  \/ main \in {"raise", "unwind", "threw", "terminated"}
  \/ reader = "raise"
  \/ \E w \in Pool : worker[w] = "raise"

Contract == INSTANCE ConvertContract WITH
  status <- IF Ended THEN main ELSE "running",
  failed <- Faulted,
  written <- written

(* The pipeline implements the contract of convert(): each stream receives  *)
(* exactly what it is owed, in order and without loss or repetition, and    *)
(* success is reported only for a complete output.                          *)
ImplementsContract == Contract!Spec

(* However the threads interleave and whatever fails, the call ends: no     *)
(* thread waits for ever on a full or an empty queue.                       *)
Termination == <>Ended

(* "Join all background threads. RAII-safe even on exception."              *)
NeverTerminated == main # "terminated"
=============================================================================
