# nebuladec in TLA+

nebuladec reads a ROS 2 bag, decodes the LiDAR packet topics into
`PointCloud2` topics, copies every other topic, and writes a new bag. This
directory holds TLA+ models of the parts of it that have state worth arguing
about, TLC configurations that check them on small instances, and TLAPS proofs
of the results that matter most for every instance. Paths below are relative to
`src/src/` of the repository; `bag_io.cpp` is `nebuladec_bag/src/bag_io.cpp`.

    tlc -config parallel.cfg MCParallelConvert     # any run of the table
    tlapm ParallelConvertProofs.tla                       # any *Proofs module

`PROJECT.json` maps every definition to the lines it translates, and lists the
runs, the hazards, and for each property a plausible mistake (an operator marked
"variant" in the module) that breaks it.

## 1. The system

A call of `nebuladec::bag::convert()` goes through these parts:

    main -> run_convert -> convert() -- inspect() -> identities -> partition_by_support
             |                                        |
             |     resolve topics (TopicMapping), register topics with the writer
             |     (message definitions: the bag's own, or the installed .msg files)
             |                                        |
             |-- resolve_worker_policy -> run_convert_sequential
             |                         -> run_convert_parallel
             |                              reader thread -> worker queues
             |                              ParallelWorker (Decoder, adapter, driver)
             |                              -> write queue -> writer loop
             '-- scratch directory / rename / metadata directory / options file

| Component (code) | State it keeps | Operations | What is hard | What makes it right | Module |
|---|---|---|---|---|---|
| Parallel pipeline (`run_convert_parallel`, `ParallelWorker`, bag_io.cpp) | worker queues, write queue, `active_producers`, abort flag, per-slot decoders and counts | launch, read and dispatch, decode, push, flush, write, close, join, rethrow | threads of three kinds, bounded queues shared by several slots, an exception in any thread at any step | each topic written once, in order; nothing returned after a failure; it ends | `ParallelConvert` |
| Bounded queue and abort flag (`convert_parallel.hpp`) | deque, `closed_`, two condition variables, `aborted_`, `ep_` | push, pop, close, set, take | lost wake-ups, close and abort against waiters | every wait ends; nothing accepted is dropped | `BoundedQueue` |
| Sequential driver (`run_convert_sequential`) | the topic states, the writer | read, feed, copy, flush, return | the trailing scans and their counts; failing midway | the same promise as the pipeline | `SequentialConvert` |
| Worker policy (`resolve_worker_policy`, `largest_divisor_le`) | a scan over candidates | choose driver and pool size | integer edges; a remainder would leave slots without worker | the pool divides the slots and is the largest that does | `WorkerPolicy` |
| Topic identity (`feed_packet`, `Decoder::feed`, `PacketSniffer`, `SupportRegistry`, `inspect`) | two identities, the adapter, the lock | sniff, lock, build an adapter, decide | two copies of one fact with different update rules; a decision made on one message and used for all | the model seen first stays; hint obeyed; what inspect saw is what convert decodes | `TopicIdentity` |
| Output publishing (`convert`, its guards and helpers) | output path, scratch directory, temporary metadata directory, options file | check, clear, open, write, close, rename, clean up | death or exception between any two steps, retries | a published bag is whole; retries work; no leftovers; no overwriting | `OutputPublish` |
| Topic routing and dry run (`plan_convert`, `resolve_discovered_topics`, `register_*_topics`, `McapDefinitionWriter`, `TopicMapping`) | resolved topics, channels, schema ids | resolve, partition, register, write | the dry run and the conversion decide separately; name clashes | the plan is kept; no two sensors in a topic; nothing dropped but what no cloud came of | `TopicRouting` |
| LiDAR adapters (`HesaiAdapter`, `VelodyneAdapter`, `Decoder`) | packets of the first scan, ready clouds, flags | feed, flush | a driver that gives a scan away one packet late and reuses its cloud | all scans delivered, last one too, none invented | `ScanFlush` |
| Progress reporter (`ProgressReporter`, `sum_decoded_message_counts`) | counter, time of the last event | advance, finalize | throttling drops events, and the last must not be one of them | never back, never too far, at the total in the end | `ProgressReporter`, `ReportedConvert` |
| Command line (`main`, `run_convert`) | options, the bar's guard, the exit status | parse, report, plan, convert, print | many ways out of a call; the terminal is changed on the way | the exit status is true; the cursor comes back | `CommandLine` |
| Message definitions (`MessageDefinitionRegistry`, `McapMessageDefinitionSource`, `append_definition`) | the registry, the set `seen` | fill from the bag, load from .msg files, choose | recursion over dependencies, a file missing anywhere | a whole definition of the right type, or none | `MessageDefinitions` |
| Inspection of a bare SQLite file | none beyond a call | queries | which message is "first" | what is concluded: `TopicIdentity`; SQL left out | - |
| Packet extraction, point clouds, output writer adapters | none | convert one message | - | message types and the vendors they commit to: `TopicIdentity`; the conversions are not modelled | - |
| Profiling | timers | - | - | no influence on the conversion; not modelled | - |

Calls go downwards only; the callbacks are the sink of `feed_packet` (a closure
that writes or pushes a cloud) and the Hesai driver's callback, which fills
`ready_clouds_`, and the progress callback. Only the pipeline has threads, and they share exactly the
queues, `active_producers` and the abort flag; each decoder belongs to one worker.

## 2. The modules

### BagStream, ConvertContract (the abstract specification)

`BagStream` holds what both drivers work on: the slots (`make_decoded_slots`),
the copied topics, and the bag as a sequence of topics with the number of clouds
each message yields (`Clouds`) and the topics whose `flush()` gives one more
(`Trailing`). `Expected[s]` is everything stream `s` of the output is owed. An item
carries the set of messages its decoder had consumed (`after`), so that an item
that was decoded too early, too late, or by a decoder that missed a message is a
different item. An item of `Expected` is therefore also a statement about
decoding order, not only about writing order. `Listing(q, s)` says that `q` lists
what stream `s` is owed in writing order; `Output(s)` is that listing.

`ConvertContract` is what a caller is promised by either driver: a stream grows by
exactly its next owed item; `Return` requires that every stream is complete and
nothing failed; the call ends otherwise only because something failed.

### ParallelConvert

One variable per piece of shared state and a program counter per thread: `main`
(launch, writer loop, join), `reader`, and `worker[w]`. Names follow the code
(`in_queue` is `worker_in_queues`, `clouds_produced`, `active_producers`,
`aborted`/`ep` of `AbortFlag`, `advanced` of `ProgressReporter`). A push into a full
queue is a disabled action. Steps a thread takes on its own are merged with the
queue operation before them; steps that other threads can observe are separate:
`AbortFlag::set` is an exchange and a later store, `fetch_sub` and the `close()` that
may follow it are two steps, the reader closes the worker queues one by one.
An exception may be raised wherever `Failures` allows: `read_next`, decoding, the
writer, and `std::thread` construction. A slot's `packets` and `clouds_produced` are
counted where the worker counts them; they and `advanced` are what the result reports
(`ResultIsExact`). The writer's guard against an empty cloud (line 1745) is left out:
`push_cloud` puts none into the queue.

### BoundedQueue

The queue below that abstraction: the mutex makes the code between two waits one
step, and sleeping, being notified, the notification sent after the unlock
(`push`, line 194) or under the lock (`close`), and the 10 ms timeout are modelled. `notify_one`
wakes any sleeper, spurious wake-ups are included in `WaitExpires`.
`ParallelConvert` assumes of the queue what this module shows: a call whose
condition holds is eventually made.

### SequentialConvert

`run_convert_sequential` message by message, with the cloud sink `Put`, the flush
loop (in any order: `states` is an unordered map) and the exception path.

### ProgressReporter, ReportedConvert

`ProgressReporter` is `advance()` and `finalize()`: `last` is the count the callback
saw last, and whether the interval has passed is a free choice. `ReportedConvert`
composes it with the sequential driver by joint actions: `Feed` and `Advance` are
one step, and `convert()`'s call of `finalize()` comes after the driver returned, not
after it threw. In the pipeline the reader alone calls `advance()`, so the reporter
has one caller at a time there, too, and the try-lock cannot fail; the pipeline's
own model keeps the counter (`advanced`) only.

### WorkerPolicy

`resolve_worker_policy` with the descending scan of `largest_divisor_le` as steps.
It establishes `PoolAssumption` of `ParallelConvert`.

### TopicIdentity

One topic of a message type through `inspect()` (its first message) and then `convert()` (all of
them, with a new `TopicState`). A packet is what the detectors make of it: an
identity with or without model, garbage, or empty. `sniffed` is the bag layer's
identity, `identity`/`adapter`/`locked` the Decoder's. The message type gives the
vendor hint, and an adapter can be made for a model whose calibration this machine
has, whatever the support registry says. The first message of
`inspect()` is the first of `convert()`: for the SQLite inspection this relies on
row ids being in time order, as the comment at bag_io.cpp:384 says they are.

### OutputPublish

The phases of `convert()` over the four things it may leave on disk, for up to
`MaxCalls` calls in a row on the same output path, each with any combination of
layout, storage, embedded definitions and write options. Every step may throw;
the process may die between any two. Bags record who wrote them and how much.

### CommandLine

The program around it: it EXTENDS `OutputPublish`, whose actions are the steps of
the `convert()` call in progress, and adds `main` and `run_convert`: what is parsed and
rejected where, `detect_input`, the storage the output's name asks for (`JobOf` gives the
`Jobs` of `OutputPublish`), the guard that hides the cursor, the exit status on every way
out. An option's text is right or wrong; command lines that differ only in what is
not looked at are taken once (`Args`). The process may be killed anywhere.

### MessageDefinitions

Variables and steps, taken within those of `TopicRouting`. A text is the sequence of
the .msg files it is made of; an installation maps a type to the types its fields use.
`Add` takes one of the bag's Schema records (empty ones skipped, the first of a type
wins); which comes first is open, since libmcap keeps them in an unordered map.
`Append_definition` is one call of the loader, `todo` the calls still to be made (the
recursion's stack, depth first), and `seen`, `text` what the code passes down by reference.
`Needs` and `IsDefinitionOf` say independently, without the loader's order or its
`seen`, what a complete definition is.

### TopicRouting

The dry run's `Plan(t)` next to `convert()`'s own loops: resolve, partition, read
the bag's definitions, register clouds, register copies, write; `decoded` is what
`partition_by_support` leaves of the resolved topics. A mapping rule is the partial
function its pattern and template compute on the bag's topics. `bag.forwards` says
that input and output are bare MCAP files, and `Writer` is then `McapDefinitionWriter`
if any definition was read. `schemas` and `channels` are that writer's; a registration
whose type the bag does not define is held up (`Load`) until the loader's steps have
put its schema there (`LoadStep`, `Loaded`). A name that has a channel already is passed
over by that writer without a word; `rosbag2`'s, which the repository does not contain,
takes it for the same type only, as bag_io.cpp:1134-1138 says (`Accepted`).
`bag.yields` are the packet topics whose decoder gives at least one cloud. A supported
one may give none, because its calibration does not load or because every scan is
below `min_points`; nothing is then written of it (`Gives`), as it is not copied either.

### ScanFlush

The two adapters, which differ only in details the module's header names,
against a driver reduced to what the adapters' comments say of it: a packet whose
azimuth is before the last one's completes the scan, any other packet is added to
it, and the cloud it gave away is filled again. The queue to the writer is there
because the hazard is aliasing across it. The properties say what a stream owes as
sets of packet numbers: `Held(k)` are the packets with points of the scan under way
after packet k, `Due` the packets that complete a scan large enough, and a cloud is
right when it lists its set in order (`InOrder`).

## 3. The runs

| Run | Asks | Instance and why it is enough |
|---|---|---|
| `parallel` | Does the pipeline implement the contract in every interleaving, with its internal rules (close last, flush whole topics, no silent failure, exact counts), and does the call end? | Four slots, two workers (so a worker owns two slots and the pool has two members), one message with two clouds, two with none, two trailing scans, a copied topic and one that is not registered, worker queues of two places and a write queue of one, so that reader, workers and writer block on one another; failures everywhere: about 400,000 states. |
| `parallel_launch` | Is every thread joined if one cannot be started? (violated) | as `parallel` with capacities 1. |
| `bounded_queue` | Are wake-ups lost; do close and abort release everyone? | Two producers, two consumers, one place: both kinds of waiter exist in number. |
| `sequential` | Does the other driver implement the same contract, and is the progress it shows true? | Ten messages of alternating topics, three trailing scans, with and without a callback, any event throttled. |
| `worker_policy` | Is the pool a divisor and the largest one? | All inputs up to 9 cores, 13 workers requested, 12 topics: primes, prime powers, and a number with six divisors. |
| `identity` | Model, hint, decision. | Every topic of two messages of two packets each over four vendors, for every message type, on a machine with every calibration and one that lacks some: 377,144 states. The properties compare a packet with an earlier one; two messages are needed for "from the second on". |
| `command_line` | Is what is published whole, one's own, never overwritten; do retries work; is everything cleaned up; is the exit status true and the cursor back? | Two conversions, and any number of other invocations before and between them; two messages, so that a bag can be half written. A retry needs two calls; that no longer history matters is proved for the publishing part (any number of calls). |
| `interrupted` | Does the cursor come back after an interrupt? (violated) | One conversion of one message. |
| `routing` | Plan, names, schemas, completeness. | Two packet topics and one other, every mapping of up to two rules onto a fresh name and a packet topic's own name; four pairs of a bag's records and an installation: the driver's messages only in the bag (in two records), only installed (and reaching one type by two ways), an installation with a file missing, and a bag none of whose records has a text (so that rosbag2 writes); every choice of the topics whose decoder yields a cloud: about 344,000 states. |
| `routing_copies` | Do copies keep their type? (violated) | the same, with a rule that may also give the other topic's name. |
| `scan` | Are all scans delivered, and only those? | All streams of six packets over three azimuths: two full scans and a trailing one fit, of which any packet may be empty. |
| `scan_trailing` | Is every cloud one scan? (violated) | the same. |

Deadlock is checked in the pipeline, the queue and the sequential driver, where a
stop is only legal at the end. The other modules stop when their input is used up.

## 4. Fairness

`ParallelConvert!FairSpec` is weak fairness of the calling thread, the reader and
each worker: the operating system schedules every runnable thread. No strong
fairness is needed, although several workers compete for the write queue: a push
that loses its place waits for the next one, and the number of items is finite.
Exceptions are never forced. `BoundedQueue!FairSpec` assumes the
same of threads, and relies on the 10 ms timeout only once the abort flag is up,
since `AbortFlag::set` notifies nobody; without an abort the notifications alone
have to keep everyone moving, which is the stronger claim.

## 5. What is proved

All theorems hold for every value of the constants that satisfies the named
ASSUMEs of the modules (`BagAssumption`, `PoolAssumption`, `FailuresAssumption`,
`QueueAssumption`, `BoundsAssumption`, `PublishAssumption`, `DistinctAssumption`,
`IdentityAssumption`, `RoutingAssumption`, `ScanAssumption`); nothing else is
assumed. Every safety property of every passing run is stated by a theorem.

**ParallelConvertProofs.** `TypeCorrect`, `ClosesLast`, `FlushIsComplete`,
`FailuresReachTheCaller`, `ResultMatchesOutput`, `PipelineImplements`: any number of
slots, workers, messages, any capacities. None of them is inductive by itself. There
are two invariants, one on top of the other, and each is built of parts that are
proved one after the other. `IInv` is about control:

- `ControlInv`: which places of the three kinds of thread go together, e.g. the
  reader is born after all workers, and leaves after closing all their queues.
- `Counted`: `active_producers` is the number of threads that have not yet
  released it (`ReaderHolds` + |`Live`|, plus one for a worker whose start failed).
  This is the reason why the count neither wraps nor reaches zero early.
- `OneCloser`: at most one thread is about to close the write queue, and then
  nobody holds the count. `ClosesLast` follows.
- `AbortInv`: a raised flag is followed by a stored exception or by a thread about
  to store it; since `main` returns only after all joins, `FailuresReachTheCaller`.
- `DataInv`, `FedInv`: a dispatched message is in its owner's queue or has been
  fed, unless the flag is up; a worker flushes only if it saw end of input with the
  flag down, hence `FlushIsComplete`. This rests on `Owner` being well defined, which is where
  the divisibility of the pool is used (`EverySlotOwned`, `AssignedOnce`).

`OInv` adds the order, from the bag to the output:

- `QueueInOrder`: a worker's queue holds messages its decoders have not come to, in
  the order of the bag, all before the reader's next.
- `TaskOrder`, `TrailIsLeft`, `Finished`: a decoder has consumed exactly the
  messages up to the worker's current one, and a worker leaves undisturbed only with
  its topics decoded and flushed.
- `Accounted`: while nothing has failed, the items of a stream that are written or
  in the write queue are exactly the owed ones that were handed over (`Produced`).
- `WriteInOrder`: each item of the write queue is the next one its stream is owed
  once the items before it are written. Several workers share that queue, so this
  is a statement on each stream's part of it; it holds because each stream
  has one producer.
- `Drained`, `WrittenOnce`, `CloudsCounted`, `PacketsCounted`, `AdvancedCounts`: the write
  loop ends undisturbed on a closed and empty queue, nothing is written twice, and the
  counts of the result are those of what was handed over and fed.

`PipelineImplements` maps each step to a step of `ConvertContract` or a stutter:
the writer's step writes the next owed item (`WriteInOrder`), and the return finds
every stream complete (`Accounted`, `Finished`, `Drained`).

`OutputIsDetermined`: on return every topic of the output is `Output(s)`, which is
defined from the bag and its decoders alone. The number of workers, the capacities and the schedule
are therefore not visible in any topic, and since the sequential driver's
theorem of the same name has the same right side, nor is the choice of the driver. A stream is
at any time a beginning of its listing (`OutputInv`), and a listing is unique without an
induction: the place of an item is the number of owed items before it.
Between topics the order of writing is left to the schedule.

`NoThreadOutlivesTheCall` delimits finding 1: when `convert()` returns, all threads have left;
when it throws, all have left or none was started; and only a failed
start of a thread can end in `std::terminate`. Its `EndInv` is what the joins at the end
of the call leave.

**BoundedQueueProofs.** `QueueTyped`, `WakeupsSuffice`, `CloseReachesSleepers`,
`NothingLeftBehind`, for any number of producers and consumers and any capacity.
`NoLostWakeup` alone is not inductive: `WakesForItems` and `WakesForRoom` count the
notifications still to be sent and the threads already awake against the items and
the free places; a consumer woken in vain would break the count but for `LeavesEmpty`
(no consumer leaves while items remain) and `ClosesLast` with `Counted`
(nothing is pushed after `close()`). `CloseNotifies` names the thread that owes
sleepers the call of `notify_all`.

**SequentialConvertProofs.** `SequentialTypes`; `SequentialImplements`: the
sequential driver implements `ConvertContract`. Its invariant `WrittenInv` says that
the items written are exactly the owed ones that the call has come past (`Covered`).
`SequentialResult` adds `CountsInv`: while the call is alive the counts are those of what was
written and fed. `ReportedConverts`: the driver with its reporter is the driver, so
all of this holds there, and `ProgressShownIsTrue` follows with `ReportInv` (the
count shown was once the count reached, and after `finalize()` it is the total).
`OutputIsDetermined` is the pipeline's theorem for this driver.

Both driver modules begin with the same few lemmas on `BagStream`: the items a stream is owed
are distinct and determined by their source (`OwedShapes`, `OwedFields`, `OwedOnce`).

**WorkerPolicyProofs.** `ScanIsSafe` (no division by zero, no candidate out of
range), `PoolAlwaysFits` and `PoolIsLargest`; the invariant is that the scan has
passed over no divisor. With `PoolAlwaysFits`, `PoolAssumption` of the pipeline is a
fact about the code that calls it.

**OutputPublishProofs.** `PublishTypes`, `PublishIsAtomic`, `ReturnMeansPublished`,
`RetryAlwaysPossible`, `NoTemporariesLeft`, `NothingIsOverwritten`, for any number
of calls and messages. `IInv` adds to the properties what each phase knows: the
output path is free from the check to the rename (`PathIsFree`), the bag being
written is this call's and whole once closed without exception (`BagIsOwn`), and
which temporaries exist in which phase (`Temporaries`). `CommandLineConverts`: the
program takes no step on the disk but those, so the six hold of it, for any number
of invocations. `ExitStatusIsTrue` and `CursorComesBack` rest on `CliInv`: which
arguments lead where (`Parsed`), that the conversion an invocation speaks of is the
last one begun (`Speaks`), what each exit status was preceded by (`Exited`), and
that only a live guard hides the cursor (`Guarded`).

**TopicIdentityProofs.** `IdentityTypes`, `FirstModelStays`, `HintIsObeyed`,
`InspectionIsKept`, for every table of vendors and models, every set of calibrations
and topics of any length. None but `HintHolds` is inductive. `Searching` couples the two
searches, which update by different rules: before a LiDAR shows a model nothing ends
either, from then on both hold that model. `SeenSoFar` and `SameStart` say which packet of the first
message it was: the decision and `convert()` see the same first one
(`OneShowsFirst`), which is all that makes a decision on one message good for the topic.

**TopicRoutingProofs.** `RoutingTypes`, `PlanKept`, `SensorsApart`, `NoTopicDropped`,
`SchemasFit`, for any topics, types, rules and machines. The conversion is a sequence of
loops, and the invariant says of each loop what it has established for the entries it
has passed (`Passed`): no ambiguous topic got through and none with a rule was missed
(`Resolved`, `AllResolved`), the decoded ones are the supported among them (`Split`),
their output names differ pairwise and have a channel (`CloudsApart`), so have the
copies (`CopiesFound`), each channel was made for the one or the other (`Origins`) and
keeps its type (`ChannelTypes`), and
messages go where their topic was registered (`Messages`). `PlanKept` compares the end
with `Plan`, which is computed from the bag and the mapping alone. `NoTopicDropped` rests
on both: every message found a channel, and a topic with messages that is not in the
output is one the plan calls "ok" and whose decoder yields no cloud.

`SchemasFit` states `SchemaIsOfItsType`: the schema of a channel is of the channel's
type and the only one of that type (`Channels`), and its text is the bag's if the bag has
one and otherwise the whole definition. The first half of that is `Records`: what was
read is in the registry, and nothing else is. The second half speaks of a recursion, and
needs no induction over data, because each call is a step: `Walk` says of a load under
way that what was emitted is needed, that what an emitted file uses was emitted or is
still to be called for, and that the type asked for comes first and once. When no
call is left, the emitted files are thus closed under "uses", and as `Needs` is the
least closed set they are all of it (`NeedsFacts`, `WalkLoads`); when a file is
missing, it is a needed one. `Texts` and `Fits` keep this of the schemas made.
A file is emitted under one of its two names only, unless the type asked for uses itself.
`LoadEnds`, the termination argument of the recursion as an action property: while a type
is loaded nothing else happens, and each of its steps leaves fewer files to emit, or as
many and fewer calls (`Nearer`), also if the files form a cycle; an installation is finite.

The attempt to prove `OneSensorPerCloudTopic` in an earlier form, about all channels
of type `PointCloud2`, failed for a good reason: a bag may already hold a topic of that type,
which is copied, and it is no second sensor. The instance checked did not have one. The
property now speaks of the decoded topics, as the check at bag_io.cpp:1145 does.

**ScanFlushProofs.** `ScanTypes`, `CompletedDelivered`, `TrailingDelivered`,
`NothingSpurious`, for streams of any length, any number of azimuths and any
`min_points`. The parts of `IInv` are the packets kept for the replay (`Capture`:
all up to the one that completed the first scan), what the driver holds (`Holds`:
the scan under way, then the last scan followed by what the replay added),
the account of delivered clouds (`Settled`) and how the replay can end (`Ending`).
The key lemma is `LastKeptWraps`: the packets kept end with one that starts a scan, and that
one at the latest gets the last scan out. That is why keeping up to
the completing packet, and not one less, is enough.
`CloudsAreOneTurn`: the azimuths of a delivered cloud never go back, the flushed one
included, so that no cloud covers more than one turn. `OneScanEach`
delimits finding 3: every cloud delivered for a completed scan holds points of one scan,
and so does the flushed one if the stream begins at an earlier azimuth than it
ends (`StartsEarlier`).

### Only model-checked

- Liveness (`Termination`, `EveryCallReturns`): TLAPS does not handle ENABLED and
  liveness under fairness here.
- The four properties of the violation runs, which are false.

No module declares a RECURSIVE operator, so that all of them can be proved about.

## 6. What the runs found

1. `parallel_launch`. If a `std::thread` cannot be started after another one runs
   (bag_io.cpp:1677, 1691), the exception leaves `run_convert_parallel` while the
   started workers are joinable, and their destructors call `std::terminate`. Line
   1756 says "Join all background threads. RAII-safe even on exception."
   `NoThreadOutlivesTheCall` proves that no other exception does this.
2. `routing_copies`. A mapping may send a packet topic to the name of a topic that
   is copied. `register_passthrough_topics` asks the writer for a channel of that
   name, which already exists with type `PointCloud2`; the definition writer returns
   silently (mcap_definition_writer.cpp:162) and the copies are written to it, against
   "preserving the original type". rosbag2's writer would refuse the name.
   `TypesKept` proves that nothing else can do this: a copy keeps its type with the other
   writer or without such a name, and clouds always go to a channel of their type.
3. `scan_trailing`. `flush()` replays the first scan's packets to a driver that
   still holds the last scan. If the stream began at no earlier azimuth than it ended,
   those before the first crossing of the cut are added to the last scan, so the
   trailing cloud also holds points from the start of the bag. This depends on
   the driver behaving as the adapters' comments say. `OneScanEach` proves that no
   other cloud and no other stream is affected.
4. `interrupted`. The cursor is shown again by the destructor of `ProgressBarGuard`
   only (main.cpp:263), and no signal handler is installed: a Ctrl-C during the
   conversion leaves it hidden, where the comment at main.cpp:226-229 says that the
   destructor runs "even if the user Ctrl-C'd mid-decode".

Disagreements noted while reading, without a run of their own:

- The automatic number of workers is rounded down to a divisor of the number of
  topics as well (bag_io.cpp:1340; 5 cores and 7 topics give one worker), where
  bag_io.hpp:153-154 promises min(hardware_concurrency, K).
- A hinted Robosense or Continental topic is locked by its first packet even when
  that shows no model (decoder.cpp:106); `FirstModelIsReported` is stated for the
  LiDARs. Those vendors are only reported, never decoded.
- A plan of `plan_convert` without any error may still be refused by `convert()`:
  two topics with one output name, or an unsupported topic that matches two rules.
- When a failed call wrote in place (definition writer, directory output) its
  truncated bag stays at the output path and blocks the retry. `PublishedIsWhole`
  is therefore stated for the scratch path, and `RetryIsNotBlocked` says that a call
  in which nothing fails is refused only for an output path that existed before it,
  which such a bag is.
- `parse_mcap_compression` and `parse_chunk_size` promise "an exit-64 usage error"
  (main.cpp:137-139) but run inside `run_convert`, which catches what they throw and
  exits with 70.
- `parse_chunk_size` says "a positive integer" (main.cpp:182): `std::stoull` accepts
  "-1" (as 2^64 - 1), and `value * multiplier` wraps without notice, so that
  17179869184G is taken for 0, "let the writer choose".
- main.cpp:279 says that the library does not fire the callback when nothing is
  decoded; `finalize()` does, with 0 of 0, and the guard of `update()` is needed. The
  bar's `make()` does not check for that case either, as line 223-225 says.
- support_registry.hpp says that the adapter factories consult the registry; `make_adapter`
  keeps its own list. The two agree on every model a detector reports, but a model
  the registry supports whose calibration cannot be loaded is decoded to nothing and
  not copied, with a successful result. `NothingIsDropped` names this, with scans that are
  all too small, as its one exception; the dry run says "ok" of such a topic.
- The loader of definitions remembers the type it was asked for as pkg/msg/T and the
  ones fields use as pkg/T, so a cycle through the former would emit it twice, where
  the comment speaks of cyclic references; message types are acyclic. The load ends
  all the same (`LoadEnds`), and nothing else is emitted twice (`SchemasFit`).
- If a bag has two Schema records of one type with different texts, the registry keeps
  the first, and its comment says that this "matches the bag's own record ordering"
  (message_definition.cpp:42-49). The MCAP source goes through `schemas()` of libmcap,
  an unordered map, whose first entry need not be the bag's. Either text is a
  definition of the type, so `SchemaIsOfItsType` allows both.

## 7. Not modelled, and why

- The drivers behind the adapters, `rosbag2`, libmcap and SQLite are not in the
  repository; they appear as their callers use them and are marked external.
- Byte layouts (packet detectors, CDR, `PointCloud2`), text (patterns, templates,
  YAML, SQL), wording of errors, log output and profiling: data no property
  distinguishes.
- Two concurrent `convert()` calls on one output path, which the code does not
  claim to support.
- The SQLite source of message definitions and the directory case of the MCAP one:
  `convert()` loads a registry for bare MCAP files only, so no conversion reaches them.
- A bag whose rows are not in time order, in which the SQLite inspection (bag_io.cpp:394)
  may decide on another message than the one `convert()` decodes first; `InspectionHolds`
  takes them to be the same.
- A packet that completes two scans (hesai_adapter.cpp:235): the modelled driver gives
  away at most one cloud per packet, so that `ready_clouds_` never holds a second one.
- A ROS context, logging, and the tables the program prints.

## 8. Plan

Done in this order, the most important behaviour first: `BagStream` and
`ConvertContract`, `ParallelConvert`, `BoundedQueue` below it, `WorkerPolicy` and
`SequentialConvert` beside it, then `OutputPublish`, `TopicIdentity`,
`TopicRouting`, `ScanFlush`, and the proof modules; then `CommandLine` on top of
`OutputPublish`, `ProgressReporter` with the sequential driver, and `MessageDefinitions`
below `TopicRouting`.

Left: the composition of `TopicIdentity` with the clouds of `ScanFlush`, so that an
adapter built late is covered, and the patterns and templates of the mapping,
segment by segment. Neither changes a statement above.
