# A TLA+ verification of aeron-fast

aeron-fast measures the latency and throughput of an Aeron media driver with two
C programs: `binary_publisher` offers timestamped messages, `binary_subscriber`
receives them and keeps latency statistics. Scripts build, start and stop the
driver. The repository carries the headers of the Aeron client, and much of the
client is in them: ring buffers, log buffers, publications, images, assemblers,
hash maps, counters and the control protocol. This directory models the programs,
the scripts and that client code, checks the models with TLC on small instances
and proves with TLAPS, for every value of the constants, the central invariants of
both programs, the safety of the client's shared objects, and that the array queues
implement their abstract specification. Paths below are relative to the repository; `include/` is
`c-performance/aeron-lib/include/`.

## The system, its parts and their modules

The programs:

| Part | Source | Module | State and operations |
|---|---|---|---|
| subscriber process | `c-performance/src/binary_subscriber.c` | `Subscriber` | `running`, `stats_mutex`, `g_stats`, the Aeron objects open, two threads' positions; open, wait, poll, `process_message_fragment`, report, stop, close |
| publisher process | `c-performance/src/binary_publisher.c` | `Publisher` | the same, with send counters, a retry budget and a message buffer; offer, count, retry, report, stop, close |
| latency statistics | `c-performance/src/performance_stats.c` | `LatencyBuckets`, `LatencyRecorder`, `MessageRecorder` | counters, extremes, buckets, detail array; `record_latency` and `record_message_latency` as their atomic instructions, run by several threads |
| command line | `c-performance/src/config_parser.c` | `ConfigParser` | `config_t`; defaults, environment, both parsers, validation, effective channel. `getopt_long` is external |
| message format and what is reported of it | `c-performance/src/binary_message.c` | `MessageFlow` | a message as bytes on hosts of both byte orders, its fragments, the counts and the bandwidth formula; publisher and subscriber as one composed system |
| driver scripts | `linux-script/*.sh` | `DriverScripts` | the driver processes; check, launch, verify, stop, kill, by several shells |

Streams of messages:

| Part | Source | Module | Notes |
|---|---|---|---|
| abstract queue | (specification) | `ClaimQueue` | what a queue with claims promises: claims are passed in order, a passed claim was finished, an open one stops the consumer |
| ring buffers | `include/concurrent/ringbuffer/` | `RingBuffer`, `ManyToOneRingBuffer`, `OneToOneRingBuffer` | the consumer once, each kind of producer in its module; producers that die, and `unblock` at any moment between two reads |
| array queues | `include/aeron/concurrent/*array_queue.h` | `ArrayQueue` | MPSC and SPSC, offer, poll, drain, size |
| log buffers | `include/concurrent/logbuffer/` | `LogBuffer` | three partitions, tails, term counts, 32-bit term ids that wrap (`Int32` with a small half word) |
| concurrent publication | `include/Publication.h` | `ConcurrentPublication` | offer, tryClaim, commit, abort, rotation, position, close, by several threads |
| exclusive publication | `include/ExclusivePublication.h` | `ExclusivePublication` | the same for one thread with several open claims, against a driver that reads the producer position in two loads |
| image | `include/Image.h` | `LogBuffer`, `Image` | all polls, peek, block poll, bounded polls, close, copies |
| fragment assemblers | `include/*FragmentAssembler.h`, `include/BufferBuilder.h`, `include/wrapper/*FragmentAssembler.h` | `Assembler` | messages of several frames, gaps, aborts, buffers that grow |
| images of a subscription | `include/Subscription.h`, `include/concurrent/AtomicArrayUpdater.h` | `SubscriptionImages` | the array the conductor replaces under a reader, access by access |

Tables and formats:

| Part | Source | Module | Notes |
|---|---|---|---|
| C hash maps | `include/aeron/collections/*_hash_map.h` | `HashMaps` | four maps in one module: the kinds differ in keys and in what a put replaces |
| C counter map | `include/aeron/collections/aeron_int64_counter_map.h` | `CounterMap` | |
| counters | `include/concurrent/Counters*.h`, `include/HeartbeatTimestamp.h`, ... | `Counters` | the manager against lock-free scans |
| control protocol | `include/command/`, `include/DriverProxy.h`, `include/DriverListenerAdapter.h`, `include/aeron/command/` | `ControlProtocol` | the flyweights; every command and event written with one side's layout and read with the other's, a correlation id cut to 32 bits included |
| broadcast buffer | `include/concurrent/broadcast/` | `Broadcast` | transmitter, receiver, copying receiver |
| channel URIs | `include/ChannelUri*.h` | `ChannelUri` | builder, printer, parser, edits |
| error log | `include/concurrent/errors/` | `ErrorLog` | record and read, access by access |

The client:

| Part | Source | Module | Notes |
|---|---|---|---|
| client over the C library | `include/wrapper/Aeron.h`, ... | `ClientRegistry` | pending commands, handlers, resources, admin lock, exceptions of commands and of constructors, the library's conductor as an external actor |
| its publications | `include/wrapper/Publication.h`, `include/wrapper/ExclusivePublication.h` | `PublicationHandle` | a pointer that threads share, one of which closes it; a close that the library refuses |
| its images | `include/wrapper/Image.h`, `include/wrapper/Subscription.h` | `ImageHandle` | objects that retain an image of the library, and copies that do not |
| agents | `include/concurrent/AgentRunner.h`, `AgentInvoker.h` | `Agents` | start, run, close by several threads; the thread runs before `m_thread` holds it |
| conductor timeouts | `include/ClientConductor.h` | `ConductorTimeouts` | late and lost heartbeats, a paused client, a driver that crashes or shuts down |

How they interact. In each program the main thread and the statistics thread share
`g_stats` under `stats_mutex` and the flag `running` without it; a signal handler
clears the flag at any moment. The subscriber counts in a callback of the poll; the
publisher's progress depends on what the offer answers. A publication appends frames
to a log buffer, which an image reads; the log and the image's poll are both in
`LogBuffer`, which the publication modules extend, so that they contain a stream from
the offer to the handler; an assembler turns the frames back into messages. A client sends commands to the driver
through a many-to-one ring buffer and gets answers from a broadcast buffer, in the
layouts of the control protocol. The conductor's thread changes arrays, images and
handles under the application's threads. The wrapper's classes hold pointers into a
C library whose own thread frees what they point to.

What is hard here: updates of several words that another thread may see half done;
limits, heads and counts that are stale when used; producers that die between a claim
and its commit; positions and term ids that wrap; chains of hash entries that wrap;
lapped receivers; objects freed under a call; starts and closes that race; timeouts
at their edge. PROJECT.json lists these hazards line by line with the properties
aimed at each.

### Conventions

A step ends at an access to memory that another actor can see, in program order (the
code uses acquire loads, release stores and sequentially consistent exchanges where
its algorithm needs the order; the relaxed counters of `performance_stats.c` are
discussed below). A variable keeps its C or C++ name; `call`, `pc`, `reader`, `tx`,
`rx` and the like hold a thread's position and its locals. Data is what the properties
tell apart: a message is a number, a text a sequence of tokens, lengths are in units of
the record alignment. What is marked external in PROJECT.json (the operating
system, `getopt_long`, the C library, the driver, the `.cpp` files that are not in the
repository) answers in every way that its header or its users allow. `Mutant:` marks an
operator that is a plausible error in the definition after it; nothing uses it but
the experiments that replace that definition by it to see a property fail.

### The two processes

`main` and `stats` are the positions of the two threads (`stats = "none"` before, or
without, a successful `pthread_create`); `mutex` is the holder of `stats_mutex`, `held`
the set of objects that are open. Each action is named after the call or the part of the
function it stands for, from `aeron_context_init` to the last close; each call
succeeds or sends `main` to the close-down. Inside a critical section the individual
updates are steps, so that a report without the lock would see half of them.
`JoinUninitialised`: after a failed `pthread_create` the join reads a thread id that was
never written, undefined behaviour modelled as a crash, a return, or (no fairness
is assumed of it) a hang. The flag `running` is a plain `bool`; every loop that reads it
also calls an external function, and the handler's address escapes to `signal`, so the
compiled loops re-read it and the model reads it afresh at each test. A start that
ends at the command line is in `ConfigParser`.

`LatencyRecorder` and `MessageRecorder` interleave the atomic instructions of the
recorders. They are relaxed, which orders nothing between two locations, so their
properties speak of one location at a time, or of states in which no call is in progress.

### Refinement

`ClaimQueue` is the promise of every queue here: a producer claims the next place,
later commits or gives up its claim, and the consumer passes the claims in order, stops
before one that is open, and is handed exactly the messages of those that were
committed. Five modules instantiate it as `Queue` with a refinement mapping:
`ManyToOneRingBuffer`, `OneToOneRingBuffer`, `ArrayQueue` twice (many producers and
one), `ConcurrentPublication` and `ExclusivePublication`. A claim is made where the tail
moves, is finished where the length becomes positive, and is passed where the consumer's
position moves over its end; padding, retries, rotations and reads without result
are stuttering steps. For the array queues and both ring buffers the refinement is proved
as well (below).

## Runs

A run is one question about a group of components. The runs of the two processes
check `Subscriber` and `Publisher` themselves, with the constants of their cfg. The
MC modules are suites: they instantiate several components with small constants, `part` picks at the start the one that moves,
and the variables it lacks are `Absent` throughout. A suite is a disjoint union: every
behaviour of it is a behaviour of one component. A property of a suite joins the
properties of its components that make one statement, each under its guard
`part = ...`: `RecordsIntact`, say, joins `NeverOverrun`, `FreeSpaceZeroed`,
`NoTornMessage` and `SizeWasTrue` of the queues. `SuiteAssumption` evaluates the
components' assumptions. All parts of `MCClient`, the queues and the images of
`MCStreams` and the counters of `MCStructures` take their constants from the cfg, so that
the theorems about them hold for every value; what the suites fix is said with the
theorems.

| Run | Expectation | Shows |
|---|---|---|
| `subscriber` | pass | with signals and failures at every step: `ReportSeesWholeUpdates`, `OvershootBounded`, `FinalReportCoversRun`, `HistogramTotal`, `ReleasesAll`, `StopIsHonoured`, and `Inv`, the inductive invariant of the proofs |
| `publisher` | pass | `ReportSeesWholeUpdates`; `RunIsSound`: nothing sent too many, retries bounded, a final report about the whole run; `ReleasesAll`; `AlwaysEnds` |
| `programs` | pass | `RecordersExact`: counts, sums, extremes, buckets (of whole microseconds, rounded down) and slots whatever the interleaving, plain fields while no two calls overlap; `StartsAsAsked`: accepted command lines mean what they say, start scripts that meet no other between check and launch start one driver; `ReportIsTrue`: latency, count and bandwidth of messages below the MTU |
| `streams` | pass | ring buffers and array queues: `ImplementsClaimQueue`, and never overrun or torn, with sizes that were true at some moment (`RecordsIntact`), for many producers up to a padding of `unblock` that strays; `UnblockEndsARecord`: no such padding ends inside a record; `PollsExact`: every frame handed over once, up to the bound; `WholeMessages` from the assemblers, aborted ones again; `SnapshotOfOneMoment`: a walk over the images sees the list of one moment, never a freed one |
| `publications` | pass | over logs that rotate, lap and run out, both publications have `ImplementsClaimQueue`; `StreamIntact`: no hole and no stale frame; `NeverOverrun`; `PositionsSound`: rotations in order, positions that the stream has reached, a driver's producer position that is right at every store, across a lap |
| `structures` | pass | `MapsExact`: the maps agree with a dictionary and visit each entry once; `SnapshotOfOneCounter` under reuse; `BroadcastIsHonest`: messages whole and in order, losses reported; `ProtocolAgrees`: both sides read what the other wrote; `UriSurvives` building, printing and parsing, for texts without a bar |
| `client` | pass | `NoUseAfterFree` of a command, callback, publication or image, and `OneOwner` of a resource, but in the cases that they name (below); `AgentsCloseOnce`; `ClosedMeansDriverEnded` for a conductor that is on time; `ErrorLogExact`: one whole record per distinct error |
| `delivery` | pass | liveness of the queues, publications, the broadcast buffer and the pair of programs: `AcceptedIsDelivered`, past dead producers, padding and rotation, up to the final report of the subscriber |
| `progress` | pass | liveness of the rest: `CallsReturn` of recorders, client and closed agents; `FoundIsStopped` by the stop script; `UnretainedIsFreed` images; `DriverEndNoticed`, and a dropped client; `NoStarvation` of an image |
| `subscriber_join` | violation | a failed `pthread_create` is followed by a join of an uninitialised id |
| `publisher_admin` | violation | `ADMIN_ACTION`, which `aeronc.h` says to retry, ends the run |
| `config_documented` | violation | the command lines of the README do not set the endpoint they name |

What the cases are. `unblock` is the driver's answer to a head that does not move,
and nothing tells it a slow producer from a dead one: it makes padding of a live
record, or of more than the buffer holds. The history variable `strayed` is set there, the
behaviour is not followed any further, and what is said of the ring buffer of many
producers is said up to that moment; `LiveClaimsKept` (Divergences) is its negation. In
the client, `again` collects the commands that were polled after their end,
`overlap` marks the calls on a publication that a close overlaps, `copied` the
images of which an object was copied, and `raced` a runner that was closed during a
start. Nothing rules these uses out: they happen in the run, and the
properties say what they leave intact.

Deadlock is checked for the two processes; the suites switch the check off, because
their components stop when the bound on writes, messages or calls is reached.

Bounds and why they are enough.

- Processes. `Word = 16` with two nanoseconds to the microsecond and three buckets
  puts wrapped latencies, both sides of every limit and a wrapping sum within reach of
  three messages. The target can be hit in the first and in the last fragment of a
  poll; one length is too short for a timestamp. The publisher sends three messages with
  a budget of two retries, so a budget is used up, reset and exceeded.
- Recorders. Three threads and four calls: more calls than detail slots, a lost exchange
  and a second loss.
- Queues. A ring buffer of eight units takes three records and goes around with the
  fourth, which finds too little room before the end (`Start` puts the tail there);
  with fewer units no record would fit behind a padding. Array queues of two places
  see their tail one full lap ahead.
- Publications. Terms of twelve units hold a message and part of another, so every second
  message rotates; term ids live in a word of four (`HalfWord = 4`), so that the third
  rotation wraps them, and `StartCount = 2` starts one rotation before the end.
  The window of six units is half a term, as the driver's. The parts `lap`, `position`
  and `driver` go once around all three partitions; terms of one frame let four messages
  do so.
- Streams. Messages of one to three frames, two sessions, two terms; the gap before
  a message is at most two frames.
- Tables. Four keys whose codes collide and whose chain wraps around the array, doubled
  once or twice. Two counter records, one of which is freed and reused, under a scan. A
  broadcast buffer of eight units is lapped by its sixth message. Correlation ids
  start beyond the half of a narrow word (`FirstId`, `HalfWord`), so that the cast of one
  changes it.
- Client. Two threads and two ids; two image objects and two images; an error log with
  room for two of three errors. Timeouts of two to five ticks with gaps on both sides.

Symmetry is used for threads, producers and ids that no definition tells apart, in
safety runs only.

Fairness. A thread of a running process is scheduled: weak fairness of `stats_thread` and
of `MainThread` in the subscriber; in the publisher `MainThread` is strongly fair, because
it may wait for the mutex again and again while the other thread reports, once a
second. This includes that the driver answers the asynchronous add, with an error at
the latest. Nothing is assumed of signals, of the clock, or of the join of a thread that
does not exist. In the suites each thread goes on with a call it has begun, and
nothing makes an application begin a call, except where its own loop does (the producers
of the array queue and the publisher in `delivery`). Since one component moves, a
conjunct such as `WF_vars(Reader)` is the fairness of that component's reader. Strongly
fair are the two calls of the driver's loop on the ring buffer, `read` and `unblock`: it
makes both again and again, `unblock` whenever the head has stood still, and each would
otherwise disable the other; and the calls of `ClientRegistry`, which wait for a lock that others take
in between, and the driver that answers them.

## Divergences

Three have a run of their own (above) and are the findings of PROJECT.json. TLC
refutes the following properties too, each with its component alone and the constants
given. Where a constant is given, the passing runs use another value, so that they check
what the code does keep; where it says any, the passing property is the weaker one that the
code keeps. The definitions are in the modules.

| Module, property | With | What the code does |
|---|---|---|
| `Publisher`, `SendsWithoutSubscriber` | `Ipc = FALSE` | warns that it goes on without a subscriber (`binary_publisher.c:351`) and ends at the first message |
| `Publisher`, `CompletionMeansSent` | any | exits with 0 and its completion line after a failed offer |
| `Publisher`, `ReportsAfterStart` | any | a report can be computed before the start times are set |
| `LatencyRecorder`, `FirstCallsRecorded` | two threads | a lost race for a slot leaves a call without its detail record |
| `MessageRecorder`, `MinIsDescribed`, `RecordedIsCount` | calls that overlap (`PlainFieldsExact` sets them aside) | plain stores beside atomic ones describe another message's minimum, or hide a record |
| `ConfigParser`, `CountIsPositive` | a count of -1 | becomes 2^64 - 1 and passes the validation |
| `ConfigParser`, `DocumentedDefaults` | no count given | `README.md:108` and `:120` give 10000000 and 50000000, `common_types.h:19-20` has 1000000 and 20000000 |
| `MessageFlow`, `CountsMessages` | `MessageSize > MaxPayload` | every fragment is counted as a message |
| `MessageFlow`, `BandwidthIsTrue` | `Width = 64` for 16 bytes | the product with 10^9 wraps from 18.4 GB on |
| `MessageFlow`, the report in `MCDelivery!AcceptedIsDelivered` | `TargetCount > MessageCount` | with both defaults the subscriber never ends |
| `DriverScripts`, `OneDriver` | any | two starts at once both find no driver and launch one each |
| `DriverScripts`, `AlreadyMeansRunning` | a stopper | a driver about to exit counts as running |
| `ManyToOneRingBuffer`, `LiveClaimsKept` | any | `unblock` makes padding of a record that is only slow, or behind a dead one and not begun, although a complete record follows (`ManyToOneRingBuffer.h:206`, `:222`); and it scans into the trailer, so that the padding ends past the buffer (`:214`) |
| `ConcurrentPublication`, `PositionNeverGoesBack` | any | between `casRawTail` (`LogBufferDescriptor.h:384`) and `casActiveTermCount` (`:386`) of a rotation that laps the log, a thread with the old count reads a later term's tail, and a smaller position next |
| `Image`, `ClosedPositionIsConsumed` | a close during a poll | the final position is one the poll has passed |
| `Image`, `CopyKnowsEndOfStream` | `"copy" \in Ops` | a copy of a closed image does not know the end of its stream |
| `ExclusivePublication`, `RangesAreOwn` | `GoesOn = TRUE` | after `MAX_POSITION_EXCEEDED` a shorter message is written over committed padding |
| `HashMaps`, `CounterMap`, `ProbesEnd` | `AllocFails = TRUE` | the threshold is raised before the allocation that fails |
| `HashMaps`, `StrKeyLivesWithValue` | the kind `str` | a put that replaces a value keeps the key of the old one, which its owner may free with it (`aeron_str_to_ptr_hash_map.h:184-192`) |
| `CounterMap`, `CountersExact` | a key equal to `initial_value` | rehash takes the entry's place as free |
| `Counters`, `HeartbeatIsFound` | `"heartbeat" \in Scans` | the last counter id is not looked at |
| `ControlProtocol`, `DriverReadsOnlyWhatWasSent` | any | the C struct for removing a publication is longer than the C++ message |
| `Broadcast`, `MessagesIntact` | `GoesOn = TRUE` | after the exception the receiver starts inside a record |
| `Broadcast`, `NoSilentLoss` | `PayloadAsLength = 2 * Capacity`, twenty messages | a receiver overtaken by two laps within one receive takes message bytes for the length of a padding record, and its check of the cursor passes (`BroadcastReceiver.h`, `receiveNext`) |
| `ClientRegistry`, `NeverPolledAgain` | any | a failed command, one whose object could not be made, and every destination stay in the registry and are polled again after their end |
| `ClientRegistry`, `UnknownIsNull` | any | an unknown id throws |
| `PublicationHandle`, `SharedSafely`, `WindowOrClosed` | any | "threadsafe and can be shared between publisher threads" (`wrapper/Publication.h:83`), but close frees the publication under another thread's call, and between the two questions of a window |
| `PublicationHandle`, `ClaimOnSuccess` | any | a failed claim wraps an uninitialised pointer |
| `ChannelUri`, `ResetsItsOwn`, `MediaIsKnown`, `TermIdFits` | any | `rejoin(nullptr)` resets `reliable`; any media with parameters; a 33-bit term id |
| `ChannelUri`, `BuiltIsParsed` | a text with a bar in `Texts` | `alias("a\|b")` and the other text setters put the bar into the channel, where the parser ends the value |
| `Assembler`, `WholeMessages` | `LongestGap = 3` | the rest of a message at the same offset of the next term is appended |
| `Assembler`, `PositionIsEnd`, `HeaderOfLast`, `BufferIsFreed` | an abort; any; the wrapper | a repeated completion uses the wrong length; the header is the first frame's; nothing is freed |
| `ImageHandle`, `CopiesAreSafe` | any | "can be effectively copied and moved" (`wrapper/Image.h:114`), but a copy releases what it did not retain |
| `SubscriptionImages`, `ImageOrException`, `NotConnectedWasTrue` | `imageByIndex`, `isConnected` | reads past the array; answers for a moment that never was |
| `Agents`, `EveryCloseWaits` | any | "This method waits for the thread to join" (`AgentRunner.h:183`), but a close that comes while another one waits loses the exchange and returns at once while the agent runs (`:188-194`) |
| `Agents`, `CloseWaits` without `raced` | any | a close during a start finds no thread to join |
| `Agents`, `NoWorkAfterClose` | any | an invoker started after its close works |

Two losses have no property, since nothing in the repository says otherwise: a
resource whose object cannot be made after its command has ended is never closed
(`wrapper/Aeron.h:251`), and `~Publication` does not look at the answer when the library
refuses to close.

## Proofs

`SubscriberProofs` proves, for every target, fragment limit, word width, bucket
table ending in `UINT64_MAX`, clock behaviour and bound:

- `TypeCorrect`: `Spec => []TypeOK`;
- `Overshoot`: `Spec => []OvershootBounded`;
- `ReportsConsistent`: `Spec => []ReportSeesWholeUpdates`;
- `FinalReport`: `Spec => []FinalReportCoversRun`;
- `Releases`: `Spec => ReleasesAll`;
- all from `Invariance`: `Spec => []Inv`.

None of them is inductive alone. `Inv` adds: who holds the mutex where
(`MutexHeld`); that the statistics exist during the run, the thread is created
once, and only a finished thread is passed at the join (`Lifecycle`); how many
messages the poll in progress can still add, from which also `batch` stays a
natural number (`BatchBound`); by how much the copies of each counter differ at
every point of the critical section (`Counting`); and when `end_time` is set and
how the times are ordered (`Timing`). Each conjunct has its lemma, with one step per
action or, where a group of actions leaves the same variables alone, a frame lemma.
`BucketExists` shows that the bucket loop always finds a bucket; it uses that the
naturals are well-founded.

`PublisherProofs` proves, for every message count, size, retry budget and bound:

- `RunSound`: `Spec => []RunIsSound`;
- `ReportsConsistent`: `Spec => []ReportSeesWholeUpdates`;
- `Releases`: `Spec => ReleasesAll`;
- all from `Invariance`: `Spec => []Inv`.

Here `Inv` adds to the mutex and lifecycle facts: which answer of the offer is
possible at each point of the loop (`Answers`; an answer that ends the run is not
followed by another offer, so that an error is counted once); that the counts of
`g_stats` and of the loop differ by the message in flight, that an iteration starts
below the message count (`Counting`); and that every refused offer has used up one
retry, but the one just counted (`Budget`). `BackPressureBounded` follows from
`Budget` and is not inductive without `retry_count` in the bound. `Releases` combines
an invariant with an action property: what leaves `held` does so in `free` or
`CloseObjects`, where `Inv` has the thread over and the mutex free.

Assumptions: `BucketAssumption` (the table ends with the largest word, a microsecond
is more than a nanosecond), `SubscriberAssumption` (positive target and limit,
whose sum fits a word, which keeps the message count from wrapping) and
`PublisherAssumption` (the publisher's counters are unbounded naturals).

`LatencyRecorder` carries its own proofs, for any number of threads and calls:

- `SlotsClaimedOnceHolds`: no slot of the detail array is claimed twice, or written
  twice, and none below `recorded_count` is skipped;
- `ExtremesExactHolds`: with no call in progress the minimum and the maximum are those
  of all calls, and neither ever moves back.

The invariant says of each latency that was recorded that it is within the extremes,
or that some thread still carries it before its exchange (`ExtremesInv`), and of each
claimed slot that it is filled or has one thread that will fill it (`SlotsInv`).
Assumed: the latencies fit a word, which is the parameter's type.

`ClientProofs` is about the parts of `MCClient`, each with an inductive invariant that
holds while that part moves, for any threads, ids, handlers, images, objects, gaps
and timeouts:

- `NoUseAfterFreeHolds`: `Spec => NoUseAfterFree`; `OneOwnerHolds`:
  `Spec => []OneOwner`. `RegistryInv` says where the one reference to each command and
  resource is (the caller's stack, the map, an object, the library), until the command
  is polled again, and which callbacks can still be called; `HandleInv` that a pointer is
  good unless a call of close has asked the library and not yet cleared it, in which case
  every other call is marked, and what a late call answers; `ImageInv` that the
  references of an image of the library are counted by the objects that hold it, plus
  the creation in progress, if it was not copied. The images' part needs
  cardinalities of finite sets.
- `AgentsCloseOnceHolds`: `Spec => []AgentsCloseOnce`, with `RunnerInv`: one start
  spawns, one close joins and the others that return know what it knows, the agent's
  history follows its thread's position.
- `ClosedMeansDriverEndedHolds`: `Spec => []ClosedMeansDriverEnded`. `TimeoutsInv` bounds
  the age of each timestamp by the gaps that its actor is allowed; the property
  is stated for gaps that fit (`Timely`), and `TimeoutsInv` has the same hypothesis.

No use of the client is ruled out by a constant: threads share a publication and close it,
ids are asked for again after an exception, images are copied. The
histories (above) mark the calls in which the code does meet what was freed.

`ClientProofs` also proves `ErrorLogExactHolds`: `Spec => []ErrorLogExact`. The invariant
says that the observations are a chain without gaps or repetitions, whose last record
alone may still be without its length, under the lock (`LogInv`); that the count of
a record and the calls that are about to add to it make up the calls that were made
(`Counted`); and that the reader stands at the start of a record, having been handed all
that precede it (`ReaderInv`).

`StreamsProofs` proves `SnapshotOfOneMomentHolds`: `Spec => []SnapshotOfOneMoment`.
`ImagesInv` relates the change numbers to the progress of the writer (`OneChange`)
and says of a reader that has seen equal numbers that its array and length are those
of one moment of its call (`LoadedTogether`). That an array outlives the walk rests on
the linger time being longer than a call of the reader, which is what the conductor
lingers for.

`StructuresProofs` proves `SnapshotOfOneCounterHolds`, for a positive
`FreeToReuseTimeout`: `Spec => SnapshotOfOneCounter`. `Book` describes the records (who
is allocated, freed, in its cool-down, reusable) and `Reading` what each scan holds of
the record it is at and how old that can be. With the default of the code, no
cool-down, a record may be reused under a scan and the property is false; the
hypothesis is the setting under which the code promises it.

`ArrayQueueProofs` proves for every capacity and set of producers, of both kinds:

- `ArrayQueueImplements`: `Spec => QueueSpec`, the refinement of `ClaimQueue`: every step
  of the code is a claim, a commit, a pass or a stutter;
- `ArrayQueueSound`: `Spec => [](TypeOK /\ SizeWasTrue)`.

`QueueInv` says what an offer in progress knows about head and tail (`Offers`), that no
two offers hold one place (`OffersApart`), that the tail is at most one lap ahead of
the head (`Window`), that from the head once around the array each place
holds the element of its finished claim or null (`Contents`), and what a size in
progress has read (`Sizing`). A place is a position modulo the capacity; the lemmas
`DivisionIsUnique`, `OnePlaceEach` and `OneLap` show that positions less than a lap apart
have different places.

`RingBufferProofs` proves of both ring buffers, for every capacity (a multiple of eight
record headers), start, message length, read limit and number of messages and of
producers:

- `OneToOneImplements`: `Spec => QueueSpec`, the refinement of `ClaimQueue`: acceptance
  claims, the store of the header closes, the consumer's record takes, everything else
  stutters, the store of the tail and the move of the head included;
- `OneToOneSound`: `Spec => [](TypeOK /\ NeverOverrun /\ NoTornMessage /\ SizeWasTrue)`;
- `ManyToOneImplements`: `M!Spec => M!QueueSpec`: the compare-and-set of the tail claims,
  the store of the positive length closes, as does the death of a producer, and a record
  of the consumer takes one claim, or those that `unblock` has joined to one padding;
- `ManyToOneSound`: `M!Spec => [](M!TypeOK /\ M!NeverOverrun /\ M!FreeSpaceZeroed /\
  M!NoTornMessage)`, the last three under `~strayed`.

`RingInv` says that the claims lie end to end, none of them wraps, and what is between
one and its record is padding to the end of the buffer (`Chain`); where the tail is
while a record is written, and that only the last claim can be open (`Producing`); how
far the consumer can see, which is more than the tail says while the tail is late
(`Published`, `Room`); that the consumer stands at a claim or behind its padding
(`Reading`); and what is in every cell: whole records from the head to what is
published, zeros in front of that for the rest of the lap except the bytes that precede
their header, and zeros behind a consumer that has cleared and not yet moved the head
(`Contents`). `WrapFits` is the heart of `write()`: the code compares the record,
without its padding, with the room by the cached head and then with the index of
the head, and this is enough for record and padding together. The history field `at` of a
claim, where its record starts, is there for these proofs.

`ManyRingInv` keeps `Chain` and `Reading` and differs where several producers write at
once. The claims also cover every position (`Covered`), so that each cell between the
head and the tail belongs to one claim, and a store of one producer is outside the
record of every other (`ClaimsApart`). Each producer knows an old head, and has checked its room against it
(`Knows`), which stays true because the head only grows and the compare-and-set
fails when the tail has moved; each open claim is the one its producer is writing, in
front of the consumer (`Owned`). The cells of a claim are what its stage of writing
says, from all zero over a negative length to a positive one, and those of a dead
producer are zero, headed by a negative length, or padding that `unblock` made over
them and over dead claims behind them (`Recorded`, `Padded`, `Abandoned`). `unblock` stands at
the head, between two reads (`Unblocking`). What it is about to store is checked
against the claims where it is stored: if it covers records of dead producers and
nothing else, the store keeps the invariant; otherwise it has strayed, and `ManyInv`
keeps only the types. `M!QueueSpec` is the refinement of `ClaimQueue` with that one
way out (`strayed'`).

`StreamsProofs` carries these results and those of `ArrayQueueProofs` over to the suite
and proves two of its properties: `RecordsIntactHolds`: `Spec => []RecordsIntact`, and
`ImplementsClaimQueueHolds`: `Spec => ImplementsClaimQueue`. The lemmas `...Same` show
that the operators of the suite's instances are those of the instances of the proof
modules, `...Moves` that the part never changes, so that a step of the suite is a step
of the component. The array queues of the suite have one and two producers with
a fixed number of elements; `ArrayQueueProofs` has any.

The suites' theorems assume `SuiteAssumption`, which is the assumptions of the
components (`ASSUME`d, and evaluated by TLC in every run of the suite).

Model-checked only:

- liveness (TLAPS does not do fairness);
- `HistogramTotal`, the counts and sums of `RecordersExact`, `MapsExact`,
  `StartsAsAsked`, `ReportIsTrue`, `ProtocolAgrees` and `UriSurvives`: what folds and
  recursive functions compute, which needs induction over data, or questions about
  finitely many inputs, for which TLC's answer is complete;
- `UnblockEndsARecord`: the scan forward and back against producers that write meanwhile;
- `PollsExact`, `WholeMessages`, `StreamIntact`, `NeverOverrun` of the publications,
  `PositionsSound` and the refinement by the publications: not attempted yet;
- `BroadcastIsHonest`: it is false of a receiver that is overtaken twice and takes
  large numbers from message bytes (Divergences).

## Not modelled

- Printers, usage texts and `diagnose` scripts: they change no state. Build, test
  and debug scripts are straight-line.
- Conversions of `time_utils.c`, `get_monotonic_ns`, `rdtsc`, `record_retry` and
  `validate_binary_message` have no caller, or are one atomic addition.
- The bodies of the C library, of the driver and of the C++ client's `.cpp` files
  are not in the repository. `aeronc.h` and most of `include/aeron/` are declarations,
  constants and prototypes. `ClientConductor.h` is modelled as far as its bodies are in
  the header.
- Contexts and configuration (`Context.h`, `aeron_driver_context.h`, ...): getters
  and setters of single fields.
- Atomic buffers, bit utilities, strings, exceptions and memory maps: each access is one
  step, or part of one, of the modules that use it.
- Weak memory: steps are interleaved in program order. The orders that the code asks for
  by acquire and release accesses are kept by this; a missing one would not be seen.

## Plan

1. `NeverOverrun` of the exclusive publication, and of the concurrent one for a bounded
   number of threads.
2. `AtMostOne` of `DriverScripts`; the extremes of `MessageRecorder`.
