----------------------------- MODULE MCPrograms -----------------------------
(***************************************************************************)
(* Small instances of what the two programs are built from: the latency    *)
(* recorders of latency_stats and performance_stats, the command line      *)
(* parser, the flow of messages from the publisher to the report of the    *)
(* subscriber, and the scripts around the media driver. The components     *)
(* share no state, so that each run moves one of them.                     *)
(***************************************************************************)
EXTENDS Integers, Sequences, TLC

CONSTANTS
  Parts,   \* the components to move
  Threads,   \* the threads that record latencies
  Words   \* the command lines

(* part is the component that moves; the variables it lacks are Absent.    *)
VARIABLES
  part,
  message_count, total_latency, min_latency, max_latency, latency_buckets, recorded_count,
  latencies, pc, latency_ns, current,
  calls,
  overlapped,
  counters, plain, records, my,
  at,
  program, args, config, result, env,
  host, clock, sent, log, left, stats, running, report,
  driver, found, stopped, beside

vars == <<part, message_count, total_latency, min_latency, max_latency, latency_buckets,
          recorded_count, latencies, pc, latency_ns, current, calls, counters, plain,
          records, my, at, program, args, config, result, env, host, clock, sent, log, left,
          stats, running, report, driver, found, stopped, beside,
          overlapped>>

Absent == "absent"

ThreadSymmetry == Permutations(Threads)

Short(letter) == [form |-> "short", opt |-> letter, rest |-> "", text |-> "-" \o letter]
Joined(letter, word) == [form |-> "short", opt |-> letter, rest |-> word, text |-> "-" \o letter \o word]
Long(name) == [form |-> "long", opt |-> name, rest |-> "", text |-> "--" \o name]
Plain(word) == [form |-> "plain", text |-> word]

Numbers == ("5" :> 5) @@ ("12" :> 12) @@ ("0" :> 0) @@ ("-1" :> -1) @@ ("1024" :> 1024) @@ ("50000000" :> 50000000)

Common ==
  { <<o, Plain(v)>> : o \in {Short("t"), Long("transport")}, v \in {"ipc", "NETWORK_UDP", "UDP"} }
  \cup { <<o, Plain(v)>> : o \in {Short("e"), Long("ip")}, v \in {"a", "b"} }
  \cup { <<Short("c"), Plain(v)>> : v \in {"12", "0"} }
  \cup { <<Plain("word")>>, <<Short("h")>>, <<Short("x")>>, <<Short("t"), Plain("tcp")>> }

(* Up to three options, and an option that lacks its argument at the end.  *)
Lines(pairs) ==
  { a \o <<Short("c")>> : a \in pairs } \cup
  {<<>>} \cup pairs \cup { a \o b : a, b \in pairs } \cup { a \o b \o c : a, b, c \in pairs }

Usual ==
  [publisher |-> Lines(Common \cup {<<Long("bind"), Plain("b")>>, <<Short("s"), Plain("5")>>, <<Short("s"), Plain("12")>>}),
   subscriber |-> Lines(Common \cup {<<Long("connect"), Plain("b")>>})]

(* The command lines of README.md. *)
Documented ==
  [publisher |-> {<<Joined("b", "ind"), Plain("192.168.0.106"), Short("c"), Plain("50000000"), Short("s"), Plain("1024")>>},
   subscriber |-> {<<Joined("c", "onnect"), Plain("0.0.0.0"), Short("c"), Plain("50000000")>>}]

LR == INSTANCE LatencyRecorder WITH
  Word <- 16, NsPerUs <- 2, BucketLimits <- <<1, 3, 15>>, DetailCount <- 2,
  Threads <- Threads, Latencies <- {1, 4, 15}, MaxCalls <- 4

MR == INSTANCE MessageRecorder WITH
  Threads <- {"t", "u"}, Word <- 16, NsPerUs <- 2,
  Times <- {[sent |-> s, received |-> 4] : s \in {1, 3, 5}},
  MaxCalls <- 3, RecordCount <- 2, Limits <- <<0, 1, 15>>

CP == INSTANCE ConfigParser WITH
  CommandLines <- Words, Value <- Numbers, Width <- 1073741824, DefaultSize <- 1024,
  DefaultCount <- 1000000, DefaultTarget <- 20000000, MinSize <- 8, AeronDirs <- {"", "/tmp/aeron"}

MF == INSTANCE MessageFlow WITH
  Byte <- 4, TIMESTAMP_SIZE <- 2, MessageSize <- 2, MaxPayload <- 4, MessageCount <- 4,
  TargetCount <- 4, FragmentLimit <- 2, Hosts <- {"little", "big"}, Width <- 1000,
  NanosPerSecond <- 5, BytesPerMega <- 3, MaxTime <- 7

Start == INSTANCE DriverScripts WITH
  Optimized <- {"a", "b"}, Conservative <- {"c"}, Stoppers <- {"s", "t"}

ASSUME SuiteAssumption ==
  /\ LR!RecorderAssumption
  /\ MR!RecorderAssumption
  /\ CP!ConfigAssumption
  /\ MF!FlowAssumption
  /\ Start!ScriptAssumption

Init ==
  /\ part \in Parts
  /\ \/ part = "latency recorder" /\ LR!Init
     \/ part = "message recorder" /\ MR!Init
     \/ part = "command line" /\ CP!Init
     \/ part = "message flow" /\ MF!Init
     \/ part = "start scripts" /\ Start!Init
  /\ part # "latency recorder" =>
       message_count = Absent /\ total_latency = Absent /\ min_latency = Absent
       /\ max_latency = Absent /\ latency_buckets = Absent /\ recorded_count = Absent
       /\ latencies = Absent /\ pc = Absent /\ latency_ns = Absent /\ current = Absent
  /\ part \notin {"latency recorder", "message recorder"} =>
       calls = Absent
  /\ part # "message recorder" =>
       overlapped = Absent /\ counters = Absent /\ plain = Absent /\ records = Absent /\ my = Absent
  /\ part \notin {"message recorder", "start scripts"} =>
       at = Absent
  /\ part # "command line" =>
       program = Absent /\ args = Absent /\ config = Absent /\ result = Absent
       /\ env = Absent
  /\ part # "message flow" =>
       host = Absent /\ clock = Absent /\ sent = Absent /\ log = Absent /\ left = Absent
       /\ stats = Absent /\ running = Absent /\ report = Absent
  /\ part # "start scripts" =>
       driver = Absent /\ found = Absent /\ stopped = Absent /\ beside = Absent

StayAbsent ==
  /\ UNCHANGED part
  /\ part # "latency recorder" => UNCHANGED <<message_count, total_latency, min_latency, max_latency, latency_buckets,
       recorded_count, latencies, pc, latency_ns, current>>
  /\ part \notin {"latency recorder", "message recorder"} => UNCHANGED <<calls>>
  /\ part # "message recorder" => UNCHANGED <<overlapped, counters, plain, records, my>>
  /\ part \notin {"message recorder", "start scripts"} => UNCHANGED <<at>>
  /\ part # "command line" => UNCHANGED <<program, args, config, result, env>>
  /\ part # "message flow" => UNCHANGED <<host, clock, sent, log, left, stats, running, report>>
  /\ part # "start scripts" => UNCHANGED <<driver, found, stopped, beside>>

Recorder == part = "latency recorder" /\ LR!Next /\ StayAbsent
MessageRecorder == part = "message recorder" /\ MR!Next /\ StayAbsent
CommandLine == part = "command line" /\ CP!Next /\ StayAbsent
Flow == part = "message flow" /\ MF!Next /\ StayAbsent
StartScripts == part = "start scripts" /\ Start!Next /\ StayAbsent

Next == Recorder \/ MessageRecorder \/ CommandLine \/ Flow \/ StartScripts

Spec == Init /\ [][Next]_vars

-----------------------------------------------------------------------------
(* Threads that record together leave what they would leave one after the  *)
(* other: counts, sums, extremes and buckets are exact between calls,      *)
(* whatever wraps, a detail slot has one owner, and no exchange takes an   *)
(* extreme back (record_latency, record_message_latency). The description  *)
(* of the smallest latency and the number of records, which are plain      *)
(* stores, are exact as long as no two calls of record_message_latency     *)
(* overlap.                                                                *)
RecordersExact ==
  /\ [](/\ part = "latency recorder" => LR!TypeOK /\ LR!QuiescentExact /\
                                        LR!SlotsClaimedOnce
        /\ part = "message recorder" => MR!CountersExact /\ MR!BucketsExact /\
                                        MR!PlainFieldsExact)
  /\ [][part = "latency recorder" => LR!ExtremesMonotone]_vars

(* What starts is what was asked for: an accepted command line has the     *)
(* value of the last option of each kind and a channel with its endpoint   *)
(* and the defaults of common_types.h (parse_publisher_args,               *)
(* parse_subscriber_args, validate_config); of the start scripts that      *)
(* found no driver and met no other between check and launch one has a     *)
(* driver (start-mediadriver-cpp-optimized.sh).                            *)
StartsAsAsked ==
  /\ part = "command line" => CP!LastOneWins /\ CP!ChannelNamesEndpoint
  /\ part = "start scripts" => Start!AtMostOne

(* README.md starts the programs with "-connect 0.0.0.0 -c 50000000" and   *)
(* "-bind 192.168.0.106 -c 50000000 -s 1024": the endpoint is the one of   *)
(* the command. getopt_long takes -connect for -c and -bind for -b.        *)
DocumentedEndpoint == part = "command line" => CP!DocumentedEndpoint

(* What the subscriber reports is true of what the publisher sent, on      *)
(* hosts of either byte order: latencies are those of the messages, a      *)
(* message in one fragment is counted once, and the bandwidth is that of   *)
(* the bytes received while their product fits a word                      *)
(* (process_message_fragment, print_final_stats).                          *)
ReportIsTrue ==
  part = "message flow" => MF!LatencyIsTrue /\ MF!CountsMessages /\ MF!BandwidthIsTrue
=============================================================================
