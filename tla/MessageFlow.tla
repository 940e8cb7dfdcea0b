---------------------------- MODULE MessageFlow ----------------------------
(***************************************************************************)
(* What the subscriber makes of the publisher's messages: the format of a  *)
(* message (binary_message.c), its way through the log, where a message    *)
(* longer than a frame becomes several fragments, and the statistics that  *)
(* process_message_fragment and print_final_stats (binary_subscriber.c)    *)
(* compute in unsigned arithmetic.  Subscriber models the locks and        *)
(* threads of this code, and leaves the bytes out.                         *)
(***************************************************************************)
EXTENDS Integers, Sequences

CONSTANTS
  Byte,            \* a byte is a number below it
  TIMESTAMP_SIZE,  \* the bytes of a timestamp; MIN_MESSAGE_SIZE too
  MessageSize,
  MaxPayload,      \* bytes of a message in a frame
  MessageCount,    \* the publisher's -c
  TargetCount,     \* the subscriber's -c
  FragmentLimit,   \* fragment_limit
  Hosts,           \* the byte orders of the machines: "little", "big"
  Width,           \* the numbers of uint64_t are those below it
  NanosPerSecond,
  BytesPerMega,    \* 1024 * 1024
  MaxTime          \* bound: the clock

FlowAssumption ==
  /\ \A n \in {Byte, TIMESTAMP_SIZE, MessageSize, MaxPayload, MessageCount, TargetCount,
               FragmentLimit, Width, NanosPerSecond, BytesPerMega, MaxTime} : n \in Nat \ {0}
  /\ MessageSize >= TIMESTAMP_SIZE /\ MaxTime < Byte ^ TIMESTAMP_SIZE
  /\ Hosts \subseteq {"little", "big"}

VARIABLES
  host,      \* the byte order of both machines
  clock,     \* get_timestamp_ns
  sent,      \* messages sent
  log,       \* the fragments that were not yet received
  left,      \* how many of them the poll under way still hands over
  stats,     \* g_stats, with the messages that came and the true last latency
  running,
  report     \* what print_final_stats prints

vars == <<host, clock, sent, log, left, stats, running, report>>

(***************************************************************************)
(* Numbers in memory, and binary_message.c.                                *)
(***************************************************************************)
Digit(n, i) == (n \div Byte ^ i) % Byte

(* The bytes of a number as a host of some order has them in memory.       *)
Memory(n, order) ==
  [i \in 1..TIMESTAMP_SIZE |->
     IF order = "little" THEN Digit(n, i - 1) ELSE Digit(n, TIMESTAMP_SIZE - i)]

Number(bytes, order) ==
  LET sum[i \in 0..TIMESTAMP_SIZE] ==
        IF i = 0 THEN 0
        ELSE sum[i - 1] + bytes[i] * Byte ^ (IF order = "little" THEN i - 1 ELSE TIMESTAMP_SIZE - i)
  IN sum[TIMESTAMP_SIZE]

htobe64(n) == Number(Memory(n, "big"), host)
be64toh(n) == Number(Memory(n, host), "big")

create_binary_message(timestamp) ==
  [i \in 1..MessageSize |->
     IF i <= TIMESTAMP_SIZE THEN Memory(htobe64(timestamp), host)[i]
     ELSE (i - 1 - TIMESTAMP_SIZE) % Byte]

parse_HostOrder(buffer) == Number(SubSeq(buffer, 1, TIMESTAMP_SIZE), host) \* Mutant: without be64toh

parse_binary_message_timestamp(buffer) == be64toh(Number(SubSeq(buffer, 1, TIMESTAMP_SIZE), host))

(* A message of more than MaxPayload bytes is cut into fragments. *)
Fragments(message) ==
  [i \in 1..((MessageSize + MaxPayload - 1) \div MaxPayload) |->
     SubSeq(message, (i - 1) * MaxPayload + 1,
            IF i * MaxPayload > MessageSize THEN MessageSize ELSE i * MaxPayload)]

(***************************************************************************)
(* The steps.                                                              *)
(***************************************************************************)
Unsigned(n) == n % Width

tick ==
  /\ clock < MaxTime
  /\ clock' = clock + 1
  /\ UNCHANGED <<host, sent, log, left, stats, running, report>>

(* One round of the publisher's loop; back pressure is in Publisher. *)
send ==
  /\ sent < MessageCount
  /\ sent' = sent + 1
  /\ LET fragments == Fragments(create_binary_message(clock)) IN
     log' = log \o [i \in DOMAIN fragments |->
                      [bytes |-> fragments[i], sent |-> clock, first |-> i = 1]]
  /\ UNCHANGED <<host, clock, left, stats, running, report>>

Accepted(length) == length >= TIMESTAMP_SIZE

(* The loop of run_subscriber, which looks at the target between polls.    *)
poll ==
  /\ running /\ left = 0 /\ stats.messages < TargetCount
  /\ \E k \in 1..FragmentLimit : k <= Len(log) /\ left' = k
  /\ UNCHANGED <<host, clock, sent, log, stats, running, report>>

process_message_fragment ==
  LET fragment == Head(log)
      latency == Unsigned(clock - parse_binary_message_timestamp(fragment.bytes))
      messages == stats.messages + 1
      whole == IF fragment.first THEN stats.whole + 1 ELSE stats.whole
  IN
  /\ left > 0
  /\ left' = left - 1 /\ log' = Tail(log)
  /\ IF Accepted(Len(fragment.bytes))
     THEN /\ stats' = [stats EXCEPT !.messages = messages, !.bytes = @ + Len(fragment.bytes),
                                    !.whole = whole, !.latency = latency, !.true = clock - fragment.sent,
                                    !.end = IF messages >= TargetCount THEN clock ELSE @]
          /\ running' = (running /\ messages < TargetCount)
     ELSE stats' = [stats EXCEPT !.whole = whole] /\ UNCHANGED running
  /\ UNCHANGED <<host, clock, sent, report>>

byte_throughput(bytes, duration) ==
  (Unsigned(bytes * NanosPerSecond) \div duration) \div BytesPerMega

print_final_stats ==
  LET duration == Unsigned(stats.end - stats.start) IN
  /\ ~running /\ left = 0 /\ report.throughput < 0
  /\ report' =
       IF duration > 0
       THEN [throughput |-> Unsigned(stats.messages * NanosPerSecond) \div duration,
             bandwidth |-> byte_throughput(stats.bytes, duration)]
       ELSE [throughput |-> 0, bandwidth |-> 0]
  /\ UNCHANGED <<host, clock, sent, log, left, stats, running>>

Init ==
  /\ host \in Hosts /\ clock = 1 /\ sent = 0 /\ log = <<>> /\ left = 0 /\ running = TRUE
  /\ stats = [start |-> 1, end |-> 0, messages |-> 0, bytes |-> 0, whole |-> 0, latency |-> 0, true |-> 0]
  /\ report = [throughput |-> -1, bandwidth |-> -1]

Next == tick \/ send \/ poll \/ process_message_fragment \/ print_final_stats

Spec == Init /\ [][Next]_vars

-----------------------------------------------------------------------------
(* The latency that is recorded is the time from the sending of the        *)
(* message to its receipt, on machines of either byte order.               *)
LatencyIsTrue == stats.latency = stats.true

(* messages_received counts messages; fragments have a counter of their    *)
(* own ("总消息数" and "总片段数" in the final report).                     *)
CountsMessages == stats.messages = stats.whole

(* The report's bandwidth is the number of bytes per second. *)
BandwidthIsTrue ==
  report.throughput >= 0 /\ stats.end > stats.start =>
    report.bandwidth = ((stats.bytes * NanosPerSecond) \div (stats.end - stats.start)) \div BytesPerMega
=============================================================================
