--------------------------- MODULE MessageRecorder ---------------------------
(***************************************************************************)
(* record_message_latency of performance_stats.c, called by several        *)
(* threads, access by access: the counters are atomic, the description of  *)
(* the smallest latency, the times of the first and last message and the   *)
(* number of records are plain.                                            *)
(***************************************************************************)
EXTENDS Integers, Sequences, FiniteSets, FiniteSetsExt

CONSTANTS
  Threads,
  Word,           \* 2^64: times, latencies and counters are uint64_t
  NsPerUs,        \* 1000, nanoseconds in a microsecond
  Times,          \* pairs of a send and a receive time, of two clocks
  MaxCalls,       \* bound: calls of record_message_latency
  RecordCount,    \* DETAILED_RECORD_COUNT
  Limits          \* latency_bucket_limits, in microseconds; the last is UINT64_MAX

RecorderAssumption ==
  /\ IsFiniteSet(Threads) /\ MaxCalls \in Nat /\ RecordCount \in Nat
  /\ Word \in Nat /\ NsPerUs \in Nat \ {0}
  /\ \A t \in Times : t.sent \in 0..(Word - 1) /\ t.received \in 0..(Word - 1)
  /\ Limits[Len(Limits)] = Word - 1

UINT64_MAX == Word - 1
None == -1

VARIABLES
  counters,   \* message_count, total_latency, min_latency, max_latency, buckets
  plain,      \* the fields that are written without atomics
  records,    \* per message: the record of its latency, or None
  at,         \* per thread: where it is
  my,         \* per thread: its message, message_index and the value it loaded
  calls,      \* calls so far
  overlapped  \* history: whether two calls were under way at once

vars == <<counters, plain, records, at, my, calls, overlapped>>

init_performance_stats ==
  [count |-> 0, total |-> 0, min |-> UINT64_MAX, max |-> 0, buckets |-> [b \in DOMAIN Limits |-> 0]]

Idle == [latency |-> 0, received |-> 0, index |-> 0, loaded |-> 0]

Init ==
  /\ counters = init_performance_stats
  /\ plain = [first |-> 0, last |-> 0, minIndex |-> 0, minReceived |-> 0, recorded |-> 0]
  /\ records = [i \in 0..(MaxCalls - 1) |-> None]
  /\ at = [t \in Threads |-> "idle"] /\ my = [t \in Threads |-> Idle]
  /\ calls = 0 /\ overlapped = FALSE

Goto(t, place) == at' = [at EXCEPT ![t] = place]

(* The unsigned difference of the times, which wraps if the receive time   *)
(* is the smaller one, and the fetch_add of message_count.                 *)
begin(t) ==
  /\ at[t] = "idle" /\ calls < MaxCalls
  /\ calls' = calls + 1
  /\ \E m \in Times :
       my' = [my EXCEPT ![t] = [latency |-> (m.received - m.sent) % Word, received |-> m.received,
                                index |-> counters.count, loaded |-> 0]]
  /\ counters' = [counters EXCEPT !.count = @ + 1]
  /\ overlapped' = (overlapped \/ \E u \in Threads \ {t} : at[u] # "idle")
  /\ Goto(t, "times")
  /\ UNCHANGED <<plain, records>>

times(t) ==
  /\ at[t] = "times"
  /\ plain' = [plain EXCEPT !.first = IF my[t].index = 0 THEN my[t].received ELSE @,
                            !.last = my[t].received]
  /\ Goto(t, "total")
  /\ UNCHANGED <<counters, records, my, calls, overlapped>>

total(t) ==
  /\ at[t] = "total"
  /\ counters' = [counters EXCEPT !.total = (@ + my[t].latency) % Word]
  /\ Goto(t, "load min")
  /\ UNCHANGED <<plain, records, my, calls, overlapped>>

loadMin(t) ==
  /\ at[t] = "load min"
  /\ my' = [my EXCEPT ![t].loaded = counters.min]
  /\ Goto(t, IF my[t].latency < counters.min THEN "cas min" ELSE "load max")
  /\ UNCHANGED <<counters, plain, records, calls, overlapped>>

(* A compare-and-set that fails loads the value that it found. *)
casMin(t) ==
  /\ at[t] = "cas min"
  /\ IF counters.min = my[t].loaded
     THEN /\ counters' = [counters EXCEPT !.min = my[t].latency]
          /\ Goto(t, "describe") /\ UNCHANGED my
     ELSE /\ my' = [my EXCEPT ![t].loaded = counters.min]
          /\ Goto(t, IF my[t].latency < counters.min THEN "cas min" ELSE "load max")
          /\ UNCHANGED counters
  /\ UNCHANGED <<plain, records, calls, overlapped>>

describeIndex(t) ==
  /\ at[t] = "describe"
  /\ plain' = [plain EXCEPT !.minIndex = my[t].index + 1]
  /\ Goto(t, "describe times")
  /\ UNCHANGED <<counters, records, my, calls, overlapped>>

describeTimes(t) ==
  /\ at[t] = "describe times"
  /\ plain' = [plain EXCEPT !.minReceived = my[t].received]
  /\ Goto(t, "load max")
  /\ UNCHANGED <<counters, records, my, calls, overlapped>>

loadMax(t) ==
  /\ at[t] = "load max"
  /\ my' = [my EXCEPT ![t].loaded = counters.max]
  /\ Goto(t, IF my[t].latency > counters.max THEN "cas max" ELSE "record")
  /\ UNCHANGED <<counters, plain, records, calls, overlapped>>

casMax(t) ==
  /\ at[t] = "cas max"
  /\ IF counters.max = my[t].loaded
     THEN /\ counters' = [counters EXCEPT !.max = my[t].latency]
          /\ Goto(t, "record") /\ UNCHANGED my
     ELSE /\ my' = [my EXCEPT ![t].loaded = counters.max]
          /\ Goto(t, IF my[t].latency > counters.max THEN "cas max" ELSE "record")
          /\ UNCHANGED counters
  /\ UNCHANGED <<plain, records, calls, overlapped>>

(* The slot of the message is this thread's own; the number of records is  *)
(* everybody's.                                                            *)
recordSlot(t) ==
  /\ at[t] = "record"
  /\ records' = IF my[t].index < RecordCount
                THEN [records EXCEPT ![my[t].index] = my[t].latency] ELSE records
  /\ Goto(t, IF my[t].index < RecordCount THEN "recorded" ELSE "bucket")
  /\ UNCHANGED <<counters, plain, my, calls, overlapped>>

recordedCount(t) ==
  /\ at[t] = "recorded"
  /\ plain' = [plain EXCEPT !.recorded = my[t].index + 1]
  /\ Goto(t, "bucket")
  /\ UNCHANGED <<counters, records, my, calls, overlapped>>

(* In whole microseconds, rounded down: the loop ends at the first limit   *)
(* that is not below.                                                      *)
Bucket(latency) == Min({ b \in DOMAIN Limits : latency \div NsPerUs <= Limits[b] })

bucket(t) ==
  /\ at[t] = "bucket"
  /\ counters' = [counters EXCEPT !.buckets[Bucket(my[t].latency)] = @ + 1]
  /\ my' = [my EXCEPT ![t] = Idle]
  /\ Goto(t, "idle")
  /\ UNCHANGED <<plain, records, calls, overlapped>>

Next ==
  \E t \in Threads :
    \/ begin(t) \/ times(t) \/ total(t) \/ loadMin(t) \/ casMin(t) \/ describeIndex(t) \/ describeTimes(t)
    \/ loadMax(t) \/ casMax(t) \/ recordSlot(t) \/ recordedCount(t) \/ bucket(t)

Spec == Init /\ [][Next]_vars

-----------------------------------------------------------------------------
Quiet == calls > 0 /\ \A t \in Threads : at[t] = "idle"
Recorded == { records[i] : i \in 0..(calls - 1) }

(* When no call is under way the counters are those of the messages that   *)
(* were recorded, in whatever order the threads took their steps.          *)
CountersExact ==
  Quiet /\ calls <= RecordCount =>
    /\ counters.count = calls /\ None \notin Recorded
    /\ counters.min = Min(Recorded) /\ counters.max = Max(Recorded)
    /\ counters.total = MapThenSumSet(LAMBDA i : records[i], 0..(calls - 1)) % Word

(* A bucket counts the messages that took less than one microsecond more   *)
(* than its limit, and that no lower bucket counts: "<= 1us" is below 2us. *)
BucketsExact ==
  Quiet /\ calls <= RecordCount =>
    \A b \in DOMAIN Limits :
      counters.buckets[b] = Cardinality({ i \in 0..(calls - 1) :
        /\ records[i] < (Limits[b] + 1) * NsPerUs
        /\ \A c \in DOMAIN Limits : c < b => records[i] >= (Limits[c] + 1) * NsPerUs })

(* "记录最低延迟的详细信息": the message that is described as the one of    *)
(* the smallest latency has the smallest latency.  The description is      *)
(* plain and is written after the exchange, so that a thread that lost may *)
(* write it last.                                                          *)
MinIsDescribed ==
  Quiet /\ calls <= RecordCount /\ plain.minIndex > 0 => records[plain.minIndex - 1] = counters.min

(* "记录前1000条消息的详细信息": recorded_count is the number of records.   *)
(* It is a plain store of the index of the thread that comes last.         *)
RecordedIsCount ==
  Quiet /\ calls <= RecordCount => plain.recorded = calls

(* Both hold as long as no two calls overlap.                              *)
PlainFieldsExact == overlapped \/ (MinIsDescribed /\ RecordedIsCount)
=============================================================================
