--------------------------- MODULE LatencyBuckets ---------------------------
(***************************************************************************)
(* The unsigned arithmetic of the latency statistics and what one          *)
(* uncontended call of record_latency does to a performance_stats_t        *)
(* (c-performance/src/performance_stats.c).  Pure operators: the subscriber *)
(* applies them under its mutex, LatencyRecorder takes the same call apart *)
(* into its atomic instructions.                                           *)
(***************************************************************************)
EXTENDS Integers, Sequences

CONSTANTS
  Word,          \* 2^64: every counter and timestamp is a uint64_t
  NsPerUs,       \* 1000, nanoseconds in a microsecond
  BucketLimits,  \* latency_bucket_limits of create_performance_stats, in us
  DetailCount    \* DETAILED_RECORD_COUNT

(* The table ends with UINT64_MAX, and a microsecond is more than one      *)
(* nanosecond: together they make the last bucket catch every latency.     *)
ASSUME BucketAssumption ==
  /\ Word \in Nat /\ Word > 1
  /\ NsPerUs \in Nat /\ NsPerUs > 1
  /\ BucketLimits \in Seq(Nat)
  /\ Len(BucketLimits) > 0
  /\ BucketLimits[Len(BucketLimits)] = Word - 1
  /\ DetailCount \in Nat

UINT64_MAX == Word - 1

U64 == 0 .. (Word - 1)

(* uint64_t arithmetic wraps. *)
Wrap(n) == n % Word

Buckets == 1 .. Len(BucketLimits)

(* record_latency files a latency, in whole microseconds, in the first     *)
(* bucket whose limit is above it and leaves the loop.                     *)
FitsBucket(latency, i) == (latency \div NsPerUs) < BucketLimits[i]

BucketOf(latency) ==
  CHOOSE i \in Buckets :
    /\ FitsBucket(latency, i)
    /\ \A j \in Buckets : j < i => ~FitsBucket(latency, j)

Lower(a, b)  == IF a < b THEN a ELSE b
Higher(a, b) == IF a > b THEN a ELSE b

(* performance_stats_t, reduced to the fields record_latency maintains.    *)
(* recorded_count stands for the detail array: the latencies stored in it  *)
(* are never read back by either program.                                  *)
PerformanceStats ==
  [ message_count   : U64,
    total_latency   : U64,
    min_latency     : U64,
    max_latency     : U64,
    latency_buckets : [Buckets -> U64],
    recorded_count  : Nat ]

create_performance_stats ==
  [ message_count   |-> 0,
    total_latency   |-> 0,
    min_latency     |-> UINT64_MAX,
    max_latency     |-> 0,
    latency_buckets |-> [i \in Buckets |-> 0],
    recorded_count  |-> 0 ]

(* Mutant: the bucket loop has no break, every bucket above counts. *)
record_latency_NoBreak(stats, latency) ==
  [ message_count   |-> Wrap(stats.message_count + 1),
    total_latency   |-> Wrap(stats.total_latency + latency),
    min_latency     |-> Lower(latency, stats.min_latency),
    max_latency     |-> Higher(latency, stats.max_latency),
    latency_buckets |-> [i \in Buckets |->
                           IF FitsBucket(latency, i)
                             THEN Wrap(stats.latency_buckets[i] + 1)
                             ELSE stats.latency_buckets[i]],
    recorded_count  |-> IF stats.recorded_count < DetailCount
                          THEN stats.recorded_count + 1
                          ELSE stats.recorded_count ]

(* One call with nobody else writing: every compare-exchange succeeds.     *)
record_latency(stats, latency) ==
  [ message_count   |-> Wrap(stats.message_count + 1),
    total_latency   |-> Wrap(stats.total_latency + latency),
    min_latency     |-> Lower(latency, stats.min_latency),
    max_latency     |-> Higher(latency, stats.max_latency),
    latency_buckets |-> [stats.latency_buckets EXCEPT
                           ![BucketOf(latency)] = Wrap(@ + 1)],
    recorded_count  |-> IF stats.recorded_count < DetailCount
                          THEN stats.recorded_count + 1
                          ELSE stats.recorded_count ]
=============================================================================
