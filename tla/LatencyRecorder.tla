--------------------------- MODULE LatencyRecorder ---------------------------
(***************************************************************************)
(* record_latency of c-performance/src/performance_stats.c called by       *)
(* several threads at once.  Every atomic instruction of the function is a *)
(* step; between two of them any other thread may run.  The values are     *)
(* relaxed atomics of one location each, so the model interleaves them and *)
(* never relates two locations in one step.                                *)
(***************************************************************************)
EXTENDS LatencyBuckets, FiniteSets, Folds, TLAPS

CONSTANTS
  Threads,     \* the threads that share one performance_stats_t
  Latencies,   \* the latencies they record
  MaxCalls     \* bound: calls of record_latency

RecorderAssumption ==
  /\ Latencies \subseteq U64
  /\ MaxCalls \in Nat

(* *stats, one variable per atomic location, and the detail array. *)
VARIABLES
  message_count, total_latency, min_latency, max_latency, latency_buckets,
  recorded_count, latencies

(* Per thread: the next instruction, latency_ns, and current_min,          *)
(* current_max or current_count, whichever is in use.                      *)
VARIABLES pc, latency_ns, current

(* History: how many calls have been made with each latency. *)
VARIABLE calls

shared == <<message_count, total_latency, min_latency, max_latency,
            latency_buckets, recorded_count, latencies>>

vars == <<shared, pc, latency_ns, current, calls>>

Steps == {"idle", "count", "total", "load_min", "cas_min", "load_max",
          "cas_max", "bucket", "load_slot", "cas_slot", "store"}

None == Word   \* a slot of the detail array nobody has written

Plus(a, b) == a + b
SumOver(f(_), S) == MapThenFoldSet(Plus, 0, f, LAMBDA T : CHOOSE x \in T : TRUE, S)

Calls == SumOver(LAMBDA l : calls[l], Latencies)

Init ==
  /\ message_count = create_performance_stats.message_count
  /\ total_latency = create_performance_stats.total_latency
  /\ min_latency = create_performance_stats.min_latency
  /\ max_latency = create_performance_stats.max_latency
  /\ latency_buckets = create_performance_stats.latency_buckets
  /\ recorded_count = create_performance_stats.recorded_count
  /\ latencies = [i \in 0 .. (DetailCount - 1) |-> None]
  /\ pc = [t \in Threads |-> "idle"]
  /\ latency_ns = [t \in Threads |-> 0]
  /\ current = [t \in Threads |-> 0]
  /\ calls = [l \in Latencies |-> 0]

Goto(t, step) == pc' = [pc EXCEPT ![t] = step]

-----------------------------------------------------------------------------
Call(t) ==
  /\ pc[t] = "idle" /\ Calls < MaxCalls
  /\ \E l \in Latencies :
       /\ latency_ns' = [latency_ns EXCEPT ![t] = l]
       /\ calls' = [calls EXCEPT ![l] = @ + 1]
  /\ Goto(t, "count")
  /\ UNCHANGED <<shared, current>>

AddCount(t) ==
  /\ pc[t] = "count" /\ Goto(t, "total")
  /\ message_count' = Wrap(message_count + 1)
  /\ UNCHANGED <<total_latency, min_latency, max_latency, latency_buckets,
                 recorded_count, latencies, latency_ns, current, calls>>

AddTotal(t) ==
  /\ pc[t] = "total" /\ Goto(t, "load_min")
  /\ total_latency' = Wrap(total_latency + latency_ns[t])
  /\ UNCHANGED <<message_count, min_latency, max_latency, latency_buckets,
                 recorded_count, latencies, latency_ns, current, calls>>

LoadMin(t) ==
  /\ pc[t] = "load_min" /\ Goto(t, "cas_min")
  /\ current' = [current EXCEPT ![t] = min_latency]
  /\ UNCHANGED <<shared, latency_ns, calls>>

(* Mutant: a plain store after the comparison. *)
CasMin_Store(t) ==
  /\ pc[t] = "cas_min" /\ Goto(t, "load_max")
  /\ min_latency' = Lower(latency_ns[t], current[t])
  /\ UNCHANGED <<message_count, total_latency, max_latency, latency_buckets,
                 recorded_count, latencies, latency_ns, current, calls>>

(* One turn of while (latency_ns < current_min): leave, exchange, or be    *)
(* refused and take the value found as the new current_min.                *)
CasMin(t) ==
  /\ pc[t] = "cas_min"
  /\ \/ /\ latency_ns[t] >= current[t]
        /\ Goto(t, "load_max") /\ UNCHANGED <<min_latency, current>>
     \/ /\ latency_ns[t] < current[t] /\ min_latency = current[t]
        /\ min_latency' = latency_ns[t]
        /\ Goto(t, "load_max") /\ UNCHANGED current
     \/ /\ latency_ns[t] < current[t] /\ min_latency # current[t]
        /\ current' = [current EXCEPT ![t] = min_latency]
        /\ UNCHANGED <<min_latency, pc>>
  /\ UNCHANGED <<message_count, total_latency, max_latency, latency_buckets,
                 recorded_count, latencies, latency_ns, calls>>

LoadMax(t) ==
  /\ pc[t] = "load_max" /\ Goto(t, "cas_max")
  /\ current' = [current EXCEPT ![t] = max_latency]
  /\ UNCHANGED <<shared, latency_ns, calls>>

CasMax(t) ==
  /\ pc[t] = "cas_max"
  /\ \/ /\ latency_ns[t] <= current[t]
        /\ Goto(t, "bucket") /\ UNCHANGED <<max_latency, current>>
     \/ /\ latency_ns[t] > current[t] /\ max_latency = current[t]
        /\ max_latency' = latency_ns[t]
        /\ Goto(t, "bucket") /\ UNCHANGED current
     \/ /\ latency_ns[t] > current[t] /\ max_latency # current[t]
        /\ current' = [current EXCEPT ![t] = max_latency]
        /\ UNCHANGED <<max_latency, pc>>
  /\ UNCHANGED <<message_count, total_latency, min_latency, latency_buckets,
                 recorded_count, latencies, latency_ns, calls>>

AddBucket(t) ==
  /\ pc[t] = "bucket" /\ Goto(t, "load_slot")
  /\ latency_buckets' =
       [latency_buckets EXCEPT ![BucketOf(latency_ns[t])] = Wrap(@ + 1)]
  /\ UNCHANGED <<message_count, total_latency, min_latency, max_latency,
                 recorded_count, latencies, latency_ns, current, calls>>

LoadSlot(t) ==
  /\ pc[t] = "load_slot"
  /\ current' = [current EXCEPT ![t] = recorded_count]
  /\ Goto(t, IF recorded_count < DetailCount THEN "cas_slot" ELSE "idle")
  /\ UNCHANGED <<shared, latency_ns, calls>>

(* One attempt only: refused, the call ends without a detail record. *)
CasSlot(t) ==
  /\ pc[t] = "cas_slot"
  /\ \/ /\ recorded_count = current[t]
        /\ recorded_count' = recorded_count + 1 /\ Goto(t, "store")
     \/ /\ recorded_count # current[t]
        /\ Goto(t, "idle") /\ UNCHANGED recorded_count
  /\ UNCHANGED <<message_count, total_latency, min_latency, max_latency,
                 latency_buckets, latencies, latency_ns, current, calls>>

StoreSlot(t) ==
  /\ pc[t] = "store" /\ Goto(t, "idle")
  /\ latencies' = [latencies EXCEPT ![current[t]] = latency_ns[t]]
  /\ UNCHANGED <<message_count, total_latency, min_latency, max_latency,
                 latency_buckets, recorded_count, latency_ns, current, calls>>

record_latency_step(t) ==
  \/ AddCount(t) \/ AddTotal(t) \/ LoadMin(t) \/ CasMin(t) \/ LoadMax(t)
  \/ CasMax(t) \/ AddBucket(t) \/ LoadSlot(t) \/ CasSlot(t) \/ StoreSlot(t)

Quiescent == \A t \in Threads : pc[t] = "idle"

Finished == Quiescent /\ Calls = MaxCalls /\ UNCHANGED vars

Next == Finished \/ \E t \in Threads : Call(t) \/ record_latency_step(t)

Spec == Init /\ [][Next]_vars

-----------------------------------------------------------------------------
(* What thread-safe statistics mean (README.md:10, 270). *)

(* Every location keeps its type: a claimed slot exists in the array.      *)
TypeOK ==
  /\ message_count \in U64 /\ total_latency \in U64
  /\ min_latency \in U64 /\ max_latency \in U64
  /\ latency_buckets \in [Buckets -> U64]
  /\ recorded_count \in 0 .. DetailCount
  /\ latencies \in [0 .. (DetailCount - 1) -> Latencies \cup {None}]
  /\ pc \in [Threads -> Steps]
  /\ latency_ns \in [Threads -> U64]
  /\ current \in [Threads -> U64 \cup 0 .. DetailCount]
  /\ calls \in [Latencies -> Nat]

Made == {l \in Latencies : calls[l] > 0}

(* The extremes belong to latencies that were recorded, if any, and with   *)
(* no call in progress they are those of all calls.                        *)
ExtremesExact ==
  /\ min_latency \in Made \cup {UINT64_MAX} /\ max_latency \in Made \cup {0}
  /\ Quiescent => \A l \in Made : min_latency <= l /\ l <= max_latency

(* With no call in progress the counters are exact, however the calls      *)
(* interleaved: the count, the sum, the extremes and every bucket are what *)
(* the calls made one after the other would have left.                     *)
QuiescentExact ==
  /\ ExtremesExact
  /\ Quiescent =>
    /\ message_count = Wrap(Calls)
    /\ total_latency = Wrap(SumOver(LAMBDA l : l * calls[l], Latencies))
    /\ \A i \in Buckets : latency_buckets[i] =
         Wrap(SumOver(LAMBDA l : calls[l], {l \in Latencies : BucketOf(l) = i}))

(* The compare-exchange loops never move an extreme the wrong way.         *)
ExtremesMonotone ==
  min_latency' <= min_latency /\ max_latency' >= max_latency

(* A slot of the detail array is claimed by one call, lies below           *)
(* recorded_count, and is never written again.                             *)
SlotsClaimedOnce ==
  /\ \A t, u \in Threads :
       t # u /\ pc[t] = "store" /\ pc[u] = "store" => current[t] # current[u]
  /\ \A t \in Threads : pc[t] = "store" =>
       current[t] < recorded_count /\ latencies[current[t]] = None
  /\ Quiescent => \A i \in 0 .. (recorded_count - 1) : latencies[i] # None

(* The comment on the detail array (performance_stats.c:276): the first    *)
(* DETAILED_RECORD_COUNT messages are recorded.                            *)
FirstCallsRecorded ==
  Quiescent => recorded_count = Lower(Calls, DetailCount)

-----------------------------------------------------------------------------
(* What each call has contributed so far.  A call is in a latency that was *)
(* made; one that has not left its loop may still have to move the         *)
(* extreme, and the value it compares with is an old extreme.              *)
BeforeMin == {"count", "total", "load_min", "cas_min"}
BeforeMax == BeforeMin \cup {"load_max", "cas_max"}

ExtremesInv ==
  /\ min_latency \in Made \cup {UINT64_MAX} /\ max_latency \in Made \cup {0}
  /\ \A t \in Threads : pc[t] # "idle" => latency_ns[t] \in Made
  /\ \A t \in Threads : pc[t] = "cas_min" => min_latency <= current[t]
  /\ \A t \in Threads : pc[t] = "cas_max" => max_latency >= current[t]
  /\ \A l \in Made :
       /\ min_latency <= l \/ \E t \in Threads : latency_ns[t] = l /\ pc[t] \in BeforeMin
       /\ max_latency >= l \/ \E t \in Threads : latency_ns[t] = l /\ pc[t] \in BeforeMax

(* A claimed slot has its latency, or the thread that is about to store    *)
(* it; the others are empty.                                               *)
SlotsInv ==
  /\ \A t \in Threads : pc[t] \in {"cas_slot", "store"} => current[t] \in 0 .. (DetailCount - 1)
  /\ \A t \in Threads : pc[t] = "store" =>
       current[t] < recorded_count /\ latencies[current[t]] = None
  /\ \A t, u \in Threads :
       t # u /\ pc[t] = "store" /\ pc[u] = "store" => current[t] # current[u]
  /\ \A i \in 0 .. (DetailCount - 1) :
       /\ i >= recorded_count => latencies[i] = None
       /\ i < recorded_count =>
            latencies[i] # None \/ \E t \in Threads : pc[t] = "store" /\ current[t] = i

RecorderInv == TypeOK /\ ExtremesInv /\ SlotsInv

LEMMA RecorderInit ==
  ASSUME RecorderAssumption, Init
  PROVE  RecorderInv
<1>1. Word \in Nat /\ Word > 1 /\ DetailCount \in Nat /\ Len(BucketLimits) \in Nat
  BY BucketAssumption
<1>2. 0 \in U64 /\ UINT64_MAX \in U64
  BY <1>1 DEF U64, UINT64_MAX
<1>3. /\ message_count = 0 /\ total_latency = 0 /\ min_latency = UINT64_MAX /\ max_latency = 0
      /\ latency_buckets = [i \in Buckets |-> 0] /\ recorded_count = 0
  BY DEF Init, create_performance_stats
<1>4. TypeOK
  BY <1>1, <1>2, <1>3 DEF Init, TypeOK, Steps
<1>5. Made = {}
  BY DEF Init, Made
<1>6. ExtremesInv
  BY <1>3, <1>5 DEF Init, ExtremesInv
<1>7. SlotsInv
  BY <1>1, <1>3 DEF Init, SlotsInv
<1>8. QED
  BY <1>4, <1>6, <1>7 DEF RecorderInv

(* Types.  A latency is a word, so is a count that wraps. *)
LEMMA TypeStep ==
  ASSUME RecorderAssumption, RecorderInv, NEW t \in Threads, Call(t) \/ record_latency_step(t)
  PROVE  TypeOK'
<1>1. /\ Word \in Nat /\ Word > 1 /\ DetailCount \in Nat /\ Latencies \subseteq U64
  BY BucketAssumption DEF RecorderAssumption
<1>2. \A n \in Nat : Wrap(n) \in U64
  BY <1>1 DEF Wrap, U64
<1>3. /\ pc \in [Threads -> Steps] /\ latency_ns \in [Threads -> U64]
      /\ current \in [Threads -> U64 \cup 0 .. DetailCount] /\ calls \in [Latencies -> Nat]
      /\ message_count \in Nat /\ total_latency \in Nat /\ latency_ns[t] \in Nat
      /\ min_latency \in U64 /\ max_latency \in U64 /\ latency_ns[t] \in U64
      /\ recorded_count \in 0 .. DetailCount
  BY <1>1 DEF RecorderInv, TypeOK, U64
<1> USE DEF RecorderInv
<1>4. CASE Call(t)
  <2>1. PICK l \in Latencies :
          /\ latency_ns' = [latency_ns EXCEPT ![t] = l] /\ calls' = [calls EXCEPT ![l] = calls[l] + 1]
          /\ pc' = [pc EXCEPT ![t] = "count"] /\ UNCHANGED <<shared, current>>
    BY <1>4 DEF Call, Goto
  <2>2. /\ latency_ns' \in [Threads -> U64] /\ calls' \in [Latencies -> Nat]
        /\ pc' \in [Threads -> Steps]
    BY <1>1, <1>3, <2>1 DEF Steps
  <2>3. QED
    BY <2>1, <2>2 DEF TypeOK, shared
<1>5. CASE AddCount(t)
  BY <1>2, <1>3, <1>5 DEF AddCount, Goto, TypeOK, Steps
<1>6. CASE AddTotal(t)
  BY <1>2, <1>3, <1>6 DEF AddTotal, Goto, TypeOK, Steps
<1>7. CASE LoadMin(t)
  BY <1>3, <1>7 DEF LoadMin, Goto, TypeOK, Steps, shared
<1>8. CASE CasMin(t)
  <2>1. pc' \in [Threads -> Steps]
    BY <1>3, <1>8 DEF CasMin, Goto, Steps
  <2>2. min_latency' \in U64 /\ current' \in [Threads -> U64 \cup 0 .. DetailCount]
    BY <1>3, <1>8 DEF CasMin
  <2>3. QED
    BY <1>8, <2>1, <2>2 DEF CasMin, TypeOK
<1>9. CASE LoadMax(t)
  BY <1>3, <1>9 DEF LoadMax, Goto, TypeOK, Steps, shared
<1>10. CASE CasMax(t)
  <2>1. pc' \in [Threads -> Steps]
    BY <1>3, <1>10 DEF CasMax, Goto, Steps
  <2>2. max_latency' \in U64 /\ current' \in [Threads -> U64 \cup 0 .. DetailCount]
    BY <1>3, <1>10 DEF CasMax
  <2>3. QED
    BY <1>10, <2>1, <2>2 DEF CasMax, TypeOK
<1>11. CASE AddBucket(t)
  <2> DEFINE b == BucketOf(latency_ns[t])
  <2>1. latency_buckets' = [latency_buckets EXCEPT ![b] = Wrap(latency_buckets[b] + 1)]
    BY <1>11 DEF AddBucket
  <2>2. latency_buckets \in [Buckets -> U64]
    BY DEF TypeOK
  <2> HIDE DEF b
  <2>3. latency_buckets' \in [Buckets -> U64]
    <3>1. CASE b \in Buckets
      <4>1. latency_buckets[b] + 1 \in Nat
        BY <1>1, <2>2, <3>1 DEF U64
      <4>2. QED
        BY <1>2, <2>1, <2>2, <4>1
    <3>2. CASE b \notin Buckets
      BY <2>1, <2>2, <3>2
    <3>3. QED
      BY <3>1, <3>2
  <2>4. QED
    BY <1>3, <1>11, <2>3 DEF AddBucket, Goto, TypeOK, Steps
<1>12. CASE LoadSlot(t)
  BY <1>3, <1>12 DEF LoadSlot, Goto, TypeOK, Steps, shared
<1>13. CASE CasSlot(t)
  <2>1. pc' \in [Threads -> Steps]
    BY <1>3, <1>13 DEF CasSlot, Goto, Steps
  <2>2. recorded_count' \in 0 .. DetailCount
    <3>1. current[t] \in 0 .. (DetailCount - 1)
      BY <1>13 DEF CasSlot, SlotsInv
    <3>2. recorded_count' = recorded_count \/ (recorded_count = current[t] /\ recorded_count' = recorded_count + 1)
      BY <1>13 DEF CasSlot
    <3>3. QED
      BY <1>1, <1>3, <3>1, <3>2
  <2>3. QED
    BY <1>13, <2>1, <2>2 DEF CasSlot, TypeOK
<1>14. CASE StoreSlot(t)
  <2>1. latency_ns[t] \in Latencies
    BY <1>14 DEF StoreSlot, ExtremesInv, Made
  <2>2. latencies' \in [0 .. (DetailCount - 1) -> Latencies \cup {None}]
    BY <1>14, <2>1 DEF StoreSlot, TypeOK
  <2>3. QED
    BY <1>3, <1>14, <2>2 DEF StoreSlot, Goto, TypeOK, Steps
<1>15. QED
  BY <1>4, <1>5, <1>6, <1>7, <1>8, <1>9, <1>10, <1>11, <1>12, <1>13, <1>14 DEF record_latency_step

(* An extreme only moves towards a latency of its thread, and only from    *)
(* the value that the thread compared with.                                *)
LEMMA ExtremeMoves ==
  ASSUME RecorderAssumption, RecorderInv, NEW t \in Threads, Call(t) \/ record_latency_step(t)
  PROVE  /\ min_latency' # min_latency =>
              /\ pc[t] = "cas_min" /\ min_latency' = latency_ns[t] /\ latency_ns[t] < min_latency
         /\ max_latency' # max_latency =>
              /\ pc[t] = "cas_max" /\ max_latency' = latency_ns[t] /\ latency_ns[t] > max_latency
BY DEF Call, record_latency_step, shared, AddCount, AddTotal, LoadMin, CasMin, LoadMax, CasMax,
       AddBucket, LoadSlot, CasSlot, StoreSlot

LEMMA Monotone ==
  ASSUME RecorderAssumption, RecorderInv, NEW t \in Threads, Call(t) \/ record_latency_step(t)
  PROVE  ExtremesMonotone
<1>1. /\ min_latency \in Int /\ max_latency \in Int /\ latency_ns[t] \in Int
  BY BucketAssumption DEF RecorderInv, TypeOK, U64
<1>2. QED
  BY <1>1, ExtremeMoves DEF ExtremesMonotone

(* A thread leaves the loop for the minimum when the minimum is not above  *)
(* its latency, and the other loop in the same way; every other thread     *)
(* stays where it is.                                                      *)
LEMMA LeavesLoops ==
  ASSUME RecorderAssumption, RecorderInv, NEW t \in Threads, record_latency_step(t)
  PROVE  /\ pc[t] # "idle" /\ latency_ns' = latency_ns /\ calls' = calls
         /\ pc[t] \in BeforeMin /\ pc'[t] \notin BeforeMin => min_latency' <= latency_ns[t]
         /\ pc[t] \in BeforeMax /\ pc'[t] \notin BeforeMax => max_latency' >= latency_ns[t]
         /\ pc'[t] = "cas_min" => min_latency' <= current'[t]
         /\ pc'[t] = "cas_max" => max_latency' >= current'[t]
         /\ pc' \in [Threads -> Steps]
         /\ \A u \in Threads : u # t => pc'[u] = pc[u] /\ current'[u] = current[u]
<1>1. /\ min_latency \in Int /\ max_latency \in Int /\ latency_ns[t] \in Int /\ current[t] \in Int
      /\ pc \in [Threads -> Steps] /\ current \in [Threads -> U64 \cup 0 .. DetailCount]
      /\ pc[t] = "cas_min" => min_latency <= current[t]
      /\ pc[t] = "cas_max" => max_latency >= current[t]
  BY BucketAssumption DEF RecorderInv, TypeOK, U64, ExtremesInv
<1>2. CASE AddCount(t) \/ AddTotal(t) \/ AddBucket(t) \/ CasSlot(t) \/ StoreSlot(t)
  BY <1>1, <1>2 DEF AddCount, AddTotal, AddBucket, CasSlot, StoreSlot, Goto, BeforeMin, BeforeMax,
                    Steps
<1>3. CASE LoadMin(t) \/ LoadMax(t) \/ LoadSlot(t)
  BY <1>1, <1>3 DEF LoadMin, LoadMax, LoadSlot, Goto, BeforeMin, BeforeMax, shared, Steps
<1>4. CASE CasMin(t)
  BY <1>1, <1>4 DEF CasMin, Goto, BeforeMin, BeforeMax, Steps
<1>5. CASE CasMax(t)
  BY <1>1, <1>5 DEF CasMax, Goto, BeforeMin, BeforeMax, Steps
<1>6. QED
  BY <1>2, <1>3, <1>4, <1>5 DEF record_latency_step

LEMMA ExtremesStep ==
  ASSUME RecorderAssumption, RecorderInv, NEW t \in Threads, Call(t) \/ record_latency_step(t)
  PROVE  ExtremesInv'
<1>1. /\ min_latency \in Int /\ max_latency \in Int /\ min_latency' \in Int /\ max_latency' \in Int
      /\ min_latency' <= min_latency /\ max_latency' >= max_latency
      /\ Made \subseteq Int /\ latency_ns \in [Threads -> Int]
      /\ \A u \in Threads : current[u] \in Int
  <2>1. TypeOK /\ TypeOK' /\ ExtremesMonotone
    BY TypeStep, Monotone DEF RecorderInv
  <2>2. U64 \subseteq Int /\ Made \subseteq U64
    <3>1. U64 \subseteq Int
      BY BucketAssumption DEF U64
    <3>2. Latencies \subseteq U64
      BY DEF RecorderAssumption
    <3>3. QED
      BY <3>1, <3>2 DEF Made
  <2>3. min_latency \in Int /\ max_latency \in Int /\ latency_ns \in [Threads -> Int]
    BY <2>1, <2>2 DEF TypeOK
  <2>4. min_latency' \in Int /\ max_latency' \in Int
    BY <2>1, <2>2 DEF TypeOK
  <2>5. ASSUME NEW u \in Threads PROVE current[u] \in Int
    <3>1. current[u] \in U64 \cup 0 .. DetailCount
      BY <2>1 DEF TypeOK
    <3>2. 0 .. DetailCount \subseteq Int
      BY BucketAssumption
    <3>3. QED
      BY <2>2, <3>1, <3>2
  <2>6. QED
    BY <2>1, <2>2, <2>3, <2>4, <2>5 DEF ExtremesMonotone
<1>2. CASE Call(t)
  <2>1. PICK l \in Latencies :
          /\ latency_ns' = [latency_ns EXCEPT ![t] = l] /\ calls' = [calls EXCEPT ![l] = calls[l] + 1]
          /\ pc' = [pc EXCEPT ![t] = "count"] /\ pc[t] = "idle" /\ UNCHANGED <<shared, current>>
    BY <1>2 DEF Call, Goto
  <2>2. Made' = Made \cup {l}
    <3>1. calls \in [Latencies -> Nat]
      BY DEF RecorderInv, TypeOK
    <3>2. \A k \in Latencies : calls'[k] = IF k = l THEN calls[k] + 1 ELSE calls[k]
      BY <2>1, <3>1
    <3>3. QED
      BY <3>1, <3>2 DEF Made
  <2>3. min_latency' = min_latency /\ max_latency' = max_latency /\ current' = current
    BY <2>1 DEF shared
  <2>4. /\ latency_ns'[t] = l /\ pc'[t] = "count"
        /\ \A u \in Threads : u # t => latency_ns'[u] = latency_ns[u] /\ pc'[u] = pc[u]
    BY <2>1 DEF RecorderInv, TypeOK
  <2>5. ASSUME NEW k \in Made'
        PROVE  /\ min_latency <= k \/ \E u \in Threads : latency_ns'[u] = k /\ pc'[u] \in BeforeMin
               /\ max_latency >= k \/ \E u \in Threads : latency_ns'[u] = k /\ pc'[u] \in BeforeMax
    <3>1. CASE k = l
      BY <2>4, <3>1 DEF BeforeMin, BeforeMax
    <3>2. CASE k # l
      <4>1. k \in Made
        BY <2>2, <2>5, <3>2
      <4>2. pc[t] \notin BeforeMin /\ pc[t] \notin BeforeMax
        BY <2>1 DEF BeforeMin, BeforeMax
      <4>3. QED
        BY <2>4, <4>1, <4>2 DEF RecorderInv, ExtremesInv
    <3>3. QED
      BY <3>1, <3>2
  <2>6. \A u \in Threads : pc'[u] # "idle" => latency_ns'[u] \in Made'
    BY <2>2, <2>4 DEF RecorderInv, ExtremesInv
  <2>7. \A u \in Threads : /\ pc'[u] = "cas_min" => min_latency <= current[u]
                           /\ pc'[u] = "cas_max" => max_latency >= current[u]
    BY <2>4 DEF RecorderInv, ExtremesInv
  <2>8. QED
    BY <2>2, <2>3, <2>5, <2>6, <2>7 DEF RecorderInv, ExtremesInv
<1>3. CASE record_latency_step(t)
  <2>1. /\ pc[t] # "idle" /\ latency_ns' = latency_ns /\ calls' = calls
        /\ pc[t] \in BeforeMin /\ pc'[t] \notin BeforeMin => min_latency' <= latency_ns[t]
        /\ pc[t] \in BeforeMax /\ pc'[t] \notin BeforeMax => max_latency' >= latency_ns[t]
        /\ pc'[t] = "cas_min" => min_latency' <= current'[t]
        /\ pc'[t] = "cas_max" => max_latency' >= current'[t]
        /\ \A u \in Threads : u # t => pc'[u] = pc[u] /\ current'[u] = current[u]
    BY <1>3, LeavesLoops
  <2>2. Made' = Made /\ latency_ns[t] \in Made
    BY <2>1 DEF Made, RecorderInv, ExtremesInv
  <2>3. min_latency' \in Made' \cup {UINT64_MAX} /\ max_latency' \in Made' \cup {0}
    BY <1>3, <2>2, ExtremeMoves DEF RecorderInv, ExtremesInv
  <2>4. \A u \in Threads : pc'[u] # "idle" => latency_ns'[u] \in Made'
    BY <2>1, <2>2 DEF RecorderInv, ExtremesInv
  <2>5. ASSUME NEW u \in Threads
        PROVE  /\ pc'[u] = "cas_min" => min_latency' <= current'[u]
               /\ pc'[u] = "cas_max" => max_latency' >= current'[u]
    <3>1. CASE u = t
      BY <2>1, <3>1
    <3>2. CASE u # t
      <4>1. /\ pc[u] = "cas_min" => min_latency <= current[u]
            /\ pc[u] = "cas_max" => max_latency >= current[u]
        BY DEF RecorderInv, ExtremesInv
      <4>2. QED
        BY <1>1, <2>1, <3>2, <4>1
    <3>3. QED
      BY <3>1, <3>2
  <2>6. ASSUME NEW l \in Made
        PROVE  min_latency' <= l \/ \E u \in Threads : latency_ns[u] = l /\ pc'[u] \in BeforeMin
    <3>1. CASE min_latency <= l
      BY <1>1, <3>1
    <3>2. CASE \E u \in Threads : latency_ns[u] = l /\ pc[u] \in BeforeMin
      BY <2>1, <3>2
    <3>3. QED
      BY <3>1, <3>2 DEF RecorderInv, ExtremesInv
  <2>7. ASSUME NEW l \in Made
        PROVE  max_latency' >= l \/ \E u \in Threads : latency_ns[u] = l /\ pc'[u] \in BeforeMax
    <3>1. CASE max_latency >= l
      BY <1>1, <3>1
    <3>2. CASE \E u \in Threads : latency_ns[u] = l /\ pc[u] \in BeforeMax
      BY <2>1, <3>2
    <3>3. QED
      BY <3>1, <3>2 DEF RecorderInv, ExtremesInv
  <2>8. QED
    BY <2>1, <2>2, <2>3, <2>4, <2>5, <2>6, <2>7 DEF ExtremesInv
<1>4. QED
  BY <1>2, <1>3

(* The calls that are not at the detail array leave it alone. *)
LEMMA SlotsUntouched ==
  ASSUME TypeOK, NEW t \in Threads,
         Call(t) \/ AddCount(t) \/ AddTotal(t) \/ LoadMin(t) \/ CasMin(t) \/ LoadMax(t) \/ CasMax(t)
         \/ AddBucket(t)
  PROVE  /\ pc[t] \notin {"cas_slot", "store"} /\ pc'[t] \notin {"cas_slot", "store"}
         /\ recorded_count' = recorded_count /\ latencies' = latencies
         /\ \A u \in Threads : u # t => pc'[u] = pc[u] /\ current'[u] = current[u]
<1>1. pc \in [Threads -> Steps] /\ current \in [Threads -> U64 \cup 0 .. DetailCount]
  BY DEF TypeOK
<1>2. CASE Call(t)
  BY <1>1, <1>2 DEF Call, Goto, shared
<1>3. CASE AddCount(t) \/ AddTotal(t) \/ AddBucket(t)
  BY <1>1, <1>3 DEF AddCount, AddTotal, AddBucket, Goto
<1>4. CASE LoadMin(t) \/ LoadMax(t)
  BY <1>1, <1>4 DEF LoadMin, LoadMax, Goto, shared
<1>5. CASE CasMin(t) \/ CasMax(t)
  BY <1>1, <1>5 DEF CasMin, CasMax, Goto
<1>6. QED
  BY <1>2, <1>3, <1>4, <1>5

LEMMA SlotsStep ==
  ASSUME RecorderAssumption, RecorderInv, NEW t \in Threads, Call(t) \/ record_latency_step(t)
  PROVE  SlotsInv'
<1>1. /\ DetailCount \in Nat /\ recorded_count \in 0 .. DetailCount
      /\ pc \in [Threads -> Steps] /\ current \in [Threads -> U64 \cup 0 .. DetailCount]
      /\ latencies \in [0 .. (DetailCount - 1) -> Latencies \cup {None}] /\ TypeOK
  BY BucketAssumption DEF RecorderInv, TypeOK
<1>2. /\ \A u \in Threads : pc[u] \in {"cas_slot", "store"} => current[u] \in 0 .. (DetailCount - 1)
      /\ \A u \in Threads : pc[u] = "store" =>
           current[u] < recorded_count /\ latencies[current[u]] = None
      /\ \A u, v \in Threads :
           u # v /\ pc[u] = "store" /\ pc[v] = "store" => current[u] # current[v]
      /\ \A i \in 0 .. (DetailCount - 1) :
           /\ i >= recorded_count => latencies[i] = None
           /\ i < recorded_count =>
                latencies[i] # None \/ \E u \in Threads : pc[u] = "store" /\ current[u] = i
  BY DEF RecorderInv, SlotsInv
<1>3. CASE Call(t) \/ AddCount(t) \/ AddTotal(t) \/ LoadMin(t) \/ CasMin(t) \/ LoadMax(t) \/ CasMax(t)
           \/ AddBucket(t)
  <2>1. /\ pc[t] \notin {"cas_slot", "store"} /\ pc'[t] \notin {"cas_slot", "store"}
        /\ recorded_count' = recorded_count /\ latencies' = latencies
        /\ \A u \in Threads : u # t => pc'[u] = pc[u] /\ current'[u] = current[u]
    BY <1>1, <1>3, SlotsUntouched
  <2>2. \A u \in Threads : /\ pc'[u] = "store" <=> pc[u] = "store"
                           /\ pc'[u] = "cas_slot" <=> pc[u] = "cas_slot"
                           /\ pc[u] \in {"cas_slot", "store"} => current'[u] = current[u]
    BY <2>1
  <2>3. QED
    BY <1>2, <2>1, <2>2 DEF SlotsInv
<1>4. CASE LoadSlot(t)
  <2>1. /\ recorded_count' = recorded_count /\ latencies' = latencies
        /\ current'[t] = recorded_count /\ pc[t] = "load_slot" /\ pc'[t] \in {"cas_slot", "idle"}
        /\ pc'[t] = "cas_slot" => recorded_count < DetailCount
        /\ \A u \in Threads : u # t => pc'[u] = pc[u] /\ current'[u] = current[u]
    BY <1>1, <1>4 DEF LoadSlot, Goto, shared
  <2>2. \A u \in Threads : pc'[u] = "store" <=> pc[u] = "store"
    BY <2>1
  <2>3. \A u \in Threads : pc[u] = "store" => current'[u] = current[u]
    BY <2>1
  <2>4. \A u \in Threads : pc'[u] \in {"cas_slot", "store"} => current'[u] \in 0 .. (DetailCount - 1)
    BY <1>1, <1>2, <2>1
  <2>5. QED
    BY <1>2, <2>1, <2>2, <2>3, <2>4 DEF SlotsInv
<1>5. CASE CasSlot(t)
  <2>1. /\ current' = current /\ latencies' = latencies /\ pc[t] = "cas_slot"
        /\ \A u \in Threads : u # t => pc'[u] = pc[u]
        /\ \/ recorded_count = current[t] /\ recorded_count' = recorded_count + 1 /\ pc'[t] = "store"
           \/ recorded_count' = recorded_count /\ pc'[t] = "idle"
    BY <1>1, <1>5 DEF CasSlot, Goto
  <2>2. current[t] \in 0 .. (DetailCount - 1)
    BY <1>2, <2>1
  <2>3. CASE recorded_count' = recorded_count /\ pc'[t] = "idle"
    <3>1. \A u \in Threads : (pc'[u] = "store" <=> pc[u] = "store")
      BY <2>1, <2>3
    <3>2. \A u \in Threads : pc'[u] \in {"cas_slot", "store"} => current'[u] \in 0 .. (DetailCount - 1)
      BY <1>2, <2>1, <2>3
    <3>3. QED
      BY <1>2, <2>1, <2>3, <3>1, <3>2 DEF SlotsInv
  <2>4. CASE recorded_count = current[t] /\ recorded_count' = recorded_count + 1 /\ pc'[t] = "store"
    <3>1. latencies[current[t]] = None /\ current[t] < recorded_count'
      BY <1>1, <1>2, <2>2, <2>4
    <3>2. ASSUME NEW u \in Threads, u # t, pc[u] = "store"
          PROVE  current[u] # current[t] /\ current[u] < recorded_count'
      <4>1. current[u] < recorded_count /\ current[u] \in 0 .. (DetailCount - 1)
        BY <1>2, <3>2
      <4>2. QED
        BY <1>1, <2>4, <4>1
    <3>3. \A u \in Threads : pc'[u] \in {"cas_slot", "store"} => current'[u] \in 0 .. (DetailCount - 1)
      BY <1>2, <2>1, <2>2
    <3>4. \A u \in Threads : pc'[u] = "store" =>
            current'[u] < recorded_count' /\ latencies'[current'[u]] = None
      BY <1>2, <2>1, <3>1, <3>2
    <3>5. \A u, v \in Threads :
            u # v /\ pc'[u] = "store" /\ pc'[v] = "store" => current'[u] # current'[v]
      BY <1>2, <2>1, <3>2
    <3>6. ASSUME NEW i \in 0 .. (DetailCount - 1)
          PROVE  /\ i >= recorded_count' => latencies'[i] = None
                 /\ i < recorded_count' =>
                      latencies'[i] # None \/ \E u \in Threads : pc'[u] = "store" /\ current'[u] = i
      <4>1. CASE i = current[t]
        BY <1>1, <2>1, <2>4, <3>1, <4>1
      <4>2. CASE i # current[t]
        <5>1. /\ i >= recorded_count' => i >= recorded_count
              /\ i < recorded_count' => i < recorded_count
          BY <1>1, <2>4, <4>2
        <5>2. \A u \in Threads : pc[u] = "store" => pc'[u] = "store"
          BY <2>1
        <5>3. QED
          BY <1>2, <2>1, <5>1, <5>2
      <4>3. QED
        BY <4>1, <4>2
    <3>7. QED
      BY <3>3, <3>4, <3>5, <3>6 DEF SlotsInv
  <2>5. QED
    BY <2>1, <2>3, <2>4
<1>6. CASE StoreSlot(t)
  <2>1. /\ current' = current /\ recorded_count' = recorded_count /\ pc[t] = "store"
        /\ pc'[t] = "idle" /\ \A u \in Threads : u # t => pc'[u] = pc[u]
        /\ latencies' = [latencies EXCEPT ![current[t]] = latency_ns[t]]
    BY <1>1, <1>6 DEF StoreSlot, Goto
  <2>2. current[t] \in 0 .. (DetailCount - 1) /\ latency_ns[t] # None
    <3>1. latency_ns[t] \in U64
      BY <1>1 DEF TypeOK
    <3>2. latency_ns[t] # None
      BY <3>1, BucketAssumption DEF U64, None
    <3>3. QED
      BY <1>2, <2>1, <3>2
  <2>3. /\ latencies'[current[t]] = latency_ns[t]
        /\ \A i \in 0 .. (DetailCount - 1) : i # current[t] => latencies'[i] = latencies[i]
    BY <1>1, <2>1, <2>2
  <2>4. \A u \in Threads : pc'[u] \in {"cas_slot", "store"} => u # t /\ pc'[u] = pc[u]
    BY <2>1
  <2>5. \A u \in Threads : pc'[u] = "store" =>
          current'[u] < recorded_count' /\ latencies'[current'[u]] = None
    BY <1>2, <2>1, <2>3, <2>4
  <2>6. ASSUME NEW i \in 0 .. (DetailCount - 1)
        PROVE  /\ i >= recorded_count' => latencies'[i] = None
               /\ i < recorded_count' =>
                    latencies'[i] # None \/ \E u \in Threads : pc'[u] = "store" /\ current'[u] = i
    <3>1. CASE i = current[t]
      <4>1. ~(i >= recorded_count) /\ latencies'[i] # None
        BY <1>1, <1>2, <2>1, <2>2, <2>3, <3>1
      <4>2. QED
        BY <2>1, <4>1
    <3>2. CASE i # current[t]
      <4>1. latencies'[i] = latencies[i]
        BY <2>3, <3>2
      <4>2. \A u \in Threads : pc[u] = "store" /\ current[u] = i => pc'[u] = "store" /\ current'[u] = i
        BY <2>1, <3>2
      <4>3. QED
        BY <1>2, <2>1, <4>1, <4>2
    <3>3. QED
      BY <3>1, <3>2
  <2>7. QED
    BY <1>2, <2>1, <2>4, <2>5, <2>6 DEF SlotsInv
<1>7. QED
  BY <1>3, <1>4, <1>5, <1>6 DEF record_latency_step

LEMMA RecorderStep ==
  ASSUME RecorderAssumption, RecorderInv, [Next]_vars
  PROVE  RecorderInv' /\ [ExtremesMonotone]_vars
<1>1. CASE UNCHANGED vars
  <2>1. TypeOK'
    BY <1>1 DEF vars, shared, RecorderInv, TypeOK
  <2>2. ExtremesInv'
    BY <1>1 DEF vars, shared, RecorderInv, ExtremesInv, Made
  <2>3. SlotsInv'
    BY <1>1 DEF vars, shared, RecorderInv, SlotsInv
  <2>4. QED
    BY <1>1, <2>1, <2>2, <2>3 DEF RecorderInv
<1>2. CASE \E t \in Threads : Call(t) \/ record_latency_step(t)
  BY <1>2, TypeStep, ExtremesStep, SlotsStep, Monotone DEF RecorderInv
<1>3. QED
  BY <1>1, <1>2 DEF Next, Finished

(* Threads that call record_latency together never share a slot of the     *)
(* detail array, never write one twice, and leave none empty below         *)
(* recorded_count; every location keeps its type.                          *)
THEOREM SlotsClaimedOnceHolds ==
  ASSUME RecorderAssumption
  PROVE  Spec => [](TypeOK /\ SlotsClaimedOnce)
<1>1. Init => RecorderInv
  BY RecorderInit
<1>2. RecorderInv /\ [Next]_vars => RecorderInv'
  BY RecorderStep
<1>3. RecorderInv => TypeOK /\ SlotsClaimedOnce
  <2> SUFFICES ASSUME RecorderInv PROVE TypeOK /\ SlotsClaimedOnce
    OBVIOUS
  <2>1. ASSUME Quiescent, NEW i \in 0 .. (recorded_count - 1) PROVE latencies[i] # None
    <3>1. DetailCount \in Nat /\ recorded_count \in 0 .. DetailCount
      BY BucketAssumption DEF RecorderInv, TypeOK
    <3>2. i \in 0 .. (DetailCount - 1) /\ i < recorded_count
      BY <2>1, <3>1
    <3>3. QED
      BY <2>1, <3>2 DEF Quiescent, RecorderInv, SlotsInv
  <2>2. QED
    BY <2>1 DEF RecorderInv, SlotsInv, SlotsClaimedOnce
<1>4. QED
  BY <1>1, <1>2, <1>3, PTL DEF Spec

(* The loops of compare-and-exchange in record_latency lose no extreme:    *)
(* with no call in progress the minimum and the maximum are those of all   *)
(* calls, for any number of threads and whatever the interleaving, and     *)
(* neither ever moves back.                                                *)
THEOREM ExtremesExactHolds ==
  ASSUME RecorderAssumption
  PROVE  Spec => []ExtremesExact /\ [][ExtremesMonotone]_vars
<1>1. Init => RecorderInv
  BY RecorderInit
<1>2. RecorderInv /\ [Next]_vars => RecorderInv' /\ [ExtremesMonotone]_vars
  BY RecorderStep
<1>3. RecorderInv => ExtremesExact
  <2> SUFFICES ASSUME RecorderInv PROVE ExtremesExact
    OBVIOUS
  <2>1. ASSUME Quiescent, NEW l \in Made PROVE min_latency <= l /\ l <= max_latency
    <3>1. max_latency >= l /\ min_latency <= l
      BY <2>1 DEF Quiescent, RecorderInv, ExtremesInv, BeforeMin, BeforeMax
    <3>2. max_latency \in Int /\ l \in Int
      BY BucketAssumption DEF RecorderInv, TypeOK, U64, Made, RecorderAssumption
    <3>3. QED
      BY <3>1, <3>2
  <2>2. QED
    BY <2>1 DEF RecorderInv, ExtremesInv, ExtremesExact
<1>4. QED
  BY <1>1, <1>2, <1>3, PTL DEF Spec
=============================================================================
