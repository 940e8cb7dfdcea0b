-------------------------- MODULE SubscriberProofs --------------------------
(***************************************************************************)
(* The theorems about Subscriber, for every value of its constants.  The   *)
(* inductive invariant Inv is proved conjunct by conjunct: one lemma says  *)
(* that a step preserves it, with one case per action, or per group of     *)
(* actions that leave the same variables alone.                            *)
(***************************************************************************)
EXTENDS Subscriber, WellFoundedInduction, TLAPS

(* record_latency's bucket loop always finds a bucket: the table ends with *)
(* UINT64_MAX, which no latency in microseconds reaches.                   *)
LEMMA BucketExists ==
  ASSUME NEW latency \in U64
  PROVE  BucketOf(latency) \in Buckets
<1> DEFINE T == {i \in Buckets : FitsBucket(latency, i)}
<1>1. Len(BucketLimits) \in Nat /\ Len(BucketLimits) \in Buckets
  BY BucketAssumption DEF Buckets
<1>2. latency \div NsPerUs < Word - 1
  <2>1. latency \in Nat /\ latency < Word /\ Word \in Nat /\ Word > 1 /\ NsPerUs \in Nat /\ NsPerUs > 1
    BY BucketAssumption DEF U64
  <2>2. CASE latency = 0
    <3>1. 0 \div NsPerUs = 0
      BY <2>1, Z3
    <3> QED BY <2>1, <2>2, <3>1
  <2>3. CASE latency > 0
    <3>1. latency \div NsPerUs < latency
      BY <2>1, <2>3, Z3
    <3>2. latency \div NsPerUs \in Nat
      BY <2>1, Z3
    <3> QED BY <2>1, <3>1, <3>2
  <2> QED BY <2>1, <2>2, <2>3
<1>3. T # {}
  BY <1>1, <1>2, BucketAssumption DEF FitsBucket
<1>4. IsWellFoundedOn(OpToRel(<, Nat), Nat)
  BY NatLessThanWellFounded
<1>5. T \subseteq Nat
  BY DEF Buckets
<1>6. PICK i \in T : \A j \in T : <<j, i>> \notin OpToRel(<, Nat)
  BY <1>3, <1>4, <1>5, WFMin
<1>7. \A j \in T : ~(j < i)
  BY <1>5, <1>6 DEF OpToRel
<1> QED
  BY <1>7 DEF BucketOf, Buckets

(* What record_latency returns is again a performance_stats_t. *)
LEMMA RecordLatencyType ==
  ASSUME NEW p \in PerformanceStats, NEW latency \in U64
  PROVE  record_latency(p, latency) \in PerformanceStats
<1>1. \A n \in Nat : Wrap(n) \in U64
  BY BucketAssumption, Z3 DEF Wrap, U64
<1>2. BucketOf(latency) \in Buckets
  BY BucketExists
<1>3. /\ p.message_count \in Nat /\ p.total_latency \in Nat
      /\ p.latency_buckets \in [Buckets -> U64] /\ p.recorded_count \in Nat
      /\ p.min_latency \in U64 /\ p.max_latency \in U64
      /\ latency \in Nat
  BY BucketAssumption DEF PerformanceStats, U64
<1>4. Wrap(p.latency_buckets[BucketOf(latency)] + 1) \in U64
  <2>1. p.latency_buckets[BucketOf(latency)] \in U64
    BY <1>2, <1>3
  <2>2. p.latency_buckets[BucketOf(latency)] \in Nat
    BY <2>1, BucketAssumption DEF U64
  <2> QED BY <1>1, <2>2
<1>5. [p.latency_buckets EXCEPT ![BucketOf(latency)] = Wrap(@ + 1)]
        \in [Buckets -> U64]
  BY <1>3, <1>4
<1>6. Lower(latency, p.min_latency) \in U64 /\ Higher(latency, p.max_latency) \in U64
  BY <1>3 DEF Lower, Higher
<1>7. Wrap(p.message_count + 1) \in U64 /\ Wrap(p.total_latency + latency) \in U64
  BY <1>1, <1>3
<1> QED
  BY <1>3, <1>5, <1>6, <1>7 DEF record_latency, PerformanceStats

(* uint64_t arithmetic stays a uint64_t. *)
LEMMA WrapType == \A n \in Int : Wrap(n) \in U64
  BY BucketAssumption, Z3 DEF Wrap, U64

(* create_performance_stats returns a well-formed performance_stats_t. *)
LEMMA CreateType == create_performance_stats \in PerformanceStats
  BY BucketAssumption DEF create_performance_stats, PerformanceStats, U64, UINT64_MAX

-----------------------------------------------------------------------------
(* Type correctness *)

(* The process starts well-typed. *)
LEMMA TypeInit == Init => TypeOK
  BY CreateType, SubscriberAssumption, BucketAssumption
  DEF Init, TypeOK, MainLocations, StatsLocations, Setup, U64

(* Nested tuples of variables, opened wherever a step says UNCHANGED. *)
USE DEF counters, last_vars, latency_vars, session_vars

-----------------------------------------------------------------------------
(* What whole groups of actions leave alone *)

Closing ==
  \/ pthread_join \/ JoinUninitialised \/ print_final_stats
  \/ cleanup_subscriber_stats \/ CloseObjects

(* Opening the client touches nothing of the run. *)
LEMMA SessionFrame ==
  Session => /\ SessionOnly
             /\ main \in Setup
             /\ main' \in (Setup \cup {"close"}) /\ main' # "spawn"
  BY DEF Session, SessionOnly, Setup, Fails, Opens, aeron_context_init,
    aeron_context_set_dir, aeron_init, aeron_start,
    aeron_async_add_subscription, aeron_async_add_subscription_poll,
    AwaitInterrupted, wait_for_connection_done, wait_for_connection_sleep

(* Neither does the way out; only the pointer to the statistics is dropped. *)
LEMMA ClosingFrame ==
  Closing => /\ ShutdownOnly /\ UNCHANGED mutex
             /\ UNCHANGED latency_ptr \/ latency_ptr' = "dropped"
             /\ main \in (Shutdown \cup {"close"})
             /\ main' \in ({"final", "cleanup"} \cup Ending)
             /\ main' \in {"final", "cleanup"} =>
                  main \in Shutdown /\ UNCHANGED latency_ptr
             /\ main = "join" => stats \in {"none", "done"}
             /\ main # "join" => main \in ({"final", "cleanup"} \cup Ending)
  BY DEF Closing, pthread_join, JoinUninitialised, print_final_stats,
    cleanup_subscriber_stats, CloseObjects, Shutdown, Ending

(* The statistics thread writes the last_ variables only, and the mutex.   *)
LEMMA StatsFrame ==
  stats_thread =>
    /\ StatsOnly
    /\ \/ UNCHANGED last_vars
       \/ /\ last_stats_time' = clock
          /\ last_messages_received' = messages_received
          /\ last_bytes_received' = bytes_received
    /\ stats \notin {"none", "done"} /\ stats' # "none"
  BY DEF stats_thread, StatsTest, StatsSleep, StatsAwake, ReportLock,
    print_realtime_stats, ReportUnlock

-----------------------------------------------------------------------------
(* Type correctness *)

(* Types are kept; a poll hands out no fragment it does not have, which is *)
(* why the batch bound is needed.                                          *)
LEMMA TypeStep == TypeOK /\ BatchBound /\ [Next]_vars => TypeOK'
<1> SUFFICES ASSUME TypeOK, BatchBound, [Next]_vars PROVE TypeOK'
  OBVIOUS
<1> USE SubscriberAssumption, BucketAssumption
<1>1. CASE Session
  <2>1. CASE aeron_context_init
    BY <2>1 DEF aeron_context_init, SessionOnly, Fails, Opens, TypeOK, MainLocations, Setup, Handler, Shutdown, Ending
  <2>2. CASE aeron_context_set_dir
    BY <2>2 DEF aeron_context_set_dir, SessionOnly, Fails, Opens, TypeOK, MainLocations, Setup, Handler, Shutdown, Ending
  <2>3. CASE aeron_init
    BY <2>3 DEF aeron_init, SessionOnly, Fails, Opens, TypeOK, MainLocations, Setup, Handler, Shutdown, Ending
  <2>4. CASE aeron_start
    BY <2>4 DEF aeron_start, SessionOnly, Fails, Opens, TypeOK, MainLocations, Setup, Handler, Shutdown, Ending
  <2>5. CASE aeron_async_add_subscription
    BY <2>5 DEF aeron_async_add_subscription, SessionOnly, Fails, Opens, TypeOK, MainLocations, Setup, Handler, Shutdown, Ending
  <2>6. CASE aeron_async_add_subscription_poll
    BY <2>6 DEF aeron_async_add_subscription_poll, SessionOnly, Fails, Opens, TypeOK, MainLocations, Setup, Handler, Shutdown, Ending
  <2>7. CASE AwaitInterrupted
    BY <2>7 DEF AwaitInterrupted, SessionOnly, Fails, Opens, TypeOK, MainLocations, Setup, Handler, Shutdown, Ending
  <2>8. CASE wait_for_connection_done
    BY <2>8 DEF wait_for_connection_done, SessionOnly, Fails, Opens, TypeOK, MainLocations, Setup, Handler, Shutdown, Ending
  <2>9. CASE wait_for_connection_sleep
    BY <2>9 DEF wait_for_connection_sleep, SessionOnly, Fails, Opens, TypeOK, MainLocations, Setup, Handler, Shutdown, Ending
  <2> QED
    BY <1>1, <2>1, <2>2, <2>3, <2>4, <2>5, <2>6, <2>7, <2>8, <2>9 DEF Session
<1>2. CASE init_subscriber_stats
  <2>1. /\ latency_stats' \in PerformanceStats
        /\ latency_ptr' \in {"null", "live", "dropped"}
    BY <1>2, CreateType DEF init_subscriber_stats, TypeOK
  <2>2. min_latency' \in U64 /\ max_latency' \in U64
    BY <1>2 DEF init_subscriber_stats, TypeOK, U64, UINT64_MAX
  <2>3. start_time' \in 0 .. MaxClock /\ last_stats_time' \in 0 .. MaxClock
    BY <1>2 DEF init_subscriber_stats, TypeOK
  <2> QED
    BY <1>2, <2>1, <2>2, <2>3
    DEF init_subscriber_stats, TypeOK, MainLocations, Setup, Ending
<1>3. CASE pthread_create
  BY <1>3 DEF pthread_create, StatsLocations, TypeOK, MainLocations, Setup, Handler, Shutdown, Ending
<1>4. CASE aeron_subscription_poll
  BY <1>4 DEF aeron_subscription_poll, MainOnly, TypeOK, MainLocations, Setup, Handler, Shutdown, Ending
<1>5. CASE LoopEnds
  <2>1. end_time' \in 0 .. MaxClock
    BY <1>5 DEF LoopEnds, LeaveLoop, TypeOK
  <2>2. polling_iterations' \in 0 .. MaxPolls
    BY <1>5 DEF LoopEnds, TypeOK
  <2> QED
    BY <1>5, <2>1, <2>2
    DEF LoopEnds, LeaveLoop, MainOnly, TypeOK, MainLocations, Shutdown
<1>6. CASE PollError
  <2>1. end_time' \in 0 .. MaxClock
    BY <1>6 DEF PollError, LeaveLoop, TypeOK
  <2>2. polling_iterations' \in 0 .. MaxPolls
    BY <1>6 DEF PollError, TypeOK
  <2> QED
    BY <1>6, <2>1, <2>2
    DEF PollError, LeaveLoop, MainOnly, TypeOK, MainLocations, Shutdown
<1>7. CASE SkipShortFragment
  BY <1>7 DEF SkipShortFragment, NextFragment, MainOnly, BatchBound, TypeOK, MainLocations, Setup, Handler, Shutdown, Ending
<1>8. CASE TimestampFragment
  <2>1. PICK length \in Lengths, send_timestamp \in SendTimes :
          frag' = [length |-> length, receive |-> clock,
                   latency |-> Wrap(clock - send_timestamp)]
    BY <1>8 DEF TimestampFragment
  <2>2. length \in Nat /\ clock - send_timestamp \in Int /\ clock \in 0 .. MaxClock
    BY DEF TypeOK
  <2>3. Wrap(clock - send_timestamp) \in U64
    BY <2>2, WrapType
  <2>4. frag' \in [length : Nat, receive : 0 .. MaxClock, latency : U64]
    BY <2>1, <2>2, <2>3
  <2> QED
    BY <1>8, <2>4 DEF TimestampFragment, MainOnly, TypeOK, MainLocations, Setup, Handler, Shutdown, Ending
<1>9. CASE HandlerLock
  BY <1>9 DEF HandlerLock, MainOnly, TypeOK, MainLocations, Setup, Handler, Shutdown, Ending
<1>10. CASE CountMessage
  BY <1>10 DEF CountMessage, MainOnly, TypeOK, MainLocations, Setup, Handler, Shutdown, Ending
<1>11. CASE CountBytes
  <2>1. frag.length \in Nat
    BY DEF TypeOK
  <2> QED
    BY <1>11, <2>1 DEF CountBytes, MainOnly, TypeOK, MainLocations, Setup, Handler, Shutdown, Ending
<1>12. CASE CountLatency
  <2>1. frag.latency \in U64
    BY DEF TypeOK
  <2>2. latency_stats' \in PerformanceStats
    BY <1>12, <2>1, RecordLatencyType DEF CountLatency, TypeOK
  <2>3. Wrap(total_latency + frag.latency) \in U64
    <3>1. total_latency + frag.latency \in Int
      BY <2>1 DEF TypeOK, U64
    <3> QED BY <3>1, WrapType
  <2>4. min_latency' \in U64 /\ max_latency' \in U64 /\ total_latency' \in U64
    BY <1>12, <2>1, <2>3 DEF CountLatency, Lower, Higher, TypeOK
  <2> QED
    BY <1>12, <2>2, <2>4 DEF CountLatency, MainOnly, TypeOK, MainLocations, Setup, Handler, Shutdown, Ending
<1>13. CASE HandlerUnlock
  BY <1>13 DEF HandlerUnlock, MainOnly, TypeOK, MainLocations, Setup, Handler, Shutdown, Ending
<1>14. CASE CheckTarget
  <2>1. frag.receive \in 0 .. MaxClock
    BY DEF TypeOK
  <2>2. batch - 1 \in 0 .. FragmentLimit
    BY <1>14 DEF CheckTarget, BatchBound, TypeOK, Handler
  <2> QED
    BY <1>14, <2>1, <2>2 DEF CheckTarget, NextFragment, MainOnly, TypeOK, MainLocations, Setup, Handler, Shutdown, Ending
<1>15. CASE Closing
  <2>1. CASE pthread_join
    BY <2>1 DEF pthread_join, ShutdownOnly, TypeOK, MainLocations, Setup, Handler, Shutdown, Ending
  <2>2. CASE JoinUninitialised
    BY <2>2 DEF JoinUninitialised, ShutdownOnly, TypeOK, MainLocations, Setup, Handler, Shutdown, Ending
  <2>3. CASE print_final_stats
    BY <2>3 DEF print_final_stats, ShutdownOnly, TypeOK, MainLocations, Setup, Handler, Shutdown, Ending
  <2>4. CASE cleanup_subscriber_stats
    BY <2>4 DEF cleanup_subscriber_stats, ShutdownOnly, TypeOK, MainLocations, Setup, Handler, Shutdown, Ending
  <2>5. CASE CloseObjects
    BY <2>5 DEF CloseObjects, ShutdownOnly, TypeOK, MainLocations, Setup, Handler, Shutdown, Ending
  <2> QED
    BY <1>15, <2>1, <2>2, <2>3, <2>4, <2>5 DEF Closing
<1>16. CASE stats_thread
  <2>1. CASE StatsTest
    BY <2>1 DEF StatsTest, StatsOnly, TypeOK, StatsLocations
  <2>2. CASE StatsSleep
    BY <2>2 DEF StatsSleep, StatsOnly, TypeOK, StatsLocations
  <2>3. CASE StatsAwake
    BY <2>3 DEF StatsAwake, StatsOnly, TypeOK, StatsLocations
  <2>4. CASE ReportLock
    BY <2>4 DEF ReportLock, StatsOnly, TypeOK, StatsLocations
  <2>5. CASE print_realtime_stats
    BY <2>5 DEF print_realtime_stats, StatsOnly, TypeOK, StatsLocations
  <2>6. CASE ReportUnlock
    BY <2>6 DEF ReportUnlock, StatsOnly, TypeOK, StatsLocations
  <2> QED
    BY <1>16, <2>1, <2>2, <2>3, <2>4, <2>5, <2>6 DEF stats_thread
<1>17. CASE signal_handler
  BY <1>17 DEF signal_handler, TypeOK, MainLocations, Setup, Handler, Shutdown, Ending
<1>18. CASE ClockChanges
  <2>1. clock' \in 1 .. MaxClock
    BY <1>18 DEF ClockChanges, TypeOK
  <2> QED
    BY <1>18, <2>1 DEF ClockChanges, TypeOK
<1>19. CASE Terminated \/ UNCHANGED vars
  <2>1. UNCHANGED vars
    BY <1>19 DEF Terminated
  <2> QED
    BY <2>1 DEF vars, TypeOK
<1> QED
  BY <1>1, <1>2, <1>3, <1>4, <1>5, <1>6, <1>7, <1>8, <1>9, <1>10,
    <1>11, <1>12, <1>13, <1>14, <1>15, <1>16, <1>17, <1>18, <1>19
  DEF Next, MainThread, run_subscriber, process_message_fragment, Closing

-----------------------------------------------------------------------------
(* The mutex, the lifecycle and the poll in progress *)

(* Both threads leave stats_mutex as they found it outside their critical  *)
(* sections.                                                               *)
LEMMA MutexStep ==
  MutexHeld /\ Lifecycle /\ [Next]_vars => MutexHeld'
<1> SUFFICES ASSUME MutexHeld, Lifecycle, [Next]_vars
             PROVE  MutexHeld'
  OBVIOUS
<1>1. CASE Session
  BY <1>1, SessionFrame DEF SessionOnly, Setup, MutexHeld, MainHolds, StatsHolds
<1>2. CASE init_subscriber_stats
  BY <1>2 DEF init_subscriber_stats, MutexHeld, MainHolds, StatsHolds
<1>3. CASE pthread_create
  BY <1>3 DEF pthread_create, Lifecycle, Setup, MutexHeld, MainHolds,
    StatsHolds
<1>4. CASE aeron_subscription_poll
  BY <1>4 DEF aeron_subscription_poll, MainOnly, MutexHeld, MainHolds,
    StatsHolds
<1>5. CASE LoopEnds
  BY <1>5 DEF LoopEnds, LeaveLoop, MainOnly, MutexHeld, MainHolds, StatsHolds
<1>6. CASE PollError
  BY <1>6 DEF PollError, LeaveLoop, MainOnly, MutexHeld, MainHolds, StatsHolds
<1>7. CASE SkipShortFragment
  BY <1>7 DEF SkipShortFragment, NextFragment, MainOnly, MutexHeld, MainHolds,
    StatsHolds
<1>8. CASE TimestampFragment
  BY <1>8 DEF TimestampFragment, MainOnly, MutexHeld, MainHolds, StatsHolds
<1>9. CASE HandlerLock
  BY <1>9 DEF HandlerLock, MainOnly, MutexHeld, MainHolds, StatsHolds
<1>10. CASE CountMessage
  BY <1>10 DEF CountMessage, MainOnly, MutexHeld, MainHolds, StatsHolds
<1>11. CASE CountBytes
  BY <1>11 DEF CountBytes, MainOnly, MutexHeld, MainHolds, StatsHolds
<1>12. CASE CountLatency
  BY <1>12 DEF CountLatency, MainOnly, MutexHeld, MainHolds, StatsHolds
<1>13. CASE HandlerUnlock
  BY <1>13 DEF HandlerUnlock, MainOnly, MutexHeld, MainHolds, StatsHolds
<1>14. CASE CheckTarget
  BY <1>14 DEF CheckTarget, NextFragment, MainOnly, MutexHeld, MainHolds,
    StatsHolds
<1>15. CASE Closing
  BY <1>15, ClosingFrame DEF ShutdownOnly, Shutdown, Ending, MutexHeld, MainHolds,
    StatsHolds
<1>16. CASE stats_thread
  BY <1>16 DEF stats_thread, StatsTest, StatsSleep, StatsAwake, ReportLock,
    print_realtime_stats, ReportUnlock, StatsOnly, MutexHeld, MainHolds,
    StatsHolds
<1>17. CASE signal_handler
  BY <1>17 DEF signal_handler, MutexHeld, MainHolds, StatsHolds
<1>18. CASE ClockChanges
  BY <1>18 DEF ClockChanges, MutexHeld, MainHolds, StatsHolds
<1>19. CASE Terminated \/ UNCHANGED vars
  BY <1>19 DEF Terminated, vars, MutexHeld, MainHolds, StatsHolds
<1> QED
  BY <1>1, <1>2, <1>3, <1>4, <1>5, <1>6, <1>7, <1>8, <1>9, <1>10, <1>11,
    <1>12, <1>13, <1>14, <1>15, <1>16, <1>17, <1>18, <1>19 DEF Next,
    MainThread, run_subscriber, process_message_fragment, Closing

(* The statistics and their thread outlive neither the run nor the join.   *)
LEMMA LifecycleStep ==
  TypeOK /\ Lifecycle /\ [Next]_vars => Lifecycle'
<1> SUFFICES ASSUME TypeOK, Lifecycle, [Next]_vars
             PROVE  Lifecycle'
  OBVIOUS
<1>1. CASE Session
  BY <1>1, SessionFrame DEF SessionOnly, Lifecycle, InRun, Setup, Handler,
    Shutdown, Ending
<1>2. CASE init_subscriber_stats
  BY <1>2 DEF init_subscriber_stats, Lifecycle, InRun, Setup, Handler,
    Shutdown, Ending
<1>3. CASE pthread_create
  BY <1>3 DEF pthread_create, Lifecycle, InRun, Setup, Handler, Shutdown,
    Ending
<1>4. CASE aeron_subscription_poll
  BY <1>4 DEF aeron_subscription_poll, MainOnly, Lifecycle, InRun, Setup,
    Handler, Shutdown, Ending
<1>5. CASE LoopEnds
  BY <1>5 DEF LoopEnds, LeaveLoop, MainOnly, Lifecycle, InRun, Setup, Handler,
    Shutdown, Ending
<1>6. CASE PollError
  BY <1>6 DEF PollError, LeaveLoop, MainOnly, Lifecycle, InRun, Setup,
    Handler, Shutdown, Ending
<1>7. CASE SkipShortFragment
  BY <1>7 DEF SkipShortFragment, NextFragment, MainOnly, Lifecycle, InRun,
    Setup, Handler, Shutdown, Ending
<1>8. CASE TimestampFragment
  BY <1>8 DEF TimestampFragment, MainOnly, Lifecycle, InRun, Setup, Handler,
    Shutdown, Ending
<1>9. CASE HandlerLock
  BY <1>9 DEF HandlerLock, MainOnly, Lifecycle, InRun, Setup, Handler,
    Shutdown, Ending
<1>10. CASE CountMessage
  BY <1>10 DEF CountMessage, MainOnly, Lifecycle, InRun, Setup, Handler,
    Shutdown, Ending
<1>11. CASE CountBytes
  BY <1>11 DEF CountBytes, MainOnly, Lifecycle, InRun, Setup, Handler,
    Shutdown, Ending
<1>12. CASE CountLatency
  BY <1>12 DEF CountLatency, MainOnly, Lifecycle, InRun, Setup, Handler,
    Shutdown, Ending
<1>13. CASE HandlerUnlock
  BY <1>13 DEF HandlerUnlock, MainOnly, Lifecycle, InRun, Setup, Handler,
    Shutdown, Ending
<1>14. CASE CheckTarget
  BY <1>14 DEF CheckTarget, NextFragment, MainOnly, Lifecycle, InRun, Setup,
    Handler, Shutdown, Ending
<1>15. CASE Closing
  BY <1>15, ClosingFrame DEF ShutdownOnly, Lifecycle, InRun, Setup, Handler,
    Shutdown, Ending
<1>16. CASE stats_thread
  BY <1>16, StatsFrame DEF StatsOnly, Lifecycle, InRun, Setup, Handler,
    Shutdown, Ending
<1>17. CASE signal_handler
  BY <1>17 DEF signal_handler, Lifecycle, InRun, Setup, Handler, Shutdown,
    Ending
<1>18. CASE ClockChanges
  BY <1>18 DEF ClockChanges, Lifecycle, InRun, Setup, Handler, Shutdown,
    Ending
<1>19. CASE Terminated \/ UNCHANGED vars
  BY <1>19 DEF Terminated, vars, Lifecycle, InRun, Setup, Handler, Shutdown,
    Ending
<1> QED
  BY <1>1, <1>2, <1>3, <1>4, <1>5, <1>6, <1>7, <1>8, <1>9, <1>10, <1>11,
    <1>12, <1>13, <1>14, <1>15, <1>16, <1>17, <1>18, <1>19 DEF Next,
    MainThread, run_subscriber, process_message_fragment, Closing

(* The receive loop polls below the target only, and the handler uses up   *)
(* the batch one fragment at a time.                                       *)
LEMMA BatchStep ==
  TypeOK /\ BatchBound /\ [Next]_vars => BatchBound'
<1> SUFFICES ASSUME TypeOK, BatchBound, [Next]_vars
             PROVE  BatchBound'
  OBVIOUS
<1> USE SubscriberAssumption
<1>1. CASE Session
  BY <1>1, SessionFrame DEF SessionOnly, BatchBound, TypeOK, Setup, Handler,
    Shutdown, Ending
<1>2. CASE init_subscriber_stats
  BY <1>2 DEF init_subscriber_stats, BatchBound, TypeOK, Setup, Handler,
    Shutdown, Ending
<1>3. CASE pthread_create
  BY <1>3 DEF pthread_create, BatchBound, TypeOK, Setup, Handler, Shutdown,
    Ending
<1>4. CASE aeron_subscription_poll
  BY <1>4 DEF aeron_subscription_poll, MainOnly, BatchBound, TypeOK, Setup,
    Handler, Shutdown, Ending
<1>5. CASE LoopEnds
  BY <1>5 DEF LoopEnds, LeaveLoop, MainOnly, BatchBound, TypeOK, Setup,
    Handler, Shutdown, Ending
<1>6. CASE PollError
  BY <1>6 DEF PollError, LeaveLoop, MainOnly, BatchBound, TypeOK, Setup,
    Handler, Shutdown, Ending
<1>7. CASE SkipShortFragment
  BY <1>7 DEF SkipShortFragment, NextFragment, MainOnly, BatchBound, TypeOK,
    Setup, Handler, Shutdown, Ending
<1>8. CASE TimestampFragment
  BY <1>8 DEF TimestampFragment, MainOnly, BatchBound, TypeOK, Setup, Handler,
    Shutdown, Ending
<1>9. CASE HandlerLock
  BY <1>9 DEF HandlerLock, MainOnly, BatchBound, TypeOK, Setup, Handler,
    Shutdown, Ending
<1>10. CASE CountMessage
  BY <1>10 DEF CountMessage, MainOnly, BatchBound, TypeOK, Setup, Handler,
    Shutdown, Ending
<1>11. CASE CountBytes
  BY <1>11 DEF CountBytes, MainOnly, BatchBound, TypeOK, Setup, Handler,
    Shutdown, Ending
<1>12. CASE CountLatency
  BY <1>12 DEF CountLatency, MainOnly, BatchBound, TypeOK, Setup, Handler,
    Shutdown, Ending
<1>13. CASE HandlerUnlock
  BY <1>13 DEF HandlerUnlock, MainOnly, BatchBound, TypeOK, Setup, Handler,
    Shutdown, Ending
<1>14. CASE CheckTarget
  BY <1>14 DEF CheckTarget, NextFragment, MainOnly, BatchBound, TypeOK, Setup,
    Handler, Shutdown, Ending
<1>15. CASE Closing
  BY <1>15, ClosingFrame DEF ShutdownOnly, BatchBound, TypeOK, Setup, Handler,
    Shutdown, Ending
<1>16. CASE stats_thread
  BY <1>16, StatsFrame DEF StatsOnly, BatchBound, TypeOK, Setup, Handler,
    Shutdown, Ending
<1>17. CASE signal_handler
  BY <1>17 DEF signal_handler, BatchBound, TypeOK, Setup, Handler, Shutdown,
    Ending
<1>18. CASE ClockChanges
  BY <1>18 DEF ClockChanges, BatchBound, TypeOK, Setup, Handler, Shutdown,
    Ending
<1>19. CASE Terminated \/ UNCHANGED vars
  BY <1>19 DEF Terminated, vars, BatchBound, TypeOK, Setup, Handler, Shutdown,
    Ending
<1> QED
  BY <1>1, <1>2, <1>3, <1>4, <1>5, <1>6, <1>7, <1>8, <1>9, <1>10, <1>11,
    <1>12, <1>13, <1>14, <1>15, <1>16, <1>17, <1>18, <1>19 DEF Next,
    MainThread, run_subscriber, process_message_fragment, Closing

-----------------------------------------------------------------------------
(* The copies of the statistics and the times of a run *)

(* process_message_fragment keeps the copies of each statistic together:   *)
(* the message count cannot wrap, so both copies grow by one.              *)
LEMMA CountingStep ==
  TypeOK /\ Lifecycle /\ BatchBound /\ Counting /\ [Next]_vars => Counting'
<1> SUFFICES ASSUME TypeOK, Lifecycle, BatchBound, Counting, [Next]_vars
             PROVE  Counting'
  OBVIOUS
<1> USE SubscriberAssumption
<1>1. CASE Session
  BY <1>1, SessionFrame DEF SessionOnly, Counting, Stamped, TIMESTAMP_SIZE,
    TypeOK, Setup, Handler, Shutdown, Ending
<1>2. CASE init_subscriber_stats
  <2>1. main = "run" /\ messages_received = 0 /\ total_latency = 0
    BY <1>2 DEF init_subscriber_stats, Counting, Setup
  <2>2. CASE main' = "spawn"
    <3>1. /\ latency_stats' = create_performance_stats
          /\ min_latency' = UINT64_MAX /\ max_latency' = 0
          /\ UNCHANGED <<counters, total_latency, last_messages_received,
                         last_bytes_received>>
      BY <1>2, <2>2 DEF init_subscriber_stats
    <3>2. /\ latency_stats'.message_count = 0
          /\ latency_stats'.total_latency = 0
          /\ latency_stats'.max_latency = 0
          /\ latency_stats'.min_latency = UINT64_MAX
          /\ latency_stats'.recorded_count = 0
      BY <3>1 DEF create_performance_stats
    <3>3. Lower(0, DetailCount) = 0
      BY BucketAssumption DEF Lower
    <3> QED
      BY <2>1, <2>2, <3>1, <3>2, <3>3
      DEF Counting, Stamped, TIMESTAMP_SIZE, TypeOK, Setup, Handler
  <2>3. CASE main' # "spawn"
    BY <1>2, <2>1, <2>3 DEF init_subscriber_stats, Counting, Stamped,
      TIMESTAMP_SIZE, TypeOK, Setup, Handler
  <2> QED
    BY <2>2, <2>3
<1>3. CASE pthread_create
  BY <1>3 DEF pthread_create, Counting, Stamped, TIMESTAMP_SIZE, TypeOK,
    Setup, Handler, Shutdown, Ending
<1>4. CASE aeron_subscription_poll
  BY <1>4 DEF aeron_subscription_poll, MainOnly, Counting, Stamped,
    TIMESTAMP_SIZE, TypeOK, Setup, Handler, Shutdown, Ending
<1>5. CASE LoopEnds
  BY <1>5 DEF LoopEnds, LeaveLoop, MainOnly, Counting, Stamped,
    TIMESTAMP_SIZE, TypeOK, Setup, Handler, Shutdown, Ending
<1>6. CASE PollError
  BY <1>6 DEF PollError, LeaveLoop, MainOnly, Counting, Stamped,
    TIMESTAMP_SIZE, TypeOK, Setup, Handler, Shutdown, Ending
<1>7. CASE SkipShortFragment
  BY <1>7 DEF SkipShortFragment, NextFragment, MainOnly, Counting, Stamped,
    TIMESTAMP_SIZE, TypeOK, Setup, Handler, Shutdown, Ending
<1>8. CASE TimestampFragment
  BY <1>8 DEF TimestampFragment, MainOnly, Counting, Stamped, TIMESTAMP_SIZE,
    TypeOK, Setup, Handler, Shutdown, Ending
<1>9. CASE HandlerLock
  BY <1>9 DEF HandlerLock, MainOnly, Counting, Stamped, TIMESTAMP_SIZE,
    TypeOK, Setup, Handler, Shutdown, Ending
<1>10. CASE CountMessage
  <2>1. /\ main = "count" /\ main' = "bytes"
        /\ messages_received' = messages_received + 1
        /\ UNCHANGED <<bytes_received, fragments_received, latency_vars,
                       latency_ptr, frag, last_vars>>
    BY <1>10 DEF CountMessage, MainOnly
  <2>2. messages_received = fragments_received
    BY <2>1 DEF Counting, TypeOK
  <2>3. messages_received = latency_stats.message_count
    BY <2>1 DEF Counting, TypeOK, PerformanceStats, U64
  <2>4. /\ messages_received' = fragments_received' + 1
        /\ messages_received' = latency_stats'.message_count + 1
        /\ last_messages_received' <= messages_received'
    BY <2>1, <2>2, <2>3 DEF Counting, TypeOK
  <2> QED
    BY <2>1, <2>4 DEF Counting, Stamped, Setup, Handler
<1>11. CASE CountBytes
  BY <1>11 DEF CountBytes, MainOnly, Counting, Stamped, TIMESTAMP_SIZE,
    TypeOK, Setup, Handler, Shutdown, Ending
<1>12. CASE CountLatency
  <2> DEFINE p == latency_stats
             l == frag.latency
  <2>1. /\ main = "latency" /\ main' = "unlock" /\ latency_ptr = "live"
        /\ latency_stats' = record_latency(p, l)
        /\ min_latency' = Lower(l, min_latency)
        /\ max_latency' = Higher(l, max_latency)
        /\ total_latency' = Wrap(total_latency + l)
        /\ UNCHANGED <<counters, latency_ptr, frag, last_vars>>
    BY <1>12 DEF CountLatency, MainOnly, Lifecycle, InRun, Handler
  <2>2. messages_received = p.message_count + 1
    BY <2>1 DEF Counting
  <2>3. Wrap(p.message_count + 1) = p.message_count + 1
    <3>1. messages_received \in Nat /\ messages_received < Word
      BY BucketAssumption DEF BatchBound, TypeOK
    <3> QED
      BY <2>2, <3>1, BucketAssumption, Z3 DEF Wrap
  <2>4. /\ latency_stats'.message_count = p.message_count + 1
        /\ latency_stats'.total_latency = Wrap(p.total_latency + l)
        /\ latency_stats'.min_latency = Lower(l, p.min_latency)
        /\ latency_stats'.max_latency = Higher(l, p.max_latency)
        /\ latency_stats'.recorded_count =
             (IF p.recorded_count < DetailCount THEN p.recorded_count + 1
                                                ELSE p.recorded_count)
    BY <2>1, <2>3 DEF record_latency
  <2>5. p.recorded_count = Lower(p.message_count, DetailCount)
    BY DEF Counting
  <2>6. p.message_count \in Nat /\ DetailCount \in Nat
    BY BucketAssumption DEF TypeOK, PerformanceStats, U64
  <2>7. latency_stats'.recorded_count
          = Lower(latency_stats'.message_count, DetailCount)
    BY <2>4, <2>5, <2>6 DEF Lower
  <2> HIDE DEF p, l
  <2>8. /\ total_latency' = latency_stats'.total_latency
        /\ max_latency' = latency_stats'.max_latency
        /\ min_latency' = latency_stats'.min_latency
    BY <2>1, <2>4 DEF Counting, p
  <2>9. /\ messages_received' = fragments_received'
        /\ messages_received' = latency_stats'.message_count
    BY <2>1, <2>2, <2>4 DEF Counting, TypeOK
  <2> QED
    BY <2>1, <2>7, <2>8, <2>9, <2>6 DEF Counting, Stamped, Setup, Handler, TypeOK, TIMESTAMP_SIZE
<1>13. CASE HandlerUnlock
  BY <1>13 DEF HandlerUnlock, MainOnly, Counting, Stamped, TIMESTAMP_SIZE,
    TypeOK, Setup, Handler, Shutdown, Ending
<1>14. CASE CheckTarget
  BY <1>14 DEF CheckTarget, NextFragment, MainOnly, Counting, Stamped,
    TIMESTAMP_SIZE, TypeOK, Setup, Handler, Shutdown, Ending
<1>15. CASE Closing
  BY <1>15, ClosingFrame DEF ShutdownOnly, Counting, Stamped, TIMESTAMP_SIZE,
    TypeOK, Setup, Handler, Shutdown, Ending
<1>16. CASE stats_thread
  BY <1>16, StatsFrame DEF StatsOnly, Counting, Stamped, TIMESTAMP_SIZE,
    TypeOK, Setup, Handler, Shutdown, Ending
<1>17. CASE signal_handler
  BY <1>17 DEF signal_handler, Counting, Stamped, TIMESTAMP_SIZE, TypeOK,
    Setup, Handler, Shutdown, Ending
<1>18. CASE ClockChanges
  BY <1>18 DEF ClockChanges, Counting, Stamped, TIMESTAMP_SIZE, TypeOK, Setup,
    Handler, Shutdown, Ending
<1>19. CASE Terminated \/ UNCHANGED vars
  BY <1>19 DEF Terminated, vars, Counting, Stamped, TIMESTAMP_SIZE, TypeOK,
    Setup, Handler, Shutdown, Ending
<1> QED
  BY <1>1, <1>2, <1>3, <1>4, <1>5, <1>6, <1>7, <1>8, <1>9, <1>10, <1>11,
    <1>12, <1>13, <1>14, <1>15, <1>16, <1>17, <1>18, <1>19 DEF Next,
    MainThread, run_subscriber, process_message_fragment, Closing

(* end_time is set by the handler once the target is reached and otherwise *)
(* after the loop, never before a message that was counted.                *)
LEMMA TimingStep ==
  TypeOK /\ Counting /\ Timing /\ [Next]_vars => Timing'
<1> SUFFICES ASSUME TypeOK, Counting, Timing, [Next]_vars
             PROVE  Timing'
  OBVIOUS
<1> USE SubscriberAssumption
<1>1. CASE Session
  BY <1>1, SessionFrame DEF SessionOnly, Timing, Stamped, TypeOK, Setup,
    Handler, Shutdown, Ending
<1>2. CASE init_subscriber_stats
  <2>1. main = "run" /\ messages_received = 0 /\ Target > 0
    BY <1>2 DEF init_subscriber_stats, Counting, Setup
  <2> QED
    BY <1>2, <2>1 DEF init_subscriber_stats, Timing, Stamped, TypeOK, Setup,
      Handler, Shutdown
<1>3. CASE pthread_create
  <2>1. main = "spawn" /\ messages_received = 0 /\ Target > 0
    BY <1>3 DEF pthread_create, Counting, Setup
  <2> QED
    BY <1>3, <2>1 DEF pthread_create, Timing, Stamped, TypeOK, Setup,
      Handler, Shutdown
<1>4. CASE aeron_subscription_poll
  BY <1>4 DEF aeron_subscription_poll, MainOnly, Timing, Stamped, TypeOK,
    Setup, Handler, Shutdown, Ending
<1>5. CASE LoopEnds
  BY <1>5 DEF LoopEnds, LeaveLoop, MainOnly, Timing, Stamped, TypeOK, Setup,
    Handler, Shutdown, Ending
<1>6. CASE PollError
  BY <1>6 DEF PollError, LeaveLoop, MainOnly, Timing, Stamped, TypeOK, Setup,
    Handler, Shutdown, Ending
<1>7. CASE SkipShortFragment
  BY <1>7 DEF SkipShortFragment, NextFragment, MainOnly, Timing, Stamped,
    TypeOK, Setup, Handler, Shutdown, Ending
<1>8. CASE TimestampFragment
  BY <1>8 DEF TimestampFragment, MainOnly, Timing, Stamped, TypeOK, Setup,
    Handler, Shutdown, Ending
<1>9. CASE HandlerLock
  BY <1>9 DEF HandlerLock, MainOnly, Timing, Stamped, TypeOK, Setup, Handler,
    Shutdown, Ending
<1>10. CASE CountMessage
  BY <1>10 DEF CountMessage, MainOnly, Timing, Stamped, TypeOK, Setup,
    Handler, Shutdown, Ending
<1>11. CASE CountBytes
  BY <1>11 DEF CountBytes, MainOnly, Timing, Stamped, TypeOK, Setup, Handler,
    Shutdown, Ending
<1>12. CASE CountLatency
  BY <1>12 DEF CountLatency, MainOnly, Timing, Stamped, TypeOK, Setup,
    Handler, Shutdown, Ending
<1>13. CASE HandlerUnlock
  BY <1>13 DEF HandlerUnlock, MainOnly, Timing, Stamped, TypeOK, Setup,
    Handler, Shutdown, Ending
<1>14. CASE CheckTarget
  BY <1>14 DEF CheckTarget, NextFragment, MainOnly, Timing, Stamped, TypeOK,
    Setup, Handler, Shutdown, Ending
<1>15. CASE Closing
  BY <1>15, ClosingFrame DEF ShutdownOnly, Timing, Stamped, TypeOK, Setup,
    Handler, Shutdown, Ending
<1>16. CASE stats_thread
  BY <1>16, StatsFrame DEF StatsOnly, Timing, Stamped, TypeOK, Setup, Handler,
    Shutdown, Ending
<1>17. CASE signal_handler
  BY <1>17 DEF signal_handler, Timing, Stamped, TypeOK, Setup, Handler,
    Shutdown, Ending
<1>18. CASE ClockChanges
  BY <1>18 DEF ClockChanges, Timing, Stamped, TypeOK, Setup, Handler,
    Shutdown, Ending
<1>19. CASE Terminated \/ UNCHANGED vars
  BY <1>19 DEF Terminated, vars, Timing, Stamped, TypeOK, Setup, Handler,
    Shutdown, Ending
<1> QED
  BY <1>1, <1>2, <1>3, <1>4, <1>5, <1>6, <1>7, <1>8, <1>9, <1>10, <1>11,
    <1>12, <1>13, <1>14, <1>15, <1>16, <1>17, <1>18, <1>19 DEF Next,
    MainThread, run_subscriber, process_message_fragment, Closing

-----------------------------------------------------------------------------
(* The theorems *)

(* The process starts in the invariant. *)
LEMMA InvInit == Init => Inv
<1> SUFFICES ASSUME Init PROVE Inv
  OBVIOUS
<1> USE SubscriberAssumption, BucketAssumption
<1>1. TypeOK
  BY TypeInit
<1>2. MutexHeld
  BY DEF Init, MutexHeld, MainHolds, StatsHolds
<1>3. Lifecycle
  BY DEF Init, Lifecycle, Setup, InRun, Handler, Shutdown, Ending
<1>4. BatchBound
  BY DEF Init, BatchBound, Handler
<1>5. Counting
  BY DEF Init, Counting, Stamped, Handler, create_performance_stats, Lower,
    TIMESTAMP_SIZE
<1>6. Timing
  BY DEF Init, Timing, Stamped, Setup, Handler, Shutdown
<1> QED
  BY <1>1, <1>2, <1>3, <1>4, <1>5, <1>6 DEF Inv

(* Every step of either thread, of a signal or of the clock keeps it. *)
LEMMA InvStep == Inv /\ [Next]_vars => Inv'
  BY TypeStep, MutexStep, LifecycleStep, BatchStep, CountingStep, TimingStep
  DEF Inv

(* The inductive invariant holds throughout, for every target, fragment    *)
(* limit, word width, bucket table and bound.                              *)
THEOREM Invariance == Spec => []Inv
  BY InvInit, InvStep, PTL DEF Spec

(* Every variable of the subscriber keeps its C type: the latency, the     *)
(* sums and the histogram stay 64-bit words whatever the sender's clock    *)
(* says, and record_latency never misses the bucket table.                 *)
THEOREM TypeCorrect == Spec => []TypeOK
<1>1. Inv => TypeOK
  BY DEF Inv
<1> QED
  BY <1>1, Invariance, PTL

(* run_subscriber never counts a whole poll past its target. *)
THEOREM Overshoot == Spec => []OvershootBounded
<1>1. Inv => OvershootBounded
  BY DEF Inv, BatchBound, OvershootBounded
<1> QED
  BY <1>1, Invariance, PTL

(* Outside the handler's critical section the copies agree. *)
LEMMA InvCopies ==
  ASSUME Inv, main \notin MainHolds
  PROVE  CopiesAgree
<1>1. TypeOK /\ Counting
  BY DEF Inv
<1>2. main # "bytes" /\ main # "latency"
  BY DEF MainHolds
<1>3. messages_received = fragments_received
  BY <1>1, <1>2 DEF Counting, TypeOK
<1>4. messages_received = latency_stats.message_count
  BY <1>1, <1>2 DEF Counting, TypeOK, PerformanceStats, U64
<1> QED
  BY <1>1, <1>3, <1>4 DEF Counting, CopiesAgree

(* print_realtime_stats never shows half an update of the fragment         *)
(* handler, nor a negative interval.                                       *)
THEOREM ReportsConsistent == Spec => []ReportSeesWholeUpdates
<1>1. ASSUME Inv, stats = "print"
      PROVE  /\ CopiesAgree
             /\ last_messages_received <= messages_received
             /\ last_bytes_received <= bytes_received
             /\ ~ClockStepsBack => last_stats_time <= clock
  <2>1. main \notin MainHolds
    BY <1>1 DEF Inv, MutexHeld, StatsHolds
  <2>2. CopiesAgree
    BY <1>1, <2>1, InvCopies
  <2> QED
    BY <1>1, <2>2 DEF Inv, Counting, Timing
<1>2. Inv => ReportSeesWholeUpdates
  BY <1>1 DEF ReportSeesWholeUpdates
<1> QED
  BY <1>2, Invariance, PTL

(* What print_final_stats prints is final, consistent and covers the run.  *)
THEOREM FinalReport == Spec => []FinalReportCoversRun
<1>1. ASSUME Inv, main \in {"final", "cleanup"}
      PROVE  /\ stats \in {"none", "done"} /\ mutex = "free" /\ ~running
             /\ CopiesAgree /\ latency_ptr = "live"
             /\ end_time # 0
             /\ messages_received >= Target => end_time = frag.receive
             /\ ~ClockStepsBack =>
                  start_time <= end_time /\ frag.receive <= end_time
  <2>1. stats \in {"none", "done"} /\ ~running /\ latency_ptr = "live"
    BY <1>1 DEF Inv, Lifecycle, InRun, Shutdown
  <2>2. main \notin MainHolds /\ stats \notin StatsHolds
    BY <1>1, <2>1 DEF MainHolds, StatsHolds
  <2>3. mutex = "free"
    BY <1>1, <2>2 DEF Inv, MutexHeld, TypeOK
  <2>4. CopiesAgree
    BY <1>1, <2>2, InvCopies
  <2> QED
    BY <1>1, <2>1, <2>3, <2>4 DEF Inv, Timing, Shutdown
<1>2. Inv => FinalReportCoversRun
  BY <1>1 DEF FinalReportCoversRun
<1> QED
  BY <1>2, Invariance, PTL

(* Only CloseObjects closes anything, and only it reaches the exit, after  *)
(* which nothing moves.                                                    *)
LEMMA HeldFrame ==
  ASSUME TypeOK, [Next]_vars, ~CloseObjects
  PROVE  /\ held \subseteq held'
         /\ main' = "exited" => main = "exited" /\ held' = held
<1>1. CASE Session
  <2>1. main' # "exited"
    BY <1>1, SessionFrame DEF Setup
  <2>2. held \subseteq held'
    BY <1>1 DEF Session, Fails, Opens, aeron_context_init, aeron_context_set_dir, aeron_init,
      aeron_start, aeron_async_add_subscription, aeron_async_add_subscription_poll,
      AwaitInterrupted, wait_for_connection_done, wait_for_connection_sleep
  <2> QED BY <2>1, <2>2
<1>2. CASE init_subscriber_stats \/ pthread_create \/ aeron_subscription_poll
  BY <1>2 DEF init_subscriber_stats, pthread_create, aeron_subscription_poll, MainOnly
<1>3. CASE LoopEnds \/ PollError
  BY <1>3 DEF LoopEnds, PollError, LeaveLoop, MainOnly
<1>4. CASE process_message_fragment
  BY <1>4 DEF process_message_fragment, SkipShortFragment, TimestampFragment, HandlerLock,
    CountMessage, CountBytes, CountLatency, HandlerUnlock, CheckTarget, NextFragment, MainOnly
<1>5. CASE pthread_join \/ JoinUninitialised \/ print_final_stats \/ cleanup_subscriber_stats
  BY <1>5 DEF pthread_join, JoinUninitialised, print_final_stats, cleanup_subscriber_stats
<1>6. CASE stats_thread
  BY <1>6, StatsFrame DEF StatsOnly
<1>7. CASE signal_handler \/ ClockChanges \/ Terminated \/ UNCHANGED vars
  BY <1>7 DEF signal_handler, ClockChanges, Terminated, vars
<1> QED
  BY <1>1, <1>2, <1>3, <1>4, <1>5, <1>6, <1>7 DEF Next, MainThread, run_subscriber

(* main gives every Aeron object back on every path, the failing and the   *)
(* interrupted ones included, each after the ones inside it and after the  *)
(* statistics thread.                                                      *)
THEOREM Releases == Spec => ReleasesAll
<1> DEFINE InOrder ==
      \A object \in held \ held' :
        /\ stats \in {"none", "done"} /\ mutex = "free"
        /\ object = "context" => held = {"context"}
        /\ object = "aeron" => "subscription" \notin held
<1>1. Init => NoLeakAtExit
  BY DEF Init, NoLeakAtExit
<1>2. ASSUME Inv, NoLeakAtExit, [Next]_vars PROVE NoLeakAtExit'
  <2>1. CASE CloseObjects
    BY <1>2, <2>1 DEF CloseObjects, NoLeakAtExit
  <2>2. CASE ~CloseObjects
    BY <1>2, <2>2, HeldFrame DEF Inv, NoLeakAtExit
  <2> QED BY <2>1, <2>2
<1>3. ASSUME Inv, [Next]_vars PROVE [InOrder]_vars
  <2>1. CASE CloseObjects
    <3>1. main = "close" /\ held \ held' \subseteq {Innermost}
      BY <2>1 DEF CloseObjects
    <3>2. stats \in {"none", "done"}
      BY <1>3, <3>1 DEF Inv, Lifecycle, Ending
    <3>3. mutex = "free"
      BY <1>3, <3>1, <3>2 DEF Inv, MutexHeld, MainHolds, StatsHolds, TypeOK
    <3>4. Innermost = "context" => held \subseteq {"context"}
      BY <1>3 DEF Inv, TypeOK, Innermost
    <3>5. Innermost = "aeron" => "subscription" \notin held
      BY DEF Innermost
    <3> QED
      BY <3>1, <3>2, <3>3, <3>4, <3>5
  <2>2. CASE ~CloseObjects
    BY <1>3, <2>2, HeldFrame DEF Inv
  <2> QED BY <2>1, <2>2
<1> QED
  BY <1>1, <1>2, <1>3, Invariance, PTL DEF ReleasesAll, CloseOrder, Spec
=============================================================================
