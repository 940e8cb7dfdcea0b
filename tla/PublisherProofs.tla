--------------------------- MODULE PublisherProofs ---------------------------
(***************************************************************************)
(* The theorems about Publisher, for every value of its constants.  As in  *)
(* SubscriberProofs the inductive invariant Inv is proved conjunct by      *)
(* conjunct, with one case per action or per group of actions that leave   *)
(* the same variables alone.                                               *)
(***************************************************************************)
EXTENDS Publisher, TLAPS

(* Nested tuples of variables, opened wherever a step says UNCHANGED. *)
USE DEF counters, last_vars, session_vars, loop_vars

Opening == Session \/ malloc

Closing ==
  pthread_join \/ JoinUninitialised \/ print_stats_final \/ free \/ CloseObjects

Leaving == LoopEnds \/ GiveUp \/ SendFailed

-----------------------------------------------------------------------------
(* What whole groups of actions leave alone *)

(* Opening the client and malloc touch nothing of the run; what they open  *)
(* has its place in main, and a failure goes to the close-down.            *)
LEMMA OpeningFrame ==
  ASSUME TypeOK, Opening
  PROVE  /\ SessionOnly
         /\ main \in Setup \ {"spawn", "start_time", "last_time"}
         /\ main' \in (Setup \ {"start_time", "last_time"}) \cup {"close"}
         /\ "buffer" \in held' => "buffer" \in held \/ main' = "spawn"
         /\ held \subseteq held'
         /\ held' \subseteq {"context", "aeron", "publication", "buffer"}
         /\ waited' \in 0 .. (WaitTimeout + 1) /\ warned' \in BOOLEAN
         /\ exit_code' \in {0, 1}
<1>1. CASE aeron_context_init
  BY <1>1, TypeOK, PublisherAssumption DEF aeron_context_init, Opens, Fails, SessionOnly, Setup, TypeOK
<1>2. CASE aeron_context_set_dir
  BY <1>2, TypeOK, PublisherAssumption DEF aeron_context_set_dir, Opens, Fails, SessionOnly, Setup, TypeOK
<1>3. CASE aeron_init
  BY <1>3, TypeOK, PublisherAssumption DEF aeron_init, Opens, Fails, SessionOnly, Setup, TypeOK
<1>4. CASE aeron_start
  BY <1>4, TypeOK, PublisherAssumption DEF aeron_start, Opens, Fails, SessionOnly, Setup, TypeOK
<1>5. CASE aeron_async_add_publication
  BY <1>5, TypeOK, PublisherAssumption DEF aeron_async_add_publication, Opens, Fails, SessionOnly, Setup, TypeOK
<1>6. CASE aeron_async_add_publication_poll
  BY <1>6, TypeOK, PublisherAssumption DEF aeron_async_add_publication_poll, Opens, Fails, SessionOnly, Setup, TypeOK
<1>7. CASE AwaitInterrupted
  BY <1>7, TypeOK, PublisherAssumption DEF AwaitInterrupted, Opens, Fails, SessionOnly, Setup, TypeOK
<1>8. CASE wait_for_connection_connected
  BY <1>8, TypeOK, PublisherAssumption DEF wait_for_connection_connected, Opens, Fails, SessionOnly, Setup, TypeOK
<1>9. CASE wait_for_connection_timeout
  BY <1>9, TypeOK, PublisherAssumption DEF wait_for_connection_timeout, Opens, Fails, SessionOnly, Setup, TypeOK
<1>10. CASE wait_for_connection_sleep
  BY <1>10, TypeOK, PublisherAssumption DEF wait_for_connection_sleep, Opens, Fails, SessionOnly, Setup, TypeOK
<1>11. CASE malloc
  BY <1>11, TypeOK, PublisherAssumption DEF malloc, Opens, Fails, SessionOnly, Setup, TypeOK
<1> QED
  BY <1>1, <1>2, <1>3, <1>4, <1>5, <1>6, <1>7, <1>8, <1>9, <1>10, <1>11 DEF Opening, Session

(* The way out only moves main and gives things back, and passes the join  *)
(* when the statistics thread is over.                                     *)
LEMMA ClosingFrame ==
  ASSUME TypeOK, Closing
  PROVE  /\ ShutdownOnly /\ UNCHANGED <<waited, warned, exit_code>>
         /\ main \in Shutdown \cup {"close"}
         /\ main' \in AfterRun
         /\ main = "join" => stats \in {"none", "done"}
         /\ main' \in Shutdown => main \in Shutdown
         /\ held' \subseteq held
         /\ main' = "close" => "buffer" \notin held' \/ (main = "close" /\ "buffer" \in held)
         /\ main' = "exited" => held' = {}
<1>1. CASE pthread_join
  BY <1>1, TypeOK DEF pthread_join, ShutdownOnly, Shutdown, AfterRun, Ending, TypeOK
<1>2. CASE JoinUninitialised
  BY <1>2, TypeOK DEF JoinUninitialised, ShutdownOnly, Shutdown, AfterRun, Ending, TypeOK
<1>3. CASE print_stats_final
  BY <1>3, TypeOK DEF print_stats_final, ShutdownOnly, Shutdown, AfterRun, Ending, TypeOK
<1>4. CASE free
  BY <1>4, TypeOK DEF free, ShutdownOnly, Shutdown, AfterRun, Ending, TypeOK
<1>5. CASE CloseObjects
  BY <1>5, TypeOK DEF CloseObjects, ShutdownOnly, Shutdown, AfterRun, Ending, TypeOK, Innermost
<1> QED
  BY <1>1, <1>2, <1>3, <1>4, <1>5 DEF Closing

(* The statistics thread writes the last_ variables only, and the mutex.   *)
LEMMA StatsFrame ==
  ASSUME stats_thread
  PROVE  /\ StatsOnly
         /\ stats \in {"test", "sleep", "awake", "lock", "print", "unlock"}
         /\ stats' \in {"test", "sleep", "awake", "lock", "print", "unlock", "done"}
         /\ \/ UNCHANGED last_vars
            \/ /\ last_stats_time' = clock
               /\ last_messages_sent' = messages_sent
               /\ last_bytes_sent' = bytes_sent
  BY DEF stats_thread, StatsTest, StatsSleep, StatsAwake, ReportLock,
    print_stats_interval, ReportUnlock, StatsOnly

(* Every way out of the loop clears running and ends at the join.          *)
LEMMA LeavingFrame ==
  ASSUME Leaving
  PROVE  /\ main \in {"loop", "returned"} /\ main' = "join" /\ running' = FALSE
         /\ UNCHANGED <<mutex, counters, successful_sends, result>> /\ MainOnly
         /\ main = "returned" => result # "position"
         /\ \/ /\ main = "returned" => result # "BACK_PRESSURED"
               /\ UNCHANGED retry_count
            \/ /\ main = "returned" /\ result = "BACK_PRESSURED"
               /\ retry_count' = retry_count + 1
  BY DEF Leaving, LoopEnds, GiveUp, SendFailed, LeaveLoop, Fatal, Unnamed

(* The next-state relation as the groups that the lemmas go through.       *)
LEMMA NextGroups ==
  ASSUME [Next]_vars
  PROVE  \/ Opening \/ pthread_create \/ SetStartTime \/ SetLastStatsTime
         \/ LoopTest \/ aeron_publication_offer \/ PublishLock \/ CountSent \/ CountBytes
         \/ offer_failed_handler \/ CountError \/ PublishUnlock \/ Sent \/ Retry
         \/ Leaving \/ Closing \/ stats_thread
         \/ signal_handler \/ ClockAdvances \/ UNCHANGED vars
  BY DEF Next, MainThread, Session, run_publisher, publish_message, Opening, Closing, Leaving,
    Terminated

-----------------------------------------------------------------------------
(* The conjuncts of Inv *)

(* Types are kept; retry_count needs its bound inside the loop.              *)
LEMMA TypeStep ==
  ASSUME TypeOK, Answers, Budget, [Next]_vars
  PROVE  TypeOK'
<1>1. CASE Opening
  BY <1>1, OpeningFrame, PublisherAssumption DEF SessionOnly, TypeOK, MainLocations, StatsLocations, Setup, Publish, Shutdown, Ending
<1>2. CASE pthread_create
  BY <1>2, PublisherAssumption DEF pthread_create, TypeOK, MainLocations, StatsLocations, Setup, Publish, Shutdown, Ending
<1>3. CASE SetStartTime
  BY <1>3, PublisherAssumption DEF SetStartTime, TypeOK, MainLocations, StatsLocations, Setup, Publish, Shutdown, Ending
<1>4. CASE SetLastStatsTime
  BY <1>4, PublisherAssumption DEF SetLastStatsTime, TypeOK, MainLocations, StatsLocations, Setup, Publish, Shutdown, Ending
<1>5. CASE LoopTest
  BY <1>5, PublisherAssumption DEF LoopTest, MainOnly, TypeOK, MainLocations, StatsLocations, Setup, Publish, Shutdown, Ending
<1>6. CASE aeron_publication_offer
  BY <1>6, PublisherAssumption DEF aeron_publication_offer, MainOnly, TypeOK, MainLocations, StatsLocations, Setup, Publish, Shutdown, Ending, OfferResults
<1>7. CASE PublishLock
  BY <1>7, PublisherAssumption DEF PublishLock, MainOnly, TypeOK, MainLocations, StatsLocations, Setup, Publish, Shutdown, Ending, LockFor, Fatal, Answers
<1>8. CASE CountSent
  BY <1>8, PublisherAssumption DEF CountSent, MainOnly, TypeOK, MainLocations, StatsLocations, Setup, Publish, Shutdown, Ending
<1>9. CASE CountBytes
  BY <1>9, PublisherAssumption DEF CountBytes, MainOnly, TypeOK, MainLocations, StatsLocations, Setup, Publish, Shutdown, Ending
<1>10. CASE offer_failed_handler
  BY <1>10, PublisherAssumption DEF offer_failed_handler, MainOnly, TypeOK, MainLocations, StatsLocations, Setup, Publish, Shutdown, Ending
<1>11. CASE CountError
  BY <1>11, PublisherAssumption DEF CountError, MainOnly, TypeOK, MainLocations, StatsLocations, Setup, Publish, Shutdown, Ending
<1>12. CASE PublishUnlock
  BY <1>12, PublisherAssumption DEF PublishUnlock, MainOnly, TypeOK, MainLocations, StatsLocations, Setup, Publish, Shutdown, Ending
<1>13. CASE Sent
  BY <1>13, PublisherAssumption DEF Sent, MainOnly, TypeOK, MainLocations, StatsLocations, Setup, Publish, Shutdown, Ending, Answers
<1>14. CASE Retry
  BY <1>14, PublisherAssumption DEF Retry, MainOnly, TypeOK, MainLocations, StatsLocations, Setup, Publish, Shutdown, Ending, WithinBudget
<1>15. CASE Leaving
  <2>1. running' \in BOOLEAN
    BY <1>15, LeavingFrame
  <2>2. retry_count' \in 0 .. (MAX_RETRIES + 1)
    BY <1>15, LeavingFrame, PublisherAssumption DEF Budget, TypeOK, Publish
  <2> QED
    BY <1>15, <2>1, <2>2, LeavingFrame DEF MainOnly, TypeOK, MainLocations, Shutdown
<1>16. CASE Closing
  <2>1. running' \in BOOLEAN /\ warned' \in BOOLEAN
    BY <1>16, ClosingFrame DEF ShutdownOnly, TypeOK
  <2>2. main' \in MainLocations
    BY <1>16, ClosingFrame DEF AfterRun, Ending, Shutdown, MainLocations
  <2>3. held' \subseteq {"context", "aeron", "publication", "buffer"}
    BY <1>16, ClosingFrame DEF TypeOK
  <2> QED
    BY <1>16, <2>1, <2>2, <2>3, ClosingFrame DEF ShutdownOnly, TypeOK
<1>17. CASE stats_thread
  <2>1. running' \in BOOLEAN /\ warned' \in BOOLEAN
    BY <1>17, StatsFrame DEF StatsOnly, TypeOK
  <2>2. mutex' \in {"free", "main", "stats"}
    BY <1>17 DEF stats_thread, StatsTest, StatsSleep, StatsAwake, ReportLock, print_stats_interval,
      ReportUnlock, TypeOK
  <2>3. /\ last_stats_time' \in 0 .. MaxClock
        /\ last_messages_sent' \in Nat /\ last_bytes_sent' \in Nat
    BY <1>17, StatsFrame, PublisherAssumption DEF StatsOnly, TypeOK
  <2> QED
    BY <1>17, <2>1, <2>2, <2>3, StatsFrame DEF StatsOnly, TypeOK, StatsLocations
<1>18. CASE signal_handler
  <2>1. running' \in BOOLEAN
    BY <1>18 DEF signal_handler
  <2> QED
    BY <1>18, <2>1 DEF signal_handler, TypeOK
<1>19. CASE ClockAdvances
  BY <1>19, PublisherAssumption DEF ClockAdvances, TypeOK, MainLocations, StatsLocations, Setup, Publish, Shutdown, Ending
<1>20. CASE UNCHANGED vars
  BY <1>20 DEF vars, TypeOK, MainLocations, StatsLocations, Setup, Publish, Shutdown, Ending
<1> QED
  BY NextGroups, <1>1, <1>2, <1>3, <1>4, <1>5, <1>6, <1>7, <1>8, <1>9, <1>10, <1>11, <1>12, <1>13, <1>14, <1>15, <1>16, <1>17, <1>18, <1>19, <1>20

(* The holder of the mutex is the thread inside a critical section.          *)
LEMMA MutexStep ==
  ASSUME TypeOK, Answers, Lifecycle, MutexHeld, [Next]_vars
  PROVE  MutexHeld'
<1>1. CASE Opening
  BY <1>1, OpeningFrame, PublisherAssumption DEF SessionOnly, MutexHeld, MainHolds, StatsHolds, Setup
<1>2. CASE pthread_create
  BY <1>2, PublisherAssumption DEF pthread_create, MutexHeld, MainHolds, StatsHolds, Lifecycle, Setup
<1>3. CASE SetStartTime
  BY <1>3, PublisherAssumption DEF SetStartTime, MutexHeld, MainHolds, StatsHolds
<1>4. CASE SetLastStatsTime
  BY <1>4, PublisherAssumption DEF SetLastStatsTime, MutexHeld, MainHolds, StatsHolds
<1>5. CASE LoopTest
  BY <1>5, PublisherAssumption DEF LoopTest, MainOnly, MutexHeld, MainHolds, StatsHolds
<1>6. CASE aeron_publication_offer
  BY <1>6, PublisherAssumption DEF aeron_publication_offer, MainOnly, MutexHeld, MainHolds, StatsHolds
<1>7. CASE PublishLock
  BY <1>7, PublisherAssumption DEF PublishLock, MainOnly, MutexHeld, MainHolds, StatsHolds, LockFor, Fatal, Answers
<1>8. CASE CountSent
  BY <1>8, PublisherAssumption DEF CountSent, MainOnly, MutexHeld, MainHolds, StatsHolds
<1>9. CASE CountBytes
  BY <1>9, PublisherAssumption DEF CountBytes, MainOnly, MutexHeld, MainHolds, StatsHolds
<1>10. CASE offer_failed_handler
  BY <1>10, PublisherAssumption DEF offer_failed_handler, MainOnly, MutexHeld, MainHolds, StatsHolds
<1>11. CASE CountError
  BY <1>11, PublisherAssumption DEF CountError, MainOnly, MutexHeld, MainHolds, StatsHolds
<1>12. CASE PublishUnlock
  BY <1>12, PublisherAssumption DEF PublishUnlock, MainOnly, MutexHeld, MainHolds, StatsHolds
<1>13. CASE Sent
  BY <1>13, PublisherAssumption DEF Sent, MainOnly, MutexHeld, MainHolds, StatsHolds
<1>14. CASE Retry
  BY <1>14, PublisherAssumption DEF Retry, MainOnly, MutexHeld, MainHolds, StatsHolds
<1>15. CASE Leaving
  BY <1>15, LeavingFrame, PublisherAssumption DEF MainOnly, MutexHeld, MainHolds, StatsHolds
<1>16. CASE Closing
  BY <1>16, ClosingFrame, PublisherAssumption DEF ShutdownOnly, MutexHeld, MainHolds, StatsHolds, Shutdown, AfterRun, Ending
<1>17. CASE stats_thread
  BY <1>17 DEF stats_thread, StatsTest, StatsSleep, StatsAwake, ReportLock, print_stats_interval,
    ReportUnlock, StatsOnly, MutexHeld, MainHolds, StatsHolds
<1>18. CASE signal_handler
  BY <1>18, PublisherAssumption DEF signal_handler, MutexHeld, MainHolds, StatsHolds
<1>19. CASE ClockAdvances
  BY <1>19, PublisherAssumption DEF ClockAdvances, MutexHeld, MainHolds, StatsHolds
<1>20. CASE UNCHANGED vars
  BY <1>20 DEF vars, MutexHeld, MainHolds, StatsHolds
<1> QED
  BY NextGroups, <1>1, <1>2, <1>3, <1>4, <1>5, <1>6, <1>7, <1>8, <1>9, <1>10, <1>11, <1>12, <1>13, <1>14, <1>15, <1>16, <1>17, <1>18, <1>19, <1>20

(* The thread and the buffer live as long as main says.                      *)
LEMMA LifecycleStep ==
  ASSUME TypeOK, Answers, Lifecycle, [Next]_vars
  PROVE  Lifecycle'
<1>1. CASE Opening
  BY <1>1, OpeningFrame, PublisherAssumption DEF SessionOnly, Lifecycle, AfterRun, Setup, Shutdown, Ending
<1>2. CASE pthread_create
  BY <1>2, PublisherAssumption DEF pthread_create, Lifecycle, AfterRun, Setup, Shutdown, Ending
<1>3. CASE SetStartTime
  BY <1>3, PublisherAssumption DEF SetStartTime, Lifecycle, AfterRun, Setup, Shutdown, Ending
<1>4. CASE SetLastStatsTime
  BY <1>4, PublisherAssumption DEF SetLastStatsTime, Lifecycle, AfterRun, Setup, Shutdown, Ending
<1>5. CASE LoopTest
  BY <1>5, PublisherAssumption DEF LoopTest, MainOnly, Lifecycle, AfterRun, Setup, Shutdown, Ending
<1>6. CASE aeron_publication_offer
  BY <1>6, PublisherAssumption DEF aeron_publication_offer, MainOnly, Lifecycle, AfterRun, Setup, Shutdown, Ending
<1>7. CASE PublishLock
  BY <1>7, PublisherAssumption DEF PublishLock, MainOnly, Lifecycle, AfterRun, Setup, Shutdown, Ending, LockFor, Fatal, Answers
<1>8. CASE CountSent
  BY <1>8, PublisherAssumption DEF CountSent, MainOnly, Lifecycle, AfterRun, Setup, Shutdown, Ending
<1>9. CASE CountBytes
  BY <1>9, PublisherAssumption DEF CountBytes, MainOnly, Lifecycle, AfterRun, Setup, Shutdown, Ending
<1>10. CASE offer_failed_handler
  BY <1>10, PublisherAssumption DEF offer_failed_handler, MainOnly, Lifecycle, AfterRun, Setup, Shutdown, Ending
<1>11. CASE CountError
  BY <1>11, PublisherAssumption DEF CountError, MainOnly, Lifecycle, AfterRun, Setup, Shutdown, Ending
<1>12. CASE PublishUnlock
  BY <1>12, PublisherAssumption DEF PublishUnlock, MainOnly, Lifecycle, AfterRun, Setup, Shutdown, Ending
<1>13. CASE Sent
  BY <1>13, PublisherAssumption DEF Sent, MainOnly, Lifecycle, AfterRun, Setup, Shutdown, Ending
<1>14. CASE Retry
  BY <1>14, PublisherAssumption DEF Retry, MainOnly, Lifecycle, AfterRun, Setup, Shutdown, Ending
<1>15. CASE Leaving
  BY <1>15, LeavingFrame, PublisherAssumption DEF MainOnly, Lifecycle, AfterRun, Setup, Shutdown, Ending
<1>16. CASE Closing
  BY <1>16, ClosingFrame, PublisherAssumption DEF ShutdownOnly, Lifecycle, AfterRun, Setup, Shutdown, Ending
<1>17. CASE stats_thread
  BY <1>17, StatsFrame, PublisherAssumption DEF StatsOnly, Lifecycle, AfterRun, Setup, Shutdown, Ending
<1>18. CASE signal_handler
  BY <1>18, PublisherAssumption DEF signal_handler, Lifecycle, AfterRun, Setup, Shutdown, Ending
<1>19. CASE ClockAdvances
  BY <1>19, PublisherAssumption DEF ClockAdvances, Lifecycle, AfterRun, Setup, Shutdown, Ending
<1>20. CASE UNCHANGED vars
  BY <1>20 DEF vars, Lifecycle, AfterRun, Setup, Shutdown, Ending
<1> QED
  BY NextGroups, <1>1, <1>2, <1>3, <1>4, <1>5, <1>6, <1>7, <1>8, <1>9, <1>10, <1>11, <1>12, <1>13, <1>14, <1>15, <1>16, <1>17, <1>18, <1>19, <1>20

(* After an answer that ends the run nothing is offered.                     *)
LEMMA AnswersStep ==
  ASSUME TypeOK, Answers, [Next]_vars
  PROVE  Answers'
<1>1. CASE Opening
  BY <1>1, OpeningFrame, PublisherAssumption DEF SessionOnly, Answers, Setup, Publish, Shutdown, Ending, Fatal
<1>2. CASE pthread_create
  BY <1>2, PublisherAssumption DEF pthread_create, Answers, Setup, Publish, Shutdown, Ending, Fatal
<1>3. CASE SetStartTime
  BY <1>3, PublisherAssumption DEF SetStartTime, Answers, Setup, Publish, Shutdown, Ending, Fatal
<1>4. CASE SetLastStatsTime
  BY <1>4, PublisherAssumption DEF SetLastStatsTime, Answers, Setup, Publish, Shutdown, Ending, Fatal
<1>5. CASE LoopTest
  BY <1>5, PublisherAssumption DEF LoopTest, MainOnly, Answers, Setup, Publish, Shutdown, Ending, Fatal
<1>6. CASE aeron_publication_offer
  BY <1>6, PublisherAssumption DEF aeron_publication_offer, MainOnly, Answers, Setup, Publish, Shutdown, Ending, Fatal, OfferResults, Unnamed
<1>7. CASE PublishLock
  BY <1>7, PublisherAssumption DEF PublishLock, MainOnly, Answers, Setup, Publish, Shutdown, Ending, Fatal, LockFor
<1>8. CASE CountSent
  BY <1>8, PublisherAssumption DEF CountSent, MainOnly, Answers, Setup, Publish, Shutdown, Ending, Fatal
<1>9. CASE CountBytes
  BY <1>9, PublisherAssumption DEF CountBytes, MainOnly, Answers, Setup, Publish, Shutdown, Ending, Fatal
<1>10. CASE offer_failed_handler
  BY <1>10, PublisherAssumption DEF offer_failed_handler, MainOnly, Answers, Setup, Publish, Shutdown, Ending, Fatal
<1>11. CASE CountError
  BY <1>11, PublisherAssumption DEF CountError, MainOnly, Answers, Setup, Publish, Shutdown, Ending, Fatal
<1>12. CASE PublishUnlock
  BY <1>12, PublisherAssumption DEF PublishUnlock, MainOnly, Answers, Setup, Publish, Shutdown, Ending, Fatal
<1>13. CASE Sent
  BY <1>13, PublisherAssumption DEF Sent, MainOnly, Answers, Setup, Publish, Shutdown, Ending, Fatal
<1>14. CASE Retry
  BY <1>14, PublisherAssumption DEF Retry, MainOnly, Answers, Setup, Publish, Shutdown, Ending, Fatal
<1>15. CASE Leaving
  BY <1>15, LeavingFrame, PublisherAssumption DEF MainOnly, Answers, Setup, Publish, Shutdown, Ending, Fatal
<1>16. CASE Closing
  BY <1>16, ClosingFrame, PublisherAssumption DEF ShutdownOnly, Answers, Setup, Publish, Shutdown, Ending, Fatal, AfterRun
<1>17. CASE stats_thread
  BY <1>17, StatsFrame, PublisherAssumption DEF StatsOnly, Answers, Setup, Publish, Shutdown, Ending, Fatal
<1>18. CASE signal_handler
  BY <1>18, PublisherAssumption DEF signal_handler, Answers, Setup, Publish, Shutdown, Ending, Fatal
<1>19. CASE ClockAdvances
  BY <1>19, PublisherAssumption DEF ClockAdvances, Answers, Setup, Publish, Shutdown, Ending, Fatal
<1>20. CASE UNCHANGED vars
  BY <1>20 DEF vars, Answers, Setup, Publish, Shutdown, Ending, Fatal
<1> QED
  BY NextGroups, <1>1, <1>2, <1>3, <1>4, <1>5, <1>6, <1>7, <1>8, <1>9, <1>10, <1>11, <1>12, <1>13, <1>14, <1>15, <1>16, <1>17, <1>18, <1>19, <1>20

(* The counts stay as far apart as Counting says.                            *)
LEMMA CountingStep ==
  ASSUME TypeOK, Answers, MutexHeld, Counting, [Next]_vars
  PROVE  Counting'
<1>1. CASE Opening
  BY <1>1, OpeningFrame, PublisherAssumption DEF SessionOnly, Counting, InFlight, InCall, Setup, Publish, Shutdown, Ending, Fatal, TypeOK, Answers
<1>2. CASE pthread_create
  BY <1>2, PublisherAssumption DEF pthread_create, Counting, InFlight, InCall, Setup, Publish, Shutdown, Ending, Fatal, TypeOK, Answers
<1>3. CASE SetStartTime
  BY <1>3, PublisherAssumption DEF SetStartTime, Counting, InFlight, InCall, Setup, Publish, Shutdown, Ending, Fatal, TypeOK, Answers
<1>4. CASE SetLastStatsTime
  BY <1>4, PublisherAssumption DEF SetLastStatsTime, Counting, InFlight, InCall, Setup, Publish, Shutdown, Ending, Fatal, TypeOK, Answers
<1>5. CASE LoopTest
  BY <1>5, PublisherAssumption DEF LoopTest, MainOnly, Counting, InFlight, InCall, Setup, Publish, Shutdown, Ending, Fatal, TypeOK, Answers
<1>6. CASE aeron_publication_offer
  BY <1>6, PublisherAssumption DEF aeron_publication_offer, MainOnly, Counting, InFlight, InCall, Setup, Publish, Shutdown, Ending, Fatal, TypeOK, OfferResults, Unnamed, Answers
<1>7. CASE PublishLock
  BY <1>7, PublisherAssumption DEF PublishLock, MainOnly, Counting, InFlight, InCall, Setup, Publish, Shutdown, Ending, Fatal, TypeOK, LockFor, Answers
<1>8. CASE CountSent
  BY <1>8, PublisherAssumption DEF CountSent, MainOnly, Counting, InFlight, InCall, Setup, Publish, Shutdown, Ending, Fatal, TypeOK, Answers
<1>9. CASE CountBytes
  BY <1>9, PublisherAssumption DEF CountBytes, MainOnly, Counting, InFlight, InCall, Setup, Publish, Shutdown, Ending, Fatal, TypeOK, Answers
<1>10. CASE offer_failed_handler
  BY <1>10, PublisherAssumption DEF offer_failed_handler, MainOnly, Counting, InFlight, InCall, Setup, Publish, Shutdown, Ending, Fatal, TypeOK, Answers
<1>11. CASE CountError
  BY <1>11, PublisherAssumption DEF CountError, MainOnly, Counting, InFlight, InCall, Setup, Publish, Shutdown, Ending, Fatal, TypeOK, Answers
<1>12. CASE PublishUnlock
  BY <1>12, PublisherAssumption DEF PublishUnlock, MainOnly, Counting, InFlight, InCall, Setup, Publish, Shutdown, Ending, Fatal, TypeOK, Answers
<1>13. CASE Sent
  BY <1>13, PublisherAssumption DEF Sent, MainOnly, Counting, InFlight, InCall, Setup, Publish, Shutdown, Ending, Fatal, TypeOK, Answers
<1>14. CASE Retry
  BY <1>14, PublisherAssumption DEF Retry, MainOnly, Counting, InFlight, InCall, Setup, Publish, Shutdown, Ending, Fatal, TypeOK, Answers
<1>15. CASE Leaving
  BY <1>15, LeavingFrame, PublisherAssumption DEF MainOnly, Counting, InFlight, InCall, Setup, Publish, Shutdown, Ending, Fatal, TypeOK, Answers
<1>16. CASE Closing
  BY <1>16, ClosingFrame, PublisherAssumption DEF ShutdownOnly, Counting, InFlight, InCall, Setup, Publish, Shutdown, Ending, Fatal, TypeOK, AfterRun
<1>17. CASE stats_thread
  BY <1>17, StatsFrame, PublisherAssumption DEF StatsOnly, Counting, InFlight, InCall, Setup, Publish, Shutdown, Ending, Fatal, TypeOK
<1>18. CASE signal_handler
  BY <1>18, PublisherAssumption DEF signal_handler, Counting, InFlight, InCall, Setup, Publish, Shutdown, Ending, Fatal, TypeOK
<1>19. CASE ClockAdvances
  BY <1>19, PublisherAssumption DEF ClockAdvances, Counting, InFlight, InCall, Setup, Publish, Shutdown, Ending, Fatal, TypeOK
<1>20. CASE UNCHANGED vars
  BY <1>20 DEF vars, Counting, InFlight, InCall, Setup, Publish, Shutdown, Ending, Fatal, TypeOK
<1> QED
  BY NextGroups, <1>1, <1>2, <1>3, <1>4, <1>5, <1>6, <1>7, <1>8, <1>9, <1>10, <1>11, <1>12, <1>13, <1>14, <1>15, <1>16, <1>17, <1>18, <1>19, <1>20

(* A refused offer uses up a retry; a message that was sent resets them.     *)
LEMMA BudgetStep ==
  ASSUME TypeOK, Answers, Budget, [Next]_vars
  PROVE  Budget'
<1>1. CASE Opening
  BY <1>1, OpeningFrame, PublisherAssumption DEF SessionOnly, Budget, Setup, Publish, Shutdown, Ending, Fatal, TypeOK, Answers
<1>2. CASE pthread_create
  BY <1>2, PublisherAssumption DEF pthread_create, Budget, Setup, Publish, Shutdown, Ending, Fatal, TypeOK
<1>3. CASE SetStartTime
  BY <1>3, PublisherAssumption DEF SetStartTime, Budget, Setup, Publish, Shutdown, Ending, Fatal, TypeOK
<1>4. CASE SetLastStatsTime
  BY <1>4, PublisherAssumption DEF SetLastStatsTime, Budget, Setup, Publish, Shutdown, Ending, Fatal, TypeOK
<1>5. CASE LoopTest
  BY <1>5, PublisherAssumption DEF LoopTest, MainOnly, Budget, Setup, Publish, Shutdown, Ending, Fatal, TypeOK
<1>6. CASE aeron_publication_offer
  BY <1>6, PublisherAssumption DEF aeron_publication_offer, MainOnly, Budget, Setup, Publish, Shutdown, Ending, Fatal, TypeOK, Answers
<1>7. CASE PublishLock
  BY <1>7, PublisherAssumption DEF PublishLock, MainOnly, Budget, Setup, Publish, Shutdown, Ending, Fatal, TypeOK, LockFor, Answers
<1>8. CASE CountSent
  BY <1>8, PublisherAssumption DEF CountSent, MainOnly, Budget, Setup, Publish, Shutdown, Ending, Fatal, TypeOK
<1>9. CASE CountBytes
  BY <1>9, PublisherAssumption DEF CountBytes, MainOnly, Budget, Setup, Publish, Shutdown, Ending, Fatal, TypeOK, Answers
<1>10. CASE offer_failed_handler
  BY <1>10, PublisherAssumption DEF offer_failed_handler, MainOnly, Budget, Setup, Publish, Shutdown, Ending, Fatal, TypeOK, Answers
<1>11. CASE CountError
  BY <1>11, PublisherAssumption DEF CountError, MainOnly, Budget, Setup, Publish, Shutdown, Ending, Fatal, TypeOK, Answers
<1>12. CASE PublishUnlock
  BY <1>12, PublisherAssumption DEF PublishUnlock, MainOnly, Budget, Setup, Publish, Shutdown, Ending, Fatal, TypeOK
<1>13. CASE Sent
  BY <1>13, PublisherAssumption DEF Sent, MainOnly, Budget, Setup, Publish, Shutdown, Ending, Fatal, TypeOK
<1>14. CASE Retry
  BY <1>14, PublisherAssumption DEF Retry, MainOnly, Budget, Setup, Publish, Shutdown, Ending, Fatal, TypeOK, WithinBudget
<1>15. CASE Leaving
  BY <1>15, LeavingFrame, PublisherAssumption DEF MainOnly, Budget, Setup, Publish, Shutdown, Ending, Fatal, TypeOK
<1>16. CASE Closing
  BY <1>16, ClosingFrame, PublisherAssumption DEF ShutdownOnly, Budget, Setup, Publish, Shutdown, Ending, Fatal, TypeOK, AfterRun
<1>17. CASE stats_thread
  BY <1>17, StatsFrame, PublisherAssumption DEF StatsOnly, Budget, Setup, Publish, Shutdown, Ending, Fatal, TypeOK
<1>18. CASE signal_handler
  BY <1>18, PublisherAssumption DEF signal_handler, Budget, Setup, Publish, Shutdown, Ending, Fatal, TypeOK
<1>19. CASE ClockAdvances
  BY <1>19, PublisherAssumption DEF ClockAdvances, Budget, Setup, Publish, Shutdown, Ending, Fatal, TypeOK
<1>20. CASE UNCHANGED vars
  BY <1>20 DEF vars, Budget, Setup, Publish, Shutdown, Ending, Fatal, TypeOK
<1> QED
  BY NextGroups, <1>1, <1>2, <1>3, <1>4, <1>5, <1>6, <1>7, <1>8, <1>9, <1>10, <1>11, <1>12, <1>13, <1>14, <1>15, <1>16, <1>17, <1>18, <1>19, <1>20

(* No time of the run lies in the future.                                    *)
LEMMA TimingStep ==
  ASSUME TypeOK, Answers, Timing, [Next]_vars
  PROVE  Timing'
<1>1. CASE Opening
  BY <1>1, OpeningFrame, PublisherAssumption DEF SessionOnly, Timing, Started, Setup, Publish, Shutdown, Ending, TypeOK
<1>2. CASE pthread_create
  BY <1>2, PublisherAssumption DEF pthread_create, Timing, Started, Setup, Publish, Shutdown, Ending, TypeOK
<1>3. CASE SetStartTime
  BY <1>3, PublisherAssumption DEF SetStartTime, Timing, Started, Setup, Publish, Shutdown, Ending, TypeOK
<1>4. CASE SetLastStatsTime
  BY <1>4, PublisherAssumption DEF SetLastStatsTime, Timing, Started, Setup, Publish, Shutdown, Ending, TypeOK
<1>5. CASE LoopTest
  BY <1>5, PublisherAssumption DEF LoopTest, MainOnly, Timing, Started, Setup, Publish, Shutdown, Ending, TypeOK
<1>6. CASE aeron_publication_offer
  BY <1>6, PublisherAssumption DEF aeron_publication_offer, MainOnly, Timing, Started, Setup, Publish, Shutdown, Ending, TypeOK
<1>7. CASE PublishLock
  BY <1>7, PublisherAssumption DEF PublishLock, MainOnly, Timing, Started, Setup, Publish, Shutdown, Ending, TypeOK, LockFor, Fatal, Answers
<1>8. CASE CountSent
  BY <1>8, PublisherAssumption DEF CountSent, MainOnly, Timing, Started, Setup, Publish, Shutdown, Ending, TypeOK
<1>9. CASE CountBytes
  BY <1>9, PublisherAssumption DEF CountBytes, MainOnly, Timing, Started, Setup, Publish, Shutdown, Ending, TypeOK
<1>10. CASE offer_failed_handler
  BY <1>10, PublisherAssumption DEF offer_failed_handler, MainOnly, Timing, Started, Setup, Publish, Shutdown, Ending, TypeOK
<1>11. CASE CountError
  BY <1>11, PublisherAssumption DEF CountError, MainOnly, Timing, Started, Setup, Publish, Shutdown, Ending, TypeOK
<1>12. CASE PublishUnlock
  BY <1>12, PublisherAssumption DEF PublishUnlock, MainOnly, Timing, Started, Setup, Publish, Shutdown, Ending, TypeOK
<1>13. CASE Sent
  BY <1>13, PublisherAssumption DEF Sent, MainOnly, Timing, Started, Setup, Publish, Shutdown, Ending, TypeOK
<1>14. CASE Retry
  BY <1>14, PublisherAssumption DEF Retry, MainOnly, Timing, Started, Setup, Publish, Shutdown, Ending, TypeOK
<1>15. CASE Leaving
  BY <1>15, LeavingFrame, PublisherAssumption DEF MainOnly, Timing, Started, Setup, Publish, Shutdown, Ending, TypeOK
<1>16. CASE Closing
  BY <1>16, ClosingFrame, PublisherAssumption DEF ShutdownOnly, Timing, Started, Setup, Publish, Shutdown, Ending, TypeOK, AfterRun
<1>17. CASE stats_thread
  BY <1>17, StatsFrame, PublisherAssumption DEF StatsOnly, Timing, Started, Setup, Publish, Shutdown, Ending, TypeOK
<1>18. CASE signal_handler
  BY <1>18, PublisherAssumption DEF signal_handler, Timing, Started, Setup, Publish, Shutdown, Ending, TypeOK
<1>19. CASE ClockAdvances
  BY <1>19, PublisherAssumption DEF ClockAdvances, Timing, Started, Setup, Publish, Shutdown, Ending, TypeOK
<1>20. CASE UNCHANGED vars
  BY <1>20 DEF vars, Timing, Started, Setup, Publish, Shutdown, Ending, TypeOK
<1> QED
  BY NextGroups, <1>1, <1>2, <1>3, <1>4, <1>5, <1>6, <1>7, <1>8, <1>9, <1>10, <1>11, <1>12, <1>13, <1>14, <1>15, <1>16, <1>17, <1>18, <1>19, <1>20

-----------------------------------------------------------------------------
(* The theorems *)

(* The process starts in the invariant. *)
LEMMA InvInit == Init => Inv
<1> SUFFICES ASSUME Init PROVE Inv
  OBVIOUS
<1>1. TypeOK
  <2>1. running \in BOOLEAN /\ warned \in BOOLEAN
    BY DEF Init
  <2> QED
    BY <2>1, PublisherAssumption
    DEF Init, TypeOK, MainLocations, StatsLocations, Setup, OfferResults
<1>2. MutexHeld /\ Lifecycle /\ Answers
  BY DEF Init, MutexHeld, Lifecycle, Answers, MainHolds, StatsHolds, Setup, Shutdown, AfterRun,
    Ending, Fatal
<1>3. Counting
  BY PublisherAssumption DEF Init, Counting, InFlight, InCall, Publish, Fatal
<1>4. Budget
  BY PublisherAssumption DEF Init, Budget
<1>5. Timing
  BY DEF Init, Timing, Started, Publish, Shutdown
<1> QED
  BY <1>1, <1>2, <1>3, <1>4, <1>5 DEF Inv

(* Every step keeps it. *)
LEMMA InvStep == Inv /\ [Next]_vars => Inv'
  BY TypeStep, MutexStep, LifecycleStep, AnswersStep, CountingStep, BudgetStep, TimingStep
  DEF Inv

(* The inductive invariant of binary_publisher holds always. *)
THEOREM Invariance == Spec => []Inv
  BY InvInit, InvStep, PTL DEF Spec

(* Nothing is sent too many, no offer retried too often, and the final     *)
(* report of print_stats is about the whole run.                           *)
THEOREM RunSound == Spec => []RunIsSound
<1>1. Inv => NeverOversends
  BY PublisherAssumption DEF Inv, NeverOversends, Counting, InFlight, InCall, Publish, TypeOK
<1>2. ASSUME Inv PROVE BackPressureBounded
  <2>1. CASE main \in Setup \cup Publish
    BY <1>2, <2>1, PublisherAssumption DEF Inv, BackPressureBounded, Budget, TypeOK
  <2>2. CASE main \in Shutdown \cup Ending
    BY <1>2, <2>2, PublisherAssumption
    DEF Inv, BackPressureBounded, Budget, TypeOK, Shutdown, Ending
  <2> QED
    BY <1>2, <2>1, <2>2 DEF Inv, TypeOK, MainLocations
<1>3. ASSUME Inv, main \in {"final", "free"}
      PROVE  /\ stats \in {"none", "done"} /\ mutex = "free" /\ ~running
             /\ messages_sent = successful_sends
             /\ bytes_sent = MessageSize * messages_sent
             /\ send_errors = (IF result \in Fatal THEN 1 ELSE 0)
             /\ start_time # 0 /\ start_time <= clock
             /\ last_messages_sent <= messages_sent
  <2>1. stats \in {"none", "done"} /\ ~running
    BY <1>3 DEF Inv, Lifecycle, AfterRun, Shutdown
  <2>2. mutex = "free"
    BY <1>3, <2>1 DEF Inv, MutexHeld, MainHolds, StatsHolds, TypeOK
  <2>3. messages_sent = successful_sends /\ bytes_sent = MessageSize * messages_sent
    BY <1>3, PublisherAssumption DEF Inv, Counting, InFlight, TypeOK
  <2> QED
    BY <1>3, <2>1, <2>2, <2>3 DEF Inv, Counting, Timing, Started, Shutdown
<1>4. Inv => FinalReportCoversRun
  BY <1>3 DEF FinalReportCoversRun
<1>5. Inv => RunIsSound
  BY <1>1, <1>2, <1>4 DEF RunIsSound, Inv
<1> QED
  BY <1>5, Invariance, PTL

(* A realtime report of print_stats never shows half an update of          *)
(* publish_message.                                                        *)
THEOREM ReportsConsistent == Spec => []ReportSeesWholeUpdates
<1>1. ASSUME Inv, stats = "print"
      PROVE  /\ bytes_sent = MessageSize * messages_sent
             /\ messages_sent = successful_sends + InFlight
             /\ last_messages_sent <= messages_sent
             /\ last_bytes_sent <= bytes_sent
             /\ last_stats_time <= clock
  <2>1. main # "bytes"
    BY <1>1 DEF Inv, MutexHeld, MainHolds, StatsHolds
  <2>2. bytes_sent = MessageSize * messages_sent
    BY <1>1, <2>1, PublisherAssumption DEF Inv, Counting, TypeOK
  <2> QED
    BY <1>1, <2>2 DEF Inv, Counting, Timing
<1>2. Inv => ReportSeesWholeUpdates
  BY <1>1 DEF ReportSeesWholeUpdates
<1> QED
  BY <1>2, Invariance, PTL

(* main gives everything back, each object after the ones inside it and    *)
(* after the statistics thread, on every path.                             *)
THEOREM Releases == Spec => ReleasesAll
<1> DEFINE InOrder ==
      \A object \in held \ held' :
        /\ stats \in {"none", "done"} /\ mutex = "free"
        /\ object = "context" => held = {"context"}
        /\ object = "aeron" => "publication" \notin held
<1>1. Inv => NoLeakAtExit
  BY DEF Inv, Lifecycle, NoLeakAtExit
<1>2. ASSUME Inv, [Next]_vars PROVE [InOrder]_vars
  <2>1. ASSUME stats \in {"none", "done"}, main \in {"free", "close"} PROVE mutex = "free"
    BY <1>2, <2>1 DEF Inv, MutexHeld, MainHolds, StatsHolds, TypeOK
  <2>2. ASSUME main \in {"free", "close"} PROVE stats \in {"none", "done"}
    BY <1>2, <2>2 DEF Inv, Lifecycle, AfterRun, Ending
  <2>3. CASE free
    BY <2>1, <2>2, <2>3 DEF free
  <2>4. CASE CloseObjects
    <3>1. "buffer" \notin held /\ held \subseteq {"context", "aeron", "publication", "buffer"}
      BY <1>2, <2>4 DEF CloseObjects, Inv, Lifecycle, TypeOK
    <3>2. held \ held' \subseteq {Innermost}
      BY <2>4 DEF CloseObjects
    <3>3. Innermost = "context" => held \subseteq {"context"}
      BY <3>1 DEF Innermost
    <3>4. Innermost = "aeron" => "publication" \notin held
      BY DEF Innermost
    <3> QED
      BY <2>1, <2>2, <2>4, <3>2, <3>3, <3>4 DEF CloseObjects
  <2>5. CASE pthread_join \/ JoinUninitialised \/ print_stats_final
    BY <2>5 DEF pthread_join, JoinUninitialised, print_stats_final
  <2>6. CASE Opening
    BY <1>2, <2>6, OpeningFrame DEF Inv
  <2>7. CASE \/ pthread_create \/ SetStartTime \/ SetLastStatsTime \/ LoopTest
             \/ aeron_publication_offer \/ PublishLock \/ CountSent \/ CountBytes
             \/ offer_failed_handler \/ CountError \/ PublishUnlock \/ Sent \/ Retry \/ Leaving
    BY <2>7, LeavingFrame DEF pthread_create, SetStartTime, SetLastStatsTime, LoopTest,
      aeron_publication_offer, PublishLock, CountSent, CountBytes, offer_failed_handler,
      CountError, PublishUnlock, Sent, Retry, MainOnly
  <2>8. CASE stats_thread \/ signal_handler \/ ClockAdvances \/ UNCHANGED vars
    BY <2>8, StatsFrame DEF signal_handler, ClockAdvances, vars, StatsOnly
  <2> QED
    BY <1>2, <2>3, <2>4, <2>5, <2>6, <2>7, <2>8, NextGroups DEF Closing
<1> QED
  BY <1>1, <1>2, Invariance, PTL DEF ReleasesAll, CloseOrder, Spec
=============================================================================
