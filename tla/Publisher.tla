------------------------------ MODULE Publisher ------------------------------
(***************************************************************************)
(* The binary_publisher process, c-performance/src/binary_publisher.c: its *)
(* main thread, which opens the Aeron client and offers message_count      *)
(* messages, retrying under back pressure; the statistics thread; and the  *)
(* signal handler.  What aeron_publication_offer answers is a choice of    *)
(* the environment.  A step ends at an access to state another thread can  *)
(* see.                                                                    *)
(***************************************************************************)
EXTENDS Integers, FiniteSets

CONSTANTS
  MessageCount,      \* config->message_count
  MessageSize,       \* config->message_size
  MAX_RETRIES,       \* 1000000
  Ipc,               \* config.transport_type == TRANSPORT_IPC
  WaitTimeout,       \* timeout_seconds of wait_for_connection, 30
  MaxClock           \* bound: the clock stops here

(* validate_config asks for a size of at least the timestamp's 8 bytes.    *)
ASSUME PublisherAssumption ==
  /\ MessageCount \in Nat
  /\ MessageSize \in Nat /\ MessageSize >= 8
  /\ MAX_RETRIES \in Nat
  /\ Ipc \in BOOLEAN
  /\ WaitTimeout \in Nat
  /\ MaxClock \in Nat \ {0}

VARIABLES
  main,       \* where the main thread is
  stats,      \* where the statistics thread is ("none": never created)
  running,    \* static bool running
  mutex,      \* who holds stats_mutex
  held,       \* the Aeron objects and the message buffer main has
  waited,     \* seconds wait_for_connection has been waiting
  warned,     \* main has said it sends on without a subscriber
  exit_code,  \* what main returns
  clock       \* CLOCK_REALTIME, which is not set back here

(* g_stats *)
VARIABLES
  messages_sent, bytes_sent, send_errors, back_pressure_events,
  start_time, last_stats_time, last_messages_sent, last_bytes_sent

(* locals of run_publisher and publish_message *)
VARIABLES
  successful_sends, retry_count,
  result      \* what the last aeron_publication_offer returned

counters     == <<messages_sent, bytes_sent, send_errors, back_pressure_events>>
last_vars    == <<last_stats_time, last_messages_sent, last_bytes_sent>>
session_vars == <<held, waited, warned, exit_code>>
loop_vars    == <<successful_sends, retry_count, result>>

vars == <<main, stats, running, mutex, session_vars, clock, counters,
          start_time, last_vars, loop_vars>>

(* aeronc.h:917-947; a position stands for every positive answer.          *)
Fatal   == {"NOT_CONNECTED", "ADMIN_ACTION", "CLOSED"}
Unnamed == {"MAX_POSITION_EXCEEDED", "ERROR"}
OfferResults == {"position", "BACK_PRESSURED"} \cup Fatal \cup Unnamed

(* Where publish_message takes stats_mutex, and what for. *)
LockFor  == [position |-> "sent", BACK_PRESSURED |-> "pressed",
             NOT_CONNECTED |-> "failed", ADMIN_ACTION |-> "failed",
             CLOSED |-> "failed"]

Setup    == {"context", "dir", "aeron", "start", "add", "await", "connect",
             "run", "spawn", "start_time", "last_time"}
Publish  == {"loop", "offer", "lock", "sent", "bytes", "pressed", "failed",
             "unlock", "returned"}
Shutdown == {"join", "final", "free"}
Ending   == {"close", "exited", "crashed"}

MainLocations  == Setup \cup Publish \cup Shutdown \cup Ending
StatsLocations == {"none", "test", "sleep", "awake", "lock", "print", "unlock",
                   "done"}

MainHolds  == {"sent", "bytes", "pressed", "failed", "unlock"}
StatsHolds == {"print", "unlock"}

Init ==
  /\ main = "context" /\ stats = "none" /\ running = TRUE /\ mutex = "free"
  /\ held = {} /\ waited = 0 /\ warned = FALSE /\ exit_code = 0 /\ clock = 1
  /\ messages_sent = 0 /\ bytes_sent = 0
  /\ send_errors = 0 /\ back_pressure_events = 0
  /\ start_time = 0 /\ last_stats_time = 0
  /\ last_messages_sent = 0 /\ last_bytes_sent = 0
  /\ successful_sends = 0 /\ retry_count = 0 /\ result = "none"

-----------------------------------------------------------------------------
(* main: opening the client *)

SessionOnly == UNCHANGED <<stats, running, mutex, clock, counters, start_time,
                           last_vars, loop_vars>>

Fails ==
  /\ main' = "close" /\ exit_code' = 1 /\ UNCHANGED <<held, waited, warned>>

Opens(object, next) ==
  /\ main' = next /\ held' = held \cup object
  /\ UNCHANGED <<waited, warned, exit_code>>

aeron_context_init ==
  /\ main = "context" /\ (Opens({"context"}, "dir") \/ Fails) /\ SessionOnly

aeron_context_set_dir ==
  /\ main = "dir" /\ (Opens({}, "aeron") \/ Fails) /\ SessionOnly

aeron_init ==
  /\ main = "aeron" /\ (Opens({"aeron"}, "start") \/ Fails) /\ SessionOnly

aeron_start ==
  /\ main = "start" /\ (Opens({}, "add") \/ Fails) /\ SessionOnly

aeron_async_add_publication ==
  /\ main = "add" /\ (Opens({}, "await") \/ Fails) /\ SessionOnly

(* Ready or an error; "not yet" while running changes nothing. *)
aeron_async_add_publication_poll ==
  /\ main = "await"
  /\ \/ Opens({"publication"}, IF Ipc THEN "run" ELSE "connect")
     \/ Fails
  /\ SessionOnly

AwaitInterrupted ==
  /\ main = "await" /\ ~running /\ Fails /\ SessionOnly

(* wait_for_connection: connected at some test, or past the deadline with  *)
(* a warning; running is not looked at.                                    *)
wait_for_connection_connected ==
  /\ main = "connect" /\ main' = "run"
  /\ UNCHANGED session_vars /\ SessionOnly

wait_for_connection_timeout ==
  /\ main = "connect" /\ waited > WaitTimeout
  /\ main' = "run" /\ warned' = TRUE
  /\ UNCHANGED <<held, waited, exit_code>> /\ SessionOnly

wait_for_connection_sleep ==
  /\ main = "connect" /\ waited <= WaitTimeout
  /\ waited' = waited + 1
  /\ UNCHANGED <<main, held, warned, exit_code>> /\ SessionOnly

(* run_publisher: the message buffer. *)
malloc ==
  /\ main = "run" /\ (Opens({"buffer"}, "spawn") \/ Fails) /\ SessionOnly

(* A failed pthread_create is only a warning. *)
pthread_create ==
  /\ main = "spawn" /\ main' = "start_time"
  /\ stats' \in {"test", "none"}
  /\ UNCHANGED <<running, mutex, session_vars, clock, counters, start_time,
                 last_vars, loop_vars>>

(* The thread is already running when main writes, without the mutex, the  *)
(* two times its reports subtract.                                         *)
SetStartTime ==
  /\ main = "start_time" /\ main' = "last_time" /\ start_time' = clock
  /\ UNCHANGED <<stats, running, mutex, session_vars, clock, counters,
                 last_vars, loop_vars>>

SetLastStatsTime ==
  /\ main = "last_time" /\ main' = "loop" /\ last_stats_time' = start_time
  /\ UNCHANGED <<stats, running, mutex, session_vars, clock, counters,
                 start_time, last_messages_sent, last_bytes_sent, loop_vars>>

-----------------------------------------------------------------------------
(* run_publisher's loop and publish_message *)

MainOnly == UNCHANGED <<stats, session_vars, clock, start_time, last_vars>>

LoopTest ==
  /\ main = "loop" /\ running /\ successful_sends < MessageCount
  /\ main' = "offer"
  /\ UNCHANGED <<running, mutex, counters, loop_vars>> /\ MainOnly

(* An answer the code does not name takes no lock and goes back as it is.  *)
aeron_publication_offer ==
  /\ main = "offer"
  /\ result' \in OfferResults
  /\ main' = IF result' \in Unnamed THEN "returned" ELSE "lock"
  /\ UNCHANGED <<running, mutex, counters, successful_sends, retry_count>>
  /\ MainOnly

(* Mutant: the counters are updated without stats_mutex. *)
PublishLock_NoMutex ==
  /\ main = "lock" /\ main' = LockFor[result]
  /\ UNCHANGED <<running, mutex, counters, loop_vars>> /\ MainOnly

PublishLock ==
  /\ main = "lock" /\ mutex = "free"
  /\ main' = LockFor[result] /\ mutex' = "main"
  /\ UNCHANGED <<running, counters, loop_vars>> /\ MainOnly

CountSent ==
  /\ main = "sent" /\ main' = "bytes" /\ messages_sent' = messages_sent + 1
  /\ UNCHANGED <<running, mutex, bytes_sent, send_errors,
                 back_pressure_events, loop_vars>>
  /\ MainOnly

CountBytes ==
  /\ main = "bytes" /\ main' = "unlock"
  /\ bytes_sent' = bytes_sent + MessageSize
  /\ UNCHANGED <<running, mutex, messages_sent, send_errors,
                 back_pressure_events, loop_vars>>
  /\ MainOnly

offer_failed_handler ==
  /\ main = "pressed" /\ main' = "unlock"
  /\ back_pressure_events' = back_pressure_events + 1
  /\ UNCHANGED <<running, mutex, messages_sent, bytes_sent, send_errors,
                 loop_vars>>
  /\ MainOnly

CountError ==
  /\ main = "failed" /\ main' = "unlock" /\ send_errors' = send_errors + 1
  /\ UNCHANGED <<running, mutex, messages_sent, bytes_sent,
                 back_pressure_events, loop_vars>>
  /\ MainOnly

PublishUnlock ==
  /\ main = "unlock" /\ main' = "returned" /\ mutex' = "free"
  /\ UNCHANGED <<running, counters, loop_vars>> /\ MainOnly

(* Sent: the next message, with a fresh retry budget. *)
Sent ==
  /\ main = "returned" /\ result = "position"
  /\ successful_sends' = successful_sends + 1 /\ retry_count' = 0
  /\ main' = "loop"
  /\ UNCHANGED <<running, mutex, counters, result>> /\ MainOnly

WithinBudget == retry_count < MAX_RETRIES

Retry ==
  /\ main = "returned" /\ result = "BACK_PRESSURED" /\ WithinBudget
  /\ retry_count' = retry_count + 1 /\ main' = "loop"
  /\ UNCHANGED <<running, mutex, counters, successful_sends, result>>
  /\ MainOnly

(* Mutant: the loop is left without telling the statistics thread. *)
LeaveLoop_KeepsRunning ==
  /\ main' = "join"
  /\ UNCHANGED <<running, mutex, counters, successful_sends, result>>
  /\ MainOnly

(* Every way out of the loop, its breaks included, ends here. *)
LeaveLoop ==
  /\ main' = "join" /\ running' = FALSE
  /\ UNCHANGED <<mutex, counters, successful_sends, result>> /\ MainOnly

LoopEnds ==
  /\ main = "loop" /\ (~running \/ successful_sends >= MessageCount)
  /\ UNCHANGED retry_count /\ LeaveLoop

GiveUp ==
  /\ main = "returned" /\ result = "BACK_PRESSURED" /\ ~WithinBudget
  /\ retry_count' = retry_count + 1 /\ LeaveLoop

SendFailed ==
  /\ main = "returned" /\ result \in Fatal \cup Unnamed
  /\ UNCHANGED retry_count /\ LeaveLoop

publish_message ==
  \/ aeron_publication_offer \/ PublishLock \/ CountSent \/ CountBytes
  \/ offer_failed_handler \/ CountError \/ PublishUnlock

-----------------------------------------------------------------------------
(* run_publisher and main: the way out *)

ShutdownOnly == UNCHANGED <<stats, running, mutex, clock, counters, start_time,
                            last_vars, loop_vars>>

(* Mutant: the final report does not wait for the statistics thread. *)
pthread_join_Detached ==
  /\ main = "join" /\ stats # "none" /\ main' = "final"
  /\ UNCHANGED session_vars /\ ShutdownOnly

pthread_join ==
  /\ main = "join" /\ stats = "done" /\ main' = "final"
  /\ UNCHANGED session_vars /\ ShutdownOnly

(* stats_tid was never written: the join may fail, crash or, no fairness   *)
(* being assumed of this step, hang.                                       *)
JoinUninitialised ==
  /\ main = "join" /\ stats = "none" /\ main' \in {"final", "crashed"}
  /\ UNCHANGED session_vars /\ ShutdownOnly

print_stats_final ==
  /\ main = "final" /\ mutex = "free" /\ main' = "free"
  /\ UNCHANGED session_vars /\ ShutdownOnly

(* run_publisher returns ERROR_SUCCESS whatever ended its loop. *)
free ==
  /\ main = "free" /\ main' = "close" /\ held' = held \ {"buffer"}
  /\ UNCHANGED <<waited, warned, exit_code>> /\ ShutdownOnly

(* Mutant: the client is closed before the publication inside it. *)
Innermost_ClientFirst == IF "aeron" \in held THEN "aeron"
                         ELSE IF "publication" \in held THEN "publication"
                         ELSE "context"

(* Every exit closes what is open, the innermost object first. *)
Innermost == IF "publication" \in held THEN "publication"
             ELSE IF "aeron" \in held THEN "aeron" ELSE "context"

CloseObjects ==
  /\ main = "close"
  /\ \/ /\ held # {} /\ held' = held \ {Innermost} /\ UNCHANGED main
     \/ /\ held = {} /\ main' = "exited" /\ UNCHANGED held
  /\ UNCHANGED <<waited, warned, exit_code>> /\ ShutdownOnly

-----------------------------------------------------------------------------
(* stats_thread.  Returning from main ends the process, this thread too.   *)

ProcessAlive == main \notin {"exited", "crashed"}

StatsOnly == UNCHANGED <<main, running, session_vars, clock, counters,
                         start_time, loop_vars>>

StatsTest ==
  /\ ProcessAlive /\ stats = "test"
  /\ stats' = IF running THEN "sleep" ELSE "done"
  /\ UNCHANGED <<mutex, last_vars>> /\ StatsOnly

StatsSleep ==
  /\ ProcessAlive /\ stats = "sleep" /\ stats' = "awake"
  /\ UNCHANGED <<mutex, last_vars>> /\ StatsOnly

StatsAwake ==
  /\ ProcessAlive /\ stats = "awake"
  /\ stats' = IF running THEN "lock" ELSE "test"
  /\ UNCHANGED <<mutex, last_vars>> /\ StatsOnly

ReportLock ==
  /\ ProcessAlive /\ stats = "lock" /\ mutex = "free"
  /\ stats' = "print" /\ mutex' = "stats"
  /\ UNCHANGED last_vars /\ StatsOnly

print_stats_interval ==
  /\ ProcessAlive /\ stats = "print" /\ stats' = "unlock"
  /\ last_stats_time' = clock
  /\ last_messages_sent' = messages_sent
  /\ last_bytes_sent' = bytes_sent
  /\ UNCHANGED mutex /\ StatsOnly

ReportUnlock ==
  /\ ProcessAlive /\ stats = "unlock" /\ stats' = "test" /\ mutex' = "free"
  /\ UNCHANGED last_vars /\ StatsOnly

stats_thread ==
  \/ StatsTest \/ StatsSleep \/ StatsAwake
  \/ ReportLock \/ print_stats_interval \/ ReportUnlock

-----------------------------------------------------------------------------
(* The environment: SIGINT or SIGTERM at any moment, and the wall clock.   *)

signal_handler ==
  /\ ProcessAlive /\ running /\ running' = FALSE
  /\ UNCHANGED <<main, stats, mutex, session_vars, clock, counters,
                 start_time, last_vars, loop_vars>>

ClockAdvances ==
  /\ ProcessAlive /\ clock < MaxClock /\ clock' = clock + 1
  /\ UNCHANGED <<main, stats, running, mutex, session_vars, counters,
                 start_time, last_vars, loop_vars>>

Terminated == ~ProcessAlive /\ UNCHANGED vars

Session ==
  \/ aeron_context_init \/ aeron_context_set_dir \/ aeron_init \/ aeron_start
  \/ aeron_async_add_publication \/ aeron_async_add_publication_poll
  \/ AwaitInterrupted \/ wait_for_connection_connected
  \/ wait_for_connection_timeout \/ wait_for_connection_sleep

run_publisher ==
  \/ malloc \/ pthread_create \/ SetStartTime \/ SetLastStatsTime
  \/ LoopTest \/ publish_message \/ Sent \/ Retry
  \/ LoopEnds \/ GiveUp \/ SendFailed
  \/ pthread_join \/ print_stats_final \/ free

MainThread == Session \/ run_publisher \/ CloseObjects

Next ==
  \/ MainThread \/ JoinUninitialised \/ stats_thread
  \/ signal_handler \/ ClockAdvances \/ Terminated

(* Both threads are scheduled, and main does get stats_mutex: the other    *)
(* thread holds it for one report a second.                                *)
Fairness == SF_vars(MainThread) /\ WF_vars(stats_thread)

Spec == Init /\ [][Next]_vars

FairSpec == Spec /\ Fairness

-----------------------------------------------------------------------------
(* What makes the process correct. *)

(* Every variable keeps its type; the buffer and the Aeron objects are the *)
(* only things main holds.                                                 *)
TypeOK ==
  /\ main \in MainLocations /\ stats \in StatsLocations
  /\ running \in BOOLEAN /\ mutex \in {"free", "main", "stats"}
  /\ held \subseteq {"context", "aeron", "publication", "buffer"}
  /\ waited \in 0 .. (WaitTimeout + 1) /\ warned \in BOOLEAN
  /\ exit_code \in {0, 1} /\ clock \in 1 .. MaxClock
  /\ messages_sent \in Nat /\ bytes_sent \in Nat
  /\ send_errors \in Nat /\ back_pressure_events \in Nat
  /\ start_time \in 0 .. MaxClock /\ last_stats_time \in 0 .. MaxClock
  /\ last_messages_sent \in Nat /\ last_bytes_sent \in Nat
  /\ successful_sends \in Nat /\ retry_count \in 0 .. (MAX_RETRIES + 1)
  /\ result \in OfferResults \cup {"none"}

(* stats_mutex is held exactly by the thread inside a critical section.    *)
MutexHeld ==
  /\ main \in MainHolds <=> mutex = "main"
  /\ stats \in StatsHolds <=> mutex = "stats"

(* A message the publication took but the loop has not counted yet. *)
InFlight ==
  IF result = "position" /\ main \in {"bytes", "unlock", "returned"} THEN 1 ELSE 0

(* The report of print_stats(false) is consistent: it never shows a        *)
(* message without its bytes, nor a message the loop will not count, and   *)
(* the interval it subtracts since the last report is not negative.        *)
ReportSeesWholeUpdates ==
  stats = "print" =>
    /\ bytes_sent = MessageSize * messages_sent
    /\ messages_sent = successful_sends + InFlight
    /\ last_messages_sent <= messages_sent
    /\ last_bytes_sent <= bytes_sent
    /\ last_stats_time <= clock

(* A signal, a retry and the break in the middle of the loop never make    *)
(* run_publisher send a message more than it was asked for.                *)
NeverOversends == messages_sent <= MessageCount

(* Back pressure cannot be retried for ever: every message costs at most   *)
(* MAX_RETRIES refused offers, the last one at most one more.              *)
BackPressureBounded ==
  back_pressure_events <= successful_sends * MAX_RETRIES + MAX_RETRIES + 1

(* When print_stats(true) runs the statistics thread is over, g_stats and  *)
(* the loop's own count agree to the byte, the error that ended the run is *)
(* counted exactly once, and the duration it subtracts is not negative.    *)
FinalReportCoversRun ==
  main \in {"final", "free"} =>
    /\ stats \in {"none", "done"} /\ mutex = "free" /\ ~running
    /\ messages_sent = successful_sends
    /\ bytes_sent = MessageSize * messages_sent
    /\ send_errors = (IF result \in Fatal THEN 1 ELSE 0)
    /\ start_time # 0 /\ start_time <= clock
    /\ last_messages_sent <= messages_sent

(* No path through main returns with an Aeron object or the buffer held.   *)
NoLeakAtExit == main = "exited" => held = {}

(* Nothing is closed before what lives inside it, and nothing at all while *)
(* the statistics thread still runs.                                       *)
CloseOrder ==
  [][ \A object \in held \ held' :
        /\ stats \in {"none", "done"} /\ mutex = "free"
        /\ object = "context" => held = {"context"}
        /\ object = "aeron" => "publication" \notin held ]_vars

(* However main ends it has given the buffer and every Aeron object back,  *)
(* each after the ones inside it and after the statistics thread.          *)
ReleasesAll == []NoLeakAtExit /\ CloseOrder

(* A run sends no message too many, retries no offer too often, and its    *)
(* final report is about the whole of it (run_publisher, print_stats).     *)
RunIsSound ==
  TypeOK /\ NeverOversends /\ BackPressureBounded /\ FinalReportCoversRun

(* The publisher always ends, whatever the publication answers and whether *)
(* or not a subscriber ever connects; only the join of a thread that was   *)
(* never created may keep it.                                              *)
AlwaysEnds == <>(~ProcessAlive \/ (main = "join" /\ stats = "none"))

-----------------------------------------------------------------------------
(* The inductive strengthening of the invariants above. *)

InCall  == Publish \ {"loop"}          \* an iteration of the loop is under way
Started == {"last_time"} \cup Publish \cup Shutdown   \* the start of the run is set
AfterRun == {"final", "free"} \cup Ending

(* Who is alive when: the thread is created once, main passes the join     *)
(* when it is over, and the buffer lives from malloc to free.              *)
Lifecycle ==
  /\ main \in Setup \ {"start_time", "last_time"} => stats = "none"
  /\ main \in Shutdown => ~running
  /\ main \in AfterRun => stats \in {"none", "done"}
  /\ main = "close" => "buffer" \notin held
  /\ main \in Setup \ {"spawn", "start_time", "last_time"} => "buffer" \notin held
  /\ main = "exited" => held = {}

(* What the last answer can be at each point of the loop: an answer that   *)
(* ends the run is not followed by another offer.                          *)
Answers ==
  /\ main \in Setup => result = "none"
  /\ main \in {"loop", "offer"} => result \in {"none", "position", "BACK_PRESSURED"}
  /\ main \in {"lock", "unlock"} => result \in {"position", "BACK_PRESSURED"} \cup Fatal
  /\ main \in {"sent", "bytes"} => result = "position"
  /\ main = "pressed" => result = "BACK_PRESSURED"
  /\ main = "failed" => result \in Fatal
  /\ main = "returned" => result # "none"

(* How far the counts of g_stats and of the loop are apart at each point.  *)
Counting ==
  /\ messages_sent = successful_sends + InFlight
  /\ bytes_sent + (IF main = "bytes" THEN MessageSize ELSE 0) = MessageSize * messages_sent
  /\ successful_sends <= MessageCount
  /\ main \in InCall => successful_sends < MessageCount
  /\ send_errors = IF result \in Fatal /\ main \notin {"lock", "failed"} THEN 1 ELSE 0
  /\ last_messages_sent <= messages_sent /\ last_bytes_sent <= bytes_sent

(* Every refused offer has used up one retry, but the one just counted.    *)
Budget ==
  /\ main \in Setup \cup Publish => retry_count <= MAX_RETRIES
  /\ back_pressure_events <= successful_sends * MAX_RETRIES + retry_count
       + (IF main \in {"unlock", "returned"} /\ result = "BACK_PRESSURED" THEN 1 ELSE 0)

(* The times of the run are set before its loop and not in the future.     *)
Timing ==
  /\ start_time <= clock /\ last_stats_time <= clock
  /\ main \in Started => start_time # 0

(* The inductive invariant of the process. *)
Inv == TypeOK /\ MutexHeld /\ Lifecycle /\ Answers /\ Counting /\ Budget /\ Timing

-----------------------------------------------------------------------------
(* Where the program and what is said of it differ. *)

(* aeronc.h:924-928 says of ADMIN_ACTION that the offer "should be         *)
(* retried": it is not what ends the run.                                  *)
AdminActionRetried == main = "join" => result # "ADMIN_ACTION"

(* main warns that there is no subscriber "but continues sending"          *)
(* (binary_publisher.c:351): after the warning, an offer nobody listens to *)
(* does not end the run.                                                   *)
SendsWithoutSubscriber == warned /\ main = "join" => result # "NOT_CONNECTED"

(* test-alignment-fix.sh:106-107 takes the closing line and the exit of    *)
(* the process for a normal completion: a run whose last offer failed does *)
(* not exit like one.                                                      *)
CompletionMeansSent ==
  main = "exited" /\ exit_code = 0 => result \notin Fatal \cup Unnamed

(* README.md:10 promises thread-safe throughput statistics: no report is   *)
(* computed from a start of the interval that has not been set.            *)
ReportsAfterStart == stats = "print" => last_stats_time # 0
=============================================================================
