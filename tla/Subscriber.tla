----------------------------- MODULE Subscriber -----------------------------
(***************************************************************************)
(* The binary_subscriber process (c-performance/src/binary_subscriber.c):  *)
(* its main thread, which opens the Aeron client, polls the subscription   *)
(* and runs process_message_fragment for every fragment; the statistics    *)
(* thread, which wakes once a second and reports; and the asynchronous     *)
(* signal handler.  The Aeron client, the network and the clock are the    *)
(* environment: what a call returns is a choice.                           *)
(*                                                                         *)
(* A step of the model ends at an access to state another thread can see.  *)
(* Inside the critical sections the handler's updates are separate steps,  *)
(* so a report that did not hold stats_mutex would see half an update.     *)
(***************************************************************************)
EXTENDS LatencyBuckets, FiniteSets, Folds

CONSTANTS
  Target,            \* config->target_message_count, g_target_messages
  FragmentLimit,     \* config->fragment_limit
  Ipc,               \* config.transport_type == TRANSPORT_IPC
  WaitTimeout,       \* timeout_seconds of wait_for_connection, 30
  Lengths,           \* the fragment lengths the images deliver
  SendTimes,         \* the timestamps publishers wrote into them
  ClockStepsBack,    \* may CLOCK_REALTIME be set back while we run?
  MaxClock,          \* bound: the clock stops here
  MaxPolls           \* bound: calls of aeron_subscription_poll

TIMESTAMP_SIZE == 8

ASSUME SubscriberAssumption ==
  /\ Target \in Nat \ {0}
  /\ FragmentLimit \in Nat \ {0}
  /\ Target + FragmentLimit < Word
  /\ Ipc \in BOOLEAN
  /\ WaitTimeout \in Nat
  /\ Lengths \subseteq Nat
  /\ SendTimes \subseteq Nat
  /\ ClockStepsBack \in BOOLEAN
  /\ MaxClock \in Nat \ {0}
  /\ MaxPolls \in Nat

VARIABLES
  main,       \* where the main thread is
  stats,      \* where the statistics thread is ("none": never created)
  running,    \* static bool running
  mutex,      \* who holds stats_mutex
  held,       \* the Aeron objects main has open
  waited,     \* seconds wait_for_connection has been waiting
  exit_code,  \* what main returns; meaningful once it closes down
  clock       \* CLOCK_REALTIME

(* g_stats *)
VARIABLES
  messages_received, bytes_received, fragments_received, polling_iterations,
  start_time, end_time,
  last_stats_time, last_messages_received, last_bytes_received,
  min_latency, max_latency, total_latency,
  latency_stats,     \* *g_stats.latency_stats
  latency_ptr        \* g_stats.latency_stats: "null", "live" or, set to NULL again, "dropped"

(* locals of the poll in progress *)
VARIABLES
  batch,   \* handler calls left in this aeron_subscription_poll
  frag     \* length, receive_timestamp and latency of the fragment in hand

counters     == <<messages_received, bytes_received, fragments_received>>
last_vars    == <<last_stats_time, last_messages_received, last_bytes_received>>
latency_vars == <<min_latency, max_latency, total_latency, latency_stats>>
session_vars == <<held, waited, exit_code>>

vars == <<main, stats, running, mutex, session_vars, clock, counters,
          polling_iterations, start_time, end_time, last_vars, latency_vars,
          latency_ptr, batch, frag>>

Setup    == {"context", "dir", "aeron", "start", "add", "await", "connect",
             "run", "spawn"}
Handler  == {"enter", "lock", "count", "bytes", "latency", "unlock", "check"}
Shutdown == {"join", "final", "cleanup"}
Ending   == {"close", "exited", "crashed"}

MainLocations  == Setup \cup {"loop"} \cup Handler \cup Shutdown \cup Ending
StatsLocations == {"none", "test", "sleep", "awake", "lock", "print", "unlock",
                   "done"}

(* main has stats_mutex at these locations, the statistics thread at those. *)
MainHolds  == {"count", "bytes", "latency", "unlock"}
StatsHolds == {"print", "unlock"}

Init ==
  /\ main = "context" /\ stats = "none" /\ running = TRUE /\ mutex = "free"
  /\ held = {} /\ waited = 0 /\ exit_code = 0 /\ clock = 1
  /\ messages_received = 0 /\ bytes_received = 0 /\ fragments_received = 0
  /\ polling_iterations = 0 /\ start_time = 0 /\ end_time = 0
  /\ last_stats_time = 0 /\ last_messages_received = 0 /\ last_bytes_received = 0
  /\ min_latency = 0 /\ max_latency = 0 /\ total_latency = 0
  /\ latency_stats = create_performance_stats /\ latency_ptr = "null"
  /\ batch = 0 /\ frag = [length |-> 0, receive |-> 0, latency |-> 0]

-----------------------------------------------------------------------------
(* main: opening the client.  Every call either succeeds, possibly leaving *)
(* an object open, or sends main to the close-down with exit code 1.       *)

Fails ==
  /\ main' = "close" /\ exit_code' = 1
  /\ UNCHANGED <<held, waited>>

Opens(object, next) ==
  /\ main' = next /\ held' = held \cup object
  /\ UNCHANGED <<waited, exit_code>>

SessionOnly == UNCHANGED <<stats, running, mutex, clock, counters,
  polling_iterations, start_time, end_time, last_vars, latency_vars,
  latency_ptr, batch, frag>>

aeron_context_init ==
  /\ main = "context" /\ (Opens({"context"}, "dir") \/ Fails) /\ SessionOnly

aeron_context_set_dir ==
  /\ main = "dir" /\ (Opens({}, "aeron") \/ Fails) /\ SessionOnly

aeron_init ==
  /\ main = "aeron" /\ (Opens({"aeron"}, "start") \/ Fails) /\ SessionOnly

aeron_start ==
  /\ main = "start" /\ (Opens({}, "add") \/ Fails) /\ SessionOnly

aeron_async_add_subscription ==
  /\ main = "add" /\ (Opens({}, "await") \/ Fails) /\ SessionOnly

(* The poll answers "ready", "error", or "not yet" and then, after a       *)
(* millisecond, main looks at running; "not yet" while running changes     *)
(* nothing.                                                                *)
aeron_async_add_subscription_poll ==
  /\ main = "await"
  /\ \/ Opens({"subscription"}, IF Ipc THEN "run" ELSE "connect")
     \/ Fails
  /\ SessionOnly

AwaitInterrupted ==
  /\ main = "await" /\ ~running /\ Fails /\ SessionOnly

(* wait_for_connection tests the connection before the deadline and never  *)
(* looks at running.  A timeout is only a warning: main goes on.           *)
wait_for_connection_done ==
  /\ main = "connect" /\ main' = "run"
  /\ UNCHANGED session_vars /\ SessionOnly

wait_for_connection_sleep ==
  /\ main = "connect" /\ waited <= WaitTimeout
  /\ waited' = waited + 1
  /\ UNCHANGED <<main, held, exit_code>> /\ SessionOnly

-----------------------------------------------------------------------------
(* run_subscriber: the statistics are initialised before the thread that   *)
(* reports them exists.                                                    *)

init_subscriber_stats ==
  /\ main = "run"
  /\ \/ /\ main' = "spawn"
        /\ latency_ptr' = "live" /\ latency_stats' = create_performance_stats
        /\ min_latency' = UINT64_MAX /\ max_latency' = 0
        /\ start_time' = clock /\ last_stats_time' = clock
        /\ UNCHANGED exit_code
     \/ /\ main' = "close" /\ exit_code' = 1
        /\ UNCHANGED <<latency_ptr, latency_stats, min_latency, max_latency,
                       start_time, last_stats_time>>
  /\ UNCHANGED <<stats, running, mutex, held, waited, clock, counters,
       polling_iterations, end_time, last_messages_received,
       last_bytes_received, total_latency, batch, frag>>

(* A failed pthread_create is only a warning too. *)
pthread_create ==
  /\ main = "spawn" /\ main' = "loop"
  /\ stats' \in {"test", "none"}
  /\ UNCHANGED <<running, mutex, session_vars, clock, counters,
       polling_iterations, start_time, end_time, last_vars, latency_vars,
       latency_ptr, batch, frag>>

MainOnly == UNCHANGED <<stats, session_vars, clock, start_time, last_vars,
                        latency_ptr>>

(* Mutant: the loop polls on until it has seen more than its target. *)
aeron_subscription_poll_PastTarget ==
  /\ main = "loop" /\ messages_received <= Target
  /\ polling_iterations < MaxPolls
  /\ polling_iterations' = polling_iterations + 1
  /\ \E n \in 0 .. FragmentLimit :
       batch' = n /\ main' = IF n = 0 THEN "loop" ELSE "enter"
  /\ UNCHANGED <<running, mutex, counters, end_time, latency_vars, frag>>
  /\ MainOnly

(* One turn of the receive loop up to the first handler call: the poll     *)
(* delivers up to fragment_limit fragments, nothing (main sleeps 1us), or  *)
(* an error.                                                               *)
aeron_subscription_poll ==
  /\ main = "loop" /\ running /\ messages_received < Target
  /\ polling_iterations < MaxPolls
  /\ polling_iterations' = polling_iterations + 1
  /\ \E n \in 0 .. FragmentLimit :
       batch' = n /\ main' = IF n = 0 THEN "loop" ELSE "enter"
  /\ UNCHANGED <<running, mutex, counters, end_time, latency_vars, frag>>
  /\ MainOnly

(* Mutant: the loop is left without telling the statistics thread. *)
LeaveLoop_KeepsRunning ==
  /\ main' = "join"
  /\ end_time' = IF end_time = 0 THEN clock ELSE end_time
  /\ UNCHANGED <<running, mutex, counters, latency_vars, batch, frag>>
  /\ MainOnly

(* After the loop, or on a poll error: the end time is now unless the      *)
(* handler already set it, and the statistics thread is told to stop.      *)
LeaveLoop ==
  /\ main' = "join"
  /\ end_time' = IF end_time = 0 THEN clock ELSE end_time
  /\ running' = FALSE
  /\ UNCHANGED <<mutex, counters, latency_vars, batch, frag>> /\ MainOnly

LoopEnds ==
  /\ main = "loop" /\ (~running \/ messages_received >= Target)
  /\ UNCHANGED polling_iterations
  /\ LeaveLoop

PollError ==
  /\ main = "loop" /\ running /\ messages_received < Target
  /\ polling_iterations < MaxPolls
  /\ polling_iterations' = polling_iterations + 1
  /\ LeaveLoop

-----------------------------------------------------------------------------
(* process_message_fragment *)

NextFragment ==
  /\ batch' = batch - 1
  /\ main' = IF batch = 1 THEN "loop" ELSE "enter"

(* Too short for a timestamp: skipped, though the poll has counted it.     *)
SkipShortFragment ==
  /\ main = "enter" /\ (\E length \in Lengths : length < TIMESTAMP_SIZE)
  /\ NextFragment
  /\ UNCHANGED <<running, mutex, counters, polling_iterations, end_time,
                 latency_vars, frag>>
  /\ MainOnly

TimestampFragment ==
  /\ main = "enter"
  /\ \E length \in Lengths, send_timestamp \in SendTimes :
       /\ length >= TIMESTAMP_SIZE
       /\ frag' = [length |-> length, receive |-> clock,
                   latency |-> Wrap(clock - send_timestamp)]
  /\ main' = "lock"
  /\ UNCHANGED <<running, mutex, counters, polling_iterations, end_time,
                 latency_vars, batch>>
  /\ MainOnly

(* Mutant: the handler updates g_stats without stats_mutex. *)
HandlerLock_NoMutex ==
  /\ main = "lock" /\ main' = "count"
  /\ UNCHANGED <<running, mutex, counters, polling_iterations, end_time,
                 latency_vars, batch, frag>>
  /\ MainOnly

HandlerLock ==
  /\ main = "lock" /\ mutex = "free"
  /\ main' = "count" /\ mutex' = "main"
  /\ UNCHANGED <<running, counters, polling_iterations, end_time,
                 latency_vars, batch, frag>>
  /\ MainOnly

CountMessage ==
  /\ main = "count" /\ main' = "bytes"
  /\ messages_received' = messages_received + 1
  /\ UNCHANGED <<running, mutex, bytes_received, fragments_received,
                 polling_iterations, end_time, latency_vars, batch, frag>>
  /\ MainOnly

CountBytes ==
  /\ main = "bytes" /\ main' = "latency"
  /\ bytes_received' = bytes_received + frag.length
  /\ fragments_received' = fragments_received + 1
  /\ UNCHANGED <<running, mutex, messages_received, polling_iterations,
                 end_time, latency_vars, batch, frag>>
  /\ MainOnly

CountLatency ==
  /\ main = "latency" /\ main' = "unlock"
  /\ min_latency' = Lower(frag.latency, min_latency)
  /\ max_latency' = Higher(frag.latency, max_latency)
  /\ total_latency' = Wrap(total_latency + frag.latency)
  /\ latency_stats' = IF latency_ptr = "live"
                        THEN record_latency(latency_stats, frag.latency)
                        ELSE latency_stats
  /\ UNCHANGED <<running, mutex, counters, polling_iterations, end_time, batch,
                 frag>>
  /\ MainOnly

HandlerUnlock ==
  /\ main = "unlock" /\ main' = "check" /\ mutex' = "free"
  /\ UNCHANGED <<running, counters, polling_iterations, end_time,
                 latency_vars, batch, frag>>
  /\ MainOnly

(* Mutant: the end time is that of the message that hit the target. *)
CheckTarget_Exactly ==
  /\ main = "check"
  /\ IF messages_received = Target
       THEN end_time' = frag.receive /\ running' = FALSE
       ELSE UNCHANGED <<end_time, running>>
  /\ NextFragment
  /\ UNCHANGED <<mutex, counters, polling_iterations, latency_vars, frag>>
  /\ MainOnly

(* Outside the mutex: the target test, which does not end the poll.        *)
CheckTarget ==
  /\ main = "check"
  /\ IF messages_received >= Target
       THEN end_time' = frag.receive /\ running' = FALSE
       ELSE UNCHANGED <<end_time, running>>
  /\ NextFragment
  /\ UNCHANGED <<mutex, counters, polling_iterations, latency_vars, frag>>
  /\ MainOnly

process_message_fragment ==
  \/ SkipShortFragment \/ TimestampFragment \/ HandlerLock \/ CountMessage
  \/ CountBytes \/ CountLatency \/ HandlerUnlock \/ CheckTarget

-----------------------------------------------------------------------------
(* run_subscriber and main: the way out *)

ShutdownOnly == UNCHANGED <<stats, running, clock, counters,
  polling_iterations, start_time, end_time, last_vars, latency_vars, batch,
  frag>>

(* Mutant: the final report does not wait for the statistics thread. *)
pthread_join_Detached ==
  /\ main = "join" /\ stats # "none" /\ main' = "final"
  /\ UNCHANGED <<mutex, session_vars, latency_ptr>> /\ ShutdownOnly

pthread_join ==
  /\ main = "join" /\ stats = "done" /\ main' = "final"
  /\ UNCHANGED <<mutex, session_vars, latency_ptr>> /\ ShutdownOnly

(* stats_tid was never written when pthread_create failed: the join reads  *)
(* an uninitialised pthread_t.  It may crash, return an error, or, since   *)
(* no fairness is assumed of this step, hang.                              *)
JoinUninitialised ==
  /\ main = "join" /\ stats = "none" /\ main' \in {"final", "crashed"}
  /\ UNCHANGED <<mutex, session_vars, latency_ptr>> /\ ShutdownOnly

(* The report itself changes nothing; it needs the mutex to be free. *)
print_final_stats ==
  /\ main = "final" /\ mutex = "free" /\ main' = "cleanup"
  /\ UNCHANGED <<mutex, session_vars, latency_ptr>> /\ ShutdownOnly

(* destroy_performance_stats frees nothing; the pointer is set to NULL and *)
(* run_subscriber returns ERROR_SUCCESS whatever ended the loop.           *)
cleanup_subscriber_stats ==
  /\ main = "cleanup" /\ main' = "close" /\ latency_ptr' = "dropped"
  /\ UNCHANGED <<mutex, session_vars>> /\ ShutdownOnly

(* Mutant: the client goes before the subscription that lives in it. *)
Innermost_ClientFirst == IF "aeron" \in held THEN "aeron"
                         ELSE IF "subscription" \in held THEN "subscription"
                         ELSE "context"

(* Every exit closes what is open, the innermost object first. *)
Innermost == IF "subscription" \in held THEN "subscription"
             ELSE IF "aeron" \in held THEN "aeron" ELSE "context"

CloseObjects ==
  /\ main = "close"
  /\ \/ /\ held # {} /\ held' = held \ {Innermost} /\ UNCHANGED main
     \/ /\ held = {} /\ main' = "exited" /\ UNCHANGED held
  /\ UNCHANGED <<mutex, waited, exit_code, latency_ptr>> /\ ShutdownOnly

-----------------------------------------------------------------------------
(* stats_thread.  Returning from main ends the process, this thread too.   *)

ProcessAlive == main \notin {"exited", "crashed"}

StatsOnly == UNCHANGED <<main, running, session_vars, clock, counters,
  polling_iterations, start_time, end_time, latency_vars, latency_ptr, batch,
  frag>>

(* while (running && messages_received < target): read without the mutex.  *)
StatsTest ==
  /\ ProcessAlive /\ stats = "test"
  /\ stats' = IF running /\ messages_received < Target THEN "sleep" ELSE "done"
  /\ UNCHANGED <<mutex, last_vars>> /\ StatsOnly

StatsSleep ==
  /\ ProcessAlive /\ stats = "sleep" /\ stats' = "awake"
  /\ UNCHANGED <<mutex, last_vars>> /\ StatsOnly

StatsAwake ==
  /\ ProcessAlive /\ stats = "awake"
  /\ stats' = IF running THEN "lock" ELSE "test"
  /\ UNCHANGED <<mutex, last_vars>> /\ StatsOnly

ReportLock ==
  /\ ProcessAlive /\ stats = "lock" /\ mutex = "free"
  /\ stats' = "print" /\ mutex' = "stats"
  /\ UNCHANGED last_vars /\ StatsOnly

print_realtime_stats ==
  /\ ProcessAlive /\ stats = "print" /\ stats' = "unlock"
  /\ last_stats_time' = clock
  /\ last_messages_received' = messages_received
  /\ last_bytes_received' = bytes_received
  /\ UNCHANGED mutex /\ StatsOnly

ReportUnlock ==
  /\ ProcessAlive /\ stats = "unlock" /\ stats' = "test" /\ mutex' = "free"
  /\ UNCHANGED last_vars /\ StatsOnly

stats_thread ==
  \/ StatsTest \/ StatsSleep \/ StatsAwake
  \/ ReportLock \/ print_realtime_stats \/ ReportUnlock

-----------------------------------------------------------------------------
(* The environment: SIGINT or SIGTERM at any moment (a second one changes  *)
(* nothing), and the wall clock.                                           *)

signal_handler ==
  /\ ProcessAlive /\ running /\ running' = FALSE
  /\ UNCHANGED <<main, stats, mutex, session_vars, clock, counters,
       polling_iterations, start_time, end_time, last_vars, latency_vars,
       latency_ptr, batch, frag>>

ClockChanges ==
  /\ ProcessAlive
  /\ \/ clock < MaxClock /\ clock' = clock + 1
     \/ ClockStepsBack /\ clock > 1 /\ clock' = clock - 1
  /\ UNCHANGED <<main, stats, running, mutex, session_vars, counters,
       polling_iterations, start_time, end_time, last_vars, latency_vars,
       latency_ptr, batch, frag>>

Terminated == ~ProcessAlive /\ UNCHANGED vars

Session ==
  \/ aeron_context_init \/ aeron_context_set_dir \/ aeron_init \/ aeron_start
  \/ aeron_async_add_subscription \/ aeron_async_add_subscription_poll
  \/ AwaitInterrupted \/ wait_for_connection_done \/ wait_for_connection_sleep

run_subscriber ==
  \/ init_subscriber_stats \/ pthread_create
  \/ aeron_subscription_poll \/ LoopEnds \/ PollError
  \/ process_message_fragment
  \/ pthread_join \/ print_final_stats \/ cleanup_subscriber_stats

MainThread == Session \/ run_subscriber \/ CloseObjects

Next ==
  \/ MainThread \/ JoinUninitialised \/ stats_thread
  \/ signal_handler \/ ClockChanges \/ Terminated

(* Both threads are scheduled; neither signals nor clock steps are owed.   *)
Fairness == WF_vars(MainThread) /\ WF_vars(stats_thread)

Spec == Init /\ [][Next]_vars

FairSpec == Spec /\ Fairness

-----------------------------------------------------------------------------
(* What makes the process correct. *)

(* Every variable keeps its C type; the latency of a fragment and the sums *)
(* kept of it stay unsigned 64-bit words whatever the sender's clock says  *)
(* (process_message_fragment, record_latency).                             *)
TypeOK ==
  /\ main \in MainLocations /\ stats \in StatsLocations
  /\ running \in BOOLEAN /\ mutex \in {"free", "main", "stats"}
  /\ held \subseteq {"context", "aeron", "subscription"}
  /\ waited \in 0 .. (WaitTimeout + 1) /\ exit_code \in {0, 1}
  /\ clock \in 1 .. MaxClock
  /\ messages_received \in Nat /\ bytes_received \in Nat
  /\ fragments_received \in Nat /\ polling_iterations \in 0 .. MaxPolls
  /\ start_time \in 0 .. MaxClock /\ end_time \in 0 .. MaxClock
  /\ last_stats_time \in 0 .. MaxClock
  /\ last_messages_received \in Nat /\ last_bytes_received \in Nat
  /\ min_latency \in U64 /\ max_latency \in U64 /\ total_latency \in U64
  /\ latency_stats \in PerformanceStats
  /\ latency_ptr \in {"null", "live", "dropped"}
  /\ batch \in 0 .. FragmentLimit
  /\ frag \in [length : Nat, receive : 0 .. MaxClock, latency : U64]

(* stats_mutex is held exactly by the thread inside a critical section.    *)
MutexHeld ==
  /\ main \in MainHolds <=> mutex = "main"
  /\ stats \in StatsHolds <=> mutex = "stats"

(* The copies of one statistic agree: process_message_fragment counts a    *)
(* message once in g_stats and once in *latency_stats.                     *)
CopiesAgree ==
  /\ messages_received = fragments_received
  /\ messages_received = latency_stats.message_count
  /\ total_latency = latency_stats.total_latency
  /\ max_latency = latency_stats.max_latency
  /\ latency_ptr = "live" => min_latency = latency_stats.min_latency
  /\ bytes_received >= TIMESTAMP_SIZE * messages_received
  /\ latency_stats.recorded_count = Lower(messages_received, DetailCount)

(* print_realtime_stats never reports half an update of the fragment       *)
(* handler: while it holds stats_mutex all copies agree, and the interval  *)
(* it subtracts (unsigned) since the previous report is not negative.      *)
ReportSeesWholeUpdates ==
  stats = "print" =>
    /\ CopiesAgree
    /\ last_messages_received <= messages_received
    /\ last_bytes_received <= bytes_received
    /\ ~ClockStepsBack => last_stats_time <= clock

(* A poll is not cut short when the target is reached: run_subscriber may  *)
(* count messages past it, but never a whole poll of them.                 *)
OvershootBounded == messages_received < Target + FragmentLimit

(* When print_final_stats runs, nobody else can change what it prints, the *)
(* two copies agree, the end time was taken, once the target was reached it*)
(* is that of the last message counted, and without a clock step the       *)
(* duration it subtracts covers every message.                             *)
FinalReportCoversRun ==
  main \in {"final", "cleanup"} =>
    /\ stats \in {"none", "done"} /\ mutex = "free" /\ ~running
    /\ CopiesAgree /\ latency_ptr = "live"
    /\ end_time # 0
    /\ messages_received >= Target => end_time = frag.receive
    /\ ~ClockStepsBack => start_time <= end_time /\ frag.receive <= end_time

(* No path through main, the failing and interrupted ones included,        *)
(* returns with an Aeron object open.                                      *)
NoLeakAtExit == main = "exited" => held = {}

(* What main closes is used by nobody any more: no object is closed before *)
(* the objects that live inside it, and nothing at all while the           *)
(* statistics thread or a poll still runs.                                 *)
CloseOrder ==
  [][ \A object \in held \ held' :
        /\ stats \in {"none", "done"} /\ mutex = "free"
        /\ object = "context" => held = {"context"}
        /\ object = "aeron" => "subscription" \notin held ]_vars

(* However main ends it has given every Aeron object back, each after the  *)
(* ones inside it and after the statistics thread (main).                  *)
ReleasesAll == []NoLeakAtExit /\ CloseOrder

(* Once a signal, the target or an error stops the run, the process        *)
(* returns from main; only the join of a thread that was never created may *)
(* keep it.                                                                *)
StopIsHonoured ==
  (~running \/ messages_received >= Target \/ main = "join")
    ~> (~ProcessAlive \/ (main = "join" /\ stats = "none"))

-----------------------------------------------------------------------------
(* The inductive strengthening of the invariants above. *)

Stamped == Handler \ {"enter"}   \* the handler has a timestamped fragment
InRun   == {"loop"} \cup Handler \cup Shutdown

(* Who is alive when: the statistics exist for the whole run, the thread   *)
(* is created once, and main passes the join only when it is over.         *)
Lifecycle ==
  /\ main \in {"spawn"} \cup InRun => latency_ptr = "live"
  /\ main \in Setup => stats = "none"
  /\ main \in Shutdown => ~running
  /\ main \in {"final", "cleanup"} \cup Ending => stats \in {"none", "done"}

(* A poll hands over at most FragmentLimit fragments and starts below the  *)
(* target, so what is still to come in it fits below Target+FragmentLimit. *)
BatchBound ==
  /\ main \in Handler => batch >= 1
  /\ main \in {"enter", "lock", "count"} =>
       messages_received + batch < Target + FragmentLimit
  /\ main \in {"bytes", "latency", "unlock", "check"} =>
       messages_received + batch <= Target + FragmentLimit
  /\ messages_received < Target + FragmentLimit

(* How far the copies of the statistics are apart at each point of the     *)
(* handler's critical section.                                             *)
Counting ==
  /\ messages_received =
       fragments_received + (IF main = "bytes" THEN 1 ELSE 0)
  /\ messages_received = latency_stats.message_count
       + (IF main \in {"bytes", "latency"} THEN 1 ELSE 0)
  /\ total_latency = latency_stats.total_latency
  /\ max_latency = latency_stats.max_latency
  /\ latency_ptr = "live" => min_latency = latency_stats.min_latency
  /\ bytes_received >= TIMESTAMP_SIZE * fragments_received
  /\ latency_stats.recorded_count
       = Lower(latency_stats.message_count, DetailCount)
  /\ main \in Stamped => frag.length >= TIMESTAMP_SIZE
  /\ main \in Setup => messages_received = 0 /\ total_latency = 0
  /\ last_messages_received <= messages_received
  /\ last_bytes_received <= bytes_received

(* When end_time is set, and how the times of a run are ordered while the  *)
(* wall clock is not set back.                                             *)
Timing ==
  /\ main \in {"join", "final", "cleanup"} => end_time # 0
  /\ main \in Setup \cup {"loop"} \cup Handler =>
       (end_time # 0 => messages_received >= Target)
  /\ main \in {"loop", "enter"} \cup Shutdown =>
       (messages_received >= Target => end_time = frag.receive /\ end_time # 0)
  /\ main \in Stamped => frag.receive # 0
  /\ ~ClockStepsBack =>
       /\ start_time <= clock /\ frag.receive <= clock
       /\ last_stats_time <= clock
       /\ main \in Stamped \/ messages_received > 0 => start_time <= frag.receive
       /\ main \in Setup => frag.receive = 0
       /\ main \in Shutdown => start_time <= end_time /\ frag.receive <= end_time

(* The inductive invariant of the process: types, the mutex discipline,    *)
(* and the lifecycle, batch, counting and timing facts above.              *)
Inv == TypeOK /\ MutexHeld /\ Lifecycle /\ BatchBound /\ Counting /\ Timing

(* README.md:269 promises complete error checks: the thread run_subscriber *)
(* joins is one it created.                                                *)
JoinsCreatedThread == main = "join" => stats # "none"

Plus(a, b) == a + b

(* record_latency's bucket loop files every message exactly once: outside  *)
(* the handler's critical section the histogram adds up to the messages.   *)
HistogramTotal ==
  main \notin MainHolds =>
    MapThenFoldSet(Plus, 0, LAMBDA i : latency_stats.latency_buckets[i],
                   LAMBDA S : CHOOSE i \in S : TRUE, Buckets)
      = messages_received

(* A table of three buckets, for model checking. *)
SmallLimits == <<1, 3, Word - 1>>
=============================================================================
