------------------------------- MODULE Agents -------------------------------
(***************************************************************************)
(* The two ways to run an agent, such as the client's conductor:           *)
(* AgentRunner, a thread of its own, and AgentInvoker, called by the       *)
(* application (aeron-lib/include/concurrent).  Every access to the flags  *)
(* of the runner, which several threads may start and close, is a step;    *)
(* the invoker is for one thread, so that each of its calls is one.        *)
(***************************************************************************)
EXTENDS Naturals, FiniteSets

CONSTANTS
  Threads,      \* the application's threads
  MaxCalls      \* bound: calls of start and close, and of the invoker

AgentsAssumption ==
  /\ IsFiniteSet(Threads) /\ MaxCalls \in Nat

VARIABLES
  m_isStarted, m_isRunning, m_isClosed,
  m_thread,     \* "none", or where the agent's thread is in run()
  joinable,     \* whether the member m_thread holds that thread
  at,           \* per thread of the application: where it is in start or close
  calls,        \* calls so far
  agent,        \* history: the calls of the agent: onStart, doWork, onClose
  raced,        \* history: whether a close came while a start was under way
  invoker,      \* the flags of the invoker
  invoked       \* history: the calls of the invoker's agent

runner == <<m_isStarted, m_isRunning, m_isClosed, m_thread, joinable, at, agent, raced>>
invoking == <<invoker, invoked>>
vars == <<runner, calls, invoking>>

Fresh == [started |-> 0, startFailed |-> FALSE, worked |-> FALSE, closed |-> 0, workedAfter |-> FALSE]

Init ==
  /\ m_isStarted = FALSE /\ m_isRunning = FALSE /\ m_isClosed = FALSE
  /\ m_thread = "none" /\ joinable = FALSE /\ raced = FALSE
  /\ at = [t \in Threads |-> "idle"] /\ calls = 0
  /\ agent = Fresh /\ invoked = Fresh
  /\ invoker = [m_isStarted |-> FALSE, m_isRunning |-> FALSE, m_isClosed |-> FALSE]

Goto(t, place) == at' = [at EXCEPT ![t] = place]

MayCall(t) ==
  /\ at[t] \in {"idle", "closed", "early"} /\ calls < MaxCalls
  /\ calls' = calls + 1

Starting == { t \in Threads : at[t] \in {"compare", "spawn", "assign"} }
Joining == { t \in Threads : at[t] \in {"joinable", "join"} }

-----------------------------------------------------------------------------
(***************************************************************************)
(* AgentRunner::start and close.                                           *)
(***************************************************************************)
start(t) ==
  /\ MayCall(t)
  /\ Goto(t, IF m_isClosed THEN "idle" ELSE "compare")   \* it throws once closed
  /\ UNCHANGED <<m_isStarted, m_isRunning, m_isClosed, m_thread, joinable, agent, raced, invoking>>

startCas_Closed(t) == \* Mutant: the flag that was read before is set
  /\ at[t] = "compare"
  /\ m_isStarted' = TRUE /\ Goto(t, "spawn")
  /\ UNCHANGED <<m_isRunning, m_isClosed, m_thread, joinable, agent, raced, calls, invoking>>

startCas(t) ==
  /\ at[t] = "compare"
  /\ m_isStarted' = TRUE
  /\ Goto(t, IF m_isStarted THEN "idle" ELSE "spawn")    \* it throws when started
  /\ UNCHANGED <<m_isRunning, m_isClosed, m_thread, joinable, agent, raced, calls, invoking>>

(* std::thread begins to run before m_thread is assigned; it throws when   *)
(* the system has no thread to give.                                       *)
spawn(t) ==
  /\ at[t] = "spawn"
  /\ \/ m_thread' = "begin" /\ Goto(t, "assign")
     \/ UNCHANGED m_thread /\ Goto(t, "idle")
  /\ UNCHANGED <<m_isStarted, m_isRunning, m_isClosed, joinable, agent, raced, calls, invoking>>

assign(t) ==
  /\ at[t] = "assign"
  /\ joinable' = TRUE /\ Goto(t, "idle")
  /\ UNCHANGED <<m_isStarted, m_isRunning, m_isClosed, m_thread, agent, raced, calls, invoking>>

(* Whoever loses the exchange returns at once: early, while the winner is  *)
(* still waiting for the thread.                                           *)
close(t) ==
  /\ MayCall(t)
  /\ m_isClosed' = TRUE
  /\ Goto(t, IF ~m_isClosed THEN "joinable" ELSE IF Joining # {} THEN "early" ELSE "closed")
  /\ raced' = (raced \/ (~m_isClosed /\ Starting # {}))
  /\ UNCHANGED <<m_isStarted, m_isRunning, m_thread, joinable, agent, invoking>>

isJoinable(t) ==
  /\ at[t] = "joinable"
  /\ Goto(t, IF joinable THEN "join" ELSE "closed")
  /\ UNCHANGED <<m_isStarted, m_isRunning, m_isClosed, m_thread, joinable, agent, raced, calls, invoking>>

join(t) ==
  /\ at[t] = "join" /\ m_thread = "ended"
  /\ joinable' = FALSE /\ Goto(t, "closed")
  /\ UNCHANGED <<m_isStarted, m_isRunning, m_isClosed, m_thread, agent, raced, calls, invoking>>

-----------------------------------------------------------------------------
(***************************************************************************)
(* AgentRunner::run.  A call of the agent may throw a SourcedException,    *)
(* which the exception handler gets.                                       *)
(***************************************************************************)
RunStep(from, to) ==
  /\ m_thread = from /\ m_thread' = to
  /\ UNCHANGED <<m_isStarted, m_isClosed, joinable, at, raced, calls, invoking>>

run == RunStep("begin", "start") /\ m_isRunning' = TRUE /\ UNCHANGED agent

onStart ==
  \E throws \in BOOLEAN :
    /\ RunStep("start", IF throws THEN "close" ELSE "loop")
    /\ agent' = [agent EXCEPT !.started = @ + 1, !.startFailed = throws]
    /\ UNCHANGED m_isRunning

loop == RunStep("loop", IF m_isClosed THEN "close" ELSE "work") /\ UNCHANGED <<m_isRunning, agent>>

(* Whether it throws or not, the loop goes on. *)
doWork ==
  /\ RunStep("work", "loop")
  /\ agent' = [agent EXCEPT !.worked = TRUE, !.workedAfter = @ \/ agent.closed > 0]
  /\ UNCHANGED m_isRunning

onClose ==
  /\ RunStep("close", "tidy")
  /\ agent' = [agent EXCEPT !.closed = @ + 1]
  /\ UNCHANGED m_isRunning

tidy == RunStep("tidy", "ended") /\ m_isRunning' = FALSE /\ UNCHANGED agent

Agent == run \/ onStart \/ loop \/ doWork \/ onClose \/ tidy

-----------------------------------------------------------------------------
(***************************************************************************)
(* AgentInvoker.                                                           *)
(***************************************************************************)
Invoking == calls < MaxCalls /\ calls' = calls + 1 /\ UNCHANGED runner

CloseFlags(flags) == [flags EXCEPT !.m_isRunning = FALSE, !.m_isClosed = TRUE]
OnClose(flags, a) == IF flags.m_isClosed THEN a ELSE [a EXCEPT !.closed = @ + 1]

(* A start that throws closes the invoker. *)
invokerStart ==
  /\ Invoking
  /\ \E throws \in BOOLEAN :
       LET flags == [invoker EXCEPT !.m_isStarted = TRUE]
           called == [invoked EXCEPT !.started = @ + 1, !.startFailed = throws]
       IN  IF invoker.m_isStarted THEN UNCHANGED invoking
           ELSE IF throws THEN invoker' = CloseFlags(flags) /\ invoked' = OnClose(flags, called)
           ELSE invoker' = [flags EXCEPT !.m_isRunning = TRUE] /\ invoked' = called

invoke ==
  /\ Invoking /\ invoker.m_isRunning
  /\ invoked' = [invoked EXCEPT !.worked = TRUE, !.workedAfter = @ \/ invoked.closed > 0]
  /\ UNCHANGED invoker

invokerClose ==
  /\ Invoking /\ invoker' = IF invoker.m_isClosed THEN invoker ELSE CloseFlags(invoker)
  /\ invoked' = OnClose(invoker, invoked)

Runner ==
  \/ \E t \in Threads :
       start(t) \/ startCas(t) \/ spawn(t) \/ assign(t) \/ close(t) \/ isJoinable(t) \/ join(t)
  \/ Agent

Next == Runner \/ invokerStart \/ invoke \/ invokerClose

Spec == Init /\ [][Next]_vars

-----------------------------------------------------------------------------
(* The agent is started and closed at most once, by whatever calls of      *)
(* start and close there were, and does no work after a failed start or    *)
(* after its close (AgentRunner).                                          *)
AgentOnce ==
  /\ agent.started <= 1 /\ agent.closed <= agent.started
  /\ agent.startFailed => ~agent.worked
  /\ ~agent.workedAfter

(* The clean up of the agent "will only be performed once", whether a      *)
(* failed start or the application closes it (AgentInvoker::close).        *)
InvokerClosesOnce == invoked.closed <= 1

(* A close that is not called while another close waits, on a runner that  *)
(* was not closed while a start was under way, returns after the agent's   *)
(* thread: the one that joined it, and every later one.                    *)
CloseWaits ==
  ~raced => ((\E t \in Threads : at[t] = "closed") => m_thread \in {"none", "ended"})

(* "This method waits for the thread to join": whichever close returned,   *)
(* on a runner that was not closed while a start was under way, the        *)
(* agent's thread has ended.  Not a property of the code.                  *)
EveryCloseWaits ==
  ~raced => ((\E t \in Threads : at[t] \in {"closed", "early"}) => m_thread \in {"none", "ended"})

(* "If not successfully started or after closed then this method will      *)
(* return without invoking the {@link Agent}" (AgentInvoker::invoke).      *)
NoWorkAfterClose == ~invoked.workedAfter
=============================================================================
