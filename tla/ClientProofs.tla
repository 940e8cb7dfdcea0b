---------------------------- MODULE ClientProofs ----------------------------
(***************************************************************************)
(* Proofs about the parts of MCClient for every value of its constants.    *)
(* Each part has an inductive invariant, which holds while that part       *)
(* moves; the lemmas of the first section reduce a step of the suite to a  *)
(* step of the part.                                                       *)
(***************************************************************************)
EXTENDS MCClient, FiniteSetTheorems, TLAPS

(* A behaviour of the suite is one of the part that was chosen: Init. *)
LEMMA InitOfPart ==
  ASSUME Init
  PROVE  /\ part = "registry" => R!Init
         /\ part = "publication" => P!Init
         /\ part = "image" => I!Init
         /\ part = "runner" => S!Init
         /\ part = "timeouts" => T!Init
         /\ part = "error log" => E!Init
BY DEF Init

(* The part never changes, and every step is a step of that part. *)
LEMMA StepOfPart ==
  ASSUME [Next]_vars
  PROVE  /\ part' = part
         /\ part = "registry" => [R!Next]_(R!vars)
         /\ part = "publication" => [P!Next]_(P!vars)
         /\ part = "image" => [I!Next]_(I!vars)
         /\ part = "runner" => [S!Next]_(S!vars)
         /\ part = "timeouts" => [T!Next]_(T!vars)
         /\ part = "error log" => [E!Next]_(E!vars)
<1>1. CASE UNCHANGED vars
  BY <1>1 DEF vars, R!vars, P!vars, I!vars, S!vars, S!runner,
              S!invoking, T!vars, E!vars
<1>2. CASE Next
  BY <1>2 DEF Next, Registry, Publication, ImageObject, Runner, Timeouts, Errors,
              StayAbsent
<1>3. QED
  BY <1>1, <1>2

-----------------------------------------------------------------------------
(***************************************************************************)
(* The agent runner and the agent invoker.                                 *)
(***************************************************************************)
AgentRecord ==
  [started : Nat, startFailed : BOOLEAN, worked : BOOLEAN, closed : Nat, workedAfter : BOOLEAN]

Places == {"idle", "compare", "spawn", "assign", "joinable", "join", "closed", "early"}
RunPlaces == {"none", "begin", "start", "loop", "work", "close", "tidy", "ended"}

RunnerType ==
  /\ m_isStarted \in BOOLEAN /\ m_isClosed \in BOOLEAN /\ joinable \in BOOLEAN
  /\ raced \in BOOLEAN
  /\ m_thread \in RunPlaces /\ at \in [Threads -> Places]
  /\ agent \in AgentRecord

(* The winner of the compare-and-set is the only one to make the thread,   *)
(* and makes it once.                                                      *)
OneSpawner ==
  /\ \A t \in Threads : at[t] \in {"spawn", "assign"} => m_isStarted
  /\ \A t \in Threads : at[t] = "spawn" => m_thread = "none"
  /\ \A t, u \in Threads :
       at[t] \in {"spawn", "assign"} /\ at[u] \in {"spawn", "assign"} => t = u
  /\ m_thread # "none" => m_isStarted

(* One close wins the exchange and joins.  Unless a start was under way    *)
(* then, none is afterwards; a thread that runs can be joined as soon as   *)
(* its start has returned; and whoever is not in the join finds the thread *)
(* of a closed runner gone.                                                *)
Joins(t) == at[t] \in {"joinable", "join"}

OneJoin ==
  /\ \A t \in Threads : at[t] \in {"joinable", "join", "closed", "early"} => m_isClosed
  /\ \A t, u \in Threads : Joins(t) /\ Joins(u) => t = u
  /\ m_thread \notin {"none", "ended"} /\ (\A t \in Threads : at[t] # "assign") => joinable
  /\ ~raced /\ m_isClosed =>
       /\ \A t \in Threads : at[t] \notin {"compare", "spawn", "assign"}
       /\ \A t \in Threads : at[t] = "closed" => m_thread \in {"none", "ended"}
       /\ (\A t \in Threads : ~Joins(t)) => m_thread \in {"none", "ended"}

(* What the agent was called with follows from where its thread is. *)
AgentAsThread ==
  /\ agent.started = IF m_thread \in {"none", "begin", "start"} THEN 0 ELSE 1
  /\ agent.closed = IF m_thread \in {"tidy", "ended"} THEN 1 ELSE 0
  /\ agent.startFailed => ~agent.worked /\ m_thread \in {"close", "tidy", "ended"}
  /\ agent.worked => m_thread \notin {"none", "begin", "start"}
  /\ ~agent.workedAfter

InvokerFlags == [m_isStarted : BOOLEAN, m_isRunning : BOOLEAN, m_isClosed : BOOLEAN]

(* The invoker has closed its agent exactly if it is closed. *)
InvokerClosed ==
  /\ invoker \in InvokerFlags
  /\ invoked \in AgentRecord
  /\ invoked.closed = IF invoker.m_isClosed THEN 1 ELSE 0

RunnerInv == RunnerType /\ OneSpawner /\ OneJoin /\ AgentAsThread /\ InvokerClosed

(* The fields of the agent's history after a call of onStart. *)
LEMMA OnStartCalled ==
  ASSUME NEW a \in AgentRecord, NEW b,
         \/ b = [a EXCEPT !.started = @ + 1, !.startFailed = TRUE]
         \/ b = [a EXCEPT !.started = @ + 1, !.startFailed = FALSE]
  PROVE  /\ b \in AgentRecord /\ b.started = a.started + 1 /\ b.closed = a.closed
         /\ b = [a EXCEPT !.started = @ + 1, !.startFailed = FALSE] => ~b.startFailed
         /\ b.worked <=> a.worked
         /\ b.workedAfter <=> a.workedAfter
<1>1. b \in AgentRecord
  <2> DEFINE n == a.started + 1
  <2>0. n \in Nat
    BY DEF AgentRecord
  <2> HIDE DEF n
  <2>1. CASE b = [a EXCEPT !.started = n, !.startFailed = TRUE]
    BY ONLY <2>0, <2>1, a \in AgentRecord DEF AgentRecord
  <2>2. CASE b = [a EXCEPT !.started = n, !.startFailed = FALSE]
    BY ONLY <2>0, <2>2, a \in AgentRecord DEF AgentRecord
  <2>3. QED
    BY <2>1, <2>2 DEF n
<1>2. b.started = a.started + 1 /\ b.closed = a.closed
  BY DEF AgentRecord
<1>3. ASSUME b = [a EXCEPT !.started = @ + 1, !.startFailed = FALSE] PROVE ~b.startFailed
  BY ONLY <1>3, a \in AgentRecord DEF AgentRecord
<1>4. (b.worked <=> a.worked) /\ (b.workedAfter <=> a.workedAfter)
  BY DEF AgentRecord
<1>5. QED
  BY <1>1, <1>2, <1>3, <1>4

(* The same after a call of doWork. *)
LEMMA DoWorkCalled ==
  ASSUME NEW a \in AgentRecord, NEW b,
         b = [a EXCEPT !.worked = TRUE, !.workedAfter = @ \/ a.closed > 0]
  PROVE  /\ b \in AgentRecord /\ b.started = a.started /\ b.closed = a.closed
         /\ b.startFailed <=> a.startFailed
         /\ b.worked
         /\ b.workedAfter <=> (a.workedAfter \/ a.closed > 0)
<1> DEFINE late == a.closed > 0
<1>1. late \in BOOLEAN /\ b = [a EXCEPT !.worked = TRUE, !.workedAfter = @ \/ late]
  OBVIOUS
<1> HIDE DEF late
<1>2. b \in AgentRecord
  BY <1>1 DEF AgentRecord
<1>3. b.started = a.started /\ b.closed = a.closed /\ b.worked
  BY DEF AgentRecord
<1>4. b.startFailed <=> a.startFailed
  BY DEF AgentRecord
<1>5. b.workedAfter <=> (a.workedAfter \/ late)
  BY <1>1 DEF AgentRecord
<1>6. QED
  BY <1>2, <1>3, <1>4, <1>5 DEF late

(* Closing the invoker, by itself or after a start that threw: its agent   *)
(* is closed unless it was.                                                *)
LEMMA InvokerCloses ==
  ASSUME NEW flags \in InvokerFlags, NEW a \in AgentRecord,
         a.closed = IF flags.m_isClosed THEN 1 ELSE 0
  PROVE  /\ S!CloseFlags(flags) \in InvokerFlags
         /\ S!CloseFlags(flags).m_isClosed
         /\ S!OnClose(flags, a) \in AgentRecord
         /\ S!OnClose(flags, a).closed = 1
<1>1. S!CloseFlags(flags) \in InvokerFlags
  BY DEF InvokerFlags, S!CloseFlags
<1>2. S!CloseFlags(flags).m_isClosed
  BY DEF InvokerFlags, S!CloseFlags
<1>3. S!OnClose(flags, a) \in AgentRecord /\ S!OnClose(flags, a).closed = 1
  BY DEF AgentRecord, S!OnClose
<1>4. QED
  BY <1>1, <1>2, <1>3

LEMMA RunnerInit == S!Init => RunnerInv
<1> USE DEF S!Init, S!Fresh
<1> SUFFICES ASSUME S!Init PROVE RunnerInv
  OBVIOUS
<1>1. RunnerType
  BY DEF RunnerType, Places, RunPlaces, AgentRecord
<1>2. OneSpawner /\ OneJoin /\ AgentAsThread
  BY DEF OneSpawner, OneJoin, Joins, AgentAsThread
<1>3. InvokerClosed
  BY DEF InvokerClosed, InvokerFlags, AgentRecord
<1>4. QED
  BY <1>1, <1>2, <1>3 DEF RunnerInv

LEMMA RunnerStep ==
  ASSUME RunnerInv, [S!Next]_(S!vars)
  PROVE  RunnerInv'
<1> USE DEF RunnerInv, RunnerType, Places, RunPlaces, OneSpawner, OneJoin, Joins, AgentAsThread,
            InvokerClosed, S!Goto, S!MayCall, S!RunStep, S!invoking, S!runner
<1>0. agent \in AgentRecord /\ invoked \in AgentRecord /\ invoker \in InvokerFlags
  OBVIOUS
<1>1. ASSUME NEW t \in Threads, S!start(t) PROVE RunnerInv'
  BY <1>1 DEF S!start
<1>2. ASSUME NEW t \in Threads, S!startCas(t) PROVE RunnerInv'
  <2>1. /\ at \in [Threads -> Places] /\ at'[t] \in {"idle", "spawn"} /\ at[t] = "compare"
        /\ at'[t] = "spawn" => ~m_isStarted
        /\ \A u \in Threads : u # t => at'[u] = at[u]
        /\ m_isStarted'
        /\ UNCHANGED <<m_isRunning, m_isClosed, m_thread, joinable, agent, raced, calls, S!invoking>>
    BY <1>2 DEF S!startCas
  <2>2. RunnerType'
    BY <1>2, <2>1 DEF S!startCas
  <2>3. OneSpawner'
    BY <2>1, SMTT(30)
  <2>4. OneJoin'
    BY <2>1, SMTT(30)
  <2>5. QED
    BY <2>1, <2>2, <2>3, <2>4
<1>3. ASSUME NEW t \in Threads, S!spawn(t) \/ S!assign(t) PROVE RunnerInv'
  <2>1. ASSUME S!spawn(t) PROVE RunnerInv'
    <3>1. /\ at[t] = "spawn" /\ at'[t] \in {"assign", "idle"}
          /\ IF at'[t] = "assign" THEN m_thread' = "begin" ELSE UNCHANGED m_thread
          /\ \A u \in Threads : u # t => at'[u] = at[u]
          /\ at' \in [Threads -> Places]
          /\ UNCHANGED <<m_isStarted, m_isRunning, m_isClosed, joinable, agent, raced, calls, S!invoking>>
      <4>1. CASE m_thread' = "begin" /\ at' = [at EXCEPT ![t] = "assign"]
        BY <2>1, <4>1 DEF S!spawn
      <4>2. CASE UNCHANGED m_thread /\ at' = [at EXCEPT ![t] = "idle"]
        BY <2>1, <4>2 DEF S!spawn
      <4>3. QED
        BY <2>1, <4>1, <4>2 DEF S!spawn
    <3>2. RunnerType'
      BY <3>1
    <3>3. OneSpawner' /\ AgentAsThread'
      BY <3>1, SMTT(30)
    <3>4. OneJoin'
      BY <3>1, SMTT(30)
    <3>5. QED
      BY <3>1, <3>2, <3>3, <3>4
  <2>2. ASSUME S!assign(t) PROVE RunnerInv'
    BY <2>2 DEF S!assign
  <2>3. QED
    BY <1>3, <2>1, <2>2
<1>4. ASSUME NEW t \in Threads, S!close(t) PROVE RunnerInv'
  BY <1>4 DEF S!close, S!Starting, S!Joining
<1>5. ASSUME NEW t \in Threads, S!isJoinable(t) \/ S!join(t) PROVE RunnerInv'
  BY <1>5 DEF S!isJoinable, S!join
<1>6. CASE S!run
  BY <1>6 DEF S!run
<1>7. CASE S!onStart
  <2>1. /\ m_thread = "start" /\ UNCHANGED <<m_isStarted, m_isClosed, joinable, raced, at, S!invoking>>
        /\ \/ /\ m_thread' = "close"
              /\ agent' = [agent EXCEPT !.started = @ + 1, !.startFailed = TRUE]
           \/ /\ m_thread' = "loop"
              /\ agent' = [agent EXCEPT !.started = @ + 1, !.startFailed = FALSE]
    BY <1>7 DEF S!onStart
  <2>2. /\ agent' \in AgentRecord /\ agent'.started = agent.started + 1
        /\ agent'.closed = agent.closed /\ (agent'.startFailed => m_thread' = "close")
        /\ (agent'.worked <=> agent.worked) /\ (agent'.workedAfter <=> agent.workedAfter)
    BY ONLY <1>0, <2>1, OnStartCalled
  <2>3. QED
    BY <2>1, <2>2
<1>8. CASE S!loop
  BY <1>8 DEF S!loop
<1>9. CASE S!doWork
  <2>1. /\ agent' \in AgentRecord /\ agent'.started = agent.started
        /\ agent'.closed = agent.closed /\ (agent'.startFailed <=> agent.startFailed)
        /\ agent'.worked /\ (agent'.workedAfter <=> (agent.workedAfter \/ agent.closed > 0))
    BY ONLY <1>0, <1>9, DoWorkCalled DEF S!doWork
  <2>2. QED
    BY <1>9, <2>1 DEF S!doWork
<1>10. CASE S!onClose
  BY <1>10 DEF S!onClose, AgentRecord
<1>11. CASE S!tidy
  BY <1>11 DEF S!tidy
<1>12. CASE S!invokerStart
  <2> DEFINE flags == [invoker EXCEPT !.m_isStarted = TRUE]
             failed == [invoked EXCEPT !.started = @ + 1, !.startFailed = TRUE]
             started == [invoked EXCEPT !.started = @ + 1, !.startFailed = FALSE]
             running == [flags EXCEPT !.m_isRunning = TRUE]
  <2>1. \/ UNCHANGED S!invoking
        \/ invoker' = S!CloseFlags(flags) /\ invoked' = S!OnClose(flags, failed)
        \/ invoker' = running /\ invoked' = started
    BY <1>12 DEF S!invokerStart
  <2>2. /\ failed \in AgentRecord /\ failed.closed = invoked.closed
        /\ started \in AgentRecord /\ started.closed = invoked.closed
    BY ONLY <1>0, OnStartCalled
  <2>3. /\ flags \in InvokerFlags /\ (flags.m_isClosed <=> invoker.m_isClosed)
        /\ running \in InvokerFlags /\ (running.m_isClosed <=> invoker.m_isClosed)
    BY DEF InvokerFlags
  <2> HIDE DEF flags, failed, started, running
  <2>4. InvokerClosed'
    BY <2>1, <2>2, <2>3, InvokerCloses
  <2>5. QED
    BY <1>12, <2>4 DEF S!invokerStart, S!Invoking
<1>13. CASE S!invoke
  <2>1. invoked' \in AgentRecord /\ invoked'.closed = invoked.closed
    BY ONLY <1>0, <1>13, DoWorkCalled DEF S!invoke
  <2>2. QED
    BY <1>13, <2>1 DEF S!invoke, S!Invoking
<1>14. CASE S!invokerClose
  <2>1. InvokerClosed'
    BY <1>14, InvokerCloses DEF S!invokerClose, S!OnClose
  <2>2. QED
    BY <1>14, <2>1 DEF S!invokerClose, S!Invoking
<1>15. CASE UNCHANGED S!vars
  BY <1>15 DEF S!vars
<1>16. QED
  BY <1>1, <1>2, <1>3, <1>4, <1>5, <1>6, <1>7, <1>8, <1>9, <1>10, <1>11, <1>12, <1>13, <1>14,
     <1>15 DEF S!Next, S!Runner, S!Agent

(* An agent is started and closed at most once by any threads that start   *)
(* and close its runner or invoker, in any order; and if no start was      *)
(* under way when the runner was closed, a close returns after the agent's *)
(* thread, unless it is called while the first close still waits: for      *)
(* every set of threads and any number of calls (AgentRunner,              *)
(* AgentInvoker).                                                          *)
THEOREM AgentsCloseOnceHolds == Spec => []AgentsCloseOnce
<1> DEFINE IInv == part = "runner" => RunnerInv
<1>1. Init => IInv
  BY InitOfPart, RunnerInit
<1>2. IInv /\ [Next]_vars => IInv'
  BY StepOfPart, RunnerStep
<1>3. IInv => AgentsCloseOnce
  <2>1. RunnerInv => S!AgentOnce /\ S!InvokerClosesOnce
    BY DEF RunnerInv, AgentAsThread, InvokerClosed, S!AgentOnce, S!InvokerClosesOnce
  <2>2. RunnerInv => S!CloseWaits
    BY DEF RunnerInv, OneJoin, S!CloseWaits
  <2>3. QED
    BY <2>1, <2>2 DEF AgentsCloseOnce
<1>4. QED
  BY <1>1, <1>2, <1>3, PTL DEF Spec

-----------------------------------------------------------------------------
(***************************************************************************)
(* The timeouts of the conductor.                                          *)
(***************************************************************************)
(* The cap of the ages lies above every time that is compared with one. *)
LEMMA CapAbove == T!Cap \in Nat /\ ClientGap < T!Cap
<1> DEFINE Times == {InterServiceTimeout, DriverTimeout, KeepaliveTimeout, ResourceTimeout,
                     ClientLiveness, ClientGap, DriverGap}
<1>1. Times \subseteq Nat
  BY SuiteAssumption DEF T!TimeoutAssumption
<1>2. \E x \in Times : \A y \in Times : y <= x
  BY <1>1
<1>3. T!Largest(Times) \in Times /\ \A y \in Times : y <= T!Largest(Times)
  BY <1>2 DEF T!Largest
<1>4. T!Largest(Times) \in Nat /\ ClientGap <= T!Largest(Times) /\ ClientGap \in Nat
  BY <1>1, <1>3
<1>5. T!Cap = 1 + T!Largest(Times)
  BY DEF T!Cap
<1>6. QED
  BY <1>4, <1>5

TimeoutsType ==
  /\ lastDoWork \in Nat /\ lastKeepalive \in Nat /\ driverKeepalive \in Nat
  /\ driver \in {"up", "crashed", "stopped"}
  /\ heartbeat \in [state : {"none", "live", "freed"}, age : Nat]

(* Both sides run in time, so that the client's heartbeat is never as old  *)
(* as the driver allows: it was written at the last keepalive, which was   *)
(* due at the latest when the last duty cycle came.  Its counter is then   *)
(* never freed, and only the end of the driver closes the client.          *)
Ages ==
  /\ lastDoWork <= ClientGap /\ (driver = "up" => driverKeepalive <= DriverGap)
  /\ lastKeepalive <= KeepaliveTimeout + lastDoWork
  /\ heartbeat.state # "freed"
  /\ heartbeat.state = "live" => heartbeat.age <= lastKeepalive

Found == m_heartbeatTimestamp => heartbeat.state = "live"

InTime == Ages /\ Found

OnlyDriver ==
  /\ closed => driver # "up" /\ errors = {"driver"}
  /\ ~closed => errors = {}

TimeoutsInv == TimeoutsType /\ (T!Timely => InTime /\ OnlyDriver)

LEMMA TimeoutsInit == T!Init => TimeoutsInv
BY SuiteAssumption
   DEF T!TimeoutAssumption, T!Init, TimeoutsInv, TimeoutsType, InTime, Ages, Found, OnlyDriver

LEMMA TimeConstants ==
  /\ InterServiceTimeout \in Nat /\ DriverTimeout \in Nat /\ KeepaliveTimeout \in Nat
  /\ ClientLiveness \in Nat /\ ClientGap \in Nat /\ DriverGap \in Nat
BY SuiteAssumption DEF T!TimeoutAssumption

(* An age grows by one up to the cap, and keeps the order of two ages. *)
LEMMA Ageing ==
  ASSUME NEW m \in Nat, NEW n \in Nat
  PROVE  /\ T!Older(n) \in Nat /\ T!Older(n) <= n + 1
         /\ m <= n => T!Older(m) <= T!Older(n)
         /\ n < ClientGap => T!Older(n) = n + 1
BY CapAbove, TimeConstants DEF T!Older

LEMMA TickStep ==
  ASSUME TimeoutsType, T!tick
  PROVE  TimeoutsType' /\ (T!Timely /\ InTime => InTime')
<1> USE DEF TimeoutsType, T!tick
<1>1. /\ lastDoWork' = lastDoWork + 1 /\ lastDoWork < ClientGap
      /\ lastKeepalive' \in Nat /\ lastKeepalive' <= lastKeepalive + 1
      /\ driverKeepalive' \in Nat /\ driverKeepalive' <= driverKeepalive + 1
  BY Ageing
<1>2. /\ heartbeat'.state = heartbeat.state
      /\ heartbeat' \in [state : {"none", "live", "freed"}, age : Nat]
      /\ heartbeat.age <= lastKeepalive => heartbeat'.age <= lastKeepalive'
  <2>1. T!Older(heartbeat.age) \in Nat
    BY Ageing
  <2>2. heartbeat.age <= lastKeepalive => T!Older(heartbeat.age) <= T!Older(lastKeepalive)
    BY Ageing
  <2>3. QED
    BY <2>1, <2>2
<1>3. TimeoutsType'
  BY ONLY <1>1, <1>2, TimeoutsType, UNCHANGED driver
<1>4. ASSUME Ages PROVE Ages'
  BY <1>1, <1>2, <1>4, TimeConstants DEF Ages
<1>5. ASSUME Found PROVE Found'
  BY <1>2, <1>5 DEF Found
<1>6. QED
  BY <1>3, <1>4, <1>5 DEF InTime

LEMMA CheckStep ==
  ASSUME TimeoutsType, T!onHeartbeatCheckTimeouts
  PROVE  TimeoutsType' /\ (T!Timely /\ InTime => InTime')
<1> USE DEF TimeoutsType, T!onHeartbeatCheckTimeouts
<1>1. /\ lastDoWork' = 0 /\ UNCHANGED <<driver, driverKeepalive>>
      /\ \/ ~T!keepaliveDue /\ UNCHANGED <<heartbeat, m_heartbeatTimestamp, lastKeepalive>>
         \/ T!keepaliveDue /\ T!heartbeatTimestamp /\ lastKeepalive' = 0
  OBVIOUS
<1>2. /\ heartbeat' \in [state : {"none", "live", "freed"}, age : Nat]
      /\ heartbeat'.state = heartbeat.state
      /\ T!keepaliveDue /\ heartbeat.state = "live" => heartbeat'.age = 0
      /\ ~T!keepaliveDue => heartbeat' = heartbeat
  BY <1>1 DEF T!heartbeatTimestamp
<1>3. m_heartbeatTimestamp' => m_heartbeatTimestamp \/ heartbeat.state = "live"
  BY <1>1 DEF T!heartbeatTimestamp
<1>4. TimeoutsType'
  BY ONLY <1>1, <1>2, TimeoutsType
<1>5. ASSUME Ages PROVE Ages'
  BY ONLY <1>1, <1>2, <1>5, TimeoutsType, TimeConstants DEF Ages, T!keepaliveDue
<1>6. ASSUME Found PROVE Found'
  BY <1>2, <1>3, <1>6 DEF Found
<1>7. QED
  BY <1>4, <1>5, <1>6 DEF InTime

LEMMA TimeoutsStep ==
  ASSUME TimeoutsInv, [T!Next]_(T!vars)
  PROVE  TimeoutsInv'
<1> USE DEF TimeoutsInv
<1>1. CASE T!tick
  BY <1>1, TickStep DEF T!tick, OnlyDriver
<1>2. CASE T!driverWorks
  <2>1. ASSUME T!Timely PROVE heartbeat.state = "live" => ~(heartbeat.age > ClientLiveness)
    <3>1. TimeoutsType /\ Ages
      BY <2>1 DEF InTime
    <3>2. QED
      BY ONLY <2>1, <3>1, TimeConstants DEF TimeoutsType, Ages, T!Timely
  <2>2. TimeoutsType'
    BY <1>2 DEF T!driverWorks, TimeoutsType
  <2>3. ASSUME T!Timely PROVE Ages'
    BY <1>2, <2>1, <2>3, TimeConstants DEF T!driverWorks, TimeoutsType, InTime, Ages
  <2>4. ASSUME T!Timely PROVE Found'
    BY <1>2, <2>1, <2>4 DEF T!driverWorks, InTime, Ages, Found
  <2>5. QED
    BY <1>2, <2>2, <2>3, <2>4 DEF T!driverWorks, InTime, OnlyDriver
<1>3. CASE T!driverEnds
  BY <1>3, CapAbove DEF T!driverEnds, TimeoutsType, InTime, Ages, Found, OnlyDriver
<1>4. CASE T!onHeartbeatCheckTimeouts
  <2>1. ASSUME T!Timely
        PROVE  ~T!serviceTimedOut /\ ~T!heartbeatLost /\ (T!driverTimedOut => driver # "up")
    <3>1. ~T!heartbeatLost
      BY <2>1 DEF InTime, Found, T!heartbeatLost
    <3>2. TimeoutsType /\ Ages
      BY <2>1 DEF InTime
    <3>3. ~T!serviceTimedOut /\ (T!driverTimedOut => driver # "up")
      BY ONLY <2>1, <3>2, TimeConstants
         DEF TimeoutsType, Ages, T!Timely, T!serviceTimedOut, T!driverTimedOut
    <3>4. QED
      BY <3>1, <3>3
  <2>2. ASSUME T!Timely PROVE OnlyDriver'
    BY <1>4, <2>1, <2>2 DEF T!onHeartbeatCheckTimeouts, OnlyDriver
  <2>3. QED
    BY <1>4, <2>2, CheckStep
<1>5. CASE UNCHANGED T!vars
  BY <1>5 DEF T!vars, TimeoutsType, InTime, Ages, Found, OnlyDriver
<1>6. QED
  BY <1>1, <1>2, <1>3, <1>4, <1>5 DEF T!Next

(* For every setting of the timeouts in which the gaps fit: the client is  *)
(* closed only because its driver ended (onHeartbeatCheckTimeouts).        *)
THEOREM ClosedMeansDriverEndedHolds == Spec => []ClosedMeansDriverEnded
<1> DEFINE IInv == part = "timeouts" => TimeoutsInv
<1>1. Init => IInv
  BY InitOfPart, TimeoutsInit
<1>2. IInv /\ [Next]_vars => IInv'
  BY StepOfPart, TimeoutsStep
<1>3. IInv => ClosedMeansDriverEnded
  BY DEF ClosedMeansDriverEnded, T!ClosedMeansDriverEnded, TimeoutsInv, OnlyDriver
<1>4. QED
  BY <1>1, <1>2, <1>3, PTL DEF Spec

-----------------------------------------------------------------------------
(***************************************************************************)
(* The publication of several threads, any of which may close it at any    *)
(* time.                                                                   *)
(***************************************************************************)
InLibrary(t) == call[t].pc \in {"library", "returned"}
Closing(t) == call[t].pc \in {"ask", "clear"}

CallRecord ==
  [pc : {"library", "returned"}, op : P!Members, p : {"null", "handle"}, answer : Int,
   limit : Int, late : BOOLEAN, overlap : BOOLEAN]

CloseRecord ==
  [pc : {"ask", "clear"}, op : {"close"}, p : {"null", "handle"}, overlap : BOOLEAN]

HandleType ==
  /\ m_publication \in {"null", "handle"} /\ library \in {"open", "closing", "freed"}
  /\ closes \in Nat /\ overlapped \in BOOLEAN
  /\ DOMAIN call = Threads /\ DOMAIN result = Threads
  /\ \A t \in Threads : call[t] = P!Idle \/ call[t] \in CallRecord \/ call[t] \in CloseRecord

(* A call knows of the closes that it met, and two closes that met are on  *)
(* record.                                                                 *)
Overlaps ==
  /\ \A t, u \in Threads : Closing(u) /\ t # u /\ call[t] # P!Idle => call[t].overlap
  /\ \A t, u \in Threads : Closing(t) /\ Closing(u) /\ t # u => overlapped

(* The pointer is good until a close was taken, and is cleared before that *)
(* close ends: whoever holds a pointer that is no longer good met it.      *)
PointerGood ==
  /\ closes = 0 <=> library = "open"
  /\ closes = 0 => /\ m_publication = "handle"
                   /\ \A t \in Threads : Closing(t) => call[t].pc = "ask" /\ call[t].p = "handle"
  /\ closes > 0 /\ m_publication = "handle" =>
       destroyed # "no" \/ \E t \in Threads : call[t].pc = "clear"
  /\ \A t \in Threads :
       call[t].pc \in {"library", "ask"} /\ call[t].p = "handle" /\ ~call[t].overlap => closes = 0
  /\ \A t \in Threads : call[t].pc = "ask" /\ call[t].p = "handle" => closes = 0 \/ overlapped
  /\ closes > 1 => overlapped

Destroyed ==
  /\ destroyed # "no" => \A t \in Threads : call[t] = P!Idle
  /\ destroyed = "taken" => closes >= 1
  /\ destroyed = "refused" => closes = 0
  /\ "alone" \notin badUse

(* A call that began after the close works with the cleared pointer. *)
LateCalls ==
  \A t \in Threads : InLibrary(t) /\ call[t].late =>
    /\ m_publication = "null" /\ call[t].p = "null" /\ call[t].limit = P!None
    /\ call[t].pc = "returned" /\ call[t].op \notin P!Raw =>
         call[t].answer = P!AERON_PUBLICATION_ERROR

HandleInv == HandleType /\ Overlaps /\ PointerGood /\ Destroyed /\ LateCalls

LEMMA HandleInit == P!Init => HandleInv
<1> SUFFICES ASSUME P!Init PROVE HandleInv
  OBVIOUS
<1>1. \A t \in Threads : call[t] = P!Idle /\ call[t].pc = "idle"
  BY DEF P!Init, P!Idle
<1>2. HandleType
  BY <1>1 DEF P!Init, HandleType
<1>3. Overlaps /\ LateCalls
  BY <1>1 DEF Overlaps, LateCalls, InLibrary, Closing
<1>4. PointerGood /\ Destroyed
  BY <1>1 DEF P!Init, PointerGood, Destroyed, Closing
<1>5. QED
  BY <1>2, <1>3, <1>4 DEF HandleInv

(* What becomes of the record of a call. *)
LEMMA CallBegun ==
  ASSUME NEW op \in P!Members, NEW p \in {"null", "handle"}, NEW l, NEW o, NEW c,
         l \in BOOLEAN, o \in BOOLEAN,
         c = [pc |-> "library", op |-> op, p |-> p, answer |-> P!None, limit |-> P!None,
              late |-> l, overlap |-> o]
  PROVE  /\ c \in CallRecord /\ c.pc = "library" /\ c.p = p /\ c.limit = P!None
         /\ c.late <=> l
         /\ c.overlap <=> o
<1>1. P!None \in Int
  BY DEF P!None
<1>2. c \in CallRecord
  BY <1>1 DEF CallRecord
<1>3. c.pc = "library" /\ c.p = p /\ c.limit = P!None /\ c.late = l /\ c.overlap = o
  OBVIOUS
<1>4. QED
  BY <1>2, <1>3

(* The library answers a cleared pointer with an error, except where it    *)
(* only looks at the pointer.                                              *)
LEMMA AnswersType ==
  ASSUME NEW t \in Threads, call[t] \in CallRecord, NEW r \in P!Answers(t)
  PROVE  r \in Int /\ (call[t].p = "null" /\ call[t].op \notin P!Raw => r = P!AERON_PUBLICATION_ERROR)
BY SuiteAssumption
   DEF P!HandleAssumption, P!Answers, P!AERON_PUBLICATION_ERROR, P!BACK_PRESSURED,
       P!PUBLICATION_CLOSED

LEMMA CheckedType ==
  ASSUME NEW t \in Threads, NEW r \in Int
  PROVE  /\ P!checked(t, r) \in Int
         /\ r = P!AERON_PUBLICATION_ERROR /\ m_publication = "null"
              /\ call[t].op # "localSocketAddresses" => P!checked(t, r) = P!PUBLICATION_CLOSED
BY DEF P!checked, P!AERON_PUBLICATION_ERROR, P!PUBLICATION_CLOSED, P!THROWN

LEMMA CallChanges ==
  ASSUME DOMAIN call = Threads, NEW t \in Threads, NEW c, call' = [call EXCEPT ![t] = c]
  PROVE  /\ DOMAIN call' = Threads /\ call'[t] = c
         /\ \A u \in Threads : u # t => call'[u] = call[u]
OBVIOUS

LEMMA HandleStep ==
  ASSUME HandleInv, [P!Next]_(P!vars)
  PROVE  HandleInv'
<1> USE DEF HandleInv, HandleType, InLibrary, Closing
<1>0. /\ P!Idle.pc = "idle"
      /\ \A c \in CallRecord : c.pc \in {"library", "returned"} /\ c.p \in {"null", "handle"}
      /\ \A c \in CloseRecord : c.pc \in {"ask", "clear"} /\ c.p \in {"null", "handle"}
  BY DEF P!Idle, CallRecord, CloseRecord
<1>1. ASSUME NEW t \in Threads, NEW op \in P!Members, P!begin(t, op) PROVE HandleInv'
  <2> DEFINE l == m_publication = "null"
             o == \E u \in Threads : P!Closing(u)
             c == [pc |-> "library", op |-> op, p |-> m_publication, answer |-> P!None,
                   limit |-> P!None, late |-> l, overlap |-> o]
  <2>1. l \in BOOLEAN /\ o \in BOOLEAN /\ call' = [call EXCEPT ![t] = c]
    BY <1>1 DEF P!begin
  <2>2. (l <=> m_publication = "null") /\ (o <=> \E u \in Threads : Closing(u))
    BY DEF P!Closing
  <2> HIDE DEF l, o
  <2>3. /\ c \in CallRecord /\ c.pc = "library" /\ c.p = m_publication /\ c.limit = P!None
        /\ (c.late <=> l) /\ (c.overlap <=> o)
    BY <2>1, CallBegun
  <2> HIDE DEF c
  <2>4. /\ DOMAIN call' = Threads /\ call'[t] = c /\ call[t] = P!Idle
        /\ \A u \in Threads : u # t => call'[u] = call[u]
    BY <1>1, <2>1, CallChanges DEF P!begin
  <2>5. HandleType' /\ Overlaps'
    <3>1. HandleType'
      BY <1>1, <2>3, <2>4 DEF P!begin
    <3>2. ASSUME NEW u \in Threads PROVE Closing(u)' <=> (Closing(u) /\ u # t)
      BY <1>0, <2>3, <2>4
    <3>3. ASSUME NEW u \in Threads, NEW v \in Threads, Closing(u)', v # u, call'[v] # P!Idle
          PROVE  call'[v].overlap
      <4>1. CASE v = t
        BY <2>2, <2>3, <2>4, <3>2, <3>3, <4>1
      <4>2. CASE v # t
        BY <2>4, <3>2, <3>3, <4>2 DEF Overlaps
      <4>3. QED
        BY <4>1, <4>2
    <3>4. UNCHANGED overlapped
      BY <1>1 DEF P!begin
    <3>5. \A u, v \in Threads : Closing(u)' /\ Closing(v)' /\ u # v => overlapped'
      BY <3>2, <3>4 DEF Overlaps
    <3>6. QED
      BY <3>1, <3>3, <3>5 DEF Overlaps
  <2>6. PointerGood' /\ Destroyed'
    BY <1>0, <1>1, <2>2, <2>3, <2>4 DEF P!begin, PointerGood, Destroyed
  <2>7. LateCalls'
    BY <1>1, <2>2, <2>3, <2>4 DEF P!begin, LateCalls
  <2>8. QED
    BY <2>5, <2>6, <2>7
<1>2. ASSUME NEW t \in Threads, P!constants(t) PROVE HandleInv'
  BY <1>2 DEF P!constants, Overlaps, PointerGood, Destroyed, LateCalls
<1>3. ASSUME NEW t \in Threads, P!libraryAnswers(t) PROVE HandleInv'
  <2>1. PICK r \in P!Answers(t) :
          call' = [call EXCEPT ![t] = [call[t] EXCEPT !.pc = "returned", !.answer = r]]
    BY <1>3 DEF P!libraryAnswers
  <2>2. call[t] \in CallRecord /\ call[t].pc = "library"
    BY <1>0, <1>3 DEF P!libraryAnswers
  <2>3. r \in Int /\ (call[t].p = "null" /\ call[t].op \notin P!Raw => r = P!AERON_PUBLICATION_ERROR)
    BY <2>2, AnswersType
  <2>4. PICK d : d = [call[t] EXCEPT !.pc = "returned", !.answer = r]
    OBVIOUS
  <2>5. /\ d \in CallRecord /\ d.pc = "returned" /\ d.answer = r /\ d.p = call[t].p
        /\ d.op = call[t].op /\ d.limit = call[t].limit
        /\ (d.late <=> call[t].late) /\ (d.overlap <=> call[t].overlap)
    <3>1. r \in Int
      BY <2>3
    <3>2. d \in CallRecord
      BY ONLY <2>2, <2>4, <3>1 DEF CallRecord
    <3>3. /\ d.pc = "returned" /\ d.answer = r /\ d.p = call[t].p /\ d.op = call[t].op
          /\ d.limit = call[t].limit
      BY ONLY <2>2, <2>4, <3>1 DEF CallRecord
    <3>4. (d.late <=> call[t].late) /\ (d.overlap <=> call[t].overlap)
      BY ONLY <2>2, <2>4 DEF CallRecord
    <3>5. QED
      BY <3>2, <3>3, <3>4
  <2>6. /\ DOMAIN call' = Threads /\ call'[t] = d
        /\ \A u \in Threads : u # t => call'[u] = call[u]
    BY <2>1, <2>4, CallChanges
  <2>7. HandleType' /\ Overlaps' /\ PointerGood'
    BY <1>0, <1>3, <2>2, <2>5, <2>6 DEF P!libraryAnswers, Overlaps, PointerGood
  <2>8. Destroyed'
    <3>1. call[t].p = "handle" /\ ~call[t].overlap => library # "freed"
      BY <2>2 DEF PointerGood
    <3>2. destroyed = "no"
      BY <1>0, <2>2 DEF Destroyed
    <3>3. "alone" \notin badUse'
      BY <1>3, <3>1 DEF P!libraryAnswers, P!Uses, Destroyed
    <3>4. QED
      BY <1>3, <3>2, <3>3 DEF P!libraryAnswers, Destroyed
  <2>10. LateCalls'
    <3>1. UNCHANGED m_publication
      BY <1>3 DEF P!libraryAnswers
    <3>2. QED
      BY ONLY LateCalls, <2>2, <2>3, <2>5, <2>6, <3>1 DEF LateCalls, InLibrary
  <2>11. QED
    BY <2>7, <2>8, <2>10
<1>4. ASSUME NEW t \in Threads, P!returns(t) PROVE HandleInv'
  <2>1. call[t] \in CallRecord /\ call[t].pc = "returned"
    BY <1>0, <1>4 DEF P!returns
  <2>2. PICK r : r = P!checked(t, call[t].answer)
    OBVIOUS
  <2>3. /\ r \in Int
        /\ call[t].answer = P!AERON_PUBLICATION_ERROR /\ m_publication = "null"
             /\ call[t].op # "localSocketAddresses" => r = P!PUBLICATION_CLOSED
    BY <2>1, <2>2, CheckedType DEF CallRecord
  <2>4. PICK d : d = [call[t] EXCEPT !.pc = "library", !.p = m_publication,
                                     !.answer = P!None, !.limit = r]
    OBVIOUS
  <2>5. /\ d \in CallRecord /\ d.pc = "library" /\ d.p = m_publication /\ d.limit = r
        /\ (d.late <=> call[t].late) /\ (d.overlap <=> call[t].overlap)
    <3>1. r \in Int /\ P!None \in Int /\ m_publication \in {"null", "handle"}
      BY <2>3 DEF P!None
    <3>2. d \in CallRecord
      BY ONLY <2>1, <2>4, <3>1 DEF CallRecord
    <3>3. d.pc = "library" /\ d.p = m_publication /\ d.limit = r
      BY ONLY <2>1, <2>4, <3>1 DEF CallRecord
    <3>4. (d.late <=> call[t].late) /\ (d.overlap <=> call[t].overlap)
      BY ONLY <2>1, <2>4 DEF CallRecord
    <3>5. QED
      BY <3>2, <3>3, <3>4
  <2>6. /\ DOMAIN call' = Threads /\ DOMAIN result' = Threads
        /\ \A u \in Threads : u # t => call'[u] = call[u]
        /\ \/ call'[t] = P!Idle
           \/ /\ call'[t] = d /\ call[t].op = "availableWindow" /\ call[t].limit = P!None
              /\ r # P!PUBLICATION_CLOSED
    BY <1>4, <2>2, <2>4 DEF P!returns, P!availableWindow
  <2>7. HandleType' /\ Overlaps' /\ Destroyed'
    BY <1>0, <1>4, <2>1, <2>5, <2>6 DEF P!returns, Overlaps, Destroyed
  <2>8. PointerGood'
    <3>1. call'[t] = d /\ m_publication = "handle" /\ ~d.overlap => closes = 0
      BY <1>0, <2>1, <2>5 DEF PointerGood, Overlaps, Destroyed
    <3>2. QED
      BY <1>0, <1>4, <2>1, <2>5, <2>6, <3>1 DEF P!returns, PointerGood
  <2>9. LateCalls'
    BY <1>0, <1>4, <2>1, <2>3, <2>5, <2>6 DEF P!returns, LateCalls, P!Raw
  <2>10. QED
    BY <2>7, <2>8, <2>9
<1>5. ASSUME NEW t \in Threads, P!close(t) PROVE HandleInv'
  <2> DEFINE o == \E v \in Threads : P!Closing(v)
             c == [pc |-> "ask", op |-> "close", p |-> m_publication, overlap |-> o]
  <2>1. o \in BOOLEAN /\ (o <=> \E v \in Threads : Closing(v))
    BY DEF P!Closing
  <2>2. /\ call' = [u \in Threads |-> IF u = t THEN c ELSE IF call[u] = P!Idle THEN P!Idle
                                        ELSE [call[u] EXCEPT !.overlap = TRUE]]
        /\ overlapped' = (overlapped \/ o) /\ call[t] = P!Idle /\ destroyed = "no"
        /\ DOMAIN result' = Threads
        /\ UNCHANGED <<m_publication, library, closes, claim, destroyed, badUse>>
    BY <1>5 DEF P!close
  <2> HIDE DEF o
  <2>3. c \in CloseRecord /\ c.pc = "ask" /\ c.p = m_publication /\ (c.overlap <=> o)
    BY <2>1 DEF CloseRecord
  <2>4. /\ DOMAIN call' = Threads /\ call'[t] = c
        /\ \A u \in Threads : u # t /\ call[u] = P!Idle => call'[u] = P!Idle
        /\ \A u \in Threads : u # t /\ call[u] # P!Idle =>
             call'[u] = [call[u] EXCEPT !.overlap = TRUE]
    BY <2>2
  <2> HIDE DEF c
  <2>5. ASSUME NEW u \in Threads, u # t, call[u] \in CallRecord
        PROVE  /\ call'[u] \in CallRecord /\ call'[u].pc = call[u].pc /\ call'[u].p = call[u].p
               /\ call'[u].op = call[u].op /\ call'[u].answer = call[u].answer
               /\ call'[u].limit = call[u].limit /\ (call'[u].late <=> call[u].late)
               /\ call'[u].overlap
    <3>1. call'[u] = [call[u] EXCEPT !.overlap = TRUE]
      BY <1>0, <2>4, <2>5
    <3>2. call'[u] \in CallRecord
      BY ONLY <2>5, <3>1 DEF CallRecord
    <3>3. /\ call'[u].pc = call[u].pc /\ call'[u].p = call[u].p /\ call'[u].op = call[u].op
          /\ call'[u].answer = call[u].answer /\ call'[u].limit = call[u].limit
      BY ONLY <2>5, <3>1 DEF CallRecord
    <3>4. (call'[u].late <=> call[u].late) /\ call'[u].overlap
      BY ONLY <2>5, <3>1 DEF CallRecord
    <3>5. QED
      BY <3>2, <3>3, <3>4
  <2>6. ASSUME NEW u \in Threads, u # t, call[u] \in CloseRecord
        PROVE  /\ call'[u] \in CloseRecord /\ call'[u].pc = call[u].pc /\ call'[u].p = call[u].p
               /\ call'[u].overlap
    <3>1. call'[u] = [call[u] EXCEPT !.overlap = TRUE]
      BY <1>0, <2>4, <2>6
    <3>2. call'[u] \in CloseRecord /\ call'[u].pc = call[u].pc /\ call'[u].p = call[u].p
      BY ONLY <2>6, <3>1 DEF CloseRecord
    <3>3. call'[u].overlap
      BY ONLY <2>6, <3>1 DEF CloseRecord
    <3>4. QED
      BY <3>2, <3>3
  <2>7. \A u \in Threads : u # t => call'[u].pc = call[u].pc
    BY <2>4, <2>5, <2>6
  <2>8. HandleType' /\ Overlaps'
    <3>1. HandleType'
      BY <2>1, <2>2, <2>3, <2>4, <2>5, <2>6
    <3>2. Overlaps'
      BY <1>0, <2>1, <2>2, <2>3, <2>4, <2>5, <2>6, <2>7 DEF Overlaps
    <3>3. QED
      BY <3>1, <3>2
  <2>9. PointerGood'
    <3>1. \A u \in Threads : u # t /\ call[u] # P!Idle => call'[u].p = call[u].p /\ call'[u].overlap
      BY <2>5, <2>6
    <3>2. m_publication = "handle" /\ closes # 0 => o
      BY <2>1, <2>2 DEF PointerGood
    <3>3. ASSUME NEW u \in Threads, u # t, call[u] = P!Idle
          PROVE  call'[u].pc = "idle"
      BY <1>0, <2>7, <3>3
    <3>4. \A u \in Threads : u # t /\ call'[u].pc # "idle" =>
            call'[u].p = call[u].p /\ call'[u].overlap /\ call'[u].pc = call[u].pc
      BY <2>7, <3>1, <3>3
    <3>5. /\ UNCHANGED <<closes, library, m_publication, destroyed>>
          /\ call'[t] = c /\ c.pc = "ask" /\ c.p = m_publication /\ (c.overlap <=> o)
      BY <2>2, <2>3, <2>4
    <3>6. \A u \in Threads : call'[u].pc = "clear" <=> call[u].pc = "clear" /\ u # t
      BY <2>7, <3>5
    <3>7. call[t].pc # "clear"
      BY <1>0, <2>2
    <3>8. closes = 0 => \A u \in Threads : Closing(u)' => call'[u].pc = "ask" /\ call'[u].p = "handle"
      BY <3>4, <3>5 DEF PointerGood
    <3>9. \A u \in Threads :
            call'[u].pc = "ask" /\ call'[u].p = "handle" => closes = 0 \/ overlapped'
      BY <2>2, <3>2, <3>4, <3>5 DEF PointerGood
    <3>10. QED
      BY <2>2, <3>2, <3>4, <3>5, <3>6, <3>7, <3>8, <3>9 DEF PointerGood
  <2>10. Destroyed'
    BY <2>2 DEF Destroyed
  <2>11. LateCalls'
    <3>1. ASSUME NEW u \in Threads, InLibrary(u)' PROVE u # t /\ call[u] \in CallRecord
      BY <1>0, <2>3, <2>4, <2>7, <3>1
    <3>2. QED
      BY <2>2, <2>5, <3>1 DEF LateCalls
  <2>12. QED
    BY <2>8, <2>9, <2>10, <2>11
<1>6. ASSUME NEW t \in Threads, P!ask(t) PROVE HandleInv'
  <2>1. call[t] \in CloseRecord /\ call[t].pc = "ask"
    BY <1>0, <1>6 DEF P!ask
  <2>2. destroyed = "no"
    BY <1>0, <2>1 DEF Destroyed
  <2>3. "alone" \notin badUse'
    BY <1>6, <2>1 DEF P!ask, P!Uses, PointerGood, Destroyed
  <2>4. CASE P!Taken(call[t].p) /\ call' = [call EXCEPT ![t].pc = "clear"] /\ UNCHANGED result
    <3> DEFINE d == [call[t] EXCEPT !.pc = "clear"]
    <3>1. d \in CloseRecord /\ d.pc = "clear" /\ d.p = call[t].p /\ (d.overlap <=> call[t].overlap)
      BY <2>1 DEF CloseRecord
    <3>2. /\ DOMAIN call' = Threads /\ call'[t] = d
          /\ \A u \in Threads : u # t => call'[u] = call[u]
      BY <2>4, CallChanges
    <3> HIDE DEF d
    <3>3. HandleType' /\ Overlaps'
      BY <1>0, <1>6, <2>1, <2>4, <3>1, <3>2 DEF P!ask, P!Taken, Overlaps
    <3>4. closes' >= 1 /\ library' # "open" /\ (closes' > 1 => overlapped)
      BY <1>6, <2>1, <2>4 DEF P!ask, P!Taken, PointerGood
    <3>5. \A u \in Threads : u # t /\ call[u].pc \in {"library", "ask"} => call[u].overlap
      BY <1>0, <2>1 DEF Overlaps
    <3>6. \A u \in Threads : u # t /\ call[u].pc = "ask" => overlapped
      BY <2>1 DEF Overlaps
    <3>7. PointerGood'
      BY <1>6, <3>1, <3>2, <3>3, <3>4, <3>5, <3>6 DEF P!ask, PointerGood
    <3>8. Destroyed' /\ LateCalls'
      BY <1>0, <1>6, <2>2, <2>3, <3>1, <3>2 DEF P!ask, Destroyed, LateCalls
    <3>9. QED
      BY <3>3, <3>7, <3>8
  <2>5. CASE /\ P!Refused(call[t].p)
             /\ call' = [call EXCEPT ![t] = P!Idle] /\ result' = [result EXCEPT ![t] = P!THROWN]
    <3>1. /\ DOMAIN call' = Threads /\ call'[t] = P!Idle
          /\ \A u \in Threads : u # t => call'[u] = call[u]
      BY <2>5, CallChanges
    <3>2. HandleType' /\ Overlaps'
      BY <1>0, <1>6, <2>5, <3>1 DEF P!ask, P!Refused, Overlaps
    <3>3. PointerGood'
      BY <1>0, <1>6, <2>1, <2>5, <3>1 DEF P!ask, P!Refused, PointerGood
    <3>4. Destroyed' /\ LateCalls'
      BY <1>0, <1>6, <2>2, <2>3, <3>1 DEF P!ask, Destroyed, LateCalls
    <3>5. QED
      BY <3>2, <3>3, <3>4
  <2>6. QED
    BY <1>6, <2>4, <2>5 DEF P!ask
<1>7. ASSUME NEW t \in Threads, P!clear(t) PROVE HandleInv'
  <2>1. /\ DOMAIN call' = Threads /\ call'[t] = P!Idle
        /\ \A u \in Threads : u # t => call'[u] = call[u]
    BY <1>7, CallChanges DEF P!clear
  <2>2. closes # 0
    BY <1>7 DEF P!clear, PointerGood
  <2>3. QED
    BY <1>0, <1>7, <2>1, <2>2 DEF P!clear, Overlaps, PointerGood, Destroyed, LateCalls
<1>8. CASE P!destructor
  <2>1. m_publication = "handle" => closes = 0 /\ library = "open"
    BY <1>0, <1>8 DEF P!destructor, PointerGood
  <2>2. m_publication = "null" => closes > 0
    BY DEF PointerGood
  <2>3. "alone" \notin badUse'
    BY <1>8, <2>1 DEF P!destructor, Destroyed
  <2>4. HandleType' /\ Overlaps'
    BY <1>8, <2>1 DEF P!destructor, P!Taken, P!Refused, Overlaps
  <2>5. PointerGood' /\ Destroyed'
    BY <1>0, <1>8, <2>1, <2>2, <2>3 DEF P!destructor, P!Taken, P!Refused, PointerGood, Destroyed
  <2>6. LateCalls'
    BY <1>8 DEF P!destructor, LateCalls
  <2>7. QED
    BY <2>4, <2>5, <2>6
<1>9. CASE P!freed
  BY <1>9 DEF P!freed, Overlaps, PointerGood, Destroyed, LateCalls
<1>10. CASE UNCHANGED P!vars
  BY <1>10 DEF P!vars, Overlaps, PointerGood, Destroyed, LateCalls
<1>11. QED
  BY <1>1, <1>2, <1>3, <1>4, <1>5, <1>6, <1>7, <1>8, <1>9, <1>10 DEF P!Next, P!revoke

(* A call that began after the close and returns says "closed". *)
LEMMA HandleReports ==
  ASSUME HandleInv, [P!Next]_(P!vars)
  PROVE  P!ClosedIsReported
<1> SUFFICES ASSUME NEW t \in Threads, call[t].pc = "returned", call[t].late, call'[t] = P!Idle,
                    call[t].op \notin P!Raw \cup {"localSocketAddresses"}
             PROVE  result'[t] = P!PUBLICATION_CLOSED
  BY DEF P!ClosedIsReported
<1> USE DEF HandleInv, HandleType, InLibrary, Closing
<1>1. call'[t] # call[t] /\ call[t] \in CallRecord /\ call[t].pc = "returned"
  BY DEF P!Idle, CloseRecord
<1>2. /\ m_publication = "null" /\ call[t].limit = P!None
      /\ call[t].answer = P!AERON_PUBLICATION_ERROR
  BY DEF LateCalls
<1>3. P!checked(t, call[t].answer) = P!PUBLICATION_CLOSED
  BY <1>2 DEF P!checked
<1>4. ASSUME P!returns(t) PROVE result'[t] = P!PUBLICATION_CLOSED
  BY <1>2, <1>3, <1>4 DEF P!returns, P!availableWindow
<1>5. P!returns(t)
  <2>1. ASSUME NEW u \in Threads, NEW c, call' = [call EXCEPT ![u] = c] PROVE u = t
    BY <1>1, <2>1
  <2>2. ASSUME NEW u \in Threads, NEW op \in P!Members, P!begin(u, op) PROVE FALSE
    BY <1>1, <2>1, <2>2 DEF P!begin, P!Idle
  <2>3. ASSUME NEW u \in Threads, P!libraryAnswers(u) PROVE FALSE
    BY <1>1, <2>1, <2>3 DEF P!libraryAnswers
  <2>4. ASSUME NEW u \in Threads, P!close(u) \/ P!ask(u) \/ P!clear(u) PROVE FALSE
    <3>1. P!close(u) => FALSE
      <4>1. P!close(u) => u # t /\ call'[t] = [call[t] EXCEPT !.overlap = TRUE]
        BY <1>1 DEF P!close, P!Idle
      <4>2. [call[t] EXCEPT !.overlap = TRUE].pc = "returned"
        BY <1>1 DEF CallRecord
      <4>3. QED
        BY <4>1, <4>2 DEF P!Idle
    <3>2. P!ask(u) => u = t /\ FALSE
      BY <1>1, <2>1 DEF P!ask, P!Idle
    <3>3. P!clear(u) => FALSE
      BY <1>1, <2>1 DEF P!clear, P!Idle
    <3>4. QED
      BY <2>4, <3>1, <3>2, <3>3
  <2>5. ASSUME NEW u \in Threads, P!returns(u) PROVE u = t
    BY <1>1, <2>5 DEF P!returns, P!availableWindow
  <2>6. ASSUME UNCHANGED call PROVE FALSE
    BY <1>1, <2>6
  <2>7. QED
    BY <2>2, <2>3, <2>4, <2>5, <2>6
       DEF P!Next, P!vars, P!constants, P!revoke, P!destructor, P!freed
<1>6. QED
  BY <1>4, <1>5

-----------------------------------------------------------------------------
(***************************************************************************)
(* The objects that hold an image.                                         *)
(***************************************************************************)
Holders(i) == { o \in Objects : object[o] = i }

CallType ==
  {I!Idle} \cup [op : {"poll"}, object : Objects]
           \cup [op : {"createImage", "created"}, image : Images]
           \cup [op : {"list"}, images : SUBSET Images, todo : SUBSET Images]
           \cup [op : {"pollAll"}, images : SUBSET Images]

Creating(i) == call.op \in {"createImage", "created"} /\ call.image = i
InList(i) == call.op \in {"list", "pollAll"} /\ i \in call.images

ImageType ==
  /\ phase \in [Images -> {"new", "available", "unavailable", "freed"}]
  /\ refs \in [Images -> Int] /\ object \in [Objects -> Images \cup {I!None}]
  /\ call \in CallType /\ copied \in [Images -> Nat]

(* Of the images none of whose objects was copied, the count is exact. *)
Retained ==
  \A i \in Images :
    copied[i] = 0 => refs[i] = Cardinality(Holders(i)) + (IF Creating(i) THEN 1 ELSE 0)

(* No such image is freed that an object or the call under way still has. *)
Alive ==
  /\ used.phase = "freed" => used.image \in Images /\ copied[used.image] > 0
  /\ \A o \in Objects : object[o] # I!None /\ phase[object[o]] = "freed" => copied[object[o]] > 0
  /\ \A i \in Images : Creating(i) /\ phase[i] = "freed" => copied[i] > 0
  /\ \A i \in Images : InList(i) => phase[i] # "freed"
  /\ call.op = "poll" => object[call.object] # I!None
  /\ call.op = "list" => call.todo \subseteq call.images

ImageInv == ImageType /\ Retained /\ Alive

(* The fields of a call tell its kind apart. *)
LEMMA CallFields ==
  ASSUME call \in CallType, NEW i
  PROVE  /\ I!InCall(i) <=> InList(i)
         /\ ("image" \in DOMAIN call /\ call.image = i) <=> Creating(i)
<1>1. CASE call = I!Idle
  BY <1>1 DEF I!Idle, I!InCall, InList, Creating
<1>2. CASE call \in [op : {"poll"}, object : Objects]
  BY <1>2 DEF I!InCall, InList, Creating
<1>3. CASE call \in [op : {"createImage", "created"}, image : Images]
  BY <1>3 DEF I!InCall, InList, Creating
<1>4. CASE call \in [op : {"list"}, images : SUBSET Images, todo : SUBSET Images]
  BY <1>4 DEF I!InCall, InList, Creating
<1>5. CASE call \in [op : {"pollAll"}, images : SUBSET Images]
  BY <1>5 DEF I!InCall, InList, Creating
<1>6. QED
  BY <1>1, <1>2, <1>3, <1>4, <1>5 DEF CallType

LEMMA ImageConstants == IsFiniteSet(Objects) /\ I!None \notin Images
<1>1. I!IsFiniteSet(Objects) /\ I!None \notin Images
  BY SuiteAssumption DEF I!HandleAssumption, I!None
<1>2. QED
  BY <1>1 DEF I!IsFiniteSet, IsFiniteSet

LEMMA HoldersFinite ==
  ASSUME NEW i
  PROVE  IsFiniteSet(Holders(i)) /\ Cardinality(Holders(i)) \in Nat
BY ImageConstants, FS_Subset, FS_CardinalityType DEF Holders

(* An object that takes or gives up an image changes its holders by one,   *)
(* and those of no other image.                                            *)
LEMMA Takes ==
  ASSUME ImageType, NEW o \in Objects, NEW i \in Images, object[o] = I!None,
         object' = [object EXCEPT ![o] = i]
  PROVE  \A j \in Images : Cardinality(Holders(j)') = Cardinality(Holders(j)) + (IF j = i THEN 1 ELSE 0)
<1> TAKE j \in Images
<1> USE DEF ImageType
<1>1. CASE j = i
  <2>1. Holders(j)' = Holders(j) \cup {o} /\ o \notin Holders(j)
    BY <1>1, ImageConstants DEF Holders
  <2>2. QED
    BY <1>1, <2>1, HoldersFinite, FS_AddElement
<1>2. CASE j # i
  <2>1. Holders(j)' = Holders(j)
    BY <1>2, ImageConstants DEF Holders
  <2>2. QED
    BY <1>2, <2>1, HoldersFinite
<1>3. QED
  BY <1>1, <1>2

LEMMA GivesUp ==
  ASSUME ImageType, NEW o \in Objects, NEW i \in Images, object[o] = i,
         object' = [object EXCEPT ![o] = I!None]
  PROVE  \A j \in Images : Cardinality(Holders(j)') = Cardinality(Holders(j)) - (IF j = i THEN 1 ELSE 0)
<1> TAKE j \in Images
<1> USE DEF ImageType
<1>1. CASE j = i
  <2>1. Holders(j)' = Holders(j) \ {o} /\ o \in Holders(j)
    BY <1>1, ImageConstants DEF Holders
  <2>2. QED
    <3>1. Cardinality(Holders(j) \ {o}) = Cardinality(Holders(j)) - 1
      BY <2>1, HoldersFinite, FS_RemoveElement
    <3>2. QED
      BY <1>1, <2>1, <3>1
<1>2. CASE j # i
  <2>1. Holders(j)' = Holders(j)
    BY <1>2, ImageConstants DEF Holders
  <2>2. QED
    BY <1>2, <2>1, HoldersFinite
<1>3. QED
  BY <1>1, <1>2

(* What is held is retained. *)
LEMMA HeldIsRetained ==
  ASSUME Retained, NEW i \in Images, copied[i] = 0, refs[i] <= 0
  PROVE  ~Creating(i) /\ \A o \in Objects : object[o] # i
<1>1. Cardinality(Holders(i)) \in Nat
  BY HoldersFinite
<1>2. ~Creating(i) /\ Cardinality(Holders(i)) = 0
  BY <1>1 DEF Retained
<1>3. Holders(i) = {}
  BY <1>2, HoldersFinite, FS_EmptySet
<1>4. QED
  BY <1>2, <1>3 DEF Holders

(* The count of one image, from the changes of its parts. *)
LEMMA StaysRetained ==
  ASSUME ImageType, Retained, UNCHANGED copied,
         \A j \in Images :
           refs'[j] - refs[j] =
             (Cardinality(Holders(j)') - Cardinality(Holders(j)))
             + ((IF Creating(j)' THEN 1 ELSE 0) - (IF Creating(j) THEN 1 ELSE 0)),
         \A j \in Images : refs'[j] \in Int /\ Cardinality(Holders(j)') \in Int
  PROVE  Retained'
<1> SUFFICES ASSUME NEW j \in Images, copied[j] = 0
             PROVE  refs'[j] = Cardinality(Holders(j)') + (IF Creating(j)' THEN 1 ELSE 0)
  BY DEF Retained
<1> DEFINE h == Cardinality(Holders(j))
           k == Cardinality(Holders(j)')
           m == IF Creating(j) THEN 1 ELSE 0
           n == IF Creating(j)' THEN 1 ELSE 0
<1>1. refs'[j] - refs[j] = (k - h) + (n - m) /\ refs[j] = h + m
  BY DEF Retained
<1>2. refs[j] \in Int /\ refs'[j] \in Int /\ h \in Int /\ k \in Int /\ m \in Int /\ n \in Int
  BY HoldersFinite DEF ImageType
<1> HIDE DEF h, k, m, n
<1>3. refs'[j] = k + n
  BY <1>1, <1>2
<1>4. QED
  BY <1>3 DEF k, n

LEMMA ImageInit == I!Init => ImageInv
<1> SUFFICES ASSUME I!Init PROVE ImageInv
  OBVIOUS
<1> USE DEF I!Init, I!Idle
<1>1. ImageType
  BY DEF ImageType, CallType
<1>2. Retained
  <2>1. ASSUME NEW i \in Images PROVE Holders(i) = {} /\ ~Creating(i) /\ refs[i] = 0
    BY ImageConstants DEF Holders, Creating
  <2>2. QED
    BY <2>1, FS_EmptySet DEF Retained
<1>3. Alive
  BY DEF Alive, Creating, InList
<1>4. QED
  BY <1>1, <1>2, <1>3 DEF ImageInv

(* The conductor's steps move the phases only, and free no image that an   *)
(* object or a call has.                                                   *)
LEMMA ImagePhases ==
  ASSUME ImageInv, UNCHANGED <<refs, object, call, used, copied>>,
         phase' \in [Images -> {"new", "available", "unavailable", "freed"}],
         \A i \in Images : phase'[i] = "freed" => phase[i] = "freed" \/ (refs[i] <= 0 /\ ~InList(i))
  PROVE  ImageInv'
<1>1. ImageType'
  BY DEF ImageInv, ImageType
<1>2. Retained'
  BY DEF ImageInv, Retained, Holders, Creating
<1>3. Alive'
  <2>1. ASSUME NEW i \in Images, phase'[i] = "freed"
        PROVE  /\ ~InList(i)
               /\ copied[i] = 0 => ~Creating(i) /\ \A o \in Objects : object[o] # i
    BY <2>1, HeldIsRetained, ImageConstants DEF ImageInv, ImageType, Alive
  <2>2. QED
    BY <2>1 DEF ImageInv, ImageType, Alive, Creating, InList
<1>4. QED
  BY <1>1, <1>2, <1>3 DEF ImageInv

LEMMA ImageStep ==
  ASSUME ImageInv, [I!Next]_(I!vars)
  PROVE  ImageInv'
<1> USE DEF ImageInv
<1>1. ASSUME NEW i \in Images, I!available(i) \/ I!unavailable(i) PROVE ImageInv'
  BY <1>1, ImagePhases DEF I!available, I!unavailable, ImageType
<1>2. ASSUME NEW i \in Images, I!reclaim(i) PROVE ImageInv'
  BY <1>2, CallFields, ImagePhases DEF I!reclaim, ImageType
<1>3. CASE I!close
  BY <1>3, ImagePhases DEF I!close, ImageType
<1>4. ASSUME NEW i \in Images, I!imageBySessionId(i) PROVE ImageInv'
  <2> USE <1>4 DEF I!imageBySessionId, I!retain, I!Idle
  <2>1. ImageType'
    BY DEF ImageType, CallType
  <2>2. Retained'
    <3>1. ASSUME NEW j \in Images
          PROVE  /\ refs'[j] = IF j = i THEN refs[j] + 1 ELSE refs[j]
                 /\ ~Creating(j) /\ (Creating(j)' <=> j = i) /\ Holders(j)' = Holders(j)
      BY DEF ImageType, Holders, Creating
    <3>2. QED
      BY <3>1, HoldersFinite, StaysRetained DEF ImageType
  <2>3. Alive'
    BY DEF ImageType, Alive, Creating, InList, I!Available
  <2>4. QED
    BY <2>1, <2>2, <2>3
<1>5. ASSUME NEW o \in Objects, I!destroy(o) PROVE ImageInv'
  <2> USE <1>5 DEF I!destroy, I!release, I!Idle, I!Use
  <2>1. ImageType'
    BY DEF ImageType
  <2>2. Retained'
    <3>1. PICK i \in Images : i = object[o]
      BY DEF ImageType
    <3>2. ASSUME NEW j \in Images
          PROVE  /\ refs'[j] = IF j = i THEN refs[j] - 1 ELSE refs[j]
                 /\ ~Creating(j) /\ ~Creating(j)'
      BY <3>1 DEF ImageType, Creating
    <3>3. \A j \in Images :
            Cardinality(Holders(j)') = Cardinality(Holders(j)) - (IF j = i THEN 1 ELSE 0)
      BY <3>1, GivesUp
    <3>4. QED
      BY <3>2, <3>3, HoldersFinite, StaysRetained DEF ImageType
  <2>3. Alive'
    BY DEF ImageType, Alive, Creating, InList
  <2>4. QED
    BY <2>1, <2>2, <2>3
<1>6. ASSUME NEW o \in Objects, I!member(o) PROVE ImageInv'
  <2>1. Alive'
    BY <1>6 DEF I!member, I!Use, ImageType, Alive, Creating, InList
  <2>2. QED
    BY <1>6, <2>1 DEF I!member, ImageType, Retained, Holders, Creating
<1>7. ASSUME NEW o \in Objects, I!beginPoll(o) PROVE ImageInv'
  <2> USE <1>7 DEF I!beginPoll, I!Idle, I!Use
  <2>1. ImageType'
    BY DEF ImageType, CallType
  <2>2. Retained'
    BY DEF Retained, Holders, Creating
  <2>3. Alive'
    BY DEF ImageType, Alive, Creating, InList
  <2>4. QED
    BY <2>1, <2>2, <2>3
<1>8. CASE I!endPoll
  <2> USE <1>8 DEF I!endPoll, I!Idle, I!Use
  <2>1. ImageType'
    BY DEF ImageType, CallType
  <2>2. Retained'
    BY DEF Retained, Holders, Creating
  <2>3. Alive'
    BY DEF ImageType, CallType, Alive, Creating, InList
  <2>4. QED
    BY <2>1, <2>2, <2>3
<1>9. ASSUME NEW o \in Objects, I!createImage(o) PROVE ImageInv'
  <2> USE <1>9 DEF I!createImage, I!Constructed, I!retain
  <2>1. call.image \in Images /\ Creating(call.image)
    BY DEF ImageType, CallType, Creating, I!Idle
  <2>2. ImageType'
    BY <2>1 DEF ImageType, CallType
  <2>3. Retained'
    <3>1. ASSUME NEW j \in Images
          PROVE  /\ refs'[j] = IF j = call.image THEN refs[j] + 1 ELSE refs[j]
                 /\ Creating(j)' <=> Creating(j)
      BY <2>1 DEF ImageType, Creating
    <3>2. \A j \in Images :
            Cardinality(Holders(j)') = Cardinality(Holders(j)) + (IF j = call.image THEN 1 ELSE 0)
      BY <2>1, Takes
    <3>3. QED
      BY <3>1, <3>2, HoldersFinite, StaysRetained DEF ImageType
  <2>4. Alive'
    BY <2>1 DEF ImageType, Alive, Creating, InList
  <2>5. QED
    BY <2>2, <2>3, <2>4
<1>10. CASE I!createImageThrows \/ I!createImageReturns
  <2> USE <1>10 DEF I!createImageThrows, I!createImageReturns, I!release, I!Idle
  <2>1. call.image \in Images /\ Creating(call.image)
    BY DEF ImageType, CallType, Creating
  <2>2. ImageType'
    BY <2>1 DEF ImageType, CallType
  <2>3. Retained'
    <3>1. ASSUME NEW j \in Images
          PROVE  /\ refs'[j] = IF j = call.image THEN refs[j] - 1 ELSE refs[j]
                 /\ ~Creating(j)' /\ (Creating(j) <=> j = call.image) /\ Holders(j)' = Holders(j)
      BY <2>1 DEF ImageType, Holders, Creating
    <3>2. QED
      BY <3>1, HoldersFinite, StaysRetained DEF ImageType
  <2>4. Alive'
    BY <2>1 DEF ImageType, Alive, Creating, InList
  <2>5. QED
    BY <2>2, <2>3, <2>4
<1>11. CASE I!copyOfImageList \/ I!beginPollAll
  <2> USE <1>11 DEF I!copyOfImageList, I!beginPollAll, I!Idle, I!Available
  <2>1. ImageType'
    BY DEF ImageType, CallType
  <2>2. Retained'
    BY DEF Retained, Holders, Creating
  <2>3. Alive'
    BY DEF ImageType, Alive, Creating, InList
  <2>4. QED
    BY <2>1, <2>2, <2>3
<1>12. ASSUME NEW o \in Objects, I!copyToVector(o) PROVE ImageInv'
  <2> USE <1>12 DEF I!copyToVector, I!Constructed, I!retain
  <2>1. PICK i \in call.todo :
          /\ object[o] = I!None /\ object' = [object EXCEPT ![o] = i]
          /\ refs' = [refs EXCEPT ![i] = @ + 1] /\ call' = [call EXCEPT !.todo = @ \ {i}]
    OBVIOUS
  <2>2. /\ call \in [op : {"list"}, images : SUBSET Images, todo : SUBSET Images]
        /\ i \in Images /\ InList(i)
    BY <2>1 DEF ImageType, CallType, InList, I!Idle, Alive
  <2>3. /\ call' \in [op : {"list"}, images : SUBSET Images, todo : SUBSET Images]
        /\ call'.images = call.images /\ call'.todo = call.todo \ {i}
    BY <2>1, <2>2
  <2>4. ImageType'
    BY <2>1, <2>2, <2>3 DEF ImageType, CallType
  <2>5. Retained'
    <3>1. ASSUME NEW j \in Images
          PROVE  /\ refs'[j] = IF j = i THEN refs[j] + 1 ELSE refs[j]
                 /\ ~Creating(j) /\ ~Creating(j)'
      BY <2>1, <2>2, <2>3 DEF ImageType, Creating
    <3>2. \A j \in Images :
            Cardinality(Holders(j)') = Cardinality(Holders(j)) + (IF j = i THEN 1 ELSE 0)
      BY <2>1, <2>2, Takes
    <3>3. QED
      BY <3>1, <3>2, HoldersFinite, StaysRetained DEF ImageType
  <2>6. Alive'
    BY <2>1, <2>2, <2>3 DEF ImageType, Alive, Creating, InList
  <2>7. QED
    BY <2>4, <2>5, <2>6
<1>13. CASE I!copyOfImageListReturns \/ I!endPollAll
  <2> USE <1>13 DEF I!copyOfImageListReturns, I!endPollAll, I!Idle, I!Use
  <2>1. ImageType'
    BY DEF ImageType, CallType
  <2>2. Retained'
    BY DEF Retained, Holders, Creating
  <2>3. Alive'
    BY DEF ImageType, CallType, Alive, Creating, InList
  <2>4. QED
    BY <2>1, <2>2, <2>3
<1>14. ASSUME NEW o \in Objects, NEW p \in Objects, I!copy(o, p) PROVE ImageInv'
  <2> USE <1>14 DEF I!copy, I!Idle
  <2>1. PICK i \in Images : i = object[o]
    BY DEF ImageType
  <2>2. /\ copied' \in [Images -> Nat] /\ copied'[i] > 0
        /\ \A j \in Images : j # i => copied'[j] = copied[j]
        /\ \A j \in Images : copied[j] > 0 => copied'[j] > 0
    BY <2>1 DEF ImageType
  <2>3. ImageType'
    BY <2>1, <2>2 DEF ImageType
  <2>4. Retained'
    <3>1. ASSUME NEW j \in Images, j # i PROVE Holders(j)' = Holders(j)
      BY <2>1, <3>1, ImageConstants DEF Holders, ImageType
    <3>2. QED
      BY <2>2, <3>1 DEF Retained, Creating
  <2>5. Alive'
    BY <2>1, <2>2 DEF ImageType, Alive, Creating, InList
  <2>6. QED
    BY <2>3, <2>4, <2>5
<1>15. CASE UNCHANGED I!vars
  BY <1>15 DEF I!vars, ImageType, Retained, Alive, Holders, Creating, InList
<1>16. QED
  BY <1>1, <1>2, <1>3, <1>4, <1>5, <1>6, <1>7, <1>8, <1>9, <1>10, <1>11, <1>12, <1>13, <1>14, <1>15
     DEF I!Next

LEMMA ImageSafe ==
  ASSUME ImageInv
  PROVE  I!RetainedOncePerObject /\ I!NoUseAfterFree
<1>1. I!RetainedOncePerObject
  BY CallFields DEF ImageInv, ImageType, Retained, Holders, I!RetainedOncePerObject, I!Cardinality,
                    Cardinality
<1>2. I!NoUseAfterFree
  BY DEF ImageInv, Alive, I!NoUseAfterFree
<1>3. QED
  BY <1>1, <1>2

-----------------------------------------------------------------------------
(***************************************************************************)
(* The registry of commands and handlers.                                  *)
(***************************************************************************)
CommandStates == {"none", "sent", "done", "error", "refused", "freed"}
Commands == [kind : R!Kinds \cup {R!NoKind}, state : CommandStates]

Has(t, i) == thread[t].pc \in {"register", "poll"} /\ thread[t].id = i
Locking(t) == thread[t].pc \in {"adding", "removing"}

RegistryType ==
  /\ command \in [Ids -> Commands] /\ pending \in SUBSET Ids
  /\ resource \in [Ids -> {"none", "open", "closing", "freed"}]
  /\ holder \in [Ids -> {"none", "alive", "deleted"}]
  /\ wrappers \in [Ids -> {0, 1}]
  /\ thread \in [Threads -> {R!Idle} \cup [pc : {"register", "poll"}, id : Ids]
                                     \cup [pc : {"adding", "removing"}, id : Handlers]]
  /\ conductor \in {R!Free} \cup [calls : {"image"}, id : Ids]
                             \cup [calls : {"handler"}, id : Handlers]
  /\ DOMAIN told = Ids /\ again \in SUBSET Ids

EndTold(i) == told[i] = "error" \/ (told[i] = "found" /\ ~command[i].kind.owned)

(* A command that the library may still complete is in one place: the      *)
(* registry, or a pointer that one thread has; one that is freed and still *)
(* registered is one of which find has told the end.                       *)
OnePlace ==
  /\ \A t, u \in Threads, i \in Ids : Has(t, i) /\ Has(u, i) => t = u
  /\ \A t \in Threads, i \in Ids :
       Has(t, i) => i \notin pending /\ command[i].state \in {"sent", "done", "error"}
  /\ \A i \in pending : command[i].state \in {"sent", "done", "error", "freed"}
  /\ client # "closed" => \A i \in pending : command[i].state = "freed" =>
       EndTold(i)
  /\ client # "open" => \A t \in Threads : thread[t] = R!Idle
  /\ \A i \in again : command[i].state = "freed" /\ EndTold(i)

(* A resource is there from the answer on; its object comes with the poll  *)
(* that frees the command.  Of a freed command that is polled, the object  *)
(* may be one of a resource that is not there.                             *)
Owned ==
  /\ \A i \in Ids :
       /\ command[i].kind = R!NoKind <=> command[i].state = "none"
       /\ command[i].state # "freed" => wrappers[i] = 0
       /\ command[i].state \notin {"done", "freed"} => resource[i] = "none"
       /\ command[i].state = "done" /\ command[i].kind.owned => resource[i] = "open"
       /\ wrappers[i] = 1 /\ i \notin again => resource[i] = "open"
  /\ client # "open" => \A i \in Ids : wrappers[i] = 0

(* The functions that the conductor calls or may call are alive, and only  *)
(* the thread with the lock adds or removes one.                           *)
Callable ==
  /\ \A i \in Ids \ again :
       command[i].kind.held /\ (command[i].state = "sent" \/ resource[i] \in {"open", "closing"})
         => holder[i] = "alive"
  /\ conductor.calls = "image" =>
       \/ conductor.id \in again
       \/ command[conductor.id].kind.held /\ holder[conductor.id] = "alive"
  /\ conductor.calls = "handler" => conductor.id \in stored
  /\ installed \subseteq stored
  /\ \A t \in Threads : Locking(t) => adminLock = t /\ thread[t].id \in stored

RegistryInv == RegistryType /\ OnePlace /\ Owned /\ Callable

LEMMA KindFacts ==
  /\ R!NoKind \notin R!Kinds
  /\ ~R!NoKind.held
<1>1. ASSUME NEW k \in R!Kinds PROVE k.name # R!NoKind.name
  BY <1>1 DEF R!Kinds, R!NoKind, R!Kind, R!None, R!publication, R!exclusivePublication,
              R!subscription, R!counter, R!staticCounter, R!publicationDestination,
              R!exclusiveDestination, R!subscriptionDestination
<1>2. ~R!NoKind.held
  BY DEF R!NoKind, R!Kind
<1>3. QED
  BY <1>1, <1>2

LEMMA NoThreadIsNone == "none" \notin Threads
BY SuiteAssumption DEF R!RegistryAssumption

LEMMA RegistryInit == R!Init => RegistryInv
<1> SUFFICES ASSUME R!Init PROVE RegistryInv
  OBVIOUS
<1> USE DEF R!Init, R!None, R!Idle, R!Free
<1>1. RegistryType
  BY DEF RegistryType, Commands, CommandStates
<1>2. OnePlace /\ Owned
  BY DEF OnePlace, Owned, Has
<1>3. Callable
  BY KindFacts DEF Callable, Locking
<1>4. QED
  BY <1>1, <1>2, <1>3 DEF RegistryInv

(* find: of the command, what a poll does; of the resource, its one object. *)
LEMMA FindStep ==
  ASSUME RegistryType, OnePlace, Owned, NEW i \in Ids, NEW says, R!find(i, says),
         command[i].state \in {"sent", "done", "error", "freed"},
         command[i].state = "freed" => EndTold(i),
         UNCHANGED <<resource, client>>, client = "open"
  PROVE  /\ command' \in [Ids -> Commands] /\ wrappers' \in [Ids -> {0, 1}]
         /\ DOMAIN told' = Ids /\ again' \in SUBSET Ids
         /\ \A j \in Ids : command'[j].kind = command[j].kind
         /\ \A j \in Ids : j # i => command'[j] = command[j] /\ told'[j] = told[j]
         /\ IF command[i].state = "sent" THEN command'[i].state = "sent"
                                         ELSE command'[i].state = "freed"
         /\ IF command[i].state = "freed" THEN again' = again \cup {i} /\ told'[i] = told[i]
                                          ELSE again' = again /\ told'[i] = says
         /\ command[i].state = "sent" <=> (says = "null" /\ command[i].state # "freed")
         /\ says \in {"null", "found", "error"}
         /\ Owned'
<1> USE DEF R!find, R!poll, R!Polled, R!Tell
<1>1. command' \in [Ids -> Commands]
  BY DEF RegistryType, Commands, CommandStates
<1>2. /\ \A j \in Ids : command'[j].kind = command[j].kind
      /\ \A j \in Ids : j # i => command'[j] = command[j]
      /\ IF command[i].state = "sent" THEN command'[i].state = "sent"
                                      ELSE command'[i].state = "freed"
  BY DEF RegistryType, Commands
<1>3. /\ again' \in SUBSET Ids
      /\ IF command[i].state = "freed" THEN again' = again \cup {i} ELSE again' = again
  BY DEF RegistryType
<1>4. says \in {"null", "found", "error"} /\ says \in R!Polled(i) \cup {"error"}
  OBVIOUS
<1>5. command[i].state = "sent" <=> (says = "null" /\ command[i].state # "freed")
  <2>1. CASE command[i].state = "sent"
    BY <2>1
  <2>2. CASE command[i].state # "sent"
    BY <2>2
  <2>3. QED
    BY <2>1, <2>2
<1>6. /\ DOMAIN told' = Ids
      /\ \A j \in Ids : j # i => told'[j] = told[j]
      /\ IF command[i].state = "freed" THEN told'[i] = told[i] ELSE told'[i] = says
  <2>1. told' = [told EXCEPT ![i] = IF command[i].state = "freed" THEN @ ELSE says]
    BY DEF R!Tell
  <2>2. QED
    BY <2>1 DEF RegistryType
<1>7. /\ wrappers' \in [Ids -> {0, 1}]
      /\ \A j \in Ids : j # i => wrappers'[j] = wrappers[j]
      /\ wrappers'[i] = 1 /\ i \notin again' => command[i].state = "done" /\ resource[i] = "open"
      /\ wrappers'[i] = 1 => command[i].state \in {"done", "freed"}
  <2>1. command[i].state # "freed" => wrappers[i] = 0 /\ i \notin again
    BY DEF OnePlace, Owned
  <2>2. CASE UNCHANGED wrappers
    BY <1>3, <2>1, <2>2 DEF RegistryType, Owned
  <2>3. CASE /\ says = "found" /\ says \in R!Polled(i) /\ (wrappers[i] = 0 \/ i \notin again')
             /\ wrappers' = [wrappers EXCEPT ![i] = @ + IF command[i].kind.owned THEN 1 ELSE 0]
    <3>1. command[i].state \in {"done", "freed"} /\ wrappers[i] = 0
      BY <1>3, <2>1, <2>3
    <3>2. QED
      BY <1>3, <2>3, <3>1 DEF RegistryType, Owned
  <2>4. QED
    BY <2>2, <2>3
<1>8. Owned'
  BY <1>1, <1>2, <1>3, <1>7 DEF Owned, RegistryType
<1>9. QED
  BY <1>1, <1>2, <1>3, <1>4, <1>5, <1>6, <1>7, <1>8

LEMMA RegistryStep ==
  ASSUME RegistryInv, [R!Next]_(R!vars)
  PROVE  RegistryInv'
<1> USE DEF RegistryInv, R!Idle, R!Free, R!None
<1>1. ASSUME NEW t \in Threads, NEW i \in Ids, NEW k \in R!Kinds, R!addAsync(t, i, k) PROVE RegistryInv'
  <2> USE <1>1 DEF R!addAsync
  <2>1. PICK c \in {"sent", "refused"} :
          /\ command' = [command EXCEPT ![i] = [kind |-> k, state |-> c]]
          /\ IF c = "sent" THEN thread' = [thread EXCEPT ![t] = [pc |-> "register", id |-> i]]
             ELSE UNCHANGED thread
    <3>1. CASE command' = [command EXCEPT ![i] = [kind |-> k, state |-> "refused"]] /\ UNCHANGED thread
      BY <3>1
    <3>2. QED
      BY <3>1
  <2>2. [kind |-> k, state |-> c] \in Commands
    BY <2>1 DEF Commands, CommandStates
  <2>3. RegistryType'
    BY <2>1, <2>2 DEF RegistryType
  <2>4. command[i].state = "none" /\ resource[i] = "none"
    BY DEF Owned
  <2>5. OnePlace'
    <3>1. \A u \in Threads : ~Has(u, i)
      BY <2>4 DEF OnePlace
    <3>2. i \notin pending
      BY <2>4 DEF OnePlace
    <3>3. \A u \in Threads, j \in Ids : Has(u, j)' => (u = t /\ j = i /\ c = "sent") \/ Has(u, j)
      BY <2>1 DEF RegistryType, Has
    <3>4. \A j \in Ids : j # i => command'[j] = command[j]
      BY <2>1 DEF RegistryType
    <3>5. command'[i].state = c
      BY <2>1, <2>4 DEF RegistryType
    <3>6. UNCHANGED <<pending, told, client, again>> /\ client = "open"
      OBVIOUS
    <3>7. i \notin again
      BY <2>4 DEF OnePlace
    <3>8. \A j \in Ids : j # i => (EndTold(j)' <=> EndTold(j))
      BY <3>4, <3>6 DEF EndTold
    <3>9. QED
      BY <3>1, <3>2, <3>3, <3>4, <3>5, <3>6, <3>7, <3>8 DEF OnePlace, RegistryType
  <2>6. Owned'
    BY <2>1, KindFacts DEF RegistryType, Commands, Owned
  <2>7. Callable'
    <3>1. \A j \in Ids : j # i => command'[j] = command[j] /\ holder'[j] = holder[j]
      BY <2>1 DEF RegistryType
    <3>2. command'[i].kind = k /\ (k.held => holder'[i] = "alive")
      BY <2>1 DEF RegistryType
    <3>3. conductor.calls = "image" => conductor.id \in Ids /\ conductor.id # i
      <4>1. i \notin again
        BY <2>4 DEF OnePlace
      <4>2. QED
        BY <4>1, KindFacts DEF RegistryType, Callable
    <3>4. \A u \in Threads : Locking(u)' => Locking(u) /\ thread'[u] = thread[u]
      BY <2>1 DEF RegistryType, Locking
    <3>5. UNCHANGED <<resource, conductor, stored, installed, adminLock>>
      OBVIOUS
    <3>6. QED
      BY <3>1, <3>2, <3>3, <3>4, <3>5 DEF Callable
  <2>8. QED
    BY <2>3, <2>5, <2>6, <2>7
<1>2. ASSUME NEW t \in Threads, R!register(t) PROVE RegistryInv'
  <2> USE <1>2 DEF R!register
  <2>1. RegistryType'
    BY DEF RegistryType, Commands, CommandStates
  <2>2. OnePlace'
    BY DEF RegistryType, Commands, OnePlace, Has, EndTold
  <2>3. Owned'
    BY KindFacts DEF RegistryType, Commands, Owned
  <2>4. Callable'
    BY KindFacts DEF RegistryType, Commands, OnePlace, Owned, Callable, Locking
  <2>5. QED
    BY <2>1, <2>2, <2>3, <2>4
<1>3. ASSUME NEW t \in Threads, R!keepPointer(t) PROVE RegistryInv'
  <2> USE <1>3 DEF R!keepPointer
  <2>1. RegistryType'
    BY DEF RegistryType, Commands, CommandStates
  <2>2. OnePlace'
    BY DEF RegistryType, Commands, OnePlace, Has, EndTold
  <2>3. Owned'
    BY KindFacts DEF RegistryType, Commands, Owned
  <2>4. Callable'
    BY KindFacts DEF RegistryType, Commands, OnePlace, Owned, Callable, Locking
  <2>5. QED
    BY <2>1, <2>2, <2>3, <2>4
<1>4. ASSUME NEW t \in Threads, R!findByPointer(t) PROVE RegistryInv'
  <2>1. PICK i \in Ids : i = thread[t].id /\ Has(t, i)
    BY <1>4 DEF R!findByPointer, RegistryType, Has
  <2>2. command[i].state \in {"sent", "done", "error"} /\ i \notin pending /\ client = "open"
    BY <2>1 DEF OnePlace, Has
  <2>3. PICK says \in {"null", "found", "error"} :
          /\ UNCHANGED <<pending, resource, holder, adminLock, stored, installed, conductor, client>>
          /\ R!find(i, says)
          /\ thread' = [thread EXCEPT ![t] = IF says = "null" THEN @ ELSE R!Idle]
    BY <1>4, <2>1 DEF R!findByPointer
  <2>4. /\ command' \in [Ids -> Commands] /\ wrappers' \in [Ids -> {0, 1}]
        /\ DOMAIN told' = Ids /\ again' \in SUBSET Ids
        /\ \A j \in Ids : command'[j].kind = command[j].kind
        /\ \A j \in Ids : j # i => command'[j] = command[j] /\ told'[j] = told[j]
        /\ IF command[i].state = "sent" THEN command'[i].state = "sent"
                                        ELSE command'[i].state = "freed"
        /\ IF command[i].state = "freed" THEN again' = again \cup {i} /\ told'[i] = told[i]
                                         ELSE again' = again /\ told'[i] = says
        /\ command[i].state = "sent" <=> (says = "null" /\ command[i].state # "freed")
        /\ says \in {"null", "found", "error"}
        /\ Owned'
    BY <2>2, <2>3, FindStep
  <2>5. RegistryType'
    BY <2>3, <2>4 DEF RegistryType
  <2>6. \A u \in Threads : u # t => thread'[u] = thread[u]
    BY <2>3 DEF RegistryType
  <2>7. IF command[i].state = "sent" THEN thread'[t] = thread[t] ELSE thread'[t] = R!Idle
    BY <2>2, <2>3, <2>4 DEF RegistryType
  <2>8. OnePlace'
    <3>1. \A u \in Threads, j \in Ids :
            Has(u, j)' => Has(u, j) /\ (j = i => command[i].state = "sent")
      BY <2>1, <2>6, <2>7 DEF OnePlace, Has
    <3>2. i \notin again /\ again' = again
      BY <2>2, <2>4 DEF OnePlace
    <3>3. \A j \in Ids : j # i => (EndTold(j)' <=> EndTold(j))
      BY <2>4 DEF EndTold
    <3>4. QED
      BY <2>2, <2>3, <2>4, <3>1, <3>2, <3>3, SMTT(30) DEF OnePlace, RegistryType
  <2>9. Callable'
    <3>1. \A u \in Threads : Locking(u)' => Locking(u) /\ thread'[u] = thread[u]
      BY <2>6, <2>7 DEF Locking
    <3>2. again' = again
      BY <2>2, <2>4
    <3>3. QED
      BY <2>3, <2>4, <3>1, <3>2, SMTT(30) DEF Callable, RegistryType
  <2>10. QED
    BY <2>4, <2>5, <2>8, <2>9
<1>5. ASSUME NEW t \in Threads, NEW i \in Ids, R!findById(t, i) PROVE RegistryInv'
  <2> USE DEF R!findById
  <2>1. CASE i \notin pending
    <3>1. /\ UNCHANGED <<command, pending, resource, wrappers, holder, thread, adminLock, stored,
                        installed, conductor, client, again>>
          /\ DOMAIN told' = Ids /\ \A j \in Ids : j # i => told'[j] = told[j]
          /\ EndTold(i) => EndTold(i)'
      BY <1>5, <2>1 DEF RegistryType, R!Unknown, EndTold
    <3>2. RegistryType' /\ Owned' /\ Callable'
      BY <3>1 DEF RegistryType, Owned, Callable, Locking
    <3>3. \A j \in Ids : j # i => (EndTold(j)' <=> EndTold(j))
      BY <3>1 DEF EndTold
    <3>4. OnePlace'
      BY <2>1, <3>1, <3>3 DEF RegistryType, OnePlace, Has
    <3>5. QED
      BY <3>2, <3>4
  <2>2. CASE i \in pending
    <3>1. PICK says \in {"null", "found", "error"} :
            /\ UNCHANGED <<resource, holder, thread, adminLock, stored, installed, conductor, client>>
            /\ R!find(i, says) /\ client = "open" /\ pending' = pending \ R!Erased(i, says)
      BY <1>5, <2>2
    <3>2. /\ command[i].state \in {"sent", "done", "error", "freed"}
          /\ command[i].state = "freed" => EndTold(i)
      BY <2>2, <3>1 DEF OnePlace
    <3>3. /\ command' \in [Ids -> Commands] /\ wrappers' \in [Ids -> {0, 1}]
          /\ DOMAIN told' = Ids /\ again' \in SUBSET Ids
          /\ \A j \in Ids : command'[j].kind = command[j].kind
          /\ \A j \in Ids : j # i => command'[j] = command[j] /\ told'[j] = told[j]
          /\ IF command[i].state = "sent" THEN command'[i].state = "sent"
                                          ELSE command'[i].state = "freed"
          /\ IF command[i].state = "freed" THEN again' = again \cup {i} /\ told'[i] = told[i]
                                           ELSE again' = again /\ told'[i] = says
          /\ command[i].state = "sent" <=> (says = "null" /\ command[i].state # "freed")
          /\ says \in {"null", "found", "error"}
          /\ Owned'
      BY <3>1, <3>2, FindStep
    <3>4. RegistryType'
      BY <3>1, <3>3 DEF RegistryType
    <3>5. OnePlace'
      <4>1. \A u \in Threads : ~Has(u, i)
        BY <2>2 DEF OnePlace
      <4>2. pending' \subseteq pending /\ (i \in pending' => ~(says = "found" /\ command[i].kind.owned))
        BY <3>1 DEF R!Erased
      <4>3. \A j \in Ids : j # i => (EndTold(j)' <=> EndTold(j))
        BY <3>3 DEF EndTold
      <4>4. command[i].state = "freed" => EndTold(i)'
        BY <3>2, <3>3 DEF EndTold
      <4>5. i \in pending' /\ command'[i].state = "freed" => EndTold(i)'
        BY <3>2, <3>3, <4>2, <4>4 DEF EndTold
      <4>6. \A j \in again' : command'[j].state = "freed" /\ EndTold(j)'
        BY <3>3, <4>3, <4>4 DEF OnePlace, RegistryType
      <4>7. \A j \in pending' : command'[j].state \in {"sent", "done", "error", "freed"}
        BY <3>2, <3>3, <4>2 DEF OnePlace, RegistryType
      <4>8. QED
        BY <3>1, <3>3, <4>1, <4>2, <4>3, <4>5, <4>6, <4>7, SMTT(30) DEF OnePlace, Has, RegistryType
    <3>6. Callable'
      <4>1. again \subseteq again'
        BY <3>3
      <4>2. QED
        BY <3>1, <3>3, <4>1 DEF Callable, Locking, RegistryType
    <3>7. QED
      BY <3>3, <3>4, <3>5, <3>6
  <2>3. QED
    BY <2>1, <2>2
<1>6. ASSUME NEW t \in Threads, NEW i \in Ids, R!destroy(t, i) PROVE RegistryInv'
  <2> USE <1>6 DEF R!destroy
  <2>1. RegistryType'
    BY DEF RegistryType, Commands, CommandStates
  <2>2. OnePlace'
    BY DEF RegistryType, Commands, OnePlace, Has, EndTold
  <2>3. Owned'
    BY KindFacts DEF RegistryType, Commands, Owned
  <2>4. Callable'
    BY KindFacts DEF RegistryType, Commands, OnePlace, Owned, Callable, Locking
  <2>5. QED
    BY <2>1, <2>2, <2>3, <2>4
<1>7. ASSUME NEW i \in Ids, R!answer(i) PROVE RegistryInv'
  <2> USE <1>7 DEF R!answer
  <2>1. PICK c \in {"done", "error"} :
          /\ command' = [command EXCEPT ![i].state = c]
          /\ IF c = "done" THEN resource' = [resource EXCEPT ![i] =
                                 IF command[i].kind.owned THEN "open" ELSE "none"]
             ELSE UNCHANGED resource
    <3>1. CASE command' = [command EXCEPT ![i].state = "error"] /\ UNCHANGED resource
      BY <3>1
    <3>2. QED
      BY <3>1
  <2>2. /\ command' \in [Ids -> Commands] /\ command'[i].state = c
        /\ \A j \in Ids : j # i => command'[j] = command[j] /\ resource'[j] = resource[j]
        /\ \A j \in Ids : command'[j].kind = command[j].kind
    BY <2>1 DEF RegistryType, Commands, CommandStates
  <2>3. RegistryType'
    BY <2>1, <2>2 DEF RegistryType
  <2>4. OnePlace'
    BY <2>2 DEF RegistryType, OnePlace, Has, EndTold
  <2>5. Owned'
    BY KindFacts DEF RegistryType, Commands, Owned
  <2>6. Callable'
    BY <2>2 DEF RegistryType, Owned, Callable, Locking
  <2>7. QED
    BY <2>3, <2>4, <2>5, <2>6
<1>8. ASSUME NEW i \in Ids, R!closed(i) PROVE RegistryInv'
  <2> USE <1>8 DEF R!closed
  <2>1. RegistryType'
    BY DEF RegistryType, Commands, CommandStates
  <2>2. OnePlace'
    BY DEF RegistryType, Commands, OnePlace, Has, EndTold
  <2>3. Owned'
    BY KindFacts DEF RegistryType, Commands, Owned
  <2>4. Callable'
    BY KindFacts DEF RegistryType, Commands, OnePlace, Owned, Callable, Locking
  <2>5. QED
    BY <2>1, <2>2, <2>3, <2>4
<1>9. ASSUME NEW i \in Ids, R!imageCallback(i) PROVE RegistryInv'
  <2> USE <1>9 DEF R!imageCallback
  <2>1. RegistryType'
    BY DEF RegistryType, Commands, CommandStates
  <2>2. OnePlace'
    BY DEF RegistryType, Commands, OnePlace, Has, EndTold
  <2>3. Owned'
    BY KindFacts DEF RegistryType, Commands, Owned
  <2>4. Callable'
    BY KindFacts DEF RegistryType, Commands, OnePlace, Owned, Callable, Locking
  <2>5. QED
    BY <2>1, <2>2, <2>3, <2>4
<1>10. ASSUME NEW h \in Handlers, R!handlerCallback(h) PROVE RegistryInv'
  <2> USE <1>10 DEF R!handlerCallback
  <2>1. RegistryType'
    BY DEF RegistryType, Commands, CommandStates
  <2>2. OnePlace'
    BY DEF RegistryType, Commands, OnePlace, Has, EndTold
  <2>3. Owned'
    BY KindFacts DEF RegistryType, Commands, Owned
  <2>4. Callable'
    BY KindFacts DEF RegistryType, Commands, OnePlace, Owned, Callable, Locking
  <2>5. QED
    BY <2>1, <2>2, <2>3, <2>4
<1>11. ASSUME R!callbackReturns PROVE RegistryInv'
  <2> USE <1>11 DEF R!callbackReturns
  <2>1. RegistryType'
    BY DEF RegistryType, Commands, CommandStates
  <2>2. OnePlace'
    BY DEF RegistryType, Commands, OnePlace, Has, EndTold
  <2>3. Owned'
    BY KindFacts DEF RegistryType, Commands, Owned
  <2>4. Callable'
    BY KindFacts DEF RegistryType, Commands, OnePlace, Owned, Callable, Locking
  <2>5. QED
    BY <2>1, <2>2, <2>3, <2>4
<1>12. ASSUME NEW t \in Threads, NEW h \in Handlers, R!addHandler(t, h) PROVE RegistryInv'
  <2> USE <1>12 DEF R!addHandler
  <2>1. RegistryType'
    BY DEF RegistryType
  <2>2. OnePlace' /\ Owned'
    BY DEF RegistryType, OnePlace, Owned, Has, EndTold
  <2>3. \A u \in Threads : ~Locking(u)
    BY NoThreadIsNone DEF Callable
  <2>4. Callable'
    BY <2>3 DEF RegistryType, Callable, Locking
  <2>5. QED
    BY <2>1, <2>2, <2>4
<1>13. ASSUME NEW t \in Threads, R!handlerAdded(t) PROVE RegistryInv'
  <2> USE <1>13 DEF R!handlerAdded
  <2>1. RegistryType'
    BY DEF RegistryType, Commands, CommandStates
  <2>2. OnePlace'
    BY DEF RegistryType, Commands, OnePlace, Has, EndTold
  <2>3. Owned'
    BY KindFacts DEF RegistryType, Commands, Owned
  <2>4. Callable'
    BY KindFacts DEF RegistryType, Commands, OnePlace, Owned, Callable, Locking
  <2>5. QED
    BY <2>1, <2>2, <2>3, <2>4
<1>14. ASSUME NEW t \in Threads, NEW h \in Handlers, R!removeHandler(t, h) PROVE RegistryInv'
  <2> USE <1>14 DEF R!removeHandler
  <2>1. RegistryType'
    BY DEF RegistryType
  <2>2. OnePlace' /\ Owned'
    BY DEF RegistryType, OnePlace, Owned, Has, EndTold
  <2>3. \A u \in Threads : ~Locking(u)
    BY NoThreadIsNone DEF Callable
  <2>4. Callable'
    BY <2>3 DEF RegistryType, Callable, Locking
  <2>5. QED
    BY <2>1, <2>2, <2>4
<1>15. ASSUME NEW t \in Threads, R!handlerRemoved(t) PROVE RegistryInv'
  <2> USE <1>15 DEF R!handlerRemoved
  <2>1. RegistryType'
    BY DEF RegistryType, Commands, CommandStates
  <2>2. OnePlace'
    BY DEF RegistryType, Commands, OnePlace, Has, EndTold
  <2>3. Owned'
    BY KindFacts DEF RegistryType, Commands, Owned
  <2>4. Callable'
    BY KindFacts DEF RegistryType, Commands, OnePlace, Owned, Callable, Locking
  <2>5. QED
    BY <2>1, <2>2, <2>3, <2>4
<1>16. ASSUME R!closeClient PROVE RegistryInv'
  <2> USE <1>16 DEF R!closeClient
  <2>1. RegistryType'
    BY DEF RegistryType, Commands, CommandStates
  <2>2. OnePlace'
    BY DEF RegistryType, Commands, OnePlace, Has, EndTold
  <2>3. Owned'
    BY KindFacts DEF RegistryType, Commands, Owned
  <2>4. Callable'
    BY KindFacts DEF RegistryType, Commands, OnePlace, Owned, Callable, Locking
  <2>5. QED
    BY <2>1, <2>2, <2>3, <2>4
<1>17. ASSUME R!conductorEnds PROVE RegistryInv'
  <2> USE <1>17 DEF R!conductorEnds
  <2>1. RegistryType'
    BY ZenonT(30) DEF RegistryType, Commands, CommandStates
  <2>2. OnePlace'
    BY DEF RegistryType, Commands, OnePlace, Has, EndTold
  <2>3. Owned'
    BY KindFacts DEF RegistryType, Commands, Owned
  <2>4. Callable'
    <3>1. \A i \in Ids : resource'[i] \notin {"open", "closing"} /\ command'[i].state # "sent"
      BY DEF RegistryType, Commands
    <3>2. \A t \in Threads : ~Locking(t)'
      BY DEF OnePlace, Locking
    <3>3. QED
      BY <3>1, <3>2 DEF Callable
  <2>5. QED
    BY <2>1, <2>2, <2>3, <2>4
<1>18. ASSUME UNCHANGED R!vars PROVE RegistryInv'
  <2> USE <1>18 DEF R!vars
  <2>1. RegistryType'
    BY DEF RegistryType, Commands, CommandStates
  <2>2. OnePlace'
    BY DEF RegistryType, Commands, OnePlace, Has, EndTold
  <2>3. Owned'
    BY KindFacts DEF RegistryType, Commands, Owned
  <2>4. Callable'
    BY KindFacts DEF RegistryType, Commands, OnePlace, Owned, Callable, Locking
  <2>5. QED
    BY <2>1, <2>2, <2>3, <2>4
<1>19. QED
  BY <1>1, <1>2, <1>3, <1>4, <1>5, <1>6, <1>7, <1>8, <1>9, <1>10, <1>11, <1>12, <1>13, <1>14, <1>15, <1>16, <1>17, <1>18
     DEF R!Next, R!Application, R!InCall, R!Conductor

LEMMA RegistrySafe ==
  ASSUME RegistryInv
  PROVE  R!OneOwner /\ R!NoPollAfterFree /\ R!CallbacksAlive
<1>1. R!OneOwner
  BY DEF RegistryInv, RegistryType, Owned, R!OneOwner
<1>2. R!NoPollAfterFree
  BY DEF RegistryInv, OnePlace, EndTold, R!NoPollAfterFree
<1>3. R!CallbacksAlive
  BY DEF RegistryInv, RegistryType, Callable, R!CallbacksAlive, R!Free
<1>4. QED
  BY <1>1, <1>2, <1>3

-----------------------------------------------------------------------------
(* The invariants of the three parts that own something of the library. *)
OwnersInv ==
  /\ part = "registry" => RegistryInv
  /\ part = "publication" => HandleInv
  /\ part = "image" => ImageInv

LEMMA OwnersInit == Init => OwnersInv
BY InitOfPart, RegistryInit, HandleInit, ImageInit DEF OwnersInv

LEMMA OwnersStep == OwnersInv /\ [Next]_vars => OwnersInv'
BY StepOfPart, RegistryStep, HandleStep, ImageStep DEF OwnersInv

(* A resource has at most one object that closes it, until a freed command *)
(* is polled; a publication is closed once, unless two calls of close      *)
(* overlap or the library refuses the destructor; and an image is retained *)
(* once for each object that holds it, until one is copied: for any        *)
(* threads, ids, images and objects, whatever throws (findX, close,        *)
(* createImage).                                                           *)
THEOREM OneOwnerHolds == Spec => []OneOwner
<1>1. OwnersInv => OneOwner
  <2>1. HandleInv => P!ClosedOnce
    BY DEF HandleInv, HandleType, PointerGood, Destroyed, P!ClosedOnce
  <2>2. QED
    BY <2>1, RegistrySafe, ImageSafe DEF OwnersInv, OneOwner
<1>2. QED
  BY <1>1, OwnersInit, OwnersStep, PTL DEF Spec

(* The library is passed no publication that it freed, save by a call that *)
(* a close overlaps; no image, save one of which an object was copied; and *)
(* no command, save one of whose end the caller was told.  The functions   *)
(* that the conductor calls are alive, and a call on a closed publication  *)
(* says so: for any threads, ids, handlers, images and objects.            *)
THEOREM NoUseAfterFreeHolds == Spec => NoUseAfterFree
<1> DEFINE Safe == /\ part = "registry" => R!NoPollAfterFree /\ R!CallbacksAlive
                   /\ part = "publication" => P!NoUseAfterFree
                   /\ part = "image" => I!NoUseAfterFree
           Reported == part = "publication" => P!ClosedIsReported
<1>1. OwnersInv => Safe
  <2>1. HandleInv => P!NoUseAfterFree
    BY DEF HandleInv, PointerGood, Destroyed, P!NoUseAfterFree
  <2>2. QED
    BY <2>1, RegistrySafe, ImageSafe DEF OwnersInv
<1>2. OwnersInv /\ [Next]_vars => [Reported]_vars
  BY StepOfPart, HandleReports DEF OwnersInv
<1> HIDE DEF Safe, Reported
<1>3. Spec => []Safe /\ [][Reported]_vars
  BY <1>1, <1>2, OwnersInit, OwnersStep, PTL DEF Spec
<1>4. QED
  BY <1>3 DEF NoUseAfterFree, Safe, Reported

-----------------------------------------------------------------------------
(***************************************************************************)
(* The error log is exact, for every number of threads and errors, every   *)
(* length of their texts and every capacity of the buffer.  The inductive  *)
(* invariant has a part for the records and their writers, one for the     *)
(* counts and one for the reader.                                          *)
(***************************************************************************)

Length(e) == E!HEADER_LENGTH + TextLength[e]
Off(k) == observations[k].offset
Err(k) == observations[k].error
End(k) == E!Align(Off(k) + Length(Err(k)))
Known == 1 .. numObservations

Writing(t) == call[t].pc \in {"text", "publish", "length"}

(***************************************************************************)
(* The state of the log, its writers and its buffer.                       *)
(***************************************************************************)
Times == Nat \ {0}
Offsets == 0 .. Capacity
Entry == [length : Nat, count : Nat, last : Nat, first : Nat, text : ErrorKinds \cup {E!NoText}]

Observation == [error : ErrorKinds, offset : Offsets]

Finding == [pc : {"find"}, error : ErrorKinds, time : Times]
Waiting == [pc : {"lock"}, error : ErrorKinds, time : Times, seen : Nat]
Filling == [pc : {"text", "publish", "length"}, error : ErrorKinds, time : Times,
            offset : Offsets, length : Nat]
Adding == [pc : {"count", "last"}, error : ErrorKinds, time : Times, offset : Offsets]
RecordCalls == {E!Idle} \cup Finding \cup Waiting \cup Filling \cup Adding

LogType ==
  /\ observations \in Seq(Observation)
  /\ numObservations = Len(observations)
  /\ nextOffset \in Nat /\ clock \in Times
  /\ buffer \in [Offsets -> Entry] /\ recorded \in [ErrorKinds -> Nat]
  /\ call \in [Threads -> RecordCalls]

(* The records lie one behind the other from the beginning of the buffer.  *)
Chain ==
  /\ \A k \in Known : Off(k) + Length(Err(k)) <= Capacity /\ E!Align(Off(k)) = Off(k)
  /\ \A j, k \in Known : j < k => End(j) <= Off(k)
  /\ \A k \in Known : End(k) <= nextOffset
  /\ \A k \in Known : k > 1 => Off(k) = End(k - 1)
  /\ IF numObservations = 0 THEN nextOffset = 0 ELSE Off(1) = 0 /\ nextOffset = End(numObservations)
  /\ 6 * numObservations <= nextOffset /\ 6 * numObservations <= Capacity

Distinct == \A j, k \in Known : j # k => Err(j) # Err(k)

(* What a thread relies on between the steps of a call of record. *)
Writer(t) ==
  /\ Writing(t) => lock = t
  /\ call[t].pc = "lock" =>
       call[t].seen <= numObservations /\ \A k \in 1 .. call[t].seen : Err(k) # call[t].error
  /\ Writing(t) => call[t].length = Length(call[t].error)
  /\ call[t].pc \in {"text", "publish"} =>
       /\ call[t].offset = nextOffset /\ nextOffset + call[t].length <= Capacity
       /\ \A k \in Known : Err(k) # call[t].error
  /\ call[t].pc = "publish" =>
       buffer[call[t].offset].text = call[t].error /\ buffer[call[t].offset].first > 0
  /\ call[t].pc = "length" =>
       /\ numObservations > 0 /\ Off(numObservations) = call[t].offset
       /\ Err(numObservations) = call[t].error
  /\ call[t].pc \in {"count", "last"} =>
       \E k \in Known : Off(k) = call[t].offset /\ Err(k) = call[t].error

Writers == \A t \in Threads : Writer(t)

(* What the buffer holds: a record is whole, and visible unless its writer *)
(* is about to show it.                                                    *)
Entries ==
  /\ \A k \in Known :
       /\ buffer[Off(k)].text = Err(k) /\ buffer[Off(k)].first > 0
       /\ \/ buffer[Off(k)].length = Length(Err(k))
          \/ /\ buffer[Off(k)].length = 0 /\ k = numObservations
             /\ lock \in Threads /\ call[lock].pc = "length"
  /\ \A o \in Offsets : (\A k \in Known : Off(k) # o) => buffer[o].length = 0 /\ buffer[o].count = 0

LogInv == LogType /\ Chain /\ Distinct /\ Writers /\ Entries

-----------------------------------------------------------------------------
(* The assumptions of the suite about the error log. *)
LEMMA LogConstants ==
  /\ Capacity \in Nat /\ "none" \notin Threads
  /\ \A e \in ErrorKinds : Length(e) \in Nat /\ Length(e) > 6
BY SuiteAssumption DEF E!ErrorLogAssumption, Length, E!HEADER_LENGTH

(* Alignment rounds up, and leaves an aligned number alone. *)
LEMMA Alignment ==
  /\ \A n \in Nat : E!Align(n) \in Nat /\ E!Align(n) >= n /\ E!Align(E!Align(n)) = E!Align(n)
  /\ \A m, n \in Nat : E!Align(m) = m => E!Align(m + n) = m + E!Align(n)
BY DEF E!Align, E!RECORD_ALIGNMENT

(* The fields of a call of record, by where it is. *)
LEMMA RecordFields ==
  ASSUME NEW c \in RecordCalls
  PROVE  /\ c.pc \in {"idle", "find", "lock", "text", "publish", "length", "count", "last"}
         /\ c.pc = "idle" => c = E!Idle
         /\ c.pc # "idle" => c # E!Idle /\ c.error \in ErrorKinds /\ c.time \in Times
         /\ c.pc = "lock" => c.seen \in Nat
         /\ c.pc \in {"text", "publish", "length", "count", "last"} => c.offset \in Offsets
         /\ c.pc \in {"text", "publish", "length"} => c.length \in Nat
<1>1. CASE c = E!Idle
  BY <1>1 DEF E!Idle
<1>2. CASE c \in Finding
  BY <1>2 DEF Finding, E!Idle
<1>3. CASE c \in Waiting
  BY <1>3 DEF Waiting, E!Idle
<1>4. CASE c \in Filling
  BY <1>4 DEF Filling, E!Idle
<1>5. CASE c \in Adding
  BY <1>5 DEF Adding, E!Idle
<1>6. QED
  BY <1>1, <1>2, <1>3, <1>4, <1>5 DEF RecordCalls

(* The steps of a call as records. *)
LEMMA CallSteps ==
  ASSUME NEW c \in RecordCalls
  PROVE  /\ c.pc = "text" => /\ [c EXCEPT !.pc = "publish"] \in RecordCalls
                             /\ [c EXCEPT !.pc = "publish"].pc = "publish"
                             /\ [c EXCEPT !.pc = "publish"].error = c.error
                             /\ [c EXCEPT !.pc = "publish"].offset = c.offset
                             /\ [c EXCEPT !.pc = "publish"].length = c.length
         /\ c.pc = "publish" => /\ [c EXCEPT !.pc = "length"] \in RecordCalls
                                /\ [c EXCEPT !.pc = "length"].pc = "length"
                                /\ [c EXCEPT !.pc = "length"].error = c.error
                                /\ [c EXCEPT !.pc = "length"].offset = c.offset
                                /\ [c EXCEPT !.pc = "length"].length = c.length
         /\ c.pc = "count" => /\ [c EXCEPT !.pc = "last"] \in RecordCalls
                              /\ [c EXCEPT !.pc = "last"].pc = "last"
                              /\ [c EXCEPT !.pc = "last"].error = c.error
                              /\ [c EXCEPT !.pc = "last"].offset = c.offset
<1>1. ASSUME c.pc \in {"text", "publish"} PROVE c \in Filling
  BY <1>1 DEF RecordCalls, E!Idle, Finding, Waiting, Adding
<1>2. ASSUME c.pc = "count" PROVE c \in Adding
  BY <1>2 DEF RecordCalls, E!Idle, Finding, Waiting, Filling
<1>3. CASE c.pc \in {"text", "publish"}
  BY <1>1, <1>3 DEF RecordCalls, Filling
<1>4. CASE c.pc = "count"
  BY <1>2, <1>4 DEF RecordCalls, Adding
<1>5. QED
  BY <1>3, <1>4

(* ToCount makes a call that is to count. *)
LEMMA CallToCount ==
  ASSUME NEW c \in RecordCalls, c.pc # "idle", NEW o \in Offsets
  PROVE  /\ E!ToCount(c, o) \in RecordCalls
         /\ E!ToCount(c, o).pc = "count"
         /\ E!ToCount(c, o).error = c.error
         /\ E!ToCount(c, o).offset = o
<1>1. c.error \in ErrorKinds /\ c.time \in Times
  BY RecordFields
<1>2. E!ToCount(c, o) \in Adding
  BY <1>1 DEF E!ToCount, Adding
<1>3. QED
  BY <1>2 DEF E!ToCount, RecordCalls

(* The state of the log in the form the proofs use. *)
LEMMA LogFacts ==
  ASSUME LogType
  PROVE  /\ numObservations \in Nat /\ Known = DOMAIN observations
         /\ \A k \in Known : Err(k) \in ErrorKinds /\ Off(k) \in Offsets /\ Off(k) \in Nat
         /\ \A k \in Known : Off(k) + Length(Err(k)) \in Nat /\ End(k) \in Nat
         /\ \A k \in Known : End(k) >= Off(k) + Length(Err(k))
         /\ \A k \in Known : End(k) > Off(k) + 6
<1>1. numObservations \in Nat /\ Known = DOMAIN observations
  BY DEF LogType, Known
<1>2. \A k \in Known : Err(k) \in ErrorKinds /\ Off(k) \in Offsets /\ Off(k) \in Nat
  <2>1. \A k \in Known : observations[k] \in Observation
    BY DEF LogType, Known
  <2>2. QED
    BY <2>1, LogConstants DEF Observation, Err, Off, Offsets
<1>3. \A k \in Known : Off(k) + Length(Err(k)) \in Nat /\ Length(Err(k)) \in Nat /\ Length(Err(k)) > 6
  BY <1>2, LogConstants
<1>4. \A k \in Known : End(k) \in Nat /\ End(k) >= Off(k) + Length(Err(k))
  BY <1>3, Alignment DEF End
<1>5. QED
  BY <1>1, <1>2, <1>3, <1>4

(* The records do not overlap, and the next one begins behind them. *)
LEMMA Apart ==
  ASSUME LogType, Chain
  PROVE  /\ \A k \in Known : Off(k) < nextOffset
         /\ \A j, k \in Known : j # k => Off(j) # Off(k)
         /\ \A j, k \in Known : j < k => Off(j) < Off(k)
<1>1. \A k \in Known : Off(k) < nextOffset
  BY LogFacts DEF Chain, LogType
<1>2. \A j, k \in Known : j < k => Off(j) < Off(k)
  BY LogFacts DEF Chain
<1>3. \A j, k \in Known : j # k => j < k \/ k < j
  BY LogFacts DEF Known
<1>4. QED
  BY <1>1, <1>2, <1>3, LogFacts


-----------------------------------------------------------------------------
(***************************************************************************)
(* The log and its writers: one lemma per action.                          *)
(***************************************************************************)
LEMMA LogInvInit ==
  ASSUME E!Init
  PROVE  LogInv
<1>1. LogType
  <2>1. buffer \in [Offsets -> Entry]
    BY DEF E!Init, Offsets, Entry
  <2>2. call \in [Threads -> RecordCalls]
    BY DEF E!Init, RecordCalls
  <2>3. QED
    BY <2>1, <2>2 DEF E!Init, LogType, Times
<1>2. Known = {}
  BY DEF E!Init, Known
<1>3. \A t \in Threads : call[t].pc = "idle"
  BY DEF E!Init, E!Idle
<1>4. Chain /\ Distinct
  BY <1>2, LogConstants DEF Chain, Distinct, E!Init
<1>5. Writers
  BY <1>3 DEF Writers, Writer, Writing
<1>6. Entries
  BY <1>2 DEF Entries, E!Init, Offsets
<1>7. QED
  BY <1>1, <1>4, <1>5, <1>6 DEF LogInv

(* A step that changes nothing of the log. *)
LEMMA LogUnchanged ==
  ASSUME LogInv, UNCHANGED <<buffer, observations, numObservations, nextOffset, lock, call, recorded>>,
         clock' \in Times
  PROVE  LogInv'
BY DEF LogInv, LogType, Chain, Distinct, Writers, Writer, Entries, Known, Off, Err, End, Writing, Length

(* A step that changes the call of one thread, which is not writing. *)
LEMMA LogOneCall ==
  ASSUME LogInv, NEW t \in Threads, NEW c \in RecordCalls, call' = [call EXCEPT ![t] = c],
         UNCHANGED <<buffer, observations, numObservations, nextOffset, lock, clock, recorded>>,
         ~Writing(t), Writer(t)'
  PROVE  LogInv'
<1>1. LogType' /\ Chain' /\ Distinct'
  BY DEF LogInv, LogType, Chain, Distinct, Known, Off, Err, End, Length
<1>2. \A u \in Threads : u # t => call'[u] = call[u]
  BY DEF LogInv, LogType
<1>3. Writers'
  BY <1>2 DEF LogInv, Writers, Writer, Writing, Known, Off, Err, Length
<1>4. Entries'
  <2>1. call[t].pc # "length"
    BY DEF Writing
  <2>2. QED
    BY <1>2, <2>1 DEF LogInv, Entries, Known, Off, Err, Length
<1>5. QED
  BY <1>1, <1>3, <1>4 DEF LogInv

LEMMA LogRecord ==
  ASSUME LogInv, NEW t \in Threads, E!record(t)
  PROVE  LogInv'
<1>1. PICK error \in ErrorKinds :
        call' = [call EXCEPT ![t] = [pc |-> "find", error |-> error, time |-> clock]]
  BY DEF E!record
<1> DEFINE c == [pc |-> "find", error |-> error, time |-> clock]
<1>2. c \in RecordCalls
  BY DEF LogInv, LogType, RecordCalls, Finding
<1>3. call'[t].pc = "find"
  BY <1>1 DEF LogInv, LogType
<1>4. Writer(t)'
  BY <1>3 DEF Writer, Writing
<1>5. ~Writing(t)
  BY DEF E!record, E!Idle, Writing
<1>6. QED
  BY <1>1, <1>2, <1>4, <1>5, LogOneCall DEF E!record, E!LogState

(* A thread that found the error goes on to count it. *)
LEMMA LogToCount ==
  ASSUME LogInv, NEW t \in Threads, ~Writing(t), call[t].pc # "idle", NEW k \in Known,
         Err(k) = call[t].error,
         call' = [call EXCEPT ![t] = E!ToCount(call[t], observations[k].offset)],
         UNCHANGED <<buffer, observations, numObservations, nextOffset, lock, clock, recorded>>
  PROVE  LogInv'
<1> DEFINE c == E!ToCount(call[t], observations[k].offset)
<1>1. call[t] \in RecordCalls /\ Off(k) \in Offsets
  BY LogFacts DEF LogInv, LogType
<1>2. c \in RecordCalls /\ c.pc = "count" /\ c.error = call[t].error /\ c.offset = Off(k)
  BY <1>1, CallToCount DEF Off
<1> HIDE DEF c
<1>3. call' = [call EXCEPT ![t] = c] /\ call'[t] = c
  BY DEF c, LogInv, LogType
<1>4. Writer(t)'
  BY <1>2, <1>3 DEF Writer, Writing, Known, Off, Err
<1>5. QED
  BY <1>2, <1>3, <1>4, LogOneCall

LEMMA LogFind ==
  ASSUME LogInv, NEW t \in Threads, E!Find(t)
  PROVE  LogInv'
<1> DEFINE found == E!findObservation(numObservations, call[t].error)
<1>0. call[t] \in RecordCalls /\ call[t].pc = "find" /\ ~Writing(t)
  BY DEF LogInv, LogType, E!Find, Writing
<1>1. CASE found = {}
  <2> DEFINE c == [pc |-> "lock", error |-> call[t].error, time |-> call[t].time,
                   seen |-> numObservations]
  <2>1. c \in RecordCalls
    BY <1>0, RecordFields, LogFacts DEF LogInv, RecordCalls, Waiting
  <2>2. call' = [call EXCEPT ![t] = c]
    BY <1>1 DEF E!Find
  <2>3. call'[t] = c
    BY <2>2 DEF LogInv, LogType
  <2>4. \A k \in Known : Err(k) # call[t].error
    BY <1>1 DEF E!findObservation, Known, Err
  <2>5. Writer(t)'
    <3>1. /\ call'[t].pc = "lock" /\ call'[t].seen = numObservations
          /\ call'[t].error = call[t].error
      BY <2>3
    <3>2. observations' = observations /\ numObservations' = numObservations
      BY DEF E!Find, E!LogState
    <3>3. numObservations \in Nat
      BY LogFacts DEF LogInv
    <3>4. QED
      BY <2>4, <3>1, <3>2, <3>3 DEF Writer, Writing, Err, Known
  <2>6. QED
    BY <1>0, <2>1, <2>2, <2>5, LogOneCall DEF E!Find, E!LogState
<1>2. CASE found # {}
  <2>1. PICK k \in found : k = CHOOSE j \in found : TRUE
    BY <1>2
  <2>2. k \in Known /\ Err(k) = call[t].error
    BY DEF E!findObservation, Known, Err
  <2>3. call' = [call EXCEPT ![t] = E!ToCount(call[t], observations[k].offset)]
    BY <1>2, <2>1 DEF E!Find
  <2>4. QED
    BY <1>0, <2>2, <2>3, LogToCount DEF E!Find, E!LogState
<1>3. QED
  BY <1>1, <1>2

LEMMA LogNewObservation ==
  ASSUME LogInv, NEW t \in Threads, E!newObservation(t)
  PROVE  LogInv'
<1> DEFINE found == E!SearchAgain(t)
           length == E!HEADER_LENGTH + TextLength[call[t].error]
<1>0. /\ call[t] \in RecordCalls /\ call[t].pc = "lock" /\ ~Writing(t)
      /\ call[t].error \in ErrorKinds /\ call[t].time \in Times /\ call[t].seen \in Nat
      /\ length = Length(call[t].error) /\ length \in Nat
  <2>1. call[t] \in RecordCalls /\ call[t].pc = "lock" /\ ~Writing(t)
    BY DEF LogInv, LogType, E!newObservation, Writing
  <2>2. QED
    BY <2>1, RecordFields, LogConstants DEF Length
<1>1. /\ numObservations \in Nat /\ call[t].seen <= numObservations
      /\ \A k \in 1 .. call[t].seen : Err(k) # call[t].error
  BY <1>0, LogFacts DEF LogInv, Writers, Writer
<1>2. CASE found # {}
  <2>1. PICK k \in found : k = CHOOSE j \in found : TRUE
    BY <1>2
  <2>2. k \in Known /\ Err(k) = call[t].error
    BY DEF E!SearchAgain, E!findObservation, Known, Err
  <2>3. /\ call' = [call EXCEPT ![t] = E!ToCount(call[t], observations[k].offset)]
        /\ UNCHANGED lock
    BY <1>2, <2>1 DEF E!newObservation
  <2>4. QED
    BY <1>0, <2>2, <2>3, LogToCount DEF E!newObservation, E!LogState
<1>3. CASE found = {} /\ nextOffset + length > Capacity
  <2>1. call' = [call EXCEPT ![t] = E!Idle] /\ UNCHANGED lock
    BY <1>3, LogConstants, <1>0 DEF E!newObservation, LogInv, LogType
  <2>2. E!Idle \in RecordCalls
    BY DEF RecordCalls
  <2>3. call'[t].pc = "idle"
    BY <2>1 DEF LogInv, LogType, E!Idle
  <2>4. Writer(t)'
    BY <2>3 DEF Writer, Writing
  <2>5. QED
    BY <1>0, <2>1, <2>2, <2>4, LogOneCall DEF E!newObservation, E!LogState
<1>4. CASE found = {} /\ nextOffset + length <= Capacity
  <2> DEFINE c == [pc |-> "text", error |-> call[t].error, time |-> call[t].time,
                   offset |-> nextOffset, length |-> length]
  <2>1. call' = [call EXCEPT ![t] = c] /\ lock' = t /\ lock = "none"
    BY <1>4, LogConstants, <1>0 DEF E!newObservation, LogInv, LogType, E!None
  <2>2. nextOffset \in Offsets
    BY <1>0, <1>4, LogConstants DEF LogInv, LogType, Offsets
  <2>3. c \in RecordCalls
    <3> HIDE DEF length
    <3>1. c \in Filling
      BY <1>0, <2>2 DEF Filling
    <3>2. QED
      BY <3>1 DEF RecordCalls
  <2>4. call'[t] = c /\ \A u \in Threads : u # t => call'[u] = call[u]
    BY <2>1 DEF LogInv, LogType
  <2>5. /\ call'[t].pc = "text" /\ call'[t].offset = nextOffset
        /\ call'[t].length = length /\ call'[t].error = call[t].error
    BY <2>4
  <2>6. /\ buffer' = buffer /\ observations' = observations /\ numObservations' = numObservations
        /\ nextOffset' = nextOffset /\ clock' = clock /\ recorded' = recorded
    BY DEF E!newObservation, E!LogState
  <2>7. LogType' /\ Chain' /\ Distinct'
    BY <2>1, <2>3, <2>6 DEF LogInv, LogType, Chain, Distinct, Known, Off, Err, End, Length
  <2>8. \A k \in Known : Err(k) # call[t].error
    <3>1. CASE call[t].seen = numObservations
      BY <3>1, <1>1 DEF Known
    <3>2. CASE call[t].seen # numObservations
      BY <3>2, <1>4 DEF E!SearchAgain, E!findObservation, Known, Err
    <3>3. QED
      BY <3>1, <3>2
  <2>9. Writer(t)'
    BY <1>0, <1>4, <2>1, <2>5, <2>6, <2>8 DEF Writer, Writing, Known, Err, Off, Length
  <2>10. \A u \in Threads : ~Writing(u)
    BY <2>1, LogConstants DEF LogInv, Writers, Writer
  <2>11. Writers'
    BY <2>4, <2>6, <2>9, <2>10 DEF LogInv, Writers, Writer, Writing, Known, Off, Err, Length
  <2>12. Entries'
    BY <2>1, <2>6, LogConstants DEF LogInv, Entries, Known, Off, Err, Length
  <2>13. QED
    BY <2>7, <2>11, <2>12 DEF LogInv
<1>5. QED
  BY <1>0, <1>2, <1>3, <1>4, LogConstants DEF LogInv, LogType

(* The thread that writes a record is alone. *)
LEMMA OneWriter ==
  ASSUME LogInv, NEW t \in Threads, Writing(t)
  PROVE  lock = t /\ \A u \in Threads : u # t => ~Writing(u)
BY DEF LogInv, Writers, Writer

LEMMA LogPutText ==
  ASSUME LogInv, NEW t \in Threads, E!putText(t)
  PROVE  LogInv'
<1> DEFINE c == [call[t] EXCEPT !.pc = "publish"]
<1>0. call[t] \in RecordCalls /\ call[t].pc = "text" /\ Writing(t)
  BY DEF LogInv, LogType, E!putText, Writing
<1>1. /\ call[t].error \in ErrorKinds /\ call[t].time \in Times /\ call[t].offset \in Offsets
      /\ call[t].offset = nextOffset /\ call[t].length = Length(call[t].error)
  BY <1>0, RecordFields DEF LogInv, Writers, Writer
<1>2. /\ c \in RecordCalls /\ c.pc = "publish" /\ c.error = call[t].error
      /\ c.offset = nextOffset /\ c.length = call[t].length
  BY <1>0, <1>1, CallSteps
<1> HIDE DEF c
<1>3. call' = [call EXCEPT ![t] = c] /\ call'[t] = c /\ \A u \in Threads : u # t => call'[u] = call[u]
  BY DEF LogInv, LogType, E!putText, c
<1>4. /\ observations' = observations /\ numObservations' = numObservations /\ lock' = lock
      /\ nextOffset' = nextOffset /\ clock' = clock /\ recorded' = recorded
  BY DEF E!putText, E!LogState
<1>5. /\ buffer' \in [Offsets -> Entry]
      /\ buffer'[nextOffset].text = call[t].error /\ buffer'[nextOffset].first = call[t].time
      /\ \A o \in Offsets : o # nextOffset => buffer'[o] = buffer[o]
      /\ \A o \in Offsets : buffer'[o].length = buffer[o].length /\ buffer'[o].count = buffer[o].count
  <2>1. buffer' = [buffer EXCEPT ![nextOffset] = [@ EXCEPT !.text = call[t].error, !.first = call[t].time]]
    BY <1>1 DEF E!putText, LogInv, LogType
  <2>2. buffer[nextOffset] \in Entry
    BY <1>1 DEF LogInv, LogType
  <2> DEFINE r == [buffer[nextOffset] EXCEPT !.text = call[t].error, !.first = call[t].time]
  <2>3. /\ r \in Entry /\ r.text = call[t].error /\ r.first = call[t].time
        /\ r.length = buffer[nextOffset].length /\ r.count = buffer[nextOffset].count
    BY <1>1, <2>2 DEF Entry, Times
  <2> HIDE DEF r
  <2>4. buffer' = [buffer EXCEPT ![nextOffset] = r]
    BY <2>1 DEF r
  <2>5. QED
    BY <1>1, <2>3, <2>4 DEF LogInv, LogType
<1>6. LogType' /\ Chain' /\ Distinct'
  BY <1>2, <1>3, <1>4, <1>5 DEF LogInv, LogType, Chain, Distinct, Known, Off, Err, End, Length
<1>7. Writer(t)'
  <2>1. call'[t].pc = "publish" /\ call'[t].offset = nextOffset /\ call'[t].error = call[t].error /\ call'[t].length = call[t].length
    BY <1>2, <1>3
  <2>2. buffer'[nextOffset].first > 0
    BY <1>1, <1>5 DEF Times
  <2>3. QED
    BY <1>0, <1>1, <1>4, <1>5, <2>1, <2>2 DEF LogInv, Writers, Writer, Writing, Known, Err, Length
<1>8. Writers'
  BY <1>0, <1>3, <1>4, <1>7, OneWriter DEF LogInv, Writers, Writer, Writing, Known, Off, Err, Length
<1>9. Entries'
  <2>1. \A k \in Known : Off(k) # nextOffset /\ Off(k) \in Offsets
    BY Apart, LogFacts DEF LogInv, LogType
  <2>2. ~(lock \in Threads /\ call[lock].pc = "length")
    BY <1>0, OneWriter
  <2>3. QED
    BY <1>4, <1>5, <2>1, <2>2 DEF LogInv, Entries, Known, Off, Err, Length
<1>10. QED
  BY <1>6, <1>8, <1>9 DEF LogInv

(* Publishing puts one observation behind those that are known. *)
LEMMA Published ==
  ASSUME LogInv, NEW t \in Threads, E!publish(t)
  PROVE  /\ numObservations' = numObservations + 1
         /\ observations' \in Seq(Observation) /\ Len(observations') = numObservations + 1
         /\ Known' = Known \cup {numObservations + 1} /\ numObservations + 1 \notin Known
         /\ \A k \in Known : observations'[k] = observations[k]
         /\ observations'[numObservations + 1].offset = nextOffset
         /\ observations'[numObservations + 1].error = call[t].error
         /\ nextOffset' = E!Align(nextOffset + Length(call[t].error)) /\ nextOffset' \in Nat
         /\ nextOffset' >= nextOffset + Length(call[t].error)
         /\ E!Align(nextOffset) = nextOffset /\ nextOffset \in Offsets
<1> DEFINE o == [error |-> call[t].error, offset |-> call[t].offset]
<1>0. call[t] \in RecordCalls /\ call[t].pc = "publish" /\ Writing(t)
  BY DEF LogInv, LogType, E!publish, Writing
<1>1. /\ call[t].error \in ErrorKinds /\ call[t].offset \in Offsets /\ call[t].offset = nextOffset
      /\ call[t].length = Length(call[t].error) /\ nextOffset \in Nat
      /\ Length(call[t].error) \in Nat
  BY <1>0, RecordFields, LogConstants DEF LogInv, LogType, Writers, Writer
<1>2. o \in Observation /\ o.error = call[t].error /\ o.offset = nextOffset
  BY <1>1 DEF Observation
<1>3. /\ observations' = Append(observations, o) /\ numObservations' = numObservations + 1
      /\ nextOffset' = E!Align(nextOffset + Length(call[t].error))
  BY <1>1 DEF E!publish, E!NextOffset
<1> HIDE DEF o
<1>4. /\ observations' \in Seq(Observation) /\ Len(observations') = numObservations + 1
      /\ observations'[numObservations + 1] = o
      /\ \A k \in Known : observations'[k] = observations[k]
  BY <1>2, <1>3 DEF LogInv, LogType, Known
<1>5. Known' = Known \cup {numObservations + 1} /\ numObservations + 1 \notin Known
  BY <1>3, LogFacts DEF Known, LogInv
<1>6. nextOffset' \in Nat /\ nextOffset' >= nextOffset + Length(call[t].error)
  BY <1>1, <1>3, Alignment
<1>7. E!Align(nextOffset) = nextOffset
  <2>1. CASE numObservations = 0
    BY <2>1 DEF LogInv, Chain, E!Align, E!RECORD_ALIGNMENT
  <2>2. CASE numObservations # 0
    <3>1. numObservations \in Known /\ nextOffset = End(numObservations)
      BY <2>2, LogFacts DEF LogInv, Chain, Known
    <3>2. QED
      BY <3>1, LogFacts, Alignment DEF LogInv, End
  <2>3. QED
    BY <2>1, <2>2
<1>8. QED
  BY <1>1, <1>2, <1>3, <1>4, <1>5, <1>6, <1>7

LEMMA LogPublish ==
  ASSUME LogInv, NEW t \in Threads, E!publish(t)
  PROVE  LogInv'
<1> DEFINE c == [call[t] EXCEPT !.pc = "length"]
<1>0. call[t] \in RecordCalls /\ call[t].pc = "publish" /\ Writing(t)
  BY DEF LogInv, LogType, E!publish, Writing
<1>1. /\ call[t].error \in ErrorKinds /\ call[t].offset = nextOffset
      /\ call[t].length = Length(call[t].error)
      /\ nextOffset \in Nat /\ numObservations \in Nat
      /\ nextOffset + Length(call[t].error) <= Capacity
      /\ Length(call[t].error) \in Nat /\ Length(call[t].error) > 6
      /\ \A k \in Known : Err(k) # call[t].error
      /\ buffer[nextOffset].text = call[t].error /\ buffer[nextOffset].first > 0
  BY <1>0, RecordFields, LogFacts, LogConstants DEF LogInv, LogType, Writers, Writer
<1>2. /\ c \in RecordCalls /\ c.pc = "length" /\ c.error = call[t].error
      /\ c.offset = nextOffset /\ c.length = call[t].length
  BY <1>0, <1>1, CallSteps
<1> HIDE DEF c
<1>3. call' = [call EXCEPT ![t] = c] /\ call'[t] = c /\ \A u \in Threads : u # t => call'[u] = call[u]
  BY DEF LogInv, LogType, E!publish, c
<1>4. /\ buffer' = buffer /\ lock' = lock /\ clock' = clock /\ recorded' = recorded
  BY DEF E!publish
<1>n. PICK n \in Nat : n = numObservations + 1
  BY <1>1
<1>5. /\ Known' = Known \cup {n} /\ n \notin Known /\ n \in Nat
      /\ \A k \in Known : k \in Nat /\ k < n /\ k >= 1
  BY <1>1, <1>n, Published DEF Known
<1>6. /\ \A k \in Known : Off(k)' = Off(k) /\ Err(k)' = Err(k) /\ End(k)' = End(k)
      /\ Off(n)' = nextOffset /\ Err(n)' = call[t].error /\ End(n)' = nextOffset'
  BY <1>n, Published DEF Off, Err, End, Length
<1>7. LogType'
  BY <1>2, <1>3, <1>4, Published DEF LogInv, LogType
<1>8. Distinct'
  BY <1>1, <1>5, <1>6 DEF LogInv, Distinct
<1>9. Chain'
  <2>1. \A k \in Known' : (Off(k) + Length(Err(k)) <= Capacity /\ E!Align(Off(k)) = Off(k))'
    BY <1>1, <1>5, <1>6, Published DEF LogInv, Chain, Length
  <2>2. \A k \in Known : End(k) <= nextOffset /\ End(k) \in Nat
    BY LogFacts DEF LogInv, Chain
  <2>3. nextOffset' \in Nat /\ nextOffset' > nextOffset + 6
    BY <1>1, Published
  <2>4. \A j, k \in Known' : j < k => (End(j) <= Off(k))'
    <3> SUFFICES ASSUME NEW j \in Known', NEW k \in Known', j < k
                 PROVE  (End(j) <= Off(k))'
      OBVIOUS
    <3>1. j \in Known
      BY <1>5
    <3>2. CASE k \in Known
      BY <3>1, <3>2, <1>6 DEF LogInv, Chain
    <3>3. CASE k = n
      BY <3>1, <3>3, <1>6, <2>2
    <3>4. QED
      BY <3>2, <3>3, <1>5
  <2>5. \A k \in Known' : (End(k) <= nextOffset)'
    BY <1>1, <1>5, <1>6, <2>2, <2>3
  <2>6. \A k \in Known' : k > 1 => Off(k)' = End(k - 1)'
    <3> SUFFICES ASSUME NEW k \in Known', k > 1
                 PROVE  Off(k)' = End(k - 1)'
      OBVIOUS
    <3>1. k - 1 \in Known
      BY <1>1, <1>n, <1>5 DEF Known
    <3>2. CASE k \in Known
      BY <3>1, <3>2, <1>6 DEF LogInv, Chain
    <3>3. CASE k = n
      <4>1. k - 1 = numObservations /\ numObservations # 0
        BY <3>1, <3>3, <1>n, <1>1 DEF Known
      <4>2. nextOffset = End(numObservations)
        BY <4>1 DEF LogInv, Chain
      <4>3. QED
        BY <3>1, <3>3, <4>1, <4>2, <1>6
    <3>4. QED
      BY <3>2, <3>3, <1>5
  <2>7. Off(1)' = 0
    <3>1. CASE numObservations = 0
      BY <3>1, <1>n, <1>6 DEF LogInv, Chain
    <3>2. CASE numObservations # 0
      BY <3>2, <1>1, <1>6 DEF LogInv, Chain, Known
    <3>3. QED
      BY <3>1, <3>2
  <2>8. numObservations' # 0 /\ nextOffset' = End(numObservations)'
    BY <1>1, <1>n, <1>6, Published
  <2>9. (6 * numObservations <= nextOffset)' /\ (6 * numObservations <= Capacity)'
    <3>1. 6 * numObservations <= nextOffset
      BY DEF LogInv, Chain
    <3>2. numObservations' = numObservations + 1
      BY Published
    <3>3. QED
      BY <3>1, <3>2, <1>1, <2>3, LogConstants
  <2>10. QED
    BY <2>1, <2>4, <2>5, <2>6, <2>7, <2>8, <2>9 DEF Chain
<1>10. Writer(t)'
  <2>1. /\ call'[t].pc = "length" /\ call'[t].offset = nextOffset
        /\ call'[t].error = call[t].error /\ call'[t].length = call[t].length
    BY <1>2, <1>3
  <2>2. lock' = t
    BY <1>0, <1>4, OneWriter
  <2>3. numObservations' = n /\ n > 0
    BY <1>1, <1>n, Published
  <2>4. QED
    BY <1>1, <1>6, <2>1, <2>2, <2>3 DEF Writer, Writing, Length
<1>11. ASSUME NEW u \in Threads, u # t
       PROVE  Writer(u)'
  <2>1. call'[u] = call[u] /\ ~Writing(u) /\ Writer(u) /\ call[u] \in RecordCalls
    BY <1>0, <1>3, <1>11, OneWriter DEF LogInv, Writers, LogType
  <2>2. CASE call[u].pc = "lock"
    <3>1. call[u].seen \in Nat /\ call[u].seen <= numObservations
      BY <2>1, <2>2, RecordFields DEF Writer
    <3>2. \A k \in 1 .. call[u].seen : k \in Known /\ Err(k) # call[u].error
      BY <2>1, <2>2, <3>1, <1>1 DEF Writer, Known
    <3>3. call[u].seen <= numObservations'
      BY <3>1, <1>1, Published
    <3>4. QED
      BY <2>1, <2>2, <3>2, <3>3, <1>6 DEF Writer, Writing
  <2>3. CASE call[u].pc \in {"count", "last"}
    <3>1. PICK k \in Known : Off(k) = call[u].offset /\ Err(k) = call[u].error
      BY <2>1, <2>3 DEF Writer
    <3>2. k \in Known' /\ Off(k)' = call'[u].offset /\ Err(k)' = call'[u].error
      BY <3>1, <2>1, <1>5, <1>6
    <3>3. QED
      BY <2>1, <2>3, <3>2 DEF Writer, Writing
  <2>4. QED
    BY <2>1, <2>2, <2>3 DEF Writer, Writing
<1>12. Entries'
  <2>1. lock = t
    BY <1>0, OneWriter
  <2>2. \A k \in Known : /\ buffer[Off(k)].text = Err(k) /\ buffer[Off(k)].first > 0
                         /\ buffer[Off(k)].length = Length(Err(k))
    BY <1>0, <2>1 DEF LogInv, Entries
  <2>3. nextOffset \in Offsets /\ \A k \in Known : Off(k) # nextOffset
    BY Apart, LogFacts, Published DEF LogInv, LogType
  <2>4. buffer[nextOffset].length = 0
    BY <2>3 DEF LogInv, Entries
  <2>5. lock' \in Threads /\ call'[lock'].pc = "length" /\ numObservations' = n
    BY <1>n, <1>2, <1>3, <1>4, <2>1, Published
  <2>6. \A k \in Known' :
          /\ buffer'[Off(k)'].text = Err(k)' /\ buffer'[Off(k)'].first > 0
          /\ \/ buffer'[Off(k)'].length = Length(Err(k)')
             \/ buffer'[Off(k)'].length = 0 /\ k = numObservations'
    BY <1>1, <1>4, <1>5, <1>6, <2>2, <2>4, <2>5
  <2>7. \A o \in Offsets : (\A k \in Known' : Off(k)' # o) => buffer'[o].length = 0 /\ buffer'[o].count = 0
    BY <1>4, <1>5, <1>6 DEF LogInv, Entries
  <2>8. QED
    BY <2>5, <2>6, <2>7 DEF Entries, Length, Offsets
<1>13. QED
  BY <1>7, <1>8, <1>9, <1>10, <1>11, <1>12 DEF LogInv, Writers

LEMMA LogPutLength ==
  ASSUME LogInv, NEW t \in Threads, E!putLength(t)
  PROVE  LogInv'
<1> DEFINE c == E!ToCount(call[t], call[t].offset)
           o == call[t].offset
<1>0. call[t] \in RecordCalls /\ call[t].pc = "length" /\ Writing(t)
  BY DEF LogInv, LogType, E!putLength, Writing
<1>1. /\ o \in Offsets /\ call[t].length \in Nat /\ call[t].length = Length(call[t].error)
      /\ numObservations \in Known
      /\ Off(numObservations) = o /\ Err(numObservations) = call[t].error
  BY <1>0, RecordFields, LogFacts DEF LogInv, LogType, Writers, Writer, Known
<1>2. /\ c \in RecordCalls /\ c.pc = "count" /\ c.error = call[t].error /\ c.offset = o
  BY <1>0, <1>1, CallToCount
<1> HIDE DEF c
<1>3. call' = [call EXCEPT ![t] = c] /\ call'[t] = c /\ \A u \in Threads : u # t => call'[u] = call[u]
  BY DEF LogInv, LogType, E!putLength, c
<1>4. /\ observations' = observations /\ numObservations' = numObservations /\ lock' = "none"
      /\ nextOffset' = nextOffset /\ clock' = clock /\ recorded' = recorded
  BY DEF E!putLength, E!LogState, E!None
<1>5. /\ buffer' \in [Offsets -> Entry] /\ buffer'[o].length = Length(call[t].error)
      /\ \A i \in Offsets : /\ i # o => buffer'[i] = buffer[i]
                            /\ buffer'[i].text = buffer[i].text /\ buffer'[i].first = buffer[i].first
                            /\ buffer'[i].count = buffer[i].count
  <2> DEFINE r == [buffer[o] EXCEPT !.length = call[t].length]
  <2>1. buffer[o] \in Entry
    BY <1>1 DEF LogInv, LogType
  <2>2. /\ r \in Entry /\ r.length = call[t].length /\ r.text = buffer[o].text
        /\ r.first = buffer[o].first /\ r.count = buffer[o].count
    BY <1>1, <2>1 DEF Entry
  <2>3. buffer' = [buffer EXCEPT ![o] = r]
    BY <1>1 DEF E!putLength, LogInv, LogType
  <2> HIDE DEF r
  <2>4. QED
    BY <1>1, <2>2, <2>3 DEF LogInv, LogType
<1>6. LogType' /\ Chain' /\ Distinct'
  BY <1>2, <1>3, <1>4, <1>5 DEF LogInv, LogType, Chain, Distinct, Known, Off, Err, End, Length
<1>7. Writer(t)'
  <2>1. call'[t].pc = "count" /\ call'[t].offset = o /\ call'[t].error = call[t].error
    BY <1>2, <1>3
  <2>2. QED
    BY <1>1, <1>4, <2>1 DEF Writer, Writing, Known, Off, Err
<1>8. Writers'
  BY <1>0, <1>3, <1>4, <1>7, OneWriter DEF LogInv, Writers, Writer, Writing, Known, Off, Err, Length
<1>9. Entries'
  <2>1. \A k \in Known : Off(k) \in Offsets /\ (k # numObservations => Off(k) # o)
    BY <1>1, Apart, LogFacts DEF LogInv
  <2>2. QED
    BY <1>1, <1>4, <1>5, <2>1 DEF LogInv, Entries, Known, Off, Err, Length
<1>10. QED
  BY <1>6, <1>8, <1>9 DEF LogInv

(* The record a thread counts in, or stores the time in, is a known one. *)
LEMMA CountsInRecord ==
  ASSUME LogInv, NEW t \in Threads, call[t].pc \in {"count", "last"}
  PROVE  /\ call[t].offset \in Offsets /\ call[t].error \in ErrorKinds /\ call[t].time \in Times
         /\ call[t] \in RecordCalls /\ ~Writing(t)
         /\ \E k \in Known : Off(k) = call[t].offset /\ Err(k) = call[t].error
<1>1. call[t] \in RecordCalls /\ ~Writing(t)
  BY DEF LogInv, LogType, Writing
<1>2. QED
  BY <1>1, RecordFields DEF LogInv, Writers, Writer

(* A step that changes only the count or the last time of a known record,  *)
(* and the call of the thread.                                             *)
LEMMA LogKeepsRecords ==
  ASSUME LogInv, NEW t \in Threads, NEW c \in RecordCalls, call' = [call EXCEPT ![t] = c],
         UNCHANGED <<observations, numObservations, nextOffset, lock, clock>>,
         recorded' \in [ErrorKinds -> Nat], buffer' \in [Offsets -> Entry],
         \A i \in Offsets : /\ buffer'[i].length = buffer[i].length
                            /\ buffer'[i].text = buffer[i].text /\ buffer'[i].first = buffer[i].first,
         \A i \in Offsets : (\A k \in Known : Off(k) # i) => buffer'[i].count = buffer[i].count,
         ~Writing(t), Writer(t)'
  PROVE  LogInv'
<1>1. LogType' /\ Chain' /\ Distinct'
  BY DEF LogInv, LogType, Chain, Distinct, Known, Off, Err, End, Length
<1>2. \A u \in Threads : u # t => call'[u] = call[u]
  BY DEF LogInv, LogType
<1>3. ASSUME NEW u \in Threads, u # t PROVE Writer(u)'
  <2>1. call[u] \in RecordCalls /\ Writer(u)
    BY DEF LogInv, LogType, Writers
  <2>2. call[u].pc = "publish" => call[u].offset \in Offsets
    BY <2>1, RecordFields
  <2>3. QED
    BY <1>2, <1>3, <2>1, <2>2 DEF Writer, Writing, Known, Off, Err, Length
<1>4. Entries'
  <2>1. \A k \in Known : Off(k) \in Offsets
    BY LogFacts DEF LogInv
  <2>2. call[t].pc # "length"
    BY DEF Writing
  <2>3. QED
    BY <1>2, <2>1, <2>2 DEF LogInv, Entries, Known, Off, Err, Length
<1>5. QED
  BY <1>1, <1>3, <1>4 DEF LogInv, Writers

(* What the two last steps of record do to the buffer. *)
LEMMA CountAdded ==
  ASSUME LogInv, NEW t \in Threads, E!addCount(t)
  PROVE  /\ buffer' \in [Offsets -> Entry]
         /\ buffer'[call[t].offset].count = buffer[call[t].offset].count + 1
         /\ \A i \in Offsets : /\ i # call[t].offset => buffer'[i] = buffer[i]
                               /\ buffer'[i].length = buffer[i].length
                               /\ buffer'[i].text = buffer[i].text /\ buffer'[i].first = buffer[i].first
<1> DEFINE o == call[t].offset
           n == buffer[o].count + 1
           r == [buffer[o] EXCEPT !.count = n]
<1>1. o \in Offsets
  BY CountsInRecord DEF E!addCount
<1>2. buffer[o] \in Entry /\ buffer \in [Offsets -> Entry]
  BY <1>1 DEF LogInv, LogType
<1>3. n \in Nat /\ buffer' = [buffer EXCEPT ![o] = r]
  BY <1>1, <1>2 DEF E!addCount, Entry
<1> HIDE DEF n, o
<1>4. /\ r \in Entry /\ r.count = n /\ r.length = buffer[o].length /\ r.text = buffer[o].text
      /\ r.first = buffer[o].first
  BY <1>2, <1>3 DEF Entry
<1> HIDE DEF r
<1>5. QED
  BY <1>1, <1>2, <1>3, <1>4 DEF n, o

LEMMA LastPut ==
  ASSUME LogInv, NEW t \in Threads, E!putLast(t)
  PROVE  /\ buffer' \in [Offsets -> Entry]
         /\ \A i \in Offsets : /\ buffer'[i].count = buffer[i].count /\ buffer'[i].length = buffer[i].length
                               /\ buffer'[i].text = buffer[i].text /\ buffer'[i].first = buffer[i].first
         /\ recorded' \in [ErrorKinds -> Nat]
         /\ recorded'[call[t].error] = recorded[call[t].error] + 1
         /\ \A e \in ErrorKinds : e # call[t].error => recorded'[e] = recorded[e]
<1> DEFINE o == call[t].offset
           r == [buffer[o] EXCEPT !.last = call[t].time]
<1>1. o \in Offsets /\ call[t].time \in Nat /\ call[t].error \in ErrorKinds
  BY CountsInRecord DEF E!putLast, Times
<1>2. buffer[o] \in Entry /\ buffer \in [Offsets -> Entry] /\ recorded \in [ErrorKinds -> Nat]
  BY <1>1 DEF LogInv, LogType
<1>3. buffer' = [buffer EXCEPT ![o] = r]
  BY <1>1, <1>2 DEF E!putLast
<1> HIDE DEF o
<1>4. /\ r \in Entry /\ r.count = buffer[o].count /\ r.length = buffer[o].length
      /\ r.text = buffer[o].text /\ r.first = buffer[o].first
  BY <1>1, <1>2 DEF Entry
<1> HIDE DEF r
<1>5. recorded' = [recorded EXCEPT ![call[t].error] = recorded[call[t].error] + 1]
  BY DEF E!putLast
<1>6. QED
  BY <1>1, <1>2, <1>3, <1>4, <1>5

LEMMA LogAddCount ==
  ASSUME LogInv, NEW t \in Threads, E!addCount(t)
  PROVE  LogInv'
<1> DEFINE c == [call[t] EXCEPT !.pc = "last"]
<1>0. call[t].pc = "count"
  BY DEF E!addCount
<1>1. c \in RecordCalls /\ c.pc = "last" /\ c.offset = call[t].offset /\ c.error = call[t].error
  BY <1>0, CountsInRecord, CallSteps
<1> HIDE DEF c
<1>2. call' = [call EXCEPT ![t] = c] /\ call'[t] = c
  BY DEF E!addCount, LogInv, LogType, c
<1>3. UNCHANGED <<observations, numObservations, nextOffset, lock, clock>> /\ recorded' = recorded
  BY DEF E!addCount, E!LogState
<1>4. PICK k \in Known : Off(k) = call[t].offset /\ Err(k) = call[t].error
  BY <1>0, CountsInRecord
<1>5. Writer(t)'
  BY <1>1, <1>2, <1>3, <1>4 DEF Writer, Writing, Known, Off, Err
<1>6. recorded' \in [ErrorKinds -> Nat]
  BY <1>3 DEF LogInv, LogType
<1>7. ~Writing(t)
  BY <1>0 DEF Writing
<1>8. QED
  BY <1>1, <1>2, <1>3, <1>4, <1>5, <1>6, <1>7, CountAdded, LogKeepsRecords

LEMMA LogPutLast ==
  ASSUME LogInv, NEW t \in Threads, E!putLast(t)
  PROVE  LogInv'
<1>1. call' = [call EXCEPT ![t] = E!Idle] /\ call'[t].pc = "idle" /\ E!Idle \in RecordCalls
  BY DEF E!putLast, LogInv, LogType, E!Idle, RecordCalls
<1>2. UNCHANGED <<observations, numObservations, nextOffset, lock, clock>>
  BY DEF E!putLast, E!LogState
<1>3. Writer(t)' /\ ~Writing(t)
  BY <1>1 DEF Writer, Writing, E!putLast
<1>4. QED
  BY <1>1, <1>2, <1>3, LastPut, LogKeepsRecords

(* Reading changes nothing of the log. *)
LEMMA ReadersOnlyRead ==
  ASSUME \/ \E since \in {0, MaxTime} : E!read(since)
         \/ E!ReadLength \/ E!ReadLast \/ E!Consume \/ E!NextRecord \/ E!ReadReturns
  PROVE  UNCHANGED <<buffer, observations, numObservations, nextOffset, lock, call, clock, recorded>>
BY DEF E!read, E!ReadLength, E!ReadLast, E!Consume, E!NextRecord, E!ReadReturns, E!LogState

LEMMA LogInvStep ==
  ASSUME LogInv, [E!Next]_(E!vars)
  PROVE  LogInv'
<1>1. CASE UNCHANGED E!vars
  BY <1>1, LogUnchanged DEF E!vars, LogInv, LogType
<1>2. CASE E!Tick
  <2>1. clock' \in Times
    BY <1>2 DEF E!Tick, LogInv, LogType, Times
  <2>2. QED
    BY <1>2, <2>1, LogUnchanged DEF E!Tick, E!LogState
<1>3. ASSUME NEW t \in Threads,
             \/ E!record(t) \/ E!Find(t) \/ E!newObservation(t) \/ E!putText(t) \/ E!publish(t)
             \/ E!putLength(t) \/ E!addCount(t) \/ E!putLast(t)
      PROVE  LogInv'
  BY <1>3, LogRecord, LogFind, LogNewObservation, LogPutText, LogPublish, LogPutLength,
     LogAddCount, LogPutLast
<1>4. CASE \/ \E since \in {0, MaxTime} : E!read(since)
           \/ E!ReadLength \/ E!ReadLast \/ E!Consume \/ E!NextRecord \/ E!ReadReturns
  BY <1>4, ReadersOnlyRead, LogUnchanged DEF LogInv, LogType
<1>5. QED
  BY <1>1, <1>2, <1>3, <1>4 DEF E!Next

(***************************************************************************)
(* The counts.                                                             *)
(***************************************************************************)
Counting(e) == { t \in Threads : call[t].pc = "last" /\ call[t].error = e }

Counted ==
  \A e \in ErrorKinds :
    /\ \A k \in Known : Err(k) = e => buffer[Off(k)].count = recorded[e] + Cardinality(Counting(e))
    /\ recorded[e] > 0 => \E k \in Known : Err(k) = e
    /\ (\E k \in Known : Err(k) = e) =>
         \/ recorded[e] > 0
         \/ \E t \in Threads : call[t].pc \in {"length", "count", "last"} /\ call[t].error = e

LEMMA CountingFinite ==
  ASSUME NEW e
  PROVE  IsFiniteSet(Counting(e)) /\ Cardinality(Counting(e)) \in Nat
<1>1. IsFiniteSet(Threads)
  BY SuiteAssumption DEF E!ErrorLogAssumption, E!IsFiniteSet, IsFiniteSet
<1>2. IsFiniteSet(Counting(e))
  BY <1>1, FS_Subset DEF Counting
<1>3. QED
  BY <1>2, FS_CardinalityType

LEMMA CountedInit ==
  ASSUME E!Init
  PROVE  Counted
<1>1. Known = {} /\ \A e \in ErrorKinds : recorded[e] = 0
  BY DEF E!Init, Known
<1>2. QED
  BY <1>1 DEF Counted

(* A step that counts nothing and forgets no record. *)
LEMMA CountsKept ==
  ASSUME LogInv, Counted, NEW t \in Threads, NEW c, call' = [call EXCEPT ![t] = c],
         UNCHANGED <<observations, numObservations, recorded>>,
         \A i \in Offsets : buffer'[i].count = buffer[i].count,
         call[t].pc # "last", c.pc # "last",
         call[t].pc \in {"length", "count"} => c.pc = "count" /\ c.error = call[t].error
  PROVE  Counted'
<1>1. call'[t] = c /\ \A u \in Threads : u # t => call'[u] = call[u]
  BY DEF LogInv, LogType
<1>2. \A e \in ErrorKinds : Counting(e)' = Counting(e)
  BY <1>1 DEF Counting
<1>3. \A k \in Known : Off(k) \in Offsets
  BY LogFacts DEF LogInv
<1>4. ASSUME NEW e \in ErrorKinds,
             \E u \in Threads : call[u].pc \in {"length", "count", "last"} /\ call[u].error = e
      PROVE  \E u \in Threads : call'[u].pc \in {"length", "count", "last"} /\ call'[u].error = e
  BY <1>1, <1>4
<1>5. Known' = Known /\ \A k : Off(k)' = Off(k) /\ Err(k)' = Err(k)
  BY DEF Known, Off, Err
<1>6. QED
  BY <1>2, <1>3, <1>4, <1>5 DEF Counted

LEMMA CountedPublish ==
  ASSUME LogInv, Counted, NEW t \in Threads, E!publish(t)
  PROVE  Counted'
<1> DEFINE c == [call[t] EXCEPT !.pc = "length"]
<1>0. call[t] \in RecordCalls /\ call[t].pc = "publish" /\ numObservations \in Nat
  BY LogFacts DEF LogInv, LogType, E!publish
<1>1. c.pc = "length" /\ c.error = call[t].error
  BY <1>0, CallSteps
<1> HIDE DEF c
<1>2. call'[t] = c /\ \A u \in Threads : u # t => call'[u] = call[u]
  BY DEF LogInv, LogType, E!publish, c
<1>3. buffer' = buffer /\ recorded' = recorded
  BY DEF E!publish
<1>4. PICK n \in Nat : n = numObservations + 1
  BY <1>0
<1>5. Known' = Known \cup {n} /\ n \notin Known
  BY <1>4, Published
<1>6. /\ \A k \in Known : Off(k)' = Off(k) /\ Err(k)' = Err(k)
      /\ Off(n)' = nextOffset /\ Err(n)' = call[t].error
  BY <1>4, Published DEF Off, Err
<1>7. \A e \in ErrorKinds : Counting(e)' = Counting(e)
  BY <1>0, <1>1, <1>2 DEF Counting
<1>8. call[t].error \in ErrorKinds /\ \A k \in Known : Err(k) # call[t].error
  BY <1>0, RecordFields DEF LogInv, Writers, Writer
<1>9. nextOffset \in Offsets /\ buffer[nextOffset].count = 0
  <2>1. nextOffset \in Offsets /\ \A k \in Known : Off(k) # nextOffset
    BY Apart, LogFacts, Published DEF LogInv, LogType
  <2>2. QED
    BY <2>1 DEF LogInv, Entries
<1>10. recorded[call[t].error] = 0
  BY <1>8 DEF Counted, LogInv, LogType
<1>11. Cardinality(Counting(call[t].error)) = 0
  <2>1. Counting(call[t].error) = {}
    BY <1>8 DEF Counting, LogInv, Writers, Writer
  <2>2. QED
    BY <2>1, FS_EmptySet
<1>12. SUFFICES ASSUME NEW e \in ErrorKinds
       PROVE  /\ \A k \in Known' : Err(k)' = e => buffer'[Off(k)'].count = recorded[e] + Cardinality(Counting(e))
              /\ recorded[e] > 0 => \E k \in Known' : Err(k)' = e
              /\ (\E k \in Known' : Err(k)' = e) =>
                   \/ recorded[e] > 0
                   \/ \E u \in Threads : call'[u].pc \in {"length", "count", "last"} /\ call'[u].error = e
  BY <1>3, <1>7 DEF Counted
<1>13. CASE e = call[t].error
  BY <1>1, <1>2, <1>3, <1>5, <1>6, <1>8, <1>9, <1>10, <1>11, <1>13
<1>14. CASE e # call[t].error
  <2>1. \A k \in Known' : Err(k)' = e => k \in Known /\ Err(k) = e
    BY <1>5, <1>6, <1>14
  <2>2. \A u \in Threads : call[u].error = e /\ call[u].pc \in {"length", "count", "last"} => call'[u] = call[u]
    BY <1>2, <1>14
  <2>3. QED
    BY <1>3, <1>5, <1>6, <2>1, <2>2 DEF Counted
<1>15. QED
  BY <1>13, <1>14

LEMMA CountedAddCount ==
  ASSUME LogInv, Counted, NEW t \in Threads, E!addCount(t)
  PROVE  Counted'
<1> DEFINE c == [call[t] EXCEPT !.pc = "last"]
<1>0. call[t].pc = "count"
  BY DEF E!addCount
<1>1. c.pc = "last" /\ c.error = call[t].error /\ call[t].error \in ErrorKinds
  BY <1>0, CountsInRecord, CallSteps
<1> HIDE DEF c
<1>2. call'[t] = c /\ \A u \in Threads : u # t => call'[u] = call[u]
  BY DEF E!addCount, LogInv, LogType, c
<1>3. Known' = Known /\ (\A k : Off(k)' = Off(k) /\ Err(k)' = Err(k)) /\ recorded' = recorded
  BY DEF E!addCount, E!LogState, Known, Off, Err
<1>4. PICK k \in Known : Off(k) = call[t].offset /\ Err(k) = call[t].error
  BY <1>0, CountsInRecord
<1>5. \A j \in Known : Off(j) \in Offsets /\ (j # k => Off(j) # Off(k) /\ Err(j) # Err(k))
  BY Apart, LogFacts DEF LogInv, Distinct
<1>6. Counting(Err(k)) \cup {t} = { u \in Threads : call'[u].pc = "last" /\ call'[u].error = Err(k) }
  BY <1>0, <1>1, <1>2, <1>4 DEF Counting
<1>7. t \notin Counting(Err(k))
  BY <1>0 DEF Counting
<1>8. PICK f \in ErrorKinds : f = Err(k)
  BY <1>1, <1>4
<1>9. Counting(f)' = Counting(f) \cup {t}
  BY <1>6, <1>8 DEF Counting
<1>10. Cardinality(Counting(f)') = Cardinality(Counting(f)) + 1
  BY <1>7, <1>8, <1>9, CountingFinite, FS_AddElement
<1>11. \A e \in ErrorKinds : e # f => Counting(e)' = Counting(e)
  BY <1>0, <1>1, <1>2, <1>4, <1>8 DEF Counting
<1>12. buffer'[Off(k)].count = buffer[Off(k)].count + 1 /\ \A j \in Known : j # k => buffer'[Off(j)].count = buffer[Off(j)].count
  BY <1>4, <1>5, CountAdded
<1>13. ASSUME NEW e \in ErrorKinds, NEW j \in Known, Err(j) = e
       PROVE  buffer'[Off(j)].count = recorded[e] + Cardinality(Counting(e)')
  <2>1. buffer[Off(j)].count = recorded[e] + Cardinality(Counting(e)) /\ recorded[e] \in Nat
    BY <1>13 DEF Counted, LogInv, LogType
  <2>2. CASE j = k
    BY <2>1, <2>2, <1>8, <1>10, <1>12, <1>13, CountingFinite
  <2>3. CASE j # k
    BY <2>1, <2>3, <1>5, <1>8, <1>11, <1>12, <1>13
  <2>4. QED
    BY <2>2, <2>3
<1>14. ASSUME NEW e \in ErrorKinds,
              \E u \in Threads : call[u].pc \in {"length", "count", "last"} /\ call[u].error = e
       PROVE  \E u \in Threads : call'[u].pc \in {"length", "count", "last"} /\ call'[u].error = e
  BY <1>1, <1>2, <1>14
<1>15. QED
  BY <1>3, <1>13, <1>14 DEF Counted

LEMMA CountedPutLast ==
  ASSUME LogInv, Counted, NEW t \in Threads, E!putLast(t)
  PROVE  Counted'
<1>0. call[t].pc = "last"
  BY DEF E!putLast
<1>1. call'[t].pc = "idle" /\ \A u \in Threads : u # t => call'[u] = call[u]
  BY DEF E!putLast, LogInv, LogType, E!Idle
<1>2. Known' = Known /\ \A k : Off(k)' = Off(k) /\ Err(k)' = Err(k)
  BY DEF E!putLast, E!LogState, Known, Off, Err
<1>3. PICK f \in ErrorKinds : f = call[t].error
  BY <1>0, CountsInRecord
<1>4. PICK k \in Known : Err(k) = f
  BY <1>0, <1>3, CountsInRecord
<1>5. Counting(f)' = Counting(f) \ {t} /\ t \in Counting(f)
  BY <1>0, <1>1, <1>3 DEF Counting
<1>6. Cardinality(Counting(f)') = Cardinality(Counting(f)) - 1
  BY <1>5, CountingFinite, FS_RemoveElement
<1>7. \A e \in ErrorKinds : e # f => Counting(e)' = Counting(e) /\ recorded'[e] = recorded[e]
  BY <1>0, <1>1, <1>3, LastPut DEF Counting
<1>8. recorded'[f] = recorded[f] + 1 /\ recorded[f] \in Nat
  BY <1>3, LastPut DEF LogInv, LogType
<1>9. \A j \in Known : buffer'[Off(j)].count = buffer[Off(j)].count
  BY LogFacts, LastPut DEF LogInv
<1>10. ASSUME NEW e \in ErrorKinds, NEW j \in Known, Err(j) = e
       PROVE  buffer'[Off(j)].count = recorded'[e] + Cardinality(Counting(e)')
  <2>1. buffer[Off(j)].count = recorded[e] + Cardinality(Counting(e))
    BY <1>10 DEF Counted
  <2>2. CASE e = f
    BY <2>1, <2>2, <1>6, <1>8, <1>9, CountingFinite
  <2>3. CASE e # f
    BY <2>1, <2>3, <1>7, <1>9
  <2>4. QED
    BY <2>2, <2>3
<1>11. ASSUME NEW e \in ErrorKinds, e # f,
              \E u \in Threads : call[u].pc \in {"length", "count", "last"} /\ call[u].error = e
       PROVE  \E u \in Threads : call'[u].pc \in {"length", "count", "last"} /\ call'[u].error = e
  BY <1>1, <1>3, <1>11
<1>12. SUFFICES ASSUME NEW e \in ErrorKinds
       PROVE  /\ recorded'[e] > 0 => \E j \in Known : Err(j) = e
              /\ (\E j \in Known : Err(j) = e) =>
                   \/ recorded'[e] > 0
                   \/ \E u \in Threads : call'[u].pc \in {"length", "count", "last"} /\ call'[u].error = e
  BY <1>2, <1>10 DEF Counted
<1>13. CASE e = f
  BY <1>4, <1>8, <1>13
<1>14. CASE e # f
  BY <1>7, <1>11, <1>14 DEF Counted
<1>15. QED
  BY <1>13, <1>14

LEMMA CountedStep ==
  ASSUME LogInv, Counted, [E!Next]_(E!vars)
  PROVE  Counted'
<1>1. ASSUME UNCHANGED <<buffer, observations, numObservations, call, recorded>>
      PROVE  Counted'
  BY <1>1 DEF Counted, Counting, Known, Off, Err
<1>2. CASE UNCHANGED E!vars
  BY <1>1, <1>2 DEF E!vars
<1>3. CASE E!Tick
  BY <1>1, <1>3 DEF E!Tick, E!LogState
<1>4. CASE \/ \E since \in {0, MaxTime} : E!read(since)
           \/ E!ReadLength \/ E!ReadLast \/ E!Consume \/ E!NextRecord \/ E!ReadReturns
  BY <1>1, <1>4, ReadersOnlyRead
<1>5. ASSUME NEW t \in Threads, E!record(t) PROVE Counted'
  <2>1. PICK error \in ErrorKinds :
          call' = [call EXCEPT ![t] = [pc |-> "find", error |-> error, time |-> clock]]
    BY <1>5 DEF E!record
  <2>2. PICK c : c = [pc |-> "find", error |-> error, time |-> clock]
    OBVIOUS
  <2>3. call' = [call EXCEPT ![t] = c]
    BY <2>1, <2>2
  <2>4. c.pc = "find"
    BY <2>2
  <2>5. call[t].pc = "idle"
    BY <1>5 DEF E!record, E!Idle
  <2>6. QED
    BY <1>5, <2>3, <2>4, <2>5, CountsKept DEF E!record, E!LogState
<1>6. ASSUME NEW t \in Threads, E!Find(t) PROVE Counted'
  <2> DEFINE found == E!findObservation(numObservations, call[t].error)
             missed == [pc |-> "lock", error |-> call[t].error, time |-> call[t].time,
                        seen |-> numObservations]
             met == E!ToCount(call[t], observations[CHOOSE k \in found : TRUE].offset)
  <2>a. missed.pc = "lock" /\ met.pc = "count"
    BY DEF E!ToCount
  <2>b. call' = [call EXCEPT ![t] = IF found = {} THEN missed ELSE met]
    BY <1>6 DEF E!Find
  <2> HIDE DEF found, missed, met
  <2>1. PICK c : call' = [call EXCEPT ![t] = c] /\ c.pc \in {"lock", "count"}
    BY <2>a, <2>b
  <2>2. QED
    BY <1>6, <2>1, CountsKept DEF E!Find, E!LogState
<1>7. ASSUME NEW t \in Threads, E!newObservation(t) PROVE Counted'
  <2>1. PICK c : call' = [call EXCEPT ![t] = c] /\ c.pc \in {"idle", "text", "count"}
    <3> DEFINE found == E!SearchAgain(t)
               length == E!HEADER_LENGTH + TextLength[call[t].error]
               met == E!ToCount(call[t], observations[CHOOSE k \in found : TRUE].offset)
               begun == [pc |-> "text", error |-> call[t].error, time |-> call[t].time,
                         offset |-> nextOffset, length |-> length]
    <3>1. met.pc = "count" /\ E!Idle.pc = "idle" /\ begun.pc = "text"
      BY DEF E!ToCount, E!Idle
    <3>2. \/ call' = [call EXCEPT ![t] = met]
          \/ call' = [call EXCEPT ![t] = E!Idle]
          \/ call' = [call EXCEPT ![t] = begun]
      BY <1>7 DEF E!newObservation
    <3> HIDE DEF met, begun
    <3>3. QED
      BY <3>1, <3>2
  <2>2. QED
    BY <1>7, <2>1, CountsKept DEF E!newObservation, E!LogState
<1>8. ASSUME NEW t \in Threads, E!putText(t) PROVE Counted'
  <2>1. call[t] \in RecordCalls /\ call[t].pc = "text"
    BY <1>8 DEF E!putText, LogInv, LogType
  <2>2. PICK c : c = [call[t] EXCEPT !.pc = "publish"]
    OBVIOUS
  <2>3. call' = [call EXCEPT ![t] = c] /\ c.pc = "publish"
    BY <1>8, <2>1, <2>2, CallSteps DEF E!putText
  <2>4. \A i \in Offsets : buffer'[i].count = buffer[i].count
    <3>1. call[t].offset \in Offsets /\ buffer \in [Offsets -> Entry]
      BY <2>1, RecordFields DEF LogInv, LogType
    <3>2. buffer' = [buffer EXCEPT ![call[t].offset] = [@ EXCEPT !.text = call[t].error, !.first = call[t].time]]
      BY <1>8, <3>1 DEF E!putText
    <3>3. QED
      BY <3>1, <3>2 DEF Entry
  <2>5. QED
    BY <1>8, <2>1, <2>3, <2>4, CountsKept DEF E!putText, E!LogState
<1>9. ASSUME NEW t \in Threads, E!putLength(t) PROVE Counted'
  <2>1. call[t] \in RecordCalls /\ call[t].pc = "length"
    BY <1>9 DEF E!putLength, LogInv, LogType
  <2>2. PICK c : c = E!ToCount(call[t], call[t].offset)
    OBVIOUS
  <2>3. call' = [call EXCEPT ![t] = c] /\ c.pc = "count" /\ c.error = call[t].error
    BY <1>9, <2>2 DEF E!putLength, E!ToCount
  <2>4. \A i \in Offsets : buffer'[i].count = buffer[i].count
    <3>1. call[t].offset \in Offsets /\ buffer \in [Offsets -> Entry]
      BY <2>1, RecordFields DEF LogInv, LogType
    <3>2. buffer' = [buffer EXCEPT ![call[t].offset] = [@ EXCEPT !.length = call[t].length]]
      BY <1>9, <3>1 DEF E!putLength
    <3>3. QED
      BY <3>1, <3>2 DEF Entry
  <2>5. QED
    BY <1>9, <2>1, <2>3, <2>4, CountsKept DEF E!putLength, E!LogState
<1>10. QED
  BY <1>2, <1>3, <1>4, <1>5, <1>6, <1>7, <1>8, <1>9, CountedPublish, CountedAddCount,
     CountedPutLast DEF E!Next

(***************************************************************************)
(* The reader: it stands at the record p, or where that will begin, and    *)
(* has been handed those before.                                           *)
(***************************************************************************)
Handed == [text : ErrorKinds, first : Times, last : Nat, length : Nat]
ReaderRecord ==
  [pc : {"length", "last", "consume", "next", "done"}, since : Nat, offset : Nat, length : Nat,
   last : Nat, handed : Seq(Handed), before : SUBSET ErrorKinds]

Begins(p) == IF p \in Known THEN Off(p) ELSE nextOffset

WalkedTo(p) ==
  /\ p <= numObservations + 1 /\ reader.offset = Begins(p)
  /\ reader.pc # "length" =>
       p \in Known /\ buffer[Off(p)].length # 0 /\ reader.length = Length(Err(p))
  /\ reader.since = 0 =>
       /\ reader.pc \in {"length", "last", "consume"} => Len(reader.handed) = p - 1
       /\ reader.pc = "next" => Len(reader.handed) = p
       /\ \A i \in 1 .. Len(reader.handed) : reader.handed[i].text = Err(i)

ReaderInv ==
  reader # E!Idle =>
    /\ reader \in ReaderRecord
    /\ \A i \in 1 .. Len(reader.handed) :
         reader.handed[i].length = Length(reader.handed[i].text) /\ reader.handed[i].last >= reader.since
    /\ reader.pc = "consume" => reader.last >= reader.since
    /\ reader.pc # "done" =>
         /\ \A e \in reader.before : \E k \in Known : Err(k) = e /\ buffer[Off(k)].length # 0
         /\ \E p \in Nat \ {0} : WalkedTo(p)
    /\ reader.pc = "done" /\ reader.since = 0 =>
         /\ \A e \in reader.before : \E i \in 1 .. Len(reader.handed) : reader.handed[i].text = e
         /\ \A i, j \in 1 .. Len(reader.handed) : i # j => reader.handed[i].text # reader.handed[j].text

(* Any step of a writer: the records that are known stay what they are, a  *)
(* new one begins where the reader would look for it.                      *)
LEMMA ReaderKept ==
  ASSUME LogInv, LogInv', ReaderInv, reader' = reader,
         \A k \in Known : Off(k)' = Off(k) /\ Err(k)' = Err(k)
                          /\ (buffer[Off(k)].length # 0 => buffer'[Off(k)].length # 0),
         \/ numObservations' = numObservations /\ nextOffset' = nextOffset
         \/ /\ numObservations' = numObservations + 1
            /\ observations'[numObservations + 1].offset = nextOffset
  PROVE  ReaderInv'
<1> SUFFICES ASSUME reader # E!Idle, reader.pc # "done"
             PROVE  /\ \A e \in reader.before : \E k \in Known' : Err(k)' = e /\ buffer'[Off(k)'].length # 0
                    /\ \E p \in Nat \ {0} : WalkedTo(p)'
  BY DEF ReaderInv, ReaderRecord, Handed, Length
<1>1. numObservations \in Nat /\ Known \subseteq Known' /\ numObservations' \in Nat /\ numObservations' >= numObservations
  BY LogFacts DEF LogInv, Known
<1>2. \A e \in reader.before : \E k \in Known' : Err(k)' = e /\ buffer'[Off(k)'].length # 0
  BY <1>1 DEF ReaderInv
<1>3. PICK p \in Nat \ {0} : WalkedTo(p)
  BY DEF ReaderInv
<1>4. p <= numObservations' + 1
  BY <1>1, <1>3 DEF WalkedTo
<1>5. reader.offset = Begins(p)'
  <2>1. CASE p \in Known
    BY <2>1, <1>1, <1>3 DEF WalkedTo, Begins
  <2>2. CASE p \notin Known
    <3>1. p = numObservations + 1 /\ reader.offset = nextOffset
      BY <2>2, <1>1, <1>3 DEF WalkedTo, Begins, Known
    <3>2. CASE numObservations' = numObservations /\ nextOffset' = nextOffset
      BY <2>2, <3>1, <3>2 DEF Begins, Known
    <3>3. CASE numObservations' = numObservations + 1 /\ observations'[numObservations + 1].offset = nextOffset
      BY <1>1, <3>1, <3>3 DEF Begins, Known, Off
    <3>4. QED
      BY <3>2, <3>3
  <2>3. QED
    BY <2>1, <2>2
<1>6. reader.pc # "length" => p \in Known' /\ buffer'[Off(p)'].length # 0 /\ reader.length = Length(Err(p))'
  BY <1>1, <1>3 DEF WalkedTo, Length
<1>7. reader.since = 0 => \A i \in 1 .. Len(reader.handed) : reader.handed[i].text = Err(i)'
  <2> SUFFICES ASSUME reader.since = 0, NEW i \in 1 .. Len(reader.handed)
               PROVE  reader.handed[i].text = Err(i)'
    OBVIOUS
  <2>1. Len(reader.handed) \in Nat /\ reader.pc \in {"length", "last", "consume", "next"}
    BY DEF ReaderInv, ReaderRecord
  <2>2. Len(reader.handed) <= numObservations
    <3>1. CASE reader.pc = "length"
      BY <3>1, <1>1, <1>3, <2>1 DEF WalkedTo
    <3>2. CASE reader.pc # "length"
      BY <3>2, <1>1, <1>3, <2>1 DEF WalkedTo, Known
    <3>3. QED
      BY <3>1, <3>2
  <2>3. i \in Known
    BY <1>1, <2>1, <2>2 DEF Known
  <2>4. QED
    BY <1>3, <2>3 DEF WalkedTo
<1>8. WalkedTo(p)'
  BY <1>3, <1>4, <1>5, <1>6, <1>7 DEF WalkedTo
<1>9. QED
  BY <1>2, <1>8

LEMMA ReaderRead ==
  ASSUME LogInv, NEW since \in {0, MaxTime}, E!read(since)
  PROVE  ReaderInv'
<1>1. reader' = [pc |-> "length", since |-> since, offset |-> 0, length |-> 0, last |-> 0,
                 handed |-> <<>>, before |-> E!Visible]
  BY DEF E!read
<1>2. since \in Nat
  BY SuiteAssumption DEF E!ErrorLogAssumption
<1>3. /\ observations' = observations /\ numObservations' = numObservations
      /\ nextOffset' = nextOffset /\ buffer' = buffer
  BY DEF E!read, E!LogState
<1>4. /\ reader'.pc = "length" /\ reader'.offset = 0 /\ reader'.handed = <<>>
      /\ reader'.before = E!Visible
  BY <1>1
<1>5. reader' \in ReaderRecord
  <2>1. E!Visible \in SUBSET ErrorKinds /\ <<>> \in Seq(Handed)
    BY DEF E!Visible
  <2>2. QED
    BY <1>1, <1>2, <2>1 DEF ReaderRecord
<1>6. ASSUME NEW e \in E!Visible
      PROVE  \E k \in Known : Err(k) = e /\ buffer[Off(k)].length # 0
  <2>1. PICK o \in Offsets : buffer[o].length # 0 /\ buffer[o].text = e
    BY <1>6 DEF E!Visible, LogInv, LogType
  <2>2. PICK k \in Known : Off(k) = o
    BY <2>1 DEF LogInv, Entries
  <2>3. QED
    BY <2>1, <2>2 DEF LogInv, Entries
<1>7. 0 = Begins(1) /\ 1 <= numObservations + 1
  BY LogFacts DEF LogInv, Chain, Begins, Known
<1>8. WalkedTo(1)'
  BY <1>3, <1>4, <1>7 DEF WalkedTo, Begins, Known, Off, Err
<1>9. QED
  BY <1>3, <1>4, <1>5, <1>6, <1>8 DEF ReaderInv, Known, Off, Err

LEMMA ReaderReadLength ==
  ASSUME LogInv, ReaderInv, E!ReadLength
  PROVE  ReaderInv'
<1>0. reader # E!Idle /\ reader \in ReaderRecord /\ reader.pc = "length"
  BY DEF ReaderInv, E!ReadLength, E!Idle
<1>1. PICK p \in Nat \ {0} : WalkedTo(p)
  BY <1>0 DEF ReaderInv
<1>2. /\ numObservations \in Nat /\ nextOffset \in Nat /\ Capacity \in Nat
      /\ p <= numObservations + 1 /\ reader.offset = Begins(p)
      /\ reader.since = 0 => /\ Len(reader.handed) = p - 1
                             /\ \A i \in 1 .. Len(reader.handed) : reader.handed[i].text = Err(i)
  BY <1>0, <1>1, LogFacts, LogConstants DEF WalkedTo, LogInv, LogType
<1>3. p \notin Known => p = numObservations + 1 /\ reader.offset = nextOffset
  BY <1>2 DEF Known, Begins
<1>4. p \in Known => reader.offset = Off(p) /\ Off(p) \in Nat /\ Off(p) < Capacity /\ Off(p) \in Offsets
  BY <1>2, LogFacts, LogConstants DEF Begins, LogInv, Chain
<1>5. /\ observations' = observations /\ numObservations' = numObservations
      /\ nextOffset' = nextOffset /\ buffer' = buffer
  BY DEF E!ReadLength, E!LogState
<1> DEFINE ends == reader.offset >= Capacity \/ buffer[reader.offset].length = 0
<1>6. CASE ends
  <2>1. reader' = [reader EXCEPT !.pc = "done"]
    BY <1>6 DEF E!ReadLength
  <2>2. /\ reader' \in ReaderRecord /\ reader'.pc = "done" /\ reader'.handed = reader.handed
        /\ reader'.before = reader.before /\ reader'.since = reader.since
    BY <1>0, <2>1 DEF ReaderRecord
  <2>3. ASSUME reader.since = 0
        PROVE  /\ \A e \in reader.before : \E i \in 1 .. Len(reader.handed) : reader.handed[i].text = e
               /\ \A i, j \in 1 .. Len(reader.handed) : i # j => reader.handed[i].text # reader.handed[j].text
    <3>1. ASSUME NEW e \in reader.before
          PROVE  \E i \in 1 .. Len(reader.handed) : reader.handed[i].text = e
      <4>1. PICK k \in Known : Err(k) = e /\ buffer[Off(k)].length # 0
        BY <1>0, <3>1 DEF ReaderInv
      <4>2. k \in 1 .. p - 1
        <5>1. CASE p \notin Known
          BY <5>1, <1>2, <1>3 DEF Known
        <5>2. CASE p \in Known
          <6>1. buffer[Off(p)].length = 0
            BY <5>2, <1>2, <1>4, <1>6
          <6>2. p = numObservations
            BY <5>2, <6>1, LogFacts, LogConstants DEF LogInv, Entries
          <6>3. k # p
            BY <4>1, <6>1
          <6>4. QED
            BY <1>2, <6>2, <6>3 DEF Known
        <5>3. QED
          BY <5>1, <5>2
      <4>3. QED
        BY <1>2, <2>3, <4>1, <4>2
    <3>2. \A i \in 1 .. Len(reader.handed) : i \in Known
      BY <1>2, <2>3 DEF Known
    <3>3. \A i, j \in 1 .. Len(reader.handed) : i # j => reader.handed[i].text # reader.handed[j].text
      BY <1>2, <2>3, <3>2 DEF LogInv, Distinct
    <3>4. QED
      BY <3>1, <3>3
  <2>4. QED
    BY <1>0, <2>2, <2>3 DEF ReaderInv, Length
<1>7. CASE ~ends
  <2>1. reader' = [reader EXCEPT !.pc = "last", !.length = buffer[reader.offset].length]
    BY <1>7 DEF E!ReadLength
  <2>2. p \in Known
    <3>1. SUFFICES ASSUME p \notin Known PROVE FALSE
      OBVIOUS
    <3>2. reader.offset = nextOffset /\ nextOffset \in Offsets
      BY <1>2, <1>3, <1>7, <3>1 DEF Offsets
    <3>3. \A k \in Known : Off(k) # nextOffset
      BY Apart, LogFacts, <1>2 DEF LogInv
    <3>4. buffer[nextOffset].length = 0
      BY <3>2, <3>3 DEF LogInv, Entries
    <3>5. QED
      BY <1>7, <3>2, <3>4
  <2>3. /\ buffer[Off(p)].length = Length(Err(p)) /\ buffer[Off(p)].length # 0
        /\ reader.offset = Off(p) /\ Length(Err(p)) \in Nat
    BY <1>4, <1>7, <2>2, LogFacts, LogConstants DEF LogInv, Entries
  <2>4. /\ reader' \in ReaderRecord /\ reader'.pc = "last" /\ reader'.handed = reader.handed
        /\ reader'.before = reader.before /\ reader'.since = reader.since
        /\ reader'.offset = reader.offset /\ reader'.length = Length(Err(p))
    BY <1>0, <2>1, <2>3 DEF ReaderRecord
  <2>5. WalkedTo(p)'
    BY <1>2, <1>5, <2>2, <2>3, <2>4 DEF WalkedTo, Begins, Known, Off, Err, Length
  <2>6. QED
    BY <1>0, <1>5, <2>4, <2>5 DEF ReaderInv, Length, Known, Off, Err
<1>8. QED
  BY <1>6, <1>7
(* The reader has a record before it: where it is, and what it holds. *)
LEMMA AtRecord ==
  ASSUME LogInv, ReaderInv, reader.pc \in {"last", "consume", "next"}
  PROVE  /\ reader # E!Idle /\ reader \in ReaderRecord
         /\ \E p \in Nat \ {0} :
              /\ WalkedTo(p) /\ p \in Known /\ reader.offset = Off(p) /\ Off(p) \in Offsets
              /\ buffer[Off(p)] \in Entry /\ buffer[Off(p)].length # 0
              /\ buffer[Off(p)].text = Err(p) /\ buffer[Off(p)].first > 0
              /\ reader.length = Length(Err(p)) /\ Err(p) \in ErrorKinds
<1>1. reader # E!Idle /\ reader \in ReaderRecord
  BY DEF ReaderInv, E!Idle
<1>2. PICK p \in Nat \ {0} : WalkedTo(p)
  BY <1>1 DEF ReaderInv
<1>3. p \in Known /\ reader.offset = Off(p) /\ buffer[Off(p)].length # 0 /\ reader.length = Length(Err(p))
  BY <1>2 DEF WalkedTo, Begins
<1>4. Off(p) \in Offsets /\ Err(p) \in ErrorKinds
  BY <1>3, LogFacts DEF LogInv
<1>5. buffer[Off(p)] \in Entry /\ buffer[Off(p)].text = Err(p) /\ buffer[Off(p)].first > 0
  BY <1>3, <1>4 DEF LogInv, LogType, Entries
<1>6. QED
  BY <1>1, <1>2, <1>3, <1>4, <1>5

LEMMA ReaderReadLast ==
  ASSUME LogInv, ReaderInv, E!ReadLast
  PROVE  ReaderInv'
<1>0. reader.pc = "last" /\ reader # E!Idle /\ reader \in ReaderRecord
  BY AtRecord DEF E!ReadLast
<1>1. PICK p \in Nat \ {0} :
        /\ WalkedTo(p) /\ p \in Known /\ reader.offset = Off(p)
        /\ buffer[Off(p)] \in Entry /\ buffer[Off(p)].length # 0 /\ reader.length = Length(Err(p))
  BY <1>0, AtRecord
<1>2. /\ observations' = observations /\ numObservations' = numObservations
      /\ nextOffset' = nextOffset /\ buffer' = buffer
  BY DEF E!ReadLast, E!LogState
<1> DEFINE last == buffer[Off(p)].last
           pc == IF last >= reader.since THEN "consume" ELSE "next"
<1>3. last \in Nat /\ pc \in {"consume", "next"} /\ reader.since \in Nat
  BY <1>0, <1>1 DEF Entry, ReaderRecord
<1>4. reader' = [reader EXCEPT !.pc = pc, !.last = last]
  BY <1>1 DEF E!ReadLast
<1>5. pc = "consume" => last >= reader.since
  OBVIOUS
<1>6. reader.since = 0 => pc = "consume"
  BY <1>3
<1> HIDE DEF last, pc
<1>7. /\ reader' \in ReaderRecord /\ reader'.pc = pc /\ reader'.last = last
      /\ reader'.handed = reader.handed /\ reader'.before = reader.before
      /\ reader'.since = reader.since /\ reader'.offset = reader.offset
      /\ reader'.length = reader.length
  BY <1>0, <1>3, <1>4 DEF ReaderRecord
<1>8. WalkedTo(p)'
  BY <1>0, <1>1, <1>2, <1>3, <1>6, <1>7 DEF WalkedTo, Begins, Known, Off, Err, Length
<1>9. QED
  BY <1>0, <1>2, <1>3, <1>5, <1>7, <1>8 DEF ReaderInv, Length, Known, Off, Err

LEMMA ReaderConsume ==
  ASSUME LogInv, ReaderInv, E!Consume
  PROVE  ReaderInv'
<1>0. reader.pc = "consume" /\ reader # E!Idle /\ reader \in ReaderRecord
  BY AtRecord DEF E!Consume
<1>1. PICK p \in Nat \ {0} :
        /\ WalkedTo(p) /\ p \in Known /\ reader.offset = Off(p)
        /\ buffer[Off(p)] \in Entry /\ buffer[Off(p)].length # 0
        /\ buffer[Off(p)].text = Err(p) /\ buffer[Off(p)].first > 0
        /\ reader.length = Length(Err(p)) /\ Err(p) \in ErrorKinds
  BY <1>0, AtRecord
<1>2. /\ observations' = observations /\ numObservations' = numObservations
      /\ nextOffset' = nextOffset /\ buffer' = buffer
  BY DEF E!Consume, E!LogState
<1> DEFINE h == [text |-> Err(p), first |-> buffer[Off(p)].first, last |-> reader.last,
                 length |-> reader.length]
           handed == Append(reader.handed, h)
<1>3. h \in Handed /\ h.text = Err(p) /\ h.last = reader.last /\ h.length = Length(Err(p))
  BY <1>0, <1>1 DEF Handed, ReaderRecord, Entry, Times
<1>4. reader' = [reader EXCEPT !.pc = "next", !.handed = handed]
  BY <1>1 DEF E!Consume
<1> HIDE DEF h
<1>5. /\ reader.handed \in Seq(Handed) /\ handed \in Seq(Handed)
      /\ Len(handed) = Len(reader.handed) + 1 /\ Len(reader.handed) \in Nat
      /\ handed[Len(reader.handed) + 1] = h
      /\ \A i \in 1 .. Len(reader.handed) : handed[i] = reader.handed[i]
  <2>1. reader.handed \in Seq(Handed)
    BY <1>0 DEF ReaderRecord
  <2>2. QED
    BY <1>3, <2>1
<1> HIDE DEF handed
<1>6. /\ reader' \in ReaderRecord /\ reader'.pc = "next" /\ reader'.handed = handed
      /\ reader'.before = reader.before /\ reader'.since = reader.since
      /\ reader'.offset = reader.offset /\ reader'.length = reader.length
  BY <1>0, <1>4, <1>5 DEF ReaderRecord
<1>7. \A i \in 1 .. Len(handed) : i \in 1 .. Len(reader.handed) \/ i = Len(reader.handed) + 1
  BY <1>5
<1>8. \A i \in 1 .. Len(handed) : handed[i].length = Length(handed[i].text) /\ handed[i].last >= reader.since
  BY <1>0, <1>3, <1>5, <1>7, SMTT(30) DEF ReaderInv
<1>9. reader.since = 0 => Len(handed) = p /\ \A i \in 1 .. Len(handed) : handed[i].text = Err(i)
  <2> SUFFICES ASSUME reader.since = 0
               PROVE  Len(handed) = p /\ \A i \in 1 .. Len(handed) : handed[i].text = Err(i)
    OBVIOUS
  <2>1. Len(reader.handed) = p - 1 /\ \A i \in 1 .. Len(reader.handed) : reader.handed[i].text = Err(i)
    BY <1>0, <1>1 DEF WalkedTo
  <2>2. QED
    BY <1>3, <1>5, <1>7, <2>1
<1>10. WalkedTo(p)'
  BY <1>1, <1>2, <1>6, <1>9 DEF WalkedTo, Begins, Known, Off, Err, Length
<1>11. QED
  BY <1>0, <1>2, <1>6, <1>8, <1>10 DEF ReaderInv, Length, Known, Off, Err

LEMMA ReaderNextRecord ==
  ASSUME LogInv, ReaderInv, E!NextRecord
  PROVE  ReaderInv'
<1>0. reader.pc = "next" /\ reader # E!Idle /\ reader \in ReaderRecord
  BY AtRecord DEF E!NextRecord
<1>1. PICK p \in Nat \ {0} :
        /\ WalkedTo(p) /\ p \in Known /\ reader.offset = Off(p)
        /\ reader.length = Length(Err(p)) /\ Err(p) \in ErrorKinds
  BY <1>0, AtRecord
<1>2. /\ observations' = observations /\ numObservations' = numObservations
      /\ nextOffset' = nextOffset /\ buffer' = buffer
  BY DEF E!NextRecord, E!LogState
<1>3. Off(p) + E!Align(Length(Err(p))) = End(p) /\ End(p) \in Nat
  BY <1>1, LogFacts, LogConstants, Alignment DEF LogInv, Chain, End
<1>4. p + 1 <= numObservations + 1 /\ p + 1 \in Nat \ {0} /\ numObservations \in Nat
  BY <1>1, LogFacts DEF Known, LogInv
<1>5. Begins(p + 1) = End(p)
  <2>1. CASE p + 1 \in Known
    BY <1>1, <2>1 DEF LogInv, Chain, Begins
  <2>2. CASE p + 1 \notin Known
    BY <1>1, <1>4, <2>2 DEF LogInv, Chain, Begins, Known
  <2>3. QED
    BY <2>1, <2>2
<1>6. reader' = [reader EXCEPT !.pc = "length", !.length = 0, !.last = 0, !.offset = End(p)]
  BY <1>0, <1>1, <1>3 DEF E!NextRecord, ReaderRecord
<1>7. /\ reader' \in ReaderRecord /\ reader'.pc = "length" /\ reader'.handed = reader.handed
      /\ reader'.before = reader.before /\ reader'.since = reader.since
      /\ reader'.offset = End(p)
  BY <1>0, <1>3, <1>6 DEF ReaderRecord
<1>8. PICK q \in Nat \ {0} : q = p + 1
  BY <1>4
<1>9. WalkedTo(q)'
  BY <1>0, <1>1, <1>2, <1>4, <1>5, <1>7, <1>8 DEF WalkedTo, Begins, Known, Off, Err
<1>10. QED
  BY <1>0, <1>2, <1>7, <1>9 DEF ReaderInv, Length, Known, Off, Err

LEMMA ReaderInvStep ==
  ASSUME LogInv, LogInv', ReaderInv, [E!Next]_(E!vars)
  PROVE  ReaderInv'
<1>1. ASSUME reader' = reader, UNCHANGED <<observations, numObservations, nextOffset>>,
             \A k \in Known : buffer[Off(k)].length # 0 => buffer'[Off(k)].length # 0
      PROVE  ReaderInv'
  BY <1>1, ReaderKept DEF Off, Err
<1>2. CASE UNCHANGED E!vars
  BY <1>1, <1>2 DEF E!vars
<1>3. CASE E!Tick
  BY <1>1, <1>3 DEF E!Tick, E!LogState, E!ReaderState
<1>4. ASSUME NEW t \in Threads, E!record(t) \/ E!Find(t) \/ E!newObservation(t) PROVE ReaderInv'
  BY <1>1, <1>4 DEF E!record, E!Find, E!newObservation, E!LogState, E!ReaderState
<1>5. ASSUME NEW t \in Threads, E!putText(t) PROVE ReaderInv'
  <2>1. call[t].offset = nextOffset
    BY <1>5 DEF E!putText, LogInv, Writers, Writer
  <2>2. \A k \in Known : Off(k) \in Offsets /\ Off(k) # nextOffset
    BY Apart, LogFacts DEF LogInv, LogType
  <2>3. \A k \in Known : buffer'[Off(k)] = buffer[Off(k)]
    BY <1>5, <2>1, <2>2 DEF E!putText, LogInv, LogType
  <2>4. QED
    BY <1>1, <1>5, <2>3 DEF E!putText, E!LogState, E!ReaderState
<1>6. ASSUME NEW t \in Threads, E!publish(t) PROVE ReaderInv'
  <2>1. reader' = reader /\ buffer' = buffer
    BY <1>6 DEF E!publish, E!ReaderState
  <2>2. QED
    BY <1>6, <2>1, Published, ReaderKept DEF Off, Err
<1>7. ASSUME NEW t \in Threads, E!putLength(t) PROVE ReaderInv'
  <2>1. observations' = observations /\ numObservations' = numObservations /\ nextOffset' = nextOffset /\ reader' = reader /\ lock' = "none"
    BY <1>7 DEF E!putLength, E!LogState, E!ReaderState, E!None
  <2>2. \A k \in Known : buffer'[Off(k)].length = Length(Err(k))
    BY <2>1, LogConstants DEF LogInv, Entries, Known, Off, Err, Length
  <2>3. \A k \in Known : Length(Err(k)) # 0
    BY LogFacts, LogConstants DEF LogInv
  <2>4. QED
    BY <1>1, <2>1, <2>2, <2>3
<1>8. ASSUME NEW t \in Threads, E!addCount(t) PROVE ReaderInv'
  BY <1>1, <1>8, CountAdded, LogFacts DEF E!addCount, E!LogState, E!ReaderState, LogInv
<1>9. ASSUME NEW t \in Threads, E!putLast(t) PROVE ReaderInv'
  BY <1>1, <1>9, LastPut, LogFacts DEF E!putLast, E!LogState, E!ReaderState, LogInv
<1>10. CASE E!ReadReturns
  BY <1>10 DEF E!ReadReturns, ReaderInv
<1>11. QED
  BY <1>2, <1>3, <1>4, <1>5, <1>6, <1>7, <1>8, <1>9, <1>10, ReaderRead, ReaderReadLength,
     ReaderReadLast, ReaderConsume, ReaderNextRecord DEF E!Next

-----------------------------------------------------------------------------
(***************************************************************************)
(* The invariant gives the property of the run.                            *)
(***************************************************************************)
LogWhole == LogInv /\ Counted /\ ReaderInv

LEMMA LogWholeExact ==
  ASSUME LogWhole
  PROVE  E!OneRecordPerError /\ E!ErrorsCounted /\ E!ErrorsReadWhole /\ E!ReadFindsAll
<1>0. LogInv /\ Counted /\ ReaderInv /\ numObservations \in Nat /\ Capacity \in Nat
  BY LogFacts, LogConstants DEF LogWhole, LogInv
<1>1. E!OneRecordPerError
  <2>1. \A j, k \in Known : j # k => Err(j) # Err(k) /\ Off(j) # Off(k)
    BY <1>0, Apart DEF LogInv, Distinct
  <2>2. numObservations <= Capacity \div 6
    BY <1>0 DEF LogInv, Chain
  <2>3. QED
    BY <2>1, <2>2 DEF E!OneRecordPerError, E!HEADER_LENGTH, Known, Err, Off
<1>2. E!ErrorsCounted
  <2> SUFFICES ASSUME \A t \in Threads : call[t] = E!Idle, NEW e \in ErrorKinds
               PROVE  LET found == {k \in 1 .. numObservations : observations[k].error = e} IN
                      /\ (recorded[e] > 0) = (found # {})
                      /\ \A k \in found : buffer[observations[k].offset].count = recorded[e]
    BY DEF E!ErrorsCounted
  <2>1. \A t \in Threads : call[t].pc = "idle"
    BY DEF E!Idle
  <2>2. Counting(e) = {} /\ Cardinality(Counting(e)) = 0
    BY <2>1, FS_EmptySet DEF Counting
  <2>3. recorded[e] \in Nat
    BY <1>0 DEF LogInv, LogType
  <2>4. recorded[e] > 0 <=> \E k \in Known : Err(k) = e
    BY <1>0, <2>1 DEF Counted
  <2>5. \A k \in Known : Err(k) = e => buffer[Off(k)].count = recorded[e]
    <3>1. \A k \in Known : Err(k) = e => buffer[Off(k)].count = recorded[e] + Cardinality(Counting(e))
      BY <1>0 DEF Counted
    <3>2. recorded[e] + Cardinality(Counting(e)) = recorded[e]
      BY <2>2, <2>3
    <3>3. QED
      BY <3>1, <3>2
  <2>6. QED
    BY <2>4, <2>5 DEF Known, Err, Off
<1>3. E!ErrorsReadWhole
  <2> SUFFICES ASSUME reader # E!Idle, NEW i \in DOMAIN reader.handed
               PROVE  LET h == reader.handed[i] IN
                      /\ h.text \in ErrorKinds /\ h.first > 0
                      /\ h.length = E!HEADER_LENGTH + TextLength[h.text] /\ h.last >= reader.since
    BY DEF E!ErrorsReadWhole
  <2>1. reader.handed \in Seq(Handed)
    BY <1>0 DEF ReaderInv, ReaderRecord
  <2>2. i \in 1 .. Len(reader.handed) /\ reader.handed[i] \in Handed
    BY <2>1
  <2>3. reader.handed[i].text \in ErrorKinds /\ reader.handed[i].first > 0
    BY <2>2 DEF Handed, Times
  <2>4. QED
    BY <1>0, <2>2, <2>3 DEF ReaderInv, Length
<1>4. E!ReadFindsAll
  <2> SUFFICES ASSUME reader # E!Idle, reader.pc = "done", reader.since = 0
               PROVE  /\ \A e \in reader.before : \E i \in DOMAIN reader.handed : reader.handed[i].text = e
                      /\ \A i, j \in DOMAIN reader.handed : i # j => reader.handed[i].text # reader.handed[j].text
    BY DEF E!ReadFindsAll
  <2>1. reader.handed \in Seq(Handed)
    BY <1>0 DEF ReaderInv, ReaderRecord
  <2>2. DOMAIN reader.handed = 1 .. Len(reader.handed)
    BY <2>1
  <2>3. QED
    BY <1>0, <2>2 DEF ReaderInv
<1>5. QED
  BY <1>1, <1>2, <1>3, <1>4

(***************************************************************************)
(* The error log is exact: one record per distinct error, each with the    *)
(* number of the calls that returned true, and a reader at any moment is   *)
(* handed whole records only and, from time 0 on, each error that was      *)
(* there when it began exactly once (DistinctErrorLog::record,             *)
(* ErrorLogReader::read).                                                  *)
(***************************************************************************)
THEOREM ErrorLogExactHolds == Spec => []ErrorLogExact
<1> DEFINE Inv == part = "error log" => LogWhole
<1>1. Init => Inv
  <2> SUFFICES ASSUME Init, part = "error log" PROVE LogWhole
    OBVIOUS
  <2>1. E!Init
    BY DEF Init
  <2>2. ReaderInv
    BY <2>1 DEF E!Init, ReaderInv
  <2>3. QED
    BY <2>1, <2>2, LogInvInit, CountedInit DEF LogWhole
<1>2. Inv /\ [Next]_vars => Inv'
  <2> SUFFICES ASSUME Inv, [Next]_vars, part' = "error log" PROVE LogWhole'
    OBVIOUS
  <2>1. part = "error log" /\ [E!Next]_(E!vars)
    <3>1. CASE UNCHANGED vars
      BY <3>1 DEF vars, E!vars
    <3>2. CASE Next
      BY <3>2 DEF Next, Registry, Publication, ImageObject, Runner, Timeouts, Errors,
                  StayAbsent
    <3>3. QED
      BY <3>1, <3>2
  <2>2. LogInv /\ Counted /\ ReaderInv
    BY <2>1 DEF LogWhole
  <2>3. LogInv'
    BY <2>1, <2>2, LogInvStep
  <2>4. QED
    BY <2>1, <2>2, <2>3, CountedStep, ReaderInvStep DEF LogWhole
<1>3. Inv => ErrorLogExact
  BY LogWholeExact DEF ErrorLogExact
<1>4. QED
  BY <1>1, <1>2, <1>3, PTL DEF Spec
=============================================================================
