----------------------------- MODULE MCProgress -----------------------------
(***************************************************************************)
(* What was begun ends: liveness of the recorders, the stop script, the    *)
(* calls of the client, the images and agents of the application and the   *)
(* timeouts of the conductor, on instances small enough to check it.       *)
(***************************************************************************)
EXTENDS Integers, Sequences, SequencesExt

CONSTANTS
  Parts   \* the components to move

(* part is the component that moves; the variables it lacks are Absent.    *)
VARIABLES
  part,
  message_count, total_latency, min_latency, max_latency, latency_buckets, recorded_count,
  latencies, pc, latency_ns, current,
  calls,
  at,
  driver,
  found, stopped, beside,
  command, pending, resource, wrappers, holder, thread, adminLock, stored, installed,
  client, told, again,
  conductor,
  phase, refs, object, call, used, copied,
  closed,
  m_isStarted, m_isRunning, m_thread, joinable, agent, raced, invoker, invoked,
  m_isClosed,
  lastDoWork, lastKeepalive, lastCheck, driverKeepalive, heartbeat, m_heartbeatTimestamp,
  m_driverActive, errors,
  arrays, m_array, m_length, m_beginChange, m_endChange, added, linger, reader,
  m_roundRobinIndex, visited, counted, result, during, openSince

vars == <<part, message_count, total_latency, min_latency, max_latency, latency_buckets,
          recorded_count, latencies, pc, latency_ns, current, calls, at, driver, found,
          stopped, beside, command, pending, resource, wrappers, holder, thread, adminLock, stored,
          installed, client, told, again, conductor, phase, refs, object, call, used, copied,
          closed, m_isStarted, m_isRunning, m_thread, joinable, agent, raced, invoker, invoked, m_isClosed,
          lastDoWork, lastKeepalive, lastCheck, driverKeepalive, heartbeat,
          m_heartbeatTimestamp, m_driverActive, errors, arrays, m_array, m_length,
          m_beginChange, m_endChange, added, linger, reader, m_roundRobinIndex, visited,
          counted, result, during, openSince>>

Absent == "absent"

L == INSTANCE LatencyRecorder WITH
  Word <- 16, NsPerUs <- 2, BucketLimits <- <<1, 3, 15>>, DetailCount <- 1,
  Threads <- {"t", "u"}, Latencies <- {1, 4}, MaxCalls <- 3

D == INSTANCE DriverScripts WITH
  Optimized <- {"a"}, Conservative <- {"b"}, Stoppers <- {"s"}

R == INSTANCE ClientRegistry WITH
  Threads <- {"t", "u"}, Ids <- {"i"}, Handlers <- {"h"}

I == INSTANCE ImageHandle WITH
  Images <- {"i", "j"}, Objects <- {"o", "p"}, MaxCopies <- 2

S == INSTANCE Agents WITH
  Threads <- {"t", "u"}, MaxCalls <- 5

T == INSTANCE ConductorTimeouts WITH
  InterServiceTimeout <- 2, DriverTimeout <- 4, KeepaliveTimeout <- 2, ResourceTimeout <- 3,
  ClientLiveness <- 4, ClientGap <- 2, DriverGap <- 3

P == INSTANCE ConductorTimeouts WITH
  InterServiceTimeout <- 5, DriverTimeout <- 4, KeepaliveTimeout <- 2, ResourceTimeout <- 3,
  ClientLiveness <- 4, ClientGap <- 6, DriverGap <- 3

G == INSTANCE SubscriptionImages WITH
  MaxImages <- 2, MaxChanges <- 3, FragmentLimit <- 1, Ops <- {"poll"}

ASSUME SuiteAssumption ==
  /\ L!RecorderAssumption
  /\ D!ScriptAssumption
  /\ R!RegistryAssumption
  /\ I!HandleAssumption
  /\ S!AgentsAssumption
  /\ T!TimeoutAssumption
  /\ P!TimeoutAssumption
  /\ G!ImagesAssumption

Init ==
  /\ part \in Parts
  /\ \/ part = "latency recorder" /\ L!Init
     \/ part = "stop scripts" /\ D!Init
     \/ part = "registry" /\ R!Init
     \/ part = "image" /\ I!Init
     \/ part = "shared runner" /\ S!Init
     \/ part = "timeouts" /\ T!Init
     \/ part = "paused" /\ P!Init
     \/ part = "images" /\ G!Init
  /\ part # "latency recorder" =>
       message_count = Absent /\ total_latency = Absent /\ min_latency = Absent
       /\ max_latency = Absent /\ latency_buckets = Absent /\ recorded_count = Absent
       /\ latencies = Absent /\ pc = Absent /\ latency_ns = Absent /\ current = Absent
  /\ part \notin {"latency recorder", "shared runner"} =>
       calls = Absent
  /\ part \notin {"stop scripts", "shared runner"} =>
       at = Absent
  /\ part \notin {"stop scripts", "timeouts", "paused"} =>
       driver = Absent
  /\ part # "stop scripts" =>
       found = Absent /\ stopped = Absent /\ beside = Absent
  /\ part # "registry" =>
       command = Absent /\ pending = Absent /\ resource = Absent /\ wrappers = Absent
       /\ holder = Absent /\ thread = Absent /\ adminLock = Absent /\ stored = Absent
       /\ installed = Absent /\ client = Absent /\ told = Absent /\ again = Absent
  /\ part \notin {"registry", "images"} =>
       conductor = Absent
  /\ part # "image" =>
       phase = Absent /\ refs = Absent /\ object = Absent /\ call = Absent /\ used = Absent
       /\ copied = Absent
  /\ part \notin {"image", "timeouts", "paused", "images"} =>
       closed = Absent
  /\ part # "shared runner" =>
       m_isStarted = Absent /\ m_isRunning = Absent /\ m_thread = Absent /\ agent = Absent
       /\ joinable = Absent /\ raced = Absent /\ invoker = Absent /\ invoked = Absent
  /\ part \notin {"shared runner", "images"} =>
       m_isClosed = Absent
  /\ part \notin {"timeouts", "paused"} =>
       lastDoWork = Absent /\ lastKeepalive = Absent /\ lastCheck = Absent
       /\ driverKeepalive = Absent /\ heartbeat = Absent /\ m_heartbeatTimestamp = Absent
       /\ m_driverActive = Absent /\ errors = Absent
  /\ part # "images" =>
       arrays = Absent /\ m_array = Absent /\ m_length = Absent /\ m_beginChange = Absent
       /\ m_endChange = Absent /\ added = Absent /\ linger = Absent /\ reader = Absent
       /\ m_roundRobinIndex = Absent /\ visited = Absent /\ counted = Absent
       /\ result = Absent /\ during = Absent /\ openSince = Absent

StayAbsent ==
  /\ UNCHANGED part
  /\ part # "latency recorder" => UNCHANGED <<message_count, total_latency, min_latency, max_latency, latency_buckets,
       recorded_count, latencies, pc, latency_ns, current>>
  /\ part \notin {"latency recorder", "shared runner"} => UNCHANGED <<calls>>
  /\ part \notin {"stop scripts", "shared runner"} => UNCHANGED <<at>>
  /\ part \notin {"stop scripts", "timeouts", "paused"} => UNCHANGED <<driver>>
  /\ part # "stop scripts" => UNCHANGED <<found, stopped, beside>>
  /\ part # "registry" => UNCHANGED <<command, pending, resource, wrappers, holder, thread, adminLock, stored, installed,
       client, told, again>>
  /\ part \notin {"registry", "images"} => UNCHANGED <<conductor>>
  /\ part # "image" => UNCHANGED <<phase, refs, object, call, used, copied>>
  /\ part \notin {"image", "timeouts", "paused", "images"} => UNCHANGED <<closed>>
  /\ part # "shared runner" => UNCHANGED <<m_isStarted, m_isRunning, m_thread, joinable, agent, raced, invoker, invoked>>
  /\ part \notin {"shared runner", "images"} => UNCHANGED <<m_isClosed>>
  /\ part \notin {"timeouts", "paused"} => UNCHANGED <<lastDoWork, lastKeepalive, lastCheck, driverKeepalive, heartbeat,
       m_heartbeatTimestamp, m_driverActive, errors>>
  /\ part # "images" => UNCHANGED <<arrays, m_array, m_length, m_beginChange, m_endChange, added, linger, reader,
       m_roundRobinIndex, visited, counted, result, during, openSince>>

Recorder == part = "latency recorder" /\ L!Next /\ StayAbsent
StopScripts == part = "stop scripts" /\ D!Next /\ StayAbsent
Registry == part = "registry" /\ R!Next /\ StayAbsent
ImageObject == part = "image" /\ I!Next /\ StayAbsent
SharedRunner == part = "shared runner" /\ S!Next /\ StayAbsent
Timeouts == part = "timeouts" /\ T!Next /\ StayAbsent
Paused == part = "paused" /\ P!Next /\ StayAbsent
ImageList == part = "images" /\ G!Next /\ StayAbsent

Next == Recorder \/ StopScripts \/ Registry \/ ImageObject \/ SharedRunner \/ Timeouts \/
        Paused \/ ImageList

Spec == Init /\ [][Next]_vars

(* Every thread goes on with what it has begun; nothing makes an           *)
(* application call, a driver end or obey a signal, or the library drop an *)
(* image. Only one component moves, so that each of these is the fairness  *)
(* of one thread of it: a thread that records a latency, a script, the     *)
(* conductor of the library or the thread of an agent first; the           *)
(* application next. A call of the client waits for the lock and for the   *)
(* callbacks between, and the driver for the conductor: both are strongly  *)
(* fair.                                                                   *)

\* the first thread, the conductor, or the clock
First ==
  /\ \/ part = "latency recorder" /\ L!record_latency_step("t")
     \/ part = "stop scripts" /\ D!Script("a")
     \/ part = "registry" /\ R!callbackReturns
     \/ part = "image" /\ I!reclaim("i")
     \/ part = "shared runner" /\ S!Agent
     \/ part = "timeouts" /\ T!tick
     \/ part = "paused" /\ P!tick
     \/ part = "images" /\ G!Updates
  /\ StayAbsent

\* the second thread, the application, or the driver
Second ==
  /\ \/ part = "latency recorder" /\ L!record_latency_step("u")
     \/ part = "stop scripts" /\ D!Script("b")
     \/ part = "image" /\ I!reclaim("j")
     \/ part = "shared runner" /\ (S!startCas("t") \/ S!spawn("t") \/ S!assign("t") \/ S!isJoinable("t") \/ S!join("t"))
     \/ part = "timeouts" /\ T!driverWorks
     \/ part = "paused" /\ P!driverWorks
     \/ part = "images" /\ G!Application
  /\ StayAbsent

\* the stop script, or a call that was begun
Third ==
  /\ \/ part = "stop scripts" /\ D!Script("s")
     \/ part = "image" /\ (I!createImageThrows \/ I!createImageReturns \/ I!copyOfImageListReturns \/ I!endPoll \/ I!endPollAll)
     \/ part = "shared runner" /\ (S!startCas("u") \/ S!spawn("u") \/ S!assign("u") \/ S!isJoinable("u") \/ S!join("u"))
     \/ part = "timeouts" /\ T!onHeartbeatCheckTimeouts
     \/ part = "paused" /\ P!onHeartbeatCheckTimeouts
  /\ StayAbsent

\* the image objects that a call is making
CreatesFirst ==
  /\ \/ part = "image" /\ I!createImage("o")
  /\ StayAbsent

\* the other object of a call that was begun
CreatesSecond ==
  /\ \/ part = "image" /\ I!createImage("p")
  /\ StayAbsent

\* the copy of an image list into the first object
CopiesFirst ==
  /\ \/ part = "image" /\ I!copyToVector("o")
  /\ StayAbsent

\* and into the second
CopiesSecond ==
  /\ \/ part = "image" /\ I!copyToVector("p")
  /\ StayAbsent

\* the driver answers
Answers ==
  /\ \/ part = "registry" /\ R!answer("i")
  /\ StayAbsent

\* the calls of one thread of the client
FirstCall ==
  /\ \/ part = "registry" /\ (R!register("t") \/ R!findByPointer("t") \/ R!handlerAdded("t") \/ R!handlerRemoved("t"))
  /\ StayAbsent

\* the calls of its other thread
SecondCall ==
  /\ \/ part = "registry" /\ (R!register("u") \/ R!findByPointer("u") \/ R!handlerAdded("u") \/ R!handlerRemoved("u"))
  /\ StayAbsent

FairSpec ==
  /\ Spec
  /\ WF_vars(First) /\ WF_vars(Second) /\ WF_vars(Third) /\ WF_vars(CreatesFirst) /\
     WF_vars(CreatesSecond) /\ WF_vars(CopiesFirst) /\ WF_vars(CopiesSecond) /\
     SF_vars(Answers) /\ SF_vars(FirstCall) /\ SF_vars(SecondCall)

-----------------------------------------------------------------------------
(* A driver that the stop script found is gone in the end, if it obeys     *)
(* SIGTERM or not (stop-mediadriver.sh).                                   *)
FoundIsStopped ==
  \A d \in {"a", "b"} :
    (part = "stop scripts" /\ at["s"] = "kill" /\ d \in found["s"]) ~> (part = "stop scripts" /\ driver[d] = "gone")

(* What was begun ends: the retry loops of record_latency; the calls of    *)
(* the client, although a caller holds m_adminLock while it waits for the  *)
(* conductor (addX, findX, addAvailableCounterHandler); and the thread of  *)
(* an agent that was closed, for good (AgentRunner::close).                *)
CallsReturn ==
  /\ []<>(part = "latency recorder" => pc["t"] = "idle" /\ pc["u"] = "idle")
  /\ \A t \in {"t", "u"} : []<>(part = "registry" => thread[t] = R!Idle)
  /\ <>[](part = "shared runner" /\ m_isClosed => m_thread \in {"none", "ended"} /\ ~m_isRunning)

(* An image that went away, and that no object of the application holds,   *)
(* is freed by the library in the end: no retain is left over (Image,      *)
(* Subscription).                                                          *)
UnretainedIsFreed ==
  \A i \in {"i", "j"} :
    (part = "image" /\ phase[i] = "unavailable" /\ call = I!Idle /\ \A o \in {"o", "p"} : object[o] # i)
      ~> (part = "image" /\ phase[i] = "freed")

(* A driver that crashed or was shut down is noticed and the client is     *)
(* closed; so is a client that was paused for so long that the driver took *)
(* its counter away (onHeartbeatCheckTimeouts).                            *)
DriverEndNoticed ==
  /\ []<>(part = "timeouts" /\ driver # "up" => closed /\ ~m_driverActive)
  /\ (part = "paused" /\ m_heartbeatTimestamp /\ heartbeat.state = "freed")
       ~> (part = "paused" /\ closed)

(* A subscription that is polled visits every image that stays in the list *)
(* again and again, although a poll stops at its fragment limit and the    *)
(* list changes (Subscription::poll).                                      *)
NoStarvation ==
  \A m \in G!Images : []<>(part = "images" => visited = m \/ m \notin ToSet(G!Current))
=============================================================================
