------------------------------ MODULE MCClient ------------------------------
(***************************************************************************)
(* What the client shares between the application, the conductor and the   *)
(* library: the registry of resources and handlers, with ids of any kind;  *)
(* a publication used by several threads, one of which closes it; the      *)
(* objects that hold an image; the agent runner and invoker; the timeouts  *)
(* of the conductor; and the error log.  Any one of these parts moves in a *)
(* behaviour.  The configuration gives two threads, errors that share a    *)
(* code or a description, and a log with room for two of the three; the    *)
(* theorems of ClientProofs hold for every value of the constants.         *)
(***************************************************************************)
EXTENDS Integers, Sequences, TLC

CONSTANTS
  Parts,           \* the components to move
  Threads,         \* the threads of the application
  Ids, Handlers,   \* the ids of registrations and of handlers
  Exclusive, Limit, Position,   \* the publication, and what the library answers of it
  Images, Objects, \* the images of the library and the objects of the application
  MaxCopies,       \* bound: copies of the objects of one image
  AgentCalls,      \* bound: calls of start and close
  InterServiceTimeout, DriverTimeout, KeepaliveTimeout, ResourceTimeout, ClientLiveness,
  ClientGap, DriverGap,
  ErrorKinds, TextLength, Capacity,   \* the errors, their texts, the buffer of the log
  ErrorCalls, MaxTime, MaxReads       \* bounds: calls of record, the clock, reads

(* part is the component that moves; the variables it lacks are Absent.    *)
VARIABLES
  part,
  command, pending, resource, wrappers, holder, thread, adminLock, stored, installed,
  conductor, client, told, again,
  m_publication, library, closes, result, claim, destroyed, overlapped, badUse,
  call,
  phase, refs, object, used, copied,
  closed,
  m_isStarted, m_isRunning, m_isClosed, m_thread, joinable, at, agent, raced, invoker, invoked,
  calls,
  lastDoWork, lastKeepalive, lastCheck, driver, driverKeepalive, heartbeat,
  m_heartbeatTimestamp, m_driverActive, errors,
  buffer, observations, numObservations, nextOffset, lock, clock, recorded, reader, reads

vars == <<part, command, pending, resource, wrappers, holder, thread, adminLock, stored,
          installed, conductor, client, told, again, m_publication, library, closes,
          result, claim, destroyed, overlapped, badUse, call, phase, refs, object, used, copied, closed,
          m_isStarted, m_isRunning, m_isClosed, m_thread, joinable, at, agent, raced, invoker, invoked,
          calls, lastDoWork, lastKeepalive, lastCheck, driver, driverKeepalive, heartbeat,
          m_heartbeatTimestamp, m_driverActive, errors, buffer, observations,
          numObservations, nextOffset, lock, clock, recorded, reader, reads>>

Absent == "absent"

ClientSymmetry == Permutations(Threads) \cup Permutations(Ids)

ThreeErrors == {<<1, "a">>, <<1, "b">>, <<2, "a">>}

TextLengths == [e \in ThreeErrors |-> IF e[2] = "b" THEN 2 ELSE IF e[1] = 1 THEN 1 ELSE 4]

R == INSTANCE ClientRegistry

P == INSTANCE PublicationHandle

I == INSTANCE ImageHandle

S == INSTANCE Agents WITH MaxCalls <- AgentCalls

T == INSTANCE ConductorTimeouts

E == INSTANCE ErrorLog WITH Errors <- ErrorKinds, MaxCalls <- ErrorCalls

ASSUME SuiteAssumption ==
  /\ R!RegistryAssumption
  /\ P!HandleAssumption
  /\ I!HandleAssumption
  /\ S!AgentsAssumption
  /\ T!TimeoutAssumption
  /\ E!ErrorLogAssumption

Init ==
  /\ part \in Parts
  /\ \/ part = "registry" /\ R!Init
     \/ part = "publication" /\ P!Init
     \/ part = "image" /\ I!Init
     \/ part = "runner" /\ S!Init
     \/ part = "timeouts" /\ T!Init
     \/ part = "error log" /\ E!Init
  /\ part # "registry" =>
       command = Absent /\ pending = Absent /\ resource = Absent /\ wrappers = Absent
       /\ holder = Absent /\ thread = Absent /\ adminLock = Absent /\ stored = Absent
       /\ installed = Absent /\ conductor = Absent /\ client = Absent /\ told = Absent
       /\ again = Absent
  /\ part # "publication" =>
       m_publication = Absent /\ library = Absent /\ closes = Absent /\ result = Absent
       /\ claim = Absent /\ destroyed = Absent /\ overlapped = Absent /\ badUse = Absent
  /\ part \notin {"publication", "image", "error log"} =>
       call = Absent
  /\ part # "image" =>
       phase = Absent /\ refs = Absent /\ object = Absent /\ used = Absent /\ copied = Absent
  /\ part \notin {"image", "timeouts"} =>
       closed = Absent
  /\ part # "runner" =>
       m_isStarted = Absent /\ m_isRunning = Absent /\ m_isClosed = Absent
       /\ m_thread = Absent /\ joinable = Absent /\ at = Absent /\ agent = Absent
       /\ raced = Absent /\ invoker = Absent /\ invoked = Absent
  /\ part \notin {"runner", "error log"} =>
       calls = Absent
  /\ part # "timeouts" =>
       lastDoWork = Absent /\ lastKeepalive = Absent /\ lastCheck = Absent
       /\ driver = Absent /\ driverKeepalive = Absent /\ heartbeat = Absent
       /\ m_heartbeatTimestamp = Absent /\ m_driverActive = Absent /\ errors = Absent
  /\ part # "error log" =>
       buffer = Absent /\ observations = Absent /\ numObservations = Absent
       /\ nextOffset = Absent /\ lock = Absent /\ clock = Absent /\ recorded = Absent
       /\ reader = Absent /\ reads = Absent

StayAbsent ==
  /\ UNCHANGED part
  /\ part # "registry" => UNCHANGED <<command, pending, resource, wrappers, holder, thread, adminLock, stored, installed,
       conductor, client, told, again>>
  /\ part # "publication" => UNCHANGED <<m_publication, library, closes, result, claim, destroyed, overlapped, badUse>>
  /\ part \notin {"publication", "image", "error log"} => UNCHANGED <<call>>
  /\ part # "image" => UNCHANGED <<phase, refs, object, used, copied>>
  /\ part \notin {"image", "timeouts"} => UNCHANGED <<closed>>
  /\ part # "runner" => UNCHANGED <<m_isStarted, m_isRunning, m_isClosed, m_thread, joinable, at, agent, raced, invoker, invoked>>
  /\ part \notin {"runner", "error log"} => UNCHANGED <<calls>>
  /\ part # "timeouts" => UNCHANGED <<lastDoWork, lastKeepalive, lastCheck, driver, driverKeepalive, heartbeat,
       m_heartbeatTimestamp, m_driverActive, errors>>
  /\ part # "error log" => UNCHANGED <<buffer, observations, numObservations, nextOffset, lock, clock, recorded, reader,
       reads>>

Registry == part = "registry" /\ R!Next /\ StayAbsent
Publication == part = "publication" /\ P!Next /\ StayAbsent
ImageObject == part = "image" /\ I!Next /\ StayAbsent
Runner == part = "runner" /\ S!Next /\ StayAbsent
Timeouts == part = "timeouts" /\ T!Next /\ StayAbsent
Errors == part = "error log" /\ E!Next /\ StayAbsent

Next == Registry \/ Publication \/ ImageObject \/ Runner \/ Timeouts \/ Errors

Spec == Init /\ [][Next]_vars

-----------------------------------------------------------------------------
(* The client uses no command, callback, publication or image after the    *)
(* library has freed it, except in three cases that the properties name: a *)
(* command again after an exception or of a destination, a publication in  *)
(* a call that a close overlaps, and an image with a copied object; and a  *)
(* call on a closed publication says so (findX, Publication, Image, the    *)
(* handlers).                                                              *)
NoUseAfterFree ==
  /\ [](/\ part = "registry" => R!NoPollAfterFree /\ R!CallbacksAlive
        /\ part = "publication" => P!NoUseAfterFree
        /\ part = "image" => I!NoUseAfterFree)
  /\ [][part = "publication" => P!ClosedIsReported]_vars

(* A resource is given to one caller, until a freed command is polled      *)
(* again; a publication is closed once, unless two calls of close overlap  *)
(* or the library refuses the destructor; and an image is retained once    *)
(* for each object that holds it, until one is copied; whichever calls     *)
(* throw (findX, close, createImage).                                      *)
OneOwner ==
  /\ part = "registry" => R!OneOwner
  /\ part = "publication" => P!ClosedOnce
  /\ part = "image" => I!RetainedOncePerObject

(* An agent is started and closed once by any threads that start and close *)
(* its runner or invoker. If no start was under way when the runner was    *)
(* closed, a close returns after the thread of the agent, other than one   *)
(* that is called while the first close still waits (AgentRunner,          *)
(* AgentInvoker).                                                          *)
AgentsCloseOnce ==
  part = "runner" => S!AgentOnce /\ S!InvokerClosesOnce /\ S!CloseWaits

(* When both sides run in time the client is closed only because its       *)
(* driver ended: no timeout is raised for a live driver, and the driver    *)
(* does not drop the client.                                               *)
ClosedMeansDriverEnded == part = "timeouts" => T!ClosedMeansDriverEnded

(* Threads that meet an error at the same time leave one record for it     *)
(* with the number of their calls, and a reader at any moment is handed    *)
(* every record that was there, once and whole (DistinctErrorLog,          *)
(* ErrorLogReader).                                                        *)
ErrorLogExact ==
  part = "error log" => E!OneRecordPerError /\ E!ErrorsCounted /\ E!ErrorsReadWhole /\
                        E!ReadFindsAll
=============================================================================
