---------------------------- MODULE MCStructures ----------------------------
(***************************************************************************)
(* Small instances of the tables and formats between client and driver:    *)
(* the hash maps, whose hash codes collide and whose chains wrap around    *)
(* the array; the counters, with records that are freed and used again;    *)
(* the broadcast buffer, whose transmitter laps the receiver; the control  *)
(* protocol; and the channel URI.                                          *)
(***************************************************************************)
EXTENDS Integers, Sequences, TLC

CONSTANTS
  Parts,    \* the components to move
  Clients,  \* the clients of the driver
  MaxCounterId, FreeToReuseTimeout,       \* of the counters
  MaxCounters, MaxTime, MaxScans, Scans

(* part is the component that moves; the variables it lacks are Absent.    *)
VARIABLES
  part,
  map, dict,
  metadata, registration, freeList, highWaterMark, clock, manager, counters, scan, present,
  buffer, tailIntent, tail, latest, tx, sent, cursor, nextRecord, recordOffset, lappedCount,
  rx, handed, raised,
  clientId, correlation, toDriver, asked, delivered, toClients, answered, called,
  unsolicited, frame,
  prefix, media, member, tagged, uri

vars == <<part, map, dict, metadata, registration, freeList, highWaterMark, clock, manager,
          counters, scan, present, buffer, tailIntent, tail, latest, tx, sent, cursor,
          nextRecord, recordOffset, lappedCount, rx, handed, raised, clientId, correlation,
          toDriver, asked, delivered, toClients, answered, called, unsolicited, frame,
          prefix, media, member, tagged, uri>>

Absent == "absent"

ClientSymmetry == Permutations(Clients)

H == INSTANCE HashMaps WITH
  Kinds <- {"int64", "tagged", "str", "array"}, Keys <- {"a", "b", "c", "d"},
  Values <- {1, 2}, HashCode <- [a |-> 7, b |-> 6, c |-> 6, d |-> 3], InitialCapacity <- 2,
  LoadPercent <- 65, MaxCapacity <- 8, AllocFails <- FALSE

CM == INSTANCE CounterMap WITH
  Keys <- 1 .. 4, initial_value <- 0, HashCode <- <<3, 2, 3, 3>>, InitialCapacity <- 2,
  LoadPercent <- 65, MaxLength <- 16, MaxValue <- 2,
  AllocFails <- FALSE

C == INSTANCE Counters WITH
  MaxCounterId <- MaxCounterId, FreeToReuseTimeout <- FreeToReuseTimeout,
  MaxCounters <- MaxCounters, MaxTime <- MaxTime, MaxScans <- MaxScans, Scans <- Scans

B == INSTANCE Broadcast WITH
  Capacity <- 8, Start <- 5, MaxMessages <- 6, PayloadAsLength <- 3, ScratchLength <- 2,
  GoesOn <- FALSE

L == INSTANCE ControlProtocol WITH
  Clients <- {"c"}, MessageCapacity <- 40, RingCapacity <- 1, MaxCommands <- 1,
  MaxUnsolicited <- 1, HalfWord <- 128, FirstId <- 300, Strings <- {0, 3, 5}

D == INSTANCE ControlProtocol WITH
  Clients <- Clients, MessageCapacity <- 44, RingCapacity <- 1, MaxCommands <- 2,
  MaxUnsolicited <- 0, HalfWord <- 128, FirstId <- 300, Strings <- {0}

T == INSTANCE ChannelUri WITH
  Members <- {"alias", "session-id", "rejoin", "reliable", "control-mode"},
  Texts <- {<<>>, <<"x">>, <<"x", "=", "y", ":", "z">>}, Numbers <- {2, 5}, IntMax <- 7,
  Positions <- {0}

U == INSTANCE ChannelUri WITH
  Members <- {"term-length", "init-term-id", "term-id", "term-offset", "mtu"},
  Texts <- {<<>>}, Numbers <- {2}, IntMax <- 7, Positions <- {0, 1, 6, 12}

ASSUME SuiteAssumption ==
  /\ H!HashMapsAssumption
  /\ CM!CounterMapAssumption
  /\ C!CountersAssumption
  /\ B!BroadcastAssumption
  /\ L!ControlProtocolAssumption
  /\ D!ControlProtocolAssumption
  /\ T!UriAssumption
  /\ U!UriAssumption

Init ==
  /\ part \in Parts
  /\ \/ part = "hash maps" /\ H!Init
     \/ part = "counter map" /\ CM!init
     \/ part = "counters" /\ C!Init
     \/ part = "broadcast" /\ B!Init
     \/ part = "layout" /\ L!Init
     \/ part = "commands" /\ D!Init
     \/ part = "uri text" /\ T!Init
     \/ part = "uri place" /\ U!Init
  /\ part \notin {"hash maps", "counter map"} =>
       map = Absent /\ dict = Absent
  /\ part # "counters" =>
       metadata = Absent /\ registration = Absent /\ freeList = Absent
       /\ highWaterMark = Absent /\ clock = Absent /\ manager = Absent /\ counters = Absent
       /\ scan = Absent /\ present = Absent
  /\ part # "broadcast" =>
       buffer = Absent /\ tailIntent = Absent /\ tail = Absent /\ latest = Absent
       /\ tx = Absent /\ sent = Absent /\ cursor = Absent /\ nextRecord = Absent
       /\ recordOffset = Absent /\ lappedCount = Absent /\ rx = Absent /\ handed = Absent
       /\ raised = Absent
  /\ part \notin {"layout", "commands"} =>
       clientId = Absent /\ correlation = Absent /\ toDriver = Absent /\ asked = Absent
       /\ delivered = Absent /\ toClients = Absent /\ answered = Absent /\ called = Absent
       /\ unsolicited = Absent /\ frame = Absent
  /\ part \notin {"uri text", "uri place"} =>
       prefix = Absent /\ media = Absent /\ member = Absent /\ tagged = Absent
       /\ uri = Absent

StayAbsent ==
  /\ UNCHANGED part
  /\ part \notin {"hash maps", "counter map"} => UNCHANGED <<map, dict>>
  /\ part # "counters" => UNCHANGED <<metadata, registration, freeList, highWaterMark, clock, manager, counters, scan,
       present>>
  /\ part # "broadcast" => UNCHANGED <<buffer, tailIntent, tail, latest, tx, sent, cursor, nextRecord, recordOffset,
       lappedCount, rx, handed, raised>>
  /\ part \notin {"layout", "commands"} => UNCHANGED <<clientId, correlation, toDriver, asked, delivered, toClients, answered, called,
       unsolicited, frame>>
  /\ part \notin {"uri text", "uri place"} => UNCHANGED <<prefix, media, member, tagged, uri>>

Maps == part = "hash maps" /\ H!Next /\ StayAbsent
CounterMaps == part = "counter map" /\ CM!Next /\ StayAbsent
CounterFile == part = "counters" /\ C!Next /\ StayAbsent
Broadcasts == part = "broadcast" /\ B!Next /\ StayAbsent
Layout == part = "layout" /\ L!Next /\ StayAbsent
Commands == part = "commands" /\ D!Next /\ StayAbsent
UriText == part = "uri text" /\ T!Next /\ StayAbsent
UriPlace == part = "uri place" /\ U!Next /\ StayAbsent

Next == Maps \/ CounterMaps \/ CounterFile \/ Broadcasts \/ Layout \/ Commands \/ UriText \/
        UriPlace

Spec == Init /\ [][Next]_vars

-----------------------------------------------------------------------------
(* The maps agree with a dictionary after every put, remove, remove_if and *)
(* doubling, also for chains that collide and wrap around the array; a     *)
(* walk visits every entry once; a probe ends; each entry points to the    *)
(* memory of its own key: in the array map that of the last put, in the    *)
(* string map that of the first, which outlives a replaced value (hash     *)
(* maps, counter map).                                                     *)
MapsExact ==
  /\ part = "hash maps" => H!ProbesEnd /\ H!LookupExact /\ H!VisitsExact /\
                           H!KeyMemoryKept
  /\ part = "counter map" => CM!ProbesEnd /\ CM!CountersExact /\ CM!CountersVisited

(* What a scan reports of a record belongs to one counter, although the    *)
(* record may be freed and allocated again under it (only the key may be   *)
(* zeroed already); a counter that is there all the time is found;         *)
(* isActive is true only of a counter that was allocated during the call,  *)
(* a heartbeat is that of the counter that was looked for; two counters    *)
(* never share a record (CountersManager, CountersReader,                  *)
(* HeartbeatTimestamp, LocalSocketAddressStatus).                          *)
SnapshotOfOneCounter ==
  /\ [](part = "counters" => C!TypeOK /\ C!RecordsAreOwn /\ C!SnapshotOfOneCounter /\
                             C!PresentIsFound)
  /\ [][part = "counters" => C!ActiveWasTrue]_vars

(* A message that is handed on has the length, the type and the bytes that *)
(* were transmitted together, although the transmitter overwrites records  *)
(* under the receiver; messages come in the order of transmission, and     *)
(* none is left out unless an exception says so (BroadcastReceiver,        *)
(* CopyBroadcastReceiver).                                                 *)
BroadcastIsHonest ==
  /\ [](part = "broadcast" => B!MessagesIntact)
  /\ [][part = "broadcast" => B!NoSilentLoss]_vars

(* What one side of the control protocol writes with its flyweights the    *)
(* other side reads with its structs, for commands, answers and frames,    *)
(* whatever the lengths of their strings, but for the flags of a removed   *)
(* publication, which the client does not send; and the correlation id of  *)
(* an answer is that of one command, which asked for it, with clients that *)
(* share the driver's counter (DriverProxy, DriverListenerAdapter).        *)
ProtocolAgrees ==
  /\ part = "layout" => L!CommandsIntact /\ L!AnswersIntact /\ L!FramesIntact
  /\ part = "commands" => D!AnswerFitsCommand

(* A channel that is printed and parsed again, with its parameters in any  *)
(* order, is the same channel, and one that was built has the parameters   *)
(* that were set, free texts without "|", numbers, flags and a place       *)
(* (ChannelUri, ChannelUriStringBuilder).                                  *)
UriSurvives ==
  /\ part = "uri text" => T!PrintedIsParsed /\ T!BuiltIsParsed
  /\ part = "uri place" => U!BuiltIsParsed
=============================================================================
