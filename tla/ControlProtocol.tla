-------------------------- MODULE ControlProtocol --------------------------
(***************************************************************************)
(* The control protocol between clients and the media driver: DriverProxy  *)
(* writes commands to the driver's ring buffer, the driver (external) reads*)
(* them through the C structs and answers on the broadcast buffer, and     *)
(* DriverListenerAdapter turns the answers into calls of the listener.     *)
(*                                                                         *)
(* Messages are modelled byte by byte: the flyweight classes of the C++    *)
(* client (aeron-lib/include/command, protocol) and the structs of the C   *)
(* driver (aeron/command, aeron/protocol).  A layout is the sequence of    *)
(* its fields; a field has a name and a size, VARYING for a length of 4    *)
(* bytes with that many bytes behind it.  A field of the C struct has the  *)
(* name of the C++ field that stands for the same value.  A string is its  *)
(* length; its bytes differ from those of every other string.              *)
(***************************************************************************)
EXTENDS Integers, Sequences, SequencesExt, FiniteSets, TLC

VARYING == 0
Field(name, size) == [name |-> name, size |-> size]
I64(name) == Field(name, 8)
I32(name) == Field(name, 4)
I16(name) == Field(name, 2)
I8(name) == Field(name, 1)
Text(name) == Field(name, VARYING)

-----------------------------------------------------------------------------
(* Memory: a cell is the k-th byte of a value, or garbage. *)
Garbage == <<-1, 0>>
TORN == -9          \* what a read gives that is not one stored value

IntBytes(v, size) == [k \in 1 .. size |-> <<v, k>>]
Chars(n) == [k \in 1 .. n |-> <<100 + n, k>>]

PutBytes(mem, at, bytes) ==
  [i \in DOMAIN mem |-> IF i - at + 1 \in DOMAIN bytes THEN bytes[i - at + 1] ELSE mem[i]]

GetInt(mem, at, size) ==
  IF {at, at + size - 1} \subseteq DOMAIN mem
     /\ \A k \in 1 .. size : mem[at + k - 1] = <<mem[at][1], k>>
  THEN mem[at][1] ELSE TORN

GetText(mem, at) ==
  LET n == GetInt(mem, at, 4)
  IN  IF n >= 0 /\ at + 3 + n \in DOMAIN mem
         /\ \A k \in 1 .. n : mem[at + 3 + k] = Chars(n)[k]
      THEN n ELSE TORN

Align(n) == ((n + 3) \div 4) * 4

Width(mem, at, size) == IF size = VARYING THEN 4 + Align(GetInt(mem, at, 4)) ELSE size

(* The place of the i-th field: behind the fields before it, whose strings *)
(* tell their length.                                                      *)
OffsetOf(mem, layout, i) ==
  LET offset[j \in 1 .. i] ==
        IF j = 1 THEN 0
        ELSE offset[j - 1] + Width(mem, offset[j - 1], layout[j - 1].size)
  IN  offset[i]

IndexOf(layout, name) == CHOOSE i \in DOMAIN layout : layout[i].name = name
Names(layout) == {layout[i].name : i \in DOMAIN layout}

Put(mem, layout, name, value) ==
  LET i == IndexOf(layout, name)
      size == layout[i].size
  IN  PutBytes(mem, OffsetOf(mem, layout, i),
        IF size = VARYING THEN IntBytes(value, 4) \o Chars(value) ELSE IntBytes(value, size))

Get(mem, layout, name) ==
  LET i == IndexOf(layout, name)
      at == OffsetOf(mem, layout, i)
  IN  IF layout[i].size = VARYING THEN GetText(mem, at) ELSE GetInt(mem, at, layout[i].size)

(* length(): the end of the last field, a string without its padding. *)
LengthOf(mem, layout) ==
  LET i == Len(layout)
      at == OffsetOf(mem, layout, i)
  IN  at + (IF layout[i].size = VARYING THEN 4 + GetInt(mem, at, 4) ELSE layout[i].size)

Blank(capacity) == [i \in 0 .. capacity - 1 |-> Garbage]

(* The fields are put in the order of the setters that are called. *)
Encode(capacity, layout, puts, args) ==
  FoldLeft(LAMBDA mem, name : Put(mem, layout, name, args[name]), Blank(capacity), puts)

Decode(mem, layout, names) == [name \in names |-> Get(mem, layout, name)]
NamesInOrder(layout) == [i \in DOMAIN layout |-> layout[i].name]

-----------------------------------------------------------------------------
(* Client to driver, as the C++ client writes it. *)
CorrelatedMessage == <<I64("clientId"), I64("correlationId")>>
PublicationMessage == CorrelatedMessage \o <<I32("streamId"), Text("channel")>>
SubscriptionMessage ==
  CorrelatedMessage \o <<I64("registrationCorrelationId"), I32("streamId"), Text("channel")>>
RemoveMessage == CorrelatedMessage \o <<I64("registrationId")>>
DestinationMessage == CorrelatedMessage \o <<I64("registrationId"), Text("channel")>>
CounterMessage == CorrelatedMessage \o <<I32("typeId"), Text("key"), Text("label")>>
TerminateDriver == CorrelatedMessage \o <<Text("token")>>

(* Driver to client, as the C++ client reads it. *)
(* Mutant: the stream stands before the session. *)
PublicationBuffersReady_Order ==
  <<I64("correlationId"), I64("registrationId"), I32("streamId"), I32("sessionId"),
    I32("positionLimitCounterId"), I32("channelStatusIndicatorId"), Text("logFileName")>>

PublicationBuffersReady ==
  <<I64("correlationId"), I64("registrationId"), I32("sessionId"), I32("streamId"),
    I32("positionLimitCounterId"), I32("channelStatusIndicatorId"), Text("logFileName")>>
ImageBuffersReady ==
  <<I64("correlationId"), I32("sessionId"), I32("streamId"),
    I64("subscriptionRegistrationId"), I32("subscriberPositionId"),
    Text("logFileName"), Text("sourceIdentity")>>
ImageMessage ==
  <<I64("correlationId"), I64("subscriptionRegistrationId"), I32("streamId"), Text("channel")>>
SubscriptionReady == <<I64("correlationId"), I32("channelStatusIndicatorId")>>
CounterUpdate == <<I64("correlationId"), I32("counterId")>>
OperationSucceeded == <<I64("correlationId")>>
ErrorResponse ==
  <<I64("offendingCommandCorrelationId"), I32("errorCode"), Text("errorMessage")>>
ClientTimeout == <<I64("clientId")>>

(* The structs of aeron_control_protocol.h; the strings behind a struct    *)
(* are where the C++ getters look for them.                                *)
CStruct ==
  LET correlated == <<I64("clientId"), I64("correlationId")>>
      publication == correlated \o <<I32("streamId"), Text("channel")>>
      destination == correlated \o <<I64("registrationId"), Text("channel")>>
      ready == <<I64("correlationId"), I64("registrationId"), I32("sessionId"),
                 I32("streamId"), I32("positionLimitCounterId"),
                 I32("channelStatusIndicatorId"), Text("logFileName")>>
      update == <<I64("correlationId"), I32("counterId")>>
      remove == correlated \o <<I64("registrationId")>>
  IN  [ADD_PUBLICATION |-> publication, ADD_EXCLUSIVE_PUBLICATION |-> publication,
       REMOVE_PUBLICATION |-> remove \o <<I64("flags")>>,
       ADD_SUBSCRIPTION |-> correlated \o
         <<I64("registrationCorrelationId"), I32("streamId"), Text("channel")>>,
       REMOVE_SUBSCRIPTION |-> remove, REMOVE_COUNTER |-> remove,
       ADD_DESTINATION |-> destination, REMOVE_DESTINATION |-> destination,
       ADD_RCV_DESTINATION |-> destination, REMOVE_RCV_DESTINATION |-> destination,
       ADD_COUNTER |-> correlated \o <<I32("typeId"), Text("key"), Text("label")>>,
       CLIENT_CLOSE |-> correlated, TERMINATE_DRIVER |-> correlated \o <<Text("token")>>,
       ON_PUBLICATION_READY |-> ready, ON_EXCLUSIVE_PUBLICATION_READY |-> ready,
       ON_SUBSCRIPTION_READY |-> <<I64("correlationId"), I32("channelStatusIndicatorId")>>,
       ON_AVAILABLE_IMAGE |->
         <<I64("correlationId"), I32("sessionId"), I32("streamId"),
           I64("subscriptionRegistrationId"), I32("subscriberPositionId"),
           Text("logFileName"), Text("sourceIdentity")>>,
       ON_UNAVAILABLE_IMAGE |->
         <<I64("correlationId"), I64("subscriptionRegistrationId"), I32("streamId"),
           Text("channel")>>,
       ON_OPERATION_SUCCESS |-> <<I64("correlationId")>>,
       ON_ERROR |-> <<I64("offendingCommandCorrelationId"), I32("errorCode"),
                      Text("errorMessage")>>,
       ON_COUNTER_READY |-> update, ON_UNAVAILABLE_COUNTER |-> update,
       ON_CLIENT_TIMEOUT |-> <<I64("clientId")>>]

(* The numbers of the message types: of the client and of the driver. *)

ControlProtocolEvents ==
  [ADD_PUBLICATION |-> 1, REMOVE_PUBLICATION |-> 2, ADD_EXCLUSIVE_PUBLICATION |-> 3,
   ADD_SUBSCRIPTION |-> 4, REMOVE_SUBSCRIPTION |-> 5, CLIENT_KEEPALIVE |-> 6,
   ADD_DESTINATION |-> 7, REMOVE_DESTINATION |-> 8, ADD_COUNTER |-> 9,
   REMOVE_COUNTER |-> 10, CLIENT_CLOSE |-> 11, ADD_RCV_DESTINATION |-> 12,
   REMOVE_RCV_DESTINATION |-> 13, TERMINATE_DRIVER |-> 14,
   ON_ERROR |-> 3841, ON_AVAILABLE_IMAGE |-> 3842, ON_PUBLICATION_READY |-> 3843,
   ON_OPERATION_SUCCESS |-> 3844, ON_UNAVAILABLE_IMAGE |-> 3845,
   ON_EXCLUSIVE_PUBLICATION_READY |-> 3846, ON_SUBSCRIPTION_READY |-> 3847,
   ON_COUNTER_READY |-> 3848, ON_UNAVAILABLE_COUNTER |-> 3849, ON_CLIENT_TIMEOUT |-> 3850]

AERON_COMMAND ==
  [ADD_PUBLICATION |-> 1, REMOVE_PUBLICATION |-> 2, ADD_EXCLUSIVE_PUBLICATION |-> 3,
   ADD_SUBSCRIPTION |-> 4, REMOVE_SUBSCRIPTION |-> 5, CLIENT_KEEPALIVE |-> 6,
   ADD_DESTINATION |-> 7, REMOVE_DESTINATION |-> 8, ADD_COUNTER |-> 9,
   REMOVE_COUNTER |-> 10, CLIENT_CLOSE |-> 11, ADD_RCV_DESTINATION |-> 12,
   REMOVE_RCV_DESTINATION |-> 13, TERMINATE_DRIVER |-> 14, ADD_STATIC_COUNTER |-> 15,
   REJECT_IMAGE |-> 16, REMOVE_DESTINATION_BY_ID |-> 17, GET_NEXT_AVAILABLE_SESSION_ID |-> 18,
   ON_ERROR |-> 3841, ON_AVAILABLE_IMAGE |-> 3842, ON_PUBLICATION_READY |-> 3843,
   ON_OPERATION_SUCCESS |-> 3844, ON_UNAVAILABLE_IMAGE |-> 3845,
   ON_EXCLUSIVE_PUBLICATION_READY |-> 3846, ON_SUBSCRIPTION_READY |-> 3847,
   ON_COUNTER_READY |-> 3848, ON_UNAVAILABLE_COUNTER |-> 3849, ON_CLIENT_TIMEOUT |-> 3850,
   ON_STATIC_COUNTER |-> 3851, ON_PUBLICATION_ERROR |-> 3852,
   ON_NEXT_AVAILABLE_SESSION_ID |-> 3853]

-----------------------------------------------------------------------------
(* The frames on the wire: as the C++ classes read them, and as the C      *)
(* driver writes them.                                                     *)
Header == <<I32("frameLength"), I8("version"), I8("flags"), I16("type")>>
DataHeader ==
  Header \o <<I32("termOffset"), I32("sessionId"), I32("streamId"), I32("termId"),
              I64("reservedValue")>>
Nak ==
  Header \o <<I32("sessionId"), I32("streamId"), I32("termId"), I32("termOffset"),
              I32("length")>>

Setup ==
  Header \o <<I32("termOffset"), I32("sessionId"), I32("streamId"), I32("initialTermId"),
              I32("actionTermId"), I32("termLength"), I32("mtu")>>
StatusMessage ==
  Header \o <<I32("sessionId"), I32("streamId"), I32("consumptionTermId"),
              I32("consumptionTermOffset"), I32("receiverWindow")>>

CFrame ==
  LET header == <<I32("frameLength"), I8("version"), I8("flags"), I16("type")>>
  IN  [setup |-> header \o <<I32("termOffset"), I32("sessionId"), I32("streamId"),
         I32("initialTermId"), I32("actionTermId"), I32("termLength"), I32("mtu"), I32("ttl")>>,
       data |-> header \o <<I32("termOffset"), I32("sessionId"), I32("streamId"),
         I32("termId"), I64("reservedValue")>>,
       nak |-> header \o <<I32("sessionId"), I32("streamId"), I32("termId"),
         I32("termOffset"), I32("length")>>,
       sm |-> header \o <<I32("sessionId"), I32("streamId"), I32("consumptionTermId"),
         I32("consumptionTermOffset"), I32("receiverWindow"), I64("receiverId")>>]
-----------------------------------------------------------------------------
CONSTANTS
  Clients,            \* the clients that share the driver
  MessageCapacity,    \* the stack buffer of writeCommandToDriver
  RingCapacity,       \* bound: commands that the ring buffer holds
  MaxCommands,        \* bound: commands that are ever written
  MaxUnsolicited,     \* bound: events that answer no command
  HalfWord,           \* 2^31, scaled down
  FirstId,            \* the correlation counter, which earlier clients have moved
  Strings             \* the strings, by their length

ControlProtocolAssumption ==
  /\ 0 \in Strings /\ Strings \subseteq 0 .. 99 /\ MessageCapacity \in Nat /\ RingCapacity \in Nat
  /\ HalfWord \in Nat \ {0} /\ FirstId \in Nat

VARIABLES
  clientId,      \* m_clientId of each client's proxy, -1 before it is made
  correlation,   \* the correlation counter of the ring buffer
  toDriver,      \* the commands in the ring buffer
  asked,         \* history: per correlation id the command, its client and arguments
  delivered,     \* the last command as the driver read it
  toClients,     \* the broadcast messages not yet received, per client
  answered,      \* history: the ids the driver has answered
  called,        \* the last call of the listener, per client
  unsolicited,   \* how many events answered no command, frames included
  frame          \* the last frame on the wire

vars == <<clientId, correlation, toDriver, asked, delivered, toClients, answered,
          called, unsolicited, frame>>

None == [name |-> "none"]

Init ==
  /\ clientId = [c \in Clients |-> -1] /\ correlation = FirstId
  /\ toDriver = <<>> /\ asked = <<>> /\ delivered = None
  /\ toClients = [c \in Clients |-> <<>>] /\ answered = {}
  /\ called = [c \in Clients |-> None] /\ unsolicited = 0 /\ frame = None

-----------------------------------------------------------------------------
(* DriverProxy: what each function writes, in the order of its setters. *)
addPublication ==
  [name |-> "ADD_PUBLICATION", layout |-> PublicationMessage,
   puts |-> <<"clientId", "correlationId", "streamId", "channel">>]
addExclusivePublication ==
  [name |-> "ADD_EXCLUSIVE_PUBLICATION", layout |-> PublicationMessage,
   puts |-> <<"clientId", "correlationId", "streamId", "channel">>]
removePublication ==
  [name |-> "REMOVE_PUBLICATION", layout |-> RemoveMessage,
   puts |-> <<"clientId", "correlationId", "registrationId">>]
addSubscription ==
  [name |-> "ADD_SUBSCRIPTION", layout |-> SubscriptionMessage,
   puts |-> <<"clientId", "registrationCorrelationId", "correlationId", "streamId", "channel">>]
removeSubscription ==
  [name |-> "REMOVE_SUBSCRIPTION", layout |-> RemoveMessage,
   puts |-> <<"clientId", "correlationId", "registrationId">>]
addDestination ==
  [name |-> "ADD_DESTINATION", layout |-> DestinationMessage,
   puts |-> <<"clientId", "registrationId", "correlationId", "channel">>]
removeDestination ==
  [name |-> "REMOVE_DESTINATION", layout |-> DestinationMessage,
   puts |-> <<"clientId", "registrationId", "correlationId", "channel">>]
addRcvDestination ==
  [name |-> "ADD_RCV_DESTINATION", layout |-> DestinationMessage,
   puts |-> <<"clientId", "registrationId", "correlationId", "channel">>]
removeRcvDestination ==
  [name |-> "REMOVE_RCV_DESTINATION", layout |-> DestinationMessage,
   puts |-> <<"clientId", "registrationId", "correlationId", "channel">>]

addCounter ==
  [name |-> "ADD_COUNTER", layout |-> CounterMessage,
   puts |-> <<"clientId", "correlationId", "typeId", "key", "label">>]
removeCounter ==
  [name |-> "REMOVE_COUNTER", layout |-> RemoveMessage,
   puts |-> <<"clientId", "correlationId", "registrationId">>]
clientClose ==
  [name |-> "CLIENT_CLOSE", layout |-> CorrelatedMessage,
   puts |-> <<"clientId", "correlationId">>]
terminateDriver ==
  [name |-> "TERMINATE_DRIVER", layout |-> TerminateDriver,
   puts |-> <<"clientId", "correlationId", "token">>]

Operations ==
  {addPublication, addExclusivePublication, removePublication, addSubscription,
   removeSubscription, addDestination, removeDestination, addRcvDestination,
   removeRcvDestination, addCounter, removeCounter, clientClose, terminateDriver}

(* The constructor: the client id is a correlation id. *)
DriverProxy(c) ==
  /\ clientId[c] = -1
  /\ correlation' = correlation + 1
  /\ clientId' = [clientId EXCEPT ![c] = correlation]
  /\ UNCHANGED <<toDriver, asked, delivered, toClients, answered, called, unsolicited, frame>>

(* Arguments: numbers that differ from each other, strings of any length.  *)
Arguments(op, id, cid, s, t) ==
  [clientId |-> cid, correlationId |-> id, streamId |-> 41, registrationId |-> 42,
   registrationCorrelationId |-> 43, typeId |-> 44, channel |-> s, key |-> s, label |-> t,
   token |-> s]

Bytes(layout, args) ==
  LET mem == Encode(200, layout, NamesInOrder(layout), args) IN LengthOf(mem, layout)

(* writeCommandToDriver: a command that does not fit the stack buffer or   *)
(* the ring buffer is an exception; its correlation id is used up.         *)
writeCommandToDriver(c, op, id, s, t) ==
  LET args == Arguments(op, id, clientId[c], s, t)
      mem == Encode(MessageCapacity, op.layout, op.puts, args)
  IN  IF Bytes(op.layout, args) <= MessageCapacity /\ Len(toDriver) < RingCapacity
      THEN /\ toDriver' = Append(toDriver,
                [type |-> ControlProtocolEvents[op.name], client |-> c,
                 length |-> LengthOf(mem, op.layout), bytes |-> mem])
           /\ asked' = Append(asked, [op |-> op, args |-> args, client |-> c])
      ELSE UNCHANGED <<toDriver, asked>>

(* nextCorrelationId and the write in one step (the modules of the ring    *)
(* buffers have them apart); terminateDriver uses -1.                      *)
Command(c) ==
  /\ clientId[c] >= 0 /\ Len(asked) < MaxCommands
  /\ correlation < FirstId + MaxCommands + 2 * Cardinality(Clients)
  /\ \E op \in Operations, s, t \in Strings :
       /\ op.name # "ADD_COUNTER" => t = s
       /\ (\A i \in DOMAIN op.layout : op.layout[i].size # VARYING) => s = 0
       /\ IF op.name = "TERMINATE_DRIVER"
          THEN writeCommandToDriver(c, op, -1, s, t) /\ UNCHANGED correlation
          ELSE /\ writeCommandToDriver(c, op, correlation, s, t)
               /\ correlation' = correlation + 1
  /\ UNCHANGED <<clientId, delivered, toClients, answered, called, unsolicited, frame>>

-----------------------------------------------------------------------------
(* The driver: the type number and the struct are those of the C headers. *)
NameOf(table, type) ==
  IF \E n \in DOMAIN table : table[n] = type
  THEN CHOOSE n \in DOMAIN table : table[n] = type ELSE "unknown"

Reply(name) ==
  CASE name = "ADD_PUBLICATION" -> "ON_PUBLICATION_READY"
    [] name = "ADD_EXCLUSIVE_PUBLICATION" -> "ON_EXCLUSIVE_PUBLICATION_READY"
    [] name = "ADD_SUBSCRIPTION" -> "ON_SUBSCRIPTION_READY"
    [] name = "ADD_COUNTER" -> "ON_COUNTER_READY"
    [] OTHER -> "ON_OPERATION_SUCCESS"

driverRead ==
  /\ toDriver # <<>>
  /\ LET message == Head(toDriver)
         name == NameOf(AERON_COMMAND, message.type)
     IN  delivered' = [name |-> name, length |-> message.length,
           command |-> Len(asked) - Len(toDriver) + 1,
           read |-> Decode(message.bytes, CStruct[name], Names(CStruct[name]))]
  /\ toDriver' = Tail(toDriver)
  /\ UNCHANGED <<clientId, correlation, asked, toClients, answered, called, unsolicited, frame>>

ERROR_CODE_CHANNEL_ENDPOINT_ERROR == 4

(* What the driver puts into an event, all numbers different.  The error   *)
(* of a channel endpoint names a counter, the status of the channel, where *)
(* other errors name the command.                                          *)
Values(id, s, t) ==
  [correlationId |-> id, registrationId |-> 61,
   offendingCommandCorrelationId |->
     IF 4 + t = ERROR_CODE_CHANNEL_ENDPOINT_ERROR THEN 65 ELSE id,
   sessionId |-> 62, streamId |-> 63, positionLimitCounterId |-> 64,
   channelStatusIndicatorId |-> 65, subscriptionRegistrationId |-> 66,
   subscriberPositionId |-> 67, counterId |-> 68, logFileName |-> s, sourceIdentity |-> t,
   channel |-> s, errorMessage |-> s, errorCode |-> 4 + t, clientId |-> id]

Transmit(name, values) ==
  toClients' = [c \in Clients |-> IF clientId[c] = -1 THEN toClients[c]
    ELSE Append(toClients[c],
           [type |-> AERON_COMMAND[name], name |-> name, values |-> values,
            bytes |-> Encode(60, CStruct[name], NamesInOrder(CStruct[name]), values)])]

(* The driver carries out a command or refuses it, and answers it once. *)
driverAnswer ==
  /\ delivered # None
  /\ IF delivered.name \in {"CLIENT_CLOSE", "TERMINATE_DRIVER"}
     THEN UNCHANGED <<toClients, answered>>
     ELSE /\ \E s, t \in Strings, name \in {Reply(delivered.name), "ON_ERROR"} :
               /\ "logFileName" \notin Names(CStruct[name]) /\ name # "ON_ERROR" => s = 0
               /\ t = 0
               /\ Transmit(name, Values(delivered.read.correlationId, s, t + 1))
          /\ answered' = answered \cup {delivered.command}
  /\ delivered' = None
  /\ UNCHANGED <<clientId, correlation, toDriver, asked, called, unsolicited, frame>>

driverEvent ==
  /\ unsolicited < MaxUnsolicited /\ unsolicited' = unsolicited + 1
  /\ \E s, t \in Strings, name \in {"ON_AVAILABLE_IMAGE", "ON_UNAVAILABLE_IMAGE",
          "ON_UNAVAILABLE_COUNTER", "ON_CLIENT_TIMEOUT", "ON_ERROR"} :
       /\ name # "ON_AVAILABLE_IMAGE" => t = 0
       /\ name \in {"ON_UNAVAILABLE_COUNTER", "ON_CLIENT_TIMEOUT"} => s = 0
       /\ Transmit(name, Values(70, s, t))
  /\ UNCHANGED <<clientId, correlation, toDriver, asked, delivered, answered, called, frame>>

(* A frame that the driver writes through the structs of                   *)
(* aeron_udp_protocol.h.                                                   *)
FrameValues ==
  [frameLength |-> 71, version |-> 0, flags |-> 72, type |-> 73, termOffset |-> 74,
   sessionId |-> 75, streamId |-> 76, termId |-> 77, reservedValue |-> 78, length |-> 79,
   initialTermId |-> 80, actionTermId |-> 81, termLength |-> 82, mtu |-> 83, ttl |-> 84,
   consumptionTermId |-> 85, consumptionTermOffset |-> 86, receiverWindow |-> 87,
   receiverId |-> 88]

driverFrame ==
  /\ unsolicited < MaxUnsolicited /\ unsolicited' = unsolicited + 1
  /\ \E kind \in DOMAIN CFrame :
       frame' = [name |-> kind,
                 bytes |-> Encode(48, CFrame[kind], NamesInOrder(CFrame[kind]), FrameValues)]
  /\ UNCHANGED <<clientId, correlation, toDriver, asked, delivered, toClients, answered,
                 called>>

-----------------------------------------------------------------------------
(* receiveMessages: the call of the listener, the flyweight it is read     *)
(* with and the fields that are passed on; other types are ignored.        *)
ReadsOf(name) ==
  LET publication == {"correlationId", "registrationId", "streamId", "sessionId",
                      "positionLimitCounterId", "channelStatusIndicatorId", "logFileName"}
      Case(call, layout, args) == [call |-> call, layout |-> layout, args |-> args]
  IN  CASE name = "ON_PUBLICATION_READY" ->
             Case("onNewPublication", PublicationBuffersReady, publication)
        [] name = "ON_EXCLUSIVE_PUBLICATION_READY" ->
             Case("onNewExclusivePublication", PublicationBuffersReady, publication)
        [] name = "ON_SUBSCRIPTION_READY" ->
             Case("onSubscriptionReady", SubscriptionReady,
                  {"correlationId", "channelStatusIndicatorId"})
        [] name = "ON_AVAILABLE_IMAGE" ->
             Case("onAvailableImage", ImageBuffersReady,
                  {"correlationId", "sessionId", "subscriberPositionId",
                   "subscriptionRegistrationId", "logFileName", "sourceIdentity"})
        [] name = "ON_OPERATION_SUCCESS" ->
             Case("onOperationSuccess", OperationSucceeded, {"correlationId"})
        [] name = "ON_UNAVAILABLE_IMAGE" ->
             Case("onUnavailableImage", ImageMessage,
                  {"correlationId", "subscriptionRegistrationId"})
        [] name = "ON_ERROR" ->
             Case("onErrorResponse", ErrorResponse,
                  {"offendingCommandCorrelationId", "errorCode", "errorMessage"})
        [] name = "ON_COUNTER_READY" ->
             Case("onAvailableCounter", CounterUpdate, {"correlationId", "counterId"})
        [] name = "ON_UNAVAILABLE_COUNTER" ->
             Case("onUnavailableCounter", CounterUpdate, {"correlationId", "counterId"})
        [] name = "ON_CLIENT_TIMEOUT" ->
             Case("onClientTimeout", ClientTimeout, {"clientId"})

(* static_cast<std::int32_t> *)
Int32(n) == ((n + HalfWord) % (2 * HalfWord)) - HalfWord

(* The error of a channel endpoint is a call of its own, with the low 32   *)
(* bits of the id.                                                         *)
receiveMessages(c) ==
  /\ toClients[c] # <<>>
  /\ LET message == Head(toClients[c])
         reads == ReadsOf(NameOf(ControlProtocolEvents, message.type))
         args == Decode(message.bytes, reads.layout, reads.args)
         endpoint == /\ reads.call = "onErrorResponse"
                     /\ args.errorCode = ERROR_CODE_CHANNEL_ENDPOINT_ERROR
     IN  called' = [called EXCEPT ![c] =
           [name |-> IF endpoint THEN "onChannelEndpointErrorResponse" ELSE reads.call,
            args |-> IF endpoint
                     THEN [args EXCEPT !.offendingCommandCorrelationId = Int32(@)] ELSE args,
            values |-> message.values]]
  /\ toClients' = [toClients EXCEPT ![c] = Tail(@)]
  /\ UNCHANGED <<clientId, correlation, toDriver, asked, delivered, answered, unsolicited, frame>>

Next ==
  \/ \E c \in Clients : DriverProxy(c) \/ Command(c) \/ receiveMessages(c)
  \/ driverRead \/ driverAnswer \/ driverEvent \/ driverFrame

Spec == Init /\ [][Next]_vars

-----------------------------------------------------------------------------
(* Every field of the C struct is read with the value that the client put, *)
(* in the order of the commands; the one field that no client puts is the  *)
(* flags of a removed publication (DriverProxy, the flyweights,            *)
(* aeron_control_protocol.h).                                              *)
CommandsIntact ==
  delivered # None =>
    LET command == asked[delivered.command]
        NotPut == IF delivered.name = "REMOVE_PUBLICATION" THEN {"flags"} ELSE {}
    IN  /\ delivered.name = command.op.name
        /\ \A field \in DOMAIN delivered.read \ NotPut :
             delivered.read[field] = command.args[field]

(* Every argument of a listener call is the value that the driver wrote    *)
(* through the C struct for the field of that name (DriverListenerAdapter).*)
AnswersIntact ==
  \A c \in Clients : called[c] # None =>
    \A a \in DOMAIN called[c].args : called[c].args[a] = called[c].values[a]

(* The correlation id of a listener call is that of one command, although  *)
(* every client gets every answer and all number their commands from one   *)
(* counter: a resource that is ready was asked for, and what was carried   *)
(* out or refused is a command that the driver has answered                *)
(* (nextCorrelationId, ControlProtocolEvents).                             *)
AnswerFitsCommand ==
  \A c \in Clients :
    LET Asked(names, id) ==
          \E i \in answered :
            /\ asked[i].op.name \in names /\ asked[i].args.correlationId = id
            /\ \A j \in DOMAIN asked \ {i} : asked[j].args.correlationId # id
        Ready == {"ADD_PUBLICATION", "ADD_EXCLUSIVE_PUBLICATION", "ADD_SUBSCRIPTION",
                  "ADD_COUNTER"}
        Commands == {op.name : op \in Operations}
        call == called[c]
    IN  CASE call.name = "onNewPublication" ->
               Asked({"ADD_PUBLICATION"}, call.args.correlationId)
          [] call.name = "onNewExclusivePublication" ->
               Asked({"ADD_EXCLUSIVE_PUBLICATION"}, call.args.correlationId)
          [] call.name = "onSubscriptionReady" ->
               Asked({"ADD_SUBSCRIPTION"}, call.args.correlationId)
          [] call.name = "onAvailableCounter" ->
               Asked({"ADD_COUNTER"}, call.args.correlationId)
          [] call.name = "onOperationSuccess" ->
               Asked(Commands \ Ready, call.args.correlationId)
          [] call.name = "onErrorResponse" ->
               Asked(Commands, call.args.offendingCommandCorrelationId)
          [] OTHER -> TRUE

(* The C++ flyweights find every field of a frame where the C structs have *)
(* it (protocol/*Flyweight.h, aeron_udp_protocol.h).                       *)
FramesIntact ==
  frame # None =>
    LET layout == CASE frame.name = "data" -> DataHeader [] frame.name = "nak" -> Nak
                    [] frame.name = "setup" -> Setup [] frame.name = "sm" -> StatusMessage
    IN  \A name \in Names(layout) : Get(frame.bytes, layout, name) = FrameValues[name]

(* RemoveMessageFlyweight.h: the removal of "a Publication or              *)
(* Subscription" ends with the registration id.  The driver's struct has   *)
(* to lie within the bytes that were sent.                                 *)
DriverReadsOnlyWhatWasSent ==
  delivered # None =>
    LET args == asked[delivered.command].args @@ [flags |-> 0]
        struct == CStruct[delivered.name]
    IN  Bytes(struct, args) <= delivered.length
=============================================================================
