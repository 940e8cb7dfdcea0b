----------------------------- MODULE Broadcast -----------------------------
(***************************************************************************)
(* The broadcast buffer from the driver to its clients                     *)
(* (aeron-lib/include/concurrent/broadcast, aeron/concurrent/              *)
(* aeron_broadcast_receiver.h): the transmitter never waits, a receiver    *)
(* copies a message and then looks whether it was overwritten meanwhile.   *)
(* Lengths are in units of RECORD_ALIGNMENT; a record is a header of one   *)
(* unit (length, type) and its message; every store and every load that    *)
(* the other side can see is a step, in program order.                     *)
(***************************************************************************)
EXTENDS Integers, Sequences

CONSTANTS
  Capacity,        \* m_capacity
  Start,           \* the counters at the start
  MaxMessages,     \* bound: messages that are ever transmitted
  PayloadAsLength, \* what the bytes of a message are when read as a length
  ScratchLength,   \* the scratch buffer of CopyBroadcastReceiver
  GoesOn           \* whether receive is called again after an exception

BroadcastAssumption ==
  /\ Capacity \in {8, 16} /\ Start \in Nat /\ PayloadAsLength \in 1 .. 2 * Capacity
  /\ ScratchLength \in Nat /\ GoesOn \in BOOLEAN

PADDING_MSG_TYPE_ID == -1
HEADER_LENGTH == 1
MaxMsgLength == Capacity \div 8      \* calculateMaxMessageLength

VARIABLES
  buffer,       \* per unit: length, type and the message that it belongs to
  tailIntent, tail, latest,      \* the trailer
  tx,           \* the transmission under way
  sent,         \* history: per message its position and its length
  cursor, nextRecord, recordOffset, lappedCount,   \* BroadcastReceiver
  rx,           \* the call of receive under way
  handed,       \* history: the message handed to the handler last, -1 for a torn one
  raised        \* history: an exception since the last message

vars == <<buffer, tailIntent, tail, latest, tx, sent, cursor, nextRecord, recordOffset,
          lappedCount, rx, handed, raised>>

receiver == <<cursor, nextRecord, recordOffset, lappedCount, rx, handed, raised>>

Idle == [pc |-> "idle"]
Mask(position) == position % Capacity

Init ==
  /\ buffer = [i \in 0 .. Capacity - 1 |-> [length |-> 0, type |-> 0, message |-> 0]]
  /\ tailIntent = Start /\ tail = Start /\ latest = Start
  /\ tx = Idle /\ sent = <<>>
  /\ cursor = Start /\ nextRecord = Start /\ recordOffset = Mask(Start) /\ lappedCount = 0
  /\ rx = Idle /\ handed = 0 /\ raised = FALSE

-----------------------------------------------------------------------------

signalTailIntent(newTail) == tailIntent' = newTail

(* transmit: a record that does not fit before the end of the buffer goes  *)
(* to its start, behind a padding record.                                  *)
transmit ==
  /\ tx = Idle /\ Len(sent) < MaxMessages
  /\ \E length \in 0 .. MaxMsgLength :
       LET record == length + HEADER_LENGTH
           toEnd == Capacity - Mask(tail)
       IN  IF toEnd < record
           THEN /\ signalTailIntent(tail + record + toEnd)
                /\ tx' = [pc |-> "pad", at |-> tail + toEnd, length |-> record]
           ELSE /\ signalTailIntent(tail + record)
                /\ tx' = [pc |-> "length", at |-> tail, length |-> record]
  /\ UNCHANGED <<buffer, tail, latest, sent, receiver>>

insertPaddingRecord ==
  /\ tx.pc = "pad"
  /\ buffer' = [buffer EXCEPT ![Mask(tail)] =
       [length |-> Capacity - Mask(tail), type |-> PADDING_MSG_TYPE_ID, message |-> 0]]
  /\ tx' = [tx EXCEPT !.pc = "length"]
  /\ UNCHANGED <<tailIntent, tail, latest, sent, receiver>>

putLength ==
  /\ tx.pc = "length"
  /\ buffer' = [buffer EXCEPT ![Mask(tx.at)].length = tx.length]
  /\ tx' = [tx EXCEPT !.pc = "type"]
  /\ UNCHANGED <<tailIntent, tail, latest, sent, receiver>>

putType ==
  /\ tx.pc = "type"
  /\ buffer' = [buffer EXCEPT ![Mask(tx.at)].type = 1,
                              ![Mask(tx.at)].message = Len(sent) + 1]
  /\ tx' = [tx EXCEPT !.pc = "bytes"]
  /\ UNCHANGED <<tailIntent, tail, latest, sent, receiver>>

putBytes ==
  /\ tx.pc = "bytes"
  /\ buffer' = [i \in DOMAIN buffer |->
       IF i \in Mask(tx.at) + 1 .. Mask(tx.at) + tx.length - 1
       THEN [length |-> PayloadAsLength, type |-> 0, message |-> Len(sent) + 1]
       ELSE buffer[i]]
  /\ sent' = Append(sent, [at |-> tx.at, length |-> tx.length])
  /\ tx' = [tx EXCEPT !.pc = "latest"]
  /\ UNCHANGED <<tailIntent, tail, latest, receiver>>

putLatest ==
  /\ tx.pc = "latest" /\ latest' = tx.at /\ tx' = [tx EXCEPT !.pc = "tail"]
  /\ UNCHANGED <<buffer, tailIntent, tail, sent, receiver>>

putTail ==
  /\ tx.pc = "tail" /\ tail' = tx.at + tx.length /\ tx' = Idle
  /\ UNCHANGED <<buffer, tailIntent, latest, sent, receiver>>

-----------------------------------------------------------------------------
transmitter == <<buffer, tailIntent, tail, latest, tx, sent>>

(* validate: the record at a position is not overwritten yet. *)
validate(position) == position + Capacity > tailIntent

Raise ==
  /\ rx' = IF GoesOn THEN Idle ELSE [pc |-> "failed"]
  /\ raised' = TRUE

(* receive, receiveNext: nothing new, or the record at m_nextRecord. *)
receiveNext ==
  /\ rx = Idle /\ tail > nextRecord
  /\ rx' = [pc |-> "validate", at |-> nextRecord, seen |-> lappedCount]
  /\ UNCHANGED <<transmitter, cursor, nextRecord, recordOffset, lappedCount, handed, raised>>

receiveValidate ==
  /\ rx.pc = "validate"
  /\ IF validate(rx.at)
     THEN rx' = [rx EXCEPT !.pc = "length"] /\ UNCHANGED lappedCount
     ELSE rx' = [rx EXCEPT !.pc = "latest"] /\ lappedCount' = lappedCount + 1
  /\ UNCHANGED <<transmitter, cursor, nextRecord, recordOffset, handed, raised>>

receiveLatest ==
  /\ rx.pc = "latest"
  /\ rx' = [rx EXCEPT !.pc = "length", !.at = latest]
  /\ UNCHANGED <<transmitter, cursor, nextRecord, recordOffset, lappedCount, handed, raised>>

receiveLength ==
  /\ rx.pc = "length"
  /\ cursor' = rx.at /\ nextRecord' = rx.at + buffer[Mask(rx.at)].length
  /\ rx' = [rx EXCEPT !.pc = "type"]
  /\ UNCHANGED <<transmitter, recordOffset, lappedCount, handed, raised>>

receiveType ==
  /\ rx.pc = "type"
  /\ IF buffer[Mask(rx.at)].type = PADDING_MSG_TYPE_ID
     THEN rx' = [rx EXCEPT !.pc = "padding"] /\ recordOffset' = 0
     ELSE rx' = [rx EXCEPT !.pc = "header"] /\ recordOffset' = Mask(rx.at)
  /\ UNCHANGED <<transmitter, cursor, nextRecord, lappedCount, handed, raised>>

(* The record behind a padding record is at the start of the buffer. *)
receivePadding ==
  /\ rx.pc = "padding"
  /\ cursor' = nextRecord /\ nextRecord' = nextRecord + buffer[0].length
  /\ rx' = [rx EXCEPT !.pc = "header"]
  /\ UNCHANGED <<transmitter, recordOffset, lappedCount, handed, raised>>

(* CopyBroadcastReceiver::receive: an overtaken receiver and a message     *)
(* that is too long for the scratch buffer raise.                          *)
receiveHeader ==
  /\ rx.pc = "header"
  /\ LET length == buffer[recordOffset].length - HEADER_LENGTH
     IN  IF rx.seen # lappedCount \/ length > ScratchLength
         THEN Raise
         ELSE /\ rx' = [pc |-> "typeId", length |-> length]
              /\ UNCHANGED raised
  /\ UNCHANGED <<transmitter, cursor, nextRecord, recordOffset, lappedCount, handed>>

receiveTypeId ==
  /\ rx.pc = "typeId"
  /\ rx' = [pc |-> "copy", length |-> rx.length, type |-> buffer[recordOffset].type,
            message |-> buffer[recordOffset].message]
  /\ UNCHANGED <<transmitter, cursor, nextRecord, recordOffset, lappedCount, handed, raised>>

(* The copy may run past the records into the trailer (0). *)
copyBytes ==
  /\ rx.pc = "copy"
  /\ rx' = [pc |-> "check", length |-> rx.length, type |-> rx.type, message |-> rx.message,
            bytes |-> { IF i \in DOMAIN buffer THEN buffer[i].message ELSE 0 :
                        i \in recordOffset + 1 .. recordOffset + rx.length }]
  /\ UNCHANGED <<transmitter, cursor, nextRecord, recordOffset, lappedCount, handed, raised>>

(* What the handler gets is a message that was sent, or torn. *)
HandOn ==
  /\ handed' = IF /\ rx.type = 1 /\ rx.message \in DOMAIN sent
                  /\ rx.bytes \subseteq {rx.message}
                  /\ sent[rx.message].length = rx.length + HEADER_LENGTH
               THEN rx.message ELSE -1
  /\ rx' = Idle /\ raised' = FALSE

(* Mutant: the copy is handed on without a second look. *)
handler_Unchecked ==
  /\ rx.pc = "check" /\ HandOn
  /\ UNCHANGED <<transmitter, cursor, nextRecord, recordOffset, lappedCount>>

handler ==
  /\ rx.pc = "check"
  /\ \/ validate(cursor) /\ HandOn
     \/ ~validate(cursor) /\ Raise /\ UNCHANGED handed
  /\ UNCHANGED <<transmitter, cursor, nextRecord, recordOffset, lappedCount>>

-----------------------------------------------------------------------------
Transmitter ==
  transmit \/ insertPaddingRecord \/ putLength \/ putType \/ putBytes \/ putLatest \/ putTail

Receiver ==
  \/ receiveNext \/ receiveValidate \/ receiveLatest \/ receiveLength \/ receiveType
  \/ receivePadding \/ receiveHeader \/ receiveTypeId \/ copyBytes \/ handler

Next == Transmitter \/ Receiver

Spec == Init /\ [][Next]_vars

-----------------------------------------------------------------------------
(* A message that is handed on has the length, the type and the bytes that *)
(* were transmitted together, although the transmitter overwrites records  *)
(* under the receiver (CopyBroadcastReceiver::receive, validate).          *)
MessagesIntact == handed # -1

(* Messages are handed on in the order of transmission, and none is left   *)
(* out unless an exception says so (receiveNext, lappedCount).             *)
NoSilentLoss ==
  handed' # handed /\ handed' # -1 =>
    handed' > handed /\ (handed' = handed + 1 \/ raised)

=============================================================================
