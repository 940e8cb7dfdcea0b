----------------------------- MODULE RingBuffer -----------------------------
(***************************************************************************)
(* The memory of Aeron's ring buffers (aeron-lib/include/concurrent/       *)
(* ringbuffer) and the side that both of them share: read, which hands the *)
(* records to a handler, zeroes them and only then moves the head.         *)
(*                                                                         *)
(* Lengths and indexes count units of RecordDescriptor::ALIGNMENT, the     *)
(* length of a record header, and a record is one header followed by the   *)
(* units of its message.  The type id of a message is its identity.        *)
(***************************************************************************)
EXTENDS Integers, Sequences

CONSTANTS
  Capacity,     \* m_capacity
  MsgLengths,   \* the message lengths written
  MaxWrites,    \* bound: messages offered
  ReadLimit,    \* messageCountLimit
  Start         \* the position earlier messages have brought the buffer to

RingBufferAssumption ==
  /\ Capacity \in Nat \ {0} /\ Capacity % 8 = 0
  /\ MsgLengths \subseteq Nat
  /\ MaxWrites \in Nat /\ ReadLimit \in Nat \ {0}
  /\ Start \in 0 .. (Capacity - 1)

(* m_maxMsgLength *)
MaxMsgLength == Capacity \div 8

HEADER_LENGTH == 1
PADDING_MSG_TYPE_ID == -1

(* The cells of the buffer: zero, a header (makeHeader), or one unit of    *)
(* the message with that identity.                                         *)
Zero == [length |-> 0, type |-> 0]
makeHeader(length, type) == [length |-> length, type |-> type]
MsgUnit(id) == [length |-> Capacity * 2, type |-> id]
Cells == [length : Int, type : Int]

VARIABLES
  buffer,       \* the cells below m_capacity
  tail, headCache, head   \* the positions in the trailer

(* The consumer: where it is, the head it loaded, what it has read. *)
VARIABLES reader, rHead, bytesRead, messagesRead

(* History: what the handler was given. *)
VARIABLE handed

memory == <<buffer, tail, headCache, head>>
readerVars == <<reader, rHead, bytesRead, messagesRead, handed>>

RingInit ==
  /\ buffer = [i \in 0 .. (Capacity - 1) |-> Zero]
  /\ tail = Start /\ headCache = 0 /\ head = Start
  /\ reader = "idle" /\ rHead = 0 /\ bytesRead = 0 /\ messagesRead = 0
  /\ handed = <<>>

IndexOf(position) == position % Capacity

-----------------------------------------------------------------------------
(* read() *)

ReadBegin ==
  /\ reader = "idle"
  /\ reader' = "record" /\ rHead' = head
  /\ bytesRead' = 0 /\ messagesRead' = 0
  /\ UNCHANGED <<memory, handed>>

(* The loop ends: at the end of the buffer, at the limit, or at a record   *)
(* that is not complete.                                                   *)
ReadStops ==
  /\ reader = "record"
  /\ ~ /\ bytesRead < Capacity - IndexOf(rHead)
       /\ messagesRead < ReadLimit
       /\ buffer[IndexOf(rHead) + bytesRead].length > 0
  /\ \/ bytesRead # 0 /\ reader' = "zero" /\ UNCHANGED <<rHead, messagesRead>>
     \/ bytesRead = 0 /\ reader' = "idle" /\ rHead' = 0 /\ messagesRead' = 0
  /\ UNCHANGED <<memory, bytesRead, handed>>

(* One record: padding is skipped, a message goes to the handler, which    *)
(* may throw.                                                              *)
ReadRecord ==
  /\ reader = "record"
  /\ bytesRead < Capacity - IndexOf(rHead) /\ messagesRead < ReadLimit
  /\ LET index == IndexOf(rHead) + bytesRead
         header == buffer[index]
     IN  /\ header.length > 0
         /\ bytesRead' = bytesRead + header.length
         /\ \/ /\ header.type = PADDING_MSG_TYPE_ID
               /\ UNCHANGED <<reader, messagesRead, handed>>
            \/ /\ header.type # PADDING_MSG_TYPE_ID
               /\ messagesRead' = messagesRead + 1
               /\ handed' = Append(handed,
                    [id |-> header.type,
                     body |-> [k \in 1 .. (header.length - 1) |->
                                 IF index + k < Capacity THEN buffer[index + k]
                                 ELSE Zero]])
               /\ reader' \in {"record", "zero"}
  /\ UNCHANGED <<memory, rHead>>

(* The scope exit: clear what was read, then move the head. *)
ReadZero ==
  /\ reader = "zero" /\ reader' = "head"
  /\ buffer' = [i \in DOMAIN buffer |->
                  IF i \in IndexOf(rHead) .. (IndexOf(rHead) + bytesRead - 1)
                  THEN Zero ELSE buffer[i]]
  /\ UNCHANGED <<tail, headCache, head, rHead, bytesRead, messagesRead,
                 handed>>

ReadHead ==
  /\ reader = "head" /\ reader' = "idle"
  /\ head' = rHead + bytesRead
  /\ bytesRead' = 0 /\ rHead' = 0 /\ messagesRead' = 0
  /\ UNCHANGED <<buffer, tail, headCache, handed>>

read == ReadBegin \/ ReadStops \/ ReadRecord \/ ReadZero \/ ReadHead

(* Where the consumer stands, records in the current batch included. *)
Consumed == IF reader = "idle" THEN head ELSE rHead + bytesRead

-----------------------------------------------------------------------------
(* Properties both buffers have.                                           *)

(* A message reaches the handler whole: every unit the handler is given    *)
(* was written for the message named in the header (read() and the order   *)
(* of the stores in write()).                                              *)
NoTornMessage ==
  \A n \in DOMAIN handed : \A k \in DOMAIN handed[n].body :
    handed[n].body[k] = MsgUnit(handed[n].id)
=============================================================================
