----------------------------- MODULE LogBuffer -----------------------------
(***************************************************************************)
(* The log of one stream (aeron-lib/include/concurrent/logbuffer): three   *)
(* term buffers used in rotation, a tail counter for each, and the count   *)
(* of the active term, shared by publishers, subscribers and the driver.   *)
(*                                                                         *)
(* A tail counter is a 64-bit word with a term id above a term offset: a   *)
(* record here.  Term ids and counts are 32-bit words that wrap: a word    *)
(* has 2 * HalfWord values.  A frame stands at the offset of its header,   *)
(* with the fields that its readers look at and, for the payload, the      *)
(* message and the number of the fragment.                                 *)
(***************************************************************************)
EXTENDS Integers, Sequences, FiniteSetsExt

CONSTANTS
  TermLength,        \* capacity of a term buffer
  FRAME_ALIGNMENT,
  HEADER_LENGTH,     \* DataFrameHeader::LENGTH
  MaxPayloadLength,  \* m_maxPayloadLength: what one frame carries
  MaxMessageLength,  \* m_maxMessageLength
  HalfWord,          \* 2^31, scaled down
  InitialTermId,     \* m_initialTermId
  StartCount         \* the terms that earlier messages have filled

LogBufferAssumption ==
  /\ FRAME_ALIGNMENT \in Nat \ {0}
  /\ HEADER_LENGTH \in Nat \ {0} /\ HEADER_LENGTH % FRAME_ALIGNMENT = 0
  /\ TermLength \in Nat \ {0} /\ TermLength % FRAME_ALIGNMENT = 0
  /\ MaxPayloadLength \in Nat \ {0}
  /\ (MaxPayloadLength + HEADER_LENGTH) % FRAME_ALIGNMENT = 0
  /\ MaxMessageLength \in 0 .. (TermLength \div 4)
  /\ HalfWord \in Nat \ {0}
  /\ InitialTermId \in (-HalfWord) .. (HalfWord - 1)
  /\ StartCount \in 0 .. (HalfWord - 1)

PARTITION_COUNT == 3

(* Conversion to a 32-bit word. *)
Int32(n) == ((n + HalfWord) % (2 * HalfWord)) - HalfWord

align(value) == ((value + FRAME_ALIGNMENT - 1) \div FRAME_ALIGNMENT) * FRAME_ALIGNMENT

computeTermCount(termId) == Int32(termId - InitialTermId)
indexByTermCount(termCount) == termCount % PARTITION_COUNT
indexByTerm(termId) == computeTermCount(termId) % PARTITION_COUNT
nextPartitionIndex(index) == (index + 1) % PARTITION_COUNT
computeTermBeginPosition(termId) == computeTermCount(termId) * TermLength
computePosition(termId, termOffset) == computeTermBeginPosition(termId) + termOffset
indexByPosition(position) == (position \div TermLength) % PARTITION_COUNT
offsetByPosition(position) == position % TermLength
maxPossiblePosition == TermLength * HalfWord

(* termOffset(rawTail, termLength): the tail of a full term has run past    *)
(* its end.                                                                *)
termOffset(rawTail) == Min({rawTail.offset, TermLength})

computeFragmentedFrameLength(length) ==
  LET remainingPayload == length % MaxPayloadLength
      lastFrameLength == IF remainingPayload > 0
                         THEN align(remainingPayload + HEADER_LENGTH) ELSE 0
  IN  (length \div MaxPayloadLength) * (MaxPayloadLength + HEADER_LENGTH)
        + lastFrameLength

(* The space a message takes: one frame, or several. *)
framedLength(length) ==
  IF length <= MaxPayloadLength THEN align(length + HEADER_LENGTH)
  ELSE computeFragmentedFrameLength(length)

(* The payload of the frame that begins with `remaining` bytes to go. *)
bytesToWrite(remaining) == Min({remaining, MaxPayloadLength})

-----------------------------------------------------------------------------
DATA == "data"
PAD == "pad"

(* Memory that holds no frame: the length of a header here reads as zero. *)
Zero == [length |-> 0, type |-> DATA, begin |-> FALSE, end |-> FALSE,
         termId |-> 0, id |-> 0, frag |-> 0]

(* HeaderWriter::write: a negative length hides the frame, the other       *)
(* fields get the defaults of an unfragmented data frame.                  *)
header(length, termId) ==
  [Zero EXCEPT !.length = -length, !.begin = TRUE, !.end = TRUE,
               !.termId = termId]

isPaddingFrame(frame) == frame.type = PAD

Partitions == 0 .. (PARTITION_COUNT - 1)
Offsets == {o \in 0 .. (TermLength - 1) : o % FRAME_ALIGNMENT = 0}

VARIABLES
  terms,            \* the term buffers
  tails,            \* termTailCounters
  activeTermCount,
  isConnected       \* set by the driver

logVars == <<terms, tails, activeTermCount, isConnected>>

(* A log whose first StartCount terms were filled and consumed: a tail is  *)
(* at the end of the term it last held, or at the beginning of the active  *)
(* one; the partitions that were not used yet wait for their first term.   *)
LogInit ==
  /\ terms = [i \in Partitions |-> [o \in Offsets |-> Zero]]
  /\ activeTermCount = StartCount
  /\ tails = [i \in Partitions |->
       LET behind == (StartCount - i) % PARTITION_COUNT
           count == StartCount - behind
       IN  [termId |-> Int32(InitialTermId + count),
            offset |-> IF behind > 0 /\ count >= 0 THEN TermLength ELSE 0]]
  /\ isConnected = TRUE

frameAt(position) == terms[indexByPosition(position)][offsetByPosition(position)]

(* The positions a consumer may stand at. *)
StartPosition == StartCount * TermLength

-----------------------------------------------------------------------------
(***************************************************************************)
(* Image::poll and TermReader::read: one subscriber follows the log frame  *)
(* by frame.  Each read of a frame length is a step, the position moves    *)
(* when the poll ends.                                                     *)
(***************************************************************************)
CONSTANTS
  FragmentLimit,    \* fragmentLimit of the polls
  HandlerThrows     \* whether the handler may throw

ImagePollAssumption ==
  FragmentLimit \in Nat \ {0} /\ HandlerThrows \in BOOLEAN

VARIABLES
  subscriberPosition,   \* m_subscriberPosition, read by the driver
  poller,               \* the poll under way
  handed                \* history: the frames given to the handler

imageVars == <<subscriberPosition, poller, handed>>

(* op: the operation; position and begin: initialPosition and              *)
(* initialOffset; offset: the next frame; limit: limitOffset; read:        *)
(* fragmentsRead; result: resultingPosition of a peek; left: the loop was  *)
(* left by a break or an exception.                                        *)
NoPoll == [op |-> "none", position |-> 0, begin |-> 0, offset |-> 0,
           limit |-> 0, read |-> 0, result |-> 0, left |-> FALSE]

ImageInit ==
  /\ subscriberPosition = StartPosition
  /\ poller = NoPoll
  /\ handed = <<>>

(* The operation op begins at a position and scans below limitOffset. *)
BeginAt(op, position, limitOffset) ==
  poller' = [op |-> op, position |-> position,
             begin |-> offsetByPosition(position),
             offset |-> offsetByPosition(position),
             limit |-> limitOffset, read |-> 0, result |-> position,
             left |-> FALSE]

(* The frame the poll stands at. *)
PolledFrame ==
  terms[indexByPosition(poller.position)][poller.offset]

MoreToScan == ~poller.left /\ poller.offset < poller.limit

(* frameLengthVolatile: a frame that is not committed ends the scan. *)
FrameReady ==
  /\ MoreToScan
  /\ PolledFrame.length > 0

OffsetAfterFrame == poller.offset + align(PolledFrame.length)

Record(frame) == [id |-> frame.id, frag |-> frame.frag,
                  begin |-> frame.begin, end |-> frame.end,
                  at |-> poller.position + (poller.offset - poller.begin)]

-----------------------------------------------------------------------------
(* A poll that finds no frame changes nothing. *)
poll ==
  /\ poller.op = "none" /\ frameAt(subscriberPosition).length > 0
  /\ BeginAt("poll", subscriberPosition, TermLength)
  /\ UNCHANGED <<subscriberPosition, handed>>

(* One turn of the loop of TermReader::read: an exception of the handler   *)
(* leaves the loop behind the fragment.                                    *)
read ==
  /\ poller.op = "poll" /\ poller.read < FragmentLimit /\ FrameReady
  /\ IF isPaddingFrame(PolledFrame)
     THEN /\ poller' = [poller EXCEPT !.offset = OffsetAfterFrame]
          /\ UNCHANGED handed
     ELSE /\ \E throws \in {FALSE, HandlerThrows} :
               poller' = [poller EXCEPT !.offset = OffsetAfterFrame, !.read = @ + 1,
                                        !.left = throws]
          /\ handed' = Append(handed, Record(PolledFrame))
  /\ UNCHANGED subscriberPosition

(* Mutant: the position moves with the count of fragments. *)
pollReturn_Unread ==
  /\ poller.op = "poll"
  /\ ~(poller.read < FragmentLimit /\ FrameReady)
  /\ LET newPosition == poller.position + (TermLength - poller.begin)
     IN  subscriberPosition' = IF poller.read > 0
                               THEN newPosition ELSE subscriberPosition
  /\ poller' = NoPoll
  /\ UNCHANGED handed

(* The position is published once, whatever was read. *)
pollReturn ==
  /\ poller.op = "poll"
  /\ ~(poller.read < FragmentLimit /\ FrameReady)
  /\ LET newPosition == poller.position + (poller.offset - poller.begin)
     IN  subscriberPosition' = IF newPosition > poller.position
                               THEN newPosition ELSE subscriberPosition
  /\ poller' = NoPoll
  /\ UNCHANGED handed

Polling == poll \/ read \/ pollReturn
=============================================================================
