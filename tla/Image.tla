------------------------------- MODULE Image -------------------------------
(***************************************************************************)
(* Image (aeron-lib/include/Image.h): all the ways in which a subscriber   *)
(* consumes a log, one call at a time, against a publisher that appends    *)
(* committed frames (ConcurrentPublication shows that it does) and a       *)
(* client conductor thread that closes the image at any moment.            *)
(***************************************************************************)
EXTENDS LogBuffer

CONSTANTS
  Ops,          \* the operations the application uses
  MaxFrames,    \* bound: frames appended
  BlockLimits   \* blockLengthLimit of blockPoll

ImageAssumption ==
  /\ Ops \subseteq {"poll", "boundedPoll", "controlledPoll", "boundedControlledPoll",
                    "controlledPeek", "blockPoll", "position", "close", "copy"}
  /\ MaxFrames \in Nat /\ BlockLimits \subseteq Nat

Infinity == 3 * TermLength   \* INT64_MAX

VARIABLES
  stream,     \* history: the frames of the stream
  open,       \* whether the last frame begins a message that goes on
  endOfStreamPosition,   \* in the log's metadata, set by the driver
  image,      \* m_isClosed, m_finalPosition, m_eosPosition, m_isEos
  copy,       \* the same fields of a copy of the image
  bound,      \* limitPosition of the call under way
  skipped,    \* history: frames passed by position(newPosition)
  block,      \* the frames of the last block of blockPoll
  peeked      \* where the last peek began and the position it returned

vars == <<logVars, imageVars, stream, open, endOfStreamPosition, image, copy,
          bound, skipped, block, peeked>>

Open == [isClosed |-> FALSE, finalPosition |-> StartPosition,
         eosPosition |-> Infinity, isEos |-> FALSE]

Init ==
  /\ LogInit /\ ImageInit
  /\ stream = <<>> /\ open = FALSE /\ endOfStreamPosition = Infinity
  /\ image = Open /\ copy = Open
  /\ bound = Infinity /\ skipped = {} /\ block = {} /\ peeked = <<StartPosition, StartPosition>>

TailPosition == IF stream = <<>> THEN StartPosition ELSE stream[Len(stream)].end

Idle == poller.op = "none"
May(op) == op \in Ops /\ Idle /\ ~image.isClosed

Consuming == <<logVars, stream, open, endOfStreamPosition, image, copy>>

-----------------------------------------------------------------------------
(* The publisher (external): an unfragmented message, a message of two     *)
(* fragments, an aborted claim, or the padding at the end of a term.       *)

FrameLength == HEADER_LENGTH + 1
FrameSize == align(FrameLength)

AppendFrame(type, begin, end, length) ==
  /\ terms' = [terms EXCEPT ![indexByPosition(TailPosition)]
                             [offsetByPosition(TailPosition)] =
       [length |-> length, type |-> type, begin |-> begin, end |-> end,
        termId |-> Int32(InitialTermId + TailPosition \div TermLength),
        id |-> Len(stream) + 1, frag |-> 1]]
  /\ stream' = Append(stream, [at |-> TailPosition, end |-> TailPosition + align(length),
                               data |-> type = DATA, last |-> end])
  /\ open' = (type = DATA /\ ~end)

Publish ==
  /\ Len(stream) < MaxFrames /\ endOfStreamPosition = Infinity
  /\ LET left == TermLength - offsetByPosition(TailPosition)
     IN  \/ left < FrameSize /\ AppendFrame(PAD, TRUE, TRUE, left)
         \/ left >= FrameSize /\ open /\ AppendFrame(DATA, FALSE, TRUE, FrameLength)
         \/ left >= FrameSize /\ ~open /\ AppendFrame(DATA, TRUE, TRUE, FrameLength)
         \/ left >= FrameSize /\ ~open /\ AppendFrame(PAD, TRUE, TRUE, FrameLength)
         \/ left >= 2 * FrameSize /\ ~open /\ AppendFrame(DATA, TRUE, FALSE, FrameLength)
  /\ UNCHANGED <<tails, activeTermCount, isConnected, imageVars,
                 endOfStreamPosition, image, copy, bound, skipped, block, peeked>>

EndOfStream ==
  /\ endOfStreamPosition = Infinity /\ ~open
  /\ endOfStreamPosition' = TailPosition
  /\ UNCHANGED <<logVars, imageVars, stream, open, image, copy, bound, skipped, block, peeked>>

-----------------------------------------------------------------------------
(* poll, and the bounded poll, which reads below a position. *)

PollOp ==
  /\ \/ May("poll") /\ poll
     \/ read \/ pollReturn
  /\ bound' = Infinity
  /\ UNCHANGED <<Consuming, skipped, block, peeked>>

limitOffset(limitPosition, position) ==
  Min({TermLength, limitPosition - position + offsetByPosition(position)})

(* The call under way, up to a limit position. *)
BoundedBegin(op) ==
  /\ May(op)
  /\ \E ahead \in Offsets \ {0} :
       LET l == subscriberPosition + ahead
       IN  /\ bound' = l
           /\ BeginAt(op, subscriberPosition, limitOffset(l, subscriberPosition))
  /\ UNCHANGED <<subscriberPosition, handed, Consuming, skipped, block, peeked>>

(* Mutant: the bounded poll forgets what it read when the handler throws. *)
BoundedReturn_Once(op) ==
  /\ poller.op = op
  /\ ~(poller.read < FragmentLimit /\ FrameReady)
  /\ subscriberPosition' = IF poller.left THEN poller.position
                           ELSE poller.position + (poller.offset - poller.begin)
  /\ poller' = NoPoll /\ bound' = Infinity
  /\ UNCHANGED <<handed, Consuming, skipped, block, peeked>>

(* The end of boundedPoll and of the controlled polls. *)
BoundedReturn(op) ==
  /\ poller.op = op
  /\ ~(poller.read < FragmentLimit /\ FrameReady)
  /\ LET resultingPosition == poller.position + (poller.offset - poller.begin)
     IN  subscriberPosition' = IF resultingPosition > poller.position
                               THEN resultingPosition ELSE subscriberPosition
  /\ poller' = NoPoll /\ bound' = Infinity
  /\ UNCHANGED <<handed, Consuming, skipped, block, peeked>>

boundedPollFragment ==
  /\ poller.op = "boundedPoll" /\ poller.read < FragmentLimit /\ FrameReady
  /\ IF isPaddingFrame(PolledFrame)
     THEN /\ poller' = [poller EXCEPT !.offset = OffsetAfterFrame]
          /\ UNCHANGED handed
     ELSE /\ \E throws \in {FALSE, HandlerThrows} :
               poller' = [poller EXCEPT !.offset = OffsetAfterFrame, !.read = @ + 1,
                                        !.left = throws]
          /\ handed' = Append(handed, Record(PolledFrame))
  /\ UNCHANGED <<subscriberPosition, bound, Consuming, skipped, block, peeked>>

boundedPoll ==
  BoundedBegin("boundedPoll") \/ boundedPollFragment \/ BoundedReturn("boundedPoll")

-----------------------------------------------------------------------------
(* The controlled polls: the handler decides what happens to the position. *)

Actions == {"ABORT", "BREAK", "COMMIT", "CONTINUE"}

(* An aborted fragment stays in front of the position and is handed again. *)
controlledFragment(op) ==
  /\ poller.op = op /\ poller.read < FragmentLimit /\ FrameReady
  /\ \/ /\ isPaddingFrame(PolledFrame)
        /\ poller' = [poller EXCEPT !.offset = OffsetAfterFrame]
        /\ UNCHANGED <<subscriberPosition, handed>>
     \/ /\ ~isPaddingFrame(PolledFrame)
        /\ \E action \in Actions \cup {"THROW"} :
             /\ action = "THROW" => HandlerThrows
             /\ poller' =
                  CASE action = "ABORT" -> [poller EXCEPT !.left = TRUE]
                    [] action = "COMMIT" ->
                         [poller EXCEPT !.offset = OffsetAfterFrame, !.read = @ + 1,
                            !.position = @ + OffsetAfterFrame - poller.begin,
                            !.begin = OffsetAfterFrame]
                    [] OTHER ->
                         [poller EXCEPT !.offset = OffsetAfterFrame, !.read = @ + 1,
                            !.left = (action # "CONTINUE")]
             /\ subscriberPosition' = IF action = "COMMIT" THEN poller'.position
                                      ELSE subscriberPosition
             /\ handed' = IF action = "ABORT" THEN handed
                          ELSE Append(handed, Record(PolledFrame))
  /\ UNCHANGED <<bound, Consuming, skipped, block, peeked>>

controlledPoll ==
  \/ /\ May("controlledPoll") /\ frameAt(subscriberPosition).length > 0
     /\ BeginAt("controlledPoll", subscriberPosition, TermLength)
     /\ UNCHANGED <<subscriberPosition, handed, bound, Consuming, skipped, block, peeked>>
  \/ controlledFragment("controlledPoll")
  \/ BoundedReturn("controlledPoll")

boundedControlledPoll ==
  \/ BoundedBegin("boundedControlledPoll")
  \/ controlledFragment("boundedControlledPoll")
  \/ BoundedReturn("boundedControlledPoll")

-----------------------------------------------------------------------------
(* validatePosition: in the current term, and on a frame. *)
validPosition(newPosition) ==
  /\ newPosition >= subscriberPosition
  /\ newPosition <= subscriberPosition - offsetByPosition(subscriberPosition) + TermLength
  /\ newPosition % FRAME_ALIGNMENT = 0

(* controlledPeek hands fragments without consuming them; its result moves *)
(* over padding and over the last fragment of a message only.              *)
peekFragment ==
  /\ poller.op = "controlledPeek" /\ FrameReady
  /\ LET passed == [poller EXCEPT !.offset = OffsetAfterFrame,
                      !.position = @ + OffsetAfterFrame - poller.begin,
                      !.begin = OffsetAfterFrame]
         whole == [passed EXCEPT !.result = passed.position]
     IN  \/ isPaddingFrame(PolledFrame) /\ poller' = whole
         \/ /\ ~isPaddingFrame(PolledFrame)
            /\ \E action \in Actions \cup {"THROW"} :
                 /\ action = "THROW" => HandlerThrows
                 /\ poller' = IF action \in {"ABORT", "THROW"}
                              THEN [poller EXCEPT !.left = TRUE]
                              ELSE [IF PolledFrame.end THEN whole ELSE passed
                                      EXCEPT !.left = (action = "BREAK")]
  /\ UNCHANGED <<subscriberPosition, handed, bound, Consuming, skipped, block, peeked>>

controlledPeek ==
  \/ /\ May("controlledPeek")
     /\ \E initialPosition \in {s.at : s \in {stream[i] : i \in DOMAIN stream}},
           ahead \in Offsets \ {0} :
          LET l == initialPosition + ahead
          IN  /\ validPosition(initialPosition)
              /\ BeginAt("controlledPeek", initialPosition, limitOffset(l, initialPosition))
     /\ peeked' = <<poller'.position, poller'.position>>
     /\ UNCHANGED <<subscriberPosition, handed, bound, Consuming, skipped, block>>
  \/ peekFragment
  \/ /\ poller.op = "controlledPeek" /\ ~FrameReady
     /\ peeked' = <<peeked[1], poller.result>> /\ poller' = NoPoll
     /\ UNCHANGED <<subscriberPosition, handed, bound, Consuming, skipped, block>>

(* The application moves over what it has peeked at, or over anything      *)
(* else that begins on a frame.                                            *)
setPosition ==
  /\ May("position")
  /\ \E newPosition \in {s.end : s \in {stream[i] : i \in DOMAIN stream}} :
       /\ validPosition(newPosition) /\ newPosition > subscriberPosition
       /\ skipped' = skipped \cup {i \in DOMAIN stream :
            stream[i].at >= subscriberPosition /\ stream[i].end <= newPosition}
       /\ subscriberPosition' = newPosition
  /\ UNCHANGED <<poller, handed, bound, Consuming, block, peeked>>

-----------------------------------------------------------------------------

(* TermBlockScanner::scan: whole frames up to the limit; padding is a      *)
(* block of its own.                                                       *)
scan(i, begin, limit) ==
  LET from[offset \in 0 .. TermLength] ==
        IF offset >= limit \/ terms[i][offset].length <= 0 THEN offset
        ELSE LET after == offset + align(terms[i][offset].length)
             IN  IF isPaddingFrame(terms[i][offset])
                 THEN IF offset = begin THEN after ELSE offset
                 ELSE IF after > limit THEN offset ELSE from[after]
  IN  from[begin]

blockPoll ==
  /\ May("blockPoll")
  /\ \E blockLengthLimit \in BlockLimits :
       LET begin == offsetByPosition(subscriberPosition)
           limit == Min({begin + blockLengthLimit, TermLength})
           resulting == subscriberPosition - begin
                          + scan(indexByPosition(subscriberPosition), begin, limit)
           Block == {i \in DOMAIN stream : stream[i].at >= subscriberPosition
                                             /\ stream[i].end <= resulting}
       IN  /\ resulting > subscriberPosition
           /\ subscriberPosition' = resulting
           /\ block' = Block
           /\ handed' = handed \o
                [k \in 1 .. Cardinality({i \in Block : stream[i].data}) |->
                   LET i == Min(Block) + k - 1
                   IN  [id |-> i, frag |-> 1, begin |-> TRUE, end |-> stream[i].last,
                        at |-> stream[i].at]]
  /\ UNCHANGED <<poller, bound, Consuming, skipped, peeked>>

-----------------------------------------------------------------------------
(* close(), in the thread of the client conductor. *)
close ==
  /\ "close" \in Ops /\ ~image.isClosed
  /\ image' = [isClosed |-> TRUE, finalPosition |-> subscriberPosition,
               eosPosition |-> endOfStreamPosition,
               isEos |-> subscriberPosition >= endOfStreamPosition]
  /\ UNCHANGED <<logVars, imageVars, stream, open, endOfStreamPosition, copy,
                 bound, skipped, block, peeked>>

(* The copy constructor: m_eosPosition is not in its list. *)
copyImage ==
  /\ "copy" \in Ops /\ copy # [image EXCEPT !.eosPosition = Infinity]
  /\ copy' = [image EXCEPT !.eosPosition = Infinity]
  /\ UNCHANGED <<logVars, imageVars, stream, open, endOfStreamPosition, image,
                 bound, skipped, block, peeked>>

(* What the accessors answer. *)
positionOf(i) == IF i.isClosed THEN i.finalPosition ELSE subscriberPosition
endOfStreamPositionOf(i) == IF i.isClosed THEN i.eosPosition ELSE endOfStreamPosition
isEndOfStream(i) == IF i.isClosed THEN i.isEos
                    ELSE subscriberPosition >= endOfStreamPosition

Next == Publish \/ EndOfStream \/ PollOp \/ boundedPoll \/ controlledPoll
        \/ boundedControlledPoll \/ controlledPeek \/ setPosition \/ blockPoll
        \/ close \/ copyImage

Spec == Init /\ [][Next]_vars

-----------------------------------------------------------------------------
Reached == IF Idle \/ poller.op = "controlledPeek" THEN subscriberPosition
           ELSE poller.position + (poller.offset - poller.begin)

TypeOK ==
  /\ subscriberPosition \in StartPosition .. TailPosition
  /\ poller.offset \in 0 .. TermLength /\ poller.read \in 0 .. FragmentLimit
  /\ Len(handed) \in 0 .. MaxFrames
  /\ image.isClosed \in BOOLEAN /\ copy.isClosed \in BOOLEAN

(* Whatever mix of polls consumes the stream, and whatever the handlers    *)
(* answer or throw, every data frame up to the position is handed once, in *)
(* order, unless the application skipped it, and none behind it (poll,     *)
(* boundedPoll, controlledPoll, boundedControlledPoll, blockPoll).         *)
ExactlyOnce ==
  /\ \A i \in DOMAIN stream :
       LET times == {n \in DOMAIN handed : handed[n].at = stream[i].at}
       IN  IF stream[i].end <= Reached
           THEN stream[i].data => i \in skipped \/ Cardinality(times) = 1
           ELSE times = {}
  /\ \A n \in 2 .. Len(handed) : handed[n - 1].at < handed[n].at

(* The position is always between two frames: a position inside a frame    *)
(* would read payload as a header (position arithmetic of all polls).      *)
OnFrameBoundary ==
  \A p \in {subscriberPosition, positionOf(copy)} :
    p = StartPosition \/ \E i \in DOMAIN stream : stream[i].end = p

(* A bounded poll hands no fragment that begins at or after its limit      *)
(* (boundedPoll, boundedControlledPoll).                                   *)
BoundKept ==
  \A n \in DOMAIN handed : poller.op \in {"boundedPoll", "boundedControlledPoll"}
    /\ handed[n].at >= poller.position => handed[n].at < bound

(* A peek that begins at the beginning of a message returns the end of a   *)
(* complete message, whatever its handler answers (controlledPeek).        *)
PeekReturnsWholeMessage ==
  LET Boundary(p) == p = StartPosition
                     \/ \E i \in DOMAIN stream : stream[i].end = p /\ stream[i].last
  IN  Boundary(peeked[1]) => Boundary(peeked[2])

(* Padding is a block of its own (blockPoll). *)
PaddingIsABlock == \A i \in block : stream[i].data \/ block = {i}

(* "The position this Image has been consumed to by the subscriber":       *)
(* close() may take the position while a poll is under way (position).     *)
ClosedPositionIsConsumed ==
  Idle => positionOf(image) = subscriberPosition

(* "The position will be INT64_MAX until the stream ends and EOS is set":  *)
(* a copy of the image knows the end of the stream as the image does       *)
(* (endOfStreamPosition).                                                  *)
CopyKnowsEndOfStream ==
  copy.isClosed => endOfStreamPositionOf(copy) = endOfStreamPositionOf(image)
=============================================================================
