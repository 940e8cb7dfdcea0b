------------------------ MODULE ExclusivePublication ------------------------
(***************************************************************************)
(* ExclusivePublication (aeron-lib/include/ExclusivePublication.h): one    *)
(* thread owns the log and keeps the term, the offset and the partition in *)
(* fields of its own; it stores the tail instead of adding to it.  Claims  *)
(* stay open while it goes on publishing, and are committed or aborted in  *)
(* any order.                                                              *)
(***************************************************************************)
EXTENDS LogBuffer

CONSTANTS
  OfferLengths, ClaimLengths,   \* the lengths offered and claimed
  MaxMessages,   \* bound: messages accepted
  MaxOpenClaims, \* bound: claims open at the same time
  GoesOn,        \* whether the application offers after MAX_POSITION_EXCEEDED
  DriverReads,   \* whether the driver looks at the producer position
  Window         \* the driver keeps the limit this far ahead of the subscriber

ExclusiveAssumption ==
  /\ OfferLengths \subseteq 0 .. MaxMessageLength
  /\ ClaimLengths \subseteq 0 .. MaxPayloadLength
  /\ MaxMessages \in Nat /\ MaxOpenClaims \in Nat
  /\ GoesOn \in BOOLEAN /\ DriverReads \in BOOLEAN
  /\ Window \in 1 .. (TermLength \div 2)

VARIABLES
  publicationLimit,  \* m_publicationLimit
  isClosed,          \* m_isClosed
  mine,              \* m_termOffset, m_termId, m_activePartitionIndex, m_termBeginPosition
  call,              \* the call under way
  bufferClaims,      \* the claims that are neither committed nor aborted
  claims,            \* history: the frames in the order of their claims
  accepted,          \* messages whose space was claimed
  seen               \* the driver's read of the producer position: its count, its last result

vars == <<logVars, imageVars, publicationLimit, isClosed, mine, call, bufferClaims,
          claims, accepted, seen>>

MAX_POSITION_EXCEEDED == -5

NoCall == [pc |-> "idle", kind |-> "offer", length |-> 0, offset |-> 0,
           remaining |-> 0, result |-> 0]

Init ==
  /\ LogInit /\ ImageInit
  /\ publicationLimit = StartPosition + Window /\ isClosed = FALSE
  /\ mine = [termOffset |-> 0, termId |-> Int32(InitialTermId + StartCount),
             index |-> indexByTermCount(StartCount), begin |-> StartPosition]
  /\ call = NoCall /\ bufferClaims = {} /\ claims = <<>> /\ accepted = 0
  /\ seen = [pc |-> "idle", count |-> 0, last |-> StartPosition]

Rest == <<isConnected, imageVars, publicationLimit, isClosed, seen>>

MyPosition == mine.begin + mine.termOffset

-----------------------------------------------------------------------------

(* offer and tryClaim up to the limit; a call that is back pressured, not  *)
(* connected or out of positions returns at once.                          *)
enter ==
  /\ call.pc = "idle" /\ ~isClosed /\ accepted < MaxMessages
  /\ MyPosition < publicationLimit
  /\ GoesOn \/ call.result # MAX_POSITION_EXCEEDED
  /\ \E kind \in {"offer", "claim"} :
       /\ kind = "claim" => Cardinality(bufferClaims) < MaxOpenClaims
       /\ \E length \in IF kind = "offer" THEN OfferLengths ELSE ClaimLengths :
            call' = [NoCall EXCEPT !.pc = "tail", !.kind = kind, !.length = length]
  /\ UNCHANGED <<terms, tails, activeTermCount, mine, bufferClaims, claims,
                 accepted, Rest>>

FrameCount(length) ==
  IF length <= MaxPayloadLength THEN 1
  ELSE (length + MaxPayloadLength - 1) \div MaxPayloadLength

Place(id, frag, begin, end) ==
  [id |-> id, frag |-> frag, state |-> "open", begin |-> begin, end |-> end]

Claimed(id, length) ==
  [k \in 1 .. FrameCount(length) |->
     LET begin == MyPosition + (k - 1) * (MaxPayloadLength + HEADER_LENGTH)
     IN  Place(id, k, begin, IF k = FrameCount(length)
                             THEN MyPosition + framedLength(length)
                             ELSE begin + MaxPayloadLength + HEADER_LENGTH)]

packTail(termId, offset) == [termId |-> termId, offset |-> offset]

(* The tail is stored first, even over the end of the term. *)
putTail ==
  /\ call.pc = "tail"
  /\ LET resultingOffset == mine.termOffset + framedLength(call.length)
     IN  /\ tails' = [tails EXCEPT ![mine.index] = packTail(mine.termId, resultingOffset)]
         /\ IF resultingOffset <= TermLength
            THEN /\ accepted' = accepted + 1
                 /\ claims' = claims \o Claimed(accepted + 1, call.length)
                 /\ call' = [call EXCEPT !.pc = "header", !.offset = mine.termOffset,
                                         !.remaining = call.length,
                                         !.result = resultingOffset]
            ELSE /\ UNCHANGED accepted
                 /\ IF mine.termOffset < TermLength
                    THEN /\ claims' = Append(claims,
                              Place(0, 1, MyPosition, mine.begin + TermLength))
                         /\ call' = [call EXCEPT !.pc = "padHeader"]
                    ELSE /\ UNCHANGED claims
                         /\ call' = [NoCall EXCEPT !.pc = "rotate"]
  /\ UNCHANGED <<terms, activeTermCount, mine, bufferClaims, Rest>>

-----------------------------------------------------------------------------
Put(offset, frame) == terms' = [terms EXCEPT ![mine.index][offset] = frame]
frameLength == bytesToWrite(call.remaining) + HEADER_LENGTH
Fragment == ((call.length - call.remaining) \div MaxPayloadLength) + 1

CloseClaim(begin, s) ==
  claims' = [i \in DOMAIN claims |->
               IF claims[i].begin = begin THEN [claims[i] EXCEPT !.state = s]
               ELSE claims[i]]

(* A claim returns with its header written; m_termOffset moves on. *)
writeHeader ==
  /\ call.pc = "header"
  /\ Put(call.offset, header(frameLength, mine.termId))
  /\ IF call.kind = "claim"
     THEN /\ call' = NoCall
          /\ mine' = [mine EXCEPT !.termOffset = call.result]
          /\ bufferClaims' = bufferClaims \cup
               {[index |-> mine.index, offset |-> call.offset, id |-> accepted,
                 begin |-> MyPosition]}
     ELSE /\ call' = [call EXCEPT !.pc = "frame"]
          /\ UNCHANGED <<mine, bufferClaims>>
  /\ UNCHANGED <<tails, activeTermCount, claims, accepted, Rest>>

writeFrame ==
  /\ call.pc = "frame"
  /\ LET last == call.remaining <= MaxPayloadLength
     IN  /\ Put(call.offset, [terms[mine.index][call.offset] EXCEPT
                  !.length = frameLength, !.begin = (Fragment = 1), !.end = last,
                  !.id = accepted, !.frag = Fragment])
         /\ IF last
            THEN call' = NoCall /\ mine' = [mine EXCEPT !.termOffset = call.result]
            ELSE /\ call' = [call EXCEPT !.pc = "header",
                                         !.offset = @ + align(frameLength),
                                         !.remaining = @ - MaxPayloadLength]
                 /\ UNCHANGED mine
  /\ CloseClaim(mine.begin + call.offset, "done")
  /\ UNCHANGED <<tails, activeTermCount, bufferClaims, accepted, Rest>>

(* BufferClaim::commit and abort, at any later time. *)
finishClaim ==
  /\ \E c \in bufferClaims, aborted \in BOOLEAN :
       LET f == terms[c.index][c.offset]
       IN  /\ terms' = [terms EXCEPT ![c.index][c.offset] =
                          IF aborted THEN [f EXCEPT !.length = -@, !.type = PAD]
                          ELSE [f EXCEPT !.length = -@, !.id = c.id, !.frag = 1]]
           /\ CloseClaim(c.begin, IF aborted THEN "void" ELSE "done")
           /\ bufferClaims' = bufferClaims \ {c}
  /\ UNCHANGED <<tails, activeTermCount, mine, call, accepted, Rest>>

-----------------------------------------------------------------------------
(* handleEndOfLogCondition *)
padHeader ==
  /\ call.pc = "padHeader"
  /\ Put(mine.termOffset, header(TermLength - mine.termOffset, mine.termId))
  /\ call' = [NoCall EXCEPT !.pc = "pad"]
  /\ UNCHANGED <<tails, activeTermCount, mine, bufferClaims, claims, accepted, Rest>>

padFrame ==
  /\ call.pc = "pad"
  /\ Put(mine.termOffset, [terms[mine.index][mine.termOffset] EXCEPT
                             !.length = -@, !.type = PAD])
  /\ CloseClaim(MyPosition, "void")
  /\ call' = [NoCall EXCEPT !.pc = "rotate"]
  /\ UNCHANGED <<tails, activeTermCount, mine, bufferClaims, accepted, Rest>>

(* newPosition for a full term: the fields move on, then the tail of the   *)
(* next partition (initializeTailWithTermId), or MAX_POSITION_EXCEEDED.    *)
newPosition ==
  /\ call.pc = "rotate"
  /\ IF mine.begin + TermLength >= maxPossiblePosition
     THEN /\ call' = [NoCall EXCEPT !.result = MAX_POSITION_EXCEEDED]
          /\ UNCHANGED <<mine, tails>>
     ELSE /\ mine' = [termOffset |-> 0, termId |-> Int32(mine.termId + 1),
                      index |-> nextPartitionIndex(mine.index),
                      begin |-> mine.begin + TermLength]
          /\ tails' = [tails EXCEPT ![mine'.index] = packTail(mine'.termId, 0)]
          /\ call' = [NoCall EXCEPT !.pc = "count"]
  /\ UNCHANGED <<terms, activeTermCount, bufferClaims, claims, accepted, Rest>>

(* activeTermCountOrdered *)
putTermCount ==
  /\ call.pc = "count"
  /\ activeTermCount' = Int32(mine.termId - InitialTermId)
  /\ call' = NoCall
  /\ UNCHANGED <<terms, tails, mine, bufferClaims, claims, accepted, Rest>>

Publish == enter \/ putTail \/ writeHeader \/ writeFrame \/ finishClaim
           \/ padHeader \/ padFrame \/ newPosition \/ putTermCount

close ==
  /\ ~isClosed /\ accepted = MaxMessages /\ isClosed' = TRUE
  /\ UNCHANGED <<logVars, imageVars, publicationLimit, mine, call, bufferClaims,
                 claims, accepted, seen>>

-----------------------------------------------------------------------------
(* The driver (external) reads the producer position, zeroes what the      *)
(* subscriber has passed and moves the limit.                              *)

(* producerPosition and rawTailVolatile, on the log that the publication   *)
(* maps too: the active term count, then the tail of its partition.        *)
rawTailVolatile ==
  /\ DriverReads
  /\ \/ seen.pc = "idle" /\ seen' = [seen EXCEPT !.pc = "tail", !.count = activeTermCount]
     \/ /\ seen.pc = "tail"
        /\ LET rawTail == tails[indexByTermCount(seen.count)]
           IN  seen' = [pc |-> "idle", count |-> 0,
                        last |-> computePosition(rawTail.termId, termOffset(rawTail))]
  /\ UNCHANGED <<terms, publicationLimit>>

UpdateLimit ==
  /\ subscriberPosition + Window > publicationLimit
  /\ publicationLimit' = subscriberPosition + Window
  /\ terms' = [i \in Partitions |-> [o \in Offsets |->
       IF \E pos \in (publicationLimit - Window) .. (subscriberPosition - 1) :
            indexByPosition(pos) = i /\ offsetByPosition(pos) = o
       THEN Zero ELSE terms[i][o]]]
  /\ UNCHANGED seen

Driver ==
  /\ rawTailVolatile \/ UpdateLimit
  /\ UNCHANGED <<tails, activeTermCount, isConnected, imageVars, isClosed, mine,
                 call, bufferClaims, claims, accepted>>

Poll ==
  /\ Polling
  /\ UNCHANGED <<logVars, publicationLimit, isClosed, mine, call, bufferClaims,
                 claims, accepted, seen>>

Next == Publish \/ close \/ Driver \/ Poll

Spec == Init /\ [][Next]_vars

-----------------------------------------------------------------------------
TypeOK ==
  /\ activeTermCount \in 0 .. (HalfWord - 1)
  /\ mine.termOffset \in 0 .. TermLength
  /\ mine.termId \in (-HalfWord) .. (HalfWord - 1)
  /\ subscriberPosition \in Nat /\ isClosed \in BOOLEAN
  /\ Cardinality(bufferClaims) <= MaxOpenClaims

(* The fields the publication keeps for itself agree with the log that the *)
(* driver and a publication added later would read (newPosition).          *)
FieldsMatchLog ==
  call.pc = "idle" =>
    /\ mine.index = indexByTermCount(activeTermCount)
    /\ mine.termId = tails[mine.index].termId
    /\ mine.begin = computeTermBeginPosition(mine.termId)

(* Claims stay within zeroed memory: three terms ahead of the subscriber,  *)
(* although claims of earlier terms are still open (offer, tryClaim).      *)
NeverOverrun ==
  \A i \in DOMAIN claims : claims[i].end <= subscriberPosition + 3 * TermLength

(* A claimed range belongs to one message or to padding: what is written   *)
(* there and committed becomes available (tryClaim).                       *)
RangesAreOwn ==
  \A i, j \in DOMAIN claims : i < j => claims[i].end <= claims[j].begin

(* The fragments of a message are flagged as its beginning, its middle and *)
(* its end, so that an assembler can tell them (appendFragmentedMessage).  *)
FlagsFrameMessages ==
  \A n \in DOMAIN handed :
    /\ handed[n].begin <=> handed[n].frag = 1
    /\ ~handed[n].end => \/ n = Len(handed)
                         \/ /\ handed[n + 1].id = handed[n].id
                            /\ handed[n + 1].frag = handed[n].frag + 1

(* The producer position that the driver computes from two loads never     *)
(* goes back and never passes what was claimed (packTail, newPosition,     *)
(* rawTailVolatile).                                                       *)
ProducerPositionSound ==
  seen.pc = "tail" /\ seen'.pc = "idle" =>
    /\ seen'.last >= seen.last
    /\ seen'.last <= IF claims = <<>> THEN StartPosition ELSE claims[Len(claims)].end

Passed ==
  LET reached == IF poller.op = "none" THEN subscriberPosition
                 ELSE poller.position + (poller.offset - poller.begin)
      Ended == {i \in DOMAIN claims : claims[i].end <= reached}
  IN  IF Ended = {} THEN 0 ELSE Max(Ended)

Queue == INSTANCE ClaimQueue WITH
  Ids <- (0 .. MaxMessages) \X (1 .. Max({FrameCount(l) : l \in OfferLengths \cup {0}})),
  MaxBatch <- Max({FrameCount(l) : l \in OfferLengths \cup {0}}),
  claims <- [i \in DOMAIN claims |-> [id |-> <<claims[i].id, claims[i].frag>>,
                                      state |-> claims[i].state]],
  taken <- Passed,
  delivered <- [n \in DOMAIN handed |-> <<handed[n].id, handed[n].frag>>]

(* The log is a queue in the order of the claims, in whatever order they   *)
(* are committed or aborted (offer, tryClaim, commit, abort, poll).        *)
QueueSpec == Queue!Spec

(* Every message that was accepted, and not aborted, has been delivered.   *)
AllDelivered ==
  \A i \in DOMAIN claims :
    \/ \E j \in DOMAIN claims : claims[j].id = claims[i].id /\ claims[j].state = "void"
    \/ \E n \in DOMAIN handed : handed[n].id = claims[i].id /\ handed[n].end
=============================================================================
