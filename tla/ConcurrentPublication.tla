----------------------- MODULE ConcurrentPublication -----------------------
(***************************************************************************)
(* Publication (aeron-lib/include/Publication.h): threads append to one    *)
(* log without locks.  offer and tryClaim read the limit, the active term  *)
(* count and the tail at three different moments, claim their space by an  *)
(* atomic addition to the tail of that partition, and write the frames;    *)
(* the thread that runs over the end of a term pads it and rotates the     *)
(* log.  One subscriber polls, and the driver (external) moves the limit.  *)
(***************************************************************************)
EXTENDS LogBuffer

CONSTANTS
  Threads,       \* the threads that share the publication
  OfferLengths,  \* the lengths offered
  ClaimLengths,  \* the lengths claimed with tryClaim
  MaxMessages,   \* bound: messages accepted before calls stop
  Window,        \* the driver keeps the limit this far ahead of the subscriber
  MaxTail,       \* bound: how far calls are retried over the end of the last term
  OtherCalls     \* whether other threads call position() and close()

PublicationAssumption ==
  /\ OfferLengths \subseteq 0 .. MaxMessageLength
  /\ ClaimLengths \subseteq 0 .. MaxPayloadLength
  /\ MaxMessages \in Nat
  /\ Window \in 1 .. (TermLength \div 2)
  /\ MaxTail \in Nat /\ OtherCalls \in BOOLEAN

VARIABLES
  publicationLimit,  \* m_publicationLimit
  isClosed,          \* m_isClosed
  thread,            \* the call each thread is in
  claims,            \* history: the frames in the order of their claims
  accepted,          \* messages whose space was claimed
  observer           \* position(): the term count read, the last result

vars == <<logVars, imageVars, publicationLimit, isClosed, thread, claims,
          accepted, observer>>

(* kind: offer or tryClaim; limit, count, tail: what the call has read;    *)
(* termId, offset: where the next frame goes; remaining: bytes to write.   *)
NoCall == [pc |-> "idle", kind |-> "offer", id |-> 0, length |-> 0, limit |-> 0,
           count |-> 0, termId |-> 0, offset |-> 0, remaining |-> 0,
           tail |-> [termId |-> 0, offset |-> 0]]

Init ==
  /\ LogInit /\ ImageInit
  /\ publicationLimit = StartPosition + Window
  /\ isClosed = FALSE
  /\ thread = [t \in Threads |-> NoCall]
  /\ claims = <<>> /\ accepted = 0
  /\ observer = [pc |-> "idle", count |-> 0, last |-> 0]

Return(t) == thread' = [thread EXCEPT ![t] = NoCall]

Rest == <<isConnected, imageVars, publicationLimit, isClosed, observer>>

-----------------------------------------------------------------------------
(* offer and tryClaim: m_isClosed and the limit. *)
LoadLimit(t) ==
  /\ thread[t].pc = "idle" /\ ~isClosed /\ accepted < MaxMessages
  /\ tails[indexByTermCount(activeTermCount)].offset <= MaxTail
  /\ \E kind \in {"offer", "claim"} :
       \E length \in IF kind = "offer" THEN OfferLengths ELSE ClaimLengths :
         thread' = [thread EXCEPT ![t] =
                      [NoCall EXCEPT !.pc = "count", !.kind = kind,
                                     !.length = length, !.limit = publicationLimit]]
  /\ UNCHANGED <<terms, tails, activeTermCount, claims, accepted, Rest>>

LoadTermCount(t) ==
  /\ thread[t].pc = "count"
  /\ thread' = [thread EXCEPT ![t].pc = "tail", ![t].count = activeTermCount]
  /\ UNCHANGED <<terms, tails, activeTermCount, claims, accepted, Rest>>

(* Mutant: the limit is not looked at. *)
LoadTail_NoLimit(t) ==
  /\ thread[t].pc = "tail"
  /\ IF thread[t].count = computeTermCount(tails[indexByTermCount(thread[t].count)].termId)
     THEN thread' = [thread EXCEPT ![t].pc = "add", ![t].limit = 0]
     ELSE Return(t)
  /\ UNCHANGED <<terms, tails, activeTermCount, claims, accepted, Rest>>

(* The call goes on only if the term is still the one that was counted and *)
(* the tail is below the limit; ADMIN_ACTION and backPressureStatus        *)
(* (BACK_PRESSURED, NOT_CONNECTED, MAX_POSITION_EXCEEDED) return at once.  *)
LoadTail(t) ==
  /\ thread[t].pc = "tail"
  /\ LET rawTail == tails[indexByTermCount(thread[t].count)]
         position == computePosition(rawTail.termId, termOffset(rawTail))
     IN  IF /\ thread[t].count = computeTermCount(rawTail.termId)
            /\ position < thread[t].limit
         THEN thread' = [thread EXCEPT ![t].pc = "add", ![t].limit = 0]
         ELSE Return(t)
  /\ UNCHANGED <<terms, tails, activeTermCount, claims, accepted, Rest>>

(* The places in the queue that a message claims, one for each frame. *)
FrameCount(length) ==
  IF length <= MaxPayloadLength THEN 1
  ELSE (length + MaxPayloadLength - 1) \div MaxPayloadLength

Claimed(t, id, length, begin) ==
  [k \in 1 .. FrameCount(length) |->
     [id |-> id, frag |-> k, by |-> t, state |-> "open",
      begin |-> begin + (k - 1) * (MaxPayloadLength + HEADER_LENGTH),
      end |-> IF k = FrameCount(length) THEN begin + framedLength(length)
              ELSE begin + k * (MaxPayloadLength + HEADER_LENGTH)]]

Padding(t, begin, end) ==
  <<[id |-> 0, frag |-> 1, by |-> t, state |-> "open", begin |-> begin, end |-> end]>>

(* Mutant: the term is taken from the count that was read before. *)
AddedTo_Stale(t) ==
  [tails[indexByTermCount(thread[t].count)] EXCEPT
     !.termId = Int32(InitialTermId + thread[t].count)]

(* What the addition finds in the tail counter of the partition. *)
AddedTo(t) == tails[indexByTermCount(thread[t].count)]

(* claim, appendUnfragmentedMessage and appendFragmentedMessage: the space *)
(* is claimed in whatever term the partition holds by now.  Over the end   *)
(* of the term (handleEndOfLogCondition) the first thread pads what is     *)
(* left, and the position decides whether the log may rotate.              *)
GetAndAdd(t) ==
  /\ thread[t].pc = "add"
  /\ LET index == indexByTermCount(thread[t].count)
         length == framedLength(thread[t].length)
         rawTail == AddedTo(t)
         offset == termOffset(rawTail)
         begin == computePosition(rawTail.termId, offset)
     IN  /\ tails' = [tails EXCEPT ![index].offset = @ + length]
         /\ IF offset + length <= TermLength
            THEN /\ accepted' = accepted + 1
                 /\ claims' = claims \o Claimed(t, accepted + 1, thread[t].length, begin)
                 /\ thread' = [thread EXCEPT ![t] =
                      [@ EXCEPT !.pc = "header", !.id = accepted + 1, !.count = 0,
                                !.termId = rawTail.termId, !.offset = offset,
                                !.remaining = thread[t].length]]
            ELSE /\ UNCHANGED accepted
                 /\ IF offset < TermLength
                    THEN /\ claims' = claims \o Padding(t, begin, begin + TermLength - offset)
                         /\ thread' = [thread EXCEPT ![t] =
                              [NoCall EXCEPT !.pc = "padHeader", !.length = length,
                                 !.termId = rawTail.termId, !.offset = offset]]
                    ELSE /\ UNCHANGED claims
                         /\ IF begin + length >= maxPossiblePosition
                            THEN Return(t)
                            ELSE thread' = [thread EXCEPT ![t] =
                                   [NoCall EXCEPT !.pc = "rotate", !.termId = rawTail.termId]]
  /\ UNCHANGED <<terms, activeTermCount, Rest>>

-----------------------------------------------------------------------------
(* Writing frames. *)

Put(t, frame) ==
  terms' = [terms EXCEPT ![indexByTerm(thread[t].termId)][thread[t].offset] = frame]
FrameOf(t) == terms[indexByTerm(thread[t].termId)][thread[t].offset]

frameLength(t) == bytesToWrite(thread[t].remaining) + HEADER_LENGTH

(* The fragment this is, counted from one. *)
Fragment(t) ==
  ((thread[t].length - thread[t].remaining) \div MaxPayloadLength) + 1

CloseClaim(t, frag, s) ==
  claims' = [i \in DOMAIN claims |->
               IF claims[i].by = t /\ claims[i].state = "open" /\ claims[i].frag = frag
               THEN [claims[i] EXCEPT !.state = s] ELSE claims[i]]

(* m_headerWriter.write; tryClaim returns with the frame still open. *)
WriteHeader(t) ==
  /\ thread[t].pc = "header"
  /\ Put(t, header(frameLength(t), thread[t].termId))
  /\ thread' = [thread EXCEPT ![t].pc =
                  IF thread[t].kind = "claim" THEN "claimed" ELSE "frame"]
  /\ UNCHANGED <<tails, activeTermCount, claims, accepted, Rest>>

(* The payload, the flags of a fragmented message and, last, the length. *)
WriteFrame(t) ==
  /\ thread[t].pc = "frame"
  /\ LET last == thread[t].remaining <= MaxPayloadLength
     IN  /\ Put(t, [FrameOf(t) EXCEPT
                      !.length = frameLength(t),
                      !.begin = (Fragment(t) = 1), !.end = last,
                      !.id = thread[t].id, !.frag = Fragment(t)])
         /\ IF last THEN Return(t)
            ELSE thread' = [thread EXCEPT ![t] =
                   [@ EXCEPT !.pc = "header",
                             !.offset = @ + align(frameLength(t)),
                             !.remaining = @ - MaxPayloadLength]]
  /\ CloseClaim(t, Fragment(t), "done")
  /\ UNCHANGED <<tails, activeTermCount, accepted, Rest>>

(* BufferClaim::commit, after the application has filled the payload. *)
commit(t) ==
  /\ thread[t].pc = "claimed"
  /\ Put(t, [FrameOf(t) EXCEPT !.length = frameLength(t),
                               !.id = thread[t].id, !.frag = 1])
  /\ Return(t) /\ CloseClaim(t, 1, "done")
  /\ UNCHANGED <<tails, activeTermCount, accepted, Rest>>

(* BufferClaim::abort *)
abort(t) ==
  /\ thread[t].pc = "claimed"
  /\ Put(t, [FrameOf(t) EXCEPT !.length = frameLength(t), !.type = PAD])
  /\ Return(t) /\ CloseClaim(t, 1, "void")
  /\ UNCHANGED <<tails, activeTermCount, accepted, Rest>>

-----------------------------------------------------------------------------
(* handleEndOfLogCondition *)

PadHeader(t) ==
  /\ thread[t].pc = "padHeader"
  /\ Put(t, header(TermLength - thread[t].offset, thread[t].termId))
  /\ thread' = [thread EXCEPT ![t].pc = "pad"]
  /\ UNCHANGED <<tails, activeTermCount, claims, accepted, Rest>>

PadFrame(t) ==
  /\ thread[t].pc = "pad"
  /\ Put(t, [FrameOf(t) EXCEPT !.type = PAD, !.length = -@])
  /\ IF computePosition(thread[t].termId, thread[t].offset) + thread[t].length
          >= maxPossiblePosition
     THEN Return(t)
     ELSE thread' = [thread EXCEPT ![t] =
                       [NoCall EXCEPT !.pc = "rotate", !.termId = thread[t].termId]]
  /\ CloseClaim(t, 1, "void")
  /\ UNCHANGED <<tails, activeTermCount, accepted, Rest>>

(* LogBufferDescriptor::rotateLog *)
nextTermId(t) == Int32(thread[t].termId + 1)
nextTermCount(t) == Int32(computeTermCount(thread[t].termId) + 1)
nextIndex(t) == indexByTermCount(nextTermCount(t))

(* The tail of the next partition, if its term is the one of the lap before. *)
RotateLoad(t) ==
  /\ thread[t].pc = "rotate"
  /\ thread' = [thread EXCEPT
       ![t].tail = tails[nextIndex(t)],
       ![t].pc = IF tails[nextIndex(t)].termId = Int32(nextTermId(t) - PARTITION_COUNT)
                 THEN "casTail" ELSE "casCount"]
  /\ UNCHANGED <<terms, tails, activeTermCount, claims, accepted, Rest>>

CasRawTail(t) ==
  /\ thread[t].pc = "casTail"
  /\ IF tails[nextIndex(t)] = thread[t].tail
     THEN /\ tails' = [tails EXCEPT ![nextIndex(t)] =
                         [termId |-> nextTermId(t), offset |-> 0]]
          /\ thread' = [thread EXCEPT ![t].pc = "casCount"]
     ELSE /\ UNCHANGED tails
          /\ thread' = [thread EXCEPT ![t].pc = "rotate"]
  /\ UNCHANGED <<terms, activeTermCount, claims, accepted, Rest>>

CasActiveTermCount(t) ==
  /\ thread[t].pc = "casCount"
  /\ activeTermCount' = IF activeTermCount = computeTermCount(thread[t].termId)
                        THEN nextTermCount(t) ELSE activeTermCount
  /\ Return(t)
  /\ UNCHANGED <<terms, tails, claims, accepted, Rest>>

offer(t) ==
  \/ LoadLimit(t) \/ LoadTermCount(t) \/ LoadTail(t) \/ GetAndAdd(t)
  \/ WriteHeader(t) \/ WriteFrame(t) \/ commit(t) \/ abort(t)
  \/ PadHeader(t) \/ PadFrame(t)
  \/ RotateLoad(t) \/ CasRawTail(t) \/ CasActiveTermCount(t)

(* The application leaves it to another thread to close the publication. *)
close ==
  /\ OtherCalls /\ ~isClosed /\ isClosed' = TRUE
  /\ UNCHANGED <<logVars, imageVars, publicationLimit, thread, claims, accepted,
                 observer>>

(* Mutant: the offset is not cut off at the end of the term. *)
position_Unclamped ==
  /\ OtherCalls
  /\ \/ /\ observer.pc = "idle" /\ ~isClosed
        /\ observer' = [observer EXCEPT !.pc = "tail", !.count = activeTermCount]
     \/ /\ observer.pc = "tail"
        /\ LET rawTail == tails[indexByTermCount(observer.count)]
           IN  observer' = [pc |-> "idle", count |-> 0,
                  last |-> computePosition(rawTail.termId, rawTail.offset)]
  /\ UNCHANGED <<logVars, imageVars, publicationLimit, isClosed, thread, claims,
                 accepted>>

(* position(): the active term count, then the tail of its partition. *)
position ==
  /\ OtherCalls
  /\ \/ /\ observer.pc = "idle" /\ ~isClosed
        /\ observer' = [observer EXCEPT !.pc = "tail", !.count = activeTermCount]
     \/ /\ observer.pc = "tail"
        /\ LET rawTail == tails[indexByTermCount(observer.count)]
           IN  observer' = [pc |-> "idle", count |-> 0,
                  last |-> computePosition(rawTail.termId, termOffset(rawTail))]
  /\ UNCHANGED <<logVars, imageVars, publicationLimit, isClosed, thread, claims,
                 accepted>>

-----------------------------------------------------------------------------
(* The driver (external): it zeroes what the subscriber has passed, then   *)
(* moves the limit, and tells when the last subscriber is gone.            *)

UpdateLimit ==
  /\ subscriberPosition + Window > publicationLimit
  /\ publicationLimit' = subscriberPosition + Window
  /\ terms' = [i \in Partitions |-> [o \in Offsets |->
       IF \E pos \in (publicationLimit - Window) .. (subscriberPosition - 1) :
            indexByPosition(pos) = i /\ offsetByPosition(pos) = o
       THEN Zero ELSE terms[i][o]]]
  /\ UNCHANGED <<tails, activeTermCount, isConnected, imageVars, isClosed,
                 thread, claims, accepted, observer>>

Poll ==
  /\ Polling
  /\ UNCHANGED <<logVars, publicationLimit, isClosed, thread, claims, accepted,
                 observer>>

Next == \/ \E t \in Threads : offer(t)
        \/ close \/ position \/ UpdateLimit \/ Poll

Spec == Init /\ [][Next]_vars

-----------------------------------------------------------------------------
Tails == [termId : (-HalfWord) .. (HalfWord - 1), offset : Nat]

TypeOK ==
  /\ tails \in [Partitions -> Tails]
  /\ activeTermCount \in 0 .. (HalfWord - 1)
  /\ publicationLimit \in Nat /\ subscriberPosition \in 0 .. publicationLimit + 2 * TermLength
  /\ \A i \in Partitions, o \in Offsets :
       terms[i][o].length \in (-TermLength) .. TermLength
  /\ isClosed \in BOOLEAN /\ isConnected \in BOOLEAN

(* The stream has no holes and no overlaps: each claim begins where the    *)
(* one before it ended, although a thread may add to the tail of a         *)
(* partition that has moved on by a whole lap since it was read (claim,    *)
(* append*Message, rotateLog).                                             *)
StreamContiguous ==
  \A i \in DOMAIN claims :
    claims[i].begin = IF i = 1 THEN StartPosition ELSE claims[i - 1].end

(* Threads that decide on an old limit, count or tail never claim memory   *)
(* that the subscriber has not passed and the driver has not zeroed: a     *)
(* claim stays within the three terms ahead of the subscriber (offer).     *)
NeverOverrun ==
  \A i \in DOMAIN claims : claims[i].end <= subscriberPosition + 3 * TermLength

(* Every frame that a reader can see is whole and carries the term it was  *)
(* written in: nothing of an earlier lap shows (HeaderWriter::write).      *)
NoStaleFrame ==
  \A i \in DOMAIN claims :
    LET f == frameAt(claims[i].begin)
    IN  claims[i].begin >= subscriberPosition /\ f.length > 0 =>
          /\ claims[i].state # "open"
          /\ computeTermBeginPosition(f.termId)
               = (claims[i].begin \div TermLength) * TermLength
          /\ align(f.length) = claims[i].end - claims[i].begin

(* The active term count never goes back, and only moves to the next term  *)
(* once that term's tail has been reset, so that no publisher can find a   *)
(* tail of the lap before in the active partition (rotateLog).             *)
RotationInOrder ==
  activeTermCount' # activeTermCount =>
    /\ activeTermCount' = activeTermCount + 1
    /\ computeTermCount(tails'[indexByTermCount(activeTermCount')].termId) >= activeTermCount'

(* How far the stream is claimed. *)
StreamEnd == IF claims = <<>> THEN StartPosition ELSE claims[Len(claims)].end

(* position() answers with a place that the stream has reached, although   *)
(* the count and the tail are two loads and the partition may be reset for *)
(* the next lap between them; and it goes back only behind an answer that  *)
(* lay beyond the active term, never behind one within it (position,       *)
(* rotateLog).                                                             *)
PositionOfStream ==
  observer.pc = "tail" /\ observer'.pc = "idle" =>
    /\ observer'.last \in StartPosition .. StreamEnd
    /\ observer'.last >= Min({observer.last, (observer.count + 1) * TermLength})

(* Two answers of position() never go back.  A thread that is overtaken by *)
(* a lap, between its loads, reads the tail of a partition that was reset  *)
(* (casRawTail) and added to by another late thread before the count was   *)
(* moved (casActiveTermCount): its next answer is the end of the term      *)
(* before.  Not a property of the code.                                    *)
PositionNeverGoesBack == observer'.last >= observer.last

(* How many claims the poller has passed. *)
Passed ==
  LET reached == IF poller.op = "none" THEN subscriberPosition
                 ELSE poller.position + (poller.offset - poller.begin)
      Ended == {i \in DOMAIN claims : claims[i].end <= reached}
  IN  IF Ended = {} THEN 0 ELSE Max(Ended)

Queue == INSTANCE ClaimQueue WITH
  Ids <- (0 .. MaxMessages + Cardinality(Threads)) \X (1 .. Max({FrameCount(l) : l \in OfferLengths \cup {0}})),
  MaxBatch <- Max({FrameCount(l) : l \in OfferLengths \cup {0}}),
  claims <- [i \in DOMAIN claims |-> [id |-> <<claims[i].id, claims[i].frag>>,
                                      state |-> claims[i].state]],
  taken <- Passed,
  delivered <- [n \in DOMAIN handed |-> <<handed[n].id, handed[n].frag>>]

(* The log is a queue: every frame reaches the subscriber once, whole, in  *)
(* the order of the claims, and the fragments of a message stay together.  *)
QueueSpec == Queue!Spec

(* Every message that was accepted, and not aborted, has been delivered.   *)
AllDelivered ==
  \A i \in DOMAIN claims :
    \/ \E j \in DOMAIN claims : claims[j].id = claims[i].id /\ claims[j].state = "void"
    \/ \E n \in DOMAIN handed : handed[n].id = claims[i].id /\ handed[n].end
=============================================================================
