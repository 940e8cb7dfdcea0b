----------------------------- MODULE MCStreams ------------------------------
(***************************************************************************)
(* Small instances of what carries messages from thread to thread. The     *)
(* queues: the ring buffer of many producers that takes commands to the    *)
(* media driver, the ring buffer of one producer, and the array queues of  *)
(* many producers and of one; the producers go around the buffer and find  *)
(* it full, and a record meets the end of the buffer with too little room  *)
(* left. What reads a stream: the polls of an image and its peek, over     *)
(* terms of ten units that hold two frames of four and two units of        *)
(* padding; the fragment assemblers, on frames with a payload of at most   *)
(* four bytes in two terms; and the list of images that the conductor      *)
(* changes under a reader of the subscription.                             *)
(***************************************************************************)
EXTENDS Integers, Sequences, TLC

CONSTANTS
  Parts,   \* the components to move
  Producers,   \* the producers of the ring buffer
  Capacity, MsgLengths, MaxWrites, ReadLimit, Start,   \* of the ring buffers
  QueueCapacity, MaxSizeCalls,   \* of the array queues; bound: calls of size
  MaxImages, MaxChanges,   \* bounds: images of a subscription, changes of its array
  FragmentLimit, ImageOps  \* the limit of a poll, what the application calls

(* part is the component that moves; the variables it lacks are Absent.    *)
VARIABLES
  part,
  buffer, tail, headCache, head, claims,
  reader,
  rHead, bytesRead, messagesRead, pc, msg, req, pHead, ids,
  handed,
  pTail, pad, ub, ubHead, ubTail, ubScan, ubBack, strayed,
  sizer,
  sBefore, sTail, sized, sHeld, sCalls,
  offer, sent, drain, delivered,
  terms, tails, activeTermCount, isConnected, subscriberPosition, poller, stream, open,
  endOfStreamPosition, image, copy, bound, skipped, block, peeked,
  kind, next, lost, builder, due, aborts, aborted, last,
  arrays, m_array, m_length, m_beginChange, m_endChange, m_isClosed, closed, added,
  conductor, linger, m_roundRobinIndex, visited, counted, result, during, openSince

vars == <<part, buffer, tail, headCache, head, claims, reader, rHead, bytesRead, messagesRead, pc,
          msg, req, pHead, ids, handed, pTail, pad, ub, ubHead, ubTail, ubScan, ubBack, strayed, sizer,
          sBefore, sTail, sized, sHeld, sCalls, offer, sent, drain, delivered, terms, tails,
          activeTermCount, isConnected, subscriberPosition, poller, stream, open,
          endOfStreamPosition, image, copy, bound, skipped, block, peeked, kind, next, lost,
          builder, due, aborts, aborted, last, arrays, m_array, m_length, m_beginChange,
          m_endChange, m_isClosed, closed, added, conductor, linger, m_roundRobinIndex,
          visited, counted, result, during, openSince>>

Absent == "absent"

ProducerSymmetry == Permutations(Producers)

MaxPayload == 4

Text(m, from, to) == [k \in 1..(to - from + 1) |-> <<m, from + k - 1>>]

(* The frames of a message m of n bytes, at an offset of a term. *)
FramesOf(m, n, term, off) ==
  LET count == (n + MaxPayload - 1) \div MaxPayload IN
  [i \in 1..count |->
     [term |-> term, off |-> off + (i - 1) * (2 + MaxPayload), begin |-> i = 1, end |-> i = count,
      text |-> Text(m, (i - 1) * MaxPayload + 1, IF i = count THEN n ELSE i * MaxPayload)]]

(* Messages of 9, 3, 10 and 8 bytes of one session, with the third in the  *)
(* next term at the offset of the first, and two of 7 and 3 of another.    *)
TwoSessions ==
  [s |-> FramesOf("m1", 9, 0, 0) \o FramesOf("m2", 3, 0, 16) \o FramesOf("m3", 10, 1, 0) \o FramesOf("m4", 8, 1, 16),
   t |-> FramesOf("n1", 7, 0, 0) \o FramesOf("n2", 3, 0, 12)]

M == INSTANCE ManyToOneRingBuffer

O == INSTANCE OneToOneRingBuffer WITH MsgLengths <- MsgLengths \cup {0}

Q == INSTANCE ArrayQueue WITH
  Single <- FALSE, Producers <- {"p", "q"}, Elements <- [p |-> 3, q |-> 1],
  Capacity <- QueueCapacity

S == INSTANCE ArrayQueue WITH
  Single <- TRUE, Producers <- {"p"}, Elements <- [p |-> 5], Capacity <- QueueCapacity

P == INSTANCE Image WITH
  FRAME_ALIGNMENT <- 2, HEADER_LENGTH <- 2, MaxPayloadLength <- 2, TermLength <- 10,
  MaxMessageLength <- 2, HalfWord <- 4, InitialTermId <- 3, StartCount <- 0,
  FragmentLimit <- 2, HandlerThrows <- TRUE,
  Ops <- {"poll", "boundedPoll", "controlledPoll", "boundedControlledPoll", "blockPoll"},
  MaxFrames <- 6, BlockLimits <- {4, 6, 10}

K == INSTANCE Image WITH
  FRAME_ALIGNMENT <- 2, HEADER_LENGTH <- 2, MaxPayloadLength <- 2, TermLength <- 10,
  MaxMessageLength <- 2, HalfWord <- 4, InitialTermId <- 3, StartCount <- 0,
  FragmentLimit <- 2, HandlerThrows <- TRUE,
  Ops <- {"controlledPeek", "position", "poll", "close", "copy"}, MaxFrames <- 4,
  BlockLimits <- {4, 6, 10}

A == INSTANCE Assembler WITH
  Log <- TwoSessions, Kinds <- [image : BOOLEAN, controlled : BOOLEAN, wrapper : BOOLEAN],
  TermLength <- 32, InitialLength <- 0, MinCapacity <- 2, MaxCapacity <- 9, LongestGap <- 2,
  MaxAborts <- 2

I == INSTANCE SubscriptionImages WITH Ops <- ImageOps

ASSUME SuiteAssumption ==
  /\ M!RingBufferAssumption
  /\ O!RingBufferAssumption /\ O!SizeAssumption
  /\ Q!ArrayQueueAssumption
  /\ S!ArrayQueueAssumption
  /\ P!LogBufferAssumption /\ P!ImagePollAssumption /\ P!ImageAssumption
  /\ K!LogBufferAssumption /\ K!ImagePollAssumption /\ K!ImageAssumption
  /\ A!AssemblerAssumption
  /\ I!ImagesAssumption

Init ==
  /\ part \in Parts
  /\ \/ part = "many to one" /\ M!Init
     \/ part = "one to one" /\ O!Init
     \/ part = "mpsc queue" /\ Q!Init
     \/ part = "spsc queue" /\ S!Init
     \/ part = "polls" /\ P!Init
     \/ part = "peek" /\ K!Init
     \/ part = "assembler" /\ A!Init
     \/ part = "images" /\ I!Init
  /\ part \notin {"many to one", "one to one", "mpsc queue", "spsc queue"} =>
       buffer = Absent /\ tail = Absent /\ headCache = Absent /\ head = Absent
       /\ claims = Absent
  /\ part \notin {"many to one", "one to one", "images"} =>
       reader = Absent
  /\ part \notin {"many to one", "one to one"} =>
       rHead = Absent /\ bytesRead = Absent /\ messagesRead = Absent /\ pc = Absent
       /\ msg = Absent /\ req = Absent /\ pHead = Absent /\ ids = Absent
  /\ part \notin {"many to one", "one to one", "polls", "peek"} =>
       handed = Absent
  /\ part # "many to one" =>
       pTail = Absent /\ pad = Absent /\ ub = Absent /\ ubHead = Absent /\ ubTail = Absent
       /\ ubScan = Absent /\ ubBack = Absent /\ strayed = Absent
  /\ part \notin {"one to one", "mpsc queue", "spsc queue"} =>
       sizer = Absent
  /\ part # "one to one" =>
       sBefore = Absent /\ sTail = Absent /\ sized = Absent /\ sHeld = Absent
       /\ sCalls = Absent
  /\ part \notin {"mpsc queue", "spsc queue"} =>
       offer = Absent /\ sent = Absent /\ drain = Absent /\ delivered = Absent
  /\ part \notin {"polls", "peek"} =>
       terms = Absent /\ tails = Absent /\ activeTermCount = Absent /\ isConnected = Absent
       /\ subscriberPosition = Absent /\ poller = Absent /\ stream = Absent /\ open = Absent
       /\ endOfStreamPosition = Absent /\ image = Absent /\ copy = Absent /\ bound = Absent
       /\ skipped = Absent /\ block = Absent /\ peeked = Absent
  /\ part # "assembler" =>
       kind = Absent /\ next = Absent /\ lost = Absent /\ builder = Absent /\ due = Absent
       /\ aborts = Absent /\ aborted = Absent /\ last = Absent
  /\ part # "images" =>
       arrays = Absent /\ m_array = Absent /\ m_length = Absent /\ m_beginChange = Absent
       /\ m_endChange = Absent /\ m_isClosed = Absent /\ closed = Absent /\ added = Absent
       /\ conductor = Absent /\ linger = Absent /\ m_roundRobinIndex = Absent
       /\ visited = Absent /\ counted = Absent /\ result = Absent /\ during = Absent
       /\ openSince = Absent

StayAbsent ==
  /\ UNCHANGED part
  /\ part \notin {"many to one", "one to one", "mpsc queue", "spsc queue"} => UNCHANGED <<buffer, tail, headCache, head, claims>>
  /\ part \notin {"many to one", "one to one", "images"} => UNCHANGED <<reader>>
  /\ part \notin {"many to one", "one to one"} => UNCHANGED <<rHead, bytesRead, messagesRead, pc, msg, req, pHead, ids>>
  /\ part \notin {"many to one", "one to one", "polls", "peek"} => UNCHANGED <<handed>>
  /\ part # "many to one" => UNCHANGED <<pTail, pad, ub, ubHead, ubTail, ubScan, ubBack, strayed>>
  /\ part \notin {"one to one", "mpsc queue", "spsc queue"} => UNCHANGED <<sizer>>
  /\ part # "one to one" => UNCHANGED <<sBefore, sTail, sized, sHeld, sCalls>>
  /\ part \notin {"mpsc queue", "spsc queue"} => UNCHANGED <<offer, sent, drain, delivered>>
  /\ part \notin {"polls", "peek"} => UNCHANGED <<terms, tails, activeTermCount, isConnected, subscriberPosition, poller, stream, open,
       endOfStreamPosition, image, copy, bound, skipped, block, peeked>>
  /\ part # "assembler" => UNCHANGED <<kind, next, lost, builder, due, aborts, aborted, last>>
  /\ part # "images" => UNCHANGED <<arrays, m_array, m_length, m_beginChange, m_endChange, m_isClosed, closed, added,
       conductor, linger, m_roundRobinIndex, visited, counted, result, during, openSince>>

ManyToOne == part = "many to one" /\ M!Next /\ StayAbsent
OneToOne == part = "one to one" /\ O!Next /\ StayAbsent
ManyProducers == part = "mpsc queue" /\ Q!Next /\ StayAbsent
OneProducer == part = "spsc queue" /\ S!Next /\ StayAbsent
Polls == part = "polls" /\ P!Next /\ StayAbsent
Peek == part = "peek" /\ K!Next /\ StayAbsent
Assemble == part = "assembler" /\ A!Next /\ StayAbsent
ImageList == part = "images" /\ I!Next /\ StayAbsent

Next == ManyToOne \/ OneToOne \/ ManyProducers \/ OneProducer \/ Polls \/ Peek \/ Assemble
        \/ ImageList

Spec == Init /\ [][Next]_vars

-----------------------------------------------------------------------------
(* Producers never claim space that the consumer has not given back,       *)
(* although they decide on a cached head; free space is zero, by which an  *)
(* unwritten record is told; a message is handed over with the bytes of    *)
(* its own producer; and a size was true at some moment of its call        *)
(* (claimCapacity, read, size).  Where producers die and unblock() runs,   *)
(* all of it holds as long as its padding covers dead records only.        *)
RecordsIntact ==
  /\ part = "many to one" =>
       /\ M!TypeOK
       /\ ~strayed => M!NeverOverrun /\ M!FreeSpaceZeroed /\ M!NoTornMessage
  /\ part = "one to one" => O!TypeOK /\ O!NeverOverrun /\ O!NoTornMessage /\ O!SizeWasTrue
  /\ part = "mpsc queue" => Q!TypeOK /\ Q!SizeWasTrue
  /\ part = "spsc queue" => S!TypeOK /\ S!SizeWasTrue

(* The ring buffers and the array queues implement ClaimQueue: messages    *)
(* are handed over in the order of their claims, once, never before they   *)
(* are complete, and nothing is passed over but what its producer          *)
(* abandoned (write, read, unblock, offer, poll, drain), up to the moment  *)
(* at which unblock() takes the record of a live producer for a dead one.  *)
ImplementsClaimQueue ==
  /\ part = "many to one" => M!Queue!Init
  /\ [][part = "many to one" => M!Queue!Next \/ UNCHANGED M!Queue!vars \/ strayed']_vars
  /\ part = "one to one" => O!Queue!Init
  /\ [][part = "one to one" => O!Queue!Next \/ UNCHANGED O!Queue!vars]_vars
  /\ part = "mpsc queue" => Q!Queue!Init
  /\ [][part = "mpsc queue" => Q!Queue!Next \/ UNCHANGED Q!Queue!vars]_vars
  /\ part = "spsc queue" => S!Queue!Init
  /\ [][part = "spsc queue" => S!Queue!Next \/ UNCHANGED S!Queue!vars]_vars

(* The padding of unblock() never ends inside a record, whatever producers *)
(* write while it scans the buffer forward and back (unblock,              *)
(* scanBackToConfirmStillZeroed).                                          *)
UnblockEndsARecord == part = "many to one" => M!PaddingEndsARecord

(* The polls of an image hand every fragment over exactly once and in      *)
(* order, whatever their handlers answer or throw, stop at a frame and     *)
(* within their bound, and give padding as a block of its own; a peek      *)
(* answers with the end of a whole message (Image).                        *)
PollsExact ==
  /\ part = "polls" => P!TypeOK /\ P!ExactlyOnce /\ P!OnFrameBoundary /\ P!BoundKept /\
                       P!PaddingIsABlock
  /\ part = "peek" => K!TypeOK /\ K!PeekReturnsWholeMessage

(* The delegate of an assembler sees whole messages only, and every one    *)
(* whose fragments all came and that fits, whatever fragments were lost    *)
(* before it; a message that the delegate aborts holds the position and    *)
(* comes again; no append writes past the buffer (onFragment,              *)
(* BufferBuilder).                                                         *)
WholeMessages ==
  part = "assembler" => A!WholeMessages /\ A!CompleteIsDelivered /\ A!AbortHoldsPosition /\
                        A!WritesFit /\ A!FirstPositionIsEnd

(* A walk over the images of a subscription uses an array and a length     *)
(* that belonged together at one moment of the call, and none that the     *)
(* conductor has freed (AtomicArrayUpdater, Subscription).                 *)
SnapshotOfOneMoment ==
  part = "images" => I!SnapshotOfOneMoment /\ I!ArraysLive
=============================================================================
