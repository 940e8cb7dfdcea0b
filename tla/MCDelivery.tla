----------------------------- MODULE MCDelivery -----------------------------
(***************************************************************************)
(* What is sent arrives: liveness of the queues, of the publications, of   *)
(* the broadcast buffer and of the flow of messages from the publisher to  *)
(* the report of the subscriber, on instances small enough to check it.    *)
(***************************************************************************)
EXTENDS Integers, Sequences

CONSTANTS
  Parts   \* the components to move

(* part is the component that moves; the variables it lacks are Absent.    *)
VARIABLES
  part,
  buffer, tail,
  headCache, head,
  reader, rHead, bytesRead, messagesRead, pc, msg, req, pHead, ids,
  handed,
  pTail, pad, ub, ubHead, ubTail, ubScan, ubBack, strayed,
  claims,
  sizer,
  sBefore, sTail, sized, sHeld, sCalls,
  offer, drain, delivered,
  sent,
  terms, tails, activeTermCount, isConnected, subscriberPosition, poller, publicationLimit,
  isClosed, accepted,
  thread, observer,
  mine, call, bufferClaims, seen,
  tailIntent, latest, tx, cursor, nextRecord, recordOffset, lappedCount, rx, raised,
  host, clock, log, left, stats, running, report

vars == <<part, buffer, tail, headCache, head, reader, rHead, bytesRead, messagesRead, pc, msg,
          req, pHead, ids, handed, pTail, pad, ub, ubHead, ubTail, ubScan, ubBack, strayed, claims, sizer,
          sBefore, sTail, sized, sHeld, sCalls, offer, drain, delivered, sent, terms, tails,
          activeTermCount, isConnected, subscriberPosition, poller, publicationLimit,
          isClosed, accepted, thread, observer, mine, call, bufferClaims, seen, tailIntent,
          latest, tx, cursor, nextRecord, recordOffset, lappedCount, rx, raised, host,
          clock, log, left, stats, running, report>>

Absent == "absent"

M == INSTANCE ManyToOneRingBuffer WITH
  Producers <- {"p", "q"}, Capacity <- 8, MsgLengths <- {1}, MaxWrites <- 3, ReadLimit <- 2,
  Start <- 5

O == INSTANCE OneToOneRingBuffer WITH
  Capacity <- 8, MsgLengths <- {0, 1}, MaxWrites <- 4, ReadLimit <- 2, Start <- 5,
  MaxSizeCalls <- 0

Q == INSTANCE ArrayQueue WITH
  Single <- FALSE, Producers <- {"p", "q"}, Elements <- [p |-> 3, q |-> 1], Capacity <- 2,
  MaxSizeCalls <- 0

C == INSTANCE ConcurrentPublication WITH
  FRAME_ALIGNMENT <- 2, HEADER_LENGTH <- 2, MaxPayloadLength <- 2, TermLength <- 12,
  MaxMessageLength <- 3, HalfWord <- 4, InitialTermId <- 2, StartCount <- 2,
  FragmentLimit <- 2, HandlerThrows <- FALSE, Threads <- {"p", "q"}, OfferLengths <- {3},
  ClaimLengths <- {}, MaxMessages <- 2, Window <- 6, MaxTail <- 16, OtherCalls <- FALSE

E == INSTANCE ExclusivePublication WITH
  FRAME_ALIGNMENT <- 2, HEADER_LENGTH <- 2, MaxPayloadLength <- 2, TermLength <- 12,
  MaxMessageLength <- 3, HalfWord <- 4, InitialTermId <- 2, StartCount <- 2,
  FragmentLimit <- 2, HandlerThrows <- FALSE, OfferLengths <- {3}, ClaimLengths <- {1},
  MaxMessages <- 3, MaxOpenClaims <- 2, GoesOn <- FALSE, DriverReads <- FALSE, Window <- 6

B == INSTANCE Broadcast WITH
  Capacity <- 8, Start <- 5, MaxMessages <- 5, PayloadAsLength <- 3, ScratchLength <- 2,
  GoesOn <- FALSE

F == INSTANCE MessageFlow WITH
  Byte <- 4, TIMESTAMP_SIZE <- 2, MessageSize <- 2, MaxPayload <- 4, MessageCount <- 3,
  TargetCount <- 3, FragmentLimit <- 2, Hosts <- {"little"}, Width <- 1000,
  NanosPerSecond <- 5, BytesPerMega <- 3, MaxTime <- 4

ASSUME SuiteAssumption ==
  /\ M!RingBufferAssumption
  /\ O!RingBufferAssumption /\ O!SizeAssumption
  /\ Q!ArrayQueueAssumption
  /\ C!LogBufferAssumption /\ C!ImagePollAssumption /\ C!PublicationAssumption
  /\ E!LogBufferAssumption /\ E!ImagePollAssumption /\ E!ExclusiveAssumption
  /\ B!BroadcastAssumption
  /\ F!FlowAssumption

Init ==
  /\ part \in Parts
  /\ \/ part = "many to one" /\ M!Init
     \/ part = "one to one" /\ O!Init
     \/ part = "mpsc queue" /\ Q!Init
     \/ part = "concurrent" /\ C!Init
     \/ part = "exclusive" /\ E!Init
     \/ part = "broadcast" /\ B!Init
     \/ part = "message flow" /\ F!Init
  /\ part \notin {"many to one", "one to one", "mpsc queue", "broadcast"} =>
       buffer = Absent /\ tail = Absent
  /\ part \notin {"many to one", "one to one", "mpsc queue"} =>
       headCache = Absent /\ head = Absent
  /\ part \notin {"many to one", "one to one"} =>
       reader = Absent /\ rHead = Absent /\ bytesRead = Absent /\ messagesRead = Absent
       /\ pc = Absent /\ msg = Absent /\ req = Absent /\ pHead = Absent /\ ids = Absent
  /\ part \notin {"many to one", "one to one", "concurrent", "exclusive", "broadcast"} =>
       handed = Absent
  /\ part # "many to one" =>
       pTail = Absent /\ pad = Absent /\ ub = Absent /\ ubHead = Absent /\ ubTail = Absent
       /\ ubScan = Absent /\ ubBack = Absent /\ strayed = Absent
  /\ part \notin {"many to one", "one to one", "mpsc queue", "concurrent", "exclusive"} =>
       claims = Absent
  /\ part \notin {"one to one", "mpsc queue"} =>
       sizer = Absent
  /\ part # "one to one" =>
       sBefore = Absent /\ sTail = Absent /\ sized = Absent /\ sHeld = Absent
       /\ sCalls = Absent
  /\ part # "mpsc queue" =>
       offer = Absent /\ drain = Absent /\ delivered = Absent
  /\ part \notin {"mpsc queue", "broadcast", "message flow"} =>
       sent = Absent
  /\ part \notin {"concurrent", "exclusive"} =>
       terms = Absent /\ tails = Absent /\ activeTermCount = Absent /\ isConnected = Absent
       /\ subscriberPosition = Absent /\ poller = Absent /\ publicationLimit = Absent
       /\ isClosed = Absent /\ accepted = Absent
  /\ part # "concurrent" =>
       thread = Absent /\ observer = Absent
  /\ part # "exclusive" =>
       mine = Absent /\ call = Absent /\ bufferClaims = Absent /\ seen = Absent
  /\ part # "broadcast" =>
       tailIntent = Absent /\ latest = Absent /\ tx = Absent /\ cursor = Absent
       /\ nextRecord = Absent /\ recordOffset = Absent /\ lappedCount = Absent
       /\ rx = Absent /\ raised = Absent
  /\ part # "message flow" =>
       host = Absent /\ clock = Absent /\ log = Absent /\ left = Absent /\ stats = Absent
       /\ running = Absent /\ report = Absent

StayAbsent ==
  /\ UNCHANGED part
  /\ part \notin {"many to one", "one to one", "mpsc queue", "broadcast"} => UNCHANGED <<buffer, tail>>
  /\ part \notin {"many to one", "one to one", "mpsc queue"} => UNCHANGED <<headCache, head>>
  /\ part \notin {"many to one", "one to one"} => UNCHANGED <<reader, rHead, bytesRead, messagesRead, pc, msg, req, pHead, ids>>
  /\ part \notin {"many to one", "one to one", "concurrent", "exclusive", "broadcast"} => UNCHANGED <<handed>>
  /\ part # "many to one" => UNCHANGED <<pTail, pad, ub, ubHead, ubTail, ubScan, ubBack, strayed>>
  /\ part \notin {"many to one", "one to one", "mpsc queue", "concurrent", "exclusive"} => UNCHANGED <<claims>>
  /\ part \notin {"one to one", "mpsc queue"} => UNCHANGED <<sizer>>
  /\ part # "one to one" => UNCHANGED <<sBefore, sTail, sized, sHeld, sCalls>>
  /\ part # "mpsc queue" => UNCHANGED <<offer, drain, delivered>>
  /\ part \notin {"mpsc queue", "broadcast", "message flow"} => UNCHANGED <<sent>>
  /\ part \notin {"concurrent", "exclusive"} => UNCHANGED <<terms, tails, activeTermCount, isConnected, subscriberPosition, poller,
       publicationLimit, isClosed, accepted>>
  /\ part # "concurrent" => UNCHANGED <<thread, observer>>
  /\ part # "exclusive" => UNCHANGED <<mine, call, bufferClaims, seen>>
  /\ part # "broadcast" => UNCHANGED <<tailIntent, latest, tx, cursor, nextRecord, recordOffset, lappedCount, rx, raised>>
  /\ part # "message flow" => UNCHANGED <<host, clock, log, left, stats, running, report>>

ManyToOne == part = "many to one" /\ M!Next /\ StayAbsent
OneToOne == part = "one to one" /\ O!Next /\ StayAbsent
ManyProducers == part = "mpsc queue" /\ Q!Next /\ StayAbsent
Concurrent == part = "concurrent" /\ C!Next /\ StayAbsent
Exclusive == part = "exclusive" /\ E!Next /\ StayAbsent
Broadcasts == part = "broadcast" /\ B!Next /\ StayAbsent
Flow == part = "message flow" /\ F!Next /\ StayAbsent

Next == ManyToOne \/ OneToOne \/ ManyProducers \/ Concurrent \/ Exclusive \/ Broadcasts \/
        Flow

Spec == Init /\ [][Next]_vars

(* The threads go on with what they have begun; nothing makes one begin,   *)
(* except the producers of the array queue and the publisher, whose loops  *)
(* do. Only one component moves, so that each of these is the fairness of  *)
(* one thread of it. The loop of the driver reads the ring buffer again    *)
(* and again and unblocks it whenever the head stands still: neither call  *)
(* keeps the other one out for ever, so that both are strongly fair.       *)

\* the thread that consumes
Reader ==
  /\ \/ part = "many to one" /\ ~strayed /\ M!Consumer
     \/ part = "one to one" /\ O!Consumer
     \/ part = "mpsc queue" /\ Q!Drain
     \/ part = "concurrent" /\ C!Poll
     \/ part = "exclusive" /\ E!Poll
     \/ part = "broadcast" /\ B!Receiver
     \/ part = "message flow" /\ F!poll
  /\ StayAbsent

\* a thread that produces
Writer ==
  /\ \/ part = "many to one" /\ ~strayed /\ pc["p"] # "idle" /\ M!Producer("p")
     \/ part = "one to one" /\ pc # "idle" /\ O!Producer
     \/ part = "mpsc queue" /\ Q!Offer("p")
     \/ part = "concurrent" /\ thread["p"].pc # "idle" /\ C!offer("p")
     \/ part = "exclusive" /\ call.pc # "idle" /\ E!Publish
     \/ part = "broadcast" /\ tx # B!Idle /\ B!Transmitter
     \/ part = "message flow" /\ F!send
  /\ StayAbsent

\* another one, or the claims it has made
OtherWriter ==
  /\ \/ part = "many to one" /\ ~strayed /\ pc["q"] # "idle" /\ M!Producer("q")
     \/ part = "mpsc queue" /\ Q!Offer("q")
     \/ part = "concurrent" /\ thread["q"].pc # "idle" /\ C!offer("q")
     \/ part = "exclusive" /\ E!finishClaim
     \/ part = "message flow" /\ F!process_message_fragment
  /\ StayAbsent

\* the driver that moves the limit, and the final report
Environment ==
  /\ \/ part = "concurrent" /\ C!UpdateLimit
     \/ part = "exclusive" /\ E!Driver
     \/ part = "message flow" /\ F!print_final_stats
  /\ StayAbsent

\* the two calls of the driver's loop on the ring buffer
Unblock == part = "many to one" /\ ~strayed /\ M!Unblock /\ StayAbsent
Read ==
  /\ part = "many to one" /\ ~strayed /\ ub = "idle"
  /\ M!ReadBegin
  /\ UNCHANGED <<pc, msg, req, pHead, pTail, pad, ids, ub, ubHead, ubTail, ubScan, ubBack,
                 claims, strayed>>
  /\ StayAbsent

FairSpec ==
  /\ Spec
  /\ WF_vars(Reader) /\ WF_vars(Writer) /\ WF_vars(OtherWriter) /\ WF_vars(Environment) /\
     SF_vars(Unblock) /\ SF_vars(Read)

-----------------------------------------------------------------------------
(* Whatever a buffer or a publication accepted is delivered in the end,    *)
(* behind padding, batches that stop, rotations, finished claims and       *)
(* producers that died while writing, unless unblock() has taken a live    *)
(* one for dead; the receiver of a broadcast comes to the end of what was  *)
(* sent or reports that it could not keep up; and a subscriber that waits  *)
(* for as many messages as are sent comes to its final report (read,       *)
(* unblock, drain, poll, receive, run_subscriber, print_final_stats).      *)
AcceptedIsDelivered ==
  []<>(/\ part = "many to one" => strayed \/ M!AllDelivered
       /\ part = "one to one" => O!AllDelivered
       /\ part = "mpsc queue" => Q!AllDelivered
       /\ part = "concurrent" => C!AllDelivered
       /\ part = "exclusive" => E!AllDelivered
       /\ part = "broadcast" => (rx = B!Idle /\ nextRecord = tail) \/ rx.pc = "failed"
       /\ part = "message flow" => report.throughput >= 0)
=============================================================================
