--------------------------- MODULE MCPublications ---------------------------
(***************************************************************************)
(* Small instances of the publications over a log buffer of three terms. A *)
(* header is two units; a message of one byte takes four units, one of     *)
(* three bytes is fragmented and takes eight. There are few terms before   *)
(* the position is exhausted, and the term id wraps between them. The      *)
(* concurrent publication is run three times: until it laps the log, for   *)
(* the frames that a reader sees, and for a thread that asks for the       *)
(* position; the exclusive one with open claims, and with a driver that    *)
(* reads the position.                                                     *)
(***************************************************************************)
EXTENDS Integers, Sequences, TLC

CONSTANTS
  Parts,   \* the components to move
  Threads   \* the threads that share the publication

(* part is the component that moves; the variables it lacks are Absent.    *)
VARIABLES
  part,
  terms, tails, activeTermCount, isConnected, subscriberPosition, poller, handed,
  publicationLimit, isClosed, claims, accepted,
  thread, observer,
  mine, call, bufferClaims, seen

vars == <<part, terms, tails, activeTermCount, isConnected, subscriberPosition, poller, handed,
          publicationLimit, isClosed, claims, accepted, thread, observer, mine, call,
          bufferClaims, seen>>

Absent == "absent"

ThreadSymmetry == Permutations(Threads)

L == INSTANCE ConcurrentPublication WITH
  FRAME_ALIGNMENT <- 2, HEADER_LENGTH <- 2, MaxPayloadLength <- 2, TermLength <- 12,
  MaxMessageLength <- 3, HalfWord <- 4, InitialTermId <- 2, StartCount <- 0,
  FragmentLimit <- 2, HandlerThrows <- FALSE, Threads <- Threads, OfferLengths <- {3},
  ClaimLengths <- {}, MaxMessages <- 4, Window <- 6, MaxTail <- 16, OtherCalls <- FALSE

F == INSTANCE ConcurrentPublication WITH
  FRAME_ALIGNMENT <- 2, HEADER_LENGTH <- 2, MaxPayloadLength <- 2, TermLength <- 16,
  MaxMessageLength <- 4, HalfWord <- 4, InitialTermId <- 2, StartCount <- 2,
  FragmentLimit <- 2, HandlerThrows <- FALSE, Threads <- Threads, OfferLengths <- {3},
  ClaimLengths <- {1}, MaxMessages <- 2, Window <- 8, MaxTail <- 24, OtherCalls <- FALSE

P == INSTANCE ConcurrentPublication WITH
  FRAME_ALIGNMENT <- 2, HEADER_LENGTH <- 2, MaxPayloadLength <- 2, TermLength <- 4,
  MaxMessageLength <- 1, HalfWord <- 8, InitialTermId <- 6, StartCount <- 0,
  FragmentLimit <- 2, HandlerThrows <- FALSE, Threads <- Threads, OfferLengths <- {1},
  ClaimLengths <- {}, MaxMessages <- 4, Window <- 2, MaxTail <- 8, OtherCalls <- TRUE

E == INSTANCE ExclusivePublication WITH
  FRAME_ALIGNMENT <- 2, HEADER_LENGTH <- 2, MaxPayloadLength <- 2, TermLength <- 12,
  MaxMessageLength <- 3, HalfWord <- 4, InitialTermId <- 2, StartCount <- 0,
  FragmentLimit <- 2, HandlerThrows <- FALSE, OfferLengths <- {3}, ClaimLengths <- {1},
  MaxMessages <- 5, MaxOpenClaims <- 2, GoesOn <- FALSE, DriverReads <- FALSE, Window <- 6

D == INSTANCE ExclusivePublication WITH
  FRAME_ALIGNMENT <- 2, HEADER_LENGTH <- 2, MaxPayloadLength <- 2, TermLength <- 12,
  MaxMessageLength <- 3, HalfWord <- 8, InitialTermId <- 6, StartCount <- 0,
  FragmentLimit <- 2, HandlerThrows <- FALSE, OfferLengths <- {3}, ClaimLengths <- {},
  MaxMessages <- 5, MaxOpenClaims <- 0, GoesOn <- FALSE, DriverReads <- TRUE, Window <- 6

ASSUME SuiteAssumption ==
  /\ L!LogBufferAssumption /\ L!ImagePollAssumption /\ L!PublicationAssumption
  /\ F!LogBufferAssumption /\ F!ImagePollAssumption /\ F!PublicationAssumption
  /\ P!LogBufferAssumption /\ P!ImagePollAssumption /\ P!PublicationAssumption
  /\ E!LogBufferAssumption /\ E!ImagePollAssumption /\ E!ExclusiveAssumption
  /\ D!LogBufferAssumption /\ D!ImagePollAssumption /\ D!ExclusiveAssumption

Init ==
  /\ part \in Parts
  /\ \/ part = "lap" /\ L!Init
     \/ part = "frames" /\ F!Init
     \/ part = "position" /\ P!Init
     \/ part = "exclusive" /\ E!Init
     \/ part = "driver" /\ D!Init
  /\ part \notin {"lap", "frames", "position"} =>
       thread = Absent /\ observer = Absent
  /\ part \notin {"exclusive", "driver"} =>
       mine = Absent /\ call = Absent /\ bufferClaims = Absent /\ seen = Absent

StayAbsent ==
  /\ UNCHANGED part
  /\ part \notin {"lap", "frames", "position"} => UNCHANGED <<thread, observer>>
  /\ part \notin {"exclusive", "driver"} => UNCHANGED <<mine, call, bufferClaims, seen>>

Lap == part = "lap" /\ L!Next /\ StayAbsent
Frames == part = "frames" /\ F!Next /\ StayAbsent
Position == part = "position" /\ P!Next /\ StayAbsent
Exclusive == part = "exclusive" /\ E!Next /\ StayAbsent
Driver == part = "driver" /\ D!Next /\ StayAbsent

Next == Lap \/ Frames \/ Position \/ Exclusive \/ Driver

Spec == Init /\ [][Next]_vars

-----------------------------------------------------------------------------
(* The frames of a stream lie end to end across the rotations, however     *)
(* long a thread was overtaken between its loads; none is left over from   *)
(* an earlier lap of its partition; and the begin and end flags mark the   *)
(* frames of one message (offer, appendFragmentedMessage, rotateLog).      *)
StreamIntact ==
  /\ part = "lap" => L!TypeOK /\ L!StreamContiguous /\ L!NoStaleFrame
  /\ part = "frames" => F!NoStaleFrame
  /\ part = "exclusive" => E!TypeOK /\ E!FieldsMatchLog /\ E!FlagsFrameMessages

(* No publication writes over frames that the subscriber has not passed,   *)
(* although it checks a limit that it has read before it claims (offer,    *)
(* tryClaim, newPosition).                                                 *)
NeverOverrun ==
  /\ part = "lap" => L!NeverOverrun
  /\ part = "exclusive" => E!NeverOverrun

(* Threads that rotate the log together leave its term count and tails in  *)
(* order; position() answers with a place that the stream has reached and  *)
(* goes back only behind an answer beyond the active term; and the         *)
(* position that the driver computes between two stores of an exclusive    *)
(* publication neither goes back nor runs ahead of it, each across a lap   *)
(* of the log (rotateLog, position, newPosition).                          *)
PositionsSound ==
  [][/\ part = "lap" => L!RotationInOrder
     /\ part = "position" => P!PositionOfStream
     /\ part = "driver" => D!ProducerPositionSound]_vars

(* The concurrent and the exclusive publication with the polls of an image *)
(* implement ClaimQueue: what was committed is handed over once, in the    *)
(* order of the claims, and only what was aborted is passed over (offer,   *)
(* tryClaim, commit, abort, poll).                                         *)
ImplementsClaimQueue ==
  /\ part = "frames" => F!Queue!Init
  /\ [][part = "frames" => F!Queue!Next \/ UNCHANGED F!Queue!vars]_vars
  /\ part = "exclusive" => E!Queue!Init
  /\ [][part = "exclusive" => E!Queue!Next \/ UNCHANGED E!Queue!vars]_vars
=============================================================================
