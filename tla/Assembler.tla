------------------------------ MODULE Assembler ------------------------------
(***************************************************************************)
(* The fragment assemblers (FragmentAssembler.h, Controlled-, Image- and   *)
(* ImageControlledFragmentAssembler.h), the BufferBuilder in which they    *)
(* put a message together and the Header that they hand to the delegate,   *)
(* with the wrappers over the C library that have the same interface.      *)
(*                                                                         *)
(* The frames of a session come in the order of its log, some may be lost, *)
(* and a fragment whose handler answers ABORT comes again.                 *)
(***************************************************************************)
EXTENDS Integers, Sequences, FiniteSets

CONSTANTS
  Log,              \* per session: its data frames, see FrameType
  Kinds,            \* the assemblers, see KindType
  TermLength,
  InitialLength,    \* initialBufferLength
  MinCapacity,      \* BUFFER_BUILDER_INIT_MIN_CAPACITY
  MaxCapacity,      \* BUFFER_BUILDER_MAX_CAPACITY
  LongestGap,       \* bound: the frames that are lost in a row
  MaxAborts         \* bound: the answers ABORT

Session == DOMAIN Log
KindType == [image : BOOLEAN, controlled : BOOLEAN, wrapper : BOOLEAN]

AssemblerAssumption ==
  /\ Kinds \subseteq KindType
  /\ \A n \in {TermLength, InitialLength, MinCapacity, MaxCapacity, LongestGap, MaxAborts} : n \in Nat
  /\ MinCapacity >= 2 /\ InitialLength <= MaxCapacity
  /\ \A s \in Session : \A i \in DOMAIN Log[s] :
       DOMAIN Log[s][i] = {"term", "off", "begin", "end", "text"}

LENGTH == 2            \* DataFrameHeader::LENGTH
FRAME_ALIGNMENT == 2
NULL_VALUE == -1
Nothing == [called |-> FALSE]
NoBuilder == [exists |-> FALSE]
Actions == {"ABORT", "BREAK", "COMMIT", "CONTINUE"}

VARIABLES
  kind,      \* which assembler it is
  next,      \* per session: the frame that its image hands over next
  lost,      \* per session: how many frames were just lost
  builder,   \* m_builderBySessionIdMap, or m_builder
  due,       \* per session: every frame of the message so far was handed over
  aborts,    \* how often the answer was ABORT
  aborted,   \* per session: the frame of the last such answer, or 0
  last       \* what the delegate was given in the last step

vars == <<kind, next, lost, builder, due, aborts, aborted, last>>

Align(n) == ((n + FRAME_ALIGNMENT - 1) \div FRAME_ALIGNMENT) * FRAME_ALIGNMENT

(***************************************************************************)
(* The header of a fragment, or of the message that is put together.       *)
(***************************************************************************)
Header(f) ==
  [term |-> f.term, off |-> f.off, frameLength |-> LENGTH + Len(f.text), begin |-> f.begin,
   end |-> f.end, fragmentedFrameLength |-> NULL_VALUE]

copyFrom(h, f) == [Header(f) EXCEPT !.fragmentedFrameLength = h.fragmentedFrameLength]

termOccupancyLength(h) ==
  IF h.fragmentedFrameLength = NULL_VALUE THEN h.frameLength ELSE h.fragmentedFrameLength

nextTermOffset(h) == Align(h.off + termOccupancyLength(h))

position(h) == h.term * TermLength + nextTermOffset(h)

computeFragmentedFrameLength(length, maxPayloadLength) ==
  LET remaining == length % maxPayloadLength IN
  (length \div maxPayloadLength) * (maxPayloadLength + LENGTH)
    + (IF remaining > 0 THEN Align(remaining + LENGTH) ELSE 0)

(***************************************************************************)
(* BufferBuilder.  The part of text that counts is its first limit bytes.  *)
(***************************************************************************)
BufferBuilder ==
  [exists |-> TRUE, capacity |-> InitialLength, limit |-> 0, nextTermOffset |-> NULL_VALUE,
   text |-> <<>>,
   header |-> [term |-> 0, off |-> 0, frameLength |-> 0, begin |-> FALSE, end |-> FALSE,
               fragmentedFrameLength |-> NULL_VALUE]]

reset(b) ==
  [b EXCEPT !.limit = 0, !.nextTermOffset = NULL_VALUE, !.header.fragmentedFrameLength = NULL_VALUE]

(* The exception is for a limit at or past the capacity. *)
setLimit(b, l) == IF l >= b.capacity THEN b ELSE [b EXCEPT !.limit = l]

findSuitableCapacity(current, required) ==
  LET grow[c \in 0..MaxCapacity] ==
        LET bigger == c + (c \div 2) IN
        IF c >= required THEN c ELSE grow[IF bigger > MaxCapacity THEN MaxCapacity ELSE bigger]
  IN grow[IF current < MinCapacity THEN MinCapacity ELSE current]

(* ensureCapacity throws if the message would pass the largest capacity. *)
Fits(b, length) == b.limit + length <= b.capacity \/ b.limit + length <= MaxCapacity

ensureCapacity(b, length) ==
  IF b.limit + length > b.capacity
  THEN [b EXCEPT !.capacity = findSuitableCapacity(@, b.limit + length)]
  ELSE b

append(b, text) ==
  [ensureCapacity(b, Len(text)) EXCEPT
     !.text = SubSeq(b.text, 1, b.limit) \o text, !.limit = b.limit + Len(text)]

captureHeader(b, f) == [b EXCEPT !.header = copyFrom(@, f)]

completeHeader(b, f) ==
  [b EXCEPT !.header =
     [@ EXCEPT !.fragmentedFrameLength =
                  computeFragmentedFrameLength(b.limit, b.header.frameLength - LENGTH),
               !.frameLength = LENGTH + b.limit,
               !.begin = @ \/ f.begin, !.end = @ \/ f.end]]

(***************************************************************************)
(* handleFragment: what becomes of the builder b by a fragment f, and what *)
(* the delegate is given, if it is called.  Its answer, or exception, is a.*)
(***************************************************************************)
Given(text, h, a) ==
  [called |-> TRUE, text |-> text, position |-> position(h), off |-> h.off, action |-> a]

Begun(b, f) ==
  LET c == captureHeader(reset(b), f) IN
  IF Fits(c, Len(f.text))
  THEN [append(c, f.text) EXCEPT !.nextTermOffset = nextTermOffset(Header(f))]
  ELSE c

Ended(b, f, a) ==
  LET c == completeHeader(append(b, f.text), f) IN
  [b |-> CASE a = "ABORT" -> setLimit(c, b.limit)
           [] a = "throws" -> c
           [] OTHER -> reset(c),
   given |-> Given(SubSeq(c.text, 1, c.limit), c.header, a)]

(* Mutant: any next fragment is taken for the one that follows. *)
handleFragment_AnyOffset(b, f, a) ==
  CASE f.begin -> [b |-> Begun(b, f), given |-> Nothing]
    [] ~f.begin /\ ~Fits(b, Len(f.text)) -> [b |-> b, given |-> Nothing]
    [] OTHER -> IF f.end THEN Ended(b, f, a)
                ELSE [b |-> append(b, f.text), given |-> Nothing]

handleFragment(b, f, a) ==
  CASE f.begin -> [b |-> Begun(b, f), given |-> Nothing]
    [] ~f.begin /\ b.nextTermOffset # f.off -> [b |-> reset(b), given |-> Nothing]
    [] ~f.begin /\ b.nextTermOffset = f.off /\ ~Fits(b, Len(f.text)) -> [b |-> b, given |-> Nothing]
    [] OTHER -> IF f.end THEN Ended(b, f, a)
                ELSE [b |-> [append(b, f.text) EXCEPT !.nextTermOffset = nextTermOffset(Header(f))],
                      given |-> Nothing]

Unfragmented(b, f, a) == [b |-> b, given |-> Given(f.text, Header(f), a)]

(* The session assemblers make a builder at the first fragment only. *)
getBuffer(b) == IF b.exists THEN b ELSE BufferBuilder

SessionFragment(b, f, a) ==
  CASE f.begin /\ f.end -> Unfragmented(b, f, a)
    [] f.begin /\ ~f.end -> handleFragment(getBuffer(b), f, a)
    [] OTHER -> IF b.exists THEN handleFragment(b, f, a) ELSE [b |-> b, given |-> Nothing]

ImageFragment(b, f, a) ==
  IF f.begin /\ f.end THEN Unfragmented(b, f, a) ELSE handleFragment(b, f, a)

(***************************************************************************)
(* The steps.  The image's poll hands the same fragment over again after   *)
(* ABORT, and goes past it otherwise: an exception goes to the error       *)
(* handler.                                                                *)
(***************************************************************************)
Key(s) == IF kind.image THEN "m_builder" ELSE s
Is(image, controlled, wrapper) ==
  kind = [image |-> image, controlled |-> controlled, wrapper |-> wrapper]
InHand(s) == Log[s][next[s]]
Answers == IF aborts < MaxAborts THEN Actions ELSE Actions \ {"ABORT"}

Polled(s, r, answer) ==
  LET f == InHand(s) IN
  /\ builder' = [builder EXCEPT ![Key(s)] = r.b]
  /\ last' = [given |-> r.given, s |-> s, f |-> f, again |-> aborted[s] = next[s],
              due |-> f.begin \/ due[s]]
  /\ next' = [next EXCEPT ![s] = IF r.given.called /\ answer = "ABORT" THEN @ ELSE @ + 1]
  /\ lost' = [lost EXCEPT ![s] = 0]
  /\ due' = [due EXCEPT ![s] = f.begin \/ @]
  /\ IF r.given.called /\ r.given.action = "ABORT"
     THEN aborts' = aborts + 1 /\ aborted' = [aborted EXCEPT ![s] = next[s]]
     ELSE UNCHANGED <<aborts, aborted>>
  /\ UNCHANGED kind

onFragment(s) ==
  /\ Is(FALSE, FALSE, FALSE)
  /\ \E a \in {"CONTINUE", "throws"} :
       Polled(s, SessionFragment(builder[s], InHand(s), a), a)

onControlledFragment(s) ==
  /\ Is(FALSE, TRUE, FALSE)
  /\ \E a \in Answers \cup {"throws"} :
       Polled(s, SessionFragment(builder[s], InHand(s), a), a)

onImageFragment(s) ==
  /\ Is(TRUE, FALSE, FALSE)
  /\ \E a \in {"CONTINUE", "throws"} :
       Polled(s, ImageFragment(builder["m_builder"], InHand(s), a), a)

onImageControlledFragment(s) ==
  /\ Is(TRUE, TRUE, FALSE)
  /\ \E a \in Answers \cup {"throws"} :
       Polled(s, ImageFragment(builder["m_builder"], InHand(s), a), a)

(* The wrappers: the C library assembles, and calls handlerCallback, which *)
(* calls the delegate; the answer is a number of the C library in between. *)
handlerCallback(a) ==
  CASE a = "ABORT" -> "AERON_ACTION_ABORT" [] a = "BREAK" -> "AERON_ACTION_BREAK"
    [] a = "COMMIT" -> "AERON_ACTION_COMMIT" [] a = "CONTINUE" -> "AERON_ACTION_CONTINUE"

fromC(c) ==
  CASE c = "AERON_ACTION_ABORT" -> "ABORT" [] c = "AERON_ACTION_BREAK" -> "BREAK"
    [] c = "AERON_ACTION_COMMIT" -> "COMMIT" [] c = "AERON_ACTION_CONTINUE" -> "CONTINUE"

cAssembler(b, f, a) == IF kind.image THEN ImageFragment(b, f, a) ELSE SessionFragment(b, f, a)

onWrappedFragment(s) ==
  /\ Is(FALSE, FALSE, TRUE)
  /\ Polled(s, cAssembler(builder[s], InHand(s), "CONTINUE"), "CONTINUE")

onWrappedImageFragment(s) ==
  /\ Is(TRUE, FALSE, TRUE)
  /\ Polled(s, cAssembler(builder["m_builder"], InHand(s), "CONTINUE"), "CONTINUE")

onWrappedControlledFragment(s) ==
  /\ Is(FALSE, TRUE, TRUE)
  /\ \E a \in Answers :
       Polled(s, cAssembler(builder[s], InHand(s), a), fromC(handlerCallback(a)))

onWrappedImageControlledFragment(s) ==
  /\ Is(TRUE, TRUE, TRUE)
  /\ \E a \in Answers :
       Polled(s, cAssembler(builder["m_builder"], InHand(s), a), fromC(handlerCallback(a)))

(* The delegate, or the handler of an unavailable image, frees a buffer.   *)
Freed(s, b) ==
  /\ builder' = [builder EXCEPT ![s] = b]
  /\ due' = [due EXCEPT ![s] = FALSE]
  /\ last' = [given |-> Nothing, freed |-> s]
  /\ UNCHANGED <<kind, next, lost, aborts, aborted>>

deleteSessionBuffer(s) ==
  /\ ~kind.image /\ ~kind.wrapper
  /\ Freed(s, NoBuilder)

deleteWrappedSessionBuffer(s) ==
  /\ ~kind.image /\ kind.wrapper
  /\ Freed(s, builder[s])

(* A frame of an unreliable stream is lost. *)
lose(s) ==
  /\ lost[s] < LongestGap
  /\ lost' = [lost EXCEPT ![s] = @ + 1]
  /\ next' = [next EXCEPT ![s] = @ + 1]
  /\ due' = [due EXCEPT ![s] = FALSE]
  /\ last' = [given |-> Nothing]
  /\ UNCHANGED <<kind, builder, aborts, aborted>>

Init ==
  /\ kind \in Kinds
  /\ next = [s \in Session |-> 1] /\ lost = [s \in Session |-> 0]
  /\ builder = [k \in Session \cup {"m_builder"} |->
                  IF k = "m_builder" THEN BufferBuilder ELSE NoBuilder]
  /\ due = [s \in Session |-> FALSE]
  /\ aborts = 0 /\ aborted = [s \in Session |-> 0]
  /\ last = [given |-> Nothing]

(* An image's assembler is for the fragments of one image. *)
Next ==
  \E s \in IF kind.image THEN {CHOOSE one \in Session : TRUE} ELSE Session :
    \/ /\ next[s] <= Len(Log[s])
       /\ \/ onFragment(s) \/ onControlledFragment(s)
          \/ onImageFragment(s) \/ onImageControlledFragment(s)
          \/ onWrappedFragment(s) \/ onWrappedControlledFragment(s)
          \/ onWrappedImageFragment(s) \/ onWrappedImageControlledFragment(s)
          \/ lose(s)
    \/ deleteSessionBuffer(s) \/ deleteWrappedSessionBuffer(s)

Spec == Init /\ [][Next]_vars

-----------------------------------------------------------------------------
(* The text of the message that the i-th frame of session s belongs to.    *)
MessageOf(s, f) ==
  LET i == CHOOSE j \in DOMAIN Log[s] : Log[s][j] = f
      first == CHOOSE j \in 1..i : Log[s][j].begin /\ \A k \in (j + 1)..i : ~Log[s][k].begin
      joined[k \in (first - 1)..i] == IF k < first THEN <<>> ELSE joined[k - 1] \o Log[s][k].text
  IN joined[i]

(* The delegate only sees whole messages, whatever fragments were lost,    *)
(* aborted or of other sessions in between ("the next handler in the chain *)
(* only sees whole messages", FragmentAssembler.h).                        *)
WholeMessages ==
  last.given.called => last.f.end /\ last.given.text = MessageOf(last.s, last.f)

(* A message of which every fragment was handed over is delivered, at its  *)
(* first time and after ABORT, unless no buffer can hold it.               *)
CompleteIsDelivered ==
  "f" \in DOMAIN last =>
    (last.f.end /\ last.due /\ Len(MessageOf(last.s, last.f)) <= MaxCapacity => last.given.called)

(* A fragment whose delegate answered ABORT is the next one again, in the  *)
(* wrappers too (ControlledPollAction::ABORT: "do not advance the position *)
(* for this fragment").                                                    *)
AbortHoldsPosition ==
  last.given.called /\ last.given.action = "ABORT" => InHand(last.s) = last.f

(* What is written into a buffer is inside its capacity, and the capacity  *)
(* is at most the largest.                                                 *)
WritesFit ==
  \A k \in DOMAIN builder :
    builder[k].exists =>
      /\ builder[k].limit <= builder[k].capacity /\ Len(builder[k].text) <= builder[k].capacity
      /\ builder[k].capacity <= MaxCapacity

EndPosition(f) == f.term * TermLength + Align(f.off + LENGTH + Len(f.text))

(* The header of a message that is delivered for the first time has the    *)
(* position after its last fragment.                                       *)
FirstPositionIsEnd ==
  last.given.called /\ ~last.again => last.given.position = EndPosition(last.f)

(* Header.h: position is "the current position to which the Image has      *)
(* advanced on reading this message".  Not so for a message that comes     *)
(* again after ABORT: completeHeader then takes the length of the whole    *)
(* message for the length of its first frame.                              *)
PositionIsEnd ==
  last.given.called => last.given.position = EndPosition(last.f)

(* FragmentAssembler.h: "The Header passed to the delegate on assembling a *)
(* message will be that of the last fragment".  It is that of the first.   *)
HeaderOfLast ==
  last.given.called => last.given.off = last.f.off

(* wrapper/FragmentAssembler.h: deleteSessionBuffer is to "Free an         *)
(* existing session buffer".  It does nothing.                             *)
BufferIsFreed ==
  "freed" \in DOMAIN last => ~builder[last.freed].exists
=============================================================================
