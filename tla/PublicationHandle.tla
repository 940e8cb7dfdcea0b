------------------------- MODULE PublicationHandle -------------------------
(***************************************************************************)
(* Publication and ExclusivePublication of the C++ client over the C       *)
(* library (aeron-lib/include/wrapper): a pointer to the library's         *)
(* publication that close() and revoke() clear, and calls of the library   *)
(* through it, by any threads that share the object.  Each reading of      *)
(* m_publication and each call of the library, which frees a closed        *)
(* publication on its conductor thread, is a step.                         *)
(***************************************************************************)
EXTENDS Integers

CONSTANTS
  Threads,
  Exclusive,    \* ExclusivePublication or Publication
  Limit, Position   \* what the library answers while the publication is open

HandleAssumption ==
  /\ Exclusive \in BOOLEAN
  /\ Position \in Nat /\ Limit \in Nat /\ Position < Limit

BACK_PRESSURED == -2
PUBLICATION_CLOSED == -4
AERON_PUBLICATION_ERROR == -6
THROWN == -100
Constant == -150
None == -200

VARIABLES
  m_publication,  \* "null" or "handle"
  library,        \* the library's publication: open, closing, freed
  closes,         \* how often the library took a request to close it
  call,           \* per thread: the call under way
  result,         \* per thread: what its last call gave, until the next one
  claim,          \* per thread: what its BufferClaim wraps
  destroyed,      \* "no", or what the library said to the destructor's request
  overlapped,     \* history: whether two calls of close were under way at once
  badUse          \* history: the calls that gave the library a freed publication:
                  \* some that a close overlapped, or some "alone"

vars == <<m_publication, library, closes, call, result, claim, destroyed, overlapped, badUse>>

(* The members by what they do with the pointer.  The constants of a       *)
(* publication are copied in its constructor and need no pointer.          *)
(* channelStatus of an ExclusivePublication has no definition, and one     *)
(* more of its offers calls the library by itself.                         *)
Windows == {"position", "publicationLimit", "availableWindow"}
Raw == {"isConnected", "isClosed", "channelStatus", "revokeOnClose"}
Queries == Windows \cup Raw \cup {"localSocketAddresses"}
Offers == {"offer", "offerv", "offerBytes"}
Claims == {"tryClaim"}
sharedQueries == Queries \ {"revokeOnClose"}
exclusiveQueries == Queries \ {"channelStatus"}
exclusiveOffers == Offers \cup {"offerWithoutSupplier"}

Members ==
  Claims \cup IF Exclusive THEN exclusiveQueries \cup exclusiveOffers ELSE sharedQueries \cup Offers

Idle == [pc |-> "idle"]

Init ==
  /\ m_publication = "handle" /\ library = "open" /\ closes = 0
  /\ call = [t \in Threads |-> Idle] /\ result = [t \in Threads |-> None]
  /\ claim = [t \in Threads |-> "nothing"]
  /\ destroyed = "no" /\ overlapped = FALSE /\ badUse = {}

Closing(t) == call[t].pc \in {"ask", "clear"}

(* The library is called with p; by whom, if p has been freed.             *)
Uses(t, p) ==
  badUse' = IF p = "handle" /\ library = "freed"
            THEN badUse \cup {IF call[t].overlap THEN "overlapping" ELSE "alone"} ELSE badUse

-----------------------------------------------------------------------------
(* A call begins: the pointer is read. *)
begin(t, op) ==
  /\ destroyed = "no" /\ call[t] = Idle
  /\ call' = [call EXCEPT ![t] = [pc |-> "library", op |-> op, p |-> m_publication,
                                  answer |-> None, limit |-> None, late |-> m_publication = "null",
                                  overlap |-> \E u \in Threads : Closing(u)]]
  /\ result' = [result EXCEPT ![t] = None]
  /\ UNCHANGED <<m_publication, library, closes, claim, destroyed, overlapped, badUse>>

(* channel, streamId, sessionId and the other constants are read from the  *)
(* copy that the constructor made, closed or not.                          *)
constants(t) ==
  /\ destroyed = "no" /\ call[t] = Idle
  /\ result' = [result EXCEPT ![t] = Constant]
  /\ UNCHANGED <<m_publication, library, closes, call, claim, destroyed, overlapped, badUse>>

(* What the library answers.  An open publication may also refuse a        *)
(* message: back pressure, or an error in the arguments.                   *)
Answers(t) ==
  IF call[t].op \in Raw THEN {0}
  ELSE IF call[t].p = "null" THEN {AERON_PUBLICATION_ERROR}
  ELSE CASE library = "open" ->
              CASE call[t].op = "position" -> {Position}
                [] call[t].op = "publicationLimit" -> {Limit}
                [] call[t].op = "availableWindow" ->
                     IF call[t].limit = None THEN {Limit} ELSE {Position}
                [] call[t].op = "localSocketAddresses" -> {0, AERON_PUBLICATION_ERROR}
                [] OTHER -> {Position, BACK_PRESSURED, AERON_PUBLICATION_ERROR}
         [] library = "closing" -> {PUBLICATION_CLOSED}
         [] OTHER -> {PUBLICATION_CLOSED, Position}

libraryAnswers(t) ==
  /\ call[t].pc = "library"
  /\ Uses(t, call[t].p)
  /\ \E r \in Answers(t) : call' = [call EXCEPT ![t].pc = "returned", ![t].answer = r]
  /\ UNCHANGED <<m_publication, library, closes, result, claim, destroyed, overlapped>>

(* An error of the library with a cleared pointer means closed;            *)
(* localSocketAddresses does not look at the pointer.                      *)
checked(t, r) ==
  IF r # AERON_PUBLICATION_ERROR THEN r
  ELSE IF m_publication = "null" /\ call[t].op # "localSocketAddresses" THEN PUBLICATION_CLOSED ELSE THROWN

(* availableWindow asks for the limit, then for the position. *)
availableWindow(t, r) ==
  IF call[t].limit = None
  THEN IF r \in {PUBLICATION_CLOSED, THROWN}
       THEN /\ result' = [result EXCEPT ![t] = r] /\ call' = [call EXCEPT ![t] = Idle]
       ELSE /\ call' = [call EXCEPT ![t] =
                 [@ EXCEPT !.pc = "library", !.p = m_publication, !.answer = None, !.limit = r]]
            /\ UNCHANGED result
  ELSE /\ result' = [result EXCEPT ![t] = IF r = THROWN THEN r ELSE call[t].limit - r]
       /\ call' = [call EXCEPT ![t] = Idle]

(* tryClaim wraps the claim of the library unless that reports an error;   *)
(* the library fills its claim in for a claimed range only.                *)
wrapClaim(t) ==
  CASE call[t].answer = AERON_PUBLICATION_ERROR -> claim[t]
    [] call[t].answer = Position -> "range"
    [] OTHER -> "uninitialised"

returns(t) ==
  /\ call[t].pc = "returned"
  /\ LET r == checked(t, call[t].answer)
     IN  /\ IF call[t].op = "availableWindow"
            THEN availableWindow(t, r)
            ELSE /\ result' = [result EXCEPT ![t] = r]
                 /\ call' = [call EXCEPT ![t] = Idle]
         /\ claim' = [claim EXCEPT ![t] = IF call[t].op = "tryClaim" THEN wrapClaim(t) ELSE @]
  /\ UNCHANGED <<m_publication, library, closes, destroyed, overlapped, badUse>>

-----------------------------------------------------------------------------
(* aeron_publication_close(p) and its like: nothing for a cleared pointer; *)
(* otherwise the request is taken, or refused with -1.                     *)
Taken(p) ==
  IF p = "handle"
  THEN closes' = closes + 1 /\ library' = (IF library = "open" THEN "closing" ELSE library)
  ELSE UNCHANGED <<closes, library>>

Refused(p) == p = "handle" /\ UNCHANGED <<closes, library>>

(* close, and revoke of an ExclusivePublication: the pointer is read, the  *)
(* library asked, and the pointer cleared; or it is kept, for another      *)
(* close or the destructor, and the call throws.                           *)
close(t) ==
  /\ destroyed = "no" /\ call[t] = Idle
  /\ call' = [u \in Threads |->
       IF u = t THEN [pc |-> "ask", op |-> "close", p |-> m_publication,
                      overlap |-> \E v \in Threads : Closing(v)]
       ELSE IF call[u] = Idle THEN Idle ELSE [call[u] EXCEPT !.overlap = TRUE]]
  /\ overlapped' = (overlapped \/ \E v \in Threads : Closing(v))
  /\ result' = [result EXCEPT ![t] = None]
  /\ UNCHANGED <<m_publication, library, closes, claim, destroyed, badUse>>

revoke(t) == Exclusive /\ close(t)

ask(t) ==
  /\ call[t].pc = "ask" /\ Uses(t, call[t].p)
  /\ \/ /\ Taken(call[t].p)
        /\ call' = [call EXCEPT ![t].pc = "clear"] /\ UNCHANGED result
     \/ /\ Refused(call[t].p)
        /\ call' = [call EXCEPT ![t] = Idle] /\ result' = [result EXCEPT ![t] = THROWN]
  /\ UNCHANGED <<m_publication, claim, destroyed, overlapped>>

clear_Kept(t) == \* Mutant: the pointer is kept
  /\ call[t].pc = "clear" /\ call' = [call EXCEPT ![t] = Idle]
  /\ UNCHANGED <<m_publication, result, library, closes, claim, destroyed, overlapped, badUse>>

clear(t) ==
  /\ call[t].pc = "clear" /\ m_publication' = "null" /\ call' = [call EXCEPT ![t] = Idle]
  /\ UNCHANGED <<result, library, closes, claim, destroyed, overlapped, badUse>>

(* The destructor, when no call is under way, closes what is not closed    *)
(* and does not look at the answer.                                        *)
destructor ==
  /\ destroyed = "no" /\ \A t \in Threads : call[t] = Idle
  /\ \/ destroyed' = "taken" /\ Taken(m_publication)
     \/ destroyed' = "refused" /\ Refused(m_publication)
  /\ badUse' = IF m_publication = "handle" /\ library = "freed" THEN badUse \cup {"alone"} ELSE badUse
  /\ UNCHANGED <<m_publication, call, result, claim, overlapped>>

(* The conductor thread frees the closed publication. *)
freed ==
  /\ library = "closing" /\ library' = "freed"
  /\ UNCHANGED <<m_publication, closes, call, result, claim, destroyed, overlapped, badUse>>

Next ==
  \/ \E t \in Threads :
       \/ \E op \in Members : begin(t, op)
       \/ constants(t) \/ libraryAnswers(t) \/ returns(t) \/ close(t) \/ revoke(t)
       \/ ask(t) \/ clear(t)
  \/ destructor \/ freed

Spec == Init /\ [][Next]_vars

-----------------------------------------------------------------------------
(* Only a call that a close overlaps may give the library a publication    *)
(* that it has freed: not one that ended before, one that began after, a   *)
(* close by itself, or the destructor, however often close was refused     *)
(* (close, m_publication).                                                 *)
NoUseAfterFree == "alone" \notin badUse

(* "Publication instances are threadsafe and can be shared between         *)
(* publisher threads": nor does one that a close overlaps.                 *)
SharedSafely == badUse = {}

(* The library takes one request to close a publication, by close, revoke  *)
(* or the destructor, unless two calls of close overlap; and an object     *)
(* that is gone has closed it, unless the library refused its destructor.  *)
ClosedOnce ==
  /\ closes <= 1 \/ overlapped
  /\ destroyed = "taken" => closes >= 1
  /\ destroyed = "refused" => closes = 0

(* A call that begins after close has returned says "closed": it neither   *)
(* throws nor gives a position or a window (checked).             *)
ClosedIsReported ==
  \A t \in Threads :
    call[t].pc = "returned" /\ call[t].late /\ call'[t] = Idle
      /\ call[t].op \notin Raw \cup {"localSocketAddresses"}
    => result'[t] = PUBLICATION_CLOSED

(* The comment on availableWindow: a window before the limit, or "If the   *)
(* publication is closed then {@link #CLOSED} will be returned."           *)
WindowOrClosed ==
  \A t \in Threads : result[t] \in {None, Constant, THROWN, PUBLICATION_CLOSED, BACK_PRESSURED} \cup 0 .. Limit

(* The comment on tryClaim: bufferClaim is "to be populate if the claim    *)
(* succeeds."                                                              *)
ClaimOnSuccess == \A t \in Threads : claim[t] \in {"nothing", "range"}
=============================================================================
