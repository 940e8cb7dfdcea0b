------------------------- MODULE SubscriptionImages -------------------------
(***************************************************************************)
(* The images of a Subscription (aeron-lib/include/Subscription.h): an     *)
(* array that the conductor thread replaces, under two change numbers      *)
(* (concurrent/AtomicArrayUpdater.h), while the application walks over the *)
(* array it loaded.  An array that was replaced is freed later.            *)
(***************************************************************************)
EXTENDS Integers, Sequences, SequencesExt, FiniteSets

CONSTANTS
  MaxImages,       \* bound: images that ever become available
  MaxChanges,      \* bound: changes of the array
  FragmentLimit,   \* fragmentLimit of a poll
  Ops              \* what the application calls

ImagesAssumption ==
  /\ MaxImages \in Nat /\ MaxChanges \in Nat /\ FragmentLimit \in Nat \ {0}
  /\ Ops \subseteq {"poll", "blockPoll", "isConnected", "imageCount", "imageByIndex",
                    "imageBySessionId", "forEachImage"}

VARIABLES
  arrays,        \* every array that was made; a pointer is an index of it
  m_array, m_length, m_beginChange, m_endChange,
  m_isClosed,    \* of the subscription
  closed,        \* the images that are closed
  added,         \* images so far
  conductor,     \* the update under way
  linger,        \* per array: not replaced, replaced in a call's time, replaced before it, freed
  reader,        \* the application's call
  m_roundRobinIndex,
  visited,       \* history: the image that was polled last
  counted,       \* what imageCount returned last
  result,        \* what the last call returned
  during,        \* history: the arrays that were in place since the call began
  openSince      \* history: an image was open at every moment since the call began

shared == <<arrays, m_array, m_length, m_beginChange, m_endChange, m_isClosed, closed, added, conductor>>
mine == <<m_roundRobinIndex, visited, counted, result>>
history == <<during, openSince>>
vars == <<shared, linger, reader, mine, history>>

Images == 1 .. MaxImages
None == 0
PastEnd == -1

Idle == [op |-> "none", pc |-> "idle", change |-> 0, a |-> 1, n |-> 0, left |-> {},
         start |-> 0, i |-> 0, limit |-> 0, last |-> None]
Resting == [pc |-> "idle", array |-> 1, old |-> 1, left |-> {}]

(* m_array = nullptr is an array of no images. *)
Init ==
  /\ arrays = <<<<>>>> /\ m_array = 1 /\ m_length = 0 /\ m_beginChange = 0 /\ m_endChange = 0
  /\ m_isClosed = FALSE /\ closed = {} /\ added = 0 /\ conductor = Resting
  /\ linger = <<"no">> /\ reader = Idle /\ m_roundRobinIndex = 0
  /\ visited = None /\ counted = 0 /\ result = "none" /\ during = {1} /\ openSince = FALSE

Current == arrays[m_array]
OpenImages == { m \in ToSet(Current) : m \notin closed }
StillOpen == openSince' = (openSince /\ OpenImages' # {})

-----------------------------------------------------------------------------
(***************************************************************************)
(* The conductor thread.  update stores m_beginChange, then the array and  *)
(* its length in either order, then m_endChange.                           *)
(***************************************************************************)
update(new) ==
  /\ m_beginChange < MaxChanges
  /\ arrays' = Append(arrays, new) /\ linger' = Append(linger, "no")
  /\ conductor' = [pc |-> "store", array |-> Len(arrays) + 1, old |-> m_array, left |-> {"array", "length"}]
  /\ m_beginChange' = m_beginChange + 1
  /\ UNCHANGED <<m_array, m_length, m_endChange, reader, mine, during>>

addToArray(array, m) == Append(array, m)
removeFromArray(array, m) == SelectSeq(array, LAMBDA x : x # m)

addImage ==
  /\ conductor = Resting /\ ~m_isClosed /\ added < MaxImages
  /\ added' = added + 1
  /\ update(addToArray(Current, added + 1))
  /\ UNCHANGED <<m_isClosed, closed>>
  /\ StillOpen

(* The image is closed first, then left out of the new array. *)
removeImage(m) ==
  /\ conductor = Resting /\ m \in ToSet(Current)
  /\ closed' = closed \cup {m}
  /\ update(removeFromArray(Current, m))
  /\ UNCHANGED <<m_isClosed, added>>
  /\ StillOpen

closeAndRemoveImages ==
  /\ conductor = Resting /\ ~m_isClosed
  /\ m_isClosed' = TRUE
  /\ update(<<>>)
  /\ UNCHANGED <<closed, added>>
  /\ StillOpen

store(field) ==
  /\ conductor.pc = "store" /\ field \in conductor.left
  /\ conductor' = [conductor EXCEPT !.left = @ \ {field}]
  /\ m_array' = IF field = "array" THEN conductor.array ELSE m_array
  /\ m_length' = IF field = "length" THEN Len(arrays[conductor.array]) ELSE m_length
  /\ UNCHANGED <<arrays, m_beginChange, m_endChange, m_isClosed, closed, added, linger, reader, mine, during>>
  /\ StillOpen

(* Mutant: the end of the change is stored before the array and its length. *)
endChange_Early ==
  /\ conductor.pc = "store" /\ m_endChange < m_beginChange
  /\ m_endChange' = m_beginChange
  /\ during' = during \cup {conductor.array}
  /\ conductor' = [conductor EXCEPT !.pc = IF conductor.left = {} THEN "linger" ELSE "store"]
  /\ UNCHANGED <<arrays, m_array, m_length, m_beginChange, m_isClosed, closed, added, linger, reader, mine, openSince>>

endChange ==
  /\ conductor.pc = "store" /\ conductor.left = {}
  /\ m_endChange' = m_beginChange
  /\ during' = during \cup {conductor.array}
  /\ conductor' = [conductor EXCEPT !.pc = "linger"]
  /\ UNCHANGED <<arrays, m_array, m_length, m_beginChange, m_isClosed, closed, added, linger, reader, mine, openSince>>

(* addElement, removeElement and store return the array that they replaced. *)
lingering == conductor.old

(* The conductor keeps the array; it closes the images of a closed         *)
(* subscription.                                                           *)
lingerResource ==
  /\ conductor.pc = "linger"
  /\ linger' = [linger EXCEPT ![lingering] = IF reader = Idle THEN "old" ELSE "young"]
  /\ closed' = closed \cup IF m_isClosed THEN ToSet(arrays[conductor.old]) ELSE {}
  /\ conductor' = Resting
  /\ UNCHANGED <<arrays, m_array, m_length, m_beginChange, m_endChange, m_isClosed, added, reader, mine, during>>
  /\ StillOpen

(* An array is freed m_resourceLingerTimeoutMs after it was replaced; no   *)
(* call of the application takes that long.                                *)
onCheckManagedResources(a) ==
  /\ conductor = Resting /\ linger[a] = "old"
  /\ linger' = [linger EXCEPT ![a] = "freed"]
  /\ UNCHANGED <<shared, reader, mine, history>>

-----------------------------------------------------------------------------
(***************************************************************************)
(* The application.  load reads m_endChange, the array and its length in   *)
(* either order, and m_beginChange, until both numbers are the same.       *)
(***************************************************************************)
begin(op) ==
  /\ reader = Idle
  /\ reader' = [Idle EXCEPT !.op = op, !.pc = "load"]
  /\ during' = {IF conductor.pc = "store" THEN conductor.old ELSE m_array}
  /\ openSince' = (OpenImages # {})
  /\ UNCHANGED <<shared, linger, mine>>

loadChange ==
  /\ reader.pc = "load"
  /\ reader' = [reader EXCEPT !.pc = "read", !.change = m_endChange, !.left = {"array", "length"}]
  /\ UNCHANGED <<shared, linger, mine, history>>

loadField(field) ==
  /\ reader.pc = "read" /\ field \in reader.left
  /\ reader' = [reader EXCEPT !.left = @ \ {field},
                              !.a = IF field = "array" THEN m_array ELSE @,
                              !.n = IF field = "length" THEN m_length ELSE @]
  /\ UNCHANGED <<shared, linger, mine, history>>

(* Mutant: the index is not moved on. *)
startingIndex_Kept(n) ==
  /\ reader' = [reader EXCEPT !.pc = "walk", !.limit = FragmentLimit,
                              !.start = IF m_roundRobinIndex >= n THEN 0 ELSE m_roundRobinIndex]
  /\ UNCHANGED m_roundRobinIndex

(* A poll begins one image further than the poll before it. *)
startingIndex(n) ==
  /\ reader' = [reader EXCEPT !.pc = "walk", !.limit = FragmentLimit,
                              !.start = IF m_roundRobinIndex >= n THEN 0 ELSE m_roundRobinIndex]
  /\ m_roundRobinIndex' = IF m_roundRobinIndex >= n THEN 0 ELSE m_roundRobinIndex + 1

checkChange ==
  /\ reader.pc = "read" /\ reader.left = {}
  /\ IF reader.change # m_beginChange
     THEN reader' = [reader EXCEPT !.pc = "load"] /\ UNCHANGED m_roundRobinIndex
     ELSE IF reader.op = "poll" THEN startingIndex(reader.n)
     ELSE reader' = [reader EXCEPT !.pc = "walk", !.limit = 1] /\ UNCHANGED m_roundRobinIndex
  /\ UNCHANGED <<shared, linger, visited, counted, result, history>>

Element(i) == IF i < Len(arrays[reader.a]) THEN arrays[reader.a][i + 1] ELSE PastEnd
Walking == reader.pc = "walk" /\ reader.i < reader.n /\ reader.limit > 0

(* An open image hands over as many fragments as it has, up to the limit. *)
poll ==
  /\ Walking /\ reader.op = "poll"
  /\ LET m == Element((reader.start + reader.i) % reader.n)
     IN  /\ visited' = m
         /\ \E fragments \in IF m \in closed THEN {0} ELSE 0 .. reader.limit :
              reader' = [reader EXCEPT !.i = @ + 1, !.limit = @ - fragments]
  /\ UNCHANGED <<shared, linger, m_roundRobinIndex, counted, result, history>>

VisitNext ==
  /\ reader' = [reader EXCEPT !.i = @ + 1]
  /\ UNCHANGED <<shared, linger, mine, history>>

(* No limit is shared by the images of a blockPoll. *)
blockPoll == Walking /\ reader.op = "blockPoll" /\ VisitNext

(* forEachImage, images and copyOfImageList. *)
forEachImage == Walking /\ reader.op = "forEachImage" /\ VisitNext

isConnected ==
  /\ Walking /\ reader.op = "isConnected"
  /\ reader' = [reader EXCEPT !.i = @ + 1, !.limit = IF Element(reader.i) \in closed THEN 1 ELSE 0]
  /\ UNCHANGED <<shared, linger, mine, history>>

(* The session of an image is its number, as is its correlation id. *)
imageBySessionId(session) ==
  /\ Walking /\ reader.op = "imageBySessionId"
  /\ reader' = [reader EXCEPT !.i = @ + 1, !.limit = IF Element(reader.i) = session THEN 0 ELSE 1]
  /\ UNCHANGED <<shared, linger, mine, history>>

(* No index is compared with the length. *)
imageByIndex ==
  /\ reader.pc = "walk" /\ reader.op = "imageByIndex" /\ reader.last = None
  /\ reader' = [reader EXCEPT !.last = Element(counted - 1), !.limit = 0]
  /\ UNCHANGED <<shared, linger, mine, history>>

returns ==
  /\ reader.pc = "walk" /\ (~Walking \/ reader.op = "imageCount")
  /\ reader.op = "imageByIndex" => reader.last # None
  /\ counted' = CASE reader.op = "imageCount" -> reader.n [] reader.op = "imageByIndex" -> 0 [] OTHER -> counted
  /\ result' = CASE reader.op = "isConnected" -> IF reader.limit = 0 THEN "connected" ELSE "not connected"
                 [] reader.op = "imageByIndex" -> IF reader.last = PastEnd THEN "past the end" ELSE "image"
                 [] OTHER -> "none"
  /\ reader' = Idle
  /\ linger' = [a \in DOMAIN linger |-> IF linger[a] = "young" THEN "old" ELSE linger[a]]
  /\ UNCHANGED <<shared, m_roundRobinIndex, visited, history>>

Conductor ==
  \/ addImage \/ closeAndRemoveImages \/ endChange \/ lingerResource
  \/ \E m \in Images : removeImage(m)
  \/ \E f \in {"array", "length"} : store(f)

Application ==
  \/ \E op \in Ops : (op = "imageByIndex" => counted > 0) /\ begin(op)
  \/ loadChange \/ checkChange \/ poll \/ blockPoll \/ forEachImage \/ isConnected \/ imageByIndex \/ returns
  \/ \E f \in {"array", "length"} : loadField(f)
  \/ \E m \in Images : imageBySessionId(m)

Next ==
  \/ Conductor \/ Application
  \/ \E a \in DOMAIN linger : onCheckManagedResources(a)

Spec == Init /\ [][Next]_vars

(* The conductor ends an update that it began; the application goes on     *)
(* with its calls, and polls.                                              *)
Updates == endChange \/ lingerResource \/ \E f \in {"array", "length"} : store(f)
-----------------------------------------------------------------------------
(* What load returns is one array with its own length, in place at some    *)
(* moment of the call (AtomicArrayUpdater::load, update).                  *)
SnapshotOfOneMoment ==
  reader.pc = "walk" => reader.n = Len(arrays[reader.a]) /\ reader.a \in during

(* Neither the array in place nor one that a call walks over is freed      *)
(* (Subscription::addImage, removeImage, closeAndRemoveImages).            *)
ArraysLive ==
  /\ conductor = Resting => linger[m_array] = "no"
  /\ reader.pc = "walk" => linger[reader.a] # "freed"

(* The comment on imageByIndex: "image at given index or exception if out  *)
(* of range."                                                              *)
ImageOrException == result # "past the end"

(* The comment on isConnected: "having at least one open image available". *)
(* The answer "not connected" was true at some moment of the call.         *)
NotConnectedWasTrue ==
  [][reader.op = "isConnected" /\ reader' = Idle /\ result' = "not connected" => ~openSince]_vars
=============================================================================
