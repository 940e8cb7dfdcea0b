---------------------------- MODULE StreamsProofs ----------------------------
(***************************************************************************)
(* Proofs about the parts of MCStreams.  The list of images: the change    *)
(* numbers of AtomicArrayUpdater make what load returns one array with its *)
(* own length, and the conductor frees no array under a reader, for every  *)
(* number of images and changes.  The queues: the suite has what           *)
(* RingBufferProofs and ArrayQueueProofs prove of its parts.               *)
(***************************************************************************)
EXTENDS MCStreams, TLAPS

Fields == {"array", "length"}

ConductorRecord ==
  [pc : {"idle", "store", "linger"}, array : Nat, old : Nat, left : SUBSET Fields]

(* The call of the application is a record of these fields. *)
ReaderShape ==
  reader = [op |-> reader.op, pc |-> reader.pc, change |-> reader.change, a |-> reader.a,
            n |-> reader.n, left |-> reader.left, start |-> reader.start, i |-> reader.i,
            limit |-> reader.limit, last |-> reader.last]

Made == 1 .. Len(arrays)
Ages == {"no", "young", "old", "freed"}

ImagesType ==
  /\ \E Kind : arrays \in Seq(Kind)
  /\ linger \in Seq(Ages) /\ Len(linger) = Len(arrays)
  /\ m_array \in Made /\ m_beginChange \in Nat /\ m_endChange \in Nat
  /\ conductor \in ConductorRecord
  /\ ReaderShape /\ reader.pc \in {"idle", "load", "read", "walk"}

(* The change numbers differ exactly while the array and its length are    *)
(* stored; neither the array in place nor one that is being replaced is    *)
(* freed.                                                                  *)
OneChange ==
  /\ conductor.pc = "idle" => conductor = I!Resting
  /\ conductor.pc # "store" =>
       /\ m_endChange = m_beginChange /\ m_length = Len(arrays[m_array])
       /\ m_array \in during
  /\ conductor.pc = "store" =>
       /\ m_beginChange = m_endChange + 1
       /\ m_array = IF "array" \in conductor.left THEN conductor.old ELSE conductor.array
       /\ m_length = IF "length" \in conductor.left THEN Len(arrays[conductor.old])
                     ELSE Len(arrays[conductor.array])
  /\ conductor.pc = "linger" => m_array = conductor.array
  /\ conductor.pc # "idle" =>
       /\ conductor.old \in Made /\ conductor.array \in Made /\ conductor.old # conductor.array
       /\ linger[conductor.old] = "no" /\ linger[conductor.array] = "no"
  /\ linger[m_array] = "no"

(* What the reader has loaded under one change number belongs together,    *)
(* and the array it has loaded is not freed during its call.               *)
LoadedTogether ==
  /\ reader.pc = "read" =>
       /\ reader.change \in Nat /\ reader.change <= m_endChange
       /\ reader.change = m_beginChange =>
            /\ "array" \notin reader.left => reader.a = m_array
            /\ "length" \notin reader.left => reader.n = m_length
  /\ reader.pc \in {"read", "walk"} /\ "array" \notin reader.left =>
       reader.a \in Made /\ linger[reader.a] \in {"no", "young"}
  /\ reader.pc = "read" => reader.left \subseteq Fields
  /\ reader.pc = "walk" =>
       reader.left = {} /\ reader.n = Len(arrays[reader.a]) /\ reader.a \in during

ImagesInv == ImagesType /\ OneChange /\ LoadedTogether

(* The part never changes, and every step of the images is one of theirs. *)
LEMMA ImagesStep ==
  ASSUME [Next]_vars, part' = "images"
  PROVE  part = "images" /\ [I!Next]_(I!vars)
<1>1. CASE UNCHANGED vars
  BY <1>1 DEF vars, I!vars, I!shared, I!mine, I!history
<1>2. CASE Next
  BY <1>2 DEF Next, ManyToOne, OneToOne, ManyProducers, OneProducer, Polls, Peek, Assemble,
              ImageList, StayAbsent
<1>3. QED
  BY <1>1, <1>2

LEMMA ImagesInvInit ==
  ASSUME I!Init
  PROVE  ImagesInv
<1>1. arrays = <<<<>>>> /\ Len(arrays) = 1 /\ arrays[1] = <<>> /\ arrays \in Seq({<<>>}) /\ Made = {1}
  BY DEF I!Init, Made
<1>2. linger = <<"no">> /\ linger[1] = "no" /\ Len(linger) = 1 /\ linger \in Seq(Ages)
  <2>1. "no" \in Ages
    BY DEF Ages
  <2> HIDE DEF Ages
  <2>2. linger = <<"no">>
    BY DEF I!Init
  <2>3. QED
    BY <2>1, <2>2
<1>3. conductor \in ConductorRecord /\ conductor.pc = "idle" /\ conductor = I!Resting
  BY DEF I!Init, I!Resting, ConductorRecord, Fields
<1>4. ReaderShape /\ reader.pc = "idle"
  BY DEF I!Init, I!Idle, ReaderShape
<1>5. QED
  BY <1>1, <1>2, <1>3, <1>4 DEF ImagesInv, ImagesType, OneChange, LoadedTogether, I!Init

(* A new array is made and the change begins. *)
LEMMA ImagesUpdate ==
  ASSUME ImagesInv, NEW new, conductor = I!Resting, I!update(new)
  PROVE  ImagesInv'
<1>1. PICK Kind : arrays \in Seq(Kind)
  BY DEF ImagesInv, ImagesType
<1>2. /\ arrays' \in Seq(Kind \cup {new}) /\ Len(arrays') = Len(arrays) + 1 /\ Len(arrays) \in Nat
      /\ \A a \in Made : arrays'[a] = arrays[a]
  BY <1>1 DEF I!update, Made
<1>3. Made' = Made \cup {Len(arrays) + 1} /\ Len(arrays) + 1 \notin Made
  BY <1>2 DEF Made
<1>4. /\ linger' \in Seq(Ages) /\ Len(linger') = Len(arrays') /\ linger'[Len(arrays) + 1] = "no"
      /\ \A a \in Made : linger'[a] = linger[a]
  <2>1. linger \in Seq(Ages) /\ Len(linger) = Len(arrays) /\ "no" \in Ages
    BY DEF ImagesInv, ImagesType, Ages
  <2>2. linger' = Append(linger, "no")
    BY DEF I!update
  <2>3. QED
    BY <1>2, <2>1, <2>2 DEF Made
<1>5. /\ conductor' \in ConductorRecord /\ conductor'.pc = "store"
      /\ conductor'.array = Len(arrays) + 1 /\ conductor'.old = m_array /\ conductor'.left = Fields
  BY <1>2 DEF I!update, ConductorRecord, Fields, ImagesInv, ImagesType, Made
<1>6. /\ m_array' = m_array /\ m_length' = m_length /\ m_endChange' = m_endChange
      /\ m_beginChange' = m_beginChange + 1 /\ reader' = reader /\ during' = during
  BY DEF I!update
<1>7. conductor.pc = "idle"
  BY DEF I!Resting
<1>8. ImagesType'
  BY <1>2, <1>3, <1>4, <1>5, <1>6 DEF ImagesInv, ImagesType, ReaderShape
<1>9. OneChange'
  BY <1>2, <1>3, <1>4, <1>5, <1>6, <1>7 DEF ImagesInv, ImagesType, OneChange, Fields
<1>10. LoadedTogether'
  BY <1>2, <1>3, <1>4, <1>6, <1>7 DEF ImagesInv, ImagesType, OneChange, LoadedTogether
<1>11. QED
  BY <1>8, <1>9, <1>10 DEF ImagesInv

LEMMA ImagesStore ==
  ASSUME ImagesInv, NEW field \in Fields, I!store(field)
  PROVE  ImagesInv'
<1>1. /\ arrays' = arrays /\ m_beginChange' = m_beginChange /\ m_endChange' = m_endChange
      /\ linger' = linger /\ reader' = reader /\ during' = during
  BY DEF I!store
<1>2. /\ conductor.pc = "store" /\ field \in conductor.left
      /\ conductor' = [conductor EXCEPT !.left = @ \ {field}]
  BY DEF I!store
<1>3. /\ conductor' \in ConductorRecord /\ conductor'.pc = "store"
      /\ conductor'.array = conductor.array /\ conductor'.old = conductor.old
      /\ conductor'.left = conductor.left \ {field}
  BY <1>2 DEF ImagesInv, ImagesType, ConductorRecord
<1>4. CASE field = "array"
  <2>1. m_array' = conductor.array /\ m_length' = m_length
    BY <1>4 DEF I!store
  <2>2. ImagesType' /\ OneChange'
    BY <1>1, <1>2, <1>3, <1>4, <2>1 DEF ImagesInv, ImagesType, OneChange, Made, ReaderShape
  <2>3. LoadedTogether'
    BY <1>1, <1>2, <2>1 DEF ImagesInv, ImagesType, OneChange, LoadedTogether, Made
  <2>4. QED
    BY <2>2, <2>3 DEF ImagesInv
<1>5. CASE field = "length"
  <2>1. m_array' = m_array /\ m_length' = Len(arrays[conductor.array])
    BY <1>5 DEF I!store
  <2>2. ImagesType' /\ OneChange'
    BY <1>1, <1>2, <1>3, <1>5, <2>1 DEF ImagesInv, ImagesType, OneChange, Made, ReaderShape
  <2>3. LoadedTogether'
    BY <1>1, <1>2, <2>1 DEF ImagesInv, ImagesType, OneChange, LoadedTogether, Made
  <2>4. QED
    BY <2>2, <2>3 DEF ImagesInv
<1>6. QED
  BY <1>4, <1>5 DEF Fields

LEMMA ImagesEndChange ==
  ASSUME ImagesInv, I!endChange
  PROVE  ImagesInv'
<1>1. /\ arrays' = arrays /\ m_beginChange' = m_beginChange /\ m_endChange' = m_beginChange
      /\ m_array' = m_array /\ m_length' = m_length /\ linger' = linger /\ reader' = reader
      /\ during' = during \cup {conductor.array} /\ conductor.pc = "store" /\ conductor.left = {}
  BY DEF I!endChange
<1>2. /\ conductor' \in ConductorRecord /\ conductor'.pc = "linger"
      /\ conductor'.array = conductor.array /\ conductor'.old = conductor.old
  BY DEF I!endChange, ImagesInv, ImagesType, ConductorRecord
<1>3. ImagesType' /\ OneChange'
  BY <1>1, <1>2 DEF ImagesInv, ImagesType, OneChange, Made, ReaderShape
<1>4. LoadedTogether'
  BY <1>1 DEF ImagesInv, ImagesType, OneChange, LoadedTogether, Made
<1>5. QED
  BY <1>3, <1>4 DEF ImagesInv

LEMMA ImagesLinger ==
  ASSUME ImagesInv, I!lingerResource
  PROVE  ImagesInv'
<1> DEFINE age == IF reader = I!Idle THEN "old" ELSE "young"
<1>1. /\ arrays' = arrays /\ m_beginChange' = m_beginChange /\ m_endChange' = m_endChange
      /\ m_array' = m_array /\ m_length' = m_length /\ reader' = reader
      /\ during' = during /\ conductor.pc = "linger" /\ conductor' = I!Resting
  BY DEF I!lingerResource
<1>2. linger' = [linger EXCEPT ![conductor.old] = age] /\ age \in {"old", "young"}
  BY DEF I!lingerResource, I!lingering
<1>3. reader.pc \in {"read", "walk"} => age = "young"
  BY DEF I!Idle
<1> HIDE DEF age
<1>4. I!Resting \in ConductorRecord /\ I!Resting.pc = "idle"
  BY DEF I!Resting, ConductorRecord, Fields
<1>5. /\ linger' \in Seq(Ages) /\ Len(linger') = Len(arrays)
      /\ linger'[conductor.old] = age /\ \A a \in Made : a # conductor.old => linger'[a] = linger[a]
  <2>1. linger \in Seq(Ages) /\ Len(linger) = Len(arrays) /\ age \in Ages /\ conductor.old \in 1 .. Len(linger)
    BY <1>1, <1>2 DEF ImagesInv, ImagesType, OneChange, Made, Ages
  <2>2. QED
    BY <1>2, <2>1 DEF Made
<1>7. ImagesType'
  BY <1>1, <1>4, <1>5 DEF ImagesInv, ImagesType, Made, ReaderShape
<1>8. OneChange'
  BY <1>1, <1>4, <1>5 DEF ImagesInv, ImagesType, OneChange, Made
<1>9. LoadedTogether'
  BY <1>1, <1>3, <1>5 DEF ImagesInv, ImagesType, OneChange, LoadedTogether, Made
<1>10. QED
  BY <1>7, <1>8, <1>9 DEF ImagesInv

(* Only an array that was replaced before the call is freed. *)
LEMMA ImagesFree ==
  ASSUME ImagesInv, NEW a \in DOMAIN linger, I!onCheckManagedResources(a)
  PROVE  ImagesInv'
<1>1. /\ UNCHANGED <<arrays, m_beginChange, m_endChange, m_array, m_length, reader, during, conductor>>
      /\ conductor.pc = "idle" /\ linger[a] = "old" /\ linger' = [linger EXCEPT ![a] = "freed"]
  BY DEF I!onCheckManagedResources, I!shared, I!history, I!Resting
<1>2. /\ linger' \in Seq(Ages) /\ Len(linger') = Len(arrays)
      /\ \A b \in Made : b # a => linger'[b] = linger[b]
  <2>1. linger \in Seq(Ages) /\ Len(linger) = Len(arrays) /\ "freed" \in Ages
    BY DEF ImagesInv, ImagesType, Ages
  <2>2. QED
    BY <1>1, <2>1 DEF Made
<1>3. ImagesType'
  BY <1>1, <1>2 DEF ImagesInv, ImagesType, Made, ReaderShape
<1>4. OneChange' /\ LoadedTogether'
  BY <1>1, <1>2 DEF ImagesInv, ImagesType, OneChange, LoadedTogether, Made
<1>5. QED
  BY <1>3, <1>4 DEF ImagesInv

(* A step of the application that loads nothing. *)
LEMMA ImagesWalk ==
  ASSUME ImagesInv, I!shared' = I!shared, linger' = linger, I!history' = I!history, ReaderShape',
         reader'.pc = reader.pc, reader'.a = reader.a, reader'.n = reader.n,
         reader'.left = reader.left, reader'.change = reader.change
  PROVE  ImagesInv'
<1>1. UNCHANGED <<arrays, m_array, m_length, m_beginChange, m_endChange, conductor, linger, during>>
  BY DEF I!shared, I!history
<1>2. ImagesType' /\ OneChange'
  BY <1>1 DEF ImagesInv, ImagesType, OneChange, Made
<1>3. LoadedTogether'
  BY <1>1 DEF ImagesInv, LoadedTogether, Made
<1>4. QED
  BY <1>2, <1>3 DEF ImagesInv

(* The steps of a walk over the array. *)
LEMMA ImagesVisit ==
  ASSUME ImagesInv,
         \/ I!poll \/ I!blockPoll \/ I!forEachImage \/ I!isConnected \/ I!imageByIndex
         \/ \E m \in I!Images : I!imageBySessionId(m)
  PROVE  ImagesInv'
<1>1. I!shared' = I!shared /\ linger' = linger /\ I!history' = I!history
  BY DEF I!poll, I!blockPoll, I!forEachImage, I!isConnected, I!imageByIndex, I!imageBySessionId,
         I!VisitNext
<1>2. \E i, limit, final : reader' = [reader EXCEPT !.i = i, !.limit = limit, !.last = final]
  <2>0. ReaderShape
    BY DEF ImagesInv, ImagesType
  <2>1. CASE I!poll
    <3>1. PICK f : reader' = [reader EXCEPT !.i = @ + 1, !.limit = @ - f]
      BY <2>1 DEF I!poll
    <3>2. reader' = [reader EXCEPT !.i = reader.i + 1, !.limit = reader.limit - f, !.last = reader.last]
      BY <2>0, <3>1 DEF ReaderShape
    <3>3. QED
      BY <3>2
  <2>2. CASE I!blockPoll \/ I!forEachImage
    <3>1. reader' = [reader EXCEPT !.i = reader.i + 1, !.limit = reader.limit, !.last = reader.last]
      BY <2>0, <2>2 DEF ReaderShape, I!blockPoll, I!forEachImage, I!VisitNext
    <3>2. QED
      BY <3>1
  <2>3. CASE I!isConnected \/ \E m \in I!Images : I!imageBySessionId(m)
    <3>1. PICK limit : reader' = [reader EXCEPT !.i = @ + 1, !.limit = limit]
      BY <2>3 DEF I!isConnected, I!imageBySessionId
    <3>2. reader' = [reader EXCEPT !.i = reader.i + 1, !.limit = limit, !.last = reader.last]
      BY <2>0, <3>1 DEF ReaderShape
    <3>3. QED
      BY <3>2
  <2>4. CASE I!imageByIndex
    <3>1. PICK final : reader' = [reader EXCEPT !.last = final, !.limit = 0]
      BY <2>4 DEF I!imageByIndex
    <3>2. reader' = [reader EXCEPT !.i = reader.i, !.limit = 0, !.last = final]
      BY <2>0, <3>1 DEF ReaderShape
    <3>3. QED
      BY <3>2
  <2>5. QED
    BY <2>1, <2>2, <2>3, <2>4
<1>3. /\ ReaderShape' /\ reader'.pc = reader.pc /\ reader'.a = reader.a /\ reader'.n = reader.n
      /\ reader'.left = reader.left /\ reader'.change = reader.change
  BY <1>2 DEF ImagesInv, ImagesType, ReaderShape
<1>4. QED
  BY <1>1, <1>3, ImagesWalk

LEMMA ImagesBegin ==
  ASSUME ImagesInv, NEW op, I!begin(op)
  PROVE  ImagesInv'
<1>1. /\ UNCHANGED <<arrays, m_array, m_length, m_beginChange, m_endChange, conductor, linger>>
      /\ during' = {IF conductor.pc = "store" THEN conductor.old ELSE m_array}
  BY DEF I!begin, I!shared
<1>2. ReaderShape' /\ reader'.pc = "load"
  BY DEF I!begin, I!Idle, ReaderShape
<1>3. QED
  BY <1>1, <1>2 DEF ImagesInv, ImagesType, OneChange, LoadedTogether, Made

(* The end of the last change is read first. *)
LEMMA ImagesLoadChange ==
  ASSUME ImagesInv, I!loadChange
  PROVE  ImagesInv'
<1>1. UNCHANGED <<arrays, m_array, m_length, m_beginChange, m_endChange, conductor, linger, during>>
  BY DEF I!loadChange, I!shared, I!history
<1>2. ReaderShape' /\ reader'.pc = "read" /\ reader'.change = m_endChange /\ reader'.left = Fields
  BY DEF I!loadChange, ImagesInv, ImagesType, ReaderShape, Fields
<1>3. ImagesType' /\ OneChange'
  BY <1>1, <1>2 DEF ImagesInv, ImagesType, OneChange, Made
<1>4. LoadedTogether'
  BY <1>1, <1>2 DEF ImagesInv, ImagesType, LoadedTogether, Made, Fields
<1>5. QED
  BY <1>3, <1>4 DEF ImagesInv

LEMMA ImagesLoadField ==
  ASSUME ImagesInv, NEW field \in Fields, I!loadField(field)
  PROVE  ImagesInv'
<1>1. UNCHANGED <<arrays, m_array, m_length, m_beginChange, m_endChange, conductor, linger, during>>
  BY DEF I!loadField, I!shared, I!history
<1>2. /\ ReaderShape' /\ reader'.pc = "read" /\ reader.pc = "read" /\ reader'.change = reader.change
      /\ reader'.left = reader.left \ {field}
      /\ reader'.a = IF field = "array" THEN m_array ELSE reader.a
      /\ reader'.n = IF field = "length" THEN m_length ELSE reader.n
  BY DEF I!loadField, ImagesInv, ImagesType, ReaderShape
<1>3. ImagesType' /\ OneChange'
  BY <1>1, <1>2 DEF ImagesInv, ImagesType, OneChange, Made
<1>4. LoadedTogether'
  BY <1>1, <1>2 DEF ImagesInv, ImagesType, OneChange, LoadedTogether, Made, Fields
<1>5. QED
  BY <1>3, <1>4 DEF ImagesInv

(* Equal change numbers: no change was under way since the first load. *)
LEMMA ImagesCheckChange ==
  ASSUME ImagesInv, I!checkChange
  PROVE  ImagesInv'
<1>1. UNCHANGED <<arrays, m_array, m_length, m_beginChange, m_endChange, conductor, linger, during>>
  BY DEF I!checkChange, I!shared, I!history
<1>2. reader.pc = "read" /\ reader.left = {} /\ ReaderShape
  BY DEF I!checkChange, ImagesInv, ImagesType
<1>3. CASE reader.change # m_beginChange
  <2>1. reader' = [reader EXCEPT !.pc = "load"]
    BY <1>3 DEF I!checkChange
  <2>2. ReaderShape' /\ reader'.pc = "load"
    BY <1>2, <2>1 DEF ReaderShape
  <2>3. QED
    BY <1>1, <2>2 DEF ImagesInv, ImagesType, OneChange, LoadedTogether, Made
<1>4. CASE reader.change = m_beginChange
  <2>1. \E limit, start : reader' = [reader EXCEPT !.pc = "walk", !.limit = limit, !.start = start]
    <3>1. CASE reader.op = "poll"
      BY <1>4, <3>1 DEF I!checkChange, I!startingIndex
    <3>2. CASE reader.op # "poll"
      <4>1. reader' = [reader EXCEPT !.pc = "walk", !.limit = 1]
        BY <1>4, <3>2 DEF I!checkChange
      <4>2. reader' = [reader EXCEPT !.pc = "walk", !.limit = 1, !.start = reader.start]
        BY <1>2, <4>1 DEF ReaderShape
      <4>3. QED
        BY <4>2
    <3>3. QED
      BY <3>1, <3>2
  <2>2. /\ ReaderShape' /\ reader'.pc = "walk" /\ reader'.left = {}
        /\ reader'.a = reader.a /\ reader'.n = reader.n
    BY <1>2, <2>1 DEF ReaderShape
  <2>3. conductor.pc # "store"
    BY <1>2, <1>4 DEF ImagesInv, ImagesType, OneChange, LoadedTogether
  <2>4. reader.a = m_array /\ reader.n = Len(arrays[m_array]) /\ m_array \in during
    BY <1>2, <1>4, <2>3 DEF ImagesInv, OneChange, LoadedTogether
  <2>5. ImagesType' /\ OneChange'
    BY <1>1, <2>2 DEF ImagesInv, ImagesType, OneChange, Made
  <2>6. LoadedTogether'
    BY <1>1, <2>2, <2>4 DEF ImagesInv, ImagesType, OneChange, LoadedTogether, Made
  <2>7. QED
    BY <2>5, <2>6 DEF ImagesInv
<1>5. QED
  BY <1>3, <1>4

LEMMA ImagesReturns ==
  ASSUME ImagesInv, I!returns
  PROVE  ImagesInv'
<1>1. /\ UNCHANGED <<arrays, m_array, m_length, m_beginChange, m_endChange, conductor, during>>
      /\ linger' = [a \in DOMAIN linger |-> IF linger[a] = "young" THEN "old" ELSE linger[a]]
      /\ reader' = I!Idle
  BY DEF I!returns, I!shared, I!history
<1>2. ReaderShape' /\ reader'.pc = "idle"
  BY <1>1 DEF I!Idle, ReaderShape
<1>3. /\ linger' \in Seq(Ages) /\ Len(linger') = Len(arrays)
      /\ \A a \in Made : linger[a] = "no" => linger'[a] = "no"
  <2>1. linger \in Seq(Ages) /\ Len(linger) = Len(arrays)
    BY DEF ImagesInv, ImagesType
  <2>2. \A a \in 1 .. Len(linger) : (IF linger[a] = "young" THEN "old" ELSE linger[a]) \in Ages
    BY <2>1 DEF Ages
  <2>3. QED
    BY <1>1, <2>1, <2>2 DEF Made
<1>4. ImagesType' /\ OneChange' /\ LoadedTogether'
  BY <1>1, <1>2, <1>3 DEF ImagesInv, ImagesType, OneChange, LoadedTogether, Made
<1>5. QED
  BY <1>4 DEF ImagesInv

LEMMA ImagesInvStep ==
  ASSUME ImagesInv, [I!Next]_(I!vars)
  PROVE  ImagesInv'
<1>1. CASE UNCHANGED I!vars
  BY <1>1, ImagesWalk DEF I!vars, ImagesInv, ImagesType, ReaderShape
<1>2. CASE I!Conductor
  <2>1. CASE I!addImage \/ I!closeAndRemoveImages \/ \E m \in I!Images : I!removeImage(m)
    <3>1. conductor = I!Resting /\ \E new : I!update(new)
      BY <2>1 DEF I!addImage, I!closeAndRemoveImages, I!removeImage
    <3>2. QED
      BY <3>1, ImagesUpdate
  <2>2. CASE \E f \in {"array", "length"} : I!store(f)
    BY <2>2, ImagesStore DEF Fields
  <2>3. QED
    BY <1>2, <2>1, <2>2, ImagesEndChange, ImagesLinger DEF I!Conductor
<1>3. CASE I!Application
  <2>1. CASE \E f \in {"array", "length"} : I!loadField(f)
    BY <2>1, ImagesLoadField DEF Fields
  <2>2. CASE \E op \in ImageOps : (op = "imageByIndex" => counted > 0) /\ I!begin(op)
    BY <2>2, ImagesBegin
  <2>3. QED
    BY <1>3, <2>1, <2>2, ImagesLoadChange, ImagesCheckChange, ImagesVisit, ImagesReturns
       DEF I!Application
<1>4. CASE \E a \in DOMAIN linger : I!onCheckManagedResources(a)
  BY <1>4, ImagesFree
<1>5. QED
  BY <1>1, <1>2, <1>3, <1>4 DEF I!Next

(***************************************************************************)
(* A walk over the images uses an array and a length that belonged         *)
(* together at a moment of its call, and no array is freed while it is in  *)
(* place or walked over (AtomicArrayUpdater::load and update,              *)
(* Subscription::addImage, removeImage, closeAndRemoveImages).             *)
(***************************************************************************)
THEOREM SnapshotOfOneMomentHolds == Spec => []SnapshotOfOneMoment
<1> DEFINE Inv == part = "images" => ImagesInv
<1>1. Init => Inv
  BY ImagesInvInit DEF Init
<1>2. Inv /\ [Next]_vars => Inv'
  BY ImagesStep, ImagesInvStep
<1>3. Inv => SnapshotOfOneMoment
  BY DEF ImagesInv, OneChange, LoadedTogether, SnapshotOfOneMoment, I!SnapshotOfOneMoment,
         I!ArraysLive, I!Resting
<1>4. QED
  BY <1>1, <1>2, <1>3, PTL DEF Spec

-----------------------------------------------------------------------------
(* The queues.  What their own modules prove of them is taken from there:  *)
(* these are the modules with the parameters of MCStreams.                 *)
OP == INSTANCE RingBufferProofs WITH MsgLengths <- MsgLengths \cup {0}
MP == INSTANCE RingBufferProofs
QP == INSTANCE ArrayQueueProofs WITH
  Single <- FALSE, Producers <- {"p", "q"}, Elements <- [p |-> 3, q |-> 1],
  Capacity <- QueueCapacity
SP == INSTANCE ArrayQueueProofs WITH
  Single <- TRUE, Producers <- {"p"}, Elements <- [p |-> 5], Capacity <- QueueCapacity

(* The operators of an instance of MCStreams are those of the instance of  *)
(* the proofs.                                                             *)
LEMMA OneToOneSame ==
  /\ O!RingBufferAssumption <=> OP!RingBufferAssumption
  /\ O!Init <=> OP!Init
  /\ O!Next <=> OP!Next
  /\ UNCHANGED O!vars <=> UNCHANGED OP!vars
  /\ O!Queue!Init <=> OP!Queue!Init
  /\ O!Queue!Next <=> OP!Queue!Next
  /\ UNCHANGED O!Queue!vars <=> UNCHANGED OP!Queue!vars
  /\ O!TypeOK <=> OP!TypeOK
  /\ O!NeverOverrun <=> OP!NeverOverrun
  /\ O!NoTornMessage <=> OP!NoTornMessage
  /\ O!SizeWasTrue <=> OP!SizeWasTrue
BY DEF O!RingBufferAssumption, O!Init, O!Next, O!vars, O!TypeOK, O!NeverOverrun,
       O!NoTornMessage, O!SizeWasTrue, O!RingInit, O!Producer, O!Consumer, O!size, O!Quiet,
       O!memory, O!readerVars, O!producerVars, O!sizeVars, O!Cells, O!Padding, O!MsgUnit,
       O!Clamp, O!Zero, O!write, O!CheckCapacity, O!CheckWrap, O!WritePadding, O!WriteBytes,
       O!WriteHeader, O!StoreTail, O!read, O!SizeBegin, O!SizeTail, O!SizeAfter, O!SizeReturn,
       O!IndexOf, O!HEADER_LENGTH, O!MaxMsgLength, O!NeedsWrapRoom, O!Accept, O!Refuse,
       O!makeHeader, O!PADDING_MSG_TYPE_ID, O!RecordIndex, O!ReadBegin, O!ReadStops,
       O!ReadRecord, O!ReadZero, O!ReadHead, O!Passed, O!Consumed, OP!RingBufferAssumption,
       OP!Init, OP!Next, OP!vars, OP!TypeOK, OP!NeverOverrun, OP!NoTornMessage, OP!SizeWasTrue,
       OP!RingInit, OP!Producer, OP!Consumer, OP!size, OP!Quiet, OP!memory, OP!readerVars,
       OP!producerVars, OP!sizeVars, OP!Cells, OP!Padding, OP!MsgUnit, OP!Clamp, OP!Zero,
       OP!write, OP!CheckCapacity, OP!CheckWrap, OP!WritePadding, OP!WriteBytes, OP!WriteHeader,
       OP!StoreTail, OP!read, OP!SizeBegin, OP!SizeTail, OP!SizeAfter, OP!SizeReturn,
       OP!IndexOf, OP!HEADER_LENGTH, OP!MaxMsgLength, OP!NeedsWrapRoom, OP!Accept, OP!Refuse,
       OP!makeHeader, OP!PADDING_MSG_TYPE_ID, OP!RecordIndex, OP!ReadBegin, OP!ReadStops,
       OP!ReadRecord, OP!ReadZero, OP!ReadHead, OP!Passed, OP!Consumed, O!Queue!Init,
       O!Queue!Next, O!Queue!vars, O!Queue!Claim, O!Queue!Close, O!Queue!Take, OP!Queue!Init,
       OP!Queue!Next, OP!Queue!vars, OP!Queue!Claim, OP!Queue!Close, OP!Queue!Take

LEMMA ManyToOneSame ==
  /\ M!RingBufferAssumption <=> MP!M!RingBufferAssumption
  /\ M!Init <=> MP!M!Init
  /\ M!Next <=> MP!M!Next
  /\ UNCHANGED M!vars <=> UNCHANGED MP!M!vars
  /\ M!Queue!Init <=> MP!M!Queue!Init
  /\ M!Queue!Next <=> MP!M!Queue!Next
  /\ UNCHANGED M!Queue!vars <=> UNCHANGED MP!M!Queue!vars
  /\ M!TypeOK <=> MP!M!TypeOK
  /\ M!NeverOverrun <=> MP!M!NeverOverrun
  /\ M!FreeSpaceZeroed <=> MP!M!FreeSpaceZeroed
  /\ M!NoTornMessage <=> MP!M!NoTornMessage
<1>1. \A p \in Producers : (M!Producer(p) \/ M!Die(p)) <=> (MP!M!Producer(p) \/ MP!M!Die(p))
  BY DEF M!Producer, M!Die, M!write, M!LoadTail, M!LoadHead, M!StoreHeadCache,
         M!CompareAndSetTail, M!WritePadding, M!WriteHeader, M!WriteBytes,
         M!WriteLength, M!RecordIndex, M!Goto, M!CloseClaim, M!Return, M!Others,
         M!WrapStep, M!InsufficientCapacity, M!Padding, M!memory, M!readerVars,
         M!producerVars, M!unblockVars, M!IndexOf, M!Zero, M!MsgUnit, M!makeHeader,
         M!PADDING_MSG_TYPE_ID, M!HEADER_LENGTH, M!MaxMsgLength, MP!M!Producer,
         MP!M!Die, MP!M!write, MP!M!LoadTail, MP!M!LoadHead, MP!M!StoreHeadCache,
         MP!M!CompareAndSetTail, MP!M!WritePadding, MP!M!WriteHeader, MP!M!WriteBytes,
         MP!M!WriteLength, MP!M!RecordIndex, MP!M!Goto, MP!M!CloseClaim, MP!M!Return,
         MP!M!Others, MP!M!WrapStep, MP!M!InsufficientCapacity, MP!M!Padding,
         MP!M!memory, MP!M!readerVars, MP!M!producerVars, MP!M!unblockVars,
         MP!M!IndexOf, MP!M!Zero, MP!M!MsgUnit, MP!M!makeHeader,
         MP!M!PADDING_MSG_TYPE_ID, MP!M!HEADER_LENGTH, MP!M!MaxMsgLength
<1>2. M!unblock <=> MP!M!unblock
  BY DEF M!unblock, M!Unblock, M!UnblockLength, M!UnblockScan, M!UnblockBack,
         M!UnblockStore, M!AreAbandoned, M!PadLength, M!UnblockFrame, M!UnblockReturn,
         M!WordAt, M!ScanLimit, M!TailOffset, M!TrailerLength, M!readerVars,
         M!producerVars, M!IndexOf, M!Zero, M!MsgUnit, M!makeHeader,
         M!PADDING_MSG_TYPE_ID, M!HEADER_LENGTH, M!MaxMsgLength, MP!M!unblock,
         MP!M!Unblock, MP!M!UnblockLength, MP!M!UnblockScan, MP!M!UnblockBack,
         MP!M!UnblockStore, MP!M!AreAbandoned, MP!M!PadLength, MP!M!UnblockFrame,
         MP!M!UnblockReturn, MP!M!WordAt, MP!M!ScanLimit, MP!M!TailOffset,
         MP!M!TrailerLength, MP!M!readerVars, MP!M!producerVars, MP!M!IndexOf,
         MP!M!Zero, MP!M!MsgUnit, MP!M!makeHeader, MP!M!PADDING_MSG_TYPE_ID,
         MP!M!HEADER_LENGTH, MP!M!MaxMsgLength
<1>3. M!Consumer <=> MP!M!Consumer
  BY <1>2 DEF M!Consumer, M!read, M!ReadBegin, M!ReadStops, M!ReadRecord, M!ReadZero,
         M!ReadHead, M!memory, M!readerVars, M!producerVars, M!unblockVars,
         M!IndexOf, M!Zero, M!MsgUnit, M!makeHeader, M!PADDING_MSG_TYPE_ID,
         M!HEADER_LENGTH, M!MaxMsgLength, MP!M!Consumer, MP!M!read,
         MP!M!ReadBegin, MP!M!ReadStops, MP!M!ReadRecord, MP!M!ReadZero,
         MP!M!ReadHead, MP!M!memory, MP!M!readerVars, MP!M!producerVars,
         MP!M!unblockVars, MP!M!IndexOf, MP!M!Zero, MP!M!MsgUnit,
         MP!M!makeHeader, MP!M!PADDING_MSG_TYPE_ID, MP!M!HEADER_LENGTH,
         MP!M!MaxMsgLength
<1>4. (UNCHANGED M!vars <=> UNCHANGED MP!M!vars) /\ (M!Quiet <=> MP!M!Quiet)
  BY DEF M!vars, M!Quiet, M!memory, M!readerVars, M!producerVars, M!unblockVars, MP!M!vars,
         MP!M!Quiet, MP!M!memory, MP!M!readerVars, MP!M!producerVars, MP!M!unblockVars
<1>5. M!Next <=> MP!M!Next
  BY <1>1, <1>3, <1>4 DEF M!Next, MP!M!Next
<1>6. QED
  BY <1>4, <1>5 DEF M!RingBufferAssumption, M!Init, M!vars, M!TypeOK, M!NeverOverrun,
         M!FreeSpaceZeroed, M!NoTornMessage, M!RingInit, M!memory,
         M!readerVars, M!producerVars, M!unblockVars, M!Cells, M!Steps,
         M!Writing, M!Passed, M!Consumed, M!Queue!Init, M!Queue!Next,
         M!Queue!vars, M!Queue!Claim, M!Queue!Close, M!Queue!Take,
         M!IndexOf, M!Zero, M!MsgUnit, M!makeHeader, M!PADDING_MSG_TYPE_ID,
         M!HEADER_LENGTH, M!MaxMsgLength, MP!M!RingBufferAssumption,
         MP!M!Init, MP!M!vars, MP!M!TypeOK, MP!M!NeverOverrun,
         MP!M!FreeSpaceZeroed, MP!M!NoTornMessage, MP!M!RingInit,
         MP!M!memory, MP!M!readerVars, MP!M!producerVars, MP!M!unblockVars,
         MP!M!Cells, MP!M!Steps, MP!M!Writing, MP!M!Passed, MP!M!Consumed,
         MP!M!Queue!Init, MP!M!Queue!Next, MP!M!Queue!vars,
         MP!M!Queue!Claim, MP!M!Queue!Close, MP!M!Queue!Take, MP!M!IndexOf,
         MP!M!Zero, MP!M!MsgUnit, MP!M!makeHeader,
         MP!M!PADDING_MSG_TYPE_ID, MP!M!HEADER_LENGTH, MP!M!MaxMsgLength

LEMMA ManyProducersSame ==
  /\ Q!ArrayQueueAssumption <=> QP!ArrayQueueAssumption
  /\ Q!Init <=> QP!Init
  /\ Q!Next <=> QP!Next
  /\ UNCHANGED Q!vars <=> UNCHANGED QP!vars
  /\ Q!Queue!Init <=> QP!Queue!Init
  /\ Q!Queue!Next <=> QP!Queue!Next
  /\ UNCHANGED Q!Queue!vars <=> UNCHANGED QP!Queue!vars
  /\ Q!TypeOK <=> QP!TypeOK
  /\ Q!SizeWasTrue <=> QP!SizeWasTrue
BY DEF Q!ArrayQueueAssumption, Q!Init, Q!Next, Q!vars, Q!TypeOK, Q!SizeWasTrue, Q!NULL, Q!Idle,
       Q!NoDrain, Q!NoSize, Q!Offer, Q!Drain, Q!sizeBegin, Q!sizeTail, Q!sizeHead, Q!loadCache,
       Q!loadTail, Q!loadHead, Q!storeCache, Q!casTail, Q!storeElement, Q!storeTail,
       Q!drain_all, Q!poll, Q!loadItem, Q!clearItem, Q!storeHead, Q!QueueRest, Q!Go,
       Q!ConsumerRest, Q!Open, Q!Element, Q!ProducerRest, QP!ArrayQueueAssumption, QP!Init,
       QP!Next, QP!vars, QP!TypeOK, QP!SizeWasTrue, QP!NULL, QP!Idle, QP!NoDrain, QP!NoSize,
       QP!Offer, QP!Drain, QP!sizeBegin, QP!sizeTail, QP!sizeHead, QP!loadCache, QP!loadTail,
       QP!loadHead, QP!storeCache, QP!casTail, QP!storeElement, QP!storeTail, QP!drain_all,
       QP!poll, QP!loadItem, QP!clearItem, QP!storeHead, QP!QueueRest, QP!Go, QP!ConsumerRest,
       QP!Open, QP!Element, QP!ProducerRest, Q!Queue!Init, Q!Queue!Next, Q!Queue!vars,
       Q!Queue!Claim, Q!Queue!Close, Q!Queue!Take, QP!Queue!Init, QP!Queue!Next, QP!Queue!vars,
       QP!Queue!Claim, QP!Queue!Close, QP!Queue!Take, Q!Max, Q!Min, QP!Max, QP!Min

LEMMA OneProducerSame ==
  /\ S!ArrayQueueAssumption <=> SP!ArrayQueueAssumption
  /\ S!Init <=> SP!Init
  /\ S!Next <=> SP!Next
  /\ UNCHANGED S!vars <=> UNCHANGED SP!vars
  /\ S!Queue!Init <=> SP!Queue!Init
  /\ S!Queue!Next <=> SP!Queue!Next
  /\ UNCHANGED S!Queue!vars <=> UNCHANGED SP!Queue!vars
  /\ S!TypeOK <=> SP!TypeOK
  /\ S!SizeWasTrue <=> SP!SizeWasTrue
BY DEF S!ArrayQueueAssumption, S!Init, S!Next, S!vars, S!TypeOK, S!SizeWasTrue, S!NULL, S!Idle,
       S!NoDrain, S!NoSize, S!Offer, S!Drain, S!sizeBegin, S!sizeTail, S!sizeHead, S!loadCache,
       S!loadTail, S!loadHead, S!storeCache, S!casTail, S!storeElement, S!storeTail,
       S!drain_all, S!poll, S!loadItem, S!clearItem, S!storeHead, S!QueueRest, S!Go,
       S!ConsumerRest, S!Open, S!Element, S!ProducerRest, SP!ArrayQueueAssumption, SP!Init,
       SP!Next, SP!vars, SP!TypeOK, SP!SizeWasTrue, SP!NULL, SP!Idle, SP!NoDrain, SP!NoSize,
       SP!Offer, SP!Drain, SP!sizeBegin, SP!sizeTail, SP!sizeHead, SP!loadCache, SP!loadTail,
       SP!loadHead, SP!storeCache, SP!casTail, SP!storeElement, SP!storeTail, SP!drain_all,
       SP!poll, SP!loadItem, SP!clearItem, SP!storeHead, SP!QueueRest, SP!Go, SP!ConsumerRest,
       SP!Open, SP!Element, SP!ProducerRest, S!Queue!Init, S!Queue!Next, S!Queue!vars,
       S!Queue!Claim, S!Queue!Close, S!Queue!Take, SP!Queue!Init, SP!Queue!Next, SP!Queue!vars,
       SP!Queue!Claim, SP!Queue!Close, SP!Queue!Take, S!Max, S!Min, SP!Max, SP!Min

(* The part never changes, and what a queue does is a step of its own. *)
LEMMA OneToOneMoves ==
  ASSUME [Next]_vars, part' = "one to one"
  PROVE  part = "one to one" /\ [O!Next]_(O!vars)
<1>1. CASE UNCHANGED vars
  BY <1>1 DEF vars, O!vars, O!memory, O!readerVars, O!producerVars, O!sizeVars
<1>2. CASE Next
  BY <1>2 DEF Next, ManyToOne, OneToOne, ManyProducers, OneProducer, Polls, Peek, Assemble,
              ImageList, StayAbsent
<1>3. QED
  BY <1>1, <1>2

LEMMA OneToOneProved ==
  /\ O!Init => OP!RingInv /\ O!Queue!Init
  /\ OP!RingInv /\ [O!Next]_(O!vars) => OP!RingInv' /\ [O!Queue!Next]_(O!Queue!vars)
  /\ OP!RingInv => O!TypeOK /\ O!NeverOverrun /\ O!NoTornMessage /\ O!SizeWasTrue
<1>1. OP!RingBufferAssumption
  BY SuiteAssumption, OneToOneSame
<1>2. O!Init => OP!RingInv /\ O!Queue!Init
  BY <1>1, OneToOneSame, OP!RingInvInit
<1>3. OP!RingInv /\ [O!Next]_(O!vars) => OP!RingInv' /\ [O!Queue!Next]_(O!Queue!vars)
  <2>1. SUFFICES ASSUME OP!RingInv, [OP!Next]_(OP!vars)
                 PROVE  OP!RingInv' /\ [OP!Queue!Next]_(OP!Queue!vars)
    BY OneToOneSame
  <2>2. QED
    BY <1>1, <2>1, OP!RingSteps
<1>4. OP!RingInv => O!TypeOK /\ O!NeverOverrun /\ O!NoTornMessage /\ O!SizeWasTrue
  BY <1>1, OneToOneSame, OP!RingSound
<1>5. QED
  BY <1>2, <1>3, <1>4

LEMMA ManyToOneMoves ==
  ASSUME [Next]_vars, part' = "many to one"
  PROVE  part = "many to one" /\ [M!Next]_(M!vars)
<1>1. CASE UNCHANGED vars
  BY <1>1 DEF vars, M!vars, M!memory, M!readerVars, M!producerVars, M!unblockVars
<1>2. CASE Next
  BY <1>2 DEF Next, ManyToOne, OneToOne, ManyProducers, OneProducer, Polls, Peek, Assemble,
              ImageList, StayAbsent
<1>3. QED
  BY <1>1, <1>2

LEMMA ManyToOneProved ==
  /\ M!Init => MP!ManyInv /\ M!Queue!Init
  /\ MP!ManyInv /\ [M!Next]_(M!vars) =>
       MP!ManyInv' /\ [M!Queue!Next \/ strayed']_(M!Queue!vars)
  /\ MP!ManyInv => /\ M!TypeOK
                   /\ ~strayed => M!NeverOverrun /\ M!FreeSpaceZeroed /\ M!NoTornMessage
<1>1. MP!M!RingBufferAssumption
  BY SuiteAssumption, ManyToOneSame
<1>2. M!Init => MP!ManyInv /\ M!Queue!Init
  <2>1. M!Init => strayed = FALSE
    BY DEF M!Init
  <2>2. QED
    BY <1>1, <2>1, ManyToOneSame, MP!ManyRingInvInit DEF MP!ManyInv
<1>3. MP!ManyInv /\ [M!Next]_(M!vars) =>
        MP!ManyInv' /\ [M!Queue!Next \/ strayed']_(M!Queue!vars)
  <2>1. SUFFICES ASSUME MP!ManyInv, [MP!M!Next]_(MP!M!vars)
                 PROVE  MP!ManyInv' /\ [MP!M!Queue!Next \/ strayed']_(MP!M!Queue!vars)
    BY ManyToOneSame
  <2>2. QED
    BY <1>1, <2>1, MP!ManyRingSteps
<1>4. MP!ManyInv => /\ M!TypeOK
                    /\ ~strayed => M!NeverOverrun /\ M!FreeSpaceZeroed /\ M!NoTornMessage
  BY <1>1, ManyToOneSame, MP!ManyRingSound DEF MP!ManyInv
<1>5. QED
  BY <1>2, <1>3, <1>4

LEMMA ManyProducersMoves ==
  ASSUME [Next]_vars, part' = "mpsc queue"
  PROVE  part = "mpsc queue" /\ [Q!Next]_(Q!vars)
<1>1. CASE UNCHANGED vars
  BY <1>1 DEF vars, Q!vars
<1>2. CASE Next
  BY <1>2 DEF Next, ManyToOne, OneToOne, ManyProducers, OneProducer, Polls, Peek, Assemble,
              ImageList, StayAbsent
<1>3. QED
  BY <1>1, <1>2

LEMMA ManyProducersProved ==
  /\ Q!Init => QP!QueueInv /\ Q!Queue!Init
  /\ QP!QueueInv /\ [Q!Next]_(Q!vars) => QP!QueueInv' /\ [Q!Queue!Next]_(Q!Queue!vars)
  /\ QP!QueueInv => Q!TypeOK /\ Q!SizeWasTrue
<1>1. QP!ArrayQueueAssumption
  BY SuiteAssumption, ManyProducersSame
<1>2. Q!Init => QP!QueueInv /\ Q!Queue!Init
  BY <1>1, ManyProducersSame, QP!QueueInvInit, QP!QueueInitial
<1>3. QP!QueueInv /\ [Q!Next]_(Q!vars) => QP!QueueInv' /\ [Q!Queue!Next]_(Q!Queue!vars)
  <2>1. SUFFICES ASSUME QP!QueueInv, [QP!Next]_(QP!vars)
                 PROVE  QP!QueueInv' /\ [QP!Queue!Next]_(QP!Queue!vars)
    BY ManyProducersSame
  <2>2. QED
    BY <1>1, <2>1, QP!QueueStep
<1>4. QP!QueueInv => Q!TypeOK /\ Q!SizeWasTrue
  BY <1>1, ManyProducersSame, QP!QueueSound
<1>5. QED
  BY <1>2, <1>3, <1>4

LEMMA OneProducerMoves ==
  ASSUME [Next]_vars, part' = "spsc queue"
  PROVE  part = "spsc queue" /\ [S!Next]_(S!vars)
<1>1. CASE UNCHANGED vars
  BY <1>1 DEF vars, S!vars
<1>2. CASE Next
  BY <1>2 DEF Next, ManyToOne, OneToOne, ManyProducers, OneProducer, Polls, Peek, Assemble,
              ImageList, StayAbsent
<1>3. QED
  BY <1>1, <1>2

LEMMA OneProducerProved ==
  /\ S!Init => SP!QueueInv /\ S!Queue!Init
  /\ SP!QueueInv /\ [S!Next]_(S!vars) => SP!QueueInv' /\ [S!Queue!Next]_(S!Queue!vars)
  /\ SP!QueueInv => S!TypeOK /\ S!SizeWasTrue
<1>1. SP!ArrayQueueAssumption
  BY SuiteAssumption, OneProducerSame
<1>2. S!Init => SP!QueueInv /\ S!Queue!Init
  BY <1>1, OneProducerSame, SP!QueueInvInit, SP!QueueInitial
<1>3. SP!QueueInv /\ [S!Next]_(S!vars) => SP!QueueInv' /\ [S!Queue!Next]_(S!Queue!vars)
  <2>1. SUFFICES ASSUME SP!QueueInv, [SP!Next]_(SP!vars)
                 PROVE  SP!QueueInv' /\ [SP!Queue!Next]_(SP!Queue!vars)
    BY OneProducerSame
  <2>2. QED
    BY <1>1, <2>1, SP!QueueStep
<1>4. SP!QueueInv => S!TypeOK /\ S!SizeWasTrue
  BY <1>1, OneProducerSame, SP!QueueSound
<1>5. QED
  BY <1>2, <1>3, <1>4

(* Every part that is a queue keeps its own invariant. *)
QueuesInv ==
  /\ part = "many to one" => MP!ManyInv
  /\ part = "one to one" => OP!RingInv
  /\ part = "mpsc queue" => QP!QueueInv
  /\ part = "spsc queue" => SP!QueueInv

LEMMA QueuesInvInit == Init => QueuesInv
BY ManyToOneProved, OneToOneProved, ManyProducersProved, OneProducerProved DEF Init, QueuesInv

LEMMA QueuesInvStep == QueuesInv /\ [Next]_vars => QueuesInv'
BY ManyToOneProved, OneToOneProved, ManyProducersProved, OneProducerProved,
   ManyToOneMoves, OneToOneMoves, ManyProducersMoves, OneProducerMoves DEF QueuesInv

(***************************************************************************)
(* The ring buffers of one producer and of many never overrun the          *)
(* consumer, keep free space zero and hand over whole messages, the latter *)
(* as long as unblock() has padded dead records only; the array queues     *)
(* keep their tail within the array; and an answer of size() was true at   *)
(* one moment of its call, for every capacity and length (claimCapacity,   *)
(* read, unblock, offer, poll, size).                                      *)
(***************************************************************************)
THEOREM RecordsIntactHolds == Spec => []RecordsIntact
<1>1. QueuesInv => RecordsIntact
  BY ManyToOneProved, OneToOneProved, ManyProducersProved, OneProducerProved
     DEF QueuesInv, RecordsIntact
<1>2. QED
  BY <1>1, QueuesInvInit, QueuesInvStep, PTL DEF Spec

(***************************************************************************)
(* The ring buffers and the array queues implement ClaimQueue: messages    *)
(* are handed over in the order of their claims, once, never before they   *)
(* are complete, and nothing is passed over but what its producer          *)
(* abandoned (write, read, unblock, offer, poll, drain), up to the moment  *)
(* at which unblock() takes the record of a live producer for a dead one   *)
(* or scans past the end of the buffer.                                    *)
(***************************************************************************)
THEOREM ImplementsClaimQueueHolds == Spec => ImplementsClaimQueue
<1> DEFINE MQ == part = "many to one" =>
                   M!Queue!Next \/ UNCHANGED M!Queue!vars \/ strayed'
           OQ == part = "one to one" => O!Queue!Next \/ UNCHANGED O!Queue!vars
           QQ == part = "mpsc queue" => Q!Queue!Next \/ UNCHANGED Q!Queue!vars
           SQ == part = "spsc queue" => S!Queue!Next \/ UNCHANGED S!Queue!vars
<1>1. Init => /\ part = "many to one" => M!Queue!Init
              /\ part = "one to one" => O!Queue!Init
              /\ part = "mpsc queue" => Q!Queue!Init
              /\ part = "spsc queue" => S!Queue!Init
  BY ManyToOneProved, OneToOneProved, ManyProducersProved, OneProducerProved DEF Init
<1>2. QueuesInv /\ [Next]_vars => [MQ]_vars /\ [OQ]_vars /\ [QQ]_vars /\ [SQ]_vars
  <2>1. SUFFICES ASSUME QueuesInv, [Next]_vars PROVE MQ /\ OQ /\ QQ /\ SQ
    OBVIOUS
  <2>2. part' = part
    BY <2>1 DEF Next, vars, ManyToOne, OneToOne, ManyProducers, OneProducer, Polls, Peek,
                Assemble, ImageList, StayAbsent
  <2>3. MQ
    BY <2>1, <2>2, ManyToOneMoves, ManyToOneProved DEF QueuesInv
  <2>4. OQ
    BY <2>1, <2>2, OneToOneMoves, OneToOneProved DEF QueuesInv
  <2>5. QQ
    BY <2>1, <2>2, ManyProducersMoves, ManyProducersProved DEF QueuesInv
  <2>6. SQ
    BY <2>1, <2>2, OneProducerMoves, OneProducerProved DEF QueuesInv
  <2>7. QED
    BY <2>3, <2>4, <2>5, <2>6
<1>3. QED
  BY <1>1, <1>2, QueuesInvInit, QueuesInvStep, PTL DEF Spec, ImplementsClaimQueue
=============================================================================
