-------------------------- MODULE StructuresProofs --------------------------
(***************************************************************************)
(* Proofs about the parts of MCStructures.  The counters: a record that a  *)
(* scan looks at is not used again before the scan has left it, because    *)
(* the scan takes less time than the timeout of a freed record; this holds *)
(* for every number of records, counters and scans and every timeout above *)
(* zero.                                                                   *)
(***************************************************************************)
EXTENDS MCStructures, WellFoundedInduction, TLAPS

Record == [state : {-1, 0, 1}, type : Nat, key : Nat, deadline : Nat, label : Nat]
Report == [label : Nat, type : Nat, key : Nat]

Reserving == {"type", "label", "publish"}

(* The operations of a scan and the steps of each. *)
ScanSteps ==
  \/ scan.op = "none" /\ scan.pc = "state"
  \/ scan.op = "forEach" /\ scan.pc \in {"state", "label", "type", "key", "done"}
  \/ scan.op = "find" /\ scan.pc \in {"state", "registration", "done"}
  \/ scan.op = "heartbeat" /\ scan.pc \in {"state", "key", "type", "done"}
  \/ scan.op = "address" /\ scan.pc \in {"state", "type", "key", "value", "endpoint", "done"}
  \/ scan.op = "active" /\ scan.pc \in {"key", "type", "record", "done"}

BookType ==
  /\ metadata \in [C!Ids -> Record] /\ registration \in [C!Ids -> Nat]
  /\ freeList \in Seq(C!Ids) /\ highWaterMark \in -1 .. MaxCounterId /\ clock \in Nat
  /\ manager \in [op : Reserving \cup {"none", "register", "reclaim"}, counter : Nat,
                  id : C!Ids]
  /\ counters \in Seq({-1} \cup C!Ids)

ScanRecord ==
  [op : {"none", "forEach", "find", "heartbeat", "address", "active"}, target : Nat, id : Nat,
   pc : {"state", "label", "type", "key", "registration", "record", "value", "endpoint", "done"},
   since : Nat, label : Nat, type : Nat, seen : SUBSET Report, calls : Nat]

ScanType == scan \in ScanRecord /\ ScanSteps

(* A record belongs to one live counter, to the allocation or the release  *)
(* under way, to the free list, or was never used.                         *)
OneToOne(s) == \A i, j \in 1 .. Len(s) : s[i] = s[j] => i = j

LiveOwn ==
  /\ \A n \in C!Live : counters[n] \in C!Ids /\ counters[n] <= highWaterMark
  /\ \A n, m \in C!Live : counters[n] = counters[m] => n = m

FreeOwn ==
  /\ OneToOne(freeList)
  /\ \A k \in 1 .. Len(freeList) :
       /\ freeList[k] \in C!Ids /\ freeList[k] <= highWaterMark
       /\ \A n \in C!Live : freeList[k] # counters[n]

ManagerOwns ==
  /\ manager.op = "none" => manager = C!Resting
  /\ manager.op # "none" => manager.counter \in 1 .. Len(counters) /\ manager.id <= highWaterMark
  /\ manager.op \in Reserving \cup {"reclaim"} =>
       /\ manager.counter \notin C!Live
       /\ \A n \in C!Live : counters[n] # manager.id
       /\ \A k \in 1 .. Len(freeList) : freeList[k] # manager.id
  /\ manager.op = "register" =>
       manager.counter \in C!Live /\ counters[manager.counter] = manager.id

Ownership == LiveOwn /\ FreeOwn /\ ManagerOwns

(* The record i is being filled in. *)
Filling(i) == manager.op \in Reserving /\ manager.id = i

(* What a record says, by its owner. *)
Tells(i) ==
  /\ i > highWaterMark => metadata[i].state = 0
  /\ metadata[i].state = 0 /\ i <= highWaterMark => Filling(i) /\ i = highWaterMark
  /\ Filling(i) => metadata[i].state # 1
  /\ ~Filling(i) /\ metadata[i].state # 0 =>
       metadata[i].type = metadata[i].label /\ metadata[i].key \in {0, metadata[i].label}

StatesTell == \A i \in C!Ids : Tells(i)

LiveRecords ==
  \A n \in C!Live :
    /\ metadata[counters[n]].state = 1 /\ metadata[counters[n]].type = n
    /\ metadata[counters[n]].label = n /\ metadata[counters[n]].key = n

FreeRecords == \A k \in 1 .. Len(freeList) : metadata[freeList[k]].state = -1

ManagerRecord ==
  /\ manager.op \in {"label", "publish"} => metadata[manager.id].type = manager.counter
  /\ manager.op = "publish" =>
       metadata[manager.id].label = manager.counter /\ metadata[manager.id].key = manager.counter
  /\ manager.op = "reclaim" =>
       /\ metadata[manager.id].state = 1
       /\ metadata[manager.id].deadline = clock + FreeToReuseTimeout

Records == StatesTell /\ LiveRecords /\ FreeRecords /\ ManagerRecord

Book == BookType /\ Ownership /\ Records

(* A scan between its read of the state and its last read of the record:   *)
(* the record is the one of the counter whose state it read, or lies in    *)
(* the free list with a deadline that is still to come.                    *)
Held ==
  scan.pc \notin {"state", "done"} =>
    /\ scan.id \in C!Ids /\ metadata[scan.id].state # 0 /\ ~Filling(scan.id)
    /\ scan.since <= clock /\ clock < scan.since + FreeToReuseTimeout
    /\ \A k \in 1 .. Len(freeList) : freeList[k] = scan.id =>
         metadata[scan.id].deadline >= scan.since + FreeToReuseTimeout
    /\ scan.op = "forEach" /\ scan.pc \in {"type", "key"} =>
         scan.label = metadata[scan.id].label
    /\ scan.op = "forEach" /\ scan.pc = "key" => scan.type = metadata[scan.id].type
    /\ scan.op = "active" => metadata[scan.id].label = scan.target
    /\ scan.op = "heartbeat" /\ scan.pc = "type" => metadata[scan.id].label = scan.target
    /\ scan.op = "address" /\ scan.pc \in {"value", "endpoint"} =>
         metadata[scan.id].label = scan.target

(* A counter that was there from the start is ahead of the scan or was     *)
(* reported.                                                               *)
Sought ==
  /\ present \subseteq C!Live
  /\ \A n \in present : registration[counters[n]] = n
  /\ scan.op \in {"forEach", "find", "active"} =>
       \A n \in present : scan.target \in {0, n} =>
         \/ scan.pc # "done" /\ scan.id <= counters[n]
         \/ \E s \in scan.seen : s.label = n
  /\ scan.op \in {"find", "active", "heartbeat", "address"} => scan.target # 0
  /\ scan.op = "active" /\ scan.pc # "done" /\ scan.target \in present =>
       scan.id = counters[scan.target]
  /\ scan.op = "forEach" => scan.target = 0

Reading == ScanType /\ Held /\ C!SnapshotOfOneCounter /\ Sought

CountersInv == Book /\ Reading

-----------------------------------------------------------------------------
LEMMA CountersConstants ==
  /\ MaxCounterId \in Nat /\ FreeToReuseTimeout \in Nat /\ MaxTime \in Nat
  /\ C!Ids = 0 .. MaxCounterId /\ C!NOT_FREE_TO_REUSE \in Nat
BY SuiteAssumption DEF C!CountersAssumption, C!Ids, C!NOT_FREE_TO_REUSE

LEMMA CountersInvInit ==
  ASSUME C!Init
  PROVE  CountersInv
<1>1. metadata = [i \in C!Ids |-> C!Unused] /\ registration = [i \in C!Ids |-> 0]
      /\ freeList = <<>> /\ highWaterMark = -1 /\ clock = 0
      /\ manager = C!Resting /\ counters = <<>> /\ scan = C!NoScan /\ present = {}
  BY DEF C!Init
<1>2. C!Live = {}
  BY <1>1 DEF C!Live
<1>3. BookType
  BY <1>1, CountersConstants DEF BookType, Record, C!Unused, C!RECORD_UNUSED, C!Resting
<1>4. Ownership
  BY <1>1, <1>2 DEF Ownership, LiveOwn, FreeOwn, OneToOne, ManagerOwns, C!Resting, Reserving
<1>5. Records
  BY <1>1, <1>2, CountersConstants
     DEF Records, StatesTell, Tells, LiveRecords, FreeRecords, ManagerRecord, Filling, Reserving,
         C!Resting, C!Unused, C!RECORD_UNUSED
<1>6. ScanType
  BY <1>1 DEF ScanType, ScanRecord, ScanSteps, C!NoScan
<1>7. Held /\ C!SnapshotOfOneCounter /\ Sought
  BY <1>1 DEF Held, C!SnapshotOfOneCounter, Sought, C!NoScan
<1>8. QED
  BY <1>3, <1>4, <1>5, <1>6, <1>7 DEF CountersInv, Book, Reading

(* The least of a set of numbers is one of them. *)
LEMMA MinOf ==
  ASSUME NEW S \in SUBSET Nat, S # {}
  PROVE  C!Min(S) \in S
<1>1. IsWellFoundedOn(OpToRel(<, Nat), Nat)
  BY NatLessThanWellFounded
<1>2. PICK x \in S : \A y \in S : <<y, x>> \notin OpToRel(<, Nat)
  BY <1>1, WFMin
<1>3. \A y \in S : x =< y
  <2>1. TAKE y \in S
  <2>2. x \in Nat /\ y \in Nat /\ <<y, x>> \in Nat \X Nat
    OBVIOUS
  <2>3. ~(y < x)
    BY <1>2, <2>2, Zenon DEF OpToRel
  <2>4. QED
    BY <2>2, <2>3
<1>4. \E z \in S : \A y \in S : z =< y
  BY <1>3
<1>5. QED
  BY <1>4, Zenon DEF C!Min

LEMMA RemoveAtFact ==
  ASSUME NEW S, NEW s \in Seq(S), NEW k \in 1 .. Len(s)
  PROVE  /\ C!RemoveAt(s, k) \in Seq(S) /\ Len(C!RemoveAt(s, k)) = Len(s) - 1
         /\ \A j \in 1 .. Len(s) - 1 :
              C!RemoveAt(s, k)[j] = IF j < k THEN s[j] ELSE s[j + 1]
<1> DEFINE before == SubSeq(s, 1, k - 1)
           after == SubSeq(s, k + 1, Len(s))
<1>1. /\ before \in Seq(S) /\ Len(before) = k - 1
      /\ \A j \in 1 .. k - 1 : before[j] = s[j]
  OBVIOUS
<1>2. /\ after \in Seq(S) /\ Len(after) = Len(s) - k
      /\ \A j \in 1 .. Len(s) - k : after[j] = s[k + j]
  OBVIOUS
<1>3. C!RemoveAt(s, k) = before \o after
  BY DEF C!RemoveAt
<1> HIDE DEF before, after
<1>4. /\ before \o after \in Seq(S) /\ Len(before \o after) = Len(s) - 1
      /\ \A j \in 1 .. Len(s) - 1 :
           (before \o after)[j] = IF j <= k - 1 THEN before[j] ELSE after[j - (k - 1)]
  BY <1>1, <1>2
<1>5. ASSUME NEW j \in 1 .. Len(s) - 1
      PROVE  (before \o after)[j] = IF j < k THEN s[j] ELSE s[j + 1]
  <2>1. CASE j < k
    BY <1>1, <1>4, <2>1
  <2>2. CASE ~(j < k)
    BY <1>2, <1>4, <2>2
  <2>3. QED
    BY <2>1, <2>2
<1>6. QED
  BY <1>3, <1>4, <1>5

LEMMA RemoveAtInjective ==
  ASSUME NEW S, NEW s \in Seq(S), NEW k \in 1 .. Len(s),
         OneToOne(s), NEW r, r = C!RemoveAt(s, k)
  PROVE  /\ r \in Seq(S) /\ OneToOne(r)
         /\ \A j \in 1 .. Len(r) : r[j] # s[k] /\ \E i \in 1 .. Len(s) : r[j] = s[i]
<1> DEFINE was(j) == IF j < k THEN j ELSE j + 1
<1>1. /\ r \in Seq(S) /\ Len(r) = Len(s) - 1
      /\ \A j \in 1 .. Len(s) - 1 : r[j] = IF j < k THEN s[j] ELSE s[j + 1]
  BY RemoveAtFact
<1>2. \A j \in 1 .. Len(r) : was(j) \in 1 .. Len(s) /\ was(j) # k /\ r[j] = s[was(j)]
  BY <1>1
<1>3. \A i, j \in 1 .. Len(r) : was(i) = was(j) => i = j
  BY <1>1
<1> HIDE DEF was
<1>4. \A j \in 1 .. Len(r) : r[j] # s[k] /\ \E i \in 1 .. Len(s) : r[j] = s[i]
  BY <1>2 DEF OneToOne
<1>5. OneToOne(r)
  BY <1>2, <1>3 DEF OneToOne
<1>6. QED
  BY <1>1, <1>4, <1>5

(* A step of the manager that leaves the record of the scan and the        *)
(* counters present as they are does not disturb the scan.                 *)
LEMMA ScanKept ==
  ASSUME Book, Reading, UNCHANGED <<scan, clock>>,
         \A i \in C!Ids : metadata[i].state # 0 /\ ~Filling(i) =>
           /\ metadata'[i].state # 0 /\ metadata'[i].label = metadata[i].label
           /\ metadata'[i].type = metadata[i].type,
         scan.pc \notin {"state", "done"} =>
           /\ ~Filling(scan.id)'
           /\ \A k \in 1 .. Len(freeList') : freeList'[k] = scan.id =>
                metadata'[scan.id].deadline >= scan.since + FreeToReuseTimeout,
         present' \subseteq present, present' \subseteq C!Live',
         \A n \in present' : counters'[n] = counters[n] /\ registration'[counters[n]] = n
  PROVE  Reading'
<1>1. ScanType'
  BY DEF Reading, ScanType, ScanSteps
<1>2. Held'
  <2>1. Held
    BY DEF Reading
  <2>2. QED
    BY <2>1 DEF Held
<1>3. C!SnapshotOfOneCounter'
  BY DEF Reading, C!SnapshotOfOneCounter
<1>4. Sought'
  <2>1. Sought
    BY DEF Reading
  <2>2. QED
    BY <2>1 DEF Sought
<1>5. QED
  BY <1>1, <1>2, <1>3, <1>4 DEF Reading

LEMMA CountersNextId ==
  ASSUME CountersInv, C!nextCounterId
  PROVE  CountersInv'
<1> USE CountersConstants
<1>0. BookType /\ Ownership /\ Records /\ Held /\ Sought
  BY DEF CountersInv, Book, Reading
<1>1. /\ manager = C!Resting /\ counters' = Append(counters, -1)
      /\ UNCHANGED <<metadata, present, clock, scan>>
  BY DEF C!nextCounterId, C!ReaderRest, C!NULL_COUNTER_ID
<1>2. /\ C!Live' = C!Live
      /\ \A n \in C!Live : counters'[n] = counters[n] /\ n \in 1 .. Len(counters)
  <2>1. counters \in Seq({-1} \cup C!Ids) /\ DOMAIN counters = 1 .. Len(counters)
    BY <1>0 DEF BookType
  <2>2. /\ DOMAIN counters' = 1 .. Len(counters) + 1 /\ counters'[Len(counters) + 1] = -1
        /\ \A n \in 1 .. Len(counters) : counters'[n] = counters[n]
    BY <1>1, <2>1
  <2>3. QED
    BY <2>1, <2>2 DEF C!Live, C!NULL_COUNTER_ID
<1>3. counters' \in Seq({-1} \cup C!Ids) /\ Len(counters') = Len(counters) + 1
      /\ Len(counters) + 1 \notin C!Live
  BY <1>0, <1>1, <1>2 DEF BookType
<1>4. PICK id \in C!Ids :
        /\ manager' = [op |-> "type", counter |-> Len(counters) + 1, id |-> id]
        /\ highWaterMark' \in highWaterMark .. MaxCounterId /\ id <= highWaterMark'
        /\ freeList' \in Seq(C!Ids) /\ registration' \in [C!Ids -> Nat]
        /\ \A i \in C!Ids : i # id => registration'[i] = registration[i]
        /\ OneToOne(freeList)'
        /\ \A j \in 1 .. Len(freeList') :
             freeList'[j] # id /\ \E i \in 1 .. Len(freeList) : freeList'[j] = freeList[i]
        /\ \A n \in C!Live : counters[n] # id
        /\ metadata[id].state # 1
        /\ \/ highWaterMark' = highWaterMark /\ metadata[id].state = -1
           \/ highWaterMark' = highWaterMark + 1 /\ id = highWaterMark + 1
        /\ scan.pc \notin {"state", "done"} => scan.id # id
  <2> DEFINE ready == {k \in DOMAIN freeList : C!Reusable(freeList[k])}
  <2>1. CASE ready # {}
    <3>1. PICK k \in 1 .. Len(freeList) :
            /\ clock >= metadata[freeList[k]].deadline
            /\ freeList' = C!RemoveAt(freeList, k)
            /\ registration' = [registration EXCEPT ![freeList[k]] = 0]
            /\ manager' = [op |-> "type", counter |-> Len(counters) + 1, id |-> freeList[k]]
            /\ UNCHANGED highWaterMark
      <4>1. DOMAIN freeList = 1 .. Len(freeList)
        BY <1>0 DEF BookType
      <4>2. ready \in SUBSET Nat
        BY <4>1
      <4>3. C!Min(ready) \in ready
        BY <2>1, <4>2, MinOf
      <4>4. QED
        BY <2>1, <4>1, <4>3 DEF C!nextCounterId, C!Reusable
    <3>2. /\ freeList' \in Seq(C!Ids)
          /\ \A j \in 1 .. Len(freeList') :
               /\ freeList'[j] # freeList[k]
               /\ \E i \in 1 .. Len(freeList) : freeList'[j] = freeList[i]
          /\ OneToOne(freeList)'
      <4>1. freeList \in Seq(C!Ids) /\ OneToOne(freeList)
        BY <1>0 DEF BookType, Ownership, FreeOwn
      <4>2. PICK r : r = freeList' /\ r = C!RemoveAt(freeList, k)
        BY <3>1
      <4>3. /\ r \in Seq(C!Ids)
            /\ \A j \in 1 .. Len(r) :
                 r[j] # freeList[k] /\ \E i \in 1 .. Len(freeList) : r[j] = freeList[i]
            /\ OneToOne(r)
        BY <4>1, <4>2, RemoveAtInjective
      <4>4. QED
        BY <4>2, <4>3
    <3>3. /\ freeList[k] \in C!Ids /\ freeList[k] <= highWaterMark
          /\ \A n \in C!Live : counters[n] # freeList[k]
          /\ metadata[freeList[k]].state = -1
      BY <1>0 DEF Ownership, FreeOwn, Records, FreeRecords
    <3>4. registration' \in [C!Ids -> Nat]
          /\ \A i \in C!Ids : i # freeList[k] => registration'[i] = registration[i]
      BY <1>0, <3>1, <3>3 DEF BookType
    <3>5. scan.pc \notin {"state", "done"} => scan.id # freeList[k]
      <4>1. clock \in Nat /\ metadata[freeList[k]].deadline \in Nat
        BY <1>0, <3>3 DEF BookType, Record
      <4>2. scan.since \in Nat
        BY DEF CountersInv, Reading, ScanType, ScanRecord
      <4>3. QED
        BY <1>0, <3>1, <4>1, <4>2 DEF Held
    <3>6. highWaterMark \in Int /\ highWaterMark <= MaxCounterId
      BY <1>0 DEF BookType
    <3> freeList[k] \in C!Ids
      BY <3>3
    <3>7. WITNESS freeList[k] \in C!Ids
    <3>8. QED
      BY <3>1, <3>2, <3>3, <3>4, <3>5, <3>6
  <2>2. CASE ready = {}
    <3>1. /\ highWaterMark + 1 <= MaxCounterId /\ highWaterMark' = highWaterMark + 1
          /\ manager' = [op |-> "type", counter |-> Len(counters) + 1, id |-> highWaterMark + 1]
          /\ UNCHANGED <<freeList, registration>>
      BY <2>2 DEF C!nextCounterId
    <3>2. highWaterMark \in -1 .. MaxCounterId /\ highWaterMark + 1 \in C!Ids
      BY <1>0, <3>1 DEF BookType
    <3>3. metadata[highWaterMark + 1].state = 0
      BY <1>0, <3>2 DEF Records, StatesTell, Tells
    <3>4. \A n \in C!Live : counters[n] # highWaterMark + 1
      BY <1>0, <3>2 DEF Ownership, LiveOwn
    <3>5. \A k \in 1 .. Len(freeList) : freeList[k] # highWaterMark + 1
      BY <1>0, <3>2 DEF Ownership, FreeOwn
    <3>6. scan.pc \notin {"state", "done"} => scan.id # highWaterMark + 1
      BY <1>0, <3>3 DEF Held
    <3>7. /\ freeList \in Seq(C!Ids) /\ registration \in [C!Ids -> Nat]
          /\ OneToOne(freeList)
      BY <1>0 DEF BookType, Ownership, FreeOwn
    <3> highWaterMark + 1 \in C!Ids
      BY <3>2
    <3>8. WITNESS highWaterMark + 1 \in C!Ids
    <3>9. QED
      BY <3>1, <3>2, <3>3, <3>4, <3>5, <3>6, <3>7
  <2>3. QED
    BY <2>1, <2>2
<1>5. /\ manager'.op = "type" /\ manager'.counter = Len(counters) + 1 /\ manager'.id = id
      /\ manager' \in [op : Reserving \cup {"none", "register", "reclaim"}, counter : Nat,
                       id : C!Ids]
  BY <1>0, <1>4 DEF Reserving, BookType
<1>6. /\ highWaterMark \in -1 .. MaxCounterId /\ highWaterMark' \in -1 .. MaxCounterId
      /\ highWaterMark <= highWaterMark'
  BY <1>0, <1>4 DEF BookType
<1>7. BookType'
  BY <1>0, <1>1, <1>3, <1>4, <1>5, <1>6 DEF BookType
<1>8. LiveOwn'
  BY <1>0, <1>2, <1>6 DEF Ownership, LiveOwn
<1>9. FreeOwn'
  <2>1. OneToOne(freeList)'
    BY <1>4
  <2>2. \A j \in 1 .. Len(freeList') : \E i \in 1 .. Len(freeList) : freeList'[j] = freeList[i]
    BY <1>4
  <2>3. QED
    BY <1>0, <1>2, <1>6, <2>1, <2>2 DEF Ownership, FreeOwn
<1>10. ManagerOwns'
  <2>1. /\ id <= highWaterMark' /\ \A j \in 1 .. Len(freeList') : freeList'[j] # id
        /\ \A n \in C!Live : counters[n] # id
    BY <1>4
  <2>2. Len(counters) + 1 \in 1 .. Len(counters')
    BY <1>0, <1>3 DEF BookType
  <2>3. QED
    BY <1>2, <1>3, <1>5, <2>1, <2>2 DEF ManagerOwns
<1>11. \A i \in C!Ids : ~Filling(i) /\ (Filling(i)' <=> i = id)
  BY <1>1, <1>5 DEF Filling, Reserving, C!Resting
<1>12. StatesTell'
  <2>1. SUFFICES ASSUME NEW i \in C!Ids
                 PROVE  Tells(i)'
    BY DEF StatesTell
  <2>2. /\ metadata[id].state # 1
        /\ \/ highWaterMark' = highWaterMark /\ metadata[id].state = -1
           \/ highWaterMark' = highWaterMark + 1 /\ id = highWaterMark + 1
    BY <1>4
  <2>3. metadata' = metadata /\ Tells(i) /\ i \in Int /\ highWaterMark \in Int
    BY <1>0, <1>1, <1>6 DEF Records, StatesTell
  <2>4. QED
    BY <1>11, <2>2, <2>3 DEF Tells
<1>13. LiveRecords' /\ FreeRecords' /\ ManagerRecord'
  <2>1. LiveRecords'
    BY <1>0, <1>1, <1>2 DEF Records, LiveRecords
  <2>2. FreeRecords'
    <3>1. \A j \in 1 .. Len(freeList') : \E i \in 1 .. Len(freeList) : freeList'[j] = freeList[i]
      BY <1>4
    <3>2. QED
      BY <1>0, <1>1, <3>1 DEF Records, FreeRecords
  <2>3. ManagerRecord'
    BY <1>5 DEF ManagerRecord
  <2>4. QED
    BY <2>1, <2>2, <2>3
<1>14. Reading'
  <2>1. \A n \in present : n \in C!Live /\ counters[n] \in C!Ids /\ counters[n] # id
    BY <1>0, <1>4 DEF Sought, Ownership, LiveOwn
  <2>2. \A n \in present : registration'[counters[n]] = n
    BY <1>0, <1>4, <2>1 DEF Sought
  <2>3. scan.pc \notin {"state", "done"} =>
          /\ ~Filling(scan.id)'
          /\ \A j \in 1 .. Len(freeList') : freeList'[j] = scan.id =>
               metadata'[scan.id].deadline >= scan.since + FreeToReuseTimeout
    BY <1>0, <1>1, <1>4, <1>5 DEF Held, Filling
  <2>4. QED
    BY <1>1, <1>2, <2>1, <2>2, <2>3, ScanKept DEF CountersInv
<1>15. QED
  BY <1>7, <1>8, <1>9, <1>10, <1>12, <1>13, <1>14 DEF CountersInv, Book, Ownership, Records

(* The allocation of a counter fills in its record field by field. *)
LEMMA CountersFill ==
  ASSUME CountersInv, C!allocateType \/ C!allocateLabel
  PROVE  CountersInv'
<1> USE CountersConstants
<1>0. BookType /\ Ownership /\ Records /\ Held /\ Sought
  BY DEF CountersInv, Book, Reading
<1>1. /\ UNCHANGED <<registration, freeList, highWaterMark, counters, present, clock, scan>>
      /\ manager.op \in Reserving
  BY DEF C!allocateType, C!allocateLabel, C!ReaderRest, Reserving
<1>2. C!Live' = C!Live
  BY <1>1 DEF C!Live
<1>3. manager.id \in C!Ids /\ manager.counter \in Nat /\ metadata \in [C!Ids -> Record]
  BY <1>0 DEF BookType
<1>4. /\ metadata' \in [C!Ids -> Record]
      /\ \A i \in C!Ids : i # manager.id => metadata'[i] = metadata[i]
      /\ metadata'[manager.id].state = metadata[manager.id].state
      /\ metadata'[manager.id].type = manager.counter
      /\ manager'.id = manager.id /\ manager'.counter = manager.counter
      /\ manager'.op \in {"label", "publish"}
      /\ manager'.op = "publish" =>
           /\ metadata'[manager.id].label = manager.counter
           /\ metadata'[manager.id].key = manager.counter
      /\ manager' \in [op : Reserving \cup {"none", "register", "reclaim"}, counter : Nat,
                       id : C!Ids]
  <2>1. CASE C!allocateType
    <3>1. /\ metadata' = [metadata EXCEPT ![manager.id]["type"] = manager.counter]
          /\ manager' = [manager EXCEPT !.op = "label"]
      BY <2>1 DEF C!allocateType, C!Write, C!Step
    <3>2. QED
      BY <1>0, <1>3, <3>1 DEF Record, BookType, Reserving
  <2>2. CASE C!allocateLabel
    <3>1. /\ metadata' = [metadata EXCEPT ![manager.id].key = manager.counter,
                                          ![manager.id].deadline = C!NOT_FREE_TO_REUSE,
                                          ![manager.id].label = manager.counter]
          /\ manager' = [manager EXCEPT !.op = "publish"] /\ manager.op = "label"
      BY <2>2 DEF C!allocateLabel, C!Step
    <3>2. metadata[manager.id].type = manager.counter
      BY <1>0, <3>1 DEF Records, ManagerRecord
    <3> DEFINE m == [metadata[manager.id] EXCEPT !.key = manager.counter,
                       !.deadline = C!NOT_FREE_TO_REUSE, !.label = manager.counter]
    <3>3. /\ m \in Record /\ m.state = metadata[manager.id].state
          /\ m.type = manager.counter /\ m.label = manager.counter /\ m.key = manager.counter
      <4>1. metadata[manager.id] \in Record
        BY <1>3
      <4>2. QED
        BY <1>3, <3>2, <4>1 DEF Record
    <3>4. metadata' = [metadata EXCEPT ![manager.id] = m]
      BY <1>3, <3>1 DEF Record
    <3> HIDE DEF m
    <3>5. /\ metadata' \in [C!Ids -> Record] /\ metadata'[manager.id] = m
          /\ \A i \in C!Ids : i # manager.id => metadata'[i] = metadata[i]
      BY <1>3, <3>3, <3>4
    <3>6. QED
      BY <1>0, <3>1, <3>3, <3>5 DEF BookType, Reserving
  <2>3. QED
    BY <2>1, <2>2
<1>5. BookType'
  BY <1>0, <1>1, <1>4 DEF BookType
<1>6. LiveOwn' /\ FreeOwn'
  BY <1>0, <1>1, <1>2 DEF Ownership, LiveOwn, FreeOwn, OneToOne
<1>7. ManagerOwns'
  BY <1>0, <1>1, <1>2, <1>4 DEF Ownership, ManagerOwns, Reserving
<1>8. \A i \in C!Ids : Filling(i)' <=> Filling(i)
  BY <1>1, <1>4 DEF Filling, Reserving
<1>9. \A i \in C!Ids : ~Filling(i) => i # manager.id
  BY <1>1 DEF Filling
<1>10. StatesTell'
  <2>1. SUFFICES ASSUME NEW i \in C!Ids
                 PROVE  Tells(i)'
    BY DEF StatesTell
  <2>2. metadata'[i].state = metadata[i].state
    BY <1>4
  <2>3. QED
    BY <1>0, <1>1, <1>4, <1>8, <1>9, <2>2 DEF Records, StatesTell, Tells
<1>11. LiveRecords' /\ FreeRecords'
  BY <1>0, <1>1, <1>2, <1>4, SMTT(30)
     DEF Records, Ownership, LiveOwn, FreeOwn, LiveRecords, FreeRecords, ManagerOwns
<1>12. ManagerRecord'
  BY <1>4 DEF ManagerRecord
<1>13. Reading'
  <2>1. scan.pc \notin {"state", "done"} =>
          /\ ~Filling(scan.id)' /\ metadata'[scan.id] = metadata[scan.id]
    BY <1>0, <1>1, <1>4, <1>8, <1>9 DEF Held
  <2>2. QED
    BY <1>0, <1>1, <1>2, <1>4, <1>9, <2>1, ScanKept DEF CountersInv, Held, Sought
<1>14. QED
  BY <1>5, <1>6, <1>7, <1>10, <1>11, <1>12, <1>13 DEF CountersInv, Book, Ownership, Records

LEMMA CountersPublish ==
  ASSUME CountersInv, C!publish
  PROVE  CountersInv'
<1> USE CountersConstants
<1>0. BookType /\ Ownership /\ Records /\ Held /\ Sought
  BY DEF CountersInv, Book, Reading
<1>1. /\ UNCHANGED <<registration, freeList, highWaterMark, present, clock, scan>>
      /\ manager.op = "publish" /\ manager' = [manager EXCEPT !.op = "register"]
      /\ metadata' = [metadata EXCEPT ![manager.id]["state"] = 1]
      /\ counters' = [counters EXCEPT ![manager.counter] = manager.id]
  BY DEF C!publish, C!ReaderRest, C!Write, C!Step, C!RECORD_ALLOCATED
<1>2. /\ manager.id \in C!Ids /\ manager.counter \in 1 .. Len(counters)
      /\ metadata \in [C!Ids -> Record] /\ counters \in Seq({-1} \cup C!Ids)
      /\ manager.id <= highWaterMark
  BY <1>0, <1>1 DEF BookType, Ownership, ManagerOwns
<1>3. /\ counters' \in Seq({-1} \cup C!Ids) /\ Len(counters') = Len(counters)
      /\ counters'[manager.counter] = manager.id
      /\ \A n \in 1 .. Len(counters) : n # manager.counter => counters'[n] = counters[n]
  BY <1>1, <1>2
<1>4. C!Live' = C!Live \cup {manager.counter} /\ manager.counter \notin C!Live
      /\ C!Live \subseteq 1 .. Len(counters)
  <2>1. DOMAIN counters = 1 .. Len(counters) /\ DOMAIN counters' = 1 .. Len(counters)
    BY <1>2, <1>3
  <2>2. manager.counter \notin C!Live
    BY <1>0, <1>1 DEF Ownership, ManagerOwns, Reserving
  <2>3. manager.id # -1
    BY <1>2
  <2>4. QED
    BY <1>2, <1>3, <2>1, <2>2, <2>3 DEF C!Live, C!NULL_COUNTER_ID
<1>5. /\ metadata' \in [C!Ids -> Record]
      /\ \A i \in C!Ids : i # manager.id => metadata'[i] = metadata[i]
      /\ metadata'[manager.id].state = 1
      /\ metadata'[manager.id].type = metadata[manager.id].type
      /\ metadata'[manager.id].label = metadata[manager.id].label
      /\ metadata'[manager.id].key = metadata[manager.id].key
  BY <1>1, <1>2 DEF Record
<1>6. /\ manager'.op = "register" /\ manager'.id = manager.id
      /\ manager'.counter = manager.counter
      /\ manager' \in [op : Reserving \cup {"none", "register", "reclaim"}, counter : Nat,
                       id : C!Ids]
  BY <1>0, <1>1 DEF BookType
<1>7. /\ metadata[manager.id].type = manager.counter
      /\ metadata[manager.id].label = manager.counter
      /\ metadata[manager.id].key = manager.counter
  BY <1>0, <1>1 DEF Records, ManagerRecord
<1>8. /\ \A n \in C!Live : counters'[n] = counters[n] /\ counters[n] # manager.id
      /\ \A k \in 1 .. Len(freeList) : freeList[k] # manager.id
  BY <1>0, <1>1, <1>3, <1>4 DEF Ownership, ManagerOwns, Reserving
<1>9. BookType'
  BY <1>0, <1>1, <1>3, <1>5, <1>6 DEF BookType
<1>10. LiveOwn'
  BY <1>0, <1>1, <1>2, <1>3, <1>4, <1>8 DEF Ownership, LiveOwn
<1>11. FreeOwn'
  BY <1>0, <1>1, <1>3, <1>4, <1>8 DEF Ownership, FreeOwn, OneToOne
<1>12. ManagerOwns'
  BY <1>1, <1>2, <1>3, <1>4, <1>6 DEF ManagerOwns, Reserving
<1>13. \A i \in C!Ids : ~Filling(i)' /\ (Filling(i) <=> i = manager.id)
  BY <1>1, <1>6 DEF Filling, Reserving
<1>14. StatesTell'
  <2>1. SUFFICES ASSUME NEW i \in C!Ids
                 PROVE  Tells(i)'
    BY DEF StatesTell
  <2>2. CASE i = manager.id
    <3>1. highWaterMark \in Int /\ i \in Int /\ i <= highWaterMark /\ ~(i > highWaterMark)
      BY <1>0, <1>2, <2>2 DEF BookType
    <3>2. QED
      BY <1>1, <1>2, <1>5, <1>7, <1>13, <2>2, <3>1 DEF Tells
  <2>3. CASE i # manager.id
    BY <1>0, <1>1, <1>5, <1>13, <2>3 DEF Records, StatesTell, Tells
  <2>4. QED
    BY <2>2, <2>3
<1>15. LiveRecords'
  BY <1>0, <1>3, <1>4, <1>5, <1>7, <1>8 DEF Records, LiveRecords, Ownership, LiveOwn
<1>16. FreeRecords'
  BY <1>0, <1>1, <1>5, <1>8 DEF Records, FreeRecords, Ownership, FreeOwn
<1>17. ManagerRecord'
  BY <1>6 DEF ManagerRecord
<1>18. Reading'
  <2>1. scan.pc \notin {"state", "done"} =>
          ~Filling(scan.id)' /\ metadata'[scan.id] = metadata[scan.id]
    BY <1>0, <1>1, <1>5, <1>13 DEF Held
  <2>2. present \subseteq C!Live'
        /\ \A n \in present : counters'[n] = counters[n] /\ registration'[counters[n]] = n
    BY <1>0, <1>1, <1>4, <1>8 DEF Sought
  <2>3. QED
    BY <1>0, <1>1, <1>5, <1>13, <2>1, <2>2, ScanKept DEF CountersInv, Held
<1>19. QED
  BY <1>9, <1>10, <1>11, <1>12, <1>14, <1>15, <1>16, <1>17, <1>18
     DEF CountersInv, Book, Ownership, Records

LEMMA CountersRegister ==
  ASSUME CountersInv, C!setCounterRegistrationId
  PROVE  CountersInv'
<1> USE CountersConstants
<1>0. BookType /\ Ownership /\ Records /\ Held /\ Sought
  BY DEF CountersInv, Book, Reading
<1>1. /\ UNCHANGED <<metadata, freeList, highWaterMark, counters, present, clock, scan>>
      /\ manager.op = "register" /\ manager' = C!Resting
      /\ registration' = [registration EXCEPT ![manager.id] = manager.counter]
  BY DEF C!setCounterRegistrationId, C!ReaderRest
<1>2. C!Live' = C!Live
  BY <1>1 DEF C!Live
<1>3. /\ manager'.op = "none" /\ manager'.counter = 0
      /\ manager' \in [op : Reserving \cup {"none", "register", "reclaim"}, counter : Nat,
                       id : C!Ids]
  BY <1>1 DEF C!Resting
<1>4. /\ manager.id \in C!Ids /\ manager.counter \in Nat
      /\ manager.counter \in C!Live /\ counters[manager.counter] = manager.id
  BY <1>0, <1>1 DEF BookType, Ownership, ManagerOwns
<1>5. BookType'
  BY <1>0, <1>1, <1>3, <1>4 DEF BookType
<1>6. LiveOwn' /\ FreeOwn' /\ ManagerOwns'
  BY <1>0, <1>1, <1>2, <1>3 DEF Ownership, LiveOwn, FreeOwn, OneToOne, ManagerOwns, Reserving
<1>7. \A i \in C!Ids : ~Filling(i)' /\ ~Filling(i)
  BY <1>1, <1>3 DEF Filling, Reserving
<1>8. StatesTell' /\ LiveRecords' /\ FreeRecords' /\ ManagerRecord'
  BY <1>0, <1>1, <1>2, <1>3, <1>7
     DEF Records, StatesTell, Tells, LiveRecords, FreeRecords, ManagerRecord
<1>9. Reading'
  <2>1. \A n \in present : n \in C!Live /\ registration'[counters[n]] = n
    <3>1. TAKE n \in present
    <3>2. n \in C!Live /\ counters[n] \in C!Ids /\ registration[counters[n]] = n
      BY <1>0 DEF Sought, Ownership, LiveOwn
    <3>3. counters[n] = manager.id => n = manager.counter
      BY <1>0, <1>4, <3>2 DEF Ownership, LiveOwn
    <3>4. QED
      BY <1>0, <1>1, <3>2, <3>3 DEF BookType
  <2>2. scan.pc \notin {"state", "done"} => ~Filling(scan.id)'
    BY <1>0, <1>1, <1>7 DEF Held
  <2>3. QED
    BY <1>0, <1>1, <1>2, <2>1, <2>2, ScanKept DEF CountersInv, Held
<1>10. QED
  BY <1>5, <1>6, <1>8, <1>9 DEF CountersInv, Book, Ownership, Records

LEMMA CountersFree ==
  ASSUME CountersInv, C!free
  PROVE  CountersInv'
<1> USE CountersConstants
<1>0. BookType /\ Ownership /\ Records /\ Held /\ Sought
  BY DEF CountersInv, Book, Reading
<1>1. PICK n \in C!Live :
        /\ metadata' = [metadata EXCEPT ![counters[n]].deadline = clock + FreeToReuseTimeout,
                                        ![counters[n]].key = 0]
        /\ manager' = [op |-> "reclaim", counter |-> n, id |-> counters[n]]
        /\ counters' = [counters EXCEPT ![n] = -1]
        /\ present' = present \ {n}
  BY DEF C!free, C!NULL_COUNTER_ID
<1>2. manager = C!Resting /\ UNCHANGED <<registration, freeList, highWaterMark, clock, scan>>
  BY DEF C!free, C!ReaderRest
<1>3. PICK id \in C!Ids : id = counters[n] /\ id <= highWaterMark
  BY <1>0 DEF Ownership, LiveOwn
<1>4. /\ counters \in Seq({-1} \cup C!Ids) /\ n \in 1 .. Len(counters)
      /\ metadata \in [C!Ids -> Record] /\ clock \in Nat
  BY <1>0 DEF BookType, C!Live
<1>5. /\ counters' \in Seq({-1} \cup C!Ids) /\ Len(counters') = Len(counters)
      /\ counters'[n] = -1 /\ \A m \in 1 .. Len(counters) : m # n => counters'[m] = counters[m]
  BY <1>1, <1>4
<1>6. C!Live' = C!Live \ {n} /\ \A m \in C!Live' : counters'[m] = counters[m] /\ m \in C!Live
  <2>1. DOMAIN counters = 1 .. Len(counters) /\ DOMAIN counters' = 1 .. Len(counters)
    BY <1>4, <1>5
  <2>2. QED
    BY <1>5, <2>1 DEF C!Live, C!NULL_COUNTER_ID
<1>7. /\ metadata' \in [C!Ids -> Record]
      /\ \A i \in C!Ids : i # id => metadata'[i] = metadata[i]
      /\ metadata'[id].state = metadata[id].state /\ metadata'[id].key = 0
      /\ metadata'[id].type = metadata[id].type /\ metadata'[id].label = metadata[id].label
      /\ metadata'[id].deadline = clock + FreeToReuseTimeout
  <2> DEFINE m == [metadata[id] EXCEPT !.deadline = clock + FreeToReuseTimeout, !.key = 0]
  <2>1. /\ m \in Record /\ m.state = metadata[id].state /\ m.key = 0
        /\ m.type = metadata[id].type /\ m.label = metadata[id].label
        /\ m.deadline = clock + FreeToReuseTimeout
    <3>1. metadata[id] \in Record
      BY <1>4
    <3>2. clock + FreeToReuseTimeout \in Nat
      BY <1>4
    <3>3. QED
      BY <3>1, <3>2 DEF Record
  <2>2. metadata' = [metadata EXCEPT ![id] = m]
    BY <1>1, <1>3, <1>4 DEF Record
  <2> HIDE DEF m
  <2>3. QED
    BY <1>4, <2>1, <2>2
<1>8. /\ manager'.op = "reclaim" /\ manager'.counter = n /\ manager'.id = id
      /\ manager' \in [op : Reserving \cup {"none", "register", "reclaim"}, counter : Nat,
                       id : C!Ids]
  BY <1>1, <1>3, <1>4
<1>9. metadata[id].state = 1 /\ metadata[id].type = n /\ metadata[id].label = n
  BY <1>0, <1>3 DEF Records, LiveRecords
<1>10. /\ \A m \in C!Live' : counters[m] # id
       /\ \A k \in 1 .. Len(freeList) : freeList[k] # id /\ freeList[k] \in C!Ids
  BY <1>0, <1>3, <1>6 DEF Ownership, LiveOwn, FreeOwn
<1>11. BookType'
  BY <1>0, <1>2, <1>5, <1>7, <1>8 DEF BookType
<1>12. LiveOwn' /\ FreeOwn'
  BY <1>0, <1>2, <1>6 DEF Ownership, LiveOwn, FreeOwn, OneToOne
<1>13. ManagerOwns'
  BY <1>2, <1>3, <1>4, <1>5, <1>6, <1>8, <1>10 DEF ManagerOwns, Reserving
<1>14. \A i \in C!Ids : ~Filling(i)' /\ ~Filling(i)
  BY <1>2, <1>8 DEF Filling, Reserving, C!Resting
<1>15. StatesTell'
  <2>1. SUFFICES ASSUME NEW i \in C!Ids
                 PROVE  Tells(i)'
    BY DEF StatesTell
  <2>2. metadata'[i].state = metadata[i].state /\ Tells(i)
    BY <1>0, <1>7 DEF Records, StatesTell
  <2>3. CASE i = id
    BY <1>2, <1>7, <1>14, <2>2, <2>3 DEF Tells
  <2>4. CASE i # id
    BY <1>2, <1>7, <1>14, <2>2, <2>4 DEF Tells
  <2>5. QED
    BY <2>3, <2>4
<1>16. LiveRecords'
  BY <1>0, <1>6, <1>7, <1>10 DEF Records, LiveRecords, Ownership, LiveOwn
<1>17. FreeRecords'
  BY <1>0, <1>2, <1>7, <1>10 DEF Records, FreeRecords
<1>18. ManagerRecord'
  BY <1>2, <1>7, <1>8, <1>9 DEF ManagerRecord
<1>19. Reading'
  <2>1. present' \subseteq present /\ present' \subseteq C!Live'
        /\ \A m \in present' : counters'[m] = counters[m] /\ registration'[counters[m]] = m
    BY <1>0, <1>1, <1>2, <1>6 DEF Sought
  <2>2. scan.pc \notin {"state", "done"} =>
          /\ ~Filling(scan.id)'
          /\ \A k \in 1 .. Len(freeList') : freeList'[k] = scan.id =>
               metadata'[scan.id].deadline >= scan.since + FreeToReuseTimeout
    BY <1>0, <1>2, <1>7, <1>10, <1>14 DEF Held
  <2>3. \A i \in C!Ids : metadata[i].state # 0 =>
          /\ metadata'[i].state # 0 /\ metadata'[i].label = metadata[i].label
          /\ metadata'[i].type = metadata[i].type
    BY <1>7
  <2>4. QED
    BY <1>2, <2>1, <2>2, <2>3, ScanKept DEF CountersInv
<1>20. QED
  BY <1>11, <1>12, <1>13, <1>15, <1>16, <1>17, <1>18, <1>19
     DEF CountersInv, Book, Ownership, Records

LEMMA CountersReclaim ==
  ASSUME CountersInv, C!reclaim
  PROVE  CountersInv'
<1> USE CountersConstants
<1>0. BookType /\ Ownership /\ Records /\ Held /\ Sought
  BY DEF CountersInv, Book, Reading
<1>1. /\ manager.op = "reclaim" /\ manager' = C!Resting
      /\ metadata' = [metadata EXCEPT ![manager.id]["state"] = -1]
      /\ freeList' = Append(freeList, manager.id)
      /\ UNCHANGED <<registration, highWaterMark, counters, present, clock, scan>>
  BY DEF C!reclaim, C!ReaderRest, C!Write, C!RECORD_RECLAIMED
<1>2. PICK id \in C!Ids : id = manager.id /\ id <= highWaterMark
  BY <1>0, <1>1 DEF BookType, Ownership, ManagerOwns
<1>3. C!Live' = C!Live
  BY <1>1 DEF C!Live
<1>4. /\ \A n \in C!Live : counters[n] # id
      /\ \A k \in 1 .. Len(freeList) : freeList[k] # id
  BY <1>0, <1>1, <1>2 DEF Ownership, ManagerOwns
<1>5. freeList \in Seq(C!Ids) /\ metadata \in [C!Ids -> Record]
  BY <1>0 DEF BookType
<1>6. /\ freeList' \in Seq(C!Ids) /\ Len(freeList') = Len(freeList) + 1
      /\ freeList'[Len(freeList) + 1] = id
      /\ \A k \in 1 .. Len(freeList) : freeList'[k] = freeList[k]
  BY <1>1, <1>2, <1>5
<1>7. \A k \in 1 .. Len(freeList') :
        k \in 1 .. Len(freeList) \/ (k = Len(freeList) + 1 /\ freeList'[k] = id)
  BY <1>5, <1>6
<1>8. /\ metadata' \in [C!Ids -> Record]
      /\ \A i \in C!Ids : i # id => metadata'[i] = metadata[i]
      /\ metadata'[id].state = -1 /\ metadata'[id].key = metadata[id].key
      /\ metadata'[id].type = metadata[id].type /\ metadata'[id].label = metadata[id].label
      /\ metadata'[id].deadline = metadata[id].deadline
  BY <1>1, <1>2, <1>5 DEF Record
<1>9. /\ manager'.op = "none" /\ manager'.counter = 0
      /\ manager' \in [op : Reserving \cup {"none", "register", "reclaim"}, counter : Nat,
                       id : C!Ids]
  BY <1>1 DEF C!Resting
<1>10. BookType'
  BY <1>0, <1>1, <1>6, <1>8, <1>9 DEF BookType
<1>11. LiveOwn' /\ ManagerOwns'
  BY <1>0, <1>1, <1>3, <1>9 DEF Ownership, LiveOwn, ManagerOwns, Reserving
<1>12. FreeOwn'
  <2>1. OneToOne(freeList)'
    <3>1. OneToOne(freeList)
      BY <1>0 DEF Ownership, FreeOwn
    <3>2. QED
      BY <1>4, <1>6, <1>7, <3>1 DEF OneToOne
  <2>2. QED
    BY <1>0, <1>1, <1>2, <1>3, <1>4, <1>6, <1>7, <2>1 DEF Ownership, FreeOwn
<1>13. \A i \in C!Ids : ~Filling(i)' /\ ~Filling(i)
  BY <1>1, <1>9 DEF Filling, Reserving
<1>14. metadata[id].state = 1 /\ metadata[id].deadline = clock + FreeToReuseTimeout
  BY <1>0, <1>1, <1>2 DEF Records, ManagerRecord
<1>15. StatesTell'
  <2>1. SUFFICES ASSUME NEW i \in C!Ids
                 PROVE  Tells(i)'
    BY DEF StatesTell
  <2>2. Tells(i)
    BY <1>0 DEF Records, StatesTell
  <2>3. CASE i = id
    BY <1>1, <1>8, <1>13, <1>14, <2>2, <2>3 DEF Tells
  <2>4. CASE i # id
    BY <1>1, <1>8, <1>13, <2>2, <2>4 DEF Tells
  <2>5. QED
    BY <2>3, <2>4
<1>16. LiveRecords' /\ ManagerRecord'
  BY <1>0, <1>1, <1>3, <1>4, <1>8, <1>9
     DEF Records, LiveRecords, ManagerRecord, Ownership, LiveOwn
<1>17. FreeRecords'
  BY <1>0, <1>4, <1>6, <1>7, <1>8, SMTT(30) DEF Records, FreeRecords, Ownership, FreeOwn
<1>18. Reading'
  <2>1. \A n \in present : n \in C!Live /\ registration'[counters[n]] = n
    BY <1>0, <1>1 DEF Sought
  <2>2. scan.pc \notin {"state", "done"} =>
          /\ ~Filling(scan.id)'
          /\ \A k \in 1 .. Len(freeList') : freeList'[k] = scan.id =>
               metadata'[scan.id].deadline >= scan.since + FreeToReuseTimeout
    <3>1. SUFFICES ASSUME scan.pc \notin {"state", "done"}
                   PROVE  /\ ~Filling(scan.id)'
                          /\ \A k \in 1 .. Len(freeList') : freeList'[k] = scan.id =>
                               metadata'[scan.id].deadline >= scan.since + FreeToReuseTimeout
      OBVIOUS
    <3>2. /\ scan.id \in C!Ids /\ scan.since <= clock
          /\ \A k \in 1 .. Len(freeList) : freeList[k] = scan.id =>
               metadata[scan.id].deadline >= scan.since + FreeToReuseTimeout
      BY <1>0, <3>1 DEF Held
    <3>3. scan.since \in Nat /\ clock \in Nat
      BY <1>0 DEF CountersInv, Reading, ScanType, ScanRecord, BookType
    <3>4. metadata'[scan.id].deadline = metadata[scan.id].deadline
      BY <1>8, <3>2
    <3>5. scan.id = id => metadata[scan.id].deadline >= scan.since + FreeToReuseTimeout
      BY <1>14, <3>2, <3>3
    <3>6. QED
      BY <1>1, <1>6, <1>7, <1>13, <3>2, <3>4, <3>5
  <2>3. \A i \in C!Ids : metadata[i].state # 0 =>
          /\ metadata'[i].state # 0 /\ metadata'[i].label = metadata[i].label
          /\ metadata'[i].type = metadata[i].type
    BY <1>8
  <2>4. QED
    BY <1>1, <1>3, <2>1, <2>2, <2>3, ScanKept DEF CountersInv
<1>19. QED
  BY <1>10, <1>11, <1>12, <1>15, <1>16, <1>17, <1>18
     DEF CountersInv, Book, Ownership, Records

(* Time passes only while a scan still has some left for its record. *)
LEMMA CountersTick ==
  ASSUME CountersInv, C!Tick
  PROVE  CountersInv'
<1> USE CountersConstants
<1>0. BookType /\ Ownership /\ Records /\ ScanType /\ Held /\ Sought /\ C!SnapshotOfOneCounter
  BY DEF CountersInv, Book, Reading
<1>1. /\ clock' = clock + 1 /\ manager.op # "reclaim"
      /\ scan.op # "none" /\ scan.pc \notin {"state", "done"} =>
           clock + 1 - scan.since < FreeToReuseTimeout
      /\ UNCHANGED <<metadata, registration, freeList, highWaterMark, manager, counters, scan,
                     present>>
  BY DEF C!Tick, C!ManagerRest
<1>2. C!Live' = C!Live /\ clock \in Nat /\ scan.since \in Nat
  BY <1>0, <1>1 DEF C!Live, BookType, ScanType, ScanRecord
<1>3. BookType'
  BY <1>0, <1>1, <1>2 DEF BookType
<1>4. Ownership'
  BY <1>0, <1>1, <1>2 DEF Ownership, LiveOwn, FreeOwn, OneToOne, ManagerOwns
<1>5. \A i \in C!Ids : Filling(i)' <=> Filling(i)
  BY <1>1 DEF Filling
<1>6. Records'
  BY <1>0, <1>1, <1>2, <1>5
     DEF Records, StatesTell, Tells, LiveRecords, FreeRecords, ManagerRecord
<1>7. ScanType' /\ Sought' /\ C!SnapshotOfOneCounter'
  BY <1>0, <1>1, <1>2 DEF ScanType, ScanSteps, Sought, C!SnapshotOfOneCounter
<1>8. Held'
  <2>1. scan.pc \notin {"state", "done"} => scan.op # "none"
    BY <1>0 DEF ScanType, ScanSteps
  <2>2. scan.pc \notin {"state", "done"} =>
          scan.since <= clock + 1 /\ clock + 1 < scan.since + FreeToReuseTimeout
    BY <1>0, <1>1, <1>2, <2>1 DEF Held
  <2>3. QED
    BY <1>0, <1>1, <1>5, <2>2 DEF Held
<1>9. QED
  BY <1>3, <1>4, <1>6, <1>7, <1>8 DEF CountersInv, Book, Reading

-----------------------------------------------------------------------------
(* A step of the reader leaves the books of the manager alone. *)
BookRests == UNCHANGED <<metadata, registration, freeList, highWaterMark, clock, manager, counters>>

LEMMA BookKept ==
  ASSUME Book, BookRests
  PROVE  Book' /\ C!Live' = C!Live
<1>1. C!Live' = C!Live
  BY DEF C!Live, BookRests
<1>2. BookType'
  BY DEF Book, BookType, BookRests
<1>3. Ownership'
  BY <1>1 DEF Book, Ownership, LiveOwn, FreeOwn, OneToOne, ManagerOwns, BookRests
<1>4. Records'
  BY <1>1 DEF Book, Records, StatesTell, Tells, Filling, LiveRecords, FreeRecords, ManagerRecord,
              BookRests
<1>5. QED
  BY <1>1, <1>2, <1>3, <1>4 DEF Book

(* The counters that a scan has still to report. *)
Missing(n) ==
  /\ n \in present /\ scan.op \in {"forEach", "find", "active"} /\ scan.target \in {0, n}
  /\ ~\E s \in scan.seen : s.label = n

(* A scan ends when nothing is missing. *)
LEMMA ScanEnds ==
  ASSUME CountersInv, BookRests, UNCHANGED present, scan' = C!EndScan, scan.op # "none",
         \A n \in present : ~Missing(n)
  PROVE  CountersInv'
<1>1. ScanType /\ Sought /\ C!SnapshotOfOneCounter
  BY DEF CountersInv, Reading
<1>2. /\ scan'.pc = "done" /\ scan'.op = scan.op /\ scan'.target = scan.target
      /\ scan'.seen = scan.seen /\ scan' \in ScanRecord
  BY <1>1 DEF C!EndScan, ScanType, ScanRecord
<1>3. Book' /\ C!Live' = C!Live
  BY BookKept DEF CountersInv
<1>4. ScanType'
  BY <1>1, <1>2 DEF ScanType, ScanSteps
<1>5. Held' /\ C!SnapshotOfOneCounter'
  BY <1>1, <1>2 DEF Held, C!SnapshotOfOneCounter
<1>6. Sought'
  BY <1>1, <1>2, <1>3 DEF Sought, Missing, BookRests
<1>7. QED
  BY <1>3, <1>4, <1>5, <1>6 DEF CountersInv, Reading

(* A scan goes on to the next record when it has not missed this one. *)
LEMMA ScanMoves ==
  ASSUME CountersInv, BookRests, UNCHANGED present, scan' = C!NextRecord(scan),
         scan.op \in {"forEach", "find", "heartbeat", "address"}, scan.pc # "done",
         \A n \in present : Missing(n) => counters[n] # scan.id
  PROVE  CountersInv'
<1>1. ScanType /\ Sought /\ C!SnapshotOfOneCounter
  BY DEF CountersInv, Reading
<1>2. scan.id + 1 \in Nat /\ scan.id \in Nat
  BY <1>1 DEF ScanType, ScanRecord
<1>3. /\ scan'.pc = "state" /\ scan'.op = scan.op /\ scan'.target = scan.target
      /\ scan'.seen = scan.seen /\ scan'.id = scan.id + 1
      /\ scan' \in ScanRecord
  BY <1>1, <1>2 DEF C!NextRecord, ScanType, ScanRecord
<1>4. Book' /\ C!Live' = C!Live
  BY BookKept DEF CountersInv
<1>5. ScanType'
  BY <1>1, <1>3 DEF ScanType, ScanSteps
<1>6. Held' /\ C!SnapshotOfOneCounter'
  BY <1>1, <1>3 DEF Held, C!SnapshotOfOneCounter
<1>7. Sought'
  <2>1. \A n \in present : counters[n] \in Int
    BY <1>1, CountersConstants DEF Sought, CountersInv, Book, Ownership, LiveOwn
  <2>2. \A n \in present : Missing(n) => scan.id + 1 <= counters[n]
    BY <1>1, <1>2, <2>1 DEF Sought, Missing
  <2>3. QED
    BY <1>1, <1>3, <1>4, <2>2 DEF Sought, Missing, BookRests
<1>8. QED
  BY <1>4, <1>5, <1>6, <1>7 DEF CountersInv, Reading

(* A scan that has found its target. *)
LEMMA ScanFinds ==
  ASSUME CountersInv, BookRests, UNCHANGED present, scan' = C!Found(scan),
         scan.op \in {"find", "heartbeat", "address", "active"}
  PROVE  CountersInv'
<1>1. ScanType /\ Sought
  BY DEF CountersInv, Reading
<1> DEFINE r == [label |-> scan.target, type |-> scan.target, key |-> scan.target]
<1>2. r \in Report /\ r.label = scan.target /\ r.type = scan.target /\ r.key = scan.target
  BY <1>1 DEF ScanType, ScanRecord, Report
<1>3. scan' = [scan EXCEPT !.seen = {r}, !.pc = "done"]
  BY DEF C!Found
<1> HIDE DEF r
<1>4. /\ scan'.pc = "done" /\ scan'.op = scan.op /\ scan'.target = scan.target
      /\ scan'.seen = {r}
      /\ scan' \in ScanRecord
  <2>1. {r} \in SUBSET Report
    BY <1>2
  <2>2. PICK seen \in SUBSET Report : seen = {r}
    BY <2>1
  <2>3. scan' = [scan EXCEPT !.seen = seen, !.pc = "done"]
    BY <1>3, <2>2
  <2>4. QED
    BY <1>1, <2>2, <2>3 DEF ScanType, ScanRecord
<1>5. Book' /\ C!Live' = C!Live
  BY BookKept DEF CountersInv
<1>6. ScanType'
  BY <1>1, <1>4 DEF ScanType, ScanSteps
<1>7. Held' /\ C!SnapshotOfOneCounter'
  BY <1>2, <1>4 DEF Held, C!SnapshotOfOneCounter
<1>8. Sought'
  BY <1>1, <1>2, <1>4, <1>5 DEF Sought, BookRests
<1>9. QED
  BY <1>5, <1>6, <1>7, <1>8 DEF CountersInv, Reading

(* A scan that stays at its record. *)
LEMMA ScanStays ==
  ASSUME CountersInv, BookRests, UNCHANGED present, scan' \in ScanRecord, ScanSteps', Held',
         scan'.op = scan.op, scan'.target = scan.target, scan'.id = scan.id,
         scan'.seen = scan.seen, scan.pc # "done", scan'.pc # "done"
  PROVE  CountersInv'
<1>1. Book' /\ C!Live' = C!Live
  BY BookKept DEF CountersInv
<1>2. Sought /\ C!SnapshotOfOneCounter
  BY DEF CountersInv, Reading
<1>3. Sought' /\ C!SnapshotOfOneCounter'
  BY <1>1, <1>2 DEF Sought, C!SnapshotOfOneCounter, BookRests
<1>4. QED
  BY <1>1, <1>3 DEF CountersInv, Reading, ScanType

(* The state of the record is RECORD_ALLOCATED: the scan reads on. *)
LEMMA ScanLooks ==
  ASSUME CountersInv, BookRests, UNCHANGED present, FreeToReuseTimeout > 0,
         NEW p \in {"label", "registration", "key", "type"},
         scan' = [scan EXCEPT !.pc = p, !.since = clock], scan.pc = "state",
         scan.id \in C!Ids, metadata[scan.id].state = 1,
         \/ scan.op = "forEach" /\ p = "label"
         \/ scan.op = "find" /\ p = "registration"
         \/ scan.op = "heartbeat" /\ p = "key"
         \/ scan.op = "address" /\ p = "type"
  PROVE  CountersInv'
<1> USE CountersConstants
<1>1. scan \in ScanRecord /\ clock \in Nat
  BY DEF CountersInv, Reading, ScanType, Book, BookType
<1>2. /\ scan'.pc = p /\ scan'.op = scan.op /\ scan'.target = scan.target /\ scan'.id = scan.id
      /\ scan'.seen = scan.seen /\ scan'.since = clock /\ scan' \in ScanRecord
  BY <1>1 DEF ScanRecord
<1>3. ScanSteps'
  BY <1>2 DEF ScanSteps
<1>4. Held'
  <2>1. ~Filling(scan.id)
    BY DEF CountersInv, Book, Records, StatesTell, Tells
  <2>2. \A k \in 1 .. Len(freeList) : freeList[k] # scan.id
    BY DEF CountersInv, Book, Records, FreeRecords
  <2>3. QED
    BY <1>1, <1>2, <2>1, <2>2 DEF Held, BookRests, Filling
<1>5. QED
  BY <1>2, <1>3, <1>4, ScanStays

LEMMA CountersReadState ==
  ASSUME CountersInv, C!readState, FreeToReuseTimeout > 0
  PROVE  CountersInv'
<1> USE CountersConstants
<1>1. /\ scan.op \in {"forEach", "find"} /\ scan.pc = "state" /\ BookRests /\ UNCHANGED present
      /\ scan' = IF ~C!Continue THEN C!EndScan
                 ELSE IF metadata[scan.id].state = C!RECORD_ALLOCATED
                 THEN [scan EXCEPT !.pc = IF scan.op = "find" THEN "registration" ELSE "label",
                                   !.since = clock]
                 ELSE C!NextRecord(scan)
  BY DEF C!readState, C!ManagerRest, BookRests
<1>2. scan \in ScanRecord /\ scan.id \in Nat
  BY DEF CountersInv, Reading, ScanType, ScanRecord
<1>3. \A n \in present : Missing(n) => scan.id <= counters[n]
  BY <1>1 DEF CountersInv, Reading, Sought, Missing
<1>4. \A n \in present : /\ counters[n] \in C!Ids /\ counters[n] <= highWaterMark
                         /\ metadata[counters[n]].state = 1
  BY DEF CountersInv, Reading, Sought, Book, Ownership, LiveOwn, Records, LiveRecords
<1>5. CASE ~C!Continue
  <2>1. \A n \in present : ~Missing(n)
    <3>1. SUFFICES ASSUME NEW n \in present, Missing(n)
                   PROVE  FALSE
      OBVIOUS
    <3>2. scan.id <= counters[n] /\ counters[n] \in C!Ids /\ scan.id \in C!Ids
      BY <1>2, <1>3, <1>4, <3>1
    <3>3. metadata[scan.id].state = 0
      BY <1>5, <3>2 DEF C!Continue, C!RECORD_UNUSED
    <3>4. scan.id # counters[n]
      BY <1>4, <3>3
    <3>5. scan.id < highWaterMark /\ highWaterMark \in Int
      BY <1>2, <1>4, <3>2, <3>4, SMTT(30) DEF CountersInv, Book, BookType
    <3>6. QED
      BY <1>2, <3>2, <3>3, <3>5 DEF CountersInv, Book, Records, StatesTell, Tells
  <2>2. QED
    BY <1>1, <1>5, <2>1, ScanEnds
<1>6. CASE C!Continue
  <2>1. scan.id \in C!Ids
    BY <1>2, <1>6 DEF C!Continue
  <2>2. CASE metadata[scan.id].state = C!RECORD_ALLOCATED
    <3>1. metadata[scan.id].state = 1
      BY <2>2 DEF C!RECORD_ALLOCATED
    <3>2. CASE scan.op = "find"
      <4>1. scan' = [scan EXCEPT !.pc = "registration", !.since = clock]
        BY <1>1, <1>6, <2>2, <3>2
      <4>2. QED
        BY <1>1, <2>1, <3>1, <3>2, <4>1, ScanLooks
    <3>3. CASE scan.op = "forEach"
      <4>1. scan' = [scan EXCEPT !.pc = "label", !.since = clock]
        BY <1>1, <1>6, <2>2, <3>3
      <4>2. QED
        BY <1>1, <2>1, <3>1, <3>3, <4>1, ScanLooks
    <3>4. QED
      BY <1>1, <3>2, <3>3
  <2>3. CASE metadata[scan.id].state # C!RECORD_ALLOCATED
    <3>1. scan' = C!NextRecord(scan)
      BY <1>1, <1>6, <2>3
    <3>2. \A n \in present : counters[n] # scan.id
      BY <1>4, <2>3 DEF C!RECORD_ALLOCATED
    <3>3. QED
      BY <1>1, <3>1, <3>2, ScanMoves
  <2>4. QED
    BY <2>2, <2>3
<1>7. QED
  BY <1>5, <1>6

(* forEach reads the label, then the type. *)
LEMMA CountersReadFields ==
  ASSUME CountersInv, C!readLabel \/ C!readType
  PROVE  CountersInv'
<1> USE CountersConstants
<1>1. /\ scan.op = "forEach" /\ BookRests /\ UNCHANGED present
      /\ \/ scan.pc = "label" /\ scan' = [scan EXCEPT !.label = metadata[scan.id].label,
                                                      !.pc = "type"]
         \/ scan.pc = "type" /\ scan' = [scan EXCEPT !.type = metadata[scan.id].type,
                                                     !.pc = "key"]
  BY DEF C!readLabel, C!readType, C!ManagerRest, BookRests
<1>2. Held /\ scan.id \in C!Ids
  BY <1>1 DEF CountersInv, Reading, Held
<1>3. metadata[scan.id].label \in Nat /\ metadata[scan.id].type \in Nat /\ scan \in ScanRecord
  BY <1>2 DEF CountersInv, Reading, ScanType, Book, BookType, Record
<1>4. /\ scan'.op = scan.op /\ scan'.target = scan.target /\ scan'.id = scan.id
      /\ scan'.seen = scan.seen /\ scan'.since = scan.since /\ scan' \in ScanRecord
      /\ \/ scan'.pc = "type" /\ scan'.label = metadata[scan.id].label
         \/ scan.pc = "type" /\ scan'.pc = "key" /\ scan'.type = metadata[scan.id].type
            /\ scan'.label = scan.label
  BY <1>1, <1>3 DEF ScanRecord
<1>5. ScanSteps'
  BY <1>1, <1>4 DEF ScanSteps
<1>6. Held'
  BY <1>1, <1>2, <1>4 DEF Held, BookRests, Filling
<1>7. QED
  BY <1>1, <1>4, <1>5, <1>6, ScanStays

(* forEach reports the counter of the record that it has read. *)
LEMMA CountersReport ==
  ASSUME CountersInv, C!onCountersMetadata
  PROVE  CountersInv'
<1> USE CountersConstants
<1> DEFINE r == [label |-> scan.label, type |-> scan.type, key |-> metadata[scan.id].key]
<1>1. /\ scan.op = "forEach" /\ scan.pc = "key" /\ BookRests /\ UNCHANGED present
      /\ scan' = C!NextRecord([scan EXCEPT !.seen = @ \cup {r}])
  BY DEF C!onCountersMetadata, C!ManagerRest, BookRests
<1>2. /\ scan.id \in C!Ids /\ metadata[scan.id].state # 0 /\ ~Filling(scan.id)
      /\ scan.label = metadata[scan.id].label /\ scan.type = metadata[scan.id].type
  BY <1>1 DEF CountersInv, Reading, Held
<1>3. metadata[scan.id] \in Record /\ scan \in ScanRecord
  BY <1>2 DEF CountersInv, Reading, ScanType, Book, BookType
<1>4. r.label = r.type /\ r.key \in {0, r.label} /\ r \in Report
      /\ r.label = metadata[scan.id].label
  <2>1. /\ metadata[scan.id].type = metadata[scan.id].label
        /\ metadata[scan.id].key \in {0, metadata[scan.id].label}
    BY <1>2 DEF CountersInv, Book, Records, StatesTell, Tells
  <2>2. QED
    BY <1>2, <1>3, <2>1 DEF Record, Report
<1> HIDE DEF r
<1>5. scan.seen \cup {r} \in SUBSET Report /\ scan.id + 1 \in Nat /\ scan.id \in Nat
  BY <1>2, <1>3, <1>4 DEF ScanRecord
<1>6. PICK seen \in SUBSET Report : seen = scan.seen \cup {r}
  BY <1>5
<1>7. scan' = [scan EXCEPT !.seen = seen, !.id = scan.id + 1, !.pc = "state"]
  BY <1>1, <1>3, <1>6 DEF C!NextRecord, ScanRecord
<1>8. /\ scan'.op = "forEach" /\ scan'.target = scan.target /\ scan'.id = scan.id + 1
      /\ scan'.seen = scan.seen \cup {r} /\ scan'.pc = "state" /\ scan' \in ScanRecord
  BY <1>1, <1>3, <1>5, <1>6, <1>7 DEF ScanRecord
<1>9. Book' /\ C!Live' = C!Live
  BY <1>1, BookKept DEF CountersInv
<1>10. ScanType' /\ Held'
  BY <1>8 DEF ScanType, ScanSteps, Held
<1>11. C!SnapshotOfOneCounter'
  BY <1>4, <1>8 DEF CountersInv, Reading, C!SnapshotOfOneCounter
<1>12. Sought'
  <2>1. Sought
    BY DEF CountersInv, Reading
  <2>2. \A n \in present : counters[n] \in C!Ids /\ metadata[counters[n]].label = n
    BY <2>1 DEF CountersInv, Book, Sought, Ownership, LiveOwn, Records, LiveRecords
  <2>3. ASSUME NEW n \in present
        PROVE  scan.id + 1 <= counters[n] \/ \E x \in scan'.seen : x.label = n
    <3>1. CASE counters[n] = scan.id
      <4>1. r \in scan'.seen /\ r.label = n
        BY <1>4, <1>8, <2>2, <3>1
      <4>2. QED
        BY <4>1
    <3>2. CASE counters[n] # scan.id
      <4>1. scan.id <= counters[n] \/ \E x \in scan.seen : x.label = n
        BY <1>1, <2>1 DEF Sought
      <4>2. CASE scan.id <= counters[n]
        <5>1. scan.id + 1 <= counters[n]
          BY <1>5, <2>2, <3>2, <4>2
        <5>2. QED
          BY <5>1
      <4>3. CASE \E x \in scan.seen : x.label = n
        BY <1>8, <4>3
      <4>4. QED
        BY <4>1, <4>2, <4>3
    <3>3. QED
      BY <3>1, <3>2
  <2>4. QED
    BY <1>1, <1>8, <1>9, <2>1, <2>3 DEF Sought, BookRests
<1>13. QED
  BY <1>9, <1>10, <1>11, <1>12 DEF CountersInv, Reading

LEMMA CountersFind ==
  ASSUME CountersInv, C!findByRegistrationId
  PROVE  CountersInv'
<1>1. /\ scan.op = "find" /\ scan.pc = "registration" /\ BookRests /\ UNCHANGED present
      /\ scan' = IF registration[scan.id] = scan.target THEN C!Found(scan)
                 ELSE C!NextRecord(scan)
  BY DEF C!findByRegistrationId, C!ManagerRest, BookRests
<1>2. CASE registration[scan.id] = scan.target
  BY <1>1, <1>2, ScanFinds
<1>3. CASE registration[scan.id] # scan.target
  <2>1. scan' = C!NextRecord(scan)
    BY <1>1, <1>3
  <2>2. \A n \in present : Missing(n) => scan.target = n /\ registration[counters[n]] = n
    BY <1>1 DEF CountersInv, Reading, Sought, Missing
  <2>3. \A n \in present : Missing(n) => counters[n] # scan.id
    BY <1>3, <2>2
  <2>4. QED
    BY <1>1, <2>1, <2>3, ScanMoves
<1>4. QED
  BY <1>2, <1>3

(* A scan that goes on at its record, to a step that rests on its label    *)
(* only if the record has that label.                                      *)
LEMMA ScanGoes ==
  ASSUME CountersInv, BookRests, UNCHANGED present,
         NEW p \in {"key", "type", "value", "endpoint"}, scan' = [scan EXCEPT !.pc = p],
         \/ scan.op = "heartbeat" /\ scan.pc = "key" /\ p = "type"
         \/ scan.op = "address" /\ scan.pc \in {"type", "key", "value"}
            /\ p \in {"key", "value", "endpoint"},
         p # "key" => metadata[scan.id].label = scan.target
  PROVE  CountersInv'
<1>1. scan \in ScanRecord /\ Held
  BY DEF CountersInv, Reading, ScanType
<1>2. /\ scan'.op = scan.op /\ scan'.target = scan.target /\ scan'.id = scan.id
      /\ scan'.seen = scan.seen /\ scan'.since = scan.since /\ scan' \in ScanRecord
      /\ scan'.pc = p
  BY <1>1 DEF ScanRecord
<1>3. ScanSteps'
  BY <1>2 DEF ScanSteps
<1>4. Held'
  BY <1>1, <1>2 DEF Held, BookRests, Filling
<1>5. QED
  BY <1>2, <1>3, <1>4, ScanStays

(* The key of a record that a scan looks at is zeroed or that of the       *)
(* counter in the label.                                                   *)
LEMMA KeyTellsLabel ==
  ASSUME CountersInv, scan.pc \notin {"state", "done"}
  PROVE  metadata[scan.id].key \in {0, metadata[scan.id].label}
BY DEF CountersInv, Reading, Held, Book, Records, StatesTell, Tells

(* A scan that returns the endpoint of its target. *)
LEMMA ScanFindsEndpoint ==
  ASSUME CountersInv, BookRests, UNCHANGED present, scan.op = "address",
         scan' = C!FoundEndpoint(scan.target)
  PROVE  CountersInv'
BY ScanFinds DEF C!FoundEndpoint, C!Found

LEMMA CountersHeartbeat ==
  ASSUME CountersInv, C!findCounterIdByRegistrationId, FreeToReuseTimeout > 0
  PROVE  CountersInv'
<1> USE CountersConstants
<1>1. /\ scan.op = "heartbeat" /\ scan.pc \in {"state", "key", "type"} /\ BookRests
      /\ UNCHANGED present
  BY DEF C!findCounterIdByRegistrationId, C!ManagerRest, BookRests, CountersInv, Reading,
         ScanType, ScanSteps
<1>2. \/ scan' = C!EndScan
      \/ ~C!LoopEnds /\ metadata[scan.id].state = C!RECORD_ALLOCATED /\ scan.pc = "state"
         /\ scan' = [scan EXCEPT !.pc = "key", !.since = clock]
      \/ scan.pc = "key" /\ metadata[scan.id].key = scan.target
         /\ scan' = [scan EXCEPT !.pc = "type"]
      \/ scan' = C!NextRecord(scan)
      \/ scan' = C!Found(scan)
  BY <1>1 DEF C!findCounterIdByRegistrationId
<1>3. \A n \in present : ~Missing(n)
  BY <1>1 DEF Missing
<1>4. CASE scan' = C!EndScan
  BY <1>1, <1>3, <1>4, ScanEnds
<1>5. CASE ~C!LoopEnds /\ metadata[scan.id].state = C!RECORD_ALLOCATED /\ scan.pc = "state"
           /\ scan' = [scan EXCEPT !.pc = "key", !.since = clock]
  <2>1. scan.id \in C!Ids /\ metadata[scan.id].state = 1
    BY <1>5 DEF C!LoopEnds, C!Ids, C!RECORD_ALLOCATED, CountersInv, Reading, ScanType, ScanRecord
  <2>2. QED
    BY <1>1, <1>5, <2>1, ScanLooks
<1>6. CASE scan.pc = "key" /\ metadata[scan.id].key = scan.target
           /\ scan' = [scan EXCEPT !.pc = "type"]
  <2>1. metadata[scan.id].label = scan.target
    BY <1>1, <1>6, KeyTellsLabel DEF CountersInv, Reading, Sought
  <2>2. QED
    BY <1>1, <1>6, <2>1, ScanGoes
<1>7. CASE scan' = C!NextRecord(scan)
  BY <1>1, <1>3, <1>7, ScanMoves
<1>8. CASE scan' = C!Found(scan)
  BY <1>1, <1>8, ScanFinds
<1>9. QED
  BY <1>2, <1>4, <1>5, <1>6, <1>7, <1>8

LEMMA CountersAddress ==
  ASSUME CountersInv, C!findAddress, FreeToReuseTimeout > 0
  PROVE  CountersInv'
<1> USE CountersConstants
<1>1. /\ scan.op = "address" /\ BookRests /\ UNCHANGED present
      /\ scan.pc \in {"state", "type", "key", "value", "endpoint"}
  BY DEF C!findAddress, C!ManagerRest, BookRests, CountersInv, Reading, ScanType, ScanSteps
<1>2. /\ scan.pc = "key" /\ metadata[scan.id].key = scan.target =>
           metadata[scan.id].label = scan.target
      /\ scan.pc \in {"value", "endpoint"} => metadata[scan.id].label = scan.target
  <2>1. scan.pc = "key" /\ metadata[scan.id].key = scan.target =>
          metadata[scan.id].label = scan.target
    BY <1>1, KeyTellsLabel DEF CountersInv, Reading, Sought
  <2>2. scan.pc \in {"value", "endpoint"} => metadata[scan.id].label = scan.target
    BY <1>1 DEF CountersInv, Reading, Held
  <2>3. QED
    BY <2>1, <2>2
<1>3. \/ scan' = C!EndScan
      \/ ~C!LoopEnds /\ metadata[scan.id].state = C!RECORD_ALLOCATED /\ scan.pc = "state"
         /\ scan' = [scan EXCEPT !.pc = "type", !.since = clock]
      \/ scan.pc = "type" /\ scan' = [scan EXCEPT !.pc = "key"]
      \/ scan.pc = "key" /\ metadata[scan.id].key = scan.target
         /\ scan' = [scan EXCEPT !.pc = "value"]
      \/ scan.pc = "value" /\ scan' = [scan EXCEPT !.pc = "endpoint"]
      \/ scan' = C!NextRecord(scan)
      \/ scan.pc = "endpoint" /\ metadata[scan.id].key # 0
         /\ scan' = C!FoundEndpoint(metadata[scan.id].key)
  BY <1>1 DEF C!findAddress
<1>4. \A n \in present : ~Missing(n)
  BY <1>1 DEF Missing
<1>5. CASE scan' = C!EndScan
  BY <1>1, <1>4, <1>5, ScanEnds
<1>6. CASE ~C!LoopEnds /\ metadata[scan.id].state = C!RECORD_ALLOCATED /\ scan.pc = "state"
           /\ scan' = [scan EXCEPT !.pc = "type", !.since = clock]
  <2>1. scan.id \in C!Ids /\ metadata[scan.id].state = 1
    BY <1>6 DEF C!LoopEnds, C!Ids, C!RECORD_ALLOCATED, CountersInv, Reading, ScanType, ScanRecord
  <2>2. QED
    BY <1>1, <1>6, <2>1, ScanLooks
<1>7. CASE scan.pc = "type" /\ scan' = [scan EXCEPT !.pc = "key"]
  BY <1>1, <1>7, ScanGoes
<1>8. CASE scan.pc = "key" /\ metadata[scan.id].key = scan.target
           /\ scan' = [scan EXCEPT !.pc = "value"]
  BY <1>1, <1>2, <1>8, ScanGoes
<1>9. CASE scan.pc = "value" /\ scan' = [scan EXCEPT !.pc = "endpoint"]
  BY <1>1, <1>2, <1>9, ScanGoes
<1>10. CASE scan' = C!NextRecord(scan)
  BY <1>1, <1>4, <1>10, ScanMoves
<1>11. CASE scan.pc = "endpoint" /\ metadata[scan.id].key # 0
            /\ scan' = C!FoundEndpoint(metadata[scan.id].key)
  <2>1. metadata[scan.id].key = scan.target
    BY <1>2, <1>11, KeyTellsLabel
  <2>2. QED
    BY <1>1, <1>11, <2>1, ScanFindsEndpoint
<1>12. QED
  BY <1>3, <1>5, <1>6, <1>7, <1>8, <1>9, <1>10, <1>11

(* isActive of a counter that is live from the start finds it so. *)
LEMMA CountersActive ==
  ASSUME CountersInv, C!isActive
  PROVE  CountersInv'
<1> USE CountersConstants
<1>1. /\ scan.op = "active" /\ scan.pc \in {"key", "type", "record"} /\ BookRests
      /\ UNCHANGED present
  BY DEF C!isActive, C!ManagerRest, BookRests, CountersInv, Reading, ScanType, ScanSteps
<1>2. \/ scan' = C!EndScan /\ (\/ metadata[scan.id].key # scan.target
                              \/ metadata[scan.id].type # scan.target
                              \/ metadata[scan.id].state # 1)
      \/ scan.pc = "key" /\ scan' = [scan EXCEPT !.pc = "type"]
      \/ scan.pc = "type" /\ scan' = [scan EXCEPT !.pc = "record"]
      \/ scan' = C!Found(scan)
  <2>1. CASE scan.pc = "key"
    BY <1>1, <2>1 DEF C!isActive
  <2>2. CASE scan.pc = "type"
    BY <1>1, <2>2 DEF C!isActive
  <2>3. CASE scan.pc = "record"
    BY <1>1, <2>3 DEF C!isActive, C!RECORD_ALLOCATED
  <2>4. QED
    BY <1>1, <2>1, <2>2, <2>3
<1>3. CASE scan' = C!EndScan /\ (\/ metadata[scan.id].key # scan.target
                                \/ metadata[scan.id].type # scan.target
                                \/ metadata[scan.id].state # 1)
  <2>1. \A n \in present : Missing(n) => n = scan.target /\ scan.id = counters[n] /\ n \in C!Live
    BY <1>1 DEF CountersInv, Reading, Sought, Missing
  <2>2. \A n \in present : ~Missing(n)
    BY <1>3, <2>1 DEF CountersInv, Book, Records, LiveRecords
  <2>3. QED
    BY <1>1, <1>3, <2>2, ScanEnds
<1>4. CASE \/ scan.pc = "key" /\ scan' = [scan EXCEPT !.pc = "type"]
           \/ scan.pc = "type" /\ scan' = [scan EXCEPT !.pc = "record"]
  <2>1. scan \in ScanRecord /\ Held
    BY DEF CountersInv, Reading, ScanType
  <2>2. /\ scan'.op = scan.op /\ scan'.target = scan.target /\ scan'.id = scan.id
        /\ scan'.seen = scan.seen /\ scan'.since = scan.since /\ scan' \in ScanRecord
        /\ scan'.pc \in {"type", "record"}
    BY <1>4, <2>1 DEF ScanRecord
  <2>3. ScanSteps'
    BY <1>1, <2>2 DEF ScanSteps
  <2>4. Held'
    BY <1>1, <2>1, <2>2 DEF Held, BookRests, Filling
  <2>5. QED
    BY <1>1, <2>2, <2>3, <2>4, ScanStays
<1>5. CASE scan' = C!Found(scan)
  BY <1>1, <1>5, ScanFinds
<1>6. QED
  BY <1>2, <1>3, <1>4, <1>5

LEMMA CountersBegin ==
  ASSUME CountersInv, C!beginScan, FreeToReuseTimeout > 0
  PROVE  CountersInv'
<1> USE CountersConstants
<1>1. PICK op \in Scans, target \in {0} \cup C!Live :
        /\ op = "forEach" <=> target = 0
        /\ target # 0 => registration[counters[target]] = target
        /\ scan' = [C!NoScan EXCEPT !.op = op, !.target = target, !.calls = scan.calls + 1,
                      !.id = IF op = "active" THEN counters[target] ELSE 0,
                      !.pc = IF op = "active" THEN "key" ELSE "state", !.since = clock]
        /\ present' = {n \in C!Live : registration[counters[n]] = n}
  BY DEF C!beginScan
<1>2. BookRests
  BY DEF C!beginScan, C!ManagerRest, BookRests
<1>3. Book' /\ C!Live' = C!Live
  BY <1>2, BookKept DEF CountersInv
<1>4. op \in {"forEach", "find", "heartbeat", "address", "active"}
  BY SuiteAssumption DEF C!CountersAssumption
<1>5. /\ scan.calls + 1 \in Nat /\ clock \in Nat /\ target \in Nat
      /\ target # 0 => counters[target] \in C!Ids /\ counters[target] \in Nat
  <2>1. scan.calls \in Nat /\ clock \in Nat
    BY DEF CountersInv, Reading, ScanType, ScanRecord, Book, BookType
  <2>2. \A n \in C!Live : n \in Nat /\ counters[n] \in C!Ids
    BY DEF CountersInv, Book, BookType, Ownership, LiveOwn, C!Live
  <2>3. QED
    BY <1>1, <2>1, <2>2
<1>6. /\ scan' \in ScanRecord /\ scan'.op = op /\ scan'.target = target /\ scan'.seen = {}
      /\ scan'.since = clock
      /\ op # "active" => scan'.pc = "state" /\ scan'.id = 0
      /\ op = "active" => scan'.pc = "key" /\ scan'.id = counters[target]
  <2>1. CASE op = "active"
    BY <1>1, <1>4, <1>5, <2>1 DEF ScanRecord, C!NoScan
  <2>2. CASE op # "active"
    BY <1>1, <1>4, <1>5, <2>2 DEF ScanRecord, C!NoScan
  <2>3. QED
    BY <2>1, <2>2
<1>7. ScanType' /\ C!SnapshotOfOneCounter'
  BY <1>4, <1>6 DEF ScanType, ScanSteps, C!SnapshotOfOneCounter
<1>8. Held'
  <2>1. CASE op # "active"
    BY <1>6, <2>1 DEF Held
  <2>2. CASE op = "active"
    <3>1. target \in C!Live /\ counters[target] \in C!Ids
      BY <1>1, <1>5, <2>2
    <3>2. /\ metadata[counters[target]].state = 1 /\ metadata[counters[target]].label = target
          /\ \A k \in 1 .. Len(freeList) : freeList[k] # counters[target]
      BY <3>1 DEF CountersInv, Book, Ownership, FreeOwn, Records, LiveRecords
    <3>3. ~Filling(counters[target])
      BY <3>1, <3>2 DEF CountersInv, Book, Records, StatesTell, Tells
    <3>4. QED
      BY <1>2, <1>5, <1>6, <2>2, <3>1, <3>2, <3>3 DEF Held, BookRests, Filling
  <2>3. QED
    BY <2>1, <2>2
<1>9. Sought'
  <2>1. \A n \in C!Live : counters[n] \in C!Ids
    BY DEF CountersInv, Book, Ownership, LiveOwn
  <2>2. present' \subseteq C!Live /\ \A n \in present' : registration[counters[n]] = n
    BY <1>1
  <2>3. \A n \in present' : op # "active" => 0 <= counters[n]
    BY <2>1, <2>2
  <2>4. \A n \in present' : op = "active" /\ target \in {0, n} => counters[target] <= counters[n]
    BY <1>1, <2>1, <2>2
  <2>5. QED
    BY <1>1, <1>2, <1>3, <1>6, <2>2, <2>3, <2>4 DEF Sought, BookRests
<1>10. QED
  BY <1>3, <1>7, <1>8, <1>9 DEF CountersInv, Reading

LEMMA CountersReturn ==
  ASSUME CountersInv, C!scanReturn
  PROVE  CountersInv'
<1>1. scan' = [C!NoScan EXCEPT !.calls = scan.calls] /\ present' = {} /\ BookRests
  BY DEF C!scanReturn, C!ManagerRest, BookRests
<1>2. Book' /\ C!Live' = C!Live
  BY <1>1, BookKept DEF CountersInv
<1>3. scan.calls \in Nat
  BY DEF CountersInv, Reading, ScanType, ScanRecord
<1>4. /\ scan' \in ScanRecord /\ scan'.op = "none" /\ scan'.pc = "state" /\ scan'.seen = {}
      /\ scan'.target = 0
  BY <1>1, <1>3 DEF C!NoScan, ScanRecord
<1>5. ScanType' /\ Held' /\ C!SnapshotOfOneCounter' /\ Sought'
  BY <1>1, <1>4 DEF ScanType, ScanSteps, Held, C!SnapshotOfOneCounter, Sought
<1>6. QED
  BY <1>2, <1>5 DEF CountersInv, Reading

LEMMA CountersInvStep ==
  ASSUME CountersInv, [C!Next]_(C!vars), FreeToReuseTimeout > 0
  PROVE  CountersInv'
<1>1. CASE UNCHANGED C!vars
  <2>1. BookRests /\ UNCHANGED <<scan, present>>
    BY <1>1 DEF C!vars, BookRests
  <2>2. Book' /\ C!Live' = C!Live
    BY <2>1, BookKept DEF CountersInv
  <2>3. Reading'
    BY <2>1, <2>2 DEF CountersInv, Reading, ScanType, ScanSteps, Held, Filling, Sought,
                      C!SnapshotOfOneCounter, BookRests
  <2>4. QED
    BY <2>2, <2>3 DEF CountersInv
<1>2. CASE C!Next
  BY <1>2, CountersNextId, CountersFill, CountersPublish, CountersRegister, CountersFree,
     CountersReclaim, CountersTick, CountersBegin, CountersReadState, CountersReadFields,
     CountersReport, CountersFind, CountersHeartbeat, CountersAddress, CountersActive, CountersReturn
     DEF C!Next
<1>3. QED
  BY <1>1, <1>2

(* What the invariant says of the counters, for readers and owners. *)
LEMMA CountersInvImplies ==
  ASSUME CountersInv
  PROVE  C!TypeOK /\ C!RecordsAreOwn /\ C!SnapshotOfOneCounter /\ C!PresentIsFound
<1> USE CountersConstants
<1>0. BookType /\ Ownership
  BY DEF CountersInv, Book
<1>1. C!TypeOK
  <2>1. DOMAIN freeList = 1 .. Len(freeList)
    BY <1>0 DEF BookType
  <2>2. QED
    BY <1>0, <2>1 DEF C!TypeOK, C!IsInjective, BookType, Ownership, FreeOwn, OneToOne
<1>2. C!RecordsAreOwn
  <2>1. SUFFICES ASSUME NEW n \in C!Live \cup ({manager.counter} \ {0}),
                        NEW m \in C!Live \cup ({manager.counter} \ {0}), n # m
                 PROVE  (IF n \in C!Live THEN counters[n] ELSE manager.id)
                          # (IF m \in C!Live THEN counters[m] ELSE manager.id)
    BY DEF C!RecordsAreOwn
  <2>2. manager.counter # 0 /\ manager.counter \notin C!Live =>
          \A k \in C!Live : counters[k] # manager.id
    BY <1>0 DEF BookType, Ownership, ManagerOwns, C!Resting, Reserving
  <2>3. QED
    BY <1>0, <2>1, <2>2 DEF Ownership, LiveOwn
<1>3. C!SnapshotOfOneCounter
  BY DEF CountersInv, Reading
<1>4. C!PresentIsFound
  BY DEF C!PresentIsFound, CountersInv, Reading, Sought, ScanType, ScanSteps
<1>5. QED
  BY <1>1, <1>2, <1>3, <1>4

(* isActive finds only a counter that is allocated at that moment, and the *)
(* heartbeat that is found is in the record of its counter.                *)
LEMMA CountersActiveWasTrue ==
  ASSUME CountersInv, [C!Next]_(C!vars)
  PROVE  C!ActiveWasTrue
<1>1. SUFFICES ASSUME scan.op \in {"active", "heartbeat"}, scan.seen = {}, scan'.seen # {}
               PROVE  /\ metadata[scan.id].label = scan.target
                      /\ scan.op = "active" => metadata[scan.id].state = C!RECORD_ALLOCATED
  BY DEF C!ActiveWasTrue
<1>2. scan \in ScanRecord
  BY DEF CountersInv, Reading, ScanType
<1>3. \/ scan.op = "active" /\ C!isActive
      \/ scan.op = "heartbeat" /\ C!findCounterIdByRegistrationId
  <2>1. scan' # scan
    BY <1>1
  <2>2. ~C!scanReturn
    BY <1>1 DEF C!scanReturn, C!NoScan
  <2>3. QED
    BY <1>1, <2>1, <2>2 DEF C!Next, C!vars, C!nextCounterId, C!allocateType, C!allocateLabel,
       C!publish, C!setCounterRegistrationId, C!free, C!reclaim, C!Tick, C!ReaderRest,
       C!beginScan, C!readState, C!readLabel, C!readType, C!onCountersMetadata,
       C!findByRegistrationId, C!findCounterIdByRegistrationId, C!findAddress, C!isActive
<1>4. CASE scan.op = "active" /\ C!isActive
  <2>1. scan.pc \in {"key", "type", "record"} /\ metadata[scan.id].label = scan.target
    BY <1>4 DEF C!isActive, CountersInv, Reading, ScanType, ScanSteps, Held
  <2>2. CASE scan.pc = "record"
    BY <1>1, <1>2, <1>4, <2>1, <2>2 DEF C!isActive, C!EndScan, ScanRecord
  <2>3. CASE scan.pc \in {"key", "type"}
    <3>1. \/ scan' = [scan EXCEPT !.pc = "done"] \/ scan' = [scan EXCEPT !.pc = "type"]
          \/ scan' = [scan EXCEPT !.pc = "record"]
      BY <1>4, <2>3 DEF C!isActive, C!EndScan
    <3>2. scan'.seen = scan.seen
      BY <1>2, <3>1 DEF ScanRecord
    <3>3. QED
      BY <1>1, <3>2
  <2>4. QED
    BY <2>1, <2>2, <2>3
<1>5. CASE scan.op = "heartbeat" /\ C!findCounterIdByRegistrationId
  <2>1. scan.pc \in {"state", "key", "type"}
    BY <1>5 DEF C!findCounterIdByRegistrationId, CountersInv, Reading, ScanType, ScanSteps
  <2>2. CASE scan.pc = "type"
    BY <1>5, <2>2 DEF CountersInv, Reading, Held
  <2>3. CASE scan.pc \in {"state", "key"}
    <3>1. \/ scan' = [scan EXCEPT !.pc = "done"] \/ scan' = [scan EXCEPT !.pc = "type"]
          \/ scan' = [scan EXCEPT !.pc = "key", !.since = clock]
          \/ scan' = [scan EXCEPT !.id = @ + 1, !.pc = "state"]
      BY <1>5, <2>3 DEF C!findCounterIdByRegistrationId, C!EndScan, C!NextRecord
    <3>2. scan'.seen = scan.seen
      BY <1>2, <3>1 DEF ScanRecord
    <3>3. QED
      BY <1>1, <3>2
  <2>4. QED
    BY <1>5, <2>1, <2>2, <2>3
<1>6. QED
  BY <1>3, <1>4, <1>5

(* The counters move as their own specification says. *)
LEMMA CountersStep ==
  ASSUME [Next]_vars, part = "counters"
  PROVE  part' = "counters" /\ [C!Next]_(C!vars)
BY DEF Next, vars, C!vars, Maps, CounterMaps, CounterFile, Broadcasts, Layout, Commands, UriText,
       UriPlace, StayAbsent

(***************************************************************************)
(* With a timeout above zero a record is never read as a mixture of two    *)
(* counters, although it is freed and allocated again without a lock;      *)
(* counters do not share records; a counter that is there throughout a     *)
(* scan is found, isActive does not name a counter that has gone, and what *)
(* findAddress and the search for a heartbeat return is of the counter     *)
(* that they look for (CountersManager::allocate and free,                 *)
(* CountersReader::forEach and findByRegistrationId, HeartbeatTimestamp,   *)
(* LocalSocketAddressStatus::findAddress).                                 *)
(***************************************************************************)
THEOREM SnapshotOfOneCounterHolds ==
  ASSUME FreeToReuseTimeout > 0
  PROVE  Spec => SnapshotOfOneCounter
<1> DEFINE Inv == part = "counters" => CountersInv
           State == part = "counters" => C!TypeOK /\ C!RecordsAreOwn /\ C!SnapshotOfOneCounter /\
                                         C!PresentIsFound
           Move == part = "counters" => C!ActiveWasTrue
<1>1. Init => Inv
  BY CountersInvInit DEF Init
<1>2. Inv /\ [Next]_vars => Inv'
  <2>1. SUFFICES ASSUME Inv, [Next]_vars, part' = "counters"
                 PROVE  CountersInv'
    OBVIOUS
  <2>2. part = "counters"
    BY <2>1 DEF Next, vars, Maps, CounterMaps, CounterFile, Broadcasts, Layout, Commands,
                UriText, UriPlace, StayAbsent
  <2>3. QED
    BY <2>1, <2>2, CountersStep, CountersInvStep
<1>3. Inv => State
  BY CountersInvImplies
<1>4. Inv /\ [Next]_vars => [Move]_vars
  BY CountersStep, CountersActiveWasTrue
<1>5. Spec => []State /\ [][Move]_vars
  <2> HIDE DEF Inv, State, Move
  <2>1. QED
    BY <1>1, <1>2, <1>3, <1>4, PTL DEF Spec
<1>6. QED
  BY <1>5 DEF SnapshotOfOneCounter
=============================================================================
