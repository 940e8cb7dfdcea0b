------------------------------ MODULE Counters ------------------------------
(***************************************************************************)
(* The counters that the driver shares with every client                   *)
(* (aeron-lib/include/concurrent/CountersManager.h, CountersReader.h): the *)
(* manager allocates and frees records, readers scan them without a lock.  *)
(* A freed record is used again only after a timeout, so that readers do   *)
(* not see two counters in one.  Every counter is a number; the fields of  *)
(* a record hold the number of the counter that they were written for.     *)
(***************************************************************************)
EXTENDS Integers, Sequences, SequencesExt, FiniteSetsExt

CONSTANTS
  MaxCounterId,         \* m_maxCounterId: the last id
  FreeToReuseTimeout,   \* m_freeToReuseTimeoutMs
  MaxCounters,          \* bound: counters that are ever allocated
  MaxTime,              \* bound: the clock
  MaxScans,             \* bound: scans of the readers
  Scans                 \* what the readers do

CountersAssumption ==
  /\ MaxCounterId \in Nat /\ FreeToReuseTimeout \in Nat
  /\ MaxCounters \in Nat /\ MaxTime \in Nat /\ MaxScans \in Nat
  /\ Scans \subseteq {"forEach", "find", "heartbeat", "address", "active"}

VARIABLES
  metadata,     \* state, typeId, key, deadline, label of each record
  registration, \* registrationId of each value record
  freeList, highWaterMark, clock,
  manager,      \* the allocation or the release under way
  counters,     \* history: per counter its id, or -1 once it is freed
  scan,         \* the scan under way
  present       \* history: the counters allocated since the scan began

vars == <<metadata, registration, freeList, highWaterMark, clock, manager,
          counters, scan, present>>

NULL_COUNTER_ID == -1
RECORD_UNUSED == 0
RECORD_ALLOCATED == 1
RECORD_RECLAIMED == -1
NOT_FREE_TO_REUSE == MaxTime + FreeToReuseTimeout + 1

Ids == 0 .. MaxCounterId
Unused == [state |-> RECORD_UNUSED, type |-> 0, key |-> 0, deadline |-> 0, label |-> 0]
NoScan == [op |-> "none", target |-> 0, id |-> 0, pc |-> "state", since |-> 0,
           label |-> 0, type |-> 0, seen |-> {}, calls |-> 0]
Resting == [op |-> "none", counter |-> 0, id |-> 0]

Init ==
  /\ metadata = [i \in Ids |-> Unused] /\ registration = [i \in Ids |-> 0]
  /\ freeList = <<>> /\ highWaterMark = -1 /\ clock = 0
  /\ manager = Resting /\ counters = <<>> /\ scan = NoScan /\ present = {}

Live == {n \in DOMAIN counters : counters[n] # NULL_COUNTER_ID}
ReaderRest == <<clock, scan>>

-----------------------------------------------------------------------------
(* Mutant: the deadline is not looked at. *)
Reusable_Always(i) == TRUE

Reusable(i) == clock >= metadata[i].deadline

(* nextCounterId: the first record of the free list that may be used again *)
(* or a new one; a full buffer throws and leaves everything as it was.     *)
nextCounterId ==
  /\ manager = Resting /\ Len(counters) < MaxCounters
  /\ LET ready == {k \in DOMAIN freeList : Reusable(freeList[k])}
     IN  IF ready # {}
         THEN LET id == freeList[Min(ready)]
              IN  /\ freeList' = RemoveAt(freeList, Min(ready))
                  /\ registration' = [registration EXCEPT ![id] = 0]
                  /\ manager' = [op |-> "type", counter |-> Len(counters) + 1, id |-> id]
                  /\ UNCHANGED highWaterMark
         ELSE /\ highWaterMark + 1 <= MaxCounterId
              /\ highWaterMark' = highWaterMark + 1
              /\ manager' = [op |-> "type", counter |-> Len(counters) + 1,
                             id |-> highWaterMark + 1]
              /\ UNCHANGED <<freeList, registration>>
  /\ counters' = Append(counters, NULL_COUNTER_ID)
  /\ UNCHANGED <<metadata, present, ReaderRest>>

Write(field, value) == metadata' = [metadata EXCEPT ![manager.id][field] = value]
Step(op) == manager' = [manager EXCEPT !.op = op]

allocateType ==
  /\ manager.op = "type" /\ Write("type", manager.counter) /\ Step("label")
  /\ UNCHANGED <<registration, freeList, highWaterMark, counters, present, ReaderRest>>

(* The key, the deadline and the label. *)
allocateLabel ==
  /\ manager.op = "label"
  /\ metadata' = [metadata EXCEPT ![manager.id].key = manager.counter,
                                  ![manager.id].deadline = NOT_FREE_TO_REUSE,
                                  ![manager.id].label = manager.counter]
  /\ Step("publish")
  /\ UNCHANGED <<registration, freeList, highWaterMark, counters, present, ReaderRest>>

publish ==
  /\ manager.op = "publish" /\ Write("state", RECORD_ALLOCATED) /\ Step("register")
  /\ counters' = [counters EXCEPT ![manager.counter] = manager.id]
  /\ UNCHANGED <<registration, freeList, highWaterMark, present, ReaderRest>>

(* The owner sets the registration id after the allocation. *)
setCounterRegistrationId ==
  /\ manager.op = "register"
  /\ registration' = [registration EXCEPT ![manager.id] = manager.counter]
  /\ manager' = Resting
  /\ UNCHANGED <<metadata, freeList, highWaterMark, counters, present, ReaderRest>>

(* free: the deadline and the zeroed key come before the state. *)
free ==
  /\ manager = Resting
  /\ \E n \in Live :
       /\ metadata' = [metadata EXCEPT
            ![counters[n]].deadline = clock + FreeToReuseTimeout, ![counters[n]].key = 0]
       /\ manager' = [op |-> "reclaim", counter |-> n, id |-> counters[n]]
       /\ counters' = [counters EXCEPT ![n] = NULL_COUNTER_ID]
       /\ present' = present \ {n}
  /\ UNCHANGED <<registration, freeList, highWaterMark, ReaderRest>>

reclaim ==
  /\ manager.op = "reclaim" /\ Write("state", RECORD_RECLAIMED)
  /\ freeList' = Append(freeList, manager.id) /\ manager' = Resting
  /\ UNCHANGED <<registration, highWaterMark, counters, present, ReaderRest>>

-----------------------------------------------------------------------------
ManagerRest == <<metadata, registration, freeList, highWaterMark, manager, counters>>

(* The assumption that the timeout rests on: a reader looks at one record  *)
(* for less than the timeout, and free is not held up between reading the  *)
(* clock and storing the state.                                            *)
Tick ==
  /\ clock < MaxTime /\ clock' = clock + 1 /\ manager.op # "reclaim"
  /\ scan.op # "none" /\ scan.pc \notin {"state", "done"} => clock + 1 - scan.since < FreeToReuseTimeout
  /\ UNCHANGED <<ManagerRest, scan, present>>

(* A scan begins; a target is a counter that was registered. *)
beginScan ==
  /\ scan.op = "none" /\ scan.calls < MaxScans
  /\ \E op \in Scans, target \in {0} \cup Live :
       /\ op = "forEach" <=> target = 0
       /\ target # 0 => registration[counters[target]] = target
       /\ scan' = [NoScan EXCEPT !.op = op, !.target = target, !.calls = scan.calls + 1,
                     !.id = IF op = "active" THEN counters[target] ELSE 0,
                     !.pc = IF op = "active" THEN "key" ELSE "state", !.since = clock]
       /\ present' = {n \in Live : registration[counters[n]] = n}
  /\ UNCHANGED <<ManagerRest, clock>>

EndScan == [scan EXCEPT !.pc = "done"]

(* forEach and findByRegistrationId end at the first unused record. *)
Continue ==
  scan.id <= MaxCounterId /\ metadata[scan.id].state # RECORD_UNUSED

NextRecord(s) == [s EXCEPT !.id = @ + 1, !.pc = "state"]

readState ==
  /\ scan.op \in {"forEach", "find"} /\ scan.pc = "state"
  /\ scan' = IF ~Continue THEN EndScan
             ELSE IF metadata[scan.id].state = RECORD_ALLOCATED
             THEN [scan EXCEPT !.pc = IF scan.op = "find" THEN "registration" ELSE "label",
                               !.since = clock]
             ELSE NextRecord(scan)
  /\ UNCHANGED <<ManagerRest, clock, present>>

(* forEach: the label is copied, then the type id; the handler reads the   *)
(* key.                                                                    *)
readLabel ==
  /\ scan.op = "forEach" /\ scan.pc = "label"
  /\ scan' = [scan EXCEPT !.label = metadata[scan.id].label, !.pc = "type"]
  /\ UNCHANGED <<ManagerRest, clock, present>>

readType ==
  /\ scan.op = "forEach" /\ scan.pc = "type"
  /\ scan' = [scan EXCEPT !.type = metadata[scan.id].type, !.pc = "key"]
  /\ UNCHANGED <<ManagerRest, clock, present>>

onCountersMetadata ==
  /\ scan.op = "forEach" /\ scan.pc = "key"
  /\ scan' = NextRecord([scan EXCEPT !.seen = @ \cup
       {[label |-> scan.label, type |-> scan.type, key |-> metadata[scan.id].key]}])
  /\ UNCHANGED <<ManagerRest, clock, present>>

Found(s) == [s EXCEPT !.seen = {[label |-> s.target, type |-> s.target, key |-> s.target]},
                      !.pc = "done"]

findByRegistrationId ==
  /\ scan.op = "find" /\ scan.pc = "registration"
  /\ scan' = IF registration[scan.id] = scan.target THEN Found(scan) ELSE NextRecord(scan)
  /\ UNCHANGED <<ManagerRest, clock, present>>

(* The loops of HeartbeatTimestamp (both copies) and findAddress have the  *)
(* bound i < maxCounterId().                                               *)
LoopEnds == scan.id >= MaxCounterId

(* The state, the key, the type id. *)
findCounterIdByRegistrationId ==
  /\ scan.op = "heartbeat" /\ scan.pc # "done"
  /\ LET m == metadata[scan.id]
     IN  scan' = CASE scan.pc = "state" ->
                        IF LoopEnds THEN EndScan
                        ELSE IF m.state = RECORD_ALLOCATED
                        THEN [scan EXCEPT !.pc = "key", !.since = clock] ELSE NextRecord(scan)
                   [] scan.pc = "key" ->
                        IF m.key = scan.target THEN [scan EXCEPT !.pc = "type"]
                        ELSE NextRecord(scan)
                   [] scan.pc = "type" ->
                        IF m.type = scan.target THEN Found(scan) ELSE NextRecord(scan)
  /\ UNCHANGED <<ManagerRest, clock, present>>

(* The endpoint is the rest of the key. *)
FoundEndpoint(key) ==
  [scan EXCEPT !.seen = {[label |-> scan.target, type |-> scan.target, key |-> key]},
               !.pc = "done"]

(* The state, which ends the loop when it is that of an unused record, the *)
(* type id, the key, the value, which tells if the endpoint is active, and *)
(* the endpoint, unless it is empty.                                       *)
findAddress ==
  /\ scan.op = "address" /\ scan.pc # "done"
  /\ \E active \in BOOLEAN :
       LET m == metadata[scan.id]
           Go(pc) == [scan EXCEPT !.pc = pc]
       IN  scan' = CASE scan.pc = "state" ->
                          IF LoopEnds \/ m.state = RECORD_UNUSED THEN EndScan
                          ELSE IF m.state = RECORD_ALLOCATED
                          THEN [scan EXCEPT !.pc = "type", !.since = clock] ELSE NextRecord(scan)
                     [] scan.pc = "type" ->
                          IF m.type = scan.target THEN Go("key") ELSE NextRecord(scan)
                     [] scan.pc = "key" ->
                          IF m.key = scan.target THEN Go("value") ELSE NextRecord(scan)
                     [] scan.pc = "value" ->
                          IF active THEN Go("endpoint") ELSE NextRecord(scan)
                     [] scan.pc = "endpoint" ->
                          IF m.key # 0 THEN FoundEndpoint(m.key) ELSE NextRecord(scan)
  /\ UNCHANGED <<ManagerRest, clock, present>>

(* HeartbeatTimestamp::isActive: the key, the type id, the state. *)
isActive ==
  /\ scan.op = "active" /\ scan.pc # "done"
  /\ LET m == metadata[scan.id]
     IN  scan' = CASE scan.pc = "key" ->
                        IF m.key = scan.target THEN [scan EXCEPT !.pc = "type"] ELSE EndScan
                   [] scan.pc = "type" ->
                        IF m.type = scan.target THEN [scan EXCEPT !.pc = "record"] ELSE EndScan
                   [] OTHER ->
                        IF m.state = RECORD_ALLOCATED THEN Found(scan) ELSE EndScan
  /\ UNCHANGED <<ManagerRest, clock, present>>

scanReturn ==
  /\ scan.pc = "done"
  /\ scan' = [NoScan EXCEPT !.calls = scan.calls] /\ present' = {}
  /\ UNCHANGED <<ManagerRest, clock>>

Next ==
  \/ nextCounterId \/ allocateType \/ allocateLabel \/ publish
  \/ setCounterRegistrationId \/ free \/ reclaim \/ Tick
  \/ beginScan \/ readState \/ readLabel \/ readType \/ onCountersMetadata
  \/ findByRegistrationId \/ findCounterIdByRegistrationId \/ findAddress \/ isActive \/ scanReturn

Spec == Init /\ [][Next]_vars

-----------------------------------------------------------------------------
TypeOK ==
  /\ highWaterMark \in -1 .. MaxCounterId
  /\ IsInjective(freeList) /\ \A k \in DOMAIN freeList : freeList[k] \in Ids
  /\ \A n \in Live : \A k \in DOMAIN freeList : freeList[k] # counters[n]

(* Two live counters never share a record (nextCounterId, free).           *)
RecordsAreOwn ==
  \A n, m \in Live \cup ({manager.counter} \ {0}) :
    n # m => LET At(x) == IF x \in Live THEN counters[x] ELSE manager.id
             IN  At(n) # At(m)

(* What forEach reports of a record, and the endpoint that findAddress     *)
(* returns, belong to one counter, although the record may be freed and    *)
(* allocated again under the scan; only the key that forEach reports may   *)
(* be zeroed already (forEach, findAddress, free).                         *)
SnapshotOfOneCounter ==
  \A s \in scan.seen : s.label = s.type /\ s.key \in {0, s.label}

(* A counter that is allocated throughout a scan is found by it, whatever  *)
(* is allocated and freed around it (forEach, findByRegistrationId).       *)
PresentIsFound ==
  scan.pc = "done" /\ scan.op \notin {"heartbeat", "address"} =>
    \A n \in present : scan.target \in {0, n} => \E s \in scan.seen : s.label = n

(* HeartbeatTimestamp.h: "Find the active counter id for an entity", "the  *)
(* counter id if found".                                                   *)
HeartbeatIsFound ==
  scan.pc = "done" /\ scan.op = "heartbeat" /\ scan.target \in present => scan.seen # {}

(* isActive is true only of a counter that was allocated during the call,  *)
(* and the heartbeat that is found is in the record of the counter that    *)
(* was looked for (isActive, findCounterIdByRegistrationId).               *)
ActiveWasTrue ==
  scan.op \in {"active", "heartbeat"} /\ scan.seen = {} /\ scan'.seen # {} =>
    /\ metadata[scan.id].label = scan.target
    /\ scan.op = "active" => metadata[scan.id].state = RECORD_ALLOCATED
=============================================================================
