------------------------- MODULE ManyToOneRingBuffer -------------------------
(***************************************************************************)
(* aeron-lib/include/concurrent/ringbuffer/ManyToOneRingBuffer.h: the      *)
(* client-to-driver command buffer.  Any number of producers claim space   *)
(* with a compare-and-set of the tail and then write their record; one     *)
(* consumer reads.  A producer may die at any point of write(); when the   *)
(* consumer stays stuck on its record, the consumer's thread calls         *)
(* unblock().                                                              *)
(***************************************************************************)
EXTENDS RingBuffer

CONSTANT Producers

(* Per producer: the next instruction, the message (its identity and       *)
(* requiredCapacity), and the local head, tail and padding.                *)
VARIABLES pc, msg, req, pHead, pTail, pad

VARIABLE ids   \* messages offered so far

(* unblock(): where it is, the two positions, the index of the scan and    *)
(* that of the scan back.                                                  *)
VARIABLES ub, ubHead, ubTail, ubScan, ubBack

(* History: the claims in the order of their compare-and-set, with the     *)
(* positions of their records.                                             *)
VARIABLE claims

(* History: unblock() has stored padding over something else than records  *)
(* of dead producers.                                                      *)
VARIABLE strayed

producerVars == <<pc, msg, req, pHead, pTail, pad, ids>>
unblockVars == <<ub, ubHead, ubTail, ubScan, ubBack>>

vars == <<memory, readerVars, producerVars, unblockVars, claims, strayed>>

Writing == {"pad", "header", "bytes", "length"}   \* claimed, not complete
Steps == {"idle", "tail", "head1", "cache1", "head2", "cache2", "cas",
          "dead"} \cup Writing

Init ==
  /\ RingInit
  /\ pc = [p \in Producers |-> "idle"]
  /\ msg = [p \in Producers |-> 0] /\ req = [p \in Producers |-> 0]
  /\ pHead = [p \in Producers |-> 0] /\ pTail = [p \in Producers |-> 0]
  /\ pad = [p \in Producers |-> 0]
  /\ ids = 0
  /\ ub = "idle" /\ ubHead = 0 /\ ubTail = 0 /\ ubScan = 0 /\ ubBack = 0
  /\ claims = <<>> /\ strayed = FALSE

Goto(p, step) == pc' = [pc EXCEPT ![p] = step]
Others == <<readerVars, unblockVars, strayed>>

-----------------------------------------------------------------------------
(* write(): the checks, and the first load of claimCapacity *)

write(p) ==
  /\ pc[p] = "idle" /\ ids < MaxWrites
  /\ \E length \in MsgLengths :
       /\ length <= MaxMsgLength
       /\ req' = [req EXCEPT ![p] = length + HEADER_LENGTH]
  /\ ids' = ids + 1 /\ msg' = [msg EXCEPT ![p] = ids + 1]
  /\ Goto(p, "tail")
  /\ pHead' = [pHead EXCEPT ![p] = headCache]
  /\ UNCHANGED <<memory, pTail, pad, claims, Others>>

(* A record that does not fit before the end goes to index 0, if there is  *)
(* room before the head as far as the producer knows.                      *)
WrapStep(r, t, h) ==
  IF r > Capacity - IndexOf(t) /\ r > IndexOf(h) THEN "head2" ELSE "cas"

LoadTail(p) ==
  /\ pc[p] = "tail"
  /\ pTail' = [pTail EXCEPT ![p] = tail]
  /\ Goto(p, IF req[p] > Capacity - (tail - pHead[p]) THEN "head1"
             ELSE WrapStep(req[p], tail, pHead[p]))
  /\ UNCHANGED <<memory, msg, req, pHead, pad, ids, claims, Others>>

(* The locals of p go out of scope. *)
Return(p) ==
  /\ msg' = [msg EXCEPT ![p] = 0] /\ req' = [req EXCEPT ![p] = 0]
  /\ pHead' = [pHead EXCEPT ![p] = 0] /\ pTail' = [pTail EXCEPT ![p] = 0]
  /\ pad' = [pad EXCEPT ![p] = 0]

InsufficientCapacity(p) ==
  \/ pc[p] = "head1" /\ req[p] > Capacity - (pTail[p] - head)
  \/ pc[p] = "head2" /\ req[p] > IndexOf(head)

(* The head itself is loaded; INSUFFICIENT_CAPACITY returns. *)
LoadHead(p) ==
  /\ pc[p] \in {"head1", "head2"}
  /\ \/ InsufficientCapacity(p) /\ Goto(p, "idle") /\ Return(p)
     \/ /\ ~InsufficientCapacity(p)
        /\ pHead' = [pHead EXCEPT ![p] = head]
        /\ Goto(p, IF pc[p] = "head1" THEN "cache1" ELSE "cache2")
        /\ UNCHANGED <<msg, req, pTail, pad>>
  /\ UNCHANGED <<memory, ids, claims, Others>>

StoreHeadCache(p) ==
  /\ pc[p] \in {"cache1", "cache2"}
  /\ headCache' = pHead[p]
  /\ Goto(p, IF pc[p] = "cache1" THEN WrapStep(req[p], pTail[p], pHead[p])
             ELSE "cas")
  /\ UNCHANGED <<buffer, tail, head, msg, req, pHead, pTail, pad, ids, claims,
                 Others>>

Padding(p) ==
  IF req[p] > Capacity - IndexOf(pTail[p])
  THEN Capacity - IndexOf(pTail[p]) ELSE 0

(* Mutant: a plain store after the comparison of an earlier load. *)
CompareAndSetTail_Store(p) ==
  /\ pc[p] = "cas"
  /\ tail' = pTail[p] + req[p] + Padding(p)
  /\ pad' = [pad EXCEPT ![p] = Padding(p)]
  /\ claims' = Append(claims, [id |-> msg[p], by |-> p, state |-> "open",
                               at |-> pTail[p] + Padding(p),
                               end |-> pTail[p] + Padding(p) + req[p]])
  /\ Goto(p, IF Padding(p) # 0 THEN "pad" ELSE "header")
  /\ UNCHANGED <<buffer, headCache, head, msg, req, pHead, pTail, ids, Others>>

CompareAndSetTail(p) ==
  /\ pc[p] = "cas"
  /\ \/ /\ tail # pTail[p]
        /\ Goto(p, "tail") /\ UNCHANGED <<tail, pad, claims>>
     \/ /\ tail = pTail[p]
        /\ tail' = tail + req[p] + Padding(p)
        /\ pad' = [pad EXCEPT ![p] = Padding(p)]
        /\ claims' = Append(claims, [id |-> msg[p], by |-> p, state |-> "open",
                                     at |-> tail + Padding(p),
                                     end |-> tail + Padding(p) + req[p]])
        /\ Goto(p, IF Padding(p) # 0 THEN "pad" ELSE "header")
  /\ UNCHANGED <<buffer, headCache, head, msg, req, pHead, pTail, ids, Others>>

RecordIndex(p) == IF pad[p] # 0 THEN 0 ELSE IndexOf(pTail[p])

WritePadding(p) ==
  /\ pc[p] = "pad" /\ Goto(p, "header")
  /\ buffer' = [buffer EXCEPT ![IndexOf(pTail[p])] =
                  makeHeader(pad[p], PADDING_MSG_TYPE_ID)]
  /\ UNCHANGED <<tail, headCache, head, msg, req, pHead, pTail, pad, ids,
                 claims, Others>>

(* Mutant: the header is complete before the message is there. *)
WriteHeader_Positive(p) ==
  /\ pc[p] = "header" /\ Goto(p, "bytes")
  /\ buffer' = [buffer EXCEPT ![RecordIndex(p)] = makeHeader(req[p], msg[p])]
  /\ UNCHANGED <<tail, headCache, head, msg, req, pHead, pTail, pad, ids,
                 claims, Others>>

WriteHeader(p) ==
  /\ pc[p] = "header" /\ Goto(p, "bytes")
  /\ buffer' = [buffer EXCEPT ![RecordIndex(p)] = makeHeader(-req[p], msg[p])]
  /\ UNCHANGED <<tail, headCache, head, msg, req, pHead, pTail, pad, ids,
                 claims, Others>>

WriteBytes(p) ==
  /\ pc[p] = "bytes" /\ Goto(p, "length")
  /\ buffer' = [i \in DOMAIN buffer |->
                  IF i \in (RecordIndex(p) + 1) .. (RecordIndex(p) + req[p] - 1)
                  THEN MsgUnit(msg[p]) ELSE buffer[i]]
  /\ UNCHANGED <<tail, headCache, head, msg, req, pHead, pTail, pad, ids,
                 claims, Others>>

CloseClaim(p, s) ==
  claims' = [i \in DOMAIN claims |->
               IF claims[i].by = p /\ claims[i].state = "open"
               THEN [claims[i] EXCEPT !.state = s] ELSE claims[i]]

WriteLength(p) ==
  /\ pc[p] = "length" /\ Goto(p, "idle")
  /\ buffer' = [buffer EXCEPT ![RecordIndex(p)].length = req[p]]
  /\ CloseClaim(p, "done") /\ Return(p)
  /\ UNCHANGED <<tail, headCache, head, ids, Others>>

(* The process of a producer dies. *)
Die(p) ==
  /\ pc[p] \notin {"idle", "dead"}
  /\ \E q \in Producers \ {p} : pc[q] # "dead"
  /\ Goto(p, "dead")
  /\ CloseClaim(p, "void") /\ Return(p)
  /\ UNCHANGED <<memory, ids, Others>>

Producer(p) ==
  \/ write(p) \/ LoadTail(p) \/ LoadHead(p)
  \/ StoreHeadCache(p) \/ CompareAndSetTail(p) \/ WritePadding(p)
  \/ WriteHeader(p) \/ WriteBytes(p) \/ WriteLength(p)

-----------------------------------------------------------------------------
(* unblock(), in the consumer's thread between two reads.  Its caller, the *)
(* driver, calls it when the head has not moved for some time: nothing     *)
(* here knows whether a producer is slow or dead.                          *)

UnblockFrame == <<tail, headCache, head, readerVars, producerVars,
                  claims>>

Unblock ==
  /\ ub = "idle" /\ reader = "idle"
  /\ tail # head
  /\ ub' = "length" /\ ubHead' = head /\ ubTail' = tail
  /\ UNCHANGED <<buffer, ubScan, ubBack, strayed, UnblockFrame>>

UnblockReturn ==
  ub' = "idle" /\ ubHead' = 0 /\ ubTail' = 0 /\ ubScan' = 0 /\ ubBack' = 0

(* Mutant: a record that was never begun is left alone. *)
UnblockLength_NegativeOnly ==
  /\ ub = "length"
  /\ LET length == buffer[IndexOf(ubHead)].length
     IN  \/ /\ length < 0
            /\ ub' = "store" /\ ubScan' = IndexOf(ubHead) - length
            /\ UNCHANGED <<ubHead, ubTail, ubBack>>
         \/ length >= 0 /\ UnblockReturn
  /\ UNCHANGED <<buffer, strayed, UnblockFrame>>

(* A claimed record becomes padding, a zero starts the scan for the next   *)
(* record, a complete record needs nothing.                                *)
UnblockLength ==
  /\ ub = "length"
  /\ LET length == buffer[IndexOf(ubHead)].length
     IN  \/ /\ length < 0
            /\ ub' = "store" /\ ubScan' = IndexOf(ubHead) - length
            /\ UNCHANGED <<ubHead, ubTail, ubBack>>
         \/ /\ length = 0
            /\ ub' = "scan" /\ ubScan' = IndexOf(ubHead) + 1
            /\ UNCHANGED <<ubHead, ubTail, ubBack>>
         \/ length > 0 /\ UnblockReturn
  /\ UNCHANGED <<buffer, strayed, UnblockFrame>>

(* The trailer, one unit to the half cache line: the tail position is its  *)
(* first word that is not zero.                                            *)
TailOffset == 2
TrailerLength == 12
WordAt(i) ==
  IF i < Capacity THEN buffer[i].length
  ELSE IF i = Capacity + TailOffset THEN tail ELSE 0

(* limit: m_buffer.capacity() counts the trailer. *)
ScanLimit ==
  IF IndexOf(ubTail) > IndexOf(ubHead) THEN IndexOf(ubTail)
  ELSE Capacity + TrailerLength

UnblockScan ==
  /\ ub = "scan"
  /\ \/ /\ WordAt(ubScan) # 0
        /\ ub' = "back" /\ ubBack' = ubScan - 1 /\ UNCHANGED <<ubHead, ubTail, ubScan>>
     \/ /\ WordAt(ubScan) = 0 /\ ubScan + 1 < ScanLimit
        /\ ubScan' = ubScan + 1 /\ UNCHANGED <<ub, ubHead, ubTail, ubBack>>
     \/ /\ WordAt(ubScan) = 0 /\ ubScan + 1 >= ScanLimit
        /\ UnblockReturn
  /\ UNCHANGED <<buffer, strayed, UnblockFrame>>

(* Mutant: the scan back is left out. *)
UnblockBack_None ==
  /\ ub = "back" /\ ub' = "store"
  /\ UNCHANGED <<buffer, ubHead, ubTail, ubScan, ubBack, strayed, UnblockFrame>>

(* scanBackToConfirmStillZeroed *)
UnblockBack ==
  /\ ub = "back"
  /\ \/ WordAt(ubBack) # 0 /\ UnblockReturn
     \/ /\ WordAt(ubBack) = 0 /\ ubBack > IndexOf(ubHead)
        /\ ubBack' = ubBack - 1 /\ UNCHANGED <<ub, ubHead, ubTail, ubScan>>
     \/ /\ WordAt(ubBack) = 0 /\ ubBack = IndexOf(ubHead)
        /\ ub' = "store" /\ UNCHANGED <<ubHead, ubTail, ubScan, ubBack>>
  /\ UNCHANGED <<buffer, strayed, UnblockFrame>>

(* The length of the padding record that is stored. *)
PadLength == ubScan - IndexOf(ubHead)

(* Records of dead producers, one behind the other, and nothing else. *)
AreAbandoned(from, length) ==
  /\ IndexOf(from) + length <= Capacity
  /\ \E i \in DOMAIN claims : \E j \in i .. Len(claims) :
       /\ claims[i].at = from /\ claims[j].end = from + length
       /\ \A k \in i .. j : claims[k].state = "void"

UnblockStore ==
  /\ ub = "store"
  /\ buffer' = [buffer EXCEPT ![IndexOf(ubHead)] =
                  makeHeader(PadLength, PADDING_MSG_TYPE_ID)]
  /\ strayed' = (strayed \/ ~AreAbandoned(ubHead, PadLength))
  /\ UnblockReturn
  /\ UNCHANGED UnblockFrame

unblock == Unblock \/ UnblockLength \/ UnblockScan \/ UnblockBack \/ UnblockStore

-----------------------------------------------------------------------------
Consumer == \/ ub = "idle" /\ read /\ UNCHANGED <<producerVars, unblockVars, claims, strayed>>
            \/ unblock

(* Everything offered and taken, or nobody left to write. *)
Quiet ==
  /\ ids = MaxWrites /\ \A p \in Producers : pc[p] \in {"idle", "dead"}
  /\ UNCHANGED vars

(* Once padding lies over the record of a live producer, or past the end   *)
(* of the buffer, positions and records do not agree any more: what the    *)
(* memory holds from there on is not followed.                             *)
Next ==
  \/ ~strayed /\ \E p \in Producers : Producer(p) \/ Die(p)
  \/ ~strayed /\ Consumer
  \/ Quiet

Spec == Init /\ [][Next]_vars

-----------------------------------------------------------------------------
TypeOK ==
  /\ buffer \in [0 .. (Capacity - 1) -> Cells]
  /\ tail \in Nat /\ headCache \in Nat /\ head \in Nat
  /\ reader \in {"idle", "record", "zero", "head"}
  /\ bytesRead \in 0 .. Capacity
  /\ pc \in [Producers -> Steps]
  /\ ub \in {"idle", "length", "scan", "back", "store"} /\ strayed \in BOOLEAN

(* Producers never claim space the consumer has not given back, although   *)
(* they decide on a cached head that any of them may store (claimCapacity).*)
NeverOverrun == tail - head <= Capacity

(* Free space is zero: the consumer tells an unwritten record by its zero  *)
(* length, so a byte left behind by an earlier lap would be taken for a    *)
(* record (read, claimCapacity, unblock).                                  *)
FreeSpaceZeroed ==
  \A i \in 0 .. (Capacity - 1) :
    (\A pos \in head .. (tail - 1) : IndexOf(pos) # i) => buffer[i] = Zero

(* How many claims the consumer has passed. *)
Passed(c) == LET Ended == {i \in DOMAIN c : c[i].end <= Consumed}
             IN  IF Ended = {} THEN 0
                 ELSE CHOOSE n \in Ended : \A i \in Ended : i <= n

Queue == INSTANCE ClaimQueue WITH
  Ids <- 1 .. MaxWrites,
  MaxBatch <- 1,
  claims <- [i \in DOMAIN claims |-> [id |-> claims[i].id,
                                      state |-> claims[i].state]],
  taken <- Passed(claims),
  delivered <- [n \in DOMAIN handed |-> handed[n].id]

(* The buffer is a queue: messages reach the handler once, complete and in *)
(* the order of their claims, and only the records of dead producers are   *)
(* passed over, up to a padding of unblock() that strays                   *)
(* (ManyToOneRingBuffer).                                                  *)
QueueSpec == Queue!Init /\ [][Queue!Next \/ strayed']_(Queue!vars)

(* unblock() cuts no record in two: the padding that it is about to store  *)
(* ends where some record ends or, when it met the trailer, past the       *)
(* buffer, although producers write headers and bytes into the space while *)
(* it is scanned (unblock, scanBackToConfirmStillZeroed).                  *)
PaddingEndsARecord ==
  ub = "store" =>
    \/ ubScan > Capacity
    \/ \E i \in DOMAIN claims : claims[i].end = ubHead + PadLength

(* What unblock() cannot promise: that only records of dead producers      *)
(* become padding.  A record that is slow, or that reaches the end of the  *)
(* buffer with nothing written, refutes it.                                *)
LiveClaimsKept == ~strayed

(* Every complete message has been delivered. *)
AllDelivered ==
  \A i \in DOMAIN claims :
    claims[i].state = "done" => \E n \in DOMAIN handed : handed[n].id = claims[i].id
=============================================================================
