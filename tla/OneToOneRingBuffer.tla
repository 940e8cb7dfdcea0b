------------------------- MODULE OneToOneRingBuffer -------------------------
(***************************************************************************)
(* aeron-lib/include/concurrent/ringbuffer/OneToOneRingBuffer.h: one       *)
(* producer, one consumer, and any thread asking for the size.  The        *)
(* producer publishes a record by its header and stores the tail           *)
(* afterwards, so the consumer may be ahead of the tail.                   *)
(***************************************************************************)
EXTENDS RingBuffer

CONSTANT MaxSizeCalls   \* bound: calls of size()

SizeAssumption == MaxSizeCalls \in Nat

(* The producer: its next instruction, the message and requiredCapacity,   *)
(* the head it knows.                                                      *)
VARIABLES pc, msg, req, pHead, ids

(* A caller of size(): where it is, headBefore, tail, the answer, and what *)
(* the buffer held when the tail was loaded.                               *)
VARIABLES sizer, sBefore, sTail, sized, sHeld, sCalls

(* History: the messages accepted by write(), in order: where the record   *)
(* is, behind its padding, and where it ends.                              *)
VARIABLE claims

producerVars == <<pc, msg, req, pHead, ids>>
sizeVars == <<sizer, sBefore, sTail, sized, sHeld, sCalls>>

vars == <<memory, readerVars, producerVars, sizeVars, claims>>

Init ==
  /\ RingInit
  /\ pc = "idle" /\ msg = 0 /\ req = 0 /\ pHead = 0 /\ ids = 0
  /\ sizer = "idle" /\ sBefore = 0 /\ sTail = 0 /\ sized = 0 /\ sHeld = 0
  /\ sCalls = 0
  /\ claims = <<>>

-----------------------------------------------------------------------------
(* write() *)

Padding == IF req > Capacity - IndexOf(tail) THEN Capacity - IndexOf(tail) ELSE 0
RecordIndex == IF Padding # 0 THEN 0 ELSE IndexOf(tail)

(* The record is accepted. *)
Accept(r, id) ==
  LET padding == IF r > Capacity - IndexOf(tail)
                 THEN Capacity - IndexOf(tail) ELSE 0
  IN  /\ pc' = IF padding # 0 THEN "pad" ELSE "bytes"
      /\ claims' = Append(claims, [id |-> id, at |-> tail + padding,
                                   end |-> tail + padding + r, state |-> "open"])

NeedsWrapRoom(r, h) == r > Capacity - IndexOf(tail) /\ r > IndexOf(h)

(* The checks of the arguments, and the two plain loads of the positions   *)
(* the producer keeps for itself.                                          *)
write ==
  /\ pc = "idle" /\ ids < MaxWrites
  /\ \E length \in MsgLengths :
       LET r == length + HEADER_LENGTH
       IN  /\ length <= MaxMsgLength
           /\ req' = r
           /\ \/ /\ r > Capacity - (tail - headCache)
                 /\ pc' = "head1" /\ UNCHANGED claims
              \/ /\ r <= Capacity - (tail - headCache)
                 /\ NeedsWrapRoom(r, headCache)
                 /\ pc' = "head2" /\ UNCHANGED claims
              \/ /\ r <= Capacity - (tail - headCache)
                 /\ ~NeedsWrapRoom(r, headCache)
                 /\ Accept(r, ids + 1)
  /\ ids' = ids + 1 /\ msg' = ids + 1
  /\ pHead' = headCache
  /\ UNCHANGED <<memory, readerVars, sizeVars>>

Refuse == pc' = "idle" /\ msg' = 0 /\ req' = 0 /\ pHead' = 0

(* Not enough by the cached head: load the head, and cache it if it helps. *)
CheckCapacity ==
  /\ pc = "head1"
  /\ \/ /\ req > Capacity - (tail - head)
        /\ Refuse /\ UNCHANGED <<headCache, claims>>
     \/ /\ req <= Capacity - (tail - head)
        /\ pHead' = head /\ headCache' = head
        /\ \/ NeedsWrapRoom(req, head) /\ pc' = "head2" /\ UNCHANGED claims
           \/ ~NeedsWrapRoom(req, head) /\ Accept(req, msg)
        /\ UNCHANGED <<msg, req>>
  /\ UNCHANGED <<buffer, tail, head, ids, readerVars, sizeVars>>

CheckWrap ==
  /\ pc = "head2"
  /\ \/ /\ req > IndexOf(head)
        /\ Refuse /\ UNCHANGED <<headCache, claims>>
     \/ /\ req <= IndexOf(head)
        /\ pHead' = head /\ headCache' = head
        /\ Accept(req, msg)
        /\ UNCHANGED <<msg, req>>
  /\ UNCHANGED <<buffer, tail, head, ids, readerVars, sizeVars>>

WritePadding ==
  /\ pc = "pad" /\ pc' = "bytes"
  /\ buffer' = [buffer EXCEPT ![IndexOf(tail)] =
                  makeHeader(Padding, PADDING_MSG_TYPE_ID)]
  /\ UNCHANGED <<tail, headCache, head, msg, req, pHead, ids, claims,
                 readerVars, sizeVars>>

WriteBytes ==
  /\ pc = "bytes" /\ pc' = "header"
  /\ buffer' = [i \in DOMAIN buffer |->
                  IF i \in (RecordIndex + 1) .. (RecordIndex + req - 1)
                  THEN MsgUnit(msg) ELSE buffer[i]]
  /\ UNCHANGED <<tail, headCache, head, msg, req, pHead, ids, claims,
                 readerVars, sizeVars>>

WriteHeader ==
  /\ pc = "header" /\ pc' = "tail"
  /\ buffer' = [buffer EXCEPT ![RecordIndex] = makeHeader(req, msg)]
  /\ claims' = [claims EXCEPT ![Len(claims)].state = "done"]
  /\ UNCHANGED <<tail, headCache, head, msg, req, pHead, ids, readerVars, sizeVars>>

StoreTail ==
  /\ pc = "tail"
  /\ tail' = tail + req + Padding
  /\ Refuse
  /\ UNCHANGED <<buffer, headCache, head, ids, claims, readerVars, sizeVars>>

Producer == write \/ CheckCapacity \/ CheckWrap \/ WritePadding \/ WriteBytes
            \/ WriteHeader \/ StoreTail

(* read(), the same code as the other ring buffer's *)
Consumer == read /\ UNCHANGED <<producerVars, sizeVars, claims>>

-----------------------------------------------------------------------------
(* size() *)

SizeBegin ==
  /\ sizer = "idle" /\ sCalls < MaxSizeCalls
  /\ sizer' = "tail" /\ sBefore' = head /\ sCalls' = sCalls + 1
  /\ UNCHANGED <<memory, readerVars, producerVars, claims, sTail, sized, sHeld>>

SizeTail ==
  /\ sizer = "tail" /\ sizer' = "after"
  /\ sTail' = tail
  /\ sHeld' = tail - head
  /\ UNCHANGED <<memory, readerVars, producerVars, claims, sBefore, sized, sCalls>>

Clamp(size) ==
  IF size < 0 THEN 0 ELSE IF size > Capacity THEN Capacity ELSE size

(* The head is loaded again; if it moved, so is the tail. *)
SizeAfter ==
  /\ sizer = "after"
  /\ \/ /\ head # sBefore
        /\ sizer' = "tail" /\ sBefore' = head /\ UNCHANGED sized
     \/ /\ head = sBefore
        /\ sizer' = "done" /\ sized' = Clamp(sTail - head) /\ UNCHANGED sBefore
  /\ UNCHANGED <<memory, readerVars, producerVars, claims, sTail, sHeld, sCalls>>

SizeReturn ==
  /\ sizer = "done" /\ sizer' = "idle"
  /\ UNCHANGED <<memory, readerVars, producerVars, claims, sBefore, sTail, sized,
                 sHeld, sCalls>>

size == SizeBegin \/ SizeTail \/ SizeAfter \/ SizeReturn

Quiet == ids = MaxWrites /\ pc = "idle" /\ UNCHANGED vars

Next == Producer \/ Consumer \/ size \/ Quiet

Spec == Init /\ [][Next]_vars

-----------------------------------------------------------------------------
TypeOK ==
  /\ buffer \in [0 .. (Capacity - 1) -> Cells]
  /\ tail \in Nat /\ headCache \in Nat /\ head \in Nat
  /\ reader \in {"idle", "record", "zero", "head"}
  /\ bytesRead \in 0 .. Capacity
  /\ pc \in {"idle", "head1", "head2", "pad", "bytes", "header", "tail"}
  /\ sizer \in {"idle", "tail", "after", "done"}

(* The space the producer is about to publish, padding included, is never  *)
(* space the consumer has yet to read (write()).                           *)
NeverOverrun ==
  /\ pc \in {"pad", "bytes", "header", "tail"} =>
       tail + req + Padding - head <= Capacity
  /\ tail - head <= Capacity

(* The answer of size() is what the buffer held at one moment of the call, *)
(* although three loads of two positions went into it (size()).            *)
SizeWasTrue == sizer = "done" => sized = Clamp(sHeld)

Passed == LET Ended == {i \in DOMAIN claims : claims[i].end <= Consumed}
          IN  IF Ended = {} THEN 0
              ELSE CHOOSE n \in Ended : \A i \in Ended : i <= n

Queue == INSTANCE ClaimQueue WITH
  Ids <- 1 .. MaxWrites,
  MaxBatch <- 1,
  claims <- [i \in DOMAIN claims |-> [id |-> claims[i].id,
                                      state |-> claims[i].state]],
  taken <- Passed,
  delivered <- [n \in DOMAIN handed |-> handed[n].id]

(* The buffer is a queue although the consumer runs ahead of the tail and  *)
(* the producer decides on a head it cached (OneToOneRingBuffer).          *)
QueueSpec == Queue!Spec

(* Every accepted message has been delivered. *)
AllDelivered ==
  \A i \in DOMAIN claims : \E n \in DOMAIN handed : handed[n].id = claims[i].id
=============================================================================
