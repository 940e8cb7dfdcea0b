----------------------------- MODULE ArrayQueue -----------------------------
(***************************************************************************)
(* The bounded queues between threads of the C client                      *)
(* (aeron/concurrent/aeron_spsc_concurrent_array_queue.h and               *)
(* aeron_mpsc_concurrent_array_queue.h): an array of pointers where NULL   *)
(* is a free place, a tail for the producers, a head for the consumer and  *)
(* a cached copy of the head.  Each load, store or compare-and-set of a    *)
(* shared word is one step.                                                *)
(***************************************************************************)
EXTENDS Integers, Sequences, FiniteSetsExt

CONSTANTS
  Single,        \* the queue of a single producer
  Producers,
  Elements,      \* Elements[p]: how many elements producer p offers
  Capacity,      \* a power of two
  MaxSizeCalls   \* bound: calls of size

ArrayQueueAssumption ==
  /\ Single \in BOOLEAN /\ (Single => \E p \in Producers : Producers = {p})
  /\ Elements \in [Producers -> Nat] /\ Capacity \in Nat \ {0}

VARIABLES
  buffer, tail, head,
  headCache,   \* producer.head_cache, producer.shared_head_cache
  offer,       \* per producer: where its offer stands
  sent,        \* per producer: elements offered
  drain,       \* the drain or poll under way
  sizer,       \* the size under way
  claims, delivered   \* history

vars == <<buffer, tail, head, headCache, offer, sent, drain, sizer, claims, delivered>>

NULL == << >>
Idle == [pc |-> "idle", head |-> 0, tail |-> 0]
NoDrain == [pc |-> "idle", next |-> 0, limit |-> 0, item |-> NULL]
NoSize == [pc |-> "idle", before |-> 0, tail |-> 0, after |-> 0, true |-> 0,
           calls |-> 0, result |-> 0]

Init ==
  /\ buffer = [i \in 0 .. (Capacity - 1) |-> NULL]
  /\ tail = 0 /\ head = 0 /\ headCache = 0
  /\ offer = [p \in Producers |-> Idle] /\ sent = [p \in Producers |-> 0]
  /\ drain = NoDrain /\ sizer = NoSize /\ claims = <<>> /\ delivered = <<>>

Element(p) == <<p, sent[p]>>
Open(p) == [id |-> Element(p), state |-> "open"]
ConsumerRest == <<head, drain, delivered, sizer>>
Go(p, rec) == offer' = [offer EXCEPT ![p] = rec]

-----------------------------------------------------------------------------
(* offer reads its copy of the head; the next element is not NULL. *)
loadCache(p) ==
  /\ offer[p].pc = "idle" /\ sent[p] < Elements[p]
  /\ Go(p, [pc |-> "tail", head |-> headCache, tail |-> 0])
  /\ sent' = [sent EXCEPT ![p] = @ + 1]
  /\ UNCHANGED <<buffer, tail, headCache, claims, ConsumerRest>>

(* The tail against the limit of the cached head. *)
loadTail(p) ==
  /\ offer[p].pc = "tail"
  /\ Go(p, [offer[p] EXCEPT !.tail = tail,
                            !.pc = IF tail >= offer[p].head + Capacity THEN "head"
                                   ELSE IF Single THEN "store" ELSE "cas"])
  /\ claims' = IF Single /\ tail < offer[p].head + Capacity
               THEN Append(claims, Open(p)) ELSE claims
  /\ UNCHANGED <<buffer, tail, headCache, sent, ConsumerRest>>

(* The head itself: AERON_OFFER_FULL, and the application tries again. *)
loadHead(p) ==
  /\ offer[p].pc = "head"
  /\ IF offer[p].tail >= head + Capacity
     THEN Go(p, Idle) /\ sent' = [sent EXCEPT ![p] = @ - 1]
     ELSE Go(p, [offer[p] EXCEPT !.head = head, !.pc = "cache"]) /\ UNCHANGED sent
  /\ UNCHANGED <<buffer, tail, headCache, claims, ConsumerRest>>

storeCache(p) ==
  /\ offer[p].pc = "cache"
  /\ headCache' = offer[p].head
  /\ Go(p, [offer[p] EXCEPT !.pc = IF Single THEN "store" ELSE "cas"])
  /\ claims' = IF Single THEN Append(claims, Open(p)) ELSE claims
  /\ UNCHANGED <<buffer, tail, sent, ConsumerRest>>

(* A producer that lost the race reads the tail again. *)
casTail(p) ==
  /\ offer[p].pc = "cas"
  /\ IF tail = offer[p].tail
     THEN /\ tail' = tail + 1
          /\ claims' = Append(claims, Open(p))
          /\ Go(p, [offer[p] EXCEPT !.pc = "store"])
     ELSE Go(p, [offer[p] EXCEPT !.pc = "tail"]) /\ UNCHANGED <<tail, claims>>
  /\ UNCHANGED <<buffer, headCache, sent, ConsumerRest>>

(* The element is stored; the single producer then moves the tail. *)
storeElement(p) ==
  /\ offer[p].pc = "store"
  /\ buffer' = [buffer EXCEPT ![offer[p].tail % Capacity] = Element(p)]
  /\ claims' = [claims EXCEPT ![offer[p].tail + 1].state = "done"]
  /\ Go(p, IF Single THEN [offer[p] EXCEPT !.pc = "move"] ELSE Idle)
  /\ UNCHANGED <<tail, headCache, sent, ConsumerRest>>

storeTail(p) ==
  /\ offer[p].pc = "move"
  /\ tail' = offer[p].tail + 1
  /\ Go(p, Idle)
  /\ UNCHANGED <<buffer, headCache, sent, claims, ConsumerRest>>

-----------------------------------------------------------------------------
ProducerRest == <<tail, headCache, offer, sent, claims, sizer>>

(* drain_all takes what the tail promises. *)
drain_all ==
  /\ drain.pc = "idle" /\ tail > head
  /\ drain' = [NoDrain EXCEPT !.pc = "load", !.next = head, !.limit = tail]
  /\ UNCHANGED <<buffer, head, delivered, ProducerRest>>

(* poll takes one element; it does not look at the tail. *)
poll ==
  /\ drain.pc = "idle" /\ Single /\ buffer[head % Capacity] # NULL
  /\ drain' = [NoDrain EXCEPT !.pc = "load", !.next = head, !.limit = head + 1]
  /\ UNCHANGED <<buffer, head, delivered, ProducerRest>>

loadItem ==
  /\ drain.pc = "load"
  /\ LET item == buffer[drain.next % Capacity]
     IN  IF drain.next < drain.limit /\ item # NULL
         THEN /\ drain' = [drain EXCEPT !.pc = "clear", !.item = item, !.next = @ + 1]
              /\ delivered' = Append(delivered, item)
         ELSE drain' = NoDrain /\ UNCHANGED delivered
  /\ UNCHANGED <<buffer, head, ProducerRest>>

clearItem ==
  /\ drain.pc = "clear"
  /\ buffer' = [buffer EXCEPT ![(drain.next - 1) % Capacity] = NULL]
  /\ drain' = [drain EXCEPT !.pc = "store"]
  /\ UNCHANGED <<head, delivered, ProducerRest>>

(* The head moves, then the function is called with the element. *)
storeHead ==
  /\ drain.pc = "store"
  /\ head' = drain.next
  /\ drain' = [drain EXCEPT !.pc = "load", !.item = NULL]
  /\ UNCHANGED <<buffer, delivered, ProducerRest>>

-----------------------------------------------------------------------------
QueueRest == <<buffer, tail, head, headCache, offer, sent, drain, claims, delivered>>

sizeBegin ==
  /\ sizer.pc = "idle" /\ sizer.calls < MaxSizeCalls
  /\ sizer' = [NoSize EXCEPT !.pc = "tail", !.after = head, !.calls = sizer.calls + 1]
  /\ UNCHANGED QueueRest

sizeTail ==
  /\ sizer.pc = "tail"
  /\ sizer' = [sizer EXCEPT !.pc = "head", !.before = sizer.after, !.tail = tail,
                            !.true = Max({tail - head, 0})]
  /\ UNCHANGED QueueRest

(* The head must not have moved between its two reads. *)
sizeHead ==
  /\ sizer.pc = "head"
  /\ sizer' = IF head # sizer.before
              THEN [sizer EXCEPT !.pc = "tail", !.after = head]
              ELSE [sizer EXCEPT !.pc = "idle", !.after = head,
                      !.result = Min({Max({sizer.tail - head, 0}), Capacity})]
  /\ UNCHANGED QueueRest

Offer(p) ==
  loadCache(p) \/ loadTail(p) \/ loadHead(p) \/ storeCache(p) \/ casTail(p)
  \/ storeElement(p) \/ storeTail(p)

Drain == drain_all \/ poll \/ loadItem \/ clearItem \/ storeHead

Next ==
  \/ \E p \in Producers : Offer(p)
  \/ Drain
  \/ sizeBegin \/ sizeTail \/ sizeHead

Spec == Init /\ [][Next]_vars

-----------------------------------------------------------------------------
TypeOK ==
  /\ tail \in (head - 1) .. (head + Capacity) /\ head \in Nat
  /\ drain.pc = "idle" \/ drain.next - head \in {0, 1}

Queue == INSTANCE ClaimQueue WITH
  Ids <- UNION {{p} \X (1 .. Elements[p]) : p \in Producers},
  MaxBatch <- 1,
  taken <- Len(delivered)

(* The consumer gets every element once, in the order in which the         *)
(* producers won their places (offer, drain, poll).                        *)
QueueSpec == Queue!Spec

(* size is the true number of elements at one moment of the call (size).   *)
SizeWasTrue == sizer.pc = "idle" => sizer.result = sizer.true

(* Every element of every producer has been delivered. *)
AllDelivered ==
  \A p \in Producers : \E n \in DOMAIN delivered : delivered[n] = <<p, Elements[p]>>
=============================================================================
