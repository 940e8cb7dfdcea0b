-------------------------- MODULE ArrayQueueProofs --------------------------
(***************************************************************************)
(* The array queues of the C client, of one producer and of many, for      *)
(* every capacity and any number of producers and elements: they implement *)
(* ClaimQueue, the tail stays within the array, and a size was true.       *)
(***************************************************************************)
EXTENDS ArrayQueue, SequenceTheorems, TLAPS

Items == UNION {{p} \X (1 .. Elements[p]) : p \in Producers}
ClaimRecord == [id : Items, state : {"open", "done"}]
OfferPoints == {"idle", "tail", "head", "cache", "cas", "store", "move"}
OfferRecord == [pc : OfferPoints, head : Nat, tail : Nat]

(* The places claimed so far and the places the consumer has taken. *)
Claimed == Len(claims)
Taken == Len(delivered)

QueueType ==
  /\ DOMAIN buffer = 0 .. (Capacity - 1)
  /\ tail \in Nat /\ head \in Nat /\ headCache \in Nat
  /\ offer \in [Producers -> OfferRecord] /\ sent \in [Producers -> Nat]
  /\ claims \in Seq(ClaimRecord) /\ delivered \in Seq(Items)

(* What a producer knows at each point of its offer: the head it compares  *)
(* with is an old one, the place it stores to is its own and still open.   *)
OfferKnows(p) ==
  /\ sent[p] <= Elements[p]
  /\ offer[p].pc # "idle" => sent[p] >= 1 /\ offer[p].head <= head
  /\ offer[p].pc \in {"cache", "cas"} => offer[p].tail < offer[p].head + Capacity
  /\ offer[p].pc = "store" => offer[p].tail < Claimed /\ claims[offer[p].tail + 1] = Open(p)
  /\ offer[p].pc = "move" => Single
  /\ offer[p].pc = "cas" => ~Single
  /\ Single /\ offer[p].pc \in {"head", "cache", "store", "move"} => offer[p].tail = tail
  /\ Single /\ offer[p].pc \in {"store", "move"} => Claimed = tail + 1
  /\ ~(Single /\ offer[p].pc \in {"store", "move"}) => Claimed = tail

Offers == \A p \in Producers : OfferKnows(p)

(* No two producers store to one place. *)
OffersApart ==
  \A p, q \in Producers :
    offer[p].pc = "store" /\ offer[q].pc = "store" /\ offer[p].tail = offer[q].tail => p = q

DrainShape ==
  drain = [pc |-> drain.pc, next |-> drain.next, limit |-> drain.limit, item |-> drain.item]

(* The consumer is at most one element ahead of the head, behind the       *)
(* claims, and has passed none that is open; the claims fit the array.     *)
Window ==
  /\ headCache <= head /\ tail <= Claimed /\ Claimed <= tail + 1
  /\ DrainShape /\ drain.pc \in {"idle", "load", "clear", "store"}
  /\ drain.pc \in {"clear", "store"} => Taken = head + 1
  /\ drain.pc \in {"idle", "load"} => Taken = head
  /\ drain.pc # "idle" => drain.next = Taken
  /\ Taken <= Claimed /\ Claimed <= head + Capacity
  /\ \A i \in 1 .. Taken : claims[i].state = "done"

Filled(i) == i < Claimed /\ claims[i + 1].state = "done" /\ (drain.pc = "store" => i # head)

(* From the head once around the array: a place whose claim is finished    *)
(* and not yet cleared has its element, every other place is NULL.         *)
Contents ==
  \A i \in head .. (head + Capacity - 1) :
    buffer[i % Capacity] = IF Filled(i) THEN claims[i + 1].id ELSE NULL

SizerShape ==
  sizer = [pc |-> sizer.pc, before |-> sizer.before, tail |-> sizer.tail, after |-> sizer.after,
           true |-> sizer.true, calls |-> sizer.calls, result |-> sizer.result]

(* A size that finds the head unmoved has read a tail of that moment. *)
Sizing ==
  /\ SizerShape /\ sizer.pc \in {"idle", "tail", "head"}
  /\ sizer.pc = "tail" => sizer.after \in Nat /\ sizer.after <= head
  /\ sizer.pc = "head" =>
       /\ sizer.before \in Nat /\ sizer.before <= head
       /\ sizer.before = head =>
            /\ sizer.tail \in Nat /\ sizer.tail <= head + Capacity
            /\ sizer.true = Max({sizer.tail - head, 0})
  /\ SizeWasTrue

QueueInv == QueueType /\ Offers /\ OffersApart /\ Window /\ Contents /\ Sizing

-----------------------------------------------------------------------------
LEMMA MaxOfTwo ==
  ASSUME NEW a \in Int, NEW b \in Int
  PROVE  /\ Max({a, b}) \in {a, b} /\ Max({a, b}) >= a /\ Max({a, b}) >= b
<1>1. \E m \in {a, b} : \A x \in {a, b} : x <= m
  BY SMT
<1>2. QED
  BY <1>1 DEF Max

LEMMA MinOfTwo ==
  ASSUME NEW a \in Int, NEW b \in Int
  PROVE  /\ Min({a, b}) \in {a, b} /\ Min({a, b}) <= a /\ Min({a, b}) <= b
<1>1. \E m \in {a, b} : \A x \in {a, b} : m <= x
  BY SMT
<1>2. QED
  BY <1>1 DEF Min

(* A quotient and a remainder are determined by their number. *)
LEMMA DivisionIsUnique ==
  ASSUME NEW c \in Nat \ {0}, NEW a \in Int, NEW b \in Int, NEW r \in Int, NEW s \in Int,
         c * a + r = c * b + s, r - s < c, s - r < c
  PROVE  a = b /\ r = s
<1>1. c * (a - b) = s - r
  BY Z3
<1>2. a - b < 1
  BY <1>1, Z3
<1>3. b - a < 1
  BY <1>1, Z3
<1>4. a = b
  BY <1>2, <1>3, Z3
<1>5. QED
  BY <1>4, Z3

LEMMA Division ==
  ASSUME NEW c \in Nat \ {0}, NEW i \in Nat
  PROVE  /\ i \div c \in Int /\ i % c \in 0 .. (c - 1)
         /\ i = c * (i \div c) + (i % c)
<1>1. i \div c \in Int /\ i % c \in 0 .. (c - 1)
  BY Z3
<1>2. i = c * (i \div c) + (i % c)
  BY Z3
<1>3. QED
  BY <1>1, <1>2

(* Positions less than a lap apart have places of their own. *)
LEMMA OnePlaceEach ==
  ASSUME NEW c \in Nat \ {0}, NEW h \in Nat, NEW i \in h .. (h + c - 1), NEW j \in h .. (h + c - 1),
         i % c = j % c
  PROVE  i = j
<1> DEFINE a == i \div c
           b == j \div c
           r == i % c
<1>1. a \in Int /\ r \in 0 .. (c - 1) /\ i = c * a + r
  BY Division
<1>2. b \in Int /\ j = c * b + r
  BY Division
<1> HIDE DEF a, b, r
<1>3. c * a + (j - i) = c * b + 0
  BY <1>1, <1>2, Z3
<1>4. j - i \in Int /\ (j - i) - 0 < c /\ 0 - (j - i) < c
  OBVIOUS
<1>5. j - i = 0
  BY <1>1, <1>2, <1>3, <1>4, DivisionIsUnique
<1>6. QED
  BY <1>5

LEMMA OneLap ==
  ASSUME NEW c \in Nat \ {0}, NEW h \in Nat
  PROVE  (h + c) % c = h % c
<1> DEFINE a == (h + c) \div c
           b == h \div c
           r == (h + c) % c
           s == h % c
<1>1. a \in Int /\ r \in 0 .. (c - 1) /\ h + c = c * a + r
  <2>1. h + c \in Nat
    OBVIOUS
  <2>2. QED
    BY <2>1, Division
<1>2. b \in Int /\ s \in 0 .. (c - 1) /\ h = c * b + s
  BY Division
<1>3. r = s
  <2> HIDE DEF a, b, r, s
  <2>1. c * a + r = c * (b + 1) + s
    BY <1>1, <1>2, Z3
  <2>2. r - s < c /\ s - r < c /\ b + 1 \in Int
    BY <1>1, <1>2
  <2>3. QED
    BY <1>1, <1>2, <2>1, <2>2, DivisionIsUnique
<1>4. QED
  BY <1>3

-----------------------------------------------------------------------------
LEMMA QueueInvInit ==
  ASSUME ArrayQueueAssumption, Init
  PROVE  QueueInv
<1>1. QueueType
  BY DEF ArrayQueueAssumption, Init, QueueType, OfferRecord, OfferPoints, Idle
<1>2. Claimed = 0 /\ Taken = 0
  BY DEF Init, Claimed, Taken
<1>3. Offers /\ OffersApart
  BY <1>2 DEF ArrayQueueAssumption, Init, Offers, OffersApart, OfferKnows, Idle
<1>4. Window
  BY <1>2 DEF ArrayQueueAssumption, Init, Window, DrainShape, NoDrain
<1>5. Contents
  <2> SUFFICES ASSUME NEW i \in head .. (head + Capacity - 1)
      PROVE  buffer[i % Capacity] = IF Filled(i) THEN claims[i + 1].id ELSE NULL
    BY DEF Contents
  <2>1. Capacity \in Nat \ {0} /\ i \in Nat /\ ~(i < Claimed)
    BY <1>2 DEF ArrayQueueAssumption, Init
  <2>2. i % Capacity \in 0 .. (Capacity - 1)
    BY <2>1, Division
  <2>3. QED
    BY <2>1, <2>2 DEF Init, Filled
<1>6. Sizing
  BY DEF Init, NoSize, Sizing, SizerShape, SizeWasTrue
<1>7. QED
  BY <1>1, <1>3, <1>4, <1>5, <1>6 DEF QueueInv

(* One producer is alone. *)
LEMMA OnlyProducer ==
  ASSUME ArrayQueueAssumption, Single, NEW p \in Producers, NEW q \in Producers
  PROVE  p = q
BY DEF ArrayQueueAssumption

(* Going to another point of an offer changes that of p alone. *)
LEMMA GoOn ==
  ASSUME offer \in [Producers -> OfferRecord], NEW p \in Producers, NEW r \in OfferRecord, Go(p, r)
  PROVE  /\ offer' \in [Producers -> OfferRecord] /\ offer'[p] = r
         /\ \A q \in Producers : q # p => offer'[q] = offer[q]
BY DEF Go

LEMMA OfferFields ==
  ASSUME offer \in [Producers -> OfferRecord], NEW p \in Producers
  PROVE  /\ offer[p].head \in Nat /\ offer[p].tail \in Nat
         /\ offer[p].pc \in {"idle", "tail", "head", "cache", "cas", "store", "move"}
         /\ offer[p] = [pc |-> offer[p].pc, head |-> offer[p].head, tail |-> offer[p].tail]
<1>1. offer[p] \in OfferRecord
  OBVIOUS
<1>2. QED
  BY <1>1 DEF OfferRecord, OfferPoints

LEMMA OfferUpdates ==
  ASSUME NEW o \in OfferRecord, NEW k \in OfferPoints, NEW n \in Nat
  PROVE  /\ [o EXCEPT !.tail = n, !.pc = k] = [pc |-> k, head |-> o.head, tail |-> n]
         /\ [o EXCEPT !.head = n, !.pc = k] = [pc |-> k, head |-> n, tail |-> o.tail]
         /\ [o EXCEPT !.pc = k] = [pc |-> k, head |-> o.head, tail |-> o.tail]
<1>1. o = [pc |-> o.pc, head |-> o.head, tail |-> o.tail]
  BY DEF OfferRecord
<1>2. [o EXCEPT !.tail = n, !.pc = k] = [pc |-> k, head |-> o.head, tail |-> n]
  <2> DEFINE m == [o EXCEPT !.tail = n, !.pc = k]
  <2>1. m \in OfferRecord /\ m.pc = k /\ m.head = o.head /\ m.tail = n
    BY <1>1 DEF OfferRecord
  <2> HIDE DEF m
  <2>2. m = [pc |-> k, head |-> o.head, tail |-> n]
    BY <2>1 DEF OfferRecord
  <2>3. QED
    BY <2>2 DEF m
<1>3. [o EXCEPT !.head = n, !.pc = k] = [pc |-> k, head |-> n, tail |-> o.tail]
  <2> DEFINE m == [o EXCEPT !.head = n, !.pc = k]
  <2>1. m \in OfferRecord /\ m.pc = k /\ m.head = n /\ m.tail = o.tail
    BY <1>1 DEF OfferRecord
  <2> HIDE DEF m
  <2>2. m = [pc |-> k, head |-> n, tail |-> o.tail]
    BY <2>1 DEF OfferRecord
  <2>3. QED
    BY <2>2 DEF m
<1>4. [o EXCEPT !.pc = k] = [pc |-> k, head |-> o.head, tail |-> o.tail]
  BY <1>1
<1>5. QED
  BY <1>2, <1>3, <1>4

(* A step of a producer that neither claims nor stores keeps the rest. *)
LEMMA ConsumerUntouched ==
  ASSUME QueueInv, UNCHANGED <<buffer, claims, ConsumerRest>>, headCache' \in Nat,
         headCache' <= head, tail' <= Claimed, Claimed <= tail' + 1
  PROVE  Window' /\ Contents' /\ Sizing' /\ Claimed' = Claimed
<1>1. /\ buffer' = buffer /\ claims' = claims /\ head' = head /\ drain' = drain
      /\ delivered' = delivered /\ sizer' = sizer
  BY DEF ConsumerRest
<1>2. Claimed' = Claimed /\ Taken' = Taken
  BY <1>1 DEF Claimed, Taken
<1>3. Window'
  BY <1>1, <1>2 DEF QueueInv, Window, DrainShape
<1>4. Contents'
  BY <1>1, <1>2 DEF QueueInv, Contents, Filled
<1>5. Sizing'
  BY <1>1 DEF QueueInv, Sizing, SizerShape, SizeWasTrue
<1>6. QED
  BY <1>2, <1>3, <1>4, <1>5

(* The claims and the tail as they were, another producer knows what it    *)
(* knew.                                                                   *)
LEMMA OthersKnow ==
  ASSUME QueueInv, NEW q \in Producers, claims' = claims, tail' = tail, head' = head,
         offer'[q] = offer[q], sent'[q] = sent[q]
  PROVE  OfferKnows(q)'
BY DEF QueueInv, Offers, OfferKnows, Open, Element, Claimed

LEMMA loadCacheKeeps ==
  ASSUME ArrayQueueAssumption, QueueInv, NEW p \in Producers, loadCache(p)
  PROVE  QueueInv'
<1>1. /\ offer[p].pc = "idle" /\ sent[p] < Elements[p] /\ claims' = claims /\ head' = head
      /\ tail' = tail /\ buffer' = buffer /\ delivered' = delivered /\ headCache' = headCache
      /\ sent' = [sent EXCEPT ![p] = sent[p] + 1]
      /\ Go(p, [pc |-> "tail", head |-> headCache, tail |-> 0])
  BY DEF loadCache, ConsumerRest
<1>2. [pc |-> "tail", head |-> headCache, tail |-> 0] \in OfferRecord
  BY DEF QueueInv, QueueType, OfferRecord, OfferPoints
<1>3. /\ offer' \in [Producers -> OfferRecord]
      /\ offer'[p] = [pc |-> "tail", head |-> headCache, tail |-> 0]
      /\ \A q \in Producers : q # p => offer'[q] = offer[q]
  BY <1>1, <1>2, GoOn DEF QueueInv, QueueType
<1>4. /\ sent' \in [Producers -> Nat] /\ sent'[p] = sent[p] + 1
      /\ \A q \in Producers : q # p => sent'[q] = sent[q]
  BY <1>1 DEF QueueInv, QueueType
<1>5. QueueType'
  BY <1>1, <1>3, <1>4 DEF QueueInv, QueueType
<1>6. Window' /\ Contents' /\ Sizing' /\ Claimed' = Claimed
  BY <1>1, ConsumerUntouched DEF loadCache, QueueInv, QueueType, Window
<1>7. OfferKnows(p)'
  <2>1. OfferKnows(p) /\ sent[p] \in Nat /\ Elements[p] \in Nat /\ headCache <= head
    BY DEF QueueInv, Offers, QueueType, ArrayQueueAssumption, Window
  <2>2. QED
    BY <1>1, <1>3, <1>4, <1>6, <2>1 DEF OfferKnows
<1>8. Offers'
  BY <1>1, <1>3, <1>4, <1>7, OthersKnow DEF Offers
<1>9. OffersApart'
  BY <1>3 DEF QueueInv, OffersApart
<1>10. QED
  BY <1>5, <1>6, <1>8, <1>9 DEF QueueInv

-----------------------------------------------------------------------------
(* The next place is claimed: it is open, and those before it stay. *)
NewClaim(p) ==
  /\ claims' = Append(claims, Open(p)) /\ claims' \in Seq(ClaimRecord)
  /\ Claimed' = Claimed + 1 /\ claims'[Claimed + 1] = Open(p)
  /\ \A i \in 1 .. Claimed : claims'[i] = claims[i]

LEMMA ClaimAppended ==
  ASSUME ArrayQueueAssumption, QueueInv, NEW p \in Producers, offer[p].pc # "idle",
         claims' = Append(claims, Open(p))
  PROVE  NewClaim(p) /\ Open(p) \in ClaimRecord
<1>1. OfferKnows(p) /\ sent[p] \in Nat /\ Elements[p] \in Nat
  BY DEF QueueInv, QueueType, Offers, ArrayQueueAssumption
<1>2. sent[p] \in 1 .. Elements[p]
  BY <1>1 DEF OfferKnows
<1>3. Element(p) \in {p} \X (1 .. Elements[p])
  BY <1>2 DEF Element
<1>4. Element(p) \in Items
  BY <1>3 DEF Items
<1>5. Open(p) \in ClaimRecord
  BY <1>4 DEF Open, ClaimRecord
<1>6. QED
  BY <1>5 DEF NewClaim, QueueInv, QueueType, Claimed

(* A claim below the head's lap leaves the consumer's side as it was. *)
LEMMA ClaimFits ==
  ASSUME ArrayQueueAssumption, QueueInv, NEW p \in Producers, NewClaim(p), Claimed < head + Capacity,
         UNCHANGED <<buffer, ConsumerRest>>, headCache' \in Nat, headCache' <= head,
         tail' \in Nat, tail' <= Claimed + 1, Claimed <= tail'
  PROVE  Window' /\ Contents' /\ Sizing'
<1>1. /\ buffer' = buffer /\ head' = head /\ drain' = drain
      /\ delivered' = delivered /\ sizer' = sizer
  BY DEF ConsumerRest
<1>2. Claimed \in Nat /\ head \in Nat /\ Capacity \in Nat /\ Taken \in Nat
  BY DEF QueueInv, QueueType, Claimed, Taken, ArrayQueueAssumption
<1>3. /\ Taken' = Taken /\ Claimed' = Claimed + 1 /\ claims'[Claimed + 1] = Open(p)
      /\ \A i \in 1 .. Claimed : claims'[i] = claims[i]
  BY <1>1 DEF Taken, NewClaim
<1>4. Taken <= Claimed /\ \A i \in 1 .. Taken : claims'[i].state = "done"
  <2>1. Taken <= Claimed /\ \A i \in 1 .. Taken : claims[i].state = "done"
    BY DEF QueueInv, Window
  <2>2. QED
    BY <1>2, <1>3, <2>1
<1>5. Window'
  <2>1. Claimed' <= head' + Capacity /\ Taken' <= Claimed'
    BY <1>1, <1>2, <1>3, <1>4
  <2>2. headCache' <= head' /\ tail' <= Claimed' /\ Claimed' <= tail' + 1
    <3>1. headCache' <= head'
      BY <1>1
    <3>2. Claimed' = Claimed + 1
      BY <1>3
    <3>3. tail' <= Claimed'
      BY <1>2, <3>2
    <3>4. Claimed' <= tail' + 1
      <4>1. Claimed \in Nat /\ tail' \in Nat /\ Claimed <= tail'
        BY <1>2
      <4>2. \A a, b \in Nat : a <= b => a + 1 <= b + 1
        OBVIOUS
      <4>3. QED
        BY <3>2, <4>1, <4>2
    <3>5. QED
      BY <3>1, <3>3, <3>4
  <2>3. Window
    BY DEF QueueInv
  <2>4. QED
    BY <1>1, <1>3, <1>4, <2>1, <2>2, <2>3 DEF Window, DrainShape
<1>6. Contents'
  <2> SUFFICES ASSUME NEW i \in head .. (head + Capacity - 1)
      PROVE  buffer[i % Capacity] = IF Filled(i)' THEN claims'[i + 1].id ELSE NULL
    BY <1>1 DEF Contents
  <2>1. buffer[i % Capacity] = IF Filled(i) THEN claims[i + 1].id ELSE NULL
    BY DEF QueueInv, Contents
  <2>2. CASE i < Claimed
    <3>1. claims'[i + 1] = claims[i + 1]
      BY <1>2, <1>3, <2>2
    <3>2. QED
      BY <1>1, <1>2, <1>3, <2>1, <2>2, <3>1 DEF Filled
  <2>3. CASE i = Claimed
    <3>1. claims'[i + 1].state = "open" /\ ~(i < Claimed)
      BY <1>2, <1>3, <2>3 DEF Open
    <3>2. QED
      BY <2>1, <3>1 DEF Filled
  <2>4. CASE i > Claimed
    <3>1. ~(i < Claimed) /\ ~(i < Claimed')
      BY <1>2, <1>3, <2>4
    <3>2. QED
      BY <2>1, <3>1 DEF Filled
  <2>5. QED
    BY <1>2, <2>2, <2>3, <2>4
<1>7. Sizing'
  BY <1>1 DEF QueueInv, Sizing, SizerShape, SizeWasTrue
<1>8. QED
  BY <1>5, <1>6, <1>7

(* The single producer, the only one, claims the place at the tail. *)
LEMMA SingleClaims ==
  ASSUME ArrayQueueAssumption, QueueInv, Single, NEW p \in Producers,
         offer[p].pc \in {"tail", "cache"}, claims' = Append(claims, Open(p)), tail' = tail,
         tail < head + Capacity, UNCHANGED <<buffer, sent, ConsumerRest>>,
         headCache' \in Nat, headCache' <= head,
         Go(p, [pc |-> "store", head |-> offer[p].head, tail |-> tail])
  PROVE  QueueInv'
<1>1. NewClaim(p) /\ Open(p) \in ClaimRecord
  BY ClaimAppended
<1>2. OfferKnows(p) /\ Claimed = tail /\ tail \in Nat /\ Claimed \in Nat
  BY DEF QueueInv, QueueType, Offers, OfferKnows, Claimed
<1>3. offer[p].head \in Nat
  BY OfferFields DEF QueueInv, QueueType
<1> DEFINE r == [pc |-> "store", head |-> offer[p].head, tail |-> tail]
<1>4. r \in OfferRecord
  BY <1>2, <1>3 DEF OfferRecord, OfferPoints
<1>5. offer' \in [Producers -> OfferRecord] /\ offer'[p] = r
  BY <1>4, GoOn DEF QueueInv, QueueType
<1>6. Window' /\ Contents' /\ Sizing'
  BY <1>1, <1>2, ClaimFits
<1>7. head' = head /\ delivered' = delivered /\ sent' = sent /\ buffer' = buffer
  BY DEF ConsumerRest
<1>8. QueueType'
  BY <1>1, <1>5, <1>7 DEF QueueInv, QueueType, NewClaim
<1>9. OfferKnows(p)'
  <2>1. r.pc = "store" /\ r.head = offer[p].head /\ r.tail = tail
    OBVIOUS
  <2>2. Open(p)' = Open(p) /\ sent'[p] = sent[p]
    BY <1>7 DEF Open, Element
  <2>3. /\ offer'[p].pc = "store" /\ offer'[p].head = offer[p].head /\ offer'[p].tail = tail
    BY <1>5, <2>1
  <2>4. claims'[tail + 1] = Open(p) /\ Claimed' = tail + 1
    BY <1>1, <1>2 DEF NewClaim
  <2>5. QED
    BY <1>2, <1>7, <2>2, <2>3, <2>4 DEF OfferKnows
<1>10. \A q \in Producers : q = p
  BY OnlyProducer
<1>11. Offers' /\ OffersApart'
  BY <1>9, <1>10 DEF Offers, OffersApart
<1>12. QED
  BY <1>6, <1>8, <1>11 DEF QueueInv

LEMMA loadTailKeeps ==
  ASSUME ArrayQueueAssumption, QueueInv, NEW p \in Producers, loadTail(p)
  PROVE  QueueInv'
<1>1. /\ offer[p].pc = "tail" /\ head' = head /\ tail' = tail /\ buffer' = buffer
      /\ delivered' = delivered /\ headCache' = headCache /\ sent' = sent
      /\ UNCHANGED <<buffer, sent, ConsumerRest>>
  BY DEF loadTail, ConsumerRest
<1>2. /\ OfferKnows(p) /\ tail \in Nat /\ head \in Nat /\ Capacity \in Nat /\ headCache \in Nat
      /\ headCache <= head /\ tail <= Claimed /\ Claimed <= tail + 1 /\ Claimed \in Nat
  BY DEF QueueInv, QueueType, Offers, ArrayQueueAssumption, Window, Claimed
<1>3. offer[p].head \in Nat /\ offer[p].tail \in Nat /\ offer[p].head <= head
  BY <1>1, <1>2, OfferFields DEF QueueInv, QueueType, OfferKnows
<1> DEFINE r(pc) == [pc |-> pc, head |-> offer[p].head, tail |-> tail]
<1>4. Go(p, r(IF tail >= offer[p].head + Capacity THEN "head"
              ELSE IF Single THEN "store" ELSE "cas"))
  <2>1. offer[p] \in OfferRecord
    BY DEF QueueInv, QueueType
  <2>2. QED
    <3>1. (IF tail >= offer[p].head + Capacity THEN "head"
           ELSE IF Single THEN "store" ELSE "cas") \in OfferPoints
      BY DEF OfferPoints
    <3>2. QED
      <4> DEFINE pc == IF tail >= offer[p].head + Capacity THEN "head"
                       ELSE IF Single THEN "store" ELSE "cas"
      <4>1. Go(p, [offer[p] EXCEPT !.tail = tail, !.pc = pc]) /\ pc \in OfferPoints
        BY <3>1 DEF loadTail
      <4> HIDE DEF pc
      <4>2. [offer[p] EXCEPT !.tail = tail, !.pc = pc] = r(pc)
        BY <1>2, <2>1, <4>1, OfferUpdates
      <4>3. Go(p, r(pc))
        BY <4>1, <4>2
      <4>4. QED
        BY <4>3 DEF pc
<1>5. CASE Single /\ tail < offer[p].head + Capacity
  <2>1. Go(p, r("store"))
    BY <1>2, <1>3, <1>4, <1>5
  <2>2. claims' = Append(claims, Open(p)) /\ tail < head + Capacity
    BY <1>2, <1>3, <1>5 DEF loadTail
  <2>3. QED
    BY <1>1, <1>2, <1>5, <2>1, <2>2, SingleClaims
<1>6. CASE ~(Single /\ tail < offer[p].head + Capacity)
  <2>1. claims' = claims
    BY <1>6 DEF loadTail
  <2>2. PICK pc \in {"head", "cas"} :
          /\ Go(p, r(pc))
          /\ pc = "cas" => tail < offer[p].head + Capacity /\ ~Single
    BY <1>2, <1>3, <1>4, <1>6
  <2>3. r(pc) \in OfferRecord
    BY <1>2, <1>3 DEF OfferRecord, OfferPoints
  <2>4. /\ offer' \in [Producers -> OfferRecord] /\ offer'[p] = r(pc)
        /\ \A q \in Producers : q # p => offer'[q] = offer[q]
    BY <2>2, <2>3, GoOn DEF QueueInv, QueueType
  <2>5. QueueType'
    BY <1>1, <2>1, <2>4 DEF QueueInv, QueueType
  <2>6. Window' /\ Contents' /\ Sizing' /\ Claimed' = Claimed
    BY <1>1, <1>2, <2>1, ConsumerUntouched
  <2>7. offer'[p].pc = pc /\ offer'[p].head = offer[p].head /\ offer'[p].tail = tail
    BY <2>4
  <2>8. OfferKnows(p)'
    BY <1>1, <1>2, <1>3, <2>2, <2>6, <2>7 DEF OfferKnows
  <2>9. Offers'
    BY <1>1, <2>1, <2>4, <2>8, OthersKnow DEF Offers
  <2>10. OffersApart'
    BY <2>2, <2>4, <2>7 DEF QueueInv, OffersApart
  <2>11. QED
    BY <2>5, <2>6, <2>9, <2>10 DEF QueueInv
<1>7. QED
  BY <1>5, <1>6

LEMMA loadHeadKeeps ==
  ASSUME ArrayQueueAssumption, QueueInv, NEW p \in Producers, loadHead(p)
  PROVE  QueueInv'
<1>1. /\ offer[p].pc = "head" /\ head' = head /\ tail' = tail /\ buffer' = buffer
      /\ delivered' = delivered /\ headCache' = headCache /\ claims' = claims
      /\ UNCHANGED <<buffer, claims, ConsumerRest>>
  BY DEF loadHead, ConsumerRest
<1>2. /\ OfferKnows(p) /\ tail \in Nat /\ head \in Nat /\ Capacity \in Nat /\ headCache \in Nat
      /\ headCache <= head /\ tail <= Claimed /\ Claimed <= tail + 1 /\ sent[p] \in Nat
      /\ offer[p] \in OfferRecord /\ sent \in [Producers -> Nat] /\ Elements[p] \in Nat
  BY DEF QueueInv, QueueType, Offers, ArrayQueueAssumption, Window
<1>3. offer[p].tail \in Nat /\ offer[p].head \in Nat /\ sent[p] >= 1
  BY <1>1, <1>2, OfferFields DEF QueueInv, QueueType, OfferKnows
<1>4. Window' /\ Contents' /\ Sizing' /\ Claimed' = Claimed
  BY <1>1, <1>2, ConsumerUntouched
<1>5. CASE offer[p].tail >= head + Capacity
  <2>1. Go(p, Idle) /\ sent' = [sent EXCEPT ![p] = sent[p] - 1]
    BY <1>5 DEF loadHead
  <2>2. Idle \in OfferRecord /\ Idle.pc = "idle"
    BY DEF Idle, OfferRecord, OfferPoints
  <2>3. /\ offer' \in [Producers -> OfferRecord] /\ offer'[p] = Idle
        /\ \A q \in Producers : q # p => offer'[q] = offer[q]
    BY <2>1, <2>2, GoOn DEF QueueInv, QueueType
  <2>4. /\ sent' \in [Producers -> Nat] /\ sent'[p] = sent[p] - 1
        /\ \A q \in Producers : q # p => sent'[q] = sent[q]
    BY <1>2, <1>3, <2>1
  <2>5. QueueType'
    BY <1>1, <2>3, <2>4 DEF QueueInv, QueueType
  <2>6. OfferKnows(p)'
    BY <1>1, <1>2, <1>3, <1>4, <2>2, <2>3, <2>4 DEF OfferKnows
  <2>7. Offers'
    BY <1>1, <2>3, <2>4, <2>6, OthersKnow DEF Offers
  <2>8. OffersApart'
    BY <2>2, <2>3 DEF QueueInv, OffersApart
  <2>9. QED
    BY <1>4, <2>5, <2>7, <2>8 DEF QueueInv
<1>6. CASE ~(offer[p].tail >= head + Capacity)
  <2> DEFINE r == [pc |-> "cache", head |-> head, tail |-> offer[p].tail]
  <2>1. Go(p, [offer[p] EXCEPT !.head = head, !.pc = "cache"]) /\ sent' = sent
    BY <1>6 DEF loadHead
  <2>2. [offer[p] EXCEPT !.head = head, !.pc = "cache"] = r /\ r \in OfferRecord
    <3>1. "cache" \in OfferPoints
      BY DEF OfferPoints
    <3>2. [offer[p] EXCEPT !.head = head, !.pc = "cache"] = r
      BY <1>2, <3>1, OfferUpdates
    <3>3. r \in OfferRecord
      BY <1>2, <1>3, <3>1 DEF OfferRecord
    <3>4. QED
      BY <3>2, <3>3
  <2>3. Go(p, r)
    BY <2>1, <2>2
  <2>4. /\ offer' \in [Producers -> OfferRecord] /\ offer'[p] = r
        /\ \A q \in Producers : q # p => offer'[q] = offer[q]
    BY <2>2, <2>3, GoOn DEF QueueInv, QueueType
  <2>5. offer'[p].pc = "cache" /\ offer'[p].head = head /\ offer'[p].tail = offer[p].tail
    BY <2>4
  <2>6. QueueType'
    BY <1>1, <2>1, <2>4 DEF QueueInv, QueueType
  <2>7. OfferKnows(p)'
    BY <1>1, <1>2, <1>3, <1>4, <1>6, <2>1, <2>5 DEF OfferKnows
  <2>8. Offers'
    BY <1>1, <2>1, <2>4, <2>7, OthersKnow DEF Offers
  <2>9. OffersApart'
    BY <2>4, <2>5 DEF QueueInv, OffersApart
  <2>10. QED
    BY <1>4, <2>6, <2>8, <2>9 DEF QueueInv
<1>7. QED
  BY <1>5, <1>6

LEMMA storeCacheKeeps ==
  ASSUME ArrayQueueAssumption, QueueInv, NEW p \in Producers, storeCache(p)
  PROVE  QueueInv'
<1>1. /\ offer[p].pc = "cache" /\ head' = head /\ tail' = tail /\ buffer' = buffer
      /\ delivered' = delivered /\ headCache' = offer[p].head /\ sent' = sent
      /\ UNCHANGED <<buffer, sent, ConsumerRest>>
  BY DEF storeCache, ConsumerRest
<1>2. /\ OfferKnows(p) /\ tail \in Nat /\ head \in Nat /\ Capacity \in Nat
      /\ tail <= Claimed /\ Claimed <= tail + 1 /\ offer[p] \in OfferRecord
  BY DEF QueueInv, QueueType, Offers, ArrayQueueAssumption, Window
<1>3. /\ offer[p].tail \in Nat /\ offer[p].head \in Nat /\ offer[p].head <= head
      /\ offer[p].tail < offer[p].head + Capacity
  BY <1>1, <1>2, OfferFields DEF QueueInv, QueueType, OfferKnows
<1> DEFINE r(pc) == [pc |-> pc, head |-> offer[p].head, tail |-> offer[p].tail]
<1>4. \A pc \in OfferPoints : [offer[p] EXCEPT !.pc = pc] = r(pc)
  BY <1>2, <1>3, OfferUpdates
<1>5. CASE Single
  <2>1. offer[p].tail = tail
    BY <1>1, <1>2, <1>5 DEF OfferKnows
  <2>2. Go(p, [offer[p] EXCEPT !.pc = "store"]) /\ claims' = Append(claims, Open(p))
    BY <1>5 DEF storeCache
  <2>3. [offer[p] EXCEPT !.pc = "store"] = r("store")
    BY <1>4 DEF OfferPoints
  <2>4. Go(p, [pc |-> "store", head |-> offer[p].head, tail |-> tail])
    BY <2>1, <2>2, <2>3
  <2>5. tail < head + Capacity
    BY <1>2, <1>3, <2>1
  <2>6. QED
    BY <1>1, <1>3, <1>5, <2>2, <2>4, <2>5, SingleClaims
<1>6. CASE ~Single
  <2>1. Go(p, [offer[p] EXCEPT !.pc = "cas"]) /\ claims' = claims
    BY <1>6 DEF storeCache
  <2>2. [offer[p] EXCEPT !.pc = "cas"] = r("cas") /\ r("cas") \in OfferRecord
    BY <1>3, <1>4 DEF OfferPoints, OfferRecord
  <2>3. Go(p, r("cas"))
    BY <2>1, <2>2
  <2>4. /\ offer' \in [Producers -> OfferRecord] /\ offer'[p] = r("cas")
        /\ \A q \in Producers : q # p => offer'[q] = offer[q]
    BY <2>2, <2>3, GoOn DEF QueueInv, QueueType
  <2>5. /\ offer'[p].pc = "cas" /\ offer'[p].head = offer[p].head
        /\ offer'[p].tail = offer[p].tail
    BY <2>4
  <2>6. Window' /\ Contents' /\ Sizing' /\ Claimed' = Claimed
    BY <1>1, <1>2, <1>3, <2>1, ConsumerUntouched
  <2>7. QueueType'
    BY <1>1, <1>3, <2>1, <2>4 DEF QueueInv, QueueType
  <2>8. OfferKnows(p)'
    BY <1>1, <1>2, <1>3, <1>6, <2>5, <2>6 DEF OfferKnows
  <2>9. Offers'
    BY <1>1, <2>1, <2>4, <2>8, OthersKnow DEF Offers
  <2>10. OffersApart'
    BY <2>4, <2>5 DEF QueueInv, OffersApart
  <2>11. QED
    BY <2>6, <2>7, <2>9, <2>10 DEF QueueInv
<1>7. QED
  BY <1>5, <1>6

LEMMA casTailKeeps ==
  ASSUME ArrayQueueAssumption, QueueInv, NEW p \in Producers, casTail(p)
  PROVE  QueueInv'
<1>1. /\ offer[p].pc = "cas" /\ head' = head /\ buffer' = buffer
      /\ delivered' = delivered /\ headCache' = headCache /\ sent' = sent
      /\ UNCHANGED <<buffer, ConsumerRest>>
  BY DEF casTail, ConsumerRest
<1>2. /\ OfferKnows(p) /\ tail \in Nat /\ head \in Nat /\ Capacity \in Nat /\ headCache \in Nat
      /\ headCache <= head /\ tail <= Claimed /\ Claimed <= tail + 1 /\ offer[p] \in OfferRecord
  BY DEF QueueInv, QueueType, Offers, ArrayQueueAssumption, Window
<1>3. /\ offer[p].tail \in Nat /\ offer[p].head \in Nat /\ offer[p].head <= head /\ ~Single
      /\ offer[p].tail < offer[p].head + Capacity /\ Claimed = tail
  BY <1>1, <1>2, OfferFields DEF QueueInv, QueueType, OfferKnows
<1> DEFINE r(pc) == [pc |-> pc, head |-> offer[p].head, tail |-> offer[p].tail]
<1>4. \A pc \in OfferPoints : [offer[p] EXCEPT !.pc = pc] = r(pc) /\ r(pc) \in OfferRecord
  BY <1>2, <1>3, OfferUpdates DEF OfferRecord
<1>5. CASE tail = offer[p].tail
  <2>1. /\ tail' = tail + 1 /\ claims' = Append(claims, Open(p))
        /\ Go(p, [offer[p] EXCEPT !.pc = "store"])
    BY <1>5 DEF casTail
  <2>2. Go(p, r("store")) /\ r("store") \in OfferRecord
    BY <1>4, <2>1 DEF OfferPoints
  <2>3. /\ offer' \in [Producers -> OfferRecord] /\ offer'[p] = r("store")
        /\ \A q \in Producers : q # p => offer'[q] = offer[q]
    BY <2>2, GoOn DEF QueueInv, QueueType
  <2>4. /\ offer'[p].pc = "store" /\ offer'[p].head = offer[p].head /\ offer'[p].tail = tail
    BY <1>5, <2>3
  <2>5. NewClaim(p)
    BY <1>1, <2>1, ClaimAppended
  <2>6. Window' /\ Contents' /\ Sizing'
    <3>1. Claimed < head + Capacity
      BY <1>2, <1>3, <1>5
    <3>2. tail' \in Nat /\ tail' <= Claimed + 1 /\ Claimed <= tail'
      BY <1>2, <1>3, <2>1
    <3>3. QED
      BY <1>1, <1>2, <2>5, <3>1, <3>2, ClaimFits
  <2>7. QueueType'
    BY <1>1, <1>2, <2>1, <2>3, <2>5 DEF QueueInv, QueueType, NewClaim
  <2>8. Claimed' = tail' /\ claims'[tail + 1] = Open(p) /\ \A i \in 1 .. tail : claims'[i] = claims[i]
    BY <1>3, <2>1, <2>5 DEF NewClaim
  <2>9. OfferKnows(p)'
    <3>1. Open(p)' = Open(p)
      BY <1>1 DEF Open, Element
    <3>2. QED
      BY <1>1, <1>2, <1>3, <2>1, <2>4, <2>8, <3>1 DEF OfferKnows
  <2>10. ASSUME NEW q \in Producers, q # p PROVE OfferKnows(q)'
    <3>1. offer'[q] = offer[q] /\ Open(q)' = Open(q)
      BY <1>1, <2>3, <2>10 DEF Open, Element
    <3>2. OfferKnows(q) /\ offer[q].tail \in Nat /\ offer[q].head \in Nat
      BY OfferFields DEF QueueInv, QueueType, Offers
    <3>3. ASSUME offer[q].pc = "store"
          PROVE  offer[q].tail < Claimed' /\ claims'[offer[q].tail + 1] = Open(q)
      <4>1. offer[q].tail < tail /\ claims[offer[q].tail + 1] = Open(q)
        BY <1>3, <3>2, <3>3 DEF OfferKnows
      <4>2. offer[q].tail + 1 \in 1 .. tail
        BY <1>2, <3>2, <4>1
      <4>3. offer[q].tail < Claimed'
        BY <1>2, <2>1, <2>8, <3>2, <4>1
      <4>4. QED
        BY <2>8, <4>1, <4>2, <4>3
    <3>4. QED
      BY <1>1, <1>3, <2>8, <3>1, <3>2, <3>3 DEF OfferKnows
  <2>11. Offers'
    BY <2>9, <2>10 DEF Offers
  <2>12. OffersApart'
    <3>1. ASSUME NEW q \in Producers, offer[q].pc = "store" PROVE offer[q].tail < tail
      BY <1>3, <3>1 DEF QueueInv, Offers, OfferKnows
    <3>2. ASSUME NEW q \in Producers, q # p, offer'[q].pc = "store" PROVE offer'[q].tail # tail
      <4>1. offer[q].tail \in Nat /\ offer[q].tail < tail
        BY <2>3, <3>1, <3>2, OfferFields DEF QueueInv, QueueType
      <4>2. QED
        BY <1>2, <2>3, <3>2, <4>1
    <3>3. QED
      BY <2>3, <2>4, <3>2 DEF QueueInv, OffersApart
  <2>13. QED
    BY <2>6, <2>7, <2>11, <2>12 DEF QueueInv
<1>6. CASE tail # offer[p].tail
  <2>1. Go(p, [offer[p] EXCEPT !.pc = "tail"]) /\ tail' = tail /\ claims' = claims
    BY <1>6 DEF casTail
  <2>2. Go(p, r("tail")) /\ r("tail") \in OfferRecord
    BY <1>4, <2>1 DEF OfferPoints
  <2>3. /\ offer' \in [Producers -> OfferRecord] /\ offer'[p] = r("tail")
        /\ \A q \in Producers : q # p => offer'[q] = offer[q]
    BY <2>2, GoOn DEF QueueInv, QueueType
  <2>4. offer'[p].pc = "tail" /\ offer'[p].head = offer[p].head
    BY <2>3
  <2>5. Window' /\ Contents' /\ Sizing' /\ Claimed' = Claimed
    BY <1>1, <1>2, <2>1, ConsumerUntouched
  <2>6. QueueType'
    BY <1>1, <2>1, <2>3 DEF QueueInv, QueueType
  <2>7. OfferKnows(p)'
    BY <1>1, <1>2, <1>3, <2>1, <2>4, <2>5 DEF OfferKnows
  <2>8. Offers'
    BY <1>1, <2>1, <2>3, <2>7, OthersKnow DEF Offers
  <2>9. OffersApart'
    BY <2>3, <2>4 DEF QueueInv, OffersApart
  <2>10. QED
    BY <2>5, <2>6, <2>8, <2>9 DEF QueueInv
<1>7. QED
  BY <1>5, <1>6

(* The owner of an open place stores its element: the place is within the  *)
(* lap from the head, not yet taken, and nobody else's.                    *)
LEMMA storeElementKeeps ==
  ASSUME ArrayQueueAssumption, QueueInv, NEW p \in Producers, storeElement(p)
  PROVE  QueueInv' /\ Queue!Close
<1> DEFINE t == offer[p].tail
<1>1. /\ offer[p].pc = "store" /\ head' = head /\ tail' = tail /\ headCache' = headCache
      /\ delivered' = delivered /\ sent' = sent /\ drain' = drain /\ sizer' = sizer
      /\ buffer' = [buffer EXCEPT ![t % Capacity] = Element(p)]
      /\ claims' = [claims EXCEPT ![t + 1].state = "done"]
  BY DEF storeElement, ConsumerRest
<1>2. /\ OfferKnows(p) /\ tail \in Nat /\ head \in Nat /\ Capacity \in Nat \ {0}
      /\ offer[p] \in OfferRecord /\ Claimed \in Nat /\ Taken \in Nat
      /\ claims \in Seq(ClaimRecord)
  BY DEF QueueInv, QueueType, Offers, ArrayQueueAssumption, Claimed, Taken
<1>3. /\ t \in Nat /\ offer[p].head \in Nat /\ t < Claimed /\ claims[t + 1] = Open(p)
  BY <1>1, <1>2, OfferFields DEF QueueInv, QueueType, OfferKnows
<1> HIDE DEF t
<1>4. claims[t + 1].state = "open" /\ claims[t + 1].id = Element(p)
  BY <1>3 DEF Open
<1>5. t >= Taken
  <2>1. \A i \in 1 .. Taken : claims[i].state = "done"
    BY DEF QueueInv, Window
  <2>2. QED
    BY <1>2, <1>3, <1>4, <2>1
<1>6. t \in head .. (head + Capacity - 1) /\ (drain.pc = "store" => t # head)
  <2>1. Claimed <= head + Capacity /\ Taken >= head /\ (drain.pc = "store" => Taken = head + 1)
    BY <1>2 DEF QueueInv, Window
  <2>2. QED
    BY <1>2, <1>3, <1>5, <2>1
<1>7. /\ claims' \in Seq(ClaimRecord) /\ Claimed' = Claimed
      /\ claims'[t + 1].state = "done" /\ claims'[t + 1].id = Element(p)
      /\ \A i \in 1 .. Claimed : i # t + 1 => claims'[i] = claims[i]
  <2> DEFINE c == [claims[t + 1] EXCEPT !.state = "done"]
  <2>1. t + 1 \in 1 .. Claimed /\ claims[t + 1] \in ClaimRecord
    BY <1>2, <1>3 DEF Claimed
  <2>2. c \in ClaimRecord /\ c.state = "done" /\ c.id = Element(p)
    BY <1>4, <2>1 DEF ClaimRecord
  <2>3. claims' = [claims EXCEPT ![t + 1] = c]
    BY <1>1
  <2> HIDE DEF c
  <2>4. QED
    BY <1>2, <2>1, <2>2, <2>3 DEF Claimed
<1>8. Queue!Close
  <2>1. t + 1 \in (Len(delivered) + 1) .. Len(claims)
    BY <1>2, <1>3, <1>5 DEF Taken, Claimed
  <2>2. QED
    BY <1>1, <1>4, <2>1 DEF Queue!Close
<1>9. PICK r \in OfferRecord :
        /\ Go(p, r) /\ r.pc \in {"idle", "move"} /\ (r.pc = "move" <=> Single)
        /\ r.pc = "move" => r.tail = t /\ r.head = offer[p].head
  <2>1. CASE Single
    <3> DEFINE r == [pc |-> "move", head |-> offer[p].head, tail |-> t]
    <3>1. Go(p, [offer[p] EXCEPT !.pc = "move"])
      BY <2>1 DEF storeElement
    <3>2. [offer[p] EXCEPT !.pc = "move"] = r
      BY <1>2, <1>3, OfferUpdates DEF t, OfferPoints
    <3>3. r \in OfferRecord /\ r.pc = "move" /\ r.tail = t /\ r.head = offer[p].head
      BY <1>3 DEF OfferRecord, OfferPoints
    <3> HIDE DEF r
    <3>4. QED
      BY <2>1, <3>1, <3>2, <3>3
  <2>2. CASE ~Single
    <3>1. Go(p, Idle) /\ Idle \in OfferRecord /\ Idle.pc = "idle"
      BY <2>2 DEF storeElement, Idle, OfferRecord, OfferPoints
    <3>2. QED
      BY <2>2, <3>1
  <2>3. QED
    BY <2>1, <2>2
<1>10. /\ offer' \in [Producers -> OfferRecord] /\ offer'[p] = r
       /\ \A q \in Producers : q # p => offer'[q] = offer[q]
  BY <1>9, GoOn DEF QueueInv, QueueType
<1>11. QueueType'
  <2>1. DOMAIN buffer' = DOMAIN buffer
    BY <1>1
  <2>2. QED
    BY <1>1, <1>7, <1>10, <2>1 DEF QueueInv, QueueType
<1>12. OfferKnows(p)'
  BY <1>1, <1>2, <1>7, <1>9, <1>10 DEF OfferKnows, t
<1>13. ASSUME NEW q \in Producers, q # p PROVE OfferKnows(q)'
  <2>1. offer'[q] = offer[q] /\ Open(q)' = Open(q) /\ sent'[q] = sent[q]
    BY <1>1, <1>10, <1>13 DEF Open, Element
  <2>2. OfferKnows(q) /\ offer[q].tail \in Nat /\ offer[q].head \in Nat
    BY OfferFields DEF QueueInv, QueueType, Offers
  <2>3. ASSUME offer[q].pc = "store" PROVE claims'[offer[q].tail + 1] = Open(q)
    <3>1. offer[q].tail # t
      BY <1>1, <1>13, <2>3 DEF QueueInv, OffersApart, t
    <3>2. offer[q].tail < Claimed /\ claims[offer[q].tail + 1] = Open(q)
      BY <2>2, <2>3 DEF OfferKnows
    <3>3. offer[q].tail + 1 \in 1 .. Claimed /\ offer[q].tail + 1 # t + 1
      BY <1>2, <1>3, <2>2, <3>1, <3>2
    <3>4. QED
      BY <1>7, <3>2, <3>3
  <2>4. QED
    BY <1>1, <1>7, <2>1, <2>2, <2>3 DEF OfferKnows
<1>14. Offers'
  BY <1>12, <1>13 DEF Offers
<1>15. OffersApart'
  BY <1>9, <1>10 DEF QueueInv, OffersApart
<1>16. Window'
  <2>1. Window /\ Taken' = Taken
    BY <1>1 DEF QueueInv, Taken
  <2>2. \A i \in 1 .. Taken : claims'[i].state = "done"
    <3> SUFFICES ASSUME NEW i \in 1 .. Taken PROVE claims'[i].state = "done"
      OBVIOUS
    <3>1. claims[i].state = "done" /\ i \in Nat
      BY <1>2, <2>1 DEF Window
    <3>2. Taken <= Claimed
      BY <2>1 DEF Window
    <3>3. i \in 1 .. Claimed
      BY <1>2, <3>1, <3>2
    <3>4. CASE i = t + 1
      BY <1>7, <3>4
    <3>5. CASE i # t + 1
      BY <1>7, <3>1, <3>3, <3>5
    <3>6. QED
      BY <3>4, <3>5
  <2>3. QED
    BY <1>1, <1>7, <2>1, <2>2 DEF Window, DrainShape
<1>17. Contents'
  <2> SUFFICES ASSUME NEW i \in head .. (head + Capacity - 1)
      PROVE  buffer'[i % Capacity] = IF Filled(i)' THEN claims'[i + 1].id ELSE NULL
    BY <1>1 DEF Contents
  <2>1. i \in Nat /\ i % Capacity \in DOMAIN buffer
    <3>1. i \in Nat
      BY <1>2
    <3>2. QED
      BY <1>2, <3>1, Division DEF QueueInv, QueueType
  <2>2. CASE i = t
    <3>1. buffer'[i % Capacity] = Element(p)
      BY <1>1, <2>1, <2>2
    <3>2. Filled(i)'
      BY <1>1, <1>3, <1>6, <1>7, <2>2 DEF Filled
    <3>3. QED
      BY <1>7, <2>2, <3>1, <3>2
  <2>3. CASE i # t
    <3>1. i % Capacity # t % Capacity
      BY <1>2, <1>6, <2>3, OnePlaceEach
    <3>2. buffer'[i % Capacity] = buffer[i % Capacity]
      BY <1>1, <3>1
    <3>3. i < Claimed => claims'[i + 1] = claims[i + 1]
      BY <1>2, <1>3, <1>7, <2>1, <2>3
    <3>4. Filled(i)' = Filled(i) /\ (Filled(i) => i < Claimed)
      BY <1>1, <1>7, <3>3 DEF Filled
    <3>5. QED
      BY <3>2, <3>3, <3>4 DEF QueueInv, Contents
  <2>4. QED
    BY <2>2, <2>3
<1>18. Sizing'
  BY <1>1 DEF QueueInv, Sizing, SizerShape, SizeWasTrue
<1>19. QED
  BY <1>8, <1>11, <1>14, <1>15, <1>16, <1>17, <1>18 DEF QueueInv

LEMMA storeTailKeeps ==
  ASSUME ArrayQueueAssumption, QueueInv, NEW p \in Producers, storeTail(p)
  PROVE  QueueInv'
<1>1. /\ offer[p].pc = "move" /\ head' = head /\ tail' = offer[p].tail + 1 /\ buffer' = buffer
      /\ delivered' = delivered /\ headCache' = headCache /\ sent' = sent /\ claims' = claims
      /\ UNCHANGED <<buffer, claims, ConsumerRest>> /\ Go(p, Idle)
  BY DEF storeTail, ConsumerRest
<1>2. /\ OfferKnows(p) /\ tail \in Nat /\ head \in Nat /\ headCache \in Nat
      /\ headCache <= head /\ Claimed \in Nat
  BY DEF QueueInv, QueueType, Offers, Window, Claimed
<1>3. Single /\ tail' = Claimed /\ tail' = tail + 1
  BY <1>1, <1>2 DEF OfferKnows
<1>4. Idle \in OfferRecord /\ Idle.pc = "idle"
  BY DEF Idle, OfferRecord, OfferPoints
<1>5. offer' \in [Producers -> OfferRecord] /\ offer'[p] = Idle
  BY <1>1, <1>4, GoOn DEF QueueInv, QueueType
<1>6. Window' /\ Contents' /\ Sizing' /\ Claimed' = Claimed
  <2>1. tail' <= Claimed /\ Claimed <= tail' + 1
    BY <1>2, <1>3
  <2>2. QED
    BY <1>1, <1>2, <2>1, ConsumerUntouched
<1>7. QueueType'
  BY <1>1, <1>2, <1>3, <1>5 DEF QueueInv, QueueType
<1>8. OfferKnows(p)'
  BY <1>1, <1>2, <1>3, <1>4, <1>5, <1>6 DEF OfferKnows
<1>9. \A q \in Producers : q = p
  BY <1>3, OnlyProducer
<1>10. Offers' /\ OffersApart'
  BY <1>8, <1>9 DEF Offers, OffersApart
<1>11. QED
  BY <1>6, <1>7, <1>10 DEF QueueInv

-----------------------------------------------------------------------------
(* A step of the consumer leaves the producers alone; the head, which they *)
(* compare with, only grows.                                               *)
LEMMA ProducersUntouched ==
  ASSUME QueueInv, UNCHANGED ProducerRest, head' \in Nat, head <= head'
  PROVE  /\ tail' = tail /\ headCache' = headCache /\ claims' = claims /\ sizer' = sizer
         /\ offer' = offer /\ sent' = sent /\ Claimed' = Claimed /\ Offers' /\ OffersApart'
<1>1. /\ tail' = tail /\ headCache' = headCache /\ claims' = claims /\ sizer' = sizer
      /\ offer' = offer /\ sent' = sent /\ Claimed' = Claimed
  BY DEF ProducerRest, Claimed
<1>2. OffersApart'
  BY <1>1 DEF QueueInv, OffersApart
<1>3. ASSUME NEW p \in Producers PROVE OfferKnows(p)'
  <2>1. OfferKnows(p) /\ offer[p].head \in Nat /\ head \in Nat
    BY OfferFields DEF QueueInv, QueueType, Offers
  <2>2. Open(p)' = Open(p)
    BY <1>1 DEF Open, Element
  <2>3. offer[p].pc # "idle" => offer[p].head <= head'
    BY <2>1 DEF OfferKnows
  <2>4. QED
    BY <1>1, <2>1, <2>2, <2>3 DEF OfferKnows
<1>4. QED
  BY <1>1, <1>2, <1>3 DEF Offers

LEMMA DrainUpdates ==
  ASSUME DrainShape
  PROVE  /\ \A k, n, x : drain' = [drain EXCEPT !.pc = k, !.item = x, !.next = n] =>
                         DrainShape' /\ drain'.pc = k /\ drain'.next = n
         /\ \A k, x : drain' = [drain EXCEPT !.pc = k, !.item = x] =>
                      DrainShape' /\ drain'.pc = k /\ drain'.next = drain.next
         /\ \A k : drain' = [drain EXCEPT !.pc = k] =>
                   DrainShape' /\ drain'.pc = k /\ drain'.next = drain.next
<1>1. ASSUME NEW k, NEW n, NEW x, drain' = [drain EXCEPT !.pc = k, !.item = x, !.next = n]
      PROVE  DrainShape' /\ drain'.pc = k /\ drain'.next = n
  BY <1>1 DEF DrainShape
<1>2. ASSUME NEW k, NEW x, drain' = [drain EXCEPT !.pc = k, !.item = x]
      PROVE  DrainShape' /\ drain'.pc = k /\ drain'.next = drain.next
  BY <1>2 DEF DrainShape
<1>3. ASSUME NEW k, drain' = [drain EXCEPT !.pc = k]
      PROVE  DrainShape' /\ drain'.pc = k /\ drain'.next = drain.next
  BY <1>3 DEF DrainShape
<1>4. QED
  BY <1>1, <1>2, <1>3

(* Drain and poll begin at the head. *)
LEMMA BeginKeeps ==
  ASSUME QueueInv, drain_all \/ poll
  PROVE  QueueInv'
<1>1. /\ drain.pc = "idle" /\ buffer' = buffer /\ head' = head /\ delivered' = delivered
      /\ UNCHANGED ProducerRest /\ drain'.pc = "load" /\ drain'.next = head /\ DrainShape'
  BY DEF drain_all, poll, NoDrain, DrainShape
<1>2. head \in Nat /\ head <= head' /\ Taken' = Taken /\ Taken = head
  BY <1>1 DEF QueueInv, QueueType, Window, Taken
<1>3. /\ tail' = tail /\ headCache' = headCache /\ claims' = claims /\ sizer' = sizer
      /\ offer' = offer /\ sent' = sent /\ Claimed' = Claimed /\ Offers' /\ OffersApart'
  BY <1>1, <1>2, ProducersUntouched
<1>4. QueueType'
  BY <1>1, <1>3 DEF QueueInv, QueueType
<1>5. Window'
  BY <1>1, <1>2, <1>3 DEF QueueInv, Window
<1>6. Contents'
  BY <1>1, <1>3 DEF QueueInv, Contents, Filled
<1>7. Sizing'
  BY <1>1, <1>3 DEF QueueInv, Sizing, SizerShape, SizeWasTrue
<1>8. QED
  BY <1>3, <1>4, <1>5, <1>6, <1>7 DEF QueueInv

(* What is not NULL at the head is the element of the next claim, and that *)
(* claim is finished.                                                      *)
LEMMA loadItemKeeps ==
  ASSUME ArrayQueueAssumption, QueueInv, loadItem
  PROVE  QueueInv' /\ (Queue!Take \/ UNCHANGED Queue!vars)
<1> DEFINE item == buffer[drain.next % Capacity]
<1>1. /\ drain.pc = "load" /\ buffer' = buffer /\ head' = head /\ UNCHANGED ProducerRest
  BY DEF loadItem
<1>2. /\ head \in Nat /\ head <= head' /\ Taken = head /\ drain.next = head /\ Claimed \in Nat
      /\ Capacity \in Nat \ {0}
  BY <1>1 DEF QueueInv, QueueType, Window, Taken, Claimed, ArrayQueueAssumption
<1>3. /\ tail' = tail /\ headCache' = headCache /\ claims' = claims /\ sizer' = sizer
      /\ offer' = offer /\ sent' = sent /\ Claimed' = Claimed /\ Offers' /\ OffersApart'
  BY <1>1, <1>2, ProducersUntouched
<1>4. Contents'
  <2>1. drain'.pc # "store"
    <3>1. CASE drain.next < drain.limit /\ item # NULL
      <4>1. drain' = [drain EXCEPT !.pc = "clear", !.item = item, !.next = drain.next + 1]
        BY <3>1 DEF loadItem
      <4>2. drain'.pc = "clear"
        <5> DEFINE n == drain.next + 1
        <5>1. drain' = [drain EXCEPT !.pc = "clear", !.item = item, !.next = n] /\ DrainShape
          BY <4>1 DEF QueueInv, Window
        <5> HIDE DEF n, item
        <5>2. QED
          BY <5>1, DrainUpdates
      <4>3. QED
        BY <4>2
    <3>2. CASE ~(drain.next < drain.limit /\ item # NULL)
      BY <3>2 DEF loadItem, NoDrain
    <3>3. QED
      BY <3>1, <3>2
  <2>2. drain.pc # "store"
    BY <1>1
  <2>3. QED
    BY <1>1, <1>3, <2>1, <2>2 DEF QueueInv, Contents, Filled
<1>5. Sizing'
  BY <1>1, <1>3 DEF QueueInv, Sizing, SizerShape, SizeWasTrue
<1>6. CASE drain.next < drain.limit /\ item # NULL
  <2>1. /\ delivered' = Append(delivered, item) /\ DrainShape'
        /\ drain'.pc = "clear" /\ drain'.next = head + 1
    <3>1. /\ delivered' = Append(delivered, item)
          /\ drain' = [drain EXCEPT !.pc = "clear", !.item = item, !.next = drain.next + 1]
      BY <1>6 DEF loadItem
    <3>2. QED
      BY <1>2, <3>1, DrainUpdates DEF QueueInv, Window
  <2>2. Filled(head) /\ item = claims[head + 1].id
    <3>1. head \in head .. (head + Capacity - 1)
      BY <1>2
    <3>2. QED
      BY <1>2, <1>6, <3>1 DEF QueueInv, Contents
  <2>3. head < Claimed /\ claims[head + 1].state = "done" /\ claims[head + 1] \in ClaimRecord
    BY <1>2, <2>2 DEF Filled, QueueInv, QueueType, Claimed
  <2>4. item \in Items
    BY <2>2, <2>3 DEF ClaimRecord
  <2>5. delivered' \in Seq(Items) /\ Taken' = head + 1
    BY <1>2, <2>1, <2>4 DEF QueueInv, QueueType, Taken
  <2>6. QueueType'
    BY <1>1, <1>3, <2>5 DEF QueueInv, QueueType
  <2>7. Window'
    <3>1. \A i \in 1 .. (head + 1) : claims[i].state = "done"
      BY <1>2, <2>3 DEF QueueInv, Window
    <3>2. head + 1 <= Claimed
      BY <1>2, <2>3
    <3>3. Window
      BY DEF QueueInv
    <3>4. QED
      BY <1>1, <1>3, <2>1, <2>5, <3>1, <3>2, <3>3 DEF Window
  <2>8. Queue!Take
    <3>1. head + 1 \in (Len(delivered) + 1) .. Len(claims) /\ Len(delivered) = head
      BY <1>2, <2>3 DEF Taken, Claimed
    <3>2. \A i \in (Len(delivered) + 1) .. ((head + 1) - 1) : claims[i].state = "void"
      BY <1>2, <3>1
    <3>3. Len(delivered)' = head + 1
      BY <2>5 DEF Taken
    <3>4. delivered' = IF claims[head + 1].state = "done"
                       THEN Append(delivered, claims[head + 1].id) ELSE delivered
      BY <2>1, <2>2, <2>3
    <3>5. claims[head + 1].state # "open" /\ UNCHANGED claims
      BY <1>3, <2>3
    <3>6. QED
      BY <3>1, <3>2, <3>3, <3>4, <3>5 DEF Queue!Take
  <2>9. QED
    BY <1>3, <1>4, <1>5, <2>6, <2>7, <2>8 DEF QueueInv
<1>7. CASE ~(drain.next < drain.limit /\ item # NULL)
  <2>1. delivered' = delivered /\ drain'.pc = "idle" /\ DrainShape'
    BY <1>7 DEF loadItem, NoDrain, DrainShape
  <2>2. QueueType'
    BY <1>1, <1>3, <2>1 DEF QueueInv, QueueType
  <2>3. Window'
    BY <1>1, <1>2, <1>3, <2>1 DEF QueueInv, Window, Taken
  <2>4. UNCHANGED Queue!vars
    BY <1>3, <2>1 DEF Queue!vars
  <2>5. QED
    BY <1>3, <1>4, <1>5, <2>2, <2>3, <2>4 DEF QueueInv
<1>8. QED
  BY <1>6, <1>7

(* The place at the head is cleared before the head gives it back. *)
LEMMA clearItemKeeps ==
  ASSUME ArrayQueueAssumption, QueueInv, clearItem
  PROVE  QueueInv'
<1>1. /\ drain.pc = "clear" /\ head' = head /\ delivered' = delivered /\ UNCHANGED ProducerRest
      /\ buffer' = [buffer EXCEPT ![(drain.next - 1) % Capacity] = NULL]
      /\ drain' = [drain EXCEPT !.pc = "store"]
  BY DEF clearItem
<1>2. /\ head \in Nat /\ head <= head' /\ Taken = head + 1 /\ drain.next - 1 = head
      /\ Capacity \in Nat \ {0} /\ Taken' = Taken
  BY <1>1 DEF QueueInv, QueueType, Window, Taken, ArrayQueueAssumption
<1>3. /\ tail' = tail /\ headCache' = headCache /\ claims' = claims /\ sizer' = sizer
      /\ offer' = offer /\ sent' = sent /\ Claimed' = Claimed /\ Offers' /\ OffersApart'
  BY <1>1, <1>2, ProducersUntouched
<1>4. drain'.pc = "store" /\ drain'.next = drain.next /\ DrainShape'
  BY <1>1, DrainUpdates DEF QueueInv, Window
<1>5. QueueType'
  BY <1>1, <1>3 DEF QueueInv, QueueType
<1>6. Window'
  BY <1>1, <1>2, <1>3, <1>4 DEF QueueInv, Window
<1>7. Contents'
  <2> SUFFICES ASSUME NEW i \in head .. (head + Capacity - 1)
      PROVE  buffer'[i % Capacity] = IF Filled(i)' THEN claims'[i + 1].id ELSE NULL
    BY <1>1 DEF Contents
  <2>1. i \in Nat /\ i % Capacity \in DOMAIN buffer
    <3>1. i \in Nat
      BY <1>2
    <3>2. QED
      BY <1>2, <3>1, Division DEF QueueInv, QueueType
  <2>2. CASE i = head
    <3>1. buffer'[i % Capacity] = NULL
      BY <1>1, <1>2, <2>1, <2>2
    <3>2. ~Filled(i)'
      BY <1>1, <1>4, <2>2 DEF Filled
    <3>3. QED
      BY <3>1, <3>2
  <2>3. CASE i # head
    <3>1. head \in head .. (head + Capacity - 1)
      BY <1>2
    <3>2. i % Capacity # head % Capacity
      BY <1>2, <2>3, <3>1, OnePlaceEach
    <3>3. buffer'[i % Capacity] = buffer[i % Capacity]
      BY <1>1, <1>2, <3>2
    <3>4. Filled(i)' = Filled(i)
      BY <1>1, <1>3, <1>4, <2>3 DEF Filled
    <3>5. QED
      BY <1>3, <3>3, <3>4 DEF QueueInv, Contents
  <2>4. QED
    BY <2>2, <2>3
<1>8. Sizing'
  BY <1>1, <1>3 DEF QueueInv, Sizing, SizerShape, SizeWasTrue
<1>9. QED
  BY <1>3, <1>5, <1>6, <1>7, <1>8 DEF QueueInv

(* The head moves on, and the place it leaves is the last of the new lap. *)
LEMMA storeHeadKeeps ==
  ASSUME ArrayQueueAssumption, QueueInv, storeHead
  PROVE  QueueInv'
<1>1. /\ drain.pc = "store" /\ delivered' = delivered /\ UNCHANGED ProducerRest
      /\ buffer' = buffer /\ head' = drain.next /\ drain'.pc = "load" /\ drain'.next = drain.next
      /\ DrainShape'
  BY DrainUpdates DEF storeHead, QueueInv, Window
<1>2. /\ head \in Nat /\ head' = head + 1 /\ Taken = head + 1 /\ drain.next = Taken
      /\ Capacity \in Nat \ {0} /\ Taken' = Taken /\ Claimed \in Nat
  BY <1>1 DEF QueueInv, QueueType, Window, Taken, ArrayQueueAssumption, Claimed
<1>3. head' \in Nat /\ head <= head'
  BY <1>2
<1>4. /\ tail' = tail /\ headCache' = headCache /\ claims' = claims /\ sizer' = sizer
      /\ offer' = offer /\ sent' = sent /\ Claimed' = Claimed /\ Offers' /\ OffersApart'
  BY <1>1, <1>3, ProducersUntouched
<1>5. QueueType'
  BY <1>1, <1>3, <1>4 DEF QueueInv, QueueType
<1>6. Window'
  <2>1. Window /\ headCache \in Nat
    BY DEF QueueInv, QueueType
  <2>2. headCache <= head + 1 /\ Claimed <= (head + 1) + Capacity
    BY <1>2, <2>1 DEF Window
  <2>3. QED
    BY <1>1, <1>2, <1>4, <2>1, <2>2 DEF Window
<1>7. Contents'
  <2> SUFFICES ASSUME NEW i \in (head + 1) .. ((head + 1) + Capacity - 1)
      PROVE  buffer[i % Capacity] = IF Filled(i)' THEN claims[i + 1].id ELSE NULL
    BY <1>1, <1>2, <1>4 DEF Contents
  <2>1. CASE i = head + Capacity
    <3>1. i % Capacity = head % Capacity
      BY <1>2, <2>1, OneLap
    <3>2. head \in head .. (head + Capacity - 1) /\ ~Filled(head)
      BY <1>1, <1>2 DEF Filled
    <3>3. buffer[head % Capacity] = NULL
      BY <3>2 DEF QueueInv, Contents
    <3>4. ~(i < Claimed)
      BY <1>2, <2>1 DEF QueueInv, Window
    <3>5. QED
      BY <1>4, <3>1, <3>3, <3>4 DEF Filled
  <2>2. CASE i # head + Capacity
    <3>1. i \in head .. (head + Capacity - 1) /\ i # head
      BY <1>2, <2>2
    <3>2. Filled(i)' = Filled(i)
      BY <1>1, <1>4, <3>1 DEF Filled
    <3>3. QED
      BY <3>1, <3>2 DEF QueueInv, Contents
  <2>3. QED
    BY <2>1, <2>2
<1>8. Sizing'
  <2>1. sizer.pc = "head" => sizer.before \in Nat /\ sizer.before <= head' /\ sizer.before # head'
    BY <1>2 DEF QueueInv, Sizing
  <2>2. sizer.pc = "tail" => sizer.after \in Nat /\ sizer.after <= head'
    BY <1>2 DEF QueueInv, Sizing
  <2>3. QED
    BY <1>4, <2>1, <2>2 DEF QueueInv, Sizing, SizerShape, SizeWasTrue
<1>9. QED
  BY <1>4, <1>5, <1>6, <1>7, <1>8 DEF QueueInv

-----------------------------------------------------------------------------
(* size leaves everything else alone. *)
LEMMA QueueUntouched ==
  ASSUME QueueInv, UNCHANGED QueueRest, Sizing'
  PROVE  QueueInv' /\ UNCHANGED Queue!vars
<1>1. /\ buffer' = buffer /\ tail' = tail /\ head' = head /\ headCache' = headCache
      /\ offer' = offer /\ sent' = sent /\ drain' = drain /\ claims' = claims
      /\ delivered' = delivered
  BY DEF QueueRest
<1>2. Claimed' = Claimed /\ Taken' = Taken
  BY <1>1 DEF Claimed, Taken
<1>3. QueueType'
  BY <1>1 DEF QueueInv, QueueType
<1>4. Offers'
  <2>1. ASSUME NEW p \in Producers PROVE OfferKnows(p)'
    BY <1>1, OthersKnow
  <2>2. QED
    BY <2>1 DEF Offers
<1>5. OffersApart'
  BY <1>1 DEF QueueInv, OffersApart
<1>6. Window'
  BY <1>1, <1>2 DEF QueueInv, Window, DrainShape
<1>7. Contents'
  BY <1>1, <1>2 DEF QueueInv, Contents, Filled
<1>8. UNCHANGED Queue!vars
  BY <1>1 DEF Queue!vars
<1>9. QED
  BY <1>3, <1>4, <1>5, <1>6, <1>7, <1>8 DEF QueueInv

LEMMA sizeBeginKeeps ==
  ASSUME QueueInv, sizeBegin
  PROVE  QueueInv' /\ UNCHANGED Queue!vars
<1>1. sizer'.pc = "tail" /\ sizer'.after = head /\ SizerShape'
  BY DEF sizeBegin, NoSize, SizerShape
<1>2. head' = head /\ head \in Nat
  BY DEF sizeBegin, QueueRest, QueueInv, QueueType
<1>3. Sizing'
  BY <1>1, <1>2 DEF Sizing, SizerShape, SizeWasTrue
<1>4. QED
  BY <1>3, QueueUntouched DEF sizeBegin

LEMMA sizeTailKeeps ==
  ASSUME ArrayQueueAssumption, QueueInv, sizeTail
  PROVE  QueueInv' /\ UNCHANGED Queue!vars
<1>1. /\ sizer'.pc = "head" /\ sizer'.before = sizer.after /\ sizer'.tail = tail
      /\ sizer'.true = Max({tail - head, 0}) /\ SizerShape'
  BY DEF sizeTail, QueueInv, Sizing, SizerShape
<1>2. /\ head' = head /\ head \in Nat /\ tail \in Nat /\ tail <= head + Capacity
      /\ sizer.after \in Nat /\ sizer.after <= head
  <2>1. /\ head' = head /\ sizer.pc = "tail"
    BY DEF sizeTail, QueueRest
  <2>2. /\ tail <= Claimed /\ Claimed <= head + Capacity /\ Claimed \in Nat /\ tail \in Nat
        /\ head \in Nat /\ Capacity \in Nat
    BY DEF QueueInv, QueueType, Window, Claimed, ArrayQueueAssumption
  <2>3. QED
    BY <2>1, <2>2 DEF QueueInv, Sizing
<1>3. Sizing'
  BY <1>1, <1>2 DEF Sizing, SizerShape, SizeWasTrue
<1>4. QED
  BY <1>3, QueueUntouched DEF sizeTail

LEMMA sizeHeadKeeps ==
  ASSUME ArrayQueueAssumption, QueueInv, sizeHead
  PROVE  QueueInv' /\ UNCHANGED Queue!vars
<1>1. sizer.pc = "head" /\ head' = head /\ head \in Nat /\ Capacity \in Nat
  BY DEF sizeHead, QueueRest, QueueInv, QueueType, ArrayQueueAssumption
<1>2. CASE head # sizer.before
  <2>1. sizer'.pc = "tail" /\ sizer'.after = head /\ SizerShape'
    BY <1>2 DEF sizeHead, QueueInv, Sizing, SizerShape
  <2>2. Sizing'
    BY <1>1, <2>1 DEF Sizing, SizerShape, SizeWasTrue
  <2>3. QED
    BY <2>2, QueueUntouched DEF sizeHead
<1>3. CASE head = sizer.before
  <2> DEFINE m == Max({sizer.tail - head, 0})
  <2>1. /\ sizer'.pc = "idle" /\ sizer'.true = sizer.true
        /\ sizer'.result = Min({m, Capacity}) /\ SizerShape'
    BY <1>3 DEF sizeHead, QueueInv, Sizing, SizerShape
  <2>2. sizer.true = m /\ sizer.tail \in Nat /\ sizer.tail <= head + Capacity
    BY <1>1, <1>3 DEF QueueInv, Sizing
  <2>3. m \in {sizer.tail - head, 0} /\ m >= 0
    <3>1. sizer.tail - head \in Int /\ 0 \in Int
      BY <1>1, <2>2
    <3>2. QED
      BY <3>1, MaxOfTwo
  <2> HIDE DEF m
  <2>4. m \in Int /\ m <= Capacity
    BY <1>1, <2>2, <2>3
  <2>5. Min({m, Capacity}) = m
    BY <1>1, <2>4, MinOfTwo
  <2>6. Sizing'
    BY <2>1, <2>2, <2>5 DEF Sizing, SizerShape, SizeWasTrue
  <2>7. QED
    BY <2>6, QueueUntouched DEF sizeHead
<1>4. QED
  BY <1>2, <1>3

-----------------------------------------------------------------------------
(* A claimed place is a step of Claim, any other step of a producer but    *)
(* the store of its element none of ClaimQueue.                            *)
LEMMA ProducerImplements ==
  ASSUME ArrayQueueAssumption, QueueInv, NEW p \in Producers,
         loadCache(p) \/ loadTail(p) \/ loadHead(p) \/ storeCache(p) \/ casTail(p) \/ storeTail(p)
  PROVE  Queue!Claim \/ UNCHANGED Queue!vars
<1>1. delivered' = delivered
  BY DEF loadCache, loadTail, loadHead, storeCache, casTail, storeTail, ConsumerRest
<1>2. claims' = claims \/ (claims' = Append(claims, Open(p)) /\ offer[p].pc # "idle")
  BY DEF loadCache, loadTail, loadHead, storeCache, casTail, storeTail
<1>3. CASE claims' = claims
  BY <1>1, <1>3 DEF Queue!vars
<1>4. CASE claims' = Append(claims, Open(p)) /\ offer[p].pc # "idle"
  <2>1. NewClaim(p) /\ Open(p) \in ClaimRecord
    BY <1>4, ClaimAppended
  <2>2. claims \in Seq(ClaimRecord) /\ Len(claims) \in Nat
    BY DEF QueueInv, QueueType
  <2>3. Len(claims') \in (Len(claims) + 1) .. (Len(claims) + 1)
    BY <2>1, <2>2 DEF NewClaim, Claimed
  <2>4. SubSeq(claims', 1, Len(claims)) = claims
    BY <2>1, <2>2 DEF NewClaim, Claimed
  <2>5. \A i \in (Len(claims) + 1) .. Len(claims') :
          claims'[i] \in [id : UNION {{q} \X (1 .. Elements[q]) : q \in Producers},
                          state : {"open"}]
    <3>1. Open(p) \in [id : Items, state : {"open"}]
      BY <2>1 DEF ClaimRecord, Open
    <3>2. \A i \in (Len(claims) + 1) .. Len(claims') : claims'[i] = Open(p)
      BY <2>1, <2>2, <2>3 DEF NewClaim, Claimed
    <3>3. QED
      BY <3>1, <3>2 DEF Items
  <2>6. QED
    BY <1>1, <2>3, <2>4, <2>5 DEF Queue!Claim
<1>5. QED
  BY <1>2, <1>3, <1>4

(* The consumer takes an element where it loads it. *)
LEMMA ConsumerStutters ==
  ASSUME drain_all \/ poll \/ clearItem \/ storeHead
  PROVE  UNCHANGED Queue!vars
BY DEF drain_all, poll, clearItem, storeHead, ProducerRest, Queue!vars

LEMMA QueueStep ==
  ASSUME ArrayQueueAssumption, QueueInv, [Next]_vars
  PROVE  QueueInv' /\ [Queue!Next]_(Queue!vars)
<1>1. CASE UNCHANGED vars
  <2>1. UNCHANGED QueueRest /\ sizer' = sizer /\ head' = head
    BY <1>1 DEF vars, QueueRest
  <2>2. Sizing'
    BY <2>1 DEF QueueInv, Sizing, SizerShape, SizeWasTrue
  <2>3. QED
    BY <2>1, <2>2, QueueUntouched
<1>2. CASE \E p \in Producers : Offer(p)
  <2>1. PICK p \in Producers : Offer(p)
    BY <1>2
  <2>2. CASE storeElement(p)
    BY <2>2, storeElementKeeps DEF Queue!Next
  <2>3. CASE loadCache(p) \/ loadTail(p) \/ loadHead(p) \/ storeCache(p) \/ casTail(p)
             \/ storeTail(p)
    <3>1. QueueInv'
      BY <2>3, loadCacheKeeps, loadTailKeeps, loadHeadKeeps, storeCacheKeeps, casTailKeeps,
         storeTailKeeps
    <3>2. Queue!Claim \/ UNCHANGED Queue!vars
      BY <2>3, ProducerImplements
    <3>3. QED
      BY <3>1, <3>2 DEF Queue!Next
  <2>4. QED
    BY <2>1, <2>2, <2>3 DEF Offer
<1>3. CASE Drain
  <2>1. CASE loadItem
    BY <2>1, loadItemKeeps DEF Queue!Next
  <2>2. CASE drain_all \/ poll \/ clearItem \/ storeHead
    BY <2>2, BeginKeeps, clearItemKeeps, storeHeadKeeps, ConsumerStutters
  <2>3. QED
    BY <1>3, <2>1, <2>2 DEF Drain
<1>4. CASE sizeBegin \/ sizeTail \/ sizeHead
  BY <1>4, sizeBeginKeeps, sizeTailKeeps, sizeHeadKeeps
<1>5. QED
  BY <1>1, <1>2, <1>3, <1>4 DEF Next

LEMMA QueueInitial ==
  ASSUME Init
  PROVE  Queue!Init
BY DEF Init, Queue!Init

LEMMA QueueSound ==
  ASSUME ArrayQueueAssumption, QueueInv
  PROVE  TypeOK /\ SizeWasTrue
<1>1. /\ tail \in Nat /\ head \in Nat /\ Claimed \in Nat /\ Taken \in Nat /\ Capacity \in Nat
  BY DEF QueueInv, QueueType, Claimed, Taken, ArrayQueueAssumption
<1>2. tail \in (head - 1) .. (head + Capacity)
  BY <1>1 DEF QueueInv, Window
<1>3. drain.pc = "idle" \/ drain.next - head \in {0, 1}
  BY <1>1 DEF QueueInv, Window
<1>4. QED
  BY <1>1, <1>2, <1>3 DEF QueueInv, Sizing, TypeOK

(* The array queues implement ClaimQueue: the consumer gets every element  *)
(* once, in the order in which the producers won their places, and never   *)
(* passes a place whose element is still to be stored (offer, poll,        *)
(* drain, drain_all).                                                      *)
THEOREM ArrayQueueImplements ==
  ASSUME ArrayQueueAssumption
  PROVE  Spec => QueueSpec
<1>1. Init => QueueInv /\ Queue!Init
  BY QueueInvInit, QueueInitial
<1>2. QueueInv /\ [Next]_vars => QueueInv' /\ [Queue!Next]_(Queue!vars)
  BY QueueStep
<1>3. QED
  BY <1>1, <1>2, PTL DEF Spec, QueueSpec, Queue!Spec

(* The tail is never more than the capacity ahead of the head, nor more    *)
(* than one behind it, and a size that is returned was true at one moment  *)
(* of the call (offer, size).                                              *)
THEOREM ArrayQueueSound ==
  ASSUME ArrayQueueAssumption
  PROVE  Spec => [](TypeOK /\ SizeWasTrue)
<1>1. Init => QueueInv
  BY QueueInvInit
<1>2. QueueInv /\ [Next]_vars => QueueInv'
  BY QueueStep
<1>3. QueueInv => TypeOK /\ SizeWasTrue
  BY QueueSound
<1>4. QED
  BY <1>1, <1>2, <1>3, PTL DEF Spec
=============================================================================
