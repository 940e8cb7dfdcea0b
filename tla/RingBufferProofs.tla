-------------------------- MODULE RingBufferProofs --------------------------
(***************************************************************************)
(* The ring buffer of one producer and the ring buffer of many implement   *)
(* ClaimQueue and never overrun their reader, for every capacity,          *)
(* position, length and number of messages and of producers.  Positions    *)
(* are the ones that the code counts on for ever; a position has its place *)
(* in the buffer modulo the capacity.                                      *)
(***************************************************************************)
EXTENDS OneToOneRingBuffer, SequenceTheorems, TLAPS

(* The ring buffer of many producers has the memory and the consumer of    *)
(* the other one; these constants and variables are its own.  Nothing is   *)
(* proved of what follows a padding of unblock() that strays.              *)
CONSTANT Producers
VARIABLES pTail, pad, ub, ubHead, ubTail, ubScan, ubBack, strayed

M == INSTANCE ManyToOneRingBuffer

C == Capacity
Deciding == {"idle", "head1", "head2"}
Writing == {"pad", "bytes", "header", "tail"}

(* The claims of a history cs lie end to end: claim i takes the positions  *)
(* from Begin(cs, i) on, its record starts at `at`, behind padding to the  *)
(* end of the buffer if there is any, and does not wrap.                   *)
ClaimRecord == [id : 1 .. MaxWrites, at : Nat, end : Nat, state : {"open", "done"}]

Begin(cs, i) == IF i = 1 THEN Start ELSE cs[i - 1].end

Lies(cs, i) ==
  /\ Begin(cs, i) <= cs[i].at /\ cs[i].at < cs[i].end
  /\ (cs[i].at % C) + (cs[i].end - cs[i].at) <= C
  /\ cs[i].at # Begin(cs, i) =>
       cs[i].at % C = 0 /\ cs[i].at - Begin(cs, i) = C - (Begin(cs, i) % C)

Chain(cs) ==
  /\ \A i \in 1 .. Len(cs) : Lies(cs, i)
  /\ \A i \in 1 .. Len(cs), j \in 1 .. (Len(cs) + 1) : i < j => cs[i].end <= Begin(cs, j)

(* The consumer stands behind m claims: at the next, or behind its padding. *)
Mark(cs, a, m) ==
  a = Begin(cs, m + 1) \/ (m < Len(cs) /\ a = cs[m + 1].at)

Claimed == Len(claims)
Last == claims[Claimed]
At == head + bytesRead

(* What the handler was given is whole. *)
Whole == {[id |-> i, body |-> [k \in 1 .. n |-> MsgUnit(i)]] : i \in 1 .. MaxWrites, n \in Nat}

BufferType ==
  /\ buffer \in [0 .. (C - 1) -> Cells]
  /\ tail \in Nat /\ headCache \in Nat /\ head \in Nat
  /\ reader \in {"idle", "record", "zero", "head"} /\ rHead \in Nat /\ bytesRead \in Nat
  /\ pc \in Deciding \cup Writing /\ req \in Nat /\ msg \in Nat /\ ids \in Nat
  /\ claims \in Seq(ClaimRecord) /\ handed \in Seq(Whole)

(* The producer: its last claim is open until the header is stored, and    *)
(* the tail is at the beginning or at the end of it.                       *)
Producing ==
  /\ \A i \in 1 .. Claimed :
       claims[i].state = "open" <=> i = Claimed /\ pc \in {"pad", "bytes", "header"}
  /\ pc \in Deciding => Begin(claims, Claimed + 1) = tail
  /\ pc \in Writing =>
       /\ Claimed > 0 /\ Begin(claims, Claimed) = tail
       /\ Last.at = tail + Padding /\ Last.end = tail + Padding + req /\ Last.id = msg
  /\ pc \in {"head1", "head2"} => req > 0 /\ msg \in 1 .. MaxWrites
  /\ pc = "pad" => Padding > 0
  /\ pc = "head2" => req > C - (tail % C) /\ tail + req <= head + C

(* How far the consumer can see. *)
Published ==
  IF pc \in Deciding \cup {"pad"} THEN tail ELSE IF pc = "tail" THEN Last.end ELSE Last.at

Room ==
  /\ headCache <= head /\ At <= Published
  /\ tail <= head + C
  /\ pc \in Writing => Last.end <= head + C

Reading ==
  /\ reader = "idle" => bytesRead = 0
  /\ reader # "idle" => rHead = head
  /\ (head % C) + bytesRead <= C
  /\ \E m \in 0 .. Claimed : Mark(claims, At, m)

(* The cells: whole records from the head to what is published, nothing    *)
(* before them that was read and cleared, and zeros behind them but for    *)
(* the bytes of the record that is being written.                          *)
Cell(p) == buffer[p % C]
Gone == IF reader = "head" THEN At ELSE head

Recorded(i, k) == IF k = 0 THEN makeHeader(claims[i].end - claims[i].at, claims[i].id)
                  ELSE MsgUnit(claims[i].id)

Records ==
  \A i \in 1 .. Claimed : Gone <= claims[i].at /\ claims[i].end <= Published =>
    \A k \in 0 .. (claims[i].end - claims[i].at - 1) : Cell(claims[i].at + k) = Recorded(i, k)

Paddings ==
  \A i \in 1 .. Claimed :
    Gone <= Begin(claims, i) /\ Begin(claims, i) < claims[i].at /\ claims[i].at <= Published =>
      Cell(Begin(claims, i)) =
        makeHeader(claims[i].at - Begin(claims, i), PADDING_MSG_TYPE_ID)

(* The bytes that are written before their header. *)
Unpublished(p) == pc = "header" /\ Last.at < p /\ p < Last.end

Blank ==
  /\ \A p \in Published .. (head + C - 1) :
       Cell(p) = IF Unpublished(p) THEN MsgUnit(msg) ELSE Zero
  /\ \A p \in head .. (Gone - 1) : Cell(p) = Zero

Contents == Records /\ Paddings /\ Blank

(* What size() has read: the head has not gone back since. *)
Sizing ==
  /\ sizer \in {"idle", "tail", "after", "done"} /\ sBefore \in Nat /\ sTail \in Int /\ sHeld \in Int
  /\ sBefore <= head
  /\ sizer = "after" => sBefore <= (sTail - sHeld) /\ (sTail - sHeld) <= head
  /\ SizeWasTrue

RingInv == BufferType /\ Chain(claims) /\ Producing /\ Room /\ Reading /\ Contents /\ Sizing

-----------------------------------------------------------------------------
(* Arithmetic of positions and places. *)

(* A quotient and a remainder are determined by their number. *)
LEMMA DivisionIsUnique ==
  ASSUME NEW c \in Nat \ {0}, NEW a \in Int, NEW b \in Int, NEW r \in Int, NEW s \in Int,
         c * a + r = c * b + s, r - s < c, s - r < c
  PROVE  a = b /\ r = s
<1>1. c * (a - b) = s - r
  BY Z3
<1>2. a - b < 1
  BY <1>1, Z3
<1>3. b - a < 1
  BY <1>1, Z3
<1>4. a = b
  BY <1>2, <1>3, Z3
<1>5. QED
  BY <1>4, Z3

LEMMA Division ==
  ASSUME NEW c \in Nat \ {0}, NEW i \in Nat
  PROVE  /\ i \div c \in Int /\ i % c \in 0 .. (c - 1)
         /\ i = c * (i \div c) + (i % c)
<1>1. i \div c \in Int /\ i % c \in 0 .. (c - 1)
  BY Z3
<1>2. i = c * (i \div c) + (i % c)
  BY Z3
<1>3. QED
  BY <1>1, <1>2

(* The place of a position less than a lap behind another one. *)
LEMMA PlaceAfter ==
  ASSUME NEW c \in Nat \ {0}, NEW p \in Nat, NEW d \in 0 .. (c - 1)
  PROVE  (p + d) % c = IF (p % c) + d < c THEN (p % c) + d ELSE (p % c) + d - c
<1> DEFINE q == p + d
           a == p \div c
           r == p % c
           b == q \div c
           s == q % c
<1>1. a \in Int /\ r \in 0 .. (c - 1) /\ p = c * a + r
  BY Division
<1>2. b \in Int /\ s \in 0 .. (c - 1) /\ q = c * b + s /\ q \in Nat
  <2>1. q \in Nat
    OBVIOUS
  <2>2. QED
    BY <2>1, Division
<1>3. q = p + d
  OBVIOUS
<1> HIDE DEF q, a, r, b, s
<1>4. CASE r + d < c
  <2>1. c * b + s = c * a + (r + d) /\ r + d \in Int /\ s - (r + d) < c /\ (r + d) - s < c
    BY <1>1, <1>2, <1>3, <1>4
  <2>2. s = r + d
    BY <1>1, <1>2, <2>1, DivisionIsUnique
  <2>3. QED
    BY <1>3, <1>4, <2>2 DEF s, r, q
<1>5. CASE ~(r + d < c)
  <2>1. c * (a + 1) = c * a + c
    BY <1>1, Z3
  <2>2. /\ c * b + s = c * (a + 1) + (r + d - c) /\ r + d - c \in Int /\ a + 1 \in Int
        /\ s - (r + d - c) < c /\ (r + d - c) - s < c
    BY <1>1, <1>2, <1>3, <1>5, <2>1
  <2>3. s = r + d - c
    <3> DEFINE u == r + d - c
               v == a + 1
    <3>1. c * b + s = c * v + u /\ u \in Int /\ v \in Int /\ s - u < c /\ u - s < c
      BY <2>2
    <3> HIDE DEF u, v
    <3>2. s = u
      BY <1>1, <1>2, <3>1, DivisionIsUnique
    <3>3. QED
      BY <3>2 DEF u
  <2>4. QED
    BY <1>3, <1>5, <2>3 DEF s, r, q
<1>6. QED
  BY <1>4, <1>5

(* Positions less than a lap apart have places of their own. *)
LEMMA OnePlaceEach ==
  ASSUME NEW c \in Nat \ {0}, NEW p \in Nat, NEW q \in Nat, p < q, q < p + c
  PROVE  p % c # q % c
<1>1. q - p \in 0 .. (c - 1) /\ p + (q - p) = q /\ p % c \in 0 .. (c - 1)
  BY Division
<1>2. (p + (q - p)) % c = IF (p % c) + (q - p) < c THEN (p % c) + (q - p) ELSE (p % c) + (q - p) - c
  BY <1>1, PlaceAfter
<1>3. QED
  BY <1>1, <1>2

(* The places of a stretch that does not wrap. *)
LEMMA Stretch ==
  ASSUME NEW c \in Nat \ {0}, NEW h \in Nat, NEW p \in h .. (h + c - 1), NEW a \in h .. (h + c),
         NEW n \in Nat, (a % c) + n <= c, a + n <= h + c
  PROVE  (p % c) \in (a % c) .. ((a % c) + n - 1) <=> p \in a .. (a + n - 1)
<1>1. a % c \in 0 .. (c - 1) /\ p % c \in 0 .. (c - 1)
  BY Division
<1>2. CASE a <= p
  <2>1. p - a \in 0 .. (c - 1) /\ a + (p - a) = p /\ a \in Nat
    BY <1>2
  <2>2. (a + (p - a)) % c
          = IF (a % c) + (p - a) < c THEN (a % c) + (p - a) ELSE (a % c) + (p - a) - c
    BY <2>1, PlaceAfter
  <2>3. QED
    BY <1>1, <1>2, <2>1, <2>2
<1>3. CASE p < a
  <2>1. ASSUME a < p + c PROVE (p % c) \notin (a % c) .. ((a % c) + n - 1)
    <3>1. a - p \in 0 .. (c - 1) /\ p + (a - p) = a /\ p \in Nat
      BY <1>3, <2>1
    <3>2. (p + (a - p)) % c
            = IF (p % c) + (a - p) < c THEN (p % c) + (a - p) ELSE (p % c) + (a - p) - c
      BY <3>1, PlaceAfter
    <3>3. QED
      BY <1>1, <1>3, <3>1, <3>2
  <2>2. ASSUME ~(a < p + c) PROVE n = 0
    BY <1>3, <2>2
  <2>3. QED
    BY <1>1, <1>3, <2>1, <2>2
<1>4. QED
  BY <1>2, <1>3

(* A message that goes to the beginning of the buffer, behind padding,     *)
(* ends within a lap of a head h in front of it: what write() checks is    *)
(* enough, although it never adds the padding.                             *)
LEMMA WrapFits ==
  ASSUME NEW c \in Nat \ {0}, NEW t \in Nat, NEW h \in Nat, NEW r \in Nat,
         h <= t, t + r <= h + c, r > c - (t % c), r <= h % c
  PROVE  t + (c - (t % c)) + r <= h + c
<1> DEFINE a == t \div c
           x == t % c
           b == h \div c
           y == h % c
<1>1. a \in Int /\ x \in 0 .. (c - 1) /\ t = c * a + x
  BY Division
<1>2. b \in Int /\ y \in 0 .. (c - 1) /\ h = c * b + y
  BY Division
<1>3. r > c - x /\ r <= y
  OBVIOUS
<1>4. SUFFICES t + (c - x) + r <= h + c
  OBVIOUS
<1> HIDE DEF a, x, b, y
<1>5. DEFINE d == h - c * a
<1>6. c * a \in Int
  BY <1>1, Z3
<1>7. d \in Int /\ d > 0 /\ d < c /\ c * b + y = c * a + d
  BY <1>1, <1>2, <1>3, <1>6
<1>8. d = y
  <2> HIDE DEF d
  <2>1. y - d < c /\ d - y < c
    BY <1>2, <1>7
  <2>2. QED
    BY <1>1, <1>2, <1>7, <2>1, DivisionIsUnique
<1>9. QED
  BY <1>1, <1>2, <1>3, <1>6, <1>8

LEMMA OneLap ==
  ASSUME NEW c \in Nat \ {0}, NEW p \in Nat
  PROVE  (p + c) % c = p % c
<1> DEFINE q == p + c
           a == q \div c
           b == p \div c
           r == q % c
           s == p % c
<1>1. a \in Int /\ r \in 0 .. (c - 1) /\ q = c * a + r
  <2>1. q \in Nat
    OBVIOUS
  <2>2. QED
    BY <2>1, Division
<1>2. b \in Int /\ s \in 0 .. (c - 1) /\ p = c * b + s
  BY Division
<1>3. q = p + c
  OBVIOUS
<1> HIDE DEF q, a, b, r, s
<1>4. DEFINE v == b + 1
<1>5. c * v = c * b + c /\ v \in Int
  BY <1>2, Z3
<1> HIDE DEF v
<1>6. c * a + r = c * v + s /\ r - s < c /\ s - r < c
  BY <1>1, <1>2, <1>3, <1>5
<1>7. r = s
  BY <1>1, <1>2, <1>5, <1>6, DivisionIsUnique
<1>8. QED
  BY <1>7 DEF r, s, q

-----------------------------------------------------------------------------
(* Claims. *)

LEMMA ClaimFields ==
  ASSUME NEW cs \in Seq(ClaimRecord), NEW i \in 1 .. Len(cs)
  PROVE  /\ cs[i] \in ClaimRecord /\ cs[i].at \in Nat /\ cs[i].end \in Nat
         /\ cs[i].id \in 1 .. MaxWrites /\ cs[i].state \in {"open", "done"}
<1>1. cs[i] \in ClaimRecord
  OBVIOUS
<1>2. QED
  BY <1>1 DEF ClaimRecord

LEMMA BeginIsNat ==
  ASSUME RingBufferAssumption, NEW cs \in Seq(ClaimRecord), NEW i \in 1 .. (Len(cs) + 1)
  PROVE  Begin(cs, i) \in Nat
<1>1. CASE i = 1
  BY <1>1 DEF Begin, RingBufferAssumption
<1>2. CASE i # 1
  <2>1. i - 1 \in 1 .. Len(cs)
    BY <1>2
  <2>2. QED
    BY <1>2, <2>1, ClaimFields DEF Begin
<1>3. QED
  BY <1>1, <1>2

(* The claims that end where the consumer stands are those behind it. *)
LEMMA EndedIs ==
  ASSUME RingBufferAssumption, NEW cs \in Seq(ClaimRecord), Chain(cs), NEW a \in Nat,
         NEW m \in 0 .. Len(cs), Mark(cs, a, m), NEW i \in 1 .. Len(cs)
  PROVE  cs[i].end <= a <=> i <= m
<1>1. m + 1 \in 1 .. (Len(cs) + 1) /\ Len(cs) \in Nat
  OBVIOUS
<1>2. Begin(cs, m + 1) \in Nat /\ cs[i].end \in Nat /\ cs[i].at \in Nat
  BY <1>1, BeginIsNat, ClaimFields
<1>3. Begin(cs, m + 1) <= a /\ (m < Len(cs) => a <= cs[m + 1].at)
  <2>1. CASE m = Len(cs)
    BY <1>2, <2>1 DEF Mark
  <2>2. CASE m < Len(cs)
    <3>1. m + 1 \in 1 .. Len(cs)
      BY <2>2
    <3>2. Begin(cs, m + 1) <= cs[m + 1].at /\ cs[m + 1].at \in Nat
      BY <3>1, ClaimFields DEF Chain, Lies
    <3>3. QED
      BY <1>2, <2>2, <3>2 DEF Mark
  <2>3. QED
    BY <2>1, <2>2
<1>4. ASSUME i <= m PROVE cs[i].end <= a
  <2>1. i < m + 1
    BY <1>4
  <2>2. cs[i].end <= Begin(cs, m + 1)
    BY <1>1, <2>1 DEF Chain
  <2>3. QED
    BY <1>2, <1>3, <2>2
<1>5. ASSUME i > m PROVE cs[i].end > a
  <2>1. m < Len(cs) /\ m + 1 \in 1 .. Len(cs)
    BY <1>5
  <2>2. /\ cs[m + 1].at < cs[m + 1].end /\ cs[m + 1].at \in Nat /\ cs[m + 1].end \in Nat
        /\ cs[i].at < cs[i].end /\ Begin(cs, i) <= cs[i].at
    BY <2>1, ClaimFields DEF Chain, Lies
  <2>3. CASE i = m + 1
    BY <1>3, <2>1, <2>2, <2>3
  <2>4. CASE i > m + 1
    <3>1. cs[m + 1].end <= Begin(cs, i) /\ Begin(cs, i) \in Nat
      BY <2>1, <2>4, BeginIsNat DEF Chain
    <3>2. QED
      BY <1>2, <1>3, <2>1, <2>2, <3>1
  <2>5. QED
    BY <1>5, <2>3, <2>4
<1>6. QED
  BY <1>2, <1>4, <1>5

PassedOf(cs, a) ==
  LET Ended == {i \in DOMAIN cs : cs[i].end <= a}
  IN  IF Ended = {} THEN 0 ELSE CHOOSE n \in Ended : \A i \in Ended : i <= n

LEMMA PassedIs ==
  ASSUME RingBufferAssumption, NEW cs \in Seq(ClaimRecord), Chain(cs), NEW a \in Nat,
         NEW m \in 0 .. Len(cs), Mark(cs, a, m)
  PROVE  PassedOf(cs, a) = m
<1> DEFINE E == {i \in DOMAIN cs : cs[i].end <= a}
<1>1. E = 1 .. m
  <2>1. DOMAIN cs = 1 .. Len(cs) /\ Len(cs) \in Nat
    OBVIOUS
  <2>2. \A i \in 1 .. Len(cs) : cs[i].end <= a <=> i <= m
    BY EndedIs
  <2>3. QED
    BY <2>1, <2>2
<1>2. PassedOf(cs, a) = IF E = {} THEN 0 ELSE CHOOSE n \in E : \A i \in E : i <= n
  BY DEF PassedOf
<1> HIDE DEF E
<1>3. CASE m = 0
  BY <1>1, <1>2, <1>3
<1>4. CASE m > 0
  <2>1. m \in E /\ \A i \in E : i <= m
    BY <1>1, <1>4
  <2>2. \A n \in E : (\A i \in E : i <= n) => n = m
    BY <1>1, <2>1
  <2>3. QED
    BY <1>2, <2>1, <2>2
<1>5. QED
  BY <1>3, <1>4

(* A claim more, from a position t on. *)
Follows(t, e) ==
  /\ t <= e.at /\ e.at < e.end
  /\ (e.at % C) + (e.end - e.at) <= C
  /\ e.at # t => e.at % C = 0 /\ e.at - t = C - (t % C)

LEMMA ChainGrows ==
  ASSUME RingBufferAssumption, NEW cs \in Seq(ClaimRecord), Chain(cs), NEW e \in ClaimRecord,
         Begin(cs, Len(cs) + 1) \in Nat, Follows(Begin(cs, Len(cs) + 1), e),
         NEW ds \in Seq(ClaimRecord), ds = Append(cs, e)
  PROVE  /\ ds \in Seq(ClaimRecord) /\ Len(ds) = Len(cs) + 1 /\ ds[Len(cs) + 1] = e
         /\ \A i \in 1 .. Len(cs) : ds[i] = cs[i]
         /\ \A i \in 1 .. (Len(cs) + 1) : Begin(ds, i) = Begin(cs, i)
         /\ Chain(ds)
<1> DEFINE t == Begin(cs, Len(cs) + 1)
<1>0. /\ t \in Nat /\ t <= e.at /\ e.at < e.end
      /\ (e.at % C) + (e.end - e.at) <= C
      /\ e.at # t => e.at % C = 0 /\ e.at - t = C - (t % C)
  BY DEF Follows
<1>1. /\ ds \in Seq(ClaimRecord) /\ Len(ds) = Len(cs) + 1 /\ ds[Len(cs) + 1] = e
      /\ \A i \in 1 .. Len(cs) : ds[i] = cs[i]
      /\ Len(cs) \in Nat
  OBVIOUS
<1>2. ASSUME NEW i \in 1 .. (Len(cs) + 1) PROVE Begin(ds, i) = Begin(cs, i)
  <2>1. CASE i = 1
    BY <2>1 DEF Begin
  <2>2. CASE i # 1
    <3>1. i - 1 \in 1 .. Len(cs)
      BY <1>1, <2>2
    <3>2. QED
      BY <1>1, <2>2, <3>1 DEF Begin
  <2>3. QED
    BY <2>1, <2>2
<1>3. Begin(ds, Len(cs) + 2) = e.end
  BY <1>1 DEF Begin
<1>4. e.at \in Nat /\ e.end \in Nat
  BY DEF ClaimRecord
<1>5. ASSUME NEW i \in 1 .. Len(ds) PROVE Lies(ds, i)
  <2>1. CASE i = Len(cs) + 1
    <3>1. Begin(ds, i) = t /\ ds[i] = e
      BY <1>1, <1>2, <2>1
    <3>2. QED
      BY <1>0, <3>1 DEF Lies
  <2>2. CASE i # Len(cs) + 1
    <3>1. i \in 1 .. Len(cs) /\ i \in 1 .. (Len(cs) + 1)
      BY <1>1, <2>2
    <3>2. ds[i] = cs[i] /\ Begin(ds, i) = Begin(cs, i) /\ Lies(cs, i)
      BY <1>1, <1>2, <3>1 DEF Chain
    <3>3. QED
      BY <3>2 DEF Lies
  <2>3. QED
    BY <2>1, <2>2
<1>6. ASSUME NEW i \in 1 .. Len(ds), NEW j \in 1 .. (Len(ds) + 1), i < j
      PROVE  ds[i].end <= Begin(ds, j)
  <2>1. CASE j = Len(cs) + 2 /\ i = Len(cs) + 1
    BY <1>1, <1>3, <1>4, <2>1
  <2>2. CASE j = Len(cs) + 2 /\ i # Len(cs) + 1
    <3>1. i \in 1 .. Len(cs) /\ Len(cs) + 1 \in 1 .. (Len(cs) + 1) /\ i < Len(cs) + 1
      BY <1>1, <2>2
    <3>2. cs[i].end <= t /\ cs[i].end \in Nat
      BY <3>1, ClaimFields DEF Chain
    <3>3. QED
      BY <1>0, <1>1, <1>3, <1>4, <2>2, <3>1, <3>2
  <2>3. CASE j # Len(cs) + 2
    <3>1. i \in 1 .. Len(cs) /\ j \in 1 .. (Len(cs) + 1)
      BY <1>1, <1>6, <2>3
    <3>2. QED
      BY <1>1, <1>2, <1>6, <3>1 DEF Chain
  <2>4. QED
    BY <2>1, <2>2, <2>3
<1>7. QED
  BY <1>1, <1>2, <1>5, <1>6 DEF Chain

(* The state of a claim does not matter to its positions. *)
LEMMA ChainStays ==
  ASSUME RingBufferAssumption, NEW cs \in Seq(ClaimRecord), NEW ds \in Seq(ClaimRecord),
         Len(ds) = Len(cs),
         \A i \in 1 .. Len(cs) : ds[i].at = cs[i].at /\ ds[i].end = cs[i].end
  PROVE  /\ \A i \in 1 .. (Len(cs) + 1) : Begin(ds, i) = Begin(cs, i)
         /\ Chain(cs) => Chain(ds)
<1>1. ASSUME NEW i \in 1 .. (Len(cs) + 1) PROVE Begin(ds, i) = Begin(cs, i)
  <2>1. CASE i = 1
    BY <2>1 DEF Begin
  <2>2. CASE i # 1
    <3>1. i - 1 \in 1 .. Len(cs)
      BY <2>2
    <3>2. QED
      BY <2>2, <3>1 DEF Begin
  <2>3. QED
    BY <2>1, <2>2
<1>2. ASSUME Chain(cs) PROVE Chain(ds)
  <2>1. ASSUME NEW i \in 1 .. Len(ds) PROVE Lies(ds, i)
    <3>1. i \in 1 .. Len(cs) /\ i \in 1 .. (Len(cs) + 1)
      OBVIOUS
    <3>2. Begin(ds, i) = Begin(cs, i) /\ Lies(cs, i) /\ ds[i].at = cs[i].at /\ ds[i].end = cs[i].end
      BY <1>1, <1>2, <3>1 DEF Chain
    <3>3. QED
      BY <3>2 DEF Lies
  <2>2. ASSUME NEW i \in 1 .. Len(ds), NEW j \in 1 .. (Len(ds) + 1), i < j
        PROVE  ds[i].end <= Begin(ds, j)
    BY <1>1, <1>2, <2>2 DEF Chain
  <2>3. QED
    BY <2>1, <2>2 DEF Chain
<1>3. QED
  BY <1>1, <1>2

-----------------------------------------------------------------------------
(* What the invariant says, in the form the steps use. *)

LEMMA Facts ==
  ASSUME RingBufferAssumption, RingInv
  PROVE  /\ C \in Nat \ {0} /\ head \in Nat /\ tail \in Nat /\ headCache \in Nat /\ bytesRead \in Nat
         /\ At \in Nat /\ head <= At /\ req \in Nat /\ claims \in Seq(ClaimRecord) /\ Claimed \in Nat
         /\ Begin(claims, Claimed + 1) \in Nat
         /\ pc \in Writing =>
              /\ Claimed \in 1 .. Claimed /\ Last.at \in Nat /\ Last.end \in Nat
              /\ Begin(claims, Claimed) = tail /\ tail <= Last.at /\ Last.at < Last.end
              /\ Last.end <= head + C /\ Begin(claims, Claimed + 1) = Last.end
<1>1. /\ C \in Nat \ {0} /\ head \in Nat /\ tail \in Nat /\ headCache \in Nat /\ bytesRead \in Nat
      /\ req \in Nat /\ claims \in Seq(ClaimRecord)
  BY DEF RingBufferAssumption, RingInv, BufferType, C
<1>2. At \in Nat /\ head <= At
  BY <1>1 DEF At
<1>3. Claimed \in Nat
  BY <1>1 DEF Claimed
<1>4. Begin(claims, Claimed + 1) \in Nat
  BY <1>1, <1>3, BeginIsNat DEF Claimed
<1>5. ASSUME pc \in Writing
      PROVE  /\ Claimed \in 1 .. Claimed /\ Last.at \in Nat /\ Last.end \in Nat
             /\ Begin(claims, Claimed) = tail /\ tail <= Last.at /\ Last.at < Last.end
             /\ Last.end <= head + C /\ Begin(claims, Claimed + 1) = Last.end
  <2>1. Claimed \in 1 .. Claimed /\ Begin(claims, Claimed) = tail
    BY <1>3, <1>5 DEF RingInv, Producing
  <2>2. Last.at \in Nat /\ Last.end \in Nat
    BY <1>1, <2>1, ClaimFields DEF Last, Claimed
  <2>3. Lies(claims, Claimed)
    BY <2>1 DEF RingInv, Chain, Claimed
  <2>4. Last.end <= head + C
    BY <1>5 DEF RingInv, Room
  <2>5. Begin(claims, Claimed + 1) = Last.end
    BY <1>3, <2>1 DEF Begin, Last
  <2>6. QED
    BY <2>1, <2>2, <2>3, <2>4, <2>5 DEF Lies, Last
<1>6. QED
  BY <1>1, <1>2, <1>3, <1>4, <1>5

LEMMA PublishedFacts ==
  ASSUME RingBufferAssumption, RingInv
  PROVE  /\ Published \in Nat /\ At <= Published /\ tail <= Published /\ Published <= head + C
         /\ Published <= Begin(claims, Claimed + 1)
         /\ Gone \in Nat /\ head <= Gone /\ Gone <= At
<1>1. pc \in Deciding \cup Writing /\ At <= Published /\ tail <= head + C
      /\ (pc \in Deciding => Begin(claims, Claimed + 1) = tail)
  BY DEF RingInv, BufferType, Room, Producing
<1>2. Gone \in Nat /\ head <= Gone /\ Gone <= At
  BY Facts DEF Gone
<1>3. CASE pc \in Deciding
  BY <1>1, <1>2, <1>3, Facts DEF Published
<1>4. CASE pc \in Writing
  BY <1>1, <1>2, <1>4, Facts DEF Published, Deciding, Writing
<1>5. QED
  BY <1>1, <1>3, <1>4

(* A claim is published in two parts: its padding and its record. *)
LEMMA PublishedWhole ==
  ASSUME RingBufferAssumption, RingInv, NEW i \in 1 .. Claimed
  PROVE  /\ Begin(claims, i) < Published => claims[i].at <= Published
         /\ claims[i].at < Published => claims[i].end <= Published
<1>1. /\ claims[i].at \in Nat /\ claims[i].end \in Nat /\ Begin(claims, i) \in Nat
      /\ Begin(claims, i) <= claims[i].at /\ claims[i].at < claims[i].end
  BY Facts, ClaimFields, BeginIsNat DEF RingInv, Chain, Lies, Claimed
<1>2. CASE pc \in Deciding
  <2>1. Published = Begin(claims, Claimed + 1)
    BY <1>2 DEF RingInv, Producing, Published
  <2>2. i < Claimed + 1 /\ Claimed + 1 \in 1 .. (Claimed + 1)
    BY Facts
  <2>3. claims[i].end <= Begin(claims, Claimed + 1)
    BY <2>2 DEF RingInv, Chain, Claimed
  <2>4. QED
    BY <1>1, <2>1, <2>3, PublishedFacts
<1>3. CASE pc \in Writing /\ i < Claimed
  <2>1. Claimed \in 1 .. (Claimed + 1)
    BY <1>3, Facts
  <2>2. claims[i].end <= Begin(claims, Claimed)
    BY <1>3, <2>1 DEF RingInv, Chain, Claimed
  <2>3. claims[i].end <= tail
    BY <1>3, <2>2, Facts
  <2>4. tail \in Nat /\ Published \in Nat /\ tail <= Published
    BY PublishedFacts, Facts
  <2>5. QED
    BY <1>1, <2>3, <2>4
<1>4. CASE pc \in Writing /\ i = Claimed
  <2>1. claims[i] = Last /\ Begin(claims, i) = tail
    BY <1>4, Facts DEF Last
  <2>2. QED
    BY <1>1, <1>4, <2>1, Facts DEF Published, Deciding, Writing
<1>5. QED
  BY <1>2, <1>3, <1>4, Facts DEF RingInv, BufferType

-----------------------------------------------------------------------------
LEMMA RingInvInit ==
  ASSUME RingBufferAssumption, Init
  PROVE  RingInv /\ Queue!Init
<1>1. C \in Nat \ {0} /\ Start \in 0 .. (C - 1) /\ MaxWrites \in Nat
  BY DEF RingBufferAssumption, C
<1>2. claims = <<>> /\ Claimed = 0 /\ handed = <<>>
  BY DEF Init, RingInit, Claimed
<1>3. BufferType
  BY <1>1, <1>2 DEF Init, RingInit, BufferType, Cells, Zero, C, Deciding, Writing
<1>4. Chain(claims) /\ Producing
  BY <1>1, <1>2 DEF Chain, Init, RingInit, Producing, Begin, Deciding, Writing
<1>5. Published = Start /\ At = Start /\ head = Start /\ Gone = Start
  BY <1>1 DEF Published, At, Gone, Init, RingInit, Deciding
<1>6. Room
  BY <1>1, <1>5 DEF Room, Init, RingInit, Writing
<1>7. Reading
  <2>1. Mark(claims, At, 0) /\ 0 \in 0 .. Claimed
    BY <1>2, <1>5 DEF Mark, Begin
  <2>2. Start % C \in 0 .. (C - 1)
    BY <1>1, Division
  <2>3. QED
    BY <1>1, <1>5, <2>1, <2>2 DEF Reading, Init, RingInit
<1>8. Contents
  <2>1. ASSUME NEW p \in Start .. (Start + C - 1)
        PROVE  Cell(p) = Zero /\ ~Unpublished(p)
    <3>1. p % C \in 0 .. (C - 1)
      BY <1>1, Division
    <3>2. QED
      BY <1>1, <3>1 DEF Init, RingInit, Cell, C, Unpublished
  <2>2. QED
    BY <1>1, <1>2, <1>5, <2>1 DEF Contents, Records, Paddings, Blank
<1>9. Sizing
  BY <1>1, <1>5 DEF Sizing, Init, SizeWasTrue
<1>10. Queue!Init
  <2>1. Passed = 0
    BY <1>2 DEF Passed
  <2>2. QED
    BY <1>2, <2>1 DEF Queue!Init
<1>11. QED
  BY <1>3, <1>4, <1>6, <1>7, <1>8, <1>9, <1>10 DEF RingInv

(* The calls of size() change only what they have read. *)
LEMMA SizeSteps ==
  ASSUME RingBufferAssumption, RingInv, size
  PROVE  RingInv' /\ UNCHANGED Queue!vars
<1>1. /\ UNCHANGED <<memory, readerVars, producerVars, claims>>
  BY DEF size, SizeBegin, SizeTail, SizeAfter, SizeReturn
<1>2. /\ buffer' = buffer /\ tail' = tail /\ headCache' = headCache /\ head' = head
      /\ reader' = reader /\ rHead' = rHead /\ bytesRead' = bytesRead /\ handed' = handed
      /\ pc' = pc /\ msg' = msg /\ req' = req /\ ids' = ids /\ claims' = claims
  BY <1>1 DEF memory, readerVars, producerVars
<1>3. /\ BufferType' /\ Chain(claims)' /\ Producing' /\ Room' /\ Reading' /\ Contents'
  <2>1. Claimed' = Claimed /\ Last' = Last /\ At' = At /\ Padding' = Padding
    BY <1>2 DEF Claimed, Last, At, Padding, IndexOf
  <2>2. Published' = Published /\ Gone' = Gone
    BY <1>2, <2>1 DEF Published, Gone
  <2>3. BufferType' /\ Chain(claims)' /\ Producing' /\ Room' /\ Reading'
    BY <1>2, <2>1, <2>2 DEF RingInv, BufferType, Chain, Lies, Begin, Producing, Room, Reading, Mark
  <2>4. Contents'
    BY <1>2, <2>1, <2>2 DEF RingInv, Contents, Records, Paddings, Blank, Cell, Recorded, Begin,
                            Unpublished
  <2>5. QED
    BY <2>3, <2>4
<1>4. Sizing'
  <2>1. /\ sizer \in {"idle", "tail", "after", "done"} /\ sBefore \in Nat /\ sTail \in Int
        /\ sHeld \in Int /\ sBefore <= head /\ tail \in Nat /\ head \in Nat
        /\ sizer = "after" => sBefore <= (sTail - sHeld) /\ (sTail - sHeld) <= head
    BY DEF RingInv, Sizing, BufferType
  <2>2. CASE SizeBegin
    BY <1>2, <2>1, <2>2 DEF SizeBegin, Sizing, SizeWasTrue
  <2>3. CASE SizeTail
    BY <1>2, <2>1, <2>3 DEF SizeTail, Sizing, SizeWasTrue
  <2>4. CASE SizeAfter
    <3>1. CASE head # sBefore
      BY <1>2, <2>1, <2>4, <3>1 DEF SizeAfter, Sizing, SizeWasTrue
    <3>2. CASE head = sBefore
      <4>1. sHeld = sTail - head
        BY <2>1, <2>4, <3>2 DEF SizeAfter
      <4>2. sizer' = "done" /\ sized' = Clamp(sHeld) /\ UNCHANGED <<sBefore, sTail, sHeld>>
        BY <2>1, <2>4, <3>2, <4>1 DEF SizeAfter
      <4>3. QED
        BY <1>2, <2>1, <4>2 DEF Sizing, SizeWasTrue, Clamp
    <3>3. QED
      BY <3>1, <3>2
  <2>5. CASE SizeReturn
    BY <1>2, <2>1, <2>5 DEF SizeReturn, Sizing, SizeWasTrue
  <2>6. QED
    BY <2>2, <2>3, <2>4, <2>5 DEF size
<1>5. UNCHANGED Queue!vars
  BY <1>2 DEF Queue!vars, Passed, Consumed
<1>6. QED
  BY <1>3, <1>4, <1>5 DEF RingInv

-----------------------------------------------------------------------------
(* Frames. *)

LEMMA SizingKeeps ==
  ASSUME Sizing, head \in Nat, head' \in Nat, head <= head', UNCHANGED sizeVars
  PROVE  Sizing'
<1>1. UNCHANGED <<sizer, sBefore, sTail, sized, sHeld>>
  BY DEF sizeVars
<1>2. QED
  BY <1>1 DEF Sizing, SizeWasTrue, Clamp

LEMMA QueueKeeps ==
  ASSUME claims' = claims, handed' = handed, Consumed' = Consumed
  PROVE  UNCHANGED Queue!vars
BY DEF Queue!vars, Passed

LEMMA ConsumedIsAt ==
  ASSUME RingInv
  PROVE  Consumed = At
BY DEF RingInv, Reading, BufferType, Consumed, At

(* The producer looks at the positions and does not write. *)
LEMMA DecideSteps ==
  ASSUME RingBufferAssumption, RingInv, pc \in Deciding, pc' \in Deciding,
         buffer' = buffer, tail' = tail, head' = head, claims' = claims,
         UNCHANGED readerVars, UNCHANGED sizeVars,
         req' \in Nat, msg' \in Nat, ids' \in Nat, headCache' \in Nat, headCache' <= head,
         pc' \in {"head1", "head2"} => req' > 0 /\ msg' \in 1 .. MaxWrites,
         pc' = "head2" => req' > C - (tail % C) /\ tail + req' <= head + C
  PROVE  RingInv' /\ UNCHANGED Queue!vars
<1>1. /\ reader' = reader /\ rHead' = rHead /\ bytesRead' = bytesRead /\ handed' = handed
  BY DEF readerVars
<1>2. Claimed' = Claimed /\ Last' = Last /\ At' = At
  BY <1>1 DEF Claimed, Last, At
<1>3. Published' = Published /\ Published = tail /\ Gone' = Gone
  BY <1>1, <1>2 DEF Published, Gone
<1>4. BufferType' /\ Chain(claims)'
  BY <1>1 DEF RingInv, BufferType, Chain, Lies, Begin
<1>5. Producing'
  BY <1>2 DEF RingInv, Producing, Deciding, Writing, Begin
<1>6. Room' /\ Reading'
  BY <1>1, <1>2, <1>3 DEF RingInv, Room, Reading, Deciding, Writing, Mark, Begin
<1>7. Contents'
  <2>1. \A p : ~Unpublished(p) /\ ~Unpublished(p)'
    BY DEF Unpublished, Deciding
  <2>2. QED
    BY <1>1, <1>2, <1>3, <2>1 DEF RingInv, Contents, Records, Paddings, Blank, Cell, Recorded, Begin
<1>8. Sizing'
  BY Facts, SizingKeeps DEF RingInv
<1>9. UNCHANGED Queue!vars
  BY <1>1, QueueKeeps DEF Consumed
<1>10. QED
  BY <1>4, <1>5, <1>6, <1>7, <1>8, <1>9 DEF RingInv

(* What the refinement sees of a claim. *)
Seen(cs) == [i \in DOMAIN cs |-> [id |-> cs[i].id, state |-> cs[i].state]]

LEMMA SeenGrows ==
  ASSUME NEW cs \in Seq(ClaimRecord), NEW e \in ClaimRecord
  PROVE  /\ Len(Seen(Append(cs, e))) = Len(Seen(cs)) + 1
         /\ SubSeq(Seen(Append(cs, e)), 1, Len(Seen(cs))) = Seen(cs)
         /\ Seen(Append(cs, e))[Len(Seen(cs)) + 1] = [id |-> e.id, state |-> e.state]
         /\ Len(Seen(cs)) = Len(cs) /\ Len(cs) \in Nat
<1> DEFINE S == [id : 1 .. MaxWrites, state : {"open", "done"}]
           ds == Append(cs, e)
<1>1. ds \in Seq(ClaimRecord) /\ Len(ds) = Len(cs) + 1 /\ ds[Len(cs) + 1] = e /\ Len(cs) \in Nat
      /\ \A i \in 1 .. Len(cs) : ds[i] = cs[i]
  OBVIOUS
<1>2. ASSUME NEW bs \in Seq(ClaimRecord)
      PROVE  /\ Seen(bs) \in Seq(S) /\ Len(Seen(bs)) = Len(bs)
             /\ \A i \in 1 .. Len(bs) : Seen(bs)[i] = [id |-> bs[i].id, state |-> bs[i].state]
  <2>1. \A i \in 1 .. Len(bs) : [id |-> bs[i].id, state |-> bs[i].state] \in S
    BY ClaimFields
  <2>2. DOMAIN bs = 1 .. Len(bs) /\ Len(bs) \in Nat
    OBVIOUS
  <2>3. Seen(bs) = [i \in 1 .. Len(bs) |-> [id |-> bs[i].id, state |-> bs[i].state]]
    BY <2>2 DEF Seen
  <2> HIDE DEF S
  <2>4. QED
    BY <2>1, <2>2, <2>3
<1> HIDE DEF S, ds
<1>3. /\ Seen(cs) \in Seq(S) /\ Len(Seen(cs)) = Len(cs)
      /\ \A i \in 1 .. Len(cs) : Seen(cs)[i] = [id |-> cs[i].id, state |-> cs[i].state]
  BY <1>2
<1>4. /\ Seen(ds) \in Seq(S) /\ Len(Seen(ds)) = Len(cs) + 1
      /\ \A i \in 1 .. (Len(cs) + 1) : Seen(ds)[i] = [id |-> ds[i].id, state |-> ds[i].state]
  BY <1>1, <1>2
<1>5. SubSeq(Seen(ds), 1, Len(cs)) = Seen(cs)
  <2>1. 1 \in 1 .. (Len(Seen(ds)) + 1) /\ Len(cs) \in 0 .. Len(Seen(ds))
    BY <1>1, <1>4
  <2>2. /\ SubSeq(Seen(ds), 1, Len(cs)) \in Seq(S) /\ Len(SubSeq(Seen(ds), 1, Len(cs))) = Len(cs)
        /\ \A i \in 1 .. Len(cs) : SubSeq(Seen(ds), 1, Len(cs))[i] = Seen(ds)[i]
    BY <1>1, <1>4, <2>1
  <2>3. \A i \in 1 .. Len(cs) : Seen(ds)[i] = Seen(cs)[i]
    BY <1>1, <1>3, <1>4
  <2>4. QED
    BY <1>3, <2>2, <2>3, SeqEqual
<1>6. QED
  BY <1>1, <1>3, <1>4, <1>5 DEF ds

(* The producer accepts a message: it fits behind a head h that it knows.  *)
LEMMA AcceptStep ==
  ASSUME RingBufferAssumption, RingInv, pc \in Deciding,
         NEW r \in Nat \ {0}, NEW id \in 1 .. MaxWrites, NEW h \in Nat, h <= head,
         r <= C - (tail - h), ~NeedsWrapRoom(r, h), Accept(r, id),
         buffer' = buffer, tail' = tail, head' = head, UNCHANGED readerVars, UNCHANGED sizeVars,
         req' = r, msg' = id, ids' \in Nat, headCache' \in Nat, headCache' <= head
  PROVE  RingInv' /\ Queue!Claim
<1> DEFINE p == IF r > C - (tail % C) THEN C - (tail % C) ELSE 0
           e == [id |-> id, at |-> tail + p, end |-> tail + p + r, state |-> "open"]
<1>0. /\ C \in Nat \ {0} /\ head \in Nat /\ tail \in Nat /\ At \in Nat /\ Claimed \in Nat
      /\ head <= At /\ claims \in Seq(ClaimRecord)
  BY Facts
<1>1. /\ reader' = reader /\ rHead' = rHead /\ bytesRead' = bytesRead /\ handed' = handed
  BY DEF readerVars
<1>2. pc' = (IF p # 0 THEN "pad" ELSE "bytes") /\ claims' = Append(claims, e)
  BY DEF Accept, IndexOf, C
<1>3. tail % C \in 0 .. (C - 1) /\ p \in Nat /\ e \in ClaimRecord
  <2>1. tail % C \in 0 .. (C - 1) /\ C \in Nat
    BY <1>0, Division
  <2>2. p \in Nat
    BY <2>1
  <2>3. tail + p \in Nat /\ tail + p + r \in Nat
    BY <1>0, <2>2
  <2> HIDE DEF p
  <2>4. QED
    BY <2>1, <2>2, <2>3 DEF ClaimRecord
<1>4. Begin(claims, Claimed + 1) = tail /\ Published = tail /\ h <= tail
  <2>1. Begin(claims, Claimed + 1) = tail /\ Published = tail
    BY DEF RingInv, Producing, Published
  <2>2. QED
    BY <2>1, <1>0, PublishedFacts
<1>5. tail + p + r <= head + C
  <2>1. CASE p = 0
    BY <2>1, <1>0
  <2>2. CASE r > C - (tail % C)
    <3>1. r <= h % C
      <4>1. h % C \in 0 .. (C - 1)
        BY <1>0, Division
      <4>2. ~(r > h % C)
        BY <2>2 DEF NeedsWrapRoom, IndexOf, C
      <4>3. QED
        BY <4>1, <4>2
    <3>2. tail + r <= h + C
      BY <1>0
    <3>3. tail + (C - (tail % C)) + r <= h + C
      BY <1>4, <2>2, <3>1, <3>2, <1>0, WrapFits
    <3>4. QED
      BY <1>3, <2>2, <3>3, <1>0
  <2>3. QED
    BY <2>1, <2>2
<1>6. /\ e.at = tail + p /\ e.end = tail + p + r /\ e.id = id /\ e.state = "open"
  OBVIOUS
<1>7. p # 0 => e.at % C = 0 /\ p = C - (tail % C)
  <2>1. ASSUME p # 0 PROVE (tail + p) % C = 0
    <3>1. p = C - (tail % C) /\ tail \in Nat /\ C \in Nat \ {0}
      BY <2>1, <1>0
    <3> HIDE DEF p
    <3>2. CASE p < C
      <4>1. p \in 0 .. (C - 1) /\ (tail % C) + p = C
        BY <1>3, <3>1, <3>2
      <4>2. QED
        <5>1. (tail + p) % C = IF (tail % C) + p < C THEN (tail % C) + p ELSE (tail % C) + p - C
          BY <3>1, <4>1, PlaceAfter
        <5>2. QED
          BY <3>1, <4>1, <5>1
    <3>3. CASE ~(p < C)
      <4>1. p = C /\ tail % C = 0
        BY <1>3, <3>1, <3>3
      <4>2. QED
        BY <3>1, <4>1, OneLap
    <3>4. QED
      BY <3>2, <3>3
  <2>2. QED
    BY <2>1
<1>8. (e.at % C) + (e.end - e.at) <= C
  <2>1. CASE p = 0
    <3>1. r <= C - (tail % C)
      BY <1>3, <2>1, <1>0
    <3>2. e.at = tail /\ e.end - e.at = r
      BY <1>6, <2>1, <1>0
    <3>3. QED
      BY <1>3, <3>1, <3>2, <1>0
  <2>2. CASE p # 0
    <3>1. r <= C
      <4>1. r <= h % C /\ h % C \in 0 .. (C - 1)
        <5>1. h % C \in 0 .. (C - 1)
          BY <1>0, Division
        <5>2. ~(r > h % C)
          BY <2>2 DEF NeedsWrapRoom, IndexOf, C
        <5>3. QED
          BY <5>1, <5>2
      <4>2. QED
        BY <4>1, <1>0
    <3>2. e.at % C = 0 /\ e.end - e.at = r
      BY <1>3, <1>6, <1>7, <2>2, <1>0
    <3>3. QED
      BY <3>1, <3>2, <1>0
  <2>3. QED
    BY <2>1, <2>2
<1> HIDE DEF e, p
<1>9. /\ claims' \in Seq(ClaimRecord) /\ Claimed' = Claimed + 1 /\ Last' = e
      /\ \A i \in 1 .. Claimed : claims'[i] = claims[i]
      /\ \A i \in 1 .. (Claimed + 1) : Begin(claims', i) = Begin(claims, i)
      /\ Chain(claims')
  <2>1. tail <= e.at /\ e.at < e.end /\ (e.at # tail => e.at % C = 0 /\ e.at - tail = C - (tail % C))
    BY <1>3, <1>6, <1>7, <1>0
  <2>2. Chain(claims) /\ claims \in Seq(ClaimRecord) /\ tail \in Nat
    BY <1>0 DEF RingInv
  <2>3. /\ claims' \in Seq(ClaimRecord) /\ Len(claims') = Claimed + 1 /\ claims'[Claimed + 1] = e
        /\ \A i \in 1 .. Claimed : claims'[i] = claims[i]
        /\ \A i \in 1 .. (Claimed + 1) : Begin(claims', i) = Begin(claims, i)
        /\ Chain(claims')
    <3> DEFINE ds == claims'
    <3>1. /\ ds = Append(claims, e) /\ tail = Begin(claims, Len(claims) + 1)
          /\ ds \in Seq(ClaimRecord)
      BY <1>2, <1>3, <1>4, <2>2 DEF Claimed
    <3>0. Begin(claims, Len(claims) + 1) \in Nat /\ Follows(Begin(claims, Len(claims) + 1), e)
      BY <1>8, <2>1, <2>2, <3>1 DEF Follows
    <3> HIDE DEF ds
    <3>2. /\ ds \in Seq(ClaimRecord) /\ Len(ds) = Len(claims) + 1 /\ ds[Len(claims) + 1] = e
          /\ \A i \in 1 .. Len(claims) : ds[i] = claims[i]
          /\ \A i \in 1 .. (Len(claims) + 1) : Begin(ds, i) = Begin(claims, i)
          /\ Chain(ds)
      <4>1. e \in ClaimRecord /\ claims \in Seq(ClaimRecord) /\ Chain(claims)
        BY <1>3, <2>2
      <4>2. Chain(ds)
        BY <3>0, <3>1, <4>1, ChainGrows, Zenon
      <4>3. \A i \in 1 .. (Len(claims) + 1) : Begin(ds, i) = Begin(claims, i)
        BY <3>0, <3>1, <4>1, ChainGrows, Zenon
      <4>4. /\ Len(ds) = Len(claims) + 1 /\ ds[Len(claims) + 1] = e
            /\ \A i \in 1 .. Len(claims) : ds[i] = claims[i]
        BY <3>1, <4>1
      <4>5. QED
        BY <3>1, <4>2, <4>3, <4>4
    <3>3. QED
      BY <3>2 DEF ds, Claimed
  <2>4. QED
    BY <2>3 DEF Claimed, Last
<1>10. Padding' = p
  BY DEF Padding, IndexOf, C, p
<1>11. BufferType'
  BY <1>1, <1>2, <1>9 DEF RingInv, BufferType, Deciding, Writing
<1>12. Producing'
  <2>1. \A i \in 1 .. Claimed : claims[i].state = "done"
    <3>1. ASSUME NEW i \in 1 .. Claimed PROVE claims[i].state = "done"
      BY <1>0, ClaimFields DEF RingInv, Producing, Deciding, Claimed
    <3>2. QED
      BY <3>1
  <2>2. \A i \in 1 .. Claimed' :
          claims'[i].state = "open" <=> i = Claimed' /\ pc' \in {"pad", "bytes", "header"}
    <3>1. claims'[Claimed'].state = "open" /\ pc' \in {"pad", "bytes", "header"}
      BY <1>2, <1>6, <1>9 DEF Last
    <3>2. \A i \in 1 .. Claimed' : i # Claimed' => i \in 1 .. Claimed
      BY <1>0, <1>9
    <3>3. QED
      BY <1>9, <2>1, <3>1, <3>2, Zenon
  <2>3. Claimed + 1 \in 1 .. (Claimed + 1) /\ Claimed + 1 > 0
    BY <1>0
  <2>4. /\ Claimed' > 0 /\ Begin(claims', Claimed') = tail
        /\ Last'.at = tail + Padding' /\ Last'.end = tail + Padding' + req' /\ Last'.id = msg'
    BY <1>4, <1>6, <1>9, <1>10, <2>3
  <2>5. pc' \in {"pad", "bytes"} /\ (pc' = "pad" => Padding' > 0)
    BY <1>2, <1>3, <1>10
  <2>6. QED
    BY <2>2, <2>4, <2>5 DEF Producing, Deciding
<1>13. Published' = tail /\ At' = At /\ Gone' = Gone /\ pc' \in {"pad", "bytes"}
  <2>1. CASE p = 0
    BY <1>1, <1>2, <1>6, <1>9, <2>1, <1>0 DEF Published, Deciding, At, Gone
  <2>2. CASE p # 0
    BY <1>1, <1>2, <2>2 DEF Published, At, Gone
  <2>3. QED
    BY <2>1, <2>2
<1>14. Room'
  BY <1>4, <1>5, <1>6, <1>9, <1>13 DEF RingInv, Room
<1>15. Reading'
  <2>1. PICK m \in 0 .. Claimed : Mark(claims, At, m)
    BY DEF RingInv, Reading
  <2>2. m \in 0 .. Claimed' /\ Mark(claims', At', m)
    <3>1. m + 1 \in 1 .. (Claimed + 1) /\ m \in 0 .. (Claimed + 1)
      BY <1>0
    <3>2. CASE At = Begin(claims, m + 1)
      BY <1>9, <1>13, <3>1, <3>2 DEF Mark
    <3>3. CASE m < Len(claims) /\ At = claims[m + 1].at
      <4>1. m + 1 \in 1 .. Claimed /\ m < Len(claims')
        BY <1>9, <3>3, <1>0 DEF Claimed
      <4>2. QED
        BY <1>9, <1>13, <3>1, <3>3, <4>1 DEF Mark
    <3>4. QED
      BY <2>1, <3>2, <3>3 DEF Mark
  <2>3. QED
    BY <1>1, <2>2 DEF RingInv, Reading
<1>16. Contents'
  <2>1. \A q : ~Unpublished(q) /\ ~Unpublished(q)'
    BY <1>13 DEF Unpublished, Deciding
  <2>2. Blank'
    BY <1>1, <1>4, <1>13, <2>1 DEF RingInv, Contents, Blank, Cell
  <2>3. Claimed + 1 \in 1 .. (Claimed + 1) /\ claims'[Claimed + 1] = e
    BY <1>9, <1>0 DEF Last
  <2>4. ASSUME NEW i \in 1 .. Claimed', claims'[i].end <= Published'
        PROVE  i \in 1 .. Claimed
    <3>1. e.end > tail /\ (i \in 1 .. Claimed \/ i = Claimed + 1)
      BY <1>0, <1>3, <1>6, <1>9
    <3>2. CASE i = Claimed + 1
      <4>1. claims'[i] = e /\ Published' = tail
        BY <1>13, <2>3, <3>2
      <4>2. e.end <= tail
        BY <2>4, <4>1
      <4>3. QED
        BY <1>0, <1>3, <1>6, <3>1, <4>2
    <3>3. QED
      BY <3>1, <3>2
  <2>5. ASSUME NEW i \in 1 .. Claimed', Begin(claims', i) < claims'[i].at, claims'[i].at <= Published'
        PROVE  i \in 1 .. Claimed
    <3>1. i \in 1 .. Claimed \/ i = Claimed + 1
      BY <1>0, <1>9
    <3>2. CASE i = Claimed + 1
      <4>1. claims'[i] = e /\ Published' = tail /\ Begin(claims', i) = tail
        <5>1. Claimed + 1 \in 1 .. (Claimed + 1)
          BY <1>0
        <5>2. QED
          BY <1>4, <1>9, <1>13, <2>3, <3>2, <5>1
      <4>2. tail < e.at /\ e.at <= tail
        BY <2>5, <4>1
      <4>3. QED
        BY <1>0, <1>3, <1>6, <4>2
    <3>3. QED
      BY <3>1, <3>2
  <2>6. Records'
    <3> SUFFICES ASSUME NEW i \in 1 .. Claimed', Gone' <= claims'[i].at, claims'[i].end <= Published',
                        NEW k \in 0 .. (claims'[i].end - claims'[i].at - 1)
                 PROVE  buffer'[(claims'[i].at + k) % C] = Recorded(i, k)'
      BY DEF Records, Cell
    <3>1. i \in 1 .. Claimed /\ claims'[i] = claims[i]
      BY <1>9, <2>4
    <3>2. buffer[(claims[i].at + k) % C] = Recorded(i, k)
      BY <1>4, <1>13, <3>1 DEF RingInv, Contents, Records, Cell
    <3>3. QED
      BY <3>1, <3>2 DEF Recorded
  <2>7. Paddings'
    <3> SUFFICES ASSUME NEW i \in 1 .. Claimed', Gone' <= Begin(claims', i),
                        Begin(claims', i) < claims'[i].at, claims'[i].at <= Published'
                 PROVE  buffer'[Begin(claims', i) % C] =
                          makeHeader(claims'[i].at - Begin(claims', i), PADDING_MSG_TYPE_ID)
      BY DEF Paddings, Cell, PADDING_MSG_TYPE_ID
    <3>1. i \in 1 .. Claimed /\ claims'[i] = claims[i] /\ Begin(claims', i) = Begin(claims, i)
      <4>1. i \in 1 .. Claimed
        BY <2>5
      <4>2. i \in 1 .. (Claimed + 1)
        BY <4>1, <1>0
      <4>3. QED
        BY <1>9, <4>1, <4>2
    <3>2. QED
      BY <1>4, <1>13, <3>1 DEF RingInv, Contents, Paddings, Cell
  <2>8. QED
    BY <2>2, <2>6, <2>7 DEF Contents
<1>17. Sizing'
  BY <1>0, SizingKeeps DEF RingInv
<1>18. Queue!Claim
  <2>1. PICK m \in 0 .. Claimed : Mark(claims, At, m)
    BY DEF RingInv, Reading
  <2>2. Passed = m /\ Passed' = m
    <3>1. Passed = PassedOf(claims, Consumed) /\ Passed' = PassedOf(claims', Consumed')
      BY DEF Passed, PassedOf
    <3>2. Consumed = At /\ Consumed' = Consumed
      BY <1>1, ConsumedIsAt DEF Consumed
    <3>3. PassedOf(claims, At) = m
      BY <2>1, <1>0, PassedIs DEF RingInv, Claimed
    <3>4. m \in 0 .. Claimed' /\ Mark(claims', At, m)
      <4>1. m + 1 \in 1 .. (Claimed + 1) /\ m \in 0 .. (Claimed + 1)
        BY <1>0
      <4>2. CASE At = Begin(claims, m + 1)
        BY <1>9, <4>1, <4>2 DEF Mark
      <4>3. CASE m < Len(claims) /\ At = claims[m + 1].at
        <5>1. m + 1 \in 1 .. Claimed /\ m < Len(claims')
          BY <1>9, <4>3, <1>0 DEF Claimed
        <5>2. QED
          BY <1>9, <4>1, <4>3, <5>1 DEF Mark
      <4>4. QED
        BY <2>1, <4>2, <4>3 DEF Mark
    <3>5. PassedOf(claims', At) = m
      BY <1>9, <3>4, <1>0, PassedIs DEF Claimed
    <3>6. QED
      BY <3>1, <3>2, <3>3, <3>5
  <2>3. /\ Len(Seen(claims')) = Len(Seen(claims)) + 1 /\ Len(Seen(claims)) \in Nat
        /\ SubSeq(Seen(claims'), 1, Len(Seen(claims))) = Seen(claims)
        /\ Seen(claims')[Len(Seen(claims)) + 1] = [id |-> id, state |-> "open"]
    BY <1>2, <1>3, <1>6, <1>0, SeenGrows
  <2>4. \A i \in (Len(Seen(claims)) + 1) .. Len(Seen(claims')) :
          Seen(claims')[i] \in [id : 1 .. MaxWrites, state : {"open"}]
    BY <2>3
  <2>5. Len(Seen(claims')) \in (Len(Seen(claims)) + 1) .. (Len(Seen(claims)) + 1)
    BY <2>3
  <2>6. Queue!Claim <=>
          /\ Len(Seen(claims')) \in (Len(Seen(claims)) + 1) .. (Len(Seen(claims)) + 1)
          /\ SubSeq(Seen(claims'), 1, Len(Seen(claims))) = Seen(claims)
          /\ \A i \in (Len(Seen(claims)) + 1) .. Len(Seen(claims')) :
               Seen(claims')[i] \in [id : 1 .. MaxWrites, state : {"open"}]
          /\ Passed' = Passed
          /\ [n \in DOMAIN handed' |-> handed'[n].id] = [n \in DOMAIN handed |-> handed[n].id]
    BY DEF Queue!Claim, Seen
  <2>7. QED
    BY <1>1, <2>2, <2>3, <2>4, <2>5, <2>6
<1>19. QED
  BY <1>9, <1>11, <1>12, <1>14, <1>15, <1>16, <1>17, <1>18 DEF RingInv

-----------------------------------------------------------------------------
(* The producer writes. *)

LEMMA PlaceInBuffer ==
  ASSUME RingBufferAssumption, NEW p \in Nat
  PROVE  p % C \in 0 .. (C - 1)
<1>1. C \in Nat \ {0}
  BY DEF RingBufferAssumption, C
<1>2. QED
  BY <1>1, Division

LEMMA StoreOne ==
  ASSUME RingBufferAssumption, RingInv, NEW a \in head .. (head + C - 1), NEW v,
         buffer' = [buffer EXCEPT ![a % C] = v], NEW p \in head .. (head + C - 1)
  PROVE  buffer'[p % C] = IF p = a THEN v ELSE buffer[p % C]
<1>1. C \in Nat \ {0} /\ head \in Nat /\ buffer \in [0 .. (C - 1) -> Cells]
  BY Facts DEF RingInv, BufferType
<1>2. a \in Nat /\ p \in Nat
  BY <1>1
<1>3. a % C \in 0 .. (C - 1) /\ p % C \in 0 .. (C - 1)
  BY <1>2, PlaceInBuffer
<1>4. CASE p = a
  BY <1>1, <1>3, <1>4
<1>5. CASE p # a
  <2>1. p % C # a % C
    <3>1. CASE p < a
      <4>1. a < p + C
        BY <1>1
      <4>2. QED
        BY <1>1, <1>2, <3>1, <4>1, OnePlaceEach
    <3>2. CASE a < p
      <4>1. p < a + C
        BY <1>1
      <4>2. QED
        BY <1>1, <1>2, <3>2, <4>1, OnePlaceEach
    <3>3. QED
      BY <1>2, <1>5, <3>1, <3>2
  <2>2. QED
    BY <1>1, <1>3, <1>5, <2>1
<1>6. QED
  BY <1>4, <1>5

(* What the producer has published stays: the records and the paddings     *)
(* that a step publishes are the only ones to look at.                     *)
LEMMA ContentsGrow ==
  ASSUME RingBufferAssumption, RingInv, head' = head, Gone' = Gone, Claimed' = Claimed,
         \A i \in 1 .. Claimed :
           /\ claims'[i].at = claims[i].at /\ claims'[i].end = claims[i].end
           /\ claims'[i].id = claims[i].id,
         \A i \in 1 .. Claimed : Begin(claims', i) = Begin(claims, i),
         \A p \in head .. (Published - 1) : buffer'[p % C] = buffer[p % C],
         \A i \in 1 .. Claimed : Published < claims[i].end /\ claims[i].end <= Published' =>
           \A k \in 0 .. (claims[i].end - claims[i].at - 1) :
             buffer'[(claims[i].at + k) % C] = Recorded(i, k),
         \A i \in 1 .. Claimed : Begin(claims, i) < claims[i].at /\ Published < claims[i].at
                                 /\ claims[i].at <= Published' =>
           buffer'[Begin(claims, i) % C] =
             makeHeader(claims[i].at - Begin(claims, i), PADDING_MSG_TYPE_ID),
         Published' \in Nat, Published <= Published',
         \A p \in Published' .. (head + C - 1) :
           buffer'[p % C] = IF Unpublished(p)' THEN MsgUnit(msg') ELSE Zero
  PROVE  Contents'
<1>1. /\ C \in Nat \ {0} /\ head \in Nat /\ Published \in Nat /\ Gone \in Nat /\ head <= Gone
      /\ Gone <= Published /\ Published <= head + C
  BY Facts, PublishedFacts
<1>2. Records'
  <2> SUFFICES ASSUME NEW i \in 1 .. Claimed, Gone <= claims[i].at, claims[i].end <= Published',
                      NEW k \in 0 .. (claims[i].end - claims[i].at - 1)
               PROVE  buffer'[(claims[i].at + k) % C] = Recorded(i, k)'
    BY DEF Records, Cell
  <2>1. Recorded(i, k)' = Recorded(i, k)
    BY DEF Recorded
  <2>2. claims[i].at \in Nat /\ claims[i].end \in Nat
    BY Facts, ClaimFields DEF Claimed
  <2>3. CASE claims[i].end <= Published
    <3>1. claims[i].at + k \in head .. (Published - 1)
      BY <1>1, <2>2, <2>3
    <3>2. buffer[(claims[i].at + k) % C] = Recorded(i, k)
      BY <2>3 DEF RingInv, Contents, Records, Cell
    <3>3. QED
      BY <2>1, <3>1, <3>2
  <2>4. CASE Published < claims[i].end
    BY <2>1, <2>4
  <2>5. QED
    BY <1>1, <2>2, <2>3, <2>4
<1>3. Paddings'
  <2> SUFFICES ASSUME NEW i \in 1 .. Claimed, Gone <= Begin(claims, i),
                      Begin(claims, i) < claims[i].at, claims[i].at <= Published'
               PROVE  buffer'[Begin(claims, i) % C] =
                        makeHeader(claims[i].at - Begin(claims, i), PADDING_MSG_TYPE_ID)
    BY DEF Paddings, Cell
  <2>1. claims[i].at \in Nat /\ Begin(claims, i) \in Nat
    <3>1. i \in 1 .. (Len(claims) + 1)
      BY Facts DEF Claimed
    <3>2. QED
      BY <3>1, Facts, ClaimFields, BeginIsNat DEF Claimed
  <2>2. CASE claims[i].at <= Published
    <3>1. Begin(claims, i) \in head .. (Published - 1)
      BY <1>1, <2>1, <2>2
    <3>2. QED
      BY <2>2, <3>1 DEF RingInv, Contents, Paddings, Cell
  <2>3. CASE Published < claims[i].at
    BY <2>3
  <2>4. QED
    BY <1>1, <2>1, <2>2, <2>3
<1>4. Blank'
  <2>1. \A p \in head .. (Gone - 1) : buffer'[p % C] = Zero
    <3> SUFFICES ASSUME NEW p \in head .. (Gone - 1) PROVE buffer'[p % C] = Zero
      OBVIOUS
    <3>1. p \in head .. (Published - 1)
      BY <1>1
    <3>2. buffer[p % C] = Zero
      BY DEF RingInv, Contents, Blank, Cell
    <3>3. QED
      BY <3>1, <3>2
  <2>2. QED
    BY <2>1 DEF Blank, Cell
<1>5. QED
  BY <1>2, <1>3, <1>4 DEF Contents

(* All claims but the last are behind the tail. *)
LEMMA OthersBehind ==
  ASSUME RingBufferAssumption, RingInv, pc \in Writing, NEW i \in 1 .. Claimed
  PROVE  /\ claims[i].at \in Nat /\ claims[i].end \in Nat /\ claims[i].at < claims[i].end
         /\ i # Claimed => claims[i].end <= tail
         /\ i = Claimed => claims[i] = Last
<1>1. claims[i].at \in Nat /\ claims[i].end \in Nat
  BY Facts, ClaimFields DEF Claimed
<1>2. claims[i].at < claims[i].end
  BY DEF RingInv, Chain, Lies, Claimed
<1>3. ASSUME i # Claimed PROVE claims[i].end <= tail
  <2>1. i < Claimed /\ Claimed \in 1 .. (Claimed + 1)
    BY <1>3, Facts
  <2>2. claims[i].end <= Begin(claims, Claimed)
    BY <2>1 DEF RingInv, Chain, Claimed
  <2>3. QED
    BY <2>2, Facts
<1>4. QED
  BY <1>1, <1>2, <1>3 DEF Last

LEMMA PaddingStep ==
  ASSUME RingBufferAssumption, RingInv, WritePadding
  PROVE  RingInv' /\ UNCHANGED Queue!vars
<1>1. /\ pc = "pad" /\ pc' = "bytes" /\ tail' = tail /\ headCache' = headCache /\ head' = head
      /\ msg' = msg /\ req' = req /\ ids' = ids /\ claims' = claims
      /\ UNCHANGED readerVars /\ UNCHANGED sizeVars
      /\ buffer' = [buffer EXCEPT ![tail % C] = makeHeader(Padding, PADDING_MSG_TYPE_ID)]
  BY DEF WritePadding, IndexOf, C
<1>2. /\ reader' = reader /\ rHead' = rHead /\ bytesRead' = bytesRead /\ handed' = handed
  BY <1>1 DEF readerVars
<1>3. Claimed' = Claimed /\ Last' = Last /\ At' = At /\ Padding' = Padding
  BY <1>1, <1>2 DEF Claimed, Last, At, Padding, IndexOf
<1>4. Published = tail /\ Published' = Last.at /\ Gone' = Gone /\ pc \in Writing
  BY <1>1, <1>2, <1>3 DEF Published, Gone, Deciding, Writing
<1>5. /\ C \in Nat \ {0} /\ head \in Nat /\ tail \in Nat /\ Last.at \in Nat /\ Last.end \in Nat
      /\ Claimed \in 1 .. Claimed /\ Begin(claims, Claimed) = tail /\ tail <= Last.at
      /\ Last.at < Last.end /\ Last.end <= head + C
  BY <1>4, Facts
<1>6. Padding \in Int /\ Padding > 0 /\ Last.at = tail + Padding /\ At <= tail /\ At \in Nat /\ head <= tail
  <2>1. tail % C \in 0 .. (C - 1)
    BY <1>5, PlaceInBuffer
  <2>2. Padding \in Int
    BY <1>5, <2>1 DEF Padding, IndexOf, C
  <2>3. QED
    BY <1>1, <1>4, <1>5, <2>2, Facts, PublishedFacts DEF RingInv, Producing
<1>7. \A p \in head .. (head + C - 1) :
        buffer'[p % C] = IF p = tail THEN makeHeader(Padding, PADDING_MSG_TYPE_ID) ELSE buffer[p % C]
  <2>1. tail \in head .. (head + C - 1)
    BY <1>5, <1>6
  <2>2. QED
    BY <1>1, <2>1, StoreOne
<1>8. BufferType'
  <2>1. makeHeader(Padding, PADDING_MSG_TYPE_ID) \in Cells
    BY <1>6 DEF makeHeader, Cells, PADDING_MSG_TYPE_ID
  <2>2. buffer' \in [0 .. (C - 1) -> Cells]
    BY <1>1, <2>1 DEF RingInv, BufferType
  <2>3. QED
    BY <1>1, <1>2, <2>2 DEF RingInv, BufferType, Deciding, Writing
<1>9. Chain(claims)' /\ Producing'
  BY <1>1, <1>3 DEF RingInv, Chain, Lies, Begin, Producing, Deciding, Writing
<1>10. Room' /\ Reading'
  <2>1. At <= Last.at
    BY <1>5, <1>6
  <2>2. Room'
    BY <1>1, <1>3, <1>4, <2>1 DEF RingInv, Room, Writing
  <2>3. Reading'
    BY <1>1, <1>2, <1>3 DEF RingInv, Reading, Mark, Begin
  <2>4. QED
    BY <2>2, <2>3
<1>11. Contents'
  <2>1. \A p \in head .. (Published - 1) : buffer'[p % C] = buffer[p % C]
    BY <1>4, <1>5, <1>7
  <2>2. ASSUME NEW i \in 1 .. Claimed, Published < claims[i].end, claims[i].end <= Published'
        PROVE  FALSE
    BY <1>4, <1>5, <2>2, OthersBehind
  <2>3. ASSUME NEW i \in 1 .. Claimed, Published < claims[i].at, claims[i].at <= Published'
        PROVE  buffer'[Begin(claims, i) % C] =
                 makeHeader(claims[i].at - Begin(claims, i), PADDING_MSG_TYPE_ID)
    <3>1. i = Claimed /\ claims[i] = Last
      BY <1>4, <1>5, <2>3, OthersBehind
    <3>2. Begin(claims, i) = tail /\ claims[i].at - Begin(claims, i) = Padding
      BY <1>5, <1>6, <3>1
    <3>3. tail \in head .. (head + C - 1)
      BY <1>5, <1>6
    <3>4. QED
      BY <1>7, <3>2, <3>3
  <2>4. \A p \in Published' .. (head + C - 1) :
          buffer'[p % C] = IF Unpublished(p)' THEN MsgUnit(msg') ELSE Zero
    <3> SUFFICES ASSUME NEW p \in Published' .. (head + C - 1)
                 PROVE  buffer'[p % C] = Zero
      BY <1>1 DEF Unpublished
    <3>1. p \in head .. (head + C - 1) /\ p # tail /\ p \in tail .. (head + C - 1)
      BY <1>4, <1>5, <1>6
    <3>2. buffer[p % C] = Zero
      BY <1>1, <1>4, <3>1 DEF RingInv, Contents, Blank, Cell, Unpublished
    <3>3. QED
      BY <1>7, <3>1, <3>2
  <2>5. Published' \in Nat /\ Published <= Published'
    BY <1>4, <1>5
  <2>6. QED
    BY <1>1, <1>3, <1>4, <2>1, <2>2, <2>3, <2>4, <2>5, ContentsGrow
<1>12. Sizing'
  BY <1>1, <1>5, SizingKeeps DEF RingInv
<1>13. UNCHANGED Queue!vars
  BY <1>1, <1>2, QueueKeeps DEF Consumed
<1>14. QED
  BY <1>8, <1>9, <1>10, <1>11, <1>12, <1>13 DEF RingInv

LEMMA RecordPlace ==
  ASSUME RingBufferAssumption, RingInv, pc \in Writing
  PROVE  /\ RecordIndex = Last.at % C /\ Last.end = Last.at + req /\ (Last.at % C) + req <= C
         /\ req > 0 /\ msg = Last.id /\ msg \in 1 .. MaxWrites
         /\ Last.at = tail + Padding /\ Padding \in Int
<1>1. /\ C \in Nat \ {0} /\ tail \in Nat /\ Last.at \in Nat /\ Last.end \in Nat /\ req \in Nat
      /\ Claimed \in 1 .. Claimed /\ Begin(claims, Claimed) = tail /\ Last.at < Last.end
  BY Facts
<1>2. Last.at = tail + Padding /\ Last.end = tail + Padding + req /\ Last.id = msg
  BY DEF RingInv, Producing
<1>3. Padding \in Int
  <2>1. tail % C \in 0 .. (C - 1)
    BY <1>1, PlaceInBuffer
  <2>2. QED
    BY <1>1, <2>1 DEF Padding, IndexOf, C
<1>4. Last.end = Last.at + req /\ req > 0
  BY <1>1, <1>2, <1>3
<1>5. /\ (Last.at % C) + (Last.end - Last.at) <= C
      /\ Last.at # tail => Last.at % C = 0
  <2>1. Lies(claims, Claimed)
    BY <1>1 DEF RingInv, Chain, Claimed
  <2>2. QED
    BY <1>1, <2>1 DEF Lies, Last
<1>6. RecordIndex = Last.at % C
  <2>1. CASE Padding = 0
    BY <1>1, <1>2, <2>1 DEF RecordIndex, IndexOf, C
  <2>2. CASE Padding # 0
    <3>1. Last.at # tail
      BY <1>1, <1>2, <1>3, <2>2
    <3>2. QED
      BY <1>5, <2>2, <3>1 DEF RecordIndex
  <2>3. QED
    BY <2>1, <2>2
<1>7. (Last.at % C) + req <= C
  <2>1. Last.end - Last.at = req
    BY <1>1, <1>4
  <2>2. QED
    BY <1>5, <2>1
<1>8. Last.id \in 1 .. MaxWrites
  BY <1>1, Facts, ClaimFields DEF Last, Claimed
<1>9. QED
  BY <1>2, <1>3, <1>4, <1>6, <1>7, <1>8

LEMMA BytesStep ==
  ASSUME RingBufferAssumption, RingInv, WriteBytes
  PROVE  RingInv' /\ UNCHANGED Queue!vars
<1>1. /\ pc = "bytes" /\ pc' = "header" /\ tail' = tail /\ headCache' = headCache /\ head' = head
      /\ msg' = msg /\ req' = req /\ ids' = ids /\ claims' = claims
      /\ UNCHANGED readerVars /\ UNCHANGED sizeVars /\ pc \in Writing
      /\ buffer' = [i \in DOMAIN buffer |->
                      IF i \in (RecordIndex + 1) .. (RecordIndex + req - 1)
                      THEN MsgUnit(msg) ELSE buffer[i]]
  BY DEF WriteBytes, Writing
<1>2. /\ reader' = reader /\ rHead' = rHead /\ bytesRead' = bytesRead /\ handed' = handed
  BY <1>1 DEF readerVars
<1>3. Claimed' = Claimed /\ Last' = Last /\ At' = At /\ Padding' = Padding
  BY <1>1, <1>2 DEF Claimed, Last, At, Padding, IndexOf
<1>4. Published = Last.at /\ Published' = Last.at /\ Gone' = Gone
  BY <1>1, <1>2, <1>3 DEF Published, Gone, Deciding, Writing
<1>5. /\ C \in Nat \ {0} /\ head \in Nat /\ tail \in Nat /\ Last.at \in Nat /\ Last.end \in Nat
      /\ req \in Nat /\ Claimed \in 1 .. Claimed /\ Last.at < Last.end /\ Last.end <= head + C
  BY <1>1, Facts
<1>6. /\ RecordIndex = Last.at % C /\ Last.end = Last.at + req /\ (Last.at % C) + req <= C
      /\ req > 0 /\ msg \in 1 .. MaxWrites
  BY <1>1, RecordPlace
<1>7. head <= Last.at
  BY <1>4, <1>5, Facts, PublishedFacts
<1>8. ASSUME NEW p \in head .. (head + C - 1)
      PROVE  buffer'[p % C] = IF Last.at < p /\ p < Last.end THEN MsgUnit(msg) ELSE buffer[p % C]
  <2>1. p % C \in 0 .. (C - 1) /\ p \in Nat /\ Last.at % C \in 0 .. (C - 1)
    BY <1>5, PlaceInBuffer
  <2>2. DOMAIN buffer = 0 .. (C - 1)
    BY DEF RingInv, BufferType
  <2>3. buffer'[p % C] = IF (p % C) \in ((Last.at % C) + 1) .. ((Last.at % C) + req - 1)
                         THEN MsgUnit(msg) ELSE buffer[p % C]
    BY <1>1, <1>6, <2>1, <2>2
  <2>4. (p % C) \in (Last.at % C) .. ((Last.at % C) + req - 1) <=> p \in Last.at .. (Last.at + req - 1)
    <3>1. Last.at \in head .. (head + C) /\ Last.at + req <= head + C
      BY <1>5, <1>6, <1>7
    <3>2. QED
      BY <1>5, <1>6, <3>1, Stretch
  <2>5. p # Last.at => p % C # Last.at % C
    <3>1. CASE p < Last.at
      <4>1. Last.at < p + C
        BY <1>5
      <4>2. QED
        BY <1>5, <2>1, <3>1, <4>1, OnePlaceEach
    <3>2. CASE Last.at < p
      <4>1. p < Last.at + C
        BY <1>5, <1>7
      <4>2. QED
        BY <1>5, <2>1, <3>2, <4>1, OnePlaceEach
    <3>3. QED
      BY <1>5, <2>1, <3>1, <3>2
  <2>6. (p % C) \in ((Last.at % C) + 1) .. ((Last.at % C) + req - 1) <=> Last.at < p /\ p < Last.end
    BY <1>5, <1>6, <2>1, <2>4, <2>5
  <2>7. QED
    BY <2>3, <2>6
<1>9. BufferType'
  <2>1. MsgUnit(msg) \in Cells
    BY <1>5, <1>6 DEF MsgUnit, Cells, C
  <2>2. buffer' \in [0 .. (C - 1) -> Cells]
    <3>1. buffer \in [0 .. (C - 1) -> Cells]
      BY DEF RingInv, BufferType
    <3>2. QED
      BY <1>1, <2>1, <3>1
  <2>3. QED
    BY <1>1, <1>2, <2>2 DEF RingInv, BufferType, Deciding, Writing
<1>10. Chain(claims)' /\ Producing'
  BY <1>1, <1>3 DEF RingInv, Chain, Lies, Begin, Producing, Deciding, Writing
<1>11. Room' /\ Reading'
  BY <1>1, <1>2, <1>3, <1>4 DEF RingInv, Room, Reading, Writing, Mark, Begin
<1>12. Contents'
  <2>1. \A p \in head .. (Published - 1) : buffer'[p % C] = buffer[p % C]
    BY <1>4, <1>5, <1>8
  <2>2. ASSUME NEW i \in 1 .. Claimed
        PROVE  ~(Published < claims[i].end /\ claims[i].end <= Published')
               /\ ~(Published < claims[i].at /\ claims[i].at <= Published')
    BY <1>1, <1>4, <1>5, OthersBehind
  <2>3. \A p \in Published' .. (head + C - 1) :
          buffer'[p % C] = IF Unpublished(p)' THEN MsgUnit(msg') ELSE Zero
    <3> SUFFICES ASSUME NEW p \in Last.at .. (head + C - 1)
                 PROVE  buffer'[p % C] = IF Last.at < p /\ p < Last.end THEN MsgUnit(msg) ELSE Zero
      BY <1>1, <1>3, <1>4 DEF Unpublished
    <3>1. p \in head .. (head + C - 1)
      BY <1>5, <1>7
    <3>2. buffer[p % C] = Zero
      BY <1>1, <1>4 DEF RingInv, Contents, Blank, Cell, Unpublished
    <3>3. QED
      BY <1>8, <3>1, <3>2
  <2>4. Published' \in Nat /\ Published <= Published'
    BY <1>4, <1>5
  <2>5. QED
    BY <1>1, <1>3, <1>4, <2>1, <2>2, <2>3, <2>4, ContentsGrow
<1>13. Sizing'
  BY <1>1, <1>5, SizingKeeps DEF RingInv
<1>14. UNCHANGED Queue!vars
  BY <1>1, <1>2, QueueKeeps DEF Consumed
<1>15. QED
  BY <1>9, <1>10, <1>11, <1>12, <1>13, <1>14 DEF RingInv

(* The tail passes a record that the consumer may have read already. *)
LEMMA TailStep ==
  ASSUME RingBufferAssumption, RingInv, StoreTail
  PROVE  RingInv' /\ UNCHANGED Queue!vars
<1>1. /\ pc = "tail" /\ pc' = "idle" /\ tail' = tail + req + Padding /\ headCache' = headCache
      /\ head' = head /\ msg' = 0 /\ req' = 0 /\ ids' = ids /\ claims' = claims /\ buffer' = buffer
      /\ UNCHANGED readerVars /\ UNCHANGED sizeVars /\ pc \in Writing
  BY DEF StoreTail, Refuse, Writing
<1>2. /\ reader' = reader /\ rHead' = rHead /\ bytesRead' = bytesRead /\ handed' = handed
  BY <1>1 DEF readerVars
<1>3. Claimed' = Claimed /\ Last' = Last /\ At' = At
  BY <1>1, <1>2 DEF Claimed, Last, At
<1>4. /\ C \in Nat \ {0} /\ head \in Nat /\ tail \in Nat /\ Last.at \in Nat /\ Last.end \in Nat
      /\ req \in Nat /\ Claimed \in 1 .. Claimed /\ Last.at < Last.end /\ Last.end <= head + C
      /\ Begin(claims, Claimed + 1) = Last.end
  BY <1>1, Facts
<1>5. tail' = Last.end
  BY <1>1, <1>4, RecordPlace
<1>6. Published = Last.end /\ Published' = Last.end /\ Gone' = Gone
  BY <1>1, <1>2, <1>3, <1>5 DEF Published, Gone, Deciding, Writing
<1>7. BufferType' /\ Chain(claims)'
  BY <1>1, <1>2, <1>4, <1>5 DEF RingInv, BufferType, Deciding, Chain, Lies, Begin
<1>8. Producing'
  <2>1. \A i \in 1 .. Claimed : claims[i].state # "open"
    BY <1>1 DEF RingInv, Producing
  <2>2. Begin(claims', Claimed' + 1) = tail'
    BY <1>1, <1>3, <1>4, <1>5
  <2>3. QED
    BY <1>1, <1>3, <2>1, <2>2 DEF Producing, Deciding, Writing
<1>9. Room' /\ Reading'
  BY <1>1, <1>2, <1>3, <1>4, <1>5, <1>6 DEF RingInv, Room, Reading, Writing, Mark, Begin
<1>10. Contents'
  <2>1. \A p : ~Unpublished(p) /\ ~Unpublished(p)'
    BY <1>1 DEF Unpublished
  <2>2. QED
    BY <1>1, <1>2, <1>3, <1>6, <2>1
       DEF RingInv, Contents, Records, Paddings, Blank, Cell, Recorded, Begin
<1>11. Sizing'
  BY <1>1, <1>4, SizingKeeps DEF RingInv
<1>12. UNCHANGED Queue!vars
  BY <1>1, <1>2, QueueKeeps DEF Consumed
<1>13. QED
  BY <1>7, <1>8, <1>9, <1>10, <1>11, <1>12 DEF RingInv

(* The header publishes the record, and the message is complete. *)
LEMMA HeaderStep ==
  ASSUME RingBufferAssumption, RingInv, WriteHeader
  PROVE  RingInv' /\ Queue!Close
<1>1. /\ pc = "header" /\ pc' = "tail" /\ tail' = tail /\ headCache' = headCache /\ head' = head
      /\ msg' = msg /\ req' = req /\ ids' = ids
      /\ UNCHANGED readerVars /\ UNCHANGED sizeVars /\ pc \in Writing
  BY DEF WriteHeader, Writing
<1>a. claims' = [claims EXCEPT ![Claimed].state = "done"]
  BY DEF WriteHeader, Claimed
<1>b. buffer' = [buffer EXCEPT ![RecordIndex] = makeHeader(req, msg)]
  BY DEF WriteHeader
<1>2. /\ reader' = reader /\ rHead' = rHead /\ bytesRead' = bytesRead /\ handed' = handed
  BY <1>1 DEF readerVars
<1>3. /\ C \in Nat \ {0} /\ head \in Nat /\ tail \in Nat /\ Last.at \in Nat /\ Last.end \in Nat
      /\ req \in Nat /\ Claimed \in 1 .. Claimed /\ Last.at < Last.end /\ Last.end <= head + C
      /\ At \in Nat /\ Claimed \in Nat /\ Claimed > 0
  BY <1>1, Facts
<1>c. claims \in Seq(ClaimRecord)
  BY Facts
<1>4. /\ RecordIndex = Last.at % C /\ Last.end = Last.at + req /\ req > 0
      /\ msg = Last.id /\ msg \in 1 .. MaxWrites
  BY <1>1, RecordPlace
<1>5. Published = Last.at /\ head <= Last.at /\ At <= Last.at
  <2>1. Published = Last.at
    BY <1>1 DEF Published, Deciding
  <2>2. QED
    BY <1>3, <2>1, Facts, PublishedFacts
<1>6. /\ claims' \in Seq(ClaimRecord) /\ Claimed' = Claimed
      /\ \A i \in 1 .. Claimed : i # Claimed => claims'[i] = claims[i]
      /\ claims'[Claimed] = [claims[Claimed] EXCEPT !.state = "done"]
  <2>1. claims[Claimed] \in ClaimRecord
    BY <1>3, <1>c, ClaimFields DEF Claimed
  <2>2. [claims[Claimed] EXCEPT !.state = "done"] \in ClaimRecord
    BY <2>1 DEF ClaimRecord
  <2>3. claims' = [claims EXCEPT ![Claimed] = [claims[Claimed] EXCEPT !.state = "done"]]
    BY <1>a
  <2>4. DOMAIN claims = 1 .. Claimed
    BY <1>c DEF Claimed
  <2>5. claims' \in Seq(ClaimRecord) /\ Len(claims') = Len(claims)
    BY <1>3, <1>c, <2>2, <2>3 DEF Claimed
  <2>6. QED
    BY <2>3, <2>4, <2>5, <1>3 DEF Claimed
<1>7. \A i \in 1 .. Claimed :
        /\ claims'[i].at = claims[i].at /\ claims'[i].end = claims[i].end
        /\ claims'[i].id = claims[i].id
  <2> SUFFICES ASSUME NEW i \in 1 .. Claimed
               PROVE  /\ claims'[i].at = claims[i].at /\ claims'[i].end = claims[i].end
                      /\ claims'[i].id = claims[i].id
    OBVIOUS
  <2>1. claims[i] \in ClaimRecord
    BY <1>3, <1>c, ClaimFields DEF Claimed
  <2>2. CASE i = Claimed
    BY <1>6, <2>1, <2>2 DEF ClaimRecord
  <2>3. CASE i # Claimed
    BY <1>6, <2>3
  <2>4. QED
    BY <2>2, <2>3
<1>8. /\ \A i \in 1 .. (Claimed + 1) : Begin(claims', i) = Begin(claims, i)
      /\ Chain(claims')
  <2> DEFINE ds == claims'
  <2>1. /\ ds \in Seq(ClaimRecord) /\ Len(ds) = Len(claims)
        /\ \A i \in 1 .. Len(claims) : ds[i].at = claims[i].at /\ ds[i].end = claims[i].end
    BY <1>6, <1>7 DEF Claimed
  <2>2. Chain(claims)
    BY DEF RingInv
  <2> HIDE DEF ds
  <2>3. \A i \in 1 .. (Len(claims) + 1) : Begin(ds, i) = Begin(claims, i)
    BY <1>c, <2>1, ChainStays, Zenon
  <2>4. Chain(ds)
    BY <1>c, <2>1, <2>2, ChainStays, Zenon
  <2>5. QED
    BY <2>3, <2>4 DEF ds, Claimed
<1>9. /\ Last'.at = Last.at /\ Last'.end = Last.end /\ Last'.id = Last.id /\ Last'.state = "done"
      /\ At' = At /\ Padding' = Padding /\ Gone' = Gone
  <2>1. Last'.state = "done"
    BY <1>3, <1>c, <1>6, ClaimFields DEF Last, ClaimRecord, Claimed
  <2>2. QED
    BY <1>1, <1>2, <1>3, <1>6, <1>7, <2>1 DEF Last, At, Padding, IndexOf, Gone
<1>10. Published' = Last.end
  BY <1>1, <1>9 DEF Published, Deciding
<1>11. \A p \in head .. (head + C - 1) :
         buffer'[p % C] = IF p = Last.at THEN makeHeader(req, msg) ELSE buffer[p % C]
  <2>1. Last.at \in head .. (head + C - 1)
    BY <1>3, <1>5
  <2>2. QED
    <3>1. buffer' = [buffer EXCEPT ![Last.at % C] = makeHeader(req, msg)]
      BY <1>b, <1>4
    <3> DEFINE a == Last.at
               v == makeHeader(req, msg)
    <3>2. a \in head .. (head + C - 1) /\ buffer' = [buffer EXCEPT ![a % C] = v]
      BY <2>1, <3>1
    <3> HIDE DEF a, v
    <3>3. \A p \in head .. (head + C - 1) : buffer'[p % C] = IF p = a THEN v ELSE buffer[p % C]
      BY <3>2, StoreOne
    <3>4. QED
      BY <3>3 DEF a, v
<1>12. BufferType'
  <2>1. makeHeader(req, msg) \in Cells
    BY <1>3, <1>4 DEF makeHeader, Cells
  <2>2. buffer' \in [0 .. (C - 1) -> Cells]
    BY <1>b, <2>1 DEF RingInv, BufferType
  <2>3. QED
    BY <1>1, <1>2, <1>6, <2>2 DEF RingInv, BufferType, Deciding, Writing
<1>13. Producing'
  <2>1. \A i \in 1 .. Claimed' : claims'[i].state # "open"
    <3> SUFFICES ASSUME NEW i \in 1 .. Claimed PROVE claims'[i].state # "open"
      BY <1>6
    <3>1. CASE i = Claimed
      BY <1>6, <1>9, <3>1 DEF Last
    <3>2. CASE i # Claimed
      BY <1>6, <3>2 DEF RingInv, Producing
    <3>3. QED
      BY <3>1, <3>2
  <2>2. Claimed' > 0 /\ Begin(claims', Claimed') = tail'
    <3>1. Claimed \in 1 .. (Claimed + 1) /\ Begin(claims, Claimed) = tail
      BY <1>1, <1>3, Facts
    <3>2. QED
      BY <1>1, <1>3, <1>6, <1>8, <3>1, Zenon
  <2>3. Last'.at = tail' + Padding' /\ Last'.end = tail' + Padding' + req' /\ Last'.id = msg'
    BY <1>1, <1>9 DEF RingInv, Producing
  <2>4. QED
    BY <1>1, <2>1, <2>2, <2>3 DEF Producing, Deciding
<1>14. Room'
  BY <1>1, <1>3, <1>5, <1>9, <1>10 DEF RingInv, Room, Writing
<1>15. \A m \in 0 .. Claimed : Mark(claims, At, m) => Mark(claims', At, m)
  <2> SUFFICES ASSUME NEW m \in 0 .. Claimed, Mark(claims, At, m) PROVE Mark(claims', At, m)
    OBVIOUS
  <2>1. m + 1 \in 1 .. (Claimed + 1)
    BY <1>3
  <2>2. CASE At = Begin(claims, m + 1)
    BY <1>8, <2>1, <2>2 DEF Mark
  <2>3. CASE m < Len(claims) /\ At = claims[m + 1].at
    <3>1. m + 1 \in 1 .. Claimed
      BY <1>3, <2>3 DEF Claimed
    <3>2. QED
      BY <1>6, <1>7, <2>3, <3>1 DEF Mark, Claimed
  <2>4. QED
    BY <2>2, <2>3 DEF Mark
<1>16. Reading'
  <2>1. \E m \in 0 .. Claimed' : Mark(claims', At', m)
    BY <1>6, <1>9, <1>15 DEF RingInv, Reading
  <2>2. QED
    BY <1>1, <1>2, <2>1 DEF RingInv, Reading
<1>17. Contents'
  <2>1. \A p \in head .. (Published - 1) : buffer'[p % C] = buffer[p % C]
    BY <1>3, <1>5, <1>11
  <2>2. ASSUME NEW i \in 1 .. Claimed, Published < claims[i].end, claims[i].end <= Published',
               NEW k \in 0 .. (claims[i].end - claims[i].at - 1)
        PROVE  buffer'[(claims[i].at + k) % C] = Recorded(i, k)
    <3>0. tail <= Last.at
      BY <1>1, Facts
    <3>1. i = Claimed /\ claims[i] = Last
      BY <1>1, <1>3, <1>5, <2>2, <3>0, OthersBehind
    <3>2. Last.at + k \in head .. (head + C - 1) /\ k \in 0 .. (req - 1) /\ Last.end - Last.at = req
      BY <1>3, <1>4, <1>5, <3>1
    <3>3. CASE k = 0
      <4>1. Last.at + k = Last.at
        BY <1>3, <3>3
      <4>2. buffer'[(Last.at + k) % C] = makeHeader(req, msg)
        BY <1>11, <3>2, <4>1
      <4>3. QED
        BY <1>4, <3>1, <3>2, <3>3, <4>2 DEF Recorded
    <3>4. CASE k # 0
      <4>1. Last.at < Last.at + k /\ Last.at + k < Last.end /\ Last.at + k \in Last.at .. (head + C - 1)
        BY <1>3, <1>4, <3>2, <3>4
      <4>2. buffer[(Last.at + k) % C] = MsgUnit(msg)
        BY <1>1, <1>5, <4>1 DEF RingInv, Contents, Blank, Cell, Unpublished
      <4>3. Last.at + k # Last.at
        BY <1>3, <4>1
      <4>4. QED
        BY <1>4, <1>11, <3>1, <3>2, <3>4, <4>2, <4>3 DEF Recorded
    <3>5. QED
      BY <3>3, <3>4
  <2>3. ASSUME NEW i \in 1 .. Claimed
        PROVE  ~(Published < claims[i].at /\ claims[i].at <= Published')
    <3>1. tail <= Last.at
      BY <1>1, Facts
    <3>2. QED
      BY <1>1, <1>3, <1>5, <3>1, OthersBehind
  <2>4. \A p \in Published' .. (head + C - 1) :
          buffer'[p % C] = IF Unpublished(p)' THEN MsgUnit(msg') ELSE Zero
    <3> SUFFICES ASSUME NEW p \in Last.end .. (head + C - 1) PROVE buffer'[p % C] = Zero
      BY <1>1, <1>10 DEF Unpublished
    <3>1. p \in head .. (head + C - 1) /\ p # Last.at /\ p \in Last.at .. (head + C - 1) /\ ~(p < Last.end)
      BY <1>3, <1>5
    <3>2. buffer[p % C] = Zero
      BY <1>5, <3>1 DEF RingInv, Contents, Blank, Cell, Unpublished
    <3>3. QED
      BY <1>11, <3>1, <3>2
  <2>5. Published' \in Nat /\ Published <= Published'
    BY <1>3, <1>5, <1>10
  <2>6. \A i \in 1 .. Claimed : Begin(claims', i) = Begin(claims, i)
    BY <1>3, <1>8
  <2>7. QED
    BY <1>1, <1>6, <1>7, <1>9, <2>1, <2>2, <2>3, <2>4, <2>5, <2>6, ContentsGrow
<1>18. Sizing'
  BY <1>1, <1>3, SizingKeeps DEF RingInv
<1>19. Queue!Close
  <2>1. PICK m \in 0 .. Claimed : Mark(claims, At, m)
    BY DEF RingInv, Reading
  <2>2. m < Claimed
    <3>1. Last.end <= At <=> Claimed <= m
      BY <1>3, <1>c, <2>1, EndedIs DEF RingInv, Claimed, Last
    <3>2. QED
      BY <1>3, <1>5, <3>1
  <2>3. Passed = m /\ Passed' = m
    <3>1. Passed = PassedOf(claims, Consumed) /\ Passed' = PassedOf(claims', Consumed')
      BY DEF Passed, PassedOf
    <3>2. Consumed = At /\ Consumed' = Consumed
      BY <1>1, <1>2, ConsumedIsAt DEF Consumed
    <3>3. PassedOf(claims, At) = m
      BY <2>1, <1>3, <1>c, PassedIs DEF RingInv, Claimed
    <3>4. m \in 0 .. Len(claims') /\ Mark(claims', At, m)
      BY <1>6, <1>15, <2>1 DEF Claimed
    <3>5. PassedOf(claims', At) = m
      BY <1>3, <1>6, <1>8, <3>4, PassedIs
    <3>6. QED
      BY <3>1, <3>2, <3>3, <3>5
  <2>4. /\ Len(Seen(claims)) = Claimed
        /\ \A i \in 1 .. Claimed : Seen(claims)[i] = [id |-> claims[i].id, state |-> claims[i].state]
    <3>1. DOMAIN claims = 1 .. Claimed
      BY <1>c DEF Claimed
    <3>2. Seen(claims) = [i \in 1 .. Claimed |-> [id |-> claims[i].id, state |-> claims[i].state]]
      BY <3>1 DEF Seen
    <3>3. QED
      BY <1>3, <3>2
  <2>5. Seen(claims)[Claimed].state = "open"
    BY <1>1, <1>3, <2>4 DEF RingInv, Producing
  <2>6. Seen(claims') = [Seen(claims) EXCEPT ![Claimed].state = "done"]
    <3>1. DOMAIN claims = 1 .. Claimed /\ DOMAIN claims' = 1 .. Claimed
      BY <1>c, <1>6 DEF Claimed
    <3>2. Seen(claims) = [i \in 1 .. Claimed |-> [id |-> claims[i].id, state |-> claims[i].state]]
      BY <3>1 DEF Seen
    <3>3. Seen(claims') = [i \in 1 .. Claimed |-> [id |-> claims'[i].id, state |-> claims'[i].state]]
      BY <3>1 DEF Seen
    <3>4. \A i \in 1 .. Claimed : i # Claimed =>
            [id |-> claims'[i].id, state |-> claims'[i].state]
              = [id |-> claims[i].id, state |-> claims[i].state]
      BY <1>6
    <3>5. claims'[Claimed].id = claims[Claimed].id /\ claims'[Claimed].state = "done"
      BY <1>3, <1>6, <1>7, <1>9 DEF Last
    <3>6. [Seen(claims) EXCEPT ![Claimed].state = "done"] =
            [i \in 1 .. Claimed |-> IF i = Claimed THEN [Seen(claims)[i] EXCEPT !.state = "done"]
                                   ELSE Seen(claims)[i]]
      BY <1>3, <3>2
    <3>7. ASSUME NEW i \in 1 .. Claimed
          PROVE  [id |-> claims'[i].id, state |-> claims'[i].state]
                   = IF i = Claimed THEN [Seen(claims)[i] EXCEPT !.state = "done"] ELSE Seen(claims)[i]
      BY <2>4, <3>4, <3>5
    <3>8. QED
      BY <3>3, <3>6, <3>7
  <2>7. Claimed \in (Passed + 1) .. Len(Seen(claims))
    BY <1>3, <2>2, <2>3, <2>4
  <2>8. Queue!Close <=>
          /\ \E i \in (Passed + 1) .. Len(Seen(claims)), s \in {"done", "void"} :
               /\ Seen(claims)[i].state = "open"
               /\ Seen(claims') = [Seen(claims) EXCEPT ![i].state = s]
          /\ Passed' = Passed
          /\ [n \in DOMAIN handed' |-> handed'[n].id] = [n \in DOMAIN handed |-> handed[n].id]
    BY DEF Queue!Close, Seen
  <2>9. QED
    BY <1>2, <2>3, <2>5, <2>6, <2>7, <2>8
<1>20. QED
  BY <1>8, <1>12, <1>13, <1>14, <1>16, <1>17, <1>18, <1>19 DEF RingInv

-----------------------------------------------------------------------------
(* write() as a whole *)

LEMMA ProducerSteps ==
  ASSUME RingBufferAssumption, RingInv, Producer
  PROVE  RingInv' /\ [Queue!Next]_(Queue!vars)
<1>1. /\ C \in Nat \ {0} /\ head \in Nat /\ tail \in Nat /\ headCache \in Nat /\ req \in Nat
      /\ headCache <= head /\ ids \in Nat /\ msg \in Nat /\ MaxWrites \in Nat
  BY Facts DEF RingInv, Room, BufferType, RingBufferAssumption
<1>2. tail % C \in 0 .. (C - 1)
  BY <1>1, PlaceInBuffer
<1>3. CASE write
  <2>1. PICK length \in MsgLengths :
          LET r == length + HEADER_LENGTH
          IN  /\ req' = r
              /\ \/ /\ r > Capacity - (tail - headCache)
                    /\ pc' = "head1" /\ UNCHANGED claims
                 \/ /\ r <= Capacity - (tail - headCache)
                    /\ NeedsWrapRoom(r, headCache)
                    /\ pc' = "head2" /\ UNCHANGED claims
                 \/ /\ r <= Capacity - (tail - headCache)
                    /\ ~NeedsWrapRoom(r, headCache)
                    /\ Accept(r, ids + 1)
    BY <1>3 DEF write
  <2>2. /\ pc = "idle" /\ ids < MaxWrites /\ ids' = ids + 1 /\ msg' = ids + 1
        /\ UNCHANGED <<memory, readerVars, sizeVars>>
    BY <1>3 DEF write
  <2>3. /\ buffer' = buffer /\ tail' = tail /\ headCache' = headCache /\ head' = head
        /\ UNCHANGED readerVars /\ UNCHANGED sizeVars
    BY <2>2 DEF memory
  <2> DEFINE r == length + HEADER_LENGTH
  <2>4. r \in Nat \ {0} /\ ids + 1 \in 1 .. MaxWrites /\ ids + 1 \in Nat /\ pc \in Deciding
    BY <1>1, <2>2 DEF RingBufferAssumption, HEADER_LENGTH, Deciding
  <2>5. req' = r
    BY <2>1
  <2> HIDE DEF r
  <2>6. CASE r > C - (tail - headCache) /\ pc' = "head1" /\ UNCHANGED claims
    <3>1. req' \in Nat /\ req' > 0 /\ pc' \in Deciding /\ pc' # "head2"
      BY <2>4, <2>5, <2>6 DEF Deciding
    <3>2. QED
      BY <1>1, <2>2, <2>3, <2>4, <2>6, <3>1, DecideSteps
  <2>7. CASE r <= C - (tail - headCache) /\ NeedsWrapRoom(r, headCache) /\ pc' = "head2" /\ UNCHANGED claims
    <3>1. req' \in Nat /\ req' > 0 /\ pc' \in Deciding
      BY <2>4, <2>5, <2>7 DEF Deciding
    <3>2. req' > C - (tail % C)
      BY <2>5, <2>7 DEF NeedsWrapRoom, IndexOf, C
    <3>3. tail + req' <= head + C
      BY <1>1, <2>4, <2>5, <2>7
    <3>4. QED
      BY <1>1, <2>2, <2>3, <2>4, <2>7, <3>1, <3>2, <3>3, DecideSteps
  <2>8. CASE r <= C - (tail - headCache) /\ ~NeedsWrapRoom(r, headCache) /\ Accept(r, ids + 1)
    <3>1. RingInv' /\ Queue!Claim
      BY <1>1, <2>2, <2>3, <2>4, <2>5, <2>8, AcceptStep
    <3>2. QED
      BY <3>1 DEF Queue!Next
  <2>9. QED
    BY <2>1, <2>6, <2>7, <2>8 DEF r, C
<1>4. CASE CheckCapacity
  <2>1. /\ pc = "head1" /\ pc \in Deciding /\ buffer' = buffer /\ tail' = tail /\ head' = head
        /\ ids' = ids /\ UNCHANGED readerVars /\ UNCHANGED sizeVars
    BY <1>4 DEF CheckCapacity, Deciding
  <2>2. req > 0 /\ msg \in 1 .. MaxWrites
    BY <2>1 DEF RingInv, Producing
  <2>3. CASE Refuse /\ UNCHANGED <<headCache, claims>>
    <3>1. pc' \in Deciding /\ pc' \notin {"head1", "head2"} /\ req' = 0 /\ msg' = 0
      BY <2>3 DEF Refuse, Deciding
    <3>2. QED
      BY <1>1, <2>1, <2>3, <3>1, DecideSteps
  <2>4. CASE /\ req <= C - (tail - head) /\ headCache' = head /\ NeedsWrapRoom(req, head)
             /\ pc' = "head2" /\ claims' = claims /\ msg' = msg /\ req' = req
    <3>1. req' > C - (tail % C)
      BY <2>4 DEF NeedsWrapRoom, IndexOf, C
    <3>2. tail + req' <= head + C /\ pc' \in Deciding /\ headCache' <= head
      BY <1>1, <2>4 DEF Deciding
    <3>3. QED
      BY <1>1, <2>1, <2>2, <2>4, <3>1, <3>2, DecideSteps
  <2>5. CASE /\ req <= C - (tail - head) /\ headCache' = head /\ ~NeedsWrapRoom(req, head)
             /\ Accept(req, msg) /\ msg' = msg /\ req' = req
    <3>1. req \in Nat \ {0} /\ head <= head /\ headCache' <= head
      BY <1>1, <2>2, <2>5
    <3>2. RingInv' /\ Queue!Claim
      BY <1>1, <2>1, <2>2, <2>5, <3>1, AcceptStep
    <3>3. QED
      BY <3>2 DEF Queue!Next
  <2>6. QED
    BY <1>4, <2>3, <2>4, <2>5 DEF CheckCapacity, C
<1>5. CASE CheckWrap
  <2>1. /\ pc = "head2" /\ pc \in Deciding /\ buffer' = buffer /\ tail' = tail /\ head' = head
        /\ ids' = ids /\ UNCHANGED readerVars /\ UNCHANGED sizeVars
    BY <1>5 DEF CheckWrap, Deciding
  <2>2. req > 0 /\ msg \in 1 .. MaxWrites /\ tail + req <= head + C
    BY <2>1 DEF RingInv, Producing
  <2>3. CASE Refuse /\ UNCHANGED <<headCache, claims>>
    <3>1. pc' \in Deciding /\ pc' \notin {"head1", "head2"} /\ req' = 0 /\ msg' = 0
      BY <2>3 DEF Refuse, Deciding
    <3>2. QED
      BY <1>1, <2>1, <2>3, <3>1, DecideSteps
  <2>4. CASE /\ req <= head % C /\ headCache' = head /\ Accept(req, msg) /\ msg' = msg /\ req' = req
    <3>1. head % C \in 0 .. (C - 1)
      BY <1>1, PlaceInBuffer
    <3>2. ~(req > head % C)
      BY <1>1, <2>4, <3>1
    <3>3. ~NeedsWrapRoom(req, head)
      BY <3>2 DEF NeedsWrapRoom, IndexOf, C
    <3>4. req \in Nat \ {0} /\ head <= head /\ headCache' <= head /\ req <= C - (tail - head)
      BY <1>1, <2>2, <2>4
    <3>5. RingInv' /\ Queue!Claim
      BY <1>1, <2>1, <2>2, <2>4, <3>3, <3>4, AcceptStep
    <3>6. QED
      BY <3>5 DEF Queue!Next
  <2>5. QED
    BY <1>5, <2>3, <2>4 DEF CheckWrap, IndexOf, C
<1>6. CASE WriteHeader
  BY <1>6, HeaderStep DEF Queue!Next
<1>7. QED
  BY <1>3, <1>4, <1>5, <1>6, PaddingStep, BytesStep, TailStep DEF Producer

-----------------------------------------------------------------------------
(* read() *)

(* A step of the consumer leaves the producer as it is. *)
LEMMA ReaderFrame ==
  ASSUME RingBufferAssumption, RingInv, UNCHANGED producerVars, UNCHANGED sizeVars, claims' = claims,
         tail' = tail, headCache' = headCache, head' \in Nat, head <= head'
  PROVE  /\ Chain(claims)' /\ Producing' /\ Sizing' /\ Published' = Published
         /\ Claimed' = Claimed /\ Last' = Last
         /\ pc' = pc /\ msg' = msg /\ req' = req /\ ids' = ids
<1>1. pc' = pc /\ msg' = msg /\ req' = req /\ ids' = ids
  BY DEF producerVars
<1>2. Claimed' = Claimed /\ Last' = Last /\ Padding' = Padding
  BY <1>1 DEF Claimed, Last, Padding, IndexOf
<1>3. C \in Nat /\ head \in Nat /\ tail \in Nat /\ req \in Nat
  BY Facts
<1>4. Chain(claims)' /\ Published' = Published
  BY <1>1, <1>2 DEF RingInv, Chain, Lies, Begin, Published
<1>5. Producing'
  <2>1. pc = "head2" => tail + req <= head' + C
    BY <1>3 DEF RingInv, Producing
  <2>2. QED
    BY <1>1, <1>2, <2>1 DEF RingInv, Producing, Begin
<1>6. Sizing'
  BY <1>3, SizingKeeps DEF RingInv
<1>7. QED
  BY <1>1, <1>2, <1>4, <1>5, <1>6

LEMMA QuietReads ==
  ASSUME RingBufferAssumption, RingInv, ReadBegin \/ ReadStops,
         UNCHANGED producerVars, UNCHANGED sizeVars, claims' = claims
  PROVE  RingInv' /\ UNCHANGED Queue!vars
<1>1. /\ buffer' = buffer /\ tail' = tail /\ headCache' = headCache /\ head' = head
      /\ handed' = handed
  BY DEF ReadBegin, ReadStops, memory
<1>2. /\ reader \in {"idle", "record"} /\ reader' \in {"idle", "record", "zero"}
      /\ bytesRead' = bytesRead
      /\ reader' = "idle" => bytesRead = 0 /\ rHead' = 0
      /\ reader' # "idle" => rHead' = head
  BY DEF RingInv, Reading, ReadBegin, ReadStops
<1>3. head \in Nat /\ head <= head' /\ bytesRead \in Nat /\ head' \in Nat
  BY <1>1, Facts
<1>4. /\ Chain(claims)' /\ Producing' /\ Sizing' /\ Published' = Published
      /\ Claimed' = Claimed /\ Last' = Last /\ pc' = pc /\ msg' = msg /\ req' = req /\ ids' = ids
  BY <1>1, <1>3, ReaderFrame
<1>5. At' = At /\ Gone' = Gone
  BY <1>1, <1>2 DEF At, Gone
<1>6. rHead' \in Nat
  BY <1>2, <1>3
<1>7. BufferType'
  BY <1>1, <1>2, <1>4, <1>6 DEF RingInv, BufferType
<1>8. Room' /\ Reading'
  BY <1>1, <1>2, <1>4, <1>5 DEF RingInv, Room, Reading, Mark, Begin
<1>9. Contents'
  BY <1>1, <1>4, <1>5
     DEF RingInv, Contents, Records, Paddings, Blank, Cell, Recorded, Begin, Unpublished
<1>10. RingInv'
  BY <1>4, <1>7, <1>8, <1>9 DEF RingInv
<1>11. Consumed' = Consumed
  <2>1. Consumed = At
    BY ConsumedIsAt
  <2>2. Consumed' = At'
    BY <1>2, <1>3, <1>1 DEF Consumed, At
  <2>3. QED
    BY <1>5, <2>1, <2>2
<1>12. QED
  BY <1>1, <1>10, <1>11, QueueKeeps

(* The bytes that were read are cleared: nobody needs them any more. *)
LEMMA ZeroStep ==
  ASSUME RingBufferAssumption, RingInv, ReadZero,
         UNCHANGED producerVars, UNCHANGED sizeVars, claims' = claims
  PROVE  RingInv' /\ UNCHANGED Queue!vars
<1>1. /\ reader = "zero" /\ reader' = "head" /\ rHead' = rHead /\ bytesRead' = bytesRead
      /\ tail' = tail /\ headCache' = headCache /\ head' = head /\ handed' = handed
  BY DEF ReadZero
<1>2. buffer' = [i \in DOMAIN buffer |->
                   IF i \in (head % C) .. ((head % C) + bytesRead - 1) THEN Zero ELSE buffer[i]]
  BY <1>1 DEF ReadZero, RingInv, Reading, IndexOf, C
<1>3. /\ C \in Nat \ {0} /\ head \in Nat /\ bytesRead \in Nat /\ At = head + bytesRead
      /\ Published \in Nat /\ At <= Published /\ Published <= head + C
      /\ head % C \in 0 .. (C - 1) /\ (head % C) + bytesRead <= C /\ Gone = head
  <2>1. C \in Nat \ {0} /\ head \in Nat /\ bytesRead \in Nat
    BY Facts
  <2>2. At = head + bytesRead /\ (head % C) + bytesRead <= C /\ Gone = head
    BY <1>1 DEF At, RingInv, Reading, Gone
  <2>3. Published \in Nat /\ At <= Published /\ Published <= head + C
    BY PublishedFacts
  <2>4. QED
    BY <2>1, <2>2, <2>3, PlaceInBuffer
<1>4. /\ Chain(claims)' /\ Producing' /\ Sizing' /\ Published' = Published
      /\ Claimed' = Claimed /\ Last' = Last /\ pc' = pc /\ msg' = msg /\ req' = req /\ ids' = ids
  <2>1. head' \in Nat /\ head <= head'
    BY <1>1, <1>3
  <2>2. QED
    BY <1>1, <2>1, ReaderFrame
<1>5. At' = At /\ Gone' = At
  BY <1>1 DEF At, Gone
<1>6. ASSUME NEW p \in head .. (head + C - 1)
      PROVE  buffer'[p % C] = IF p < At THEN Zero ELSE buffer[p % C]
  <2>1. p % C \in 0 .. (C - 1) /\ p \in Nat
    BY <1>3, PlaceInBuffer
  <2>2. DOMAIN buffer = 0 .. (C - 1)
    BY DEF RingInv, BufferType
  <2>3. (p % C) \in (head % C) .. ((head % C) + bytesRead - 1) <=> p \in head .. (head + bytesRead - 1)
    <3>1. head \in head .. (head + C) /\ head + bytesRead <= head + C
      BY <1>3
    <3>2. QED
      BY <1>3, <3>1, Stretch
  <2>4. p \in head .. (head + bytesRead - 1) <=> p < At
    BY <1>3
  <2>5. QED
    BY <1>2, <2>1, <2>2, <2>3, <2>4
<1>7. BufferType'
  <2>1. Zero \in Cells
    BY DEF Zero, Cells
  <2>2. buffer' \in [0 .. (C - 1) -> Cells]
    <3>1. buffer \in [0 .. (C - 1) -> Cells]
      BY DEF RingInv, BufferType
    <3>2. QED
      BY <1>2, <2>1, <3>1
  <2>3. QED
    BY <1>1, <1>4, <2>2 DEF RingInv, BufferType
<1>8. Room' /\ Reading'
  BY <1>1, <1>4, <1>5 DEF RingInv, Room, Reading, Mark, Begin
<1>9. Contents'
  <2>1. Records'
    <3> SUFFICES ASSUME NEW i \in 1 .. Claimed, At <= claims[i].at, claims[i].end <= Published,
                        NEW k \in 0 .. (claims[i].end - claims[i].at - 1)
                 PROVE  buffer'[(claims[i].at + k) % C] = Recorded(i, k)
      BY <1>4, <1>5 DEF Records, Cell, Recorded
    <3>1. claims[i].at \in Nat /\ claims[i].end \in Nat
      BY Facts, ClaimFields DEF Claimed
    <3>2. /\ claims[i].at + k \in head .. (head + C - 1) /\ ~(claims[i].at + k < At)
          /\ Gone <= claims[i].at
      BY <1>3, <3>1
    <3>3. buffer[(claims[i].at + k) % C] = Recorded(i, k)
      BY <3>2 DEF RingInv, Contents, Records, Cell
    <3>4. QED
      BY <1>6, <3>2, <3>3
  <2>2. Paddings'
    <3> SUFFICES ASSUME NEW i \in 1 .. Claimed, At <= Begin(claims, i),
                        Begin(claims, i) < claims[i].at, claims[i].at <= Published
                 PROVE  buffer'[Begin(claims, i) % C] =
                          makeHeader(claims[i].at - Begin(claims, i), PADDING_MSG_TYPE_ID)
      BY <1>4, <1>5 DEF Paddings, Cell
    <3>1. claims[i].at \in Nat /\ Begin(claims, i) \in Nat
      <4>1. i \in 1 .. (Len(claims) + 1)
        BY Facts DEF Claimed
      <4>2. QED
        BY <4>1, Facts, ClaimFields, BeginIsNat DEF Claimed
    <3>2. /\ Begin(claims, i) \in head .. (head + C - 1) /\ ~(Begin(claims, i) < At)
          /\ Gone <= Begin(claims, i)
      BY <1>3, <3>1
    <3>3. buffer[Begin(claims, i) % C] =
            makeHeader(claims[i].at - Begin(claims, i), PADDING_MSG_TYPE_ID)
      BY <3>2 DEF RingInv, Contents, Paddings, Cell
    <3>4. QED
      BY <1>6, <3>2, <3>3
  <2>3. Blank'
    <3>1. ASSUME NEW p \in Published .. (head + C - 1)
          PROVE  buffer'[p % C] = IF Unpublished(p) THEN MsgUnit(msg) ELSE Zero
      <4>1. p \in head .. (head + C - 1) /\ ~(p < At)
        BY <1>3
      <4>2. buffer[p % C] = IF Unpublished(p) THEN MsgUnit(msg) ELSE Zero
        BY DEF RingInv, Contents, Blank, Cell
      <4>3. QED
        BY <1>6, <4>1, <4>2
    <3>2. ASSUME NEW p \in head .. (At - 1) PROVE buffer'[p % C] = Zero
      <4>1. p \in head .. (head + C - 1) /\ p < At
        BY <1>3
      <4>2. QED
        BY <1>6, <4>1
    <3>3. \A p : Unpublished(p)' <=> Unpublished(p)
      BY <1>4 DEF Unpublished
    <3>4. QED
      BY <1>1, <1>4, <1>5, <3>1, <3>2, <3>3 DEF Blank, Cell
  <2>4. QED
    BY <2>1, <2>2, <2>3 DEF Contents
<1>10. RingInv'
  BY <1>4, <1>7, <1>8, <1>9 DEF RingInv
<1>11. QED
  BY <1>1, <1>10, QueueKeeps DEF Consumed

(* Only then the head moves, and the producer may use the cells again. *)
LEMMA HeadStep ==
  ASSUME RingBufferAssumption, RingInv, ReadHead,
         UNCHANGED producerVars, UNCHANGED sizeVars, claims' = claims
  PROVE  RingInv' /\ UNCHANGED Queue!vars
<1>1. /\ reader = "head" /\ reader' = "idle" /\ rHead' = 0 /\ bytesRead' = 0 /\ buffer' = buffer
      /\ tail' = tail /\ headCache' = headCache /\ handed' = handed /\ head' = At
  BY DEF ReadHead, RingInv, Reading, At
<1>2. /\ C \in Nat \ {0} /\ head \in Nat /\ bytesRead \in Nat /\ At = head + bytesRead /\ At \in Nat
      /\ head <= At /\ headCache \in Nat /\ tail \in Nat
  BY Facts DEF At
<1>3. /\ Chain(claims)' /\ Producing' /\ Sizing' /\ Published' = Published
      /\ Claimed' = Claimed /\ Last' = Last /\ pc' = pc /\ msg' = msg /\ req' = req /\ ids' = ids
  <2>1. head' \in Nat /\ head <= head'
    BY <1>1, <1>2
  <2>2. QED
    BY <1>1, <2>1, ReaderFrame
<1>4. At' = At /\ Gone' = At /\ Gone = At
  BY <1>1, <1>2 DEF At, Gone
<1>5. BufferType'
  BY <1>1, <1>2, <1>3 DEF RingInv, BufferType
<1>6. Room'
  <2>1. headCache <= At /\ tail <= At + C
    BY <1>2 DEF RingInv, Room
  <2>2. pc \in Writing => Last.end <= At + C
    BY <1>2, Facts
  <2>3. QED
    BY <1>1, <1>3, <1>4, <2>1, <2>2, PublishedFacts DEF Room
<1>7. Reading'
  <2>1. At % C \in 0 .. (C - 1)
    BY <1>2, PlaceInBuffer
  <2>2. \E m \in 0 .. Claimed : Mark(claims, At, m)
    BY DEF RingInv, Reading
  <2>3. (At % C) + 0 <= C
    BY <1>2, <2>1
  <2>4. QED
    BY <1>1, <1>3, <1>4, <2>2, <2>3 DEF Reading, Mark, Begin
<1>8. Contents'
  <2>1. Records' /\ Paddings'
    BY <1>1, <1>3, <1>4 DEF RingInv, Contents, Records, Paddings, Cell, Recorded, Begin
  <2>2. ASSUME NEW p \in Published .. (At + C - 1)
        PROVE  buffer[p % C] = IF Unpublished(p) THEN MsgUnit(msg) ELSE Zero
    <3>1. Published \in Nat /\ head <= Published /\ At <= head + C /\ p \in Nat
      BY <1>2, PublishedFacts
    <3>2. CASE p < head + C
      <4>1. p \in Published .. (head + C - 1)
        BY <1>2, <3>1, <3>2
      <4>2. QED
        BY <4>1 DEF RingInv, Contents, Blank, Cell
    <3>3. CASE ~(p < head + C)
      <4>1. p - C \in head .. (At - 1) /\ p - C \in Nat /\ (p - C) + C = p
        BY <1>2, <3>1, <3>3
      <4>2. (p - C) % C = p % C
        <5>1. ((p - C) + C) % C = (p - C) % C
          BY <1>2, <4>1, OneLap
        <5>2. QED
          BY <4>1, <5>1
      <4>3. buffer[(p - C) % C] = Zero
        BY <1>4, <4>1 DEF RingInv, Contents, Blank, Cell
      <4>4. ~Unpublished(p)
        <5>1. ASSUME pc = "header" PROVE ~(p < Last.end)
          <6>1. Last.end <= head + C /\ Last.end \in Nat
            BY <5>1, Facts DEF Writing
          <6>2. QED
            BY <1>2, <3>1, <3>3, <6>1
        <5>2. QED
          BY <5>1 DEF Unpublished
      <4>5. QED
        BY <4>2, <4>3, <4>4
    <3>4. QED
      BY <3>2, <3>3
  <2>3. \A p \in At .. (At - 1) : FALSE
    BY <1>2
  <2>4. \A p : Unpublished(p)' <=> Unpublished(p)
    BY <1>3 DEF Unpublished
  <2>5. Blank'
    BY <1>1, <1>3, <1>4, <2>2, <2>3, <2>4 DEF Blank, Cell
  <2>6. QED
    BY <2>1, <2>5 DEF Contents
<1>9. RingInv'
  BY <1>3, <1>5, <1>6, <1>7, <1>8 DEF RingInv
<1>10. Consumed' = Consumed
  <2>1. Consumed = At
    BY ConsumedIsAt
  <2>2. QED
    BY <1>1, <2>1 DEF Consumed
<1>11. QED
  BY <1>1, <1>9, <1>10, QueueKeeps

(* The consumer finds a record: it is the one it stands at, or the padding *)
(* before it, and it is published.                                         *)
LEMMA RecordFound ==
  ASSUME RingBufferAssumption, RingInv, reader = "record", bytesRead < C - (head % C),
         buffer[(head % C) + bytesRead].length > 0
  PROVE  /\ At % C = (head % C) + bytesRead /\ At < Published
         /\ \E m \in 0 .. (Claimed - 1) : Mark(claims, At, m)
<1>1. /\ C \in Nat \ {0} /\ head \in Nat /\ bytesRead \in Nat /\ At = head + bytesRead /\ At \in Nat
      /\ head % C \in 0 .. (C - 1) /\ Claimed \in Nat /\ Begin(claims, Claimed + 1) \in Nat
  BY Facts, PlaceInBuffer DEF At
<1>2. At % C = (head % C) + bytesRead
  <2>1. bytesRead \in 0 .. (C - 1) /\ (head % C) + bytesRead < C
    BY <1>1
  <2>2. (head + bytesRead) % C =
          IF (head % C) + bytesRead < C THEN (head % C) + bytesRead ELSE (head % C) + bytesRead - C
    BY <1>1, <2>1, PlaceAfter
  <2>3. QED
    BY <1>1, <2>1, <2>2
<1>3. Published \in Nat /\ At <= Published /\ Published <= Begin(claims, Claimed + 1)
  BY PublishedFacts
<1>4. At # Published
  <2>1. SUFFICES ASSUME At = Published PROVE FALSE
    OBVIOUS
  <2>2. At \in Published .. (head + C - 1)
    BY <1>1, <2>1
  <2>3. ~Unpublished(At)
    <3>1. ASSUME pc = "header" PROVE ~(Last.at < At)
      <4>1. Last.at = At
        BY <2>1, <3>1 DEF Published, Deciding
      <4>2. QED
        BY <1>1, <4>1
    <3>2. QED
      BY <3>1 DEF Unpublished
  <2>4. buffer[At % C] = Zero
    BY <2>2, <2>3 DEF RingInv, Contents, Blank, Cell
  <2>5. QED
    BY <1>2, <2>4 DEF Zero
<1>5. PICK m \in 0 .. Claimed : Mark(claims, At, m)
  BY DEF RingInv, Reading
<1>6. m # Claimed
  <2>1. SUFFICES ASSUME m = Claimed PROVE FALSE
    OBVIOUS
  <2>2. At = Begin(claims, Claimed + 1)
    BY <1>1, <1>5, <2>1 DEF Mark, Claimed
  <2>3. QED
    BY <1>1, <1>3, <1>4, <2>2
<1>7. At < Published /\ m \in 0 .. (Claimed - 1)
  BY <1>1, <1>3, <1>4, <1>6
<1>8. QED
  BY <1>2, <1>5, <1>7

(* Reading on does not change the buffer or the producer. *)
LEMMA ReadsOn ==
  ASSUME RingBufferAssumption, RingInv, reader = "record", reader' \in {"record", "zero"},
         UNCHANGED producerVars, UNCHANGED sizeVars, claims' = claims, UNCHANGED memory,
         rHead' = rHead, bytesRead' \in Nat, handed' \in Seq(Whole),
         (head % C) + bytesRead' <= C, head + bytesRead' <= Published,
         \E n \in 0 .. Claimed : Mark(claims, head + bytesRead', n)
  PROVE  RingInv' /\ Consumed' = head + bytesRead'
<1>1. buffer' = buffer /\ tail' = tail /\ headCache' = headCache /\ head' = head /\ rHead = head
  BY DEF memory, RingInv, Reading
<1>2. head \in Nat /\ head' \in Nat /\ head <= head'
  BY <1>1, Facts
<1>3. /\ Chain(claims)' /\ Producing' /\ Sizing' /\ Published' = Published
      /\ Claimed' = Claimed /\ Last' = Last /\ pc' = pc /\ msg' = msg /\ req' = req /\ ids' = ids
  BY <1>1, <1>2, ReaderFrame
<1>4. At' = head + bytesRead' /\ Gone' = Gone
  BY <1>1 DEF At, Gone
<1>5. BufferType'
  BY <1>1, <1>3 DEF RingInv, BufferType
<1>6. Room' /\ Reading'
  BY <1>1, <1>3, <1>4 DEF RingInv, Room, Reading, Mark, Begin
<1>7. Contents'
  BY <1>1, <1>3, <1>4
     DEF RingInv, Contents, Records, Paddings, Blank, Cell, Recorded, Begin, Unpublished
<1>8. Consumed' = head + bytesRead'
  BY <1>1 DEF Consumed
<1>9. QED
  BY <1>3, <1>5, <1>6, <1>7, <1>8 DEF RingInv

LEMMA RecordStep ==
  ASSUME RingBufferAssumption, RingInv, ReadRecord,
         UNCHANGED producerVars, UNCHANGED sizeVars, claims' = claims
  PROVE  RingInv' /\ [Queue!Take]_(Queue!vars)
<1> DEFINE index == (head % C) + bytesRead
           header == buffer[index]
<1>1. /\ reader = "record" /\ bytesRead < C - (head % C) /\ header.length > 0
      /\ UNCHANGED memory /\ rHead' = rHead /\ bytesRead' = bytesRead + header.length
  BY DEF ReadRecord, RingInv, Reading, IndexOf, C
<1>2. \/ /\ header.type = PADDING_MSG_TYPE_ID
         /\ UNCHANGED <<reader, messagesRead, handed>>
      \/ /\ header.type # PADDING_MSG_TYPE_ID
         /\ handed' = Append(handed,
              [id |-> header.type,
               body |-> [k \in 1 .. (header.length - 1) |->
                           IF index + k < C THEN buffer[index + k] ELSE Zero]])
         /\ reader' \in {"record", "zero"}
  BY DEF ReadRecord, RingInv, Reading, IndexOf, C
<1>3. At % C = index /\ At < Published
  BY <1>1, RecordFound
<1>4. PICK m \in 0 .. (Claimed - 1) : Mark(claims, At, m)
  BY <1>1, RecordFound
<1>5. header = buffer[At % C] /\ index = At % C
  BY <1>3
<1>6. index = (head % C) + bytesRead
  OBVIOUS
<1> HIDE DEF header, index
<1>7. /\ C \in Nat \ {0} /\ head \in Nat /\ bytesRead \in Nat /\ At = head + bytesRead /\ At \in Nat
      /\ head % C \in 0 .. (C - 1) /\ Claimed \in Nat /\ Published \in Nat /\ Published <= head + C
      /\ Gone = head /\ head <= At
  BY <1>1, Facts, PublishedFacts, PlaceInBuffer DEF At, Gone
<1>8. claims \in Seq(ClaimRecord) /\ Chain(claims)
  BY Facts DEF RingInv
<1> DEFINE b == Begin(claims, m + 1)
           a == claims[m + 1].at
           e == claims[m + 1].end
           i == claims[m + 1].id
<1>9. m \in Nat /\ m + 1 \in 1 .. Claimed /\ m + 1 \in 1 .. (Claimed + 1) /\ m < Claimed
      /\ m \in 0 .. Claimed /\ m + 1 \in 0 .. Claimed /\ m + 2 \in 1 .. (Claimed + 1)
  BY <1>7
<1>10. /\ a \in Nat /\ e \in Nat /\ b \in Nat /\ i \in 1 .. MaxWrites
       /\ b <= a /\ a < e /\ (a % C) + (e - a) <= C
       /\ a # b => a - b = C - (b % C)
  <2>1. a \in Nat /\ e \in Nat /\ i \in 1 .. MaxWrites
    BY <1>8, <1>9, ClaimFields DEF Claimed
  <2>2. b \in Nat
    BY <1>8, <1>9, BeginIsNat DEF Claimed
  <2>3. Lies(claims, m + 1)
    BY <1>8, <1>9 DEF Chain, Claimed
  <2>4. QED
    BY <2>1, <2>2, <2>3 DEF Lies
<1>11. /\ b < Published => a <= Published
       /\ a < Published => e <= Published
  BY <1>9, PublishedWhole
<1>12. At = b \/ At = a
  BY <1>4 DEF Mark
<1>13. Passed = m
  <2>1. Passed = PassedOf(claims, Consumed)
    BY DEF Passed, PassedOf
  <2>2. QED
    BY <1>4, <1>7, <1>8, <1>9, <2>1, ConsumedIsAt, PassedIs DEF Claimed
<1>14. CASE At = b /\ a # b
  <2>1. buffer[At % C] = makeHeader(a - b, PADDING_MSG_TYPE_ID)
    <3>1. Gone <= b /\ b < a /\ a <= Published
      BY <1>3, <1>7, <1>10, <1>11, <1>14
    <3>2. Cell(b) = makeHeader(a - b, PADDING_MSG_TYPE_ID)
      BY <1>9, <3>1 DEF RingInv, Contents, Paddings
    <3>3. QED
      BY <1>14, <3>2 DEF Cell
  <2>2. header.type = PADDING_MSG_TYPE_ID /\ header.length = a - b
    BY <1>5, <2>1 DEF makeHeader
  <2>3. bytesRead' = bytesRead + (a - b) /\ reader' = "record" /\ handed' = handed
    BY <1>1, <1>2, <2>2
  <2>4. head + bytesRead' = a /\ bytesRead' \in Nat /\ head + bytesRead' <= Published
    BY <1>3, <1>7, <1>10, <1>11, <1>14, <2>3
  <2>5. (head % C) + bytesRead' <= C
    <3>1. a - b = C - index
      BY <1>3, <1>10, <1>14
    <3>2. QED
      BY <1>6, <1>7, <2>3, <3>1
  <2>6. Mark(claims, head + bytesRead', m)
    BY <1>9, <2>4 DEF Mark, Claimed
  <2>7. handed' \in Seq(Whole)
    BY <2>3 DEF RingInv, BufferType
  <2>8. RingInv' /\ Consumed' = a
    BY <1>1, <1>9, <2>3, <2>4, <2>5, <2>6, <2>7, ReadsOn
  <2>9. Passed' = m
    <3>1. Passed' = PassedOf(claims, a)
      BY <2>8 DEF Passed, PassedOf
    <3>2. QED
      BY <1>8, <1>9, <1>10, <2>4, <2>6, <3>1, PassedIs DEF Claimed
  <2>10. UNCHANGED Queue!vars
    BY <1>13, <2>3, <2>9 DEF Queue!vars
  <2>11. QED
    BY <2>8, <2>10
<1>15. CASE At = a
  <2>1. e <= Published /\ Gone <= a
    BY <1>3, <1>7, <1>11, <1>15
  <2>2. ASSUME NEW k \in 0 .. (e - a - 1)
        PROVE  buffer[index + k] = (IF k = 0 THEN makeHeader(e - a, i) ELSE MsgUnit(i)) /\ index + k < C
    <3>1. Cell(a + k) = Recorded(m + 1, k)
      BY <1>9, <2>1 DEF RingInv, Contents, Records
    <3>2. index = a % C /\ index \in 0 .. (C - 1)
      BY <1>3, <1>7, <1>15, PlaceInBuffer
    <3>3. (a % C) + k < C /\ k \in 0 .. (C - 1)
      BY <1>7, <1>10, <3>2
    <3>4. (a + k) % C = (a % C) + k
      <4>1. (a + k) % C = IF (a % C) + k < C THEN (a % C) + k ELSE (a % C) + k - C
        BY <1>7, <1>10, <3>3, PlaceAfter
      <4>2. QED
        BY <3>3, <4>1
    <3>5. QED
      BY <3>1, <3>2, <3>3, <3>4 DEF Cell, Recorded
  <2>3. header.type = i /\ header.length = e - a
    <3>1. 0 \in 0 .. (e - a - 1) /\ index + 0 = index
      BY <1>10, <1>6, <1>7
    <3>2. buffer[index] = makeHeader(e - a, i)
      BY <2>2, <3>1
    <3>3. QED
      BY <1>3, <1>5, <3>2 DEF makeHeader
  <2>4. i # PADDING_MSG_TYPE_ID
    BY <1>10 DEF PADDING_MSG_TYPE_ID
  <2> DEFINE given == [id |-> i, body |-> [k \in 1 .. (e - a - 1) |-> MsgUnit(i)]]
  <2>5. handed' = Append(handed, given) /\ reader' \in {"record", "zero"}
    <3>1. handed' = Append(handed,
            [id |-> i, body |-> [k \in 1 .. (e - a - 1) |->
                                   IF index + k < C THEN buffer[index + k] ELSE Zero]])
          /\ reader' \in {"record", "zero"}
      BY <1>2, <2>3, <2>4
    <3>2. [k \in 1 .. (e - a - 1) |-> IF index + k < C THEN buffer[index + k] ELSE Zero]
            = [k \in 1 .. (e - a - 1) |-> MsgUnit(i)]
      <4>1. ASSUME NEW k \in 1 .. (e - a - 1)
            PROVE  (IF index + k < C THEN buffer[index + k] ELSE Zero) = MsgUnit(i)
        <5>1. k \in 0 .. (e - a - 1) /\ k # 0
          BY <1>10
        <5>2. QED
          BY <2>2, <5>1
      <4>2. QED
        BY <4>1
    <3>3. QED
      BY <3>1, <3>2
  <2>6. given \in Whole
    <3>1. e - a - 1 \in Nat /\ i \in 1 .. MaxWrites
      BY <1>10
    <3>2. \E j \in 1 .. MaxWrites, n \in Nat : given = [id |-> j, body |-> [k \in 1 .. n |-> MsgUnit(j)]]
      BY <3>1, Zenon
    <3>3. QED
      BY <3>2 DEF Whole
  <2>7. handed \in Seq(Whole)
    BY DEF RingInv, BufferType
  <2>8. given.id = i
    OBVIOUS
  <2> HIDE DEF given
  <2>9. handed' \in Seq(Whole)
    BY <2>5, <2>6, <2>7
  <2>10. bytesRead' = bytesRead + (e - a)
    BY <1>1, <2>3
  <2>11. head + bytesRead' = e /\ bytesRead' \in Nat /\ head + bytesRead' <= Published
    BY <1>7, <1>10, <1>15, <2>1, <2>10
  <2>12. (head % C) + bytesRead' <= C
    BY <1>3, <1>6, <1>7, <1>10, <1>15, <2>10
  <2>13. Mark(claims, head + bytesRead', m + 1)
    <3>1. Begin(claims, (m + 1) + 1) = e
      BY <1>9 DEF Begin
    <3>2. QED
      BY <2>11, <3>1 DEF Mark
  <2>14. RingInv' /\ Consumed' = e
    BY <1>1, <1>9, <2>5, <2>9, <2>11, <2>12, <2>13, ReadsOn
  <2>15. Passed' = m + 1
    <3>1. Passed' = PassedOf(claims, e)
      BY <2>14 DEF Passed, PassedOf
    <3>2. QED
      BY <1>8, <1>9, <1>10, <2>11, <2>13, <3>1, PassedIs DEF Claimed
  <2>16. claims[m + 1].state = "done"
    <3>1. claims[m + 1].state \in {"open", "done"}
      BY <1>8, <1>9, ClaimFields DEF Claimed
    <3>2. SUFFICES ASSUME claims[m + 1].state = "open" PROVE FALSE
      BY <3>1
    <3>3. m + 1 = Claimed /\ pc \in {"pad", "bytes", "header"}
      BY <1>9, <3>2 DEF RingInv, Producing
    <3>4. Published <= Last.at /\ Last.at = a
      <4>1. Last.at = a
        BY <3>3 DEF Last
      <4>2. tail <= Last.at
        BY <3>3, Facts DEF Writing
      <4>3. Published \in {tail, Last.at}
        BY <3>3 DEF Published, Deciding
      <4>4. QED
        BY <1>10, <4>1, <4>2, <4>3
    <3>5. QED
      BY <1>7, <1>10, <2>1, <3>4
  <2>17. Queue!Take
    <3> DEFINE Ids(hs) == [n \in DOMAIN hs |-> hs[n].id]
    <3>1. Ids(handed') = Append(Ids(handed), i)
      <4>1. /\ Len(handed') = Len(handed) + 1 /\ handed'[Len(handed) + 1] = given /\ Len(handed) \in Nat
            /\ \A n \in 1 .. Len(handed) : handed'[n] = handed[n]
            /\ DOMAIN handed = 1 .. Len(handed) /\ DOMAIN handed' = 1 .. (Len(handed) + 1)
        BY <2>5, <2>6, <2>7
      <4>2. Ids(handed) = [n \in 1 .. Len(handed) |-> handed[n].id]
        BY <4>1
      <4>3. \A n \in 1 .. Len(handed) : handed[n].id \in 1 .. MaxWrites
        BY <2>7 DEF Whole
      <4>4. Ids(handed) \in Seq(1 .. MaxWrites) /\ Len(Ids(handed)) = Len(handed)
        BY <4>1, <4>2, <4>3
      <4>5. Append(Ids(handed), i) =
              [n \in 1 .. (Len(handed) + 1) |-> IF n = Len(handed) + 1 THEN i ELSE handed[n].id]
        BY <1>10, <4>1, <4>2, <4>4
      <4>6. Ids(handed') = [n \in 1 .. (Len(handed) + 1) |-> handed'[n].id]
        BY <4>1
      <4>7. ASSUME NEW n \in 1 .. (Len(handed) + 1)
            PROVE  handed'[n].id = IF n = Len(handed) + 1 THEN i ELSE handed[n].id
        BY <2>8, <4>1
      <4>8. QED
        BY <4>5, <4>6, <4>7
    <3>2. /\ Len(Seen(claims)) = Claimed
          /\ Seen(claims)[m + 1] = [id |-> i, state |-> "done"]
      <4>1. DOMAIN claims = 1 .. Claimed
        BY <1>8 DEF Claimed
      <4>2. Seen(claims) = [j \in 1 .. Claimed |-> [id |-> claims[j].id, state |-> claims[j].state]]
        BY <4>1 DEF Seen
      <4>3. QED
        BY <1>7, <1>9, <2>16, <4>2
    <3>3. m + 1 \in (Passed + 1) .. Len(Seen(claims)) /\ \A j \in (Passed + 1) .. ((m + 1) - 1) : FALSE
      BY <1>7, <1>9, <1>13, <3>2
    <3> HIDE DEF Ids
    <3>4. Queue!Take <=>
            /\ \E n \in (Passed + 1) .. Len(Seen(claims)) :
                 /\ \A j \in (Passed + 1) .. (n - 1) : Seen(claims)[j].state = "void"
                 /\ Seen(claims)[n].state # "open"
                 /\ Passed' = n
                 /\ Ids(handed') = IF Seen(claims)[n].state = "done"
                                   THEN Append(Ids(handed), Seen(claims)[n].id) ELSE Ids(handed)
            /\ Seen(claims') = Seen(claims)
      BY DEF Queue!Take, Seen, Ids
    <3>5. /\ Seen(claims)[m + 1].state = "done" /\ Seen(claims)[m + 1].id = i
          /\ Seen(claims') = Seen(claims)
      BY <3>2
    <3>6. QED
      BY <2>15, <3>1, <3>3, <3>4, <3>5, Zenon
  <2>18. QED
    BY <2>14, <2>17
<1>16. QED
  BY <1>12, <1>14, <1>15

-----------------------------------------------------------------------------
LEMMA ConsumerSteps ==
  ASSUME RingBufferAssumption, RingInv, Consumer
  PROVE  RingInv' /\ [Queue!Next]_(Queue!vars)
<1>1. UNCHANGED producerVars /\ UNCHANGED sizeVars /\ claims' = claims
  BY DEF Consumer
<1>2. CASE ReadBegin \/ ReadStops
  BY <1>1, <1>2, QuietReads
<1>3. CASE ReadRecord
  BY <1>1, <1>3, RecordStep DEF Queue!Next
<1>4. CASE ReadZero
  BY <1>1, <1>4, ZeroStep
<1>5. CASE ReadHead
  BY <1>1, <1>5, HeadStep
<1>6. QED
  BY <1>2, <1>3, <1>4, <1>5 DEF Consumer, read

LEMMA Stutters ==
  ASSUME RingInv, UNCHANGED vars
  PROVE  RingInv' /\ UNCHANGED Queue!vars
<1>1. /\ buffer' = buffer /\ tail' = tail /\ headCache' = headCache /\ head' = head
      /\ reader' = reader /\ rHead' = rHead /\ bytesRead' = bytesRead /\ handed' = handed
      /\ pc' = pc /\ msg' = msg /\ req' = req /\ ids' = ids /\ claims' = claims
      /\ UNCHANGED sizeVars
  BY DEF vars, memory, readerVars, producerVars
<1>2. Claimed' = Claimed /\ Last' = Last /\ At' = At /\ Padding' = Padding
  BY <1>1 DEF Claimed, Last, At, Padding, IndexOf
<1>3. Published' = Published /\ Gone' = Gone
  BY <1>1, <1>2 DEF Published, Gone
<1>4. BufferType' /\ Chain(claims)' /\ Producing' /\ Room' /\ Reading'
  BY <1>1, <1>2, <1>3 DEF RingInv, BufferType, Chain, Lies, Begin, Producing, Room, Reading, Mark
<1>5. Contents'
  BY <1>1, <1>2, <1>3 DEF RingInv, Contents, Records, Paddings, Blank, Cell, Recorded, Begin,
                          Unpublished
<1>6. Sizing'
  BY <1>1 DEF RingInv, Sizing, SizeWasTrue, Clamp, sizeVars
<1>7. UNCHANGED Queue!vars
  BY <1>1, QueueKeeps DEF Consumed
<1>8. QED
  BY <1>4, <1>5, <1>6, <1>7 DEF RingInv

LEMMA RingSteps ==
  ASSUME RingBufferAssumption, RingInv, [Next]_vars
  PROVE  RingInv' /\ [Queue!Next]_(Queue!vars)
BY ProducerSteps, ConsumerSteps, SizeSteps, Stutters DEF Next, Quiet

LEMMA RingSound ==
  ASSUME RingBufferAssumption, RingInv
  PROVE  TypeOK /\ NeverOverrun /\ NoTornMessage /\ SizeWasTrue
<1>1. C \in Nat \ {0} /\ head \in Nat /\ tail \in Nat /\ req \in Nat /\ tail <= head + C
  BY Facts DEF RingInv, Room
<1>2. ASSUME pc \in Writing PROVE tail + req + Padding - head <= Capacity
  <2>1. /\ Last.end = Last.at + req /\ Last.at = tail + Padding /\ Padding \in Int
    BY <1>2, RecordPlace
  <2>2. Last.end <= head + C
    BY <1>2, Facts
  <2>3. QED
    BY <1>1, <2>1, <2>2 DEF C
<1>3. NeverOverrun
  BY <1>1, <1>2 DEF NeverOverrun, Writing, C
<1>4. NoTornMessage
  <2> SUFFICES ASSUME NEW n \in DOMAIN handed, NEW k \in DOMAIN handed[n].body
               PROVE  handed[n].body[k] = MsgUnit(handed[n].id)
    BY DEF NoTornMessage
  <2>1. handed[n] \in Whole
    BY DEF RingInv, BufferType
  <2>2. PICK j \in 1 .. MaxWrites, l \in Nat :
          handed[n] = [id |-> j, body |-> [x \in 1 .. l |-> MsgUnit(j)]]
    BY <2>1 DEF Whole
  <2>3. QED
    BY <2>2
<1>5. TypeOK
  <2>1. head % C \in 0 .. (C - 1) /\ bytesRead \in Nat /\ (head % C) + bytesRead <= C
    BY <1>1, PlaceInBuffer DEF RingInv, Reading, BufferType
  <2>2. bytesRead \in 0 .. C
    BY <1>1, <2>1
  <2>3. QED
    BY <2>2 DEF RingInv, BufferType, Sizing, TypeOK, Deciding, Writing, C
<1>6. QED
  BY <1>3, <1>4, <1>5 DEF RingInv, Sizing

(* The ring buffer of one producer and one consumer is a ClaimQueue: the   *)
(* messages that write() accepts are handed to the consumer once each, in  *)
(* order and complete, although the consumer runs ahead of the tail, the   *)
(* producer decides on a head it cached, and a record that does not fit    *)
(* before the end of the buffer starts over behind padding                 *)
(* (OneToOneRingBuffer::write, read).                                      *)
THEOREM OneToOneImplements ==
  ASSUME RingBufferAssumption
  PROVE  Spec => QueueSpec
<1>1. Init => RingInv /\ Queue!Init
  BY RingInvInit
<1>2. RingInv /\ [Next]_vars => RingInv' /\ [Queue!Next]_(Queue!vars)
  BY RingSteps
<1>3. QED
  BY <1>1, <1>2, PTL DEF Spec, QueueSpec, Queue!Spec

(* The positions and the cells are what their types say, the producer      *)
(* never writes over what the consumer has yet to read, every message the  *)
(* handler is given is whole, and the answer of size() is what the buffer  *)
(* held at one moment of the call (OneToOneRingBuffer::write, read, size). *)
THEOREM OneToOneSound ==
  ASSUME RingBufferAssumption
  PROVE  Spec => [](TypeOK /\ NeverOverrun /\ NoTornMessage /\ SizeWasTrue)
<1>1. Init => RingInv
  BY RingInvInit
<1>2. RingInv /\ [Next]_vars => RingInv'
  BY RingSteps
<1>3. RingInv => TypeOK /\ NeverOverrun /\ NoTornMessage /\ SizeWasTrue
  BY RingSound
<1>4. QED
  BY <1>1, <1>2, <1>3, PTL DEF Spec

-----------------------------------------------------------------------------
(* The ring buffer of many producers.  Its claims lie end to end as those  *)
(* of the other one and cover all positions; several of them are open.     *)

Wrapping == {"head2", "cache1", "cache2", "cas"}

ManyClaimRecord == [id : 1 .. MaxWrites, by : Producers, state : {"open", "done", "void"},
                at : Nat, end : Nat]

(* A position of a claim. *)
Within(cs, j, q) == Begin(cs, j) <= q /\ q < cs[j].end

(* Every position that was claimed belongs to a claim. *)
Covered(cs) ==
  \A q \in Start .. (Begin(cs, Len(cs) + 1) - 1) : \E j \in 1 .. Len(cs) : Within(cs, j, q)

ManyWhole == {[id |-> i, body |-> [k \in 1 .. n |-> M!MsgUnit(i)]] : i \in 1 .. MaxWrites, n \in Nat}

Locals ==
  /\ pc \in [Producers -> M!Steps] /\ msg \in [Producers -> Nat] /\ req \in [Producers -> Nat]
  /\ pHead \in [Producers -> Nat] /\ pTail \in [Producers -> Nat] /\ pad \in [Producers -> Nat]
  /\ ids \in Nat

ManyBufferType ==
  /\ buffer \in [0 .. (C - 1) -> M!Cells]
  /\ tail \in Nat /\ headCache \in Nat /\ head \in Nat
  /\ reader \in {"idle", "record", "zero", "head"} /\ rHead \in Nat /\ bytesRead \in Nat
  /\ Locals
  /\ ub \in {"idle", "length", "scan", "back", "store"} /\ ubScan \in Int
  /\ claims \in Seq(ManyClaimRecord) /\ handed \in Seq(ManyWhole)

(* What a producer knows: a head that is not in front of the true one, and *)
(* room for its record behind that head once it has checked.               *)
Knows(p) ==
  /\ pc[p] \notin {"idle", "dead"} => req[p] > 0 /\ msg[p] \in 1 .. MaxWrites /\ pHead[p] <= head
  /\ pc[p] \in Wrapping => pTail[p] + req[p] <= pHead[p] + C
  /\ pc[p] \in {"cas", "cache2"} => ~(req[p] > C - (pTail[p] % C) /\ req[p] > pHead[p] % C)
  /\ pc[p] \in M!Writing => \E i \in 1 .. Claimed : claims[i].by = p /\ claims[i].state = "open"

(* An open claim is the one its producer is writing, in front of the       *)
(* consumer.                                                               *)
Owned(i) ==
  claims[i].state = "open" =>
    LET p == claims[i].by
    IN  /\ pc[p] \in M!Writing
        /\ Begin(claims, i) = pTail[p] /\ claims[i].at = pTail[p] + pad[p]
        /\ claims[i].end = claims[i].at + req[p] /\ claims[i].id = msg[p]
        /\ At <= claims[i].at
        /\ pc[p] = "pad" => pad[p] > 0 /\ At <= pTail[p]

ManyProducing ==
  /\ \A p \in Producers : Knows(p)
  /\ \A i \in 1 .. Claimed : Owned(i)
  /\ \A i, j \in 1 .. Claimed :
       claims[i].state = "open" /\ claims[j].state = "open" /\ claims[i].by = claims[j].by => i = j

ManyRoom ==
  /\ Begin(claims, Claimed + 1) = tail
  /\ headCache <= head /\ At <= tail /\ tail <= head + C

(* How far the writing of a claim has come. *)
Stage(i) == IF claims[i].state = "open" THEN pc[claims[i].by] ELSE claims[i].state
Size(i) == claims[i].end - claims[i].at

Written(i, k) ==
  IF k = 0
  THEN IF Stage(i) = "done" THEN M!makeHeader(Size(i), claims[i].id)
       ELSE IF Stage(i) \in {"bytes", "length"} THEN M!makeHeader(-Size(i), claims[i].id) ELSE M!Zero
  ELSE IF Stage(i) \in {"done", "length"} THEN M!MsgUnit(claims[i].id) ELSE M!Zero

(* A record whose producer died: its header is there, or nothing is, or    *)
(* unblock() has made it padding, alone or with abandoned records behind   *)
(* it.                                                                     *)
Abandoned(i) ==
  \/ Cell(claims[i].at).length = -Size(i)
  \/ \A k \in 0 .. (Size(i) - 1) : Cell(claims[i].at + k) = M!Zero
  \/ \E j \in i .. Claimed :
       /\ Cell(claims[i].at) = M!makeHeader(claims[j].end - claims[i].at, M!PADDING_MSG_TYPE_ID)
       /\ (claims[i].at % C) + (claims[j].end - claims[i].at) <= C
       /\ \A k \in i .. j : claims[k].state = "void"

ManyRecorded(i) ==
  Gone <= claims[i].at =>
    IF Stage(i) = "void" THEN Abandoned(i)
    ELSE \A k \in 0 .. (Size(i) - 1) : Cell(claims[i].at + k) = Written(i, k)

(* The padding in front of a record; a producer may die before it. *)
Padded(i) ==
  Gone <= Begin(claims, i) /\ Begin(claims, i) < claims[i].at =>
    \/ /\ Stage(i) # "pad"
       /\ Cell(Begin(claims, i)) =
            M!makeHeader(claims[i].at - Begin(claims, i), M!PADDING_MSG_TYPE_ID)
    \/ Stage(i) \in {"pad", "void"} /\ Cell(Begin(claims, i)) = M!Zero

ManyBlank ==
  /\ \A p \in tail .. (head + C - 1) : Cell(p) = M!Zero
  /\ \A p \in head .. (Gone - 1) : Cell(p) = M!Zero

ManyContents == (\A i \in 1 .. Claimed : ManyRecorded(i) /\ Padded(i)) /\ ManyBlank

(* unblock() works at the head, between two reads. *)
Unblocking == ub # "idle" => reader = "idle" /\ ubHead = head

ManyRingInv ==
  /\ ManyBufferType /\ Chain(claims) /\ Covered(claims)
  /\ ManyProducing /\ ManyRoom /\ Reading /\ ManyContents /\ Unblocking
-----------------------------------------------------------------------------
(* Claims. *)

LEMMA ManyClaimFields ==
  ASSUME NEW cs \in Seq(ManyClaimRecord), NEW i \in 1 .. Len(cs)
  PROVE  /\ cs[i] \in ManyClaimRecord /\ cs[i].at \in Nat /\ cs[i].end \in Nat
         /\ cs[i].id \in 1 .. MaxWrites /\ cs[i].state \in {"open", "done", "void"}
         /\ cs[i].by \in Producers
<1>1. cs[i] \in ManyClaimRecord
  OBVIOUS
<1>2. QED
  BY <1>1 DEF ManyClaimRecord

LEMMA ManyBeginIsNat ==
  ASSUME M!RingBufferAssumption, NEW cs \in Seq(ManyClaimRecord), NEW i \in 1 .. (Len(cs) + 1)
  PROVE  Begin(cs, i) \in Nat
<1>1. CASE i = 1
  BY <1>1 DEF Begin, M!RingBufferAssumption
<1>2. CASE i # 1
  <2>1. i - 1 \in 1 .. Len(cs)
    BY <1>2
  <2>2. QED
    BY <1>2, <2>1, ManyClaimFields DEF Begin
<1>3. QED
  BY <1>1, <1>2

(* The claims that end where the consumer stands are those behind it. *)
LEMMA ManyEndedIs ==
  ASSUME M!RingBufferAssumption, NEW cs \in Seq(ManyClaimRecord), Chain(cs), NEW a \in Nat,
         NEW m \in 0 .. Len(cs), Mark(cs, a, m), NEW i \in 1 .. Len(cs)
  PROVE  cs[i].end <= a <=> i <= m
<1>1. m + 1 \in 1 .. (Len(cs) + 1) /\ Len(cs) \in Nat
  OBVIOUS
<1>2. Begin(cs, m + 1) \in Nat /\ cs[i].end \in Nat /\ cs[i].at \in Nat
  BY <1>1, ManyBeginIsNat, ManyClaimFields
<1>3. Begin(cs, m + 1) <= a /\ (m < Len(cs) => a <= cs[m + 1].at)
  <2>1. CASE m = Len(cs)
    BY <1>2, <2>1 DEF Mark
  <2>2. CASE m < Len(cs)
    <3>1. m + 1 \in 1 .. Len(cs)
      BY <2>2
    <3>2. Begin(cs, m + 1) <= cs[m + 1].at /\ cs[m + 1].at \in Nat
      BY <3>1, ManyClaimFields DEF Chain, Lies
    <3>3. QED
      BY <1>2, <2>2, <3>2 DEF Mark
  <2>3. QED
    BY <2>1, <2>2
<1>4. ASSUME i <= m PROVE cs[i].end <= a
  <2>1. i < m + 1
    BY <1>4
  <2>2. cs[i].end <= Begin(cs, m + 1)
    BY <1>1, <2>1 DEF Chain
  <2>3. QED
    BY <1>2, <1>3, <2>2
<1>5. ASSUME i > m PROVE cs[i].end > a
  <2>1. m < Len(cs) /\ m + 1 \in 1 .. Len(cs)
    BY <1>5
  <2>2. /\ cs[m + 1].at < cs[m + 1].end /\ cs[m + 1].at \in Nat /\ cs[m + 1].end \in Nat
        /\ cs[i].at < cs[i].end /\ Begin(cs, i) <= cs[i].at
    BY <2>1, ManyClaimFields DEF Chain, Lies
  <2>3. CASE i = m + 1
    BY <1>3, <2>1, <2>2, <2>3
  <2>4. CASE i > m + 1
    <3>1. cs[m + 1].end <= Begin(cs, i) /\ Begin(cs, i) \in Nat
      BY <2>1, <2>4, ManyBeginIsNat DEF Chain
    <3>2. QED
      BY <1>2, <1>3, <2>1, <2>2, <3>1
  <2>5. QED
    BY <1>5, <2>3, <2>4
<1>6. QED
  BY <1>2, <1>4, <1>5

ManyPassedOf(cs, a) ==
  LET Ended == {i \in DOMAIN cs : cs[i].end <= a}
  IN  IF Ended = {} THEN 0 ELSE CHOOSE n \in Ended : \A i \in Ended : i <= n

LEMMA ManyPassedIs ==
  ASSUME M!RingBufferAssumption, NEW cs \in Seq(ManyClaimRecord), Chain(cs), NEW a \in Nat,
         NEW m \in 0 .. Len(cs), Mark(cs, a, m)
  PROVE  ManyPassedOf(cs, a) = m
<1> DEFINE E == {i \in DOMAIN cs : cs[i].end <= a}
<1>1. E = 1 .. m
  <2>1. DOMAIN cs = 1 .. Len(cs) /\ Len(cs) \in Nat
    OBVIOUS
  <2>2. \A i \in 1 .. Len(cs) : cs[i].end <= a <=> i <= m
    BY ManyEndedIs
  <2>3. QED
    BY <2>1, <2>2
<1>2. ManyPassedOf(cs, a) = IF E = {} THEN 0 ELSE CHOOSE n \in E : \A i \in E : i <= n
  BY DEF ManyPassedOf
<1> HIDE DEF E
<1>3. CASE m = 0
  BY <1>1, <1>2, <1>3
<1>4. CASE m > 0
  <2>1. m \in E /\ \A i \in E : i <= m
    BY <1>1, <1>4
  <2>2. \A n \in E : (\A i \in E : i <= n) => n = m
    BY <1>1, <2>1
  <2>3. QED
    BY <1>2, <2>1, <2>2
<1>5. QED
  BY <1>3, <1>4

(* A claim more, from a position t on. *)
ManyFollows(t, e) ==
  /\ t <= e.at /\ e.at < e.end
  /\ (e.at % C) + (e.end - e.at) <= C
  /\ e.at # t => e.at % C = 0 /\ e.at - t = C - (t % C)

LEMMA ManyChainGrows ==
  ASSUME M!RingBufferAssumption, NEW cs \in Seq(ManyClaimRecord), Chain(cs), NEW e \in ManyClaimRecord,
         Begin(cs, Len(cs) + 1) \in Nat, ManyFollows(Begin(cs, Len(cs) + 1), e),
         NEW ds \in Seq(ManyClaimRecord), ds = Append(cs, e)
  PROVE  /\ ds \in Seq(ManyClaimRecord) /\ Len(ds) = Len(cs) + 1 /\ ds[Len(cs) + 1] = e
         /\ \A i \in 1 .. Len(cs) : ds[i] = cs[i]
         /\ \A i \in 1 .. (Len(cs) + 1) : Begin(ds, i) = Begin(cs, i)
         /\ Chain(ds)
<1> DEFINE t == Begin(cs, Len(cs) + 1)
<1>0. /\ t \in Nat /\ t <= e.at /\ e.at < e.end
      /\ (e.at % C) + (e.end - e.at) <= C
      /\ e.at # t => e.at % C = 0 /\ e.at - t = C - (t % C)
  BY DEF ManyFollows
<1>1. /\ ds \in Seq(ManyClaimRecord) /\ Len(ds) = Len(cs) + 1 /\ ds[Len(cs) + 1] = e
      /\ \A i \in 1 .. Len(cs) : ds[i] = cs[i]
      /\ Len(cs) \in Nat
  OBVIOUS
<1>2. ASSUME NEW i \in 1 .. (Len(cs) + 1) PROVE Begin(ds, i) = Begin(cs, i)
  <2>1. CASE i = 1
    BY <2>1 DEF Begin
  <2>2. CASE i # 1
    <3>1. i - 1 \in 1 .. Len(cs)
      BY <1>1, <2>2
    <3>2. QED
      BY <1>1, <2>2, <3>1 DEF Begin
  <2>3. QED
    BY <2>1, <2>2
<1>3. Begin(ds, Len(cs) + 2) = e.end
  BY <1>1 DEF Begin
<1>4. e.at \in Nat /\ e.end \in Nat
  BY DEF ManyClaimRecord
<1>5. ASSUME NEW i \in 1 .. Len(ds) PROVE Lies(ds, i)
  <2>1. CASE i = Len(cs) + 1
    <3>1. Begin(ds, i) = t /\ ds[i] = e
      BY <1>1, <1>2, <2>1
    <3>2. QED
      BY <1>0, <3>1 DEF Lies
  <2>2. CASE i # Len(cs) + 1
    <3>1. i \in 1 .. Len(cs) /\ i \in 1 .. (Len(cs) + 1)
      BY <1>1, <2>2
    <3>2. ds[i] = cs[i] /\ Begin(ds, i) = Begin(cs, i) /\ Lies(cs, i)
      BY <1>1, <1>2, <3>1 DEF Chain
    <3>3. QED
      BY <3>2 DEF Lies
  <2>3. QED
    BY <2>1, <2>2
<1>6. ASSUME NEW i \in 1 .. Len(ds), NEW j \in 1 .. (Len(ds) + 1), i < j
      PROVE  ds[i].end <= Begin(ds, j)
  <2>1. CASE j = Len(cs) + 2 /\ i = Len(cs) + 1
    BY <1>1, <1>3, <1>4, <2>1
  <2>2. CASE j = Len(cs) + 2 /\ i # Len(cs) + 1
    <3>1. i \in 1 .. Len(cs) /\ Len(cs) + 1 \in 1 .. (Len(cs) + 1) /\ i < Len(cs) + 1
      BY <1>1, <2>2
    <3>2. cs[i].end <= t /\ cs[i].end \in Nat
      BY <3>1, ManyClaimFields DEF Chain
    <3>3. QED
      BY <1>0, <1>1, <1>3, <1>4, <2>2, <3>1, <3>2
  <2>3. CASE j # Len(cs) + 2
    <3>1. i \in 1 .. Len(cs) /\ j \in 1 .. (Len(cs) + 1)
      BY <1>1, <1>6, <2>3
    <3>2. QED
      BY <1>1, <1>2, <1>6, <3>1 DEF Chain
  <2>4. QED
    BY <2>1, <2>2, <2>3
<1>7. QED
  BY <1>1, <1>2, <1>5, <1>6 DEF Chain

(* The state of a claim does not matter to its positions. *)
LEMMA ManyChainStays ==
  ASSUME M!RingBufferAssumption, NEW cs \in Seq(ManyClaimRecord), NEW ds \in Seq(ManyClaimRecord),
         Len(ds) = Len(cs),
         \A i \in 1 .. Len(cs) : ds[i].at = cs[i].at /\ ds[i].end = cs[i].end
  PROVE  /\ \A i \in 1 .. (Len(cs) + 1) : Begin(ds, i) = Begin(cs, i)
         /\ Chain(cs) => Chain(ds)
<1>1. ASSUME NEW i \in 1 .. (Len(cs) + 1) PROVE Begin(ds, i) = Begin(cs, i)
  <2>1. CASE i = 1
    BY <2>1 DEF Begin
  <2>2. CASE i # 1
    <3>1. i - 1 \in 1 .. Len(cs)
      BY <2>2
    <3>2. QED
      BY <2>2, <3>1 DEF Begin
  <2>3. QED
    BY <2>1, <2>2
<1>2. ASSUME Chain(cs) PROVE Chain(ds)
  <2>1. ASSUME NEW i \in 1 .. Len(ds) PROVE Lies(ds, i)
    <3>1. i \in 1 .. Len(cs) /\ i \in 1 .. (Len(cs) + 1)
      OBVIOUS
    <3>2. Begin(ds, i) = Begin(cs, i) /\ Lies(cs, i) /\ ds[i].at = cs[i].at /\ ds[i].end = cs[i].end
      BY <1>1, <1>2, <3>1 DEF Chain
    <3>3. QED
      BY <3>2 DEF Lies
  <2>2. ASSUME NEW i \in 1 .. Len(ds), NEW j \in 1 .. (Len(ds) + 1), i < j
        PROVE  ds[i].end <= Begin(ds, j)
    BY <1>1, <1>2, <2>2 DEF Chain
  <2>3. QED
    BY <2>1, <2>2 DEF Chain
<1>3. QED
  BY <1>1, <1>2

LEMMA CoveredGrows ==
  ASSUME M!RingBufferAssumption, NEW cs \in Seq(ManyClaimRecord), Chain(cs), Covered(cs),
         NEW e \in ManyClaimRecord, Begin(cs, Len(cs) + 1) \in Nat, ManyFollows(Begin(cs, Len(cs) + 1), e),
         NEW ds \in Seq(ManyClaimRecord), ds = Append(cs, e)
  PROVE  Covered(ds)
<1>1. /\ Len(ds) = Len(cs) + 1 /\ ds[Len(cs) + 1] = e /\ Len(cs) \in Nat
      /\ \A i \in 1 .. Len(cs) : ds[i] = cs[i]
  OBVIOUS
<1>2. \A i \in 1 .. (Len(cs) + 1) : Begin(ds, i) = Begin(cs, i)
  BY ManyChainGrows, Zenon
<1>3. Begin(ds, Len(ds) + 1) = e.end
  BY <1>1 DEF Begin
<1>4. e.at \in Nat /\ e.end \in Nat /\ Start \in Nat
  BY DEF ManyClaimRecord, M!RingBufferAssumption
<1> SUFFICES ASSUME NEW q \in Start .. (e.end - 1)
             PROVE  \E j \in 1 .. Len(ds) : Within(ds, j, q)
  BY <1>3 DEF Covered
<1>5. CASE q < Begin(cs, Len(cs) + 1)
  <2>1. q \in Start .. (Begin(cs, Len(cs) + 1) - 1)
    BY <1>4, <1>5
  <2>2. PICK j \in 1 .. Len(cs) : Within(cs, j, q)
    BY <2>1 DEF Covered
  <2>3. j \in 1 .. Len(ds) /\ j \in 1 .. (Len(cs) + 1) /\ ds[j] = cs[j]
    BY <1>1
  <2>4. Within(ds, j, q)
    BY <1>2, <2>2, <2>3 DEF Within
  <2>5. QED
    BY <2>3, <2>4
<1>6. CASE Begin(cs, Len(cs) + 1) <= q
  <2>1. Len(cs) + 1 \in 1 .. Len(ds) /\ Len(cs) + 1 \in 1 .. (Len(cs) + 1)
    BY <1>1
  <2>2. q < e.end
    BY <1>4
  <2>3. Within(ds, Len(cs) + 1, q)
    BY <1>1, <1>2, <1>6, <2>1, <2>2 DEF Within
  <2>4. QED
    BY <2>1, <2>3
<1>7. QED
  BY <1>4, <1>5, <1>6

LEMMA CoveredStays ==
  ASSUME M!RingBufferAssumption, NEW cs \in Seq(ManyClaimRecord), NEW ds \in Seq(ManyClaimRecord),
         Len(ds) = Len(cs),
         \A i \in 1 .. Len(cs) : ds[i].at = cs[i].at /\ ds[i].end = cs[i].end,
         Covered(cs)
  PROVE  Covered(ds)
<1>1. \A i \in 1 .. (Len(cs) + 1) : Begin(ds, i) = Begin(cs, i)
  BY ManyChainStays, Zenon
<1>2. Len(cs) + 1 \in 1 .. (Len(cs) + 1) /\ \A j \in 1 .. Len(cs) : j \in 1 .. (Len(cs) + 1)
  OBVIOUS
<1>3. \A q : \A j \in 1 .. Len(cs) : Within(ds, j, q) <=> Within(cs, j, q)
  BY <1>1, <1>2 DEF Within
<1>4. Begin(ds, Len(ds) + 1) = Begin(cs, Len(cs) + 1)
  BY <1>1, <1>2
<1>5. QED
  BY <1>3, <1>4 DEF Covered

-----------------------------------------------------------------------------
(* What the invariant says, in the form the steps use. *)

LEMMA Numbers ==
  ASSUME M!RingBufferAssumption, ManyRingInv
  PROVE  /\ C \in Nat \ {0} /\ head \in Nat /\ tail \in Nat /\ headCache \in Nat /\ bytesRead \in Nat
         /\ At = head + bytesRead /\ At \in Nat /\ head <= At /\ At <= tail /\ tail <= head + C
         /\ Gone \in Nat /\ head <= Gone /\ Gone <= At /\ headCache <= head
         /\ Claimed \in Nat /\ MaxWrites \in Nat
<1>1. /\ C \in Nat \ {0} /\ head \in Nat /\ tail \in Nat /\ headCache \in Nat /\ bytesRead \in Nat
      /\ MaxWrites \in Nat
  BY DEF M!RingBufferAssumption, ManyRingInv, ManyBufferType, C
<1>2. At = head + bytesRead /\ At \in Nat /\ head <= At /\ At <= tail /\ tail <= head + C
      /\ headCache <= head
  BY <1>1 DEF At, ManyRingInv, ManyRoom
<1>3. Gone \in Nat /\ head <= Gone /\ Gone <= At
  BY <1>1, <1>2 DEF Gone
<1>4. Claimed \in Nat
  BY DEF ManyRingInv, ManyBufferType, Claimed
<1>5. QED
  BY <1>1, <1>2, <1>3, <1>4

LEMMA ClaimFacts ==
  ASSUME M!RingBufferAssumption, ManyRingInv, NEW i \in 1 .. Claimed
  PROVE  /\ claims[i] \in ManyClaimRecord /\ claims[i].at \in Nat /\ claims[i].end \in Nat
         /\ claims[i].id \in 1 .. MaxWrites /\ claims[i].by \in Producers
         /\ claims[i].state \in {"open", "done", "void"}
         /\ Begin(claims, i) \in Nat /\ Begin(claims, i) <= claims[i].at
         /\ claims[i].at < claims[i].end /\ claims[i].end <= tail
         /\ Size(i) = claims[i].end - claims[i].at /\ Size(i) \in Nat /\ Size(i) > 0
         /\ (claims[i].at % C) + Size(i) <= C
         /\ claims[i].at # Begin(claims, i) =>
              /\ claims[i].at % C = 0
              /\ claims[i].at - Begin(claims, i) = C - (Begin(claims, i) % C)
<1>1. claims \in Seq(ManyClaimRecord) /\ Claimed \in Nat
  BY Numbers DEF ManyRingInv, ManyBufferType
<1>2. i \in 1 .. Len(claims) /\ i \in 1 .. (Len(claims) + 1) /\ Claimed + 1 \in 1 .. (Len(claims) + 1)
      /\ i < Claimed + 1
  BY <1>1 DEF Claimed
<1>3. /\ claims[i] \in ManyClaimRecord /\ claims[i].at \in Nat /\ claims[i].end \in Nat
      /\ claims[i].id \in 1 .. MaxWrites /\ claims[i].by \in Producers
      /\ claims[i].state \in {"open", "done", "void"}
  BY <1>1, <1>2, ManyClaimFields
<1>4. Begin(claims, i) \in Nat
  BY <1>1, <1>2, ManyBeginIsNat
<1>5. Lies(claims, i)
  BY <1>2 DEF ManyRingInv, Chain
<1>6. claims[i].end <= tail
  BY <1>2 DEF ManyRingInv, Chain, ManyRoom
<1>7. Size(i) = claims[i].end - claims[i].at
  BY DEF Size
<1>8. QED
  BY <1>3, <1>4, <1>5, <1>6, <1>7 DEF Lies

(* Two claims lie one behind the other. *)
LEMMA ClaimOrder ==
  ASSUME M!RingBufferAssumption, ManyRingInv, NEW i \in 1 .. Claimed, NEW j \in 1 .. Claimed, i < j
  PROVE  claims[i].end <= Begin(claims, j)
<1>1. i \in 1 .. Len(claims) /\ j \in 1 .. (Len(claims) + 1)
  BY Numbers DEF Claimed
<1>2. QED
  BY <1>1 DEF ManyRingInv, Chain

LEMMA ManyPlaceInBuffer ==
  ASSUME M!RingBufferAssumption, NEW p \in Nat
  PROVE  p % C \in 0 .. (C - 1)
<1>1. C \in Nat \ {0}
  BY DEF M!RingBufferAssumption, C
<1>2. QED
  BY <1>1, Division

LEMMA OpenFacts ==
  ASSUME M!RingBufferAssumption, ManyRingInv, NEW i \in 1 .. Claimed, claims[i].state = "open",
         NEW p \in Producers, claims[i].by = p
  PROVE  /\ pc[p] \in M!Writing /\ Stage(i) = pc[p]
         /\ Begin(claims, i) = pTail[p] /\ claims[i].at = pTail[p] + pad[p]
         /\ claims[i].end = claims[i].at + req[p] /\ Size(i) = req[p] /\ claims[i].id = msg[p]
         /\ At <= claims[i].at
         /\ pc[p] = "pad" => pad[p] > 0 /\ At <= pTail[p]
         /\ M!RecordIndex(p) = claims[i].at % C
         /\ req[p] \in Nat /\ pTail[p] \in Nat /\ pad[p] \in Nat /\ msg[p] \in Nat
<1>1. Owned(i)
  BY DEF ManyRingInv, ManyProducing
<1>2. req[p] \in Nat /\ pTail[p] \in Nat /\ pad[p] \in Nat /\ msg[p] \in Nat
  BY DEF ManyRingInv, ManyBufferType, Locals
<1>3. /\ pc[p] \in M!Writing
      /\ Begin(claims, i) = pTail[p] /\ claims[i].at = pTail[p] + pad[p]
      /\ claims[i].end = claims[i].at + req[p] /\ claims[i].id = msg[p]
      /\ At <= claims[i].at
      /\ pc[p] = "pad" => pad[p] > 0 /\ At <= pTail[p]
  BY <1>1 DEF Owned
<1>4. Stage(i) = pc[p]
  BY DEF Stage
<1>5. Size(i) = req[p]
  BY <1>2, <1>3, ClaimFacts
<1>6. M!RecordIndex(p) = claims[i].at % C
  <2>1. CASE pad[p] = 0
    <3>1. claims[i].at = pTail[p]
      BY <1>2, <1>3, <2>1
    <3>2. QED
      BY <2>1, <3>1 DEF M!RecordIndex, M!IndexOf, C
  <2>2. CASE pad[p] # 0
    <3>1. claims[i].at # Begin(claims, i)
      BY <1>2, <1>3, <2>2
    <3>2. claims[i].at % C = 0
      BY <3>1, ClaimFacts
    <3>3. QED
      BY <2>2, <3>2 DEF M!RecordIndex
  <2>3. QED
    BY <2>1, <2>2
<1>7. QED
  BY <1>2, <1>3, <1>4, <1>5, <1>6

LEMMA ManyConsumedIsAt ==
  ASSUME ManyRingInv
  PROVE  M!Consumed = At
BY DEF ManyRingInv, Reading, ManyBufferType, M!Consumed, At

-----------------------------------------------------------------------------
LEMMA ManyRingInvInit ==
  ASSUME M!RingBufferAssumption, M!Init
  PROVE  ManyRingInv /\ M!Queue!Init
<1>1. C \in Nat \ {0} /\ Start \in 0 .. (C - 1) /\ MaxWrites \in Nat
  BY DEF M!RingBufferAssumption, C
<1>2. claims = <<>> /\ Claimed = 0 /\ handed = <<>>
  BY DEF M!Init, M!RingInit, Claimed
<1>3. ManyBufferType
  <2>1. Locals
    BY DEF M!Init, Locals, M!Steps
  <2>2. QED
    BY <1>1, <1>2, <2>1 DEF M!Init, M!RingInit, ManyBufferType, M!Cells, M!Zero, C
<1>4. Chain(claims) /\ Covered(claims)
  <2>1. Begin(claims, Len(claims) + 1) = Start /\ Len(claims) = 0
    BY <1>2 DEF Begin
  <2>2. QED
    BY <1>1, <2>1 DEF Chain, Covered
<1>5. ManyProducing
  BY <1>1, <1>2 DEF M!Init, ManyProducing, Knows, Wrapping, M!Writing
<1>6. At = Start /\ head = Start /\ Gone = Start /\ tail = Start
  BY <1>1 DEF At, Gone, M!Init, M!RingInit
<1>7. ManyRoom
  BY <1>1, <1>2, <1>6 DEF ManyRoom, M!Init, M!RingInit, Begin
<1>8. Reading
  <2>1. Mark(claims, At, 0) /\ 0 \in 0 .. Claimed
    BY <1>2, <1>6 DEF Mark, Begin
  <2>2. Start % C \in 0 .. (C - 1)
    BY <1>1, Division
  <2>3. QED
    BY <1>1, <1>6, <2>1, <2>2 DEF Reading, M!Init, M!RingInit
<1>9. ManyContents
  <2>1. ASSUME NEW p \in Start .. (Start + C - 1)
        PROVE  Cell(p) = M!Zero
    <3>1. p % C \in 0 .. (C - 1)
      BY <1>1, Division
    <3>2. QED
      BY <1>1, <3>1 DEF M!Init, M!RingInit, Cell, C
  <2>2. QED
    BY <1>1, <1>2, <1>6, <2>1 DEF ManyContents, ManyBlank
<1>10. Unblocking
  BY DEF Unblocking, M!Init
<1>11. M!Queue!Init
  <2>1. M!Passed(claims) = 0
    BY <1>2 DEF M!Passed
  <2>2. QED
    BY <1>2, <2>1 DEF M!Queue!Init
<1>12. QED
  BY <1>3, <1>4, <1>5, <1>7, <1>8, <1>9, <1>10, <1>11 DEF ManyRingInv

-----------------------------------------------------------------------------
(* Frames. *)

(* A claim whose cells in front of the consumer stay is as it was. *)
LEMMA ClaimKept ==
  ASSUME M!RingBufferAssumption, ManyRingInv, NEW i \in 1 .. Claimed,
         Claimed' \in Nat, Claimed <= Claimed',
         \A j \in 1 .. Claimed : claims[j].state = "void" => claims'[j] = claims[j],
         claims'[i] = claims[i], Begin(claims, i)' = Begin(claims, i), Stage(i)' = Stage(i),
         Gone' \in Nat, Gone <= Gone',
         \A q \in head .. (tail - 1) :
           Within(claims, i, q) /\ Gone' <= q => buffer'[q % C] = buffer[q % C]
  PROVE  ManyRecorded(i)' /\ Padded(i)'
<1> DEFINE a == claims[i].at
           b == Begin(claims, i)
<1>1. /\ a \in Nat /\ b \in Nat /\ b <= a /\ a < claims[i].end /\ claims[i].end <= tail
      /\ claims[i].end \in Nat /\ Size(i) = claims[i].end - a /\ Size(i) \in Nat /\ Size(i) > 0
  BY ClaimFacts
<1>2. head \in Nat /\ tail \in Nat /\ Gone \in Nat /\ head <= Gone /\ Claimed \in Nat
  BY Numbers
<1>3. Size(i)' = Size(i) /\ a' = a /\ b' = b /\ Stage(i)' = Stage(i)
  BY DEF Size
<1>4. ManyRecorded(i) /\ Padded(i)
  BY DEF ManyRingInv, ManyContents
<1>5. ASSUME Gone' <= a, NEW k \in 0 .. (Size(i) - 1)
      PROVE  buffer'[(a + k) % C] = buffer[(a + k) % C]
  <2>1. a + k \in head .. (tail - 1) /\ b <= a + k /\ a + k < claims[i].end /\ Gone' <= a + k
    BY <1>1, <1>2, <1>5
  <2>2. Within(claims, i, a + k)
    BY <2>1 DEF Within
  <2>3. QED
    BY <2>1, <2>2
<1>6. ManyRecorded(i)'
  <2> SUFFICES ASSUME Gone' <= a
               PROVE  IF Stage(i) = "void" THEN Abandoned(i)'
                      ELSE \A k \in 0 .. (Size(i) - 1) : buffer'[(a + k) % C] = Written(i, k)'
    BY <1>3 DEF ManyRecorded, Cell
  <2>1. Gone <= a
    BY <1>1, <1>2
  <2>2. CASE Stage(i) # "void"
    <3>1. \A k \in 0 .. (Size(i) - 1) : Cell(a + k) = Written(i, k)
      BY <1>4, <2>1, <2>2 DEF ManyRecorded
    <3>2. \A k : Written(i, k)' = Written(i, k)
      BY <1>3 DEF Written
    <3>3. QED
      BY <1>5, <2>2, <3>1, <3>2 DEF Cell
  <2>3. CASE Stage(i) = "void"
    <3> SUFFICES Abandoned(i)'
      BY <2>3
    <3>1. Abandoned(i)
      BY <1>4, <2>1, <2>3 DEF ManyRecorded
    <3>2. buffer'[a % C] = buffer[a % C]
      <4>1. 0 \in 0 .. (Size(i) - 1) /\ a + 0 = a
        BY <1>1
      <4>2. QED
        BY <1>5, <4>1
    <3>3. CASE Cell(a).length = -Size(i)
      BY <1>3, <3>2, <3>3 DEF Abandoned, Cell
    <3>4. CASE \A k \in 0 .. (Size(i) - 1) : Cell(a + k) = M!Zero
      <4>1. \A k \in 0 .. (Size(i) - 1) : buffer'[(a + k) % C] = M!Zero
        BY <1>5, <3>4 DEF Cell
      <4>2. QED
        BY <1>3, <3>4, <4>1 DEF Abandoned, Cell
    <3>5. CASE \E j \in i .. Claimed :
                 /\ Cell(a) = M!makeHeader(claims[j].end - a, M!PADDING_MSG_TYPE_ID)
                 /\ (a % C) + (claims[j].end - a) <= C
                 /\ \A k \in i .. j : claims[k].state = "void"
      <4>1. PICK j \in i .. Claimed :
                 /\ Cell(a) = M!makeHeader(claims[j].end - a, M!PADDING_MSG_TYPE_ID)
                 /\ (a % C) + (claims[j].end - a) <= C
                 /\ \A k \in i .. j : claims[k].state = "void"
        BY <3>5
      <4>2. \A k \in i .. j : k \in 1 .. Claimed
        BY <1>2
      <4>3. \A k \in i .. j : claims'[k] = claims[k]
        BY <4>1, <4>2
      <4>4. j \in i .. Claimed' /\ j \in i .. j
        BY <1>2
      <4>5. QED
        BY <1>3, <3>2, <4>1, <4>3, <4>4 DEF Abandoned, Cell
    <3>6. QED
      BY <3>1, <3>3, <3>4, <3>5 DEF Abandoned
  <2>4. QED
    BY <2>2, <2>3
<1>7. Padded(i)'
  <2> SUFFICES ASSUME Gone' <= b, b < a
               PROVE  \/ /\ Stage(i) # "pad"
                         /\ buffer'[b % C] = M!makeHeader(a - b, M!PADDING_MSG_TYPE_ID)
                      \/ Stage(i) \in {"pad", "void"} /\ buffer'[b % C] = M!Zero
    BY <1>3 DEF Padded, Cell
  <2>1. b \in head .. (tail - 1) /\ b < claims[i].end /\ Gone <= b /\ b <= b
    BY <1>1, <1>2
  <2>2. Within(claims, i, b)
    BY <2>1 DEF Within
  <2>3. \/ /\ Stage(i) # "pad"
           /\ buffer[b % C] = M!makeHeader(a - b, M!PADDING_MSG_TYPE_ID)
        \/ Stage(i) \in {"pad", "void"} /\ buffer[b % C] = M!Zero
    BY <1>4, <2>1 DEF Padded, Cell
  <2>4. QED
    BY <2>1, <2>2, <2>3
<1>8. QED
  BY <1>6, <1>7

LEMMA UnblockKept ==
  ASSUME ManyRingInv, reader' = reader, head' = head, UNCHANGED M!unblockVars
  PROVE  Unblocking'
BY DEF ManyRingInv, Unblocking, M!unblockVars

LEMMA ManyQueueKeeps ==
  ASSUME claims' = claims, handed' = handed, M!Consumed' = M!Consumed
  PROVE  UNCHANGED M!Queue!vars
BY DEF M!Queue!vars, M!Passed

(* A step of one producer leaves the locals of the others alone. *)
Apart(p) ==
  \A q \in Producers : q # p =>
    /\ pc'[q] = pc[q] /\ msg'[q] = msg[q] /\ req'[q] = req[q]
    /\ pHead'[q] = pHead[q] /\ pTail'[q] = pTail[q] /\ pad'[q] = pad[q]

LEMMA KnowsKept ==
  ASSUME M!RingBufferAssumption, ManyRingInv, NEW q \in Producers, pc'[q] = pc[q], msg'[q] = msg[q],
         req'[q] = req[q], pHead'[q] = pHead[q], pTail'[q] = pTail[q],
         head' \in Nat, head <= head',
         pc[q] \in M!Writing => \E i \in 1 .. Claimed' : claims'[i].by = q /\ claims'[i].state = "open"
  PROVE  Knows(q)'
<1>1. head \in Nat /\ pHead[q] \in Nat
  BY Numbers DEF ManyRingInv, ManyBufferType, Locals
<1>2. Knows(q)
  BY DEF ManyRingInv, ManyProducing
<1>3. pHead[q] <= head => pHead[q] <= head'
  BY <1>1
<1>4. QED
  BY <1>2, <1>3 DEF Knows

(* Steps that look at the positions and do not write to the buffer. *)
LEMMA DecideStep ==
  ASSUME M!RingBufferAssumption, ManyRingInv, NEW p \in Producers,
         pc[p] \notin M!Writing, pc'[p] \notin M!Writing,
         buffer' = buffer, tail' = tail, head' = head, claims' = claims, UNCHANGED M!Others,
         headCache' \in Nat, headCache' <= head, Locals', Apart(p), Knows(p)'
  PROVE  ManyRingInv' /\ UNCHANGED M!Queue!vars
<1>1. /\ reader' = reader /\ rHead' = rHead /\ bytesRead' = bytesRead /\ handed' = handed
      /\ UNCHANGED M!unblockVars
  BY DEF M!Others, M!readerVars
<1>2. Claimed' = Claimed /\ At' = At /\ Gone' = Gone /\ \A i : Begin(claims, i)' = Begin(claims, i)
  BY <1>1 DEF Claimed, At, Gone, Begin
<1>3. ManyBufferType'
  BY <1>1 DEF ManyRingInv, ManyBufferType, M!unblockVars
<1>4. Chain(claims)' /\ Covered(claims)'
  BY DEF ManyRingInv, Chain, Lies, Begin, Covered, Within
<1>5. ASSUME NEW i \in 1 .. Claimed, claims[i].state = "open"
      PROVE  claims[i].by \in Producers /\ claims[i].by # p /\ pc'[claims[i].by] = pc[claims[i].by]
  <2>1. claims[i].by \in Producers
    BY ClaimFacts
  <2>2. pc[claims[i].by] \in M!Writing
    BY <1>5, <2>1, OpenFacts
  <2>3. QED
    BY <2>1, <2>2 DEF Apart
<1>6. ManyProducing'
  <2>1. ASSUME NEW q \in Producers PROVE Knows(q)'
    <3>1. CASE q = p
      BY <3>1
    <3>2. CASE q # p
      <4>1. head' \in Nat /\ head <= head'
        BY Numbers
      <4>2. pc[q] \in M!Writing => \E i \in 1 .. Claimed' : claims'[i].by = q /\ claims'[i].state = "open"
        BY <1>2 DEF ManyRingInv, ManyProducing, Knows
      <4>3. QED
        BY <3>2, <4>1, <4>2, KnowsKept DEF Apart
    <3>3. QED
      BY <3>1, <3>2
  <2>2. ASSUME NEW i \in 1 .. Claimed PROVE Owned(i)'
    <3>1. Owned(i)
      BY DEF ManyRingInv, ManyProducing
    <3>2. SUFFICES ASSUME claims[i].state = "open" PROVE Owned(i)'
      BY DEF Owned
    <3>3. QED
      BY <1>2, <1>5, <3>1, <3>2 DEF Owned, Apart
  <2>3. QED
    BY <1>2, <2>1, <2>2 DEF ManyRingInv, ManyProducing
<1>7. ManyRoom' /\ Reading'
  BY <1>1, <1>2 DEF ManyRingInv, ManyRoom, Reading, Mark
<1>8. ManyContents'
  <2>1. ASSUME NEW i \in 1 .. Claimed PROVE ManyRecorded(i)' /\ Padded(i)'
    <3>1. Stage(i)' = Stage(i)
      BY <1>5 DEF Stage
    <3>2. Gone' \in Nat /\ Gone <= Gone' /\ Claimed' \in Nat /\ Claimed <= Claimed'
      BY <1>2, Numbers
    <3>3. QED
      BY <1>2, <3>1, <3>2, ClaimKept
  <2>2. ManyBlank'
    BY <1>2 DEF ManyRingInv, ManyContents, ManyBlank, Cell
  <2>3. QED
    BY <1>2, <2>1, <2>2 DEF ManyContents
<1>9. Unblocking'
  BY <1>1, UnblockKept
<1>10. UNCHANGED M!Queue!vars
  BY <1>1, ManyQueueKeeps DEF M!Consumed
<1>11. QED
  BY <1>3, <1>4, <1>6, <1>7, <1>8, <1>9, <1>10 DEF ManyRingInv

LEMMA WriteCall ==
  ASSUME M!RingBufferAssumption, ManyRingInv, NEW p \in Producers, M!write(p)
  PROVE  ManyRingInv' /\ UNCHANGED M!Queue!vars
<1>1. PICK length \in MsgLengths : req' = [req EXCEPT ![p] = length + M!HEADER_LENGTH]
  BY DEF M!write
<1>2. length + M!HEADER_LENGTH \in Nat /\ length + M!HEADER_LENGTH > 0
  BY DEF M!RingBufferAssumption, M!HEADER_LENGTH
<1>3. /\ pc[p] = "idle" /\ ids < MaxWrites /\ ids' = ids + 1 /\ msg' = [msg EXCEPT ![p] = ids + 1]
      /\ pc' = [pc EXCEPT ![p] = "tail"] /\ pHead' = [pHead EXCEPT ![p] = headCache]
      /\ UNCHANGED <<M!memory, pTail, pad, claims, M!Others>>
  BY DEF M!write, M!Goto
<1>4. buffer' = buffer /\ tail' = tail /\ headCache' = headCache /\ head' = head
  BY <1>3 DEF M!memory
<1>5. Locals /\ headCache \in Nat /\ headCache <= head /\ head \in Nat /\ MaxWrites \in Nat
  BY Numbers DEF ManyRingInv, ManyBufferType
<1>6. ids + 1 \in Nat /\ ids + 1 \in 1 .. MaxWrites
  BY <1>3, <1>5 DEF Locals
<1>7. Locals'
  BY <1>1, <1>2, <1>3, <1>5, <1>6 DEF Locals, M!Steps
<1>8. Apart(p) /\ pc'[p] = "tail" /\ msg'[p] = ids + 1 /\ req'[p] = length + M!HEADER_LENGTH
      /\ pHead'[p] = headCache
  BY <1>1, <1>3, <1>5 DEF Locals, Apart
<1>9. Knows(p)'
  BY <1>2, <1>4, <1>5, <1>6, <1>8 DEF Knows, Wrapping, M!Writing
<1>10. QED
  BY <1>3, <1>4, <1>5, <1>7, <1>8, <1>9, DecideStep DEF M!Writing

LEMMA LoadTailStep ==
  ASSUME M!RingBufferAssumption, ManyRingInv, NEW p \in Producers, M!LoadTail(p)
  PROVE  ManyRingInv' /\ UNCHANGED M!Queue!vars
<1> DEFINE s == IF req[p] > C - (tail - pHead[p]) THEN "head1" ELSE M!WrapStep(req[p], tail, pHead[p])
<1>1. /\ pc[p] = "tail" /\ pTail' = [pTail EXCEPT ![p] = tail] /\ pc' = [pc EXCEPT ![p] = s]
      /\ UNCHANGED <<M!memory, msg, req, pHead, pad, ids, claims, M!Others>>
  BY DEF M!LoadTail, M!Goto, C
<1>2. buffer' = buffer /\ tail' = tail /\ headCache' = headCache /\ head' = head
  BY <1>1 DEF M!memory
<1>3. Locals /\ headCache \in Nat /\ headCache <= head /\ head \in Nat /\ tail \in Nat /\ C \in Nat
  BY Numbers DEF ManyRingInv, ManyBufferType
<1>4. req[p] \in Nat /\ pHead[p] \in Nat
  BY <1>3 DEF Locals
<1>5. s \in {"head1", "head2", "cas"}
  BY DEF M!WrapStep
<1>6. s \in {"head2", "cas"} => tail + req[p] <= pHead[p] + C
  BY <1>3, <1>4
<1>7. s = "cas" => ~(req[p] > C - (tail % C) /\ req[p] > pHead[p] % C)
  BY DEF M!WrapStep, M!IndexOf, C
<1> HIDE DEF s
<1>8. Locals'
  BY <1>1, <1>3, <1>5 DEF Locals, M!Steps
<1>9. Apart(p) /\ pc'[p] = s /\ pTail'[p] = tail /\ req'[p] = req[p] /\ msg'[p] = msg[p]
      /\ pHead'[p] = pHead[p]
  BY <1>1, <1>3 DEF Locals, Apart
<1>10. req[p] > 0 /\ msg[p] \in 1 .. MaxWrites /\ pHead[p] <= head
  BY <1>1 DEF ManyRingInv, ManyProducing, Knows
<1>11. Knows(p)'
  BY <1>2, <1>5, <1>6, <1>7, <1>9, <1>10 DEF Knows, Wrapping, M!Writing
<1>12. QED
  BY <1>1, <1>2, <1>3, <1>5, <1>8, <1>9, <1>11, DecideStep DEF M!Writing

LEMMA ReturnLocals ==
  ASSUME NEW p \in Producers, Locals, NEW s \in {"idle", "dead"}, M!Goto(p, s), M!Return(p), ids' = ids
  PROVE  Locals' /\ Apart(p) /\ pc'[p] = s
BY DEF Locals, M!Return, M!Goto, Apart, M!Steps

LEMMA LoadHeadStep ==
  ASSUME M!RingBufferAssumption, ManyRingInv, NEW p \in Producers, M!LoadHead(p)
  PROVE  ManyRingInv' /\ UNCHANGED M!Queue!vars
<1>1. /\ pc[p] \in {"head1", "head2"} /\ UNCHANGED <<M!memory, ids, claims, M!Others>>
  BY DEF M!LoadHead
<1>2. buffer' = buffer /\ tail' = tail /\ headCache' = headCache /\ head' = head
  BY <1>1 DEF M!memory
<1>3. Locals /\ headCache \in Nat /\ headCache <= head /\ head \in Nat /\ tail \in Nat
      /\ C \in Nat \ {0}
  BY Numbers DEF ManyRingInv, ManyBufferType
<1>4. CASE M!InsufficientCapacity(p) /\ M!Goto(p, "idle") /\ M!Return(p)
  <2>1. Locals' /\ Apart(p) /\ pc'[p] = "idle"
    BY <1>1, <1>3, <1>4, ReturnLocals
  <2>2. Knows(p)'
    BY <2>1 DEF Knows, Wrapping, M!Writing
  <2>3. QED
    BY <1>1, <1>2, <1>3, <2>1, <2>2, DecideStep DEF M!Writing
<1>5. CASE /\ ~M!InsufficientCapacity(p)
           /\ pHead' = [pHead EXCEPT ![p] = head]
           /\ M!Goto(p, IF pc[p] = "head1" THEN "cache1" ELSE "cache2")
           /\ UNCHANGED <<msg, req, pTail, pad>>
  <2> DEFINE s == IF pc[p] = "head1" THEN "cache1" ELSE "cache2"
  <2>1. pc' = [pc EXCEPT ![p] = s] /\ s \in {"cache1", "cache2"}
    BY <1>5 DEF M!Goto
  <2>2. req[p] \in Nat /\ pTail[p] \in Nat /\ pHead[p] \in Nat
    BY <1>3 DEF Locals
  <2>3. req[p] > 0 /\ msg[p] \in 1 .. MaxWrites /\ pHead[p] <= head
        /\ (pc[p] = "head2" => pTail[p] + req[p] <= pHead[p] + C)
    BY <1>1 DEF ManyRingInv, ManyProducing, Knows, Wrapping
  <2>4. pTail[p] + req[p] <= head + C
    <3>1. CASE pc[p] = "head1"
      <4>1. ~(req[p] > C - (pTail[p] - head))
        BY <1>5, <3>1 DEF M!InsufficientCapacity, C
      <4>2. QED
        BY <1>3, <2>2, <4>1
    <3>2. CASE pc[p] = "head2"
      BY <1>3, <2>2, <2>3, <3>2
    <3>3. QED
      BY <1>1, <3>1, <3>2
  <2>5. s = "cache2" => ~(req[p] > head % C)
    BY <1>1, <1>5 DEF M!InsufficientCapacity, M!IndexOf, C
  <2> HIDE DEF s
  <2>6. Locals'
    BY <1>1, <1>3, <1>5, <2>1 DEF Locals, M!Steps
  <2>7. Apart(p) /\ pc'[p] = s /\ pTail'[p] = pTail[p] /\ req'[p] = req[p] /\ msg'[p] = msg[p]
        /\ pHead'[p] = head
    BY <1>3, <1>5, <2>1 DEF Locals, Apart
  <2>8. Knows(p)'
    <3>1. head <= head
      BY <1>3
    <3>2. QED
      BY <1>2, <2>1, <2>3, <2>4, <2>5, <2>7, <3>1 DEF Knows, Wrapping, M!Writing
  <2>9. QED
    BY <1>1, <1>2, <1>3, <2>1, <2>6, <2>7, <2>8, DecideStep DEF M!Writing
<1>6. QED
  BY <1>4, <1>5 DEF M!LoadHead

LEMMA StoreHeadCacheStep ==
  ASSUME M!RingBufferAssumption, ManyRingInv, NEW p \in Producers, M!StoreHeadCache(p)
  PROVE  ManyRingInv' /\ UNCHANGED M!Queue!vars
<1> DEFINE s == IF pc[p] = "cache1" THEN M!WrapStep(req[p], pTail[p], pHead[p]) ELSE "cas"
<1>1. /\ pc[p] \in {"cache1", "cache2"} /\ headCache' = pHead[p] /\ pc' = [pc EXCEPT ![p] = s]
      /\ UNCHANGED <<buffer, tail, head, msg, req, pHead, pTail, pad, ids, claims, M!Others>>
  BY DEF M!StoreHeadCache, M!Goto
<1>2. Locals /\ head \in Nat /\ C \in Nat
  BY Numbers DEF ManyRingInv, ManyBufferType
<1>3. s \in {"head2", "cas"}
  BY DEF M!WrapStep
<1>4. /\ req[p] > 0 /\ msg[p] \in 1 .. MaxWrites /\ pHead[p] <= head
      /\ pTail[p] + req[p] <= pHead[p] + C
      /\ pc[p] = "cache2" => ~(req[p] > C - (pTail[p] % C) /\ req[p] > pHead[p] % C)
  BY <1>1 DEF ManyRingInv, ManyProducing, Knows, Wrapping
<1>5. s = "cas" => ~(req[p] > C - (pTail[p] % C) /\ req[p] > pHead[p] % C)
  BY <1>1, <1>4 DEF M!WrapStep, M!IndexOf, C
<1> HIDE DEF s
<1>6. Locals'
  BY <1>1, <1>2, <1>3 DEF Locals, M!Steps
<1>7. Apart(p) /\ pc'[p] = s /\ pTail'[p] = pTail[p] /\ req'[p] = req[p] /\ msg'[p] = msg[p]
      /\ pHead'[p] = pHead[p] /\ pHead[p] \in Nat
  BY <1>1, <1>2 DEF Locals, Apart
<1>8. Knows(p)'
  BY <1>1, <1>3, <1>4, <1>5, <1>7 DEF Knows, Wrapping, M!Writing
<1>9. QED
  BY <1>1, <1>3, <1>4, <1>6, <1>7, <1>8, DecideStep DEF M!Writing

(* Another producer was faster. *)
LEMMA LostRaceStep ==
  ASSUME M!RingBufferAssumption, ManyRingInv, NEW p \in Producers, pc[p] = "cas",
         M!Goto(p, "tail"), UNCHANGED <<tail, pad, claims>>,
         UNCHANGED <<buffer, headCache, head, msg, req, pHead, pTail, ids, M!Others>>
  PROVE  ManyRingInv' /\ UNCHANGED M!Queue!vars
<1>1. Locals /\ headCache \in Nat /\ headCache <= head
  BY Numbers DEF ManyRingInv, ManyBufferType
<1>2. Locals' /\ Apart(p) /\ pc'[p] = "tail"
  BY <1>1 DEF Locals, M!Steps, Apart, M!Goto
<1>3. req[p] > 0 /\ msg[p] \in 1 .. MaxWrites /\ pHead[p] <= head
  BY DEF ManyRingInv, ManyProducing, Knows
<1>4. Knows(p)'
  BY <1>2, <1>3 DEF Knows, Wrapping, M!Writing
<1>5. QED
  BY <1>1, <1>2, <1>4, DecideStep DEF M!Writing


(* What the refinement sees of a claim. *)
ManySeen(cs) == [i \in DOMAIN cs |-> [id |-> cs[i].id, state |-> cs[i].state]]

LEMMA ManySeenGrows ==
  ASSUME NEW cs \in Seq(ManyClaimRecord), NEW e \in ManyClaimRecord
  PROVE  /\ Len(ManySeen(Append(cs, e))) = Len(ManySeen(cs)) + 1
         /\ SubSeq(ManySeen(Append(cs, e)), 1, Len(ManySeen(cs))) = ManySeen(cs)
         /\ ManySeen(Append(cs, e))[Len(ManySeen(cs)) + 1] = [id |-> e.id, state |-> e.state]
         /\ Len(ManySeen(cs)) = Len(cs) /\ Len(cs) \in Nat
<1> DEFINE S == [id : 1 .. MaxWrites, state : {"open", "done", "void"}]
           ds == Append(cs, e)
<1>1. ds \in Seq(ManyClaimRecord) /\ Len(ds) = Len(cs) + 1 /\ ds[Len(cs) + 1] = e /\ Len(cs) \in Nat
      /\ \A i \in 1 .. Len(cs) : ds[i] = cs[i]
  OBVIOUS
<1>2. ASSUME NEW bs \in Seq(ManyClaimRecord)
      PROVE  /\ ManySeen(bs) \in Seq(S) /\ Len(ManySeen(bs)) = Len(bs)
             /\ \A i \in 1 .. Len(bs) : ManySeen(bs)[i] = [id |-> bs[i].id, state |-> bs[i].state]
  <2>1. \A i \in 1 .. Len(bs) : [id |-> bs[i].id, state |-> bs[i].state] \in S
    BY ManyClaimFields
  <2>2. DOMAIN bs = 1 .. Len(bs) /\ Len(bs) \in Nat
    OBVIOUS
  <2>3. ManySeen(bs) = [i \in 1 .. Len(bs) |-> [id |-> bs[i].id, state |-> bs[i].state]]
    BY <2>2 DEF ManySeen
  <2> HIDE DEF S
  <2>4. QED
    BY <2>1, <2>2, <2>3
<1> HIDE DEF S, ds
<1>3. /\ ManySeen(cs) \in Seq(S) /\ Len(ManySeen(cs)) = Len(cs)
      /\ \A i \in 1 .. Len(cs) : ManySeen(cs)[i] = [id |-> cs[i].id, state |-> cs[i].state]
  BY <1>2
<1>4. /\ ManySeen(ds) \in Seq(S) /\ Len(ManySeen(ds)) = Len(cs) + 1
      /\ \A i \in 1 .. (Len(cs) + 1) : ManySeen(ds)[i] = [id |-> ds[i].id, state |-> ds[i].state]
  BY <1>1, <1>2
<1>5. SubSeq(ManySeen(ds), 1, Len(cs)) = ManySeen(cs)
  <2>1. 1 \in 1 .. (Len(ManySeen(ds)) + 1) /\ Len(cs) \in 0 .. Len(ManySeen(ds))
    BY <1>1, <1>4
  <2>2. /\ SubSeq(ManySeen(ds), 1, Len(cs)) \in Seq(S) /\ Len(SubSeq(ManySeen(ds), 1, Len(cs))) = Len(cs)
        /\ \A i \in 1 .. Len(cs) : SubSeq(ManySeen(ds), 1, Len(cs))[i] = ManySeen(ds)[i]
    BY <1>1, <1>4, <2>1
  <2>3. \A i \in 1 .. Len(cs) : ManySeen(ds)[i] = ManySeen(cs)[i]
    BY <1>1, <1>3, <1>4
  <2>4. QED
    BY <1>3, <2>2, <2>3, SeqEqual
<1>6. QED
  BY <1>1, <1>3, <1>4, <1>5 DEF ds

(* Where the record of a claim goes: it does not wrap, and it ends within  *)
(* a lap of the head, although the producer never adds the padding when it *)
(* checks for room.                                                        *)
Fits(c, t, n, r, hd) ==
  /\ t + n + r <= hd + c
  /\ ((t + n) % c) + r <= c
  /\ n # 0 => (t + n) % c = 0 /\ n = c - (t % c)

LEMMA ClaimFits ==
  ASSUME NEW c \in Nat \ {0}, NEW t \in Nat, NEW h \in Nat, NEW hd \in Nat, NEW r \in Nat \ {0},
         NEW n \in Nat, n = IF r > c - (t % c) THEN c - (t % c) ELSE 0,
         h <= hd, hd <= t, t + r <= h + c, ~(r > c - (t % c) /\ r > h % c)
  PROVE  Fits(c, t, n, r, hd)
<1>1. t % c \in 0 .. (c - 1) /\ h % c \in 0 .. (c - 1)
  BY Division
<1>2. CASE r > c - (t % c)
  <2>1. n = c - (t % c) /\ r <= h % c
    BY <1>1, <1>2
  <2>2. t + (c - (t % c)) + r <= h + c
    <3>1. h <= t
      OBVIOUS
    <3>2. QED
      BY <1>2, <2>1, <3>1, WrapFits
  <2>3. (t + n) % c = 0
    <3>1. CASE n < c
      <4>1. n \in 0 .. (c - 1) /\ (t % c) + n = c
        BY <1>1, <2>1, <3>1
      <4>2. (t + n) % c = IF (t % c) + n < c THEN (t % c) + n ELSE (t % c) + n - c
        BY <4>1, PlaceAfter, ZenonT(30)
      <4>3. QED
        BY <4>1, <4>2
    <3>2. CASE ~(n < c)
      <4>1. n = c /\ t % c = 0
        BY <1>1, <2>1, <3>2
      <4>2. QED
        BY <4>1, OneLap
    <3>3. QED
      BY <3>1, <3>2
  <2>4. QED
    BY <1>1, <2>1, <2>2, <2>3 DEF Fits
<1>3. CASE ~(r > c - (t % c))
  BY <1>1, <1>3 DEF Fits
<1>4. QED
  BY <1>2, <1>3

(* A mark stays when claims are added or change their state. *)
LEMMA MarkKept ==
  ASSUME NEW cs \in Seq(ManyClaimRecord), NEW ds \in Seq(ManyClaimRecord), Len(cs) <= Len(ds),
         \A i \in 1 .. (Len(cs) + 1) : Begin(ds, i) = Begin(cs, i),
         \A i \in 1 .. Len(cs) : ds[i].at = cs[i].at,
         NEW a, NEW m \in 0 .. Len(cs), Mark(cs, a, m)
  PROVE  m \in 0 .. Len(ds) /\ Mark(ds, a, m)
<1>1. m + 1 \in 1 .. (Len(cs) + 1) /\ m \in 0 .. Len(ds) /\ Len(cs) \in Nat /\ Len(ds) \in Nat
  OBVIOUS
<1>2. CASE a = Begin(cs, m + 1)
  BY <1>1, <1>2 DEF Mark
<1>3. CASE m < Len(cs) /\ a = cs[m + 1].at
  <2>1. m + 1 \in 1 .. Len(cs) /\ m < Len(ds)
    BY <1>1, <1>3
  <2>2. QED
    BY <1>1, <1>3, <2>1 DEF Mark
<1>4. QED
  BY <1>2, <1>3 DEF Mark

(* The place of the consumer among the claims does not change when they do. *)
LEMMA PassedKept ==
  ASSUME M!RingBufferAssumption, ManyRingInv, claims' \in Seq(ManyClaimRecord), Chain(claims'),
         Claimed <= Claimed',
         \A i \in 1 .. (Claimed + 1) : Begin(claims', i) = Begin(claims, i),
         \A i \in 1 .. Claimed : claims'[i].at = claims[i].at,
         M!Consumed' = M!Consumed,
         NEW m \in 0 .. Claimed, Mark(claims, At, m)
  PROVE  M!Passed(claims) = m /\ M!Passed(claims)' = m /\ m \in 0 .. Claimed' /\ Mark(claims', At, m)
<1>1. claims \in Seq(ManyClaimRecord) /\ Chain(claims) /\ At \in Nat
  BY Numbers DEF ManyRingInv, ManyBufferType
<1>2. M!Passed(claims) = ManyPassedOf(claims, At) /\ M!Passed(claims)' = ManyPassedOf(claims', At)
  BY ManyConsumedIsAt DEF M!Passed, ManyPassedOf
<1>3. ManyPassedOf(claims, At) = m
  BY <1>1, ManyPassedIs DEF Claimed
<1> DEFINE ds == claims'
<1>4. /\ ds \in Seq(ManyClaimRecord) /\ Len(claims) <= Len(ds) /\ Chain(ds)
      /\ \A i \in 1 .. (Len(claims) + 1) : Begin(ds, i) = Begin(claims, i)
      /\ \A i \in 1 .. Len(claims) : ds[i].at = claims[i].at
      /\ m \in 0 .. Len(claims)
  BY DEF Claimed
<1> HIDE DEF ds
<1>5. m \in 0 .. Len(ds) /\ Mark(ds, At, m)
  BY <1>1, <1>4, MarkKept
<1>6. ManyPassedOf(ds, At) = m
  BY <1>1, <1>4, <1>5, ManyPassedIs
<1>7. QED
  BY <1>2, <1>3, <1>5, <1>6 DEF ds, Claimed

(* The compare-and-set succeeds. *)
LEMMA ClaimStep ==
  ASSUME M!RingBufferAssumption, ManyRingInv, NEW p \in Producers, pc[p] = "cas", tail = pTail[p],
         tail' = tail + req[p] + M!Padding(p), pad' = [pad EXCEPT ![p] = M!Padding(p)],
         claims' = Append(claims, [id |-> msg[p], by |-> p, state |-> "open",
                                   at |-> tail + M!Padding(p), end |-> tail + M!Padding(p) + req[p]]),
         M!Goto(p, IF M!Padding(p) # 0 THEN "pad" ELSE "header"),
         UNCHANGED <<buffer, headCache, head, msg, req, pHead, pTail, ids, M!Others>>
  PROVE  ManyRingInv' /\ M!Queue!Claim
<1> DEFINE r == req[p]
           n == M!Padding(p)
           e == [id |-> msg[p], by |-> p, state |-> "open", at |-> tail + n, end |-> tail + n + r]
<1>1. /\ reader' = reader /\ rHead' = rHead /\ bytesRead' = bytesRead /\ handed' = handed
      /\ UNCHANGED M!unblockVars /\ buffer' = buffer /\ headCache' = headCache /\ head' = head
      /\ msg' = msg /\ req' = req /\ pHead' = pHead /\ pTail' = pTail /\ ids' = ids
  BY DEF M!Others, M!readerVars
<1>2. /\ C \in Nat \ {0} /\ head \in Nat /\ tail \in Nat /\ At \in Nat /\ Claimed \in Nat
      /\ head <= At /\ At <= tail /\ tail <= head + C /\ MaxWrites \in Nat
  BY Numbers
<1>3. claims \in Seq(ManyClaimRecord) /\ Chain(claims) /\ Covered(claims) /\ Locals
      /\ Begin(claims, Claimed + 1) = tail
  BY DEF ManyRingInv, ManyBufferType, ManyRoom
<1>4. /\ r \in Nat \ {0} /\ msg[p] \in 1 .. MaxWrites /\ pHead[p] \in Nat /\ pHead[p] <= head
      /\ tail + r <= pHead[p] + C /\ ~(r > C - (tail % C) /\ r > pHead[p] % C)
  <2>1. Knows(p) /\ r \in Nat /\ pHead[p] \in Nat
    BY <1>3 DEF ManyRingInv, ManyProducing, Locals
  <2>2. QED
    BY <2>1 DEF Knows, Wrapping
<1>5. tail % C \in 0 .. (C - 1) /\ n = (IF r > C - (tail % C) THEN C - (tail % C) ELSE 0)
  BY <1>2, ManyPlaceInBuffer DEF M!Padding, M!IndexOf, C
<1>d. n \in Nat
  BY <1>2, <1>5
<1>e. r \in Nat \ {0}
  BY <1>4
<1>6. n \in Nat /\ r \in Nat /\ r > 0
  BY <1>d, <1>e
<1>7. pc' = [pc EXCEPT ![p] = IF n # 0 THEN "pad" ELSE "header"] /\ claims' = Append(claims, e)
      /\ tail' = tail + r + n /\ pad' = [pad EXCEPT ![p] = n] /\ msg[p] = e.id
  BY DEF M!Goto
<1> HIDE DEF n, r
<1>8. /\ tail + n + r <= head + C /\ ((tail + n) % C) + r <= C
      /\ n # 0 => (tail + n) % C = 0 /\ n = C - (tail % C)
  <2>1. head <= tail
    BY <1>2
  <2>2. QED
    <3> DEFINE h == pHead[p]
    <3>1. /\ h \in Nat /\ h <= head /\ tail + r <= h + C /\ ~(r > C - (tail % C) /\ r > h % C)
          /\ r \in Nat \ {0}
      BY <1>4
    <3> HIDE DEF h
    <3>2. n = (IF r > C - (tail % C) THEN C - (tail % C) ELSE 0) /\ n \in Nat
      BY <1>5, <1>6
    <3>3. /\ C \in Nat \ {0} /\ tail \in Nat /\ head \in Nat
      BY <1>2
    <3>4. Fits(C, tail, n, r, head)
      BY <2>1, <3>1, <3>2, <3>3, ClaimFits
    <3>5. QED
      BY <3>4 DEF Fits
<1>c. tail + n + r <= head + C
  BY <1>8
<1>9. /\ e.at = tail + n /\ e.end = tail + n + r /\ e.id = msg[p] /\ e.state = "open" /\ e.by = p
      /\ e.at \in Nat /\ e.end \in Nat /\ e \in ManyClaimRecord
  <2>1. tail + n \in Nat /\ tail + n + r \in Nat
    BY <1>2, <1>6
  <2>2. e \in ManyClaimRecord
    BY <1>4, <2>1 DEF ManyClaimRecord
  <2>3. QED
    BY <2>1, <2>2
<1>f. e \in ManyClaimRecord
  BY <1>9
<1> HIDE DEF e
<1>g. e.at = tail + n /\ e.end = tail + n + r
  BY <1>9
<1>10. ManyFollows(tail, e)
  <2>1. e.end - e.at = r /\ tail <= e.at /\ e.at < e.end /\ e.at - tail = n
    BY <1>2, <1>6, <1>g
  <2>2. e.at # tail => n # 0
    BY <1>2, <1>6, <1>g
  <2>3. QED
    BY <1>8, <1>9, <2>1, <2>2 DEF ManyFollows
<1>11. /\ claims' \in Seq(ManyClaimRecord) /\ Claimed' = Claimed + 1 /\ claims'[Claimed + 1] = e
       /\ \A i \in 1 .. Claimed : claims'[i] = claims[i]
       /\ \A i \in 1 .. (Claimed + 1) : Begin(claims', i) = Begin(claims, i)
       /\ Chain(claims') /\ Covered(claims')
  <2> DEFINE ds == claims'
  <2>1. ds = Append(claims, e) /\ ds \in Seq(ManyClaimRecord)
    BY <1>3, <1>7, <1>9
  <2>2. Begin(claims, Len(claims) + 1) \in Nat /\ ManyFollows(Begin(claims, Len(claims) + 1), e)
    BY <1>2, <1>3, <1>10 DEF Claimed
  <2> HIDE DEF ds
  <2>3. Chain(ds)
    BY <1>3, <1>f, <2>1, <2>2, ManyChainGrows, Zenon
  <2>4. \A i \in 1 .. (Len(claims) + 1) : Begin(ds, i) = Begin(claims, i)
    BY <1>3, <1>f, <2>1, <2>2, ManyChainGrows, Zenon
  <2>5. Covered(ds)
    BY <1>3, <1>9, <2>1, <2>2, CoveredGrows, Zenon
  <2>6. /\ Len(ds) = Len(claims) + 1 /\ ds[Len(claims) + 1] = e
        /\ \A i \in 1 .. Len(claims) : ds[i] = claims[i]
    BY <1>3, <1>9, <2>1
  <2>7. QED
    BY <2>1, <2>3, <2>4, <2>5, <2>6 DEF ds, Claimed
<1>a. Claimed' = Claimed + 1 /\ Claimed' \in Nat /\ Claimed <= Claimed'
  BY <1>2, <1>11
<1>b. \A i \in 1 .. Claimed : i \in 1 .. Claimed' /\ i \in 1 .. (Claimed + 1)
  BY <1>2, <1>a
<1>12. Begin(claims', Claimed' + 1) = tail' /\ tail' = tail + n + r
  <2>1. Begin(claims', Claimed + 2) = e.end
    <3>1. Claimed + 2 # 1 /\ (Claimed + 2) - 1 = Claimed + 1
      BY <1>2
    <3>2. QED
      BY <1>11, <3>1 DEF Begin
  <2>2. Claimed' + 1 = Claimed + 2 /\ tail' = tail + n + r
    BY <1>2, <1>6, <1>7, <1>a
  <2>3. QED
    BY <1>9, <2>1, <2>2
<1>13. Locals' /\ Apart(p) /\ pc'[p] = (IF n # 0 THEN "pad" ELSE "header") /\ pad'[p] = n
  BY <1>1, <1>3, <1>6, <1>7 DEF Locals, Apart, M!Steps, M!Writing
<1>14. Claimed + 1 \in 1 .. (Claimed + 1) /\ \A i \in 1 .. (Claimed + 1) : i \in 1 .. Claimed \/ i = Claimed + 1
  BY <1>2
<1>15. At' = At /\ Gone' = Gone
  BY <1>1 DEF At, Gone
<1>16. ManyBufferType'
  <2>1. tail' \in Nat
    BY <1>2, <1>6, <1>12
  <2>2. QED
    BY <1>1, <1>11, <1>13, <2>1 DEF ManyRingInv, ManyBufferType, M!unblockVars
<1>17. ASSUME NEW i \in 1 .. Claimed, claims[i].state = "open"
       PROVE  claims[i].by \in Producers /\ claims[i].by # p /\ pc'[claims[i].by] = pc[claims[i].by]
  <2>1. claims[i].by \in Producers
    BY ClaimFacts
  <2>2. pc[claims[i].by] \in M!Writing
    BY <1>17, <2>1, OpenFacts
  <2>3. claims[i].by # p
    BY <2>2 DEF M!Writing
  <2>4. QED
    BY <1>13, <2>1, <2>3 DEF Apart
<1>18. ManyProducing'
  <2>1. ASSUME NEW q \in Producers PROVE Knows(q)'
    <3>1. CASE q = p
      <4>1. \E i \in 1 .. Claimed' : claims'[i].by = p /\ claims'[i].state = "open"
        BY <1>9, <1>11, <1>14
      <4>2. req'[p] > 0 /\ msg'[p] \in 1 .. MaxWrites /\ pHead'[p] <= head'
        BY <1>1, <1>4 DEF r
      <4>3. pc'[p] \in {"pad", "header"}
        BY <1>13
      <4>4. QED
        BY <3>1, <4>1, <4>2, <4>3 DEF Knows, Wrapping
    <3>2. CASE q # p
      <4>1. head' \in Nat /\ head <= head'
        BY <1>1, <1>2
      <4>2. ASSUME pc[q] \in M!Writing
            PROVE  \E i \in 1 .. Claimed' : claims'[i].by = q /\ claims'[i].state = "open"
        <5>1. PICK i \in 1 .. Claimed : claims[i].by = q /\ claims[i].state = "open"
          BY <4>2 DEF ManyRingInv, ManyProducing, Knows
        <5>2. i \in 1 .. Claimed' /\ claims'[i] = claims[i]
          BY <1>11, <1>b
        <5>3. QED
          BY <5>1, <5>2
      <4>3. QED
        BY <1>13, <3>2, <4>1, <4>2, KnowsKept DEF Apart
    <3>3. QED
      BY <3>1, <3>2
  <2>2. ASSUME NEW i \in 1 .. Claimed' PROVE Owned(i)'
    <3>1. CASE i = Claimed + 1
      <4>1. claims'[i] = e /\ Begin(claims', i) = tail
        BY <1>3, <1>11, <1>14, <3>1
      <4>2. pc'[p] \in M!Writing /\ pTail'[p] = tail /\ req'[p] = r /\ msg'[p] = msg[p]
        BY <1>1, <1>13 DEF M!Writing, r
      <4>3. At' <= e.at /\ (pc'[p] = "pad" => n > 0 /\ At' <= tail)
        BY <1>2, <1>6, <1>9, <1>13, <1>15
      <4>4. e.end = e.at + r /\ e.at = tail + n
        BY <1>9
      <4>5. QED
        BY <1>9, <1>13, <4>1, <4>2, <4>3, <4>4 DEF Owned
    <3>2. CASE i \in 1 .. Claimed
      <4>1. Owned(i)
        BY <3>2 DEF ManyRingInv, ManyProducing
      <4>2. claims'[i] = claims[i] /\ Begin(claims', i) = Begin(claims, i)
        BY <1>11, <1>b, <3>2
      <4>3. SUFFICES ASSUME claims[i].state = "open" PROVE Owned(i)'
        BY <4>2 DEF Owned
      <4>4. PICK q \in Producers : q = claims[i].by /\ q # p
        BY <1>17, <3>2, <4>3
      <4>5. /\ pc'[q] = pc[q] /\ msg'[q] = msg[q] /\ req'[q] = req[q] /\ pTail'[q] = pTail[q]
            /\ pad'[q] = pad[q]
        BY <1>13, <4>4 DEF Apart
      <4>6. QED
        BY <1>15, <4>1, <4>2, <4>3, <4>4, <4>5 DEF Owned
    <3>3. QED
      BY <1>11, <1>14, <3>1, <3>2
  <2>3. ASSUME NEW i \in 1 .. Claimed', NEW j \in 1 .. Claimed', claims'[i].state = "open",
               claims'[j].state = "open", claims'[i].by = claims'[j].by
        PROVE  i = j
    <3>1. ASSUME NEW x \in 1 .. Claimed, claims'[x].state = "open" PROVE claims'[x].by # p
      BY <1>11, <1>17, <3>1
    <3>2. CASE i = Claimed + 1
      BY <1>9, <1>11, <1>14, <2>3, <3>1, <3>2
    <3>3. CASE j = Claimed + 1
      BY <1>9, <1>11, <1>14, <2>3, <3>1, <3>3
    <3>4. CASE i \in 1 .. Claimed /\ j \in 1 .. Claimed
      BY <1>11, <2>3, <3>4 DEF ManyRingInv, ManyProducing
    <3>5. QED
      BY <1>11, <1>14, <3>2, <3>3, <3>4
  <2>4. QED
    BY <2>1, <2>2, <2>3 DEF ManyProducing
<1>19. ManyRoom'
  <2>1. At <= tail + n + r
    BY <1>2, <1>6
  <2>2. QED
    BY <1>1, <1>8, <1>12, <1>15, <2>1 DEF ManyRingInv, ManyRoom
<1>20. \A i \in 1 .. Claimed : claims'[i].at = claims[i].at
  BY <1>11
<1>21. PICK m \in 0 .. Claimed : Mark(claims, At, m)
  BY DEF ManyRingInv, Reading
<1>22. M!Passed(claims) = m /\ M!Passed(claims)' = m /\ m \in 0 .. Claimed' /\ Mark(claims', At, m)
  <2>1. M!Consumed' = M!Consumed /\ Claimed <= Claimed'
    BY <1>1, <1>a DEF M!Consumed
  <2>2. QED
    BY <1>11, <1>20, <1>21, <2>1, PassedKept
<1>23. Reading'
  BY <1>1, <1>15, <1>22 DEF ManyRingInv, Reading
<1>24. ASSUME NEW q \in tail .. (head + C - 1) PROVE buffer[q % C] = M!Zero
  BY DEF ManyRingInv, ManyContents, ManyBlank, Cell
<1>25. ManyContents'
  <2>1. ASSUME NEW i \in 1 .. Claimed PROVE ManyRecorded(i)' /\ Padded(i)'
    <3>1. claims'[i] = claims[i] /\ Begin(claims', i) = Begin(claims, i)
      BY <1>11, <1>b
    <3>2. Stage(i)' = Stage(i)
      BY <1>17, <3>1 DEF Stage
    <3>3. Gone' \in Nat /\ Gone <= Gone' /\ Claimed' \in Nat /\ Claimed <= Claimed'
      BY <1>a, <1>15, Numbers
    <3>4. QED
      BY <1>1, <1>11, <3>1, <3>2, <3>3, ClaimKept
  <2>2. ASSUME NEW i \in 1 .. Claimed', i = Claimed + 1 PROVE ManyRecorded(i)' /\ Padded(i)'
    <3>1. claims'[i] = e /\ Begin(claims', i) = tail /\ Stage(i)' = pc'[p] /\ Size(i)' = r
      <4>1. claims'[i] = e /\ Begin(claims', i) = tail
        BY <1>3, <1>11, <1>14, <2>2
      <4>2. e.end - e.at = r
        BY <1>2, <1>6, <1>g
      <4>3. QED
        BY <1>9, <4>1, <4>2 DEF Stage, Size
    <3>2. \A k : Written(i, k)' = M!Zero
      BY <1>13, <3>1 DEF Written
    <3>3. \A k \in 0 .. (r - 1) : buffer[(e.at + k) % C] = M!Zero
      <4>1. \A k \in 0 .. (r - 1) : e.at + k \in tail .. (head + C - 1)
        BY <1>2, <1>6, <1>c, <1>g, SMTT(30)
      <4>2. QED
        BY <1>24, <4>1
    <3>4. ManyRecorded(i)'
      BY <1>1, <1>13, <3>1, <3>2, <3>3 DEF ManyRecorded, Cell
    <3>5. tail < e.at => pc'[p] = "pad" /\ buffer[tail % C] = M!Zero
      <4>1. ASSUME tail < e.at PROVE n # 0 /\ tail \in tail .. (head + C - 1)
        BY <1>2, <1>6, <1>c, <1>9, <4>1, SMTT(30)
      <4>2. QED
        BY <1>13, <1>24, <4>1
    <3>6. Padded(i)'
      BY <1>1, <3>1, <3>5 DEF Padded, Cell
    <3>7. QED
      BY <3>4, <3>6
  <2>3. ManyBlank'
    <3>1. \A q \in tail' .. (head + C - 1) : q \in tail .. (head + C - 1)
      BY <1>2, <1>6, <1>12, SMTT(30)
    <3>2. QED
      BY <1>1, <1>15, <1>24, <3>1 DEF ManyRingInv, ManyContents, ManyBlank, Cell
  <2>4. QED
    BY <1>11, <1>14, <2>1, <2>2, <2>3 DEF ManyContents
<1>26. Unblocking'
  BY <1>1, UnblockKept
<1>27. M!Queue!Claim
  <2>1. /\ Len(ManySeen(claims')) = Len(ManySeen(claims)) + 1 /\ Len(ManySeen(claims)) \in Nat
        /\ SubSeq(ManySeen(claims'), 1, Len(ManySeen(claims))) = ManySeen(claims)
        /\ ManySeen(claims')[Len(ManySeen(claims)) + 1] = [id |-> msg[p], state |-> "open"]
    BY <1>3, <1>7, <1>9, ManySeenGrows
  <2>2. \A i \in (Len(ManySeen(claims)) + 1) .. Len(ManySeen(claims')) :
          ManySeen(claims')[i] \in [id : 1 .. MaxWrites, state : {"open"}]
    BY <1>4, <2>1
  <2>3. Len(ManySeen(claims')) \in (Len(ManySeen(claims)) + 1) .. (Len(ManySeen(claims)) + 1)
    BY <2>1
  <2>4. M!Queue!Claim <=>
          /\ Len(ManySeen(claims')) \in (Len(ManySeen(claims)) + 1) .. (Len(ManySeen(claims)) + 1)
          /\ SubSeq(ManySeen(claims'), 1, Len(ManySeen(claims))) = ManySeen(claims)
          /\ \A i \in (Len(ManySeen(claims)) + 1) .. Len(ManySeen(claims')) :
               ManySeen(claims')[i] \in [id : 1 .. MaxWrites, state : {"open"}]
          /\ M!Passed(claims)' = M!Passed(claims)
          /\ [k \in DOMAIN handed' |-> handed'[k].id] = [k \in DOMAIN handed |-> handed[k].id]
    BY DEF M!Queue!Claim, ManySeen
  <2>5. QED
    BY <1>1, <1>22, <2>1, <2>2, <2>3, <2>4
<1>28. QED
  BY <1>11, <1>16, <1>18, <1>19, <1>23, <1>25, <1>26, <1>27 DEF ManyRingInv

-----------------------------------------------------------------------------
(* The producer writes. *)

LEMMA ManyStoreOne ==
  ASSUME M!RingBufferAssumption, ManyRingInv, NEW a \in head .. (head + C - 1), NEW v,
         buffer' = [buffer EXCEPT ![a % C] = v], NEW p \in head .. (head + C - 1)
  PROVE  buffer'[p % C] = IF p = a THEN v ELSE buffer[p % C]
<1>1. C \in Nat \ {0} /\ head \in Nat /\ buffer \in [0 .. (C - 1) -> M!Cells]
  BY Numbers DEF ManyRingInv, ManyBufferType
<1>2. a \in Nat /\ p \in Nat
  BY <1>1
<1>3. a % C \in 0 .. (C - 1) /\ p % C \in 0 .. (C - 1)
  BY <1>2, ManyPlaceInBuffer
<1>4. CASE p = a
  BY <1>1, <1>3, <1>4
<1>5. CASE p # a
  <2>1. p % C # a % C
    <3>1. CASE p < a
      <4>1. a < p + C
        BY <1>1
      <4>2. QED
        BY <1>1, <1>2, <3>1, <4>1, OnePlaceEach
    <3>2. CASE a < p
      <4>1. p < a + C
        BY <1>1
      <4>2. QED
        BY <1>1, <1>2, <3>2, <4>1, OnePlaceEach
    <3>3. QED
      BY <1>2, <1>5, <3>1, <3>2
  <2>2. QED
    BY <1>1, <1>3, <1>5, <2>1
<1>6. QED
  BY <1>4, <1>5

(* Two claims have no position in common. *)
LEMMA ClaimsApart ==
  ASSUME M!RingBufferAssumption, ManyRingInv, NEW i \in 1 .. Claimed, NEW j \in 1 .. Claimed, i # j,
         NEW q \in Nat, Within(claims, i, q)
  PROVE  ~Within(claims, j, q)
<1>1. /\ claims[i].end \in Nat /\ Begin(claims, i) \in Nat /\ claims[j].end \in Nat
      /\ Begin(claims, j) \in Nat
  BY ClaimFacts
<1>2. CASE i < j
  <2>1. claims[i].end <= Begin(claims, j)
    BY <1>2, ClaimOrder
  <2>2. QED
    BY <1>1, <2>1 DEF Within
<1>3. CASE j < i
  <2>1. claims[j].end <= Begin(claims, i)
    BY <1>3, ClaimOrder
  <2>2. QED
    BY <1>1, <2>1 DEF Within
<1>4. QED
  BY <1>2, <1>3

(* A step of the producer p that writes to its open claim x, in front of   *)
(* the consumer, or closes it.                                             *)
LEMMA WriterStep ==
  ASSUME M!RingBufferAssumption, ManyRingInv, NEW p \in Producers, NEW x \in 1 .. Claimed,
         claims[x].by = p, claims[x].state = "open",
         tail' = tail, headCache' = headCache, head' = head, UNCHANGED M!Others,
         claims' \in Seq(ManyClaimRecord), Claimed' = Claimed,
         \A i \in 1 .. Claimed : i # x => claims'[i] = claims[i],
         claims'[x].id = claims[x].id, claims'[x].by = p, claims'[x].at = claims[x].at,
         claims'[x].end = claims[x].end,
         Locals', Apart(p), Knows(p)',
         claims'[x].state = "open" =>
           /\ pc'[p] \in M!Writing \ {"pad"} /\ msg'[p] = msg[p] /\ req'[p] = req[p]
           /\ pTail'[p] = pTail[p] /\ pad'[p] = pad[p],
         buffer' \in [0 .. (C - 1) -> M!Cells],
         \A q \in head .. (head + C - 1) :
           q < At \/ ~Within(claims, x, q) => buffer'[q % C] = buffer[q % C],
         ManyRecorded(x)', Padded(x)'
  PROVE  ManyRingInv' /\ \A i \in 1 .. (Claimed + 1) : Begin(claims', i) = Begin(claims, i)
<1>1. /\ reader' = reader /\ rHead' = rHead /\ bytesRead' = bytesRead /\ handed' = handed
      /\ UNCHANGED M!unblockVars
  BY DEF M!Others, M!readerVars
<1>2. At' = At /\ Gone' = Gone
  BY <1>1 DEF At, Gone
<1>3. /\ C \in Nat \ {0} /\ head \in Nat /\ tail \in Nat /\ Gone \in Nat /\ head <= Gone
      /\ Gone <= At /\ At <= tail /\ tail <= head + C /\ Claimed \in Nat /\ At \in Nat
  BY Numbers
<1>4. \A i \in 1 .. Claimed : claims'[i].at = claims[i].at /\ claims'[i].end = claims[i].end
  OBVIOUS
<1>5. /\ \A i \in 1 .. (Claimed + 1) : Begin(claims', i) = Begin(claims, i)
      /\ Chain(claims') /\ Covered(claims')
  <2> DEFINE ds == claims'
  <2>1. /\ ds \in Seq(ManyClaimRecord) /\ Len(ds) = Len(claims)
        /\ \A i \in 1 .. Len(claims) : ds[i].at = claims[i].at /\ ds[i].end = claims[i].end
    BY <1>4 DEF Claimed
  <2>2. Chain(claims) /\ Covered(claims) /\ claims \in Seq(ManyClaimRecord)
    BY DEF ManyRingInv, ManyBufferType
  <2> HIDE DEF ds
  <2>3. \A i \in 1 .. (Len(claims) + 1) : Begin(ds, i) = Begin(claims, i)
    BY <2>1, <2>2, ManyChainStays, Zenon
  <2>4. Chain(ds)
    BY <2>1, <2>2, ManyChainStays, Zenon
  <2>5. Covered(ds)
    BY <2>1, <2>2, CoveredStays, Zenon
  <2>6. QED
    BY <2>3, <2>4, <2>5 DEF ds, Claimed
<1>6. \A i \in 1 .. Claimed : i \in 1 .. (Claimed + 1)
  BY <1>3
<1>7. ManyBufferType'
  BY <1>1 DEF ManyRingInv, ManyBufferType, M!unblockVars
<1>8. ASSUME NEW i \in 1 .. Claimed, i # x, claims[i].state = "open"
      PROVE  claims[i].by \in Producers /\ claims[i].by # p
  <2>1. claims[i].by \in Producers
    BY ClaimFacts
  <2>2. QED
    BY <1>8, <2>1 DEF ManyRingInv, ManyProducing
<1>9. ManyProducing'
  <2>1. ASSUME NEW q \in Producers PROVE Knows(q)'
    <3>1. CASE q = p
      BY <3>1
    <3>2. CASE q # p
      <4>1. head' \in Nat /\ head <= head'
        BY <1>3
      <4>2. ASSUME pc[q] \in M!Writing
            PROVE  \E i \in 1 .. Claimed' : claims'[i].by = q /\ claims'[i].state = "open"
        <5>1. PICK i \in 1 .. Claimed : claims[i].by = q /\ claims[i].state = "open"
          BY <4>2 DEF ManyRingInv, ManyProducing, Knows
        <5>2. i # x
          BY <3>2, <5>1
        <5>3. QED
          BY <5>1, <5>2
      <4>3. QED
        BY <3>2, <4>1, <4>2, KnowsKept DEF Apart
    <3>3. QED
      BY <3>1, <3>2
  <2>2. ASSUME NEW i \in 1 .. Claimed PROVE Owned(i)'
    <3>1. Owned(i) /\ Begin(claims', i) = Begin(claims, i)
      BY <1>5, <1>6 DEF ManyRingInv, ManyProducing
    <3>2. SUFFICES ASSUME claims'[i].state = "open" PROVE Owned(i)'
      BY DEF Owned
    <3>3. CASE i = x
      <4>1. /\ Begin(claims, x) = pTail[p] /\ claims[x].at = pTail[p] + pad[p]
            /\ claims[x].end = claims[x].at + req[p] /\ claims[x].id = msg[p] /\ At <= claims[x].at
        BY OpenFacts
      <4>2. QED
        BY <1>2, <3>1, <3>2, <3>3, <4>1 DEF Owned
    <3>4. CASE i # x
      <4>1. claims'[i] = claims[i] /\ claims[i].state = "open"
        BY <3>2, <3>4
      <4>2. claims[i].by \in Producers /\ claims[i].by # p
        BY <1>8, <3>4, <4>1
      <4>3. QED
        BY <1>2, <3>1, <4>1, <4>2 DEF Owned, Apart
    <3>5. QED
      BY <3>3, <3>4
  <2>3. ASSUME NEW i \in 1 .. Claimed, NEW j \in 1 .. Claimed, claims'[i].state = "open",
               claims'[j].state = "open", claims'[i].by = claims'[j].by
        PROVE  i = j
    <3>1. ASSUME NEW y \in 1 .. Claimed, claims'[y].state = "open"
          PROVE  claims[y].state = "open" /\ claims'[y].by = claims[y].by
      BY <3>1
    <3>2. QED
      BY <2>3, <3>1 DEF ManyRingInv, ManyProducing
  <2>4. QED
    BY <2>1, <2>2, <2>3 DEF ManyProducing
<1>10. ManyRoom'
  <2>1. Claimed + 1 \in 1 .. (Claimed + 1)
    BY <1>3
  <2>2. QED
    BY <1>2, <1>5, <2>1 DEF ManyRingInv, ManyRoom
<1>11. Reading'
  <2>1. PICK m \in 0 .. Claimed : Mark(claims, At, m)
    BY DEF ManyRingInv, Reading
  <2>2. Mark(claims', At, m)
    <3> DEFINE ds == claims'
    <3>1. /\ claims \in Seq(ManyClaimRecord) /\ ds \in Seq(ManyClaimRecord) /\ Len(claims) <= Len(ds)
          /\ \A i \in 1 .. (Len(claims) + 1) : Begin(ds, i) = Begin(claims, i)
          /\ \A i \in 1 .. Len(claims) : ds[i].at = claims[i].at
          /\ m \in 0 .. Len(claims)
      BY <1>3, <1>4, <1>5 DEF ManyRingInv, ManyBufferType, Claimed
    <3> HIDE DEF ds
    <3>2. Mark(ds, At, m)
      BY <2>1, <3>1, MarkKept
    <3>3. QED
      BY <3>2 DEF ds
  <2>3. QED
    BY <1>1, <1>2, <2>1, <2>2 DEF ManyRingInv, Reading
<1>12. ManyContents'
  <2>1. ASSUME NEW i \in 1 .. Claimed, i # x PROVE ManyRecorded(i)' /\ Padded(i)'
    <3>1. claims'[i] = claims[i] /\ Begin(claims', i) = Begin(claims, i)
      BY <1>5, <1>6, <2>1
    <3>2. Stage(i)' = Stage(i)
      BY <1>8, <2>1, <3>1 DEF Stage, Apart
    <3>3. Gone' \in Nat /\ Gone <= Gone' /\ Claimed' \in Nat /\ Claimed <= Claimed'
      BY <1>2, <1>3
    <3>4. \A q \in head .. (tail - 1) : Within(claims, i, q) => buffer'[q % C] = buffer[q % C]
      <4> SUFFICES ASSUME NEW q \in head .. (tail - 1), Within(claims, i, q)
                   PROVE  buffer'[q % C] = buffer[q % C]
        OBVIOUS
      <4>1. q \in head .. (head + C - 1) /\ q \in Nat
        BY <1>3
      <4>2. ~Within(claims, x, q)
        BY <2>1, <4>1, ClaimsApart
      <4>3. QED
        BY <4>1, <4>2
    <3>5. \A j \in 1 .. Claimed : claims[j].state = "void" => claims'[j] = claims[j]
      OBVIOUS
    <3>6. QED
      BY <3>1, <3>2, <3>3, <3>4, <3>5, ClaimKept
  <2>2. ManyBlank'
    <3>1. ASSUME NEW q \in tail .. (head + C - 1) PROVE buffer'[q % C] = M!Zero
      <4>1. q \in head .. (head + C - 1) /\ claims[x].end <= tail /\ claims[x].end \in Nat
        BY <1>3, ClaimFacts
      <4>2. ~Within(claims, x, q)
        BY <1>3, <4>1 DEF Within
      <4>3. buffer[q % C] = M!Zero
        BY DEF ManyRingInv, ManyContents, ManyBlank, Cell
      <4>4. QED
        BY <4>1, <4>2, <4>3
    <3>2. ASSUME NEW q \in head .. (Gone - 1) PROVE buffer'[q % C] = M!Zero
      <4>1. q \in head .. (head + C - 1) /\ q < At
        BY <1>3
      <4>2. buffer[q % C] = M!Zero
        BY DEF ManyRingInv, ManyContents, ManyBlank, Cell
      <4>3. QED
        BY <4>1, <4>2
    <3>3. QED
      BY <1>2, <3>1, <3>2 DEF ManyBlank, Cell
  <2>3. QED
    BY <2>1, <2>2 DEF ManyContents
<1>13. Unblocking'
  BY <1>1, UnblockKept
<1>14. QED
  BY <1>5, <1>7, <1>9, <1>10, <1>11, <1>12, <1>13 DEF ManyRingInv


(* The claim a producer is writing. *)
LEMMA ClaimOf ==
  ASSUME M!RingBufferAssumption, ManyRingInv, NEW p \in Producers, pc[p] \in M!Writing
  PROVE  \E x \in 1 .. Claimed : claims[x].by = p /\ claims[x].state = "open"
BY DEF ManyRingInv, ManyProducing, Knows

(* Where an open claim lies: in front of the consumer, within a lap. *)
LEMMA OpenPlace ==
  ASSUME M!RingBufferAssumption, ManyRingInv, NEW x \in 1 .. Claimed, claims[x].state = "open"
  PROVE  /\ claims[x].at \in head .. (head + C - 1) /\ claims[x].at \in Nat /\ At <= claims[x].at
         /\ \A k \in 0 .. (Size(x) - 1) :
              /\ claims[x].at + k \in head .. (head + C - 1) /\ claims[x].at + k < claims[x].end
              /\ (claims[x].at + k) % C = (claims[x].at % C) + k
         /\ Begin(claims, x) \in Nat
         /\ Begin(claims, x) < claims[x].at /\ head <= Begin(claims, x) =>
              Begin(claims, x) \in head .. (head + C - 1)
<1>1. /\ C \in Nat \ {0} /\ head \in Nat /\ tail \in Nat /\ head <= At /\ tail <= head + C /\ At \in Nat
  BY Numbers
<1>2. /\ claims[x].at \in Nat /\ claims[x].end \in Nat /\ claims[x].by \in Producers
      /\ Begin(claims, x) \in Nat /\ Begin(claims, x) <= claims[x].at /\ claims[x].at < claims[x].end
      /\ claims[x].end <= tail /\ Size(x) = claims[x].end - claims[x].at
      /\ (claims[x].at % C) + Size(x) <= C
  BY ClaimFacts
<1>3. At <= claims[x].at
  BY <1>2, OpenFacts
<1>4. claims[x].at % C \in 0 .. (C - 1)
  BY <1>2, ManyPlaceInBuffer
<1>5. ASSUME NEW k \in 0 .. (Size(x) - 1)
      PROVE  /\ claims[x].at + k \in head .. (head + C - 1) /\ claims[x].at + k < claims[x].end
             /\ (claims[x].at + k) % C = (claims[x].at % C) + k
  <2>1. claims[x].at + k \in head .. (head + C - 1) /\ claims[x].at + k < claims[x].end
    BY <1>1, <1>2, <1>3
  <2>2. k \in 0 .. (C - 1) /\ (claims[x].at % C) + k < C
    BY <1>1, <1>2, <1>4
  <2>3. (claims[x].at + k) % C = IF (claims[x].at % C) + k < C THEN (claims[x].at % C) + k
                                 ELSE (claims[x].at % C) + k - C
    BY <1>1, <1>2, <2>2, PlaceAfter
  <2>4. QED
    BY <2>1, <2>2, <2>3
<1>6. QED
  BY <1>1, <1>2, <1>3, <1>5

LEMMA ManyPaddingStep ==
  ASSUME M!RingBufferAssumption, ManyRingInv, NEW p \in Producers, M!WritePadding(p)
  PROVE  ManyRingInv' /\ UNCHANGED M!Queue!vars
<1>1. /\ pc[p] = "pad" /\ pc' = [pc EXCEPT ![p] = "header"]
      /\ buffer' = [buffer EXCEPT ![pTail[p] % C] = M!makeHeader(pad[p], M!PADDING_MSG_TYPE_ID)]
      /\ UNCHANGED <<tail, headCache, head, msg, req, pHead, pTail, pad, ids, claims, M!Others>>
  BY DEF M!WritePadding, M!Goto, M!IndexOf, C
<1>2. PICK x \in 1 .. Claimed : claims[x].by = p /\ claims[x].state = "open"
  BY <1>1, ClaimOf DEF M!Writing
<1> DEFINE a == claims[x].at
           b == Begin(claims, x)
<1>3. /\ b = pTail[p] /\ a = pTail[p] + pad[p] /\ pad[p] > 0 /\ At <= b /\ Stage(x) = "pad"
      /\ pTail[p] \in Nat /\ pad[p] \in Nat
  BY <1>1, <1>2, OpenFacts
<1>4. /\ C \in Nat \ {0} /\ head \in Nat /\ tail \in Nat /\ head <= At /\ tail <= head + C /\ At \in Nat
      /\ Gone <= At /\ Gone \in Nat
  BY Numbers
<1>5. /\ a \in Nat /\ b \in Nat /\ b < a /\ a < claims[x].end /\ claims[x].end \in Nat
      /\ claims[x].end <= tail
  BY <1>3, ClaimFacts
<1>6. b \in head .. (head + C - 1)
  BY <1>3, <1>4, <1>5
<1>7. \A q \in head .. (head + C - 1) :
        buffer'[q % C] = IF q = b THEN M!makeHeader(pad[p], M!PADDING_MSG_TYPE_ID) ELSE buffer[q % C]
  BY <1>1, <1>3, <1>6, ManyStoreOne
<1>8. reader' = reader /\ bytesRead' = bytesRead /\ handed' = handed /\ rHead' = rHead
  BY <1>1 DEF M!Others, M!readerVars
<1>9. Gone' = Gone /\ Begin(claims, x)' = b /\ Size(x)' = Size(x)
  BY <1>1, <1>8 DEF Gone, At, Begin, Size
<1>10. Locals
  BY DEF ManyRingInv, ManyBufferType
<1>11. Locals' /\ Apart(p) /\ pc'[p] = "header" /\ Stage(x)' = "header"
  BY <1>1, <1>2, <1>10 DEF Locals, M!Steps, M!Writing, Apart, Stage
<1>12. Knows(p)'
  <2>1. req[p] > 0 /\ msg[p] \in 1 .. MaxWrites /\ pHead[p] <= head
    BY <1>1 DEF ManyRingInv, ManyProducing, Knows
  <2>2. Claimed' = Claimed
    BY <1>1 DEF Claimed
  <2>3. QED
    BY <1>1, <1>2, <1>11, <2>1, <2>2 DEF Knows, Wrapping
<1>13. ManyRecorded(x)'
  <2>1. Gone <= a
    BY <1>3, <1>4, <1>5
  <2>2. ManyRecorded(x)
    BY DEF ManyRingInv, ManyContents
  <2>3. ASSUME NEW k \in 0 .. (Size(x) - 1) PROVE buffer'[(a + k) % C] = M!Zero
    <3>1. Cell(a + k) = Written(x, k)
      BY <1>3, <2>1, <2>2 DEF ManyRecorded
    <3>2. Written(x, k) = M!Zero
      BY <1>3 DEF Written
    <3>3. a + k \in head .. (head + C - 1) /\ a + k # b
      <4>1. a + k \in head .. (head + C - 1)
        BY <1>2, OpenPlace
      <4>2. QED
        BY <1>5, <4>1
    <3>4. QED
      BY <1>7, <3>1, <3>2, <3>3 DEF Cell
  <2>4. \A k : Written(x, k)' = M!Zero
    BY <1>11 DEF Written
  <2>5. QED
    BY <1>1, <1>9, <1>11, <2>3, <2>4 DEF ManyRecorded, Cell
<1>14. Padded(x)'
  <2>1. buffer'[b % C] = M!makeHeader(pad[p], M!PADDING_MSG_TYPE_ID) /\ a - b = pad[p]
    BY <1>3, <1>5, <1>6, <1>7
  <2>2. QED
    BY <1>1, <1>9, <1>11, <2>1 DEF Padded, Cell
<1>15. buffer' \in [0 .. (C - 1) -> M!Cells]
  <2>1. buffer \in [0 .. (C - 1) -> M!Cells]
    BY DEF ManyRingInv, ManyBufferType
  <2>2. M!makeHeader(pad[p], M!PADDING_MSG_TYPE_ID) \in M!Cells
    BY <1>3 DEF M!makeHeader, M!Cells, M!PADDING_MSG_TYPE_ID
  <2>3. QED
    BY <1>1, <2>1, <2>2
<1>16. \A q \in head .. (head + C - 1) :
         q < At \/ ~Within(claims, x, q) => buffer'[q % C] = buffer[q % C]
  <2>1. Within(claims, x, b) /\ ~(b < At)
    BY <1>3, <1>4, <1>5 DEF Within
  <2>2. QED
    BY <1>7, <2>1
<1>17. ManyRingInv'
  <2>1. claims' = claims /\ claims' \in Seq(ManyClaimRecord) /\ Claimed' = Claimed
    BY <1>1 DEF ManyRingInv, ManyBufferType, Claimed
  <2>2. pc'[p] \in M!Writing \ {"pad"}
    BY <1>11 DEF M!Writing
  <2>3. QED
    BY <1>1, <1>2, <1>11, <1>12, <1>13, <1>14, <1>15, <1>16, <2>1, <2>2, WriterStep
<1>18. QED
  BY <1>1, <1>8, <1>17, ManyQueueKeeps DEF M!Consumed

(* The step from one stage of a record to the next. *)
LEMMA RecordingStep ==
  ASSUME M!RingBufferAssumption, ManyRingInv, NEW p \in Producers, NEW x \in 1 .. Claimed,
         claims[x].by = p, claims[x].state = "open", pc[p] \in {"header", "bytes"},
         NEW s \in {"bytes", "length"}, pc' = [pc EXCEPT ![p] = s],
         UNCHANGED <<tail, headCache, head, msg, req, pHead, pTail, pad, ids, claims, M!Others>>,
         buffer' \in [0 .. (C - 1) -> M!Cells],
         \A q \in head .. (head + C - 1) :
           q \notin claims[x].at .. (claims[x].end - 1) => buffer'[q % C] = buffer[q % C],
         \A k \in 0 .. (Size(x) - 1) : buffer'[(claims[x].at + k) % C] = Written(x, k)'
  PROVE  ManyRingInv' /\ UNCHANGED M!Queue!vars
<1> DEFINE a == claims[x].at
           b == Begin(claims, x)
<1>1. Stage(x) = pc[p] /\ At <= a
  BY OpenFacts
<1>2. /\ C \in Nat \ {0} /\ head \in Nat /\ head <= At /\ At \in Nat /\ Gone \in Nat /\ head <= Gone
  BY Numbers
<1>3. /\ a \in Nat /\ b \in Nat /\ b <= a /\ a < claims[x].end /\ claims[x].end \in Nat
  BY ClaimFacts
<1>4. reader' = reader /\ bytesRead' = bytesRead /\ handed' = handed /\ rHead' = rHead
  BY DEF M!Others, M!readerVars
<1>5. Gone' = Gone /\ Begin(claims, x)' = b /\ Size(x)' = Size(x)
  BY <1>4 DEF Gone, At, Begin, Size
<1>6. Locals
  BY DEF ManyRingInv, ManyBufferType
<1>7. Locals' /\ Apart(p) /\ pc'[p] = s /\ Stage(x)' = s
  BY <1>6 DEF Locals, M!Steps, M!Writing, Apart, Stage
<1>8. Knows(p)'
  <2>1. req[p] > 0 /\ msg[p] \in 1 .. MaxWrites /\ pHead[p] <= head
    BY DEF ManyRingInv, ManyProducing, Knows
  <2>2. Claimed' = Claimed
    BY DEF Claimed
  <2>3. QED
    BY <1>7, <2>1, <2>2 DEF Knows, Wrapping
<1>9. ManyRecorded(x)'
  BY <1>5, <1>7 DEF ManyRecorded, Cell
<1>10. Padded(x)'
  <2> SUFFICES ASSUME Gone <= b, b < a
               PROVE  buffer'[b % C] = M!makeHeader(a - b, M!PADDING_MSG_TYPE_ID)
    BY <1>5, <1>7 DEF Padded, Cell
  <2>1. b \in head .. (head + C - 1) /\ b \notin a .. (claims[x].end - 1)
    <3>1. head <= b
      BY <1>2, <1>3
    <3>2. b \in head .. (head + C - 1)
      BY <3>1, OpenPlace
    <3>3. QED
      BY <1>3, <3>2
  <2>2. buffer[b % C] = M!makeHeader(a - b, M!PADDING_MSG_TYPE_ID)
    BY <1>1 DEF ManyRingInv, ManyContents, Padded, Cell
  <2>3. QED
    BY <2>1, <2>2
<1>11. \A q \in head .. (head + C - 1) :
         q < At \/ ~Within(claims, x, q) => buffer'[q % C] = buffer[q % C]
  <2> SUFFICES ASSUME NEW q \in head .. (head + C - 1), q < At \/ ~Within(claims, x, q)
               PROVE  q \notin a .. (claims[x].end - 1)
    OBVIOUS
  <2>1. QED
    BY <1>1, <1>2, <1>3 DEF Within
<1>12. ManyRingInv'
  <2>1. claims' = claims /\ claims' \in Seq(ManyClaimRecord) /\ Claimed' = Claimed
    BY DEF ManyRingInv, ManyBufferType, Claimed
  <2>2. pc'[p] \in M!Writing \ {"pad"}
    BY <1>7 DEF M!Writing
  <2>3. QED
    BY <1>7, <1>8, <1>9, <1>10, <1>11, <2>1, <2>2, WriterStep
<1>13. QED
  BY <1>4, <1>12, ManyQueueKeeps DEF M!Consumed

LEMMA ManyHeaderStep ==
  ASSUME M!RingBufferAssumption, ManyRingInv, NEW p \in Producers, M!WriteHeader(p)
  PROVE  ManyRingInv' /\ UNCHANGED M!Queue!vars
<1>1. /\ pc[p] = "header" /\ pc' = [pc EXCEPT ![p] = "bytes"]
      /\ buffer' = [buffer EXCEPT ![M!RecordIndex(p)] = M!makeHeader(-req[p], msg[p])]
      /\ UNCHANGED <<tail, headCache, head, msg, req, pHead, pTail, pad, ids, claims, M!Others>>
  BY DEF M!WriteHeader, M!Goto
<1>2. PICK x \in 1 .. Claimed : claims[x].by = p /\ claims[x].state = "open"
  BY <1>1, ClaimOf DEF M!Writing
<1> DEFINE a == claims[x].at
           v == M!makeHeader(-req[p], msg[p])
<1>3. /\ Stage(x) = "header" /\ Size(x) = req[p] /\ claims[x].id = msg[p] /\ M!RecordIndex(p) = a % C
      /\ At <= a /\ req[p] \in Nat /\ msg[p] \in Nat
  BY <1>1, <1>2, OpenFacts
<1>4. a \in head .. (head + C - 1) /\ a \in Nat
  BY <1>2, OpenPlace
<1>5. \A q \in head .. (head + C - 1) : buffer'[q % C] = IF q = a THEN v ELSE buffer[q % C]
  BY <1>1, <1>3, <1>4, ManyStoreOne
<1>6. /\ head \in Nat /\ Gone <= At /\ At \in Nat /\ Gone \in Nat /\ a < claims[x].end
      /\ claims[x].end \in Nat /\ Size(x) = claims[x].end - a
  BY Numbers, ClaimFacts
<1>7. buffer' \in [0 .. (C - 1) -> M!Cells]
  <2>1. buffer \in [0 .. (C - 1) -> M!Cells]
    BY DEF ManyRingInv, ManyBufferType
  <2>2. v \in M!Cells
    BY <1>3 DEF M!makeHeader, M!Cells
  <2>3. QED
    BY <1>1, <2>1, <2>2
<1>8. \A q \in head .. (head + C - 1) :
        q \notin a .. (claims[x].end - 1) => buffer'[q % C] = buffer[q % C]
  <2>1. a \in a .. (claims[x].end - 1)
    BY <1>4, <1>6
  <2>2. QED
    BY <1>5, <2>1
<1>9. Stage(x)' = "bytes" /\ Size(x)' = Size(x)
  <2>1. pc \in [Producers -> M!Steps]
    BY DEF ManyRingInv, ManyBufferType, Locals
  <2>2. QED
    BY <1>1, <1>2, <2>1 DEF Stage, Size
<1>10. ASSUME NEW k \in 0 .. (Size(x) - 1)
       PROVE  buffer'[(a + k) % C] = Written(x, k)'
  <2>1. a + k \in head .. (head + C - 1)
    BY <1>2, OpenPlace
  <2>2. CASE k = 0
    <3>1. a + k = a
      BY <1>4, <2>2
    <3>2. Written(x, k)' = v
      BY <1>1, <1>3, <1>9, <2>2 DEF Written
    <3>3. QED
      BY <1>5, <2>1, <3>1, <3>2
  <2>3. CASE k # 0
    <3>1. a + k # a
      BY <1>4, <2>3
    <3>2. Written(x, k)' = M!Zero /\ Written(x, k) = M!Zero
      BY <1>3, <1>9, <2>3 DEF Written
    <3>3. Cell(a + k) = Written(x, k)
      <4>1. Gone <= a
        BY <1>3, <1>4, <1>6
      <4>2. QED
        BY <1>3, <4>1 DEF ManyRingInv, ManyContents, ManyRecorded
    <3>4. QED
      BY <1>5, <2>1, <3>1, <3>2, <3>3 DEF Cell
  <2>4. QED
    BY <2>2, <2>3
<1>11. QED
  BY <1>1, <1>2, <1>7, <1>8, <1>10, RecordingStep

LEMMA ManyBytesStep ==
  ASSUME M!RingBufferAssumption, ManyRingInv, NEW p \in Producers, M!WriteBytes(p)
  PROVE  ManyRingInv' /\ UNCHANGED M!Queue!vars
<1>1. /\ pc[p] = "bytes" /\ pc' = [pc EXCEPT ![p] = "length"]
      /\ buffer' = [i \in DOMAIN buffer |->
                      IF i \in (M!RecordIndex(p) + 1) .. (M!RecordIndex(p) + req[p] - 1)
                      THEN M!MsgUnit(msg[p]) ELSE buffer[i]]
      /\ UNCHANGED <<tail, headCache, head, msg, req, pHead, pTail, pad, ids, claims, M!Others>>
  BY DEF M!WriteBytes, M!Goto
<1>2. PICK x \in 1 .. Claimed : claims[x].by = p /\ claims[x].state = "open"
  BY <1>1, ClaimOf DEF M!Writing
<1> DEFINE a == claims[x].at
<1>3. /\ Stage(x) = "bytes" /\ Size(x) = req[p] /\ claims[x].id = msg[p] /\ M!RecordIndex(p) = a % C
      /\ At <= a /\ req[p] \in Nat /\ msg[p] \in Nat
  BY <1>1, <1>2, OpenFacts
<1>4. a \in head .. (head + C - 1) /\ a \in Nat
  BY <1>2, OpenPlace
<1>5. /\ head \in Nat /\ Gone <= At /\ At \in Nat /\ Gone \in Nat /\ a < claims[x].end
      /\ claims[x].end \in Nat /\ Size(x) = claims[x].end - a /\ C \in Nat \ {0}
      /\ tail <= head + C /\ tail \in Nat /\ claims[x].end <= tail /\ (a % C) + Size(x) <= C
  BY Numbers, ClaimFacts
<1>6. buffer \in [0 .. (C - 1) -> M!Cells]
  BY DEF ManyRingInv, ManyBufferType
<1>7. buffer' \in [0 .. (C - 1) -> M!Cells]
  <2>1. M!MsgUnit(msg[p]) \in M!Cells
    BY <1>3, <1>5 DEF M!MsgUnit, M!Cells, C
  <2>2. QED
    BY <1>1, <1>6, <2>1
<1>8. ASSUME NEW q \in head .. (head + C - 1)
      PROVE  buffer'[q % C] = IF q \in (a + 1) .. (claims[x].end - 1) THEN M!MsgUnit(msg[p])
                              ELSE buffer[q % C]
  <2>1. q % C \in 0 .. (C - 1) /\ a % C \in 0 .. (C - 1)
    <3>1. q \in Nat
      BY <1>5
    <3>2. QED
      BY <1>4, <3>1, ManyPlaceInBuffer
  <2>2. (q % C) \in (a % C) .. ((a % C) + Size(x) - 1) <=> q \in a .. (a + Size(x) - 1)
    <3>1. a \in head .. (head + C) /\ a + Size(x) <= head + C /\ Size(x) \in Nat
      BY <1>4, <1>5
    <3>2. QED
      BY <1>5, <3>1, Stretch
  <2>3. q # a => q % C # a % C
    <3>1. CASE q < a
      <4>1. a < q + C /\ q \in Nat
        BY <1>4, <1>5
      <4>2. QED
        BY <1>4, <1>5, <3>1, <4>1, OnePlaceEach
    <3>2. CASE a < q
      <4>1. q < a + C /\ q \in Nat
        BY <1>4, <1>5
      <4>2. QED
        BY <1>4, <1>5, <3>2, <4>1, OnePlaceEach
    <3>3. QED
      BY <1>4, <1>5, <3>1, <3>2
  <2>4. (q % C) \in ((a % C) + 1) .. ((a % C) + Size(x) - 1) <=> q \in (a + 1) .. (claims[x].end - 1)
    <3> DEFINE y == q % C
               z == a % C
               n == Size(x)
               e == claims[x].end
    <3>1. y \in Nat /\ z \in Nat /\ n = e - a /\ e \in Nat /\ a \in Nat /\ q \in Nat /\ n \in Nat
      BY <1>4, <1>5, <2>1
    <3>2. /\ y \in z .. (z + n - 1) <=> q \in a .. (a + n - 1)
          /\ q = a <=> y = z
      BY <2>2, <2>3
    <3> HIDE DEF y, z, n, a, e
    <3>3. y \in (z + 1) .. (z + n - 1) <=> q \in (a + 1) .. (e - 1)
      BY <3>1, <3>2
    <3>4. QED
      BY <3>3 DEF y, z, n, a, e
  <2>5. QED
    BY <1>1, <1>3, <1>6, <2>1, <2>4
<1>9. \A q \in head .. (head + C - 1) :
        q \notin a .. (claims[x].end - 1) => buffer'[q % C] = buffer[q % C]
  <2>1. \A q \in head .. (head + C - 1) : q \in (a + 1) .. (claims[x].end - 1) => q \in a .. (claims[x].end - 1)
    BY <1>4, <1>5
  <2>2. QED
    BY <1>8, <2>1
<1>10. Stage(x)' = "length" /\ Size(x)' = Size(x)
  <2>1. pc \in [Producers -> M!Steps]
    BY DEF ManyRingInv, ManyBufferType, Locals
  <2>2. QED
    BY <1>1, <1>2, <2>1 DEF Stage, Size
<1>11. ASSUME NEW k \in 0 .. (Size(x) - 1)
       PROVE  buffer'[(a + k) % C] = Written(x, k)'
  <2>1. a + k \in head .. (head + C - 1)
    BY <1>2, OpenPlace
  <2>2. CASE k = 0
    <3>1. a + k \notin (a + 1) .. (claims[x].end - 1)
      BY <1>4, <1>5, <2>2
    <3>2. Written(x, k)' = Written(x, k)
      BY <1>1, <1>3, <1>10, <2>2 DEF Written
    <3>3. Cell(a + k) = Written(x, k)
      <4>1. Gone <= a
        BY <1>3, <1>4, <1>5
      <4>2. QED
        BY <1>3, <4>1 DEF ManyRingInv, ManyContents, ManyRecorded
    <3>4. QED
      BY <1>8, <2>1, <3>1, <3>2, <3>3 DEF Cell
  <2>3. CASE k # 0
    <3>1. a + k \in (a + 1) .. (claims[x].end - 1)
      BY <1>4, <1>5, <2>3
    <3>2. Written(x, k)' = M!MsgUnit(msg[p])
      BY <1>1, <1>3, <1>10, <2>3 DEF Written
    <3>3. QED
      BY <1>8, <2>1, <3>1, <3>2
  <2>4. QED
    BY <2>2, <2>3
<1>12. QED
  BY <1>1, <1>2, <1>7, <1>9, <1>11, RecordingStep

-----------------------------------------------------------------------------
(* A claim is closed: its record is complete, or its producer is gone. *)

LEMMA Closing ==
  ASSUME M!RingBufferAssumption, ManyRingInv, NEW p \in Producers, NEW x \in 1 .. Claimed,
         claims[x].by = p, claims[x].state = "open", NEW s \in {"done", "void"}, M!CloseClaim(p, s)
  PROVE  /\ claims' \in Seq(ManyClaimRecord) /\ Claimed' = Claimed
         /\ \A i \in 1 .. Claimed : i # x => claims'[i] = claims[i]
         /\ claims'[x].id = claims[x].id /\ claims'[x].by = p /\ claims'[x].at = claims[x].at
         /\ claims'[x].end = claims[x].end /\ claims'[x].state = s
         /\ \A i \in 1 .. Claimed : Begin(claims', i) = Begin(claims, i)
<1>1. claims \in Seq(ManyClaimRecord) /\ Claimed = Len(claims) /\ Claimed \in Nat
  BY Numbers DEF ManyRingInv, ManyBufferType, Claimed
<1>2. DOMAIN claims = 1 .. Claimed
  BY <1>1
<1>3. ASSUME NEW i \in 1 .. Claimed
      PROVE  claims[i].by = p /\ claims[i].state = "open" <=> i = x
  BY DEF ManyRingInv, ManyProducing
<1> DEFINE e == [claims[x] EXCEPT !.state = s]
<1>4. claims' = [i \in 1 .. Claimed |-> IF i = x THEN e ELSE claims[i]]
  <2>1. claims' = [i \in 1 .. Claimed |-> IF claims[i].by = p /\ claims[i].state = "open"
                                         THEN [claims[i] EXCEPT !.state = s] ELSE claims[i]]
    BY <1>2 DEF M!CloseClaim
  <2>2. ASSUME NEW i \in 1 .. Claimed
        PROVE  (IF claims[i].by = p /\ claims[i].state = "open"
                THEN [claims[i] EXCEPT !.state = s] ELSE claims[i])
                 = IF i = x THEN e ELSE claims[i]
    BY <1>3
  <2>3. QED
    BY <2>1, <2>2
<1>5. claims[x] \in ManyClaimRecord
  BY ClaimFacts
<1>6. /\ e \in ManyClaimRecord /\ e.id = claims[x].id /\ e.by = p /\ e.at = claims[x].at
      /\ e.end = claims[x].end /\ e.state = s
  BY <1>5 DEF ManyClaimRecord
<1> HIDE DEF e
<1>7. \A i \in 1 .. Claimed : (IF i = x THEN e ELSE claims[i]) \in ManyClaimRecord
  BY <1>6, ClaimFacts
<1>8. claims' \in Seq(ManyClaimRecord) /\ Claimed' = Claimed
  BY <1>1, <1>4, <1>7 DEF Claimed
<1>9. /\ \A i \in 1 .. Claimed : i # x => claims'[i] = claims[i]
      /\ claims'[x] = e
  BY <1>4
<1>10. \A i \in 1 .. Claimed : claims'[i].at = claims[i].at /\ claims'[i].end = claims[i].end
  BY <1>6, <1>9
<1>11. \A i \in 1 .. Claimed : Begin(claims', i) = Begin(claims, i)
  <2> DEFINE ds == claims'
  <2>1. /\ ds \in Seq(ManyClaimRecord) /\ Len(ds) = Len(claims)
        /\ \A i \in 1 .. Len(claims) : ds[i].at = claims[i].at /\ ds[i].end = claims[i].end
    BY <1>1, <1>8, <1>10 DEF Claimed
  <2> HIDE DEF ds
  <2>2. \A i \in 1 .. (Len(claims) + 1) : Begin(ds, i) = Begin(claims, i)
    BY <1>1, <2>1, ManyChainStays, Zenon
  <2>3. \A i \in 1 .. Claimed : i \in 1 .. (Len(claims) + 1)
    BY <1>1
  <2>4. QED
    BY <2>2, <2>3 DEF ds
<1>12. QED
  BY <1>6, <1>8, <1>9, <1>11

(* What the refinement sees of the claims, place by place. *)
LEMMA SeenIs ==
  ASSUME M!RingBufferAssumption, ManyRingInv
  PROVE  /\ Len(ManySeen(claims)) = Claimed
         /\ \A i \in 1 .. Claimed : ManySeen(claims)[i] = [id |-> claims[i].id, state |-> claims[i].state]
         /\ ManySeen(claims) = [i \in 1 .. Claimed |-> [id |-> claims[i].id, state |-> claims[i].state]]
<1>1. DOMAIN claims = 1 .. Claimed /\ Claimed \in Nat
  BY Numbers DEF ManyRingInv, ManyBufferType, Claimed
<1>2. ManySeen(claims) = [i \in 1 .. Claimed |-> [id |-> claims[i].id, state |-> claims[i].state]]
  BY <1>1 DEF ManySeen
<1>3. QED
  BY <1>1, <1>2

LEMMA QueueCloses ==
  ASSUME M!RingBufferAssumption, ManyRingInv, ManyRingInv', NEW x \in 1 .. Claimed, claims[x].state = "open",
         NEW s \in {"done", "void"}, Claimed' = Claimed,
         \A i \in 1 .. Claimed : i # x => claims'[i] = claims[i],
         claims'[x].id = claims[x].id, claims'[x].at = claims[x].at, claims'[x].state = s,
         \A i \in 1 .. (Claimed + 1) : Begin(claims', i) = Begin(claims, i),
         M!Consumed' = M!Consumed, handed' = handed
  PROVE  M!Queue!Close
<1>1. PICK m \in 0 .. Claimed : Mark(claims, At, m)
  BY DEF ManyRingInv, Reading
<1>2. claims \in Seq(ManyClaimRecord) /\ Chain(claims) /\ At \in Nat /\ Claimed = Len(claims) /\ Claimed \in Nat
  BY Numbers DEF ManyRingInv, ManyBufferType, Claimed
<1>3. m < x
  <2>1. claims[x].end <= At <=> x <= m
    BY <1>1, <1>2, ManyEndedIs
  <2>2. At <= claims[x].at /\ claims[x].at < claims[x].end /\ claims[x].at \in Nat /\ claims[x].end \in Nat
    BY OpenPlace, ClaimFacts
  <2>3. QED
    BY <1>2, <2>1, <2>2
<1>4. M!Passed(claims) = m /\ M!Passed(claims)' = m
  <2>1. claims' \in Seq(ManyClaimRecord) /\ Chain(claims') /\ Claimed <= Claimed'
    BY <1>2 DEF ManyRingInv, ManyBufferType
  <2>2. \A i \in 1 .. Claimed : claims'[i].at = claims[i].at
    OBVIOUS
  <2>3. QED
    BY <1>1, <2>1, <2>2, PassedKept
<1>5. /\ Len(ManySeen(claims)) = Claimed
      /\ \A i \in 1 .. Claimed : ManySeen(claims)[i] = [id |-> claims[i].id, state |-> claims[i].state]
      /\ ManySeen(claims) = [i \in 1 .. Claimed |-> [id |-> claims[i].id, state |-> claims[i].state]]
  BY SeenIs
<1>6. ManySeen(claims)[x].state = "open"
  BY <1>5
<1>7. ManySeen(claims') = [ManySeen(claims) EXCEPT ![x].state = s]
  <2>1. DOMAIN claims' = 1 .. Claimed
    BY DEF ManyRingInv, ManyBufferType, Claimed
  <2>2. ManySeen(claims') = [i \in 1 .. Claimed |-> [id |-> claims'[i].id, state |-> claims'[i].state]]
    BY <2>1 DEF ManySeen
  <2>3. [ManySeen(claims) EXCEPT ![x].state = s] =
          [i \in 1 .. Claimed |-> IF i = x THEN [ManySeen(claims)[i] EXCEPT !.state = s] ELSE ManySeen(claims)[i]]
    BY <1>5
  <2>4. ASSUME NEW i \in 1 .. Claimed
        PROVE  [id |-> claims'[i].id, state |-> claims'[i].state]
                 = IF i = x THEN [ManySeen(claims)[i] EXCEPT !.state = s] ELSE ManySeen(claims)[i]
    BY <1>5
  <2>5. QED
    BY <2>2, <2>3, <2>4
<1>8. x \in (M!Passed(claims) + 1) .. Len(ManySeen(claims))
  BY <1>2, <1>3, <1>4, <1>5
<1>9. M!Queue!Close <=>
        /\ \E i \in (M!Passed(claims) + 1) .. Len(ManySeen(claims)), t \in {"done", "void"} :
             /\ ManySeen(claims)[i].state = "open"
             /\ ManySeen(claims') = [ManySeen(claims) EXCEPT ![i].state = t]
        /\ M!Passed(claims)' = M!Passed(claims)
        /\ [n \in DOMAIN handed' |-> handed'[n].id] = [n \in DOMAIN handed |-> handed[n].id]
  BY DEF M!Queue!Close, ManySeen
<1>10. QED
  BY <1>4, <1>6, <1>7, <1>8, <1>9

LEMMA ClosingStep ==
  ASSUME M!RingBufferAssumption, ManyRingInv, NEW p \in Producers, NEW x \in 1 .. Claimed,
         claims[x].by = p, claims[x].state = "open",
         NEW s \in {"done", "void"}, pc[p] = "pad" => s = "void", M!CloseClaim(p, s),
         NEW g \in {"idle", "dead"}, M!Goto(p, g), M!Return(p), ids' = ids,
         tail' = tail, headCache' = headCache, head' = head, UNCHANGED M!Others,
         buffer' \in [0 .. (C - 1) -> M!Cells],
         \A q \in head .. (head + C - 1) :
           q \notin claims[x].at .. (claims[x].end - 1) => buffer'[q % C] = buffer[q % C],
         ManyRecorded(x)'
  PROVE  ManyRingInv' /\ M!Queue!Close
<1> DEFINE a == claims[x].at
           b == Begin(claims, x)
<1>1. /\ claims' \in Seq(ManyClaimRecord) /\ Claimed' = Claimed
      /\ \A i \in 1 .. Claimed : i # x => claims'[i] = claims[i]
      /\ claims'[x].id = claims[x].id /\ claims'[x].by = p /\ claims'[x].at = claims[x].at
      /\ claims'[x].end = claims[x].end /\ claims'[x].state = s
      /\ \A i \in 1 .. Claimed : Begin(claims', i) = Begin(claims, i)
  BY Closing
<1>2. Stage(x) = pc[p] /\ At <= a
  BY OpenFacts
<1>3. /\ C \in Nat \ {0} /\ head \in Nat /\ head <= At /\ At \in Nat /\ Gone \in Nat /\ head <= Gone
  BY Numbers
<1>4. /\ a \in Nat /\ b \in Nat /\ b <= a /\ a < claims[x].end /\ claims[x].end \in Nat
  BY ClaimFacts
<1>5. reader' = reader /\ bytesRead' = bytesRead /\ handed' = handed /\ rHead' = rHead
  BY DEF M!Others, M!readerVars
<1>6. Gone' = Gone /\ Stage(x)' = s
  BY <1>1, <1>5 DEF Gone, At, Stage
<1>7. Locals
  BY DEF ManyRingInv, ManyBufferType
<1>8. Locals' /\ Apart(p) /\ pc'[p] = g
  BY <1>7, ReturnLocals
<1>9. Knows(p)'
  BY <1>8 DEF Knows, Wrapping, M!Writing
<1>10. Padded(x)'
  <2> SUFFICES ASSUME Gone <= b, b < a
               PROVE  \/ buffer'[b % C] = M!makeHeader(a - b, M!PADDING_MSG_TYPE_ID)
                      \/ s = "void" /\ buffer'[b % C] = M!Zero
    BY <1>1, <1>6 DEF Padded, Cell
  <2>1. b \in head .. (head + C - 1) /\ b \notin a .. (claims[x].end - 1)
    <3>1. head <= b
      BY <1>3, <1>4
    <3>2. b \in head .. (head + C - 1)
      BY <3>1, OpenPlace
    <3>3. QED
      BY <1>4, <3>2
  <2>2. Stage(x) # "void"
    BY <1>2, OpenFacts DEF M!Writing
  <2>3. \/ buffer[b % C] = M!makeHeader(a - b, M!PADDING_MSG_TYPE_ID)
        \/ pc[p] = "pad" /\ buffer[b % C] = M!Zero
    BY <1>2, <2>2 DEF ManyRingInv, ManyContents, Padded, Cell
  <2>4. QED
    BY <2>1, <2>3
<1>11. \A q \in head .. (head + C - 1) :
         q < At \/ ~Within(claims, x, q) => buffer'[q % C] = buffer[q % C]
  <2> SUFFICES ASSUME NEW q \in head .. (head + C - 1), q < At \/ ~Within(claims, x, q)
               PROVE  q \notin a .. (claims[x].end - 1)
    OBVIOUS
  <2>1. QED
    BY <1>2, <1>3, <1>4 DEF Within
<1>12. claims'[x].state # "open"
  BY <1>1
<1>13. ManyRingInv' /\ \A i \in 1 .. (Claimed + 1) : Begin(claims', i) = Begin(claims, i)
  BY <1>1, <1>8, <1>9, <1>10, <1>11, <1>12, WriterStep
<1>14. M!Consumed' = M!Consumed
  BY <1>5 DEF M!Consumed
<1>15. QED
  BY <1>1, <1>5, <1>13, <1>14, QueueCloses

(* The length makes the record complete. *)
LEMMA LengthStep ==
  ASSUME M!RingBufferAssumption, ManyRingInv, NEW p \in Producers, M!WriteLength(p)
  PROVE  ManyRingInv' /\ M!Queue!Close
<1>1. /\ pc[p] = "length" /\ M!Goto(p, "idle") /\ M!CloseClaim(p, "done") /\ M!Return(p) /\ ids' = ids
      /\ tail' = tail /\ headCache' = headCache /\ head' = head /\ UNCHANGED M!Others
  BY DEF M!WriteLength
<1>2. PICK x \in 1 .. Claimed : claims[x].by = p /\ claims[x].state = "open"
  BY <1>1, ClaimOf DEF M!Writing
<1> DEFINE a == claims[x].at
           v == M!makeHeader(Size(x), claims[x].id)
<1>3. /\ Stage(x) = "length" /\ Size(x) = req[p] /\ claims[x].id = msg[p] /\ M!RecordIndex(p) = a % C
      /\ At <= a /\ req[p] \in Nat /\ msg[p] \in Nat
  BY <1>1, <1>2, OpenFacts
<1>4. a \in head .. (head + C - 1) /\ a \in Nat
  BY <1>2, OpenPlace
<1>5. /\ head \in Nat /\ Gone <= At /\ At \in Nat /\ Gone \in Nat /\ a < claims[x].end
      /\ claims[x].end \in Nat /\ Size(x) = claims[x].end - a /\ Size(x) > 0
  BY Numbers, ClaimFacts
<1>6. ASSUME NEW k \in 0 .. (Size(x) - 1) PROVE buffer[(a + k) % C] = Written(x, k)
  <2>1. Gone <= a
    BY <1>3, <1>4, <1>5
  <2>2. QED
    BY <1>3, <2>1 DEF ManyRingInv, ManyContents, ManyRecorded, Cell
<1>7. buffer[a % C] = M!makeHeader(-Size(x), claims[x].id)
  <2>1. 0 \in 0 .. (Size(x) - 1) /\ a + 0 = a
    BY <1>4, <1>5
  <2>2. Written(x, 0) = M!makeHeader(-Size(x), claims[x].id)
    BY <1>3 DEF Written
  <2>3. QED
    BY <1>6, <2>1, <2>2
<1>8. buffer' = [buffer EXCEPT ![a % C] = v]
  <2>1. buffer' = [buffer EXCEPT ![a % C] = [buffer[a % C] EXCEPT !.length = Size(x)]]
    BY <1>3 DEF M!WriteLength
  <2>2. [buffer[a % C] EXCEPT !.length = Size(x)] = v
    BY <1>7 DEF M!makeHeader
  <2>3. QED
    BY <2>1, <2>2
<1>9. \A q \in head .. (head + C - 1) : buffer'[q % C] = IF q = a THEN v ELSE buffer[q % C]
  BY <1>4, <1>8, ManyStoreOne, ZenonT(30)
<1>10. buffer' \in [0 .. (C - 1) -> M!Cells]
  <2>1. buffer \in [0 .. (C - 1) -> M!Cells]
    BY DEF ManyRingInv, ManyBufferType
  <2>2. v \in M!Cells
    BY <1>3 DEF M!makeHeader, M!Cells
  <2>3. QED
    BY <1>8, <2>1, <2>2
<1>11. \A q \in head .. (head + C - 1) :
         q \notin a .. (claims[x].end - 1) => buffer'[q % C] = buffer[q % C]
  <2>1. a \in a .. (claims[x].end - 1)
    BY <1>4, <1>5
  <2>2. QED
    BY <1>9, <2>1
<1>12. claims'[x].id = claims[x].id /\ claims'[x].at = a /\ claims'[x].end = claims[x].end
       /\ claims'[x].state = "done"
  BY <1>1, <1>2, Closing
<1>13. Size(x)' = Size(x) /\ Stage(x)' = "done"
  BY <1>12 DEF Size, Stage
<1>14. ASSUME NEW k \in 0 .. (Size(x) - 1)
       PROVE  buffer'[(a + k) % C] = Written(x, k)'
  <2>1. a + k \in head .. (head + C - 1)
    BY <1>2, OpenPlace
  <2>2. CASE k = 0
    <3>1. a + k = a
      BY <1>4, <2>2
    <3>2. Written(x, k)' = v
      BY <1>12, <1>13, <2>2 DEF Written
    <3>3. QED
      BY <1>9, <2>1, <3>1, <3>2
  <2>3. CASE k # 0
    <3>1. a + k # a
      BY <1>4, <2>3
    <3>2. Written(x, k)' = M!MsgUnit(claims[x].id) /\ Written(x, k) = M!MsgUnit(claims[x].id)
      BY <1>3, <1>12, <1>13, <2>3 DEF Written
    <3>3. QED
      BY <1>6, <1>9, <2>1, <3>1, <3>2
  <2>4. QED
    BY <2>2, <2>3
<1>15. ManyRecorded(x)'
  BY <1>12, <1>13, <1>14 DEF ManyRecorded, Cell
<1>16. QED
  BY <1>1, <1>2, <1>10, <1>11, <1>15, ClosingStep

(* A producer dies: before it has claimed anything, or with a record that  *)
(* nobody will complete.                                                   *)
LEMMA DieStep ==
  ASSUME M!RingBufferAssumption, ManyRingInv, NEW p \in Producers, M!Die(p)
  PROVE  ManyRingInv' /\ [M!Queue!Close]_(M!Queue!vars)
<1>1. /\ M!Goto(p, "dead") /\ M!CloseClaim(p, "void") /\ M!Return(p) /\ ids' = ids
      /\ buffer' = buffer /\ tail' = tail /\ headCache' = headCache /\ head' = head /\ UNCHANGED M!Others
  BY DEF M!Die, M!memory
<1>2. CASE pc[p] \notin M!Writing
  <2>1. ASSUME NEW i \in 1 .. Claimed PROVE ~(claims[i].by = p /\ claims[i].state = "open")
    BY <1>2, OpenFacts
  <2>2. claims' = claims
    <3>1. claims \in Seq(ManyClaimRecord) /\ DOMAIN claims = 1 .. Claimed
      BY DEF ManyRingInv, ManyBufferType, Claimed
    <3>2. claims' = [i \in 1 .. Claimed |-> claims[i]]
      BY <1>1, <2>1, <3>1 DEF M!CloseClaim
    <3>3. QED
      BY <3>1, <3>2
  <2>3. Locals /\ headCache \in Nat /\ headCache <= head
    BY Numbers DEF ManyRingInv, ManyBufferType
  <2>4. Locals' /\ Apart(p) /\ pc'[p] = "dead"
    BY <1>1, <2>3, ReturnLocals
  <2>5. Knows(p)'
    BY <2>4 DEF Knows, Wrapping, M!Writing
  <2>6. QED
    BY <1>1, <1>2, <2>2, <2>3, <2>4, <2>5, DecideStep DEF M!Writing
<1>3. CASE pc[p] \in M!Writing
  <2>1. PICK x \in 1 .. Claimed : claims[x].by = p /\ claims[x].state = "open"
    BY <1>3, ClaimOf
  <2> DEFINE a == claims[x].at
  <2>2. /\ Stage(x) = pc[p] /\ Size(x) = req[p] /\ M!RecordIndex(p) = a % C /\ At <= a
    BY <2>1, OpenFacts
  <2>3. claims'[x].id = claims[x].id /\ claims'[x].at = a /\ claims'[x].end = claims[x].end
        /\ claims'[x].state = "void"
    BY <1>1, <2>1, Closing
  <2>4. Size(x)' = Size(x) /\ Stage(x)' = "void"
    BY <2>3 DEF Size, Stage
  <2>5. /\ head \in Nat /\ Gone <= At /\ At \in Nat /\ Gone \in Nat /\ a \in Nat
        /\ Size(x) \in Nat /\ Size(x) > 0
    BY Numbers, ClaimFacts
  <2>6. \A k \in 0 .. (Size(x) - 1) : buffer[(a + k) % C] = Written(x, k)
    <3>1. Gone <= a
      BY <2>2, <2>5
    <3>2. Stage(x) # "void"
      BY <1>3, <2>2 DEF M!Writing
    <3>3. QED
      BY <3>1, <3>2 DEF ManyRingInv, ManyContents, ManyRecorded, Cell
  <2>7. ManyRecorded(x)'
    <3>1. CASE pc[p] \in {"pad", "header"}
      <4>1. \A k : Written(x, k) = M!Zero
        BY <2>2, <3>1 DEF Written
      <4>2. \A k \in 0 .. (Size(x) - 1) : buffer'[(a + k) % C] = M!Zero
        BY <1>1, <2>6, <4>1
      <4>3. Abandoned(x)'
        BY <2>3, <2>4, <4>2 DEF Abandoned, Cell
      <4>4. QED
        BY <2>4, <4>3 DEF ManyRecorded
    <3>2. CASE pc[p] \in {"bytes", "length"}
      <4>1. 0 \in 0 .. (Size(x) - 1) /\ a + 0 = a
        BY <2>5
      <4>2. Written(x, 0) = M!makeHeader(-Size(x), claims[x].id)
        BY <2>2, <3>2 DEF Written
      <4>3. buffer'[a % C] = M!makeHeader(-Size(x), claims[x].id)
        BY <1>1, <2>6, <4>1, <4>2
      <4>4. buffer'[a % C].length = -Size(x)
        BY <4>3 DEF M!makeHeader
      <4>5. Abandoned(x)'
        BY <2>3, <2>4, <4>4 DEF Abandoned, Cell
      <4>6. QED
        BY <2>4, <4>5 DEF ManyRecorded
    <3>3. QED
      BY <1>3, <3>1, <3>2 DEF M!Writing
  <2>8. buffer' \in [0 .. (C - 1) -> M!Cells]
    BY <1>1 DEF ManyRingInv, ManyBufferType
  <2>9. QED
    BY <1>1, <2>1, <2>7, <2>8, ClosingStep
<1>4. QED
  BY <1>2, <1>3

LEMMA ManyProducerSteps ==
  ASSUME M!RingBufferAssumption, ManyRingInv, NEW p \in Producers, M!Producer(p) \/ M!Die(p)
  PROVE  ManyRingInv' /\ [M!Queue!Next]_(M!Queue!vars)
<1>1. CASE M!CompareAndSetTail(p)
  BY <1>1, LostRaceStep, ClaimStep DEF M!CompareAndSetTail, M!Queue!Next
<1>2. CASE M!WriteLength(p)
  BY <1>2, LengthStep DEF M!Queue!Next
<1>3. CASE M!Die(p)
  BY <1>3, DieStep DEF M!Queue!Next
<1>4. QED
  BY <1>1, <1>2, <1>3, WriteCall, LoadTailStep, LoadHeadStep, StoreHeadCacheStep, ManyPaddingStep,
     ManyHeaderStep, ManyBytesStep DEF M!Producer

-----------------------------------------------------------------------------
(* read() *)

(* A step of the consumer leaves the producers as they are. *)
LEMMA ReaderStep ==
  ASSUME M!RingBufferAssumption, ManyRingInv, ub = "idle",
         UNCHANGED M!producerVars, UNCHANGED M!unblockVars, claims' = claims,
         tail' = tail, headCache' = headCache, head' \in Nat, head <= head',
         buffer' \in [0 .. (C - 1) -> M!Cells], reader' \in {"idle", "record", "zero", "head"},
         rHead' \in Nat, bytesRead' \in Nat, handed' \in Seq(ManyWhole),
         reader' = "idle" => bytesRead' = 0, reader' # "idle" => rHead' = head',
         (head' % C) + bytesRead' <= C, head' + bytesRead' <= tail,
         \E m \in 0 .. Claimed : Mark(claims, head' + bytesRead', m),
         \A i \in 1 .. Claimed : claims[i].state = "open" =>
           /\ head' + bytesRead' <= claims[i].at
           /\ pc[claims[i].by] = "pad" => head' + bytesRead' <= Begin(claims, i),
         Gone <= Gone',
         \A q \in head .. (tail - 1) : Gone' <= q => buffer'[q % C] = buffer[q % C],
         ManyBlank'
  PROVE  ManyRingInv'
<1>1. pc' = pc /\ msg' = msg /\ req' = req /\ pHead' = pHead /\ pTail' = pTail /\ pad' = pad /\ ids' = ids
  BY DEF M!producerVars
<1>2. ub' = ub /\ ubHead' = ubHead /\ ubTail' = ubTail /\ ubScan' = ubScan
  BY DEF M!unblockVars
<1>3. /\ C \in Nat \ {0} /\ head \in Nat /\ tail \in Nat /\ headCache \in Nat /\ tail <= head + C
      /\ headCache <= head /\ Claimed \in Nat
  BY Numbers
<1>4. Claimed' = Claimed /\ \A i : Begin(claims, i)' = Begin(claims, i)
  BY DEF Claimed, Begin
<1>5. At' = head' + bytesRead' /\ At' \in Nat /\ Gone' \in Nat
  BY DEF At, Gone
<1>6. ManyBufferType'
  BY <1>1, <1>2 DEF ManyRingInv, ManyBufferType, Locals
<1>7. Chain(claims)' /\ Covered(claims)'
  BY DEF ManyRingInv, Chain, Lies, Begin, Covered, Within
<1>8. ManyProducing'
  <2>1. ASSUME NEW q \in Producers PROVE Knows(q)'
    <3>1. pc[q] \in M!Writing => \E i \in 1 .. Claimed' : claims'[i].by = q /\ claims'[i].state = "open"
      BY <1>4 DEF ManyRingInv, ManyProducing, Knows
    <3>2. QED
      BY <1>1, <3>1, KnowsKept
  <2>2. ASSUME NEW i \in 1 .. Claimed PROVE Owned(i)'
    <3>1. SUFFICES ASSUME claims[i].state = "open" PROVE Owned(i)'
      BY DEF Owned
    <3>2. Owned(i)
      BY DEF ManyRingInv, ManyProducing
    <3>3. /\ At' <= claims[i].at
          /\ pc[claims[i].by] = "pad" => At' <= Begin(claims, i)
      BY <1>5, <3>1
    <3>4. QED
      BY <1>1, <1>4, <3>1, <3>2, <3>3 DEF Owned
  <2>3. QED
    BY <1>4, <2>1, <2>2 DEF ManyRingInv, ManyProducing
<1>9. ManyRoom'
  <2>1. headCache <= head' /\ tail <= head' + C
    BY <1>3
  <2>2. QED
    BY <1>4, <1>5, <2>1 DEF ManyRingInv, ManyRoom
<1>10. Reading'
  BY <1>4, <1>5 DEF Reading, Mark
<1>11. ManyContents'
  <2>1. ASSUME NEW i \in 1 .. Claimed PROVE ManyRecorded(i)' /\ Padded(i)'
    <3>1. Stage(i)' = Stage(i) /\ Claimed' \in Nat /\ Claimed <= Claimed'
      BY <1>1, <1>3, <1>4 DEF Stage
    <3>2. \A q \in head .. (tail - 1) :
            Within(claims, i, q) /\ Gone' <= q => buffer'[q % C] = buffer[q % C]
      OBVIOUS
    <3>3. \A j \in 1 .. Claimed : claims[j].state = "void" => claims'[j] = claims[j]
      OBVIOUS
    <3>4. QED
      BY <1>4, <1>5, <3>1, <3>2, <3>3, ClaimKept
  <2>2. QED
    BY <1>4, <2>1 DEF ManyContents
<1>12. Unblocking'
  BY <1>2 DEF Unblocking
<1>13. QED
  BY <1>6, <1>7, <1>8, <1>9, <1>10, <1>11, <1>12 DEF ManyRingInv

(* Open claims lie in front of the consumer. *)
LEMMA OpenAhead ==
  ASSUME M!RingBufferAssumption, ManyRingInv, NEW i \in 1 .. Claimed, claims[i].state = "open"
  PROVE  /\ At <= claims[i].at
         /\ pc[claims[i].by] = "pad" => At <= Begin(claims, i)
<1>1. claims[i].by \in Producers
  BY ClaimFacts
<1>2. QED
  BY <1>1, OpenFacts

LEMMA ManyQuietReads ==
  ASSUME M!RingBufferAssumption, ManyRingInv, ub = "idle", M!ReadBegin \/ M!ReadStops,
         UNCHANGED M!producerVars, UNCHANGED M!unblockVars, claims' = claims
  PROVE  ManyRingInv' /\ UNCHANGED M!Queue!vars
<1>1. /\ buffer' = buffer /\ tail' = tail /\ headCache' = headCache /\ head' = head
      /\ handed' = handed
  BY DEF M!ReadBegin, M!ReadStops, M!memory
<1>2. /\ reader \in {"idle", "record"} /\ reader' \in {"idle", "record", "zero"}
      /\ bytesRead' = bytesRead
      /\ reader' = "idle" => bytesRead = 0 /\ rHead' = 0
      /\ reader' # "idle" => rHead' = head
  BY DEF ManyRingInv, Reading, M!ReadBegin, M!ReadStops
<1>3. /\ head \in Nat /\ head <= head /\ bytesRead \in Nat /\ At = head + bytesRead /\ At <= tail
      /\ Gone \in Nat
  BY Numbers
<1>4. At' = At /\ Gone' = Gone /\ Gone <= Gone /\ rHead' \in Nat
  BY <1>1, <1>2, <1>3 DEF At, Gone
<1>5. /\ buffer \in [0 .. (C - 1) -> M!Cells] /\ handed \in Seq(ManyWhole) /\ (head % C) + bytesRead <= C
      /\ \E m \in 0 .. Claimed : Mark(claims, At, m)
  BY DEF ManyRingInv, ManyBufferType, Reading
<1>6. ManyBlank'
  BY <1>1, <1>4 DEF ManyRingInv, ManyContents, ManyBlank, Cell
<1>7. \A i \in 1 .. Claimed : claims[i].state = "open" =>
        At <= claims[i].at /\ (pc[claims[i].by] = "pad" => At <= Begin(claims, i))
  BY OpenAhead
<1>8. ManyRingInv'
  BY <1>1, <1>2, <1>3, <1>4, <1>5, <1>6, <1>7, ReaderStep
<1>9. M!Consumed' = M!Consumed
  <2>1. M!Consumed = At
    BY ManyConsumedIsAt
  <2>2. M!Consumed' = At'
    BY <1>1, <1>2, <1>3 DEF M!Consumed, At
  <2>3. QED
    BY <1>4, <2>1, <2>2
<1>10. QED
  BY <1>1, <1>8, <1>9, ManyQueueKeeps

(* The bytes that were read are cleared: nobody needs them any more. *)
LEMMA ManyZeroStep ==
  ASSUME M!RingBufferAssumption, ManyRingInv, ub = "idle", M!ReadZero,
         UNCHANGED M!producerVars, UNCHANGED M!unblockVars, claims' = claims
  PROVE  ManyRingInv' /\ UNCHANGED M!Queue!vars
<1>1. /\ reader = "zero" /\ reader' = "head" /\ rHead' = rHead /\ bytesRead' = bytesRead
      /\ tail' = tail /\ headCache' = headCache /\ head' = head /\ handed' = handed
  BY DEF M!ReadZero
<1>2. buffer' = [i \in DOMAIN buffer |->
                   IF i \in (head % C) .. ((head % C) + bytesRead - 1) THEN M!Zero ELSE buffer[i]]
  BY <1>1 DEF M!ReadZero, ManyRingInv, Reading, M!IndexOf, C
<1>3. /\ C \in Nat \ {0} /\ head \in Nat /\ bytesRead \in Nat /\ At = head + bytesRead
      /\ At \in Nat /\ tail \in Nat /\ At <= tail /\ tail <= head + C /\ head <= At
  BY Numbers
<1>4. head % C \in 0 .. (C - 1) /\ (head % C) + bytesRead <= C /\ rHead = head /\ Gone = head
  BY <1>1, <1>3, ManyPlaceInBuffer DEF ManyRingInv, Reading, Gone
<1>5. At' = At /\ Gone' = At
  BY <1>1 DEF At, Gone
<1>6. buffer \in [0 .. (C - 1) -> M!Cells]
  BY DEF ManyRingInv, ManyBufferType
<1>7. ASSUME NEW p \in head .. (head + C - 1)
      PROVE  buffer'[p % C] = IF p < At THEN M!Zero ELSE buffer[p % C]
  <2>1. p % C \in 0 .. (C - 1) /\ p \in Nat
    BY <1>3, ManyPlaceInBuffer
  <2>2. (p % C) \in (head % C) .. ((head % C) + bytesRead - 1) <=> p \in head .. (head + bytesRead - 1)
    <3>1. head \in head .. (head + C) /\ head + bytesRead <= head + C
      BY <1>3, <1>4
    <3>2. QED
      BY <1>3, <1>4, <3>1, Stretch
  <2>3. p \in head .. (head + bytesRead - 1) <=> p < At
    BY <1>3
  <2>4. QED
    BY <1>2, <1>6, <2>1, <2>2, <2>3
<1>8. buffer' \in [0 .. (C - 1) -> M!Cells]
  <2>1. M!Zero \in M!Cells
    BY DEF M!Zero, M!Cells
  <2>2. QED
    BY <1>2, <1>6, <2>1
<1>9. ManyBlank'
  <2>1. ASSUME NEW p \in tail .. (head + C - 1) PROVE buffer'[p % C] = M!Zero
    <3>1. p \in head .. (head + C - 1) /\ ~(p < At)
      BY <1>3
    <3>2. buffer[p % C] = M!Zero
      BY DEF ManyRingInv, ManyContents, ManyBlank, Cell
    <3>3. QED
      BY <1>7, <3>1, <3>2
  <2>2. ASSUME NEW p \in head .. (At - 1) PROVE buffer'[p % C] = M!Zero
    <3>1. p \in head .. (head + C - 1) /\ p < At
      BY <1>3
    <3>2. QED
      BY <1>7, <3>1
  <2>3. QED
    BY <1>1, <1>5, <2>1, <2>2 DEF ManyBlank, Cell
<1>10. \A q \in head .. (tail - 1) : At <= q => buffer'[q % C] = buffer[q % C]
  <2> SUFFICES ASSUME NEW q \in head .. (tail - 1), At <= q PROVE buffer'[q % C] = buffer[q % C]
    OBVIOUS
  <2>1. q \in head .. (head + C - 1) /\ ~(q < At)
    BY <1>3
  <2>2. QED
    BY <1>7, <2>1
<1>11. handed \in Seq(ManyWhole) /\ \E m \in 0 .. Claimed : Mark(claims, At, m)
  BY DEF ManyRingInv, ManyBufferType, Reading
<1>12. \A i \in 1 .. Claimed : claims[i].state = "open" =>
         At <= claims[i].at /\ (pc[claims[i].by] = "pad" => At <= Begin(claims, i))
  BY OpenAhead
<1>13. rHead' \in Nat /\ head <= head' /\ head' \in Nat /\ Gone <= Gone'
  BY <1>1, <1>3, <1>4, <1>5
<1>14. ManyRingInv'
  BY <1>1, <1>3, <1>4, <1>5, <1>8, <1>9, <1>10, <1>11, <1>12, <1>13, ReaderStep
<1>15. QED
  BY <1>1, <1>14, ManyQueueKeeps DEF M!Consumed

(* Only then the head moves, and the producers may use the cells again. *)
LEMMA ManyHeadStep ==
  ASSUME M!RingBufferAssumption, ManyRingInv, ub = "idle", M!ReadHead,
         UNCHANGED M!producerVars, UNCHANGED M!unblockVars, claims' = claims
  PROVE  ManyRingInv' /\ UNCHANGED M!Queue!vars
<1>1. /\ reader = "head" /\ reader' = "idle" /\ rHead' = 0 /\ bytesRead' = 0 /\ buffer' = buffer
      /\ tail' = tail /\ headCache' = headCache /\ handed' = handed /\ head' = At
  BY DEF M!ReadHead, ManyRingInv, Reading, At
<1>2. /\ C \in Nat \ {0} /\ head \in Nat /\ bytesRead \in Nat /\ At = head + bytesRead /\ At \in Nat
      /\ head <= At /\ tail \in Nat /\ At <= tail /\ tail <= head + C
  BY Numbers
<1>3. At' = At /\ Gone' = At /\ Gone = At
  BY <1>1, <1>2 DEF At, Gone
<1>4. At % C \in 0 .. (C - 1) /\ (At % C) + 0 <= C /\ At + 0 = At /\ Gone <= Gone'
  BY <1>2, <1>3, ManyPlaceInBuffer
<1>5. ManyBlank'
  <2>1. ASSUME NEW p \in tail .. (At + C - 1) PROVE buffer[p % C] = M!Zero
    <3>1. CASE p < head + C
      <4>1. p \in tail .. (head + C - 1)
        BY <1>2, <3>1
      <4>2. QED
        BY <4>1 DEF ManyRingInv, ManyContents, ManyBlank, Cell
    <3>2. CASE ~(p < head + C)
      <4>1. p - C \in head .. (At - 1) /\ p - C \in Nat /\ (p - C) + C = p
        BY <1>2, <3>2
      <4>2. ((p - C) + C) % C = (p - C) % C
        BY <1>2, <4>1, OneLap
      <4>3. buffer[(p - C) % C] = M!Zero
        BY <1>3, <4>1 DEF ManyRingInv, ManyContents, ManyBlank, Cell
      <4>4. QED
        BY <4>1, <4>2, <4>3
    <3>3. QED
      BY <3>1, <3>2
  <2>2. \A p \in At .. (At - 1) : FALSE
    BY <1>2
  <2>3. QED
    BY <1>1, <1>3, <2>1, <2>2 DEF ManyBlank, Cell
<1>6. /\ buffer \in [0 .. (C - 1) -> M!Cells] /\ handed \in Seq(ManyWhole)
      /\ \E m \in 0 .. Claimed : Mark(claims, At, m)
  BY DEF ManyRingInv, ManyBufferType, Reading
<1>7. \A i \in 1 .. Claimed : claims[i].state = "open" =>
        At <= claims[i].at /\ (pc[claims[i].by] = "pad" => At <= Begin(claims, i))
  BY OpenAhead
<1>8. head' + bytesRead' = At /\ head' \in Nat /\ head <= head'
      /\ (head' % C) + bytesRead' <= C /\ bytesRead' \in Nat /\ rHead' \in Nat
  BY <1>1, <1>2, <1>4
<1>9. ManyRingInv'
  BY <1>1, <1>2, <1>4, <1>5, <1>6, <1>7, <1>8, ReaderStep
<1>10. M!Consumed' = M!Consumed
  <2>1. M!Consumed = At
    BY ManyConsumedIsAt
  <2>2. QED
    BY <1>1, <2>1 DEF M!Consumed
<1>11. QED
  BY <1>1, <1>9, <1>10, ManyQueueKeeps

(* The consumer finds something: the record it stands at, or the padding   *)
(* before it.                                                              *)
LEMMA ManyRecordFound ==
  ASSUME M!RingBufferAssumption, ManyRingInv, reader = "record", bytesRead < C - (head % C),
         buffer[(head % C) + bytesRead].length > 0
  PROVE  /\ At % C = (head % C) + bytesRead
         /\ \E m \in 0 .. (Claimed - 1) : Mark(claims, At, m)
<1>1. /\ C \in Nat \ {0} /\ head \in Nat /\ bytesRead \in Nat /\ At = head + bytesRead /\ At \in Nat
      /\ Claimed \in Nat /\ tail \in Nat /\ At <= tail
  BY Numbers
<1>2. head % C \in 0 .. (C - 1)
  BY <1>1, ManyPlaceInBuffer
<1>3. At % C = (head % C) + bytesRead
  <2>1. bytesRead \in 0 .. (C - 1) /\ (head % C) + bytesRead < C
    BY <1>1, <1>2
  <2>2. (head + bytesRead) % C =
          IF (head % C) + bytesRead < C THEN (head % C) + bytesRead ELSE (head % C) + bytesRead - C
    BY <1>1, <2>1, PlaceAfter
  <2>3. QED
    BY <1>1, <2>1, <2>2
<1>4. At # tail
  <2>1. SUFFICES ASSUME At = tail PROVE FALSE
    OBVIOUS
  <2>2. At \in tail .. (head + C - 1)
    BY <1>1, <1>2, <2>1
  <2>3. buffer[At % C] = M!Zero
    BY <2>2 DEF ManyRingInv, ManyContents, ManyBlank, Cell
  <2>4. QED
    BY <1>3, <2>3 DEF M!Zero
<1>5. PICK m \in 0 .. Claimed : Mark(claims, At, m)
  BY DEF ManyRingInv, Reading
<1>6. m # Claimed
  <2>1. SUFFICES ASSUME m = Claimed PROVE FALSE
    OBVIOUS
  <2>2. At = Begin(claims, Claimed + 1)
    BY <1>1, <1>5, <2>1 DEF Mark, Claimed
  <2>3. QED
    BY <1>4, <2>2 DEF ManyRingInv, ManyRoom
<1>7. m \in 0 .. (Claimed - 1)
  BY <1>1, <1>6
<1>8. QED
  BY <1>3, <1>5, <1>7

(* Reading on does not change the buffer or the producers. *)
LEMMA ManyReadsOn ==
  ASSUME M!RingBufferAssumption, ManyRingInv, ub = "idle", reader = "record", reader' \in {"record", "zero"},
         UNCHANGED M!producerVars, UNCHANGED M!unblockVars, claims' = claims, UNCHANGED M!memory,
         rHead' = rHead, bytesRead' \in Nat, handed' \in Seq(ManyWhole),
         (head % C) + bytesRead' <= C, head + bytesRead' <= tail,
         \E n \in 0 .. Claimed : Mark(claims, head + bytesRead', n),
         \A i \in 1 .. Claimed : claims[i].state = "open" =>
           /\ head + bytesRead' <= claims[i].at
           /\ pc[claims[i].by] = "pad" => head + bytesRead' <= Begin(claims, i)
  PROVE  ManyRingInv' /\ M!Consumed' = head + bytesRead'
<1>1. buffer' = buffer /\ tail' = tail /\ headCache' = headCache /\ head' = head /\ rHead = head
  BY DEF M!memory, ManyRingInv, Reading
<1>2. head \in Nat /\ head <= head /\ Gone \in Nat
  BY Numbers
<1>3. Gone' = Gone /\ Gone <= Gone
  BY <1>1, <1>2 DEF Gone
<1>4. ManyBlank'
  BY <1>1, <1>3 DEF ManyRingInv, ManyContents, ManyBlank, Cell
<1>5. buffer \in [0 .. (C - 1) -> M!Cells]
  BY DEF ManyRingInv, ManyBufferType
<1>6. ManyRingInv'
  BY <1>1, <1>2, <1>3, <1>4, <1>5, ReaderStep
<1>7. QED
  BY <1>1, <1>6 DEF M!Consumed

(* Which claims the consumer has passed. *)
LEMMA PassedAt ==
  ASSUME M!RingBufferAssumption, ManyRingInv, NEW a \in Nat, NEW m \in 0 .. Claimed, Mark(claims, a, m),
         claims' = claims
  PROVE  /\ M!Consumed = a => M!Passed(claims) = m
         /\ M!Consumed' = a => M!Passed(claims)' = m
<1>1. ManyPassedOf(claims, a) = m
  BY ManyPassedIs DEF ManyRingInv, ManyBufferType, Claimed
<1>2. QED
  BY <1>1 DEF M!Passed, ManyPassedOf

(* The claims that are open lie behind the ones the consumer is done with. *)
LEMMA OpenBeyond ==
  ASSUME M!RingBufferAssumption, ManyRingInv, NEW m \in 0 .. Claimed, Mark(claims, At, m),
         NEW j \in (m + 1) .. Claimed, \A k \in (m + 1) .. j : claims[k].state # "open",
         NEW i \in 1 .. Claimed, claims[i].state = "open"
  PROVE  /\ claims[j].end <= claims[i].at
         /\ claims[j].end <= Begin(claims, i)
<1>1. claims \in Seq(ManyClaimRecord) /\ Chain(claims) /\ At \in Nat /\ Claimed = Len(claims) /\ Claimed \in Nat
  BY Numbers DEF ManyRingInv, ManyBufferType, Claimed
<1>2. claims[i].end <= At <=> i <= m
  BY <1>1, ManyEndedIs
<1>3. /\ At <= claims[i].at /\ claims[i].at < claims[i].end /\ claims[i].at \in Nat
      /\ claims[i].end \in Nat /\ Begin(claims, i) <= claims[i].at /\ Begin(claims, i) \in Nat
  BY OpenAhead, ClaimFacts
<1>4. m < i
  BY <1>1, <1>2, <1>3
<1>5. ~(i \in (m + 1) .. j)
  OBVIOUS
<1>6. j < i /\ j \in 1 .. Claimed
  BY <1>1, <1>4, <1>5
<1>7. claims[j].end <= Begin(claims, i) /\ claims[j].end \in Nat
  BY <1>6, ClaimOrder, ClaimFacts
<1>8. QED
  BY <1>3, <1>7

Ids(hs) == [n \in DOMAIN hs |-> hs[n].id]

LEMMA QueueTakes ==
  ASSUME M!RingBufferAssumption, ManyRingInv, claims' = claims, NEW m \in 0 .. Claimed,
         NEW n \in (m + 1) .. Claimed, M!Passed(claims) = m, M!Passed(claims)' = n,
         \A k \in (m + 1) .. (n - 1) : claims[k].state = "void", claims[n].state # "open",
         Ids(handed') = IF claims[n].state = "done" THEN Append(Ids(handed), claims[n].id)
                        ELSE Ids(handed)
  PROVE  M!Queue!Take
<1>1. /\ Len(ManySeen(claims)) = Claimed
      /\ \A i \in 1 .. Claimed : ManySeen(claims)[i] = [id |-> claims[i].id, state |-> claims[i].state]
  BY SeenIs
<1>2. \A i \in (m + 1) .. n : i \in 1 .. Claimed
  BY Numbers
<1>3. /\ n \in (M!Passed(claims) + 1) .. Len(ManySeen(claims))
      /\ n \in (m + 1) .. n /\ \A k \in (m + 1) .. (n - 1) : k \in (m + 1) .. n
  BY <1>1, Numbers
<1>4. ManySeen(claims)[n].state = claims[n].state /\ ManySeen(claims)[n].id = claims[n].id
  BY <1>1, <1>2, <1>3
<1>5. \A k \in (M!Passed(claims) + 1) .. (n - 1) : ManySeen(claims)[k].state = "void"
  BY <1>1, <1>2, <1>3
<1>6. M!Queue!Take <=>
        /\ \E j \in (M!Passed(claims) + 1) .. Len(ManySeen(claims)) :
             /\ \A k \in (M!Passed(claims) + 1) .. (j - 1) : ManySeen(claims)[k].state = "void"
             /\ ManySeen(claims)[j].state # "open"
             /\ M!Passed(claims)' = j
             /\ Ids(handed') = IF ManySeen(claims)[j].state = "done"
                               THEN Append(Ids(handed), ManySeen(claims)[j].id) ELSE Ids(handed)
        /\ ManySeen(claims') = ManySeen(claims)
  BY DEF M!Queue!Take, ManySeen, Ids
<1>7. QED
  BY <1>3, <1>4, <1>5, <1>6, Zenon

LEMMA IdsGrow ==
  ASSUME NEW hs \in Seq(ManyWhole), NEW w \in ManyWhole, w.id \in 1 .. MaxWrites
  PROVE  Ids(Append(hs, w)) = Append(Ids(hs), w.id)
<1> DEFINE gs == Append(hs, w)
<1>1. /\ Len(gs) = Len(hs) + 1 /\ gs[Len(hs) + 1] = w /\ Len(hs) \in Nat
      /\ \A n \in 1 .. Len(hs) : gs[n] = hs[n]
      /\ DOMAIN hs = 1 .. Len(hs) /\ DOMAIN gs = 1 .. (Len(hs) + 1)
  OBVIOUS
<1>2. Ids(hs) = [n \in 1 .. Len(hs) |-> hs[n].id]
  BY <1>1 DEF Ids
<1>3. \A n \in 1 .. Len(hs) : hs[n].id \in 1 .. MaxWrites
  BY DEF ManyWhole
<1>4. Ids(hs) \in Seq(1 .. MaxWrites) /\ Len(Ids(hs)) = Len(hs)
  BY <1>1, <1>2, <1>3
<1>5. Append(Ids(hs), w.id) =
        [n \in 1 .. (Len(hs) + 1) |-> IF n = Len(hs) + 1 THEN w.id ELSE hs[n].id]
  BY <1>1, <1>2, <1>4
<1> HIDE DEF gs
<1>6. Ids(gs) = [n \in 1 .. (Len(hs) + 1) |-> gs[n].id]
  BY <1>1 DEF Ids
<1>7. ASSUME NEW n \in 1 .. (Len(hs) + 1)
      PROVE  gs[n].id = IF n = Len(hs) + 1 THEN w.id ELSE hs[n].id
  BY <1>1
<1>8. Ids(gs) = Append(Ids(hs), w.id)
  BY <1>5, <1>6, <1>7
<1>9. QED
  BY <1>8 DEF gs

(* The consumer, past m claims, reads what it stands at. *)
Reads(m) ==
  /\ ub = "idle" /\ reader = "record" /\ UNCHANGED M!producerVars /\ UNCHANGED M!unblockVars
  /\ claims' = claims /\ UNCHANGED M!memory /\ rHead' = rHead
  /\ m \in 0 .. (Claimed - 1) /\ Mark(claims, At, m)
  /\ At % C = (head % C) + bytesRead
  /\ Cell(At).length > 0 /\ bytesRead' = bytesRead + Cell(At).length
  /\ \/ /\ Cell(At).type = M!PADDING_MSG_TYPE_ID
        /\ UNCHANGED <<reader, messagesRead, handed>>
     \/ /\ Cell(At).type # M!PADDING_MSG_TYPE_ID
        /\ handed' = Append(handed,
             [id |-> Cell(At).type,
              body |-> [k \in 1 .. (Cell(At).length - 1) |->
                          IF (At % C) + k < C THEN buffer[(At % C) + k] ELSE M!Zero]])
        /\ reader' \in {"record", "zero"}

LEMMA ReadsFrom ==
  ASSUME M!RingBufferAssumption, ManyRingInv, NEW m, Reads(m)
  PROVE  /\ m \in Nat /\ m \in 0 .. Claimed /\ m + 1 \in 1 .. Claimed /\ m + 1 \in 0 .. Claimed
         /\ At = Begin(claims, m + 1) \/ At = claims[m + 1].at
         /\ M!Consumed = At /\ M!Passed(claims) = m /\ Gone = head
<1>1. m \in 0 .. (Claimed - 1) /\ Claimed \in Nat /\ At \in Nat /\ Mark(claims, At, m) /\ claims' = claims
      /\ reader = "record"
  BY Numbers DEF Reads
<1>2. m \in Nat /\ m \in 0 .. Claimed /\ m + 1 \in 1 .. Claimed /\ m + 1 \in 0 .. Claimed
  BY <1>1
<1>3. At = Begin(claims, m + 1) \/ At = claims[m + 1].at
  BY <1>1 DEF Mark
<1>4. M!Consumed = At /\ Gone = head
  BY <1>1, ManyConsumedIsAt DEF Gone
<1>5. M!Passed(claims) = m
  BY <1>1, <1>2, <1>4, PassedAt
<1>6. QED
  BY <1>2, <1>3, <1>4, <1>5

(* The padding before a record is skipped. *)
LEMMA PaddingRead ==
  ASSUME M!RingBufferAssumption, ManyRingInv, NEW m, Reads(m),
         At = Begin(claims, m + 1), claims[m + 1].at # Begin(claims, m + 1)
  PROVE  ManyRingInv' /\ UNCHANGED M!Queue!vars
<1> DEFINE b == Begin(claims, m + 1)
           a == claims[m + 1].at
<1>1. /\ m \in Nat /\ m \in 0 .. Claimed /\ m + 1 \in 1 .. Claimed /\ M!Consumed = At
      /\ M!Passed(claims) = m /\ Gone = head
  BY ReadsFrom
<1>2. /\ a \in Nat /\ b \in Nat /\ b <= a /\ a < claims[m + 1].end /\ claims[m + 1].end <= tail
      /\ claims[m + 1].end \in Nat
  BY <1>1, ClaimFacts
<1>3. a - b = C - (b % C)
  BY <1>1, ClaimFacts
<1>4. /\ C \in Nat \ {0} /\ head \in Nat /\ bytesRead \in Nat /\ At = head + bytesRead /\ tail \in Nat
      /\ head <= At /\ Claimed \in Nat
  BY Numbers
<1>5. /\ At % C = (head % C) + bytesRead /\ claims' = claims /\ ub = "idle" /\ reader = "record"
      /\ UNCHANGED M!producerVars /\ UNCHANGED M!unblockVars /\ UNCHANGED M!memory /\ rHead' = rHead
      /\ Cell(b).length > 0 /\ bytesRead' = bytesRead + Cell(b).length
      /\ Cell(b).type = M!PADDING_MSG_TYPE_ID => reader' = reader /\ handed' = handed
      /\ Mark(claims, At, m)
  BY DEF Reads
<1>6. Stage(m + 1) # "pad" /\ Cell(b) = M!makeHeader(a - b, M!PADDING_MSG_TYPE_ID)
  <2>1. Gone <= b /\ b < a
    BY <1>1, <1>2, <1>4
  <2>2. Cell(b) # M!Zero
    BY <1>5 DEF M!Zero
  <2>3. QED
    BY <1>1, <2>1, <2>2 DEF ManyRingInv, ManyContents, Padded
<1>7. Cell(b).type = M!PADDING_MSG_TYPE_ID /\ Cell(b).length = a - b
  BY <1>6 DEF M!makeHeader
<1>8. bytesRead' = bytesRead + (a - b) /\ reader' = "record" /\ handed' = handed
  BY <1>5, <1>7
<1>9. head + bytesRead' = a /\ bytesRead' \in Nat /\ head + bytesRead' <= tail
  BY <1>2, <1>4, <1>8
<1>10. (head % C) + bytesRead' <= C
  <2>1. head % C \in 0 .. (C - 1)
    BY <1>4, ManyPlaceInBuffer
  <2>2. a - b = C - ((head % C) + bytesRead)
    BY <1>3, <1>5
  <2>3. QED
    BY <1>4, <1>8, <2>1, <2>2
<1>11. Mark(claims, a, m)
  BY <1>1, <1>4 DEF Mark, Claimed
<1>12. ASSUME NEW i \in 1 .. Claimed, claims[i].state = "open"
       PROVE  a <= claims[i].at /\ (pc[claims[i].by] = "pad" => a <= Begin(claims, i))
  <2>1. CASE i = m + 1
    <3>1. Stage(i) = pc[claims[i].by]
      BY <1>12 DEF Stage
    <3>2. QED
      BY <1>2, <1>6, <2>1, <3>1
  <2>2. CASE i # m + 1
    <3>1. m + 1 < i
      <4>1. claims \in Seq(ManyClaimRecord) /\ Chain(claims) /\ At \in Nat /\ Claimed = Len(claims)
        BY Numbers DEF ManyRingInv, ManyBufferType, Claimed
      <4>2. claims[i].end <= At <=> i <= m
        BY <1>1, <1>5, <4>1, ManyEndedIs
      <4>3. At <= claims[i].at /\ claims[i].at < claims[i].end /\ claims[i].at \in Nat /\ claims[i].end \in Nat
        BY <1>12, OpenAhead, ClaimFacts
      <4>4. m < i
        BY <1>1, <4>1, <4>2, <4>3
      <4>5. QED
        BY <1>1, <2>2, <4>4
    <3>2. claims[m + 1].end <= Begin(claims, i) /\ Begin(claims, i) <= claims[i].at
          /\ Begin(claims, i) \in Nat /\ claims[i].at \in Nat
      BY <1>1, <3>1, ClaimOrder, ClaimFacts
    <3>3. QED
      BY <1>2, <3>2
  <2>3. QED
    BY <2>1, <2>2
<1>13. handed \in Seq(ManyWhole)
  BY DEF ManyRingInv, ManyBufferType
<1>14. ManyRingInv' /\ M!Consumed' = a
  BY <1>1, <1>5, <1>8, <1>9, <1>10, <1>11, <1>12, <1>13, ManyReadsOn
<1>15. M!Passed(claims)' = m
  BY <1>1, <1>2, <1>5, <1>11, <1>14, PassedAt
<1>16. UNCHANGED M!Queue!vars
  BY <1>1, <1>5, <1>8, <1>15 DEF M!Queue!vars
<1>17. QED
  BY <1>14, <1>16

(* unblock() left padding over abandoned records: they are passed over. *)
LEMMA AbandonedRead ==
  ASSUME M!RingBufferAssumption, ManyRingInv, NEW m, Reads(m), At = claims[m + 1].at,
         NEW j \in (m + 1) .. Claimed,
         Cell(At) = M!makeHeader(claims[j].end - At, M!PADDING_MSG_TYPE_ID),
         (At % C) + (claims[j].end - At) <= C,
         \A k \in (m + 1) .. j : claims[k].state = "void"
  PROVE  ManyRingInv' /\ M!Queue!Take
<1>1. /\ m \in Nat /\ m \in 0 .. Claimed /\ m + 1 \in 1 .. Claimed /\ M!Consumed = At
      /\ M!Passed(claims) = m
  BY ReadsFrom
<1>2. j \in 1 .. Claimed /\ j \in 0 .. Claimed /\ j \in (m + 1) .. j
  BY <1>1, Numbers
<1> DEFINE e == claims[j].end
<1>3. e \in Nat /\ e <= tail
  BY <1>2, ClaimFacts
<1>4. /\ C \in Nat \ {0} /\ head \in Nat /\ bytesRead \in Nat /\ At = head + bytesRead /\ tail \in Nat
      /\ Claimed \in Nat /\ At \in Nat
  BY Numbers
<1>5. /\ At % C = (head % C) + bytesRead /\ claims' = claims /\ ub = "idle" /\ reader = "record"
      /\ UNCHANGED M!producerVars /\ UNCHANGED M!unblockVars /\ UNCHANGED M!memory /\ rHead' = rHead
      /\ Cell(At).length > 0 /\ bytesRead' = bytesRead + Cell(At).length
      /\ Cell(At).type = M!PADDING_MSG_TYPE_ID => reader' = reader /\ handed' = handed
      /\ Mark(claims, At, m)
  BY DEF Reads
<1>6. Cell(At).type = M!PADDING_MSG_TYPE_ID /\ Cell(At).length = e - At
  BY DEF M!makeHeader
<1>7. bytesRead' = bytesRead + (e - At) /\ reader' = "record" /\ handed' = handed /\ e - At > 0
  BY <1>5, <1>6
<1>8. head + bytesRead' = e /\ bytesRead' \in Nat /\ head + bytesRead' <= tail
  BY <1>3, <1>4, <1>7
<1>9. (head % C) + bytesRead' <= C
  <2>1. head % C \in 0 .. (C - 1)
    BY <1>4, ManyPlaceInBuffer
  <2>2. (head % C) + bytesRead + (e - At) <= C
    BY <1>5
  <2>3. QED
    BY <1>3, <1>4, <1>7, <2>1, <2>2
<1>10. Mark(claims, e, j)
  <2>1. Begin(claims, j + 1) = e
    BY <1>2 DEF Begin
  <2>2. QED
    BY <2>1 DEF Mark
<1>11. ASSUME NEW i \in 1 .. Claimed, claims[i].state = "open"
       PROVE  e <= claims[i].at /\ (pc[claims[i].by] = "pad" => e <= Begin(claims, i))
  <2>1. \A k \in (m + 1) .. j : claims[k].state # "open"
    OBVIOUS
  <2>2. QED
    BY <1>1, <1>5, <1>11, <2>1, OpenBeyond
<1>12. handed \in Seq(ManyWhole)
  BY DEF ManyRingInv, ManyBufferType
<1>13. ManyRingInv' /\ M!Consumed' = e
  BY <1>2, <1>5, <1>7, <1>8, <1>9, <1>10, <1>11, <1>12, ManyReadsOn
<1>14. M!Passed(claims)' = j
  BY <1>2, <1>3, <1>5, <1>10, <1>13, PassedAt
<1>15. M!Queue!Take
  <2>1. claims[j].state = "void" /\ Ids(handed') = Ids(handed)
    BY <1>2, <1>7
  <2>2. \A k \in (m + 1) .. (j - 1) : k \in (m + 1) .. j
    BY <1>1, <1>2
  <2>3. \A k \in (m + 1) .. (j - 1) : claims[k].state = "void"
    BY <2>2
  <2>4. claims[j].state # "open" /\ claims[j].state # "done"
    BY <2>1
  <2>5. QED
    BY <1>1, <1>5, <1>14, <2>1, <2>3, <2>4, QueueTakes
<1>16. QED
  BY <1>13, <1>15

(* A complete record goes to the handler. *)
LEMMA MessageRead ==
  ASSUME M!RingBufferAssumption, ManyRingInv, NEW m, Reads(m), At = claims[m + 1].at,
         claims[m + 1].state = "done"
  PROVE  ManyRingInv' /\ M!Queue!Take
<1> DEFINE a == claims[m + 1].at
           e == claims[m + 1].end
           i == claims[m + 1].id
           n == Size(m + 1)
<1>1. /\ m \in Nat /\ m \in 0 .. Claimed /\ m + 1 \in 1 .. Claimed /\ m + 1 \in 0 .. Claimed
      /\ M!Consumed = At /\ M!Passed(claims) = m /\ Gone = head
  BY ReadsFrom
<1>2. /\ a \in Nat /\ e \in Nat /\ a < e /\ e <= tail /\ i \in 1 .. MaxWrites
      /\ n = e - a /\ n \in Nat /\ n > 0 /\ (a % C) + n <= C
  BY <1>1, ClaimFacts
<1>3. /\ C \in Nat \ {0} /\ head \in Nat /\ bytesRead \in Nat /\ At = head + bytesRead /\ tail \in Nat
      /\ Claimed \in Nat /\ At \in Nat /\ head <= At /\ MaxWrites \in Nat
  BY Numbers
<1>4. /\ At % C = (head % C) + bytesRead /\ claims' = claims /\ ub = "idle" /\ reader = "record"
      /\ UNCHANGED M!producerVars /\ UNCHANGED M!unblockVars /\ UNCHANGED M!memory /\ rHead' = rHead
      /\ bytesRead' = bytesRead + Cell(a).length
      /\ Cell(a).type # M!PADDING_MSG_TYPE_ID =>
           /\ handed' = Append(handed,
                [id |-> Cell(a).type,
                 body |-> [k \in 1 .. (Cell(a).length - 1) |->
                             IF (a % C) + k < C THEN buffer[(a % C) + k] ELSE M!Zero]])
           /\ reader' \in {"record", "zero"}
      /\ Mark(claims, At, m)
  BY DEF Reads
<1>5. \A k \in 0 .. (n - 1) : Cell(a + k) = IF k = 0 THEN M!makeHeader(n, i) ELSE M!MsgUnit(i)
  <2>1. Stage(m + 1) = "done" /\ Gone <= a
    BY <1>1, <1>3 DEF Stage
  <2>2. \A k \in 0 .. (n - 1) : Cell(a + k) = Written(m + 1, k)
    BY <1>1, <2>1 DEF ManyRingInv, ManyContents, ManyRecorded
  <2>3. QED
    BY <2>1, <2>2 DEF Written
<1>6. Cell(a).type = i /\ Cell(a).length = n
  <2>1. 0 \in 0 .. (n - 1) /\ a + 0 = a
    BY <1>2
  <2>2. Cell(a) = M!makeHeader(n, i)
    BY <1>5, <2>1
  <2>3. QED
    BY <2>2 DEF M!makeHeader
<1>7. ASSUME NEW k \in 1 .. (n - 1)
      PROVE  (IF (a % C) + k < C THEN buffer[(a % C) + k] ELSE M!Zero) = M!MsgUnit(i)
  <2>1. a % C \in 0 .. (C - 1)
    BY <1>2, ManyPlaceInBuffer
  <2>2. k \in 0 .. (C - 1) /\ (a % C) + k < C /\ k \in 0 .. (n - 1) /\ k # 0
    BY <1>2, <1>3, <2>1
  <2>3. (a + k) % C = IF (a % C) + k < C THEN (a % C) + k ELSE (a % C) + k - C
    BY <1>2, <1>3, <2>2, PlaceAfter
  <2>4. (a + k) % C = (a % C) + k
    BY <2>2, <2>3
  <2>5. Cell(a + k) = M!MsgUnit(i)
    BY <1>5, <2>2
  <2>6. QED
    BY <2>2, <2>4, <2>5 DEF Cell
<1> DEFINE given == [id |-> i, body |-> [k \in 1 .. (n - 1) |-> M!MsgUnit(i)]]
<1>8. i # M!PADDING_MSG_TYPE_ID
  BY <1>2, <1>3 DEF M!PADDING_MSG_TYPE_ID
<1>9. handed' = Append(handed, given) /\ reader' \in {"record", "zero"}
  <2>1. handed' = Append(handed,
          [id |-> i, body |-> [k \in 1 .. (n - 1) |->
                                 IF (a % C) + k < C THEN buffer[(a % C) + k] ELSE M!Zero]])
        /\ reader' \in {"record", "zero"}
    BY <1>4, <1>6, <1>8
  <2>2. [k \in 1 .. (n - 1) |-> IF (a % C) + k < C THEN buffer[(a % C) + k] ELSE M!Zero]
          = [k \in 1 .. (n - 1) |-> M!MsgUnit(i)]
    BY <1>7
  <2>3. QED
    BY <2>1, <2>2
<1>10. given \in ManyWhole
  <2>1. n - 1 \in Nat /\ i \in 1 .. MaxWrites
    BY <1>2
  <2>2. \E j \in 1 .. MaxWrites, l \in Nat : given = [id |-> j, body |-> [k \in 1 .. l |-> M!MsgUnit(j)]]
    BY <2>1, Zenon
  <2> HIDE DEF given
  <2>3. QED
    BY <2>2 DEF ManyWhole
<1>11. handed \in Seq(ManyWhole)
  BY DEF ManyRingInv, ManyBufferType
<1>12. given.id = i
  OBVIOUS
<1> HIDE DEF given
<1>13. handed' \in Seq(ManyWhole)
  BY <1>9, <1>10, <1>11
<1>14. Ids(handed') = Append(Ids(handed), i)
  BY <1>2, <1>9, <1>10, <1>11, <1>12, IdsGrow
<1>15. bytesRead' = bytesRead + n
  BY <1>4, <1>6
<1>16. head + bytesRead' = e /\ bytesRead' \in Nat /\ head + bytesRead' <= tail
  <2>1. head + bytesRead = a
    BY <1>3
  <2>2. head + bytesRead' = e
    <3> HIDE DEF a, e, n
    <3>1. QED
      BY <1>2, <1>3, <1>15, <2>1
  <2>3. bytesRead' \in Nat
    <3> HIDE DEF a, e, n
    <3>1. QED
      BY <1>2, <1>3, <1>15
  <2>4. QED
    BY <1>2, <2>2, <2>3
<1>17. (head % C) + bytesRead' <= C
  <2>1. head % C \in 0 .. (C - 1)
    BY <1>3, ManyPlaceInBuffer
  <2>2. (head % C) + bytesRead + n <= C
    BY <1>2, <1>4
  <2>3. QED
    BY <1>2, <1>3, <1>15, <2>1, <2>2
<1>18. Mark(claims, e, m + 1)
  <2>1. Begin(claims, (m + 1) + 1) = e
    BY <1>1 DEF Begin
  <2>2. QED
    BY <2>1 DEF Mark
<1>19. ASSUME NEW y \in 1 .. Claimed, claims[y].state = "open"
       PROVE  e <= claims[y].at /\ (pc[claims[y].by] = "pad" => e <= Begin(claims, y))
  <2>1. m + 1 \in (m + 1) .. Claimed /\ \A k \in (m + 1) .. (m + 1) : k = m + 1
    BY <1>1, <1>3
  <2>2. \A k \in (m + 1) .. (m + 1) : claims[k].state # "open"
    BY <2>1
  <2>3. QED
    BY <1>1, <1>4, <1>19, <2>1, <2>2, OpenBeyond
<1>20. ManyRingInv' /\ M!Consumed' = e
  BY <1>1, <1>4, <1>9, <1>13, <1>16, <1>17, <1>18, <1>19, ManyReadsOn
<1>21. M!Passed(claims)' = m + 1
  BY <1>1, <1>2, <1>4, <1>18, <1>20, PassedAt
<1>22. M!Queue!Take
  <2>1. m + 1 \in (m + 1) .. Claimed /\ \A k \in (m + 1) .. ((m + 1) - 1) : FALSE
    BY <1>1, <1>3
  <2>2. QED
    BY <1>1, <1>4, <1>14, <1>21, <2>1, QueueTakes
<1>23. QED
  BY <1>20, <1>22

LEMMA ManyRecordStep ==
  ASSUME M!RingBufferAssumption, ManyRingInv, ub = "idle", M!ReadRecord,
         UNCHANGED M!producerVars, UNCHANGED M!unblockVars, claims' = claims
  PROVE  ManyRingInv' /\ [M!Queue!Take]_(M!Queue!vars)
<1>1. /\ reader = "record" /\ rHead = head /\ bytesRead < C - (head % C)
      /\ buffer[(head % C) + bytesRead].length > 0
  BY DEF M!ReadRecord, ManyRingInv, Reading, M!IndexOf, C
<1>2. At % C = (head % C) + bytesRead
  BY <1>1, ManyRecordFound
<1>3. PICK m \in 0 .. (Claimed - 1) : Mark(claims, At, m)
  BY <1>1, ManyRecordFound
<1>4. M!IndexOf(rHead) + bytesRead = At % C /\ buffer[At % C] = Cell(At)
  BY <1>1, <1>2 DEF M!IndexOf, C, Cell
<1>5. Reads(m)
  BY <1>1, <1>2, <1>3, <1>4 DEF M!ReadRecord, Reads, C
<1>6. /\ m \in Nat /\ m + 1 \in 1 .. Claimed /\ Gone = head
      /\ At = Begin(claims, m + 1) \/ At = claims[m + 1].at
  BY <1>5, ReadsFrom
<1>7. CASE At = Begin(claims, m + 1) /\ claims[m + 1].at # Begin(claims, m + 1)
  BY <1>5, <1>7, PaddingRead
<1>8. CASE At = claims[m + 1].at
  <2>1. Gone <= claims[m + 1].at
    BY <1>6, <1>8, Numbers
  <2>2. ManyRecorded(m + 1)
    BY <1>6 DEF ManyRingInv, ManyContents
  <2>3. Cell(At).length > 0 /\ Size(m + 1) \in Nat /\ Size(m + 1) > 0
        /\ claims[m + 1].state \in {"open", "done", "void"} /\ claims[m + 1].by \in Producers
    BY <1>5, <1>6, ClaimFacts DEF Reads
  <2>4. CASE claims[m + 1].state = "open"
    <3>1. Stage(m + 1) \in {"pad", "header", "bytes", "length"}
      BY <1>6, <2>3, <2>4, OpenFacts DEF M!Writing
    <3>2. 0 \in 0 .. (Size(m + 1) - 1) /\ At + 0 = At
      BY <2>3, Numbers
    <3>3. Cell(At) = Written(m + 1, 0)
      BY <1>8, <2>1, <2>2, <3>1, <3>2 DEF ManyRecorded
    <3>4. Cell(At) = M!Zero \/ Cell(At) = M!makeHeader(-Size(m + 1), claims[m + 1].id)
      BY <3>1, <3>3 DEF Written
    <3>5. Cell(At).length = 0 \/ Cell(At).length = -Size(m + 1)
      BY <3>4 DEF M!Zero, M!makeHeader
    <3>6. QED
      BY <2>3, <3>5
  <2>5. CASE claims[m + 1].state = "done"
    BY <1>5, <1>8, <2>5, MessageRead
  <2>6. CASE claims[m + 1].state = "void"
    <3>1. Abandoned(m + 1)
      BY <2>1, <2>2, <2>6 DEF ManyRecorded, Stage
    <3>2. ~(Cell(At).length = -Size(m + 1))
      BY <2>3
    <3>3. ~ \A k \in 0 .. (Size(m + 1) - 1) : Cell(At + k) = M!Zero
      <4>1. 0 \in 0 .. (Size(m + 1) - 1) /\ At + 0 = At
        BY <2>3, Numbers
      <4>2. Cell(At) # M!Zero
        BY <2>3 DEF M!Zero
      <4>3. QED
        BY <4>1, <4>2
    <3>4. PICK j \in (m + 1) .. Claimed :
             /\ Cell(At) = M!makeHeader(claims[j].end - At, M!PADDING_MSG_TYPE_ID)
             /\ (At % C) + (claims[j].end - At) <= C
             /\ \A k \in (m + 1) .. j : claims[k].state = "void"
      BY <1>8, <3>1, <3>2, <3>3 DEF Abandoned
    <3>5. QED
      BY <1>5, <1>8, <3>4, AbandonedRead
  <2>7. QED
    BY <2>3, <2>4, <2>5, <2>6
<1>9. QED
  BY <1>6, <1>7, <1>8

-----------------------------------------------------------------------------
(* unblock() *)

(* A step of unblock() leaves the positions and the producers alone. *)
LEMMA UnblockStep ==
  ASSUME M!RingBufferAssumption, ManyRingInv, reader = "idle", UNCHANGED M!UnblockFrame,
         buffer' \in [0 .. (C - 1) -> M!Cells], ub' \in {"idle", "length", "scan", "back", "store"},
         ubScan' \in Int, ManyContents', Unblocking'
  PROVE  ManyRingInv' /\ UNCHANGED M!Queue!vars
<1>1. /\ tail' = tail /\ headCache' = headCache /\ head' = head /\ claims' = claims
      /\ reader' = reader /\ rHead' = rHead /\ bytesRead' = bytesRead /\ handed' = handed
      /\ pc' = pc /\ msg' = msg /\ req' = req /\ pHead' = pHead /\ pTail' = pTail /\ pad' = pad
      /\ ids' = ids
  BY DEF M!UnblockFrame, M!readerVars, M!producerVars
<1>2. Claimed' = Claimed /\ At' = At /\ \A i : Begin(claims, i)' = Begin(claims, i)
  BY <1>1 DEF Claimed, At, Begin
<1>3. ManyBufferType'
  BY <1>1 DEF ManyRingInv, ManyBufferType, Locals
<1>4. Chain(claims)' /\ Covered(claims)'
  BY <1>1 DEF ManyRingInv, Chain, Lies, Begin, Covered, Within
<1>5. ManyProducing'
  BY <1>1, <1>2 DEF ManyRingInv, ManyProducing, Knows, Owned
<1>6. ManyRoom' /\ Reading'
  BY <1>1, <1>2 DEF ManyRingInv, ManyRoom, Reading, Mark
<1>7. UNCHANGED M!Queue!vars
  BY <1>1, ManyQueueKeeps DEF M!Consumed
<1>8. QED
  BY <1>3, <1>4, <1>5, <1>6, <1>7 DEF ManyRingInv

(* Padding over abandoned claims is longer than nothing. *)
LEMMA Onwards ==
  ASSUME M!RingBufferAssumption, ManyRingInv, NEW i \in 1 .. Claimed, NEW j \in i .. Claimed
  PROVE  claims[i].end <= claims[j].end /\ claims[i].at < claims[j].end /\ j \in 1 .. Claimed
         /\ claims[j].end \in Nat
<1>1. j \in 1 .. Claimed /\ Claimed \in Nat
  BY Numbers
<1>2. /\ claims[i].at < claims[i].end /\ claims[i].at \in Nat /\ claims[i].end \in Nat
      /\ claims[j].end \in Nat /\ Begin(claims, j) \in Nat /\ Begin(claims, j) <= claims[j].at
      /\ claims[j].at < claims[j].end /\ claims[j].at \in Nat
  BY <1>1, ClaimFacts
<1>3. CASE i = j
  BY <1>1, <1>2, <1>3
<1>4. CASE i < j
  <2>1. claims[i].end <= Begin(claims, j)
    BY <1>1, <1>4, ClaimOrder
  <2>2. QED
    BY <1>1, <1>2, <2>1
<1>5. QED
  BY <1>1, <1>3, <1>4

LEMMA ContentsKept ==
  ASSUME ManyRingInv, UNCHANGED M!UnblockFrame, buffer' = buffer
  PROVE  ManyContents'
<1>1. tail' = tail /\ head' = head /\ claims' = claims /\ reader' = reader /\ bytesRead' = bytesRead
      /\ pc' = pc
  BY DEF M!UnblockFrame, M!readerVars, M!producerVars
<1>2. Claimed' = Claimed /\ Gone' = Gone
  BY <1>1 DEF Claimed, Gone, At
<1>3. \A i : Stage(i)' = Stage(i) /\ Size(i)' = Size(i) /\ Begin(claims, i)' = Begin(claims, i)
  BY <1>1 DEF Stage, Size, Begin
<1>4. \A q : Cell(q)' = Cell(q)
  BY DEF Cell
<1>5. ASSUME NEW i \in 1 .. Claimed PROVE ManyRecorded(i)' /\ Padded(i)'
  <2>1. ManyRecorded(i) /\ Padded(i)
    BY DEF ManyRingInv, ManyContents
  <2>2. \A k : Written(i, k)' = Written(i, k)
    BY <1>1, <1>3 DEF Written
  <2>3. Abandoned(i) => Abandoned(i)'
    BY <1>1, <1>2, <1>3, <1>4 DEF Abandoned
  <2>4. ManyRecorded(i)'
    BY <1>1, <1>2, <1>3, <1>4, <2>1, <2>2, <2>3 DEF ManyRecorded
  <2>5. Padded(i)'
    BY <1>1, <1>2, <1>3, <1>4, <2>1 DEF Padded
  <2>6. QED
    BY <2>4, <2>5
<1>6. ManyBlank'
  BY <1>1, <1>2, <1>4 DEF ManyRingInv, ManyContents, ManyBlank
<1>7. QED
  BY <1>2, <1>5, <1>6 DEF ManyContents

(* The abandoned claims from the head on become padding. *)
LEMMA PadsOver ==
  ASSUME M!RingBufferAssumption, ManyRingInv, ub # "idle", UNCHANGED M!UnblockFrame,
         NEW i \in 1 .. Claimed, head = claims[i].at, NEW j \in i .. Claimed,
         \A k \in i .. j : claims[k].state = "void",
         (head % C) + (claims[j].end - head) <= C,
         buffer' = [buffer EXCEPT ![head % C] =
                      M!makeHeader(claims[j].end - head, M!PADDING_MSG_TYPE_ID)]
  PROVE  ManyContents' /\ buffer' \in [0 .. (C - 1) -> M!Cells]
<1> DEFINE v == M!makeHeader(claims[j].end - head, M!PADDING_MSG_TYPE_ID)
<1>1. tail' = tail /\ head' = head /\ claims' = claims /\ reader' = reader /\ bytesRead' = bytesRead
      /\ pc' = pc
  BY DEF M!UnblockFrame, M!readerVars, M!producerVars
<1>2. /\ C \in Nat \ {0} /\ head \in Nat /\ tail \in Nat /\ tail <= head + C /\ Claimed \in Nat
      /\ Gone = head
  BY Numbers DEF ManyRingInv, Unblocking, Gone
<1>3. Claimed' = Claimed /\ Gone' = Gone /\ \A k : Begin(claims, k)' = Begin(claims, k)
  BY <1>1 DEF Claimed, Gone, At, Begin
<1>4. head \in head .. (head + C - 1) /\ head < tail
  <2>1. claims[i].at < claims[i].end /\ claims[i].end <= tail /\ claims[i].end \in Nat
    BY ClaimFacts
  <2>2. QED
    BY <1>2, <2>1
<1>5. \A q \in head .. (head + C - 1) : buffer'[q % C] = IF q = head THEN v ELSE buffer[q % C]
  <2>1. buffer' = [buffer EXCEPT ![head % C] = v]
    OBVIOUS
  <2> HIDE DEF v
  <2>2. PICK a \in head .. (head + C - 1) : a = head
    BY <1>4
  <2>3. buffer' = [buffer EXCEPT ![a % C] = v]
    BY <2>1, <2>2
  <2>4. \A q \in head .. (head + C - 1) : buffer'[q % C] = IF q = a THEN v ELSE buffer[q % C]
    BY <2>3, ManyStoreOne, ZenonT(30)
  <2>5. QED
    BY <2>2, <2>4
<1>6. ASSUME NEW k \in 1 .. Claimed, k # i PROVE ManyRecorded(k)' /\ Padded(k)'
  <2>1. Stage(k)' = Stage(k) /\ claims'[k] = claims[k]
    BY <1>1 DEF Stage
  <2>2. Gone' \in Nat /\ Gone <= Gone' /\ Claimed' \in Nat /\ Claimed <= Claimed'
    BY <1>2, <1>3
  <2>3. \A q \in head .. (tail - 1) :
          Within(claims, k, q) /\ Gone' <= q => buffer'[q % C] = buffer[q % C]
    <3> SUFFICES ASSUME NEW q \in head .. (tail - 1), Within(claims, k, q)
                 PROVE  buffer'[q % C] = buffer[q % C]
      OBVIOUS
    <3>1. q \in head .. (head + C - 1) /\ q \in Nat
      BY <1>2
    <3>2. ~Within(claims, i, q)
      BY <1>6, <3>1, ClaimsApart
    <3>3. Within(claims, i, head)
      BY <1>2, ClaimFacts DEF Within
    <3>4. QED
      BY <1>5, <3>1, <3>2, <3>3
  <2>4. \A l \in 1 .. Claimed : claims[l].state = "void" => claims'[l] = claims[l]
    BY <1>1
  <2>5. QED
    BY <1>3, <2>1, <2>2, <2>3, <2>4, ClaimKept
<1>7. ManyRecorded(i)'
  <2>1. i \in i .. j
    BY <1>2
  <2>2. Stage(i)' = "void"
    BY <1>1, <2>1 DEF Stage
  <2>3. buffer'[head % C] = v
    BY <1>4, <1>5
  <2>4. Abandoned(i)'
    BY <1>1, <1>3, <2>3 DEF Abandoned, Cell
  <2>5. QED
    BY <2>2, <2>4 DEF ManyRecorded
<1>8. Padded(i)'
  <2>1. Begin(claims, i) \in Nat
    BY ClaimFacts
  <2>2. ~(Gone <= Begin(claims, i) /\ Begin(claims, i) < claims[i].at)
    BY <1>2, <2>1
  <2>3. QED
    BY <1>1, <1>3, <2>2 DEF Padded
<1>9. ManyBlank'
  <2>1. ASSUME NEW q \in tail .. (head + C - 1) PROVE buffer'[q % C] = M!Zero
    <3>1. q \in head .. (head + C - 1) /\ q # head
      BY <1>2, <1>4
    <3>2. buffer[q % C] = M!Zero
      BY DEF ManyRingInv, ManyContents, ManyBlank, Cell
    <3>3. QED
      BY <1>5, <3>1, <3>2
  <2>2. \A q \in head .. (head - 1) : FALSE
    BY <1>2
  <2>3. QED
    BY <1>1, <1>2, <1>3, <2>1, <2>2 DEF ManyBlank, Cell
<1>10. buffer' \in [0 .. (C - 1) -> M!Cells]
  <2>1. buffer \in [0 .. (C - 1) -> M!Cells]
    BY DEF ManyRingInv, ManyBufferType
  <2>2. claims[j].end \in Nat
    BY Onwards
  <2>3. v \in M!Cells
    BY <1>2, <2>2 DEF M!makeHeader, M!Cells, M!PADDING_MSG_TYPE_ID
  <2>4. QED
    BY <2>1, <2>3
<1>11. QED
  BY <1>3, <1>6, <1>7, <1>8, <1>9, <1>10 DEF ManyContents

(* unblock() looks at the buffer and writes nothing. *)
LEMMA UnblockLooks ==
  ASSUME M!RingBufferAssumption, ManyRingInv,
         M!Unblock \/ M!UnblockLength \/ M!UnblockScan \/ M!UnblockBack
  PROVE  ManyRingInv' /\ UNCHANGED M!Queue!vars /\ strayed' = strayed
<1>1. buffer' = buffer /\ strayed' = strayed /\ UNCHANGED M!UnblockFrame
  BY DEF M!Unblock, M!UnblockLength, M!UnblockScan, M!UnblockBack
<1>2. head' = head /\ reader' = reader
  BY <1>1 DEF M!UnblockFrame, M!readerVars
<1>3. /\ buffer \in [0 .. (C - 1) -> M!Cells] /\ ubScan \in Int /\ head \in Nat
      /\ C \in Nat \ {0}
  BY Numbers DEF ManyRingInv, ManyBufferType
<1>4. reader = "idle" /\ (ub # "idle" => ubHead = head)
  BY DEF ManyRingInv, Unblocking, M!Unblock, M!UnblockLength, M!UnblockScan, M!UnblockBack
<1>5. ub' \in {"idle", "length", "scan", "back", "store"} /\ ubScan' \in Int
  <2>1. CASE M!UnblockLength
    <3>1. ubHead = head /\ head % C \in 0 .. (C - 1)
      BY <1>3, <1>4, <2>1, ManyPlaceInBuffer DEF M!UnblockLength
    <3>2. buffer[head % C].length \in Int
      BY <1>3, <3>1 DEF M!Cells
    <3>3. (head % C) - buffer[head % C].length \in Int /\ (head % C) + 1 \in Int
      BY <3>1, <3>2
    <3>4. QED
      BY <2>1, <3>1, <3>3 DEF M!UnblockLength, M!UnblockReturn, M!IndexOf, C
  <2>2. CASE M!Unblock
    BY <1>3, <2>2 DEF M!Unblock
  <2>3. CASE M!UnblockScan
    <3>1. ubScan + 1 \in Int
      BY <1>3
    <3>2. QED
      BY <1>3, <2>3, <3>1 DEF M!UnblockScan, M!UnblockReturn
  <2>4. CASE M!UnblockBack
    BY <1>3, <2>4 DEF M!UnblockBack, M!UnblockReturn
  <2>5. QED
    BY <2>1, <2>2, <2>3, <2>4
<1>6. Unblocking'
  <2>1. ub' # "idle" => ubHead' = head
    BY <1>4 DEF M!Unblock, M!UnblockLength, M!UnblockScan, M!UnblockBack, M!UnblockReturn
  <2>2. QED
    BY <1>2, <1>4, <2>1 DEF Unblocking
<1>7. ManyContents'
  BY <1>1, ContentsKept
<1>8. QED
  BY <1>1, <1>3, <1>4, <1>5, <1>6, <1>7, UnblockStep

(* Padding that covers abandoned claims and nothing else keeps the         *)
(* invariant; any other is what strayed records.                           *)
LEMMA UnblockStores ==
  ASSUME M!RingBufferAssumption, ManyRingInv, strayed = FALSE, M!UnblockStore
  PROVE  /\ UNCHANGED M!Queue!vars /\ strayed' \in BOOLEAN
         /\ IF strayed' THEN M!TypeOK' ELSE ManyRingInv'
<1>1. /\ ub = "store" /\ UNCHANGED M!UnblockFrame
      /\ ub' = "idle" /\ ubScan' = 0
      /\ strayed' = ~M!AreAbandoned(ubHead, M!PadLength)
  BY DEF M!UnblockStore, M!UnblockReturn
<1>2. reader = "idle" /\ ubHead = head
  BY <1>1 DEF ManyRingInv, Unblocking
<1>3. /\ C \in Nat \ {0} /\ head \in Nat /\ tail \in Nat /\ Claimed \in Nat /\ ubScan \in Int
      /\ buffer \in [0 .. (C - 1) -> M!Cells] /\ bytesRead \in Nat
      /\ headCache \in Nat /\ reader \in {"idle", "record", "zero", "head"}
      /\ pc \in [Producers -> M!Steps]
  BY Numbers DEF ManyRingInv, ManyBufferType, Locals
<1>4. head % C \in 0 .. (C - 1) /\ M!IndexOf(ubHead) = head % C
  BY <1>2, <1>3, ManyPlaceInBuffer DEF M!IndexOf, C
<1>5. M!PadLength = ubScan - (head % C) /\ M!PadLength \in Int
  BY <1>3, <1>4 DEF M!PadLength
<1>6. buffer' = [buffer EXCEPT ![head % C] = M!makeHeader(M!PadLength, M!PADDING_MSG_TYPE_ID)]
  BY <1>4 DEF M!UnblockStore
<1>7. /\ tail' = tail /\ headCache' = headCache /\ head' = head /\ claims' = claims
      /\ reader' = reader /\ rHead' = rHead /\ bytesRead' = bytesRead /\ handed' = handed
      /\ pc' = pc
  BY <1>1 DEF M!UnblockFrame, M!readerVars, M!producerVars
<1>8. UNCHANGED M!Queue!vars
  BY <1>7, ManyQueueKeeps DEF M!Consumed
<1>9. M!TypeOK'
  <2>1. M!makeHeader(M!PadLength, M!PADDING_MSG_TYPE_ID) \in M!Cells
    BY <1>5 DEF M!makeHeader, M!Cells, M!PADDING_MSG_TYPE_ID
  <2>2. buffer' \in [0 .. (C - 1) -> M!Cells]
    BY <1>3, <1>6, <2>1
  <2>3. bytesRead \in 0 .. C
    BY <1>3, <1>4 DEF ManyRingInv, Reading
  <2>4. strayed' \in BOOLEAN
    BY <1>1
  <2>5. QED
    BY <1>1, <1>3, <1>7, <2>2, <2>3, <2>4 DEF M!TypeOK, C
<1>10. ASSUME M!AreAbandoned(ubHead, M!PadLength) PROVE ManyRingInv'
  <2>1. /\ (head % C) + M!PadLength <= C
        /\ \E i \in DOMAIN claims : \E j \in i .. Len(claims) :
             /\ claims[i].at = head /\ claims[j].end = head + M!PadLength
             /\ \A k \in i .. j : claims[k].state = "void"
    BY <1>2, <1>4, <1>10 DEF M!AreAbandoned, C
  <2>2. DOMAIN claims = 1 .. Claimed /\ Len(claims) = Claimed
    BY DEF ManyRingInv, ManyBufferType, Claimed
  <2>a. PICK i \in 1 .. Claimed : \E j \in i .. Claimed :
             /\ claims[i].at = head /\ claims[j].end = head + M!PadLength
             /\ \A k \in i .. j : claims[k].state = "void"
    BY <2>1, <2>2
  <2>3. PICK j \in i .. Claimed :
             /\ claims[i].at = head /\ claims[j].end = head + M!PadLength
             /\ \A k \in i .. j : claims[k].state = "void"
    BY <2>a
  <2>4. claims[j].end - head = M!PadLength
    BY <1>3, <1>5, <2>3
  <2>5. ManyContents' /\ buffer' \in [0 .. (C - 1) -> M!Cells]
    BY <1>1, <1>6, <2>1, <2>3, <2>4, PadsOver
  <2>6. Unblocking'
    BY <1>1 DEF Unblocking
  <2>7. QED
    BY <1>1, <1>2, <2>5, <2>6, UnblockStep
<1>11. QED
  BY <1>1, <1>8, <1>9, <1>10

-----------------------------------------------------------------------------
(* Once a padding has strayed only the types are known. *)
ManyInv == strayed \in BOOLEAN /\ IF strayed THEN M!TypeOK ELSE ManyRingInv

LEMMA ManyConsumerSteps ==
  ASSUME M!RingBufferAssumption, ManyRingInv, strayed = FALSE, M!Consumer
  PROVE  ManyInv' /\ [M!Queue!Next]_(M!Queue!vars)
<1>1. CASE ub = "idle" /\ M!read /\ UNCHANGED <<M!producerVars, M!unblockVars, claims, strayed>>
  <2>1. /\ ub = "idle" /\ UNCHANGED M!producerVars /\ UNCHANGED M!unblockVars /\ claims' = claims
        /\ strayed' = FALSE
    BY <1>1
  <2>2. CASE M!ReadBegin \/ M!ReadStops
    BY <2>1, <2>2, ManyQuietReads DEF ManyInv
  <2>3. CASE M!ReadRecord
    BY <2>1, <2>3, ManyRecordStep DEF M!Queue!Next, ManyInv
  <2>4. CASE M!ReadZero
    BY <2>1, <2>4, ManyZeroStep DEF ManyInv
  <2>5. CASE M!ReadHead
    BY <2>1, <2>5, ManyHeadStep DEF ManyInv
  <2>6. QED
    BY <1>1, <2>2, <2>3, <2>4, <2>5 DEF M!read
<1>2. CASE M!unblock
  <2>1. CASE M!UnblockStore
    BY <2>1, UnblockStores DEF ManyInv
  <2>2. CASE M!Unblock \/ M!UnblockLength \/ M!UnblockScan \/ M!UnblockBack
    BY <2>2, UnblockLooks DEF ManyInv
  <2>3. QED
    BY <1>2, <2>1, <2>2 DEF M!unblock
<1>3. QED
  BY <1>1, <1>2 DEF M!Consumer

LEMMA ManyStutters ==
  ASSUME ManyRingInv, UNCHANGED M!vars
  PROVE  ManyRingInv' /\ UNCHANGED M!Queue!vars
<1>1. /\ buffer' = buffer /\ UNCHANGED M!UnblockFrame /\ UNCHANGED M!unblockVars
  BY DEF M!vars, M!memory, M!UnblockFrame
<1>2. /\ tail' = tail /\ headCache' = headCache /\ head' = head /\ claims' = claims
      /\ reader' = reader /\ rHead' = rHead /\ bytesRead' = bytesRead /\ handed' = handed
      /\ pc' = pc /\ msg' = msg /\ req' = req /\ pHead' = pHead /\ pTail' = pTail /\ pad' = pad
      /\ ids' = ids
      /\ ub' = ub /\ ubHead' = ubHead /\ ubTail' = ubTail /\ ubScan' = ubScan
  BY <1>1 DEF M!UnblockFrame, M!readerVars, M!producerVars, M!unblockVars
<1>3. Claimed' = Claimed /\ At' = At /\ \A i : Begin(claims, i)' = Begin(claims, i)
  BY <1>2 DEF Claimed, At, Begin
<1>4. ManyBufferType' /\ Chain(claims)' /\ Covered(claims)'
  BY <1>1, <1>2 DEF ManyRingInv, ManyBufferType, Locals, Chain, Lies, Begin, Covered, Within
<1>5. ManyProducing'
  BY <1>2, <1>3 DEF ManyRingInv, ManyProducing, Knows, Owned
<1>6. ManyRoom' /\ Reading'
  BY <1>2, <1>3 DEF ManyRingInv, ManyRoom, Reading, Mark
<1>7. ManyContents'
  BY <1>1, ContentsKept
<1>8. Unblocking'
  BY <1>1, <1>2, <1>3 DEF ManyRingInv, Unblocking
<1>9. UNCHANGED M!Queue!vars
  BY <1>2, ManyQueueKeeps DEF M!Consumed
<1>10. QED
  BY <1>4, <1>5, <1>6, <1>7, <1>8, <1>9 DEF ManyRingInv

LEMMA ManyRingSteps ==
  ASSUME M!RingBufferAssumption, ManyInv, [M!Next]_(M!vars)
  PROVE  ManyInv' /\ [M!Queue!Next \/ strayed']_(M!Queue!vars)
<1>1. CASE UNCHANGED M!vars
  <2>1. strayed' = strayed
    BY <1>1 DEF M!vars
  <2>2. CASE strayed
    <3>1. M!TypeOK'
      BY <1>1, <2>2 DEF ManyInv, M!TypeOK, M!vars, M!memory, M!readerVars, M!producerVars, M!unblockVars
    <3>2. QED
      BY <2>1, <2>2, <3>1 DEF ManyInv
  <2>3. CASE ~strayed
    BY <1>1, <2>1, <2>3, ManyStutters DEF ManyInv
  <2>4. QED
    BY <2>2, <2>3
<1>2. CASE ~strayed /\ \E p \in Producers : M!Producer(p) \/ M!Die(p)
  <2>1. strayed' = strayed
    BY <1>2 DEF M!Producer, M!Die, M!write, M!LoadTail, M!LoadHead, M!StoreHeadCache,
         M!CompareAndSetTail, M!WritePadding, M!WriteHeader, M!WriteBytes, M!WriteLength, M!Others
  <2>2. ManyRingInv' /\ [M!Queue!Next]_(M!Queue!vars)
    BY <1>2, ManyProducerSteps DEF ManyInv
  <2>3. QED
    BY <1>2, <2>1, <2>2 DEF ManyInv
<1>3. CASE ~strayed /\ M!Consumer
  BY <1>3, ManyConsumerSteps DEF ManyInv
<1>4. QED
  BY <1>1, <1>2, <1>3 DEF M!Next, M!Quiet

LEMMA ManyRingSound ==
  ASSUME M!RingBufferAssumption, ManyRingInv, strayed \in BOOLEAN
  PROVE  M!TypeOK /\ M!NeverOverrun /\ M!FreeSpaceZeroed /\ M!NoTornMessage
<1>1. /\ C \in Nat \ {0} /\ head \in Nat /\ tail \in Nat /\ bytesRead \in Nat /\ tail <= head + C
      /\ head <= tail
  BY Numbers
<1>2. head % C \in 0 .. (C - 1)
  BY <1>1, ManyPlaceInBuffer
<1>3. M!TypeOK
  <2>1. bytesRead \in 0 .. C
    BY <1>1, <1>2 DEF ManyRingInv, Reading
  <2>2. QED
    BY <2>1 DEF ManyRingInv, ManyBufferType, Locals, M!TypeOK, C
<1>4. M!NeverOverrun
  BY <1>1 DEF M!NeverOverrun, C
<1>5. M!FreeSpaceZeroed
  <2> SUFFICES ASSUME NEW i \in 0 .. (C - 1), \A pos \in head .. (tail - 1) : pos % C # i
               PROVE  buffer[i] = M!Zero
    BY DEF M!FreeSpaceZeroed, M!IndexOf, C
  <2> DEFINE d == IF (head % C) <= i THEN i - (head % C) ELSE i + C - (head % C)
  <2>1. d \in 0 .. (C - 1)
    BY <1>1, <1>2
  <2>2. (head + d) % C = IF (head % C) + d < C THEN (head % C) + d ELSE (head % C) + d - C
    <3> HIDE DEF d
    <3>1. QED
      BY <1>1, <2>1, PlaceAfter
  <2>3. (head + d) % C = i
    <3>1. (IF (head % C) + d < C THEN (head % C) + d ELSE (head % C) + d - C) = i
      BY <1>1, <1>2
    <3> HIDE DEF d
    <3>2. QED
      BY <2>2, <3>1
  <2> HIDE DEF d
  <2>4. head + d \notin head .. (tail - 1)
    BY <2>3
  <2>5. head + d \in tail .. (head + C - 1)
    BY <1>1, <2>1, <2>4
  <2>6. buffer[(head + d) % C] = M!Zero
    BY <2>5 DEF ManyRingInv, ManyContents, ManyBlank, Cell
  <2>7. QED
    BY <2>3, <2>6
<1>6. M!NoTornMessage
  <2>1. handed \in Seq(ManyWhole)
    BY DEF ManyRingInv, ManyBufferType
  <2> SUFFICES ASSUME NEW n \in DOMAIN handed, NEW k \in DOMAIN handed[n].body
               PROVE  handed[n].body[k] = M!MsgUnit(handed[n].id)
    BY DEF M!NoTornMessage
  <2>2. handed[n] \in ManyWhole
    BY <2>1
  <2>3. PICK i \in 1 .. MaxWrites, l \in Nat : handed[n] = [id |-> i, body |-> [y \in 1 .. l |-> M!MsgUnit(i)]]
    BY <2>2 DEF ManyWhole
  <2>4. QED
    BY <2>3
<1>7. QED
  BY <1>3, <1>4, <1>5, <1>6

(* The ring buffer of many producers is a ClaimQueue: the messages of the  *)
(* producers are handed to the consumer in the order in which their        *)
(* compare-and-set moved the tail, once each and complete; the consumer    *)
(* waits for the claim it stands at, and passes over none but what its     *)
(* producer abandoned and unblock() has made padding.  This holds however  *)
(* the producers, the consumer, unblock() and producers that die at any    *)
(* point interleave, up to the first padding that unblock() stores over a  *)
(* record that was not abandoned (ManyToOneRingBuffer::write,              *)
(* claimCapacity, read, unblock).                                          *)
THEOREM ManyToOneImplements ==
  ASSUME M!RingBufferAssumption
  PROVE  M!Spec => M!QueueSpec
<1>1. M!Init => ManyInv /\ M!Queue!Init
  BY ManyRingInvInit DEF ManyInv, M!Init
<1>2. ManyInv /\ [M!Next]_(M!vars) => ManyInv' /\ [M!Queue!Next \/ strayed']_(M!Queue!vars)
  BY ManyRingSteps
<1>3. QED
  BY <1>1, <1>2, PTL DEF M!Spec, M!QueueSpec

(* The positions and the cells are what their types say and, up to the     *)
(* first padding of unblock() over a record that was not abandoned, no     *)
(* claim covers a place that the consumer has not given back, although the *)
(* producers decide on a cached head and race for the tail, what is free   *)
(* is zero, by which an unwritten record is told from an old one, and      *)
(* every message the handler is given has the bytes of its own producer    *)
(* (ManyToOneRingBuffer::claimCapacity, write, read, unblock).             *)
THEOREM ManyToOneSound ==
  ASSUME M!RingBufferAssumption
  PROVE  M!Spec => [](/\ M!TypeOK
                      /\ ~strayed => M!NeverOverrun /\ M!FreeSpaceZeroed /\ M!NoTornMessage)
<1>1. M!Init => ManyInv
  BY ManyRingInvInit DEF ManyInv, M!Init
<1>2. ManyInv /\ [M!Next]_(M!vars) => ManyInv'
  BY ManyRingSteps
<1>3. ManyInv => /\ M!TypeOK
                 /\ ~strayed => M!NeverOverrun /\ M!FreeSpaceZeroed /\ M!NoTornMessage
  BY ManyRingSound DEF ManyInv
<1>4. QED
  BY <1>1, <1>2, <1>3, PTL DEF M!Spec
=============================================================================
