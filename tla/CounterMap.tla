----------------------------- MODULE CounterMap -----------------------------
(***************************************************************************)
(* The map of counters of the C client                                     *)
(* (aeron/collections/aeron_int64_counter_map.h): one array of keys and    *)
(* values side by side, where a value equal to initial_value marks an      *)
(* absent entry.  A counter that comes back to initial_value is removed.   *)
(***************************************************************************)
EXTENDS Integers, FiniteSetsExt

CONSTANTS
  Keys,            \* 64-bit keys
  initial_value,
  HashCode,        \* folded hash of each key
  InitialCapacity, \* a power of two
  LoadPercent,     \* load_factor, in hundredths
  MaxLength,       \* bound: the length the array may grow to
  MaxValue,        \* bound: how far a counter moves from initial_value
  AllocFails       \* whether an allocation may fail

CounterMapAssumption ==
  /\ Keys \subseteq Int /\ initial_value \in Int /\ HashCode \in [Keys -> Nat]
  /\ InitialCapacity \in Nat \ {0} /\ LoadPercent \in 1 .. 99 /\ MaxValue \in Nat
  /\ AllocFails \in BOOLEAN

VARIABLES
  map,     \* the struct: entries, size, resize_threshold
  dict     \* history: the counters that were put or counted up

vars == <<map, dict>>

Length(entries) == Cardinality(DOMAIN entries)
Fresh(length) == [i \in 0 .. (length - 1) |-> initial_value]

init ==
  /\ map = [entries |-> Fresh(2 * InitialCapacity), size |-> 0,
            resize_threshold |-> (LoadPercent * InitialCapacity) \div 100]
  /\ dict = << >>

(* hash_key: an even index. *)
hash_key(key, length) == (2 * HashCode[key]) % length

(* The first place that is not busy from the key's hash on, two cells at a *)
(* time.                                                                   *)
ProbePast(busy, key, length) ==
  LET At(n) == (hash_key(key, length) + 2 * n) % length
  IN  At(Min({n \in 0 .. ((length \div 2) - 1) : At(n) \notin busy}))

(* The places a probe for the key does not stop at. *)
BusyFor(entries, key) ==
  {i \in DOMAIN entries : i % 2 = 0 /\ entries[i + 1] # initial_value /\ entries[i] # key}

Probe(entries, key) == ProbePast(BusyFor(entries, key), key, Length(entries))

get(entries, key) == entries[Probe(entries, key) + 1]

(* The search for a free place compares the KEY cell with initial_value. *)
rehash(entries, new_length) ==
  LET old == Length(entries) \div 2
      moved[n \in 0 .. old] ==
        IF n = 0 THEN Fresh(new_length)
        ELSE LET key == entries[2 * (n - 1)]
                 value == entries[2 * (n - 1) + 1]
                 tmp == moved[n - 1]
                 busy == {i \in DOMAIN tmp : tmp[i] # initial_value}
                 index == ProbePast(busy, key, new_length)
             IN  IF value = initial_value THEN tmp
                 ELSE [tmp EXCEPT ![index] = key, ![index + 1] = value]
  IN  moved[old]

(* The map stays as it is when the new array cannot be allocated: put and  *)
(* get_and_add return -1, with the counter stored.                         *)
grow(m, fails) ==
  IF m.size <= m.resize_threshold \/ fails THEN m
  ELSE LET new == 2 * Length(m.entries)
       IN  [m EXCEPT !.entries = rehash(@, new),
                     !.resize_threshold = ((new \div 2) * LoadPercent) \div 100]

movesBack(index, hash, deleted) ==
  \/ index < hash /\ (hash <= deleted \/ deleted <= index)
  \/ hash <= deleted /\ deleted <= index

compact_chain(entries, delete_index) ==
  LET length == Length(entries)
      after[n \in 0 .. (length \div 2)] ==
        IF n = 0 THEN [entries |-> entries, deleted |-> delete_index, ended |-> FALSE]
        ELSE LET at == after[n - 1]
                 index == (delete_index + 2 * n) % length
             IN  IF at.ended \/ at.entries[index + 1] = initial_value
                 THEN [at EXCEPT !.ended = TRUE]
                 ELSE IF movesBack(index, hash_key(at.entries[index], length), at.deleted)
                 THEN [at EXCEPT !.entries = [@ EXCEPT ![at.deleted] = at.entries[index],
                                                ![at.deleted + 1] = at.entries[index + 1],
                                                ![index + 1] = initial_value],
                                 !.deleted = index]
                 ELSE at
  IN  after[length \div 2].entries

Stored(m, index, key, value) == [m.entries EXCEPT ![index] = key, ![index + 1] = value]

(* Within the bound on the length. *)
Bounded == map.size < map.resize_threshold \/ 2 * Length(map.entries) <= MaxLength

(* A loop that probes for the key ends. *)
ProbeEnds(key) ==
  Cardinality(BusyFor(map.entries, key)) < Length(map.entries) \div 2

With(key, value) == [k \in DOMAIN dict \cup {key} |-> IF k = key THEN value ELSE dict[k]]
Without(ks) == [k \in DOMAIN dict \ ks |-> dict[k]]

Removed(m, key) ==
  LET index == Probe(m.entries, key)
  IN  IF m.entries[index + 1] = initial_value THEN m
      ELSE [m EXCEPT !.entries = compact_chain([@ EXCEPT ![index + 1] = initial_value], index),
                     !.size = @ - 1]

-----------------------------------------------------------------------------
remove ==
  \E key \in Keys :
    ProbeEnds(key) /\ map' = Removed(map, key) /\ dict' = Without({key})

(* initial_value itself is refused. *)
put ==
  /\ Bounded
  /\ \E key \in Keys, value \in (initial_value - MaxValue) .. (initial_value + MaxValue) :
       LET index == Probe(map.entries, key)
       IN  /\ value # initial_value /\ ProbeEnds(key)
           /\ \E fails \in {FALSE, AllocFails} :
                map' = grow([map EXCEPT !.entries = Stored(map, index, key, value),
                               !.size = IF map.entries[index + 1] = initial_value
                                        THEN @ + 1 ELSE @], fails)
           /\ dict' = With(key, value)

(* get_and_add for a delta that is not zero, which changes nothing. *)
get_and_add(key, delta) ==
  LET index == Probe(map.entries, key)
      old == map.entries[index + 1]
      new == old + delta
      stored == [map EXCEPT !.entries[index + 1] = new]
  IN  /\ Bounded /\ ProbeEnds(key)
      /\ new \in (initial_value - MaxValue) .. (initial_value + MaxValue)
      /\ \E fails \in {FALSE, AllocFails} :
           map' = IF old = initial_value
                  THEN grow([stored EXCEPT !.entries[index] = key, !.size = @ + 1], fails)
                  ELSE IF new = initial_value
                  THEN [stored EXCEPT !.entries = compact_chain(@, index), !.size = @ - 1]
                  ELSE stored
      /\ dict' = LET was == IF key \in DOMAIN dict THEN dict[key] ELSE initial_value
                 IN  IF was + delta = initial_value THEN Without({key})
                     ELSE With(key, was + delta)

inc == \E key \in Keys : get_and_add(key, 1)
dec == \E key \in Keys : get_and_add(key, -1)

remove_if ==
  \E Chosen \in SUBSET Keys :
    LET steps == (Length(map.entries) \div 2) + map.size
        after[n \in 0 .. steps] ==
          IF n = 0 THEN [m |-> map, i |-> 0, remaining |-> map.size]
          ELSE LET s == after[n - 1]
                   hit == /\ s.m.entries[s.i + 1] # initial_value
                          /\ s.m.entries[s.i] \in Chosen
               IN  IF s.i >= Length(map.entries) \/ s.remaining = 0 THEN s
                   ELSE IF hit THEN [s EXCEPT !.m = Removed(@, s.m.entries[s.i]),
                                              !.remaining = @ - 1]
                   ELSE [s EXCEPT !.i = @ + 2]
    IN  map' = after[steps].m /\ dict' = Without(Chosen)

Next == remove \/ put \/ inc \/ dec \/ remove_if

Spec == init /\ [][Next]_vars

-----------------------------------------------------------------------------
(* Every loop that probes for a key ends: the array is never full (get,    *)
(* put, get_and_add, remove).                                              *)
ProbesEnd == \A key \in Keys : ProbeEnds(key)

(* Every counter has the value it was put or counted to, whatever was      *)
(* doubled, moved or removed since (get, get_and_add, rehash).             *)
CountersExact ==
  \A key \in Keys :
    get(map.entries, key) = IF key \in DOMAIN dict THEN dict[key] ELSE initial_value

(* The entries that for_each visits. *)
for_each == {i \in DOMAIN map.entries : i % 2 = 0 /\ map.entries[i + 1] # initial_value}

(* for_each visits every counter once and size counts them (for_each).     *)
CountersVisited ==
  /\ Cardinality(for_each) = map.size
  /\ {map.entries[i] : i \in for_each} = DOMAIN dict
=============================================================================
