------------------------------ MODULE HashMaps ------------------------------
(***************************************************************************)
(* The four open-addressing maps of the C client                           *)
(* (aeron/collections/aeron_*_hash_map.h): from a 64-bit integer to a      *)
(* pointer, to a tagged pointer, from a string and from an array of bytes. *)
(* They share one algorithm: linear probing from the hash of the key,      *)
(* deletion that moves later entries of the chain back, doubling when the  *)
(* load factor is exceeded.  A key is a model of the key's bytes; `from`   *)
(* names the caller's memory that the string and array maps point to.      *)
(***************************************************************************)
EXTENDS Integers, FiniteSetsExt

CONSTANTS
  Kinds,            \* the maps looked at: "int64", "tagged", "str", "array"
  Keys, Values,     \* Values: the pointers that are not NULL
  HashCode,         \* hash code of each key
  InitialCapacity,  \* a power of two
  LoadPercent,      \* load_factor, in hundredths
  MaxCapacity,      \* bound: the capacity the map may grow to
  AllocFails        \* whether an allocation may fail

HashMapsAssumption ==
  /\ Keys # {} /\ HashCode \in [Keys -> Nat]
  /\ InitialCapacity \in Nat \ {0} /\ LoadPercent \in 1 .. 99
  /\ AllocFails \in BOOLEAN

VARIABLES
  map,     \* the struct: kind, slots (keys and values), size, resize_threshold
  dict     \* history: the value put last for each key, and the memory of the
           \* key that the map was given and has to hold on to

vars == <<map, dict>>

NULL == 0
Empty == [present |-> FALSE, key |-> NULL, from |-> NULL, tag |-> 0, value |-> NULL]

Capacity(m) == Cardinality(DOMAIN m.slots)
threshold(capacity) == (LoadPercent * capacity) \div 100

(* hash_key: the hash code under the mask. *)
hash_key(key, capacity) == HashCode[key] % capacity

NewMap(kind) ==
  [kind |-> kind, slots |-> [i \in 0 .. (InitialCapacity - 1) |-> Empty],
   size |-> 0, resize_threshold |-> threshold(InitialCapacity)]

(* The slots a probe for the key may stop at, as distances from its hash:  *)
(* an empty one or the one that holds the key.                             *)
Stops(slots, key) ==
  LET capacity == Cardinality(DOMAIN slots)
  IN  {n \in 0 .. (capacity - 1) :
         LET e == slots[(hash_key(key, capacity) + n) % capacity]
         IN  ~e.present \/ e.key = key}

(* The slot where the probe for a key ends. *)
Probe(slots, key) ==
  LET capacity == Cardinality(DOMAIN slots)
  IN  (hash_key(key, capacity) + Min(Stops(slots, key))) % capacity

int64_get(m, key) == m.slots[Probe(m.slots, key)]

-----------------------------------------------------------------------------
(* Each entry is put anew, in the order of the old slots. *)
rehash(slots, new_capacity) ==
  LET old == Cardinality(DOMAIN slots)
      moved[n \in 0 .. old] ==
        IF n = 0 THEN [i \in 0 .. (new_capacity - 1) |-> Empty]
        ELSE IF ~slots[n - 1].present THEN moved[n - 1]
        ELSE [moved[n - 1] EXCEPT ![Probe(moved[n - 1], slots[n - 1].key)] = slots[n - 1]]
  IN  moved[old]

(* The threshold is raised before the arrays are allocated. *)
grow(m, fails) ==
  IF m.size <= m.resize_threshold THEN m
  ELSE LET new == 2 * Capacity(m)
       IN  [m EXCEPT !.resize_threshold = threshold(new),
                     !.slots = IF fails THEN @ ELSE rehash(@, new)]

Inserted(m, index, entry) ==
  [m EXCEPT !.slots[index] = entry, !.size = IF m.slots[index].present THEN @ ELSE @ + 1]

(* Room for one more doubling within the bound. *)
Bounded(m, key) ==
  int64_get(m, key).present \/ m.size < m.resize_threshold
  \/ 2 * Capacity(m) <= MaxCapacity

Put(kind, key, entry) ==
  /\ map.kind = kind
  /\ Stops(map.slots, key) # {}
  /\ Bounded(map, key)
  /\ \E fails \in {FALSE, AllocFails} :
       map' = grow(Inserted(map, Probe(map.slots, key), entry), fails)
  /\ dict' = [k \in DOMAIN dict \cup {key} |->
                IF k # key THEN dict[k]
                ELSE IF kind = "str" /\ k \in DOMAIN dict
                THEN [entry EXCEPT !.from = dict[k].from] ELSE entry]

(* A NULL value is refused: nothing changes. *)
int64_put ==
  \E key \in Keys, value \in Values :
    Put("int64", key, [present |-> TRUE, key |-> key, from |-> NULL, tag |-> 0,
                       value |-> value])

(* The flag in the entry marks it present: a NULL value is stored. *)
tagged_put ==
  \E key \in Keys, value \in Values \cup {NULL}, tag \in {0, 1} :
    Put("tagged", key, [present |-> TRUE, key |-> key, from |-> NULL, tag |-> tag,
                        value |-> value])

(* The entry keeps the memory of the key it was first put with. *)
str_put ==
  \E key \in Keys, value \in Values :
    LET found == int64_get(map, key)
    IN  Put("str", key, [present |-> TRUE, key |-> key, tag |-> 0, value |-> value,
                         from |-> IF found.present THEN found.from ELSE value])

(* The key's memory is replaced together with the value. *)
array_put ==
  \E key \in Keys, value \in Values :
    Put("array", key, [present |-> TRUE, key |-> key, tag |-> 0, value |-> value,
                       from |-> value])

-----------------------------------------------------------------------------
(* Mutant: the wrap around the end of the table is forgotten. *)
movesBack_NoWrap(index, hash, deleted) == hash <= deleted /\ deleted <= index

(* The test of compact_chain: the entry at index is moved to the hole. *)
movesBack(index, hash, deleted) ==
  \/ index < hash /\ (hash <= deleted \/ deleted <= index)
  \/ hash <= deleted /\ deleted <= index

(* The entries behind a hole, up to the first empty slot, fill it. *)
compact_chain(slots, delete_index) ==
  LET capacity == Cardinality(DOMAIN slots)
      after[n \in 0 .. capacity] ==
        IF n = 0 THEN [slots |-> slots, deleted |-> delete_index, ended |-> FALSE]
        ELSE LET at == after[n - 1]
                 index == (delete_index + n) % capacity
             IN  IF at.ended \/ ~at.slots[index].present
                 THEN [at EXCEPT !.ended = TRUE]
                 ELSE IF movesBack(index, hash_key(at.slots[index].key, capacity), at.deleted)
                 THEN [at EXCEPT !.slots = [@ EXCEPT ![at.deleted] = at.slots[index],
                                                     ![index] = Empty],
                                 !.deleted = index]
                 ELSE at
  IN  after[capacity].slots

Removed(m, key) ==
  LET index == Probe(m.slots, key)
  IN  IF ~m.slots[index].present THEN m
      ELSE [m EXCEPT !.slots = compact_chain([@ EXCEPT ![index] = Empty], index),
                     !.size = @ - 1]

Remove(kind, key) ==
  /\ map.kind = kind
  /\ Stops(map.slots, key) # {}
  /\ map' = Removed(map, key)
  /\ dict' = [k \in DOMAIN dict \ {key} |-> dict[k]]

int64_remove == \E key \in Keys : Remove("int64", key)
tagged_remove == \E key \in Keys : Remove("tagged", key)
str_remove == \E key \in Keys : Remove("str", key)
array_remove == \E key \in Keys : Remove("array", key)

(* After a removal the loop looks at the same slot again: an entry of the  *)
(* chain may have moved there.                                             *)
step(removed, s) ==
  IF removed THEN [s EXCEPT !.remaining = @ - 1] ELSE [s EXCEPT !.i = @ + 1]

RemovedIf(m, Chosen) ==
  LET steps == Capacity(m) + m.size
      after[n \in 0 .. steps] ==
        IF n = 0 THEN [m |-> m, i |-> 0, remaining |-> m.size]
        ELSE LET s == after[n - 1]
                 e == s.m.slots[s.i]
                 hit == e.present /\ e.key \in Chosen
             IN  IF s.i >= Capacity(m) \/ s.remaining = 0 THEN s
                 ELSE step(hit, IF hit THEN [s EXCEPT !.m = Removed(@, e.key)] ELSE s)
  IN  after[steps].m

RemoveIf(kind, Chosen) ==
  /\ map.kind = kind
  /\ \A key \in Keys : Stops(map.slots, key) # {}
  /\ map' = RemovedIf(map, Chosen)
  /\ dict' = [k \in DOMAIN dict \ Chosen |-> dict[k]]

int64_remove_if == \E Chosen \in SUBSET Keys : RemoveIf("int64", Chosen)
tagged_remove_if == \E Chosen \in SUBSET Keys : RemoveIf("tagged", Chosen)

int64_init == map = NewMap("int64")
tagged_init == map = NewMap("tagged")
str_init == map = NewMap("str")
array_init == map = NewMap("array")

Init ==
  /\ int64_init \/ tagged_init \/ str_init \/ array_init
  /\ map.kind \in Kinds
  /\ dict = << >>

Next ==
  \/ int64_put \/ tagged_put \/ str_put \/ array_put
  \/ int64_remove \/ tagged_remove \/ str_remove \/ array_remove
  \/ int64_remove_if \/ tagged_remove_if

Spec == Init /\ [][Next]_vars

-----------------------------------------------------------------------------
(* Every loop that probes for a key ends: the table is never full, even    *)
(* for a key that it does not hold (get, put, remove, compact_chain).      *)
ProbesEnd == \A key \in Keys : Stops(map.slots, key) # {}

(* A lookup finds the value put last and nothing for a key that was        *)
(* removed, through any chain of collisions, moves and doublings (get).    *)
LookupExact ==
  \A key \in Keys :
    IF key \in DOMAIN dict
    THEN /\ int64_get(map, key).present
         /\ int64_get(map, key).value = dict[key].value
         /\ int64_get(map, key).tag = dict[key].tag
    ELSE ~int64_get(map, key).present

(* The slots that for_each visits. *)
for_each == {i \in DOMAIN map.slots : map.slots[i].present}

(* for_each visits every entry once and size counts them, after any number *)
(* of removals (for_each, remove, remove_if).                              *)
VisitsExact ==
  /\ Cardinality(for_each) = map.size /\ map.size = Cardinality(DOMAIN dict)
  /\ {map.slots[i].key : i \in for_each} = DOMAIN dict

(* Each entry points to the memory of its own key, wherever compactions    *)
(* and doublings have moved it: in an array map to the key that came with  *)
(* the value it holds, in a string map to the one that the first put of    *)
(* the key gave (put, compact_chain, rehash).                              *)
KeyMemoryKept ==
  \A i \in for_each :
    /\ map.slots[i].from = dict[map.slots[i].key].from
    /\ map.kind = "array" => map.slots[i].from = map.slots[i].value

(* A string map, too, points to the key that came with the value it holds. *)
(* A put that replaces the value keeps the memory of the old key, which    *)
(* the caller may free with the old value (aeron_str_to_ptr_hash_map_put). *)
(* Not a property of the code.                                             *)
StrKeyLivesWithValue ==
  map.kind = "str" => \A i \in for_each : map.slots[i].from = map.slots[i].value
=============================================================================
