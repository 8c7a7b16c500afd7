------------------------------- MODULE HashMap --------------------------------
(***************************************************************************)
(* The chained hash table (util/map/map.c), whose buckets are lists.  A    *)
(* key is a member of a set with any hash, a value anything; copying them  *)
(* is left out.                                                            *)
(***************************************************************************)
EXTENDS List, SequencesExt

CONSTANTS
    Hash,                   \* of every key
    MAP_START_CAPACITY

ASSUME HashMapAssumption ==
    /\ MAP_START_CAPACITY \in Nat \ {0}
    /\ \A key \in DOMAIN Hash : Hash[key] \in Nat

buckets_init(capacity) == [i \in 0 .. capacity - 1 |-> ListNew]

map_init(capacity) ==
    LET start == IF capacity > MAP_START_CAPACITY THEN capacity ELSE MAP_START_CAPACITY
    IN  [buckets |-> buckets_init(start), capacity |-> start, size |-> 0]

Bucket(map, key) == map.buckets[Hash[key] % map.capacity]

\* Where in the chain the key is.
Found(list, key) ==
    LET e == ListValues(list) IN {i \in DOMAIN e : e[i].key = key}

map_exists(map, key) == Found(Bucket(map, key), key) # {}

map_get(map, key) ==
    LET list == Bucket(map, key)
    IN  IF map_exists(map, key) THEN ListValues(list)[Max(Found(list, key))].val ELSE NULL

map_remove(map, key) ==
    LET list == Bucket(map, key) IN
    IF ~ map_exists(map, key) THEN map
    ELSE [map EXCEPT !.buckets[Hash[key] % map.capacity] =
                        ListIteratorDeleteNode(list, Iterated(list)[Min(Found(list, key))]),
                     !.size = @ - 1]

\* FOR_MAP: the entries, bucket by bucket.
Entries(map) == FlattenSeq([i \in 1 .. map.capacity |-> ListValues(map.buckets[i - 1])])

\* MAP_LOAD_FACTOR
map_should_resize(map) == 4 * map.size >= 3 * map.capacity

\* Mutant: the entries stay in the buckets they were in.
ResizeKeepsBuckets(map) ==
    [map EXCEPT !.capacity = 2 * @,
                !.buckets = @ @@ [i \in map.capacity .. 2 * map.capacity - 1 |-> ListNew]]

\* MAP_EXTENSION_RATIO
map_resize(map) ==
    LET capacity == 2 * map.capacity
        e == Entries(map)
        filled[i \in 0 .. Len(e)] ==
            IF i = 0 THEN buckets_init(capacity)
            ELSE [filled[i - 1] EXCEPT ![Hash[e[i].key] % capacity] = ListAppendTail(@, e[i])]
    IN  [map EXCEPT !.capacity = capacity, !.buckets = filled[Len(e)]]

\* entry->val = value, in every entry with the key.
Replaced(list, key, val) ==
    [list EXCEPT !.node =
        [n \in DOMAIN @ |->
            IF @[n].value.key = key THEN [@[n] EXCEPT !.value.val = val] ELSE @[n]]]

map_put(map, key, val) ==
    LET m == IF map_should_resize(map) THEN map_resize(map) ELSE map
        i == Hash[key] % m.capacity
        list == m.buckets[i]
    IN  IF map_exists(m, key)
        THEN [m EXCEPT !.buckets[i] = Replaced(list, key, val)]
        ELSE [m EXCEPT !.buckets[i] = ListAppendTail(list, [key |-> key, val |-> val]),
                       !.size = @ + 1]

\* What makes a lookup right: every key is once in the table, in the bucket of its hash.
WellHashed(map) ==
    /\ \A i \in 0 .. map.capacity - 1 :
          /\ WellLinked(map.buckets[i])
          /\ \A e \in ToSet(ListValues(map.buckets[i])) : Hash[e.key] % map.capacity = i
    /\ map.size = Len(Entries(map))
    /\ Cardinality({e.key : e \in ToSet(Entries(map))}) = map.size
===============================================================================
