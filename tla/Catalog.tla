------------------------------- MODULE Catalog --------------------------------
(***************************************************************************)
(* The tables of a database (core/src/database/Database.c): their schemes  *)
(* are records of a pool of the file, and a hash map in memory answers     *)
(* every statement.  CREATE TABLE and DROP TABLE change the one and then   *)
(* the other; opening the file fills the map from the pool.                *)
(*                                                                         *)
(* The heaps of the pool are sequences of records: a flush commits the     *)
(* appends in order and fills each hole with the last record.  A call may  *)
(* fail at any step, and the process may be killed; nothing is undone.     *)
(***************************************************************************)
EXTENDS HashMap

CONSTANTS
    Names,
    Heaps,          \* POOL_SIZE, 57
    MaxPools,       \* bound: tables created
    MaxCuts         \* bound: kills and failures

ASSUME CatalogAssumption ==
    /\ DOMAIN Hash = Names
    /\ Heaps \in Nat \ {0} /\ MaxPools \in Nat /\ MaxCuts \in Nat

VARIABLES
    tablesPool,     \* of each heap, its records; in the file
    tables,         \* database->tables: from names to pools; in memory
    up,             \* the process runs
    pc,             \* where CREATE or DROP is
    op,             \* the statement, the name, and the pool and heap of the scheme
    heap,           \* the heap the flush is in
    said,           \* the last answer
    pools,          \* pools created so far; they are numbered as they come
    fate,           \* history: of each of them, "new", "table" or "dropped"
    tainted,        \* history: names whose scheme a cut may have left pending or lost
    cuts            \* history: kills and failures so far
file == <<tablesPool, pools>>
history == <<fate, tainted, cuts>>
vars == <<tablesPool, tables, up, pc, op, heap, said, pools, fate, tainted, cuts>>

Pool == 1 .. MaxPools
Scheme == [name : Names, pool : Pool, mark : {"added", "stored", "deleted"}]
NoOp == [kind |-> "none", name |-> NULL, pool |-> 0, heap |-> 1]

Schemes == UNION {ToSet(tablesPool[h]) : h \in 1 .. Heaps}

TypeOK ==
    /\ tablesPool \in [1 .. Heaps -> Seq(Scheme)]
    /\ up \in BOOLEAN /\ pc \in {"idle", "create", "append", "added", "deleted", "put"}
    /\ heap \in 1 .. Heaps
    /\ said \in {"none", "DB_OK", "DB_ERR", "DB_TABLE_EXISTS", "DB_UNKNOWN_TABLE"}
    /\ pools \in 0 .. MaxPools
    /\ fate \in [Pool -> {"new", "table", "dropped"}]
    /\ tainted \subseteq Names /\ cuts \in 0 .. MaxCuts

EmptyMap == map_init(MAP_START_CAPACITY)

\* DatabaseNew on a new file.
Init ==
    /\ tablesPool = [h \in 1 .. Heaps |-> <<>>] /\ pools = 0
    /\ tables = EmptyMap /\ up = TRUE
    /\ pc = "idle" /\ op = NoOp /\ heap = 1 /\ said = "none"
    /\ fate = [p \in Pool |-> "new"] /\ tainted = {} /\ cuts = 0

Return(answer) == pc' = "idle" /\ op' = NoOp /\ heap' = 1 /\ said' = answer

FlushPool == pc' = "added" /\ heap' = 1

-----------------------------------------------------------------------------
(***************************************************************************)
(* DatabaseCreateTable                                                     *)
(***************************************************************************)
\* Mutant: the pool is created before the name is looked up.
CreateTablePoolFirst(n, h) ==
    /\ pc = "idle" /\ up /\ pools < MaxPools
    /\ IF map_exists(tables, n)
       THEN Return("DB_TABLE_EXISTS") /\ pools' = pools + 1
       ELSE /\ pc' = "create" /\ said' = "none"
            /\ op' = [kind |-> "create", name |-> n, pool |-> 0, heap |-> h]
            /\ UNCHANGED <<heap, pools>>
    /\ UNCHANGED <<tablesPool, tables, up, history>>

\* Mutant: the name is not looked up.
CreateTableTwice(n, h) ==
    /\ pc = "idle" /\ up /\ pools < MaxPools
    /\ pc' = "create" /\ said' = "none"
    /\ op' = [kind |-> "create", name |-> n, pool |-> 0, heap |-> h]
    /\ UNCHANGED heap
    /\ UNCHANGED <<file, tables, up, history>>

\* The heap is the one for the size of the scheme.
CreateTable(n, h) ==
    /\ pc = "idle" /\ up /\ pools < MaxPools
    /\ IF map_exists(tables, n)
       THEN Return("DB_TABLE_EXISTS")
       ELSE /\ pc' = "create" /\ said' = "none"
            /\ op' = [kind |-> "create", name |-> n, pool |-> 0, heap |-> h]
            /\ UNCHANGED heap
    /\ UNCHANGED <<file, tables, up, history>>

PoolCreate ==                   \* pool_create
    /\ pc = "create"
    /\ pools' = pools + 1 /\ op' = [op EXCEPT !.pool = pools + 1]
    /\ pc' = "append"
    /\ UNCHANGED <<tablesPool, tables, up, heap, said, history>>

PoolAppend ==                   \* pool_append
    /\ pc = "append"
    /\ tablesPool' = [tablesPool EXCEPT ![op.heap] =
                        Append(@, [name |-> op.name, pool |-> op.pool, mark |-> "added"])]
    /\ FlushPool
    /\ UNCHANGED <<tables, up, op, said, pools, history>>

Put ==                          \* MAP_PUT or MAP_REMOVE, and DB_OK
    /\ pc = "put"
    /\ tables' = IF op.kind = "create" THEN map_put(tables, op.name, op.pool)
                 ELSE map_remove(tables, op.name)
    /\ Return("DB_OK")
    /\ UNCHANGED <<file, up, history>>

-----------------------------------------------------------------------------
(***************************************************************************)
(* DatabaseDeleteTable                                                     *)
(***************************************************************************)
Places == UNION {{h} \X DOMAIN tablesPool[h] : h \in 1 .. Heaps}
Kept(at) == tablesPool[at[1]][at[2]]

\* Where the iterator of the pool finds a name.  It ends in every heap before the
\* appends.
Named(n) == {at \in Places : Kept(at).name = n /\ Kept(at).mark # "added"}
FirstOf(n) == CHOOSE at \in Named(n) :
    \A b \in Named(n) : at[1] < b[1] \/ (at[1] = b[1] /\ at[2] <= b[2])

Mark(at, mark) == tablesPool' = [tablesPool EXCEPT ![at[1]][at[2]].mark = mark]

DeleteTable(n) ==
    /\ pc = "idle" /\ up
    /\ IF Named(n) # {}
       THEN /\ Mark(FirstOf(n), "deleted")              \* pool_iterator_delete
            /\ fate' = [fate EXCEPT ![Kept(FirstOf(n)).pool] = "dropped"]
            /\ op' = [kind |-> "drop", name |-> n, pool |-> Kept(FirstOf(n)).pool, heap |-> 1]
            /\ said' = "none" /\ FlushPool
       ELSE Return("DB_UNKNOWN_TABLE") /\ UNCHANGED <<tablesPool, fate>>
    /\ UNCHANGED <<tables, up, pools, tainted, cuts>>

-----------------------------------------------------------------------------
(***************************************************************************)
(* pool_flush                                                              *)
(***************************************************************************)
\* The records of the heap with a mark, by their numbers.
Marked(mark) == {i \in DOMAIN tablesPool[heap] : tablesPool[heap][i].mark = mark}

CommitAppend ==
    /\ pc = "added"
    /\ \E i \in Marked("added") :
          /\ \A j \in Marked("added") : i <= j
          /\ Mark(<<heap, i>>, "stored")
          /\ fate' = [fate EXCEPT ![tablesPool[heap][i].pool] = "table"]
    /\ UNCHANGED <<tables, up, pc, op, heap, said, pools, tainted, cuts>>

AppendsDone ==
    /\ pc = "added" /\ Marked("added") = {}
    /\ pc' = "deleted"
    /\ UNCHANGED <<file, tables, up, op, heap, said, history>>

\* Where the hole is: the records behind it that are marked too go first.
Hole(seq) == CHOOSE i \in DOMAIN seq :
    seq[i].mark = "deleted" /\ \A j \in 1 .. i - 1 : seq[j].mark # "deleted"

Trimmed(seq) ==
    SubSeq(seq, 1, CHOOSE n \in Hole(seq) .. Len(seq) :
                      /\ n = Hole(seq) \/ seq[n].mark # "deleted"
                      /\ \A m \in n + 1 .. Len(seq) : seq[m].mark = "deleted")

\* heap_record_fill: the last record goes into the hole.
\* Mutant: it also stays where it was.
FilledTwice(seq) ==
    LET t == Trimmed(seq) IN
    IF Hole(seq) = Len(t) THEN Front(t) ELSE [t EXCEPT ![Hole(seq)] = Last(t)]

Filled(seq) ==
    LET t == Trimmed(seq)
    IN  Front(IF Hole(seq) = Len(t) THEN t ELSE [t EXCEPT ![Hole(seq)] = Last(t)])

CommitDelete ==
    /\ pc = "deleted" /\ Marked("deleted") # {}
    /\ tablesPool' = [tablesPool EXCEPT ![heap] = Filled(@)]
    /\ UNCHANGED <<tables, up, pc, op, heap, said, pools, history>>

\* Mutant: a flush ends with the first heap.
FlushedFirst ==
    /\ pc = "deleted" /\ Marked("deleted") = {}
    /\ pc' = "put" /\ heap' = 1
    /\ UNCHANGED <<file, tables, up, op, said, history>>

Flushed ==
    /\ pc = "deleted" /\ Marked("deleted") = {}
    /\ IF heap < Heaps THEN heap' = heap + 1 /\ pc' = "added"
       ELSE heap' = 1 /\ pc' = "put"
    /\ UNCHANGED <<file, tables, up, op, said, history>>

-----------------------------------------------------------------------------
(***************************************************************************)
(* Failures and kills; DatabaseNew and DatabaseFree                        *)
(***************************************************************************)
\* What a cut leaves of the call: between the two halves of heap_record_fill the
\* record that was to fill the hole is in neither place.
Left ==
    \/ UNCHANGED tablesPool /\ tainted' = tainted \cup {op.name}
    \/ /\ pc = "deleted" /\ Marked("deleted") # {}
       /\ LET t == Trimmed(tablesPool[heap]) IN
             /\ tablesPool' = [tablesPool EXCEPT ![heap] = Front(t)]
             /\ tainted' = tainted \cup {op.name, Last(t).name}

Cut == cuts < MaxCuts /\ cuts' = cuts + 1 /\ Left /\ UNCHANGED <<pools, fate>>

\* DB_ERR.
Fail ==
    /\ pc \notin {"idle", "put"} /\ Cut
    /\ Return("DB_ERR")
    /\ UNCHANGED <<tables, up>>

Down == up' = FALSE /\ tables' = EmptyMap /\ Return("none")

Kill == pc # "idle" /\ Cut /\ Down

Stop ==                         \* DatabaseFree, or a kill between two statements
    /\ pc = "idle" /\ up
    /\ Down
    /\ UNCHANGED <<file, history>>

LoadTables(pool) ==
    LET s == FlattenSeq(pool)
        loaded[i \in 0 .. Len(s)] ==
            IF i = 0 THEN EmptyMap
            ELSE IF s[i].mark = "added" THEN loaded[i - 1]
            ELSE map_put(loaded[i - 1], s[i].name, s[i].pool)
    IN  loaded[Len(s)]

Open ==                         \* FILE_OPEN_EXIST
    /\ ~ up /\ up' = TRUE
    /\ tables' = LoadTables(tablesPool)
    /\ UNCHANGED <<file, pc, op, heap, said, history>>

OpenClear ==                    \* FILE_OPEN_CLEAR: allocator_init, pool_create
    /\ ~ up /\ up' = TRUE
    /\ tablesPool' = [h \in 1 .. Heaps |-> <<>>] /\ pools' = 0
    /\ tables' = LoadTables(tablesPool')
    /\ fate' = [p \in Pool |-> "new"] /\ tainted' = {}
    /\ UNCHANGED <<pc, op, heap, said, cuts>>

Next ==
    \/ \E n \in Names : DeleteTable(n) \/ \E h \in 1 .. Heaps : CreateTable(n, h)
    \/ PoolCreate \/ PoolAppend \/ Put
    \/ CommitAppend \/ AppendsDone \/ CommitDelete \/ Flushed
    \/ Fail \/ Kill \/ Stop \/ Open \/ OpenClear

Spec == Init /\ [][Next]_vars

-----------------------------------------------------------------------------
(***************************************************************************)
(* Properties                                                              *)
(***************************************************************************)
Of(n) == {s \in Schemes : s.name = n}

\* Collisions, resizes and deletions in any order leave a hash map that finds every
\* table once, in chains that are linked both ways.
MapSound == TypeOK /\ WellHashed(tables)

\* Between two statements the map and the file agree about every name that no kill
\* or failure has touched, whatever has happened to the statements on other names.
MapAgrees ==
    up /\ pc = "idle" =>
       \A n \in Names \ tainted :
          {<<s.pool, s.mark>> : s \in Of(n)} =
             IF map_exists(tables, n) THEN {<<map_get(tables, n), "stored">>} ELSE {}

\* CREATE TABLE repeated after it failed may leave two schemes of one name; every
\* kill or failure is good for one of them, and nothing else is.
Copies == \A n \in Names : Cardinality({s \in Of(n) : s.mark # "deleted"}) <= cuts + 1

\* The pool of a table has one scheme in the file, and no kill or failure loses the
\* schemes of more than one table that is not dropped.
SchemesKept ==
    /\ \A p \in Pool : Cardinality({at \in Places : Kept(at).pool = p}) <= 1
    /\ Cardinality({p \in Pool : fate[p] = "table" /\ \A s \in Schemes : s.pool # p}) <= cuts

\* DROP TABLE never gives the pages of a table back.  The pools of the file that no
\* scheme names are those of tables dropped and, one each, of kills and failures.
PoolsAccounted ==
    pc = "idle" =>
       Cardinality({p \in 1 .. pools : fate[p] # "dropped" /\ \A s \in Schemes : s.pool # p})
          <= cuts

\* A CREATE or DROP that answers DB_OK leaves nothing to a later flush, not even what
\* statements that failed before it have left.
OkSettles == [][said' = "DB_OK" /\ pc # "idle" => \A s \in Schemes' : s.mark = "stored"]_vars
===============================================================================
