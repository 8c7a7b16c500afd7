-------------------------------- MODULE Table ---------------------------------
(***************************************************************************)
(* INSERT, UPDATE and DELETE (core/src/database/Database.c) on the rows of *)
(* a table: a pool (core/src/pool/pool.c) of heaps, one for each class of  *)
(* record sizes.  A statement appends and marks row by row and flushes the *)
(* pool heap by heap; the heaps are as RecordStore has them.               *)
(*                                                                         *)
(* A row is a key, which UPDATE leaves alone, and the number of its        *)
(* version; a version is of any size, so in any heap.  A statement that    *)
(* fails and a kill of the process leave the same: nothing is undone, what *)
(* is in the pages stays there, but for the one row that the flush of a    *)
(* heap may be moving (heap_record_fill).  No record ends at the end of a  *)
(* page, where a heap does worse (heap_aligned).                           *)
(***************************************************************************)
EXTENDS Naturals, FiniteSets

CONSTANTS
    Keys,
    Heaps,          \* POOL_SIZE, 57
    MaxNo,          \* bound: versions written of one key
    MaxCuts         \* bound: kills and failures

ASSUME TableAssumption == Heaps \in Nat \ {0} /\ MaxNo \in Nat /\ MaxCuts \in Nat

VARIABLES
    rows,           \* the records of the pool
    pc,             \* where the statement is
    kind,           \* the statement
    heap,           \* the heap the scan, or the flush, is in
    todo,           \* keys still to insert
    seen,           \* rows of that heap the scan has been at
    cur,            \* the row being updated or deleted
    last,           \* history: the last version of every key; 0 when deleted
    written,        \* history: versions written of every key
    cuts            \* history: kills and failures so far
statement == <<pc, kind, heap, todo, seen, cur>>
vars == <<rows, pc, kind, heap, todo, seen, cur, last, written, cuts>>

Row == [key : Keys, no : 1 .. MaxNo, heap : 1 .. Heaps,
        mark : {"added", "stored", "deleted"}]
Id(r) == <<r.key, r.no>>
NoRow == [key |-> "none", no |-> 0, heap |-> 0, mark |-> "none"]

TypeOK ==
    /\ rows \subseteq Row
    /\ \A r, s \in rows : r.key = s.key /\ r.no = s.no => r = s
    /\ pc \in {"idle", "insert", "scan", "append", "mark", "added", "deleted"}
    /\ kind \in {"insert", "update", "delete"}
    /\ heap \in 1 .. Heaps
    /\ todo \subseteq Keys /\ seen \subseteq {Id(r) : r \in rows}
    /\ cur \in rows \cup {NoRow}
    /\ last \in [Keys -> 0 .. MaxNo] /\ written \in [Keys -> 0 .. MaxNo]
    /\ cuts \in 0 .. MaxCuts

Init ==
    /\ rows = {} /\ pc = "idle" /\ kind = "insert" /\ heap = 1 /\ todo = {} /\ seen = {}
    /\ cur = NoRow /\ last = [k \in Keys |-> 0] /\ written = [k \in Keys |-> 0] /\ cuts = 0

\* Mutant: the scan goes on to the rows appended by its own statement.
UnseenWithAppends == {r \in rows : r.heap = heap /\ Id(r) \notin seen}

\* Where the iterator may go next.  It stops before the appends.
Unseen == {r \in rows : r.heap = heap /\ r.mark # "added" /\ Id(r) \notin seen}

Goto(label) == pc' = label /\ UNCHANGED <<kind, heap, todo, seen, cur>>
Return ==
    /\ pc' = "idle" /\ kind' = "insert" /\ heap' = 1
    /\ todo' = {} /\ seen' = {} /\ cur' = NoRow
FlushPool == pc' = "added" /\ heap' = 1 /\ seen' = {} /\ UNCHANGED <<kind, todo, cur>>

\* Bound: every row of the key can have another version.
RoomFor(k) == Cardinality({r \in rows : r.key = k}) + written[k] < MaxNo

\* A new version of the key, in the heap for its size.
Write(k) ==
    /\ written[k] < MaxNo
    /\ \E h \in 1 .. Heaps :
          rows' = rows \cup
             {[key |-> k, no |-> written[k] + 1, heap |-> h, mark |-> "added"]}
    /\ written' = [written EXCEPT ![k] = @ + 1]
    /\ last' = [last EXCEPT ![k] = written[k] + 1]

-----------------------------------------------------------------------------
(***************************************************************************)
(* DatabaseInsertQuery                                                     *)
(***************************************************************************)
InsertQuery(batch) ==
    /\ pc = "idle" /\ batch # {}
    /\ \A k \in batch : RoomFor(k) /\ \A r \in rows : r.key # k
    /\ pc' = "insert" /\ kind' = "insert" /\ todo' = batch
    /\ UNCHANGED <<rows, heap, seen, cur, last, written, cuts>>

InsertRow(k) ==
    /\ pc = "insert" /\ k \in todo
    /\ Write(k)
    /\ todo' = todo \ {k}
    /\ UNCHANGED <<pc, kind, heap, seen, cur, cuts>>

Inserted ==
    /\ pc = "insert" /\ todo = {}
    /\ FlushPool
    /\ UNCHANGED <<rows, last, written, cuts>>

-----------------------------------------------------------------------------
(***************************************************************************)
(* DatabaseUpdateQuery, DatabaseDeleteQuery and the iterator of the pool   *)
(***************************************************************************)
ChangeQuery(k) ==
    /\ pc = "idle" /\ k \in {"update", "delete"}
    /\ \A key \in Keys : RoomFor(key)
    /\ pc' = "scan" /\ kind' = k
    /\ UNCHANGED <<rows, heap, todo, seen, cur, last, written, cuts>>

SkipRow(r) ==                   \* WHERE says no
    /\ pc = "scan" /\ r \in Unseen
    /\ seen' = seen \cup {Id(r)}
    /\ UNCHANGED <<rows, pc, kind, heap, todo, cur, last, written, cuts>>

TakeRow(r) ==
    /\ pc = "scan" /\ r \in Unseen
    /\ seen' = seen \cup {Id(r)} /\ cur' = r
    /\ pc' = IF kind = "update" THEN "append" ELSE "mark"
    /\ UNCHANGED <<rows, kind, heap, todo, last, written, cuts>>

NextHeap ==
    /\ pc = "scan" /\ Unseen = {} /\ heap < Heaps
    /\ heap' = heap + 1 /\ seen' = {}
    /\ UNCHANGED <<rows, pc, kind, todo, cur, last, written, cuts>>

Scanned ==
    /\ pc = "scan" /\ Unseen = {} /\ heap = Heaps
    /\ FlushPool
    /\ UNCHANGED <<rows, last, written, cuts>>

\* Mutant: the old row is marked before the new one is appended.
AppendNewAfterMark ==
    /\ pc = "append"
    /\ \/ /\ cur.mark = "stored"
          /\ rows' = (rows \ {cur}) \cup {[cur EXCEPT !.mark = "deleted"]}
          /\ cur' = [cur EXCEPT !.mark = "deleted"]
          /\ UNCHANGED <<pc, kind, heap, todo, seen, last, written>>
       \/ cur.mark = "deleted" /\ Write(cur.key) /\ Goto("mark")
    /\ UNCHANGED cuts

AppendNew ==                    \* CursorUpdate_FROM: pool_append ...
    /\ pc = "append"
    /\ Write(cur.key)
    /\ Goto("mark")
    /\ UNCHANGED cuts

\* Mutant: the old row is not marked.
MarkOldForgotten ==
    /\ pc = "mark"
    /\ last' = IF kind = "delete" THEN [last EXCEPT ![cur.key] = 0] ELSE last
    /\ pc' = "scan" /\ cur' = NoRow
    /\ UNCHANGED <<rows, kind, heap, todo, seen, written, cuts>>

MarkOld ==                      \* ... pool_iterator_delete
    /\ pc = "mark"
    /\ rows' = (rows \ {cur}) \cup {[cur EXCEPT !.mark = "deleted"]}
    /\ last' = IF kind = "delete" THEN [last EXCEPT ![cur.key] = 0] ELSE last
    /\ pc' = "scan" /\ cur' = NoRow
    /\ UNCHANGED <<kind, heap, todo, seen, written, cuts>>

-----------------------------------------------------------------------------
(***************************************************************************)
(* pool_flush; the end of a statement                                      *)
(***************************************************************************)
CommitAppend(r) ==
    /\ pc = "added" /\ r \in rows /\ r.heap = heap /\ r.mark = "added"
    /\ rows' = (rows \ {r}) \cup {[r EXCEPT !.mark = "stored"]}
    /\ UNCHANGED <<statement, last, written, cuts>>

AppendsDone ==
    /\ pc = "added" /\ \A r \in rows : r.heap = heap => r.mark # "added"
    /\ Goto("deleted")
    /\ UNCHANGED <<rows, last, written, cuts>>

CommitDelete(r) ==
    /\ pc = "deleted" /\ r \in rows /\ r.heap = heap /\ r.mark = "deleted"
    /\ rows' = rows \ {r}
    /\ UNCHANGED <<statement, last, written, cuts>>

\* Mutant: a flush ends with the first heap.
FlushedFirst ==
    /\ pc = "deleted" /\ \A r \in rows : r.heap = heap => r.mark # "deleted"
    /\ Return
    /\ UNCHANGED <<rows, last, written, cuts>>

Flushed ==
    /\ pc = "deleted" /\ \A r \in rows : r.heap = heap => r.mark # "deleted"
    /\ IF heap = Heaps THEN Return
       ELSE pc' = "added" /\ heap' = heap + 1 /\ UNCHANGED <<kind, todo, seen, cur>>
    /\ UNCHANGED <<rows, last, written, cuts>>

\* The rows that may be the last of a heap that has a deleted one to be filled with
\* it: end is moved before the row (heap.c:447) and then the row is copied (heap.c:455).
Moving ==
    {r \in rows : /\ pc = "deleted" /\ r.heap = heap /\ r.mark = "stored"
                  /\ \E d \in rows : d.heap = heap /\ d.mark = "deleted"}

\* A kill, or DB_ERR.
Cut ==
    /\ pc # "idle" /\ cuts < MaxCuts
    /\ UNCHANGED rows \/ \E r \in Moving : rows' = rows \ {r}
    /\ Return
    /\ cuts' = cuts + 1
    /\ UNCHANGED <<last, written>>

Step ==
    \/ \E k \in Keys : InsertRow(k)
    \/ \E r \in rows : SkipRow(r) \/ TakeRow(r) \/ CommitAppend(r) \/ CommitDelete(r)
    \/ Inserted \/ NextHeap \/ Scanned \/ AppendNew \/ MarkOld \/ AppendsDone \/ Flushed

Next ==
    \/ \E batch \in SUBSET Keys : InsertQuery(batch)
    \/ \E k \in {"update", "delete"} : ChangeQuery(k)
    \/ Step \/ Cut

Spec == Init /\ [][Next]_vars
FairSpec == Spec /\ WF_vars(Step)       \* the thread runs on

-----------------------------------------------------------------------------
(***************************************************************************)
(* Properties                                                              *)
(***************************************************************************)
Versions(k) == {r \in rows : r.key = k /\ r.mark # "deleted"}

\* While nothing fails, a table has after every statement exactly the last version
\* of every key, whatever heaps the versions have been through; and the types.
TableExact ==
    /\ TypeOK
    /\ pc = "idle" /\ cuts = 0 =>
       \A k \in Keys : {<<r.no, r.mark>> : r \in {s \in rows : s.key = k}} =
                          IF last[k] = 0 THEN {} ELSE {<<last[k], "stored">>}

\* Keys that no DELETE has marked and of which there is no version for a flush to keep.
Lost == {k \in Keys : last[k] # 0 /\ Versions(k) = {}}

\* Wherever statements fail or are killed, in the flush too, each failure loses at most
\* one key, and what does not fail loses none, be it the next flush of what failed.
KeysKept == Cardinality(Lost) <= cuts

Power[n \in 0 .. MaxCuts] == IF n = 0 THEN 1 ELSE 2 * Power[n - 1]     \* 2^n

\* A statement repeated after it failed updates the new versions and, until the
\* next flush, the old ones too: every failure may double the versions of a key,
\* and nothing else does.
Doubled == \A k \in Keys : pc = "idle" => Cardinality(Versions(k)) <= Power[cuts]

\* A statement that returns DB_OK leaves nothing to a later flush, not even what
\* statements that failed before it have left.
OkSettles == [][pc # "idle" /\ pc' = "idle" /\ cuts' = cuts =>
                    \A r \in rows' : r.mark = "stored"]_vars

\* A statement ends: UPDATE does not run after the rows it appends.
StatementReturns == pc # "idle" ~> pc = "idle"
=============================================================================
