------------------------------ MODULE TableProofs ------------------------------
(***************************************************************************)
(* Proofs about Table: what statements do to a table, with and without     *)
(* failures and kills, for every set of keys, number of heaps and versions *)
(* and any number of cuts; and, in the last sections, about Loops: the     *)
(* walk of the cursors over the rows of any number of tables of any sizes, *)
(* joined and filtered by any conditions.                                  *)
(***************************************************************************)
EXTENDS Table, Loops, FiniteSetTheorems, WellFoundedInduction, TLAPS

-----------------------------------------------------------------------------
(***************************************************************************)
(* The invariant                                                           *)
(***************************************************************************)
Marks == {"added", "stored", "deleted"}
Unique(s) == \A r, t \in s : r.key = t.key /\ r.no = t.no => r = t
Changing == pc \in {"scan", "append", "mark"}

\* Versions are numbered as they are written.
Numbered == \A r \in rows : r.no <= written[r.key]

\* What the statement knows where it is.
Control ==
    /\ pc \notin {"append", "mark"} => cur = NoRow
    /\ pc \in {"append", "mark"} => cur \in rows /\ cur.mark # "added" /\ cur.heap = heap
    /\ pc \in {"append", "mark"} => Id(cur) \in seen
    /\ pc = "append" => kind = "update"
    /\ Changing => kind \in {"update", "delete"}
    /\ ~ Changing => seen = {}
    /\ pc = "insert" => \A r \in rows : r.key \notin todo

\* The row that UPDATE is about to mark; its successor has been appended.
Leaving(r) == pc = "mark" /\ kind = "update" /\ r = cur
Live(r) == r.mark # "deleted" /\ ~ Leaving(r)

Has(k) == \E r \in rows : r.key = k /\ Live(r)

\* The keys that cuts have lost.
Gone == {k \in Keys : last[k] # 0 /\ ~ Has(k)}
Kept == IsFiniteSet(Gone) /\ Cardinality(Gone) <= cuts

\* How far a flush has come.
Flushing ==
    /\ pc \in {"added", "deleted"} => \A r \in rows : r.heap < heap => r.mark = "stored"
    /\ pc = "deleted" => \A r \in rows : r.heap = heap => r.mark # "added"

\* Until the first failure there is one version of a key, and the marks a scan meets
\* are its own.
Exact ==
    /\ \A r \in rows : Live(r) => r.no = last[r.key]
    /\ pc = "idle" => \A r \in rows : r.mark = "stored"
    /\ Changing => \A r \in rows : r.mark = "deleted" => r.heap <= heap
    /\ Changing => \A r \in rows : r.mark = "deleted" /\ r.heap = heap => Id(r) \in seen
    /\ pc \in {"append", "mark"} => cur.mark = "stored"

IInv == TypeOK /\ Numbered /\ Control /\ Kept /\ Flushing /\ (cuts = 0 => Exact)

-----------------------------------------------------------------------------
(***************************************************************************)
(* Changes of the rows                                                     *)
(***************************************************************************)
LEMMA Types ==
  TypeOK <=>
    /\ rows \subseteq Row /\ Unique(rows)
    /\ pc \in {"idle", "insert", "scan", "append", "mark", "added", "deleted"}
    /\ kind \in {"insert", "update", "delete"} /\ heap \in 1 .. Heaps
    /\ todo \subseteq Keys /\ seen \subseteq {Id(r) : r \in rows}
    /\ cur \in rows \cup {NoRow}
    /\ last \in [Keys -> 0 .. MaxNo] /\ written \in [Keys -> 0 .. MaxNo]
    /\ cuts \in 0 .. MaxCuts
  BY DEF TypeOK, Unique

\* A version that is written is a new one.
LEMMA Written ==
  ASSUME TypeOK, Numbered, NEW k \in Keys, Write(k)
  PROVE  /\ \E new \in Row :
              /\ rows' = rows \cup {new} /\ new \notin rows /\ rows' \subseteq Row /\ Unique(rows')
              /\ new.key = k /\ new.mark = "added" /\ new.no = last'[k]
         /\ last' \in [Keys -> 0 .. MaxNo] /\ written' \in [Keys -> 0 .. MaxNo] /\ Numbered'
         /\ \A j \in Keys : j # k => last'[j] = last[j]
<1>1. /\ written[k] \in Nat /\ written[k] < MaxNo /\ MaxNo \in Nat
      /\ written' = [written EXCEPT ![k] = written[k] + 1]
      /\ last' = [last EXCEPT ![k] = written[k] + 1]
  BY TableAssumption DEF TypeOK, Write
<1>2. PICK h \in 1 .. Heaps :
        rows' = rows \cup {[key |-> k, no |-> written[k] + 1, heap |-> h, mark |-> "added"]}
  BY DEF Write
<1> DEFINE new == [key |-> k, no |-> written[k] + 1, heap |-> h, mark |-> "added"]
<1>3. new \in Row /\ new.key = k /\ new.mark = "added" /\ new.no = written[k] + 1
  BY <1>1 DEF Row
<1>4. rows' = rows \cup {new}
  BY <1>2
<1> HIDE DEF new
<1>5. /\ last' \in [Keys -> 0 .. MaxNo] /\ written' \in [Keys -> 0 .. MaxNo]
      /\ last'[k] = new.no /\ written'[k] = new.no
      /\ \A j \in Keys : j # k => last'[j] = last[j] /\ written'[j] = written[j]
  BY <1>1, <1>3 DEF TypeOK
<1>6. \A r \in rows : r \in Row /\ r.key \in Keys /\ r.no \in Nat /\ written[r.key] \in Nat
  BY DEF TypeOK, Row
<1>7. \A r \in rows : r.key = k => r.no # new.no
  BY <1>1, <1>3, <1>6 DEF Numbered
<1>8. rows' \subseteq Row /\ Unique(rows') /\ new \notin rows
  BY <1>3, <1>4, <1>6, <1>7 DEF TypeOK, Unique
<1>9. Numbered'
  <2> SUFFICES ASSUME NEW r \in rows' PROVE r.no <= written'[r.key]
    BY DEF Numbered
  <2>1. CASE r = new
    BY <1>1, <1>3, <1>5, <2>1
  <2>2. CASE r \in rows
    BY <1>1, <1>3, <1>5, <1>6, <2>2 DEF Numbered
  <2>3. QED
    BY <1>4, <2>1, <2>2
<1>10. QED
  BY <1>3, <1>4, <1>5, <1>8, <1>9

\* A row that is marked otherwise is the same version.
LEMMA Marked ==
  ASSUME TypeOK, Numbered, NEW r \in rows, NEW m \in Marks,
         rows' = (rows \ {r}) \cup {[r EXCEPT !.mark = m]}, UNCHANGED written
  PROVE  /\ [r EXCEPT !.mark = m] \in rows'
         /\ [r EXCEPT !.mark = m].key = r.key /\ [r EXCEPT !.mark = m].no = r.no
         /\ [r EXCEPT !.mark = m].heap = r.heap /\ [r EXCEPT !.mark = m].mark = m
         /\ rows' \subseteq Row /\ Unique(rows') /\ Numbered'
         /\ {Id(t) : t \in rows'} = {Id(t) : t \in rows}
<1> DEFINE s == [r EXCEPT !.mark = m]
<1>1. s \in Row /\ s.key = r.key /\ s.no = r.no /\ s.heap = r.heap /\ s.mark = m
  BY DEF TypeOK, Row, Marks
<1>2. rows' = (rows \ {r}) \cup {s}
  OBVIOUS
<1> HIDE DEF s
<1>3. rows' \subseteq Row /\ Unique(rows') /\ s \in rows'
  BY <1>1, <1>2 DEF TypeOK, Unique
<1>4. Numbered'
  BY <1>1, <1>2 DEF Numbered
<1>5. Id(s) = Id(r)
  BY <1>1 DEF Id
<1>6. {Id(t) : t \in rows'} = {Id(t) : t \in rows}
  BY <1>2, <1>5
<1>7. QED
  BY <1>1, <1>3, <1>4, <1>6 DEF s

LEMMA OneMore ==
  ASSUME NEW S, IsFiniteSet(S), NEW y
  PROVE  /\ IsFiniteSet(S \cup {y}) /\ Cardinality(S \cup {y}) <= Cardinality(S) + 1
         /\ Cardinality(S \cup {y}) \in Nat
<1>1. Cardinality(S) \in Nat
  BY FS_CardinalityType
<1>2. CASE y \in S
  <2>1. S \cup {y} = S
    BY <1>2
  <2>2. Cardinality(S \cup {y}) = Cardinality(S) /\ IsFiniteSet(S \cup {y})
    BY <2>1
  <2>3. QED
    BY <1>1, <2>2
<1>3. CASE y \notin S
  <2>1. Cardinality(S \cup {y}) = Cardinality(S) + 1 /\ IsFiniteSet(S \cup {y})
    BY <1>3, FS_AddElement
  <2>2. QED
    BY <1>1, <2>1
<1>4. QED
  BY <1>2, <1>3

\* A step that is no cut loses no key.
LEMMA KeptStays ==
  ASSUME TypeOK, Kept, cuts' = cuts,
         \A k \in Keys : last'[k] # 0 /\ (last[k] # 0 => Has(k)) => Has(k)'
  PROVE  Kept'
<1>1. Gone' \subseteq Gone
  <2>1. ASSUME NEW k \in Gone' PROVE k \in Gone
    BY <2>1 DEF Gone
  <2>2. QED
    BY <2>1
<1>2. /\ IsFiniteSet(Gone') /\ Cardinality(Gone') <= Cardinality(Gone)
      /\ Cardinality(Gone') \in Nat /\ Cardinality(Gone) \in Nat
  BY <1>1, FS_Subset, FS_CardinalityType DEF Kept
<1>3. cuts \in Nat /\ Cardinality(Gone) <= cuts
  BY DEF TypeOK, Kept
<1>4. QED
  BY <1>2, <1>3 DEF Kept

-----------------------------------------------------------------------------
(***************************************************************************)
(* Steps that leave the rows alone                                         *)
(***************************************************************************)
LEMMA InitIInv == Init => IInv
<1> SUFFICES ASSUME Init PROVE IInv
  OBVIOUS
<1>1. TypeOK
  BY TableAssumption DEF Init, TypeOK
<1>2. Gone = {} /\ cuts = 0
  BY DEF Init, Gone
<1>3. Kept
  BY <1>2, FS_EmptySet DEF Kept
<1>4. QED
  BY <1>1, <1>3 DEF Init, IInv, Numbered, Control, Flushing, Exact, Changing

LEMMA BeginStep ==
  ASSUME IInv, (\E batch \in SUBSET Keys : InsertQuery(batch))
               \/ \E k \in {"update", "delete"} : ChangeQuery(k)
  PROVE  IInv'
<1>1. /\ pc = "idle" /\ pc' \in {"insert", "scan"} /\ kind' \in {"insert", "update", "delete"}
      /\ pc' = "scan" => kind' \in {"update", "delete"}
      /\ todo' \subseteq Keys /\ (pc' = "insert" => \A r \in rows : r.key \notin todo')
      /\ UNCHANGED <<rows, heap, seen, cur, last, written, cuts>>
  BY DEF InsertQuery, ChangeQuery, IInv, TypeOK
<1>2. TypeOK'
  BY <1>1 DEF IInv, TypeOK
<1>3. Numbered' /\ Control'
  BY <1>1 DEF IInv, Numbered, Control, Changing
<1>4. Kept' /\ Flushing'
  <2>1. \A k \in Keys : Has(k) => Has(k)'
    BY <1>1 DEF Has, Live, Leaving
  <2>2. QED
    BY <1>1, <2>1, KeptStays DEF IInv, Flushing
<1>5. cuts = 0 => Exact'
  BY <1>1 DEF IInv, Exact, Live, Leaving, Changing
<1>6. QED
  BY <1>1, <1>2, <1>3, <1>4, <1>5 DEF IInv

LEMMA ScanStep ==
  ASSUME IInv, NEW r \in rows, SkipRow(r) \/ TakeRow(r)
  PROVE  IInv'
<1>1. /\ pc = "scan" /\ r \in Unseen /\ seen' = seen \cup {Id(r)}
      /\ UNCHANGED <<rows, kind, heap, todo, last, written, cuts>>
      /\ \/ pc' = "scan" /\ cur' = cur
         \/ cur' = r /\ pc' = IF kind = "update" THEN "append" ELSE "mark"
  BY DEF SkipRow, TakeRow
<1>2. TypeOK'
  BY <1>1 DEF IInv, TypeOK
<1>3. Numbered' /\ Control'
  BY <1>1 DEF IInv, Numbered, Control, Changing, Unseen
<1>4. kind \in {"update", "delete"} /\ \A t \in rows : Live(t)' <=> Live(t)
  BY <1>1 DEF IInv, Control, Changing, Live, Leaving
<1>5. Kept' /\ Flushing'
  <2>1. \A k \in Keys : Has(k) => Has(k)'
    BY <1>1, <1>4 DEF Has
  <2>2. QED
    BY <1>1, <2>1, KeptStays DEF IInv, Flushing
<1>6. cuts = 0 => Exact'
  <2> SUFFICES ASSUME cuts = 0 PROVE Exact'
    OBVIOUS
  <2>1. r.mark = "stored"
    BY <1>1 DEF IInv, TypeOK, Row, Exact, Unseen, Changing
  <2>2. QED
    BY <1>1, <1>4, <2>1 DEF IInv, Exact, Changing
<1>7. QED
  BY <1>1, <1>2, <1>3, <1>5, <1>6 DEF IInv

\* The next heap of a scan; the end of a scan or a batch, where the flush begins.
LEMMA HeapStep ==
  ASSUME IInv, Inserted \/ NextHeap \/ Scanned
  PROVE  IInv'
<1>1. UNCHANGED <<rows, kind, todo, cur, last, written, cuts>> /\ seen' = {}
  BY DEF Inserted, NextHeap, Scanned, FlushPool
<1>2. \/ pc = "scan" /\ pc' = "scan" /\ Unseen = {} /\ heap < Heaps /\ heap' = heap + 1
      \/ pc \in {"scan", "insert"} /\ pc' = "added" /\ heap' = 1
  BY DEF Inserted, NextHeap, Scanned, FlushPool
<1>3. Heaps \in Nat \ {0} /\ heap \in 1 .. Heaps /\ \A r \in rows : r.heap \in 1 .. Heaps
  BY TableAssumption DEF IInv, TypeOK, Row
<1>4. heap' \in 1 .. Heaps
  BY <1>2, <1>3
<1>5. TypeOK'
  BY <1>1, <1>2, <1>4 DEF IInv, TypeOK
<1>6. Numbered' /\ Control'
  BY <1>1, <1>2 DEF IInv, Numbered, Control, Changing
<1>7. \A t \in rows : Live(t)' <=> Live(t)
  BY <1>1, <1>2 DEF Live, Leaving
<1>8. Kept'
  <2>1. \A k \in Keys : Has(k) => Has(k)'
    BY <1>1, <1>7 DEF Has
  <2>2. QED
    BY <1>1, <2>1, KeptStays DEF IInv
<1>9. Flushing'
  BY <1>1, <1>2, <1>3 DEF Flushing
<1>10. cuts = 0 => Exact'
  <2> SUFFICES ASSUME cuts = 0 PROVE Exact'
    OBVIOUS
  <2>1. pc' = "scan" => \A r \in rows : r.mark = "deleted" => r.heap <= heap' /\ r.heap # heap'
    BY <1>2, <1>3 DEF IInv, Exact, Changing
  <2>2. QED
    BY <1>1, <1>2, <1>7, <2>1 DEF IInv, Exact, Changing
<1>11. QED
  BY <1>1, <1>5, <1>6, <1>8, <1>9, <1>10 DEF IInv

\* The end of a statement, well or cut short.  A cut may lose a row, and with it a key.
LEMMA EndStep ==
  ASSUME IInv, Return, rows' \subseteq rows, UNCHANGED <<last, written>>,
         cuts' \in 0 .. MaxCuts,
         cuts' = 0 => cuts = 0 /\ ~ Changing /\ \A r \in rows : r.mark = "stored",
         \/ rows' = rows /\ cuts' \in {cuts, cuts + 1}
         \/ cuts' = cuts + 1 /\ \E r \in rows : rows' = rows \ {r}
  PROVE  IInv'
<1>1. TypeOK'
  BY TableAssumption DEF IInv, TypeOK, Return
<1>2. Numbered' /\ Control'
  BY DEF IInv, Numbered, Control, Changing, Return
<1>3. \A r \in rows' : Live(r) => Live(r)'
  BY DEF Live, Leaving, Return
<1>4. Kept'
  <2>1. IsFiniteSet(Gone) /\ Cardinality(Gone) \in Nat /\ Cardinality(Gone) <= cuts /\ cuts \in Nat
    BY FS_CardinalityType DEF IInv, TypeOK, Kept
  <2>2. CASE rows' = rows /\ cuts' \in {cuts, cuts + 1}
    <3>1. Gone' \subseteq Gone
      BY <1>3, <2>2 DEF Gone, Has
    <3>2. IsFiniteSet(Gone') /\ Cardinality(Gone') <= Cardinality(Gone) /\ Cardinality(Gone') \in Nat
      BY <2>1, <3>1, FS_Subset, FS_CardinalityType
    <3>3. QED
      BY <2>1, <2>2, <3>2 DEF Kept
  <2>3. CASE cuts' = cuts + 1 /\ \E r \in rows : rows' = rows \ {r}
    <3>1. PICK r \in rows : rows' = rows \ {r}
      BY <2>3
    <3>2. Gone' \subseteq Gone \cup {r.key}
      BY <1>3, <3>1 DEF Gone, Has
    <3>3. /\ IsFiniteSet(Gone \cup {r.key}) /\ Cardinality(Gone \cup {r.key}) <= Cardinality(Gone) + 1
          /\ Cardinality(Gone \cup {r.key}) \in Nat
      BY <2>1, OneMore
    <3>4. /\ IsFiniteSet(Gone') /\ Cardinality(Gone') <= Cardinality(Gone \cup {r.key})
          /\ Cardinality(Gone') \in Nat
      BY <3>2, <3>3, FS_Subset, FS_CardinalityType
    <3>5. QED
      BY <2>1, <2>3, <3>3, <3>4 DEF Kept
  <2>4. QED
    BY <2>2, <2>3
<1>5. Flushing'
  BY DEF IInv, Flushing, Return
<1>6. cuts' = 0 => Exact'
  BY DEF IInv, Exact, Live, Leaving, Changing, Return
<1>7. QED
  BY <1>1, <1>2, <1>4, <1>5, <1>6 DEF IInv

-----------------------------------------------------------------------------
(***************************************************************************)
(* Steps that change the rows                                              *)
(***************************************************************************)
LEMMA InsertStep ==
  ASSUME IInv, NEW k \in Keys, InsertRow(k)
  PROVE  IInv'
<1>1. TypeOK /\ Numbered /\ Control /\ Kept /\ Flushing /\ (cuts = 0 => Exact)
  BY DEF IInv
<1>2. /\ pc = "insert" /\ k \in todo /\ Write(k) /\ todo' = todo \ {k}
      /\ UNCHANGED <<pc, kind, heap, seen, cur, cuts>>
  BY DEF InsertRow
<1>3. PICK new \in Row :
        /\ rows' = rows \cup {new} /\ new \notin rows /\ rows' \subseteq Row /\ Unique(rows')
        /\ new.key = k /\ new.mark = "added" /\ new.no = last'[k]
  BY <1>1, <1>2, Written
<1>4. /\ last' \in [Keys -> 0 .. MaxNo] /\ written' \in [Keys -> 0 .. MaxNo] /\ Numbered'
      /\ \A j \in Keys : j # k => last'[j] = last[j]
  BY <1>1, <1>2, Written
<1>5. TypeOK'
  BY <1>1, <1>2, <1>3, <1>4 DEF TypeOK, Unique
<1>6. Control'
  BY <1>1, <1>2, <1>3 DEF Control, Changing
<1>7. \A r \in rows' : Live(r)' <=> r.mark # "deleted"
  BY <1>2 DEF Live, Leaving
<1>8. Kept'
  <2>1. \A j \in Keys : last'[j] # 0 /\ (last[j] # 0 => Has(j)) => Has(j)'
    BY <1>2, <1>3, <1>4, <1>7 DEF Has, Live
  <2>2. QED
    BY <1>1, <1>2, <2>1, KeptStays
<1>9. Flushing'
  BY <1>2 DEF Flushing
<1>10. cuts = 0 => Exact'
  <2> SUFFICES ASSUME cuts = 0 PROVE Exact'
    OBVIOUS
  <2>1. ASSUME NEW r \in rows', Live(r)' PROVE r.no = last'[r.key]
    <3>1. CASE r = new
      BY <1>3, <3>1
    <3>2. CASE r \in rows
      <4>1. r.key # k /\ r.key \in Keys /\ Live(r)
        BY <1>1, <1>2, <1>7, <2>1, <3>2 DEF Control, TypeOK, Row, Live, Leaving
      <4>2. QED
        BY <1>1, <1>4, <3>2, <4>1 DEF Exact
    <3>3. QED
      BY <1>3, <3>1, <3>2
  <2>2. QED
    BY <1>2, <2>1 DEF Exact, Changing
<1>11. QED
  BY <1>2, <1>4, <1>5, <1>6, <1>8, <1>9, <1>10 DEF IInv

LEMMA AppendStep ==
  ASSUME IInv, AppendNew
  PROVE  IInv'
<1>1. TypeOK /\ Numbered /\ Control /\ Kept /\ Flushing /\ (cuts = 0 => Exact)
  BY DEF IInv
<1>2. /\ pc = "append" /\ pc' = "mark" /\ Write(cur.key)
      /\ UNCHANGED <<kind, heap, todo, seen, cur, cuts>>
  BY DEF AppendNew, Goto
<1>3. /\ cur \in rows /\ cur.key \in Keys /\ cur.mark # "added" /\ cur.heap = heap
      /\ Id(cur) \in seen /\ kind = "update"
  BY <1>1, <1>2 DEF Control, TypeOK, Row
<1> DEFINE k == cur.key
<1>4. PICK new \in Row :
        /\ rows' = rows \cup {new} /\ new \notin rows /\ rows' \subseteq Row /\ Unique(rows')
        /\ new.key = k /\ new.mark = "added" /\ new.no = last'[k]
  BY <1>1, <1>2, <1>3, Written
<1>5. /\ last' \in [Keys -> 0 .. MaxNo] /\ written' \in [Keys -> 0 .. MaxNo] /\ Numbered'
      /\ \A j \in Keys : j # k => last'[j] = last[j]
  BY <1>1, <1>2, <1>3, Written
<1>6. TypeOK'
  BY <1>1, <1>2, <1>4, <1>5 DEF TypeOK, Unique
<1>7. Control'
  BY <1>1, <1>2, <1>3, <1>4 DEF Control, Changing
<1>8. /\ \A r \in rows : Live(r) <=> r.mark # "deleted"
      /\ \A r \in rows' : Live(r)' <=> r.mark # "deleted" /\ r # cur
  BY <1>2, <1>3 DEF Live, Leaving
<1>9. Kept'
  <2> SUFFICES ASSUME NEW j \in Keys, last'[j] # 0, last[j] # 0 => Has(j) PROVE Has(j)'
    BY <1>1, <1>2, KeptStays
  <2>1. CASE j = k
    BY <1>3, <1>4, <1>8, <2>1 DEF Has
  <2>2. CASE j # k
    <3>1. PICK r \in rows : r.key = j /\ Live(r)
      BY <1>5, <2>2 DEF Has
    <3>2. QED
      BY <1>4, <1>8, <2>2, <3>1 DEF Has
  <2>3. QED
    BY <2>1, <2>2
<1>10. Flushing'
  BY <1>2 DEF Flushing
<1>11. cuts = 0 => Exact'
  <2> SUFFICES ASSUME cuts = 0 PROVE Exact'
    OBVIOUS
  <2>1. ASSUME NEW r \in rows', Live(r)' PROVE r.no = last'[r.key]
    <3>1. CASE r = new
      BY <1>4, <3>1
    <3>2. CASE r \in rows
      <4>1. r.key \in Keys /\ r.no = last[r.key] /\ r # cur
        BY <1>1, <1>8, <2>1, <3>2 DEF TypeOK, Row, Exact
      <4>2. cur.no = last[k]
        BY <1>1, <1>2, <1>3, <1>8 DEF Exact
      <4>3. r.key # k
        BY <1>1, <1>3, <3>2, <4>1, <4>2 DEF TypeOK
      <4>4. QED
        BY <1>5, <4>1, <4>3
    <3>3. QED
      BY <1>4, <3>1, <3>2
  <2>2. QED
    BY <1>1, <1>2, <1>4, <2>1 DEF Exact, Changing
<1>12. QED
  BY <1>2, <1>5, <1>6, <1>7, <1>9, <1>10, <1>11 DEF IInv

LEMMA MarkStep ==
  ASSUME IInv, MarkOld
  PROVE  IInv'
<1>1. TypeOK /\ Numbered /\ Control /\ Kept /\ Flushing /\ (cuts = 0 => Exact)
  BY DEF IInv
<1> DEFINE old == [cur EXCEPT !.mark = "deleted"]
<1>2. /\ pc = "mark" /\ pc' = "scan" /\ cur' = NoRow /\ rows' = (rows \ {cur}) \cup {old}
      /\ last' = IF kind = "delete" THEN [last EXCEPT ![cur.key] = 0] ELSE last
      /\ UNCHANGED <<kind, heap, todo, seen, written, cuts>>
  BY DEF MarkOld
<1>3. /\ cur \in rows /\ cur.key \in Keys /\ cur.heap = heap /\ Id(cur) \in seen
      /\ kind \in {"update", "delete"}
  BY <1>1, <1>2 DEF Control, TypeOK, Row, Changing
<1>4. /\ old \in rows' /\ old.key = cur.key /\ old.no = cur.no /\ old.heap = cur.heap
      /\ old.mark = "deleted" /\ rows' \subseteq Row /\ Unique(rows') /\ Numbered'
      /\ {Id(t) : t \in rows'} = {Id(t) : t \in rows}
  BY <1>1, <1>2, <1>3, Marked DEF Marks
<1> HIDE DEF old
<1>5. /\ last' \in [Keys -> 0 .. MaxNo]
      /\ \A k \in Keys : last'[k] = IF kind = "delete" /\ k = cur.key THEN 0 ELSE last[k]
  BY <1>1, <1>2, <1>3, TableAssumption DEF TypeOK
<1>6. TypeOK'
  BY <1>1, <1>2, <1>4, <1>5 DEF TypeOK, Unique
<1>7. Control'
  BY <1>1, <1>2, <1>3 DEF Control, Changing
<1>8. /\ \A r \in rows : Live(r) <=> r.mark # "deleted" /\ ~ (kind = "update" /\ r = cur)
      /\ \A r \in rows' : Live(r)' <=> r.mark # "deleted"
  BY <1>2 DEF Live, Leaving
<1>9. Kept'
  <2> SUFFICES ASSUME NEW k \in Keys, last'[k] # 0, last[k] # 0 => Has(k) PROVE Has(k)'
    BY <1>1, <1>2, KeptStays
  <2>1. last[k] # 0 /\ ~ (kind = "delete" /\ k = cur.key)
    BY <1>5
  <2>2. PICK r \in rows : r.key = k /\ Live(r)
    BY <2>1 DEF Has
  <2>3. r # cur
    BY <1>3, <1>8, <2>1, <2>2
  <2>4. QED
    BY <1>2, <1>8, <2>2, <2>3 DEF Has
<1>10. Flushing'
  BY <1>2 DEF Flushing
<1>11. cuts = 0 => Exact'
  <2> SUFFICES ASSUME cuts = 0 PROVE Exact'
    OBVIOUS
  <2>1. ASSUME NEW r \in rows', Live(r)' PROVE r.no = last'[r.key]
    <3>1. r \in rows /\ r # cur /\ Live(r) /\ r.key \in Keys
      BY <1>1, <1>2, <1>4, <1>8, <2>1 DEF TypeOK, Row
    <3>2. r.no = last[r.key]
      BY <1>1, <3>1 DEF Exact
    <3>3. kind = "delete" => r.key # cur.key
      <4>1. kind = "delete" => cur.no = last[cur.key]
        BY <1>1, <1>2, <1>3, <1>8 DEF Exact
      <4>2. QED
        BY <1>1, <1>3, <3>1, <3>2, <4>1 DEF TypeOK
    <3>4. QED
      BY <1>5, <3>1, <3>2, <3>3
  <2>2. ASSUME NEW r \in rows', r.mark = "deleted"
        PROVE  r.heap <= heap /\ (r.heap = heap => Id(r) \in seen)
    <3>1. CASE r = old
      <4>1. Id(r) = Id(cur) /\ r.heap = heap /\ heap \in Nat
        BY <1>1, <1>3, <1>4, <3>1, TableAssumption DEF Id, TypeOK
      <4>2. QED
        BY <1>3, <4>1
    <3>2. CASE r \in rows
      BY <1>1, <1>2, <2>2, <3>2 DEF Exact, Changing
    <3>3. QED
      BY <1>2, <3>1, <3>2
  <2>3. QED
    BY <1>2, <2>1, <2>2 DEF Exact
<1>12. QED
  BY <1>2, <1>4, <1>6, <1>7, <1>9, <1>10, <1>11 DEF IInv

LEMMA CommitStep ==
  ASSUME IInv, NEW r \in rows, CommitAppend(r)
  PROVE  IInv'
<1>1. TypeOK /\ Numbered /\ Control /\ Kept /\ Flushing /\ (cuts = 0 => Exact)
  BY DEF IInv
<1> DEFINE new == [r EXCEPT !.mark = "stored"]
<1>2. /\ pc = "added" /\ r.mark = "added" /\ r.heap = heap /\ rows' = (rows \ {r}) \cup {new}
      /\ UNCHANGED <<pc, kind, heap, todo, seen, cur, last, written, cuts>>
  BY DEF CommitAppend, statement
<1>3. /\ new \in rows' /\ new.key = r.key /\ new.no = r.no /\ new.heap = r.heap
      /\ new.mark = "stored" /\ rows' \subseteq Row /\ Unique(rows') /\ Numbered'
      /\ {Id(t) : t \in rows'} = {Id(t) : t \in rows}
  BY <1>1, <1>2, Marked DEF Marks
<1> HIDE DEF new
<1>4. cur = NoRow /\ seen = {}
  BY <1>1, <1>2 DEF Control, Changing
<1>5. TypeOK'
  BY <1>1, <1>2, <1>3, <1>4 DEF TypeOK, Unique
<1>6. Control'
  BY <1>2, <1>4 DEF Control, Changing
<1>7. /\ \A t \in rows : Live(t) <=> t.mark # "deleted"
      /\ \A t \in rows' : Live(t)' <=> t.mark # "deleted"
  BY <1>2 DEF Live, Leaving
<1>8. Kept'
  <2>1. \A k \in Keys : Has(k) => Has(k)'
    BY <1>2, <1>3, <1>7 DEF Has
  <2>2. QED
    BY <1>1, <1>2, <2>1, KeptStays
<1>9. Flushing'
  BY <1>1, <1>2, <1>3 DEF Flushing
<1>10. cuts = 0 => Exact'
  BY <1>1, <1>2, <1>3, <1>7 DEF Exact, Changing
<1>11. QED
  BY <1>2, <1>3, <1>5, <1>6, <1>8, <1>9, <1>10 DEF IInv

LEMMA DropStep ==
  ASSUME IInv, NEW r \in rows, CommitDelete(r)
  PROVE  IInv'
<1>1. TypeOK /\ Numbered /\ Control /\ Kept /\ Flushing /\ (cuts = 0 => Exact)
  BY DEF IInv
<1>2. /\ pc = "deleted" /\ r.mark = "deleted" /\ rows' = rows \ {r}
      /\ UNCHANGED <<pc, kind, heap, todo, seen, cur, last, written, cuts>>
  BY DEF CommitDelete, statement
<1>3. cur = NoRow /\ seen = {}
  BY <1>1, <1>2 DEF Control, Changing
<1>4. TypeOK' /\ Numbered' /\ Control'
  BY <1>1, <1>2, <1>3 DEF TypeOK, Numbered, Control, Changing
<1>5. Kept'
  <2>1. \A k \in Keys : Has(k) => Has(k)'
    BY <1>2 DEF Has, Live, Leaving
  <2>2. QED
    BY <1>1, <1>2, <2>1, KeptStays
<1>6. Flushing' /\ (cuts = 0 => Exact')
  BY <1>1, <1>2 DEF Flushing, Exact, Live, Leaving, Changing
<1>7. QED
  BY <1>2, <1>4, <1>5, <1>6 DEF IInv

\* The flush goes on to the deletions of its heap, and to the next heap.
LEMMA FlushStep ==
  ASSUME IInv, AppendsDone \/ (Flushed /\ heap # Heaps)
  PROVE  IInv'
<1>1. TypeOK /\ Numbered /\ Control /\ Kept /\ Flushing /\ (cuts = 0 => Exact)
  BY DEF IInv
<1>2. UNCHANGED <<rows, kind, todo, seen, cur, last, written, cuts>>
  BY DEF AppendsDone, Flushed, Goto
<1>3. \/ /\ pc = "added" /\ pc' = "deleted" /\ heap' = heap
         /\ \A r \in rows : r.heap = heap => r.mark # "added"
      \/ /\ pc = "deleted" /\ pc' = "added" /\ heap' = heap + 1 /\ heap # Heaps
         /\ \A r \in rows : r.heap = heap => r.mark # "deleted"
  BY DEF AppendsDone, Flushed, Goto
<1>4. /\ heap \in 1 .. Heaps /\ Heaps \in Nat
      /\ \A r \in rows : r.heap \in 1 .. Heaps /\ r.mark \in Marks
  BY <1>1, TableAssumption DEF TypeOK, Row, Marks
<1>5. heap' \in 1 .. Heaps
  BY <1>3, <1>4
<1>6. TypeOK'
  BY <1>1, <1>2, <1>3, <1>5 DEF TypeOK
<1>7. Numbered' /\ Control'
  BY <1>1, <1>2, <1>3 DEF Numbered, Control, Changing
<1>8. Kept'
  <2>1. \A k \in Keys : Has(k) => Has(k)'
    BY <1>2, <1>3 DEF Has, Live, Leaving
  <2>2. QED
    BY <1>1, <1>2, <2>1, KeptStays
<1>9. Flushing'
  <2>1. CASE pc = "added"
    BY <1>1, <1>2, <1>3, <2>1 DEF Flushing
  <2>2. CASE pc = "deleted"
    <3>1. \A r \in rows : r.heap = heap => r.mark = "stored"
      BY <1>1, <1>3, <1>4, <2>2 DEF Flushing, Marks
    <3>2. heap' = heap + 1 /\ pc' = "added"
      BY <1>3, <2>2
    <3>3. \A r \in rows : r.heap < heap' => r.heap < heap \/ r.heap = heap
      BY <1>4, <3>2
    <3>4. QED
      BY <1>1, <1>2, <2>2, <3>1, <3>2, <3>3 DEF Flushing
  <2>3. QED
    BY <1>3, <2>1, <2>2
<1>10. cuts = 0 => Exact'
  BY <1>1, <1>2, <1>3 DEF Exact, Live, Leaving, Changing
<1>11. QED
  BY <1>1, <1>2, <1>6, <1>7, <1>8, <1>9, <1>10 DEF IInv

\* When the flush returns every row is stored.
LEMMA AllStored ==
  ASSUME IInv, Flushed, heap = Heaps
  PROVE  \A r \in rows : r.mark = "stored"
<1> SUFFICES ASSUME NEW r \in rows PROVE r.mark = "stored"
  OBVIOUS
<1>1. r.heap \in 1 .. Heaps /\ r.mark \in Marks /\ Heaps \in Nat
  BY TableAssumption DEF IInv, TypeOK, Row, Marks
<1>2. r.heap < heap => r.mark = "stored"
  BY DEF IInv, Flushing, Flushed
<1>3. r.heap = heap => r.mark \notin {"added", "deleted"}
  BY DEF IInv, Flushing, Flushed
<1>4. r.heap < heap \/ r.heap = heap
  BY <1>1
<1>5. QED
  BY <1>1, <1>2, <1>3, <1>4 DEF Marks

-----------------------------------------------------------------------------
(***************************************************************************)
(* Theorems                                                                *)
(***************************************************************************)
THEOREM Invariance == Spec => []IInv
<1>1. IInv /\ [Next]_vars => IInv'
  <2> SUFFICES ASSUME IInv, [Next]_vars PROVE IInv'
    OBVIOUS
  <2>1. CASE \/ \E batch \in SUBSET Keys : InsertQuery(batch)
             \/ \E k \in {"update", "delete"} : ChangeQuery(k)
    BY <2>1, BeginStep
  <2>2. CASE \E k \in Keys : InsertRow(k)
    BY <2>2, InsertStep
  <2>3. CASE \E r \in rows : SkipRow(r) \/ TakeRow(r) \/ CommitAppend(r) \/ CommitDelete(r)
    BY <2>3, ScanStep, CommitStep, DropStep
  <2>4. CASE Inserted \/ NextHeap \/ Scanned
    BY <2>4, HeapStep
  <2>5. CASE AppendNew \/ MarkOld
    BY <2>5, AppendStep, MarkStep
  <2>6. CASE AppendsDone
    BY <2>6, FlushStep
  <2>7. CASE Flushed
    <3>1. CASE heap # Heaps
      BY <2>7, <3>1, FlushStep
    <3>2. CASE heap = Heaps
      <4>1. Return /\ UNCHANGED <<rows, last, written, cuts>> /\ ~ Changing
        BY <2>7, <3>2 DEF Flushed, Changing
      <4>2. cuts' \in 0 .. MaxCuts
        BY <4>1 DEF IInv, TypeOK
      <4>3. \A r \in rows : r.mark = "stored"
        BY <2>7, <3>2, AllStored
      <4>4. QED
        BY <4>1, <4>2, <4>3, EndStep
    <3>3. QED
      BY <3>1, <3>2
  <2>8. CASE Cut
    <3>1. Return /\ UNCHANGED <<last, written>> /\ cuts' = cuts + 1 /\ cuts < MaxCuts
      BY <2>8 DEF Cut
    <3>2. cuts' \in 0 .. MaxCuts /\ cuts' # 0
      BY <3>1, TableAssumption DEF IInv, TypeOK
    <3>3. rows' = rows \/ \E r \in rows : rows' = rows \ {r}
      BY <2>8 DEF Cut, Moving
    <3>4. QED
      BY <3>1, <3>2, <3>3, EndStep
  <2>9. CASE UNCHANGED vars
    <3>1. \A k \in Keys : Has(k) => Has(k)'
      BY <2>9 DEF vars, Has, Live, Leaving
    <3>2. Kept'
      BY <2>9, <3>1, KeptStays DEF vars, IInv
    <3>3. QED
      BY <2>9, <3>2 DEF vars, IInv, TypeOK, Numbered, Control, Flushing, Exact, Live, Leaving, Changing
  <2>10. QED
    BY <2>1, <2>2, <2>3, <2>4, <2>5, <2>6, <2>7, <2>8, <2>9 DEF Next, Step
<1>2. QED
  BY <1>1, InitIInv, PTL DEF Spec

\* Without failures a table has after every statement exactly the last version of every
\* key, through however many heaps the versions have moved; and the types are right.
THEOREM TableCorrect == Spec => []TableExact
<1>1. IInv => TableExact
  <2> SUFFICES ASSUME IInv, pc = "idle", cuts = 0, NEW k \in Keys
               PROVE  {<<r.no, r.mark>> : r \in {s \in rows : s.key = k}} =
                         IF last[k] = 0 THEN {} ELSE {<<last[k], "stored">>}
    BY DEF IInv, TableExact
  <2>1. \A r \in rows : r.mark = "stored" /\ r.no = last[r.key]
    BY DEF IInv, Exact, Live, Leaving
  <2>2. Gone = {}
    <3>1. IsFiniteSet(Gone) /\ Cardinality(Gone) \in Nat /\ Cardinality(Gone) <= 0
      BY FS_CardinalityType DEF IInv, Kept
    <3>2. Cardinality(Gone) = 0
      BY <3>1
    <3>3. QED
      BY <3>1, <3>2, FS_EmptySet
  <2>3. last[k] # 0 => \E r \in rows : r.key = k
    BY <2>2 DEF Gone, Has
  <2>4. \A r \in rows : r.no # 0
    BY TableAssumption DEF IInv, TypeOK, Row
  <2>5. QED
    BY <2>1, <2>3, <2>4
<1>2. QED
  BY <1>1, Invariance, PTL

\* However often statements fail or are killed, each time at most one key is lost, the
\* one whose row the flush is moving; any other that no DELETE has marked keeps a version
\* that the next flush stores.
THEOREM OneLostPerCut == Spec => []KeysKept
<1>1. IInv => KeysKept
  <2> SUFFICES ASSUME IInv PROVE Cardinality(Lost) <= cuts
    BY DEF KeysKept
  <2>1. Lost \subseteq Gone
    BY DEF Lost, Gone, Has, Versions, Live
  <2>2. IsFiniteSet(Gone) /\ Cardinality(Gone) <= cuts /\ cuts \in Nat
    BY DEF IInv, Kept, TypeOK
  <2>3. /\ Cardinality(Lost) <= Cardinality(Gone) /\ Cardinality(Lost) \in Nat
        /\ Cardinality(Gone) \in Nat
    BY <2>1, <2>2, FS_Subset, FS_CardinalityType
  <2>4. QED
    BY <2>2, <2>3
<1>2. QED
  BY <1>1, Invariance, PTL

\* A statement that returns DB_OK leaves no appended and no deleted row for a later flush,
\* whatever failed before it.
THEOREM Settled == Spec => OkSettles
<1> DEFINE A == pc # "idle" /\ pc' = "idle" /\ cuts' = cuts => \A r \in rows' : r.mark = "stored"
<1>1. IInv /\ [Next]_vars => [A]_vars
  <2> SUFFICES ASSUME IInv, Next, pc # "idle", pc' = "idle", cuts' = cuts
               PROVE  \A r \in rows' : r.mark = "stored"
    OBVIOUS
  <2>1. ~ Cut
    BY TableAssumption DEF Cut, IInv, TypeOK
  <2>2. Flushed /\ heap = Heaps
    BY <2>1 DEF Next, Step, InsertQuery, ChangeQuery, InsertRow, SkipRow, TakeRow, CommitAppend,
       CommitDelete, Inserted, NextHeap, Scanned, FlushPool, AppendNew, MarkOld, AppendsDone,
       Flushed, Goto, statement
  <2>3. QED
    BY <2>2, AllStored DEF Flushed
<1>2. QED
  BY <1>1, Invariance, PTL DEF Spec, OkSettles

-----------------------------------------------------------------------------
(***************************************************************************)
(* How many versions of a key failures leave                               *)
(***************************************************************************)
Mine(k) == {r \in rows : r.key = k}

\* The rows the scan of an UPDATE or DELETE is still to come to, and those that the
\* flush at its end will keep or that it may still write new versions of.
Ahead(k) ==
    {r \in Mine(k) : /\ Changing /\ r.mark # "added"
                     /\ \/ r.heap > heap
                        \/ r.heap = heap /\ (Id(r) \notin seen \/ (pc = "append" /\ r = cur))}
Future(k) ==
    {r \in Mine(k) : (r.mark # "deleted" \/ r \in Ahead(k)) /\ ~ (pc = "mark" /\ r = cur)}

\* A statement keeps or replaces what it finds; cut short it has at most doubled it.
Counted ==
    /\ IsFiniteSet(rows)
    /\ \A k \in Keys :
          /\ pc \in {"idle", "insert"} => Cardinality(Mine(k)) <= Power[cuts]
          /\ Cardinality(Mine(k)) + Cardinality(Ahead(k)) <= 2 * Power[cuts]
          /\ Cardinality(Future(k)) <= Power[cuts]

\* A set of natural numbers has a least one.
LEMMA LeastNat ==
  ASSUME NEW T, T \subseteq Nat, T # {}
  PROVE  \E x \in T : \A y \in T : x <= y
<1> DEFINE R == {p \in Nat \X Nat : p[1] < p[2]}
<1>1. OpToRel(<, Nat) = R
  BY Zenon DEF OpToRel
<1>2. IsWellFoundedOn(R, Nat)
  BY <1>1, NatLessThanWellFounded, Zenon
<1> HIDE DEF R
<1>3. \E x \in T : \A y \in T : ~ (<<y, x>> \in R)
  BY <1>2, WFMin
<1>4. \A x, y \in Nat : <<y, x>> \in R \/ x <= y
  BY DEF R
<1>5. QED
  BY <1>3, <1>4

\* There is a function that doubles as far as one likes.
Doubles(f, n) == f[0] = 1 /\ \A i \in 1 .. n : f[i] = 2 * f[i - 1]

LEMMA PowersExist == \A n \in Nat : \E f \in [0 .. n -> Nat] : Doubles(f, n)
<1> DEFINE T == {n \in Nat : ~ \E f \in [0 .. n -> Nat] : Doubles(f, n)}
<1> SUFFICES ASSUME T # {} PROVE FALSE
  OBVIOUS
<1>1. PICK n \in T : \A m \in T : n <= m
  <2>1. T \subseteq Nat
    OBVIOUS
  <2> HIDE DEF T
  <2>2. QED
    BY <2>1, LeastNat
<1>2. n \in Nat /\ ~ \E f \in [0 .. n -> Nat] : Doubles(f, n)
  OBVIOUS
<1>3. n # 0
  <2>1. [i \in 0 .. 0 |-> 1] \in [0 .. 0 -> Nat] /\ Doubles([i \in 0 .. 0 |-> 1], 0)
    BY DEF Doubles
  <2>2. QED
    BY <1>2, <2>1
<1>4. n - 1 \in Nat /\ n - 1 \notin T
  BY <1>1, <1>2, <1>3
<1>5. PICK f \in [0 .. n - 1 -> Nat] : Doubles(f, n - 1)
  BY <1>4
<1> DEFINE g == [i \in 0 .. n |-> IF i = n THEN 2 * f[n - 1] ELSE f[i]]
<1>6. g \in [0 .. n -> Nat] /\ g[n] = 2 * f[n - 1] /\ \A i \in 0 .. n - 1 : g[i] = f[i]
  BY <1>2, <1>4, <1>5
<1> HIDE DEF g, T
<1>7. Doubles(g, n)
  <2>1. g[0] = 1
    BY <1>4, <1>5, <1>6 DEF Doubles
  <2>2. ASSUME NEW i \in 1 .. n PROVE g[i] = 2 * g[i - 1]
    <3>1. i - 1 \in 0 .. n - 1 /\ (i = n \/ i \in 1 .. n - 1)
      BY <1>2
    <3>2. QED
      BY <1>5, <1>6, <3>1 DEF Doubles
  <2>3. QED
    BY <2>1, <2>2 DEF Doubles
<1>8. QED
  BY <1>2, <1>6, <1>7

LEMMA Powers ==
  /\ \A n \in 0 .. MaxCuts : Power[n] \in Nat \ {0}
  /\ Power[0] = 1
  /\ \A n \in 0 .. MaxCuts : n < MaxCuts => Power[n + 1] = 2 * Power[n]
<1> DEFINE Twice(h) == [n \in 0 .. MaxCuts |-> IF n = 0 THEN 1 ELSE 2 * h[n - 1]]
<1>1. MaxCuts \in Nat
  BY TableAssumption
<1>2. PICK f \in [0 .. MaxCuts -> Nat] : Doubles(f, MaxCuts)
  BY <1>1, PowersExist
<1>3. f = Twice(f)
  <2>1. \A n \in 0 .. MaxCuts : f[n] = IF n = 0 THEN 1 ELSE 2 * f[n - 1]
    BY <1>1, <1>2 DEF Doubles
  <2>2. QED
    BY <2>1
<1>4. Power = Twice(Power)
  BY <1>3 DEF Power
<1> HIDE DEF Twice
<1>5. /\ Power[0] = 1
      /\ \A n \in 0 .. MaxCuts : n < MaxCuts => Power[n + 1] = 2 * Power[n]
  <2>1. \A n \in 0 .. MaxCuts : Power[n] = IF n = 0 THEN 1 ELSE 2 * Power[n - 1]
    BY <1>4 DEF Twice
  <2>2. QED
    BY <1>1, <2>1
<1>6. \A n \in 0 .. MaxCuts : Power[n] \in Nat \ {0}
  <2> DEFINE T == {n \in 0 .. MaxCuts : Power[n] \notin Nat \ {0}}
  <2> SUFFICES ASSUME T # {} PROVE FALSE
    OBVIOUS
  <2>1. T \subseteq Nat
    OBVIOUS
  <2>2. \A n \in 0 .. MaxCuts : n \notin T <=> Power[n] \in Nat \ {0}
    OBVIOUS
  <2>3. T \subseteq 0 .. MaxCuts
    OBVIOUS
  <2> HIDE DEF T
  <2>4. PICK n \in T : \A m \in T : n <= m
    BY <2>1, LeastNat
  <2>5. n # 0
    <3>1. 0 \in 0 .. MaxCuts /\ Power[0] \in Nat \ {0}
      BY <1>1, <1>5
    <3>2. 0 \notin T
      BY <2>2, <3>1
    <3>3. QED
      BY <3>2
  <2>6. n - 1 \in 0 .. MaxCuts /\ n - 1 \notin T /\ n - 1 < MaxCuts /\ (n - 1) + 1 = n
    BY <1>1, <2>3, <2>4, <2>5
  <2>7. Power[n - 1] \in Nat \ {0} /\ Power[n] = 2 * Power[n - 1]
    BY <1>5, <2>2, <2>6
  <2>8. Power[n] \in Nat \ {0}
    BY <2>7
  <2>9. QED
    BY <2>2, <2>3, <2>8
<1>7. QED
  BY <1>5, <1>6

\* One element for another.
LEMMA Swapped ==
  ASSUME NEW S, IsFiniteSet(S), NEW x \in S, NEW y, NEW T, T \subseteq (S \ {x}) \cup {y}
  PROVE  IsFiniteSet(T) /\ Cardinality(T) <= Cardinality(S)
<1>1. IsFiniteSet(S \ {x}) /\ Cardinality(S \ {x}) = Cardinality(S) - 1 /\ Cardinality(S) \in Nat
  BY FS_RemoveElement, FS_CardinalityType
<1>2. /\ IsFiniteSet((S \ {x}) \cup {y})
      /\ Cardinality((S \ {x}) \cup {y}) <= Cardinality(S \ {x}) + 1
      /\ Cardinality((S \ {x}) \cup {y}) \in Nat
  BY <1>1, OneMore
<1>3. IsFiniteSet(T) /\ Cardinality(T) <= Cardinality((S \ {x}) \cup {y}) /\ Cardinality(T) \in Nat
  BY <1>2, FS_Subset, FS_CardinalityType
<1>4. QED
  BY <1>1, <1>2, <1>3

\* What a statement has before it, and what it keeps of a key.
LEMMA Parts ==
  ASSUME IsFiniteSet(rows), NEW k
  PROVE  /\ IsFiniteSet(Mine(k)) /\ IsFiniteSet(Ahead(k)) /\ IsFiniteSet(Future(k))
         /\ Ahead(k) \subseteq Mine(k) /\ Future(k) \subseteq Mine(k)
         /\ Cardinality(Mine(k)) \in Nat /\ Cardinality(Ahead(k)) \in Nat
         /\ Cardinality(Future(k)) \in Nat
         /\ Cardinality(Ahead(k)) <= Cardinality(Mine(k))
         /\ Cardinality(Future(k)) <= Cardinality(Mine(k))
<1>1. Mine(k) \subseteq rows /\ Ahead(k) \subseteq Mine(k) /\ Future(k) \subseteq Mine(k)
  BY DEF Mine, Ahead, Future
<1>2. QED
  BY <1>1, FS_Subset, FS_CardinalityType

\* A key of which a step leaves no more than there was.
LEMMA NoMore ==
  ASSUME Counted, IsFiniteSet(rows'), NEW k \in Keys,
         Mine(k)' \subseteq Mine(k), Ahead(k)' \subseteq Ahead(k), Future(k)' \subseteq Future(k)
  PROVE  /\ Cardinality(Mine(k)') + Cardinality(Ahead(k)') <= Cardinality(Mine(k)) + Cardinality(Ahead(k))
         /\ Cardinality(Mine(k)') <= Cardinality(Mine(k))
         /\ Cardinality(Future(k)') <= Cardinality(Future(k))
         /\ Cardinality(Mine(k)') \in Nat /\ Cardinality(Ahead(k)') \in Nat
         /\ Cardinality(Future(k)') \in Nat
<1>1. /\ IsFiniteSet(Mine(k)) /\ IsFiniteSet(Ahead(k)) /\ IsFiniteSet(Future(k))
      /\ Cardinality(Mine(k)) \in Nat /\ Cardinality(Ahead(k)) \in Nat
  BY Parts DEF Counted
<1>2. /\ Cardinality(Mine(k)') <= Cardinality(Mine(k)) /\ Cardinality(Mine(k)') \in Nat
      /\ Cardinality(Ahead(k)') <= Cardinality(Ahead(k)) /\ Cardinality(Ahead(k)') \in Nat
      /\ Cardinality(Future(k)') <= Cardinality(Future(k)) /\ Cardinality(Future(k)') \in Nat
  BY <1>1, FS_Subset, FS_CardinalityType
<1>3. QED
  BY <1>1, <1>2

LEMMA CountedParts ==
  ASSUME Counted, IInv, NEW k \in Keys
  PROVE  /\ Power[cuts] \in Nat \ {0}
         /\ pc \in {"idle", "insert"} => Cardinality(Mine(k)) <= Power[cuts]
         /\ Cardinality(Mine(k)) + Cardinality(Ahead(k)) <= 2 * Power[cuts]
         /\ Cardinality(Future(k)) <= Power[cuts]
  BY Powers DEF Counted, IInv, TypeOK

\* Steps of a statement that leave the rows alone, and those that remove some.
LEMMA CountedSubset ==
  ASSUME IInv, Counted, rows' \subseteq rows, cuts' = cuts,
         pc' \in {"idle", "insert"} => pc \in {"idle", "insert"},
         \A k \in Keys : Ahead(k)' \subseteq Ahead(k) /\ Future(k)' \subseteq Future(k)
  PROVE  Counted'
<1>1. IsFiniteSet(rows')
  BY FS_Subset DEF Counted
<1>2. ASSUME NEW k \in Keys
      PROVE  /\ pc' \in {"idle", "insert"} => Cardinality(Mine(k)') <= Power[cuts]
             /\ Cardinality(Mine(k)') + Cardinality(Ahead(k)') <= 2 * Power[cuts]
             /\ Cardinality(Future(k)') <= Power[cuts]
  <2>1. Mine(k)' \subseteq Mine(k)
    BY DEF Mine
  <2>2. /\ Cardinality(Mine(k)) \in Nat /\ Cardinality(Ahead(k)) \in Nat
        /\ Cardinality(Future(k)) \in Nat
    BY Parts DEF Counted
  <2>3. QED
    BY <1>1, <2>1, <2>2, NoMore, CountedParts
<1>3. QED
  BY <1>1, <1>2 DEF Counted

LEMMA InitCounted == Init => Counted
<1> SUFFICES ASSUME Init PROVE Counted
  OBVIOUS
<1>1. rows = {} /\ cuts = 0 /\ IsFiniteSet(rows) /\ Power[0] = 1
  BY Powers, FS_EmptySet DEF Init
<1>2. \A k \in Keys : Mine(k) = {} /\ Ahead(k) = {} /\ Future(k) = {}
  BY <1>1 DEF Mine, Ahead, Future
<1>3. QED
  BY <1>1, <1>2, FS_EmptySet DEF Counted

\* The scan of a statement that begins has all the rows before it.
LEMMA CountedBegin ==
  ASSUME IInv, Counted, (\E batch \in SUBSET Keys : InsertQuery(batch))
               \/ \E k \in {"update", "delete"} : ChangeQuery(k)
  PROVE  Counted'
<1>1. pc = "idle" /\ UNCHANGED <<rows, heap, seen, cur, cuts>>
  BY DEF InsertQuery, ChangeQuery
<1>2. IsFiniteSet(rows')
  BY <1>1 DEF Counted
<1>3. ASSUME NEW k \in Keys
      PROVE  /\ Cardinality(Mine(k)') <= Power[cuts]
             /\ Cardinality(Mine(k)') + Cardinality(Ahead(k)') <= 2 * Power[cuts]
             /\ Cardinality(Future(k)') <= Power[cuts]
  <2>1. Mine(k)' = Mine(k) /\ Ahead(k)' \subseteq Mine(k) /\ Future(k)' \subseteq Mine(k)
    BY <1>1 DEF Mine, Ahead, Future
  <2>2. IsFiniteSet(Mine(k)) /\ Cardinality(Mine(k)) \in Nat
    BY Parts DEF Counted
  <2>3. /\ Cardinality(Ahead(k)') <= Cardinality(Mine(k)) /\ Cardinality(Ahead(k)') \in Nat
        /\ Cardinality(Future(k)') <= Cardinality(Mine(k)) /\ Cardinality(Future(k)') \in Nat
    BY <2>1, <2>2, FS_Subset, FS_CardinalityType
  <2>4. Cardinality(Mine(k)) <= Power[cuts] /\ Power[cuts] \in Nat
    BY <1>1, CountedParts
  <2>5. QED
    BY <2>1, <2>2, <2>3, <2>4
<1>4. QED
  BY <1>1, <1>2, <1>3 DEF Counted

LEMMA CountedScan ==
  ASSUME IInv, Counted, NEW r \in rows, SkipRow(r) \/ TakeRow(r)
  PROVE  Counted'
<1>1. /\ pc = "scan" /\ r \in Unseen /\ seen' = seen \cup {Id(r)}
      /\ UNCHANGED <<rows, heap, cuts>> /\ pc' \in {"scan", "append", "mark"}
      /\ pc' = "append" => cur' = r
  BY DEF SkipRow, TakeRow
<1>2. r.heap = heap /\ Id(r) \notin seen
  BY <1>1 DEF Unseen
<1>3. ASSUME NEW k \in Keys PROVE Ahead(k)' \subseteq Ahead(k) /\ Future(k)' \subseteq Future(k)
  <2>1. Ahead(k)' \subseteq Ahead(k)
    BY <1>1, <1>2 DEF Ahead, Mine, Changing
  <2>2. QED
    BY <1>1, <2>1 DEF Future, Mine
<1>4. QED
  BY <1>1, <1>3, CountedSubset

LEMMA CountedFlow ==
  ASSUME IInv, Counted, \/ Inserted \/ NextHeap \/ Scanned \/ AppendsDone
                        \/ Flushed /\ heap # Heaps
                        \/ \E r \in rows : CommitDelete(r)
  PROVE  Counted'
<1>1. /\ rows' \subseteq rows /\ cuts' = cuts /\ UNCHANGED cur
      /\ pc # "mark" /\ pc' \in {"scan", "added", "deleted"}
      /\ pc' = "scan" => pc = "scan" /\ heap' = heap + 1
  BY DEF Inserted, NextHeap, Scanned, AppendsDone, Flushed, CommitDelete, FlushPool, Goto, statement
<1>2. heap \in Nat /\ \A r \in rows : r.heap \in Nat
  BY TableAssumption DEF IInv, TypeOK, Row
<1>3. ASSUME NEW k \in Keys PROVE Ahead(k)' \subseteq Ahead(k) /\ Future(k)' \subseteq Future(k)
  <2>1. Ahead(k)' \subseteq Ahead(k)
    BY <1>1, <1>2 DEF Ahead, Mine, Changing
  <2>2. QED
    BY <1>1, <2>1 DEF Future, Mine
<1>4. QED
  BY <1>1, <1>3, CountedSubset

\* When it returns the rows of a key are those it has kept.
LEMMA CountedReturn ==
  ASSUME IInv, Counted, Flushed, heap = Heaps
  PROVE  Counted'
<1>1. rows' = rows /\ cuts' = cuts /\ pc' = "idle" /\ pc = "deleted"
  BY DEF Flushed, Return
<1>2. \A r \in rows : r.mark = "stored"
  BY AllStored
<1>3. ASSUME NEW k \in Keys
      PROVE  /\ Cardinality(Mine(k)') <= Power[cuts]
             /\ Cardinality(Mine(k)') + Cardinality(Ahead(k)') <= 2 * Power[cuts]
             /\ Cardinality(Future(k)') <= Power[cuts]
  <2>1. Mine(k)' = Future(k) /\ Ahead(k)' = {} /\ Future(k)' = Future(k)
    BY <1>1, <1>2 DEF Mine, Ahead, Future, Changing
  <2>2. Cardinality(Future(k)) \in Nat /\ Cardinality(Future(k)) <= Power[cuts] /\ Power[cuts] \in Nat
    BY Parts, CountedParts DEF Counted
  <2>3. QED
    BY <2>1, <2>2, FS_EmptySet
<1>4. QED
  BY <1>1, <1>3 DEF Counted

\* A cut leaves the old versions and the new ones.
LEMMA CountedCut ==
  ASSUME IInv, Counted, Cut
  PROVE  Counted'
<1>1. /\ rows' \subseteq rows /\ cuts' = cuts + 1 /\ pc' = "idle"
      /\ cuts \in 0 .. MaxCuts /\ cuts < MaxCuts
  BY DEF Cut, Moving, Return, IInv, TypeOK
<1>2. Power[cuts'] = 2 * Power[cuts]
  BY <1>1, Powers
<1>3. ASSUME NEW k \in Keys
      PROVE  /\ Cardinality(Mine(k)') <= Power[cuts']
             /\ Cardinality(Mine(k)') + Cardinality(Ahead(k)') <= 2 * Power[cuts']
             /\ Cardinality(Future(k)') <= Power[cuts']
  <2>1. Mine(k)' \subseteq Mine(k) /\ Ahead(k)' = {} /\ Future(k)' \subseteq Mine(k)
    BY <1>1 DEF Mine, Ahead, Future, Changing
  <2>2. /\ IsFiniteSet(Mine(k)) /\ Cardinality(Mine(k)) \in Nat /\ Cardinality(Ahead(k)) \in Nat
        /\ Cardinality(Mine(k)) + Cardinality(Ahead(k)) <= 2 * Power[cuts] /\ Power[cuts] \in Nat
    BY Parts, CountedParts DEF Counted
  <2>3. /\ Cardinality(Future(k)') <= Cardinality(Mine(k)) /\ Cardinality(Future(k)') \in Nat
        /\ Cardinality(Mine(k)') <= Cardinality(Mine(k)) /\ Cardinality(Mine(k)') \in Nat
    BY <2>1, <2>2, FS_Subset, FS_CardinalityType
  <2>4. QED
    BY <1>2, <2>1, <2>2, <2>3, FS_EmptySet
<1>4. QED
  BY <1>1, <1>3, FS_Subset DEF Counted

\* The first version of a key.
LEMMA CountedInsert ==
  ASSUME IInv, Counted, NEW k \in Keys, InsertRow(k)
  PROVE  Counted'
<1>1. TypeOK /\ Numbered /\ Control
  BY DEF IInv
<1>2. pc = "insert" /\ k \in todo /\ Write(k) /\ UNCHANGED <<pc, heap, seen, cur, cuts>>
  BY DEF InsertRow
<1>3. PICK new \in Row : rows' = rows \cup {new} /\ new.key = k
  BY <1>1, <1>2, Written
<1>4. IsFiniteSet(rows')
  BY <1>3, OneMore DEF Counted
<1>5. ASSUME NEW j \in Keys
      PROVE  /\ Cardinality(Mine(j)') <= Power[cuts]
             /\ Cardinality(Mine(j)') + Cardinality(Ahead(j)') <= 2 * Power[cuts]
             /\ Cardinality(Future(j)') <= Power[cuts]
  <2>1. Ahead(j)' = {} /\ Future(j)' \subseteq Mine(j)'
    BY <1>2 DEF Ahead, Future, Changing
  <2>2. Cardinality(Mine(j)') <= Power[cuts] /\ IsFiniteSet(Mine(j)') /\ Power[cuts] \in Nat \ {0}
    <3>1. CASE j = k
      <4>1. \A r \in rows : r.key # k
        BY <1>1, <1>2 DEF Control
      <4>2. Mine(j)' = {new}
        BY <1>3, <3>1, <4>1 DEF Mine
      <4>3. IsFiniteSet({new}) /\ Cardinality({new}) = 1
        BY FS_Singleton
      <4>4. Power[cuts] \in Nat \ {0}
        BY CountedParts
      <4>5. QED
        BY <4>2, <4>3, <4>4
    <3>2. CASE j # k
      <4>1. Mine(j)' = Mine(j)
        BY <1>3, <3>2 DEF Mine
      <4>2. QED
        BY <1>2, <4>1, CountedParts, Parts DEF Counted
    <3>3. QED
      BY <3>1, <3>2
  <2>3. /\ Cardinality(Future(j)') <= Cardinality(Mine(j)')
        /\ Cardinality(Future(j)') \in Nat /\ Cardinality(Mine(j)') \in Nat
    BY <2>1, <2>2, FS_Subset, FS_CardinalityType
  <2>4. QED
    BY <2>1, <2>2, <2>3, FS_EmptySet
<1>6. QED
  BY <1>2, <1>4, <1>5 DEF Counted

\* A new version: the old one is no longer ahead, nor will it be kept.
LEMMA CountedAppend ==
  ASSUME IInv, Counted, AppendNew
  PROVE  Counted'
<1>1. TypeOK /\ Numbered /\ Control
  BY DEF IInv
<1>2. /\ pc = "append" /\ pc' = "mark" /\ Write(cur.key)
      /\ UNCHANGED <<heap, seen, cur, cuts>>
  BY DEF AppendNew, Goto
<1>3. cur \in rows /\ cur.key \in Keys /\ cur.heap = heap /\ cur.mark # "added" /\ Id(cur) \in seen
  BY <1>1, <1>2 DEF Control, TypeOK, Row
<1>4. PICK new \in Row :
        rows' = rows \cup {new} /\ new.key = cur.key /\ new.mark = "added" /\ new \notin rows
  BY <1>1, <1>2, <1>3, Written
<1>5. IsFiniteSet(rows')
  BY <1>4, OneMore DEF Counted
<1>6. ASSUME NEW j \in Keys
      PROVE  /\ Cardinality(Mine(j)') + Cardinality(Ahead(j)') <= 2 * Power[cuts]
             /\ Cardinality(Future(j)') <= Power[cuts]
  <2>1. /\ Power[cuts] \in Nat /\ Cardinality(Future(j)) <= Power[cuts]
        /\ Cardinality(Mine(j)) + Cardinality(Ahead(j)) <= 2 * Power[cuts]
        /\ Cardinality(Mine(j)) \in Nat /\ Cardinality(Ahead(j)) \in Nat
        /\ Cardinality(Future(j)) \in Nat
        /\ IsFiniteSet(Mine(j)) /\ IsFiniteSet(Ahead(j)) /\ IsFiniteSet(Future(j))
    BY CountedParts, Parts DEF Counted
  <2>2. CASE j = cur.key
    <3>1. Mine(j)' = Mine(j) \cup {new}
      BY <1>4, <2>2 DEF Mine
    <3>2. cur \in Ahead(j) /\ cur \in Future(j)
      BY <1>2, <1>3, <2>2 DEF Ahead, Future, Mine, Changing
    <3>3. Ahead(j)' \subseteq Ahead(j) \ {cur}
      <4>1. ~ (cur.heap > heap)
        BY <1>1, <1>3, TableAssumption DEF TypeOK
      <4>2. QED
        BY <1>2, <1>3, <1>4, <4>1 DEF Ahead, Mine, Changing
    <3>4. Future(j)' \subseteq (Future(j) \ {cur}) \cup {new}
      <4>1. ASSUME NEW r \in Future(j)' PROVE r \in (Future(j) \ {cur}) \cup {new}
        BY <1>2, <1>4, <3>1, <3>3 DEF Future
      <4>2. QED
        BY <4>1
    <3>5. Cardinality(Mine(j)') <= Cardinality(Mine(j)) + 1 /\ Cardinality(Mine(j)') \in Nat
      BY <2>1, <3>1, OneMore
    <3>6. Cardinality(Ahead(j)') <= Cardinality(Ahead(j)) - 1 /\ Cardinality(Ahead(j)') \in Nat
      <4>1. IsFiniteSet(Ahead(j) \ {cur}) /\ Cardinality(Ahead(j) \ {cur}) = Cardinality(Ahead(j)) - 1
        BY <2>1, <3>2, FS_RemoveElement
      <4>2. QED
        BY <3>3, <4>1, FS_Subset, FS_CardinalityType
    <3>7. Cardinality(Future(j)') <= Cardinality(Future(j)) /\ IsFiniteSet(Future(j)')
      BY <2>1, <3>2, <3>4, Swapped
    <3>8. Cardinality(Future(j)') \in Nat
      BY <3>7, FS_CardinalityType
    <3>9. QED
      BY <2>1, <3>5, <3>6, <3>7, <3>8
  <2>3. CASE j # cur.key
    <3>1. Mine(j)' = Mine(j)
      BY <1>4, <2>3 DEF Mine
    <3>2. Ahead(j)' \subseteq Ahead(j)
      BY <1>2, <3>1 DEF Ahead, Changing
    <3>3. Future(j)' \subseteq Future(j)
      BY <1>2, <3>1, <3>2 DEF Future
    <3>4. QED
      BY <1>5, <2>1, <3>1, <3>2, <3>3, NoMore
  <2>4. QED
    BY <2>2, <2>3
<1>7. QED
  BY <1>2, <1>5, <1>6 DEF Counted

LEMMA CountedMark ==
  ASSUME IInv, Counted, MarkOld
  PROVE  Counted'
<1>1. TypeOK /\ Numbered /\ Control
  BY DEF IInv
<1> DEFINE old == [cur EXCEPT !.mark = "deleted"]
<1>2. /\ pc = "mark" /\ pc' = "scan" /\ rows' = (rows \ {cur}) \cup {old}
      /\ UNCHANGED <<heap, seen, cuts, written>>
  BY DEF MarkOld
<1>3. cur \in rows /\ cur.heap = heap /\ Id(cur) \in seen
  BY <1>1, <1>2 DEF Control
<1>4. old.key = cur.key /\ old.heap = cur.heap /\ old.mark = "deleted" /\ Id(old) \in seen
  BY <1>1, <1>2, <1>3, Marked DEF Marks, Id
<1> HIDE DEF old
<1>5. IsFiniteSet(rows')
  BY <1>2, <1>3, Swapped DEF Counted
<1>6. ASSUME NEW j \in Keys
      PROVE  /\ Cardinality(Mine(j)') + Cardinality(Ahead(j)') <= 2 * Power[cuts]
             /\ Cardinality(Future(j)') <= Power[cuts]
  <2>1. Ahead(j)' \subseteq Ahead(j)
    <3>1. heap \in Nat /\ \A r \in rows : r.heap \in Nat
      BY TableAssumption, <1>1 DEF TypeOK, Row
    <3>2. QED
      BY <1>2, <1>3, <1>4, <3>1 DEF Ahead, Mine, Changing
  <2>2. Future(j)' \subseteq Future(j)
    <3>1. old \notin Ahead(j)'
      BY <1>1, <1>2, <1>3, <1>4, TableAssumption DEF Ahead, TypeOK
    <3>2. QED
      BY <1>2, <1>4, <2>1, <3>1 DEF Future, Mine
  <2>3. /\ Power[cuts] \in Nat /\ Cardinality(Future(j)) <= Power[cuts]
        /\ Cardinality(Mine(j)) + Cardinality(Ahead(j)) <= 2 * Power[cuts]
        /\ Cardinality(Mine(j)) \in Nat /\ Cardinality(Ahead(j)) \in Nat
        /\ Cardinality(Future(j)) \in Nat
        /\ IsFiniteSet(Mine(j)) /\ IsFiniteSet(Ahead(j)) /\ IsFiniteSet(Future(j))
    BY CountedParts, Parts DEF Counted
  <2>4. Cardinality(Mine(j)') <= Cardinality(Mine(j)) /\ IsFiniteSet(Mine(j)')
    <3>1. CASE j = cur.key
      <4>1. Mine(j)' \subseteq (Mine(j) \ {cur}) \cup {old} /\ cur \in Mine(j)
        BY <1>2, <1>3, <3>1 DEF Mine
      <4>2. QED
        BY <2>3, <4>1, Swapped
    <3>2. CASE j # cur.key
      <4>1. Mine(j)' \subseteq Mine(j)
        BY <1>2, <1>4, <3>2 DEF Mine
      <4>2. QED
        BY <2>3, <4>1, FS_Subset
    <3>3. QED
      BY <3>1, <3>2
  <2>5. /\ Cardinality(Ahead(j)') <= Cardinality(Ahead(j)) /\ Cardinality(Ahead(j)') \in Nat
        /\ Cardinality(Future(j)') <= Cardinality(Future(j)) /\ Cardinality(Future(j)') \in Nat
        /\ Cardinality(Mine(j)') \in Nat
    BY <2>1, <2>2, <2>3, <2>4, FS_Subset, FS_CardinalityType
  <2>6. QED
    BY <2>3, <2>4, <2>5
<1>7. QED
  BY <1>2, <1>5, <1>6 DEF Counted

LEMMA CountedCommit ==
  ASSUME IInv, Counted, NEW r \in rows, CommitAppend(r)
  PROVE  Counted'
<1>1. TypeOK /\ Numbered
  BY DEF IInv
<1> DEFINE new == [r EXCEPT !.mark = "stored"]
<1>2. /\ pc = "added" /\ pc' = "added" /\ r.mark = "added" /\ rows' = (rows \ {r}) \cup {new}
      /\ UNCHANGED <<cuts, written>>
  BY DEF CommitAppend, statement
<1>3. new.key = r.key /\ new.mark = "stored"
  BY <1>1, <1>2, Marked DEF Marks
<1> HIDE DEF new
<1>4. IsFiniteSet(rows')
  BY <1>2, Swapped DEF Counted
<1>5. ASSUME NEW j \in Keys
      PROVE  /\ Cardinality(Mine(j)') + Cardinality(Ahead(j)') <= 2 * Power[cuts]
             /\ Cardinality(Future(j)') <= Power[cuts]
  <2>1. Ahead(j)' = {} /\ Ahead(j) = {}
    BY <1>2 DEF Ahead, Changing
  <2>2. /\ Power[cuts] \in Nat /\ Cardinality(Future(j)) <= Power[cuts]
        /\ Cardinality(Mine(j)) + Cardinality(Ahead(j)) <= 2 * Power[cuts]
        /\ Cardinality(Mine(j)) \in Nat /\ Cardinality(Future(j)) \in Nat
        /\ IsFiniteSet(Mine(j)) /\ IsFiniteSet(Future(j))
    BY CountedParts, Parts DEF Counted
  <2>3. CASE j = r.key
    <3>1. Mine(j)' \subseteq (Mine(j) \ {r}) \cup {new} /\ r \in Mine(j)
      BY <1>2, <2>3 DEF Mine
    <3>2. r \in Future(j) /\ Future(j)' \subseteq (Future(j) \ {r}) \cup {new}
      BY <1>2, <2>1, <3>1 DEF Future
    <3>3. /\ Cardinality(Mine(j)') <= Cardinality(Mine(j)) /\ IsFiniteSet(Mine(j)')
          /\ Cardinality(Future(j)') <= Cardinality(Future(j)) /\ IsFiniteSet(Future(j)')
      BY <2>2, <3>1, <3>2, Swapped
    <3>4. Cardinality(Mine(j)') \in Nat /\ Cardinality(Future(j)') \in Nat
      BY <3>3, FS_CardinalityType
    <3>5. QED
      BY <2>1, <2>2, <3>3, <3>4, FS_EmptySet
  <2>4. CASE j # r.key
    <3>1. Mine(j)' \subseteq Mine(j)
      BY <1>2, <1>3, <2>4 DEF Mine
    <3>2. Future(j)' \subseteq Future(j)
      BY <1>2, <2>1, <3>1 DEF Future
    <3>3. QED
      BY <1>4, <2>1, <2>2, <3>1, <3>2, NoMore, FS_EmptySet
  <2>5. QED
    BY <2>3, <2>4
<1>6. QED
  BY <1>2, <1>4, <1>5 DEF Counted

\* Every failure may double the versions of a key, and nothing else does.
THEOREM DoublesAtMost == Spec => []Doubled
<1>1. IInv /\ Counted /\ [Next]_vars => Counted'
  <2> SUFFICES ASSUME IInv, Counted, [Next]_vars PROVE Counted'
    OBVIOUS
  <2>1. CASE \/ \E batch \in SUBSET Keys : InsertQuery(batch)
             \/ \E k \in {"update", "delete"} : ChangeQuery(k)
    BY <2>1, CountedBegin
  <2>2. CASE \E k \in Keys : InsertRow(k)
    BY <2>2, CountedInsert
  <2>3. CASE \E r \in rows : SkipRow(r) \/ TakeRow(r) \/ CommitAppend(r) \/ CommitDelete(r)
    BY <2>3, CountedScan, CountedCommit, CountedFlow
  <2>4. CASE Inserted \/ NextHeap \/ Scanned \/ AppendsDone
    BY <2>4, CountedFlow
  <2>5. CASE AppendNew \/ MarkOld
    BY <2>5, CountedAppend, CountedMark
  <2>6. CASE Flushed
    BY <2>6, CountedFlow, CountedReturn
  <2>7. CASE Cut
    BY <2>7, CountedCut
  <2>8. CASE UNCHANGED vars
    BY <2>8, CountedSubset DEF vars, Ahead, Future, Mine, Changing
  <2>9. QED
    BY <2>1, <2>2, <2>3, <2>4, <2>5, <2>6, <2>7, <2>8 DEF Next, Step
<1>2. IInv /\ Counted => Doubled
  <2> SUFFICES ASSUME IInv, Counted, NEW k \in Keys, pc = "idle"
               PROVE  Cardinality(Versions(k)) <= Power[cuts]
    BY DEF Doubled
  <2>1. Versions(k) \subseteq Mine(k) /\ IsFiniteSet(Mine(k)) /\ Cardinality(Mine(k)) \in Nat
    BY Parts DEF Versions, Mine, Counted
  <2>2. Cardinality(Versions(k)) <= Cardinality(Mine(k)) /\ Cardinality(Versions(k)) \in Nat
    BY <2>1, FS_Subset, FS_CardinalityType
  <2>3. QED
    BY <2>1, <2>2, CountedParts
<1>3. QED
  BY <1>1, <1>2, InitCounted, Invariance, PTL DEF Spec

-----------------------------------------------------------------------------
(***************************************************************************)
(* The loops of the cursors: what they have behind them, wherever they are *)
(***************************************************************************)
Steps == {"rest", "next", "test", "row", "done", "stopped"}
Places == [0 .. joins -> Nat \ {0}]

WalkTypes ==
    /\ joins \in Nat /\ size \in [0 .. joins -> Nat] /\ pos \in Places
    /\ top \in 0 .. joins /\ level \in 0 .. top /\ step \in Steps
    /\ got \in Seq(Places)
    /\ step \in {"rest", "row"} => level = top
    /\ step \in {"row", "done"} => top = joins
    /\ step = "test" => level # 0

\* What is right of the level has been restarted, or will be.  A table is behind its
\* last row only when it has none, or when the walk is over.
Restarted ==
    /\ \A k \in top + 1 .. joins : pos[k] = 1
    /\ step \in {"rest", "test", "row"} =>
          \A k \in 1 .. level : pos[k] <= size[k] \/ size[k] = 0
    /\ step = "next" => ~ Empty(level)

\* The conditions the row at hand has met.
Met(k) == Empty(k) \/ \A h \in 1 .. k : Takes(h)
Filtered ==
    /\ step = "rest" => Met(top)
    /\ step \in {"test", "next"} /\ level # 0 => Met(level - 1)
    /\ step = "row" => Empty(joins) \/ InView(pos)

\* The positions the walk has behind it.
Past(t) ==
    CASE step = "next" -> ~ Before(pos, t, level)
      [] step \in {"rest", "test", "row"} -> Before(t, pos, level)
      [] OTHER -> TRUE
Gathered ==
    /\ \A i \in DOMAIN got : got[i] \in Positions /\ InView(got[i]) /\ Past(got[i])
    /\ \A i, j \in DOMAIN got : i < j => Before(got[i], got[j], joins)
    /\ step # "stopped" =>
          \A t \in Positions : InView(t) /\ Past(t) => \E i \in DOMAIN got : got[i] = t

WalkInv == WalkTypes /\ Restarted /\ Filtered /\ Gathered

-----------------------------------------------------------------------------
LEMMA PositionsAre ==
  ASSUME joins \in Nat, size \in [0 .. joins -> Nat]
  PROVE  \A t : t \in Positions <=> t \in Places /\ \A k \in 0 .. joins : t[k] <= size[k]
<1>1. ASSUME NEW t \in Positions PROVE t \in Places
  <2>1. /\ t \in [0 .. joins -> UNION {1 .. size[k] : k \in 0 .. joins}]
        /\ \A k \in 0 .. joins : 1 .. size[k] \subseteq Nat \ {0}
    <3>1. t \in [0 .. joins -> UNION {1 .. size[k] : k \in 0 .. joins}]
      BY <1>1 DEF Positions
    <3>2. \A k \in 0 .. joins : 1 .. size[k] \subseteq Nat \ {0}
      OBVIOUS
    <3> QED BY <3>1, <3>2
  <2>2. UNION {1 .. size[k] : k \in 0 .. joins} \subseteq Nat \ {0}
    BY <2>1
  <2> QED BY <2>1, <2>2 DEF Places
<1>2. ASSUME NEW t \in Places, \A k \in 0 .. joins : t[k] <= size[k]
      PROVE  t \in Positions
  <2>1. ASSUME NEW k \in 0 .. joins
        PROVE  t[k] \in UNION {1 .. size[h] : h \in 0 .. joins}
    <3>1. t[k] \in 1 .. size[k]
      BY <1>2 DEF Places
    <3> QED BY <3>1
  <2> QED BY <1>2, <2>1 DEF Places, Positions
<1>3. \A t \in Positions : \A k \in 0 .. joins : t[k] <= size[k]
  BY DEF Positions
<1> QED BY <1>1, <1>2, <1>3

LEMMA BeforeAt ==
  ASSUME NEW k \in Nat, NEW s, NEW t
  PROVE  Before(s, t, k) <=>
            \/ k > 0 /\ Before(s, t, k - 1)
            \/ s[k] < t[k] /\ \A h \in 0 .. k - 1 : s[h] = t[h]
<1>1. ASSUME Before(s, t, k), ~ (s[k] < t[k] /\ \A h \in 0 .. k - 1 : s[h] = t[h])
      PROVE  k > 0 /\ Before(s, t, k - 1)
  <2>1. PICK i \in 0 .. k : s[i] < t[i] /\ \A h \in 0 .. i - 1 : s[h] = t[h]
    BY <1>1 DEF Before
  <2>2. i # k
    BY <1>1, <2>1
  <2>3. k > 0 /\ i \in 0 .. k - 1
    BY <2>2
  <2> QED BY <2>1, <2>3 DEF Before
<1>2. ASSUME k > 0, Before(s, t, k - 1) PROVE Before(s, t, k)
  <2>1. PICK i \in 0 .. k - 1 : s[i] < t[i] /\ \A h \in 0 .. i - 1 : s[h] = t[h]
    BY <1>2 DEF Before
  <2>2. i \in 0 .. k
    OBVIOUS
  <2> QED BY <2>1, <2>2 DEF Before
<1>3. ASSUME s[k] < t[k], \A h \in 0 .. k - 1 : s[h] = t[h] PROVE Before(s, t, k)
  BY <1>3 DEF Before
<1> QED BY <1>1, <1>2, <1>3

LEMMA BeforeLinear ==
  ASSUME NEW k \in Nat, NEW s, NEW t, \A i \in 0 .. k : s[i] \in Nat /\ t[i] \in Nat
  PROVE  /\ Before(s, t, k) \/ Before(t, s, k) \/ \A i \in 0 .. k : s[i] = t[i]
         /\ ~ (Before(s, t, k) /\ Before(t, s, k))
         /\ (\A i \in 0 .. k : s[i] = t[i]) => ~ Before(s, t, k) /\ ~ Before(t, s, k)
<1>1. ASSUME NEW i \in 0 .. k, s[i] # t[i]
      PROVE  Before(s, t, k) \/ Before(t, s, k)
  <2> DEFINE D == {n \in 0 .. k : s[n] # t[n]}
  <2>1. D \subseteq Nat /\ D # {}
    BY <1>1
  <2>2. PICK n \in D : \A m \in D : n <= m
    <3> HIDE DEF D
    <3> QED BY <2>1, LeastNat
  <2>3. n \in 0 .. k /\ s[n] # t[n] /\ \A m \in 0 .. n - 1 : ~ (m \in D)
    BY <2>2
  <2>4. \A m \in 0 .. n - 1 : s[m] = t[m]
    BY <2>3
  <2>5. s[n] < t[n] \/ t[n] < s[n]
    BY <2>3
  <2> QED BY <2>3, <2>4, <2>5 DEF Before
<1>2. ASSUME Before(s, t, k), Before(t, s, k) PROVE FALSE
  <2>1. PICK i \in 0 .. k : s[i] < t[i] /\ \A h \in 0 .. i - 1 : s[h] = t[h]
    BY <1>2 DEF Before
  <2>2. PICK j \in 0 .. k : t[j] < s[j] /\ \A h \in 0 .. j - 1 : t[h] = s[h]
    BY <1>2 DEF Before
  <2>3. /\ i < j => s[i] = t[i]
        /\ j < i => s[j] = t[j]
    BY <2>1, <2>2
  <2>4. s[i] \in Nat /\ t[i] \in Nat /\ s[j] \in Nat /\ t[j] \in Nat
    OBVIOUS
  <2>5. ~ (i < j) /\ ~ (j < i)
    BY <2>1, <2>2, <2>3, <2>4
  <2> QED BY <2>1, <2>2, <2>4, <2>5
<1>3. ASSUME \A i \in 0 .. k : s[i] = t[i] PROVE ~ Before(s, t, k) /\ ~ Before(t, s, k)
  BY <1>3 DEF Before
<1> QED BY <1>1, <1>2, <1>3

LEMMA BeforeSame ==
  ASSUME NEW k \in Int, NEW s, NEW r, NEW t, \A i \in 0 .. k : s[i] = r[i]
  PROVE  /\ Before(s, t, k) <=> Before(r, t, k)
         /\ Before(t, s, k) <=> Before(t, r, k)
BY DEF Before

LEMMA BeforeNext ==
  ASSUME NEW k \in Nat, NEW s, NEW r, NEW t,
         \A i \in 0 .. k : s[i] \in Nat /\ t[i] \in Nat,
         r[k] = s[k] + 1, \A i \in 0 .. k - 1 : r[i] = s[i]
  PROVE  Before(t, r, k) <=> ~ Before(s, t, k)
<1> DEFINE Eq == \A h \in 0 .. k - 1 : s[h] = t[h]
           Lt == t[k] < r[k]
           Gt == s[k] < t[k]
<1>1. Lt <=> ~ Gt
  BY DEF Lt
<1>2. Eq <=> \A h \in 0 .. k - 1 : t[h] = r[h]
  OBVIOUS
<1>3. CASE k = 0
  <2>1. Eq
    BY <1>3
  <2>2. Before(t, r, k) <=> Lt
    BY BeforeAt, <1>2, <2>1, <1>3
  <2>3. Before(s, t, k) <=> Gt
    BY BeforeAt, <2>1, <1>3
  <2> QED BY <1>1, <2>2, <2>3
<1>4. CASE k > 0
  <2>1. Before(t, r, k) <=> Before(t, r, k - 1) \/ (Lt /\ Eq)
    <3>1. Before(t, r, k) <=> \/ k > 0 /\ Before(t, r, k - 1)
                              \/ t[k] < r[k] /\ \A h \in 0 .. k - 1 : t[h] = r[h]
      BY BeforeAt
    <3> QED BY <3>1, <1>2, <1>4
  <2>2. Before(s, t, k) <=> Before(s, t, k - 1) \/ (Gt /\ Eq)
    <3>1. Before(s, t, k) <=> \/ k > 0 /\ Before(s, t, k - 1)
                              \/ s[k] < t[k] /\ \A h \in 0 .. k - 1 : s[h] = t[h]
      BY BeforeAt
    <3> QED BY <3>1, <1>4
  <2>3. Before(t, r, k - 1) <=> Before(t, s, k - 1)
    <3>1. k - 1 \in Int
      OBVIOUS
    <3> QED BY <3>1, BeforeSame
  <2>4. /\ Before(s, t, k - 1) \/ Before(t, s, k - 1) \/ Eq
        /\ ~ (Before(s, t, k - 1) /\ Before(t, s, k - 1))
        /\ Eq => ~ Before(s, t, k - 1) /\ ~ Before(t, s, k - 1)
    <3>1. k - 1 \in Nat /\ \A i \in 0 .. k - 1 : s[i] \in Nat /\ t[i] \in Nat
      BY <1>4
    <3> QED BY <3>1, BeforeLinear
  <2> HIDE DEF Eq, Lt, Gt
  <2> QED BY <1>1, <2>1, <2>2, <2>3, <2>4
<1> QED BY <1>3, <1>4

\* A table that has just been restarted adds nothing to what is behind.
LEMMA BeforeRestarted ==
  ASSUME NEW k \in Nat, NEW s, NEW r, NEW t,
         \A i \in 0 .. k : r[i] = s[i], r[k + 1] = 1, t[k + 1] \in Nat \ {0}
  PROVE  Before(t, r, k + 1) <=> Before(t, s, k)
<1>1. Before(t, r, k + 1) <=> \/ k + 1 > 0 /\ Before(t, r, k + 1 - 1)
                              \/ /\ t[k + 1] < r[k + 1]
                                 /\ \A h \in 0 .. k + 1 - 1 : t[h] = r[h]
  <2>1. k + 1 \in Nat
    OBVIOUS
  <2> QED BY <2>1, BeforeAt
<1>2. ~ (t[k + 1] < r[k + 1]) /\ k + 1 > 0 /\ k + 1 - 1 = k
  OBVIOUS
<1>3. Before(t, r, k) <=> Before(t, s, k)
  <2>1. k \in Int
    OBVIOUS
  <2> QED BY <2>1, BeforeSame
<1> QED BY <1>1, <1>2, <1>3

LEMMA SameUpto ==
  ASSUME NEW k, NEW s, NEW t, \A i \in 0 .. k : s[i] = t[i]
  PROVE  Upto(s, k) = Upto(t, k)
BY DEF Upto

\* At a row that a condition does not take, no row in view stands.
LEMMA NotHere ==
  ASSUME WalkTypes, NEW k \in 0 .. joins, NEW t \in Positions,
         ~ \A i \in 0 .. k : t[i] = pos[i]
  PROVE  Before(t, pos, k) <=> ~ Before(pos, t, k)
<1>1. t \in Places /\ pos \in Places
  BY PositionsAre DEF WalkTypes
<1>2. k \in Nat /\ \A i \in 0 .. k : t[i] \in Nat /\ pos[i] \in Nat
  BY <1>1 DEF Places, WalkTypes
<1>3. /\ Before(t, pos, k) \/ Before(pos, t, k) \/ \A i \in 0 .. k : t[i] = pos[i]
      /\ ~ (Before(t, pos, k) /\ Before(pos, t, k))
  BY <1>2, BeforeLinear
<1> QED BY <1>3

LEMMA NotTaken ==
  ASSUME WalkTypes, NEW k \in 1 .. joins, ~ Takes(k), NEW t \in Positions, InView(t)
  PROVE  Before(t, pos, k) <=> ~ Before(pos, t, k)
<1>1. Upto(t, k) \in passes[k]
  BY DEF InView
<1>2. ~ \A i \in 0 .. k : t[i] = pos[i]
  BY <1>1, SameUpto DEF Takes
<1>3. k \in 0 .. joins
  BY DEF WalkTypes
<1> QED BY <1>2, <1>3, NotHere

LEMMA GatheredStays ==
  ASSUME Gathered, UNCHANGED <<asked, got>>, step # "stopped",
         \A t \in Positions : InView(t) => (Past(t)' <=> Past(t))
  PROVE  Gathered'
<1>1. Positions' = Positions /\ joins' = joins /\ got' = got
  BY DEF asked, Positions
<1>2. \A t : InView(t)' <=> InView(t)
  BY DEF asked, InView
<1>3. /\ \A i \in DOMAIN got : got[i] \in Positions /\ InView(got[i]) /\ Past(got[i])
      /\ \A i, j \in DOMAIN got : i < j => Before(got[i], got[j], joins)
      /\ \A t \in Positions : InView(t) /\ Past(t) => \E i \in DOMAIN got : got[i] = t
  BY DEF Gathered
<1>4. ASSUME NEW i \in DOMAIN got
      PROVE  got[i] \in Positions' /\ InView(got[i])' /\ Past(got[i])'
  BY <1>1, <1>2, <1>3
<1>5. ASSUME NEW t \in Positions, InView(t)', Past(t)'
      PROVE  \E i \in DOMAIN got : got[i] = t
  BY <1>2, <1>3, <1>5
<1> QED BY <1>1, <1>3, <1>4, <1>5 DEF Gathered

LEMMA AfterStep ==
  ASSUME WalkInv, NEW moved, moved \in Places, After(level, moved),
         \A k \in top + 1 .. joins : moved[k] = 1,
         \A k \in 1 .. level : moved[k] <= size[k] \/ size[k] = 0,
         \/ \E t \in 0 .. level : moved[t] > size[t]
         \/ \A h \in 1 .. level : Upto(moved, h) \in passes[h],
         UNCHANGED <<asked, top, got>>
  PROVE  /\ WalkTypes' /\ Restarted' /\ Filtered'
         /\ \A t \in Positions : Past(t)' <=> Before(t, moved, level)
<1> USE DEF asked
<1>0. /\ joins \in Nat /\ size \in [0 .. joins -> Nat] /\ top \in 0 .. joins
      /\ level \in 0 .. top /\ got \in Seq(Places) /\ Places' = Places
  BY DEF WalkInv, WalkTypes, Places
<1>1. CASE level = top
  <2>1. pos' = moved /\ level' = level /\ step' = "rest"
    BY <1>1 DEF After
  <2>2. WalkTypes'
    BY <1>0, <1>1, <2>1 DEF WalkInv, WalkTypes, Steps
  <2>3. Restarted'
    BY <1>0, <1>1, <2>1 DEF Restarted
  <2>4. Filtered'
    BY <1>0, <1>1, <2>1 DEF Filtered, Met, Empty, Takes
  <2>5. \A t \in Positions : Past(t)' <=> Before(t, moved, level)
    BY <2>1 DEF Past
  <2> QED BY <2>2, <2>3, <2>4, <2>5
<1>2. CASE level # top
  <2>1. /\ pos' = [moved EXCEPT ![level + 1] = 1] /\ level' = level + 1
        /\ step' = "test"
    BY <1>2 DEF After
  <2>2. level + 1 \in 1 .. top /\ level + 1 \in 1 .. joins
    BY <1>0, <1>2
  <2>3. pos' \in Places
    BY <1>0, <2>1, <2>2 DEF Places
  <2>4. pos'[level + 1] = 1 /\ \A i \in 0 .. joins : i # level + 1 => pos'[i] = moved[i]
    BY <1>0, <2>1, <2>2 DEF Places
  <2>5. ASSUME NEW i \in 0 .. level PROVE pos'[i] = moved[i]
    <3>1. i \in 0 .. joins /\ i # level + 1
      BY <1>0
    <3> QED BY <2>4, <3>1
  <2>6. WalkTypes'
    BY <1>0, <2>1, <2>2, <2>3 DEF WalkTypes, WalkInv, Steps
  <2>7. Restarted'
    <3>1. ASSUME NEW k \in top + 1 .. joins PROVE pos'[k] = 1
      <4>1. k \in 0 .. joins /\ k # level + 1
        BY <1>0, <2>2
      <4> QED BY <2>4, <4>1
    <3>2. ASSUME NEW k \in 1 .. level + 1 PROVE pos'[k] <= size[k] \/ size[k] = 0
      <4>1. CASE k = level + 1
        <5>1. size[k] \in Nat
          BY <1>0, <2>2, <4>1
        <5>2. pos'[k] = 1
          BY <2>4, <4>1
        <5> QED BY <5>1, <5>2
      <4>2. CASE k # level + 1
        <5>1. k \in 1 .. level /\ k \in 0 .. level
          BY <1>0, <4>2
        <5> QED BY <2>5, <5>1
      <4> QED BY <4>1, <4>2
    <3> QED BY <2>1, <3>1, <3>2 DEF Restarted
  <2>8. Filtered'
    <3>2. ASSUME NEW h \in 1 .. level PROVE Upto(pos', h) = Upto(moved, h)
      <4>1. \A i \in 0 .. h : pos'[i] = moved[i]
        BY <1>0, <2>5
      <4> QED BY <4>1, SameUpto
    <3>3. \/ \E t \in 0 .. level : pos'[t] > size[t]
          \/ \A h \in 1 .. level : Upto(pos', h) \in passes[h]
      BY <2>5, <3>2
    <3>4. level' - 1 = level
      BY <2>1, <1>0
    <3> QED BY <2>1, <3>3, <3>4 DEF Filtered, Met, Empty, Takes
  <2>9. ASSUME NEW t \in Positions PROVE Past(t)' <=> Before(t, moved, level)
    <3>1. t \in Places
      BY <1>0, PositionsAre
    <3>2. t[level + 1] \in Nat \ {0} /\ level \in Nat
      BY <3>1, <1>0, <2>2 DEF Places
    <3>3. Before(t, pos', level + 1) <=> Before(t, moved, level)
      BY <2>4, <2>5, <3>2, BeforeRestarted
    <3> QED BY <2>1, <3>3 DEF Past
  <2> QED BY <2>6, <2>7, <2>8, <2>9
<1> QED BY <1>1, <1>2

-----------------------------------------------------------------------------
LEMMA StartInv == Start => WalkInv
<1> SUFFICES ASSUME Start PROVE WalkInv
  OBVIOUS
<1> USE DEF Start
<1>1. pos \in Places
  BY DEF Places
<1>2. WalkTypes
  BY <1>1 DEF WalkTypes, Steps
<1>3. Restarted
  BY DEF Restarted
<1>4. Filtered
  BY DEF Filtered, Met
<1>5. Gathered
  <2>1. ASSUME NEW t \in Positions PROVE ~ Past(t)
    <3>1. t[0] \in Nat \ {0}
      BY PositionsAre DEF Places
    <3>2. ~ Before(t, pos, 0)
      <4>1. pos[0] = 1
        OBVIOUS
      <4> QED BY <3>1, <4>1 DEF Before
    <3> QED BY <3>2 DEF Past
  <2> QED BY <2>1 DEF Gathered
<1> QED BY <1>2, <1>3, <1>4, <1>5 DEF WalkInv

LEMMA BuildJoinInv == WalkInv /\ BuildJoin => WalkInv'
<1> SUFFICES ASSUME WalkInv, BuildJoin PROVE WalkInv'
  OBVIOUS
<1> DEFINE k == top + 1
<1>0. /\ joins \in Nat /\ size \in [0 .. joins -> Nat] /\ pos \in Places
      /\ top \in 0 .. joins /\ level = top /\ got \in Seq(Places)
      /\ step = "rest" /\ k \in 1 .. joins /\ k \in 0 .. joins
  BY DEF BuildJoin, WalkInv, WalkTypes
<1>1. /\ top' = k /\ level' = k /\ pos' = pos /\ got' = got /\ joins' = joins
      /\ size' = size /\ passes' = passes /\ Places' = Places
      /\ step' = IF Empty(k) \/ Takes(k) THEN "rest" ELSE "next"
  BY DEF BuildJoin, asked, Places
<1>2. pos[k] = 1 /\ size[k] \in Nat
  BY <1>0 DEF WalkInv, Restarted
<1> HIDE DEF k
<1>3. WalkTypes'
  <2>1. k \in 0 .. joins /\ k \in 0 .. k
    BY <1>0
  <2> QED BY <1>0, <1>1, <2>1 DEF WalkTypes, Steps
<1>4. Restarted'
  <2>1. \A h \in k + 1 .. joins : pos[h] = 1
    <3>1. \A h \in k + 1 .. joins : h \in top + 1 .. joins
      BY <1>0 DEF k
    <3> QED BY <1>0, <3>1 DEF WalkInv, Restarted
  <2>2. ASSUME NEW h \in 1 .. k PROVE pos[h] <= size[h] \/ size[h] = 0
    <3>1. CASE h = k
      BY <1>2, <3>1
    <3>2. CASE h # k
      <4>1. h \in 1 .. level
        BY <1>0, <3>2 DEF k
      <4> QED BY <1>0, <4>1 DEF WalkInv, Restarted
    <3> QED BY <3>1, <3>2
  <2>3. step' = "next" => ~ Empty(k)
    BY <1>1
  <2> QED BY <1>1, <2>1, <2>2, <2>3 DEF Restarted, Empty
<1>5. Filtered'
  <2>1. Met(top)
    BY <1>0 DEF WalkInv, Filtered
  <2>2. Empty(top) => Empty(k)
    <3>1. \A t \in 0 .. top : t \in 0 .. k
      BY <1>0 DEF k
    <3> QED BY <3>1 DEF Empty
  <2>3. Empty(k) \/ Takes(k) => Met(k)
    <3>1. ASSUME NEW h \in 1 .. k PROVE h = k \/ h \in 1 .. top
      BY <1>0 DEF k
    <3> QED BY <2>1, <2>2, <3>1 DEF Met
  <2>4. k - 1 = top
    BY <1>0 DEF k
  <2>5. /\ step' = "rest" => Met(k)
        /\ step' = "next" => Met(k - 1)
    BY <1>1, <2>1, <2>3, <2>4
  <2>6. \A h : Met(h)' <=> Met(h)
    BY <1>1 DEF Met, Empty, Takes
  <2>7. step' \in {"rest", "next"}
    BY <1>1
  <2> QED BY <1>1, <2>5, <2>6, <2>7 DEF Filtered
<1>6. Gathered'
  <2>1. ASSUME NEW t \in Positions, InView(t) PROVE Past(t)' <=> Past(t)
    <3>1. t \in Places
      BY <1>0, PositionsAre
    <3>2. t[k] \in Nat \ {0} /\ top \in Nat /\ k = top + 1
      BY <1>0, <3>1 DEF Places, k
    <3>3. Before(t, pos, k) <=> Before(t, pos, top)
      BY <1>2, <3>2, BeforeRestarted
    <3>4. Past(t) <=> Before(t, pos, top)
      BY <1>0 DEF Past
    <3>5. CASE step' = "rest"
      <4>1. Past(t)' <=> Before(t, pos, k)
        BY <1>1, <3>5 DEF Past
      <4> QED BY <3>3, <3>4, <4>1
    <3>6. CASE step' = "next"
      <4>1. Past(t)' <=> ~ Before(pos, t, k)
        BY <1>1, <3>6 DEF Past
      <4>2. Before(t, pos, k) <=> ~ Before(pos, t, k)
        <5>1. ~ Takes(k)
          BY <1>1, <3>6
        <5> QED BY <1>0, <2>1, <5>1, NotTaken DEF WalkInv
      <4> QED BY <3>3, <3>4, <4>1, <4>2
    <3> QED BY <1>1, <3>5, <3>6
  <2>2. UNCHANGED <<asked, got>> /\ step # "stopped" /\ Gathered
    BY <1>0 DEF BuildJoin, WalkInv
  <2> QED BY <2>1, <2>2, GatheredStays
<1> QED BY <1>3, <1>4, <1>5, <1>6 DEF WalkInv

LEMMA TestInv == WalkInv /\ Test => WalkInv'
<1> SUFFICES ASSUME WalkInv, Test PROVE WalkInv'
  OBVIOUS
<1>0. /\ joins \in Nat /\ size \in [0 .. joins -> Nat] /\ pos \in Places
      /\ top \in 0 .. joins /\ level \in 1 .. top /\ got \in Seq(Places)
      /\ level \in 1 .. joins /\ step = "test" /\ WalkTypes
  BY DEF Test, WalkInv, WalkTypes
<1>1. /\ top' = top /\ got' = got /\ joins' = joins
      /\ size' = size /\ passes' = passes /\ Places' = Places
      /\ UNCHANGED <<asked, top, got>>
  BY DEF Test, asked, Places
<1>2. /\ \A k \in top + 1 .. joins : pos[k] = 1
      /\ \A k \in 1 .. level : pos[k] <= size[k] \/ size[k] = 0
      /\ Met(level - 1)
  BY <1>0 DEF WalkInv, Restarted, Filtered
<1>3. \A t \in Positions : Past(t) <=> Before(t, pos, level)
  BY <1>0 DEF Past
<1>4. CASE Empty(level) \/ Takes(level)
  <2>1. After(level, pos)
    BY <1>4 DEF Test
  <2>2. \/ \E t \in 0 .. level : pos[t] > size[t]
        \/ \A h \in 1 .. level : Upto(pos, h) \in passes[h]
    <3>1. CASE Empty(level)
      BY <3>1 DEF Empty
    <3>2. CASE ~ Empty(level)
      <4>1. ~ Empty(level - 1)
        <5>1. \A t \in 0 .. level - 1 : t \in 0 .. level
          BY <1>0
        <5> QED BY <3>2, <5>1 DEF Empty
      <4>2. Takes(level) /\ \A h \in 1 .. level - 1 : Takes(h)
        BY <1>2, <1>4, <3>2, <4>1 DEF Met
      <4>3. \A h \in 1 .. level : h = level \/ h \in 1 .. level - 1
        BY <1>0
      <4> QED BY <4>2, <4>3 DEF Takes
    <3> QED BY <3>1, <3>2
  <2>3. /\ WalkTypes' /\ Restarted' /\ Filtered'
        /\ \A t \in Positions : Past(t)' <=> Before(t, pos, level)
    BY <1>0, <1>1, <1>2, <2>1, <2>2, AfterStep
  <2>4. Gathered'
    <3>1. ASSUME NEW t \in Positions, InView(t) PROVE Past(t)' <=> Past(t)
      BY <1>3, <2>3
    <3> QED BY <1>0, <1>1, <3>1, GatheredStays DEF WalkInv
  <2> QED BY <2>3, <2>4 DEF WalkInv
<1>5. CASE ~ (Empty(level) \/ Takes(level))
  <2>1. step' = "next" /\ pos' = pos /\ level' = level
    BY <1>5 DEF Test
  <2>2. WalkTypes'
    BY <1>0, <1>1, <2>1 DEF WalkTypes, Steps
  <2>3. Restarted'
    BY <1>0, <1>1, <1>2, <1>5, <2>1 DEF Restarted, Empty
  <2>4. Filtered'
    BY <1>1, <1>2, <2>1 DEF Filtered, Met, Empty, Takes
  <2>5. Gathered'
    <3>1. ASSUME NEW t \in Positions, InView(t) PROVE Past(t)' <=> Past(t)
      <4>1. Past(t)' <=> ~ Before(pos, t, level)
        BY <2>1 DEF Past
      <4>2. Before(t, pos, level) <=> ~ Before(pos, t, level)
        BY <1>0, <1>5, <3>1, NotTaken
      <4> QED BY <1>3, <4>1, <4>2
    <3> QED BY <1>0, <1>1, <3>1, GatheredStays DEF WalkInv
  <2> QED BY <2>2, <2>3, <2>4, <2>5 DEF WalkInv
<1> QED BY <1>4, <1>5

LEMMA NextRowInv == WalkInv /\ NextRow => WalkInv'
<1> SUFFICES ASSUME WalkInv, NextRow PROVE WalkInv'
  OBVIOUS
<1> DEFINE moved == [pos EXCEPT ![level] = @ + 1]
<1>0. /\ joins \in Nat /\ size \in [0 .. joins -> Nat] /\ pos \in Places
      /\ top \in 0 .. joins /\ level \in 0 .. top /\ got \in Seq(Places)
      /\ level \in 0 .. joins /\ step = "next" /\ WalkTypes
  BY DEF NextRow, WalkInv, WalkTypes
<1>1. /\ top' = top /\ got' = got /\ joins' = joins
      /\ size' = size /\ passes' = passes /\ Places' = Places
      /\ UNCHANGED <<asked, top, got>>
  BY DEF NextRow, asked, Places
<1>2. /\ \A k \in top + 1 .. joins : pos[k] = 1
      /\ \A k \in 0 .. level : ~ (pos[k] > size[k])
      /\ level # 0 => Met(level - 1)
  BY <1>0 DEF WalkInv, Restarted, Filtered, Empty
<1>3. /\ moved \in Places /\ moved[level] = pos[level] + 1
      /\ \A k \in 0 .. joins : k # level => moved[k] = pos[k]
  BY <1>0 DEF Places
<1>4. IF level = 0 THEN After(0, moved)
      ELSE /\ pos' = moved
           /\ IF moved[level] > size[level]
              THEN step' = "next" /\ level' = level - 1
              ELSE step' = "test" /\ UNCHANGED level
  BY DEF NextRow
<1> HIDE DEF moved
<1>5. ASSUME NEW k \in top + 1 .. joins PROVE moved[k] = 1
  <2>1. k \in 0 .. joins /\ k # level
    BY <1>0
  <2> QED BY <1>2, <1>3, <2>1
<1>6. ASSUME NEW k \in 0 .. level - 1 PROVE moved[k] = pos[k]
  <2>1. k \in 0 .. joins /\ k # level
    BY <1>0
  <2> QED BY <1>3, <2>1
<1>7. ASSUME NEW t \in Positions
      PROVE  /\ Past(t) <=> Before(t, moved, level)
             /\ Past(t) <=> ~ Before(pos, t, level)
  <2>1. Past(t) <=> ~ Before(pos, t, level)
    BY <1>0 DEF Past
  <2>2. Before(t, moved, level) <=> ~ Before(pos, t, level)
    <3>1. t \in Places
      BY <1>0, PositionsAre
    <3>2. \A i \in 0 .. level : pos[i] \in Nat /\ t[i] \in Nat
      BY <1>0, <3>1 DEF Places
    <3>3. level \in Nat
      BY <1>0
    <3> QED BY <1>3, <1>6, <3>2, <3>3, BeforeNext
  <2> QED BY <2>1, <2>2
<1>8. ASSUME \A t \in Positions : Past(t)' <=> Past(t) PROVE Gathered'
  BY <1>0, <1>1, <1>8, GatheredStays DEF WalkInv
<1>9. CASE level = 0
  <2>1. After(level, moved)
    BY <1>4, <1>9
  <2>2. /\ \A k \in 1 .. level : moved[k] <= size[k] \/ size[k] = 0
        /\ \A h \in 1 .. level : Upto(moved, h) \in passes[h]
    BY <1>9
  <2>3. /\ WalkTypes' /\ Restarted' /\ Filtered'
        /\ \A t \in Positions : Past(t)' <=> Before(t, moved, level)
    BY <1>1, <1>3, <1>5, <2>1, <2>2, AfterStep
  <2> QED BY <1>7, <1>8, <2>3 DEF WalkInv
<1>10. CASE level # 0 /\ moved[level] > size[level]
  <2>1. pos' = moved /\ step' = "next" /\ level' = level - 1
    BY <1>4, <1>10
  <2>2. level - 1 \in 0 .. top /\ level - 1 \in Nat
    BY <1>0, <1>10
  <2>3. WalkTypes'
    BY <1>0, <1>1, <1>3, <2>1, <2>2 DEF WalkTypes, Steps
  <2>4. Restarted'
    <3>1. \A k \in 0 .. level - 1 : ~ (moved[k] > size[k])
      <4>1. \A k \in 0 .. level - 1 : k \in 0 .. level
        BY <1>0
      <4> QED BY <1>2, <1>6, <4>1
    <3>2. ~ Empty(level)'
      BY <1>1, <2>1, <3>1 DEF Empty
    <3> QED BY <1>1, <1>5, <2>1, <3>2 DEF Restarted
  <2>5. Filtered'
    <3>1. ASSUME level - 1 # 0 PROVE Met(level - 1)'
      <4>1. ~ Empty(level - 1)
        <5>1. \A k \in 0 .. level - 1 : k \in 0 .. level
          BY <1>0
        <5> QED BY <1>2, <5>1 DEF Empty
      <4>2. \A h \in 1 .. level - 1 : Upto(pos, h) \in passes[h]
        BY <1>2, <1>10, <4>1 DEF Met, Takes
      <4>3. ASSUME NEW h \in 1 .. level - 2 PROVE Upto(moved, h) \in passes[h]
        <5>1. h \in 1 .. level - 1 /\ \A i \in 0 .. h : i \in 0 .. level - 1
          BY <1>0
        <5>2. Upto(moved, h) = Upto(pos, h)
          BY <1>6, <5>1, SameUpto
        <5> QED BY <4>2, <5>1, <5>2
      <4>4. level' - 1 = level - 2
        BY <2>1, <1>0
      <4> QED BY <1>1, <2>1, <4>3, <4>4 DEF Met, Takes
    <3> QED BY <2>1, <3>1 DEF Filtered
  <2>6. ASSUME NEW t \in Positions PROVE Past(t)' <=> Past(t)
    <3>1. Past(t)' <=> ~ Before(moved, t, level - 1)
      BY <2>1 DEF Past
    <3>2. Before(moved, t, level - 1) <=> Before(pos, t, level - 1)
      <4>1. level - 1 \in Int
        BY <2>2
      <4> QED BY <1>6, <4>1, BeforeSame
    <3>3. Before(pos, t, level) <=> Before(pos, t, level - 1)
      <4>1. t \in Places /\ t[level] <= size[level]
        BY <1>0, PositionsAre
      <4>2. t[level] \in Nat /\ pos[level] \in Nat /\ size[level] \in Nat
        BY <1>0, <4>1 DEF Places
      <4>3. ~ (pos[level] < t[level])
        BY <1>3, <1>10, <4>1, <4>2
      <4>4. level \in Nat /\ level > 0
        BY <1>0, <1>10
      <4> QED BY <4>3, <4>4, BeforeAt
    <3> QED BY <1>7, <3>1, <3>2, <3>3
  <2> QED BY <1>8, <2>3, <2>4, <2>5, <2>6 DEF WalkInv
<1>11. CASE level # 0 /\ ~ (moved[level] > size[level])
  <2>1. pos' = moved /\ step' = "test" /\ level' = level
    BY <1>4, <1>11
  <2>2. WalkTypes'
    BY <1>0, <1>1, <1>3, <1>11, <2>1 DEF WalkTypes, Steps
  <2>3. Restarted'
    <3>1. ASSUME NEW k \in 1 .. level PROVE moved[k] <= size[k]
      <4>1. ~ (moved[k] > size[k])
        <5>1. k = level \/ k \in 0 .. level - 1
          BY <1>0
        <5>2. k \in 0 .. level
          BY <1>0
        <5> QED BY <1>2, <1>6, <1>11, <5>1, <5>2
      <4>2. moved[k] \in Nat /\ size[k] \in Nat
        BY <1>0, <1>3 DEF Places
      <4> QED BY <4>1, <4>2
    <3> QED BY <1>1, <1>5, <2>1, <3>1 DEF Restarted
  <2>4. Filtered'
    <3>1. \A h \in 1 .. level - 1 : Upto(pos, h) \in passes[h]
      <4>1. ~ Empty(level - 1)
        <5>1. \A k \in 0 .. level - 1 : k \in 0 .. level
          BY <1>0
        <5> QED BY <1>2, <5>1 DEF Empty
      <4> QED BY <1>2, <1>11, <4>1 DEF Met, Takes
    <3>2. ASSUME NEW h \in 1 .. level - 1 PROVE Upto(moved, h) \in passes[h]
      <4>1. \A i \in 0 .. h : i \in 0 .. level - 1
        BY <1>0
      <4>2. Upto(moved, h) = Upto(pos, h)
        BY <1>6, <4>1, SameUpto
      <4> QED BY <3>1, <4>2
    <3>3. Met(level - 1)'
      BY <1>1, <2>1, <3>2 DEF Met, Takes
    <3> QED BY <2>1, <3>3 DEF Filtered
  <2>5. ASSUME NEW t \in Positions PROVE Past(t)' <=> Past(t)
    <3>1. Past(t)' <=> Before(t, moved, level)
      BY <2>1 DEF Past
    <3> QED BY <1>7, <3>1
  <2> QED BY <1>8, <2>2, <2>3, <2>4, <2>5 DEF WalkInv
<1> QED BY <1>9, <1>10, <1>11

LEMMA WhereInv == WalkInv /\ Where => WalkInv'
<1> SUFFICES ASSUME WalkInv, Where PROVE WalkInv'
  OBVIOUS
<1>0. /\ joins \in Nat /\ size \in [0 .. joins -> Nat] /\ pos \in Places
      /\ top = joins /\ level = joins /\ got \in Seq(Places)
      /\ step = "rest" /\ WalkTypes
  BY DEF Where, WalkInv, WalkTypes
<1>1. /\ top' = top /\ level' = level /\ pos' = pos /\ got' = got /\ joins' = joins
      /\ size' = size /\ passes' = passes /\ Places' = Places /\ UNCHANGED <<asked, got>>
      /\ step' = IF Empty(joins) \/ pos \in passes[joins + 1] THEN "row" ELSE "next"
  BY DEF Where, asked, Places
<1>2. /\ \A k \in 1 .. level : pos[k] <= size[k] \/ size[k] = 0
      /\ Met(joins)
  BY <1>0 DEF WalkInv, Restarted, Filtered
<1>3. \A t \in Positions : Past(t) <=> Before(t, pos, joins)
  BY <1>0 DEF Past
<1>4. WalkTypes'
  BY <1>0, <1>1 DEF WalkTypes, Steps
<1>5. Restarted'
  <2>1. step' = "next" => ~ Empty(joins)
    BY <1>1
  <2> QED BY <1>0, <1>1, <1>2, <2>1 DEF Restarted, Empty
<1>6. Filtered'
  <2>1. step' = "row" => Empty(joins) \/ InView(pos)
    BY <1>1, <1>2 DEF Met, Takes, InView
  <2>2. step' = "next" => Met(joins - 1)
    <3>1. \A h \in 1 .. joins - 1 : h \in 1 .. joins
      BY <1>0
    <3>2. step' = "next" => ~ Empty(joins)
      BY <1>1
    <3> QED BY <1>2, <3>1, <3>2 DEF Met
  <2>3. (Met(joins - 1)' <=> Met(joins - 1)) /\ (Empty(joins)' <=> Empty(joins))
        /\ (InView(pos)' <=> InView(pos))
    BY <1>1 DEF Met, Empty, Takes, InView
  <2>4. step' \in {"row", "next"} /\ level' = joins
    BY <1>0, <1>1
  <2> QED BY <1>0, <1>1, <2>1, <2>2, <2>3, <2>4 DEF Filtered
<1>7. Gathered'
  <2>1. ASSUME NEW t \in Positions, InView(t) PROVE Past(t)' <=> Past(t)
    <3>1. CASE step' = "row"
      BY <1>0, <1>1, <1>3, <3>1 DEF Past
    <3>2. CASE step' = "next"
      <4>1. Past(t)' <=> ~ Before(pos, t, joins)
        BY <1>0, <1>1, <3>2 DEF Past
      <4>2. t # pos
        BY <1>1, <2>1, <3>2 DEF InView
      <4>3. ~ \A i \in 0 .. joins : t[i] = pos[i]
        <5>1. t \in Places
          BY <1>0, PositionsAre
        <5> QED BY <1>0, <4>2, <5>1 DEF Places
      <4>4. Before(t, pos, joins) <=> ~ Before(pos, t, joins)
        <5>1. joins \in 0 .. joins
          BY <1>0
        <5> QED BY <1>0, <4>3, <5>1, NotHere
      <4> QED BY <1>3, <4>1, <4>4
    <3> QED BY <1>1, <3>1, <3>2
  <2> QED BY <1>0, <1>1, <2>1, GatheredStays DEF WalkInv
<1> QED BY <1>4, <1>5, <1>6, <1>7 DEF WalkInv

LEMMA FoundInv == WalkInv /\ Found => WalkInv'
<1> SUFFICES ASSUME WalkInv, Found PROVE WalkInv'
  OBVIOUS
<1>0. /\ joins \in Nat /\ size \in [0 .. joins -> Nat] /\ pos \in Places
      /\ top = joins /\ level = joins /\ got \in Seq(Places)
      /\ step = "row" /\ WalkTypes /\ ~ Empty(joins)
  BY DEF Found, WalkInv, WalkTypes
<1>1. /\ top' = top /\ level' = level /\ pos' = pos /\ joins' = joins /\ step' = "next"
      /\ size' = size /\ passes' = passes /\ Places' = Places
      /\ got' = Append(got, pos) /\ Positions' = Positions
  BY DEF Found, asked, Places, Positions
<1>2. InView(pos) /\ pos \in Positions
  <2>1. InView(pos)
    BY <1>0 DEF WalkInv, Filtered
  <2>2. \A k \in 0 .. joins : pos[k] <= size[k]
    <3>1. \A k \in 0 .. joins : ~ (pos[k] > size[k])
      BY <1>0 DEF Empty
    <3>2. \A k \in 0 .. joins : pos[k] \in Nat /\ size[k] \in Nat
      BY <1>0 DEF Places
    <3> QED BY <3>1, <3>2
  <2> QED BY <1>0, <2>1, <2>2, PositionsAre
<1>3. WalkTypes'
  <2>1. got' \in Seq(Places)
    BY <1>0, <1>1
  <2> QED BY <1>0, <1>1, <2>1 DEF WalkTypes, Steps
<1>4. Restarted'
  BY <1>0, <1>1 DEF Restarted, Empty
<1>5. Filtered'
  <2>1. \A h \in 1 .. joins - 1 : Takes(h)
    <3>1. \A h \in 1 .. joins - 1 : h \in 1 .. joins
      BY <1>0
    <3> QED BY <1>2, <3>1 DEF InView, Takes
  <2> QED BY <1>0, <1>1, <2>1 DEF Filtered, Met, Takes
<1>6. Gathered'
  <2>1. /\ \A i \in DOMAIN got : got[i] \in Positions /\ InView(got[i]) /\ Past(got[i])
        /\ \A i, j \in DOMAIN got : i < j => Before(got[i], got[j], joins)
        /\ \A t \in Positions : InView(t) /\ Past(t) => \E i \in DOMAIN got : got[i] = t
    BY <1>0 DEF WalkInv, Gathered
  <2>2. \A t : InView(t)' <=> InView(t)
    BY <1>1 DEF InView
  <2>3. ASSUME NEW t \in Positions
        PROVE  /\ Past(t) <=> Before(t, pos, joins)
               /\ Past(t)' <=> ~ Before(pos, t, joins)
    BY <1>0, <1>1 DEF Past
  <2>4. ASSUME NEW t \in Positions
        PROVE  (~ Before(pos, t, joins)) <=> Before(t, pos, joins) \/ t = pos
    <3>1. t \in Places
      BY <1>0, PositionsAre
    <3>2. (\A i \in 0 .. joins : t[i] = pos[i]) <=> t = pos
      BY <1>0, <3>1 DEF Places
    <3>3. /\ Before(t, pos, joins) \/ Before(pos, t, joins) \/ t = pos
          /\ ~ (Before(t, pos, joins) /\ Before(pos, t, joins))
          /\ t = pos => ~ Before(t, pos, joins) /\ ~ Before(pos, t, joins)
      <4>1. \A i \in 0 .. joins : t[i] \in Nat /\ pos[i] \in Nat
        BY <1>0, <3>1 DEF Places
      <4>2. /\ Before(t, pos, joins) \/ Before(pos, t, joins) \/ \A i \in 0 .. joins : t[i] = pos[i]
            /\ ~ (Before(t, pos, joins) /\ Before(pos, t, joins))
            /\ (\A i \in 0 .. joins : t[i] = pos[i]) =>
                  ~ Before(t, pos, joins) /\ ~ Before(pos, t, joins)
        BY <1>0, <4>1, BeforeLinear
      <4> QED BY <3>2, <4>2
    <3> QED BY <3>3
  <2>5. /\ DOMAIN got' = 1 .. Len(got) + 1 /\ DOMAIN got = 1 .. Len(got) /\ Len(got) \in Nat
        /\ got'[Len(got) + 1] = pos /\ \A i \in DOMAIN got : got'[i] = got[i]
    BY <1>0, <1>1
  <2>6. \A i \in DOMAIN got' : i \in DOMAIN got \/ i = Len(got) + 1
    BY <2>5
  <2>7. \A i \in DOMAIN got' : got'[i] \in Positions
    BY <1>2, <2>1, <2>5, <2>6
  <2>8. \A i \in DOMAIN got' : InView(got'[i])
    BY <1>2, <2>1, <2>5, <2>6
  <2>9. \A i \in DOMAIN got : Before(got[i], pos, joins)
    BY <2>1, <2>3
  <2>10. ASSUME NEW i \in DOMAIN got' PROVE ~ Before(pos, got'[i], joins)
    <3>1. Before(got'[i], pos, joins) \/ got'[i] = pos
      BY <2>5, <2>6, <2>9
    <3> QED BY <2>4, <2>7, <3>1
  <2>11. ASSUME NEW i \in DOMAIN got', NEW j \in DOMAIN got', i < j
         PROVE  Before(got'[i], got'[j], joins)
    <3>1. i \in DOMAIN got
      BY <2>5, <2>11
    <3>2. CASE j \in DOMAIN got
      BY <2>1, <2>5, <2>11, <3>1, <3>2
    <3>3. CASE j = Len(got) + 1
      BY <2>5, <2>9, <3>1, <3>3
    <3> QED BY <2>6, <3>2, <3>3
  <2>12. ASSUME NEW t \in Positions, InView(t), ~ Before(pos, t, joins)
         PROVE  \E i \in DOMAIN got' : got'[i] = t
    <3>1. CASE t = pos
      <4>1. Len(got) + 1 \in DOMAIN got'
        BY <2>5
      <4> QED BY <2>5, <3>1, <4>1
    <3>2. CASE Before(t, pos, joins)
      <4>1. PICK i \in DOMAIN got : got[i] = t
        BY <2>1, <2>3, <2>12, <3>2
      <4>2. i \in DOMAIN got'
        BY <2>5
      <4> QED BY <2>5, <4>1, <4>2
    <3> QED BY <2>4, <2>12, <3>1, <3>2
  <2>13. \A t : Past(t)' <=> ~ Before(pos, t, joins)
    BY <1>0, <1>1 DEF Past
  <2> QED BY <1>1, <2>2, <2>7, <2>8, <2>10, <2>11, <2>12, <2>13 DEF Gathered
<1> QED BY <1>3, <1>4, <1>5, <1>6 DEF WalkInv

LEMMA LastRowInv == WalkInv /\ LastRow => WalkInv'
<1> SUFFICES ASSUME WalkInv, LastRow PROVE WalkInv'
  OBVIOUS
<1>0. /\ joins \in Nat /\ size \in [0 .. joins -> Nat] /\ pos \in Places
      /\ top = joins /\ level = joins /\ step = "row" /\ WalkTypes /\ Empty(joins)
  BY DEF LastRow, WalkInv, WalkTypes
<1>1. /\ top' = top /\ level' = level /\ pos' = pos /\ got' = got /\ joins' = joins
      /\ size' = size /\ passes' = passes /\ Places' = Places /\ step' = "done"
      /\ Positions' = Positions
  BY DEF LastRow, asked, Places, Positions
<1>2. ASSUME NEW t \in Positions PROVE Before(t, pos, joins)
  <2>1. t \in Places /\ \A k \in 0 .. joins : t[k] <= size[k]
    BY <1>0, PositionsAre
  <2>2. PICK k \in 0 .. joins : pos[k] > size[k]
    BY <1>0 DEF Empty
  <2>3. t[k] \in Nat \ {0} /\ pos[k] \in Nat /\ size[k] \in Nat /\ t[k] <= size[k]
    BY <1>0, <2>1 DEF Places
  <2>4. k = 0
    <3>1. k # 0 => pos[k] <= size[k] \/ size[k] = 0
      BY <1>0 DEF WalkInv, Restarted
    <3> QED BY <2>2, <2>3, <3>1
  <2>5. t[0] < pos[0] /\ 0 \in 0 .. joins /\ \A h \in 0 .. 0 - 1 : t[h] = pos[h]
    BY <1>0, <2>2, <2>3, <2>4
  <2> QED BY <2>5 DEF Before
<1>3. WalkTypes'
  BY <1>0, <1>1 DEF WalkTypes, Steps
<1>4. Restarted'
  BY <1>0, <1>1 DEF WalkInv, Restarted
<1>5. Filtered'
  BY <1>1 DEF Filtered
<1>6. Gathered'
  <2>1. /\ \A i \in DOMAIN got : got[i] \in Positions /\ InView(got[i])
        /\ \A i, j \in DOMAIN got : i < j => Before(got[i], got[j], joins)
        /\ \A t \in Positions : InView(t) /\ Past(t) => \E i \in DOMAIN got : got[i] = t
    BY <1>0 DEF WalkInv, Gathered
  <2>2. \A t : InView(t)' <=> InView(t)
    BY <1>1 DEF InView
  <2>3. \A t \in Positions : Past(t) /\ Past(t)'
    BY <1>0, <1>1, <1>2 DEF Past
  <2> QED BY <1>1, <2>1, <2>2, <2>3 DEF Gathered
<1> QED BY <1>3, <1>4, <1>5, <1>6 DEF WalkInv

LEMMA StopInv == WalkInv /\ Stop => WalkInv'
<1> SUFFICES ASSUME WalkInv, Stop PROVE WalkInv'
  OBVIOUS
<1>1. /\ pos' = pos /\ got' = got /\ joins' = joins /\ size' = size /\ passes' = passes
      /\ Places' = Places /\ step' = "stopped" /\ Positions' = Positions
      /\ \/ top' = top /\ level' = level
         \/ top < joins /\ top' = top + 1 /\ level' = top + 1
  BY DEF Stop, asked, Places, Positions
<1>2. WalkTypes'
  <2>1. top' \in 0 .. joins /\ level' \in 0 .. top'
    BY <1>1 DEF WalkInv, WalkTypes
  <2> QED BY <1>1, <2>1 DEF WalkInv, WalkTypes, Steps
<1>3. Restarted'
  <2>1. \A k \in top' + 1 .. joins : k \in top + 1 .. joins
    BY <1>1 DEF WalkInv, WalkTypes
  <2> QED BY <1>1, <2>1 DEF WalkInv, Restarted
<1>4. Filtered'
  BY <1>1 DEF Filtered
<1>5. Gathered'
  <2>1. /\ \A i \in DOMAIN got : got[i] \in Positions /\ InView(got[i])
        /\ \A i, j \in DOMAIN got : i < j => Before(got[i], got[j], joins)
    BY DEF WalkInv, Gathered
  <2>2. \A t : (InView(t)' <=> InView(t)) /\ Past(t)'
    BY <1>1 DEF InView, Past
  <2> QED BY <1>1, <2>1, <2>2 DEF Gathered
<1> QED BY <1>2, <1>3, <1>4, <1>5 DEF WalkInv

\* The nested loops of FROM, JOIN and WHERE give exactly the rows that all the
\* conditions take, each once and in the order of the loops, for any number of JOINs,
\* tables of any sizes, empty ones among them, and any conditions; whatever fails in
\* between, no row comes out that should not.
THEOREM WalkIsExact == Walk => []WalkExact
<1>1. Start => WalkInv
  BY StartInv
<1>2. WalkInv /\ [Turn]_walk => WalkInv'
  <2>1. ASSUME WalkInv, UNCHANGED walk PROVE WalkInv'
    <3>1. /\ top' = top /\ level' = level /\ pos' = pos /\ got' = got /\ joins' = joins
          /\ size' = size /\ passes' = passes /\ step' = step
      BY <2>1 DEF walk
    <3>2. WalkTypes'
      BY <2>1, <3>1 DEF WalkInv, WalkTypes, Places
    <3>3. Restarted'
      BY <2>1, <3>1 DEF WalkInv, Restarted, Empty
    <3>4. Filtered'
      BY <2>1, <3>1 DEF WalkInv, Filtered, Met, Takes, Empty, InView
    <3>5. Positions' = Positions /\ \A t : (InView(t)' <=> InView(t)) /\ (Past(t)' <=> Past(t))
      BY <3>1 DEF Positions, InView, Past
    <3>6. Gathered'
      BY <2>1, <3>1, <3>5 DEF WalkInv, Gathered
    <3> QED BY <3>2, <3>3, <3>4, <3>6 DEF WalkInv
  <2> QED BY <2>1, BuildJoinInv, NextRowInv, TestInv, WhereInv, FoundInv, LastRowInv,
             StopInv DEF Turn
<1>3. WalkInv => WalkExact
  <2>1. WalkInv /\ step \in {"row", "done"} =>
           \A t \in Positions :
              InView(t) /\ (step = "row" => Before(t, pos, joins)) =>
                 \E i \in DOMAIN got : got[i] = t
    BY DEF WalkInv, WalkTypes, Gathered, Past
  <2> QED BY <2>1 DEF WalkInv, Gathered, WalkExact
<1> QED BY <1>1, <1>2, <1>3, PTL DEF Walk
=============================================================================
