------------------------------ MODULE HeapProofs ------------------------------
(***************************************************************************)
(* Theorems about Heap: that heap_reserve makes the room heap_write needs, *)
(* that a failure loses one committed record at most and nothing else      *)
(* does, that a scan gets every record once, and that a heap is a          *)
(* RecordStore; for any set of records and any number of failures.         *)
(*                                                                         *)
(* They are about a heap as long as it has too few records for one of them *)
(* to end at the end of a page (Straddling).  Of other heaps they are      *)
(* false: flush compares the two offsets of one place and loses records,   *)
(* as the run heap_aligned shows.  A heap of the pool is what they are     *)
(* about while it has fewer than 240 records, or 816, or 4080 (ShortHeap). *)
(***************************************************************************)
EXTENDS Heap, FiniteSetTheorems, TLAPS

\* As many records as the heap may have end inside of its pages.
Straddling == \A j \in 1 .. MaxSlots : (j * RecordBytes) % PageBytes # 0

(***************************************************************************)
(* The inductive invariant                                                 *)
(***************************************************************************)
Appending == {"reserve", "extend", "write", "begin", "end"}
Deleting == {"deleted", "fill", "copy", "shrink", "pages"}

\* The bytes up to a record, and of a number of pages.
Bytes(j) == j * RecordBytes
Capacity(p) == p * PageBytes

\* end and append_begin are in the pages of the list.
Placed ==
    /\ n = 0 => end = None
    /\ end # None => Bytes(Slot(end)) < Capacity(n)
    /\ append_begin # None => end # None /\ Slot(append_begin) <= Slot(end)

\* An append, from the choice of the record on.
AppendInv ==
    /\ pc \in Appending =>
          /\ last.id \in Records /\ last.add /\ ~ last.del
          /\ Holding(last.id) = {}
          /\ Slot(end) < MaxSlots
    /\ pc = "extend" =>
          /\ cur = First => end = None /\ scan = NoScan
          /\ cur # First => n > 0
          /\ \/ (cur = First \/ end # None) /\ Bytes(Slot(end) + 1) <= Capacity(n + todo)
             \/ cuts > 0 /\ cur # First /\ (end = None \/ RecordBytes > PageBytes)
    /\ pc = "write" =>
          \/ end # None /\ Bytes(Slot(end) + 1) <= Capacity(n)
          \/ cuts > 0 /\ (end = None \/ RecordBytes > PageBytes)
    /\ pc \in {"begin", "end"} =>
          /\ end # None /\ Bytes(Slot(end) + 1) <= Capacity(n)
          /\ mem[Slot(end)] = last
    /\ pc = "end" => append_begin # None

\* A flush.
Gone(j) == mem[j].id = "junk" \/ mem[j].del
FlushInv ==
    /\ pc \in {"check"} \cup Deleting => append_begin = None
    /\ pc = "added" => /\ append_begin # None /\ cur # None
                       /\ Slot(append_begin) <= Slot(cur) /\ Slot(cur) <= Slot(end)
    /\ pc \in {"deleted", "fill", "copy"} =>
          cur # None /\ (end # None => Slot(cur) <= Slot(end))
    /\ pc \in {"fill", "copy"} =>
          /\ end # None => Slot(cur) < Slot(end)
          /\ Slot(cur) < MaxSlots /\ Gone(Slot(cur))
    /\ pc = "copy" =>
          /\ end # None /\ ~ last.add /\ ~ last.del
          /\ last.id \in Records => Holding(last.id) = {}
    /\ pc = "pages" => end # First

\* A scan is in the pages, and in the heap when that has an end.
ScanInv ==
    /\ scan # NoScan => pc \in {"idle", "mark"} \cup Appending /\ n > 0
    /\ scan.pos # None => /\ Slot(scan.pos) < MaxSlots
                          /\ end # None => Slot(scan.pos) <= Slot(end)
    /\ pc = "mark" => /\ scan.pos # None /\ ~ scan.add
                      /\ end # None => Slot(scan.pos) < Slot(end)

\* The records in the heap: what is marked deleted is owed to nobody, and
\* nothing is there twice.
Marks ==
    /\ \A j \in Slots : mem[j].id = "junk" => mem[j] = Junk
    /\ \A j \in Slots : mem[j].add => ~ mem[j].del
    /\ \A j \in Live : mem[j].del => mem[j].id \notin owed
    /\ \A i, j \in Live : mem[i].id = mem[j].id => i = j \/ mem[i].id = "junk"

\* As long as nothing failed: the heap ends in the last page, it has no junk,
\* and the uncommitted records are those from append_begin on.
Ending ==
    /\ n > 0 /\ end # None /\ end # First
    /\ Capacity(n - 1) <= Bytes(Slot(end))
InTail ==
    /\ pc \notin {"extend", "write", "begin", "end"} \cup Deleting => n = 0 \/ Ending
    /\ pc = "extend" => /\ cur = First \/ end # None
                        /\ Capacity(n + todo - 1) < Bytes(Slot(end) + 1)
    /\ pc \in {"write", "begin", "end"} => end # None /\ Capacity(n - 1) < Bytes(Slot(end) + 1)
    /\ pc = "deleted" => n = 0 \/ end # None
    /\ pc \in {"fill", "copy"} => end # None
Committed(j) ==
    append_begin = None \/ j < (IF pc = "added" THEN Slot(cur) ELSE Slot(append_begin))
Clean ==
    /\ \A j \in Live : mem[j].id # "junk"
    /\ \A j \in Live : mem[j].add <=> ~ Committed(j)
    /\ pc = "copy" => last.id # "junk"

\* ... and a scan has got the records before it, all of them committed.
Got ==
    /\ Len(seen) <= Slot(end)
    /\ \A i \in 1 .. Len(seen) : seen[i] = mem[i - 1].id /\ ~ mem[i - 1].add
    /\ due = {mem[j].id : j \in {j \in Live : ~ mem[j].add}}
    /\ scan.pos = None \/ scan.add => \A j \in Live : j >= Len(seen) => mem[j].add
    /\ scan.pos # None =>
          /\ Slot(scan.pos) < Slot(end)
          /\ Len(seen) = (IF scan.add THEN Slot(scan.pos) ELSE Slot(scan.pos) + 1)
          /\ mem[Slot(scan.pos)].add = scan.add

Sound == cuts = 0 => InTail /\ Clean /\ (scan # NoScan => Got)

Types == TypeOK /\ seen \in Seq(Records \cup {"junk"})

\* Marks of deletion are where has_deleted says there are some, and behind the
\* iterator of a flush there are none.
Dels ==
    /\ ~ has_deleted => \A j \in Live : ~ mem[j].del
    /\ pc = "mark" => has_deleted
    /\ pc \in {"deleted", "fill", "copy"} =>
          has_deleted /\ \A j \in Live : j < Slot(cur) => ~ mem[j].del
    /\ pc \in {"shrink", "pages"} => ~ has_deleted

FewLost == IsFiniteSet(Lost) /\ Cardinality(Lost) <= cuts

IInv ==
    /\ Types /\ Placed /\ AppendInv /\ FlushInv /\ ScanInv /\ Marks /\ Sound
    /\ FewLost

-----------------------------------------------------------------------------
(***************************************************************************)
(* Arithmetic of pages and positions                                       *)
(***************************************************************************)
LEMMA Division ==
    ASSUME NEW a \in Nat, NEW b \in Nat \ {0}
    PROVE  /\ a \div b \in Nat
           /\ (a \div b) * b <= a
           /\ a < (a \div b) * b + b
           /\ a % b = a - (a \div b) * b
<1>1. a \div b \in Nat
  OBVIOUS
<1>2. QED
  BY <1>1

LEMMA Products ==
    ASSUME NEW a \in Int, NEW b \in Int, NEW c \in Nat \ {0}
    PROVE  /\ (a + b) * c = a * c + b * c
           /\ a * c \in Int
           /\ a <= b => a * c <= b * c
           /\ a < b => a * c < b * c /\ a * c + c <= b * c
<1>1. (a + b) * c = a * c + b * c /\ a * c \in Int
  OBVIOUS
<1>2. a <= b => a * c <= b * c
  OBVIOUS
<1>3. a < b => a * c + c <= b * c
  <2>1. a < b => (a + 1) * c <= b * c
    OBVIOUS
  <2>2. (a + 1) * c = a * c + c
    OBVIOUS
  <2>3. QED
    BY <2>1, <2>2
<1>4. QED
  BY <1>1, <1>2, <1>3

\* A number of bytes ends in page k - 1, counted from 0, when k pages hold it
\* and k - 1 do not.
LEMMA Quotient ==
    ASSUME NEW a \in Nat, NEW b \in Nat \ {0}, NEW m \in Int
    PROVE  /\ a \div b < m <=> a < m * b
           /\ m <= a \div b <=> m * b <= a
<1> DEFINE q == a \div b
<1>1. q \in Nat /\ q * b <= a /\ a < q * b + b
  BY Division
<1> HIDE DEF q
<1>2. (q < m => q * b + b <= m * b) /\ (m <= q => m * b <= q * b)
  BY <1>1, Products
<1>3. m * b \in Int /\ q * b \in Int
  BY <1>1, Products
<1>4. QED
  BY <1>1, <1>2, <1>3 DEF q

\* Bytes and Capacity are linear and increasing.
LEMMA Sizes ==
    ASSUME NEW j \in Int
    PROVE  /\ Bytes(j) \in Int /\ Bytes(j + 1) = Bytes(j) + RecordBytes
           /\ Capacity(j) \in Int /\ Capacity(j + 1) = Capacity(j) + PageBytes
           /\ Capacity(j - 1) = Capacity(j) - PageBytes
           /\ Bytes(0) = 0 /\ Capacity(0) = 0
           /\ RecordBytes \in Nat \ {0} /\ PageBytes \in Nat \ {0}
BY GeometryAssumption DEF Bytes, Capacity

LEMMA Increasing ==
    ASSUME NEW i \in Int, NEW j \in Int
    PROVE  /\ i <= j => Bytes(i) <= Bytes(j) /\ Capacity(i) <= Capacity(j)
           /\ Bytes(i) < Bytes(j) => i < j
           /\ Capacity(i) < Capacity(j) => i < j
           /\ Capacity(i + j) = Capacity(i) + Capacity(j)
<1>1. RecordBytes \in Nat \ {0} /\ PageBytes \in Nat \ {0}
  BY GeometryAssumption
<1>2. i <= j => Bytes(i) <= Bytes(j) /\ Capacity(i) <= Capacity(j)
  BY <1>1, Products DEF Bytes, Capacity
<1>3. j <= i => Bytes(j) <= Bytes(i) /\ Capacity(j) <= Capacity(i)
  BY <1>1, Products DEF Bytes, Capacity
<1>4. Capacity(i + j) = Capacity(i) + Capacity(j)
  BY <1>1, Products DEF Capacity
<1>5. /\ Bytes(i) \in Int /\ Bytes(j) \in Int /\ Capacity(i) \in Int /\ Capacity(j) \in Int
  BY Sizes
<1>6. QED
  BY <1>2, <1>3, <1>4, <1>5

\* Rounded up to pages.
LEMMA Needed ==
    ASSUME NEW b \in Nat \ {0}
    PROVE  /\ PagesFor(b) \in Nat \ {0}
           /\ Capacity(PagesFor(b) - 1) < b
           /\ b <= Capacity(PagesFor(b))
<1> DEFINE a == b + PageBytes - 1
           k == a \div PageBytes
<1>1. PageBytes \in Nat \ {0}
  BY GeometryAssumption
<1>2. a \in Nat /\ k \in Nat
  BY <1>1
<1>3. k * PageBytes <= a /\ a < k * PageBytes + PageBytes
  BY <1>1, <1>2, Division
<1>4. k * PageBytes \in Int
  BY <1>1, <1>2
<1>5. PagesFor(b) = k /\ Capacity(k) = k * PageBytes
  BY DEF PagesFor, Capacity
<1>6. Capacity(k - 1) = Capacity(k) - PageBytes /\ Capacity(0) = 0
  BY <1>2, Sizes
<1> HIDE DEF k
<1>7. b <= Capacity(k) /\ Capacity(k - 1) < b
  BY <1>1, <1>3, <1>4, <1>5, <1>6
<1>8. k # 0
  BY <1>6, <1>7
<1>9. QED
  BY <1>2, <1>5, <1>7, <1>8

\* No record ends at the end of a page.
LEMMA Straddles ==
    ASSUME Straddling, NEW j \in 1 .. MaxSlots, NEW m \in Int
    PROVE  Bytes(j) # Capacity(m)
<1> SUFFICES ASSUME Bytes(j) = Capacity(m)
             PROVE  FALSE
  OBVIOUS
<1>1. PageBytes \in Nat \ {0} /\ RecordBytes \in Nat \ {0} /\ MaxSlots \in Nat
  BY GeometryAssumption, BoundsAssumption
<1>2. j \in Int /\ 0 <= j
  BY <1>1
<1>3. Bytes(j) \in Nat
  BY <1>2, Sizes, Increasing
<1> DEFINE q == Bytes(j) \div PageBytes
<1>4. Bytes(j) % PageBytes = Bytes(j) - q * PageBytes /\ q \in Nat
  BY <1>1, <1>3, Division
<1>5. m <= q /\ q < m + 1
  <2>1. Capacity(m) \in Int /\ Capacity(m) < Capacity(m + 1) /\ m + 1 \in Int
    BY Sizes
  <2>2. m * PageBytes = Capacity(m) /\ (m + 1) * PageBytes = Capacity(m + 1)
    BY DEF Capacity
  <2>3. QED
    BY <1>1, <1>3, <2>1, <2>2, Quotient
<1>6. q = m
  BY <1>4, <1>5
<1>7. Bytes(j) % PageBytes = 0
  BY <1>3, <1>4, <1>6 DEF Capacity
<1>8. QED
  BY <1>7 DEF Straddling, Bytes

\* A position is a number, and its page is told by the bytes before it.
LEMMA Forms ==
    ASSUME Straddling
    PROVE  /\ \A j \in 0 .. MaxSlots, form \in {"end", "start"} : At(j, form) = <<j, "in">>
           /\ First = <<0, "in">> /\ First \in Positions
           /\ None \notin Positions /\ Slot(None) = 0
           /\ \A p \in Positions : p = <<Slot(p), "in">> /\ Slot(p) \in 0 .. MaxSlots
           /\ \A p \in Positions : p[2] # "end" /\ p[2] # "start"
<1>1. MaxSlots \in Nat
  BY BoundsAssumption
<1>2. ASSUME NEW j \in 0 .. MaxSlots, NEW form \in {"end", "start"}
      PROVE  At(j, form) = <<j, "in">>
  BY <1>1, <1>2 DEF At, Aliased, Straddling
<1>3. \A p \in Positions : \E j \in 0 .. MaxSlots : p = <<j, "in">>
  BY <1>2 DEF Positions
<1>4. First = <<0, "in">> /\ First \in Positions
  BY <1>1, <1>2 DEF First, Positions
<1>5. QED
  BY <1>2, <1>3, <1>4 DEF None, Slot

LEMMA Moves ==
    ASSUME Straddling, NEW p \in Positions
    PROVE  /\ Slot(p) < MaxSlots => /\ Following(p) \in Positions
                                    /\ Slot(Following(p)) = Slot(p) + 1
           /\ Slot(p) > 0 => /\ Preceding(p) \in Positions
                             /\ Slot(Preceding(p)) = Slot(p) - 1
           /\ \A q \in Positions : Slot(q) = Slot(p) <=> q = p
<1>1. MaxSlots \in Nat /\ Slot(p) \in 0 .. MaxSlots
  BY BoundsAssumption, Forms
<1>2. \A j \in 0 .. MaxSlots : At(j, "end") = <<j, "in">> /\ At(j, "start") = <<j, "in">>
  BY Forms
<1>3. \A j \in 0 .. MaxSlots : /\ At(j, "end") \in Positions /\ At(j, "start") \in Positions
                               /\ Slot(At(j, "end")) = j /\ Slot(At(j, "start")) = j
  BY <1>2 DEF Positions, Slot
<1>4. \A q \in Positions : Slot(q) = Slot(p) <=> q = p
  BY Forms
<1>5. QED
  BY <1>1, <1>3, <1>4 DEF Following, Preceding

LEMMA PageBytesOf ==
    ASSUME Straddling, NEW p \in Positions, NEW m \in Int
    PROVE  /\ PageOf(p) \in Int
           /\ PageOf(p) < m <=> Bytes(Slot(p)) < Capacity(m)
           /\ m <= PageOf(p) <=> Capacity(m) <= Bytes(Slot(p))
<1>1. PageBytes \in Nat \ {0} /\ MaxSlots \in Nat
  BY GeometryAssumption, BoundsAssumption
<1>2. Slot(p) \in Int /\ 0 <= Slot(p) /\ p[2] # "end"
  BY <1>1, Forms
<1>3. Bytes(Slot(p)) \in Nat
  BY <1>2, Sizes, Increasing
<1>4. PageOf(p) = Bytes(Slot(p)) \div PageBytes
  BY <1>2 DEF PageOf, Bytes
<1>5. QED
  BY <1>1, <1>3, <1>4, Quotient DEF Capacity

LEMMA PageBound ==
    /\ MaxPages \in Nat
    /\ MaxSlots * RecordBytes <= Capacity(PagesFor(MaxSlots * RecordBytes))
    /\ PagesFor(MaxSlots * RecordBytes) <= MaxPages
<1>1. /\ PageBytes \in Nat \ {0} /\ RecordBytes \in Nat \ {0}
      /\ MaxSlots \in Nat /\ MaxCuts \in Nat
  BY GeometryAssumption, BoundsAssumption
<1>2. MaxSlots * RecordBytes \in Nat
  BY <1>1
<1>3. PagesFor(RecordBytes) \in Nat
  BY <1>1, Needed
<1>4. PagesFor(MaxSlots * RecordBytes) \in Nat
  BY <1>1, <1>2, Division DEF PagesFor
<1>5. MaxCuts * PagesFor(RecordBytes) \in Nat
  BY <1>1, <1>3
<1>6. MaxSlots * RecordBytes <= Capacity(PagesFor(MaxSlots * RecordBytes))
  <2>1. CASE MaxSlots * RecordBytes = 0
    <3>1. Capacity(0) <= Capacity(PagesFor(MaxSlots * RecordBytes)) /\ Capacity(0) = 0
      BY <1>4, Increasing, Sizes
    <3>2. QED
      BY <2>1, <3>1
  <2>2. CASE MaxSlots * RecordBytes # 0
    BY <1>2, <2>2, Needed
  <2>3. QED
    BY <2>1, <2>2
<1>7. QED
  BY <1>4, <1>5, <1>6 DEF MaxPages

LEMMA InPagesMeans ==
    ASSUME Straddling, n \in Nat, NEW p \in Positions \cup {None}
    PROVE  InPages(p) <=> /\ p \in Positions /\ Slot(p) < MaxSlots
                          /\ Bytes(Slot(p) + 1) <= Capacity(n)
<1>1. CASE p = None
  BY <1>1, Forms DEF InPages
<1>2. CASE p \in Positions
  <2>1. Slot(p) \in Int /\ p # None
    BY <1>2, BoundsAssumption, Forms
  <2>2. /\ Bytes(Slot(p)) \in Int /\ Bytes(Slot(p) + 1) = Bytes(Slot(p)) + RecordBytes
        /\ RecordBytes \in Nat \ {0} /\ Capacity(n) \in Int
    <3>1. n \in Int
      OBVIOUS
    <3>2. QED
      BY <2>1, <3>1, Sizes
  <2>3. PageOf(p) < n <=> Bytes(Slot(p)) < Capacity(n)
    BY <1>2, PageBytesOf
  <2>4. QED
    BY <1>2, <2>1, <2>2, <2>3 DEF InPages, Bytes, Capacity
<1>3. QED
  BY <1>1, <1>2

LEMMA Reads ==
    ASSUME TypeOK, NEW j \in Slots, NEW b \in Read(j)
    PROVE  /\ b \in Record
           /\ mem[j].id = "junk" => b.id = "junk"
           /\ mem[j].id # "junk" => b = mem[j]
<1>1. mem[j] \in Record
  BY DEF TypeOK
<1>2. QED
  BY <1>1 DEF Read, Record

(***************************************************************************)
(* Each part of the invariant is kept by every step: first the types       *)
(***************************************************************************)
LEMMA TypesInit == Init => Types
<1>1. 0 \in 0 .. MaxPages /\ 0 \in 0 .. MaxCuts
  BY PageBound, BoundsAssumption
<1>2. <<>> \in Seq(Records \cup {"junk"})
  OBVIOUS
<1>3. /\ Junk \in Record
      /\ NoScan \in [pos : Positions \cup {None}, id : Records \cup {"junk", "none"},
                    add : BOOLEAN]
  BY DEF Junk, Record, NoScan
<1> SUFFICES ASSUME Init PROVE TypeOK /\ seen \in Seq(Records \cup {"junk"})
  BY DEF Types
<1>5. TypeOK
  BY <1>1, <1>3 DEF Init, TypeOK
<1>6. seen \in Seq(Records \cup {"junk"})
  BY <1>2 DEF Init
<1>7. QED
  BY <1>5, <1>6

\* What the types say of the positions.
LEMMA Kinds ==
    ASSUME Types
    PROVE  /\ n \in Nat /\ todo \in Nat /\ cuts \in Nat /\ MaxSlots \in Nat
           /\ end \in Positions \cup {None} /\ append_begin \in Positions \cup {None}
           /\ cur \in Positions \cup {None} /\ scan.pos \in Positions \cup {None}
           /\ mem \in [Slots -> Record] /\ last \in Record
           /\ Slots = 0 .. MaxSlots - 1
BY PageBound, BoundsAssumption DEF Types, TypeOK, Slots

\* The iterator that has come to the end of the heap.
LEMMA ScannedAll ==
    [NoScan EXCEPT !.id = "junk"] = [pos |-> None, id |-> "junk", add |-> FALSE]
<1> DEFINE S == [pos : {None}, id : {"junk"}, add : {FALSE}]
<1>1. [NoScan EXCEPT !.id = "junk"] \in S
  BY DEF NoScan
<1>2. ASSUME NEW e \in S
      PROVE  e = [pos |-> None, id |-> "junk", add |-> FALSE]
  BY <1>2
<1>3. QED
  BY <1>1, <1>2

LEMMA TypesStep ==
    ASSUME Straddling, IInv, [Next]_vars
    PROVE  Types'
<1> USE DEF IInv, Types, disk, work, user, Return, Goto, Error
<1>1. /\ n \in Nat /\ MaxSlots \in Nat /\ Slots = 0 .. MaxSlots - 1 /\ MaxPages \in Nat
      /\ RecordBytes \in Nat \ {0} /\ MaxCuts \in Nat
  BY Kinds, PageBound, GeometryAssumption, BoundsAssumption
<1>2. /\ None \in Positions \cup {None} /\ First \in Positions
      /\ Slot(None) = 0 /\ \A p \in Positions : Slot(p) \in 0 .. MaxSlots
  BY Forms
<1>3. \A p \in Positions : /\ Slot(p) < MaxSlots => Following(p) \in Positions
                           /\ Slot(p) > 0 => Preceding(p) \in Positions
  BY Moves
<1>4. /\ Junk \in Record
      /\ NoScan \in [pos : Positions \cup {None}, id : Records \cup {"junk", "none"},
                    add : BOOLEAN]
      /\ [NoScan EXCEPT !.id = "junk"] \in
            [pos : Positions \cup {None}, id : Records \cup {"junk", "none"}, add : BOOLEAN]
      /\ <<>> \in Seq(Records \cup {"junk"})
  <2>1. [NoScan EXCEPT !.id = "junk"] = [pos |-> None, id |-> "junk", add |-> FALSE]
    BY ScannedAll
  <2>2. <<>> \in Seq(Records \cup {"junk"})
    OBVIOUS
  <2>3. QED
    BY <2>1, <2>2 DEF Junk, Record, NoScan
<1>5. ASSUME NEW p \in Positions \cup {None}, InPages(p)
      PROVE  p \in Positions /\ Slot(p) \in Slots /\ Following(p) \in Positions
  BY <1>1, <1>2, <1>3, <1>5, InPagesMeans
<1>6. CASE \E r \in Records : HeapAppend(r)
  BY <1>6 DEF HeapAppend, TypeOK, Record
<1>7. CASE Reserve
  <2>1. /\ todo' \in Nat /\ cur' \in {First, None}
    <3>1. PagesFor(RecordBytes) \in Nat
      BY <1>1, Needed
    <3>2. ASSUME NEW f \in Int, ~ f >= RecordBytes
          PROVE  PagesFor(RecordBytes - f) \in Nat
      BY <1>1, <3>2, Needed
    <3>3. n * PageBytes - Slot(end) * RecordBytes \in Int
      <4>1. Slot(end) \in Int
        BY <1>2 DEF TypeOK
      <4>2. QED
        BY <1>1, <4>1, GeometryAssumption
    <3>4. QED
      BY <1>7, <3>1, <3>2, <3>3 DEF Reserve
  <2>2. QED
    BY <1>2, <1>7, <2>1 DEF Reserve, TypeOK
<1>8. CASE ExtendPage
  BY <1>1, <1>4, <1>8 DEF ExtendPage, TypeOK
<1>9. CASE Extended
  BY <1>2, <1>9 DEF Extended, TypeOK
<1>10. CASE Write
  <2>1. CASE InPages(end)
    BY <1>5, <1>10, <2>1 DEF Write, TypeOK
  <2>2. CASE ~ InPages(end)
    BY <1>4, <1>10, <2>2 DEF Write, TypeOK
  <2>3. QED
    BY <2>1, <2>2
<1>11. CASE SetBegin
  BY <1>11 DEF SetBegin, TypeOK
<1>12. CASE SetEnd
  <2>1. end \in Positions /\ Slot(end) < MaxSlots
    BY <1>12 DEF SetEnd, AppendInv, Appending, TypeOK
  <2>2. QED
    BY <1>3, <1>4, <1>12, <2>1 DEF SetEnd, TypeOK
<1>13. CASE Mark
  <2>1. mem' \in [Slots -> Record]
    BY <1>13 DEF Mark, TypeOK, Record
  <2>2. QED
    BY <1>4, <1>13, <2>1 DEF Mark, TypeOK
<1>14. CASE CommitAppend
  <2>1. CASE InPages(cur)
    <3>1. Following(cur) \in Positions
      BY <1>5, <2>1 DEF TypeOK
    <3>2. mem' \in [Slots -> Record] /\ owed' \subseteq Records
      <4>1. CASE UNCHANGED <<mem, owed>>
        BY <4>1 DEF TypeOK
      <4>2. CASE mem' = mem /\ owed' \subseteq owed \cup Records
        BY <4>2 DEF TypeOK
      <4>3. CASE mem' = [mem EXCEPT ![Slot(cur)].add = FALSE] /\ owed' \subseteq owed \cup Records
        BY <4>3 DEF TypeOK, Record
      <4>4. QED
        BY <1>14, <2>1, <4>1, <4>2, <4>3 DEF CommitAppend
    <3>3. QED
      BY <1>14, <2>1, <3>1, <3>2 DEF CommitAppend, TypeOK
  <2>2. CASE ~ InPages(cur)
    BY <1>4, <1>14, <2>2 DEF CommitAppend, TypeOK
  <2>3. QED
    BY <2>1, <2>2
<1>15. CASE AppendsDone
  BY <1>15 DEF AppendsDone, TypeOK
<1>16. CASE CheckDeleted
  BY <1>2, <1>4, <1>16 DEF CheckDeleted, TypeOK
<1>17. CASE SkipOrFill
  <2>1. CASE InPages(cur)
    <3>1. Following(cur) \in Positions
      BY <1>5, <2>1 DEF TypeOK
    <3>2. QED
      BY <1>17, <2>1, <3>1 DEF SkipOrFill, TypeOK
  <2>2. CASE ~ InPages(cur)
    BY <1>4, <1>17, <2>2 DEF SkipOrFill, TypeOK
  <2>3. QED
    BY <2>1, <2>2
<1>18. CASE Fill
  <2>1. CASE Error
    BY <1>4, <2>1 DEF TypeOK
  <2>2. CASE /\ end # None /\ Slot(end) > 0
             /\ \E b \in Read(Slot(end) - 1) :
                   \/ Goto("deleted")
                   \/ Goto("fill")
                   \/ last' = b /\ pc' = "copy" /\ UNCHANGED <<cur, todo>>
             /\ end' = Preceding(end)
             /\ UNCHANGED <<n, append_begin, has_deleted, mem, user, owed, cuts>>
    <3>1. Slot(end) - 1 \in Slots /\ Preceding(end) \in Positions
      BY <1>1, <1>2, <1>3, <2>2 DEF TypeOK
    <3>2. \A b \in Read(Slot(end) - 1) : b \in Record
      BY <3>1, Reads
    <3>3. last' \in Record /\ cur' = cur /\ todo' = todo /\ pc' \in {"deleted", "fill", "copy"}
      BY <2>2, <3>2 DEF TypeOK
    <3>4. QED
      BY <2>2, <3>1, <3>3 DEF TypeOK
  <2>3. QED
    BY <1>18, <2>1, <2>2 DEF Fill
<1>19. CASE Copy
  <2>1. cur \in Positions /\ Slot(cur) < MaxSlots
    BY <1>19 DEF Copy, FlushInv, TypeOK
  <2>2. Following(cur) \in Positions
    BY <1>3, <2>1
  <2>3. QED
    BY <1>4, <1>19, <2>1, <2>2 DEF Copy, TypeOK
<1>20. CASE DeletesDone
  BY <1>20 DEF DeletesDone, TypeOK
<1>21. CASE Shrink
  BY <1>2, <1>21, Forms DEF Shrink, TypeOK, None
<1>22. CASE DropPage
  BY <1>1, <1>4, <1>22 DEF DropPage, TypeOK
<1>23. CASE Shrunk
  BY <1>4, <1>23 DEF Shrunk, TypeOK
<1>24. ASSUME NEW p \in Positions, InPages(p), NEW b \in Read(Slot(p)), NEW sofar \in Seq(Records \cup {"junk"}),
              scan' = [pos |-> p, id |-> b.id, add |-> b.add],
              seen' \in {sofar, sofar \o <<b.id>>}
       PROVE  /\ scan' \in [pos : Positions \cup {None}, id : Records \cup {"junk", "none"},
                            add : BOOLEAN]
              /\ seen' \in Seq(Records \cup {"junk"})
  <2>1. b \in Record
    BY <1>5, <1>24, Reads
  <2>2. b.id \in Records \cup {"junk"} /\ b.add \in BOOLEAN
    BY <2>1 DEF Record
  <2>3. sofar \o <<b.id>> \in Seq(Records \cup {"junk"})
    BY <1>24, <2>2
  <2>4. QED
    BY <1>24, <2>2, <2>3
<1>25. CASE Open
  <2>1. /\ scan' \in [pos : Positions \cup {None}, id : Records \cup {"junk", "none"},
                      add : BOOLEAN]
        /\ seen' \in Seq(Records \cup {"junk"})
    BY <1>2, <1>4, <1>24, <1>25 DEF Open, Arrive
  <2>2. QED
    BY <1>25, <2>1 DEF Open, TypeOK
<1>26. CASE ScanNext
  <2>1. /\ scan' \in [pos : Positions \cup {None}, id : Records \cup {"junk", "none"},
                      add : BOOLEAN]
        /\ seen' \in Seq(Records \cup {"junk"})
    <3>1. Following(scan.pos) \in Positions
      BY <1>3, <1>26 DEF ScanNext, Over, ScanInv, TypeOK
    <3>2. CASE scan' = [NoScan EXCEPT !.id = "junk"] /\ UNCHANGED seen
      BY <1>4, <3>2
    <3>3. CASE InPages(Following(scan.pos)) /\ Arrive(Following(scan.pos), seen)
      BY <1>24, <3>1, <3>3 DEF Arrive
    <3>4. QED
      BY <1>26, <3>2, <3>3 DEF ScanNext
  <2>2. QED
    BY <1>26, <2>1 DEF ScanNext, TypeOK
<1>27. CASE Close
  BY <1>4, <1>27 DEF Close, CloseScan, TypeOK
<1>28. CASE Delete
  BY <1>28 DEF Delete, TypeOK
<1>29. CASE Flush
  BY <1>4, <1>29 DEF Flush, CloseScan, TypeOK
<1>30. CASE Clear
  <2>1. mem' \in [Slots -> Record] /\ n' \in 0 .. MaxPages
    BY <1>1, <1>4, <1>30 DEF Clear
  <2>2. QED
    BY <1>2, <2>1, <1>30 DEF Clear, TypeOK
<1>31. CASE Cut
  <2>1. mem' \in [Slots -> Record]
    BY <1>4, <1>31 DEF Cut, TypeOK
  <2>2. QED
    BY <1>1, <1>4, <1>31, <2>1 DEF Cut, CloseScan, TypeOK
<1>32. CASE UNCHANGED vars
  BY <1>32 DEF vars, TypeOK
<1>33. QED
  BY <1>6, <1>7, <1>8, <1>9, <1>10, <1>11, <1>12, <1>13, <1>14, <1>15, <1>16, <1>17, <1>18,
     <1>19, <1>20, <1>21, <1>22, <1>23, <1>25, <1>26, <1>27, <1>28, <1>29, <1>30, <1>31, <1>32
     DEF Next, Inside, User

(***************************************************************************)
(* end and append_begin stay in the pages                                  *)
(***************************************************************************)
\* The steps that move none of n, end and append_begin.
LEMMA Unmoved ==
    ASSUME [Next]_vars,
           ~ (\/ ExtendPage \/ Extended \/ SetBegin \/ SetEnd \/ AppendsDone \/ Fill
              \/ Shrink \/ DropPage \/ Clear)
    PROVE  UNCHANGED <<n, end, append_begin>>
BY DEF Next, Inside, User, vars, disk, Error, HeapAppend, Reserve, Write, Mark, CommitAppend,
       CheckDeleted, SkipOrFill, Copy, DeletesDone, Shrunk, Open, ScanNext, Close, Delete,
       Flush, Cut

\* A round of heap_record_fill that does not fail.
LEMMA FillRound ==
    ASSUME Straddling, IInv, Fill, ~ Error
    PROVE  /\ pc = "fill" /\ append_begin = None
           /\ end \in Positions /\ Slot(end) > 0 /\ Slot(end) - 1 \in Slots
           /\ Slot(cur) < Slot(end) /\ cur \in Positions
           /\ end' = Preceding(end) /\ end' \in Positions /\ Slot(end') = Slot(end) - 1
           /\ cur' = cur
           /\ pc' = "deleted" => Slot(end') = Slot(cur)
           /\ pc' \in {"fill", "copy"} => Slot(cur) < Slot(end')
           /\ pc' \in {"deleted", "fill", "copy"}
           /\ pc' # "copy" => last' = last
           /\ UNCHANGED <<n, append_begin, has_deleted, mem, scan, seen, due, owed, cuts>>
           /\ \E b \in Read(Slot(end) - 1) :
                 /\ ~ b.add
                 /\ pc' = "fill" => b.del
                 /\ pc' = "copy" => last' = b /\ ~ b.del
<1>1. PICK b \in Read(Slot(end) - 1) :
         /\ end # None /\ Slot(end) > 0
         /\ ~ b.add
         /\ \/ Preceding(end) = cur /\ Goto("deleted")
            \/ Preceding(end) # cur /\ b.del /\ Goto("fill")
            \/ /\ Preceding(end) # cur /\ ~ b.del
               /\ last' = b /\ pc' = "copy"
               /\ UNCHANGED <<cur, todo>>
         /\ end' = Preceding(end)
         /\ UNCHANGED <<n, append_begin, has_deleted, mem, user, owed, cuts>>
  BY DEF Fill
<1>2. pc = "fill" /\ append_begin = None /\ cur # None /\ Slot(cur) < Slot(end)
  BY <1>1 DEF Fill, IInv, FlushInv, Deleting
<1>3. end \in Positions /\ cur \in Positions /\ MaxSlots \in Nat /\ Slots = 0 .. MaxSlots - 1
  BY <1>1, <1>2, Kinds DEF IInv
<1>4. Slot(end) \in 0 .. MaxSlots /\ Slot(cur) \in 0 .. MaxSlots
  BY <1>3, Forms
<1>5. Slot(end) - 1 \in Slots
  BY <1>1, <1>3, <1>4
<1>6. Preceding(end) \in Positions /\ Slot(Preceding(end)) = Slot(end) - 1
  BY <1>1, <1>3, Moves
<1>7. Slot(Preceding(end)) = Slot(cur) <=> cur = Preceding(end)
  BY <1>3, <1>6, Moves
<1>8. pc' \in {"fill", "copy"} => Slot(cur) < Slot(Preceding(end))
  BY <1>1, <1>2, <1>4, <1>6, <1>7 DEF Goto
<1>9. cur' = cur /\ pc' \in {"deleted", "fill", "copy"} /\ (pc' # "copy" => last' = last)
  BY <1>1 DEF Goto
<1>10. pc' = "deleted" => Slot(end') = Slot(cur)
  BY <1>1, <1>7 DEF Goto
<1>11. UNCHANGED <<n, append_begin, has_deleted, mem, scan, seen, due, owed, cuts>>
  BY <1>1 DEF user
<1>12. (pc' = "fill" => b.del) /\ (pc' = "copy" => last' = b /\ ~ b.del)
  BY <1>1 DEF Goto
<1>13. QED
  BY <1>1, <1>2, <1>3, <1>5, <1>6, <1>8, <1>9, <1>10, <1>11, <1>12

\* Bytes and Capacity where the heap uses them.
LEMMA Slotted ==
    ASSUME NEW j \in 0 .. MaxSlots
    PROVE  /\ Bytes(j) \in Nat /\ Bytes(j + 1) = Bytes(j) + RecordBytes
           /\ Bytes(j - 1) <= Bytes(j) /\ Bytes(j - 1) \in Int
<1>1. j \in Int /\ j - 1 \in Int /\ 0 <= j /\ j - 1 <= j /\ 0 \in Int
  BY BoundsAssumption
<1>2. Bytes(j) \in Int /\ Bytes(j - 1) \in Int /\ Bytes(0) = 0
      /\ Bytes(j + 1) = Bytes(j) + RecordBytes
  BY <1>1, Sizes
<1>3. Bytes(0) <= Bytes(j)
  BY <1>1, Increasing
<1>4. Bytes(j - 1) <= Bytes(j)
  BY <1>1, Increasing
<1>5. QED
  BY <1>2, <1>3, <1>4

LEMMA Paged ==
    ASSUME NEW m \in Nat
    PROVE  /\ Capacity(m) \in Int /\ Capacity(m + 1) = Capacity(m) + PageBytes
           /\ Capacity(m - 1) = Capacity(m) - PageBytes
           /\ Capacity(0) = 0 /\ Bytes(0) = 0
<1>1. m \in Int
  OBVIOUS
<1>2. QED
  BY <1>1, Sizes

LEMMA PlacedStep ==
    ASSUME Straddling, IInv, [Next]_vars
    PROVE  Placed'
<1>1. /\ n \in Nat /\ MaxSlots \in Nat /\ RecordBytes \in Nat \ {0} /\ PageBytes \in Nat \ {0}
      /\ end \in Positions \cup {None} /\ append_begin \in Positions \cup {None}
      /\ First # None /\ Slot(First) = 0
  BY Kinds, GeometryAssumption, Forms DEF IInv, Slot
<1>2. Placed
  BY DEF IInv
<1>3. end # None => /\ end \in Positions /\ Slot(end) \in 0 .. MaxSlots /\ n # 0
                    /\ Bytes(Slot(end)) < Capacity(n)
  BY <1>1, <1>2, Forms DEF Placed
<1>4. /\ \A j \in 0 .. MaxSlots : /\ Bytes(j) \in Nat /\ Bytes(j + 1) = Bytes(j) + RecordBytes
                                  /\ Bytes(j - 1) <= Bytes(j) /\ Bytes(j - 1) \in Int
      /\ Capacity(n) \in Int /\ Capacity(n + 1) = Capacity(n) + PageBytes
      /\ Capacity(n - 1) = Capacity(n) - PageBytes
      /\ Capacity(0) = 0 /\ Bytes(0) = 0
  BY <1>1, Slotted, Paged
<1>5. CASE UNCHANGED <<n, end, append_begin>>
  BY <1>2, <1>5 DEF Placed
<1>6. CASE ExtendPage
  <2>1. CASE Error
    BY <1>2, <2>1 DEF Error, disk, Placed
  <2>2. CASE n' = n + 1 /\ UNCHANGED <<end, append_begin>>
    BY <1>1, <1>2, <1>3, <1>4, <2>2 DEF Placed
  <2>3. QED
    BY <1>6, <2>1, <2>2 DEF ExtendPage
<1>7. CASE Extended
  <2>1. CASE cur = First
    <3>1. end = None /\ Bytes(Slot(end) + 1) <= Capacity(n + todo) /\ todo = 0
      BY <1>7, <2>1 DEF Extended, IInv, AppendInv
    <3>2. 0 < Capacity(n)
      BY <1>1, <1>4, <3>1, Forms
    <3>3. append_begin = None
      BY <1>2, <3>1 DEF Placed
    <3>4. n' = n /\ end' = First /\ append_begin' = None
      BY <1>7, <2>1, <3>3 DEF Extended
    <3>5. n # 0
      BY <1>4, <3>2
    <3>6. QED
      BY <1>1, <1>4, <3>2, <3>4, <3>5 DEF Placed
  <2>2. CASE cur # First
    BY <1>2, <1>7, <2>2 DEF Extended, Placed
  <2>3. QED
    BY <2>1, <2>2
<1>8. CASE SetBegin
  <2>1. end # None
    BY <1>8 DEF SetBegin, IInv, AppendInv
  <2>2. n' = n /\ end' = end /\ append_begin' \in {append_begin, end}
    BY <1>8 DEF SetBegin
  <2>3. QED
    BY <1>2, <1>3, <2>1, <2>2 DEF Placed
<1>9. CASE SetEnd
  <2>1. end # None /\ Slot(end) < MaxSlots /\ Bytes(Slot(end) + 1) <= Capacity(n)
    BY <1>9 DEF SetEnd, IInv, AppendInv, Appending
  <2>2. /\ n' = n /\ end' = Following(end) /\ append_begin' = append_begin
    BY <1>9 DEF SetEnd
  <2>3. end' \in Positions /\ Slot(end') = Slot(end) + 1
    BY <1>3, <2>1, <2>2, Moves
  <2>4. Bytes(Slot(end) + 1) # Capacity(n)
    BY <1>1, <1>3, <2>1, Straddles
  <2>5. append_begin # None => Slot(append_begin) \in 0 .. MaxSlots
    BY <1>1, Forms
  <2>6. Bytes(Slot(end')) < Capacity(n') /\ n' # 0
    BY <1>1, <1>3, <1>4, <2>1, <2>2, <2>3, <2>4
  <2>7. append_begin' # None => Slot(append_begin') <= Slot(end')
    BY <1>2, <1>3, <2>1, <2>2, <2>3, <2>5 DEF Placed
  <2>8. QED
    BY <2>3, <2>6, <2>7, Forms DEF Placed
<1>10. CASE AppendsDone
  BY <1>2, <1>10 DEF AppendsDone, Placed
<1>11. CASE Fill
  <2>1. CASE Error
    BY <1>2, <2>1 DEF Error, disk, Placed
  <2>2. CASE ~ Error
    <3>1. /\ append_begin' = None /\ n' = n /\ end # None
          /\ end' \in Positions /\ Slot(end') = Slot(end) - 1
      BY <1>11, <2>2, FillRound, Forms
    <3>2. QED
      BY <1>3, <1>4, <3>1, Forms DEF Placed
  <2>3. QED
    BY <2>1, <2>2
<1>12. CASE Shrink
  <2>1. append_begin = None
    BY <1>12 DEF Shrink, IInv, FlushInv, Deleting
  <2>2. n' = n /\ append_begin' = None /\ end' \in {None, end}
    BY <1>1, <1>12, <2>1, Forms DEF Shrink, None
  <2>3. QED
    BY <1>2, <2>2 DEF Placed
<1>13. CASE DropPage
  <2>1. /\ n' = n - 1 /\ n > 0 /\ end' = end /\ append_begin' = append_begin
        /\ end = None \/ PageOf(end) # n - 1
    BY <1>13 DEF DropPage
  <2>2. ASSUME end # None
        PROVE  Bytes(Slot(end)) < Capacity(n - 1) /\ n - 1 # 0
    <3>1. PageOf(end) < n - 1
      <4>1. PageOf(end) \in Int /\ PageOf(end) < n
        BY <1>1, <1>3, <2>2, PageBytesOf
      <4>2. QED
        BY <1>1, <2>1, <2>2, <4>1
    <3>2. Bytes(Slot(end)) < Capacity(n - 1)
      BY <1>1, <1>3, <2>2, <3>1, PageBytesOf
    <3>3. QED
      BY <1>3, <1>4, <2>2, <3>2
  <2>3. QED
    BY <1>2, <2>1, <2>2 DEF Placed
<1>14. CASE Clear
  BY <1>14 DEF Clear, Placed
<1>15. QED
  BY <1>5, <1>6, <1>7, <1>8, <1>9, <1>10, <1>11, <1>12, <1>13, <1>14, Unmoved

(***************************************************************************)
(* An append has its room                                                  *)
(***************************************************************************)
\* The steps that leave an append, or are no part of one.
LEMMA NoAppend ==
    ASSUME [Next]_vars,
           ~ (\/ \E r \in Records : HeapAppend(r)
              \/ Reserve \/ ExtendPage \/ Extended \/ Write \/ SetBegin \/ UNCHANGED vars)
    PROVE  pc' \notin Appending
BY DEF Next, Inside, User, Error, Return, Goto, work, Appending, SetEnd, Mark, CommitAppend,
       AppendsDone, CheckDeleted, SkipOrFill, Fill, Copy, DeletesDone, Shrink, DropPage, Shrunk,
       Open, ScanNext, Close, Delete, Flush, Clear, Cut

LEMMA SameHolding ==
    ASSUME NEW r, end' = end, \A j \in Live : mem'[j] = mem[j]
    PROVE  Holding(r)' = Holding(r)
BY DEF Holding, Live

LEMMA ReserveEnough ==
    ASSUME Straddling, IInv, Reserve
    PROVE  /\ cur' = First => end = None /\ scan = NoScan
           /\ cur' # First => n > 0
           /\ \/ (cur' = First \/ end # None) /\ Bytes(Slot(end) + 1) <= Capacity(n + todo')
              \/ cuts > 0 /\ cur' # First /\ (end = None \/ RecordBytes > PageBytes)
<1>1. /\ n \in Nat /\ MaxSlots \in Nat /\ RecordBytes \in Nat \ {0} /\ PageBytes \in Nat \ {0}
      /\ end \in Positions \cup {None} /\ cuts \in Nat
      /\ First # None /\ Slot(First) = 0 /\ Slot(None) = 0
  BY Kinds, GeometryAssumption, Forms DEF IInv, Slot
<1>2. Slot(end) \in 0 .. MaxSlots
  BY <1>1, Forms
<1>3. Placed /\ ScanInv /\ Sound
  BY DEF IInv
<1>4. /\ Bytes(Slot(end)) \in Nat /\ Bytes(Slot(end) + 1) = Bytes(Slot(end)) + RecordBytes
      /\ Capacity(n) \in Int /\ Capacity(n - 1) = Capacity(n) - PageBytes
      /\ Capacity(0) = 0 /\ Bytes(0) = 0
  BY <1>1, <1>2, Slotted, Paged
<1>5. CASE n = 0
  <2>1. cur' = First /\ todo' = PagesFor(RecordBytes)
    BY <1>5 DEF Reserve
  <2>2. end = None /\ scan = NoScan
    BY <1>3, <1>5 DEF Placed, ScanInv
  <2>3. RecordBytes <= Capacity(todo') /\ todo' \in Nat
    BY <1>1, <2>1, Needed
  <2>4. n + todo' = todo'
    <3>1. \A t \in Nat : 0 + t = t
      OBVIOUS
    <3>2. QED
      BY <1>5, <2>3, <3>1
  <2>5. QED
    BY <1>1, <1>4, <2>1, <2>2, <2>3, <2>4
<1>6. CASE n > 0 /\ end # None /\ PageOf(end) = n - 1
  <2>1. cur' = None
    BY <1>6 DEF Reserve
  <2>2. PICK free \in Int : /\ free = Capacity(n) - Bytes(Slot(end))
                            /\ todo' = IF free >= RecordBytes THEN 0 ELSE PagesFor(RecordBytes - free)
    <3>1. Capacity(n) - Bytes(Slot(end)) \in Int
      BY <1>4
    <3>2. QED
      BY <1>6, <3>1 DEF Reserve, Capacity, Bytes
  <2>3. CASE free >= RecordBytes
    <3>1. todo' = 0 /\ n + todo' = n
      BY <1>1, <2>2, <2>3
    <3>2. QED
      BY <1>1, <1>4, <1>6, <2>1, <2>2, <2>3, <3>1
  <2>4. CASE ~ free >= RecordBytes
    <3>1. RecordBytes - free \in Nat \ {0} /\ todo' = PagesFor(RecordBytes - free)
      BY <1>1, <2>2, <2>4
    <3>2. RecordBytes - free <= Capacity(todo') /\ todo' \in Nat
      BY <3>1, Needed
    <3>3. Capacity(n + todo') = Capacity(n) + Capacity(todo') /\ Capacity(todo') \in Int
      BY <1>1, <3>2, Increasing, Sizes
    <3>4. QED
      BY <1>1, <1>4, <1>6, <2>1, <2>2, <3>2, <3>3
  <2>5. QED
    BY <2>3, <2>4
<1>7. CASE n > 0 /\ (end = None \/ PageOf(end) # n - 1)
  <2>1. cur' = None /\ todo' \in 0 .. PagesFor(RecordBytes)
    BY <1>7 DEF Reserve
  <2>2. cuts > 0
    <3>1. SUFFICES ASSUME cuts = 0
                   PROVE  FALSE
      BY <1>1
    <3>2. Ending
      BY <1>1, <1>3, <1>7, <3>1 DEF Sound, InTail, Deleting, Reserve
    <3>3. end \in Positions /\ end # None /\ n - 1 \in Int
      BY <1>1, <3>2 DEF Ending
    <3>4. n - 1 <= PageOf(end) /\ PageOf(end) \in Int
      BY <3>2, <3>3, PageBytesOf DEF Ending
    <3>5. PageOf(end) < n
      BY <1>1, <1>3, <3>3, PageBytesOf DEF Placed
    <3>6. QED
      BY <1>1, <1>7, <3>3, <3>4, <3>5
  <2>3. ASSUME end # None, RecordBytes <= PageBytes
        PROVE  Bytes(Slot(end) + 1) <= Capacity(n + todo')
    <3>1. PageOf(end) < n - 1
      <4>1. PageOf(end) \in Int /\ PageOf(end) < n
        BY <1>1, <1>3, <2>3, PageBytesOf DEF Placed
      <4>2. QED
        BY <1>1, <1>7, <2>3, <4>1
    <3>2. Bytes(Slot(end)) < Capacity(n - 1)
      BY <1>1, <2>3, <3>1, PageBytesOf
    <3>3. todo' \in Int /\ 0 <= todo' /\ n <= n + todo' /\ n + todo' \in Int /\ n \in Int
      <4>1. PagesFor(RecordBytes) \in Nat
        BY <1>1, Needed
      <4>2. \A t \in 0 .. PagesFor(RecordBytes) : t \in Int /\ 0 <= t
        BY <4>1
      <4>3. todo' \in Int /\ 0 <= todo'
        BY <2>1, <4>2
      <4>4. \A t \in Int : 0 <= t => n <= n + t /\ n + t \in Int /\ n \in Int
        BY <1>1
      <4>5. QED
        BY <4>3, <4>4
    <3>4. Capacity(n) <= Capacity(n + todo') /\ Capacity(n + todo') \in Int
      BY <3>3, Increasing, Sizes
    <3>5. QED
      BY <1>1, <1>4, <2>3, <3>2, <3>4
  <2>4. QED
    BY <1>1, <1>7, <2>1, <2>2, <2>3
<1>8. QED
  BY <1>1, <1>5, <1>6, <1>7

LEMMA AppendStep ==
    ASSUME Straddling, IInv, [Next]_vars
    PROVE  AppendInv'
<1>1. /\ AppendInv /\ Placed /\ TypeOK
      /\ n \in Nat /\ todo \in Nat /\ MaxSlots \in Nat
      /\ end \in Positions \cup {None} /\ First # None /\ Slot(First) = 0 /\ Slot(None) = 0
  BY Kinds, Forms DEF IInv, Types, Slot
<1>2. CASE pc' \notin Appending
  BY <1>2 DEF AppendInv, Appending
<1>3. CASE \E r \in Records : HeapAppend(r)
  <2>1. PICK r \in Records : HeapAppend(r)
    BY <1>3
  <2>2. pc' = "reserve" /\ last' = [id |-> r, add |-> TRUE, del |-> FALSE] /\ end' = end
        /\ Slot(end) < MaxSlots /\ Holding(r) = {} /\ mem' = mem
    BY <2>1 DEF HeapAppend, disk
  <2>3. Holding(r)' = {}
    BY <2>2, SameHolding
  <2>4. last'.id = r /\ last'.add /\ ~ last'.del
    BY <2>2
  <2>5. Holding(last.id)' = {}
    BY <2>3, <2>4 DEF Holding
  <2>6. QED
    BY <2>2, <2>4, <2>5 DEF AppendInv
<1>4. CASE Reserve
  <2>1. pc = "reserve" /\ pc' = "extend" /\ UNCHANGED <<n, end, mem, last, scan, cuts>>
    BY <1>4 DEF Reserve, disk, user
  <2>2. Holding(last.id)' = Holding(last.id)
    BY <2>1 DEF Holding, Live
  <2>3. QED
    BY <1>1, <1>4, <2>1, <2>2, ReserveEnough DEF AppendInv, Appending
<1>5. CASE ExtendPage /\ pc' = "extend"
  <2>1. /\ pc = "extend" /\ n' = n + 1 /\ todo' = todo - 1 /\ todo > 0
        /\ UNCHANGED <<end, append_begin, mem, cur, last, scan, cuts>>
    BY <1>5 DEF ExtendPage, Error, Return, user
  <2>2. Holding(last.id)' = Holding(last.id)
    BY <2>1 DEF Holding, Live
  <2>3. n' + todo' = n + todo /\ n' > 0
    BY <1>1, <2>1
  <2>4. /\ last.id \in Records /\ last.add /\ ~ last.del /\ Holding(last.id) = {}
        /\ Slot(end) < MaxSlots
        /\ cur = First => end = None /\ scan = NoScan
        /\ \/ (cur = First \/ end # None) /\ Bytes(Slot(end) + 1) <= Capacity(n + todo)
           \/ cuts > 0 /\ cur # First /\ (end = None \/ RecordBytes > PageBytes)
    BY <1>1, <2>1 DEF AppendInv, Appending
  <2>5. pc' = "extend"
    BY <1>5
  <2>6. QED
    BY <2>1, <2>2, <2>3, <2>4, <2>5 DEF AppendInv
<1>6. CASE Extended
  <2>1. /\ pc = "extend" /\ pc' = "write" /\ todo = 0 /\ n + todo = n
        /\ end' = (IF cur = First THEN First ELSE end)
        /\ UNCHANGED <<n, mem, last, cuts>>
    BY <1>1, <1>6 DEF Extended, Goto
  <2>2. /\ last.id \in Records /\ last.add /\ ~ last.del /\ Holding(last.id) = {}
        /\ Slot(end) < MaxSlots
        /\ cur = First => end = None
        /\ \/ (cur = First \/ end # None) /\ Bytes(Slot(end) + 1) <= Capacity(n + todo)
           \/ cuts > 0 /\ cur # First /\ (end = None \/ RecordBytes > PageBytes)
    BY <1>1, <2>1 DEF AppendInv, Appending
  <2>3. Slot(end') = Slot(end)
    BY <1>1, <2>1, <2>2
  <2>4. Holding(last.id)' = Holding(last.id)
    BY <2>1, <2>3 DEF Holding, Live
  <2>5. QED
    BY <1>1, <2>1, <2>2, <2>3, <2>4 DEF AppendInv
<1>7. CASE Write /\ pc' \in Appending
  <2>1. /\ pc = "write" /\ pc' = "begin" /\ InPages(end)
        /\ mem' = [mem EXCEPT ![Slot(end)] = last]
        /\ UNCHANGED <<n, end, append_begin, last, cuts>>
    BY <1>7 DEF Write, Error, Return, Goto, Appending
  <2>2. end \in Positions /\ Slot(end) < MaxSlots /\ Bytes(Slot(end) + 1) <= Capacity(n)
    BY <1>1, <2>1, InPagesMeans
  <2>3. Slot(end) \in Slots /\ Slot(end) \notin Live
    BY <1>1, <2>2, Forms DEF Slots, Live
  <2>4. mem'[Slot(end)] = last /\ \A j \in Live : mem'[j] = mem[j]
    BY <1>1, <2>1, <2>3 DEF TypeOK
  <2>5. Holding(last.id)' = Holding(last.id)
    BY <2>1, <2>4 DEF Holding, Live
  <2>6. QED
    BY <1>1, <2>1, <2>2, <2>4, <2>5, Forms DEF AppendInv, Appending
<1>8. CASE SetBegin
  <2>1. /\ pc = "begin" /\ pc' = "end"
        /\ append_begin' = (IF append_begin = None THEN end ELSE append_begin)
        /\ UNCHANGED <<n, end, mem, last, cuts>>
    BY <1>8 DEF SetBegin, Goto
  <2>2. Holding(last.id)' = Holding(last.id)
    BY <2>1 DEF Holding, Live
  <2>3. QED
    BY <1>1, <2>1, <2>2 DEF AppendInv, Appending
<1>9. CASE UNCHANGED vars
  <2>1. Holding(last.id)' = Holding(last.id)
    BY <1>9 DEF vars, Holding, Live
  <2>2. QED
    BY <1>1, <1>9, <2>1 DEF vars, AppendInv
<1>10. (ExtendPage => pc' = "extend" \/ pc' \notin Appending)
  BY DEF ExtendPage, Error, Return, Appending
<1>11. QED
  BY <1>2, <1>3, <1>4, <1>5, <1>6, <1>7, <1>8, <1>9, <1>10, NoAppend

(***************************************************************************)
(* A flush keeps to the heap                                               *)
(***************************************************************************)
LEMMA NoFlush ==
    ASSUME [Next]_vars,
           ~ (\/ CommitAppend \/ AppendsDone \/ CheckDeleted \/ SkipOrFill \/ Fill \/ Copy
              \/ DeletesDone \/ Shrink \/ DropPage \/ Flush \/ UNCHANGED vars)
    PROVE  pc' \notin {"added", "check"} \cup Deleting
BY DEF Next, Inside, User, Error, Return, Goto, work, Deleting, HeapAppend, Reserve, ExtendPage,
       Extended, Write, SetBegin, SetEnd, Mark, Shrunk, Open, ScanNext, Close, Delete, Clear, Cut

\* The iterator of a flush moves on.
LEMMA Onwards ==
    ASSUME Straddling, Types, InPages(cur)
    PROVE  /\ cur \in Positions /\ Slot(cur) \in Slots /\ Slot(cur) < MaxSlots
           /\ Following(cur) \in Positions /\ Following(cur) # None
           /\ Slot(Following(cur)) = Slot(cur) + 1
           /\ end # None /\ Slot(cur) <= Slot(end) /\ cur # end => Slot(cur) < Slot(end)
           /\ end # None /\ Slot(cur) <= Slot(end) /\ cur # end =>
                 Slot(Following(cur)) <= Slot(end)
<1>1. /\ n \in Nat /\ MaxSlots \in Nat /\ Slots = 0 .. MaxSlots - 1
      /\ end \in Positions \cup {None} /\ cur \in Positions \cup {None}
  BY Kinds
<1>2. cur \in Positions /\ Slot(cur) < MaxSlots
  BY <1>1, InPagesMeans
<1>3. Slot(cur) \in 0 .. MaxSlots /\ (end # None => Slot(end) \in 0 .. MaxSlots)
  BY <1>1, <1>2, Forms
<1>4. Following(cur) \in Positions /\ Slot(Following(cur)) = Slot(cur) + 1
  BY <1>2, Moves
<1>5. Following(cur) # None
  BY <1>4, Forms
<1>6. end # None => (Slot(end) = Slot(cur) <=> cur = end)
  BY <1>1, <1>2, Moves
<1>7. QED
  BY <1>1, <1>2, <1>3, <1>4, <1>5, <1>6

LEMMA FlushStep ==
    ASSUME Straddling, IInv, [Next]_vars
    PROVE  FlushInv'
<1>1. /\ FlushInv /\ Placed /\ Marks /\ Types
      /\ MaxSlots \in Nat /\ Slots = 0 .. MaxSlots - 1
      /\ end \in Positions \cup {None} /\ cur \in Positions \cup {None}
      /\ append_begin \in Positions \cup {None}
      /\ First # None /\ Slot(First) = 0 /\ Slot(None) = 0
      /\ end # None => Slot(end) \in 0 .. MaxSlots
  <2>1. First # None /\ Slot(First) = 0 /\ Slot(None) = 0
    BY Forms DEF Slot
  <2>2. end \in Positions => Slot(end) \in 0 .. MaxSlots
    BY Forms
  <2>3. QED
    BY <2>1, <2>2, Kinds DEF IInv
<1>2. CASE pc' \notin {"added", "check"} \cup Deleting
  BY <1>2 DEF FlushInv, Deleting
<1>3. CASE CommitAppend
  <2>1. CASE InPages(cur)
    <3>1. /\ pc = "added" /\ pc' = "added" /\ cur # end /\ cur' = Following(cur)
          /\ UNCHANGED <<end, append_begin>>
      BY <1>2, <1>3, <2>1 DEF CommitAppend
    <3>2. append_begin # None /\ Slot(append_begin) <= Slot(cur) /\ Slot(cur) <= Slot(end)
      BY <1>1, <3>1 DEF FlushInv
    <3>3. end # None /\ Slot(append_begin) \in 0 .. MaxSlots
      BY <1>1, <3>2, Forms DEF Placed
    <3>4. cur' # None /\ Slot(cur') = Slot(cur) + 1 /\ Slot(cur') <= Slot(end) /\ Slot(cur) \in Nat
      BY <1>1, <2>1, <3>1, <3>2, <3>3, Onwards
    <3>5. Slot(append_begin) <= Slot(cur')
      BY <3>2, <3>3, <3>4
    <3>6. QED
      BY <3>1, <3>2, <3>4, <3>5 DEF FlushInv, Deleting
  <2>2. CASE ~ InPages(cur)
    BY <1>2, <1>3, <2>2 DEF CommitAppend, Error, Return, Deleting
  <2>3. QED
    BY <2>1, <2>2
<1>4. CASE AppendsDone
  BY <1>4 DEF AppendsDone, Goto, FlushInv, Deleting
<1>5. CASE CheckDeleted
  <2>1. pc = "check" /\ append_begin' = append_begin /\ end' = end
        /\ (pc' = "idle" \/ (pc' = "deleted" /\ cur' = First))
    <3>1. pc = "check" /\ append_begin' = append_begin /\ end' = end
      BY <1>5 DEF CheckDeleted, disk
    <3>2. pc' = "idle" \/ (pc' = "deleted" /\ cur' = First)
      <4>1. CASE Return
        BY <4>1 DEF Return
      <4>2. CASE ~ Return
        BY <1>5, <4>2, Zenon DEF CheckDeleted
      <4>3. QED
        BY <4>1, <4>2
    <3>3. QED
      BY <3>1, <3>2
  <2>2. QED
    BY <1>1, <2>1 DEF FlushInv, Deleting
<1>6. CASE SkipOrFill
  <2>1. CASE InPages(cur)
    <3>1. /\ pc = "deleted" /\ cur # end
          /\ UNCHANGED <<end, append_begin, mem>>
          /\ \E b \in Read(Slot(cur)) :
                \/ b.del /\ pc' = "fill" /\ cur' = cur
                \/ cur' = Following(cur) /\ pc' = pc
      BY <1>6, <2>1 DEF SkipOrFill, disk, Goto
    <3>2. append_begin = None /\ cur # None /\ (end # None => Slot(cur) <= Slot(end))
      BY <1>1, <3>1 DEF FlushInv, Deleting
    <3>3. PICK b \in Read(Slot(cur)) :
                \/ b.del /\ pc' = "fill" /\ cur' = cur
                \/ cur' = Following(cur) /\ pc' = pc
      BY <3>1
    <3>4. Slot(cur) \in Slots /\ Slot(cur) < MaxSlots
      BY <1>1, <2>1, Onwards
    <3>5. b.del => Gone(Slot(cur))
      BY <1>1, <3>4, Reads DEF Gone, Types
    <3>6. CASE b.del /\ pc' = "fill" /\ cur' = cur
      <4>1. Gone(Slot(cur))' /\ Slot(cur') < MaxSlots
        BY <3>1, <3>4, <3>5, <3>6 DEF Gone
      <4>2. end # None => Slot(cur) < Slot(end)
        BY <1>1, <2>1, <3>1, <3>2, Onwards
      <4>3. end # None => Slot(cur) <= Slot(end)
        BY <3>2
      <4>4. QED
        BY <3>1, <3>2, <3>6, <4>1, <4>2, <4>3 DEF FlushInv, Deleting
    <3>7. CASE cur' = Following(cur) /\ pc' = pc
      <4>1. cur' # None /\ (end # None => Slot(cur') <= Slot(end))
        BY <1>1, <2>1, <3>1, <3>2, <3>7, Onwards
      <4>2. QED
        BY <3>1, <3>2, <3>7, <4>1 DEF FlushInv, Deleting
    <3>8. QED
      BY <3>3, <3>6, <3>7
  <2>2. CASE ~ InPages(cur)
    BY <1>2, <1>6, <2>2 DEF SkipOrFill, Error, Return, Deleting
  <2>3. QED
    BY <2>1, <2>2
<1>7. CASE Fill /\ ~ Error
  <2>1. /\ append_begin = None /\ pc = "fill"
        /\ end \in Positions /\ Slot(end) - 1 \in Slots /\ Slot(end) \in 0 .. MaxSlots
        /\ cur' = cur /\ end' \in Positions /\ Slot(end') = Slot(end) - 1
        /\ pc' = "deleted" => Slot(end') = Slot(cur)
        /\ pc' \in {"fill", "copy"} => Slot(cur) < Slot(end')
        /\ pc' \in {"deleted", "fill", "copy"}
        /\ UNCHANGED <<append_begin, mem>>
    BY <1>7, FillRound, Forms
  <2>2. PICK b \in Read(Slot(end) - 1) :
           /\ ~ b.add
           /\ pc' = "copy" => last' = b /\ ~ b.del
    BY <1>7, FillRound
  <2>3. cur # None /\ Gone(Slot(cur)) /\ Slot(cur) < MaxSlots
    BY <1>1, <2>1 DEF FlushInv
  <2>4. Gone(Slot(cur))' /\ cur' # None /\ Slot(cur') < MaxSlots /\ end' # None
    BY <2>1, <2>3, Forms DEF Gone
  <2>5. Slot(cur) \in 0 .. MaxSlots
    BY <1>1, <2>3, Forms
  <2>6. Slot(cur') <= Slot(end')
    BY <1>1, <2>1, <2>5
  <2>7. ASSUME pc' = "copy", b.id \in Records
        PROVE  Holding(b.id)' = {}
    <3>1. b = mem[Slot(end) - 1]
      <4>1. mem[Slot(end) - 1].id # "junk"
        BY <1>1, <2>1, <2>2, <2>7, Reads, BoundsAssumption DEF Types
      <4>2. QED
        BY <1>1, <2>1, <2>2, <4>1, Reads DEF Types
    <3>2. \A j \in 0 .. Slot(end) - 2 : j \in Live /\ Slot(end) - 1 \in Live /\ j # Slot(end) - 1
      BY <1>1, <2>1 DEF Live
    <3>3. b.id # "junk"
      BY <2>7, BoundsAssumption
    <3>4. \A j \in 0 .. Slot(end) - 2 : mem[j].id # b.id
      BY <1>1, <3>1, <3>2, <3>3 DEF Marks
    <3>5. Slot(end') - 1 = Slot(end) - 2
      BY <1>1, <2>1
    <3>6. QED
      BY <2>1, <3>4, <3>5 DEF Holding, Live
  <2>8. pc' = "copy" => /\ ~ last'.add /\ ~ last'.del
                        /\ last'.id \in Records => Holding(last.id)' = {}
    BY <2>2, <2>7 DEF Holding
  <2>9. QED
    BY <2>1, <2>4, <2>6, <2>8 DEF FlushInv, Deleting
<1>8. CASE Copy
  <2>1. /\ pc = "copy" /\ pc' = "deleted" /\ UNCHANGED <<end, append_begin>>
        /\ cur' = IF cur = end THEN cur ELSE Following(cur)
    BY <1>8 DEF Copy
  <2>2. /\ append_begin = None /\ cur # None /\ end # None /\ Slot(cur) < Slot(end)
        /\ Slot(cur) < MaxSlots
    BY <1>1, <2>1 DEF FlushInv, Deleting
  <2>3. Slot(cur) \in 0 .. MaxSlots /\ Following(cur) \in Positions /\ Slot(Following(cur)) = Slot(cur) + 1
    BY <1>1, <2>2, Forms, Moves
  <2>4. cur' # None /\ Slot(cur') <= Slot(end)
    BY <1>1, <2>1, <2>2, <2>3, Forms
  <2>5. QED
    BY <2>1, <2>2, <2>4 DEF FlushInv, Deleting
<1>9. CASE DeletesDone
  <2>1. pc = "deleted" /\ pc' = "shrink" /\ UNCHANGED append_begin
    BY <1>9 DEF DeletesDone, Goto
  <2>2. QED
    BY <1>1, <2>1 DEF FlushInv, Deleting
<1>10. CASE Shrink
  <2>1. pc = "shrink" /\ pc' = "pages" /\ UNCHANGED append_begin /\ end' # First
    BY <1>1, <1>10, Forms DEF Shrink, Goto, None
  <2>2. QED
    BY <1>1, <2>1 DEF FlushInv, Deleting
<1>11. CASE DropPage
  BY <1>1, <1>11 DEF DropPage, work, FlushInv, Deleting
<1>12. CASE Flush
  <2>1. /\ pc' = (IF append_begin = None THEN "check" ELSE "added") /\ cur' = append_begin
        /\ UNCHANGED <<end, append_begin>>
    BY <1>12 DEF Flush, disk
  <2>2. append_begin # None => Slot(append_begin) \in 0 .. MaxSlots
    BY <1>1, Forms
  <2>3. QED
    BY <1>1, <2>1, <2>2 DEF FlushInv, Placed, Deleting
<1>13. CASE UNCHANGED vars
  BY <1>1, <1>13 DEF vars, FlushInv, Gone, Holding, Live
<1>14. Fill /\ Error => pc' \notin {"added", "check"} \cup Deleting
  BY DEF Error, Return, Deleting
<1>15. QED
  BY <1>2, <1>3, <1>4, <1>5, <1>6, <1>7, <1>8, <1>9, <1>10, <1>11, <1>12, <1>13, <1>14, NoFlush

(***************************************************************************)
(* A scan keeps to the heap                                                *)
(***************************************************************************)
LEMMA ScanStep ==
    ASSUME Straddling, IInv, [Next]_vars
    PROVE  ScanInv'
<1>1. /\ ScanInv /\ AppendInv /\ Placed /\ Types
      /\ n \in Nat /\ MaxSlots \in Nat
      /\ end \in Positions \cup {None} /\ scan.pos \in Positions \cup {None}
      /\ First # None /\ Slot(First) = 0 /\ Slot(None) = 0
      /\ end # None => Slot(end) \in 0 .. MaxSlots
      /\ scan.pos # None => Slot(scan.pos) \in 0 .. MaxSlots
  <2>1. First # None /\ Slot(First) = 0 /\ Slot(None) = 0
    BY Forms DEF Slot
  <2>2. \A p \in Positions : Slot(p) \in 0 .. MaxSlots
    BY Forms
  <2>3. QED
    BY <2>1, <2>2, Kinds DEF IInv
<1>2. CASE scan' = NoScan /\ pc' # "mark"
  BY <1>2 DEF ScanInv, NoScan
<1>3. CASE /\ scan' = scan /\ n' >= n /\ n' \in Nat
           /\ end # None => end' = end
           /\ end = None => end' = None \/ scan = NoScan
           /\ pc' # "mark"
           /\ scan # NoScan => pc' \in {"idle"} \cup Appending
  BY <1>1, <1>3 DEF ScanInv, NoScan
<1>4. CASE SetEnd
  <2>1. end # None /\ Slot(end) < MaxSlots
    BY <1>1, <1>4 DEF SetEnd, AppendInv, Appending
  <2>2. pc' = "idle" /\ scan' = scan /\ end' = Following(end) /\ n' = n
    BY <1>4 DEF SetEnd, Return, user
  <2>3. Slot(end') = Slot(end) + 1
    BY <1>1, <2>1, <2>2, Moves
  <2>4. QED
    BY <1>1, <2>1, <2>2, <2>3 DEF ScanInv, NoScan
<1>5. CASE Open
  <2>1. pc = "idle" /\ pc' = "idle" /\ n > 0 /\ scan'.pos = First /\ InPages(First)
        /\ UNCHANGED <<n, end>>
    BY <1>5 DEF Open, Arrive, work, disk
  <2>2. Slot(First) < MaxSlots
    BY <1>1, <2>1, InPagesMeans, Forms
  <2>3. QED
    BY <1>1, <2>1, <2>2 DEF ScanInv
<1>6. CASE ScanNext
  <2>1. pc = "idle" /\ pc' = "idle" /\ ~ Over(scan) /\ UNCHANGED <<n, end>>
    BY <1>6 DEF ScanNext, work, disk
  <2>2. scan # NoScan /\ scan.pos # None /\ n > 0 /\ scan.pos # end
    BY <1>1, <2>1 DEF Over, ScanInv, NoScan
  <2>3. CASE scan' = [NoScan EXCEPT !.id = "junk"]
    BY <2>1, <2>2, <2>3, ScannedAll DEF ScanInv
  <2>4. CASE InPages(Following(scan.pos)) /\ Arrive(Following(scan.pos), seen)
    <3>1. scan'.pos = Following(scan.pos)
      BY <2>4 DEF Arrive
    <3>2. /\ Slot(scan.pos) < MaxSlots
          /\ end # None => Slot(scan.pos) <= Slot(end) /\ Slot(scan.pos) # Slot(end)
      BY <1>1, <2>2, Moves DEF ScanInv
    <3>3. Following(scan.pos) \in Positions /\ Slot(Following(scan.pos)) = Slot(scan.pos) + 1
      BY <1>1, <2>2, <3>2, Moves
    <3>4. Slot(Following(scan.pos)) < MaxSlots
      BY <1>1, <2>4, <3>3, InPagesMeans
    <3>5. QED
      BY <1>1, <2>1, <2>2, <3>1, <3>2, <3>3, <3>4 DEF ScanInv
  <2>5. QED
    BY <1>6, <2>3, <2>4 DEF ScanNext
<1>7. CASE Delete
  <2>1. pc = "idle" /\ pc' = "mark" /\ ~ Over(scan) /\ UNCHANGED <<n, end, scan>>
    BY <1>7 DEF Delete, Goto, user
  <2>2. scan.pos # None /\ scan.pos # end /\ ~ scan.add
    BY <2>1 DEF Over
  <2>3. end # None => Slot(scan.pos) < Slot(end)
    BY <1>1, <2>2, Moves DEF ScanInv
  <2>4. QED
    BY <1>1, <2>1, <2>2, <2>3 DEF ScanInv
<1>8. CASE UNCHANGED vars
  BY <1>1, <1>8 DEF vars, ScanInv
<1>9. CASE Mark
  BY <1>1, <1>3, <1>9 DEF Mark, Return, user
<1>10. CASE \E r \in Records : HeapAppend(r)
  BY <1>1, <1>3, <1>10 DEF HeapAppend, disk, user, Appending
<1>11. CASE Reserve
  BY <1>1, <1>3, <1>11 DEF Reserve, disk, user, Appending
<1>12. CASE ExtendPage
  BY <1>1, <1>3, <1>12 DEF ExtendPage, Error, Return, disk, user, Appending
<1>13. CASE Extended
  BY <1>1, <1>3, <1>13 DEF Extended, AppendInv, Goto, user, Appending
<1>14. CASE Write
  BY <1>1, <1>3, <1>14 DEF Write, Error, Return, Goto, disk, user, Appending
<1>15. CASE SetBegin
  BY <1>1, <1>3, <1>15 DEF SetBegin, Goto, user, Appending
<1>16. CASE pc \in {"added", "check"} \cup Deleting
  <2>1. scan = NoScan
    BY <1>1, <1>16 DEF ScanInv, Appending, Deleting
  <2>2. \/ CommitAppend \/ AppendsDone \/ CheckDeleted \/ SkipOrFill \/ Fill \/ Copy
        \/ DeletesDone \/ Shrink \/ DropPage \/ Shrunk \/ Cut \/ UNCHANGED vars
    BY <1>16 DEF Next, Inside, User, HeapAppend, Reserve, ExtendPage, Extended, Write, SetBegin,
              SetEnd, Mark, Open, ScanNext, Close, Delete, Flush, Clear, Deleting
  <2>3. scan' = scan \/ scan' = NoScan
    BY <2>2 DEF Error, CommitAppend, AppendsDone, CheckDeleted, SkipOrFill, Fill, Copy, DeletesDone,
           Shrink, DropPage, Shrunk, Cut, CloseScan, vars, user
  <2>4. pc' # "mark"
    BY <1>16, <2>2 DEF Error, Return, Goto, CommitAppend, AppendsDone, CheckDeleted, SkipOrFill, Fill,
       Copy, DeletesDone, Shrink, DropPage, Shrunk, Cut, work, vars, Deleting
  <2>5. QED
    BY <1>2, <2>1, <2>3, <2>4
<1>17. CASE Close \/ Flush \/ Clear \/ Cut
  BY <1>2, <1>17 DEF Close, Flush, Clear, Cut, CloseScan, Return, work, user
<1>18. QED
  BY <1>4, <1>5, <1>6, <1>7, <1>8, <1>9, <1>10, <1>11, <1>12, <1>13, <1>14, <1>15, <1>16, <1>17
     DEF Next, Inside, User, CommitAppend, AppendsDone, CheckDeleted, SkipOrFill, Fill, Copy,
         DeletesDone, Shrink, DropPage, Shrunk, Deleting

(***************************************************************************)
(* The marks, and what is lost                                             *)
(***************************************************************************)
\* The steps that change neither the records nor where they end, and move none.
LEMMA Quiet ==
    ASSUME [Next]_vars,
           ~ (\/ Write \/ SetEnd \/ Mark \/ CommitAppend \/ Fill \/ Copy \/ Shrink \/ DropPage
              \/ Clear \/ Cut \/ Extended \/ UNCHANGED vars)
    PROVE  UNCHANGED <<mem, end, owed, cuts>> /\ pc # "copy" /\ pc' # "copy"
BY DEF Next, Inside, User, Error, Return, Goto, disk, work, HeapAppend, Reserve, ExtendPage,
       SetBegin, AppendsDone, CheckDeleted, SkipOrFill, DeletesDone, Shrunk,
       Open, ScanNext, Close, Delete, Flush

LEMMA LiveSlots ==
    ASSUME Types
    PROVE  /\ Slot(end) \in 0 .. MaxSlots /\ Live \subseteq Slots /\ Slots \subseteq Nat
           /\ \A j \in Slots : j \in Live <=> j < Slot(end)
<1>1. MaxSlots \in Nat /\ end \in Positions \cup {None} /\ Slots = 0 .. MaxSlots - 1
  BY Kinds
<1>2. Slot(end) \in 0 .. MaxSlots
  <2>1. \A p \in Positions : \E j \in 0 .. MaxSlots, form \in {"end", "start"} :
              p = <<j, IF Aliased(j) THEN form ELSE "in">>
    BY DEF Positions, At
  <2>2. QED
    BY <1>1, <2>1 DEF None, Slot
<1>3. QED
  BY <1>1, <1>2 DEF Live

LEMMA MarksKept ==
    ASSUME Types, Marks, Slot(end') \in Int, Slot(end') <= Slot(end), owed' \subseteq owed,
           \A j \in Slots : mem'[j] = mem[j] \/ mem'[j] = Junk
    PROVE  Marks'
<1>1. Live' \subseteq Live /\ Live' \subseteq Slots
  BY LiveSlots DEF Live
<1>2. Junk.id = "junk" /\ Junk.add = FALSE /\ Junk.del = FALSE
  BY DEF Junk
<1>3. \A j \in Slots : /\ mem'[j].id = "junk" => mem'[j] = Junk
                       /\ mem'[j].add => ~ mem'[j].del
  BY <1>2 DEF Marks
<1>4. \A j \in Live' : mem'[j].del => mem'[j].id \notin owed'
  BY <1>1, <1>2 DEF Marks
<1>5. \A i, j \in Live' : mem'[i].id = mem'[j].id => i = j \/ mem'[i].id = "junk"
  BY <1>1, <1>2 DEF Marks
<1>6. QED
  BY <1>3, <1>4, <1>5 DEF Marks, Slots

\* What each step that changes records does to one slot.
LEMMA MarkOne ==
    ASSUME Types, NEW j \in Slots, NEW r \in Record,
           mem' = [mem EXCEPT ![j] = r]
    PROVE  /\ mem'[j] = r /\ \A i \in Slots : i # j => mem'[i] = mem[i]
           /\ j \notin Live => \A i \in Live : mem'[i] = mem[i]
BY Kinds DEF Live

\* Junk without a mark is all alike.
LEMMA JunkOnly ==
    ASSUME NEW e \in Record, e.id = "junk", ~ e.add, ~ e.del
    PROVE  e = Junk
<1>1. e \in [id : {"junk"}, add : {FALSE}, del : {FALSE}]
  BY DEF Record
<1>2. ASSUME NEW f \in [id : {"junk"}, add : {FALSE}, del : {FALSE}]
      PROVE  f = [id |-> "junk", add |-> FALSE, del |-> FALSE]
  BY <1>2
<1>3. QED
  BY <1>1, <1>2 DEF Junk

LEMMA MarksStep ==
    ASSUME Straddling, IInv, [Next]_vars
    PROVE  Marks'
<1>1. /\ Types /\ Marks /\ TypeOK /\ AppendInv /\ FlushInv /\ ScanInv /\ Placed
      /\ MaxSlots \in Nat /\ Slots = 0 .. MaxSlots - 1
      /\ end \in Positions \cup {None} /\ cur \in Positions \cup {None}
      /\ mem \in [Slots -> Record] /\ last \in Record
      /\ Slot(end) \in 0 .. MaxSlots /\ Live \subseteq Slots
      /\ \A j \in Slots : j \in Live <=> j < Slot(end)
  BY Kinds, LiveSlots DEF IInv, Types
<1>2. CASE UNCHANGED <<mem, end, owed>>
  BY <1>1, <1>2 DEF Marks, Live
<1>3. CASE Write /\ InPages(end)
  <2>1. /\ pc = "write" /\ mem' = [mem EXCEPT ![Slot(end)] = last] /\ UNCHANGED <<end, owed>>
    BY <1>3 DEF Write
  <2>2. last.id \in Records /\ last.add /\ ~ last.del /\ Slot(end) < MaxSlots
    BY <1>1, <2>1 DEF AppendInv, Appending
  <2>3. Slot(end) \in Slots /\ Slot(end) \notin Live
    BY <1>1, <2>2
  <2>4. /\ mem'[Slot(end)] = last /\ \A i \in Slots : i # Slot(end) => mem'[i] = mem[i]
        /\ \A i \in Live : mem'[i] = mem[i]
    BY <1>1, <2>1, <2>3, MarkOne
  <2>5. last.id # "junk"
    BY <2>2, BoundsAssumption
  <2>6. Live' = Live /\ owed' = owed
    BY <2>1 DEF Live
  <2>7. /\ \A j \in Slots : mem'[j].id = "junk" => mem'[j] = Junk
        /\ \A j \in Slots : mem'[j].add => ~ mem'[j].del
    BY <1>1, <2>2, <2>4, <2>5 DEF Marks
  <2>8. /\ \A j \in Live' : mem'[j].del => mem'[j].id \notin owed'
        /\ \A i, j \in Live' : mem'[i].id = mem'[j].id => i = j \/ mem'[i].id = "junk"
    BY <1>1, <2>4, <2>6 DEF Marks
  <2>9. QED
    BY <2>7, <2>8 DEF Marks, Slots
<1>4. CASE SetEnd
  <2>1. /\ pc = "end" /\ end' = Following(end) /\ UNCHANGED <<mem, owed>>
    BY <1>4 DEF SetEnd
  <2>2. /\ last.id \in Records /\ ~ last.del /\ Slot(end) < MaxSlots
        /\ end # None /\ mem[Slot(end)] = last /\ Holding(last.id) = {}
    BY <1>1, <2>1 DEF AppendInv, Appending
  <2>3. Slot(end') = Slot(end) + 1
    BY <1>1, <2>1, <2>2, Moves
  <2>4. \A j \in Live' : j \in Live \/ j = Slot(end)
    BY <1>1, <2>3 DEF Live
  <2>5. \A j \in Live : mem[j].id # last.id
    BY <2>2 DEF Holding
  <2>6. /\ \A j \in Live' : mem[j].del => mem[j].id \notin owed
        /\ \A i, j \in Live' : mem[i].id = mem[j].id => i = j \/ mem[i].id = "junk"
    BY <1>1, <2>2, <2>4, <2>5 DEF Marks
  <2>7. QED
    BY <1>1, <2>1, <2>6 DEF Marks
<1>5. CASE Mark
  <2>1. PICK k \in Slots : /\ k = Slot(scan.pos) /\ mem' = (IF mem[k].id = "junk" THEN mem
                                    ELSE [mem EXCEPT ![k].add = FALSE, ![k].del = TRUE])
                           /\ owed' = owed \ {mem[k].id} /\ end' = end
    <3>1. scan.pos \in Positions \cup {None} /\ scan.pos # None /\ Slot(scan.pos) < MaxSlots
      BY <1>1, <1>5, Kinds DEF Mark, ScanInv
    <3>2. Slot(scan.pos) \in Slots
      BY <1>1, <3>1, Forms
    <3>3. QED
      BY <1>5, <3>2 DEF Mark
  <2>2. CASE mem[k].id = "junk"
    <3>1. mem' = mem /\ owed' \subseteq owed /\ end' = end
      BY <2>1, <2>2
    <3>2. QED
      BY <1>1, <3>1, MarksKept
  <2>3. CASE mem[k].id # "junk"
    <3>1. /\ mem'[k].id = mem[k].id /\ ~ mem'[k].add /\ mem'[k].del
          /\ \A i \in Slots : i # k => mem'[i] = mem[i]
      BY <1>1, <2>1, <2>3 DEF Record
    <3>2. Live' = Live /\ owed' = owed \ {mem[k].id}
      BY <2>1 DEF Live
    <3>3. \A j \in Slots : mem'[j].id = mem[j].id
      BY <3>1
    <3>4. \A j \in Slots : /\ mem'[j].id = "junk" => mem'[j] = Junk
                           /\ mem'[j].add => ~ mem'[j].del
      BY <1>1, <2>3, <3>1 DEF Marks
    <3>5. \A j \in Live' : mem'[j].del => mem'[j].id \notin owed'
      BY <1>1, <3>1, <3>2 DEF Marks
    <3>6. \A i, j \in Live' : mem'[i].id = mem'[j].id => i = j \/ mem'[i].id = "junk"
      BY <1>1, <3>2, <3>3 DEF Marks
    <3>7. QED
      BY <3>4, <3>5, <3>6 DEF Marks, Slots
  <2>4. QED
    BY <2>2, <2>3
<1>6. CASE CommitAppend
  <2>1. CASE InPages(cur)
    <3>1. /\ pc = "added" /\ cur # end /\ end' = end
          /\ \E b \in Read(Slot(cur)) :
                IF b.add
                THEN /\ mem' = IF b.id = "junk" THEN mem
                               ELSE [mem EXCEPT ![Slot(cur)].add = FALSE]
                     /\ owed' = owed \cup ({b.id} \cap Records)
                ELSE UNCHANGED <<mem, owed>>
      BY <1>6, <2>1 DEF CommitAppend
    <3>2. PICK b \in Read(Slot(cur)) :
                IF b.add
                THEN /\ mem' = IF b.id = "junk" THEN mem
                               ELSE [mem EXCEPT ![Slot(cur)].add = FALSE]
                     /\ owed' = owed \cup ({b.id} \cap Records)
                ELSE UNCHANGED <<mem, owed>>
      BY <3>1
    <3>3. PICK k \in Slots : k = Slot(cur)
      BY <1>1, <2>1, Onwards
    <3>4. CASE ~ b.add
      BY <1>2, <3>1, <3>2, <3>4
    <3>5. CASE b.add /\ b.id = "junk"
      <4>1. {b.id} \cap Records = {}
        BY <3>5, BoundsAssumption
      <4>2. QED
        BY <1>2, <3>1, <3>2, <3>5, <4>1
    <3>6. CASE b.add /\ b.id # "junk"
      <4>1. b = mem[k]
        BY <1>1, <3>2, <3>3, <3>6, Reads
      <4>2. mem' = [mem EXCEPT ![k].add = FALSE] /\ owed' \subseteq owed \cup {mem[k].id}
        BY <3>2, <3>3, <3>6, <4>1
      <4>3. /\ mem'[k].id = mem[k].id /\ ~ mem'[k].add /\ mem'[k].del = mem[k].del
            /\ \A i \in Slots : i # k => mem'[i] = mem[i]
        BY <1>1, <4>2 DEF Record
      <4>4. ~ mem[k].del
        BY <1>1, <3>6, <4>1 DEF Marks
      <4>5. \A j \in Slots : /\ mem'[j].id = "junk" => mem'[j] = Junk
                             /\ mem'[j].add => ~ mem'[j].del
        BY <1>1, <3>6, <4>1, <4>3 DEF Marks
      <4>6. Live' = Live
        BY <3>1 DEF Live
      <4>7. k \in Live
        <5>1. append_begin # None /\ Slot(cur) <= Slot(end)
          BY <1>1, <3>1 DEF FlushInv
        <5>2. end # None
          BY <1>1, <5>1 DEF Placed
        <5>3. Slot(cur) < Slot(end)
          BY <1>1, <2>1, <3>1, <5>1, <5>2, Onwards
        <5>4. QED
          BY <1>1, <3>3, <5>3
      <4>8. \A j \in Live : mem'[j].del => mem'[j].id \notin owed'
        <5>1. ASSUME NEW j \in Live, mem'[j].del
              PROVE  mem'[j].id \notin owed'
          <6>1. j # k /\ mem'[j] = mem[j]
            BY <1>1, <4>3, <4>4, <5>1
          <6>2. mem[j].id \notin owed
            BY <1>1, <5>1, <6>1 DEF Marks
          <6>3. mem[j].id # mem[k].id
            BY <1>1, <3>6, <4>1, <4>7, <6>1 DEF Marks
          <6>4. QED
            BY <4>2, <6>1, <6>2, <6>3
        <5>2. QED
          BY <5>1
      <4>9. \A i, j \in Live : mem'[i].id = mem'[j].id => i = j \/ mem'[i].id = "junk"
        <5>1. \A j \in Slots : mem'[j].id = mem[j].id
          BY <4>3
        <5>2. QED
          BY <1>1, <5>1 DEF Marks
      <4>10. QED
        BY <4>5, <4>6, <4>8, <4>9 DEF Marks, Slots
    <3>7. QED
      BY <3>4, <3>5, <3>6
  <2>2. CASE ~ InPages(cur)
    BY <1>2, <1>6, <2>2 DEF CommitAppend, Error, disk
  <2>3. QED
    BY <2>1, <2>2
<1>7. CASE Fill
  <2>1. CASE Error
    BY <1>2, <2>1 DEF Error, disk
  <2>2. CASE ~ Error
    <3>1. Slot(end') = Slot(end) - 1 /\ UNCHANGED <<mem, owed>>
      BY <1>7, <2>2, FillRound
    <3>2. Slot(end') \in Int /\ Slot(end') <= Slot(end) /\ owed' \subseteq owed
      BY <1>1, <3>1
    <3>3. QED
      BY <1>1, <3>1, <3>2, MarksKept
  <2>3. QED
    BY <2>1, <2>2
<1>8. CASE Copy
  <2>1. /\ pc = "copy" /\ mem' = [mem EXCEPT ![Slot(cur)] = last] /\ UNCHANGED <<end, owed>>
    BY <1>8 DEF Copy
  <2>2. /\ cur # None /\ end # None /\ Slot(cur) < Slot(end) /\ Slot(cur) < MaxSlots
        /\ ~ last.add /\ ~ last.del /\ (last.id \in Records => Holding(last.id) = {})
    BY <1>1, <2>1 DEF FlushInv
  <2>3. PICK k \in Slots : k = Slot(cur)
    BY <1>1, <2>2, Forms
  <2>4. mem'[k] = last /\ \A i \in Slots : i # k => mem'[i] = mem[i]
    BY <1>1, <2>1, <2>3, MarkOne
  <2>5. last.id \in Records \/ (last.id = "junk" /\ last = Junk)
    <3>1. last.id \in Records \/ last.id = "junk"
      BY <1>1 DEF Record
    <3>2. QED
      BY <1>1, <2>2, <3>1, JunkOnly
  <2>6. Live' = Live /\ owed' = owed
    BY <2>1 DEF Live
  <2>7. \A j \in Slots : /\ mem'[j].id = "junk" => mem'[j] = Junk
                         /\ mem'[j].add => ~ mem'[j].del
    BY <1>1, <2>2, <2>4, <2>5, BoundsAssumption DEF Marks
  <2>8. \A j \in Live : mem'[j].del => mem'[j].id \notin owed
    BY <1>1, <2>2, <2>4 DEF Marks
  <2>9. \A j \in Live : last.id # "junk" => mem[j].id # last.id
    BY <2>2, <2>5 DEF Holding
  <2>10. \A i, j \in Live : mem'[i].id = mem'[j].id => i = j \/ mem'[i].id = "junk"
    BY <1>1, <2>4, <2>9 DEF Marks
  <2>11. QED
    BY <2>6, <2>7, <2>8, <2>10 DEF Marks, Slots
<1>9. CASE Shrink
  <2>1. Slot(end') = Slot(end) /\ UNCHANGED <<mem, owed>>
    BY <1>1, <1>9, Forms DEF Shrink, None, Slot
  <2>2. QED
    BY <1>1, <2>1, MarksKept
<1>10. CASE Extended
  <2>1. Slot(end') = Slot(end) /\ UNCHANGED <<mem, owed>>
    <3>1. cur = First => end = None
      BY <1>1, <1>10 DEF Extended, AppendInv
    <3>2. QED
      BY <1>10, <3>1, Forms DEF Extended, None, Slot
  <2>2. QED
    BY <1>1, <2>1, MarksKept
<1>11. CASE DropPage
  <2>1. end' = end /\ owed' = owed
    BY <1>11 DEF DropPage
  <2>2. \A j \in Slots : mem'[j] = mem[j] \/ mem'[j] = Junk
    BY <1>11 DEF DropPage
  <2>3. QED
    BY <1>1, <2>1, <2>2, MarksKept
<1>12. CASE Clear
  <2>1. Slot(end') = 0 /\ owed' \subseteq owed
    BY <1>12, Forms DEF Clear
  <2>2. \A j \in Slots : mem'[j] = mem[j] \/ mem'[j] = Junk
    BY <1>12 DEF Clear
  <2>3. QED
    BY <1>1, <2>1, <2>2, MarksKept
<1>13. CASE Cut
  <2>1. end' = end /\ owed' = owed
    BY <1>13 DEF Cut
  <2>2. \A j \in Slots : mem'[j] = mem[j] \/ mem'[j] = Junk
    BY <1>1, <1>13 DEF Cut
  <2>3. QED
    BY <1>1, <2>1, <2>2, MarksKept
<1>14. Write => InPages(end) \/ UNCHANGED <<mem, end, owed>>
  BY DEF Write, Error, disk
<1>15. UNCHANGED vars => UNCHANGED <<mem, end, owed>>
  BY DEF vars
<1>16. QED
  BY <1>2, <1>3, <1>4, <1>5, <1>6, <1>7, <1>8, <1>9, <1>10, <1>11, <1>12, <1>13, <1>14, <1>15, Quiet

\* The pages that shrinking gives back hold no record of the heap.
LEMMA DropsNothing ==
    ASSUME Straddling, IInv, DropPage
    PROVE  \A j \in Live : (j + 1) * RecordBytes <= n' * PageBytes
<1>1. /\ Types /\ Placed /\ n \in Nat /\ MaxSlots \in Nat /\ end \in Positions \cup {None}
      /\ Slot(end) \in 0 .. MaxSlots /\ Slots \subseteq Nat /\ Live \subseteq Slots
      /\ \A j \in Slots : j \in Live <=> j < Slot(end)
  BY Kinds, LiveSlots DEF IInv
<1>2. n > 0 /\ n' = n - 1 /\ (end = None \/ PageOf(end) # n - 1)
  BY DEF DropPage
<1>3. SUFFICES ASSUME NEW j \in Live
               PROVE  Bytes(j + 1) <= Capacity(n - 1)
  BY <1>2 DEF Bytes, Capacity
<1>4. j + 1 <= Slot(end) /\ j + 1 \in Int /\ Slot(end) \in Int /\ Slot(end) # 0
  BY <1>1
<1>5. end # None
  BY <1>4, Forms
<1>6. PageOf(end) \in Int /\ PageOf(end) < n
  BY <1>1, <1>5, PageBytesOf DEF Placed
<1>7. PageOf(end) < n - 1 /\ n - 1 \in Int
  BY <1>1, <1>2, <1>5, <1>6
<1>8. Bytes(Slot(end)) < Capacity(n - 1)
  BY <1>1, <1>5, <1>7, PageBytesOf
<1>9. /\ Bytes(j + 1) <= Bytes(Slot(end)) /\ Bytes(j + 1) \in Int
      /\ Bytes(Slot(end)) \in Int /\ Capacity(n - 1) \in Int
  <2>1. Bytes(j + 1) \in Int /\ Bytes(j + 1) <= Bytes(Slot(end))
    BY <1>4, Increasing, Sizes
  <2>2. Bytes(Slot(end)) \in Int
    BY <1>4, Sizes
  <2>3. Capacity(n - 1) \in Int
    BY <1>7, Sizes
  <2>4. QED
    BY <2>1, <2>2, <2>3
<1>10. QED
  BY <1>8, <1>9

\* Who is held stays held, and nobody new is owed: then nobody new is lost.
LEMMA LostKept ==
    ASSUME FewLost, Types, cuts' = cuts,
           \A r \in owed' : Holding(r)' = {} /\ ~ Carried(r)' => r \in Lost
    PROVE  FewLost'
<1>1. Lost' \subseteq Lost
  BY DEF Lost
<1>2. IsFiniteSet(Lost') /\ Cardinality(Lost') <= Cardinality(Lost)
  BY <1>1, FS_Subset DEF FewLost
<1>3. Cardinality(Lost) \in Nat /\ Cardinality(Lost') \in Nat /\ cuts \in Nat
  BY <1>2, FS_CardinalityType, Kinds DEF FewLost
<1>4. QED
  BY <1>2, <1>3 DEF FewLost

LEMMA LostStep ==
    ASSUME Straddling, IInv, [Next]_vars
    PROVE  FewLost'
<1>1. /\ Types /\ Marks /\ TypeOK /\ AppendInv /\ FlushInv /\ Placed /\ FewLost
      /\ MaxSlots \in Nat /\ Slots = 0 .. MaxSlots - 1
      /\ end \in Positions \cup {None} /\ cur \in Positions \cup {None}
      /\ mem \in [Slots -> Record] /\ owed \subseteq Records /\ "junk" \notin Records
      /\ Slot(end) \in 0 .. MaxSlots /\ Live \subseteq Slots
      /\ \A j \in Slots : j \in Live <=> j < Slot(end)
  BY Kinds, LiveSlots, BoundsAssumption DEF IInv, Types, TypeOK
\* The records of the heap are where they were, or more are.
<1>2. CASE /\ pc # "copy" /\ cuts' = cuts /\ owed' \subseteq owed
           /\ \A j \in Live : j \in Live' /\ mem'[j].id = mem[j].id
  <2>1. ASSUME NEW r \in owed', Holding(r)' = {}
        PROVE  r \in Lost
    BY <1>2, <2>1 DEF Lost, Holding, Carried
  <2>2. QED
    BY <1>1, <1>2, <2>1, LostKept
<1>3. CASE UNCHANGED <<mem, end, owed, cuts>> /\ pc # "copy"
  BY <1>2, <1>3 DEF Live
<1>4. CASE Write /\ InPages(end)
  <2>1. /\ pc = "write" /\ mem' = [mem EXCEPT ![Slot(end)] = last] /\ UNCHANGED <<end, owed, cuts>>
        /\ last \in Record
    BY <1>1, <1>4 DEF Write, TypeOK
  <2>2. Slot(end) < MaxSlots
    BY <1>1, <2>1 DEF AppendInv, Appending
  <2>3. Slot(end) \in Slots /\ Slot(end) \notin Live
    BY <1>1, <2>2
  <2>4. \A i \in Live : mem'[i] = mem[i]
    BY <1>1, <2>1, <2>3, MarkOne
  <2>5. QED
    BY <1>2, <2>1, <2>4 DEF Live
<1>5. CASE SetEnd
  <2>1. /\ pc = "end" /\ end' = Following(end) /\ UNCHANGED <<mem, owed, cuts>>
    BY <1>5 DEF SetEnd
  <2>2. Slot(end) < MaxSlots /\ end # None
    BY <1>1, <2>1 DEF AppendInv, Appending
  <2>3. Slot(end') = Slot(end) + 1
    BY <1>1, <2>1, <2>2, Moves
  <2>4. \A j \in Live : j \in Live'
    BY <1>1, <2>3 DEF Live
  <2>5. QED
    BY <1>2, <2>1, <2>4
<1>6. CASE Mark
  <2>1. pc = "mark" /\ end' = end /\ cuts' = cuts /\ owed' \subseteq owed
    BY <1>6 DEF Mark
  <2>2. \A j \in Slots : mem'[j].id = mem[j].id
    BY <1>1, <1>6 DEF Mark, Record
  <2>3. QED
    BY <1>1, <1>2, <2>1, <2>2 DEF Live
<1>7. CASE CommitAppend
  <2>1. CASE InPages(cur)
    <3>1. /\ pc = "added" /\ cur # end /\ end' = end /\ cuts' = cuts
      BY <1>7, <2>1 DEF CommitAppend
    <3>2. PICK b \in Read(Slot(cur)) :
                IF b.add
                THEN /\ mem' = IF b.id = "junk" THEN mem
                               ELSE [mem EXCEPT ![Slot(cur)].add = FALSE]
                     /\ owed' = owed \cup ({b.id} \cap Records)
                ELSE UNCHANGED <<mem, owed>>
      BY <1>7, <2>1 DEF CommitAppend
    <3>3. Slot(cur) \in Slots
      BY <1>1, <2>1, Onwards
    <3>4. \A j \in Slots : mem'[j].id = mem[j].id
      BY <1>1, <3>2, <3>3 DEF Record
    <3>5. \A r \in Records : Holding(r)' = Holding(r)
      BY <1>1, <3>1, <3>4 DEF Holding, Live
    <3>6. ASSUME NEW r \in owed', Holding(r)' = {}
          PROVE  r \in Lost
      <4>1. r \in owed \/ (r = b.id /\ r \in Records)
        BY <3>2
      <4>2. r \in Records /\ Holding(r) = {}
        BY <1>1, <3>5, <3>6, <4>1
      <4>3. ASSUME r = b.id
            PROVE  FALSE
        <5>1. b = mem[Slot(cur)]
          BY <1>1, <3>2, <3>3, <4>2, <4>3, Reads
        <5>2. append_begin # None /\ Slot(cur) <= Slot(end)
          BY <1>1, <3>1 DEF FlushInv
        <5>3. end # None
          BY <1>1, <5>2 DEF Placed
        <5>4. Slot(cur) < Slot(end)
          BY <1>1, <2>1, <3>1, <5>2, <5>3, Onwards
        <5>5. Slot(cur) \in Holding(r)
          BY <1>1, <3>3, <4>3, <5>1, <5>4 DEF Holding
        <5>6. QED
          BY <4>2, <5>5
      <4>4. QED
        BY <3>1, <4>1, <4>2, <4>3 DEF Lost, Carried
    <3>7. QED
      BY <1>1, <3>1, <3>6, LostKept
  <2>2. CASE ~ InPages(cur)
    BY <1>3, <1>7, <2>2 DEF CommitAppend, Error, disk
  <2>3. QED
    BY <2>1, <2>2
<1>8. CASE Fill
  <2>1. CASE Error
    BY <1>3, <1>8, <2>1 DEF Fill, Error, disk
  <2>2. CASE ~ Error
    <3>1. /\ pc = "fill" /\ Slot(end) - 1 \in Slots /\ Slot(end') = Slot(end) - 1
          /\ pc' = "deleted" => Slot(end') = Slot(cur)
          /\ pc' \in {"deleted", "fill", "copy"} /\ UNCHANGED <<mem, owed, cuts>>
      BY <1>8, <2>2, FillRound
    <3>2. PICK b \in Read(Slot(end) - 1) :
             /\ pc' = "fill" => b.del
             /\ pc' = "copy" => last' = b
      BY <1>8, <2>2, FillRound
    <3>3. Gone(Slot(cur))
      BY <1>1, <3>1 DEF FlushInv
    <3>4. Slot(end) - 1 \in Live /\ \A j \in Live : j \in Live' \/ j = Slot(end) - 1
      BY <1>1, <3>1 DEF Live
    <3>5. ASSUME NEW r \in owed', Holding(r)' = {}, ~ Carried(r)'
          PROVE  r \in Lost
      <4>1. r \in owed /\ r \in Records /\ r # "junk"
        BY <1>1, <3>1
      <4>2. ASSUME mem[Slot(end) - 1].id = r
            PROVE  FALSE
        <5>1. b = mem[Slot(end) - 1]
          BY <1>1, <3>1, <3>2, <4>1, <4>2, Reads
        <5>2. ~ mem[Slot(end) - 1].del
          BY <1>1, <3>4, <4>1, <4>2 DEF Marks
        <5>3. CASE pc' = "copy"
          BY <3>2, <3>5, <4>2, <5>1, <5>3 DEF Carried
        <5>4. CASE pc' = "fill"
          BY <3>2, <5>1, <5>2, <5>4
        <5>5. CASE pc' = "deleted"
          BY <3>1, <3>3, <4>1, <4>2, <5>2, <5>5 DEF Gone
        <5>6. QED
          BY <3>1, <5>3, <5>4, <5>5
      <4>3. \A j \in Live : mem[j].id # r
        BY <3>1, <3>4, <3>5, <4>2 DEF Holding
      <4>4. QED
        BY <3>1, <4>1, <4>3 DEF Lost, Holding, Carried
    <3>6. QED
      BY <1>1, <3>1, <3>5, LostKept
  <2>3. QED
    BY <2>1, <2>2
<1>9. CASE Copy
  <2>1. /\ pc = "copy" /\ pc' = "deleted" /\ mem' = [mem EXCEPT ![Slot(cur)] = last]
        /\ UNCHANGED <<end, owed, cuts>> /\ last \in Record
    BY <1>1, <1>9 DEF Copy, TypeOK
  <2>2. /\ cur # None /\ end # None /\ Slot(cur) < Slot(end) /\ Slot(cur) < MaxSlots
        /\ Gone(Slot(cur))
    BY <1>1, <2>1 DEF FlushInv
  <2>3. Slot(cur) \in Slots /\ Slot(cur) \in Live
    <3>1. Slot(cur) \in Slots
      BY <1>1, <2>2, Forms
    <3>2. QED
      BY <1>1, <2>2, <3>1
  <2>4. mem'[Slot(cur)] = last /\ \A i \in Slots : i # Slot(cur) => mem'[i] = mem[i]
    BY <1>1, <2>1, <2>3, MarkOne
  <2>5. Live' = Live
    BY <2>1 DEF Live
  <2>6. ASSUME NEW r \in owed', Holding(r)' = {}
        PROVE  r \in Lost
    <3>1. r \in owed /\ r # "junk"
      BY <1>1, <2>1
    <3>2. \A j \in Live : mem'[j].id # r
      BY <2>5, <2>6 DEF Holding
    <3>3. last.id # r
      BY <2>3, <2>4, <3>2
    <3>4. mem[Slot(cur)].id # r
      BY <1>1, <2>2, <2>3, <3>1 DEF Gone, Marks
    <3>5. \A j \in Live : mem[j].id # r
      BY <1>1, <2>4, <3>2, <3>4
    <3>6. QED
      BY <3>1, <3>3, <3>5 DEF Lost, Holding, Carried
  <2>7. QED
    BY <1>1, <2>1, <2>6, LostKept
<1>10. CASE Shrink
  <2>1. pc = "shrink" /\ Slot(end') = Slot(end) /\ UNCHANGED <<mem, owed, cuts>>
    BY <1>1, <1>10, Forms DEF Shrink, None, Slot
  <2>2. QED
    BY <1>1, <1>2, <2>1 DEF Live
<1>11. CASE Extended
  <2>1. pc = "extend" /\ Slot(end') = Slot(end) /\ UNCHANGED <<mem, owed, cuts>>
    <3>1. cur = First => end = None
      BY <1>1, <1>11 DEF Extended, AppendInv
    <3>2. QED
      BY <1>11, <3>1, Forms DEF Extended, None, Slot
  <2>2. QED
    BY <1>1, <1>2, <2>1 DEF Live
<1>12. CASE DropPage
  <2>1. pc = "pages" /\ UNCHANGED <<end, owed, cuts>>
    BY <1>12 DEF DropPage
  <2>2. \A j \in Live : (j + 1) * RecordBytes <= n' * PageBytes
    BY <1>12, DropsNothing
  <2>3. \A j \in Live : mem'[j] = mem[j]
    BY <1>1, <1>12, <2>2 DEF DropPage
  <2>4. QED
    BY <1>2, <2>1, <2>3 DEF Live
<1>13. CASE Clear
  <2>1. owed' = {} /\ cuts' = cuts
    BY <1>13 DEF Clear
  <2>2. QED
    BY <1>1, <2>1, LostKept
<1>14. CASE Cut
  <2>1. /\ pc # "idle" /\ cuts' = cuts + 1 /\ pc' = "idle" /\ UNCHANGED <<end, owed>>
        /\ \/ UNCHANGED mem
           \/ pc = "write" /\ InPages(end) /\ mem' = [mem EXCEPT ![Slot(end)] = Junk]
           \/ pc = "copy" /\ mem' = [mem EXCEPT ![Slot(cur)] = Junk]
    BY <1>14 DEF Cut, Return
  <2>2. Live' = Live
    BY <2>1 DEF Live
  <2>3. ASSUME NEW j \in Live, mem[j].id \in owed
        PROVE  mem'[j] = mem[j]
    <3>1. CASE pc = "write" /\ InPages(end) /\ mem' = [mem EXCEPT ![Slot(end)] = Junk]
      BY <1>1, <3>1
    <3>2. CASE pc = "copy" /\ mem' = [mem EXCEPT ![Slot(cur)] = Junk]
      <4>1. Gone(Slot(cur))
        BY <1>1, <3>2 DEF FlushInv
      <4>2. j # Slot(cur)
        BY <1>1, <2>3, <4>1 DEF Gone, Marks
      <4>3. QED
        BY <1>1, <3>2, <4>2
    <3>3. QED
      BY <2>1, <3>1, <3>2
  <2>4. Lost' \subseteq Lost \cup {last.id}
    <3>1. ASSUME NEW r \in Lost', r # last.id
          PROVE  r \in Lost
      <4>1. r \in owed /\ \A j \in Live : mem'[j].id # r
        BY <2>1, <2>2, <3>1 DEF Lost, Holding
      <4>2. \A j \in Live : mem[j].id # r
        BY <2>3, <4>1
      <4>3. QED
        BY <3>1, <4>1, <4>2 DEF Lost, Holding, Carried
    <3>2. QED
      BY <3>1
  <2>5. /\ IsFiniteSet(Lost \cup {last.id}) /\ Cardinality(Lost \cup {last.id}) <= Cardinality(Lost) + 1
        /\ Cardinality(Lost \cup {last.id}) \in Nat /\ Cardinality(Lost) \in Nat
    <3>1. IsFiniteSet(Lost) /\ Cardinality(Lost) \in Nat
      BY <1>1, FS_CardinalityType DEF FewLost
    <3>2. /\ IsFiniteSet(Lost \cup {last.id})
          /\ Cardinality(Lost \cup {last.id}) = Cardinality(Lost) + (IF last.id \in Lost THEN 0 ELSE 1)
      BY <3>1, FS_AddElement
    <3>3. QED
      BY <3>1, <3>2
  <2>6. IsFiniteSet(Lost') /\ Cardinality(Lost') <= Cardinality(Lost \cup {last.id})
    BY <2>4, <2>5, FS_Subset
  <2>7. Cardinality(Lost') \in Nat /\ cuts \in Nat
    BY <1>1, <2>6, FS_CardinalityType, Kinds
  <2>8. QED
    BY <1>1, <2>1, <2>5, <2>6, <2>7 DEF FewLost
<1>15. CASE UNCHANGED vars
  <2>1. Lost' = Lost /\ cuts' = cuts
    BY <1>15 DEF vars, Lost, Holding, Live, Carried
  <2>2. QED
    BY <1>1, <2>1 DEF FewLost
<1>16. Write => InPages(end) \/ (UNCHANGED <<mem, end, owed, cuts>> /\ pc # "copy")
  BY DEF Write, Error, disk
<1>17. QED
  BY <1>3, <1>4, <1>5, <1>6, <1>7, <1>8, <1>9, <1>10, <1>11, <1>12, <1>13, <1>14, <1>15, <1>16, Quiet

(***************************************************************************)
(* As long as nothing failed                                               *)
(***************************************************************************)
\* A flush that has not come to the end of the heap is in its pages.
LEMMA FlushInside ==
    ASSUME Straddling, IInv, pc \in {"added", "deleted"}, end # None, cur # end
    PROVE  InPages(cur) /\ Slot(cur) \in Live
<1>1. /\ Types /\ Placed /\ FlushInv /\ n \in Nat /\ MaxSlots \in Nat
      /\ end \in Positions /\ cur \in Positions \cup {None}
      /\ Slot(end) \in 0 .. MaxSlots
      /\ \A j \in Slots : j \in Live <=> j < Slot(end)
      /\ Slots = 0 .. MaxSlots - 1
  BY Kinds, LiveSlots DEF IInv
<1>2. cur # None /\ cur \in Positions /\ Slot(cur) <= Slot(end)
  BY <1>1 DEF FlushInv
<1>3. Slot(cur) \in 0 .. MaxSlots /\ Slot(cur) # Slot(end)
  BY <1>1, <1>2, Forms, Moves
<1>4. Slot(cur) + 1 <= Slot(end) /\ Slot(cur) + 1 \in Int /\ Slot(end) \in Int /\ n \in Int
  BY <1>1, <1>2, <1>3
<1>5. Bytes(Slot(cur) + 1) <= Bytes(Slot(end)) /\ Bytes(Slot(cur) + 1) \in Int
  BY <1>4, Increasing, Sizes
<1>6. Bytes(Slot(end)) < Capacity(n) /\ Bytes(Slot(end)) \in Int
  BY <1>1, <1>4, Sizes DEF Placed
<1>7. Capacity(n) \in Int
  BY <1>4, Sizes
<1>8. Bytes(Slot(cur) + 1) <= Capacity(n)
  BY <1>5, <1>6, <1>7
<1>9. InPages(cur)
  BY <1>1, <1>2, <1>3, <1>4, <1>8, InPagesMeans
<1>10. QED
  BY <1>1, <1>3, <1>4, <1>9

\* Nothing read in the heap is junk.
LEMMA CleanReads ==
    ASSUME Types, Clean, NEW j \in Live, NEW b \in Read(j)
    PROVE  b = mem[j] /\ b.id \in Records /\ b.id # "junk"
<1>1. j \in Slots /\ mem \in [Slots -> Record] /\ mem[j].id # "junk"
  BY LiveSlots, Kinds DEF Clean
<1>2. b = mem[j]
  BY <1>1, Reads DEF Types
<1>3. QED
  BY <1>1, <1>2 DEF Record

\* heap_record_fill does not fail.
LEMMA FillNeverFails ==
    ASSUME Straddling, IInv, cuts = 0, Fill
    PROVE  ~ Error
<1>1. SUFFICES ASSUME Error
               PROVE  FALSE
  OBVIOUS
<1>2. /\ Types /\ Placed /\ FlushInv /\ InTail /\ Clean /\ pc = "fill" /\ pc' = "idle"
      /\ Slots \subseteq Nat /\ Live \subseteq Slots
      /\ \A j \in Slots : j \in Live <=> j < Slot(end)
      /\ Slot(end) \in 0 .. MaxSlots /\ MaxSlots \in Nat
      /\ end \in Positions \cup {None} /\ cur \in Positions \cup {None}
      /\ n \in Nat /\ Slots = 0 .. MaxSlots - 1
  BY <1>1, Kinds, LiveSlots DEF IInv, Sound, Fill, Error, Return
<1>3. end # None /\ append_begin = None /\ Slot(cur) < Slot(end) /\ cur # None
  BY <1>2 DEF InTail, FlushInv, Deleting
<1>4. Slot(cur) \in 0 .. MaxSlots
  BY <1>2, <1>3, Forms
<1>5. Slot(end) > 0 /\ Slot(end) - 1 \in Live
  BY <1>2, <1>3, <1>4
<1>6. PageOf(end) < n /\ PageOf(end) \in Int
  BY <1>2, <1>3, PageBytesOf DEF Placed
<1>7. ASSUME NEW b \in Read(Slot(end) - 1)
      PROVE  ~ b.add
  BY <1>2, <1>3, <1>5, CleanReads DEF Clean, Committed
<1>8. ~ (end = None \/ Slot(end) = 0 \/ PageOf(end) >= n)
  BY <1>2, <1>3, <1>5, <1>6
<1>9. pc' \in {"deleted", "fill", "copy"}
  BY <1>7, <1>8 DEF Fill, Goto
<1>10. QED
  BY <1>2, <1>9

\* heap_extend_page does not fail.
LEMMA ExtendNeverFails ==
    ASSUME Straddling, IInv, cuts = 0, ExtendPage
    PROVE  n < MaxPages
<1>1. /\ Types /\ InTail /\ AppendInv /\ pc = "extend" /\ todo > 0
      /\ n \in Nat /\ todo \in Nat /\ MaxSlots \in Nat /\ MaxPages \in Nat
      /\ Slot(end) \in 0 .. MaxSlots
  BY Kinds, LiveSlots, PageBound DEF IInv, Sound, ExtendPage
<1>2. Slot(end) < MaxSlots /\ Capacity(n + todo - 1) < Bytes(Slot(end) + 1)
  BY <1>1 DEF AppendInv, Appending, InTail
<1>3. Slot(end) + 1 <= MaxSlots /\ Slot(end) + 1 \in Int /\ MaxSlots \in Int
      /\ n + todo - 1 \in Int
  BY <1>1, <1>2
<1>4. Bytes(Slot(end) + 1) <= Bytes(MaxSlots) /\ Bytes(Slot(end) + 1) \in Int
  BY <1>3, Increasing, Sizes
<1> DEFINE full == PagesFor(MaxSlots * RecordBytes)
<1>5. Bytes(MaxSlots) <= Capacity(full) /\ full <= MaxPages
  BY PageBound DEF Bytes
<1>6. full \in Nat
  <2>1. MaxSlots * RecordBytes \in Nat /\ MaxSlots * RecordBytes # 0
    <3>1. Bytes(0) < Bytes(MaxSlots)
      <4>1. Bytes(0) = 0 /\ Bytes(1) = RecordBytes /\ RecordBytes \in Nat \ {0}
        <5>1. Bytes(0) = 0 /\ Bytes(0 + 1) = Bytes(0) + RecordBytes /\ RecordBytes \in Nat \ {0}
          BY Sizes
        <5>2. QED
          BY <5>1
      <4>2. 1 <= MaxSlots
        BY <1>1, <1>2
      <4>3. Bytes(1) <= Bytes(MaxSlots) /\ Bytes(MaxSlots) \in Int
        BY <1>3, <4>2, Increasing, Sizes
      <4>4. QED
        BY <4>1, <4>3
    <3>2. Bytes(MaxSlots) \in Int /\ Bytes(0) = 0
      BY <1>3, Sizes
    <3>3. QED
      BY <3>1, <3>2 DEF Bytes
  <2>2. QED
    BY <2>1, Needed
<1> HIDE DEF full
<1>7. Capacity(n + todo - 1) < Capacity(full)
  <2>1. Capacity(n + todo - 1) \in Int /\ Capacity(full) \in Int /\ Bytes(MaxSlots) \in Int
    BY <1>3, <1>6, Sizes
  <2>2. QED
    BY <1>2, <1>4, <1>5, <2>1
<1>8. n + todo - 1 < full
  BY <1>3, <1>6, <1>7, Increasing
<1>9. QED
  BY <1>1, <1>5, <1>6, <1>8

LEMMA ReserveNoMore ==
    ASSUME Straddling, IInv, cuts = 0, Reserve
    PROVE  /\ cur' = First \/ end # None
           /\ Capacity(n + todo' - 1) < Bytes(Slot(end) + 1)
<1>1. /\ Types /\ Placed /\ InTail /\ pc = "reserve"
      /\ n \in Nat /\ RecordBytes \in Nat \ {0} /\ PageBytes \in Nat \ {0}
      /\ end \in Positions \cup {None} /\ Slot(end) \in 0 .. MaxSlots
  BY Kinds, LiveSlots, GeometryAssumption DEF IInv, Sound, Reserve
<1>2. /\ Bytes(Slot(end)) \in Nat /\ Bytes(Slot(end) + 1) = Bytes(Slot(end)) + RecordBytes
      /\ Capacity(n) \in Int /\ Capacity(n - 1) = Capacity(n) - PageBytes
      /\ Capacity(0) = 0 /\ Bytes(0) = 0
  BY <1>1, Slotted, Paged
<1>3. CASE n = 0
  <2>1. cur' = First /\ todo' = PagesFor(RecordBytes) /\ end = None
    BY <1>1, <1>3 DEF Reserve, Placed
  <2>2. Capacity(PagesFor(RecordBytes) - 1) < RecordBytes /\ PagesFor(RecordBytes) \in Nat
    BY <1>1, Needed
  <2>3. n + todo' - 1 = PagesFor(RecordBytes) - 1
    BY <1>3, <2>1, <2>2
  <2>4. QED
    BY <1>1, <1>2, <2>1, <2>2, <2>3, Forms
<1>4. CASE n # 0
  <2>1. Ending /\ n - 1 \in Int
    BY <1>1, <1>4 DEF InTail, Deleting
  <2>2. PageOf(end) = n - 1
    <3>1. end \in Positions
      BY <1>1, <2>1 DEF Ending
    <3>2. PageOf(end) \in Int /\ n - 1 <= PageOf(end) /\ PageOf(end) < n
      BY <1>1, <2>1, <3>1, PageBytesOf DEF Ending, Placed
    <3>3. QED
      BY <1>1, <3>2
  <2>3. PICK free \in Int : /\ free = Capacity(n) - Bytes(Slot(end))
                            /\ todo' = IF free >= RecordBytes THEN 0 ELSE PagesFor(RecordBytes - free)
    <3>1. Capacity(n) - Bytes(Slot(end)) \in Int
      BY <1>2
    <3>2. QED
      BY <1>1, <1>4, <2>1, <2>2, <3>1 DEF Reserve, Capacity, Bytes, Ending
  <2>4. CASE free >= RecordBytes
    <3>1. todo' = 0 /\ n + todo' - 1 = n - 1
      BY <1>1, <2>3, <2>4
    <3>2. QED
      BY <1>1, <1>2, <2>1, <3>1 DEF Ending
  <2>5. CASE ~ free >= RecordBytes
    <3>1. RecordBytes - free \in Nat \ {0} /\ todo' = PagesFor(RecordBytes - free)
      BY <1>1, <2>3, <2>5
    <3>2. PICK t \in Nat : /\ t = todo' /\ Capacity(t - 1) < RecordBytes - free
      BY <3>1, Needed
    <3>3. Capacity(n + (t - 1)) = Capacity(n) + Capacity(t - 1) /\ Capacity(t - 1) \in Int
      <4>1. t - 1 \in Int /\ n \in Int
        BY <1>1, <3>2
      <4>2. QED
        BY <4>1, Increasing, Sizes
    <3>4. n + todo' - 1 = n + (t - 1)
      BY <1>1, <3>2
    <3>5. QED
      BY <1>1, <1>2, <2>1, <2>3, <3>2, <3>3, <3>4 DEF Ending
  <2>6. QED
    BY <2>4, <2>5
<1>5. QED
  BY <1>3, <1>4

\* The steps outside of InTail's cases.
LEMMA TailKept ==
    ASSUME InTail, UNCHANGED <<n, end>>,
           {pc, pc'} \cap ({"extend", "write", "begin", "end"} \cup Deleting) = {}
    PROVE  InTail'
BY DEF InTail, Ending, Deleting

LEMMA TailStep ==
    ASSUME Straddling, IInv, cuts = 0, cuts' = 0, [Next]_vars
    PROVE  InTail'
<1>1. /\ Types /\ Placed /\ InTail /\ Clean /\ AppendInv /\ FlushInv
      /\ n \in Nat /\ todo \in Nat /\ MaxSlots \in Nat
      /\ end \in Positions \cup {None} /\ Slot(end) \in 0 .. MaxSlots
      /\ First # None /\ Slot(First) = 0 /\ Slot(None) = 0
  <2>1. First # None /\ Slot(First) = 0 /\ Slot(None) = 0
    BY Forms DEF Slot
  <2>3. QED
    BY <2>1, Kinds, LiveSlots DEF IInv, Sound
<1>2. CASE \E r \in Records : HeapAppend(r)
  BY <1>1, <1>2, TailKept DEF HeapAppend, disk, Deleting
<1>3. CASE Reserve
  <2>1. pc' = "extend" /\ UNCHANGED <<n, end>>
    BY <1>3 DEF Reserve, disk
  <2>2. QED
    BY <1>3, <2>1, ReserveNoMore DEF InTail, Deleting
<1>4. CASE ExtendPage
  <2>1. n < MaxPages
    BY <1>4, ExtendNeverFails
  <2>2. MaxPages \in Nat
    BY PageBound
  <2>3. /\ pc = "extend" /\ pc' = "extend" /\ n' = n + 1 /\ todo' = todo - 1
        /\ UNCHANGED <<end, cur>>
    BY <1>1, <1>4, <2>1, <2>2 DEF ExtendPage
  <2>4. n' + todo' - 1 = n + todo - 1
    BY <1>1, <2>3
  <2>5. QED
    BY <1>1, <2>3, <2>4 DEF InTail, Deleting
<1>5. CASE Extended
  <2>1. pc = "extend" /\ pc' = "write" /\ todo = 0 /\ n' = n
        /\ end' = (IF cur = First THEN First ELSE end)
    BY <1>5 DEF Extended, Goto
  <2>2. (cur = First => end = None) /\ (cur = First \/ end # None)
        /\ Capacity(n + todo - 1) < Bytes(Slot(end) + 1) /\ n + todo - 1 = n - 1
    BY <1>1, <2>1 DEF InTail, AppendInv
  <2>3. end' # None /\ Slot(end') = Slot(end)
    BY <1>1, <2>1, <2>2
  <2>4. QED
    BY <2>1, <2>2, <2>3 DEF InTail, Deleting
<1>6. CASE Write
  <2>1. pc = "write" /\ end # None /\ Slot(end) < MaxSlots /\ Bytes(Slot(end) + 1) <= Capacity(n)
    BY <1>1, <1>6 DEF Write, AppendInv, Appending, InTail
  <2>2. InPages(end)
    BY <1>1, <2>1, InPagesMeans
  <2>3. pc' = "begin" /\ UNCHANGED <<n, end>>
    BY <1>6, <2>2 DEF Write, Goto
  <2>4. QED
    BY <1>1, <2>1, <2>3 DEF InTail, Deleting
<1>7. CASE SetBegin
  BY <1>1, <1>7 DEF SetBegin, Goto, InTail, Deleting
<1>8. CASE SetEnd
  <2>1. /\ pc = "end" /\ pc' = "idle" /\ n' = n /\ end' = Following(end)
        /\ end # None /\ Slot(end) < MaxSlots /\ Capacity(n - 1) < Bytes(Slot(end) + 1)
    BY <1>1, <1>8 DEF SetEnd, Return, AppendInv, Appending, InTail
  <2>2. end' \in Positions /\ Slot(end') = Slot(end) + 1
    BY <1>1, <2>1, Moves
  <2>3. end' # None /\ end' # First
    BY <1>1, <2>2, Forms
  <2>4. n > 0
    BY <1>1, <2>1 DEF Placed
  <2>5. Capacity(n - 1) \in Int /\ Bytes(Slot(end) + 1) \in Int
    <3>1. n - 1 \in Int /\ Slot(end) + 1 \in Int
      BY <1>1
    <3>2. QED
      BY <3>1, Sizes
  <2>6. Ending'
    BY <2>1, <2>2, <2>3, <2>4, <2>5 DEF Ending
  <2>7. QED
    BY <2>1, <2>6 DEF InTail, Deleting
<1>9. CASE Mark \/ Open \/ ScanNext \/ Close \/ Delete \/ Flush
  BY <1>1, <1>9, TailKept DEF Mark, Open, ScanNext, Close, Delete, Flush, Return, Goto, disk, work,
     Deleting
<1>10. CASE CommitAppend \/ AppendsDone
  BY <1>1, <1>10, TailKept DEF CommitAppend, AppendsDone, Error, Return, Goto, disk, Deleting
<1>11. CASE CheckDeleted
  <2>1. pc = "check" /\ UNCHANGED <<n, end>> /\ pc' \in {"idle", "deleted"}
    BY <1>11 DEF CheckDeleted, Return, disk
  <2>2. n = 0 \/ Ending
    BY <1>1, <2>1 DEF InTail, Deleting
  <2>3. QED
    BY <2>1, <2>2 DEF InTail, Ending, Deleting
<1>12. CASE SkipOrFill
  <2>1. pc = "deleted" /\ n > 0 /\ cur # end
    BY <1>12 DEF SkipOrFill
  <2>2. end # None
    BY <1>1, <2>1 DEF InTail
  <2>3. InPages(cur)
    BY <2>1, <2>2, FlushInside
  <2>4. UNCHANGED <<n, end>> /\ pc' \in {"deleted", "fill"}
    BY <1>12, <2>3 DEF SkipOrFill, Goto, disk
  <2>5. QED
    BY <2>2, <2>4 DEF InTail, Deleting
<1>13. CASE Fill
  <2>1. pc' \in {"deleted", "fill", "copy"} /\ end' \in Positions
    BY <1>13, FillNeverFails, FillRound
  <2>2. QED
    BY <2>1, Forms DEF InTail, Deleting
<1>14. CASE Copy
  BY <1>1, <1>14 DEF Copy, InTail, Deleting
<1>15. CASE DeletesDone \/ Shrink \/ DropPage
  <2>1. pc' \in {"shrink", "pages"}
    BY <1>15 DEF DeletesDone, Shrink, DropPage, Goto, work
  <2>2. QED
    BY <2>1 DEF InTail, Deleting
<1>16. CASE Shrunk
  <2>1. /\ pc = "pages" /\ pc' = "idle" /\ UNCHANGED <<n, end>>
        /\ n = 0 \/ (end # None /\ PageOf(end) = n - 1)
    BY <1>16 DEF Shrunk, Return, disk
  <2>2. CASE n = 0
    BY <2>1, <2>2 DEF InTail, Deleting
  <2>3. CASE n # 0
    <3>1. end \in Positions /\ end # None /\ end # First /\ n > 0 /\ n - 1 \in Int
      BY <1>1, <2>1, <2>3 DEF FlushInv
    <3>2. n - 1 <= PageOf(end)
      BY <2>1, <2>3, <3>1
    <3>3. Capacity(n - 1) <= Bytes(Slot(end))
      BY <3>1, <3>2, PageBytesOf
    <3>4. Ending'
      BY <2>1, <3>1, <3>3 DEF Ending
    <3>5. QED
      BY <2>1, <3>4 DEF InTail, Deleting
  <2>4. QED
    BY <2>2, <2>3
<1>17. CASE Clear
  <2>1. n' = 0 /\ pc' = "idle"
    BY <1>17 DEF Clear, work
  <2>2. QED
    BY <2>1 DEF InTail, Deleting
<1>18. CASE Cut
  BY <1>18 DEF Cut
<1>19. CASE UNCHANGED vars
  BY <1>1, <1>19 DEF vars, InTail, Ending
<1>20. QED
  BY <1>2, <1>3, <1>4, <1>5, <1>6, <1>7, <1>8, <1>9, <1>10, <1>11, <1>12, <1>13, <1>14, <1>15,
     <1>16, <1>17, <1>18, <1>19 DEF Next, Inside, User

\* The records of the heap, and where the uncommitted ones begin.
LEMMA CleanKept ==
    ASSUME Types, Clean, Slot(end') \in Int, Slot(end') <= Slot(end), pc' # "copy" \/ pc = "copy",
           pc' # "copy" \/ last' = last,
           \A j \in Live : mem'[j].id = mem[j].id /\ mem'[j].add = mem[j].add,
           \A j \in Live : Committed(j)' <=> Committed(j)
    PROVE  Clean'
<1>1. Live' \subseteq Live
  BY LiveSlots DEF Live
<1>2. QED
  BY <1>1 DEF Clean

LEMMA CleanStep ==
    ASSUME Straddling, IInv, cuts = 0, cuts' = 0, [Next]_vars
    PROVE  Clean'
<1>1. /\ Types /\ TypeOK /\ Placed /\ InTail /\ Clean /\ AppendInv /\ FlushInv /\ ScanInv
      /\ scan # NoScan => Got
      /\ n \in Nat /\ todo \in Nat /\ MaxSlots \in Nat /\ mem \in [Slots -> Record]
      /\ cur \in Positions \cup {None} /\ append_begin \in Positions \cup {None}
      /\ end \in Positions \cup {None} /\ Slot(end) \in 0 .. MaxSlots
      /\ Slots = 0 .. MaxSlots - 1 /\ Live \subseteq Slots /\ "junk" \notin Records
      /\ \A j \in Slots : j \in Live <=> j < Slot(end)
  BY Kinds, LiveSlots, BoundsAssumption DEF IInv, Sound, Types
<1>2. CASE /\ UNCHANGED <<mem, append_begin>> /\ Slot(end') = Slot(end)
           /\ pc' # "copy" /\ pc # "added" /\ pc' # "added"
  <2>1. \A j \in Live : Committed(j)' <=> Committed(j)
    BY <1>2 DEF Committed
  <2>2. QED
    BY <1>1, <1>2, <2>1, CleanKept
<1>3. CASE (\E r \in Records : HeapAppend(r)) \/ Reserve \/ ExtendPage
  BY <1>2, <1>3 DEF HeapAppend, Reserve, ExtendPage, Error, Return, disk
<1>4. CASE Extended
  <2>1. Slot(end') = Slot(end) /\ UNCHANGED <<mem, append_begin>> /\ pc = "extend" /\ pc' = "write"
    <3>1. cur = First => end = None
      BY <1>1, <1>4 DEF Extended, AppendInv
    <3>2. QED
      BY <1>4, <3>1, Forms DEF Extended, Goto, None, Slot
  <2>2. QED
    BY <1>2, <2>1
<1>5. CASE Write /\ InPages(end)
  <2>1. /\ pc = "write" /\ pc' = "begin" /\ mem' = [mem EXCEPT ![Slot(end)] = last]
        /\ UNCHANGED <<end, append_begin>> /\ last \in Record
    BY <1>1, <1>5 DEF Write, Goto, TypeOK
  <2>2. Slot(end) < MaxSlots
    BY <1>1, <2>1 DEF AppendInv, Appending
  <2>3. Slot(end) \in Slots /\ Slot(end) \notin Live
    BY <1>1, <2>2
  <2>4. \A i \in Live : mem'[i] = mem[i]
    BY <1>1, <2>1, <2>3, MarkOne
  <2>5. \A j \in Live : Committed(j)' <=> Committed(j)
    BY <2>1 DEF Committed
  <2>6. QED
    BY <1>1, <2>1, <2>4, <2>5, CleanKept
<1>6. CASE Write /\ ~ InPages(end)
  BY <1>2, <1>6 DEF Write, Error, Return, disk
<1>7. CASE SetBegin
  <2>1. /\ pc = "begin" /\ pc' = "end" /\ UNCHANGED <<end, mem>>
        /\ append_begin' = (IF append_begin = None THEN end ELSE append_begin)
    BY <1>7 DEF SetBegin, Goto
  <2>2. \A j \in Live : Committed(j)' <=> Committed(j)
    BY <1>1, <2>1 DEF Committed
  <2>3. QED
    BY <1>1, <2>1, <2>2, CleanKept
<1>8. CASE SetEnd
  <2>1. /\ pc = "end" /\ pc' = "idle" /\ end' = Following(end) /\ UNCHANGED <<mem, append_begin>>
        /\ end # None /\ Slot(end) < MaxSlots /\ mem[Slot(end)] = last /\ last.id \in Records
        /\ last.add /\ append_begin # None
    BY <1>1, <1>8 DEF SetEnd, Return, AppendInv, Appending
  <2>2. Slot(end') = Slot(end) + 1
    BY <1>1, <2>1, Moves
  <2>3. \A j \in Live' : j \in Live \/ j = Slot(end)
    BY <1>1, <2>2 DEF Live
  <2>4. \A j \in Nat : Committed(j)' <=> Committed(j)
    BY <2>1 DEF Committed
  <2>5. ~ Committed(Slot(end))
    <3>1. Slot(append_begin) \in 0 .. MaxSlots /\ Slot(append_begin) <= Slot(end)
      BY <1>1, <2>1, Forms DEF Placed
    <3>2. QED
      BY <1>1, <2>1, <3>1 DEF Committed
  <2>6. Live' \subseteq Nat
    BY DEF Live
  <2>7. QED
    BY <1>1, <2>1, <2>3, <2>4, <2>5, <2>6 DEF Clean
<1>9. CASE Mark
  <2>1. /\ pc = "mark" /\ pc' = "idle" /\ UNCHANGED <<end, append_begin>>
    BY <1>9 DEF Mark, Return
  <2>2. scan.pos # None /\ ~ scan.add /\ scan # NoScan
    BY <1>1, <2>1 DEF ScanInv, NoScan
  <2>3. Slot(scan.pos) < Slot(end) /\ mem[Slot(scan.pos)].add = scan.add
    BY <1>1, <2>2 DEF Got
  <2>4. Slot(scan.pos) \in Live
    <3>1. scan.pos \in Positions
      BY <2>2, Kinds, <1>1
    <3>2. QED
      BY <1>1, <2>3, <3>1, Forms
  <2>5. \A j \in Live : mem'[j].id = mem[j].id /\ mem'[j].add = mem[j].add
    BY <1>1, <1>9, <2>2, <2>3, <2>4 DEF Mark, Record
  <2>6. \A j \in Live : Committed(j)' <=> Committed(j)
    BY <2>1 DEF Committed
  <2>7. QED
    BY <1>1, <2>1, <2>5, <2>6, CleanKept
<1>10. CASE Open \/ ScanNext \/ Close \/ Delete
  BY <1>2, <1>10 DEF Open, ScanNext, Close, Delete, Goto, disk, work
<1>11. CASE Flush
  <2>1. /\ UNCHANGED <<mem, end, append_begin>> /\ pc = "idle" /\ cur' = append_begin
        /\ pc' = (IF append_begin = None THEN "check" ELSE "added")
    BY <1>11 DEF Flush, disk
  <2>2. \A j \in Live : Committed(j)' <=> Committed(j)
    BY <2>1 DEF Committed
  <2>3. QED
    BY <1>1, <2>1, <2>2, CleanKept
<1>12. CASE CommitAppend
  <2>1. /\ pc = "added" /\ n > 0 /\ cur # end
    BY <1>12 DEF CommitAppend
  <2>2. /\ append_begin # None /\ end # None
    BY <1>1, <2>1 DEF FlushInv, Placed
  <2>3. InPages(cur) /\ Slot(cur) \in Live
    BY <2>1, <2>2, FlushInside
  <2>4. /\ pc' = "added" /\ UNCHANGED <<end, append_begin>> /\ cur' = Following(cur)
    BY <1>12, <2>3 DEF CommitAppend
  <2>5. PICK b \in Read(Slot(cur)) :
                IF b.add
                THEN /\ mem' = IF b.id = "junk" THEN mem
                               ELSE [mem EXCEPT ![Slot(cur)].add = FALSE]
                     /\ owed' = owed \cup ({b.id} \cap Records)
                ELSE UNCHANGED <<mem, owed>>
    BY <1>12, <2>3 DEF CommitAppend
  <2>6. b = mem[Slot(cur)] /\ b.id # "junk"
    BY <1>1, <2>3, CleanReads
  <2>7. ~ Committed(Slot(cur)) /\ Slot(cur) \in Nat
    <3>1. Slot(cur) \in Nat
      BY <1>1, <2>3, LiveSlots
    <3>2. ~ Slot(cur) < Slot(cur)
      BY <3>1
    <3>3. QED
      BY <2>1, <2>2, <3>1, <3>2 DEF Committed
  <2>8. mem[Slot(cur)].add
    BY <1>1, <2>3, <2>7 DEF Clean
  <2>9. mem' = [mem EXCEPT ![Slot(cur)].add = FALSE]
    BY <2>5, <2>6, <2>8
  <2>10. /\ mem'[Slot(cur)].id = mem[Slot(cur)].id /\ ~ mem'[Slot(cur)].add
         /\ \A j \in Slots : j # Slot(cur) => mem'[j] = mem[j]
    BY <1>1, <2>3, <2>9 DEF Record
  <2>11. Slot(cur') = Slot(cur) + 1
    BY <1>1, <2>3, <2>4, Onwards
  <2>12. \A j \in Live : Committed(j)' <=> (Committed(j) \/ j = Slot(cur))
    BY <1>1, <2>1, <2>2, <2>4, <2>7, <2>11 DEF Committed
  <2>13. Live' = Live
    BY <2>4 DEF Live
  <2>14. \A j \in Live : mem'[j].id # "junk"
    BY <1>1, <2>10 DEF Clean
  <2>15. \A j \in Live : mem'[j].add <=> ~ Committed(j)'
    BY <1>1, <2>10, <2>12 DEF Clean
  <2>16. QED
    BY <2>4, <2>13, <2>14, <2>15 DEF Clean
<1>13. CASE AppendsDone
  <2>1. /\ pc = "added" /\ pc' = "check" /\ (n = 0 \/ cur = end) /\ append_begin' = None
        /\ UNCHANGED <<end, mem>>
    BY <1>13 DEF AppendsDone, Goto
  <2>2. \A j \in Live : Committed(j)
    <3>1. CASE n = 0
      BY <1>1, <3>1, Forms DEF Placed
    <3>2. CASE cur = end
      BY <1>1, <2>1, <3>2 DEF Committed
    <3>3. QED
      BY <2>1, <3>1, <3>2
  <2>3. \A j \in Live : Committed(j)'
    BY <2>1 DEF Committed
  <2>4. QED
    BY <1>1, <2>1, <2>2, <2>3, CleanKept
<1>14. CASE CheckDeleted \/ SkipOrFill \/ DeletesDone \/ Shrunk
  <2>1. UNCHANGED <<mem, append_begin, end>>
    BY <1>14 DEF CheckDeleted, SkipOrFill, DeletesDone, Shrunk, Error, disk
  <2>2. pc' # "copy" /\ pc # "added" /\ pc' # "added"
    BY <1>14 DEF CheckDeleted, SkipOrFill, DeletesDone, Shrunk, Error, Return, Goto
  <2>3. QED
    BY <1>2, <2>1, <2>2
<1>15. CASE Fill
  <2>1. ~ Error
    BY <1>15, FillNeverFails
  <2>2. /\ append_begin = None /\ Slot(end) - 1 \in Slots /\ Slot(end') = Slot(end) - 1
        /\ UNCHANGED <<mem, append_begin>>
    BY <1>15, <2>1, FillRound
  <2>3. PICK b \in Read(Slot(end) - 1) : pc' = "copy" => last' = b
    BY <1>15, <2>1, FillRound
  <2>4. b.id # "junk"
    BY <1>1, <2>2, CleanReads
  <2>5. \A j \in Live' : j \in Live
    BY <1>1, <2>2 DEF Live
  <2>6. \A j \in Live : Committed(j) /\ Committed(j)'
    BY <2>2 DEF Committed
  <2>7. QED
    BY <1>1, <2>2, <2>3, <2>4, <2>5, <2>6 DEF Clean
<1>16. CASE Copy
  <2>1. /\ pc = "copy" /\ pc' = "deleted" /\ mem' = [mem EXCEPT ![Slot(cur)] = last]
        /\ UNCHANGED <<end, append_begin>> /\ last \in Record
    BY <1>1, <1>16 DEF Copy, TypeOK
  <2>2. /\ cur # None /\ Slot(cur) < MaxSlots /\ ~ last.add /\ append_begin = None
        /\ last.id # "junk"
    BY <1>1, <2>1 DEF FlushInv, Deleting, Clean
  <2>3. Slot(cur) \in Slots
    BY <1>1, <2>2, Forms
  <2>4. mem'[Slot(cur)] = last /\ \A i \in Slots : i # Slot(cur) => mem'[i] = mem[i]
    BY <1>1, <2>1, <2>3, MarkOne
  <2>5. Live' = Live
    BY <2>1 DEF Live
  <2>6. \A j \in Live : Committed(j) /\ Committed(j)'
    BY <2>1, <2>2 DEF Committed
  <2>7. QED
    BY <1>1, <2>1, <2>2, <2>4, <2>5, <2>6 DEF Clean
<1>17. CASE Shrink
  <2>1. Slot(end') = Slot(end) /\ UNCHANGED <<mem, append_begin>> /\ pc = "shrink" /\ pc' = "pages"
    BY <1>1, <1>17, Forms DEF Shrink, Goto, None, Slot
  <2>2. QED
    BY <1>2, <2>1
<1>18. CASE DropPage
  <2>1. pc = "pages" /\ pc' = "pages" /\ UNCHANGED <<end, append_begin>>
    BY <1>18 DEF DropPage, work
  <2>2. \A j \in Live : (j + 1) * RecordBytes <= n' * PageBytes
    BY <1>18, DropsNothing
  <2>3. \A j \in Live : mem'[j] = mem[j]
    BY <1>1, <1>18, <2>2 DEF DropPage
  <2>4. \A j \in Live : Committed(j)' <=> Committed(j)
    BY <2>1 DEF Committed
  <2>5. QED
    BY <1>1, <2>1, <2>3, <2>4, CleanKept
<1>19. CASE Clear
  <2>1. Live' = {} /\ pc' # "copy"
    <3>1. end' = None /\ pc' = "idle"
      BY <1>19 DEF Clear, work
    <3>2. QED
      BY <3>1, Forms DEF Live
  <2>2. QED
    BY <2>1 DEF Clean
<1>20. CASE Cut
  BY <1>20 DEF Cut
<1>21. CASE UNCHANGED vars
  <2>1. \A j \in Live : Committed(j)' <=> Committed(j)
    BY <1>21 DEF vars, Committed
  <2>2. QED
    BY <1>1, <1>21, <2>1, CleanKept DEF vars
<1>22. QED
  BY <1>3, <1>4, <1>5, <1>6, <1>7, <1>8, <1>9, <1>10, <1>11, <1>12, <1>13, <1>14, <1>15,
     <1>16, <1>17, <1>18, <1>19, <1>20, <1>21 DEF Next, Inside, User

\* A scan that moves nowhere, over records that stay.
LEMMA GotKept ==
    ASSUME Types, Got, UNCHANGED user, Slot(end') = Slot(end),
           \A j \in Live : mem'[j].id = mem[j].id /\ mem'[j].add = mem[j].add
    PROVE  Got'
<1>1. Live' = Live
  BY DEF Live
<1>2. \A i \in 1 .. Len(seen) : i - 1 \in Live
  BY LiveSlots DEF Got, Live, Types
<1>3. {mem'[j].id : j \in {j \in Live : ~ mem'[j].add}} = {mem[j].id : j \in {j \in Live : ~ mem[j].add}}
  OBVIOUS
<1>4. scan.pos # None /\ Slot(scan.pos) < Slot(end) => Slot(scan.pos) \in Live
  <2>1. scan.pos # None => Slot(scan.pos) \in 0 .. MaxSlots
    <3>1. scan.pos \in Positions \cup {None}
      BY Kinds
    <3>2. \A p \in Positions : \E j \in 0 .. MaxSlots, form \in {"end", "start"} :
              p = <<j, IF Aliased(j) THEN form ELSE "in">>
      BY DEF Positions, At
    <3>3. QED
      BY <3>1, <3>2 DEF Slot
  <2>2. Slot(end) \in 0 .. MaxSlots /\ MaxSlots \in Nat
    BY LiveSlots, Kinds
  <2>3. QED
    BY <2>1, <2>2 DEF Live
<1>5. QED
  BY <1>1, <1>2, <1>3, <1>4 DEF Got, user

LEMMA GotStep ==
    ASSUME Straddling, IInv, cuts = 0, cuts' = 0, [Next]_vars, scan' # NoScan
    PROVE  Got'
<1>1. /\ Types /\ TypeOK /\ Placed /\ InTail /\ Clean /\ AppendInv /\ FlushInv /\ ScanInv
      /\ scan # NoScan => Got
      /\ n \in Nat /\ MaxSlots \in Nat /\ mem \in [Slots -> Record]
      /\ append_begin \in Positions \cup {None} /\ scan.pos \in Positions \cup {None}
      /\ end \in Positions \cup {None} /\ Slot(end) \in 0 .. MaxSlots
      /\ Slots = 0 .. MaxSlots - 1 /\ Live \subseteq Slots /\ "junk" \notin Records
      /\ \A j \in Slots : j \in Live <=> j < Slot(end)
      /\ seen \in Seq(Records \cup {"junk"})
  BY Kinds, LiveSlots, BoundsAssumption DEF IInv, Sound, Types
<1>2. CASE UNCHANGED <<mem, end, scan, seen, due>>
  <2>1. scan # NoScan
    BY <1>2
  <2>2. QED
    BY <1>1, <1>2, <2>1, GotKept DEF user
<1>3. CASE pc \in {"added", "check"} \cup Deleting
  <2>1. scan = NoScan
    BY <1>1, <1>3 DEF ScanInv, Appending, Deleting
  <2>2. \/ CommitAppend \/ AppendsDone \/ CheckDeleted \/ SkipOrFill \/ Fill \/ Copy
        \/ DeletesDone \/ Shrink \/ DropPage \/ Shrunk \/ Cut \/ UNCHANGED vars
    BY <1>3 DEF Next, Inside, User, HeapAppend, Reserve, ExtendPage, Extended, Write, SetBegin,
              SetEnd, Mark, Open, ScanNext, Close, Delete, Flush, Clear, Deleting
  <2>3. scan' = scan \/ scan' = NoScan
    BY <2>2 DEF Error, CommitAppend, AppendsDone, CheckDeleted, SkipOrFill, Fill, Copy, DeletesDone,
           Shrink, DropPage, Shrunk, Cut, CloseScan, vars, user
  <2>4. QED
    BY <2>1, <2>3
<1>4. CASE (\E r \in Records : HeapAppend(r)) \/ Reserve \/ ExtendPage \/ SetBegin \/ Delete
  BY <1>2, <1>4 DEF HeapAppend, Reserve, ExtendPage, SetBegin, Delete, Error, disk, user
<1>5. CASE Extended
  <2>1. cur # First
    BY <1>1, <1>5 DEF Extended, AppendInv, user
  <2>2. QED
    BY <1>2, <1>5, <2>1 DEF Extended, user
<1>6. CASE Write
  <2>1. CASE InPages(end)
    <3>1. /\ pc = "write" /\ mem' = [mem EXCEPT ![Slot(end)] = last]
          /\ UNCHANGED <<end, user>> /\ last \in Record
      BY <1>1, <1>6, <2>1 DEF Write, TypeOK
    <3>2. Slot(end) \in Slots /\ Slot(end) \notin Live
      BY <1>1, <3>1 DEF AppendInv, Appending
    <3>3. \A i \in Live : mem'[i] = mem[i]
      BY <1>1, <3>1, <3>2, MarkOne
    <3>4. scan # NoScan
      BY <3>1 DEF user
    <3>5. QED
      BY <1>1, <3>1, <3>3, <3>4, GotKept
  <2>2. CASE ~ InPages(end)
    BY <1>2, <1>6, <2>2 DEF Write, Error, disk, user
  <2>3. QED
    BY <2>1, <2>2
<1>7. CASE SetEnd
  <2>1. /\ pc = "end" /\ end' = Following(end) /\ UNCHANGED <<mem, scan, seen, due>>
        /\ end # None /\ Slot(end) < MaxSlots /\ mem[Slot(end)] = last /\ last.add
    BY <1>1, <1>7 DEF SetEnd, AppendInv, Appending, user
  <2>2. Slot(end') = Slot(end) + 1 /\ Got
    BY <1>1, <2>1, Moves
  <2>3. Live' = Live \cup {Slot(end)}
    BY <1>1, <2>2 DEF Live
  <2>4. {j \in Live' : ~ mem[j].add} = {j \in Live : ~ mem[j].add}
    BY <2>1, <2>3
  <2>5. Len(seen) \in Nat /\ Len(seen) <= Slot(end) + 1
    BY <1>1, <2>2 DEF Got
  <2>6. scan.pos # None => Slot(scan.pos) < Slot(end) + 1
    BY <1>1, <2>2, Forms DEF Got
  <2>7. scan.pos = None \/ scan.add => \A j \in Live' : j >= Len(seen) => mem[j].add
    BY <2>1, <2>2, <2>3 DEF Got
  <2>8. QED
    BY <2>1, <2>2, <2>4, <2>5, <2>6, <2>7 DEF Got
<1>8. CASE Mark
  <2>1. /\ pc = "mark" /\ end' = end /\ UNCHANGED user
    BY <1>8 DEF Mark, user
  <2>2. scan.pos # None /\ ~ scan.add /\ scan # NoScan
    BY <1>1, <2>1 DEF ScanInv, NoScan
  <2>3. Slot(scan.pos) < Slot(end) /\ mem[Slot(scan.pos)].add = scan.add
    BY <1>1, <2>2 DEF Got
  <2>4. Slot(scan.pos) \in Live
    <3>1. scan.pos \in Positions
      BY <2>2, <1>1
    <3>2. QED
      BY <1>1, <2>3, <3>1, Forms
  <2>5. \A j \in Live : mem'[j].id = mem[j].id /\ mem'[j].add = mem[j].add
    BY <1>1, <1>8, <2>2, <2>3, <2>4 DEF Mark, Record
  <2>6. QED
    BY <1>1, <2>1, <2>2, <2>5, GotKept
\* The uncommitted records are the last ones.
<1>9. ASSUME pc = "idle", NEW k \in Live, mem[k].add
      PROVE  \A j \in Live : j >= k => mem[j].add
  <2>1. ~ Committed(k)
    BY <1>1, <1>9 DEF Clean
  <2>2. append_begin # None /\ Slot(append_begin) \in 0 .. MaxSlots /\ k \in Nat
    BY <1>1, <2>1, Forms DEF Committed
  <2>3. \A j \in Live : j >= k => ~ Committed(j)
    BY <1>1, <1>9, <2>1, <2>2 DEF Committed
  <2>4. QED
    BY <1>1, <2>3 DEF Clean
<1>10. CASE Open
  <2>1. /\ pc = "idle" /\ n > 0 /\ UNCHANGED <<mem, end>>
        /\ due' = {r \in Records : \E j \in Holding(r) : ~ mem[j].add}
        /\ Arrive(First, <<>>)
    BY <1>10 DEF Open, disk
  <2>2. PICK b \in Read(Slot(First)) :
            /\ scan' = [pos |-> First, id |-> b.id, add |-> b.add]
            /\ seen' = IF Over([pos |-> First, id |-> b.id, add |-> b.add]) THEN <<>>
                       ELSE <<>> \o <<b.id>>
    BY <2>1 DEF Arrive
  <2>3. Slot(First) = 0 /\ First # None /\ First # end /\ end # None
    BY <1>1, <2>1, Forms DEF InTail, Ending, Deleting, Slot
  <2>4. 0 \in Live
    <3>1. Slot(end) # 0
      BY <1>1, <2>3, Moves, Forms
    <3>2. QED
      BY <1>1, <3>1
  <2>5. b = mem[0] /\ b.id \in Records /\ b.add \in BOOLEAN
    BY <1>1, <2>2, <2>3, <2>4, CleanReads DEF Record
  <2>6. seen' = IF b.add THEN <<>> ELSE <<b.id>>
    BY <2>2, <2>3, <2>5 DEF Over
  <2>7. Live' = Live
    BY <2>1 DEF Live
  <2>8. due' = {mem[j].id : j \in {j \in Live : ~ mem[j].add}}
    <3>1. \A j \in Live : mem[j].id \in Records
      BY <1>1 DEF Clean, Record
    <3>2. QED
      BY <2>1, <3>1 DEF Holding
  <2>9. CASE b.add
    <3>1. seen' = <<>> /\ Len(seen') = 0
      BY <2>6, <2>9
    <3>2. \A j \in Live : mem[j].add
      BY <1>1, <1>9, <2>1, <2>4, <2>5, <2>9
    <3>3. scan'.pos = First /\ scan'.add = TRUE /\ mem[0].add = TRUE
      BY <2>2, <2>5, <2>9
    <3>4. \A i \in 1 .. Len(seen') : FALSE
      BY <3>1
    <3>5. QED
      <4>1. Len(seen') <= Slot(end') /\ Slot(scan'.pos) = 0 /\ Slot(scan'.pos) < Slot(end')
        BY <1>1, <2>1, <2>3, <2>4, <3>1, <3>3
      <4>2. mem'[Slot(scan'.pos)].add = scan'.add
        BY <2>1, <2>3, <3>3
      <4>3. \A i \in 1 .. Len(seen') : seen'[i] = mem'[i - 1].id /\ ~ mem'[i - 1].add
        BY <3>4
      <4>4. due' = {mem'[j].id : j \in {j \in Live' : ~ mem'[j].add}}
        BY <2>1, <2>7, <2>8
      <4>5. \A j \in Live' : j >= Len(seen') => mem'[j].add
        BY <2>1, <2>7, <3>2
      <4>6. Len(seen') = Slot(scan'.pos)
        BY <3>1, <4>1
      <4>7. QED
        BY <3>3, <4>1, <4>2, <4>3, <4>4, <4>5, <4>6 DEF Got
  <2>10. CASE ~ b.add
    <3>1. seen' = <<b.id>> /\ Len(seen') = 1 /\ seen'[1] = b.id
      BY <2>6, <2>10
    <3>2. scan'.pos = First /\ scan'.add = b.add
      BY <2>2
    <3>3. \A i \in 1 .. Len(seen') : i = 1 /\ i - 1 = 0
      BY <3>1
    <3>4. 0 < Slot(end) /\ 1 <= Slot(end)
      BY <1>1, <2>4
    <3>5. QED
      BY <1>1, <2>1, <2>3, <2>4, <2>5, <2>7, <2>8, <2>10, <3>1, <3>2, <3>3, <3>4 DEF Got
  <2>11. QED
    BY <2>9, <2>10
<1>11. CASE ScanNext
  <2>1. pc = "idle" /\ ~ Over(scan) /\ UNCHANGED <<mem, end, due>>
    BY <1>11 DEF ScanNext, disk
  <2>2. scan # NoScan /\ scan.pos # None /\ scan.pos # end /\ ~ scan.add
    BY <2>1 DEF Over, NoScan
  <2>3. /\ Got /\ Slot(scan.pos) < Slot(end) /\ Len(seen) = Slot(scan.pos) + 1
        /\ Len(seen) <= Slot(end) /\ Len(seen) \in Nat
    BY <1>1, <2>2 DEF Got
  <2>4. Live' = Live
    BY <2>1 DEF Live
  <2>5. Slot(scan.pos) < MaxSlots
    BY <1>1, <2>2 DEF ScanInv
  <2>6. Following(scan.pos) \in Positions /\ Slot(Following(scan.pos)) = Len(seen)
    BY <1>1, <2>2, <2>3, <2>5, Moves
  <2>7. CASE Following(scan.pos) = end /\ scan' = [NoScan EXCEPT !.id = "junk"] /\ UNCHANGED seen
    <3>1. scan'.pos = None /\ scan'.add = FALSE
      BY <2>7, ScannedAll
    <3>2. Len(seen) = Slot(end)
      BY <2>6, <2>7
    <3>3. \A j \in Live : ~ j >= Len(seen)
      BY <1>1, <3>2
    <3>4. QED
      BY <2>1, <2>3, <2>4, <2>7, <3>1, <3>3 DEF Got
  <2>8. CASE Following(scan.pos) # end /\ Arrive(Following(scan.pos), seen)
    <3> DEFINE p == Following(scan.pos)
               k == Len(seen)
    <3>1. PICK b \in Read(Slot(p)) :
            /\ scan' = [pos |-> p, id |-> b.id, add |-> b.add]
            /\ seen' = IF Over([pos |-> p, id |-> b.id, add |-> b.add]) THEN seen
                       ELSE seen \o <<b.id>>
      BY <2>8 DEF Arrive
    <3>2. p # None /\ p # end /\ p \in Positions /\ Slot(p) = k /\ k \in Nat /\ k <= Slot(end)
      BY <2>3, <2>6, <2>8, Forms
    <3>3. end # None
      BY <1>1, <2>3, <2>2, Forms
    <3>4. k \in Live /\ k < Slot(end)
      <4>1. k # Slot(end)
        BY <1>1, <3>2, <3>3, Moves
      <4>2. QED
        BY <1>1, <3>2, <4>1
    <3>5. b = mem[k] /\ b.id \in Records /\ b.add \in BOOLEAN
      BY <1>1, <3>1, <3>2, <3>4, CleanReads DEF Record
    <3>6. seen' = IF b.add THEN seen ELSE seen \o <<b.id>>
      BY <3>1, <3>2, <3>5 DEF Over
    <3>7. scan'.pos = p /\ scan'.add = b.add
      BY <3>1
    <3>8. CASE b.add
      <4>1. \A j \in Live : j >= k => mem[j].add
        BY <1>9, <2>1, <3>4, <3>5, <3>8
      <4>2. scan'.pos = p /\ scan'.add = TRUE /\ mem[k].add = TRUE /\ seen' = seen
        BY <3>5, <3>6, <3>7, <3>8
      <4>3. Slot(scan'.pos) = k /\ Len(seen') = k /\ k <= Slot(end') /\ k < Slot(end')
        BY <2>1, <3>2, <3>4, <4>2
      <4>4. mem'[Slot(scan'.pos)].add = scan'.add
        BY <2>1, <4>2, <4>3
      <4>5. \A i \in 1 .. Len(seen') : seen'[i] = mem'[i - 1].id /\ ~ mem'[i - 1].add
        BY <2>1, <2>3, <4>2 DEF Got
      <4>6. due' = {mem'[j].id : j \in {j \in Live' : ~ mem'[j].add}}
        BY <2>1, <2>3, <2>4 DEF Got
      <4>7. \A j \in Live' : j >= Len(seen') => mem'[j].add
        BY <2>1, <2>4, <4>1, <4>2
      <4>8. QED
        BY <4>2, <4>3, <4>4, <4>5, <4>6, <4>7 DEF Got
    <3>9. CASE ~ b.add
      <4>1. /\ Len(seen') = k + 1 /\ seen'[k + 1] = b.id
            /\ \A i \in 1 .. k : seen'[i] = seen[i]
        BY <1>1, <3>2, <3>5, <3>6, <3>9
      <4>2. \A i \in 1 .. Len(seen') : i \in 1 .. k \/ (i = k + 1 /\ i - 1 = k)
        BY <3>2, <4>1
      <4>3. \A i \in 1 .. Len(seen') : seen'[i] = mem[i - 1].id /\ ~ mem[i - 1].add
        BY <2>3, <3>5, <3>9, <4>1, <4>2 DEF Got
      <4>4. Len(seen') <= Slot(end)
        BY <1>1, <3>2, <3>4, <4>1
      <4>5. QED
        BY <2>1, <2>3, <2>4, <3>2, <3>4, <3>5, <3>7, <3>9, <4>1, <4>3, <4>4 DEF Got
    <3>10. QED
      BY <3>8, <3>9
  <2>9. QED
    BY <1>11, <2>7, <2>8 DEF ScanNext
<1>12. CASE Close \/ Flush \/ Cut \/ Clear
  BY <1>12 DEF Close, Flush, Cut, Clear, CloseScan, user
<1>13. CASE UNCHANGED vars
  BY <1>2, <1>13 DEF vars
<1>14. QED
  BY <1>3, <1>4, <1>5, <1>6, <1>7, <1>8, <1>10, <1>11, <1>12, <1>13
     DEF Next, Inside, User, CommitAppend, AppendsDone, CheckDeleted, SkipOrFill, Fill, Copy,
         DeletesDone, Shrink, DropPage, Shrunk, Deleting

LEMMA SoundStep ==
    ASSUME Straddling, IInv, [Next]_vars
    PROVE  Sound'
<1>1. cuts' = 0 => cuts = 0
  <2>1. cuts \in Nat
    BY Kinds DEF IInv
  <2>2. cuts' = cuts \/ cuts' = cuts + 1
    BY DEF Next, Inside, User, Error, vars, HeapAppend, Reserve, ExtendPage, Extended, Write,
       SetBegin, SetEnd, Mark, CommitAppend, AppendsDone, CheckDeleted, SkipOrFill, Fill, Copy,
       DeletesDone, Shrink, DropPage, Shrunk, Open, ScanNext, Close, Delete, Flush, Clear, Cut
  <2>3. QED
    BY <2>1, <2>2
<1>2. QED
  BY <1>1, TailStep, CleanStep, GotStep DEF Sound

-----------------------------------------------------------------------------
(***************************************************************************)
(* The theorems                                                            *)
(***************************************************************************)
LEMMA InvInit ==
    ASSUME Straddling, Init
    PROVE  IInv
<1>1. Types
  BY TypesInit
<1>2. Slot(None) = 0 /\ Slot(end) = 0 /\ Live = {} /\ n = 0 /\ end = None /\ append_begin = None
      /\ pc = "idle" /\ scan = NoScan /\ owed = {} /\ cuts = 0 /\ mem = [j \in Slots |-> Junk]
      /\ scan.pos = None
  BY Forms DEF Init, Live, NoScan
<1>3. Placed /\ AppendInv /\ FlushInv /\ ScanInv
  BY <1>2 DEF Placed, AppendInv, FlushInv, ScanInv, Appending, Deleting
<1>4. Marks
  BY <1>2 DEF Marks, Junk
<1>5. Sound
  BY <1>2 DEF Sound, InTail, Clean, Deleting
<1>6. FewLost
  <2>1. Lost = {}
    BY <1>2 DEF Lost
  <2>2. QED
    BY <1>2, <2>1, FS_EmptySet DEF FewLost
<1>7. QED
  BY <1>1, <1>3, <1>4, <1>5, <1>6 DEF IInv

\* The invariant of a heap none of whose records ends at the end of a page (Straddling),
\* whatever was killed or failed before.
THEOREM Invariance ==
    ASSUME Straddling
    PROVE  Spec => []IInv
<1>1. Init => IInv
  BY InvInit
<1>2. IInv /\ [Next]_vars => IInv'
  BY TypesStep, PlacedStep, AppendStep, FlushStep, ScanStep, MarksStep, SoundStep, LostStep
     DEF IInv
<1>3. QED
  BY <1>1, <1>2, PTL DEF Spec

\* In a heap none of whose records ends at the end of a page (Straddling) heap_reserve
\* makes the room heap_write needs (heap.c), after any flushes, deletes, kills and
\* failures, with the exceptions RoomReserved names.
THEOREM RoomIsReserved ==
    ASSUME Straddling
    PROVE  Spec => []RoomReserved
<1>1. ASSUME IInv
      PROVE  RoomReserved
  <2>1. /\ TypeOK /\ Placed /\ AppendInv /\ (cuts = 0 => InTail)
        /\ n \in Nat /\ MaxSlots \in Nat /\ end \in Positions \cup {None}
    BY <1>1, Kinds DEF IInv, Types, Sound
  <2>2. EndInTail
    <3>1. SUFFICES ASSUME pc = "idle", cuts = 0, n # 0
                   PROVE  n > 0 /\ end # None /\ PageOf(end) = n - 1
      BY <2>1 DEF EndInTail, Placed
    <3>2. Ending /\ n - 1 \in Int /\ end \in Positions
      BY <2>1, <3>1 DEF InTail, Ending, Deleting
    <3>3. PageOf(end) \in Int /\ n - 1 <= PageOf(end) /\ PageOf(end) < n
      BY <2>1, <3>2, PageBytesOf DEF Ending, Placed
    <3>4. QED
      BY <2>1, <3>2, <3>3 DEF Ending
  <2>3. pc = "write" => InPages(end) \/ (cuts > 0 /\ (end = None \/ RecordBytes > PageBytes))
    BY <2>1, InPagesMeans DEF AppendInv, Appending
  <2>4. QED
    BY <2>1, <2>2, <2>3 DEF RoomReserved
<1>2. QED
  BY <1>1, Invariance, PTL

\* In a heap none of whose records ends at the end of a page (Straddling) a kill or a
\* failure loses one committed record at most, the one heap_flush is moving
\* (heap_record_fill); nothing else loses one or doubles one.
THEOREM LossIsBounded ==
    ASSUME Straddling
    PROVE  Spec => []LossBounded
<1>1. ASSUME IInv
      PROVE  LossBounded
  <2>1. FewLost /\ Marks /\ FlushInv
    BY <1>1 DEF IInv
  <2>2. ASSUME NEW r \in Records
        PROVE  Cardinality(Holding(r)) + (IF Carried(r) THEN 1 ELSE 0) <= 1
    <3>1. r # "junk"
      BY BoundsAssumption
    <3>2. \A i, j \in Holding(r) : i = j
      BY <2>1, <3>1 DEF Holding, Marks
    <3>3. CASE Holding(r) = {}
      BY <3>3, FS_EmptySet
    <3>4. CASE Holding(r) # {}
      <4>1. PICK i \in Holding(r) : Holding(r) = {i}
        BY <3>2, <3>4
      <4>2. Cardinality(Holding(r)) = 1
        BY <4>1, FS_Singleton
      <4>3. ~ Carried(r)
        BY <2>1, <3>4 DEF Carried, FlushInv
      <4>4. QED
        BY <4>2, <4>3
    <3>5. QED
      BY <3>3, <3>4
  <2>3. QED
    BY <2>1, <2>2 DEF FewLost, LossBounded
<1>2. QED
  BY <1>1, Invariance, PTL

\* As many as there are numbers, when each has one of its own.
LEMMA Numbered ==
    ASSUME NEW k \in Nat, NEW s, NEW T, {s[i] : i \in 1 .. k} = T,
           \A i, j \in 1 .. k : s[i] = s[j] => i = j
    PROVE  Cardinality(T) = k
<1>1. PICK f : f = [i \in 1 .. k |-> s[i]]
  OBVIOUS
<1>2. f \in [1 .. k -> T] /\ \A i \in 1 .. k : f[i] = s[i]
  BY <1>1
<1>3. /\ \A i, j \in 1 .. k : f[i] = f[j] => i = j
      /\ \A t \in T : \E i \in 1 .. k : f[i] = t
  BY <1>2
<1>4. f \in Bijection(1 .. k, T)
  BY <1>2, <1>3 DEF Bijection, Injection, Surjection, IsInjective
<1>5. IsFiniteSet(1 .. k) /\ Cardinality(1 .. k) = k
  BY FS_Interval
<1>6. ExistsBijection(1 .. k, T)
  BY <1>4 DEF ExistsBijection
<1>7. QED
  BY <1>5, <1>6, FS_Bijection

\* In a heap none of whose records ends at the end of a page (Straddling) a scan
\* (heap_iterator_next) gets every record committed when it began, each once, whatever
\* the query deletes and appends as it goes.
THEOREM ScanIsComplete ==
    ASSUME Straddling
    PROVE  Spec => []ScanComplete
<1>1. ASSUME IInv
      PROVE  ScanComplete
  <2>1. SUFFICES ASSUME scan # NoScan, Over(scan), cuts = 0
                 PROVE  /\ {seen[i] : i \in DOMAIN seen} = due
                        /\ Len(seen) = Cardinality(due)
    BY DEF ScanComplete
  <2>2. /\ Types /\ Marks /\ Clean /\ Got /\ Live \subseteq Slots /\ Slots \subseteq Nat
        /\ end \in Positions \cup {None} /\ scan.pos \in Positions \cup {None}
        /\ \A j \in Slots : j \in Live <=> j < Slot(end)
        /\ Slot(end) \in 0 .. MaxSlots /\ MaxSlots \in Nat
        /\ seen \in Seq(Records \cup {"junk"})
    BY <1>1, <2>1, Kinds, LiveSlots DEF IInv, Sound, Types
  <2> DEFINE k == Len(seen)
  <2>3. k \in Nat /\ k <= Slot(end) /\ DOMAIN seen = 1 .. k
    BY <2>2 DEF Got
  <2>4. scan.pos = None \/ scan.add
    <3>1. scan.pos # None => scan.pos # end
      BY <2>2, Forms DEF Got
    <3>2. QED
      BY <2>1, <3>1 DEF Over
  <2>5. \A j \in Live : j >= k => mem[j].add
    BY <2>2, <2>4 DEF Got
  <2>6. \A i \in 1 .. k : seen[i] = mem[i - 1].id /\ ~ mem[i - 1].add /\ i - 1 \in Live
    <3>1. \A i \in 1 .. k : seen[i] = mem[i - 1].id /\ ~ mem[i - 1].add
      BY <2>2 DEF Got
    <3>2. \A i \in 1 .. k : i - 1 \in Live
      BY <2>2, <2>3 DEF Live
    <3>3. QED
      BY <3>1, <3>2
  <2>7. \A j \in Live : ~ mem[j].add => j + 1 \in 1 .. k /\ (j + 1) - 1 = j
    BY <2>2, <2>3, <2>5
  <2>8. due = {mem[j].id : j \in {j \in Live : ~ mem[j].add}}
    BY <2>2 DEF Got
  <2>9. {seen[i] : i \in 1 .. k} = due
    <3>1. ASSUME NEW i \in 1 .. k
          PROVE  seen[i] \in due
      BY <2>6, <2>8
    <3>2. ASSUME NEW r \in due
          PROVE  \E i \in 1 .. k : seen[i] = r
      <4>1. PICK j \in Live : ~ mem[j].add /\ mem[j].id = r
        BY <2>8
      <4>2. j + 1 \in 1 .. k /\ seen[j + 1] = mem[j].id
        BY <2>6, <2>7, <4>1
      <4>3. QED
        BY <4>1, <4>2
    <3>3. QED
      BY <3>1, <3>2
  <2>10. \A i, j \in 1 .. k : seen[i] = seen[j] => i = j
    <3>1. ASSUME NEW i \in 1 .. k, NEW j \in 1 .. k, seen[i] = seen[j]
          PROVE  i = j
      <4>1. /\ i - 1 \in Live /\ j - 1 \in Live /\ mem[i - 1].id = mem[j - 1].id
        BY <2>6, <3>1
      <4>2. i - 1 = j - 1
        BY <2>2, <4>1 DEF Marks, Clean
      <4>3. QED
        BY <2>3, <4>2
    <3>2. QED
      BY <3>1
  <2>11. Cardinality(due) = k
    BY <2>3, <2>9, <2>10, Numbered
  <2>12. QED
    BY <2>3, <2>9, <2>11
<1>2. QED
  BY <1>1, Invariance, PTL

-----------------------------------------------------------------------------
(***************************************************************************)
(* The heap implements RecordStore                                         *)
(***************************************************************************)
LEMMA DelsKept ==
    ASSUME Types, Dels, Slot(end') \in Int, Slot(end') <= Slot(end), has_deleted' = has_deleted,
           \A j \in Live : mem'[j].del => mem[j].del,
           pc' \notin {"mark", "deleted", "fill", "copy", "shrink", "pages"}
    PROVE  Dels'
<1>1. Live' \subseteq Live
  BY LiveSlots DEF Live
<1>2. QED
  BY <1>1 DEF Dels

LEMMA DelsStep ==
    ASSUME Straddling, IInv, Dels, [Next]_vars
    PROVE  Dels'
<1>1. /\ Types /\ TypeOK /\ Placed /\ AppendInv /\ FlushInv /\ ScanInv /\ Marks /\ Dels
      /\ n \in Nat /\ MaxSlots \in Nat /\ mem \in [Slots -> Record]
      /\ cur \in Positions \cup {None}
      /\ end \in Positions \cup {None} /\ Slot(end) \in 0 .. MaxSlots
      /\ Slots = 0 .. MaxSlots - 1 /\ Live \subseteq Slots /\ Slots \subseteq Nat
      /\ \A j \in Slots : j \in Live <=> j < Slot(end)
  BY Kinds, LiveSlots DEF IInv, Types
<1>2. CASE /\ UNCHANGED <<mem, has_deleted>> /\ Slot(end') = Slot(end)
           /\ pc' \notin {"mark", "deleted", "fill", "copy", "shrink", "pages"}
  BY <1>1, <1>2, DelsKept
<1>3. CASE (\E r \in Records : HeapAppend(r)) \/ Reserve \/ ExtendPage \/ SetBegin \/ AppendsDone
  BY <1>2, <1>3 DEF HeapAppend, Reserve, ExtendPage, SetBegin, AppendsDone, Error, Return, Goto, disk
<1>4. CASE Extended
  <2>1. Slot(end') = Slot(end) /\ UNCHANGED <<mem, has_deleted>> /\ pc' = "write"
    <3>1. cur = First => end = None
      BY <1>1, <1>4 DEF Extended, AppendInv
    <3>2. QED
      BY <1>4, <3>1, Forms DEF Extended, Goto, None, Slot
  <2>2. QED
    BY <1>2, <2>1
<1>5. CASE Write
  <2>1. CASE InPages(end)
    <3>1. /\ pc = "write" /\ pc' = "begin" /\ mem' = [mem EXCEPT ![Slot(end)] = last]
          /\ UNCHANGED <<end, has_deleted>> /\ last \in Record
      BY <1>1, <1>5, <2>1 DEF Write, Goto, TypeOK
    <3>2. Slot(end) \in Slots /\ Slot(end) \notin Live
      BY <1>1, <3>1 DEF AppendInv, Appending
    <3>3. \A i \in Live : mem'[i] = mem[i]
      BY <1>1, <3>1, <3>2, MarkOne
    <3>4. QED
      BY <1>1, <3>1, <3>3, DelsKept
  <2>2. CASE ~ InPages(end)
    BY <1>2, <1>5, <2>2 DEF Write, Error, Return, disk
  <2>3. QED
    BY <2>1, <2>2
<1>6. CASE SetEnd
  <2>1. /\ pc = "end" /\ pc' = "idle" /\ end' = Following(end) /\ UNCHANGED <<mem, has_deleted>>
        /\ end # None /\ Slot(end) < MaxSlots /\ mem[Slot(end)] = last /\ ~ last.del
    BY <1>1, <1>6 DEF SetEnd, Return, AppendInv, Appending
  <2>2. Slot(end') = Slot(end) + 1
    BY <1>1, <2>1, Moves
  <2>3. \A j \in Live' : j \in Live \/ j = Slot(end)
    BY <1>1, <2>2 DEF Live
  <2>4. QED
    BY <1>1, <2>1, <2>3 DEF Dels
<1>7. CASE Delete
  BY <1>7 DEF Delete, Goto, Dels
<1>8. CASE Mark
  <2>1. pc = "mark" /\ pc' = "idle" /\ has_deleted' = has_deleted
    BY <1>8 DEF Mark, Return
  <2>2. QED
    BY <1>1, <2>1 DEF Dels
<1>9. CASE Open \/ ScanNext \/ Close \/ Flush
  <2>1. pc' \in {"idle", "check", "added"} /\ UNCHANGED <<mem, end, has_deleted>>
    BY <1>9 DEF Open, ScanNext, Close, Flush, disk, work
  <2>2. QED
    BY <1>2, <2>1
<1>10. CASE CommitAppend
  <2>1. CASE InPages(cur)
    <3>1. pc = "added" /\ pc' = "added" /\ UNCHANGED <<end, has_deleted>>
      BY <1>10, <2>1 DEF CommitAppend
    <3>2. Slot(cur) \in Slots
      BY <1>1, <2>1, Onwards
    <3>3. \A j \in Slots : mem'[j].del = mem[j].del
      BY <1>1, <1>10, <2>1, <3>2 DEF CommitAppend, Record
    <3>4. QED
      BY <1>1, <3>1, <3>3, DelsKept
  <2>2. CASE ~ InPages(cur)
    BY <1>2, <1>10, <2>2 DEF CommitAppend, Error, Return, disk
  <2>3. QED
    BY <2>1, <2>2
<1>11. CASE CheckDeleted
  <2>1. /\ UNCHANGED <<mem, end, has_deleted>>
        /\ \/ pc' = "deleted" /\ cur' = First /\ has_deleted
           \/ pc' = "idle"
    <3>1. UNCHANGED <<mem, end, has_deleted>>
      BY <1>11 DEF CheckDeleted, disk
    <3>2. CASE Return
      BY <3>1, <3>2 DEF Return
    <3>3. CASE ~ Return
      <4>1. pc' = "deleted" /\ cur' = First /\ has_deleted
        BY <1>11, <3>3, Zenon DEF CheckDeleted
      <4>2. QED
        BY <3>1, <4>1
    <3>4. QED
      BY <3>2, <3>3
  <2>2. CASE pc' = "idle"
    BY <1>2, <2>1, <2>2
  <2>3. CASE pc' = "deleted" /\ cur' = First /\ has_deleted
    <3>1. Slot(cur') = 0
      BY <2>3, Forms DEF Slot
    <3>2. \A j \in Live' : ~ j < Slot(cur')
      BY <1>1, <2>1, <3>1 DEF Live
    <3>3. QED
      BY <2>1, <2>3, <3>2 DEF Dels
  <2>4. QED
    BY <2>1, <2>2, <2>3
<1>12. CASE SkipOrFill
  <2>1. CASE InPages(cur)
    <3>1. /\ pc = "deleted" /\ UNCHANGED <<mem, end, has_deleted>>
          /\ \E b \in Read(Slot(cur)) :
                \/ pc' = "fill" /\ cur' = cur
                \/ ~ b.del /\ cur' = Following(cur) /\ pc' = pc
      BY <1>12, <2>1 DEF SkipOrFill, disk, Goto
    <3>2. PICK b \in Read(Slot(cur)) :
                \/ pc' = "fill" /\ cur' = cur
                \/ ~ b.del /\ cur' = Following(cur) /\ pc' = pc
      BY <3>1
    <3>3. has_deleted /\ \A j \in Live : j < Slot(cur) => ~ mem[j].del
      BY <1>1, <3>1 DEF Dels
    <3>4. Slot(cur) \in Slots /\ Slot(Following(cur)) = Slot(cur) + 1
      BY <1>1, <2>1, Onwards
    <3>5. CASE pc' = "fill" /\ cur' = cur
      BY <1>1, <3>1, <3>3, <3>5 DEF Dels, Live
    <3>6. CASE ~ b.del /\ cur' = Following(cur) /\ pc' = pc
      <4>1. ~ mem[Slot(cur)].del
        <5>1. CASE mem[Slot(cur)].id = "junk"
          BY <1>1, <3>4, <5>1 DEF Marks, Junk
        <5>2. CASE mem[Slot(cur)].id # "junk"
          BY <1>1, <3>2, <3>4, <3>6, <5>2, Reads
        <5>3. QED
          BY <5>1, <5>2
      <4>2. \A j \in Live : j < Slot(cur') => ~ mem[j].del
        BY <1>1, <3>3, <3>4, <3>6, <4>1
      <4>3. QED
        BY <1>1, <3>1, <3>3, <3>6, <4>2 DEF Dels, Live
    <3>7. QED
      BY <3>2, <3>5, <3>6
  <2>2. CASE ~ InPages(cur)
    BY <1>2, <1>12, <2>2 DEF SkipOrFill, Error, Return, disk
  <2>3. QED
    BY <2>1, <2>2
<1>13. CASE Fill
  <2>1. CASE Error
    BY <1>2, <2>1 DEF Error, Return, disk
  <2>2. CASE ~ Error
    <3>1. /\ pc = "fill" /\ Slot(end') = Slot(end) - 1 /\ cur' = cur
          /\ pc' \in {"deleted", "fill", "copy"} /\ UNCHANGED <<mem, has_deleted>>
      BY <1>13, <2>2, FillRound
    <3>2. \A j \in Live' : j \in Live
      BY <1>1, <3>1 DEF Live
    <3>3. QED
      BY <1>1, <3>1, <3>2 DEF Dels
  <2>3. QED
    BY <2>1, <2>2
<1>14. CASE Copy
  <2>1. /\ pc = "copy" /\ pc' = "deleted" /\ mem' = [mem EXCEPT ![Slot(cur)] = last]
        /\ UNCHANGED <<end, has_deleted>> /\ last \in Record
        /\ cur' = IF cur = end THEN cur ELSE Following(cur)
    BY <1>1, <1>14 DEF Copy, TypeOK
  <2>2. /\ cur # None /\ end # None /\ Slot(cur) < Slot(end) /\ Slot(cur) < MaxSlots
        /\ ~ last.del /\ cur \in Positions
    BY <1>1, <2>1 DEF FlushInv
  <2>3. Slot(cur) \in Slots /\ Slot(cur') = Slot(cur) + 1
    BY <1>1, <2>1, <2>2, Forms, Moves
  <2>4. mem'[Slot(cur)] = last /\ \A i \in Slots : i # Slot(cur) => mem'[i] = mem[i]
    BY <1>1, <2>1, <2>3, MarkOne
  <2>5. has_deleted /\ \A j \in Live : j < Slot(cur) => ~ mem[j].del
    BY <1>1, <2>1 DEF Dels
  <2>6. \A j \in Live : j < Slot(cur') => ~ mem'[j].del
    BY <1>1, <2>2, <2>3, <2>4, <2>5
  <2>7. QED
    BY <2>1, <2>5, <2>6 DEF Dels, Live
<1>15. CASE DeletesDone
  <2>1. pc = "deleted" /\ pc' = "shrink" /\ (n = 0 \/ cur = end) /\ UNCHANGED <<mem, end>>
        /\ ~ has_deleted'
    BY <1>15 DEF DeletesDone, Goto
  <2>2. \A j \in Live : ~ mem[j].del
    <3>1. CASE n = 0
      BY <1>1, <3>1, Forms DEF Placed
    <3>2. CASE cur = end
      BY <1>1, <2>1, <3>2 DEF Dels
    <3>3. QED
      BY <2>1, <3>1, <3>2
  <2>3. QED
    BY <2>1, <2>2 DEF Dels, Live
<1>16. CASE Shrink
  <2>1. /\ pc = "shrink" /\ pc' = "pages" /\ UNCHANGED <<mem, has_deleted>>
        /\ Slot(end') = Slot(end)
    BY <1>1, <1>16, Forms DEF Shrink, Goto, None, Slot
  <2>2. QED
    BY <1>1, <2>1 DEF Dels, Live
<1>17. CASE DropPage
  <2>1. pc = "pages" /\ pc' = "pages" /\ UNCHANGED <<end, has_deleted>>
    BY <1>17 DEF DropPage, work
  <2>2. \A j \in Live : (j + 1) * RecordBytes <= n' * PageBytes
    BY <1>17, DropsNothing
  <2>3. \A j \in Live : mem'[j] = mem[j]
    BY <1>1, <1>17, <2>2 DEF DropPage
  <2>4. QED
    BY <1>1, <2>1, <2>3 DEF Dels, Live
<1>18. CASE Shrunk
  BY <1>2, <1>18 DEF Shrunk, Return, disk
<1>19. CASE Clear
  <2>1. Live' = {} /\ pc' = pc /\ pc = "idle"
    BY <1>19, Forms DEF Clear, Live, work
  <2>2. QED
    BY <2>1 DEF Dels
<1>20. CASE Cut
  <2>1. pc' = "idle" /\ UNCHANGED <<end, has_deleted>>
    BY <1>20 DEF Cut, Return
  <2>2. \A j \in Slots : mem'[j] = mem[j] \/ mem'[j] = Junk
    BY <1>1, <1>20 DEF Cut
  <2>3. \A j \in Live : mem'[j].del => mem[j].del
    BY <1>1, <2>2 DEF Junk
  <2>4. QED
    BY <1>1, <2>1, <2>3, DelsKept
<1>21. CASE UNCHANGED vars
  BY <1>1, <1>21 DEF vars, Dels, Live
<1>22. QED
  BY <1>3, <1>4, <1>5, <1>6, <1>7, <1>8, <1>9, <1>10, <1>11, <1>12, <1>13, <1>14, <1>15,
     <1>16, <1>17, <1>18, <1>19, <1>20, <1>21 DEF Next, Inside, User

\* Where a record is tells its status.
Told ==
    \A r \in Records :
       /\ Carried(r) => Holding(r) = {} /\ Status(r) = "stored"
       /\ ~ Carried(r) /\ Holding(r) = {} => Status(r) = "absent"
       /\ \A j \in Holding(r) :
             /\ mem[j].add => Status(r) = "added"
             /\ ~ mem[j].add /\ mem[j].del => Status(r) = "deleted"
             /\ ~ mem[j].add /\ ~ mem[j].del => Status(r) = "stored"
             /\ \A i \in Holding(r) : i = j

LEMMA StatusTold == IInv => Told
<1> SUFFICES ASSUME IInv, NEW r \in Records
             PROVE  /\ Carried(r) => Holding(r) = {} /\ Status(r) = "stored"
                    /\ ~ Carried(r) /\ Holding(r) = {} => Status(r) = "absent"
                    /\ \A j \in Holding(r) :
                          /\ mem[j].add => Status(r) = "added"
                          /\ ~ mem[j].add /\ mem[j].del => Status(r) = "deleted"
                          /\ ~ mem[j].add /\ ~ mem[j].del => Status(r) = "stored"
                          /\ \A i \in Holding(r) : i = j
  BY DEF Told
<1>1. Marks /\ FlushInv /\ r # "junk"
  BY BoundsAssumption DEF IInv
<1>2. \A i, j \in Holding(r) : i = j
  BY <1>1 DEF Holding, Marks
<1>3. Carried(r) => Holding(r) = {}
  BY <1>1 DEF Carried, FlushInv
<1>4. CASE Holding(r) = {}
  <2>1. Cardinality(Holding(r)) = 0 /\ {mem[j] : j \in Holding(r)} = {}
    BY <1>4, FS_EmptySet
  <2>2. QED
    BY <1>4, <2>1 DEF Status
<1>5. CASE Holding(r) # {}
  <2>1. PICK j \in Holding(r) : Holding(r) = {j}
    BY <1>2, <1>5
  <2>2. Cardinality(Holding(r)) = 1 /\ ~ Carried(r)
    <3>1. Cardinality({j}) = 1
      BY FS_Singleton
    <3>2. QED
      BY <1>3, <1>5, <2>1, <3>1
  <2>5. {mem[i] : i \in Holding(r)} = {mem[j]}
    BY <2>1
  <2>3. Status(r) = IF mem[j].add THEN "added" ELSE IF mem[j].del THEN "deleted" ELSE "stored"
    <3>1. /\ Cardinality(Holding(r)) + (IF Carried(r) THEN 1 ELSE 0) = 1
          /\ {mem[i] : i \in Holding(r)} # {}
      BY <2>2, <2>5
    <3>2. \A d \in {"add", "del"} : (\E a \in {mem[j]} : a[d]) <=> mem[j][d]
      OBVIOUS
    <3>3. QED
      BY <2>2, <2>5, <3>1, <3>2 DEF Status
  <2>4. QED
    BY <1>2, <2>1, <2>2, <2>3
<1>6. QED
  BY <1>4, <1>5

Flushing == pc \in {"added", "check", "deleted", "fill", "copy", "shrink", "pages"}

\* A step that changes nothing about a record leaves its status alone.
LEMMA StatusKept ==
    ASSUME NEW r \in Records, Holding(r)' = Holding(r), Carried(r)' <=> Carried(r),
           \A j \in Holding(r) : mem'[j] = mem[j]
    PROVE  Status(r)' = Status(r)
<1>1. {mem'[j] : j \in Holding(r)'} = {mem[j] : j \in Holding(r)}
  OBVIOUS
<1>2. QED
  BY <1>1 DEF Status

LEMMA HoldingKept ==
    ASSUME NEW r, Live' = Live, \A j \in Live : mem'[j] = mem[j]
    PROVE  Holding(r)' = Holding(r)
BY DEF Holding

\* A step of the abstract heap: every status but one is kept.
LEMMA Stutters ==
    ASSUME Live' = Live, \A j \in Live : mem'[j] = mem[j], pc # "copy", pc' # "copy",
           Flushing' <=> Flushing, cuts' = cuts
    PROVE  [RS!Next]_(RS!vars)
<1>1. \A r \in Records : Status(r)' = Status(r)
  <2> SUFFICES ASSUME NEW r \in Records
               PROVE  Status(r)' = Status(r)
    OBVIOUS
  <2>1. Holding(r)' = Holding(r) /\ Holding(r) \subseteq Live
    BY HoldingKept DEF Holding
  <2>2. QED
    BY <2>1, StatusKept DEF Carried
<1>2. QED
  BY <1>1 DEF RS!vars, Flushing

LEMMA Appends ==
    ASSUME NEW r \in Records, ~ Flushing, ~ Flushing', cuts = 0, cuts' = 0,
           Status(r) = "absent", Status(r)' = "added",
           \A q \in Records : q # r => Status(q)' = Status(q)
    PROVE  [RS!Next]_(RS!vars)
<1>1. [q \in Records |-> Status(q)'] = [[q \in Records |-> Status(q)] EXCEPT ![r] = "added"]
  OBVIOUS
<1>2. RS!Append(r)
  BY <1>1 DEF RS!Append, Flushing
<1>3. QED
  BY <1>2 DEF RS!Next, RS!Call

LEMMA Deletes ==
    ASSUME NEW r \in Records, ~ Flushing, ~ Flushing', cuts = 0, cuts' = 0,
           Status(r) = "stored", Status(r)' = "deleted",
           \A q \in Records : q # r => Status(q)' = Status(q)
    PROVE  [RS!Next]_(RS!vars)
<1>1. [q \in Records |-> Status(q)'] = [[q \in Records |-> Status(q)] EXCEPT ![r] = "deleted"]
  OBVIOUS
<1>2. RS!Delete(r)
  BY <1>1 DEF RS!Delete, Flushing
<1>3. QED
  BY <1>2 DEF RS!Next, RS!Call

LEMMA Applies ==
    ASSUME NEW r \in Records, Flushing, Flushing', cuts = 0, cuts' = 0,
           \/ Status(r) = "added" /\ Status(r)' = "stored"
           \/ Status(r) = "deleted" /\ Status(r)' = "absent",
           \A q \in Records : q # r => Status(q)' = Status(q)
    PROVE  [RS!Next]_(RS!vars)
<1>1. [q \in Records |-> Status(q)'] =
         [[q \in Records |-> Status(q)] EXCEPT ![r] = IF @ = "added" THEN "stored" ELSE "absent"]
  OBVIOUS
<1>2. RS!Apply(r)
  BY <1>1 DEF RS!Apply, Flushing
<1>3. QED
  BY <1>2 DEF RS!Next, RS!Call

LEMMA Ends ==
    ASSUME IInv, cuts = 0, Flushing, ~ Flushing', pc # "copy", append_begin = None,
           \A j \in Live : ~ mem[j].del, UNCHANGED <<mem, end, cuts>>, pc' # "copy"
    PROVE  [RS!Next]_(RS!vars)
<1>1. \A r \in Records : Status(r)' = Status(r)
  <2> SUFFICES ASSUME NEW r \in Records
               PROVE  Status(r)' = Status(r)
    OBVIOUS
  <2>1. Holding(r)' = Holding(r) /\ Holding(r) \subseteq Live
    BY HoldingKept DEF Holding, Live
  <2>2. QED
    BY <2>1, StatusKept DEF Carried
<1>2. \A j \in Live : ~ mem[j].add
  BY DEF IInv, Sound, Clean, Committed
<1>3. ASSUME NEW r \in Records
      PROVE  Status(r) \in {"absent", "stored"}
  <2>1. ~ Carried(r)
    BY DEF Carried
  <2>2. CASE Holding(r) = {}
    BY <2>1, <2>2, StatusTold DEF Told
  <2>3. CASE Holding(r) # {}
    <3>1. PICK j \in Holding(r) : TRUE
      BY <2>3
    <3>2. j \in Live
      BY <3>1 DEF Holding
    <3>3. QED
      BY <1>2, <3>1, <3>2, StatusTold DEF Told
  <2>4. QED
    BY <2>2, <2>3
<1>4. [r \in Records |-> Status(r)'] = [r \in Records |-> Status(r)]
  BY <1>1
<1>5. RS!EndFlush
  BY <1>3, <1>4 DEF RS!EndFlush, Flushing
<1>6. QED
  BY <1>5 DEF RS!Next, RS!Call

\* The steps that change a status, one by one.
LEMMA SetEndImplements ==
    ASSUME Straddling, IInv, IInv', Told', SetEnd, cuts = 0
    PROVE  [RS!Next]_(RS!vars)
<1>1. /\ Types /\ AppendInv /\ n \in Nat /\ MaxSlots \in Nat /\ pc = "end" /\ pc' = "idle"
      /\ end \in Positions \cup {None} /\ Slot(end) \in 0 .. MaxSlots
      /\ UNCHANGED <<mem, cuts>> /\ end' = Following(end)
  BY Kinds, LiveSlots DEF IInv, SetEnd, Return
<1>2. /\ last.id \in Records /\ last.add /\ ~ last.del /\ Holding(last.id) = {}
      /\ Slot(end) < MaxSlots /\ end # None /\ mem[Slot(end)] = last
  BY <1>1 DEF AppendInv, Appending
<1>3. Live' = Live \cup {Slot(end)} /\ Slot(end) \notin Live
  <2>1. Slot(end') = Slot(end) + 1
    BY <1>1, <1>2, Moves
  <2>2. QED
    BY <1>1, <2>1 DEF Live
<1>4. \A r \in Records : ~ Carried(r) /\ ~ Carried(r)'
  BY <1>1 DEF Carried
<1>5. PICK r \in Records : r = last.id
  BY <1>2
<1>6. PICK j \in Nat : j = Slot(end)
  BY <1>1
<1>7. Holding(r) = {} /\ Holding(r)' = {j} /\ mem'[j].add
  BY <1>1, <1>2, <1>3, <1>5, <1>6 DEF Holding
<1>8. Status(r) = "absent" /\ Status(r)' = "added"
  BY <1>4, <1>7, StatusTold DEF Told
<1>9. ASSUME NEW q \in Records, q # r
      PROVE  Status(q)' = Status(q)
  <2>1. Holding(q)' = Holding(q)
    BY <1>1, <1>2, <1>3, <1>5, <1>9 DEF Holding
  <2>2. QED
    BY <1>1, <1>4, <2>1, StatusKept
<1>10. QED
  BY <1>1, <1>8, <1>9, Appends DEF Flushing

LEMMA MarkImplements ==
    ASSUME Straddling, IInv, IInv', Told', Mark, cuts = 0
    PROVE  [RS!Next]_(RS!vars)
<1>1. /\ Types /\ ScanInv /\ Marks /\ InTail /\ Clean /\ (scan # NoScan => Got)
      /\ n \in Nat /\ MaxSlots \in Nat /\ pc = "mark" /\ pc' = "idle" /\ mem \in [Slots -> Record]
      /\ Slot(end) \in 0 .. MaxSlots /\ Live \subseteq Slots
      /\ UNCHANGED <<end, cuts>>
      /\ \A j \in Slots : j \in Live <=> j < Slot(end)
      /\ scan.pos \in Positions \cup {None}
  BY Kinds, LiveSlots DEF IInv, Sound, Mark, Return, Types, TypeOK
<1>2. scan.pos # None /\ ~ scan.add /\ scan # NoScan /\ n > 0
  BY <1>1 DEF ScanInv, NoScan
<1>3. Slot(scan.pos) < Slot(end) /\ mem[Slot(scan.pos)].add = scan.add /\ Slot(scan.pos) \in Nat
  BY <1>1, <1>2, Forms DEF Got
<1>4. PICK j \in Live : j = Slot(scan.pos)
  BY <1>1, <1>3 DEF Live
<1>5. mem[j].id # "junk" /\ ~ mem[j].add /\ mem[j] \in Record /\ Live' = Live
  BY <1>1, <1>2, <1>3, <1>4 DEF Clean, Live
<1>6. PICK r \in Records : r = mem[j].id
  BY <1>5 DEF Record
<1>7. mem' = [mem EXCEPT ![j].add = FALSE, ![j].del = TRUE]
  BY <1>4, <1>5 DEF Mark
<1>8. /\ mem'[j].id = r /\ ~ mem'[j].add /\ mem'[j].del
      /\ \A i \in Live : i # j => mem'[i] = mem[i]
      /\ \A i \in Live : mem'[i].id = mem[i].id
  BY <1>1, <1>5, <1>6, <1>7 DEF Record
<1>9. \A q \in Records : Holding(q)' = Holding(q) /\ ~ Carried(q) /\ ~ Carried(q)'
  BY <1>1, <1>5, <1>8 DEF Holding, Carried
<1>10. j \in Holding(r) /\ j \in Holding(r)'
  BY <1>4, <1>6, <1>9 DEF Holding
<1>11. Status(r)' = "deleted"
  BY <1>8, <1>10 DEF Told
<1>12. ASSUME NEW q \in Records, q # r
       PROVE  Status(q)' = Status(q)
  <2>1. \A i \in Holding(q) : mem'[i] = mem[i]
    BY <1>6, <1>8, <1>12 DEF Holding
  <2>2. QED
    BY <1>9, <2>1, StatusKept
<1>13. CASE mem[j].del
  <2>1. Status(r) = "deleted"
    BY <1>5, <1>10, <1>13, StatusTold DEF Told
  <2>2. \A q \in Records : Status(q)' = Status(q)
    BY <1>11, <1>12, <2>1
  <2>3. ~ Flushing /\ ~ Flushing'
    BY <1>1 DEF Flushing
  <2>4. QED
    BY <1>1, <2>2, <2>3 DEF RS!vars, Flushing
<1>14. CASE ~ mem[j].del
  <2>1. Status(r) = "stored"
    BY <1>5, <1>10, <1>14, StatusTold DEF Told
  <2>2. QED
    BY <1>1, <1>11, <1>12, <2>1, Deletes DEF Flushing
<1>15. QED
  BY <1>13, <1>14

LEMMA CommitImplements ==
    ASSUME Straddling, IInv, IInv', Told', CommitAppend, cuts = 0
    PROVE  [RS!Next]_(RS!vars)
<1>1. /\ Types /\ FlushInv /\ Marks /\ InTail /\ Clean
      /\ n \in Nat /\ MaxSlots \in Nat /\ pc = "added" /\ mem \in [Slots -> Record]
      /\ n > 0 /\ cur # end /\ Live \subseteq Slots
  BY Kinds, LiveSlots DEF IInv, Sound, CommitAppend
<1>2. end # None
  BY <1>1 DEF InTail, Ending, Deleting
<1>3. InPages(cur) /\ Slot(cur) \in Live
  BY <1>1, <1>2, FlushInside
<1>4. PICK b \in Read(Slot(cur)) :
        /\ b.add => mem' = IF b.id = "junk" THEN mem ELSE [mem EXCEPT ![Slot(cur)].add = FALSE]
        /\ ~ b.add => mem' = mem
        /\ UNCHANGED <<end, pc, cuts>>
  BY <1>3 DEF CommitAppend
<1>5. PICK j \in Live : j = Slot(cur)
  BY <1>3
<1>6. b = mem[j] /\ b.id \in Records /\ b.id # "junk"
  BY <1>1, <1>4, <1>5, CleanReads
<1>7. Live' = Live /\ pc' = "added"
  BY <1>1, <1>4 DEF Live
<1>8. CASE ~ b.add
  BY <1>1, <1>4, <1>7, <1>8, Stutters DEF Flushing
<1>9. CASE b.add
  <2>1. mem' = [mem EXCEPT ![j].add = FALSE]
    BY <1>4, <1>5, <1>6, <1>9
  <2>2. /\ mem'[j].id = mem[j].id /\ ~ mem'[j].add /\ mem'[j].del = mem[j].del
        /\ \A i \in Live : i # j => mem'[i] = mem[i]
        /\ \A i \in Live : mem'[i].id = mem[i].id
    BY <1>1, <2>1 DEF Record
  <2>3. \A q \in Records : Holding(q)' = Holding(q) /\ ~ Carried(q) /\ ~ Carried(q)'
    BY <1>1, <1>7, <2>2 DEF Holding, Carried
  <2>4. PICK r \in Records : r = mem[j].id
    BY <1>6
  <2>5. j \in Holding(r) /\ j \in Holding(r)'
    BY <1>5, <2>3, <2>4 DEF Holding
  <2>6. mem[j].add /\ ~ mem[j].del /\ ~ mem'[j].del
    BY <1>1, <1>6, <1>9, <2>2 DEF Marks
  <2>7. Status(r) = "added"
    BY <2>5, <2>6, StatusTold DEF Told
  <2>8. Status(r)' = "stored"
    BY <2>2, <2>5, <2>6 DEF Told
  <2>9. ASSUME NEW q \in Records, q # r
        PROVE  Status(q)' = Status(q)
    <3>1. \A i \in Holding(q) : mem'[i] = mem[i]
      BY <2>2, <2>4, <2>9 DEF Holding
    <3>2. QED
      BY <2>3, <3>1, StatusKept
  <2>10. QED
    BY <1>1, <1>4, <1>7, <2>7, <2>8, <2>9, Applies DEF Flushing
<1>10. QED
  BY <1>8, <1>9

LEMMA FillImplements ==
    ASSUME Straddling, IInv, IInv', Told', Fill, cuts = 0
    PROVE  [RS!Next]_(RS!vars)
<1>1. /\ Types /\ FlushInv /\ Marks /\ Clean /\ ~ Error /\ pc = "fill"
      /\ Slot(end) \in 0 .. MaxSlots /\ MaxSlots \in Nat
      /\ mem \in [Slots -> Record] /\ Live \subseteq Slots
  BY Kinds, LiveSlots, FillNeverFails DEF IInv, Sound, Fill
<1>2. /\ append_begin = None /\ Slot(end) > 0 /\ Slot(end') = Slot(end) - 1
      /\ UNCHANGED <<mem, cuts, cur>> /\ pc' \in {"deleted", "fill", "copy"}
      /\ pc' = "deleted" => Slot(end') = Slot(cur)
  BY <1>1, FillRound
<1>3. PICK j \in Live : j = Slot(end) - 1 /\ Live' = Live \ {j}
  BY <1>1, <1>2 DEF Live
<1>4. mem[j].id # "junk" /\ ~ mem[j].add /\ mem[j] \in Record
  BY <1>1, <1>2, <1>3 DEF Clean, Committed
<1>5. PICK r \in Records : r = mem[j].id
  BY <1>4 DEF Record
<1>6. /\ j \in Holding(r) /\ \A q \in Records : ~ Carried(q)
      /\ \A q \in Records : q # r => Holding(q)' = Holding(q)
  BY <1>1, <1>2, <1>3, <1>5 DEF Holding, Carried
<1>7. Holding(r)' = {}
  <2>1. \A i \in Holding(r) : i = j
    BY <1>6, StatusTold DEF Told
  <2>2. QED
    BY <1>2, <1>3, <2>1 DEF Holding
<1>8. /\ pc' = "deleted" \/ pc' = "fill" => mem[j].del
      /\ pc' = "copy" => ~ mem[j].del /\ last' = mem[j]
  <2>1. CASE pc' = "deleted"
    BY <1>1, <1>2, <1>3, <1>4, <2>1 DEF FlushInv, Gone
  <2>2. CASE pc' # "deleted"
    <3>1. PICK b \in Read(Slot(end) - 1) :
             /\ pc' = "fill" => b.del
             /\ pc' = "copy" => ~ b.del /\ last' = b
      BY <1>1, <2>2 DEF Fill, Goto
    <3>2. b = mem[j]
      BY <1>1, <1>3, <3>1, CleanReads
    <3>3. QED
      BY <2>2, <3>1, <3>2
  <2>3. QED
    BY <2>1, <2>2
<1>9. CASE pc' = "copy"
  <2>1. Carried(r)' /\ \A q \in Records : q # r => ~ Carried(q)'
    BY <1>5, <1>8, <1>9 DEF Carried
  <2>2. Status(r) = "stored"
    BY <1>4, <1>6, <1>8, <1>9, StatusTold DEF Told
  <2>3. Status(r)' = "stored"
    BY <2>1 DEF Told
  <2>4. ASSUME NEW q \in Records, q # r
        PROVE  Status(q)' = Status(q)
    BY <1>2, <1>6, <2>1, <2>4, StatusKept
  <2>5. \A q \in Records : Status(q)' = Status(q)
    BY <2>2, <2>3, <2>4
  <2>6. Flushing /\ Flushing'
    BY <1>1, <1>9 DEF Flushing
  <2>7. QED
    BY <1>2, <2>5, <2>6 DEF RS!vars, Flushing
<1>10. CASE pc' # "copy"
  <2>1. \A q \in Records : ~ Carried(q)'
    BY <1>10 DEF Carried
  <2>2. Status(r) = "deleted"
    BY <1>2, <1>4, <1>6, <1>8, <1>10, StatusTold DEF Told
  <2>3. Status(r)' = "absent"
    BY <1>7, <2>1 DEF Told
  <2>4. ASSUME NEW q \in Records, q # r
        PROVE  Status(q)' = Status(q)
    BY <1>2, <1>6, <2>1, <2>4, StatusKept
  <2>5. Flushing /\ Flushing'
    BY <1>1, <1>2 DEF Flushing
  <2>6. QED
    BY <1>2, <2>2, <2>3, <2>4, <2>5, Applies
<1>11. QED
  BY <1>9, <1>10

LEMMA CopyImplements ==
    ASSUME Straddling, IInv, IInv', Told', Copy, cuts = 0
    PROVE  [RS!Next]_(RS!vars)
<1>1. /\ Types /\ FlushInv /\ Marks /\ Clean /\ pc = "copy" /\ pc' = "deleted"
      /\ n \in Nat /\ MaxSlots \in Nat /\ mem \in [Slots -> Record] /\ last \in Record
      /\ UNCHANGED <<end, cuts>> /\ mem' = [mem EXCEPT ![Slot(cur)] = last]
      /\ Live \subseteq Slots /\ \A j \in Slots : j \in Live <=> j < Slot(end)
      /\ cur \in Positions \cup {None}
  BY Kinds, LiveSlots DEF IInv, Sound, Copy, Types, TypeOK
<1>2. /\ append_begin = None /\ cur # None /\ end # None
      /\ Slot(cur) < Slot(end) /\ Slot(cur) < MaxSlots /\ Gone(Slot(cur))
      /\ last.id # "junk" /\ ~ last.add /\ ~ last.del
      /\ last.id \in Records => Holding(last.id) = {}
  BY <1>1 DEF FlushInv, Clean, Deleting
<1>3. PICK j \in Live : j = Slot(cur)
  <2>1. Slot(cur) \in Slots
    BY <1>1, <1>2, Forms DEF Slots
  <2>2. QED
    BY <1>1, <1>2, <2>1
<1>4. Live' = Live /\ mem'[j] = last /\ \A i \in Live : i # j => mem'[i] = mem[i]
  BY <1>1, <1>3 DEF Live
<1>5. mem[j].id # "junk" /\ mem[j].del /\ ~ mem[j].add /\ mem[j] \in Record
  BY <1>1, <1>2, <1>3 DEF Clean, Committed, Gone
<1>6. PICK r \in Records : r = mem[j].id
  BY <1>5 DEF Record
<1>7. PICK t \in Records : t = last.id
  BY <1>1, <1>2 DEF Record
<1>8. /\ j \in Holding(r) /\ Holding(t) = {} /\ r # t
      /\ Carried(t) /\ \A q \in Records : (q # t => ~ Carried(q)) /\ ~ Carried(q)'
  BY <1>1, <1>2, <1>3, <1>6, <1>7 DEF Holding, Carried
<1>9. Holding(r)' = {}
  <2>1. \A i \in Holding(r) : i = j
    BY <1>8, StatusTold DEF Told
  <2>2. QED
    BY <1>4, <1>7, <1>8, <2>1 DEF Holding
<1>10. j \in Holding(t)'
  BY <1>3, <1>4, <1>7 DEF Holding
<1>11. Status(r) = "deleted" /\ Status(r)' = "absent"
  BY <1>5, <1>8, <1>9, StatusTold DEF Told
<1>12. Status(t) = "stored" /\ Status(t)' = "stored"
  BY <1>2, <1>4, <1>8, <1>10, StatusTold DEF Told
<1>13. ASSUME NEW q \in Records, q # r
       PROVE  Status(q)' = Status(q)
  <2>1. CASE q = t
    BY <1>12, <2>1
  <2>2. CASE q # t
    <3>1. Holding(q)' = Holding(q)
      BY <1>4, <1>6, <1>7, <1>13, <2>2 DEF Holding
    <3>2. \A i \in Holding(q) : mem'[i] = mem[i]
      BY <1>4, <1>6, <1>13 DEF Holding
    <3>3. QED
      BY <1>8, <2>2, <3>1, <3>2, StatusKept
  <2>3. QED
    BY <2>1, <2>2
<1>14. QED
  BY <1>1, <1>11, <1>13, Applies DEF Flushing

LEMMA CheckImplements ==
    ASSUME Straddling, IInv, Dels, CheckDeleted, cuts = 0
    PROVE  [RS!Next]_(RS!vars)
<1>1. /\ Types /\ InTail /\ FlushInv /\ pc = "check" /\ Placed
      /\ UNCHANGED <<mem, end, cuts>> /\ append_begin = None
      /\ pc' \in {"deleted", "idle"} /\ Slot(end) \in 0 .. MaxSlots
      /\ n \in Nat /\ MaxSlots \in Nat /\ end \in Positions \cup {None}
      /\ RecordBytes \in Nat /\ PageBytes \in Nat
  BY Kinds, LiveSlots, GeometryAssumption DEF IInv, Sound, CheckDeleted, disk, Return, FlushInv
<1>2. CASE pc' = "deleted"
  BY <1>1, <1>2, Stutters DEF Live, Flushing
<1>3. CASE pc' = "idle"
  <2>1. \A j \in Live : ~ mem[j].del
    <3>1. CASE ~ has_deleted
      BY <3>1 DEF Dels
    <3>2. CASE has_deleted
      <4>1. n > 0 /\ ~ InPages(First)
        BY <1>3, <3>2 DEF CheckDeleted
      <4>2. end # None /\ end # First
        BY <1>1, <4>1 DEF InTail, Ending, Deleting
      <4>3. Slot(end) >= 1 /\ Bytes(Slot(end)) < Capacity(n)
        BY <1>1, <4>2, Forms DEF Placed
      <4>4. Bytes(1) <= Bytes(Slot(end))
        BY <1>1, <4>3, Increasing
      <4>5. InPages(First)
        <5>1. First \in Positions /\ Slot(First) = 0
          BY Forms DEF Slot
        <5>2. Bytes(0 + 1) <= Capacity(n)
          <6>1. Bytes(1) \in Int /\ Bytes(Slot(end)) \in Int /\ Capacity(n) \in Int
            BY <1>1, Sizes
          <6>2. QED
            BY <4>3, <4>4, <6>1
        <5>3. 0 < MaxSlots
          BY <1>1, <4>3
        <5>4. QED
          BY <1>1, <5>1, <5>2, <5>3, InPagesMeans
      <4>6. QED
        BY <4>1, <4>5
    <3>3. QED
      BY <3>1, <3>2
  <2>2. Flushing /\ ~ Flushing' /\ pc # "copy" /\ pc' # "copy"
    BY <1>1, <1>3 DEF Flushing
  <2>3. QED
    BY <1>1, <2>1, <2>2, Ends
<1>4. QED
  BY <1>1, <1>2, <1>3

LEMMA StepImplements ==
    ASSUME Straddling, IInv, Dels, [Next]_vars, IInv', Told'
    PROVE  [RS!Next]_(RS!vars)
<1>1. /\ Types /\ Placed /\ AppendInv /\ FlushInv /\ ScanInv /\ Marks
      /\ cuts \in Nat /\ cuts' \in Nat /\ n \in Nat /\ mem \in [Slots -> Record]
      /\ Slot(end) \in 0 .. MaxSlots /\ Live \subseteq Slots
  BY Kinds, LiveSlots, BoundsAssumption DEF IInv, Types, TypeOK
<1>2. cuts' = cuts \/ cuts' = cuts + 1
  BY DEF Next, Inside, User, vars, disk, user, work, Error, HeapAppend, Reserve, ExtendPage,
         Extended, Write, SetBegin, SetEnd, Mark, CommitAppend, AppendsDone, CheckDeleted,
         SkipOrFill, Fill, Copy, DeletesDone, Shrink, DropPage, Shrunk, Open, ScanNext, Close,
         Delete, Flush, Clear, Cut
<1>3. CASE cuts' > 0
  BY <1>3 DEF RS!Next
<1>4. CASE cuts' = 0
  <2>1. cuts = 0 /\ InTail
    BY <1>1, <1>2, <1>4 DEF IInv, Sound
  <2>2. CASE SetEnd
    BY <2>1, <2>2, SetEndImplements
  <2>3. CASE Mark
    BY <2>1, <2>3, MarkImplements
  <2>4. CASE CommitAppend
    BY <2>1, <2>4, CommitImplements
  <2>5. CASE CheckDeleted
    BY <2>1, <2>5, CheckImplements
  <2>6. CASE Fill
    BY <2>1, <2>6, FillImplements
  <2>7. CASE Copy
    BY <2>1, <2>7, CopyImplements
  <2>8. CASE Shrunk
    <3>1. /\ pc = "pages" /\ pc' = "idle" /\ UNCHANGED <<mem, end, cuts>>
          /\ append_begin = None /\ ~ has_deleted
      BY <1>1, <2>8 DEF Shrunk, Return, disk, FlushInv, Deleting, Dels
    <3>2. \A j \in Live : ~ mem[j].del
      BY <3>1 DEF Dels
    <3>3. Flushing /\ ~ Flushing' /\ pc # "copy" /\ pc' # "copy"
      BY <3>1 DEF Flushing
    <3>4. QED
      BY <2>1, <3>1, <3>2, <3>3, Ends
  <2>9. CASE Flush
    <3>1. /\ ~ Flushing /\ Flushing' /\ UNCHANGED <<mem, end, cuts>>
          /\ pc # "copy" /\ pc' # "copy"
      BY <2>9 DEF Flush, Flushing, disk
    <3>2. ASSUME NEW r \in Records
          PROVE  Status(r)' = Status(r)
      <4>1. Holding(r)' = Holding(r)
        BY <3>1, HoldingKept DEF Live
      <4>2. QED
        BY <3>1, <4>1, StatusKept DEF Carried
    <3>3. [r \in Records |-> Status(r)'] = [r \in Records |-> Status(r)]
      BY <3>2
    <3>4. RS!StartFlush
      BY <3>1, <3>3 DEF RS!StartFlush, Flushing
    <3>5. QED
      BY <2>1, <1>4, <3>4 DEF RS!Next, RS!Call
  <2>10. CASE Clear
    <3>1. ~ Flushing /\ ~ Flushing' /\ pc' # "copy" /\ Live' = {}
      BY <2>10, Forms DEF Clear, work, Flushing, Live, Slot, None
    <3>2. \A r \in Records : Status(r)' = "absent"
      BY <3>1 DEF Told, Holding, Carried
    <3>3. [r \in Records |-> Status(r)'] = [r \in Records |-> "absent"]
      BY <3>2
    <3>4. RS!Clear
      BY <3>1, <3>3 DEF RS!Clear, Flushing
    <3>5. QED
      BY <2>1, <1>4, <3>4 DEF RS!Next, RS!Call
  <2>11. CASE Cut
    BY <1>1, <1>4, <2>1, <2>11 DEF Cut
  <2>12. CASE Write
    <3>1. CASE Error
      BY <2>12, <3>1, Stutters DEF Write, Error, Return, Flushing, Live, disk
    <3>2. CASE ~ Error
      <4>1. /\ pc = "write" /\ pc' = "begin" /\ UNCHANGED <<end, cuts>>
            /\ mem' = [mem EXCEPT ![Slot(end)] = last]
        BY <2>12, <3>2 DEF Write, Goto
      <4>2. Slot(end) \notin Live
        BY <1>1 DEF Live
      <4>3. Live' = Live /\ \A j \in Live : mem'[j] = mem[j]
        BY <1>1, <4>1, <4>2 DEF Live
      <4>4. QED
        BY <4>1, <4>3, Stutters DEF Flushing
    <3>3. QED
      BY <3>1, <3>2
  <2>13. CASE Extended
    <3>1. Slot(end') = Slot(end) /\ UNCHANGED <<mem, cuts>> /\ pc = "extend" /\ pc' = "write"
      <4>1. cur = First => end = None
        BY <1>1, <2>13 DEF Extended, AppendInv
      <4>2. QED
        BY <2>13, <4>1, Forms DEF Extended, Goto, None, Slot
    <3>2. QED
      BY <3>1, Stutters DEF Flushing, Live
  <2>14. CASE Shrink
    <3>1. /\ pc = "shrink" /\ pc' = "pages" /\ UNCHANGED <<mem, cuts>>
          /\ Slot(end') = Slot(end)
      <4>1. end \in Positions \cup {None}
        BY <1>1, Kinds
      <4>2. QED
        BY <2>14, <4>1, Forms DEF Shrink, Goto, None, Slot
    <3>2. QED
      BY <3>1, Stutters DEF Flushing, Live
  <2>15. CASE DropPage
    <3>1. pc = "pages" /\ pc' = "pages" /\ UNCHANGED <<end, cuts>>
      BY <2>15 DEF DropPage, work
    <3>2. \A j \in Live : (j + 1) * RecordBytes <= n' * PageBytes
      BY <2>15, DropsNothing
    <3>3. Live' = Live /\ \A j \in Live : mem'[j] = mem[j]
      BY <1>1, <2>15, <3>1, <3>2 DEF DropPage, Live
    <3>4. QED
      BY <3>1, <3>3, Stutters DEF Flushing
  <2>16. CASE SkipOrFill
    <3>1. pc = "deleted" /\ n > 0 /\ cur # end
      BY <2>16 DEF SkipOrFill
    <3>2. end # None
      BY <2>1, <3>1 DEF InTail
    <3>3. InPages(cur)
      BY <3>1, <3>2, FlushInside
    <3>4. pc' \in {"deleted", "fill"} /\ UNCHANGED <<mem, end, cuts>>
      BY <2>16, <3>1, <3>3 DEF SkipOrFill, Goto, disk
    <3>5. QED
      BY <3>1, <3>4, Stutters DEF Flushing, Live
  <2>17. CASE UNCHANGED vars
    <3>1. /\ UNCHANGED <<mem, end, pc, last, cuts>>
      BY <2>17 DEF vars
    <3>2. \A r \in Records : Holding(r)' = Holding(r) /\ Carried(r)' = Carried(r)
      BY <3>1 DEF Holding, Carried, Live
    <3>3. \A r \in Records : Status(r)' = Status(r)
      BY <3>1, <3>2, StatusKept
    <3>4. QED
      BY <3>1, <3>3 DEF RS!vars, Flushing
  <2>18. CASE (\E r \in Records : HeapAppend(r)) \/ Reserve \/ ExtendPage \/ SetBegin
    <3>1. /\ pc \in {"idle", "reserve", "extend", "begin"}
          /\ pc' \in {"idle", "reserve", "extend", "end"} /\ UNCHANGED <<mem, end, cuts>>
      BY <2>18 DEF HeapAppend, Reserve, ExtendPage, SetBegin, Error, Return, Goto, disk
    <3>2. QED
      BY <3>1, Stutters DEF Flushing, Live
  <2>19. CASE AppendsDone \/ DeletesDone
    <3>1. /\ pc \in {"added", "deleted"} /\ pc' \in {"check", "shrink"}
          /\ UNCHANGED <<mem, end, cuts>>
      BY <2>19 DEF AppendsDone, DeletesDone, Goto
    <3>2. QED
      BY <3>1, Stutters DEF Flushing, Live
  <2>20. CASE Open \/ ScanNext \/ Close \/ Delete
    <3>1. pc = "idle" /\ pc' \in {"idle", "mark"} /\ UNCHANGED <<mem, end, cuts>>
      BY <2>20 DEF Open, ScanNext, Close, Delete, Goto, disk, work
    <3>2. QED
      BY <3>1, Stutters DEF Flushing, Live
  <2>21. QED
    BY <2>2, <2>3, <2>4, <2>5, <2>6, <2>7, <2>8, <2>9, <2>10, <2>11, <2>12, <2>13, <2>14,
       <2>15, <2>16, <2>17, <2>18, <2>19, <2>20 DEF Next, Inside, User
<1>5. QED
  BY <1>1, <1>3, <1>4

\* Everything a heap none of whose records ends at the end of a page (Straddling) does
\* up to the first failure is a behavior of a RecordStore: a mark of heap_append or
\* heap_iterator_delete takes effect in the next heap_flush whole, and nothing else
\* changes a record, for all the moving about of records that heap_record_fill does.
THEOREM KeepsItsPromise ==
    ASSUME Straddling
    PROVE  Spec => IsRecordStore
<1>1. Init => RS!Init
  <2> SUFFICES ASSUME Init
               PROVE  RS!Init
    OBVIOUS
  <2>1. pc = "idle" /\ cuts = 0 /\ Live = {}
    BY Forms DEF Init, Live, Slot, None
  <2>2. ASSUME NEW r \in Records
        PROVE  Status(r) = "absent"
    <3>1. IInv
      BY InvInit
    <3>2. Holding(r) = {} /\ ~ Carried(r)
      BY <2>1 DEF Holding, Carried
    <3>3. QED
      BY <3>1, <3>2, StatusTold DEF Told
  <2>3. QED
    BY <2>1, <2>2 DEF RS!Init
<1>2. Init => Dels
  BY Forms DEF Init, Dels, Live, Slot, None
<1>3. IInv /\ Dels /\ [Next]_vars => Dels'
  BY DelsStep
<1>4. IInv' => Told'
  BY StatusTold, PTL
<1>5. IInv /\ Dels /\ [Next]_vars /\ IInv' => [RS!Next]_(RS!vars)
  BY <1>4, StepImplements
<1>6. QED
  BY <1>1, <1>2, <1>3, <1>5, Invariance, PTL DEF Spec, IsRecordStore, RS!Spec

-----------------------------------------------------------------------------
(***************************************************************************)
(* The heaps of the pool                                                   *)
(***************************************************************************)

\* pool_create: the records of heap i have 64 * 2^i bytes and a header of 9.  What
\* remains of that by the 4080 bytes of a page comes round every 8 heaps.
Remainders == {25, 41, 73, 137, 265, 521, 1033, 2057}

\* Few enough records for the heap they are in.
ShortHeap ==
    /\ PageBytes = 4080 /\ RecordBytes % 4080 \in Remainders
    /\ MaxSlots < IF RecordBytes % 4080 = 2057 THEN 240
                  ELSE IF RecordBytes % 4080 \in {25, 265} THEN 816 ELSE 4080

LEMMA ShortStraddles ==
  ASSUME ShortHeap
  PROVE  Straddling
<1> SUFFICES ASSUME NEW j \in 1 .. MaxSlots PROVE (j * RecordBytes) % PageBytes # 0
  BY DEF Straddling
<1> DEFINE r == RecordBytes % 4080
           q == RecordBytes \div 4080
<1>1. /\ PageBytes = 4080 /\ r \in Remainders /\ RecordBytes \in Nat /\ MaxSlots \in Nat
      /\ MaxSlots < IF r = 2057 THEN 240 ELSE IF r \in {25, 265} THEN 816 ELSE 4080
  BY GeometryAssumption, BoundsAssumption DEF ShortHeap
<1>2. q \in Nat /\ r \in Nat /\ RecordBytes = 4080 * q + r
  BY <1>1
<1> HIDE DEF r, q
<1>3. j \in Nat /\ j > 0 /\ j <= MaxSlots
  BY <1>1
<1>4. PICK a \in Nat : a = j * q
  BY <1>2, <1>3
<1>5. j * RecordBytes = 4080 * a + j * r
  BY <1>2, <1>3, <1>4
<1>6. \A b \in Nat : (4080 * a + b) % 4080 = b % 4080
  OBVIOUS
<1>7. (j * r) % 4080 # 0
  <2>1. CASE r = 2057
    <3>1. j < 240 /\ (j * 2057) % 4080 # 0
      BY <1>1, <1>3, <2>1
    <3>2. QED
      BY <2>1, <3>1
  <2>2. CASE r = 25
    BY <1>1, <1>3, <2>2
  <2>3. CASE r = 265
    BY <1>1, <1>3, <2>3
  <2>4. CASE r = 41
    BY <1>1, <1>3, <2>4
  <2>5. CASE r = 73
    BY <1>1, <1>3, <2>5
  <2>6. CASE r = 137
    BY <1>1, <1>3, <2>6
  <2>7. CASE r = 521
    BY <1>1, <1>3, <2>7
  <2>8. CASE r = 1033
    BY <1>1, <1>3, <2>8
  <2>9. QED
    BY <1>1, <2>1, <2>2, <2>3, <2>4, <2>5, <2>6, <2>7, <2>8 DEF Remainders
<1>8. j * r \in Nat
  BY <1>2, <1>3
<1>9. QED
  BY <1>1, <1>5, <1>6, <1>7, <1>8

\* A heap of the pool of a table (pool_create) has room for its appends, loses at most
\* a record for each kill or failure and shows a scan every record once, while it has
\* fewer than 240 records, or 816 or 4080 where the size of its records allows.
THEOREM PoolHeapsKeep ==
    ASSUME ShortHeap
    PROVE  Spec => [](RoomReserved /\ LossBounded /\ ScanComplete)
<1>1. Straddling
  BY ShortStraddles
<1>2. Spec => []RoomReserved
  BY <1>1, RoomIsReserved
<1>3. Spec => []LossBounded
  BY <1>1, LossIsBounded
<1>4. Spec => []ScanComplete
  BY <1>1, ScanIsComplete
<1>5. QED
  BY <1>2, <1>3, <1>4, PTL
===============================================================================
