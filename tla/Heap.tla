--------------------------------- MODULE Heap ---------------------------------
(***************************************************************************)
(* The heap of records of core/src/heap/private/heap.c: records of one     *)
(* size laid end to end over the pages of a PageList.  Appends and deletes *)
(* only mark records; heap_flush commits the marks, fills the holes with   *)
(* the last records and gives the emptied pages back.                      *)
(*                                                                         *)
(* Record number j occupies the bytes from j * RecordBytes on, counted     *)
(* without the page headers.  Where that is a multiple of PageBytes the    *)
(* code has two file offsets for the one place, the end of a page (what    *)
(* reading forward yields) and the start of the next (reading backward),   *)
(* and compares offsets; a position is therefore <<j, form>>.              *)
(*                                                                         *)
(* Every store that outlives the process is a step.  The calls of the page *)
(* list are atomic here, PageList has their steps.                         *)
(***************************************************************************)
EXTENDS Integers, FiniteSets, Sequences

CONSTANTS
    Records,        \* the records users append, each once at a time
    PageBytes,      \* PAGE_CAPACITY, 4080
    RecordBytes,    \* record_size, with its header
    MaxSlots,       \* bound: records in the heap, the uncommitted included
    MaxCuts         \* bound: kills and failures

\* The second line is a bound: it leaves out a page boundary between records
\* in a heap whose records do not tile a page.
ASSUME GeometryAssumption ==
    /\ PageBytes \in Nat \ {0} /\ RecordBytes \in Nat \ {0}
    /\ \/ PageBytes % RecordBytes = 0
       \/ \A j \in 1 .. MaxSlots : (j * RecordBytes) % PageBytes # 0
ASSUME BoundsAssumption == MaxSlots \in Nat /\ MaxCuts \in Nat /\ "junk" \notin Records

VARIABLES
    n,              \* pages in the list
    end,            \* heap_h.end
    append_begin,   \* heap_h.append_begin
    has_deleted,    \* heap_h.has_deleted
    mem,            \* the records in the pages, with their flags
    pc,             \* where the call is
    cur,            \* the position of the iterator of flush; of the call's record
    last,           \* last_record_buffer in record_fill; the record to append
    todo,           \* pages still to add
    scan,           \* a user's heap_it: position, and what its buffer holds
    seen, due,      \* history: records a scan has got, and has to get
    owed,           \* history: records committed and not marked deleted since
    cuts            \* history: kills and failures so far

disk == <<n, end, append_begin, has_deleted, mem>>
work == <<pc, cur, last, todo>>
user == <<scan, seen, due>>
vars == <<n, end, append_begin, has_deleted, mem, pc, cur, last, todo,
          scan, seen, due, owed, cuts>>

Slots == 0 .. MaxSlots - 1

PagesFor(bytes) == (bytes + PageBytes - 1) \div PageBytes

\* Bound: the allocator has no more pages than this for the heap.
MaxPages == PagesFor(MaxSlots * RecordBytes) + MaxCuts * PagesFor(RecordBytes)

(***************************************************************************)
(* Positions                                                               *)
(***************************************************************************)
None == <<0, "none">>           \* offset 0
Aliased(j) == j > 0 /\ (j * RecordBytes) % PageBytes = 0
At(j, form) == <<j, IF Aliased(j) THEN form ELSE "in">>
Positions == {At(j, form) : j \in 0 .. MaxSlots, form \in {"end", "start"}}
First == At(0, "start")
Slot(pos) == pos[1]
Following(pos) == At(Slot(pos) + 1, "end")      \* what heap_read_forward returns
Preceding(pos) == At(Slot(pos) - 1, "start")    \* what heap_read_backward returns

\* The page in the list of record_page_offset(pos - 1).
PageOf(pos) ==
    IF pos[2] = "end" THEN (Slot(pos) * RecordBytes) \div PageBytes - 1
    ELSE (Slot(pos) * RecordBytes) \div PageBytes

\* Is there a whole record at pos in the pages of the list?  If not, reading
\* and writing fail with the end of the list.  (MaxSlots bounds what is read
\* past the end of the heap.)
InPages(pos) ==
    /\ pos # None /\ PageOf(pos) < n /\ Slot(pos) < MaxSlots
    /\ (Slot(pos) + 1) * RecordBytes <= n * PageBytes

(***************************************************************************)
(* Records                                                                 *)
(***************************************************************************)
Record == [id : Records \cup {"junk"}, add : BOOLEAN, del : BOOLEAN]
Junk == [id |-> "junk", add |-> FALSE, del |-> FALSE]

\* What is read at a slot: bytes nobody wrote have any flags.
Read(j) ==
    IF mem[j].id = "junk" THEN {[id |-> "junk", add |-> a, del |-> d] : a, d \in BOOLEAN}
    ELSE {mem[j]}

Live == 0 .. Slot(end) - 1
Holding(r) == {j \in Live : mem[j].id = r}
NoScan == [pos |-> None, id |-> "none", add |-> FALSE]

TypeOK ==
    /\ n \in 0 .. MaxPages
    /\ end \in Positions \cup {None}
    /\ append_begin \in Positions \cup {None}
    /\ has_deleted \in BOOLEAN
    /\ mem \in [Slots -> Record]
    /\ pc \in {"idle", "reserve", "extend", "first", "write", "begin", "end", "mark",
               "added", "check", "deleted", "fill", "copy", "shrink", "pages"}
    /\ cur \in Positions \cup {None}
    /\ last \in Record
    /\ todo \in Nat
    /\ scan \in [pos : Positions \cup {None}, id : Records \cup {"junk", "none"},
                 add : BOOLEAN]
    /\ owed \subseteq Records
    /\ cuts \in 0 .. MaxCuts

Init ==                         \* heap_place
    /\ n = 0 /\ end = None /\ append_begin = None /\ has_deleted = FALSE
    /\ mem = [j \in Slots |-> Junk]
    /\ pc = "idle" /\ cur = None /\ last = Junk /\ todo = 0
    /\ scan = NoScan /\ seen = <<>> /\ due = {} /\ owed = {} /\ cuts = 0

Return == pc' = "idle" /\ cur' = None /\ last' = Junk /\ todo' = 0
Goto(label) == pc' = label /\ UNCHANGED <<cur, last, todo>>

\* HEAP_OP_ERROR: the call returns early and undoes nothing.
Error == Return /\ UNCHANGED <<disk, user, owed, cuts>>

-----------------------------------------------------------------------------
(***************************************************************************)
(* heap_append: heap_reserve, heap_write and the two stores in the header  *)
(***************************************************************************)
HeapAppend(r) ==
    /\ pc = "idle" /\ Holding(r) = {} /\ Slot(end) < MaxSlots
    /\ last' = [id |-> r, add |-> TRUE, del |-> FALSE]
    /\ pc' = "reserve"
    /\ UNCHANGED <<disk, cur, todo, user, owed, cuts>>

\* heap_free_space subtracts end from the tail's file offset.  When end is in
\* another page the result depends on where in the file the two pages are.
Reserve ==
    /\ pc = "reserve"
    /\ pc' = "extend"
    /\ cur' = IF n = 0 THEN First ELSE None
    /\ \/ /\ n = 0
          /\ todo' = PagesFor(RecordBytes)
       \/ /\ n > 0 /\ end # None /\ PageOf(end) = n - 1
          /\ LET free == n * PageBytes - Slot(end) * RecordBytes
             IN  todo' = IF free >= RecordBytes THEN 0 ELSE PagesFor(RecordBytes - free)
       \/ /\ n > 0 /\ (end = None \/ PageOf(end) # n - 1)
          /\ todo' \in 0 .. PagesFor(RecordBytes)
    /\ UNCHANGED <<disk, last, user, owed, cuts>>

ExtendPage ==
    /\ pc = "extend" /\ todo > 0
    /\ \/ /\ n < MaxPages
          /\ n' = n + 1 /\ todo' = todo - 1
          /\ UNCHANGED <<end, append_begin, has_deleted, mem, pc, cur, last,
                         user, owed, cuts>>
       \/ n = MaxPages /\ Error

Extended ==
    /\ pc = "extend" /\ todo = 0
    /\ end' = IF cur = First THEN First ELSE end
    /\ Goto("write")
    /\ UNCHANGED <<n, append_begin, has_deleted, mem, user, owed, cuts>>

Write ==
    /\ pc = "write"
    /\ \/ /\ InPages(end)
          /\ mem' = [mem EXCEPT ![Slot(end)] = last]
          /\ Goto("begin")
          /\ UNCHANGED <<n, end, append_begin, has_deleted, user, owed, cuts>>
       \/ ~ InPages(end) /\ Error

SetBegin ==
    /\ pc = "begin"
    /\ append_begin' = IF append_begin = None THEN end ELSE append_begin
    /\ Goto("end")
    /\ UNCHANGED <<n, end, has_deleted, mem, user, owed, cuts>>

SetEnd ==
    /\ pc = "end"
    /\ end' = Following(end)
    /\ Return
    /\ UNCHANGED <<n, append_begin, has_deleted, mem, user, owed, cuts>>

-----------------------------------------------------------------------------
(***************************************************************************)
(* heap_iterator, heap_iterator_next and heap_iterator_delete.  The        *)
(* iterator stops at the first record not committed yet.                   *)
(***************************************************************************)
\* Mutant: a scan does not stop at uncommitted records.
OverAtEndOnly(s) == s.pos \in {None, end}

Over(s) == s.pos \in {None, end} \/ s.add

\* The iterator arrives at pos and reads the record there.
Arrive(pos, sofar) ==
    \E b \in Read(Slot(pos)) :
        LET s == [pos |-> pos, id |-> b.id, add |-> b.add]
        IN  /\ scan' = s
            /\ seen' = IF Over(s) THEN sofar ELSE sofar \o <<b.id>>

Open ==
    /\ pc = "idle" /\ scan = NoScan /\ n > 0 /\ InPages(First)
    /\ due' = {r \in Records : \E j \in Holding(r) : ~ mem[j].add}
    /\ Arrive(First, <<>>)
    /\ UNCHANGED <<disk, work, owed, cuts>>

ScanNext ==
    /\ pc = "idle" /\ ~ Over(scan)
    /\ \/ /\ Following(scan.pos) = end
          /\ scan' = [NoScan EXCEPT !.id = "junk"]
          /\ UNCHANGED seen
       \/ /\ Following(scan.pos) # end /\ InPages(Following(scan.pos))
          /\ Arrive(Following(scan.pos), seen)
    /\ UNCHANGED <<disk, work, due, owed, cuts>>

CloseScan == scan' = NoScan /\ seen' = <<>> /\ due' = {}

Close ==
    /\ pc = "idle" /\ scan # NoScan
    /\ CloseScan
    /\ UNCHANGED <<disk, work, owed, cuts>>

Delete ==
    /\ pc = "idle" /\ ~ Over(scan)
    /\ has_deleted' = TRUE
    /\ Goto("mark")
    /\ UNCHANGED <<n, end, append_begin, mem, user, owed, cuts>>

Mark ==
    /\ pc = "mark"
    /\ LET j == Slot(scan.pos)
       IN  /\ mem' = IF mem[j].id = "junk" THEN mem
                     ELSE [mem EXCEPT ![j].add = FALSE, ![j].del = TRUE]
           /\ owed' = owed \ {mem[j].id}
    /\ Return
    /\ UNCHANGED <<n, end, append_begin, has_deleted, user, cuts>>

-----------------------------------------------------------------------------
(***************************************************************************)
(* heap_flush, called when no scan is in the middle of the heap            *)
(***************************************************************************)
\* Mutant: the appends are left for the next flush.
FlushDeletesOnly ==
    /\ pc = "idle" /\ Over(scan)
    /\ cur' = None /\ pc' = "check"
    /\ CloseScan
    /\ UNCHANGED <<disk, last, todo, owed, cuts>>

Flush ==
    /\ pc = "idle" /\ Over(scan)
    /\ append_begin # None /\ n > 0 => InPages(append_begin)
    /\ cur' = append_begin
    /\ pc' = IF append_begin = None THEN "check" ELSE "added"
    /\ CloseScan
    /\ UNCHANGED <<disk, last, todo, owed, cuts>>

CommitAppend ==                 \* heap_flush_append, one round
    /\ pc = "added" /\ n > 0 /\ cur # end
    /\ \/ /\ InPages(cur)
          /\ \E b \in Read(Slot(cur)) :
                IF b.add
                THEN /\ mem' = IF b.id = "junk" THEN mem
                               ELSE [mem EXCEPT ![Slot(cur)].add = FALSE]
                     /\ owed' = owed \cup ({b.id} \cap Records)
                ELSE UNCHANGED <<mem, owed>>
          /\ cur' = Following(cur)
          /\ UNCHANGED <<n, end, append_begin, has_deleted, pc, last, todo, user, cuts>>
       \/ ~ InPages(cur) /\ Error

AppendsDone ==
    /\ pc = "added" /\ (n = 0 \/ cur = end)
    /\ append_begin' = None
    /\ Goto("check")
    /\ UNCHANGED <<n, end, has_deleted, mem, user, owed, cuts>>

CheckDeleted ==
    /\ pc = "check"
    /\ IF has_deleted /\ (n > 0 => InPages(First))
       THEN pc' = "deleted" /\ cur' = First /\ UNCHANGED <<last, todo>>
       ELSE Return
    /\ UNCHANGED <<disk, user, owed, cuts>>

SkipOrFill ==                   \* heap_flush_delete, one round
    /\ pc = "deleted" /\ n > 0 /\ cur # end
    /\ \/ /\ InPages(cur)
          /\ \E b \in Read(Slot(cur)) :
                IF b.del THEN Goto("fill")
                ELSE cur' = Following(cur) /\ UNCHANGED <<pc, last, todo>>
          /\ UNCHANGED <<disk, user, owed, cuts>>
       \/ ~ InPages(cur) /\ Error

\* Mutant: the record moved, or dropped, stays the last one.
FillLeavesEnd ==
    /\ pc = "fill"
    /\ \/ /\ end # None /\ Slot(end) > 0 /\ PageOf(end) < n
          /\ \E b \in Read(Slot(end) - 1) :
                /\ ~ b.add
                /\ \/ Preceding(end) = cur /\ Goto("deleted")
                   \/ Preceding(end) # cur /\ b.del /\ Goto("fill")
                   \/ /\ Preceding(end) # cur /\ ~ b.del
                      /\ last' = b /\ pc' = "copy"
                      /\ UNCHANGED <<cur, todo>>
          /\ UNCHANGED <<n, end, append_begin, has_deleted, mem, user, owed, cuts>>
       \/ (end = None \/ Slot(end) = 0 \/ PageOf(end) >= n) /\ Error
       \/ /\ end # None /\ Slot(end) > 0
          /\ \E b \in Read(Slot(end) - 1) : b.add
          /\ Error

\* heap_record_fill, one round: the last record leaves the heap and, unless it
\* is deleted too, goes where the deleted one is.  Its being an uncommitted
\* one trips an assertion.
Fill ==
    /\ pc = "fill"
    /\ \/ /\ end # None /\ Slot(end) > 0 /\ PageOf(end) < n
          /\ \E b \in Read(Slot(end) - 1) :
                /\ ~ b.add
                /\ \/ Preceding(end) = cur /\ Goto("deleted")
                   \/ Preceding(end) # cur /\ b.del /\ Goto("fill")
                   \/ /\ Preceding(end) # cur /\ ~ b.del
                      /\ last' = b /\ pc' = "copy"
                      /\ UNCHANGED <<cur, todo>>
          /\ end' = Preceding(end)
          /\ UNCHANGED <<n, append_begin, has_deleted, mem, user, owed, cuts>>
       \/ (end = None \/ Slot(end) = 0 \/ PageOf(end) >= n) /\ Error
       \/ /\ end # None /\ Slot(end) > 0
          /\ \E b \in Read(Slot(end) - 1) : b.add
          /\ Error

\* Mutant: the hole is not filled.
CopyNothing ==
    /\ pc = "copy"
    /\ cur' = IF cur = end THEN cur ELSE Following(cur)
    /\ pc' = "deleted" /\ last' = Junk
    /\ UNCHANGED <<n, end, append_begin, has_deleted, mem, todo, user, owed, cuts>>

Copy ==
    /\ pc = "copy"
    /\ mem' = [mem EXCEPT ![Slot(cur)] = last]
    /\ cur' = IF cur = end THEN cur ELSE Following(cur)
    /\ pc' = "deleted" /\ last' = Junk
    /\ UNCHANGED <<n, end, append_begin, has_deleted, todo, user, owed, cuts>>

\* Mutant: the emptied pages are kept.
DeletesDoneNoShrink ==
    /\ pc = "deleted" /\ (n = 0 \/ cur = end)
    /\ has_deleted' = FALSE
    /\ Return
    /\ UNCHANGED <<n, end, append_begin, mem, user, owed, cuts>>

DeletesDone ==
    /\ pc = "deleted" /\ (n = 0 \/ cur = end)
    /\ has_deleted' = FALSE
    /\ Goto("shrink")
    /\ UNCHANGED <<n, end, append_begin, mem, user, owed, cuts>>

\* heap_shrink_list: end moves from the start of a page to the end of the page
\* before the tail.
Shrink ==
    /\ pc = "shrink"
    /\ end' = IF end = First THEN None
              ELSE IF end[2] = "start"
                   THEN At(((n - 1) * PageBytes) \div RecordBytes, "end")
              ELSE end
    /\ Goto("pages")
    /\ UNCHANGED <<n, append_begin, has_deleted, mem, user, owed, cuts>>

DropPage ==
    /\ pc = "pages" /\ n > 0 /\ (end = None \/ PageOf(end) # n - 1)
    /\ n' = n - 1
    /\ mem' = [j \in Slots |->
                  IF (j + 1) * RecordBytes <= n' * PageBytes THEN mem[j] ELSE Junk]
    /\ UNCHANGED <<end, append_begin, has_deleted, work, user, owed, cuts>>

Shrunk ==
    /\ pc = "pages" /\ (n = 0 \/ (end # None /\ PageOf(end) = n - 1))
    /\ Return
    /\ UNCHANGED <<disk, user, owed, cuts>>

-----------------------------------------------------------------------------
(***************************************************************************)
(* heap_clear, and what cuts a call short                                  *)
(***************************************************************************)
Clear ==
    /\ pc = "idle" /\ scan = NoScan
    /\ n' = 0 /\ end' = None /\ append_begin' = None /\ has_deleted' = FALSE
    /\ mem' = [j \in Slots |-> Junk]
    /\ owed' = {}
    /\ UNCHANGED <<work, user, cuts>>

\* A kill, or a page that cannot be mapped: the call ends where it is.  The
\* copying of a record may have stopped half-way.
Cut ==
    /\ pc # "idle" /\ cuts < MaxCuts
    /\ \/ UNCHANGED mem
       \/ pc = "write" /\ InPages(end) /\ mem' = [mem EXCEPT ![Slot(end)] = Junk]
       \/ pc = "copy" /\ mem' = [mem EXCEPT ![Slot(cur)] = Junk]
    /\ Return
    /\ CloseScan
    /\ cuts' = cuts + 1
    /\ UNCHANGED <<n, end, append_begin, has_deleted, owed>>

-----------------------------------------------------------------------------

Inside ==
    \/ Reserve \/ ExtendPage \/ Extended \/ Write \/ SetBegin \/ SetEnd \/ Mark
    \/ CommitAppend \/ AppendsDone \/ CheckDeleted \/ SkipOrFill \/ Fill \/ Copy
    \/ DeletesDone \/ Shrink \/ DropPage \/ Shrunk

User ==
    \/ \E r \in Records : HeapAppend(r)
    \/ Open \/ ScanNext \/ Close \/ Delete \/ Flush \/ Clear

Next == Inside \/ User \/ Cut

Spec == Init /\ [][Next]_vars
\* The thread inside the heap is scheduled and never blocks there.
FairSpec == Spec /\ WF_vars(Inside)

-----------------------------------------------------------------------------
(***************************************************************************)
(* Properties                                                              *)
(***************************************************************************)

\* Between calls the heap ends in the last page of its list: heap_free_space
\* computes with the tail and is right for no other page.
EndInTail ==
    pc = "idle" /\ cuts = 0 =>
        \/ n = 0 /\ end = None
        \/ n > 0 /\ end # None /\ PageOf(end) = n - 1

\* Whatever flushes, deletes and failures came before, heap_reserve makes the room
\* heap_write needs, as long as the heap ends in its last page.  Only after a cut may
\* an append fail: when end is 0 in a heap that has pages (the first append was cut
\* before it set end, or a flush before it gave the last page back), or when the
\* records are longer than a page.
RoomReserved ==
    /\ TypeOK /\ EndInTail
    /\ pc = "write" => InPages(end) \/ (cuts > 0 /\ (end = None \/ RecordBytes > PageBytes))

\* Each kill or failure loses one committed record at most, the one flush is
\* moving, and none is lost without; and no record is in the heap twice.
Carried(r) == pc = "copy" /\ last.id = r
Lost == {r \in owed : Holding(r) = {} /\ ~ Carried(r)}
LossBounded ==
    /\ Cardinality(Lost) <= cuts
    /\ \A r \in Records : Cardinality(Holding(r)) + (IF Carried(r) THEN 1 ELSE 0) <= 1

\* A scan gets every record committed when it began exactly once, though the
\* query deletes and appends records as it goes (an UPDATE does).
ScanComplete ==
    scan # NoScan /\ Over(scan) /\ cuts = 0 =>
        /\ {seen[i] : i \in DOMAIN seen} = due
        /\ Len(seen) = Cardinality(due)

\* The heap is a RecordStore: marks take effect in a flush, all of them, and a
\* flush changes nothing else.
Status(r) ==
    LET m == {mem[j] : j \in Holding(r)}
    IN  IF Cardinality(Holding(r)) + (IF Carried(r) THEN 1 ELSE 0) > 1 THEN "twice"
        ELSE IF Carried(r) THEN "stored"
        ELSE IF m = {} THEN "absent"
        ELSE IF \E b \in m : b.add THEN "added"
        ELSE IF \E b \in m : b.del THEN "deleted"
        ELSE "stored"
RS == INSTANCE RecordStore WITH
          status <- [r \in Records |-> Status(r)],
          cut <- cuts > 0,
          flushing <- pc \in {"added", "check", "deleted", "fill", "copy",
                              "shrink", "pages"}
IsRecordStore == RS!Spec

\* Every call returns: the loops of flush and reserve end.
CallsReturn == (pc # "idle") ~> (pc = "idle")
=============================================================================
