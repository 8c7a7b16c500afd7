------------------------------ MODULE PageList -------------------------------
(***************************************************************************)
(* The doubly linked list of pages of core/src/heap/private/pagelist.c,    *)
(* built on what PageStore promises: a page got belongs to the list until  *)
(* it is returned.  The links live in the file, so every store is a step   *)
(* and a kill may fall between any two.  node.next is the first word of a  *)
(* page, the word the allocator links its free pages through.              *)
(*                                                                         *)
(* The list has one user at a time.  The block bookkeeping of the pages it *)
(* maps is in Allocator; here a mapping that fails is Fault("map").        *)
(***************************************************************************)
EXTENDS Naturals, FiniteSets, SequencesExt

CONSTANTS
    Page,           \* the pages the allocator has; bound: the file's length
    MaxExtend,      \* bound: largest n of page_list_extend
    Faults          \* "kill", "map"

ASSUME ListAssumption == IsFiniteSet(Page) /\ 0 \notin Page /\ MaxExtend \in Nat

VARIABLES
    head, tail,     \* list_h; 0 is no page
    next, prev,     \* page_list_node_h of every page
    own,            \* the pages got from the allocator and not returned
    pc, op,         \* where the call is, and which call
    page,           \* the page at hand
    it,             \* the page of the iterator of clear and shrink
    stop,           \* the page heap_shrink_list keeps
    todo,           \* pages page_list_extend has still to get
    harm            \* history: "none", "half" once a kill or a failure may have
                    \* left a list half changed, "loose" once the code went on
                    \* to delete from such a list or was killed in "zero"

file == <<head, tail, next, prev, own>>
vars == <<head, tail, next, prev, own, pc, op, page, it, stop, todo, harm>>

Link == Page \cup {0}

TypeOK ==
    /\ head \in Link /\ tail \in Link
    /\ next \in [Page -> Link] /\ prev \in [Page -> Link]
    /\ own \subseteq Page
    /\ pc \in {"idle", "get", "head", "zero", "link", "back", "tail",
               "step", "unlink", "bwd", "first", "end", "last", "return", "reset"}
    /\ op \in {"none", "extend", "delete", "shrink", "clear"}
    /\ page \in Link /\ it \in Link /\ stop \in Link
    /\ todo \in 0 .. MaxExtend
    /\ harm \in {"none", "half", "loose"}

Init ==                     \* page_list_place
    /\ head = 0 /\ tail = 0
    /\ next = [p \in Page |-> 0] /\ prev = [p \in Page |-> 0]
    /\ own = {}
    /\ pc = "idle" /\ op = "none" /\ page = 0 /\ it = 0 /\ stop = 0 /\ todo = 0
    /\ harm = "none"

Fault(f) == f \in Faults

Leave ==
    pc' = "idle" /\ op' = "none" /\ page' = 0 /\ it' = 0 /\ stop' = 0 /\ todo' = 0
At(label) == pc' = label /\ UNCHANGED <<op, page, it, stop, todo, harm>>

\* A page could not be mapped: LIST_OP_ERROR, nothing is undone.
Fail == Fault("map") /\ Leave /\ UNCHANGED file
Half == harm' = IF harm = "none" THEN "half" ELSE harm

-----------------------------------------------------------------------------
(***************************************************************************)
(* page_list_extend and page_list_append                                   *)
(***************************************************************************)
Extend(n) ==                \* allocator_reserve_pages succeeds
    /\ pc = "idle"
    /\ n <= Cardinality(Page \ own)
    /\ pc' = "get" /\ op' = "extend" /\ todo' = n
    /\ UNCHANGED <<file, page, it, stop, harm>>

GetPage ==                  \* allocator_get_page does not touch the page
    /\ pc = "get" /\ todo > 0
    /\ \/ \E p \in Page \ own :
             /\ own' = own \cup {p} /\ page' = p
             /\ pc' = "head" /\ todo' = todo - 1
             /\ UNCHANGED <<head, tail, next, prev, op, it, stop, harm>>
       \/ Fail /\ UNCHANGED harm

Extended == pc = "get" /\ todo = 0 /\ Leave /\ UNCHANGED <<file, harm>>

SetHead ==                  \* if (0 == head) head = page
    /\ pc = "head"
    /\ head' = IF head = 0 THEN page ELSE head
    /\ At("zero")
    /\ UNCHANGED <<tail, next, prev, own>>

ZeroNode ==                 \* *node = {0}
    /\ pc = "zero"
    /\ next' = [next EXCEPT ![page] = 0]
    /\ prev' = [prev EXCEPT ![page] = 0]
    /\ At(IF tail # 0 THEN "link" ELSE "tail")
    /\ UNCHANGED <<head, tail, own>>

LinkTail ==                 \* tail_node->next = page
    /\ pc = "link"
    /\ \/ next' = [next EXCEPT ![tail] = page] /\ At("back")
          /\ UNCHANGED <<head, tail, prev, own>>
       \/ Fail /\ Half

\* Mutant: node->prev stays 0.
SetPrevForgotten ==
    /\ pc = "back"
    /\ At("tail")
    /\ UNCHANGED file

SetPrev ==                  \* node->prev = tail
    /\ pc = "back"
    /\ prev' = [prev EXCEPT ![page] = tail]
    /\ At("tail")
    /\ UNCHANGED <<head, tail, next, own>>

\* Mutant: only the first page becomes the tail.
SetTailOnce ==
    /\ pc = "tail"
    /\ tail' = IF tail = 0 THEN page ELSE tail
    /\ At("get")
    /\ UNCHANGED <<head, next, prev, own>>

SetTail ==                  \* tail = page, back to the loop of extend
    /\ pc = "tail"
    /\ tail' = page
    /\ At("get")
    /\ UNCHANGED <<head, next, prev, own>>

-----------------------------------------------------------------------------
(***************************************************************************)
(* page_list_delete_node.  The list has already lost a page whose neighbour *)
(* cannot be mapped.                                                       *)
(***************************************************************************)
Loosen == harm' = IF harm = "half" THEN "loose" ELSE harm

DeleteNode(p) ==
    /\ pc = "idle" /\ p \in own
    /\ pc' = "unlink" /\ op' = "delete" /\ page' = p
    /\ Loosen
    /\ UNCHANGED <<file, it, stop, todo>>

Unlink ==
    /\ pc = "unlink"
    /\ \/ /\ prev[page] # 0 /\ next[page] # 0     \* prev_node->next = next
          /\ next' = [next EXCEPT ![prev[page]] = next[page]]
          /\ At("bwd")
          /\ UNCHANGED <<head, tail, prev, own>>
       \/ /\ prev[page] # 0 /\ next[page] # 0     \* nothing is stored yet
          /\ Fail /\ UNCHANGED harm
       \/ /\ prev[page] = 0                       \* head = next
          /\ head' = next[page]
          /\ At(IF next[page] # 0 THEN "first" ELSE "end")
          /\ UNCHANGED <<tail, next, prev, own>>
       \/ /\ prev[page] # 0 /\ next[page] = 0
          /\ At("end")
          /\ UNCHANGED file

UnlinkBack ==               \* next_node->prev = prev
    /\ pc = "bwd"
    /\ prev' = [prev EXCEPT ![next[page]] = prev[page]]
    /\ At("return")
    /\ UNCHANGED <<head, tail, next, own>>

NewFirst ==                 \* next_node->prev = 0
    /\ pc = "first"
    /\ \/ prev' = [prev EXCEPT ![next[page]] = 0] /\ At("return")
          /\ UNCHANGED <<head, tail, next, own>>
       \/ Fail /\ Half

\* Mutant: the header keeps the deleted tail.
NewTailForgotten ==
    /\ pc = "end"
    /\ At(IF prev[page] # 0 THEN "last" ELSE "return")
    /\ UNCHANGED file

NewTail ==                  \* if (0 == node->next) tail = prev
    /\ pc = "end"
    /\ tail' = prev[page]
    /\ At(IF prev[page] # 0 THEN "last" ELSE "return")
    /\ UNCHANGED <<head, next, prev, own>>

\* Mutant: the node before the deleted tail still names it.
NewLastForgotten ==
    /\ pc = "last"
    /\ At("return")
    /\ UNCHANGED file

NewLast ==                  \* prev_node->next = 0
    /\ pc = "last"
    /\ \/ next' = [next EXCEPT ![prev[page]] = 0] /\ At("return")
          /\ UNCHANGED <<head, tail, prev, own>>
       \/ Fail /\ Half

ReturnPage ==               \* the allocator links the page to another free one
    /\ pc = "return"
    /\ \/ /\ own' = own \ {page}
          /\ \E p \in (Page \ own) \cup {0} : next' = [next EXCEPT ![page] = p]
          /\ IF op = "delete" THEN Leave /\ UNCHANGED harm ELSE At("step")
          /\ UNCHANGED <<head, tail, prev>>
       \/ Fail /\ Half

-----------------------------------------------------------------------------
(***************************************************************************)
(* The loops that delete: page_list_clear, with delete_goto_next from the  *)
(* head on, and heap_shrink_list, from the tail back to the page q that    *)
(* holds the end of the records (0 when there are none).                   *)
(***************************************************************************)
Clear ==
    /\ pc = "idle"
    /\ pc' = "step" /\ op' = "clear" /\ it' = head
    /\ Loosen
    /\ UNCHANGED <<file, page, stop, todo>>

Shrink(q) ==
    /\ pc = "idle" /\ q \in own \cup {0}
    /\ pc' = "step" /\ op' = "shrink" /\ it' = tail /\ stop' = q
    /\ Loosen
    /\ UNCHANGED <<file, page, todo>>

\* Mutant: the iterator stays at the page that is deleted.
GotoNextStays ==
    /\ pc = "step" /\ it # 0 /\ it # stop
    /\ page' = it
    /\ pc' = "unlink"
    /\ UNCHANGED <<file, op, it, stop, todo, harm>>

\* The iterator moves on before its page is deleted.
GotoNext ==
    /\ pc = "step" /\ it # 0 /\ it # stop
    /\ \/ /\ page' = it
          /\ it' = IF op = "clear" THEN next[it] ELSE prev[it]
          /\ pc' = "unlink"
          /\ UNCHANGED <<file, op, stop, todo, harm>>
       \/ Fail /\ UNCHANGED harm

LoopEnds ==
    /\ pc = "step" /\ (it = 0 \/ it = stop)
    /\ UNCHANGED <<file, harm>>
    /\ IF op = "clear" THEN At("reset") ELSE Leave

ResetHeader ==              \* *list->header = {0}
    /\ pc = "reset"
    /\ head' = 0 /\ tail' = 0
    /\ Leave
    /\ UNCHANGED <<next, prev, own, harm>>

\* The process is killed and another one opens the file.
Kill ==
    /\ Fault("kill") /\ pc # "idle"
    /\ Leave
    /\ harm' = IF pc = "zero" /\ head = page THEN "loose"
               ELSE IF harm = "none" THEN "half" ELSE harm
    /\ UNCHANGED file

-----------------------------------------------------------------------------

Inside ==
    \/ GetPage \/ Extended \/ SetHead \/ ZeroNode \/ LinkTail \/ SetPrev \/ SetTail
    \/ Unlink \/ UnlinkBack \/ NewFirst \/ NewTail \/ NewLast \/ ReturnPage
    \/ GotoNext \/ LoopEnds \/ ResetHeader

\* Bound: no property speaks of a loose list, so nothing more is asked of it.
User ==
    /\ harm # "loose"
    /\ \/ \E n \in 1 .. MaxExtend : Extend(n)
       \/ \E p \in Page : DeleteNode(p)
       \/ \E q \in Link : Shrink(q)
       \/ Clear

Next == Inside \/ User \/ Kill

Spec == Init /\ [][Next]_vars
\* The thread inside the list is scheduled and never blocks there.
FairSpec == Spec /\ WF_vars(Inside)

-----------------------------------------------------------------------------
(***************************************************************************)
(* Properties                                                              *)
(***************************************************************************)

\* s, of length n, is the list read from the head on: it ends, meets no page
\* twice and never leaves the pages the list has.
After(s, n, i) == IF i < n THEN s[i + 1] ELSE 0
Before(s, i)   == IF i > 1 THEN s[i - 1] ELSE 0
IsForward(s, n) ==
    /\ head = After(s, n, 0)
    /\ \A i \in 1 .. n : next[s[i]] = After(s, n, i)
    /\ \A i, j \in 1 .. n : s[i] = s[j] => i = j

\* Between the calls both directions tell the same list and it has every page
\* got from the allocator, so that page_list_clear and heap_shrink_list leak
\* none, whatever extends and deletes came before; and the types.
Linked ==
    /\ TypeOK
    /\ pc = "idle" /\ harm = "none" =>
        \E n \in 0 .. Cardinality(own) : \E s \in [1 .. n -> own] :
            /\ IsForward(s, n)
            /\ tail = Before(s, n + 1)
            /\ \A i \in 1 .. n : prev[s[i]] = Before(s, i)
            /\ \A p \in own : \E i \in 1 .. n : s[i] = p

\* Whichever store was the last before a kill, the list read from the head is
\* sound and stays so while it only grows; but for the store of the first
\* head, made before the node is zeroed: there the list runs on into the free
\* list through the word both use.
ForwardSafe ==
    harm # "loose" /\ ~ (pc = "zero" /\ head = page) =>
        \E n \in 0 .. Cardinality(own) : \E s \in [1 .. n -> own] : IsForward(s, n)

\* The list never stores into a page it has not got: the order of the stores
\* of delete_node frees a page only when no node and no header names it.
StoresInOwnPages ==
    [][harm # "loose" => \A p \in Page \ (own \cup own') :
          next'[p] = next[p] /\ prev'[p] = prev[p]]_vars

\* Read forward, the list is the sequence of pages PageSeq describes: extend
\* adds at the end, deleting takes one page out and keeps the others' order.
\* That holds up to the first kill, or failure that leaves a list half changed.
ReadFrom(h, links) ==
    LET at[i \in 1 .. Cardinality(Page)] ==
            IF i = 1 THEN h ELSE IF at[i - 1] = 0 THEN 0 ELSE links[at[i - 1]]
    IN  [i \in 1 .. Cardinality({j \in 1 .. Cardinality(Page) : at[j] # 0}) |-> at[i]]
List == ReadFrom(IF pc = "zero" /\ head = page THEN 0 ELSE head, next)
PSeq == INSTANCE PageSeq WITH list <- List, cut <- harm # "none"
IsPageSeq == PSeq!Spec

\* Every call returns: the loops that extend, clear and shrink end.
CallsReturn == (pc # "idle") ~> (pc = "idle")
=============================================================================
