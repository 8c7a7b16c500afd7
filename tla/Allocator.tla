------------------------------ MODULE Allocator ------------------------------
(***************************************************************************)
(* The page allocator of core/src/allocator (POSIX branch).  The file is   *)
(* an array of pages; page 0 holds file_h, free pages form a stack linked  *)
(* through their first word.  Every store into the shared mapping is a     *)
(* step of its own, because a killed process leaves the file exactly as    *)
(* the stores already made have left it.                                   *)
(*                                                                         *)
(* One thread at a time calls the allocator (the server's database lock),  *)
(* so there is one pc.  malloc is taken to succeed.                        *)
(***************************************************************************)
EXTENDS Integers, FiniteSets, FiniteSetsExt

CONSTANTS
    MaxPages,       \* bound: the file system refuses a longer file
    BlockPages,     \* granularity / PAGE_SIZE: pages per mmap block
    Growth,         \* NEW_SIZE(SIZE) is SIZE + Growth; 10 in the code
    Wrap,           \* PAGE_SIZE * new_count is 32 bit: 2^32 / PAGE_SIZE
    MaxReserve,     \* bound: largest argument of allocator_reserve_pages
    MaxHandles,     \* bound: users who hold this many handles ask for no more
    Words,          \* what users write in the first word of their pages
    Modes,          \* the open modes in use: "exist", "create", "clear"
    Faults          \* what may go wrong: "kill", "map", "unmap"

ASSUME SizesAssumption ==
    /\ MaxPages \in Nat /\ BlockPages \in Nat \ {0} /\ BlockPages <= MaxPages
    /\ MaxReserve \in Nat /\ MaxHandles \in Nat
    /\ Words \subseteq Nat

\* The code's NEW_SIZE adds 10 and 2^20 does not divide 10.
ASSUME GrowthAssumption ==
    /\ Growth \in Nat \ {0} /\ Wrap \in Nat \ {0}
    /\ Growth % Wrap # 0

VARIABLES
    disk,           \* "none", "blank", or "valid" when file_h.magic is MAGIC
    pages,          \* the length of the file in pages
    count,          \* file_h.free_pages_count
    head,           \* file_h.free_pages_next; 0 is no page
    word,           \* the first word of every page; free_page_h.next in a free one
    pc,             \* where the thread is: "idle" outside the allocator,
                    \* "down" when no process has the file open
    call,           \* the function the user called
    cur,            \* the page at hand in return_page and get_page
    todo,           \* reserve_pages and init: the next new page to link
    refs,           \* block_list_node.used; 0 when the block is not mapped
    held,           \* the handles (page_t) users hold on a page
    users,          \* history: how often a page is handed out and not returned
    harm            \* history, since the file was cleared: "none", "lost" after a
                    \* kill or a failed call, "torn" after a kill in CLEAR mode
                    \* between ftruncate and the zeroing of the header

file == <<disk, pages, count, head, word>>
proc == <<pc, call, cur, todo, refs, held>>
vars == <<disk, pages, count, head, word, pc, call, cur, todo, refs, held,
          users, harm>>

Page   == 1 .. MaxPages - 1
Block  == 0 .. MaxPages \div BlockPages
BlockOf(p) == p \div BlockPages         \* granular_offset

TypeOK ==
    /\ disk \in {"none", "blank", "valid"}
    /\ harm \in {"none", "lost", "torn"}
    /\ pages \in 0 .. MaxPages
    /\ count \in Nat
    /\ head \in Nat
    /\ word \in [Page -> Nat]
    /\ pc \in {"down", "idle", "zero", "magic", "grow", "link", "head", "unmap",
               "count", "take", "dec", "advance"}
    /\ call \in {"none", "return", "reserve", "get", "create", "clear"}
    /\ cur \in Nat
    /\ todo \in Nat
    /\ refs \in [Block -> Int]
    /\ held \in [Page -> Nat]
    /\ users \in [Page -> Nat]

Init ==
    /\ disk = "none" /\ pages = 0 /\ count = 0 /\ head = 0
    /\ word = [p \in Page |-> 0]
    /\ pc = "down" /\ call = "none" /\ cur = 0 /\ todo = 0
    /\ refs = [b \in Block |-> 0]
    /\ held = [p \in Page |-> 0]
    /\ users = [p \in Page |-> 0] /\ harm = "none"

InUse == {p \in Page : users[p] > 0}

\* Bound: whoever asks for a handle, or for a page, has room for it.  What a call
\* hands out once it has begun is not bounded.
HandlesLeft == MapThenSumSet(LAMBDA p : held[p], Page) < MaxHandles

Fault(f) == f \in Faults

(***************************************************************************)
(* allocator_map_page and allocator_unmap_page on the block list.          *)
(***************************************************************************)
Mapped(p)   == [refs EXCEPT ![BlockOf(p)] = @ + 1]
\* Mutant: a use is never given back.
UnmappedNot(p) == refs

Unmapped(p) == [refs EXCEPT ![BlockOf(p)] = @ - 1]
\* munmap is called, and may fail, when the last handle of a block goes.
LastHandle(p) == refs[BlockOf(p)] = 1

Leave(to) == pc' = to /\ call' = "none" /\ cur' = 0 /\ todo' = 0
Idle == Leave("idle")

Gone ==                 \* the process is no more; the mappings go with it
    /\ Leave("down")
    /\ refs' = [b \in Block |-> 0]
    /\ held' = [p \in Page |-> 0]

Lose == harm' = IF harm = "none" THEN "lost" ELSE harm

\* A system call failed: the function returns early and undoes nothing; r is
\* the block list it leaves.  The program ends when allocator_init fails.
Abort(r) ==
    /\ IF call \in {"create", "clear"}
       THEN Gone
       ELSE Idle /\ refs' = r /\ UNCHANGED held
    /\ Lose
    /\ UNCHANGED <<file, users>>

(***************************************************************************)
(* allocator_return_page, also the body of the loop that links new pages.  *)
(* Users return a page they still have handles on, and unmap these later.  *)
(***************************************************************************)
ReturnPage(p) ==
    /\ pc = "idle" /\ p \in InUse
    /\ users' = [users EXCEPT ![p] = @ - 1]
    /\ \/ /\ refs' = Mapped(p)
          /\ pc' = "link" /\ call' = "return" /\ cur' = p
          /\ UNCHANGED harm
       \/ /\ Fault("map") /\ refs[BlockOf(p)] = 0
          /\ Lose
          /\ UNCHANGED <<refs, pc, call, cur>>
    /\ UNCHANGED <<file, todo, held>>

\* Mutant: the page keeps its old first word.
LinkNextForgotten ==
    /\ pc = "link" /\ cur < pages
    /\ pc' = "head"
    /\ UNCHANGED <<file, call, cur, todo, refs, held, users, harm>>

LinkNext ==             \* free_page_header->next = free_pages_next
    /\ pc = "link" /\ cur < pages
    /\ word' = [word EXCEPT ![cur] = head]
    /\ pc' = "head"
    /\ UNCHANGED <<disk, pages, count, head, call, cur, todo,
                   refs, held, users, harm>>

LinkHead ==             \* free_pages_next = offset
    /\ pc = "head"
    /\ head' = cur
    /\ pc' = "unmap"
    /\ UNCHANGED <<disk, pages, count, word, call, cur, todo,
                   refs, held, users, harm>>

LinkUnmap ==
    /\ pc = "unmap"
    /\ \/ /\ refs' = Unmapped(cur)
          /\ pc' = "count"
          /\ UNCHANGED <<file, call, cur, todo, held, users, harm>>
       \/ Fault("unmap") /\ LastHandle(cur) /\ Abort(Unmapped(cur))

\* Mutants: the loop over the new pages skips one, or stays where it is.
LinkCountStep(by) ==
    /\ pc = "count"
    /\ count' = count + 1
    /\ IF call = "return" THEN Idle
       ELSE /\ pc' = "grow" /\ todo' = todo + by
            /\ UNCHANGED <<call, cur>>
    /\ UNCHANGED <<disk, pages, head, word, refs, held, users, harm>>
LinkCountSkips == LinkCountStep(2)
LinkCount ==            \* free_pages_count += 1, then back to the caller
    /\ pc = "count"
    /\ count' = count + 1
    /\ IF call = "return" THEN Idle
       ELSE /\ pc' = "grow" /\ todo' = todo + 1
            /\ UNCHANGED <<call, cur>>
    /\ UNCHANGED <<disk, pages, head, word, refs, held, users,
                   harm>>

(***************************************************************************)
(* allocator_reserve_pages: the file grows by new_count pages, computed in *)
(* 32 bits, and each new page is returned.  It fails, and changes nothing, *)
(* when ftruncate does.                                                    *)
(***************************************************************************)
NewCount(n) ==
    LET diff == n - count
        more == count + Growth
    IN  IF diff > more THEN diff ELSE more

Extend(n, caller) ==
    /\ count < n
    /\ pages + (NewCount(n) % Wrap) <= MaxPages
    /\ pages' = pages + (NewCount(n) % Wrap)
    /\ todo' = pages
    /\ pc' = "grow" /\ call' = caller
    /\ UNCHANGED <<disk, count, head, word, cur, refs, held,
                   users, harm>>

ReservePages(n) == pc = "idle" /\ Extend(n, "reserve")

GrowPage ==             \* the loop of reserve_pages and of init
    /\ pc = "grow"
    /\ \/ /\ todo < pages
          /\ refs' = Mapped(todo)
          /\ cur' = todo /\ pc' = "link"
          /\ UNCHANGED <<file, call, todo, held, users, harm>>
       \/ /\ todo < pages /\ Fault("map") /\ refs[BlockOf(todo)] = 0
          /\ Abort(refs)
       \/ /\ todo >= pages
          /\ IF call = "get"
             THEN pc' = "take" /\ UNCHANGED <<call, cur, todo>>
             ELSE Idle
          /\ UNCHANGED <<file, refs, held, users, harm>>

(***************************************************************************)
(* allocator_get_page                                                      *)
(***************************************************************************)
\* Mutant: the count is not looked at.
GetPageUnchecked ==
    /\ pc = "idle" /\ HandlesLeft
    /\ pc' = "take" /\ call' = "get"
    /\ UNCHANGED <<file, cur, todo, refs, held, users, harm>>

GetPage ==
    /\ pc = "idle" /\ HandlesLeft
    /\ \/ /\ count > 0
          /\ pc' = "take" /\ call' = "get"
          /\ UNCHANGED <<file, cur, todo, refs, held, users, harm>>
       \/ Extend(1, "get")

TakeMap ==
    /\ pc = "take"
    /\ \/ /\ refs' = Mapped(head)
          /\ cur' = head /\ pc' = "dec"
          /\ UNCHANGED <<file, call, todo, held, users, harm>>
       \/ /\ Fault("map") /\ refs[BlockOf(head)] = 0
          /\ Idle
          /\ UNCHANGED <<file, refs, held, users, harm>>

TakeCount ==            \* free_pages_count -= 1
    /\ pc = "dec"
    /\ count' = count - 1
    /\ pc' = "advance"
    /\ UNCHANGED <<disk, pages, head, word, call, cur, todo,
                   refs, held, users, harm>>

\* Mutant: the page stays on the list.
TakeNextKeeps ==
    /\ pc = "advance" /\ cur \in 1 .. pages - 1
    /\ users' = [users EXCEPT ![cur] = @ + 1]
    /\ held' = [held EXCEPT ![cur] = @ + 1]
    /\ Idle
    /\ UNCHANGED <<file, refs, harm>>

\* free_pages_next = next of the page; beyond the end of the file the read
\* is a SIGBUS, so the process is left to Kill.
TakeNext ==
    /\ pc = "advance" /\ cur \in 1 .. pages - 1
    /\ head' = word[cur]
    /\ users' = [users EXCEPT ![cur] = @ + 1]
    /\ held' = [held EXCEPT ![cur] = @ + 1]
    /\ Idle
    /\ UNCHANGED <<disk, pages, count, word, refs, harm>>

(***************************************************************************)
(* What the users of the allocator do with the pages they have.            *)
(***************************************************************************)
MapPage(p) ==           \* allocator_map_page, page_copy
    /\ pc = "idle" /\ p \in InUse /\ HandlesLeft
    /\ refs' = Mapped(p)
    /\ held' = [held EXCEPT ![p] = @ + 1]
    /\ UNCHANGED <<file, pc, call, cur, todo, users, harm>>

\* When munmap fails the error is reported, the block is out of the list.
UnmapPage(p) ==
    /\ pc = "idle" /\ held[p] > 0
    /\ refs' = Unmapped(p)
    /\ held' = [held EXCEPT ![p] = @ - 1]
    /\ UNCHANGED <<file, pc, call, cur, todo, users, harm>>

WritePage(p, w) ==
    /\ pc = "idle" /\ p \in InUse /\ held[p] > 0
    /\ word' = [word EXCEPT ![p] = w]
    /\ UNCHANGED <<disk, pages, count, head, proc, users, harm>>

(***************************************************************************)
(* allocator_init in its three modes, allocator_free, and a kill.          *)
(***************************************************************************)
MapHeader == refs' = [refs EXCEPT ![0] = 1]

OpenExist ==            \* WRONG_FORMAT when too short or without MAGIC
    /\ "exist" \in Modes /\ pc = "down"
    /\ pages >= 1 /\ disk = "valid"
    /\ MapHeader
    /\ pc' = "idle"
    /\ UNCHANGED <<file, call, cur, todo, held, users, harm>>

\* open and ftruncate to one block: the header keeps its old bytes.  Bound: the
\* count of a file that was torn over and over, the only one to pass MaxPages.
OpenTruncate(mode) ==
    /\ mode \in Modes /\ pc = "down" /\ count <= MaxPages
    /\ mode = "create" => disk = "none"
    /\ disk' = IF disk = "none" THEN "blank" ELSE disk
    /\ pages' = BlockPages
    /\ word' = [p \in Page |-> IF p < BlockPages THEN word[p] ELSE 0]
    /\ users' = [p \in Page |-> 0]
    /\ MapHeader
    /\ pc' = "zero" /\ call' = mode /\ cur' = 0 /\ todo' = 1
    /\ UNCHANGED <<count, head, held, harm>>

InitZero ==             \* the header becomes (file_h) {0}
    /\ pc = "zero"
    /\ disk' = "blank" /\ count' = 0 /\ head' = 0
    /\ harm' = "none"
    /\ pc' = "magic"
    /\ UNCHANGED <<pages, word, call, cur, todo, refs, held, users>>

InitMagic ==
    /\ pc = "magic"
    /\ disk' = "valid"
    /\ pc' = "grow"
    /\ UNCHANGED <<pages, count, head, word, call, cur, todo,
                   refs, held, users, harm>>

Close ==                \* allocator_free; clear_list unmaps what users forgot
    /\ pc = "idle"
    /\ Gone
    /\ UNCHANGED <<file, users, harm>>

\* The new file is empty until ftruncate, and stays so after a kill there.
KillBeforeTruncate ==
    /\ Fault("kill") /\ "create" \in Modes /\ pc = "down" /\ disk = "none"
    /\ disk' = "blank"
    /\ UNCHANGED <<pages, count, head, word, proc, users, harm>>

Kill ==
    /\ Fault("kill") /\ pc # "down"
    /\ Gone
    /\ IF pc = "zero" /\ disk = "valid" THEN harm' = "torn" ELSE Lose
    /\ UNCHANGED <<file, users>>

-----------------------------------------------------------------------------

\* A step of the thread that is inside the allocator.
Step ==
    \/ LinkNext \/ LinkHead \/ LinkUnmap \/ LinkCount
    \/ GrowPage \/ TakeMap \/ TakeCount \/ TakeNext
    \/ InitZero \/ InitMagic

User ==
    \/ GetPage
    \/ \E n \in 1 .. MaxReserve : ReservePages(n)
    \/ \E p \in Page : ReturnPage(p) \/ MapPage(p) \/ UnmapPage(p)
    \/ \E p \in Page, w \in Words : WritePage(p, w)
    \/ OpenExist \/ OpenTruncate("create") \/ OpenTruncate("clear") \/ Close

Next == Step \/ User \/ Kill \/ KillBeforeTruncate

Spec == Init /\ [][Next]_vars
-----------------------------------------------------------------------------
(***************************************************************************)
(* Properties                                                              *)
(***************************************************************************)

\* The file was left with the old header over a truncated body, see harm.
Torn == harm = "torn" \/ (pc = "zero" /\ disk = "valid")

\* s is the free list: n distinct pages in nobody's hands, from head to 0.
After(s, n, i) == IF i < n THEN s[i + 1] ELSE 0
IsFreeList(s, n) ==
    /\ head = After(s, n, 0)
    /\ \A i \in 1 .. n : word[s[i]] = After(s, n, i) /\ s[i] \notin InUse
    /\ \A i, j \in 1 .. n : s[i] = s[j] => i = j

\* Whatever the moment of a kill or the system call that fails, the free list
\* on disk ends, has no page twice, no page in use, and is no shorter than
\* free_pages_count says, which never wraps below zero: every variable keeps its
\* type.  Return_page links a page before it counts it and get_page counts before
\* it unlinks for this.
FreeListSound ==
    /\ TypeOK
    /\ Torn \/ \E n \in 0 .. pages : \E s \in [1 .. n -> 1 .. pages - 1] :
                  count <= n /\ IsFreeList(s, n)

\* Without kills and failures no page gets lost: every page of the file is the
\* header, in use or on the counted free list (get_page, return_page and
\* reserve_pages between them).
NoPageLost ==
    pc = "idle" /\ harm = "none" => count + Cardinality(InUse) + 1 = pages

\* get_page never takes from an empty list, though reserve_pages reports
\* success also when PAGE_SIZE * new_count wrapped around to too few pages.
GetFindsPage == pc \in {"take", "dec"} => count > 0

\* A block is in the block list with one use per handle into it, the header's
\* and the one of the call in progress, so munmap never hits a live page_t.
InFlight(b) ==
    IF pc \in {"link", "head", "unmap", "dec", "advance"} /\ BlockOf(cur) = b
    THEN 1 ELSE 0
UseCountsExact ==
    \A b \in Block :
        refs[b] = IF pc = "down" THEN 0
                  ELSE MapThenSumSet(LAMBDA p : held[p],
                                     {p \in Page : BlockOf(p) = b})
                       + InFlight(b) + (IF b = 0 THEN 1 ELSE 0)

\* The allocator gives a page to one user at a time and leaves it alone until
\* it is returned: it implements PageStore.
PS == INSTANCE PageStore WITH torn <- harm = "torn"
HandsOutPagesOnce == PS!Spec

=============================================================================
