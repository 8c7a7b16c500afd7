------------------------------ MODULE PageStore ------------------------------
(***************************************************************************)
(* What the page allocator promises the structures built on it             *)
(* (core/src/allocator/allocator.h): pages of one growing file, each in    *)
(* the hands of at most one user.  A page may get lost (a kill or a failed *)
(* system call between two stores), it is never given out twice, and       *)
(* nobody but its user writes the bytes of a page in use.  A kill may tear *)
(* a file that is being cleared; the promise ends there and starts again   *)
(* with the next clearing.                                                 *)
(***************************************************************************)
EXTENDS Naturals

CONSTANT MaxPages       \* the longest file, in pages; page 0 is the header

VARIABLES
    pages,              \* the length of the file in pages
    users,              \* how often a page is handed out and not returned
    word,               \* the first word of every page
    torn                \* the file has the header of a longer one

vars == <<pages, users, word, torn>>

Page == 1 .. MaxPages - 1

Init ==
    /\ pages = 0
    /\ users = [p \in Page |-> 0]
    /\ word = [p \in Page |-> 0]
    /\ torn = FALSE

\* The bytes of the pages in use stay as they are.
Intact == \A p \in Page : users[p] > 0 /\ users'[p] > 0 => word'[p] = word[p]

\* allocator_get_page gives out a page nobody uses.
Get == \E p \in 1 .. pages - 1 :
    /\ users[p] = 0
    /\ users' = [users EXCEPT ![p] = 1]
    /\ UNCHANGED <<pages, word>>

\* allocator_return_page takes a page back.
Return == \E p \in Page :
    /\ users[p] = 1
    /\ users' = [users EXCEPT ![p] = 0]
    /\ Intact
    /\ UNCHANGED pages

\* The user of a page writes it.
Write == \E p \in Page :
    /\ users[p] = 1
    /\ \A q \in Page \ {p} : word'[q] = word[q]
    /\ UNCHANGED <<pages, users>>

\* The file grows and the allocator keeps its books in the pages it has.
Manage ==
    /\ pages' >= pages
    /\ Intact
    /\ UNCHANGED users

\* allocator_init in CREATE or CLEAR mode starts an empty file.
Clear == pages' > 0 /\ users' = [p \in Page |-> 0]

Next ==
    \/ torn'
    \/ ~ torn' /\ Clear
    \/ ~ torn' /\ ~ torn /\ (Get \/ Return \/ Write \/ Manage)

Spec == Init /\ [][Next]_vars
=============================================================================
