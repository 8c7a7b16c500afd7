--------------------------- MODULE AllocatorProofs ---------------------------
(***************************************************************************)
(* Theorems about Allocator, for every file size, block size and set of    *)
(* faults: its types, the soundness of the free list at every store, that  *)
(* get_page always finds a page, that no page is lost, that the use count  *)
(* of a block is the number of its users, and that it implements PageStore.*)
(***************************************************************************)
EXTENDS Allocator, FiniteSetTheorems, WellFoundedInduction, TLAPS

(***************************************************************************)
(* The inductive invariant.  Unlinked is what reserve_pages, init or       *)
(* return_page still has to put on the free list.                          *)
(***************************************************************************)
Linking == {"grow", "link", "head", "unmap", "count"}
Growing == call # "return" /\ pc \in Linking
NextNew == IF pc \in {"unmap", "count"} THEN todo + 1 ELSE todo
Unlinked ==
    {p \in Page : \/ Growing /\ NextNew <= p /\ p < pages
                  \/ pc \in {"link", "head"} /\ p = cur}

\* The free list while a call is in progress.
FreeList(s, n) ==
    /\ IsFreeList(s, n)
    /\ count + (IF pc \in {"unmap", "count", "advance"} THEN 1 ELSE 0) <= n
    /\ \A i \in 1 .. n : s[i] \notin Unlinked

Lists == \E n \in 0 .. pages : \E s \in [1 .. n -> 1 .. pages - 1] : FreeList(s, n)

\* Where each call is: what the program counter says of the other variables.
CallInv ==
    /\ pc \notin {"down", "zero", "magic"} => disk = "valid"
    /\ pc \in {"zero", "magic"} => todo = 1 /\ call \in {"create", "clear"}
                                   /\ \A p \in Page : users[p] = 0
    /\ disk = "none" => pc = "down"
    /\ pc = "magic" => disk = "blank"
    /\ pc # "down" => pages >= 1
    /\ call = "none" => pc \in {"down", "idle"}
    /\ pc = "grow" => call # "return"
    /\ pc \in {"link", "head"} => cur \in Page
    /\ pc \in {"take", "dec", "advance"} => call = "get"
    /\ Growing => todo >= 1 /\ todo <= pages
    /\ Growing /\ pc # "grow" => todo < pages /\ cur = todo
    /\ call = "get" /\ pc \in Linking => count + (pages - todo) > 0

\* What else a file that is not torn satisfies.
FileInv ==
    /\ disk # "valid" => count = 0 /\ head = 0 /\ \A p \in Page : users[p] = 0
    /\ \A p \in Page : users[p] > 0 => p < pages /\ users[p] = 1
    /\ pc \in {"link", "head", "unmap", "count"} => cur \in 1 .. pages - 1
    /\ \A p \in Unlinked : users[p] = 0
    /\ pc = "head" => word[cur] = head
    /\ pc \in {"dec", "advance"} => cur = head

IInv ==
    /\ TypeOK /\ CallInv /\ GetFindsPage
    /\ Torn \/ (FileInv /\ Lists)

-----------------------------------------------------------------------------

\* Every action is defined by the same few names.
USE DEF Page, Fault

\* What reserve_pages adds to the file is a number of pages.
LEMMA NewCountNat ==
    ASSUME TypeOK, NEW n \in Nat, count < n
    PROVE  NewCount(n) \in Nat /\ NewCount(n) % Wrap \in Nat
<1>1. NewCount(n) \in Nat
  BY GrowthAssumption DEF TypeOK, NewCount
<1>2. QED
  BY <1>1, GrowthAssumption

\* No process has the file open at first, and the file has no page.
LEMMA InitIInv == Init => IInv
<1> SUFFICES ASSUME Init PROVE IInv
  OBVIOUS
<1>1. TypeOK
  BY SizesAssumption DEF Init, TypeOK
<1>2. CallInv /\ GetFindsPage
  BY DEF Init, CallInv, GetFindsPage, Growing, Linking
<1>3. FileInv
  BY DEF Init, FileInv, Unlinked, Growing, Linking
<1>4. FreeList([i \in 1 .. 0 |-> 0], 0)
  BY DEF Init, FreeList, IsFreeList, After, Unlinked, Growing, Linking
<1>5. [i \in 1 .. 0 |-> 0] \in [1 .. 0 -> 1 .. pages - 1] /\ 0 \in 0 .. pages
  BY DEF Init
<1>6. QED
  BY <1>1, <1>2, <1>3, <1>4, <1>5 DEF IInv, Lists

\* An integer function stays one when a value of it is added to.
LEMMA ExceptType ==
    ASSUME NEW S, NEW f \in [S -> Int], NEW a, NEW k \in Int
    PROVE  [f EXCEPT ![a] = @ + k] \in [S -> Int]
<1>1. CASE a \in S
  BY <1>1
<1>2. CASE a \notin S
  BY <1>2
<1>3. QED
  BY <1>1, <1>2

\* Mapping and unmapping a page keep the type of the use counters.
LEMMA MappedType ==
    ASSUME refs \in [Block -> Int], NEW p
    PROVE  /\ Mapped(p) \in [Block -> Int]
           /\ Unmapped(p) \in [Block -> Int]
           /\ [refs EXCEPT ![0] = 1] \in [Block -> Int]
<1>1. Mapped(p) \in [Block -> Int]
  BY ExceptType DEF Mapped
<1>2. Unmapped(p) = [refs EXCEPT ![BlockOf(p)] = @ + (-1)]
  BY DEF Unmapped
<1>3. [refs EXCEPT ![0] = 1] \in [Block -> Int]
  <2>1. CASE 0 \in Block
    BY <2>1
  <2>2. CASE 0 \notin Block
    BY <2>2
  <2>3. QED
    BY <2>1, <2>2
<1>4. Unmapped(p) \in [Block -> Int]
  <2>1. [refs EXCEPT ![BlockOf(p)] = @ + (-1)] \in [Block -> Int]
    BY ExceptType
  <2>2. QED
    BY <1>2, <2>1
<1>5. QED
  BY <1>1, <1>3, <1>4

\* What a call that fails leaves behind.
LEMMA AbortType ==
    ASSUME TypeOK, NEW r \in [Block -> Int], Abort(r)
    PROVE  TypeOK'
<1>1. UNCHANGED <<file, users>> /\ harm' \in {"none", "lost", "torn"}
  BY DEF TypeOK, Abort, Lose
<1>2. CASE call \in {"create", "clear"}
  <2>1. Gone
    BY <1>2 DEF Abort
  <2>2. QED
    BY <1>1, <2>1, SizesAssumption DEF TypeOK, Gone, Leave, file
<1>3. CASE call \notin {"create", "clear"}
  <2>1. Idle /\ refs' = r /\ held' = held
    BY <1>3 DEF Abort
  <2>2. QED
    BY <1>1, <2>1 DEF TypeOK, Idle, Leave, file
<1>4. QED
  BY <1>2, <1>3

\* Every step keeps the types.  GetFindsPage is for TakeCount: the count of
\* free pages is unsigned and must not be taken below 0.
LEMMA TypeStep == TypeOK /\ CallInv /\ GetFindsPage /\ [Next]_vars => TypeOK'
<1> SUFFICES ASSUME TypeOK, CallInv, GetFindsPage, [Next]_vars PROVE TypeOK'
  OBVIOUS
<1>0. \A p : Mapped(p) \in [Block -> Int] /\ Unmapped(p) \in [Block -> Int]
  BY MappedType DEF TypeOK
<1> USE SizesAssumption DEF TypeOK, Leave, Idle, Gone, Lose, file, proc
<1>1. CASE LinkNext
  BY <1>1 DEF LinkNext
<1>2. CASE LinkHead
  BY <1>2 DEF LinkHead
<1>3. CASE LinkUnmap
  <2>1. CASE Abort(Unmapped(cur))
    BY <2>1, <1>0, AbortType
  <2>2. CASE ~ Abort(Unmapped(cur))
    BY <2>2, <1>0, <1>3 DEF LinkUnmap
  <2>3. QED
    BY <2>1, <2>2
<1>4. CASE LinkCount
  <2>1. CASE call = "return"
    BY <2>1, <1>4 DEF LinkCount
  <2>2. CASE call # "return"
    <3>1. /\ count' = count + 1 /\ todo' = todo + 1 /\ pc' = "grow"
          /\ UNCHANGED <<disk, pages, head, word, call, cur, refs, held, users, harm>>
      BY <1>4, <2>2 DEF LinkCount
    <3>2. QED
      BY <3>1
  <2>3. QED
    BY <2>1, <2>2
<1>5. CASE GrowPage
  <2>1. CASE Abort(refs)
    BY <2>1, AbortType
  <2>2. CASE refs' = Mapped(todo) /\ cur' = todo /\ pc' = "link"
             /\ UNCHANGED <<file, call, todo, held, users, harm>>
    BY <2>2, <1>0
  <2>3. CASE call = "get" /\ pc' = "take" /\ UNCHANGED <<call, cur, todo>>
             /\ UNCHANGED <<file, refs, held, users, harm>>
    BY <2>3
  <2>4. CASE Idle /\ UNCHANGED <<file, refs, held, users, harm>>
    BY <2>4
  <2>5. QED
    BY <1>5, <2>1, <2>2, <2>3, <2>4 DEF GrowPage
<1>6. CASE TakeMap
  <2>1. CASE refs' = Mapped(head) /\ cur' = head /\ pc' = "dec"
             /\ UNCHANGED <<file, call, todo, held, users, harm>>
    BY <2>1, <1>0
  <2>2. CASE Idle /\ UNCHANGED <<file, refs, held, users, harm>>
    BY <2>2
  <2>3. QED
    BY <1>6, <2>1, <2>2 DEF TakeMap
<1>7. CASE TakeCount
  BY <1>7 DEF TakeCount, GetFindsPage
<1>8. CASE TakeNext
  BY <1>8 DEF TakeNext
<1>9. CASE InitZero \/ InitMagic
  <2>1. CASE InitZero
    BY <2>1 DEF InitZero
  <2>2. CASE InitMagic
    BY <2>2 DEF InitMagic
  <2>3. QED
    BY <1>9, <2>1, <2>2
<1>10. ASSUME NEW n \in Nat, NEW c \in {"reserve", "get"}, Extend(n, c)
       PROVE  TypeOK'
  <2>1. NewCount(n) % Wrap \in Nat
    BY <1>10, NewCountNat DEF Extend
  <2>2. PICK m \in 0 .. MaxPages : pages' = m
    <3>1. pages' = pages + (NewCount(n) % Wrap) /\ pages' <= MaxPages
      BY <1>10 DEF Extend
    <3>2. QED
      BY <2>1, <3>1
  <2>3. /\ todo' = pages /\ pc' = "grow" /\ call' \in {"reserve", "get"}
        /\ UNCHANGED <<disk, count, head, word, cur, refs, held, users, harm>>
    BY <1>10 DEF Extend
  <2>4. QED
    BY <2>2, <2>3
<1>11. CASE GetPage
  <2>1. CASE Extend(1, "get")
    <3>1. 1 \in Nat /\ "get" \in {"reserve", "get"}
      OBVIOUS
    <3>2. QED
      BY <1>10, <2>1, <3>1
  <2>2. CASE ~ Extend(1, "get")
    BY <1>11, <2>2 DEF GetPage
  <2>3. QED
    BY <2>1, <2>2
<1>12. ASSUME NEW n \in 1 .. MaxReserve, ReservePages(n)
       PROVE  TypeOK'
  <2>1. n \in Nat /\ Extend(n, "reserve")
    BY <1>12 DEF ReservePages
  <2>2. QED
    BY <1>10, <2>1
<1>13. ASSUME NEW p \in Page, ReturnPage(p)
       PROVE  TypeOK'
  <2>1. users[p] - 1 \in Nat /\ p \in Nat
    BY <1>13 DEF ReturnPage, InUse
  <2>2. QED
    BY <1>0, <1>13, <2>1 DEF ReturnPage
<1>14. ASSUME NEW p \in Page, MapPage(p)
       PROVE  TypeOK'
  <2>1. held[p] + 1 \in Nat
    BY <1>14 DEF MapPage
  <2>2. QED
    BY <1>0, <1>14, <2>1 DEF MapPage
<1>15. ASSUME NEW p \in Page, UnmapPage(p)
       PROVE  TypeOK'
  <2>1. held[p] - 1 \in Nat
    BY <1>15 DEF UnmapPage
  <2>2. QED
    BY <1>0, <1>15, <2>1 DEF UnmapPage
<1>16. ASSUME NEW p \in Page, NEW w \in Words, WritePage(p, w)
       PROVE  TypeOK'
  BY <1>16 DEF WritePage
<1>17. ASSUME NEW mode \in {"create", "clear"}, OpenTruncate(mode)
       PROVE  TypeOK'
  <2>1. [p \in Page |-> IF p < BlockPages THEN word[p] ELSE 0] \in [Page -> Nat]
    OBVIOUS
  <2>2. [refs EXCEPT ![0] = 1] \in [Block -> Int]
    BY MappedType
  <2>3. (IF disk = "none" THEN "blank" ELSE disk) \in {"none", "blank", "valid"}
    OBVIOUS
  <2>4. QED
    BY <1>17, <2>1, <2>2, <2>3 DEF OpenTruncate, MapHeader
<1>18. CASE OpenExist
  BY <1>18, MappedType DEF OpenExist, MapHeader
<1>19. CASE Close \/ Kill \/ KillBeforeTruncate
  <2>1. CASE Close
    BY <2>1 DEF Close
  <2>2. CASE Kill
    <3>1. harm' \in {"none", "lost", "torn"}
      BY <2>2 DEF Kill
    <3>2. QED
      BY <2>2, <3>1 DEF Kill
  <2>3. CASE KillBeforeTruncate
    BY <2>3 DEF KillBeforeTruncate
  <2>4. QED
    BY <1>19, <2>1, <2>2, <2>3
<1>20. CASE UNCHANGED vars
  BY <1>20 DEF vars
<1>21. QED
  BY <1>1, <1>2, <1>3, <1>4, <1>5, <1>6, <1>7, <1>8, <1>9, <1>11, <1>12, <1>13,
     <1>14, <1>15, <1>16, <1>17, <1>18, <1>19, <1>20 DEF Next, Step, User

\* Every step keeps what the program counter says of the other variables.
LEMMA CallStep ==
    TypeOK /\ CallInv /\ GetFindsPage /\ [Next]_vars => CallInv' /\ GetFindsPage'
<1> SUFFICES ASSUME TypeOK, CallInv, GetFindsPage, [Next]_vars
             PROVE  CallInv' /\ GetFindsPage'
  OBVIOUS
<1> USE SizesAssumption
    DEF TypeOK, CallInv, GetFindsPage, Growing, Linking, Leave, Idle, Gone, Lose,
        file, proc
<1>1. CASE LinkNext
  BY <1>1 DEF LinkNext
<1>2. CASE LinkHead
  BY <1>2 DEF LinkHead
<1>3. CASE LinkUnmap
  BY <1>3 DEF LinkUnmap, Abort
<1>4. CASE LinkCount
  <2>1. CASE call = "return"
    BY <1>4, <2>1 DEF LinkCount
  <2>2. CASE call # "return"
    BY <1>4, <2>2 DEF LinkCount
  <2>3. QED
    BY <2>1, <2>2
<1>5. CASE GrowPage
  <2>1. CASE Abort(refs)
    BY <1>5, <2>1 DEF GrowPage, Abort
  <2>2. CASE /\ pc = "grow" /\ todo < pages /\ cur' = todo /\ pc' = "link"
             /\ UNCHANGED <<file, call, todo, held, users, harm>>
    <3>1. Growing /\ todo \in Page
      BY <2>2
    <3>2. QED
      BY <2>2, <3>1
  <2>3. CASE /\ todo >= pages /\ call = "get" /\ pc' = "take"
             /\ UNCHANGED <<file, call, cur, todo, held, users, harm>>
    BY <1>5, <2>3 DEF GrowPage
  <2>4. CASE Idle /\ UNCHANGED <<file, refs, held, users, harm>>
    BY <1>5, <2>4 DEF GrowPage
  <2>5. QED
    BY <1>5, <2>1, <2>2, <2>3, <2>4 DEF GrowPage
<1>6. CASE TakeMap
  BY <1>6 DEF TakeMap
<1>7. CASE TakeCount
  BY <1>7 DEF TakeCount
<1>8. CASE TakeNext
  BY <1>8 DEF TakeNext
<1>9. CASE InitZero \/ InitMagic
  BY <1>9 DEF InitZero, InitMagic
<1>10. CASE Extend(1, "get") /\ pc = "idle"
  <2>1. count = 0 /\ NewCount(1) = Growth
    BY <1>10, GrowthAssumption DEF Extend, NewCount
  <2>2. PICK g \in Nat \ {0} : g = Growth % Wrap
    <3>1. Growth % Wrap \in Nat \ {0}
      BY GrowthAssumption
    <3>2. QED
      BY <3>1
  <2>3. disk = "valid" /\ pages \in Nat \ {0}
    BY <1>10
  <2>4. /\ pages' = pages + (Growth % Wrap) /\ todo' = pages
        /\ pc' = "grow" /\ call' = "get"
        /\ UNCHANGED <<disk, count, head, word, cur, refs, held, users, harm>>
    BY <1>10, <2>1 DEF Extend
  <2>5. pages' = pages + g
    BY <2>2, <2>4
  <2>6. QED
    BY <2>1, <2>3, <2>4, <2>5
<1>11. CASE GetPage
  BY <1>10, <1>11 DEF GetPage
<1>12. ASSUME NEW n \in 1 .. MaxReserve, ReservePages(n)
       PROVE  CallInv' /\ GetFindsPage'
  <2>1. n \in Nat /\ count < n /\ pc = "idle"
    BY <1>12 DEF ReservePages, Extend
  <2>2. NewCount(n) % Wrap \in Nat
    BY <2>1, NewCountNat
  <2>3. QED
    BY <1>12, <2>1, <2>2 DEF ReservePages, Extend
<1>13. ASSUME NEW p \in Page, ReturnPage(p)
       PROVE  CallInv' /\ GetFindsPage'
  BY <1>13 DEF ReturnPage, InUse
<1>14. ASSUME NEW p \in Page, MapPage(p) \/ UnmapPage(p)
       PROVE  CallInv' /\ GetFindsPage'
  BY <1>14 DEF MapPage, UnmapPage
<1>15. ASSUME NEW p \in Page, NEW w \in Words, WritePage(p, w)
       PROVE  CallInv' /\ GetFindsPage'
  BY <1>15 DEF WritePage
<1>16. CASE OpenExist
  BY <1>16 DEF OpenExist
<1>19. ASSUME NEW mode \in {"create", "clear"}, OpenTruncate(mode)
       PROVE  CallInv' /\ GetFindsPage'
  BY <1>19 DEF OpenTruncate
<1>17. CASE Close \/ Kill \/ KillBeforeTruncate
  <2>1. CASE Close \/ Kill
    BY <2>1 DEF Close, Kill
  <2>2. CASE KillBeforeTruncate
    BY <2>2 DEF KillBeforeTruncate
  <2>3. QED
    BY <1>17, <2>1, <2>2
<1>18. CASE UNCHANGED vars
  BY <1>18 DEF vars
<1>20. QED
  BY <1>1, <1>2, <1>3, <1>4, <1>5, <1>6, <1>7, <1>8, <1>9, <1>11, <1>12, <1>13,
     <1>14, <1>15, <1>16, <1>17, <1>18, <1>19 DEF Next, Step, User
-----------------------------------------------------------------------------
(***************************************************************************)
(* The free list, action by action.                                        *)
(***************************************************************************)

\* A list of distinct pages is no longer than the file.
LEMMA ListFits ==
    ASSUME NEW n \in Nat, NEW m \in Nat, NEW s \in [1 .. n -> 1 .. m],
           \A i, j \in 1 .. n : s[i] = s[j] => i = j
    PROVE  n <= m
<1>1. s \in Injection(1 .. n, 1 .. m)
  BY DEF Injection, IsInjective
<1>2. Cardinality(1 .. n) <= Cardinality(1 .. m)
  BY <1>1, FS_Interval, FS_Injection
<1>3. Cardinality(1 .. n) = n /\ Cardinality(1 .. m) = m
  BY FS_Interval
<1>4. QED
  BY <1>2, <1>3

\* Most steps leave the list as it is.
Keeps(s, n) ==
    /\ pages \in Nat /\ pages' \in Nat /\ pages' >= pages /\ head' = head
    /\ \A i \in 1 .. n : /\ word'[s[i]] = word[s[i]]
                         /\ s[i] \notin InUse' /\ s[i] \notin Unlinked'
    /\ count' + (IF pc' \in {"unmap", "count", "advance"} THEN 1 ELSE 0) <= n

\* A list no step of the call touches is the list after the step.
LEMMA SameList ==
    ASSUME NEW n \in 0 .. pages, NEW s \in [1 .. n -> 1 .. pages - 1],
           IsFreeList(s, n), Keeps(s, n)
    PROVE  Lists'
<1>1. s \in [1 .. n -> 1 .. pages' - 1] /\ n \in 0 .. pages'
  BY DEF Keeps
<1>2. FreeList(s, n)'
  BY DEF Keeps, FreeList, IsFreeList, After
<1>3. QED
  BY <1>1, <1>2 DEF Lists

\* A step inside a torn file leaves it torn, or is the zeroing of the header,
\* which starts an empty list.
LEMMA TornStep ==
    ASSUME TypeOK, CallInv, Torn, [Next]_vars
    PROVE  Torn' \/ (FileInv' /\ Lists')
<1> USE DEF Torn, TypeOK, CallInv, Leave, Idle, Gone, Lose, file, proc
<1>1. CASE InitZero
  <2>1. FileInv'
    BY <1>1 DEF InitZero, FileInv, Unlinked, Growing, Linking
  <2>2. FreeList([i \in 1 .. 0 |-> 0], 0)'
    BY <1>1 DEF InitZero, FreeList, IsFreeList, After, Unlinked, Growing, Linking
  <2>3. [i \in 1 .. 0 |-> 0] \in [1 .. 0 -> 1 .. pages' - 1] /\ 0 \in 0 .. pages'
    BY <1>1 DEF InitZero
  <2>4. QED
    BY <2>1, <2>2, <2>3 DEF Lists
<1>2. CASE LinkNext \/ LinkHead \/ LinkCount \/ TakeMap \/ TakeCount \/ TakeNext
           \/ InitMagic \/ OpenExist \/ Close \/ KillBeforeTruncate
  BY <1>2 DEF LinkNext, LinkHead, LinkCount, TakeMap, TakeCount, TakeNext,
              InitMagic, OpenExist, Close, KillBeforeTruncate
<1>3. CASE LinkUnmap \/ GrowPage \/ Kill
  BY <1>3 DEF LinkUnmap, GrowPage, Abort, Kill
<1>4. CASE GetPage \/ \E n \in 1 .. MaxReserve : ReservePages(n)
  BY <1>4 DEF GetPage, ReservePages, Extend
<1>5. CASE \E p \in Page : ReturnPage(p) \/ MapPage(p) \/ UnmapPage(p)
  BY <1>5 DEF ReturnPage, MapPage, UnmapPage
<1>6. CASE \E p \in Page, w \in Words : WritePage(p, w)
  BY <1>6 DEF WritePage
<1>7. CASE OpenTruncate("create") \/ OpenTruncate("clear")
  BY <1>7 DEF OpenTruncate
<1>8. CASE UNCHANGED vars
  BY <1>8 DEF vars
<1>9. QED
  BY <1>1, <1>2, <1>3, <1>4, <1>5, <1>6, <1>7, <1>8 DEF Next, Step, User

\* The steps of return_page and of the loop over new pages.
LEMMA LinkStep ==
    ASSUME TypeOK, CallInv, CallInv', TypeOK', ~ Torn, FileInv, Lists,
           LinkNext \/ LinkHead \/ LinkUnmap \/ LinkCount \/ GrowPage
    PROVE  Torn' \/ (FileInv' /\ Lists')
<1> PICK n \in 0 .. pages : \E s \in [1 .. n -> 1 .. pages - 1] : FreeList(s, n)
  BY DEF Lists
<1> PICK s \in [1 .. n -> 1 .. pages - 1] : FreeList(s, n)
  OBVIOUS
<1>0. /\ IsFreeList(s, n) /\ n \in Nat /\ pages \in Nat
      /\ count + (IF pc \in {"unmap", "count", "advance"} THEN 1 ELSE 0) <= n
      /\ \A i \in 1 .. n : s[i] \in Page /\ s[i] \notin Unlinked /\ s[i] \notin InUse
  BY SizesAssumption DEF FreeList, IsFreeList, TypeOK
<1> USE SizesAssumption DEF Leave, Idle, Gone, Lose, file
<1>1. CASE LinkNext
  <2>1. Unlinked' = Unlinked /\ cur \in Unlinked
    BY <1>1 DEF TypeOK, InUse, LinkNext, Unlinked, Growing, Linking, NextNew, FileInv
  <2>2. FileInv'
    BY <1>1, <2>1 DEF TypeOK, InUse, LinkNext, FileInv, CallInv
  <2>3. \A i \in 1 .. n : /\ word'[s[i]] = word[s[i]]
                         /\ s[i] \notin InUse' /\ s[i] \notin Unlinked'
    BY <1>0, <1>1, <2>1 DEF TypeOK, InUse, LinkNext
  <2>4. /\ pages' = pages /\ head' = head
        /\ count' + (IF pc' \in {"unmap", "count", "advance"} THEN 1 ELSE 0) <= n
    BY <1>0, <1>1, <2>1 DEF TypeOK, InUse, LinkNext
  <2>5. Lists'
    <3>1. Keeps(s, n)
      BY <1>0, <2>3, <2>4 DEF Keeps
    <3>2. QED
      BY <1>0, <3>1, SameList
  <2>6. QED
    BY <2>2, <2>5
<1>2. CASE LinkHead
  <2>1. /\ Unlinked' \subseteq Unlinked /\ cur \in Unlinked /\ cur \notin Unlinked'
        /\ cur \in 1 .. pages - 1 /\ word[cur] = head /\ users[cur] = 0
    BY <1>2 DEF TypeOK, InUse, LinkHead, Unlinked, Growing, Linking, NextNew, FileInv, CallInv
  <2>2. FileInv'
    BY <1>2, <2>1 DEF TypeOK, InUse, LinkHead, FileInv, CallInv
  <2>3. PICK t \in [1 .. n + 1 -> 1 .. pages - 1] :
            /\ t[1] = cur
            /\ \A i \in 2 .. n + 1 : i - 1 \in 1 .. n /\ t[i] = s[i - 1]
    <3> DEFINE u == [i \in 1 .. n + 1 |-> IF i = 1 THEN cur ELSE s[i - 1]]
    <3>1. u \in [1 .. n + 1 -> 1 .. pages - 1]
      BY <1>0, <2>1
    <3>2. u[1] = cur /\ \A i \in 2 .. n + 1 : i - 1 \in 1 .. n /\ u[i] = s[i - 1]
      BY <1>0
    <3>3. QED
      BY <3>1, <3>2
  <2>4. \A i, j \in 1 .. n + 1 : t[i] = t[j] => i = j
    <3>1. \A i \in 2 .. n + 1 : t[i] # t[1]
      BY <1>0, <2>1, <2>3
    <3>2. \A i, j \in 2 .. n + 1 : t[i] = t[j] => i = j
      BY <1>0, <2>3 DEF IsFreeList
    <3>3. \A i \in 1 .. n + 1 : i = 1 \/ i \in 2 .. n + 1
      BY <1>0
    <3>4. QED
      BY <3>1, <3>2, <3>3
  <2>5. n + 1 \in 0 .. pages
    <3>1. n + 1 \in Nat /\ pages - 1 \in Nat
      BY <1>0, <2>1
    <3>2. n + 1 <= pages - 1
      BY <2>3, <2>4, <3>1, ListFits
    <3>3. QED
      BY <1>0, <3>1, <3>2
  <2>6. /\ head' = cur /\ word' = word /\ users' = users /\ pages' = pages
        /\ pc' \in {"unmap"} /\ count' = count /\ pc = "head"
    BY <1>2 DEF LinkHead
  <2>7. head' = After(t, n + 1, 0)
    BY <1>0, <2>3, <2>6 DEF After
  <2>8. \A i \in 1 .. n + 1 : word'[t[i]] = After(t, n + 1, i)
    <3>1. word[t[1]] = After(t, n + 1, 1)
      BY <1>0, <2>1, <2>3 DEF IsFreeList, After
    <3>2. ASSUME NEW i \in 2 .. n + 1 PROVE word[t[i]] = After(t, n + 1, i)
      <4>1. i - 1 \in 1 .. n /\ t[i] = s[i - 1] /\ word[s[i - 1]] = After(s, n, i - 1)
        BY <1>0, <2>3 DEF IsFreeList
      <4>2. After(s, n, i - 1) = After(t, n + 1, i)
        BY <1>0, <2>3, <4>1 DEF After
      <4>3. QED
        BY <4>1, <4>2
    <3>3. \A i \in 1 .. n + 1 : i = 1 \/ i \in 2 .. n + 1
      BY <1>0
    <3>4. \A i \in 1 .. n + 1 : word[t[i]] = After(t, n + 1, i)
      BY <3>1, <3>2, <3>3
    <3>5. QED
      BY <2>6, <3>4
  <2>9. \A i \in 1 .. n + 1 : t[i] \notin InUse' /\ t[i] \notin Unlinked'
    <3>1. t[1] \notin InUse' /\ t[1] \notin Unlinked'
      BY <2>1, <2>3, <2>6 DEF InUse
    <3>2. \A i \in 2 .. n + 1 : t[i] \notin InUse' /\ t[i] \notin Unlinked'
      BY <1>0, <2>1, <2>3, <2>6 DEF InUse
    <3>3. \A i \in 1 .. n + 1 : i = 1 \/ i \in 2 .. n + 1
      BY <1>0
    <3>4. QED
      BY <3>1, <3>2, <3>3
  <2>10. count' + (IF pc' \in {"unmap", "count", "advance"} THEN 1 ELSE 0) <= n + 1
    BY <1>0, <2>6 DEF TypeOK
  <2>11. FreeList(t, n + 1)'
    BY <2>4, <2>7, <2>8, <2>9, <2>10 DEF FreeList, IsFreeList, After
  <2>12. n + 1 \in 0 .. pages' /\ t \in [1 .. n + 1 -> 1 .. pages' - 1]
    BY <2>3, <2>5, <2>6
  <2>13. Lists'
    BY <2>11, <2>12 DEF Lists
  <2>14. QED
    BY <2>2, <2>13
<1>3. CASE LinkUnmap
  <2>1. Unlinked' \subseteq Unlinked /\ UNCHANGED <<file, users>>
    BY <1>3 DEF TypeOK, InUse, LinkUnmap, Abort, Unlinked, Growing, Linking, NextNew
  <2>2. FileInv'
    BY <1>3, <2>1 DEF TypeOK, InUse, LinkUnmap, Abort, FileInv
  <2>3. \A i \in 1 .. n : /\ word'[s[i]] = word[s[i]]
                         /\ s[i] \notin InUse' /\ s[i] \notin Unlinked'
    BY <1>0, <1>3, <2>1 DEF TypeOK, InUse, LinkUnmap, Abort
  <2>4. /\ pages' = pages /\ head' = head
        /\ count' + (IF pc' \in {"unmap", "count", "advance"} THEN 1 ELSE 0) <= n
    BY <1>0, <1>3, <2>1 DEF TypeOK, InUse, LinkUnmap, Abort
  <2>5. Lists'
    <3>1. Keeps(s, n)
      BY <1>0, <2>3, <2>4 DEF Keeps
    <3>2. QED
      BY <1>0, <3>1, SameList
  <2>6. QED
    BY <2>2, <2>5
<1>4. CASE LinkCount
  <2>1. Unlinked' \subseteq Unlinked
    BY <1>4 DEF TypeOK, InUse, LinkCount, Unlinked, Growing, Linking, NextNew, CallInv
  <2>2. FileInv'
    BY <1>4, <2>1 DEF TypeOK, InUse, LinkCount, FileInv, CallInv
  <2>3. \A i \in 1 .. n : /\ word'[s[i]] = word[s[i]]
                         /\ s[i] \notin InUse' /\ s[i] \notin Unlinked'
    BY <1>0, <1>4, <2>1 DEF TypeOK, InUse, LinkCount
  <2>4. /\ pages' = pages /\ head' = head
        /\ count' + (IF pc' \in {"unmap", "count", "advance"} THEN 1 ELSE 0) <= n
    BY <1>0, <1>4, <2>1 DEF TypeOK, InUse, LinkCount
  <2>5. Lists'
    <3>1. Keeps(s, n)
      BY <1>0, <2>3, <2>4 DEF Keeps
    <3>2. QED
      BY <1>0, <3>1, SameList
  <2>6. QED
    BY <2>2, <2>5
<1>5. CASE GrowPage
  <2>1. Unlinked' \subseteq Unlinked /\ UNCHANGED <<file, users>>
    <3>1. UNCHANGED <<file, users>>
      BY <1>5 DEF GrowPage, Abort
    <3>2. CASE /\ pc' = "link" /\ call' = call /\ todo' = todo /\ cur' = todo
               /\ todo < pages
      <4>1. pc = "grow" /\ call # "return"
        BY <1>5 DEF GrowPage, CallInv
      <4>2. QED
        <5>1. Unlinked' = {p \in Page : (todo <= p /\ p < pages) \/ p = todo}
          BY <3>1, <3>2, <4>1 DEF Unlinked, Growing, Linking, NextNew
        <5>2. {p \in Page : todo <= p /\ p < pages} \subseteq Unlinked
          BY <4>1 DEF Unlinked, Growing, Linking, NextNew
        <5>3. ASSUME NEW p \in Page, (todo <= p /\ p < pages) \/ p = todo
              PROVE  p \in Unlinked
          BY <3>2, <5>2, <5>3
        <5>4. QED
          BY <3>1, <5>1, <5>3
    <3>3. CASE pc' \in {"down", "idle", "take"}
      BY <3>1, <3>3 DEF Unlinked, Growing, Linking
    <3>4. QED
      BY <1>5, <3>1, <3>2, <3>3 DEF GrowPage, Abort
  <2>2. FileInv'
    <3>1. CASE /\ pc' = "link" /\ cur' = todo /\ pc = "grow" /\ todo < pages
      <4>1. todo \in 1 .. pages - 1 /\ disk = "valid"
        BY <1>5, <3>1 DEF TypeOK, CallInv, Growing, Linking, GrowPage
      <4>2. QED
        BY <2>1, <3>1, <4>1 DEF TypeOK, FileInv
    <3>2. CASE pc' \in {"down", "idle", "take"}
      BY <2>1, <3>2 DEF TypeOK, FileInv
    <3>3. QED
      BY <1>5, <3>1, <3>2 DEF GrowPage, Abort
  <2>3. \A i \in 1 .. n : /\ word'[s[i]] = word[s[i]]
                         /\ s[i] \notin InUse' /\ s[i] \notin Unlinked'
    BY <1>0, <1>5, <2>1 DEF TypeOK, InUse, GrowPage, Abort
  <2>4. /\ pages' = pages /\ head' = head
        /\ count' + (IF pc' \in {"unmap", "count", "advance"} THEN 1 ELSE 0) <= n
    BY <1>0, <1>5, <2>1 DEF TypeOK, InUse, GrowPage, Abort
  <2>5. Lists'
    <3>1. Keeps(s, n)
      BY <1>0, <2>3, <2>4 DEF Keeps
    <3>2. QED
      BY <1>0, <3>1, SameList
  <2>6. QED
    BY <2>2, <2>5
<1>6. QED
  BY <1>1, <1>2, <1>3, <1>4, <1>5

\* The steps of get_page and of the growth of the file.
LEMMA TakeStep ==
    ASSUME TypeOK, CallInv, ~ Torn, FileInv, Lists,
           TakeMap \/ TakeCount \/ TakeNext
    PROVE  FileInv' /\ Lists'
<1> PICK n \in 0 .. pages : \E s \in [1 .. n -> 1 .. pages - 1] : FreeList(s, n)
  BY DEF Lists
<1> PICK s \in [1 .. n -> 1 .. pages - 1] : FreeList(s, n)
  OBVIOUS
<1>0. /\ IsFreeList(s, n) /\ n \in Nat /\ pages \in Nat
      /\ count + (IF pc \in {"unmap", "count", "advance"} THEN 1 ELSE 0) <= n
      /\ \A i \in 1 .. n : s[i] \in Page /\ s[i] \notin Unlinked /\ s[i] \notin InUse
  BY SizesAssumption DEF FreeList, IsFreeList, TypeOK
<1> USE SizesAssumption DEF Idle, Leave, file
<1>1. CASE TakeMap \/ TakeCount
  <2>1. Unlinked' = {} /\ UNCHANGED <<disk, pages, head, word, users>>
    BY <1>1 DEF TakeMap, TakeCount, Unlinked, Growing, Linking
  <2>2. FileInv'
    BY <1>1, <2>1 DEF TypeOK, TakeMap, TakeCount, FileInv, CallInv
  <2>3. \A i \in 1 .. n : /\ word'[s[i]] = word[s[i]]
                          /\ s[i] \notin InUse' /\ s[i] \notin Unlinked'
    BY <1>0, <2>1 DEF InUse
  <2>4. count' + (IF pc' \in {"unmap", "count", "advance"} THEN 1 ELSE 0) <= n
    BY <1>0, <1>1 DEF TypeOK, TakeMap, TakeCount
  <2>5. Lists'
    <3>1. Keeps(s, n)
      BY <1>0, <2>1, <2>3, <2>4 DEF Keeps
    <3>2. QED
      BY <1>0, <3>1, SameList
  <2>6. QED
    BY <2>2, <2>5
<1>2. CASE TakeNext
  <2>1. /\ pc = "advance" /\ pc' = "idle" /\ cur = head /\ cur \in 1 .. pages - 1
        /\ head' = word[cur] /\ users' = [users EXCEPT ![cur] = @ + 1]
        /\ UNCHANGED <<disk, pages, count, word>>
        /\ Unlinked' = {} /\ disk = "valid"
    BY <1>2 DEF TakeNext, FileInv, CallInv, Unlinked, Growing, Linking
  <2>2. n - 1 \in Nat /\ cur = s[1] /\ count' <= n - 1
    BY <1>0, <2>1 DEF TypeOK, IsFreeList, After
  <2>3. users[cur] = 0 /\ cur \in Page
    <3>1. 1 \in 1 .. n
      BY <1>0, <2>2
    <3>2. cur \in Page /\ cur \notin InUse
      BY <1>0, <2>2, <3>1
    <3>3. QED
      BY <3>2 DEF TypeOK, InUse
  <2>4. FileInv'
    BY <2>1, <2>3 DEF TypeOK, FileInv
  <2>5. PICK t \in [1 .. n - 1 -> 1 .. pages - 1] :
            \A i \in 1 .. n - 1 : i + 1 \in 1 .. n /\ t[i] = s[i + 1]
    <3> DEFINE u == [i \in 1 .. n - 1 |-> s[i + 1]]
    <3>1. u \in [1 .. n - 1 -> 1 .. pages - 1]
      BY <1>0, <2>2
    <3>2. \A i \in 1 .. n - 1 : i + 1 \in 1 .. n /\ u[i] = s[i + 1]
      BY <1>0
    <3>3. QED
      BY <3>1, <3>2
  <2>6. \A i, j \in 1 .. n - 1 : t[i] = t[j] => i = j
    BY <1>0, <2>5 DEF IsFreeList
  <2>7. \A i \in 0 .. n - 1 : After(t, n - 1, i) = After(s, n, i + 1)
    BY <1>0, <2>2, <2>5 DEF After
  <2>8. head' = After(t, n - 1, 0)
    BY <1>0, <2>1, <2>2, <2>7 DEF IsFreeList
  <2>9. \A i \in 1 .. n - 1 : word'[t[i]] = After(t, n - 1, i)
    BY <1>0, <2>1, <2>2, <2>5, <2>7 DEF IsFreeList
  <2>10. \A i \in 1 .. n - 1 : t[i] \notin InUse' /\ t[i] \notin Unlinked'
    <3>1. \A i \in 1 .. n - 1 : t[i] \in Page /\ t[i] \notin InUse /\ t[i] # cur
      BY <1>0, <2>2, <2>5 DEF IsFreeList
    <3>2. QED
      BY <2>1, <3>1 DEF TypeOK, InUse
  <2>11. FreeList(t, n - 1)'
    <3>1. count' + (IF pc' \in {"unmap", "count", "advance"} THEN 1 ELSE 0) <= n - 1
      BY <2>1, <2>2 DEF TypeOK
    <3>2. QED
      BY <2>6, <2>8, <2>9, <2>10, <3>1 DEF FreeList, IsFreeList, After
  <2>12. n - 1 \in 0 .. pages' /\ t \in [1 .. n - 1 -> 1 .. pages' - 1]
    BY <1>0, <2>1, <2>2, <2>5
  <2>13. Lists'
    BY <2>11, <2>12 DEF Lists
  <2>14. QED
    BY <2>4, <2>13
<1>3. QED
  BY <1>1, <1>2

\* What users do between two calls, the start of a call, its end by a kill.
LEMMA UserStep ==
    ASSUME TypeOK, CallInv, TypeOK', ~ Torn, FileInv, Lists,
           User \/ InitZero \/ InitMagic \/ Kill \/ KillBeforeTruncate
             \/ UNCHANGED vars
    PROVE  Torn' \/ (FileInv' /\ Lists')
<1> PICK n \in 0 .. pages : \E s \in [1 .. n -> 1 .. pages - 1] : FreeList(s, n)
  BY DEF Lists
<1> PICK s \in [1 .. n -> 1 .. pages - 1] : FreeList(s, n)
  OBVIOUS
<1>0. /\ IsFreeList(s, n) /\ n \in Nat /\ pages \in Nat /\ pages' \in Nat
      /\ count \in Nat
      /\ count + (IF pc \in {"unmap", "count", "advance"} THEN 1 ELSE 0) <= n
      /\ \A i \in 1 .. n : s[i] \in Page /\ s[i] \notin Unlinked /\ s[i] \notin InUse
                           /\ s[i] < pages
  BY SizesAssumption DEF FreeList, IsFreeList, TypeOK
\* Enough for the actions that store nothing in the file but the magic.
<1>f. ASSUME UNCHANGED <<pages, count, head, word, users>>, Unlinked' = {},
             pc' \notin {"unmap", "count", "advance", "link", "head", "dec"},
             disk' = "valid" \/ (disk' = disk \/ disk # "valid")
      PROVE  FileInv' /\ Lists'
  <2>1. FileInv'
    BY <1>f DEF FileInv
  <2>2. Lists'
    <3>1. \A i \in 1 .. n : s[i] \notin InUse' /\ s[i] \notin Unlinked'
      BY <1>0, <1>f DEF InUse
    <3>2. count' + (IF pc' \in {"unmap", "count", "advance"} THEN 1 ELSE 0) <= n
      BY <1>0, <1>f
    <3>3. pages' >= pages
      BY <1>0, <1>f
    <3>4. QED
      <4>1. Keeps(s, n)
        BY <1>0, <1>f, <3>1, <3>2, <3>3 DEF Keeps
      <4>2. QED
        BY <1>0, <4>1, SameList
  <2>3. QED
    BY <2>1, <2>2
<1>e. ASSUME NEW m \in Nat, NEW c \in {"reserve", "get"}, Extend(m, c), pc = "idle"
      PROVE  FileInv' /\ Lists'
  <2>1. /\ pages' >= pages /\ todo' = pages /\ pc' = "grow" /\ call' = c
        /\ UNCHANGED <<disk, count, head, word, users, cur>>
    BY <1>e, <1>0, NewCountNat DEF Extend
  <2>2. \A p \in Unlinked' : p >= pages
    BY <1>0, <2>1 DEF Unlinked, Growing, Linking, NextNew
  <2>3. FileInv'
    <3>1. \A p \in Page : users'[p] > 0 => p < pages' /\ users'[p] = 1
      BY <1>0, <2>1 DEF FileInv
    <3>2. \A p \in Unlinked' : p \in Page /\ users[p] \in Nat /\ ~ (p < pages)
      BY <1>0, <2>2 DEF Unlinked, TypeOK
    <3>3. \A p \in Unlinked' : users'[p] = 0
      BY <2>1, <3>2 DEF FileInv
    <3>4. QED
      BY <2>1, <3>1, <3>3 DEF FileInv
  <2>4. \A i \in 1 .. n : s[i] \notin InUse' /\ s[i] \notin Unlinked'
    BY <1>0, <2>1, <2>2 DEF InUse
  <2>5. count' + (IF pc' \in {"unmap", "count", "advance"} THEN 1 ELSE 0) <= n
    BY <1>0, <2>1
  <2>6. Lists'
    <3>1. Keeps(s, n)
      BY <1>0, <2>1, <2>4, <2>5 DEF Keeps
    <3>2. QED
      BY <1>0, <3>1, SameList
  <2>7. QED
    BY <2>3, <2>6
<1>1. CASE GetPage
  <2>1. CASE Extend(1, "get") /\ pc = "idle"
    BY <1>e, <2>1
  <2>2. CASE pc' = "take" /\ UNCHANGED <<file, users>>
    BY <1>f, <2>2 DEF Unlinked, Growing, Linking, file
  <2>3. QED
    BY <1>1, <2>1, <2>2 DEF GetPage
<1>2. ASSUME NEW m \in 1 .. MaxReserve, ReservePages(m)
      PROVE  FileInv' /\ Lists'
  <2>1. m \in Nat /\ Extend(m, "reserve") /\ pc = "idle"
    BY <1>2 DEF ReservePages
  <2>2. QED
    BY <1>e, <2>1
<1>3. ASSUME NEW p \in Page, ReturnPage(p)
      PROVE  FileInv' /\ Lists'
  <2>1. /\ users[p] = 1 /\ p < pages /\ pc = "idle" /\ p \in InUse
        /\ users' = [users EXCEPT ![p] = @ - 1] /\ UNCHANGED file
        /\ \/ pc' = "link" /\ call' = "return" /\ cur' = p
           \/ pc' = "idle"
    BY <1>3 DEF ReturnPage, FileInv, InUse
  <2>2. Unlinked' \subseteq {p}
    BY <2>1 DEF Unlinked, Growing, Linking
  <2>3. users' \in [Page -> Nat] /\ users'[p] = 0
        /\ \A q \in Page : users'[q] > 0 => users[q] > 0 /\ users'[q] = users[q]
    BY <2>1 DEF TypeOK
  <2>4. FileInv'
    BY <1>0, <2>1, <2>2, <2>3 DEF FileInv, file
  <2>5. \A i \in 1 .. n : s[i] \notin InUse' /\ s[i] \notin Unlinked'
    BY <1>0, <2>1, <2>2, <2>3 DEF InUse
  <2>6. count' + (IF pc' \in {"unmap", "count", "advance"} THEN 1 ELSE 0) <= n
    BY <1>0, <2>1 DEF file
  <2>7. pages' >= pages /\ head' = head /\ word' = word
    BY <1>0, <2>1 DEF file
  <2>8. Keeps(s, n)
    BY <1>0, <2>5, <2>6, <2>7 DEF Keeps
  <2>9. QED
    BY <1>0, <2>4, <2>8, SameList
<1>4. CASE \E p \in Page : MapPage(p) \/ UnmapPage(p)
  BY <1>4, <1>f DEF MapPage, UnmapPage, Unlinked, Growing, Linking, file
<1>5. ASSUME NEW p \in Page, NEW w \in Words, WritePage(p, w)
      PROVE  FileInv' /\ Lists'
  <2>1. /\ p \in InUse /\ word' = [word EXCEPT ![p] = w]
        /\ UNCHANGED <<disk, pages, count, head, users, pc, call, cur, todo>>
        /\ pc = "idle"
    BY <1>5 DEF WritePage, proc
  <2>2. Unlinked' = {}
    BY <2>1 DEF Unlinked, Growing, Linking
  <2>3. FileInv'
    BY <2>1, <2>2 DEF FileInv
  <2>4. \A i \in 1 .. n : /\ word'[s[i]] = word[s[i]]
                          /\ s[i] \notin InUse' /\ s[i] \notin Unlinked'
    BY <1>0, <2>1, <2>2 DEF InUse, TypeOK
  <2>5. count' + (IF pc' \in {"unmap", "count", "advance"} THEN 1 ELSE 0) <= n
    BY <1>0, <2>1
  <2>6. pages' >= pages
    BY <1>0, <2>1
  <2>7. Keeps(s, n)
    BY <1>0, <2>1, <2>4, <2>5, <2>6 DEF Keeps
  <2>8. QED
    BY <1>0, <2>3, <2>7, SameList
<1>6. CASE OpenExist \/ Close
  BY <1>6, <1>f DEF OpenExist, Close, Gone, Leave, Unlinked, Growing, Linking, file
<1>7. ASSUME NEW mode \in {"create", "clear"}, OpenTruncate(mode)
      PROVE  Torn' \/ (FileInv' /\ Lists')
  <2>1. CASE disk = "valid"
    BY <1>7, <2>1 DEF OpenTruncate, Torn
  <2>2. CASE disk # "valid"
    <3>1. count' = 0 /\ head' = 0 /\ pc' = "zero" /\ users' = [p \in Page |-> 0]
      BY <1>7, <2>2 DEF OpenTruncate, FileInv
    <3>2. Unlinked' = {}
      BY <3>1 DEF Unlinked, Growing, Linking
    <3>3. FileInv'
      BY <3>1, <3>2 DEF FileInv
    <3>4. FreeList([i \in 1 .. 0 |-> 0], 0)'
      BY <3>1, <3>2 DEF FreeList, IsFreeList, After
    <3>5. [i \in 1 .. 0 |-> 0] \in [1 .. 0 -> 1 .. pages' - 1] /\ 0 \in 0 .. pages'
      BY <1>0
    <3>6. QED
      BY <3>3, <3>4, <3>5 DEF Lists
  <2>3. QED
    BY <2>1, <2>2
<1>8. CASE InitZero
  <2>1. /\ count' = 0 /\ head' = 0 /\ pc' = "magic" /\ users' = users
        /\ disk' = "blank" /\ \A p \in Page : users[p] = 0
    BY <1>8 DEF InitZero, CallInv
  <2>2. Unlinked' = {}
    BY <2>1 DEF Unlinked, Growing, Linking
  <2>3. FileInv'
    BY <2>1, <2>2 DEF FileInv
  <2>4. FreeList([i \in 1 .. 0 |-> 0], 0)'
    BY <2>1, <2>2 DEF FreeList, IsFreeList, After
  <2>5. [i \in 1 .. 0 |-> 0] \in [1 .. 0 -> 1 .. pages' - 1] /\ 0 \in 0 .. pages'
    BY <1>0
  <2>6. QED
    BY <2>3, <2>4, <2>5 DEF Lists
<1>9. CASE InitMagic
  <2>1. /\ pc' = "grow" /\ count' = 0 /\ head' = 0 /\ users' = users
        /\ \A p \in Page : users[p] = 0
    BY <1>9 DEF InitMagic, CallInv, FileInv
  <2>2. FileInv'
    BY <2>1 DEF FileInv, Unlinked
  <2>3. FreeList([i \in 1 .. 0 |-> 0], 0)'
    BY <2>1 DEF FreeList, IsFreeList, After
  <2>4. [i \in 1 .. 0 |-> 0] \in [1 .. 0 -> 1 .. pages' - 1] /\ 0 \in 0 .. pages'
    BY <1>0
  <2>5. QED
    BY <2>2, <2>3, <2>4 DEF Lists
<1>10. CASE Kill \/ KillBeforeTruncate
  BY <1>10, <1>f DEF Kill, KillBeforeTruncate, Gone, Leave, Unlinked, Growing,
                     Linking, file, proc, CallInv
<1>11. CASE UNCHANGED vars
  <2>1. UNCHANGED <<file, pc, call, cur, todo, users>> /\ Unlinked' = Unlinked
    BY <1>11 DEF vars, file, Unlinked, Growing, Linking, NextNew
  <2>2. FileInv' /\ FreeList(s, n)'
    BY <2>1 DEF FileInv, FreeList, IsFreeList, InUse, file
  <2>3. QED
    BY <2>1, <2>2 DEF Lists, file
<1>12. QED
  BY <1>1, <1>2, <1>3, <1>4, <1>5, <1>6, <1>7, <1>8, <1>9, <1>10, <1>11 DEF User

-----------------------------------------------------------------------------
(***************************************************************************)
(* Theorems                                                                *)
(***************************************************************************)

\* IInv holds in every state of every execution of the allocator.
THEOREM Invariance == Spec => []IInv
<1>1. Init => IInv
  BY InitIInv
<1>2. IInv /\ [Next]_vars => IInv'
  <2> SUFFICES ASSUME IInv, [Next]_vars PROVE IInv'
    OBVIOUS
  <2>1. TypeOK' /\ CallInv' /\ GetFindsPage'
    BY TypeStep, CallStep DEF IInv
  <2>2. CASE Torn
    BY <2>1, <2>2, TornStep DEF IInv
  <2>3. CASE ~ Torn
    <3>1. FileInv /\ Lists
      BY <2>3 DEF IInv
    <3>2. CASE LinkNext \/ LinkHead \/ LinkUnmap \/ LinkCount \/ GrowPage
      BY <2>1, <2>3, <3>1, <3>2, LinkStep DEF IInv
    <3>3. CASE TakeMap \/ TakeCount \/ TakeNext
      BY <2>1, <2>3, <3>1, <3>3, TakeStep DEF IInv
    <3>4. CASE User \/ InitZero \/ InitMagic \/ Kill \/ KillBeforeTruncate
               \/ UNCHANGED vars
      BY <2>1, <2>3, <3>1, <3>4, UserStep DEF IInv
    <3>5. QED
      BY <3>2, <3>3, <3>4 DEF Next, Step
  <2>4. QED
    BY <2>2, <2>3
<1>3. QED
  BY <1>1, <1>2, PTL DEF Spec

\* The variables of the allocator have their types: in particular
\* free_pages_count never wraps below zero.
THEOREM TypeCorrect == Spec => []TypeOK
<1>1. IInv => TypeOK
  BY DEF IInv
<1>2. QED
  BY <1>1, Invariance, PTL

\* get_page finds a page behind free_pages_next whenever it takes one.
THEOREM PageFound == Spec => []GetFindsPage
<1>1. IInv => GetFindsPage
  BY DEF IInv
<1>2. QED
  BY <1>1, Invariance, PTL

\* The free list on disk is sound between any two stores, for every file, so
\* after every kill that does not hit the CLEAR window.
THEOREM FreeListCorrect == Spec => []FreeListSound
<1>1. IInv => FreeListSound
  <2> SUFFICES ASSUME IInv, ~ Torn
               PROVE  \E n \in 0 .. pages : \E s \in [1 .. n -> 1 .. pages - 1] :
                          count <= n /\ IsFreeList(s, n)
    BY DEF FreeListSound, IInv
  <2> PICK n \in 0 .. pages : \E s \in [1 .. n -> 1 .. pages - 1] : FreeList(s, n)
    BY DEF IInv, Lists
  <2> PICK s \in [1 .. n -> 1 .. pages - 1] : FreeList(s, n)
    OBVIOUS
  <2>1. count <= n /\ IsFreeList(s, n)
    BY SizesAssumption DEF FreeList, IInv, TypeOK
  <2>2. QED
    BY <2>1
<1>2. QED
  BY <1>1, Invariance, PTL

-----------------------------------------------------------------------------
(***************************************************************************)
(* The allocator implements PageStore.                                     *)
(***************************************************************************)

\* No page of the file that does not exist is in use.
LEMMA InitImplements == Init => PS!Init
  BY DEF Init, PS!Init, PS!Page

\* Only InitZero, which clears the file, mends a torn one.
LEMMA HarmStep ==
    ASSUME [Next]_vars, ~ InitZero, harm' # "torn"
    PROVE  harm # "torn"
<1> USE DEF Leave, Idle, Gone, Lose, file, proc
<1>1. CASE LinkNext \/ LinkHead \/ LinkCount \/ TakeMap \/ TakeCount \/ TakeNext
           \/ InitMagic \/ OpenExist \/ Close \/ KillBeforeTruncate
  BY <1>1 DEF LinkNext, LinkHead, LinkCount, TakeMap, TakeCount, TakeNext,
              InitMagic, OpenExist, Close, KillBeforeTruncate
<1>2. CASE LinkUnmap \/ GrowPage
  BY <1>2 DEF LinkUnmap, GrowPage, Abort
<1>3. CASE Kill
  BY <1>3 DEF Kill
<1>4. CASE GetPage \/ \E n \in 1 .. MaxReserve : ReservePages(n)
  BY <1>4 DEF GetPage, ReservePages, Extend
<1>5. CASE \E p \in Page : ReturnPage(p) \/ MapPage(p) \/ UnmapPage(p)
  BY <1>5 DEF ReturnPage, MapPage, UnmapPage
<1>6. CASE \E p \in Page, w \in Words : WritePage(p, w)
  BY <1>6 DEF WritePage
<1>7. CASE OpenTruncate("create") \/ OpenTruncate("clear")
  BY <1>7 DEF OpenTruncate
<1>8. CASE UNCHANGED vars
  BY <1>8 DEF vars
<1>9. QED
  BY <1>1, <1>2, <1>3, <1>4, <1>5, <1>6, <1>7, <1>8 DEF Next, Step, User

\* Each step of the allocator is a step of PageStore or none.
LEMMA StepImplements == IInv /\ [Next]_vars => [PS!Next]_(PS!vars)
<1> SUFFICES ASSUME IInv, [Next]_vars, harm' # "torn" PROVE [PS!Next]_(PS!vars)
  BY DEF PS!Next
<1> USE DEF PS!vars, PS!Page
<1>z. CASE InitZero
  <2>1. pages' > 0 /\ users' = [p \in Page |-> 0]
    BY <1>z, SizesAssumption DEF InitZero, IInv, CallInv, TypeOK
  <2>2. QED
    BY <2>1 DEF PS!Next, PS!Clear
<1> SUFFICES ASSUME ~ InitZero PROVE [PS!Next]_(PS!vars)
  BY <1>z
<1>h. harm # "torn"
  BY HarmStep
<1>0. /\ TypeOK /\ CallInv /\ pages \in Nat
      /\ pc # "zero" => FileInv /\ Lists
  BY <1>h, SizesAssumption DEF IInv, TypeOK, Torn
\* Steps that change neither the length of the file, nor who uses a page,
\* nor a link.
<1>1. CASE UNCHANGED <<pages, users, word>>
  BY <1>h, <1>1
<1>2. CASE LinkNext
  <2>1. users[cur] = 0 /\ word' = [word EXCEPT ![cur] = head]
        /\ UNCHANGED <<pages, users>>
    BY <1>0, <1>2 DEF LinkNext, FileInv, Unlinked, CallInv
  <2>2. PS!Intact /\ pages' >= pages
    BY <1>0, <2>1 DEF TypeOK, PS!Intact
  <2>3. QED
    BY <1>h, <2>1, <2>2 DEF PS!Next, PS!Manage
<1>3. CASE TakeNext
  <2>1. /\ cur \in 1 .. pages - 1 /\ cur = head /\ pc = "advance"
        /\ users' = [users EXCEPT ![cur] = @ + 1] /\ UNCHANGED <<pages, word>>
    BY <1>0, <1>3 DEF TakeNext, FileInv
  <2>2. users[cur] = 0
    <3> PICK n \in 0 .. pages : \E s \in [1 .. n -> 1 .. pages - 1] : FreeList(s, n)
      BY <1>0, <2>1 DEF Lists
    <3> PICK s \in [1 .. n -> 1 .. pages - 1] : FreeList(s, n)
      OBVIOUS
    <3>1. n >= 1 /\ cur = s[1] /\ s[1] \notin InUse
      BY <1>0, <2>1 DEF FreeList, IsFreeList, After, TypeOK
    <3>2. cur \in Page
      BY <1>0, <2>1, SizesAssumption DEF TypeOK
    <3>3. QED
      BY <1>0, <3>1, <3>2 DEF InUse, TypeOK
  <2>3. users' = [users EXCEPT ![cur] = 1]
    BY <1>0, <2>1, <2>2
  <2>4. QED
    BY <1>h, <2>1, <2>2, <2>3 DEF PS!Next, PS!Get
<1>4. ASSUME NEW p \in Page, ReturnPage(p)
      PROVE  [PS!Next]_(PS!vars)
  <2>1. /\ users[p] = 1 /\ users' = [users EXCEPT ![p] = @ - 1]
        /\ UNCHANGED <<pages, word>>
    BY <1>0, <1>4 DEF ReturnPage, FileInv, InUse, file
  <2>2. users' = [users EXCEPT ![p] = 0] /\ PS!Intact
    BY <1>0, <2>1 DEF PS!Intact
  <2>3. QED
    BY <1>h, <2>1, <2>2 DEF PS!Next, PS!Return
<1>5. ASSUME NEW p \in Page, NEW w \in Words, WritePage(p, w)
      PROVE  [PS!Next]_(PS!vars)
  <2>1. users[p] = 1 /\ word' = [word EXCEPT ![p] = w] /\ UNCHANGED <<pages, users>>
    BY <1>0, <1>5 DEF WritePage, FileInv, InUse
  <2>2. \A q \in Page \ {p} : word'[q] = word[q]
    BY <1>0, <2>1 DEF TypeOK
  <2>3. QED
    BY <1>h, <2>1, <2>2 DEF PS!Next, PS!Write
<1>6. ASSUME NEW n \in Nat, NEW c \in {"reserve", "get"}, Extend(n, c)
      PROVE  [PS!Next]_(PS!vars)
  <2>1. pages' >= pages /\ UNCHANGED <<users, word>>
    BY <1>0, <1>6, NewCountNat DEF Extend
  <2>2. QED
    BY <1>h, <2>1 DEF PS!Next, PS!Manage, PS!Intact
<1>7. CASE GetPage \/ \E n \in 1 .. MaxReserve : ReservePages(n)
  BY <1>1, <1>6, <1>7 DEF GetPage, ReservePages, file
<1>8. CASE OpenTruncate("create") \/ OpenTruncate("clear")
  <2>1. pages' = BlockPages /\ users' = [p \in Page |-> 0]
    BY <1>8 DEF OpenTruncate
  <2>2. QED
    BY <2>1, SizesAssumption DEF PS!Next, PS!Clear
<1>9. CASE \/ LinkHead \/ LinkUnmap \/ LinkCount \/ GrowPage \/ TakeMap
           \/ TakeCount \/ InitMagic \/ OpenExist \/ Close
           \/ Kill \/ KillBeforeTruncate \/ UNCHANGED vars
           \/ \E p \in Page : MapPage(p) \/ UnmapPage(p)
  <2>1. UNCHANGED <<pages, users, word>>
    BY <1>9 DEF LinkHead, LinkUnmap, LinkCount, GrowPage, TakeMap, TakeCount,
                InitMagic, OpenExist, Close, Kill, KillBeforeTruncate, Abort, Gone,
                MapPage, UnmapPage, vars, file
  <2>2. QED
    BY <1>1, <2>1
<1>10. QED
  BY <1>2, <1>3, <1>4, <1>5, <1>7, <1>8, <1>9 DEF Next, Step, User

\* The allocator implements PageStore, with every kill and every system call
\* that fails: no page has two users and nobody but its user writes a page,
\* until a kill tears a file that is being cleared.
THEOREM Implementation == Spec => HandsOutPagesOnce
<1>1. Init => PS!Init
  BY InitImplements
<1>2. IInv /\ [Next]_vars => [PS!Next]_(PS!vars)
  BY StepImplements
<1>3. QED
  BY <1>1, <1>2, Invariance, PTL DEF Spec, HandsOutPagesOnce, PS!Spec

-----------------------------------------------------------------------------
(***************************************************************************)
(* No page is lost without a fault.                                        *)
(***************************************************************************)

\* Pages that are on their way: the new ones the loop has not counted yet, the one
\* return_page puts on the list, the one get_page has taken off the count.
OnTheirWay ==
    IF Growing \/ pc = "magic" THEN pages - todo
    ELSE IF pc \in Linking \cup {"advance"} THEN 1 ELSE 0

\* As long as nothing failed, and from the zeroing of the header on, the count is right.
Accounted ==
    harm = "none" /\ pc # "zero" /\ (pc = "down" => disk = "valid")
       => count + Cardinality(InUse) + 1 + OnTheirWay = pages

\* How a change of hands changes the number of pages in use.
LEMMA InUseOf ==
    ASSUME TypeOK
    PROVE  /\ Cardinality(InUse) \in Nat
           /\ users' = users => InUse' = InUse
           /\ \A p \in Page :
                 /\ users[p] = 1 /\ users' = [users EXCEPT ![p] = @ - 1]
                       => Cardinality(InUse') = Cardinality(InUse) - 1
                 /\ users[p] = 0 /\ users' = [users EXCEPT ![p] = @ + 1]
                       => Cardinality(InUse') = Cardinality(InUse) + 1
<1>1. IsFiniteSet(InUse)
  <2>1. IsFiniteSet(Page)
    BY SizesAssumption, FS_Interval
  <2>2. InUse \in SUBSET Page
    BY DEF InUse
  <2>3. QED
    BY <2>1, <2>2, FS_Subset
<1>2. ASSUME NEW p \in Page, users[p] = 1, users' = [users EXCEPT ![p] = @ - 1]
      PROVE  Cardinality(InUse') = Cardinality(InUse) - 1
  <2>1. InUse' = InUse \ {p} /\ p \in InUse
    BY <1>2 DEF TypeOK, InUse
  <2>2. QED
    BY <1>1, <2>1, FS_RemoveElement
<1>3. ASSUME NEW p \in Page, users[p] = 0, users' = [users EXCEPT ![p] = @ + 1]
      PROVE  Cardinality(InUse') = Cardinality(InUse) + 1
  <2>1. InUse' = InUse \cup {p} /\ p \notin InUse
    BY <1>3 DEF TypeOK, InUse
  <2>2. QED
    BY <1>1, <2>1, FS_AddElement
<1>4. Cardinality(InUse) \in Nat
  BY <1>1, FS_CardinalityType
<1>5. users' = users => InUse' = InUse
  BY DEF InUse
<1>6. QED
  BY <1>2, <1>3, <1>4, <1>5

\* The page get_page takes is in nobody's hands.
LEMMA TakesFree ==
    ASSUME TypeOK, CallInv, ~ Torn, FileInv, Lists, TakeNext
    PROVE  cur \in Page /\ users[cur] = 0
<1> PICK n \in 0 .. pages : \E s \in [1 .. n -> 1 .. pages - 1] : FreeList(s, n)
  BY DEF Lists
<1> PICK s \in [1 .. n -> 1 .. pages - 1] : FreeList(s, n)
  OBVIOUS
<1>1. pc = "advance" /\ cur = head /\ cur \in 1 .. pages - 1 /\ pages \in 0 .. MaxPages
  BY DEF TakeNext, FileInv, TypeOK
<1>2. n >= 1 /\ head = s[1] /\ s[1] \notin InUse
  BY <1>1, SizesAssumption DEF TypeOK, FreeList, IsFreeList, After
<1>3. cur \in Page
  BY <1>1, SizesAssumption
<1>4. QED
  BY <1>1, <1>2, <1>3 DEF TypeOK, InUse

\* Every step that takes a page from one place puts it into another.
LEMMA AccountStep ==
    IInv /\ IInv' /\ Accounted /\ [Next]_vars => Accounted'
<1> SUFFICES ASSUME IInv, IInv', Accounted, [Next]_vars,
                    harm' = "none", pc' # "zero", pc' = "down" => disk' = "valid"
             PROVE  count' + Cardinality(InUse') + 1 + OnTheirWay' = pages'
  BY DEF Accounted
<1> DEFINE u == Cardinality(InUse)
<1>0. TypeOK /\ CallInv /\ u \in Nat /\ pages \in Nat /\ count \in Nat /\ todo \in Nat
      /\ (users' = users => InUse' = InUse)
  <2>1. TypeOK /\ CallInv
    BY DEF IInv
  <2>2. pages \in Nat /\ count \in Nat /\ todo \in Nat
    BY <2>1, SizesAssumption DEF TypeOK
  <2>3. u \in Nat /\ (users' = users => InUse' = InUse)
    BY <2>1, InUseOf
  <2>4. QED
    BY <2>1, <2>2, <2>3
<1>1. CASE InitZero
  <2>1. InUse' = {} /\ count' = 0 /\ pages' = pages /\ pc' = "magic" /\ todo' = 1 /\ pages >= 1
    BY <1>0, <1>1 DEF InitZero, CallInv, InUse
  <2>2. QED
    BY <1>0, <2>1, FS_EmptySet DEF OnTheirWay, Growing, Linking
<1>2. CASE ~ InitZero /\ harm = "none"
  <2>1. CASE OpenTruncate("create") \/ OpenTruncate("clear")
    BY <2>1 DEF OpenTruncate
  <2>2. CASE KillBeforeTruncate \/ Kill
    BY <1>2, <2>2, <1>0 DEF KillBeforeTruncate, Kill, Lose, proc, CallInv
  <2>3. CASE OpenExist \/ Close
    BY <1>0, <1>2, <2>3
       DEF Accounted, OpenExist, Close, Gone, Leave, OnTheirWay, Growing, Linking, file, CallInv
  <2>4. CASE \E n \in 1 .. MaxReserve : ReservePages(n)
    <3>1. PICK n \in 1 .. MaxReserve : ReservePages(n)
      BY <2>4
    <3>2. /\ pc = "idle" /\ count' = count /\ users' = users /\ todo' = pages /\ pc' = "grow"
          /\ call' = "reserve" /\ pages' \in Nat
      BY <1>0, <3>1, SizesAssumption DEF ReservePages, Extend, IInv, TypeOK
    <3>3. QED
      BY <1>0, <1>2, <3>2 DEF Accounted, OnTheirWay, Growing, Linking
  <2>5. CASE GetPage
    <3>1. CASE Extend(1, "get") /\ pc = "idle"
      <4>1. /\ pc = "idle" /\ count' = count /\ users' = users /\ todo' = pages /\ pc' = "grow"
            /\ call' = "get" /\ pages' \in Nat
        BY <1>0, <3>1, SizesAssumption DEF Extend, IInv, TypeOK
      <4>2. QED
        BY <1>0, <1>2, <4>1 DEF Accounted, OnTheirWay, Growing, Linking
    <3>2. CASE pc = "idle" /\ pc' = "take" /\ UNCHANGED <<file, users>>
      BY <1>0, <1>2, <3>2 DEF Accounted, OnTheirWay, Growing, Linking, file
    <3>3. QED
      BY <2>5, <3>1, <3>2 DEF GetPage
  <2>6. CASE \E p \in Page : ReturnPage(p)
    <3>1. PICK p \in Page : ReturnPage(p)
      BY <2>6
    <3>2. FileInv
      BY <1>2, <3>1 DEF IInv, Torn, ReturnPage
    <3>3. /\ pc = "idle" /\ users[p] = 1 /\ users' = [users EXCEPT ![p] = @ - 1]
          /\ count' = count /\ pages' = pages /\ pc' = "link" /\ call' = "return"
      BY <1>2, <3>1, <3>2 DEF ReturnPage, FileInv, InUse, Lose, file
    <3>4. Cardinality(InUse') = u - 1
      BY <1>0, <3>3, InUseOf
    <3>5. QED
      BY <1>0, <1>2, <3>3, <3>4 DEF Accounted, OnTheirWay, Growing, Linking
  <2>7. CASE \/ \E p \in Page : MapPage(p) \/ UnmapPage(p)
             \/ \E p \in Page, w \in Words : WritePage(p, w)
    BY <1>0, <1>2, <2>7 DEF MapPage, UnmapPage, WritePage, Accounted, OnTheirWay, Growing, Linking,
                            file, proc
  <2>8. CASE InitMagic
    BY <1>0, <1>2, <2>8 DEF InitMagic, Accounted, OnTheirWay, Growing, Linking, CallInv
  <2>9. CASE LinkNext \/ LinkHead
    BY <1>0, <1>2, <2>9 DEF LinkNext, LinkHead, Accounted, OnTheirWay, Growing, Linking
  <2>10. CASE LinkUnmap
    BY <1>0, <1>2, <2>10 DEF LinkUnmap, Abort, Lose, Accounted, OnTheirWay, Growing, Linking, file
  <2>11. CASE LinkCount
    BY <1>0, <1>2, <2>11 DEF LinkCount, Idle, Leave, Accounted, OnTheirWay, Growing, Linking, CallInv
  <2>12. CASE GrowPage
    BY <1>0, <1>2, <2>12 DEF GrowPage, Abort, Lose, Idle, Leave, Accounted, OnTheirWay, Growing, Linking,
                             CallInv, file
  <2>13. CASE TakeMap \/ TakeCount
    BY <1>0, <1>2, <2>13 DEF TakeMap, TakeCount, Lose, Idle, Leave, Accounted, OnTheirWay, Growing, Linking, file
  <2>14. CASE TakeNext
    <3>1. ~ Torn
      BY <1>2, <2>14 DEF Torn, TakeNext
    <3>2. cur \in Page /\ users[cur] = 0
      BY <2>14, <3>1, TakesFree DEF IInv
    <3>3. Cardinality(InUse') = u + 1
      BY <1>0, <2>14, <3>2, InUseOf DEF TakeNext
    <3>4. /\ pc = "advance" /\ pc' = "idle" /\ count' = count /\ pages' = pages
          /\ call = "get"
      BY <1>0, <2>14 DEF TakeNext, Idle, Leave, CallInv
    <3>5. QED
      BY <1>0, <1>2, <3>3, <3>4 DEF Accounted, OnTheirWay, Growing, Linking
  <2>15. CASE UNCHANGED vars
    BY <1>0, <1>2, <2>15 DEF vars, Accounted, OnTheirWay, Growing, Linking
  <2>16. QED
    BY <1>2, <2>1, <2>2, <2>3, <2>4, <2>5, <2>6, <2>7, <2>8, <2>9, <2>10, <2>11, <2>12, <2>13,
       <2>14, <2>15 DEF Next, User, Step
<1>3. CASE ~ InitZero /\ harm # "none"
  BY <1>3, <1>0 DEF Next, User, Step, Lose, vars, KillBeforeTruncate, Kill, OpenTruncate, OpenExist, Close,
     ReservePages, Extend, GetPage, ReturnPage, MapPage, UnmapPage, WritePage, InitMagic,
     LinkNext, LinkHead, LinkUnmap, LinkCount, GrowPage, TakeMap, TakeCount, TakeNext, Abort
<1>4. QED
  BY <1>1, <1>2, <1>3

\* Without kills and failures every page of the file is the header, in use or counted.
THEOREM NoneLost == Spec => []NoPageLost
<1>1. Init => Accounted
  BY DEF Init, Accounted
<1>2. Spec => []Accounted
  BY <1>1, Invariance, AccountStep, PTL DEF Spec
<1>3. IInv /\ Accounted => NoPageLost
  <2> SUFFICES ASSUME IInv, Accounted, pc = "idle", harm = "none"
               PROVE  count + Cardinality(InUse) + 1 = pages
    BY DEF NoPageLost
  <2>1. OnTheirWay = 0
    BY DEF OnTheirWay, Growing, Linking
  <2>2. count \in Nat /\ Cardinality(InUse) \in Nat
    BY InUseOf DEF IInv, TypeOK
  <2>3. QED
    BY <2>1, <2>2 DEF Accounted
<1>4. QED
  BY <1>2, <1>3, Invariance, PTL

-----------------------------------------------------------------------------
(***************************************************************************)
(* The use counts of the blocks.  UseCountsExact sums with a fold, which   *)
(* is a recursive function; the proofs count handles instead.              *)
(***************************************************************************)

\* The handles on the pages of a set, f[p] of them on page p.
Handles(f, S) == {q \in S \X (Nat \ {0}) : q[2] <= f[q[1]]}
Total(f, S) == MapThenSumSet(LAMBDA p : f[p], S)

\* A set of natural numbers has a least one.
LEMMA LeastNat ==
    ASSUME NEW T, T \subseteq Nat, T # {}
    PROVE  \E x \in T : \A y \in T : x <= y
<1> DEFINE R == {p \in Nat \X Nat : p[1] < p[2]}
<1>1. OpToRel(<, Nat) = R
  BY Zenon DEF OpToRel
<1>2. IsWellFoundedOn(R, Nat)
  BY <1>1, NatLessThanWellFounded, Zenon
<1> HIDE DEF R
<1>3. \E x \in T : \A y \in T : ~ (<<y, x>> \in R)
  BY <1>2, WFMin
<1>4. \A x, y \in Nat : <<y, x>> \in R \/ x <= y
  BY DEF R
<1>5. QED
  BY <1>3, <1>4

\* The fold of MapThenSumSet, as a function that satisfies its own equation.
SumStep(f, S, g) ==
    [s \in SUBSET S |-> IF s = {} THEN 0
                        ELSE LET x == CHOOSE x \in s : TRUE IN f[x] + g[s \ {x}]]

LEMMA TotalUnfolds ==
    ASSUME NEW f, NEW S, NEW g, g = SumStep(f, S, g)
    PROVE  \E h : h = SumStep(f, S, h) /\ Total(f, S) = h[S]
  BY DEF Total, MapThenSumSet, MapThenFoldSet, SumStep

\* Finitely many natural numbers have a bound.
LEMMA Bounded ==
    ASSUME NEW S, IsFiniteSet(S), NEW f, \A p \in S : f[p] \in Nat
    PROVE  \E m \in Nat : \A p \in S : f[p] <= m
<1> DEFINE Bound(A) == \E m \in Nat : \A p \in A : f[p] <= m
           Wrong == {A \in SUBSET S : ~ Bound(A)}
           T == {n \in Nat : \E A \in Wrong : n = Cardinality(A)}
<1> SUFFICES ASSUME Wrong # {} PROVE FALSE
  OBVIOUS
<1>1. \A A \in SUBSET S : IsFiniteSet(A) /\ Cardinality(A) \in Nat
  BY FS_Subset, FS_CardinalityType
<1>2. T \subseteq Nat /\ T # {}
  BY <1>1
<1>3. PICK n \in T : \A m \in T : n <= m
  BY <1>2, LeastNat
<1>4. PICK A \in Wrong : n = Cardinality(A)
  BY <1>3
<1>5. PICK x : x \in A
  BY <1>4
<1>6. Cardinality(A \ {x}) = n - 1 /\ A \ {x} \in SUBSET S /\ n \in Nat
  BY <1>1, <1>4, <1>5, FS_RemoveElement
<1>7. n - 1 \notin T
  BY <1>3, <1>6
<1>8. PICK m \in Nat : \A p \in A \ {x} : f[p] <= m
  BY <1>1, <1>6, <1>7
<1>9. f[x] \in Nat /\ m + f[x] \in Nat /\ \A p \in A : f[p] <= m + f[x]
  <2>1. f[x] \in Nat
    BY <1>4, <1>5
  <2>2. ASSUME NEW p \in A PROVE f[p] <= m + f[x]
    <3>1. f[p] \in Nat
      BY <1>4
    <3>2. p = x \/ f[p] <= m
      BY <1>8
    <3>3. QED
      BY <2>1, <3>1, <3>2
  <2>3. QED
    BY <2>1, <2>2
<1>10. QED
  BY <1>4, <1>9

\* The handles on a finite set are finite, and those on one page are as many as it has.
LEMMA HandlesOf ==
    ASSUME NEW S, IsFiniteSet(S), NEW f, \A p \in S : f[p] \in Nat
    PROVE  /\ \A A \in SUBSET S : IsFiniteSet(Handles(f, A)) /\ Cardinality(Handles(f, A)) \in Nat
           /\ Cardinality(Handles(f, {})) = 0
           /\ \A A \in SUBSET S : \A p \in A :
                 Cardinality(Handles(f, A)) = f[p] + Cardinality(Handles(f, A \ {p}))
<1>1. PICK m \in Nat : \A p \in S : f[p] <= m
  BY Bounded
<1>2. ASSUME NEW A \in SUBSET S
      PROVE  IsFiniteSet(Handles(f, A)) /\ Cardinality(Handles(f, A)) \in Nat
  <2>1. IsFiniteSet(A)
    BY FS_Subset
  <2>2. IsFiniteSet(A \X (1 .. m))
    <3>1. IsFiniteSet(1 .. m)
      BY FS_Interval
    <3>2. QED
      BY <2>1, <3>1, FS_Product
  <2>3. Handles(f, A) \in SUBSET (A \X (1 .. m))
    <3>1. ASSUME NEW q \in A, NEW i \in Nat \ {0}, i <= f[q] PROVE i \in 1 .. m
      <4>1. f[q] \in Nat /\ f[q] <= m
        BY <1>1
      <4>2. QED
        BY <3>1, <4>1
    <3>2. QED
      BY <3>1 DEF Handles
  <2>4. IsFiniteSet(Handles(f, A))
    BY <2>2, <2>3, FS_Subset
  <2>5. QED
    BY <2>4, FS_CardinalityType
<1>3. Cardinality(Handles(f, {})) = 0
  BY FS_EmptySet DEF Handles
<1>4. ASSUME NEW A \in SUBSET S, NEW p \in A
      PROVE  Cardinality(Handles(f, A)) = f[p] + Cardinality(Handles(f, A \ {p}))
  <2> DEFINE one == {p} \X (1 .. f[p])
             rest == Handles(f, A \ {p})
  <2>1. f[p] \in Nat
    OBVIOUS
  <2>2. IsFiniteSet({p}) /\ Cardinality({p}) = 1
    BY FS_Singleton
  <2>3. IsFiniteSet(1 .. f[p]) /\ Cardinality(1 .. f[p]) = f[p]
    <3>1. \A k \in Nat : IsFiniteSet(1 .. k) /\ Cardinality(1 .. k) = IF 1 > k THEN 0 ELSE k - 1 + 1
      BY FS_Interval
    <3>2. \A k \in Nat : (IF 1 > k THEN 0 ELSE k - 1 + 1) = k
      OBVIOUS
    <3>3. f[p] \in Nat
      BY <2>1
    <3>4. QED
      BY <3>1, <3>2, <3>3
  <2>4. IsFiniteSet(one) /\ Cardinality(one) = f[p]
    <3>1. IsFiniteSet(one) /\ Cardinality(one) = Cardinality({p}) * Cardinality(1 .. f[p])
      BY <2>2, <2>3, FS_Product
    <3>2. \A k \in Nat : 1 * k = k
      OBVIOUS
    <3>3. f[p] \in Nat
      BY <2>1
    <3>4. QED
      BY <2>2, <2>3, <3>1, <3>2, <3>3
  <2>5. Handles(f, A) = one \cup rest
    BY <2>1 DEF Handles
  <2>6. one \cap rest = {}
    BY DEF Handles
  <2>7. A \ {p} \in SUBSET S
    OBVIOUS
  <2>8. IsFiniteSet(rest) /\ Cardinality(rest) \in Nat
    BY <1>2, <2>7
  <2> HIDE DEF one, rest
  <2>9. Cardinality(one \cup rest) = Cardinality(one) + Cardinality(rest) - Cardinality(one \cap rest)
    BY <2>4, <2>8, FS_Union
  <2>10. Cardinality(one \cap rest) = 0
    BY <2>6, FS_EmptySet
  <2>11. Cardinality(Handles(f, A)) = f[p] + Cardinality(rest)
    BY <2>1, <2>4, <2>5, <2>8, <2>9, <2>10
  <2>12. QED
    BY <2>11 DEF rest
<1>5. QED
  BY <1>2, <1>3, <1>4

\* The sum is the number of handles.
LEMMA TotalCounts ==
    ASSUME NEW S, IsFiniteSet(S), NEW f, \A p \in S : f[p] \in Nat
    PROVE  Total(f, S) = Cardinality(Handles(f, S))
<1> DEFINE c == [A \in SUBSET S |-> Cardinality(Handles(f, A))]
<1>1. /\ \A A \in SUBSET S : c[A] \in Nat
      /\ c[{}] = 0
      /\ \A A \in SUBSET S : \A p \in A : c[A] = f[p] + c[A \ {p}]
  <2>1. \A A \in SUBSET S : \A p \in A : A \ {p} \in SUBSET S
    OBVIOUS
  <2>2. {} \in SUBSET S
    OBVIOUS
  <2>3. QED
    BY <2>1, <2>2, HandlesOf
<1>2. c = SumStep(f, S, c)
  <2>1. c = [A \in SUBSET S |-> c[A]]
    OBVIOUS
  <2> HIDE DEF c
  <2>2. \A A \in SUBSET S :
           c[A] = IF A = {} THEN 0 ELSE LET x == CHOOSE x \in A : TRUE IN f[x] + c[A \ {x}]
    <3> SUFFICES ASSUME NEW A \in SUBSET S, A # {}
                 PROVE  LET x == CHOOSE x \in A : TRUE IN c[A] = f[x] + c[A \ {x}]
      BY <1>1
    <3>1. (CHOOSE x \in A : TRUE) \in A
      OBVIOUS
    <3>2. QED
      BY <1>1, <3>1
  <2>3. QED
    BY <2>1, <2>2 DEF SumStep
<1> HIDE DEF c
<1>3. PICK h : h = SumStep(f, S, h) /\ Total(f, S) = h[S]
  BY <1>2, TotalUnfolds
<1>4. \A A \in SUBSET S : h[A] = c[A]
  <2> DEFINE Wrong == {A \in SUBSET S : h[A] # c[A]}
             T == {n \in Nat : \E A \in Wrong : n = Cardinality(A)}
  <2> SUFFICES ASSUME Wrong # {} PROVE FALSE
    OBVIOUS
  <2>1. \A A \in SUBSET S : IsFiniteSet(A) /\ Cardinality(A) \in Nat
    BY FS_Subset, FS_CardinalityType
  <2>2. T \subseteq Nat /\ T # {}
    BY <2>1
  <2>3. PICK n \in T : \A m \in T : n <= m
    BY <2>2, LeastNat
  <2>4. PICK A \in Wrong : n = Cardinality(A)
    BY <2>3
  <2>5. h[A] = IF A = {} THEN 0 ELSE LET x == CHOOSE x \in A : TRUE IN f[x] + h[A \ {x}]
    BY <1>3 DEF SumStep
  <2>6. A # {}
    BY <1>1, <2>5
  <2>7. PICK x \in A : h[A] = f[x] + h[A \ {x}]
    BY <2>5, <2>6
  <2>8. Cardinality(A \ {x}) = n - 1 /\ A \ {x} \in SUBSET S /\ n \in Nat
    BY <2>1, <2>4, FS_RemoveElement
  <2>9. n - 1 \notin T
    BY <2>3, <2>8
  <2>10. h[A \ {x}] = c[A \ {x}]
    BY <2>1, <2>8, <2>9
  <2>11. QED
    BY <1>1, <2>7, <2>10
<1>5. QED
  BY <1>3, <1>4 DEF c

\* One more handle on a page.
Grown(f, g, p) ==
    \A S \in SUBSET Page :
       /\ p \in S => Cardinality(Handles(g, S)) = Cardinality(Handles(f, S)) + 1
       /\ p \notin S => Cardinality(Handles(g, S)) = Cardinality(Handles(f, S))

LEMMA HandlesGrow ==
    ASSUME NEW f \in [Page -> Nat], NEW g \in [Page -> Nat], NEW p \in Page,
           g[p] = f[p] + 1, \A q \in Page : q # p => g[q] = f[q]
    PROVE  Grown(f, g, p)
<1> SUFFICES ASSUME NEW S \in SUBSET Page
             PROVE  /\ p \in S => Cardinality(Handles(g, S)) = Cardinality(Handles(f, S)) + 1
                    /\ p \notin S => Cardinality(Handles(g, S)) = Cardinality(Handles(f, S))
  BY DEF Grown
<1>1. IsFiniteSet(S)
  <2>1. IsFiniteSet(Page)
    BY SizesAssumption, FS_Interval
  <2>2. QED
    BY <2>1, SizesAssumption, FS_Subset
<1>2. \A q \in S : f[q] \in Nat
  OBVIOUS
<1>3. IsFiniteSet(Handles(f, S)) /\ Cardinality(Handles(f, S)) \in Nat
  BY <1>1, <1>2, HandlesOf
<1>4. CASE p \in S
  <2>1. Handles(g, S) = Handles(f, S) \cup {<<p, f[p] + 1>>}
    <3>1. f[p] \in Nat /\ g[p] = f[p] + 1 /\ f[p] + 1 \in Nat \ {0}
      OBVIOUS
    <3>2. ASSUME NEW q \in S, NEW i \in Nat \ {0}
          PROVE  i <= g[q] <=> i <= f[q] \/ <<q, i>> = <<p, f[p] + 1>>
      <4>1. CASE q = p
        BY <3>1, <4>1
      <4>2. CASE q # p
        BY <4>2
      <4>3. QED
        BY <4>1, <4>2
    <3>3. <<p, f[p] + 1>> \in S \X (Nat \ {0})
      BY <1>4, <3>1
    <3>4. ASSUME NEW h \in S \X (Nat \ {0})
          PROVE  h \in Handles(g, S) <=> h \in Handles(f, S) \/ h = <<p, f[p] + 1>>
      <4>1. h[1] \in S /\ h[2] \in Nat \ {0} /\ h = <<h[1], h[2]>>
        OBVIOUS
      <4>2. h[2] <= g[h[1]] <=> h[2] <= f[h[1]] \/ h = <<p, f[p] + 1>>
        BY <3>2, <4>1
      <4>3. QED
        BY <4>2 DEF Handles
    <3>5. Handles(g, S) \subseteq S \X (Nat \ {0}) /\ Handles(f, S) \subseteq S \X (Nat \ {0})
      BY DEF Handles
    <3>6. QED
      BY <3>3, <3>4, <3>5
  <2>2. <<p, f[p] + 1>> \notin Handles(f, S)
    <3>1. ~ f[p] + 1 <= f[p]
      OBVIOUS
    <3>2. QED
      BY <3>1 DEF Handles
  <2>3. Cardinality(Handles(f, S) \cup {<<p, f[p] + 1>>}) = Cardinality(Handles(f, S)) + 1
    BY <1>3, <2>2, FS_AddElement
  <2>4. QED
    BY <1>4, <2>1, <2>3
<1>5. CASE p \notin S
  <2>1. Handles(g, S) = Handles(f, S)
    BY <1>5 DEF Handles
  <2>2. QED
    BY <1>3, <1>5, <2>1
<1>6. QED
  BY <1>4, <1>5

\* The block list counts the handles; a process that is no more has none.
PagesOf(b) == {p \in Page : BlockOf(p) = b}
Used(b) == Cardinality(Handles(held, PagesOf(b)))
One(b) == IF b = 0 THEN 1 ELSE 0
InBlock(b, p) == IF BlockOf(p) = b THEN 1 ELSE 0
Uses ==
    /\ \A b \in Block :
          refs[b] = IF pc = "down" THEN 0 ELSE Used(b) + InFlight(b) + One(b)
    /\ pc = "down" => \A p \in Page : held[p] = 0

\* What mapping, unmapping and handles do to the numbers of one block.
LEMMA UsesOf ==
    ASSUME TypeOK, NEW b \in Block
    PROVE  /\ Used(b) \in Nat /\ refs[b] \in Int /\ One(b) \in Int /\ InFlight(b) \in Int
           /\ \A p : /\ Mapped(p)[b] = refs[b] + InBlock(b, p)
                     /\ Unmapped(p)[b] = refs[b] - InBlock(b, p)
                     /\ InBlock(b, p) \in Int
           /\ (\A p \in Page : held[p] = 0) => Used(b) = 0
           /\ \A g : (\A p \in Page : g[p] = 0) => Cardinality(Handles(g, PagesOf(b))) = 0
<1>1. PagesOf(b) \in SUBSET Page /\ IsFiniteSet(PagesOf(b))
  <2>1. IsFiniteSet(Page)
    BY SizesAssumption, FS_Interval
  <2>2. PagesOf(b) \in SUBSET Page
    BY DEF PagesOf
  <2>3. QED
    BY <2>1, <2>2, FS_Subset
<1>2. Used(b) \in Nat
  <2>1. \A p \in PagesOf(b) : held[p] \in Nat
    BY DEF TypeOK, PagesOf
  <2>2. QED
    BY <1>1, <2>1, HandlesOf DEF Used
<1>3. refs \in [Block -> Int] /\ refs[b] \in Int /\ One(b) \in Int /\ InFlight(b) \in Int
  BY DEF TypeOK, One, InFlight
<1>4. ASSUME NEW p
      PROVE  /\ Mapped(p)[b] = refs[b] + InBlock(b, p) /\ Unmapped(p)[b] = refs[b] - InBlock(b, p)
             /\ InBlock(b, p) \in Int
  <2>1. CASE BlockOf(p) = b
    BY <1>3, <2>1 DEF Mapped, Unmapped, InBlock
  <2>2. CASE BlockOf(p) # b
    BY <1>3, <2>2 DEF Mapped, Unmapped, InBlock
  <2>3. QED
    BY <2>1, <2>2
<1>5. ASSUME NEW g, \A p \in Page : g[p] = 0 PROVE Cardinality(Handles(g, PagesOf(b))) = 0
  <2>1. Handles(g, PagesOf(b)) = {}
    BY <1>1, <1>5, SizesAssumption DEF Handles
  <2>2. QED
    BY <2>1, FS_EmptySet
<1>6. (\A p \in Page : held[p] = 0) => Used(b) = 0
  BY <1>5 DEF Used
<1>7. QED
  BY <1>2, <1>3, <1>4, <1>5, <1>6

\* Each step maps as often as it takes a handle or begins a call that has one.
LEMMA UsesStep ==
    TypeOK /\ TypeOK' /\ CallInv /\ Uses /\ [Next]_vars => Uses'
<1> SUFFICES ASSUME TypeOK, TypeOK', CallInv, Uses, [Next]_vars PROVE Uses'
  OBVIOUS
<1> DEFINE flight == {"link", "head", "unmap", "dec", "advance"}
<1>1. ASSUME Gone PROVE Uses'
  <2>1. pc' = "down" /\ refs' = [b \in Block |-> 0] /\ held' = [p \in Page |-> 0]
    BY <1>1 DEF Gone, Leave
  <2>2. QED
    BY <2>1 DEF Uses
<1>2. ASSUME NEW r \in [Block -> Int], pc \notin {"down"}, pc' \notin flight \cup {"down"},
             refs' = r, held' = held,
             \A b \in Block : r[b] = refs[b] - InFlight(b)
      PROVE  Uses'
  <2> SUFFICES ASSUME NEW b \in Block PROVE refs'[b] = Used(b)' + InFlight(b)' + One(b)'
    BY <1>2 DEF Uses
  <2>1. refs[b] = Used(b) + InFlight(b) + One(b)
    BY <1>2 DEF Uses
  <2>2. Used(b)' = Used(b) /\ InFlight(b)' = 0 /\ One(b)' = One(b)
    BY <1>2 DEF Used, InFlight, One
  <2>3. Used(b) \in Nat /\ refs[b] \in Int /\ One(b) \in Int /\ InFlight(b) \in Int
    BY UsesOf
  <2>4. QED
    BY <1>2, <2>1, <2>2, <2>3
\* Nothing is mapped, and the call in progress is where it was or has no handle.
<1>3. ASSUME pc # "down", pc' # "down", refs' = refs, held' = held,
             \/ pc \notin flight /\ pc' \notin flight
             \/ pc \in flight /\ pc' \in flight /\ cur' = cur
      PROVE  Uses'
  <2> SUFFICES ASSUME NEW b \in Block PROVE refs'[b] = Used(b)' + InFlight(b)' + One(b)'
    BY <1>3 DEF Uses
  <2>1. Used(b)' = Used(b) /\ InFlight(b)' = InFlight(b) /\ One(b)' = One(b)
    BY <1>3 DEF Used, InFlight, One
  <2>2. QED
    BY <1>3, <2>1 DEF Uses
\* A call maps a page.
<1>4. ASSUME NEW p, pc \notin flight \cup {"down"}, pc' \in flight, cur' = p,
             refs' = Mapped(p), held' = held
      PROVE  Uses'
  <2> SUFFICES ASSUME NEW b \in Block PROVE refs'[b] = Used(b)' + InFlight(b)' + One(b)'
    BY <1>4 DEF Uses
  <2>1. refs[b] = Used(b) + 0 + One(b)
    BY <1>4 DEF Uses, InFlight
  <2>2. Used(b)' = Used(b) /\ InFlight(b)' = InBlock(b, p) /\ One(b)' = One(b)
    BY <1>4 DEF Used, InFlight, One, InBlock
  <2>3. Used(b) \in Nat /\ refs[b] \in Int /\ One(b) \in Int /\ InBlock(b, p) \in Int
    BY UsesOf
  <2>4. refs'[b] = refs[b] + InBlock(b, p)
    BY <1>4, UsesOf
  <2>5. QED
    BY <2>1, <2>2, <2>3, <2>4
\* A user takes or gives back a handle, or the call in progress hands one over.
<1>5. ASSUME NEW p \in Page, held' = [held EXCEPT ![p] = @ + 1],
             pc # "down", pc' \notin flight \cup {"down"},
             \A b \in Block : refs'[b] = refs[b] + InBlock(b, p) - InFlight(b)
      PROVE  Uses'
  <2> SUFFICES ASSUME NEW b \in Block PROVE refs'[b] = Used(b)' + InFlight(b)' + One(b)'
    BY <1>5 DEF Uses
  <2>1. refs[b] = Used(b) + InFlight(b) + One(b)
    BY <1>5 DEF Uses
  <2>2. InFlight(b)' = 0 /\ One(b)' = One(b)
    BY <1>5 DEF InFlight, One
  <2>3. Used(b)' = Used(b) + InBlock(b, p)
    <3>1. PagesOf(b) \in SUBSET Page /\ PagesOf(b)' = PagesOf(b) /\ (p \in PagesOf(b) <=> BlockOf(p) = b)
      BY DEF PagesOf
    <3>2. held \in [Page -> Nat]
      BY DEF TypeOK
    <3>3. /\ p \in PagesOf(b) => Used(b)' = Used(b) + 1
          /\ p \notin PagesOf(b) => Used(b)' = Used(b)
      <4>1. /\ held'[p] = held[p] + 1 /\ \A q \in Page : q # p => held'[q] = held[q]
            /\ held' \in [Page -> Nat]
        BY <1>5, <3>2 DEF TypeOK
      <4>2. Grown(held, held', p)
        BY <3>2, <4>1, HandlesGrow
      <4>3. QED
        BY <3>1, <4>2, Zenon DEF Used, Grown
    <3>4. Used(b) \in Nat
      BY UsesOf
    <3>5. QED
      BY <3>1, <3>3, <3>4 DEF InBlock
  <2>4. Used(b) \in Nat /\ refs[b] \in Int /\ One(b) \in Int /\ InBlock(b, p) \in Int
        /\ InFlight(b) \in Int
    BY UsesOf
  <2>5. refs'[b] = refs[b] + InBlock(b, p) - InFlight(b)
    BY <1>5
  <2>6. QED
    BY <2>1, <2>2, <2>3, <2>4, <2>5
<1>6. ASSUME NEW p \in Page, UnmapPage(p) PROVE Uses'
  <2> SUFFICES ASSUME NEW b \in Block PROVE refs'[b] = Used(b)' + InFlight(b)' + One(b)'
    BY <1>6 DEF Uses, UnmapPage
  <2>1. refs[b] = Used(b) + 0 + One(b)
    BY <1>6 DEF Uses, UnmapPage, InFlight
  <2>2. InFlight(b)' = 0 /\ One(b)' = One(b)
    BY <1>6 DEF UnmapPage, InFlight, One
  <2>6. Used(b)' \in Int
    <3>1. PagesOf(b)' = PagesOf(b) /\ PagesOf(b) \in SUBSET Page /\ IsFiniteSet(Page)
      BY SizesAssumption, FS_Interval DEF PagesOf
    <3>2. \A q \in Page : held'[q] \in Nat
      BY DEF TypeOK
    <3>3. Cardinality(Handles(held', PagesOf(b))) \in Nat
      BY <3>1, <3>2, HandlesOf
    <3>4. QED
      BY <3>1, <3>3 DEF Used
  <2>3. Used(b) = Used(b)' + InBlock(b, p)
    <3>1. PagesOf(b) \in SUBSET Page /\ PagesOf(b)' = PagesOf(b) /\ (p \in PagesOf(b) <=> BlockOf(p) = b)
      BY DEF PagesOf
    <3>2. held \in [Page -> Nat] /\ held' \in [Page -> Nat]
      BY SizesAssumption DEF TypeOK
    <3>3. held[p] = held'[p] + 1 /\ \A q \in Page : q # p => held[q] = held'[q]
      BY <1>6, <3>2 DEF UnmapPage
    <3>4. /\ p \in PagesOf(b) => Used(b) = Used(b)' + 1
          /\ p \notin PagesOf(b) => Used(b) = Used(b)'
      <4>1. Grown(held', held, p)
        BY <3>2, <3>3, HandlesGrow
      <4>2. QED
        BY <3>1, <4>1, Zenon DEF Used, Grown
    <3>5. QED
      BY <2>6, <3>1, <3>4 DEF InBlock
  <2>4. Used(b) \in Nat /\ refs[b] \in Int /\ One(b) \in Int /\ InBlock(b, p) \in Int
    BY UsesOf
  <2>5. refs'[b] = refs[b] - InBlock(b, p)
    BY <1>6, UsesOf DEF UnmapPage
  <2>7. QED
    BY <2>1, <2>2, <2>3, <2>4, <2>5, <2>6
\* The file is opened: the header is mapped.
<1>7. ASSUME MapHeader, pc = "down", pc' \in {"idle", "zero"}, held' = held PROVE Uses'
  <2> SUFFICES ASSUME NEW b \in Block PROVE refs'[b] = Used(b)' + InFlight(b)' + One(b)'
    BY <1>7 DEF Uses
  <2>1. refs[b] = 0 /\ \A p \in Page : held'[p] = 0
    BY <1>7 DEF Uses
  <2>2. Used(b)' = 0 /\ InFlight(b)' = 0
    <3>1. PagesOf(b)' = PagesOf(b)
      BY DEF PagesOf
    <3>2. QED
      BY <1>7, <2>1, <3>1, UsesOf DEF Used, InFlight
  <2>3. refs'[b] = IF b = 0 THEN 1 ELSE 0
    BY <1>7, <2>1 DEF MapHeader, TypeOK
  <2>4. QED
    BY <2>2, <2>3 DEF One
<1>8. ASSUME NEW p, Abort(Unmapped(p)), p = cur, pc = "unmap" PROVE Uses'
  <2>1. CASE Gone
    BY <1>1, <2>1
  <2>2. CASE Idle /\ refs' = Unmapped(p) /\ held' = held
    <3>1. Unmapped(p) \in [Block -> Int]
      BY MappedType DEF TypeOK
    <3>2. \A b \in Block : Unmapped(p)[b] = refs[b] - InFlight(b)
      BY <1>8, UsesOf DEF InFlight, InBlock
    <3>3. QED
      BY <1>2, <1>8, <2>2, <3>1, <3>2 DEF Idle, Leave
  <2>3. QED
    BY <1>8, <2>1, <2>2 DEF Abort
<1>9. ASSUME Abort(refs), pc \in {"grow"} PROVE Uses'
  <2>1. CASE Gone
    BY <1>1, <2>1
  <2>2. CASE Idle /\ refs' = refs /\ held' = held
    BY <1>3, <1>9, <2>2 DEF Idle, Leave
  <2>3. QED
    BY <1>9, <2>1, <2>2 DEF Abort
<1>10. CASE LinkNext \/ LinkHead \/ LinkCount \/ TakeCount \/ InitZero \/ InitMagic
  BY <1>3, <1>10 DEF LinkNext, LinkHead, LinkCount, TakeCount, InitZero, InitMagic, Idle, Leave
<1>11. CASE LinkUnmap
  <2>1. CASE pc = "unmap" /\ refs' = Unmapped(cur) /\ pc' = "count" /\ held' = held
    <3>1. Unmapped(cur) \in [Block -> Int]
      BY MappedType DEF TypeOK
    <3>2. \A b \in Block : Unmapped(cur)[b] = refs[b] - InFlight(b)
      BY <2>1, UsesOf DEF InFlight, InBlock
    <3>3. QED
      BY <1>2, <2>1, <3>1, <3>2
  <2>2. CASE pc = "unmap" /\ Abort(Unmapped(cur))
    BY <1>8, <2>2
  <2>3. QED
    BY <1>11, <2>1, <2>2 DEF LinkUnmap
<1>12. CASE GrowPage
  <2>1. CASE pc = "grow" /\ refs' = Mapped(todo) /\ cur' = todo /\ pc' = "link" /\ held' = held
    BY <1>4, <2>1
  <2>2. CASE pc = "grow" /\ Abort(refs)
    BY <1>9, <2>2
  <2>3. CASE pc = "grow" /\ pc' \in {"take", "idle"} /\ refs' = refs /\ held' = held
    BY <1>3, <2>3
  <2>4. QED
    BY <1>12, <2>1, <2>2, <2>3 DEF GrowPage, Idle, Leave
<1>13. CASE TakeMap
  <2>1. CASE pc = "take" /\ refs' = Mapped(head) /\ cur' = head /\ pc' = "dec" /\ held' = held
    BY <1>4, <2>1
  <2>2. CASE pc = "take" /\ pc' = "idle" /\ refs' = refs /\ held' = held
    BY <1>3, <2>2
  <2>3. QED
    BY <1>13, <2>1, <2>2 DEF TakeMap, Idle, Leave
<1>14. CASE TakeNext
  <2>1. cur \in Page
    BY <1>14, SizesAssumption DEF TakeNext, TypeOK
  <2>2. \A b \in Block : refs'[b] = refs[b] + InBlock(b, cur) - InFlight(b)
    <3>1. \A b \in Block : InBlock(b, cur) = InFlight(b) /\ refs[b] \in Int /\ InFlight(b) \in Int
      BY <1>14, UsesOf DEF TakeNext, InBlock, InFlight
    <3>2. QED
      BY <1>14, <3>1 DEF TakeNext
  <2>3. QED
    BY <1>5, <1>14, <2>1, <2>2 DEF TakeNext, Idle, Leave
<1>15. ASSUME NEW p \in Page, MapPage(p) PROVE Uses'
  <2>1. \A b \in Block : refs'[b] = refs[b] + InBlock(b, p) - InFlight(b)
    <3>1. \A b \in Block : /\ Mapped(p)[b] = refs[b] + InBlock(b, p) /\ InFlight(b) = 0
                           /\ refs[b] \in Int /\ InBlock(b, p) \in Int
      BY <1>15, UsesOf DEF MapPage, InFlight
    <3>2. QED
      BY <1>15, <3>1 DEF MapPage
  <2>2. QED
    BY <1>5, <1>15, <2>1 DEF MapPage
<1>16. ASSUME NEW p \in Page, ReturnPage(p) PROVE Uses'
  <2>1. CASE refs' = Mapped(p) /\ pc' = "link" /\ cur' = p
    BY <1>4, <1>16, <2>1 DEF ReturnPage
  <2>2. CASE UNCHANGED <<refs, pc, call, cur>>
    BY <1>3, <1>16, <2>2 DEF ReturnPage
  <2>3. QED
    BY <1>16, <2>1, <2>2 DEF ReturnPage
<1>17. CASE \/ GetPage \/ \E n \in 1 .. MaxReserve : ReservePages(n)
            \/ \E p \in Page, w \in Words : WritePage(p, w)
  BY <1>3, <1>17 DEF GetPage, ReservePages, Extend, WritePage, proc
<1>18. CASE OpenExist \/ OpenTruncate("create") \/ OpenTruncate("clear")
  BY <1>7, <1>18 DEF OpenExist, OpenTruncate
<1>19. CASE Close \/ Kill
  BY <1>1, <1>19 DEF Close, Kill
<1>20. CASE KillBeforeTruncate \/ UNCHANGED vars
  <2>1. pc' = pc /\ refs' = refs /\ held' = held /\ cur' = cur
    BY <1>20 DEF KillBeforeTruncate, proc, vars
  <2>2. \A b \in Block : Used(b)' = Used(b) /\ InFlight(b)' = InFlight(b) /\ One(b)' = One(b)
    BY <2>1 DEF Used, PagesOf, InFlight, One
  <2>3. QED
    BY <2>1, <2>2 DEF Uses
<1>21. QED
  BY <1>6, <1>10, <1>11, <1>12, <1>13, <1>14, <1>15, <1>16, <1>17, <1>18, <1>19, <1>20
     DEF Next, Step, User

\* munmap never takes a block from under a page_t that is still held: each block is in the
\* list with one use per handle, the header's, and the one of the call in progress.
THEOREM UsesCounted == Spec => []UseCountsExact
<1>1. Init => Uses
  BY DEF Init, Uses
<1>2. IInv => TypeOK /\ CallInv
  BY DEF IInv
<1>3. Spec => []Uses
  BY <1>1, <1>2, Invariance, UsesStep, PTL DEF Spec
<1>4. TypeOK /\ Uses => UseCountsExact
  <2> SUFFICES ASSUME TypeOK, Uses, NEW b \in Block
               PROVE  refs[b] = IF pc = "down" THEN 0
                                ELSE MapThenSumSet(LAMBDA p : held[p], {p \in Page : BlockOf(p) = b})
                                       + InFlight(b) + (IF b = 0 THEN 1 ELSE 0)
    BY DEF UseCountsExact
  <2>1. MapThenSumSet(LAMBDA p : held[p], {p \in Page : BlockOf(p) = b}) = Total(held, PagesOf(b))
    BY DEF Total, PagesOf
  <2>2. IsFiniteSet(PagesOf(b)) /\ \A p \in PagesOf(b) : held[p] \in Nat
    <3>1. PagesOf(b) \in SUBSET Page /\ IsFiniteSet(Page)
      BY SizesAssumption, FS_Interval DEF PagesOf
    <3>2. QED
      BY <3>1, FS_Subset DEF TypeOK
  <2>3. Total(held, PagesOf(b)) = Used(b)
    BY <2>2, TotalCounts DEF Used
  <2>4. refs[b] = IF pc = "down" THEN 0 ELSE Total(held, PagesOf(b)) + InFlight(b) + One(b)
    BY <2>3 DEF Uses
  <2>5. One(b) = IF b = 0 THEN 1 ELSE 0
    BY DEF One
  <2>6. QED
    BY <2>1, <2>4, <2>5, Zenon
<1>5. QED
  BY <1>2, <1>3, <1>4, Invariance, PTL
=============================================================================
