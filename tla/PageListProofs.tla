---------------------------- MODULE PageListProofs ----------------------------
(***************************************************************************)
(* Proofs about PageList: both directions tell the same list between       *)
(* calls, the list read forward is sound wherever a kill falls, and no     *)
(* store goes to a page that is not the list's, for every set of pages.    *)
(***************************************************************************)
EXTENDS PageList, FiniteSetTheorems, SequenceTheorems, WellFoundedInduction, TLAPS

-----------------------------------------------------------------------------
(***************************************************************************)
(* Numberings of pages, and what links say of them.  These are about       *)
(* values, so that a step can be told by the values before and after it.   *)
(***************************************************************************)

\* s, of length n, has every page of S once.
Enum(n, s, S) ==
    /\ n \in Nat /\ s \in [1 .. n -> S]
    /\ \A i, j \in 1 .. n : s[i] = s[j] => i = j
    /\ \A p \in S : \E i \in 1 .. n : s[i] = p

\* The links in either direction, but for those of the page numbered but.
Nexts(nx, n, s, but) == \A i \in 1 .. n : i # but => nx[s[i]] = After(s, n, i)
Prevs(pv, n, s, but) == \A i \in 1 .. n : i # but => pv[s[i]] = Before(s, i)

\* The list with header h, t and links nx, pv is s, and has the pages of S.
Whole(h, t, nx, pv, n, s, S) ==
    /\ Enum(n, s, S) /\ h = After(s, n, 0) /\ t = Before(s, n + 1)
    /\ Nexts(nx, n, s, 0) /\ Prevs(pv, n, s, 0)

\* s is what one reads from the head on.
Reads(h, nx, n, s) ==
    /\ n \in Nat /\ h = After(s, n, 0) /\ Nexts(nx, n, s, 0)
    /\ \A i, j \in 1 .. n : s[i] = s[j] => i = j

\* While p is added to s: the header, and the link of the last page.
First(n, s, p) == IF n = 0 THEN p ELSE s[1]
Ends(nx, n, s, p) == n > 0 => nx[s[n]] = p

\* Once the page numbered k is taken out of s: the header, and the links over it.
NewHead(n, s, k) == IF k = 1 THEN After(s, n, 1) ELSE s[1]
NewEnd(n, s, k) == IF k = n THEN Before(s, n) ELSE s[n]
Skips(nx, n, s, k) == k > 1 => nx[s[k - 1]] = After(s, n, k)
SkipsBack(pv, n, s, k) == k < n => pv[s[k + 1]] = Before(s, k)

Added(s, n, p) == [i \in 1 .. n + 1 |-> IF i <= n THEN s[i] ELSE p]
Without(s, n, k) == [i \in 1 .. n - 1 |-> IF i < k THEN s[i] ELSE s[i + 1]]

-----------------------------------------------------------------------------
(***************************************************************************)
(* The invariant                                                           *)
(***************************************************************************)
Deletes == {"delete", "clear", "shrink"}
Growing == {"head", "zero", "link", "back", "tail"}
Cutting == {"unlink", "bwd", "first", "end", "last", "return"}

Others == own \ {page}

\* What the list is at every store, as long as nothing has cut a call short: s are its
\* pages, without the one at hand where that is coming or gone, and k is the place of
\* the page that is being deleted.
State(n, s, k) ==
    /\ pc \in {"idle", "get", "step", "reset"} => Whole(head, tail, next, prev, n, s, own)
    /\ pc = "step" => op \in {"clear", "shrink"} /\ it = IF op = "clear" THEN head ELSE tail
    /\ pc = "reset" => head = 0
    /\ pc \in {"head", "return"} => page \in own /\ Whole(head, tail, next, prev, n, s, Others)
    /\ pc \in {"zero", "link", "back", "tail"} =>
          /\ page \in own /\ Enum(n, s, Others) /\ Prevs(prev, n, s, 0)
          /\ head = First(n, s, page) /\ tail = Before(s, n + 1)
    /\ pc \in {"zero", "link"} => Nexts(next, n, s, 0)
    /\ pc \in {"back", "tail"} => Nexts(next, n, s, n) /\ Ends(next, n, s, page)
    /\ pc \in {"link", "back", "tail"} => next[page] = 0
    /\ pc \in {"link", "back"} => n > 0
    /\ pc = "tail" => prev[page] = tail
    /\ pc \in Cutting => op \in Deletes
    /\ pc = "unlink" =>
          /\ Whole(head, tail, next, prev, n, s, own) /\ k \in 1 .. n /\ page = s[k]
          /\ op = "clear" => k = 1 /\ it = After(s, n, 1)
          /\ op = "shrink" => k = n /\ it = Before(s, n)
    /\ pc \in {"bwd", "first", "end", "last"} => Enum(n, s, own) /\ Prevs(prev, n, s, 0)
    /\ pc \in {"first", "end", "last"} => Nexts(next, n, s, 0)
    /\ pc = "bwd" =>
          /\ k \in 2 .. n - 1 /\ page = s[k] /\ op = "delete" /\ head = s[1] /\ tail = s[n]
          /\ Nexts(next, n, s, k - 1) /\ Skips(next, n, s, k)
    /\ pc = "first" => n > 1 /\ page = s[1] /\ op # "shrink" /\ head = s[2] /\ tail = s[n]
    /\ pc = "end" =>
          /\ n > 0 /\ page = s[n] /\ head = (IF n = 1 THEN 0 ELSE s[1]) /\ tail = s[n]
          /\ op = "clear" => n = 1
          /\ op = "shrink" => it = Before(s, n)
    /\ pc = "last" => n > 1 /\ page = s[n] /\ op # "clear" /\ head = s[1] /\ tail = s[n - 1]
    /\ pc \in {"first", "end", "return"} /\ op = "clear" => it = head
    /\ pc \in {"last", "return"} /\ op = "shrink" => it = tail

\* What is left of that once a call has been cut short; then only extends go on.
Sound(n, s) ==
    /\ n \in Nat /\ s \in [1 .. n -> own] /\ tail \in own \cup {0}
    /\ pc \in Growing \cup {"idle", "get"}
    /\ ~ (pc = "zero" /\ head = page) => Reads(head, next, n, s)
    /\ pc \in Growing => page \in own
    /\ pc \in {"head", "zero", "link"} => tail # page
    /\ pc = "head" \/ (pc = "zero" /\ head # page) => \A i \in 1 .. n : s[i] # page
    /\ pc = "link" => /\ next[page] = 0 /\ tail # 0
                      /\ (\A i \in 1 .. n : s[i] # page) \/ (n = 1 /\ s[1] = page)

Types ==
    /\ TypeOK
    /\ pc \in Growing \cup Cutting => page \in Page
    /\ pc = "idle" => op = "none"
    /\ op \in {"none", "clear"} => stop = 0

Ordered == \E n, s, k : State(n, s, k)
Readable == \E n, s : Sound(n, s)

IInv == Types /\ (harm = "none" => Ordered) /\ (harm = "half" => Readable)

-----------------------------------------------------------------------------
(***************************************************************************)
(* Types                                                                   *)
(***************************************************************************)
LEMMA TypesStep == Types /\ [Next]_vars => Types'
<1> SUFFICES ASSUME Types, [Next]_vars PROVE Types'
  OBVIOUS
<1> USE ListAssumption DEF Types, TypeOK, Link, Growing, Cutting, file
<1>1. CASE \E n \in 1 .. MaxExtend : Extend(n)
  BY <1>1 DEF Extend
<1>2. CASE \/ \E p \in Page : DeleteNode(p)
           \/ \E q \in Link : Shrink(q)
           \/ Clear
  BY <1>2 DEF DeleteNode, Shrink, Clear, Loosen
<1>3. CASE GetPage \/ Extended
  BY <1>3 DEF GetPage, Extended, Leave, Fail
<1>4. CASE SetHead \/ ZeroNode
  BY <1>4 DEF SetHead, ZeroNode, At
<1>5. CASE LinkTail
  BY <1>5 DEF LinkTail, At, Leave, Fail, Half
<1>6. CASE SetPrev \/ SetTail
  BY <1>6 DEF SetPrev, SetTail, At
<1>7. CASE Unlink
  BY <1>7 DEF Unlink, At, Leave, Fail
<1>8. CASE UnlinkBack \/ NewFirst
  BY <1>8 DEF UnlinkBack, NewFirst, At, Leave, Fail, Half
<1>9. CASE NewTail \/ NewLast
  BY <1>9 DEF NewTail, NewLast, At, Leave, Fail, Half
<1>10. CASE ReturnPage
  BY <1>10 DEF ReturnPage, At, Leave, Fail, Half
<1>11. CASE GotoNext
  BY <1>11 DEF GotoNext, Leave, Fail
<1>12. CASE LoopEnds \/ ResetHeader
  BY <1>12 DEF LoopEnds, ResetHeader, At, Leave
<1>13. CASE Kill
  BY <1>13 DEF Kill, Leave
<1>14. CASE UNCHANGED vars
  BY <1>14 DEF vars
<1>15. QED
  BY <1>1, <1>2, <1>3, <1>4, <1>5, <1>6, <1>7, <1>8, <1>9, <1>10, <1>11, <1>12, <1>13, <1>14
     DEF Next, Inside, User

-----------------------------------------------------------------------------
(***************************************************************************)
(* Adding a page to a numbering and taking one out                         *)
(***************************************************************************)
LEMMA AddedEnum ==
  ASSUME NEW S, NEW p \in S, NEW n, NEW s, Enum(n, s, S \ {p})
  PROVE  Enum(n + 1, Added(s, n, p), S)
<1> DEFINE t == Added(s, n, p)
<1>1. n \in Nat /\ s \in [1 .. n -> S \ {p}]
  BY DEF Enum
<1>2. t[n + 1] = p /\ \A i \in 1 .. n : t[i] = s[i]
  BY <1>1 DEF Added
<1>3. t \in [1 .. n + 1 -> S]
  BY <1>1 DEF Added
<1> HIDE DEF t
<1>4. \A i \in 1 .. n + 1 : i = n + 1 \/ i \in 1 .. n
  BY <1>1
<1>5. \A i, j \in 1 .. n + 1 : t[i] = t[j] => i = j
  BY <1>1, <1>2, <1>4 DEF Enum
<1>6. \A q \in S : \E i \in 1 .. n + 1 : t[i] = q
  <2> SUFFICES ASSUME NEW q \in S PROVE \E i \in 1 .. n + 1 : t[i] = q
    OBVIOUS
  <2>1. CASE q = p
    BY <1>1, <1>2, <2>1
  <2>2. CASE q # p
    <3>1. PICK i \in 1 .. n : s[i] = q
      BY <2>2 DEF Enum
    <3>2. i \in 1 .. n + 1
      BY <1>1
    <3>3. QED
      BY <1>2, <3>1, <3>2
  <2>3. QED
    BY <2>1, <2>2
<1>7. QED
  BY <1>1, <1>2, <1>3, <1>5, <1>6 DEF Enum, t

LEMMA WithoutEnum ==
  ASSUME NEW S, NEW n, NEW s, Enum(n, s, S), NEW k \in 1 .. n
  PROVE  Enum(n - 1, Without(s, n, k), S \ {s[k]})
<1> DEFINE t == Without(s, n, k)
           from(i) == IF i < k THEN i ELSE i + 1
<1>1. n \in Nat /\ s \in [1 .. n -> S] /\ n - 1 \in Nat /\ k \in Nat
  BY DEF Enum
<1>2. \A i \in 1 .. n - 1 : from(i) \in 1 .. n /\ from(i) # k
  BY <1>1
<1>3. t = [i \in 1 .. n - 1 |-> s[from(i)]]
  BY <1>1 DEF Without
<1>4. \A i \in 1 .. n - 1 : t[i] = s[from(i)]
  BY <1>3
<1>5. \A i, j \in 1 .. n - 1 : from(i) = from(j) => i = j
  BY <1>1
<1>6. \A j \in 1 .. n : j # k => \E i \in 1 .. n - 1 : from(i) = j
  <2> SUFFICES ASSUME NEW j \in 1 .. n, j # k PROVE \E i \in 1 .. n - 1 : from(i) = j
    OBVIOUS
  <2>1. CASE j < k
    <3>1. j \in 1 .. n - 1 /\ from(j) = j
      BY <1>1, <2>1
    <3>2. QED
      BY <3>1
  <2>2. CASE j > k
    <3>1. j - 1 \in 1 .. n - 1 /\ from(j - 1) = j
      BY <1>1, <2>2
    <3>2. QED
      BY <3>1
  <2>3. QED
    BY <1>1, <2>1, <2>2
<1>7. \A i \in 1 .. n - 1 : t[i] = IF i < k THEN s[i] ELSE s[i + 1]
  BY <1>4
<1> HIDE DEF from
<1>8. \A i, j \in 1 .. n : s[i] = s[j] => i = j
  BY DEF Enum
<1>9. t \in [1 .. n - 1 -> S \ {s[k]}]
  <2>1. \A i \in 1 .. n - 1 : s[from(i)] \in S \ {s[k]}
    BY <1>1, <1>2, <1>8
  <2>2. QED
    BY <1>3, <2>1
<1> HIDE DEF t
<1>10. \A i, j \in 1 .. n - 1 : t[i] = t[j] => i = j
  BY <1>2, <1>4, <1>5, <1>8
<1>11. \A q \in S \ {s[k]} : \E i \in 1 .. n - 1 : t[i] = q
  <2> SUFFICES ASSUME NEW q \in S \ {s[k]} PROVE \E i \in 1 .. n - 1 : t[i] = q
    OBVIOUS
  <2>1. PICK j \in 1 .. n : s[j] = q
    BY DEF Enum
  <2>2. PICK i \in 1 .. n - 1 : from(i) = j
    BY <1>6, <2>1
  <2>3. QED
    BY <1>4, <2>1, <2>2
<1>12. QED
  BY <1>1, <1>7, <1>9, <1>10, <1>11 DEF Enum, t
\* Numbers, and what they number, are told apart.
LEMMA EnumFacts ==
  ASSUME NEW S, NEW n, NEW s, Enum(n, s, S)
  PROVE  /\ n \in Nat /\ s \in [1 .. n -> S] /\ \A i \in 1 .. n : s[i] \in S
         /\ \A i, j \in 1 .. n : s[i] = s[j] => i = j
         /\ \A p \in S : \E i \in 1 .. n : s[i] = p
         /\ n = 0 \/ (n > 0 /\ 1 \in 1 .. n /\ n \in 1 .. n)
  BY DEF Enum

\* A page without a number may be changed.
LEMMA Elsewhere ==
  ASSUME NEW X, NEW Y, NEW f \in [X -> Y], NEW S, S \subseteq X, NEW n, NEW s, Enum(n, s, S),
         NEW q, q \notin S, NEW v, NEW b
  PROVE  /\ Nexts(f, n, s, b) => Nexts([f EXCEPT ![q] = v], n, s, b)
         /\ Prevs(f, n, s, b) => Prevs([f EXCEPT ![q] = v], n, s, b)
<1>1. \A i \in 1 .. n : s[i] \in X /\ s[i] # q
  BY EnumFacts
<1>2. \A i \in 1 .. n : [f EXCEPT ![q] = v][s[i]] = f[s[i]]
  BY <1>1
<1>3. QED
  BY <1>2 DEF Nexts, Prevs

\* A numbered page may be changed where its link is not looked at.
LEMMA AtNumber ==
  ASSUME NEW S, NEW n, NEW s, Enum(n, s, S), NEW b \in 1 .. n, NEW f, NEW g,
         \A p \in S : p # s[b] => g[p] = f[p]
  PROVE  /\ Nexts(f, n, s, 0) => Nexts(g, n, s, b)
         /\ Prevs(f, n, s, 0) => Prevs(g, n, s, b)
<1>1. \A i \in 1 .. n : s[i] \in S /\ (i # b => s[i] # s[b]) /\ i # 0
  BY EnumFacts
<1>2. \A i \in 1 .. n : i # b => g[s[i]] = f[s[i]]
  BY <1>1
<1>3. QED
  BY <1>1, <1>2 DEF Nexts, Prevs

LEMMA WholeReads ==
  ASSUME NEW h, NEW t, NEW nx, NEW pv, NEW n, NEW s, NEW S, Whole(h, t, nx, pv, n, s, S)
  PROVE  Reads(h, nx, n, s) /\ s \in [1 .. n -> S] /\ t \in S \cup {0}
<1>1. Enum(n, s, S) /\ t = Before(s, n + 1) /\ h = After(s, n, 0) /\ Nexts(nx, n, s, 0)
  BY DEF Whole
<1>2. t \in S \cup {0}
  BY <1>1, EnumFacts DEF Before
<1>3. QED
  BY <1>1, <1>2, EnumFacts DEF Reads

LEMMA AddedReads ==
  ASSUME NEW S, NEW p \in S, NEW h, NEW nx, NEW n, NEW s, Enum(n, s, S \ {p}),
         Nexts(nx, n, s, n), Ends(nx, n, s, p), nx[p] = 0, h = First(n, s, p)
  PROVE  Reads(h, nx, n + 1, Added(s, n, p)) /\ Enum(n + 1, Added(s, n, p), S)
<1> DEFINE t == Added(s, n, p)
<1>1. n \in Nat /\ (n = 0 \/ (n > 0 /\ 1 \in 1 .. n /\ n \in 1 .. n))
  BY EnumFacts
<1>2. Enum(n + 1, t, S) /\ t[n + 1] = p /\ \A i \in 1 .. n : t[i] = s[i]
  <2>1. Enum(n + 1, t, S)
    BY AddedEnum, Zenon
  <2>2. t[n + 1] = p /\ \A i \in 1 .. n : t[i] = s[i]
    BY <1>1 DEF Added
  <2>3. QED
    BY <2>1, <2>2
<1> HIDE DEF t
<1>3. h = After(t, n + 1, 0)
  BY <1>2, <1>1 DEF After, First
<1>4. Nexts(nx, n + 1, t, 0)
  <2> SUFFICES ASSUME NEW i \in 1 .. n + 1 PROVE nx[t[i]] = After(t, n + 1, i)
    BY DEF Nexts
  <2>1. CASE i = n + 1
    BY <1>2, <1>1, <2>1 DEF After
  <2>2. CASE i = n
    <3>1. n > 0 /\ i \in 1 .. n
      BY <1>1, <2>2
    <3>2. QED
      BY <1>2, <1>1, <2>2, <3>1 DEF After, Ends
  <2>3. CASE i < n
    <3>1. i \in 1 .. n /\ i + 1 \in 1 .. n /\ i # n
      BY <1>1, <2>3
    <3>2. nx[s[i]] = s[i + 1]
      BY <1>1, <2>3, <3>1 DEF Nexts, After
    <3>3. QED
      BY <1>2, <1>1, <2>3, <3>1, <3>2 DEF After
  <2>4. QED
    BY <1>1, <2>1, <2>2, <2>3
<1>5. QED
  BY <1>2, <1>3, <1>4, EnumFacts DEF Reads, t

LEMMA AddedWhole ==
  ASSUME NEW S, NEW p \in S, NEW h, NEW nx, NEW pv, NEW n, NEW s, Enum(n, s, S \ {p}),
         Nexts(nx, n, s, n), Ends(nx, n, s, p), nx[p] = 0, h = First(n, s, p),
         Prevs(pv, n, s, 0), pv[p] = Before(s, n + 1)
  PROVE  Whole(h, p, nx, pv, n + 1, Added(s, n, p), S)
<1> DEFINE t == Added(s, n, p)
<1>1. Reads(h, nx, n + 1, t) /\ Enum(n + 1, t, S)
  BY AddedReads
<1>2. n \in Nat /\ (n = 0 \/ (n > 0 /\ 1 \in 1 .. n /\ n \in 1 .. n))
  BY EnumFacts
<1>3. t[n + 1] = p /\ \A i \in 1 .. n : t[i] = s[i]
  BY <1>2 DEF Added
<1> HIDE DEF t
<1>4. Prevs(pv, n + 1, t, 0)
  <2> SUFFICES ASSUME NEW i \in 1 .. n + 1 PROVE pv[t[i]] = Before(t, i)
    BY DEF Prevs
  <2>1. i > 1 => i - 1 \in 1 .. n
    BY <1>2
  <2>2. CASE i = n + 1
    BY <1>3, <1>2, <2>1, <2>2 DEF Before
  <2>3. CASE i \in 1 .. n
    BY <1>3, <1>2, <2>1, <2>3 DEF Before, Prevs
  <2>4. QED
    BY <1>2, <2>2, <2>3
<1>5. p = Before(t, (n + 1) + 1)
  BY <1>3, <1>2 DEF Before
<1>6. QED
  BY <1>1, <1>4, <1>5 DEF Whole, Reads, t

LEMMA WithoutReads ==
  ASSUME NEW S, NEW h, NEW nx, NEW n, NEW s, NEW k \in 1 .. n, Enum(n, s, S),
         Nexts(nx, n, s, k - 1), Skips(nx, n, s, k), h = NewHead(n, s, k)
  PROVE  Reads(h, nx, n - 1, Without(s, n, k)) /\ Enum(n - 1, Without(s, n, k), S \ {s[k]})
<1> DEFINE t == Without(s, n, k)
<1>1. /\ Enum(n - 1, t, S \ {s[k]})
      /\ \A i \in 1 .. n - 1 : t[i] = IF i < k THEN s[i] ELSE s[i + 1]
  BY WithoutEnum DEF Without
<1>2. n \in Nat /\ k \in Nat /\ n > 0
  BY EnumFacts
<1> HIDE DEF t
<1>3. h = After(t, n - 1, 0)
  <2>1. CASE n = 1
    BY <1>2, <2>1 DEF After, NewHead
  <2>2. CASE n > 1
    <3>1. 1 \in 1 .. n - 1
      BY <1>2, <2>2
    <3>2. t[1] = IF k = 1 THEN s[2] ELSE s[1]
      BY <1>1, <1>2, <3>1
    <3>3. QED
      BY <1>2, <2>2, <3>2 DEF After, NewHead
  <2>3. QED
    BY <1>2, <2>1, <2>2
<1>4. Nexts(nx, n - 1, t, 0)
  <2> SUFFICES ASSUME NEW i \in 1 .. n - 1 PROVE nx[t[i]] = After(t, n - 1, i)
    BY DEF Nexts
  <2>1. i < n - 1 => t[i + 1] = IF i + 1 < k THEN s[i + 1] ELSE s[i + 2]
    <3>1. i < n - 1 => i + 1 \in 1 .. n - 1 /\ (i + 1) + 1 = i + 2
      BY <1>2
    <3>2. QED
      BY <1>1, <3>1
  <2>2. CASE i < k - 1
    <3>1. i \in 1 .. n /\ i # k - 1 /\ i < n - 1 /\ i + 1 < k /\ i < k
      BY <1>2, <2>2
    <3>2. t[i] = s[i] /\ nx[s[i]] = s[i + 1]
      BY <1>1, <1>2, <3>1 DEF Nexts, After
    <3>3. QED
      BY <2>1, <3>1, <3>2 DEF After
  <2>3. CASE i = k - 1
    <3>1. k > 1 /\ i < k /\ ~ (i + 1 < k) /\ i + 2 = k + 1 /\ (i < n - 1 <=> k < n)
      BY <1>2, <2>3
    <3>2. t[i] = s[k - 1] /\ nx[s[k - 1]] = After(s, n, k)
      BY <1>1, <2>3, <3>1 DEF Skips
    <3>3. QED
      BY <2>1, <3>1, <3>2 DEF After
  <2>4. CASE i > k - 1
    <3>1. ~ (i < k) /\ ~ (i + 1 < k) /\ i + 1 \in 1 .. n /\ i + 1 # k - 1
          /\ (i < n - 1 <=> i + 1 < n) /\ (i + 1) + 1 = i + 2
      BY <1>2, <2>4
    <3>2. t[i] = s[i + 1] /\ nx[s[i + 1]] = After(s, n, i + 1)
      BY <1>1, <3>1 DEF Nexts
    <3>3. QED
      BY <2>1, <3>1, <3>2 DEF After
  <2>5. QED
    BY <1>2, <2>2, <2>3, <2>4
<1>5. QED
  BY <1>1, <1>3, <1>4 DEF Reads, Enum, t

LEMMA WithoutWhole ==
  ASSUME NEW S, NEW h, NEW t, NEW nx, NEW pv, NEW n, NEW s, NEW k \in 1 .. n, Enum(n, s, S),
         Nexts(nx, n, s, k - 1), Skips(nx, n, s, k), h = NewHead(n, s, k),
         Prevs(pv, n, s, k + 1), SkipsBack(pv, n, s, k), t = NewEnd(n, s, k)
  PROVE  Whole(h, t, nx, pv, n - 1, Without(s, n, k), S \ {s[k]})
<1> DEFINE w == Without(s, n, k)
<1>1. Reads(h, nx, n - 1, w) /\ Enum(n - 1, w, S \ {s[k]})
  BY WithoutReads
<1>2. \A i \in 1 .. n - 1 : w[i] = IF i < k THEN s[i] ELSE s[i + 1]
  BY DEF Without
<1>3. n \in Nat /\ k \in Nat /\ n > 0
  BY EnumFacts
<1> HIDE DEF w
<1>4. Prevs(pv, n - 1, w, 0)
  <2> SUFFICES ASSUME NEW i \in 1 .. n - 1 PROVE pv[w[i]] = Before(w, i)
    BY DEF Prevs
  <2>1. i > 1 => w[i - 1] = IF i - 1 < k THEN s[i - 1] ELSE s[i]
    <3>1. i > 1 => i - 1 \in 1 .. n - 1 /\ (i - 1) + 1 = i
      BY <1>3
    <3>2. QED
      BY <1>2, <3>1
  <2>2. CASE i < k
    <3>1. i \in 1 .. n /\ i # k + 1 /\ i - 1 < k
      BY <1>3, <2>2
    <3>2. w[i] = s[i] /\ pv[s[i]] = Before(s, i)
      BY <1>2, <2>2, <3>1 DEF Prevs
    <3>3. QED
      BY <2>1, <3>1, <3>2 DEF Before
  <2>3. CASE i = k
    <3>1. ~ (i < k) /\ i - 1 < k /\ k < n
      BY <1>3, <2>3
    <3>2. w[i] = s[k + 1] /\ pv[s[k + 1]] = Before(s, k)
      BY <1>2, <2>3, <3>1 DEF SkipsBack
    <3>3. QED
      BY <2>1, <2>3, <3>1, <3>2 DEF Before
  <2>4. CASE i > k
    <3>1. ~ (i < k) /\ ~ (i - 1 < k) /\ i + 1 \in 1 .. n /\ i + 1 # k + 1 /\ i > 1
          /\ i + 1 > 1 /\ (i + 1) - 1 = i
      BY <1>3, <2>4
    <3>2. w[i] = s[i + 1] /\ pv[s[i + 1]] = Before(s, i + 1)
      BY <1>2, <3>1 DEF Prevs
    <3>3. QED
      BY <2>1, <3>1, <3>2 DEF Before
  <2>5. QED
    BY <1>3, <2>2, <2>3, <2>4
<1>5. t = Before(w, (n - 1) + 1)
  <2>1. (n - 1) + 1 = n /\ (n > 1 => n - 1 \in 1 .. n - 1 /\ (n - 1) + 1 = n)
    BY <1>3
  <2>2. n > 1 => w[n - 1] = IF n - 1 < k THEN s[n - 1] ELSE s[n]
    BY <1>2, <2>1
  <2>3. n - 1 < k <=> k = n
    BY <1>3
  <2>4. QED
    BY <1>3, <2>1, <2>2, <2>3 DEF Before, NewEnd
<1>6. QED
  BY <1>1, <1>4, <1>5 DEF Whole, Reads, w
-----------------------------------------------------------------------------
(***************************************************************************)
(* Read forward, the list is sound at every store                          *)
(***************************************************************************)
Forward == \E m, w : Reads(head, next, m, w) /\ w \in [1 .. m -> own]

LEMMA Pages ==
  ASSUME Types
  PROVE  /\ own \subseteq Page /\ 0 \notin Page /\ 0 \notin own
         /\ next \in [Page -> Link] /\ prev \in [Page -> Link]
  BY ListAssumption DEF Types, TypeOK

\* A list that has lost the page at hand is one of fewer pages.
LEMMA Fewer ==
  ASSUME NEW S, NEW T, S \subseteq T, NEW m, NEW w, w \in [1 .. m -> S]
  PROVE  w \in [1 .. m -> T]
  OBVIOUS

LEMMA NumberedReads ==
  ASSUME NEW S, NEW h, NEW nx, NEW n, NEW s, Enum(n, s, S), Nexts(nx, n, s, 0), h = After(s, n, 0)
  PROVE  Reads(h, nx, n, s) /\ s \in [1 .. n -> S]
  BY EnumFacts DEF Reads

LEMMA StateForward ==
  ASSUME Types, NEW n, NEW s, NEW k, State(n, s, k)
  PROVE  tail \in own \cup {0} /\ (~ (pc = "zero" /\ head = page) => Forward)
<1> USE Pages
<1>1. CASE pc \in {"idle", "get", "step", "reset", "head", "return", "unlink"}
  <2>1. PICK S : S \subseteq own /\ Whole(head, tail, next, prev, n, s, S)
    BY <1>1 DEF State, Others
  <2>2. Reads(head, next, n, s) /\ s \in [1 .. n -> S] /\ tail \in S \cup {0}
    BY <2>1, WholeReads
  <2>3. s \in [1 .. n -> own]
    BY <2>1, <2>2, Fewer
  <2>4. QED
    BY <2>1, <2>2, <2>3 DEF Forward
<1>2. CASE pc \in {"zero", "link", "back", "tail"}
  <2>1. /\ page \in own /\ Enum(n, s, own \ {page}) /\ head = First(n, s, page)
        /\ tail = Before(s, n + 1)
    BY <1>2 DEF State, Others
  <2>2. n \in Nat /\ (\A i \in 1 .. n : s[i] \in own) /\ s \in [1 .. n -> own \ {page}]
    BY <2>1, EnumFacts
  <2>3. tail \in own \cup {0}
    BY <2>1, <2>2 DEF Before
  <2>4. CASE pc \in {"zero", "link"}
    <3>1. Nexts(next, n, s, 0)
      BY <2>4 DEF State
    <3>2. ~ (pc = "zero" /\ head = page) => head = After(s, n, 0)
      <4>1. pc = "link" => n > 0
        BY DEF State
      <4>2. QED
        BY <2>1, <2>2, <2>4, <4>1 DEF First, After
    <3>3. ASSUME head = After(s, n, 0) PROVE Forward
      <4>1. Reads(head, next, n, s)
        BY <2>1, <3>1, <3>3, NumberedReads
      <4>2. QED
        BY <2>2, <4>1, Fewer DEF Forward
    <3>4. QED
      BY <2>3, <3>2, <3>3
  <2>5. CASE pc \in {"back", "tail"}
    <3>1. Nexts(next, n, s, n) /\ Ends(next, n, s, page) /\ next[page] = 0
      BY <2>5 DEF State
    <3>2. Reads(head, next, n + 1, Added(s, n, page)) /\ Enum(n + 1, Added(s, n, page), own)
      BY <2>1, <3>1, AddedReads
    <3>3. Added(s, n, page) \in [1 .. n + 1 -> own]
      BY <3>2, EnumFacts
    <3>4. QED
      BY <2>3, <3>2, <3>3 DEF Forward
  <2>6. QED
    BY <1>2, <2>4, <2>5
<1>3. CASE pc = "bwd" \/ pc = "first" \/ (pc = "end" /\ n = 1)
  <2>1. Enum(n, s, own)
    BY <1>3 DEF State
  <2>2. n \in Nat /\ \A i \in 1 .. n : s[i] \in own
    BY <2>1, EnumFacts
  <2>3. tail = s[n] /\ n > 0
    BY <1>3, <2>2 DEF State
  <2>4. PICK j \in 1 .. n : Nexts(next, n, s, j - 1) /\ Skips(next, n, s, j) /\ head = NewHead(n, s, j)
    <3>1. CASE pc = "bwd"
      <4>1. k \in 2 .. n - 1 /\ Nexts(next, n, s, k - 1) /\ Skips(next, n, s, k) /\ head = s[1]
        BY <3>1 DEF State
      <4>2. k \in 1 .. n /\ head = NewHead(n, s, k)
        BY <2>2, <4>1 DEF NewHead
      <4>3. QED
        BY <4>1, <4>2
    <3>2. CASE pc # "bwd"
      <4>1. Nexts(next, n, s, 1 - 1) /\ Skips(next, n, s, 1) /\ 1 \in 1 .. n
        BY <1>3, <2>2, <2>3, <3>2 DEF State, Skips
      <4>2. head = NewHead(n, s, 1)
        BY <1>3, <2>2, <3>2 DEF State, NewHead, After
      <4>3. QED
        BY <4>1, <4>2
    <3>3. QED
      BY <3>1, <3>2
  <2>5. Reads(head, next, n - 1, Without(s, n, j)) /\ Enum(n - 1, Without(s, n, j), own \ {s[j]})
    BY <2>1, <2>4, WithoutReads
  <2>6. Without(s, n, j) \in [1 .. n - 1 -> own]
    BY <2>5, EnumFacts, Fewer
  <2>7. QED
    BY <1>3, <2>2, <2>3, <2>5, <2>6 DEF Forward
<1>4. CASE pc = "last" \/ (pc = "end" /\ n # 1)
  <2>1. Enum(n, s, own) /\ Nexts(next, n, s, 0)
    BY <1>4 DEF State
  <2>2. n \in Nat /\ \A i \in 1 .. n : s[i] \in own
    BY <2>1, EnumFacts
  <2>3. n > 1 /\ head = s[1] /\ tail \in {s[n], s[n - 1]}
    BY <1>4, <2>2 DEF State
  <2>4. head = After(s, n, 0)
    BY <2>2, <2>3 DEF After
  <2>5. Reads(head, next, n, s) /\ s \in [1 .. n -> own]
    BY <2>1, <2>4, NumberedReads
  <2>6. QED
    BY <1>4, <2>2, <2>3, <2>5 DEF Forward
<1>5. QED
  BY <1>1, <1>2, <1>3, <1>4 DEF Types, TypeOK
-----------------------------------------------------------------------------
(***************************************************************************)
(* The steps of a list that no call has left half changed                  *)
(***************************************************************************)
Failed == Leave /\ UNCHANGED file

\* Calls that begin, and the loop of extend.
LEMMA BeginStep ==
  ASSUME Types, NEW n, NEW s, NEW k, State(n, s, k),
         \/ (\E m \in 1 .. MaxExtend : Extend(m)) \/ Extended \/ Clear
         \/ \E q \in Link : Shrink(q)
  PROVE  Ordered'
<1>1. pc \in {"idle", "get"} /\ UNCHANGED file /\ pc' \in {"idle", "get", "step"}
  BY DEF Extend, Extended, Clear, Shrink, Leave
<1>2. pc' = "step" => op' \in {"clear", "shrink"} /\ it' = IF op' = "clear" THEN head ELSE tail
  BY DEF Extend, Extended, Clear, Shrink, Leave
<1>3. Whole(head, tail, next, prev, n, s, own)
  BY <1>1 DEF State
<1>4. State(n, s, k)'
  BY <1>1, <1>2, <1>3 DEF State, file, Cutting
<1>5. QED
  BY <1>4 DEF Ordered

LEMMA DeleteStep ==
  ASSUME Types, NEW n, NEW s, NEW k, State(n, s, k), NEW p \in Page, DeleteNode(p)
  PROVE  Ordered'
<1>1. pc = "idle" /\ p \in own /\ pc' = "unlink" /\ op' = "delete" /\ page' = p /\ UNCHANGED file
  BY DEF DeleteNode
<1>2. Whole(head, tail, next, prev, n, s, own)
  BY <1>1 DEF State
<1>3. PICK j \in 1 .. n : s[j] = p
  BY <1>1, <1>2, EnumFacts DEF Whole
<1>4. State(n, s, j)'
  BY <1>1, <1>2, <1>3 DEF State, file, Cutting, Deletes
<1>5. QED
  BY <1>4 DEF Ordered

LEMMA GetStep ==
  ASSUME Types, NEW n, NEW s, NEW k, State(n, s, k), GetPage
  PROVE  Ordered'
<1>1. Whole(head, tail, next, prev, n, s, own)
  BY DEF State, GetPage
<1>2. CASE Failed
  <2>1. State(n, s, k)'
    BY <1>1, <1>2 DEF State, Failed, Leave, file, Cutting
  <2>2. QED
    BY <2>1 DEF Ordered
<1>3. CASE \E p \in Page \ own :
             /\ own' = own \cup {p} /\ page' = p
             /\ pc' = "head" /\ todo' = todo - 1
             /\ UNCHANGED <<head, tail, next, prev, op, it, stop, harm>>
  <2>1. own' \ {page'} = own /\ page' \in own' /\ pc' = "head"
        /\ UNCHANGED <<head, tail, next, prev>>
    BY <1>3
  <2>2. State(n, s, k)'
    BY <1>1, <2>1 DEF State, Others, Cutting
  <2>3. QED
    BY <2>2 DEF Ordered
<1>4. QED
  BY <1>2, <1>3 DEF GetPage, Failed, Fail

LEMMA HeadStep ==
  ASSUME Types, NEW n, NEW s, NEW k, State(n, s, k), SetHead
  PROVE  Ordered'
<1>1. /\ pc = "head" /\ pc' = "zero" /\ UNCHANGED <<tail, next, prev, own, page, op, it>>
      /\ head' = IF head = 0 THEN page ELSE head
  BY DEF SetHead, At
<1>2. page \in own /\ Whole(head, tail, next, prev, n, s, own \ {page})
  BY <1>1 DEF State, Others
<1>3. Enum(n, s, own \ {page}) /\ head = After(s, n, 0) /\ tail = Before(s, n + 1)
      /\ Nexts(next, n, s, 0) /\ Prevs(prev, n, s, 0)
  BY <1>2 DEF Whole
<1>4. head' = First(n, s, page)
  BY <1>1, <1>3, EnumFacts, Pages DEF After, First
<1>5. State(n, s, k)'
  BY <1>1, <1>2, <1>3, <1>4 DEF State, Others, Cutting
<1>6. QED
  BY <1>5 DEF Ordered

LEMMA ZeroStep ==
  ASSUME Types, NEW n, NEW s, NEW k, State(n, s, k), ZeroNode
  PROVE  Ordered'
<1> DEFINE nx == [next EXCEPT ![page] = 0]
           pv == [prev EXCEPT ![page] = 0]
<1>1. /\ pc = "zero" /\ pc' = (IF tail # 0 THEN "link" ELSE "tail")
      /\ UNCHANGED <<head, tail, own, page, op, it>> /\ next' = nx /\ prev' = pv
  BY DEF ZeroNode, At
<1>2. /\ page \in own /\ Enum(n, s, own \ {page}) /\ Prevs(prev, n, s, 0) /\ Nexts(next, n, s, 0)
      /\ head = First(n, s, page) /\ tail = Before(s, n + 1)
  BY <1>1 DEF State, Others
<1>3. Nexts(nx, n, s, 0) /\ Prevs(pv, n, s, 0)
  <2>1. own \ {page} \subseteq Page /\ page \notin own \ {page}
    BY Pages
  <2>2. QED
    BY <1>2, <2>1, Pages, Elsewhere
<1>4. nx[page] = 0 /\ pv[page] = 0
  BY <1>2, Pages
<1> HIDE DEF nx, pv
<1>5. n \in Nat /\ (tail = 0 <=> n = 0)
  BY <1>2, EnumFacts, Pages DEF Before
<1>6. n = 0 => Nexts(nx, n, s, n) /\ Ends(nx, n, s, page)
  BY <1>3, <1>5 DEF Nexts, Ends
<1>7. n # 0 => n > 0
  BY <1>5
<1>8. State(n, s, k)'
  BY <1>1, <1>2, <1>3, <1>4, <1>5, <1>6, <1>7 DEF State, Others, Cutting
<1>9. QED
  BY <1>8 DEF Ordered

LEMMA LinkStep ==
  ASSUME Types, NEW n, NEW s, NEW k, State(n, s, k), LinkTail
  PROVE  Ordered' \/ Failed
<1> SUFFICES ASSUME ~ Failed PROVE Ordered'
  OBVIOUS
<1> DEFINE nx == [next EXCEPT ![tail] = page]
<1>1. /\ pc = "link" /\ pc' = "back" /\ next' = nx
      /\ UNCHANGED <<head, tail, prev, own, page, op, it>>
  BY DEF LinkTail, At, Fail, Failed
<1>2. /\ page \in own /\ Enum(n, s, own \ {page}) /\ Prevs(prev, n, s, 0) /\ Nexts(next, n, s, 0)
      /\ head = First(n, s, page) /\ tail = Before(s, n + 1) /\ next[page] = 0 /\ n > 0
  BY <1>1 DEF State, Others
<1>3. n \in Nat /\ n \in 1 .. n /\ tail = s[n] /\ s[n] \in own \ {page}
  BY <1>2, EnumFacts DEF Before
<1>4. Nexts(nx, n, s, n) /\ nx[s[n]] = page
  <2>1. (\A p \in own \ {page} : p # s[n] => nx[p] = next[p]) /\ nx[s[n]] = page
    BY <1>3, Pages
  <2> HIDE DEF nx
  <2>2. QED
    BY <1>2, <1>3, <2>1, AtNumber
<1>5. nx[page] = 0
  BY <1>2, <1>3, Pages
<1> HIDE DEF nx
<1>6. Ends(nx, n, s, page)
  BY <1>4 DEF Ends
<1>7. State(n, s, k)'
  BY <1>1, <1>2, <1>4, <1>5, <1>6 DEF State, Others, Cutting
<1>8. QED
  BY <1>7 DEF Ordered

LEMMA BackStep ==
  ASSUME Types, NEW n, NEW s, NEW k, State(n, s, k), SetPrev
  PROVE  Ordered'
<1> DEFINE pv == [prev EXCEPT ![page] = tail]
<1>1. /\ pc = "back" /\ pc' = "tail" /\ prev' = pv
      /\ UNCHANGED <<head, tail, next, own, page, op, it>>
  BY DEF SetPrev, At
<1>2. /\ page \in own /\ Enum(n, s, own \ {page}) /\ Prevs(prev, n, s, 0) /\ Nexts(next, n, s, n)
      /\ head = First(n, s, page) /\ tail = Before(s, n + 1) /\ next[page] = 0
      /\ Ends(next, n, s, page)
  BY <1>1 DEF State, Others
<1>3. Prevs(pv, n, s, 0) /\ pv[page] = tail
  <2>1. own \ {page} \subseteq Page /\ page \notin own \ {page} /\ page \in Page
    BY <1>2, Pages
  <2>2. QED
    BY <1>2, <2>1, Pages, Elsewhere
<1> HIDE DEF pv
<1>4. State(n, s, k)'
  BY <1>1, <1>2, <1>3 DEF State, Others, Cutting
<1>5. QED
  BY <1>4 DEF Ordered

LEMMA TailStep ==
  ASSUME Types, NEW n, NEW s, NEW k, State(n, s, k), SetTail
  PROVE  Ordered'
<1>1. /\ pc = "tail" /\ pc' = "get" /\ tail' = page
      /\ UNCHANGED <<head, next, prev, own, page, op, it>>
  BY DEF SetTail, At
<1>2. /\ page \in own /\ Enum(n, s, own \ {page}) /\ Prevs(prev, n, s, 0) /\ Nexts(next, n, s, n)
      /\ head = First(n, s, page) /\ prev[page] = Before(s, n + 1) /\ next[page] = 0
      /\ Ends(next, n, s, page)
  BY <1>1 DEF State, Others
<1>3. Whole(head, page, next, prev, n + 1, Added(s, n, page), own)
  BY <1>2, AddedWhole
<1>4. State(n + 1, Added(s, n, page), k)'
  BY <1>1, <1>3 DEF State, Cutting
<1>5. QED
  BY <1>4 DEF Ordered
\* A store into a page of the list.
LEMMA Links ==
  ASSUME Types, NEW n, NEW s, Enum(n, s, own)
  PROVE  /\ Nexts(next, n, s, 0) =>
              \A b \in 1 .. n : \A v : /\ Nexts([next EXCEPT ![s[b]] = v], n, s, b)
                                       /\ [next EXCEPT ![s[b]] = v][s[b]] = v
         /\ Prevs(prev, n, s, 0) =>
              \A b \in 1 .. n : \A v : /\ Prevs([prev EXCEPT ![s[b]] = v], n, s, b)
                                       /\ [prev EXCEPT ![s[b]] = v][s[b]] = v
<1>1. own \subseteq Page /\ next \in [Page -> Link] /\ prev \in [Page -> Link]
  BY Pages
<1>2. ASSUME NEW b \in 1 .. n, NEW v, Nexts(next, n, s, 0)
      PROVE  Nexts([next EXCEPT ![s[b]] = v], n, s, b) /\ [next EXCEPT ![s[b]] = v][s[b]] = v
  <2> DEFINE g == [next EXCEPT ![s[b]] = v]
  <2>1. (\A p \in own : p # s[b] => g[p] = next[p]) /\ g[s[b]] = v
    BY <1>1, EnumFacts
  <2> HIDE DEF g
  <2>2. Nexts(g, n, s, b)
    BY <1>2, <2>1, AtNumber
  <2>3. QED
    BY <2>1, <2>2 DEF g
<1>3. ASSUME NEW b \in 1 .. n, NEW v, Prevs(prev, n, s, 0)
      PROVE  Prevs([prev EXCEPT ![s[b]] = v], n, s, b) /\ [prev EXCEPT ![s[b]] = v][s[b]] = v
  <2> DEFINE g == [prev EXCEPT ![s[b]] = v]
  <2>1. (\A p \in own : p # s[b] => g[p] = prev[p]) /\ g[s[b]] = v
    BY <1>1, EnumFacts
  <2> HIDE DEF g
  <2>2. Prevs(g, n, s, b)
    BY <1>3, <2>1, AtNumber
  <2>3. QED
    BY <2>1, <2>2 DEF g
<1>4. QED
  BY <1>2, <1>3

\* The neighbours of the page numbered k.
LEMMA Neighbours ==
  ASSUME Types, NEW n, NEW s, NEW k \in 1 .. n, Whole(head, tail, next, prev, n, s, own)
  PROVE  /\ n \in Nat /\ k \in Nat /\ n > 0 /\ Enum(n, s, own)
         /\ Nexts(next, n, s, 0) /\ Prevs(prev, n, s, 0)
         /\ head = s[1] /\ tail = s[n] /\ \A i \in 1 .. n : s[i] \in own /\ s[i] # 0
         /\ next[s[k]] = After(s, n, k) /\ prev[s[k]] = Before(s, k)
         /\ (next[s[k]] = 0 <=> k = n) /\ (prev[s[k]] = 0 <=> k = 1)
<1>1. /\ Enum(n, s, own) /\ Nexts(next, n, s, 0) /\ Prevs(prev, n, s, 0)
      /\ head = After(s, n, 0) /\ tail = Before(s, n + 1)
  BY DEF Whole
<1>2. n \in Nat /\ k \in Nat /\ n > 0 /\ \A i \in 1 .. n : s[i] \in own /\ s[i] # 0
  BY <1>1, EnumFacts, Pages
<1>3. next[s[k]] = After(s, n, k) /\ prev[s[k]] = Before(s, k)
  BY <1>1, <1>2 DEF Nexts, Prevs
<1>4. (After(s, n, k) = 0 <=> k = n) /\ (Before(s, k) = 0 <=> k = 1)
  <2>1. (k < n => k + 1 \in 1 .. n) /\ (k > 1 => k - 1 \in 1 .. n)
    BY <1>2
  <2>2. QED
    BY <1>2, <2>1 DEF After, Before
<1>5. head = s[1] /\ tail = s[n]
  BY <1>1, <1>2 DEF After, Before
<1>6. QED
  BY <1>1, <1>2, <1>3, <1>4, <1>5

LEMMA UnlinkStep ==
  ASSUME Types, NEW n, NEW s, NEW k, State(n, s, k), Unlink
  PROVE  Ordered'
<1>1. /\ Whole(head, tail, next, prev, n, s, own) /\ k \in 1 .. n /\ page = s[k]
      /\ op \in Deletes
      /\ op = "clear" => k = 1 /\ it = After(s, n, 1)
      /\ op = "shrink" => k = n /\ it = Before(s, n)
  BY DEF State, Unlink, Cutting
<1>2. /\ n \in Nat /\ k \in Nat /\ n > 0 /\ Enum(n, s, own)
      /\ Nexts(next, n, s, 0) /\ Prevs(prev, n, s, 0)
      /\ head = s[1] /\ tail = s[n] /\ \A i \in 1 .. n : s[i] \in own /\ s[i] # 0
      /\ next[page] = After(s, n, k) /\ prev[page] = Before(s, k)
      /\ (next[page] = 0 <=> k = n) /\ (prev[page] = 0 <=> k = 1)
  BY <1>1, Neighbours
<1>3. CASE Failed
  <2>1. State(n, s, k)'
    BY <1>1, <1>3 DEF State, Failed, Leave, file, Cutting
  <2>2. QED
    BY <2>1 DEF Ordered
<1>4. ASSUME prev[page] # 0, next[page] # 0, At("bwd"), UNCHANGED <<head, tail, prev, own>>,
             next' = [next EXCEPT ![prev[page]] = next[page]]
      PROVE  Ordered'
  <2> DEFINE nx == [next EXCEPT ![s[k - 1]] = s[k + 1]]
  <2>1. k \in 2 .. n - 1 /\ k - 1 \in 1 .. n /\ prev[page] = s[k - 1] /\ next[page] = s[k + 1]
    BY <1>1, <1>2, <1>4 DEF Before, After
  <2>2. Nexts(nx, n, s, k - 1) /\ nx[s[k - 1]] = s[k + 1]
    <3>1. \A b \in 1 .. n : \A v : /\ Nexts([next EXCEPT ![s[b]] = v], n, s, b)
                                   /\ [next EXCEPT ![s[b]] = v][s[b]] = v
      BY <1>2, Links
    <3>2. QED
      BY <2>1, <3>1
  <2>3. next' = nx
    BY <1>4, <2>1
  <2> HIDE DEF nx
  <2>4. Skips(nx, n, s, k)
    <3>1. k < n
      BY <1>2, <2>1
    <3>2. QED
      BY <2>2, <3>1 DEF Skips, After
  <2>5. op = "delete"
    BY <1>1, <2>1 DEF Deletes
  <2>6. State(n, s, k)'
    BY <1>1, <1>2, <1>4, <2>1, <2>2, <2>3, <2>4, <2>5 DEF State, At, Cutting, Deletes
  <2>7. QED
    BY <2>6 DEF Ordered
<1>5. ASSUME prev[page] = 0, head' = next[page], At(IF next[page] # 0 THEN "first" ELSE "end"),
             UNCHANGED <<tail, next, prev, own>>
      PROVE  Ordered'
  <2>1. k = 1 /\ page = s[1] /\ (next[page] = 0 <=> n = 1)
    BY <1>1, <1>2, <1>5
  <2>2. CASE n = 1
    <3>1. pc' = "end" /\ head' = 0 /\ page' = s[n]
      BY <1>1, <1>5, <2>1, <2>2 DEF At
    <3>2. /\ op' = "clear" => it' = head'
          /\ op' = "shrink" => it' = Before(s, n)
      BY <1>1, <1>2, <1>5, <2>1, <2>2, <3>1 DEF At, After
    <3>3. State(n, s, k)'
      BY <1>1, <1>2, <1>5, <2>2, <3>1, <3>2 DEF State, At, Cutting, Deletes
    <3>4. QED
      BY <3>3 DEF Ordered
  <2>3. CASE n # 1
    <3>1. pc' = "first" /\ head' = s[2] /\ n > 1
      BY <1>2, <1>5, <2>1, <2>3 DEF At, After
    <3>2. op' # "shrink" /\ (op' = "clear" => it' = head')
      BY <1>1, <1>2, <1>5, <2>1, <2>3, <3>1 DEF At, After
    <3>3. State(n, s, k)'
      BY <1>1, <1>2, <1>5, <2>1, <3>1, <3>2 DEF State, At, Cutting, Deletes
    <3>4. QED
      BY <3>3 DEF Ordered
  <2>4. QED
    BY <2>2, <2>3
<1>6. ASSUME prev[page] # 0, next[page] = 0, At("end"), UNCHANGED file
      PROVE  Ordered'
  <2>1. k = n /\ n # 1 /\ op # "clear"
    BY <1>1, <1>2, <1>6
  <2>2. State(n, s, k)'
    BY <1>1, <1>2, <1>6, <2>1 DEF State, At, Cutting, Deletes, file
  <2>3. QED
    BY <2>2 DEF Ordered
<1>7. QED
  BY <1>3, <1>4, <1>5, <1>6 DEF Unlink, Fail, Failed

LEMMA UnlinkBackStep ==
  ASSUME Types, NEW n, NEW s, NEW k, State(n, s, k), UnlinkBack
  PROVE  Ordered'
<1>1. /\ pc = "bwd" /\ pc' = "return" /\ UNCHANGED <<head, tail, next, own, page, op, it>>
      /\ prev' = [prev EXCEPT ![next[page]] = prev[page]]
  BY DEF UnlinkBack, At
<1>2. /\ Enum(n, s, own) /\ Prevs(prev, n, s, 0)
      /\ k \in 2 .. n - 1 /\ page = s[k] /\ op = "delete" /\ head = s[1] /\ tail = s[n]
      /\ Nexts(next, n, s, k - 1) /\ Skips(next, n, s, k)
  BY <1>1 DEF State
<1>3. n \in Nat /\ k \in 1 .. n /\ k + 1 \in 1 .. n /\ k > 1 /\ k < n /\ k # 1 /\ k # n /\ k # k - 1
  BY <1>2, EnumFacts
<1>4. next[s[k]] = s[k + 1] /\ prev[s[k]] = Before(s, k) /\ s[k] \in own
  BY <1>2, <1>3, EnumFacts DEF Nexts, Prevs, After
<1> DEFINE pv == [prev EXCEPT ![s[k + 1]] = Before(s, k)]
<1>5. prev' = pv
  BY <1>1, <1>2, <1>4
<1>6. Prevs(pv, n, s, k + 1) /\ pv[s[k + 1]] = Before(s, k)
  <2>1. \A b \in 1 .. n : \A v : /\ Prevs([prev EXCEPT ![s[b]] = v], n, s, b)
                                 /\ [prev EXCEPT ![s[b]] = v][s[b]] = v
    BY <1>2, Links
  <2>2. QED
    BY <1>3, <2>1
<1> HIDE DEF pv
<1>7. SkipsBack(pv, n, s, k) /\ head = NewHead(n, s, k) /\ tail = NewEnd(n, s, k)
  BY <1>2, <1>3, <1>6 DEF SkipsBack, NewHead, NewEnd
<1>8. Whole(head, tail, next, pv, n - 1, Without(s, n, k), own \ {s[k]})
  BY <1>2, <1>3, <1>6, <1>7, WithoutWhole
<1>9. State(n - 1, Without(s, n, k), k)'
  BY <1>1, <1>2, <1>4, <1>5, <1>8 DEF State, Others, Cutting, Deletes
<1>10. QED
  BY <1>9 DEF Ordered

LEMMA FirstStep ==
  ASSUME Types, NEW n, NEW s, NEW k, State(n, s, k), NewFirst
  PROVE  Ordered' \/ Failed
<1> SUFFICES ASSUME ~ Failed PROVE Ordered'
  OBVIOUS
<1>1. /\ pc = "first" /\ pc' = "return" /\ UNCHANGED <<head, tail, next, own, page, op, it>>
      /\ prev' = [prev EXCEPT ![next[page]] = 0]
  BY DEF NewFirst, At, Fail, Failed
<1>2. /\ Enum(n, s, own) /\ Prevs(prev, n, s, 0) /\ Nexts(next, n, s, 0) /\ op \in Deletes
      /\ n > 1 /\ page = s[1] /\ op # "shrink" /\ head = s[2] /\ tail = s[n]
      /\ op = "clear" => it = head
  BY <1>1 DEF State, Cutting
<1>3. n \in Nat /\ 1 \in 1 .. n /\ 1 + 1 \in 1 .. n /\ 1 # n
  BY <1>2, EnumFacts
<1>4. next[s[1]] = s[2] /\ s[1] \in own
  BY <1>2, <1>3, EnumFacts DEF Nexts, After
<1> DEFINE pv == [prev EXCEPT ![s[1 + 1]] = 0]
<1>5. prev' = pv
  BY <1>1, <1>2, <1>4
<1>6. Prevs(pv, n, s, 1 + 1) /\ pv[s[1 + 1]] = 0
  <2>1. \A b \in 1 .. n : \A v : /\ Prevs([prev EXCEPT ![s[b]] = v], n, s, b)
                                 /\ [prev EXCEPT ![s[b]] = v][s[b]] = v
    BY <1>2, Links
  <2>2. QED
    BY <1>3, <2>1
<1> HIDE DEF pv
<1>7. SkipsBack(pv, n, s, 1) /\ head = NewHead(n, s, 1) /\ tail = NewEnd(n, s, 1)
  BY <1>2, <1>3, <1>6 DEF SkipsBack, NewHead, NewEnd, Before, After
<1>8. Nexts(next, n, s, 1 - 1) /\ Skips(next, n, s, 1)
  BY <1>2 DEF Skips
<1>9. Whole(head, tail, next, pv, n - 1, Without(s, n, 1), own \ {s[1]})
  BY <1>2, <1>3, <1>6, <1>7, <1>8, WithoutWhole
<1>10. State(n - 1, Without(s, n, 1), k)'
  BY <1>1, <1>2, <1>4, <1>5, <1>9 DEF State, Others, Cutting, Deletes
<1>11. QED
  BY <1>10 DEF Ordered

LEMMA EndStep ==
  ASSUME Types, NEW n, NEW s, NEW k, State(n, s, k), NewTail
  PROVE  Ordered'
<1>1. /\ pc = "end" /\ UNCHANGED <<head, next, prev, own, page, op, it>> /\ tail' = prev[page]
      /\ pc' = IF prev[page] # 0 THEN "last" ELSE "return"
  BY DEF NewTail, At
<1>2. /\ Enum(n, s, own) /\ Prevs(prev, n, s, 0) /\ Nexts(next, n, s, 0) /\ op \in Deletes
      /\ n > 0 /\ page = s[n] /\ head = (IF n = 1 THEN 0 ELSE s[1])
      /\ op = "clear" => n = 1 /\ it = head
      /\ op = "shrink" => it = Before(s, n)
  BY <1>1 DEF State, Cutting
<1>3. n \in Nat /\ n \in 1 .. n /\ (\A i \in 1 .. n : s[i] \in own /\ s[i] # 0)
  BY <1>2, EnumFacts, Pages
<1>4. prev[page] = Before(s, n)
  BY <1>2, <1>3 DEF Prevs
<1>5. CASE n = 1
  <2>1. tail' = 0 /\ pc' = "return"
    BY <1>1, <1>4, <1>5 DEF Before
  <2>2. Nexts(next, n, s, n - 1) /\ Skips(next, n, s, n) /\ SkipsBack(prev, n, s, n)
    BY <1>2, <1>5 DEF Skips, SkipsBack
  <2>3. 0 = NewHead(n, s, n) /\ 0 = NewEnd(n, s, n)
    BY <1>5 DEF NewHead, NewEnd, After, Before
  <2>4. Prevs(prev, n, s, n + 1)
    BY <1>2, <1>3 DEF Prevs
  <2>5. Whole(0, 0, next, prev, n - 1, Without(s, n, n), own \ {s[n]})
    BY <1>2, <1>3, <2>2, <2>3, <2>4, WithoutWhole
  <2>6. head = 0 /\ (op = "shrink" => it = 0)
    BY <1>2, <1>5 DEF Before
  <2>7. State(n - 1, Without(s, n, n), k)'
    BY <1>1, <1>2, <1>3, <2>1, <2>5, <2>6 DEF State, Others, Cutting, Deletes
  <2>8. QED
    BY <2>7 DEF Ordered
<1>6. CASE n # 1
  <2>1. n > 1 /\ n - 1 \in 1 .. n
    BY <1>3, <1>6
  <2>2. tail' = s[n - 1] /\ pc' = "last" /\ head = s[1] /\ (op = "shrink" => it = tail')
    BY <1>1, <1>2, <1>3, <1>4, <1>6, <2>1 DEF Before
  <2>3. State(n, s, k)'
    BY <1>1, <1>2, <1>6, <2>1, <2>2 DEF State, Cutting, Deletes
  <2>4. QED
    BY <2>3 DEF Ordered
<1>7. QED
  BY <1>5, <1>6

LEMMA LastStep ==
  ASSUME Types, NEW n, NEW s, NEW k, State(n, s, k), NewLast
  PROVE  Ordered' \/ Failed
<1> SUFFICES ASSUME ~ Failed PROVE Ordered'
  OBVIOUS
<1>1. /\ pc = "last" /\ pc' = "return" /\ UNCHANGED <<head, tail, prev, own, page, op, it>>
      /\ next' = [next EXCEPT ![prev[page]] = 0]
  BY DEF NewLast, At, Fail, Failed
<1>2. /\ Enum(n, s, own) /\ Prevs(prev, n, s, 0) /\ Nexts(next, n, s, 0) /\ op \in Deletes
      /\ n > 1 /\ page = s[n] /\ op # "clear" /\ head = s[1] /\ tail = s[n - 1]
      /\ op = "shrink" => it = tail
  BY <1>1 DEF State, Cutting
<1>3. n \in Nat /\ n \in 1 .. n /\ n - 1 \in 1 .. n /\ n # 1
  BY <1>2, EnumFacts
<1>4. prev[s[n]] = s[n - 1] /\ s[n] \in own
  BY <1>2, <1>3, EnumFacts DEF Prevs, Before
<1> DEFINE nx == [next EXCEPT ![s[n - 1]] = 0]
<1>5. next' = nx
  BY <1>1, <1>2, <1>4
<1>6. Nexts(nx, n, s, n - 1) /\ nx[s[n - 1]] = 0
  <2>1. \A b \in 1 .. n : \A v : /\ Nexts([next EXCEPT ![s[b]] = v], n, s, b)
                                 /\ [next EXCEPT ![s[b]] = v][s[b]] = v
    BY <1>2, Links
  <2>2. QED
    BY <1>3, <2>1
<1> HIDE DEF nx
<1>7. /\ Skips(nx, n, s, n) /\ SkipsBack(prev, n, s, n)
      /\ head = NewHead(n, s, n) /\ tail = NewEnd(n, s, n)
  BY <1>2, <1>3, <1>6 DEF Skips, SkipsBack, NewHead, NewEnd, Before, After
<1>8. Prevs(prev, n, s, n + 1)
  BY <1>2, <1>3 DEF Prevs
<1>9. Whole(head, tail, nx, prev, n - 1, Without(s, n, n), own \ {s[n]})
  BY <1>2, <1>3, <1>6, <1>7, <1>8, WithoutWhole
<1>10. State(n - 1, Without(s, n, n), k)'
  BY <1>1, <1>2, <1>4, <1>5, <1>9 DEF State, Others, Cutting, Deletes
<1>11. QED
  BY <1>10 DEF Ordered
LEMMA ReturnStep ==
  ASSUME Types, NEW n, NEW s, NEW k, State(n, s, k), ReturnPage
  PROVE  Ordered' \/ Failed
<1> SUFFICES ASSUME ~ Failed PROVE Ordered'
  OBVIOUS
<1>1. pc = "return" /\ own' = own \ {page} /\ UNCHANGED <<head, tail, prev>>
  BY DEF ReturnPage, Fail, Failed
<1>2. PICK p : next' = [next EXCEPT ![page] = p]
  BY DEF ReturnPage, Fail, Failed
<1>3. \/ pc' = "idle"
      \/ op # "delete" /\ pc' = "step" /\ UNCHANGED <<op, page, it>>
  BY DEF ReturnPage, Fail, Failed, Leave, At
<1>4. /\ page \in own /\ Whole(head, tail, next, prev, n, s, own \ {page}) /\ op \in Deletes
      /\ op = "clear" => it = head
      /\ op = "shrink" => it = tail
  BY <1>1 DEF State, Others, Cutting
<1>5. Enum(n, s, own \ {page}) /\ Nexts(next, n, s, 0)
  BY <1>4 DEF Whole
<1> DEFINE nx == [next EXCEPT ![page] = p]
<1>6. Nexts(nx, n, s, 0)
  <2>1. own \ {page} \subseteq Page /\ page \notin own \ {page}
    BY Pages
  <2>2. QED
    BY <1>5, <2>1, Pages, Elsewhere
<1> HIDE DEF nx
<1>7. Whole(head, tail, nx, prev, n, s, own \ {page})
  BY <1>4, <1>6 DEF Whole
<1>8. next' = nx
  BY <1>2 DEF nx
<1>9. pc' = "step" => op' \in {"clear", "shrink"} /\ it' = IF op' = "clear" THEN head' ELSE tail'
  BY <1>1, <1>3, <1>4 DEF Deletes
<1>10. State(n, s, k)'
  BY <1>1, <1>3, <1>7, <1>8, <1>9 DEF State, Cutting
<1>11. QED
  BY <1>10 DEF Ordered

LEMMA GotoStep ==
  ASSUME Types, NEW n, NEW s, NEW k, State(n, s, k), GotoNext
  PROVE  Ordered'
<1>1. /\ Whole(head, tail, next, prev, n, s, own) /\ op \in {"clear", "shrink"}
      /\ it = (IF op = "clear" THEN head ELSE tail) /\ it # 0
  BY DEF State, GotoNext
<1>2. CASE Failed
  <2>1. State(n, s, k)'
    BY <1>1, <1>2 DEF State, Failed, Leave, file, Cutting
  <2>2. QED
    BY <2>1 DEF Ordered
<1>3. CASE ~ Failed
  <2>1. /\ page' = it /\ it' = (IF op = "clear" THEN next[it] ELSE prev[it])
        /\ pc' = "unlink" /\ UNCHANGED <<file, op>>
    BY <1>3 DEF GotoNext, Fail, Failed
  <2>2. n \in Nat /\ n > 0
    <3>1. Enum(n, s, own) /\ head = After(s, n, 0) /\ tail = Before(s, n + 1)
      BY <1>1 DEF Whole
    <3>2. QED
      BY <1>1, <3>1, EnumFacts DEF After, Before
  <2>3. PICK j \in 1 .. n : j = (IF op = "clear" THEN 1 ELSE n)
    BY <2>2
  <2>4. /\ head = s[1] /\ tail = s[n]
        /\ next[s[j]] = After(s, n, j) /\ prev[s[j]] = Before(s, j)
    BY <1>1, Neighbours
  <2>5. /\ page' = s[j]
        /\ op = "clear" => j = 1 /\ it' = After(s, n, 1)
        /\ op = "shrink" => j = n /\ it' = Before(s, n)
    BY <1>1, <2>1, <2>3, <2>4
  <2>6. State(n, s, j)'
    BY <1>1, <2>1, <2>3, <2>5 DEF State, file, Cutting, Deletes
  <2>7. QED
    BY <2>6 DEF Ordered
<1>4. QED
  BY <1>2, <1>3

\* A loop that deletes is over, and clear resets the header.
LEMMA LoopStep ==
  ASSUME Types, NEW n, NEW s, NEW k, State(n, s, k), LoopEnds \/ ResetHeader
  PROVE  Ordered'
<1>1. pc \in {"step", "reset"} /\ Whole(head, tail, next, prev, n, s, own)
  BY DEF State, LoopEnds, ResetHeader
<1>2. CASE LoopEnds
  <2>1. UNCHANGED file /\ (pc' = "idle" \/ (pc' = "reset" /\ op = "clear"))
    BY <1>2 DEF LoopEnds, At, Leave
  <2>2. op = "clear" => head = 0
    BY <1>2 DEF LoopEnds, State, Types
  <2>3. State(n, s, k)'
    BY <1>1, <2>1, <2>2 DEF State, file, Cutting
  <2>4. QED
    BY <2>3 DEF Ordered
<1>3. CASE ResetHeader
  <2>1. head = 0 /\ head' = 0 /\ tail' = 0 /\ pc' = "idle" /\ UNCHANGED <<next, prev, own>>
    BY <1>3 DEF ResetHeader, State, Leave
  <2>2. tail = 0
    <3>1. Enum(n, s, own) /\ head = After(s, n, 0) /\ tail = Before(s, n + 1)
      BY <1>1 DEF Whole
    <3>2. n = 0
      BY <2>1, <3>1, EnumFacts, Pages DEF After
    <3>3. QED
      BY <3>1, <3>2 DEF Before
  <2>3. State(n, s, k)'
    BY <1>1, <2>1, <2>2 DEF State, Cutting
  <2>4. QED
    BY <2>3 DEF Ordered
<1>4. QED
  BY <1>2, <1>3

\* A call that is cut short, by a failure that has changed the list or by a kill.
LEMMA CutStep ==
  ASSUME Types, Ordered, Failed, ~ (pc = "zero" /\ head = page)
  PROVE  Readable'
<1>1. PICK n, s, k : State(n, s, k)
  BY DEF Ordered
<1>2. tail \in own \cup {0} /\ Forward
  BY <1>1, StateForward
<1>3. PICK m, w : Reads(head, next, m, w) /\ w \in [1 .. m -> own]
  BY <1>2 DEF Forward
<1>4. UNCHANGED file /\ pc' = "idle"
  BY DEF Failed, Leave
<1>5. m \in Nat
  BY <1>3 DEF Reads
<1>6. Sound(m, w)'
  BY <1>2, <1>3, <1>4, <1>5 DEF Sound, file, Growing
<1>7. QED
  BY <1>6 DEF Readable
-----------------------------------------------------------------------------
(***************************************************************************)
(* The steps of a list that a call has left half changed                   *)
(***************************************************************************)
LEMMA SoundStays ==
  ASSUME Types, NEW n, NEW s, Sound(n, s), ~ (pc = "zero" /\ head = page),
         (\E m \in 1 .. MaxExtend : Extend(m)) \/ Extended \/ Failed \/ SetPrev \/ SetTail
  PROVE  Readable'
<1>1. /\ n \in Nat /\ s \in [1 .. n -> own] /\ tail \in own \cup {0} /\ Reads(head, next, n, s)
      /\ pc \in Growing => page \in own
  BY DEF Sound
<1>2. /\ UNCHANGED <<head, next, own>> /\ pc' \in {"idle", "get", "tail"}
      /\ pc' = "tail" => page' = page /\ page \in own
      /\ tail' \in {tail, page} /\ (tail' = tail \/ page \in own)
  BY <1>1 DEF Extend, Extended, Failed, SetPrev, SetTail, At, Leave, file, Growing
<1>3. Sound(n, s)'
  BY <1>1, <1>2 DEF Sound, Growing
<1>4. QED
  BY <1>3 DEF Readable

LEMMA SoundGet ==
  ASSUME Types, NEW n, NEW s, Sound(n, s), GetPage
  PROVE  Readable'
<1>1. /\ n \in Nat /\ s \in [1 .. n -> own] /\ tail \in own \cup {0} /\ Reads(head, next, n, s)
      /\ pc = "get"
  BY DEF Sound, GetPage
<1>2. CASE Failed
  BY <1>1, <1>2, SoundStays
<1>3. CASE ~ Failed
  <2>1. PICK p \in Page \ own :
           own' = own \cup {p} /\ page' = p /\ pc' = "head" /\ UNCHANGED <<head, tail, next, prev>>
    BY <1>3 DEF GetPage, Fail, Failed
  <2>2. tail # p /\ (\A i \in 1 .. n : s[i] # p) /\ s \in [1 .. n -> own']
    BY <1>1, <2>1, Pages
  <2>3. Sound(n, s)'
    BY <1>1, <2>1, <2>2 DEF Sound, Growing
  <2>4. QED
    BY <2>3 DEF Readable
<1>4. QED
  BY <1>2, <1>3

LEMMA SoundHead ==
  ASSUME Types, NEW n, NEW s, Sound(n, s), SetHead
  PROVE  Readable'
<1>1. /\ n \in Nat /\ s \in [1 .. n -> own] /\ tail \in own \cup {0} /\ Reads(head, next, n, s)
      /\ page \in own /\ tail # page /\ \A i \in 1 .. n : s[i] # page
  BY DEF Sound, SetHead, Growing
<1>2. /\ pc' = "zero" /\ UNCHANGED <<tail, next, prev, own, page>>
      /\ head' = page \/ head' = head
  BY DEF SetHead, At
<1>3. Sound(n, s)'
  BY <1>1, <1>2 DEF Sound, Growing
<1>4. QED
  BY <1>3 DEF Readable

\* The first page of a list, once its node is zeroed.
LEMMA SoundZero ==
  ASSUME Types, NEW n, NEW s, Sound(n, s), ZeroNode
  PROVE  Readable'
<1> DEFINE nx == [next EXCEPT ![page] = 0]
<1>1. /\ pc = "zero" /\ n \in Nat /\ s \in [1 .. n -> own] /\ tail \in own \cup {0}
      /\ page \in own /\ tail # page
      /\ head # page => Reads(head, next, n, s) /\ \A i \in 1 .. n : s[i] # page
  BY DEF Sound, ZeroNode, Growing
<1>2. /\ pc' = (IF tail # 0 THEN "link" ELSE "tail") /\ next' = nx
      /\ UNCHANGED <<head, tail, own, page>>
  BY DEF ZeroNode, At
<1>3. nx[page] = 0 /\ \A p \in own \ {page} : nx[p] = next[p]
  BY <1>1, Pages
<1> HIDE DEF nx
<1>4. pc' \in {"link", "tail"} /\ (pc' = "link" => tail' # 0)
  BY <1>2
<1>5. ASSUME NEW m \in Nat, NEW w \in [1 .. m -> own], Reads(head, nx, m, w),
             (\A i \in 1 .. m : w[i] # page) \/ (m = 1 /\ w[1] = page)
      PROVE  Readable'
  <2>1. Reads(head', next', m, w) /\ w \in [1 .. m -> own']
    BY <1>2, <1>5
  <2>2. Sound(m, w)'
    BY <1>1, <1>2, <1>3, <1>4, <1>5, <2>1 DEF Sound, Growing
  <2>3. QED
    BY <2>2 DEF Readable
<1>6. CASE head # page
  <2>1. \A i \in 1 .. n : s[i] \in own \ {page}
    BY <1>1, <1>6
  <2>2. Nexts(nx, n, s, 0)
    BY <1>1, <1>3, <1>6, <2>1 DEF Reads, Nexts
  <2>3. Reads(head, nx, n, s)
    BY <1>1, <1>6, <2>2 DEF Reads
  <2>4. QED
    BY <1>1, <1>5, <1>6, <2>3
<1>7. CASE head = page
  <2> DEFINE w == [i \in 1 .. 1 |-> page]
  <2>1. w \in [1 .. 1 -> own] /\ w[1] = page /\ \A i \in 1 .. 1 : i = 1
    BY <1>1
  <2> HIDE DEF w
  <2>2. head = After(w, 1, 0) /\ Nexts(nx, 1, w, 0)
    BY <1>3, <1>7, <2>1 DEF After, Nexts
  <2>3. Reads(head, nx, 1, w)
    BY <2>1, <2>2 DEF Reads
  <2>4. QED
    BY <1>5, <2>1, <2>3
<1>8. QED
  BY <1>6, <1>7

\* The tail may be a page the list read forward does not have any more, or one in the
\* middle of it: then the new page takes the place of what follows.
LEMMA SoundLink ==
  ASSUME Types, NEW n, NEW s, Sound(n, s), LinkTail
  PROVE  Readable'
<1>1. /\ pc = "link" /\ n \in Nat /\ s \in [1 .. n -> own] /\ Reads(head, next, n, s)
      /\ page \in own /\ next[page] = 0 /\ tail \in own /\ tail # page
      /\ (\A i \in 1 .. n : s[i] # page) \/ (n = 1 /\ s[1] = page)
  BY DEF Sound, LinkTail, Growing
<1>2. CASE Failed
  BY <1>1, <1>2, SoundStays
<1>3. CASE ~ Failed
  <2> DEFINE nx == [next EXCEPT ![tail] = page]
  <2>1. pc' = "back" /\ next' = nx /\ UNCHANGED <<head, tail, own, page>>
    BY <1>3 DEF LinkTail, At, Fail, Failed
  <2>2. nx[tail] = page /\ nx[page] = 0 /\ \A p \in own \ {tail} : nx[p] = next[p]
    BY <1>1, Pages
  <2> HIDE DEF nx
  <2>3. ASSUME NEW m \in Nat, NEW w \in [1 .. m -> own], Reads(head, nx, m, w)
        PROVE  Readable'
    <3>1. Sound(m, w)'
      BY <1>1, <2>1, <2>3 DEF Sound, Growing
    <3>2. QED
      BY <3>1 DEF Readable
  <2>4. CASE \A i \in 1 .. n : s[i] # tail
    <3>1. Nexts(nx, n, s, 0)
      BY <1>1, <2>2, <2>4 DEF Reads, Nexts
    <3>2. Reads(head, nx, n, s)
      BY <1>1, <3>1 DEF Reads
    <3>3. QED
      BY <1>1, <2>3, <3>2
  <2>5. ASSUME NEW j \in 1 .. n, s[j] = tail
        PROVE  Readable'
    <3> DEFINE w == [i \in 1 .. j |-> s[i]]
               S == {s[i] : i \in 1 .. j} \cup {page}
    <3>1. n \in Nat /\ j \in Nat /\ j > 0 /\ j <= n /\ n > 0 /\ 1 \in 1 .. n /\ \A i \in 1 .. j : i \in 1 .. n
      BY <1>1
    <3>2. \A i \in 1 .. n : s[i] # page
      <4>1. n = 1 => j = 1
        BY <3>1
      <4>2. QED
        BY <1>1, <2>5, <4>1
    <3>3. \A i, l \in 1 .. n : s[i] = s[l] => i = l
      BY <1>1 DEF Reads
    <3>4. \A i \in 1 .. j : w[i] = s[i]
      OBVIOUS
    <3>5. Enum(j, w, S \ {page})
      <4>1. S \ {page} = {s[i] : i \in 1 .. j}
        BY <3>1, <3>2
      <4>2. w \in [1 .. j -> S \ {page}]
        BY <4>1
      <4>3. \A p \in S \ {page} : \E i \in 1 .. j : w[i] = p
        BY <3>4, <4>1
      <4>4. \A i, l \in 1 .. j : w[i] = w[l] => i = l
        BY <3>1, <3>3, <3>4
      <4>5. QED
        BY <3>1, <4>2, <4>3, <4>4 DEF Enum
    <3> HIDE DEF w
    <3>6. Nexts(nx, j, w, j)
      <4> SUFFICES ASSUME NEW i \in 1 .. j, i # j PROVE nx[w[i]] = After(w, j, i)
        BY DEF Nexts
      <4>1. i \in Nat /\ i < j /\ i < n /\ i + 1 \in 1 .. j /\ i \in 1 .. n /\ i # 0
        <5>1. i \in Nat /\ i > 0 /\ i <= j
          BY <3>1
        <5>2. i < j
          BY <3>1, <5>1
        <5>3. QED
          BY <3>1, <5>1, <5>2
      <4>2. next[s[i]] = s[i + 1]
        BY <1>1, <4>1 DEF Reads, Nexts, After
      <4>3. s[i] \in own \ {tail}
        BY <1>1, <2>5, <3>3, <4>1
      <4>4. QED
        BY <2>2, <3>4, <4>1, <4>2, <4>3 DEF After
    <3>7. Ends(nx, j, w, page)
      BY <2>2, <2>5, <3>1, <3>4 DEF Ends
    <3>8. head = First(j, w, page)
      <4>1. head = s[1] /\ 1 \in 1 .. j
        BY <1>1, <3>1 DEF Reads, After
      <4>2. QED
        BY <3>1, <3>4, <4>1 DEF First
    <3>9. page \in S /\ S \subseteq own
      BY <1>1, <3>1
    <3> HIDE DEF S
    <3>10. Reads(head, nx, j + 1, Added(w, j, page)) /\ Enum(j + 1, Added(w, j, page), S)
      BY <2>2, <3>5, <3>6, <3>7, <3>8, <3>9, AddedReads
    <3>11. Added(w, j, page) \in [1 .. j + 1 -> own] /\ j + 1 \in Nat
      BY <3>9, <3>10, EnumFacts, Fewer
    <3>12. QED
      BY <2>3, <3>10, <3>11
  <2>6. QED
    BY <2>4, <2>5
<1>4. QED
  BY <1>2, <1>3
-----------------------------------------------------------------------------
(***************************************************************************)
(* The invariant holds                                                     *)
(***************************************************************************)
LEMMA InitIInv == Init => IInv
<1> SUFFICES ASSUME Init PROVE IInv
  OBVIOUS
<1>1. Types
  BY ListAssumption DEF Init, Types, TypeOK, Link, Growing, Cutting
<1>2. Ordered
  <2> DEFINE s == [i \in 1 .. 0 |-> 0]
  <2>1. Enum(0, s, own)
    BY DEF Init, Enum
  <2>2. Nexts(next, 0, s, 0) /\ Prevs(prev, 0, s, 0) /\ head = After(s, 0, 0) /\ tail = Before(s, 0 + 1)
    BY DEF Init, Nexts, Prevs, After, Before
  <2> HIDE DEF s
  <2>3. Whole(head, tail, next, prev, 0, s, own)
    BY <2>1, <2>2 DEF Whole
  <2>4. State(0, s, 0)
    BY <2>3 DEF Init, State, Cutting
  <2>5. QED
    BY <2>4 DEF Ordered
<1>3. QED
  BY <1>1, <1>2 DEF Init, IInv

LEMMA OrderedStep ==
  ASSUME Types, harm = "none", Ordered, [Next]_vars
  PROVE  (harm' = "none" /\ Ordered') \/ (harm' = "half" /\ Readable') \/ harm' = "loose"
<1>1. PICK n, s, k : State(n, s, k)
  BY DEF Ordered
<1>2. CASE UNCHANGED vars
  <2>1. State(n, s, k)'
    BY <1>1, <1>2 DEF vars, State, Others
  <2>2. QED
    BY <1>2, <2>1 DEF vars, Ordered
<1>3. CASE User
  <2>1. harm' = "none"
    BY <1>3 DEF User, Extend, DeleteNode, Shrink, Clear, Loosen
  <2>2. Ordered'
    BY <1>1, <1>3, BeginStep, DeleteStep DEF User
  <2>3. QED
    BY <2>1, <2>2
<1>4. CASE Kill
  <2>1. Failed /\ harm' = IF pc = "zero" /\ head = page THEN "loose" ELSE "half"
    BY <1>4 DEF Kill, Failed
  <2>2. QED
    BY <2>1, CutStep
<1>5. CASE Extended \/ GetPage \/ GotoNext \/ LoopEnds \/ ResetHeader
  <2>1. harm' = "none"
    BY <1>5 DEF Extended, GetPage, GotoNext, LoopEnds, ResetHeader, At
  <2>2. Ordered'
    BY <1>1, <1>5, BeginStep, GetStep, GotoStep, LoopStep
  <2>3. QED
    BY <2>1, <2>2
<1>6. CASE SetHead \/ ZeroNode \/ SetPrev \/ SetTail \/ Unlink \/ UnlinkBack \/ NewTail
  <2>1. harm' = "none"
    BY <1>6 DEF SetHead, ZeroNode, SetPrev, SetTail, Unlink, UnlinkBack, NewTail, At
  <2>2. Ordered'
    BY <1>1, <1>6, HeadStep, ZeroStep, BackStep, TailStep, UnlinkStep, UnlinkBackStep, EndStep
  <2>3. QED
    BY <2>1, <2>2
<1>7. CASE LinkTail \/ NewFirst \/ NewLast \/ ReturnPage
  <2>1. pc # "zero" /\ (Ordered' \/ Failed)
    BY <1>1, <1>7, LinkStep, FirstStep, LastStep, ReturnStep
       DEF LinkTail, NewFirst, NewLast, ReturnPage
  <2>2. pc = "return" => page \in own
    BY <1>1 DEF State
  <2>3. \/ harm' = "none" /\ ~ Failed
        \/ harm' = "half" /\ Failed
    <3>1. CASE LinkTail
      BY <3>1 DEF LinkTail, At, Fail, Half, Failed, Leave
    <3>2. CASE NewFirst
      BY <3>2 DEF NewFirst, At, Fail, Half, Failed, Leave
    <3>3. CASE NewLast
      BY <3>3 DEF NewLast, At, Fail, Half, Failed, Leave
    <3>4. CASE ReturnPage
      <4>1. CASE own' = own \ {page}
        <5>1. ~ Failed
          BY <2>2, <3>4, <4>1 DEF ReturnPage, Failed, file
        <5>2. QED
          BY <3>4, <5>1 DEF ReturnPage, At, Fail, Failed
      <4>2. CASE own' # own \ {page}
        BY <3>4, <4>2 DEF ReturnPage, Fail, Half, Failed
      <4>3. QED
        BY <4>1, <4>2
    <3>5. QED
      BY <1>7, <3>1, <3>2, <3>3, <3>4
  <2>4. QED
    BY <2>1, <2>3, CutStep
<1>8. QED
  BY <1>2, <1>3, <1>4, <1>5, <1>6, <1>7 DEF Next, Inside

LEMMA ReadableStep ==
  ASSUME Types, harm = "half", Readable, [Next]_vars
  PROVE  (harm' = "half" /\ Readable') \/ harm' = "loose"
<1>1. PICK n, s : Sound(n, s)
  BY DEF Readable
<1>2. pc \in Growing \cup {"idle", "get"}
  BY <1>1 DEF Sound
<1>3. CASE UNCHANGED vars
  <2>1. Sound(n, s)'
    BY <1>1, <1>3 DEF vars, Sound
  <2>2. QED
    BY <1>3, <2>1 DEF vars, Readable
<1>4. CASE User
  <2>1. harm' = "loose" \/ (harm' = "half" /\ \E m \in 1 .. MaxExtend : Extend(m))
    BY <1>4 DEF User, Extend, DeleteNode, Shrink, Clear, Loosen
  <2>2. pc = "idle"
    BY <1>4 DEF User, Extend, DeleteNode, Shrink, Clear
  <2>3. QED
    BY <1>1, <2>1, <2>2, SoundStays
<1>5. CASE Kill
  <2>1. Failed /\ harm' = IF pc = "zero" /\ head = page THEN "loose" ELSE "half"
    BY <1>5 DEF Kill, Failed
  <2>2. QED
    BY <1>1, <2>1, SoundStays
<1>6. CASE Inside
  <2>1. GetPage \/ Extended \/ SetHead \/ ZeroNode \/ LinkTail \/ SetPrev \/ SetTail
    BY <1>2, <1>6 DEF Inside, Growing, Unlink, UnlinkBack, NewFirst, NewTail, NewLast,
                      ReturnPage, GotoNext, LoopEnds, ResetHeader
  <2>2. harm' = "half"
    BY <2>1 DEF GetPage, Extended, SetHead, ZeroNode, LinkTail, SetPrev, SetTail, At, Half
  <2>3. Extended \/ SetPrev \/ SetTail => pc # "zero"
    BY DEF Extended, SetPrev, SetTail
  <2>4. QED
    BY <1>1, <2>1, <2>2, <2>3, SoundStays, SoundGet, SoundHead, SoundZero, SoundLink
<1>7. QED
  BY <1>3, <1>4, <1>5, <1>6 DEF Next

LEMMA LooseStep == harm = "loose" /\ [Next]_vars => harm' = "loose"
  BY DEF Next, User, Kill, Inside, GetPage, Extended, SetHead, ZeroNode, LinkTail, SetPrev,
         SetTail, Unlink, UnlinkBack, NewFirst, NewTail, NewLast, ReturnPage, GotoNext,
         LoopEnds, ResetHeader, At, Half, vars

THEOREM Invariance == Spec => []IInv
<1>1. Init => IInv
  BY InitIInv
<1>2. IInv /\ [Next]_vars => IInv'
  <2> SUFFICES ASSUME IInv, [Next]_vars PROVE IInv'
    OBVIOUS
  <2>1. Types /\ Types'
    BY TypesStep DEF IInv
  <2>2. harm \in {"none", "half", "loose"}
    BY <2>1 DEF Types, TypeOK
  <2>3. QED
    BY <2>1, <2>2, OrderedStep, ReadableStep, LooseStep DEF IInv
<1>3. QED
  BY <1>1, <1>2, PTL DEF Spec

-----------------------------------------------------------------------------
(***************************************************************************)
(* What follows from it                                                    *)
(***************************************************************************)

\* A numbering without repetition is no longer than the pages are many.
LEMMA Fits ==
  ASSUME NEW S, IsFiniteSet(S), NEW n \in Nat, NEW s \in [1 .. n -> S],
         \A i, j \in 1 .. n : s[i] = s[j] => i = j
  PROVE  n \in 0 .. Cardinality(S)
<1>1. s \in Injection(1 .. n, S)
  BY DEF Injection, IsInjective
<1>2. Cardinality(1 .. n) <= Cardinality(S)
  BY <1>1, FS_Interval, FS_Injection
<1>3. Cardinality(1 .. n) = n /\ Cardinality(S) \in Nat
  BY FS_Interval, FS_CardinalityType
<1>4. QED
  BY <1>2, <1>3

LEMMA OwnFinite == Types => IsFiniteSet(own)
  BY ListAssumption, FS_Subset DEF Types, TypeOK

\* Between the calls both directions tell the same list, and it has every page.
THEOREM BothDirections == Spec => []Linked
<1>1. IInv => Linked
  <2> SUFFICES ASSUME IInv, pc = "idle", harm = "none"
               PROVE  \E n \in 0 .. Cardinality(own) : \E s \in [1 .. n -> own] :
                         /\ IsForward(s, n)
                         /\ tail = Before(s, n + 1)
                         /\ \A i \in 1 .. n : prev[s[i]] = Before(s, i)
                         /\ \A p \in own : \E i \in 1 .. n : s[i] = p
    BY DEF Linked, IInv, Types
  <2>1. PICK n, s : Whole(head, tail, next, prev, n, s, own)
    BY DEF IInv, Ordered, State
  <2>2. /\ n \in Nat /\ s \in [1 .. n -> own] /\ \A i, j \in 1 .. n : s[i] = s[j] => i = j
        /\ \A p \in own : \E i \in 1 .. n : s[i] = p
    BY <2>1, EnumFacts DEF Whole
  <2>3. n \in 0 .. Cardinality(own)
    BY <2>2, OwnFinite, Fits DEF IInv
  <2>4. IsForward(s, n)
    BY <2>1, <2>2 DEF Whole, Nexts, IsForward
  <2>5. tail = Before(s, n + 1) /\ \A i \in 1 .. n : prev[s[i]] = Before(s, i)
    BY <2>1, <2>2 DEF Whole, Prevs
  <2>6. QED
    BY <2>2, <2>3, <2>4, <2>5
<1>2. QED
  BY <1>1, Invariance, PTL

\* Wherever a kill falls, but in the window the property names, the list read from the
\* head ends, meets no page twice and stays among the pages the list has.
THEOREM SafeForward == Spec => []ForwardSafe
<1>1. IInv => ForwardSafe
  <2> SUFFICES ASSUME IInv, harm # "loose", ~ (pc = "zero" /\ head = page)
               PROVE  \E n \in 0 .. Cardinality(own) : \E s \in [1 .. n -> own] : IsForward(s, n)
    BY DEF ForwardSafe
  <2>1. Forward
    <3>1. CASE harm = "none"
      BY <3>1, StateForward DEF IInv, Ordered
    <3>2. CASE harm = "half"
      BY <3>2 DEF IInv, Readable, Sound, Forward
    <3>3. QED
      BY <3>1, <3>2 DEF IInv, Types, TypeOK
  <2>2. PICK n, s : Reads(head, next, n, s) /\ s \in [1 .. n -> own]
    BY <2>1 DEF Forward
  <2>3. n \in Nat /\ \A i, j \in 1 .. n : s[i] = s[j] => i = j
    BY <2>2 DEF Reads
  <2>4. n \in 0 .. Cardinality(own)
    BY <2>2, <2>3, OwnFinite, Fits DEF IInv
  <2>5. IsForward(s, n)
    BY <2>2, <2>3 DEF Reads, Nexts, IsForward
  <2>6. QED
    BY <2>2, <2>4, <2>5
<1>2. QED
  BY <1>1, Invariance, PTL
\* The pages the next store goes to.
LEMMA Targets ==
  ASSUME IInv, harm # "loose"
  PROVE  /\ pc \in {"zero", "link", "back", "return"} => page \in own
         /\ pc = "link" => tail \in own
         /\ pc = "unlink" /\ prev[page] # 0 => prev[page] \in own
         /\ pc \in {"bwd", "first"} => next[page] \in own
         /\ pc = "last" => prev[page] \in own
<1>1. Types
  BY DEF IInv
<1>2. CASE harm = "half"
  BY <1>1, <1>2 DEF IInv, Readable, Sound, Growing
<1>3. CASE harm = "none"
  <2>1. PICK n, s, k : State(n, s, k)
    BY <1>3 DEF IInv, Ordered
  <2>2. pc \in {"zero", "link", "back", "return"} => page \in own
    BY <2>1 DEF State
  <2>3. ASSUME pc = "link" PROVE tail \in own
    <3>1. Enum(n, s, own \ {page}) /\ tail = Before(s, n + 1) /\ n > 0
      BY <2>1, <2>3 DEF State, Others
    <3>2. QED
      BY <3>1, EnumFacts DEF Before
  <2>4. ASSUME pc = "unlink", prev[page] # 0 PROVE prev[page] \in own
    <3>1. Whole(head, tail, next, prev, n, s, own) /\ k \in 1 .. n /\ page = s[k]
      BY <2>1, <2>4 DEF State
    <3>2. Enum(n, s, own) /\ Prevs(prev, n, s, 0)
      BY <3>1 DEF Whole
    <3>3. n \in Nat /\ \A i \in 1 .. n : s[i] \in own
      BY <3>2, EnumFacts
    <3>4. k # 0 /\ (k > 1 => k - 1 \in 1 .. n)
      BY <3>1, <3>3
    <3>5. prev[page] = Before(s, k)
      BY <3>1, <3>2, <3>4 DEF Prevs
    <3>6. QED
      BY <2>4, <3>1, <3>3, <3>4, <3>5 DEF Before
  <2>5. ASSUME pc \in {"bwd", "first", "last"}
        PROVE  /\ pc \in {"bwd", "first"} => next[page] \in own
               /\ pc = "last" => prev[page] \in own
    <3>1. Enum(n, s, own) /\ Prevs(prev, n, s, 0)
      BY <2>1, <2>5 DEF State
    <3>2. n \in Nat /\ \A i \in 1 .. n : s[i] \in own
      BY <3>1, EnumFacts
    <3>3. CASE pc = "bwd"
      <4>1. k \in 2 .. n - 1 /\ page = s[k] /\ Nexts(next, n, s, k - 1)
        BY <2>1, <3>3 DEF State
      <4>2. k \in 1 .. n /\ k + 1 \in 1 .. n /\ k < n /\ k # k - 1
        BY <3>2, <4>1
      <4>3. QED
        BY <3>2, <3>3, <4>1, <4>2 DEF Nexts, After
    <3>4. CASE pc = "first"
      <4>1. n > 1 /\ page = s[1] /\ Nexts(next, n, s, 0)
        BY <2>1, <3>4 DEF State
      <4>2. 1 \in 1 .. n /\ 1 + 1 \in 1 .. n /\ 1 # 0
        BY <3>2, <4>1
      <4>3. QED
        BY <3>2, <3>4, <4>1, <4>2 DEF Nexts, After
    <3>5. CASE pc = "last"
      <4>1. n > 1 /\ page = s[n]
        BY <2>1, <3>5 DEF State
      <4>2. n \in 1 .. n /\ n - 1 \in 1 .. n /\ n # 0
        BY <3>2, <4>1
      <4>3. QED
        BY <3>1, <3>2, <3>5, <4>1, <4>2 DEF Prevs, Before
    <3>6. QED
      BY <2>5, <3>3, <3>4, <3>5
  <2>6. QED
    BY <2>2, <2>3, <2>4, <2>5
<1>4. QED
  BY <1>1, <1>2, <1>3 DEF Types, TypeOK

OwnOnly == \A p \in Page \ (own \cup own') : next'[p] = next[p] /\ prev'[p] = prev[p]

LEMMA StoreStep ==
  ASSUME IInv, harm # "loose", Next
  PROVE  OwnOnly
<1>1. next \in [Page -> Link] /\ prev \in [Page -> Link]
  BY Pages DEF IInv
<1>2. CASE UNCHANGED <<next, prev>>
  BY <1>2 DEF OwnOnly
<1>3. CASE ZeroNode
  BY <1>1, <1>3, Targets DEF ZeroNode, OwnOnly
<1>4. CASE LinkTail
  BY <1>1, <1>2, <1>4, Targets DEF LinkTail, OwnOnly, Fail, file
<1>5. CASE SetPrev
  BY <1>1, <1>5, Targets DEF SetPrev, OwnOnly
<1>6. CASE Unlink
  <2>1. \/ UNCHANGED <<next, prev>>
        \/ /\ pc = "unlink" /\ prev[page] # 0 /\ UNCHANGED prev
           /\ next' = [next EXCEPT ![prev[page]] = next[page]]
    BY <1>6 DEF Unlink, Fail, file
  <2>2. QED
    BY <1>1, <1>2, <2>1, Targets DEF OwnOnly
<1>7. CASE UnlinkBack
  BY <1>1, <1>7, Targets DEF UnlinkBack, OwnOnly
<1>8. CASE NewFirst
  BY <1>1, <1>2, <1>8, Targets DEF NewFirst, OwnOnly, Fail, file
<1>9. CASE NewLast
  BY <1>1, <1>2, <1>9, Targets DEF NewLast, OwnOnly, Fail, file
<1>10. CASE ReturnPage
  <2>1. \/ UNCHANGED <<next, prev>>
        \/ pc = "return" /\ UNCHANGED prev /\ \E p : next' = [next EXCEPT ![page] = p]
    BY <1>10 DEF ReturnPage, Fail, file
  <2>2. QED
    BY <1>1, <1>2, <2>1, Targets DEF OwnOnly
<1>11. CASE \/ User \/ Kill \/ GetPage \/ Extended \/ SetHead \/ SetTail \/ NewTail
            \/ GotoNext \/ LoopEnds \/ ResetHeader
  <2>1. UNCHANGED <<next, prev>>
    BY <1>11 DEF User, Extend, DeleteNode, Shrink, Clear, Kill, GetPage, Extended, SetHead,
                 SetTail, NewTail, GotoNext, LoopEnds, ResetHeader, Fail, file
  <2>2. QED
    BY <1>2, <2>1
<1>12. QED
  BY <1>3, <1>4, <1>5, <1>6, <1>7, <1>8, <1>9, <1>10, <1>11 DEF Next, Inside

\* No store of the list goes to a page that it has not got.
THEOREM OwnPagesOnly == Spec => StoresInOwnPages
<1>1. IInv /\ [Next]_vars =>
        [harm # "loose" => \A p \in Page \ (own \cup own') :
            next'[p] = next[p] /\ prev'[p] = prev[p]]_vars
  <2> SUFFICES ASSUME IInv, Next, harm # "loose" PROVE OwnOnly
    BY DEF OwnOnly, vars
  <2>1. QED
    BY StoreStep
<1>2. QED
  BY <1>1, Invariance, PTL DEF Spec, StoresInOwnPages

-----------------------------------------------------------------------------
(***************************************************************************)
(* Read forward, the list is a sequence of PageSeq                         *)
(***************************************************************************)

\* A set of natural numbers has a least one.
LEMMA LeastNat ==
  ASSUME NEW T, T \subseteq Nat, T # {}
  PROVE  \E x \in T : \A y \in T : x <= y
<1> DEFINE R == {p \in Nat \X Nat : p[1] < p[2]}
<1>1. OpToRel(<, Nat) = R
  BY Zenon DEF OpToRel
<1>2. IsWellFoundedOn(R, Nat)
  BY <1>1, NatLessThanWellFounded, Zenon
<1> HIDE DEF R
<1>3. \E x \in T : \A y \in T : ~ (<<y, x>> \in R)
  BY <1>2, WFMin
<1>4. \A x, y \in Nat : <<y, x>> \in R \/ x <= y
  BY DEF R
<1>5. QED
  BY <1>3, <1>4

\* What ReadFrom defines recursively, as a function that satisfies its own equation.
Reading(h, nx, g) ==
    [i \in 1 .. Cardinality(Page) |->
        IF i = 1 THEN h ELSE IF g[i - 1] = 0 THEN 0 ELSE nx[g[i - 1]]]

LEMMA ReadFromUnfolds ==
  ASSUME NEW h, NEW nx, NEW g, g = Reading(h, nx, g)
  PROVE  \E w : /\ w = Reading(h, nx, w)
                /\ ReadFrom(h, nx) =
                      [i \in 1 .. Cardinality({j \in 1 .. Cardinality(Page) : w[j] # 0}) |-> w[i]]
  BY DEF ReadFrom, Reading

\* It reads the list that the links tell.
LEMMA ReadFromReads ==
  ASSUME NEW h, NEW nx, NEW n, NEW s \in [1 .. n -> Page], Reads(h, nx, n, s)
  PROVE  ReadFrom(h, nx) = s
<1> DEFINE N == Cardinality(Page)
           c == [i \in 1 .. N |-> IF i <= n THEN s[i] ELSE 0]
<1>1. /\ n \in Nat /\ h = After(s, n, 0) /\ (\A i \in 1 .. n : nx[s[i]] = After(s, n, i))
      /\ \A i, j \in 1 .. n : s[i] = s[j] => i = j
  BY DEF Reads, Nexts
<1>2. N \in Nat /\ n <= N
  <2>1. n \in 0 .. N
    BY <1>1, ListAssumption, Fits
  <2>2. N \in Nat
    BY ListAssumption, FS_CardinalityType
  <2>3. QED
    BY <2>1, <2>2
<1>3. \A i \in 1 .. n : s[i] # 0
  BY ListAssumption
<1> HIDE DEF N
<1>4. \A i \in 1 .. N : c[i] = IF i <= n THEN s[i] ELSE 0
  OBVIOUS
<1>5. ASSUME NEW i \in 1 .. N
      PROVE  c[i] = IF i = 1 THEN h ELSE IF c[i - 1] = 0 THEN 0 ELSE nx[c[i - 1]]
  <2>1. CASE i = 1
    BY <1>1, <1>2, <1>4, <2>1 DEF After
  <2>2. CASE i # 1
    <3>1. i - 1 \in 1 .. N /\ (i - 1) + 1 = i
      BY <1>2, <2>2
    <3>2. CASE i - 1 <= n
      <4>1. i - 1 \in 1 .. n /\ c[i - 1] = s[i - 1] /\ s[i - 1] # 0
        BY <1>3, <1>4, <3>1, <3>2
      <4>2. nx[s[i - 1]] = After(s, n, i - 1)
        BY <1>1, <4>1
      <4>3. After(s, n, i - 1) = c[i]
        BY <1>1, <1>2, <1>4, <3>1, <3>2 DEF After
      <4>4. QED
        BY <2>2, <4>1, <4>2, <4>3
    <3>3. CASE i - 1 > n
      <4>1. ~ (i - 1 <= n) /\ ~ (i <= n)
        BY <1>1, <3>1, <3>3
      <4>2. QED
        BY <1>4, <2>2, <3>1, <4>1
    <3>4. QED
      BY <1>1, <3>1, <3>2, <3>3
  <2>3. QED
    BY <2>1, <2>2
<1>6. c = Reading(h, nx, c)
  <2>1. c = [i \in 1 .. N |-> c[i]]
    OBVIOUS
  <2> HIDE DEF c
  <2>2. QED
    BY <1>5, <2>1 DEF Reading, N
<1> HIDE DEF c
<1>7. PICK w : /\ w = Reading(h, nx, w)
               /\ ReadFrom(h, nx) = [i \in 1 .. Cardinality({j \in 1 .. N : w[j] # 0}) |-> w[i]]
  BY <1>6, ReadFromUnfolds DEF N
<1>8. \A i \in 1 .. N : w[i] = c[i]
  <2> DEFINE T == {i \in 1 .. N : w[i] # c[i]}
  <2> SUFFICES ASSUME T # {} PROVE FALSE
    OBVIOUS
  <2>1. T \subseteq Nat /\ T \subseteq 1 .. N /\ \A i \in 1 .. N : i \in T <=> w[i] # c[i]
    OBVIOUS
  <2> HIDE DEF T
  <2>2. PICK i \in T : \A j \in T : i <= j
    BY <2>1, LeastNat
  <2>3. w[i] = IF i = 1 THEN h ELSE IF w[i - 1] = 0 THEN 0 ELSE nx[w[i - 1]]
    BY <1>7, <2>1 DEF Reading, N
  <2>4. c[i] = IF i = 1 THEN h ELSE IF c[i - 1] = 0 THEN 0 ELSE nx[c[i - 1]]
    BY <1>5, <2>1
  <2>5. i # 1 => i - 1 \in 1 .. N /\ ~ (i <= i - 1)
    BY <1>2, <2>1
  <2>6. i # 1 => w[i - 1] = c[i - 1]
    BY <2>1, <2>2, <2>5
  <2>7. QED
    BY <2>1, <2>3, <2>4, <2>6
<1>9. {j \in 1 .. N : w[j] # 0} = 1 .. n
  <2>1. \A j \in 1 .. N : w[j] # 0 <=> j \in 1 .. n
    BY <1>2, <1>3, <1>4, <1>8
  <2>2. 1 .. n \subseteq 1 .. N
    BY <1>1, <1>2
  <2>3. QED
    BY <2>1, <2>2
<1>10. Cardinality({j \in 1 .. N : w[j] # 0}) = n
  <2>1. Cardinality(1 .. n) = n
    BY <1>1, FS_Interval
  <2>2. QED
    BY <1>9, <2>1
<1>11. \A i \in 1 .. n : w[i] = s[i]
  BY <1>1, <1>2, <1>4, <1>8
<1>12. QED
  BY <1>7, <1>10, <1>11

-----------------------------------------------------------------------------
(***************************************************************************)
(* What a step of PageSeq does to the sequence                             *)
(***************************************************************************)
Moves(u, v) ==
    \/ v = u
    \/ \E p \in Page \ ToSet(u) : v = Append(u, p)
    \/ \E i \in 1 .. Len(u) : v = RemoveAt(u, i)

LEMMA Sequence ==
  ASSUME NEW n, NEW s, NEW S, Enum(n, s, S)
  PROVE  s \in Seq(S) /\ Len(s) = n /\ n \in Nat /\ ToSet(s) = S
<1>1. n \in Nat /\ s \in [1 .. n -> S] /\ \A p \in S : \E i \in 1 .. n : s[i] = p
  BY DEF Enum
<1>2. s \in Seq(S)
  BY <1>1, SeqDef
<1>3. Len(s) = n
  <2>1. DOMAIN s = 1 .. n /\ DOMAIN s = 1 .. Len(s) /\ Len(s) \in Nat
    BY <1>1, <1>2, LenProperties
  <2>2. QED
    BY <1>1, <2>1
<1>4. ToSet(s) = S
  BY <1>1 DEF ToSet
<1>5. QED
  BY <1>1, <1>2, <1>3, <1>4

LEMMA AddedMoves ==
  ASSUME NEW S, S \subseteq Page, NEW p \in S, NEW n, NEW s, Enum(n, s, S \ {p})
  PROVE  Moves(s, Added(s, n, p))
<1> DEFINE t == Added(s, n, p)
<1>1. s \in Seq(S \ {p}) /\ Len(s) = n /\ n \in Nat /\ ToSet(s) = S \ {p}
  BY Sequence
<1>2. s \in Seq(S)
  BY <1>1, SeqMonotonic
<1>3. Enum(n + 1, t, S)
  BY AddedEnum, Zenon
<1>4. t \in Seq(S) /\ Len(t) = n + 1
  BY <1>3, Sequence
<1>5. t[n + 1] = p /\ \A i \in 1 .. n : t[i] = s[i]
  BY <1>1 DEF Added
<1> HIDE DEF t
<1>6. /\ Append(s, p) \in Seq(S) /\ Len(Append(s, p)) = n + 1
      /\ (\A i \in 1 .. n : Append(s, p)[i] = s[i]) /\ Append(s, p)[n + 1] = p
  BY <1>1, <1>2, AppendProperties
<1>7. \A i \in 1 .. n + 1 : i \in 1 .. n \/ i = n + 1
  BY <1>1
<1>8. t = Append(s, p)
  BY <1>4, <1>5, <1>6, <1>7, SeqEqual
<1>9. p \in Page \ ToSet(s)
  BY <1>1
<1>10. QED
  BY <1>8, <1>9 DEF Moves, t

LEMMA WithoutMoves ==
  ASSUME NEW S, NEW n, NEW s, Enum(n, s, S), NEW k \in 1 .. n
  PROVE  Moves(s, Without(s, n, k))
<1> DEFINE t == Without(s, n, k)
           u == SubSeq(s, 1, k - 1)
           v == SubSeq(s, k + 1, n)
<1>1. s \in Seq(S) /\ Len(s) = n /\ n \in Nat /\ k \in Nat /\ (\A i \in 1 .. n : s[i] \in S)
  BY Sequence, EnumFacts
<1>2. Enum(n - 1, t, S \ {s[k]})
  BY WithoutEnum
<1>3. t \in Seq(S) /\ Len(t) = n - 1 /\ n - 1 \in Nat
  BY <1>2, Sequence, SeqMonotonic
<1>4. \A i \in 1 .. n - 1 : t[i] = IF i < k THEN s[i] ELSE s[i + 1]
  BY DEF Without
<1> HIDE DEF t
<1>5. u \in Seq(S) /\ Len(u) = k - 1 /\ \A i \in 1 .. k - 1 : u[i] = s[i]
  <2>1. \A i \in 1 .. k - 1 : s[i] \in S
    BY <1>1
  <2>2. /\ u \in Seq(S) /\ Len(u) = (IF 1 <= k - 1 THEN (k - 1) - 1 + 1 ELSE 0)
        /\ \A i \in 1 .. (k - 1) - 1 + 1 : u[i] = s[1 + i - 1]
    BY <1>1, <2>1, SubSeqProperties
  <2> HIDE DEF u
  <2>3. QED
    BY <1>1, <2>2
<1>6. v \in Seq(S) /\ Len(v) = n - k /\ \A i \in 1 .. n - k : v[i] = s[k + i]
  <2>1. \A i \in k + 1 .. n : s[i] \in S
    BY <1>1
  <2>2. /\ v \in Seq(S) /\ Len(v) = (IF k + 1 <= n THEN n - (k + 1) + 1 ELSE 0)
        /\ \A i \in 1 .. n - (k + 1) + 1 : v[i] = s[k + 1 + i - 1]
    BY <1>1, <2>1, SubSeqProperties
  <2> HIDE DEF v
  <2>3. QED
    BY <1>1, <2>2
<1> HIDE DEF u, v
<1>7. /\ u \o v \in Seq(S) /\ Len(u \o v) = n - 1
      /\ \A i \in 1 .. n - 1 : (u \o v)[i] = IF i <= k - 1 THEN u[i] ELSE v[i - (k - 1)]
  <2>1. /\ u \o v \in Seq(S) /\ Len(u \o v) = Len(u) + Len(v)
        /\ \A i \in 1 .. Len(u) + Len(v) :
              (u \o v)[i] = IF i <= Len(u) THEN u[i] ELSE v[i - Len(u)]
    BY <1>5, <1>6, ConcatProperties
  <2>2. Len(u) + Len(v) = n - 1
    BY <1>1, <1>5, <1>6
  <2>3. QED
    BY <1>5, <2>1, <2>2
<1>8. \A i \in 1 .. n - 1 : t[i] = (u \o v)[i]
  <2> SUFFICES ASSUME NEW i \in 1 .. n - 1 PROVE t[i] = (u \o v)[i]
    OBVIOUS
  <2>1. CASE i < k
    <3>1. i <= k - 1 /\ i \in 1 .. k - 1
      BY <1>1, <2>1
    <3>2. QED
      BY <1>4, <1>5, <1>7, <2>1, <3>1
  <2>2. CASE ~ (i < k)
    <3>1. ~ (i <= k - 1) /\ i - (k - 1) \in 1 .. n - k /\ k + (i - (k - 1)) = i + 1
      BY <1>1, <2>2
    <3>2. QED
      BY <1>4, <1>6, <1>7, <2>2, <3>1
  <2>3. QED
    BY <2>1, <2>2
<1>9. t = u \o v
  BY <1>3, <1>7, <1>8, SeqEqual
<1>10. t = RemoveAt(s, k)
  BY <1>1, <1>9 DEF RemoveAt, u, v
<1>11. QED
  BY <1>1, <1>10 DEF Moves, t

-----------------------------------------------------------------------------
(***************************************************************************)
(* Every step of the list is one of PageSeq or leaves the sequence alone,  *)
(* as long as nothing has cut a call short                                 *)
(***************************************************************************)
Start == IF pc = "zero" /\ head = page THEN 0 ELSE head

LEMMA ListReads ==
  ASSUME NEW n, NEW s \in [1 .. n -> Page]
  PROVE  /\ Reads(Start, next, n, s) => List = s
         /\ Reads(Start', next', n, s) => List' = s
<1>1. List = ReadFrom(Start, next)
  BY DEF List, Start
<1>2. List' = ReadFrom(Start', next')
  BY DEF List, Start
<1>3. QED
  BY <1>1, <1>2, ReadFromReads

LEMMA SameList ==
  ASSUME UNCHANGED next, Start' = Start
  PROVE  List' = List
<1>1. List = ReadFrom(Start, next)
  BY DEF List, Start
<1>2. List' = ReadFrom(Start', next')
  BY DEF List, Start
<1>3. QED
  BY <1>1, <1>2

\* The steps that store neither the header nor a next.
LEMMA QuietStep ==
  ASSUME Types, NEW n, NEW s, NEW k, State(n, s, k),
         \/ User \/ GetPage \/ Extended \/ SetPrev \/ SetTail \/ UnlinkBack \/ NewFirst
         \/ NewTail \/ GotoNext \/ LoopEnds \/ ResetHeader \/ UNCHANGED vars
  PROVE  List' = List
<1>1. CASE UNCHANGED vars
  BY <1>1, SameList DEF vars, Start
<1>2. CASE ResetHeader
  <2>1. Start = head /\ head = 0 /\ Start' = 0 /\ UNCHANGED next
    BY <1>2 DEF ResetHeader, Leave, State, Start
  <2>2. QED
    BY <2>1, SameList
<1>3. ASSUME ~ UNCHANGED vars, ~ ResetHeader PROVE UNCHANGED <<head, next>> /\ pc # "zero" /\ pc' # "zero"
  <2>1. CASE User
    BY <2>1 DEF User, Extend, DeleteNode, Shrink, Clear, file
  <2>2. CASE GetPage \/ Extended \/ GotoNext \/ LoopEnds
    BY <2>2 DEF GetPage, Extended, GotoNext, LoopEnds, Fail, Leave, At, file
  <2>3. CASE SetPrev \/ SetTail \/ UnlinkBack \/ NewFirst \/ NewTail
    BY <2>3 DEF SetPrev, SetTail, UnlinkBack, NewFirst, NewTail, Fail, Leave, At, file
  <2>4. QED
    BY <1>3, <2>1, <2>2, <2>3
<1>4. QED
  BY <1>1, <1>2, <1>3, SameList DEF Start

\* The first page becomes the head before its node is in order.
LEMMA QuietHead ==
  ASSUME Types, NEW n, NEW s, NEW k, State(n, s, k), SetHead
  PROVE  List' = List
<1>1. /\ pc = "head" /\ pc' = "zero" /\ UNCHANGED <<next, page>>
      /\ head' = IF head = 0 THEN page ELSE head
  BY DEF SetHead, At
<1>2. Enum(n, s, own \ {page}) /\ head = After(s, n, 0)
  BY <1>1 DEF State, Others, Whole
<1>3. head # page
  <2>1. page # 0
    BY <1>1, ListAssumption DEF Types, Growing
  <2>2. n > 0 => s[1] # page
    BY <1>2, EnumFacts
  <2>3. QED
    BY <1>2, <2>1, <2>2, EnumFacts DEF After
<1>4. Start' = Start
  BY <1>1, <1>3 DEF Start
<1>5. QED
  BY <1>1, <1>4, SameList

\* A page in the middle of which no call has been yet is read as the pages that are there.
LEMMA ZeroMoves ==
  ASSUME Types, NEW n, NEW s, NEW k, State(n, s, k), ZeroNode
  PROVE  Moves(List, List')
<1> DEFINE nx == [next EXCEPT ![page] = 0]
<1>1. /\ pc = "zero" /\ pc' # "zero" /\ UNCHANGED <<head, page>> /\ next' = nx
  BY DEF ZeroNode, At
<1>2. /\ page \in own /\ Enum(n, s, own \ {page}) /\ Nexts(next, n, s, 0)
      /\ head = First(n, s, page)
  BY <1>1 DEF State, Others
<1>3. Nexts(nx, n, s, 0) /\ nx[page] = 0
  <2>1. own \ {page} \subseteq Page /\ page \notin own \ {page} /\ page \in Page
    BY <1>2, Pages
  <2>2. QED
    BY <1>2, <2>1, Pages, Elsewhere
<1> HIDE DEF nx
<1>4. n \in Nat /\ s \in [1 .. n -> Page] /\ (\A i, j \in 1 .. n : s[i] = s[j] => i = j)
      /\ own \subseteq Page
  BY <1>2, EnumFacts, Pages
<1>5. Start = After(s, n, 0)
  <2>1. n > 0 => s[1] # page
    BY <1>2, EnumFacts
  <2>2. QED
    BY <1>1, <1>2, <1>4, <2>1 DEF Start, First, After
<1>6. List = s
  BY <1>2, <1>4, <1>5, ListReads DEF Reads
<1>7. Start' = head
  BY <1>1 DEF Start
<1>8. CASE n > 0
  <2>1. Start' = After(s, n, 0)
    BY <1>2, <1>4, <1>7, <1>8 DEF First, After
  <2>2. List' = s
    BY <1>1, <1>3, <1>4, <2>1, ListReads DEF Reads
  <2>3. QED
    BY <1>6, <2>2 DEF Moves
<1>9. CASE n = 0
  <2>1. Nexts(nx, n, s, n) /\ Ends(nx, n, s, page)
    BY <1>9 DEF Nexts, Ends
  <2>2. /\ Reads(head, nx, n + 1, Added(s, n, page))
        /\ Enum(n + 1, Added(s, n, page), own)
    BY <1>2, <1>3, <2>1, AddedReads
  <2>3. Added(s, n, page) \in [1 .. n + 1 -> Page]
    BY <1>4, <2>2, EnumFacts
  <2>4. List' = Added(s, n, page)
    BY <1>1, <1>7, <2>2, <2>3, ListReads
  <2>5. Moves(s, Added(s, n, page))
    BY <1>2, <1>4, AddedMoves
  <2>6. QED
    BY <1>6, <2>4, <2>5
<1>10. QED
  BY <1>4, <1>8, <1>9

LEMMA LinkMoves ==
  ASSUME Types, NEW n, NEW s, NEW k, State(n, s, k), LinkTail
  PROVE  Moves(List, List') \/ Failed
<1> SUFFICES ASSUME ~ Failed PROVE Moves(List, List')
  OBVIOUS
<1> DEFINE nx == [next EXCEPT ![tail] = page]
<1>1. /\ pc = "link" /\ pc' # "zero" /\ next' = nx /\ UNCHANGED <<head, page>>
  BY DEF LinkTail, At, Fail, Failed
<1>2. /\ page \in own /\ Enum(n, s, own \ {page}) /\ Nexts(next, n, s, 0)
      /\ head = First(n, s, page) /\ tail = Before(s, n + 1) /\ next[page] = 0 /\ n > 0
  BY <1>1 DEF State, Others
<1>3. /\ n \in Nat /\ n \in 1 .. n /\ tail = s[n] /\ s[n] \in own \ {page} /\ own \subseteq Page
      /\ s \in [1 .. n -> Page] /\ (\A i, j \in 1 .. n : s[i] = s[j] => i = j)
  BY <1>2, EnumFacts, Pages DEF Before
<1>4. Nexts(nx, n, s, n) /\ nx[s[n]] = page
  <2>1. (\A p \in own \ {page} : p # s[n] => nx[p] = next[p]) /\ nx[s[n]] = page
    BY <1>3, Pages
  <2> HIDE DEF nx
  <2>2. QED
    BY <1>2, <1>3, <2>1, AtNumber
<1>5. nx[page] = 0
  BY <1>2, <1>3, Pages
<1> HIDE DEF nx
<1>6. Start = head /\ Start' = head /\ head = After(s, n, 0)
  BY <1>1, <1>2, <1>3 DEF Start, First, After
<1>7. List = s
  BY <1>2, <1>3, <1>6, ListReads DEF Reads
<1>8. Ends(nx, n, s, page)
  BY <1>4 DEF Ends
<1>9. Reads(head, nx, n + 1, Added(s, n, page)) /\ Enum(n + 1, Added(s, n, page), own)
  BY <1>2, <1>4, <1>5, <1>8, AddedReads
<1>10. Added(s, n, page) \in [1 .. n + 1 -> Page]
  BY <1>3, <1>9, EnumFacts
<1>11. List' = Added(s, n, page)
  BY <1>1, <1>6, <1>9, <1>10, ListReads
<1>12. Moves(s, Added(s, n, page))
  BY <1>2, <1>3, AddedMoves
<1>13. QED
  BY <1>7, <1>11, <1>12

LEMMA UnlinkMoves ==
  ASSUME Types, NEW n, NEW s, NEW k, State(n, s, k), Unlink
  PROVE  Moves(List, List')
<1>1. /\ pc = "unlink" /\ pc' # "zero"
      /\ Whole(head, tail, next, prev, n, s, own) /\ k \in 1 .. n /\ page = s[k]
  BY DEF State, Unlink, Fail, Leave, At
<1>2. /\ n \in Nat /\ k \in Nat /\ n > 0 /\ Enum(n, s, own)
      /\ Nexts(next, n, s, 0) /\ Prevs(prev, n, s, 0)
      /\ head = s[1] /\ tail = s[n] /\ \A i \in 1 .. n : s[i] \in own /\ s[i] # 0
      /\ next[page] = After(s, n, k) /\ prev[page] = Before(s, k)
      /\ (next[page] = 0 <=> k = n) /\ (prev[page] = 0 <=> k = 1)
  <2>1. Whole(head, tail, next, prev, n, s, own) /\ k \in 1 .. n
    BY <1>1
  <2>2. /\ n \in Nat /\ k \in Nat /\ n > 0 /\ Enum(n, s, own)
        /\ Nexts(next, n, s, 0) /\ Prevs(prev, n, s, 0)
        /\ head = s[1] /\ tail = s[n] /\ \A i \in 1 .. n : s[i] \in own /\ s[i] # 0
        /\ next[s[k]] = After(s, n, k) /\ prev[s[k]] = Before(s, k)
        /\ (next[s[k]] = 0 <=> k = n) /\ (prev[s[k]] = 0 <=> k = 1)
    BY <2>1, Neighbours, SMTT(40)
  <2>3. QED
    BY <1>1, <2>2
<1>3. Start = head /\ Start' = head' /\ s \in [1 .. n -> Page] /\ own \subseteq Page
  BY <1>1, <1>2, EnumFacts, Pages DEF Start
<1>4. List = s
  <2>1. Reads(Start, next, n, s)
    BY <1>1, <1>3, WholeReads
  <2>2. QED
    BY <1>3, <2>1, ListReads
<1>5. CASE UNCHANGED <<head, next>>
  BY <1>3, <1>5, SameList DEF Moves
<1>6. ASSUME NEW nx, next' = nx, Nexts(nx, n, s, k - 1), Skips(nx, n, s, k), head' = NewHead(n, s, k)
      PROVE  Moves(List, List')
  <2>1. Reads(head', nx, n - 1, Without(s, n, k)) /\ Enum(n - 1, Without(s, n, k), own \ {s[k]})
    BY <1>1, <1>2, <1>6, WithoutReads
  <2>2. Without(s, n, k) \in [1 .. n - 1 -> Page]
    BY <1>3, <2>1, EnumFacts
  <2>3. List' = Without(s, n, k)
    BY <1>3, <1>6, <2>1, <2>2, ListReads
  <2>4. QED
    BY <1>1, <1>2, <1>4, <2>3, WithoutMoves
<1>7. ASSUME prev[page] # 0, next[page] # 0, head' = head,
             next' = [next EXCEPT ![prev[page]] = next[page]]
      PROVE  Moves(List, List')
  <2> DEFINE nx == [next EXCEPT ![s[k - 1]] = s[k + 1]]
  <2>1. k \in 2 .. n - 1 /\ k - 1 \in 1 .. n /\ prev[page] = s[k - 1] /\ next[page] = s[k + 1]
    BY <1>1, <1>2, <1>7 DEF Before, After
  <2>2. Nexts(nx, n, s, k - 1) /\ nx[s[k - 1]] = s[k + 1]
    <3>1. \A b \in 1 .. n : \A v : /\ Nexts([next EXCEPT ![s[b]] = v], n, s, b)
                                   /\ [next EXCEPT ![s[b]] = v][s[b]] = v
      BY <1>2, Links
    <3>2. QED
      BY <2>1, <3>1
  <2>3. next' = nx
    BY <1>7, <2>1
  <2> HIDE DEF nx
  <2>4. k < n /\ k # 1
    BY <1>2, <2>1
  <2>5. Skips(nx, n, s, k) /\ head' = NewHead(n, s, k)
    BY <1>2, <1>7, <2>2, <2>4 DEF Skips, After, NewHead
  <2>6. QED
    BY <1>6, <2>2, <2>3, <2>5
<1>8. ASSUME prev[page] = 0, head' = next[page], UNCHANGED next
      PROVE  Moves(List, List')
  <2>1. k = 1 /\ head' = NewHead(n, s, k)
    BY <1>2, <1>8 DEF NewHead
  <2>2. Nexts(next, n, s, k - 1) /\ Skips(next, n, s, k)
    BY <1>2, <2>1 DEF Skips
  <2>3. QED
    BY <1>6, <1>8, <2>1, <2>2
<1>9. QED
  BY <1>5, <1>7, <1>8 DEF Unlink, Fail, file

LEMMA LastMoves ==
  ASSUME Types, NEW n, NEW s, NEW k, State(n, s, k), NewLast
  PROVE  Moves(List, List') \/ Failed
<1> SUFFICES ASSUME ~ Failed PROVE Moves(List, List')
  OBVIOUS
<1>1. /\ pc = "last" /\ pc' # "zero" /\ UNCHANGED head
      /\ next' = [next EXCEPT ![prev[page]] = 0]
  BY DEF NewLast, At, Fail, Failed
<1>2. /\ Enum(n, s, own) /\ Prevs(prev, n, s, 0) /\ Nexts(next, n, s, 0)
      /\ n > 1 /\ page = s[n] /\ head = s[1]
  BY <1>1 DEF State
<1>3. /\ n \in Nat /\ n \in 1 .. n /\ n - 1 \in 1 .. n /\ n # 1
      /\ s \in [1 .. n -> Page] /\ own \subseteq Page
      /\ \A i, j \in 1 .. n : s[i] = s[j] => i = j
  BY <1>2, EnumFacts, Pages
<1>4. prev[s[n]] = s[n - 1]
  BY <1>2, <1>3 DEF Prevs, Before
<1> DEFINE nx == [next EXCEPT ![s[n - 1]] = 0]
<1>5. next' = nx
  BY <1>1, <1>2, <1>4
<1>6. Nexts(nx, n, s, n - 1) /\ nx[s[n - 1]] = 0
  <2>1. \A b \in 1 .. n : \A v : /\ Nexts([next EXCEPT ![s[b]] = v], n, s, b)
                                 /\ [next EXCEPT ![s[b]] = v][s[b]] = v
    BY <1>2, Links
  <2>2. QED
    BY <1>3, <2>1
<1> HIDE DEF nx
<1>7. Start = head /\ Start' = head /\ head = After(s, n, 0) /\ head = NewHead(n, s, n)
  BY <1>1, <1>2, <1>3 DEF Start, After, NewHead
<1>8. List = s
  BY <1>2, <1>3, <1>7, ListReads DEF Reads
<1>9. Skips(nx, n, s, n)
  BY <1>3, <1>6 DEF Skips, After
<1>10. Reads(head, nx, n - 1, Without(s, n, n)) /\ Enum(n - 1, Without(s, n, n), own \ {s[n]})
  BY <1>2, <1>3, <1>6, <1>7, <1>9, WithoutReads
<1>11. Without(s, n, n) \in [1 .. n - 1 -> Page]
  BY <1>3, <1>10, EnumFacts
<1>12. List' = Without(s, n, n)
  BY <1>5, <1>7, <1>10, <1>11, ListReads
<1>13. QED
  BY <1>2, <1>3, <1>8, <1>12, WithoutMoves

\* The allocator links the page that is returned, which the list no longer names.
LEMMA ReturnMoves ==
  ASSUME Types, NEW n, NEW s, NEW k, State(n, s, k), ReturnPage
  PROVE  Moves(List, List')
<1>1. pc = "return" /\ pc' # "zero" /\ UNCHANGED head
  BY DEF ReturnPage, Leave, At, Fail, file
<1>2. page \in own /\ Whole(head, tail, next, prev, n, s, own \ {page})
  BY <1>1 DEF State, Others
<1>3. Enum(n, s, own \ {page}) /\ Nexts(next, n, s, 0) /\ head = After(s, n, 0)
  BY <1>2 DEF Whole
<1>4. n \in Nat /\ s \in [1 .. n -> Page] /\ \A i, j \in 1 .. n : s[i] = s[j] => i = j
  BY <1>3, EnumFacts, Pages
<1>5. Start = head /\ Start' = head
  BY <1>1 DEF Start
<1>6. List = s
  BY <1>3, <1>4, <1>5, ListReads DEF Reads
<1>7. CASE UNCHANGED next
  BY <1>5, <1>7, SameList DEF Moves
<1>8. ASSUME NEW p, next' = [next EXCEPT ![page] = p] PROVE Moves(List, List')
  <2>1. own \ {page} \subseteq Page /\ page \notin own \ {page}
    BY Pages
  <2>2. Nexts([next EXCEPT ![page] = p], n, s, 0)
    BY <1>3, <2>1, Pages, Elsewhere
  <2>3. List' = s
    BY <1>3, <1>4, <1>5, <1>8, <2>2, ListReads DEF Reads
  <2>4. QED
    BY <1>6, <2>3 DEF Moves
<1>9. QED
  BY <1>7, <1>8 DEF ReturnPage, Fail, file

\* Until a kill, or a failure in the middle of a call, every step of the list is one of
\* PageSeq: a page is appended, a page is taken out, or nothing is seen of the step.
THEOREM KeepsTheSequence == Spec => IsPageSeq
<1>1. Init => PSeq!Init
  <2> SUFFICES ASSUME Init PROVE List = <<>> /\ (harm # "none") = FALSE
    BY DEF PSeq!Init
  <2>1. Start = 0 /\ harm = "none"
    BY DEF Init, Start
  <2>2. <<>> \in [1 .. 0 -> Page] /\ Reads(0, next, 0, <<>>)
    BY DEF Reads, After, Nexts
  <2>3. QED
    BY <2>1, <2>2, ListReads
<1>2. IInv /\ [Next]_vars => [PSeq!Next]_(PSeq!vars)
  <2> SUFFICES ASSUME IInv, [Next]_vars, harm' = "none"
               PROVE  PSeq!Next \/ UNCHANGED PSeq!vars
    BY DEF PSeq!Next
  <2>1. harm = "none"
    BY DEF Next, Inside, User, vars, GetPage, Extended, SetHead, ZeroNode, LinkTail, SetPrev,
       SetTail, Unlink, UnlinkBack, NewFirst, NewTail, NewLast, ReturnPage, GotoNext, LoopEnds,
       ResetHeader, Extend, DeleteNode, Shrink, Clear, Kill, At, Half, Loosen
  <2>2. Types /\ Ordered
    BY <2>1 DEF IInv
  <2>3. PICK n, s, k : State(n, s, k)
    BY <2>2 DEF Ordered
  <2>4. ~ (Failed /\ (LinkTail \/ NewLast)) /\ ~ Kill
    <3>1. ~ Kill
      BY <2>1 DEF Kill
    <3>2. Failed => pc' = "idle"
      BY DEF Failed, Leave
    <3>3. LinkTail \/ NewLast => pc' # "idle"
      BY <2>1 DEF LinkTail, NewLast, At, Fail, Half
    <3>4. QED
      BY <3>1, <3>2, <3>3
  <2>5. Moves(List, List')
    <3>1. CASE \/ User \/ GetPage \/ Extended \/ SetPrev \/ SetTail \/ UnlinkBack \/ NewFirst
               \/ NewTail \/ GotoNext \/ LoopEnds \/ ResetHeader \/ UNCHANGED vars
      BY <2>2, <2>3, <3>1, QuietStep DEF Moves
    <3>2. CASE SetHead
      BY <2>2, <2>3, <3>2, QuietHead DEF Moves
    <3>3. CASE ZeroNode \/ Unlink \/ ReturnPage
      BY <2>2, <2>3, <3>3, ZeroMoves, UnlinkMoves, ReturnMoves
    <3>4. CASE LinkTail \/ NewLast
      BY <2>2, <2>3, <2>4, <3>4, LinkMoves, LastMoves
    <3>5. QED
      BY <2>4, <3>1, <3>2, <3>3, <3>4 DEF Next, Inside
  <2>6. CASE List' = List
    BY <2>1, <2>6 DEF PSeq!vars
  <2>7. CASE \E p \in Page \ ToSet(List) : List' = Append(List, p)
    BY <2>1, <2>7 DEF PSeq!Next, PSeq!Append1, PSeq!ToSet, ToSet
  <2>8. CASE \E i \in 1 .. Len(List) : List' = RemoveAt(List, i)
    BY <2>1, <2>8 DEF PSeq!Next, PSeq!Delete1, PSeq!RemoveAt, RemoveAt
  <2>9. QED
    BY <2>5, <2>6, <2>7, <2>8 DEF Moves
<1>3. QED
  BY <1>1, <1>2, Invariance, PTL DEF Spec, IsPageSeq, PSeq!Spec
=============================================================================
