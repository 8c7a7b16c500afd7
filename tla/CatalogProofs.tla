----------------------------- MODULE CatalogProofs -----------------------------
(***************************************************************************)
(* Theorems about Catalog, for every set of names and hash of them, any    *)
(* number of heaps, tables, kills and failures: what a failure can do to   *)
(* the schemes in the file, what a DB_OK says of them, and that the map of *)
(* tables is sound and agrees with the file.  The first part is about      *)
(* List and HashMap alone: what their operators do to the entries.  The    *)
(* last part is about Rows: a row, and the scheme a table is saved with in *)
(* the file, are read back from their bytes as they were written.          *)
(***************************************************************************)
EXTENDS Catalog, Rows, FiniteSetTheorems, SequenceTheorems, WellFoundedInduction, TLAPS

(***************************************************************************)
(* Numbers and sequences                                                   *)
(***************************************************************************)
LEMMA LeastNat ==
    ASSUME NEW T, T \subseteq Nat, T # {}
    PROVE  \E x \in T : \A y \in T : x <= y
<1> DEFINE R == {p \in Nat \X Nat : p[1] < p[2]}
<1>1. OpToRel(<, Nat) = R
  BY Zenon DEF OpToRel
<1>2. IsWellFoundedOn(R, Nat)
  BY <1>1, NatLessThanWellFounded, Zenon
<1> HIDE DEF R
<1>3. \E x \in T : \A y \in T : ~ (<<y, x>> \in R)
  BY <1>2, WFMin
<1>4. \A x, y \in Nat : <<y, x>> \in R \/ x <= y
  BY DEF R
<1>5. QED
  BY <1>3, <1>4

-----------------------------------------------------------------------------
(***************************************************************************)
(* Lists, by how their nodes are numbered                                  *)
(***************************************************************************)
Entry == [key : Names, val : Pool]
Cell == [value : Entry, next : Nat, prev : Nat]

\* The nodes of a list, numbered from its head on.
Following(c, n, i) == IF i < n THEN c[i + 1] ELSE 0
Preceding(c, i) == IF i > 1 THEN c[i - 1] ELSE 0
Numbered(L, n, c) ==
    /\ n \in Nat /\ c \in [1 .. n -> Nat \ {0}] /\ \A i, j \in 1 .. n : c[i] = c[j] => i = j
    /\ L \in [head : Nat, tail : Nat, size : Nat, node : [{c[i] : i \in 1 .. n} -> Cell]]
    /\ L.head = Following(c, n, 0) /\ L.tail = Preceding(c, n + 1) /\ L.size = n
    /\ \A i \in 1 .. n : /\ L.node[c[i]].next = Following(c, n, i)
                         /\ L.node[c[i]].prev = Preceding(c, i)
Valued(L, n, c) == [i \in 1 .. n |-> L.node[c[i]].value]

\* What an iterator from the head gets is a fixed point of this.
Iterating(L, at) ==
    [i \in 1 .. Cardinality(DOMAIN L.node) |->
        IF i = 1 THEN L.head ELSE IF at[i - 1] = NULL THEN NULL ELSE L.node[at[i - 1]].next]

LEMMA IteratedUnfolds ==
    ASSUME NEW L, NEW g, g = Iterating(L, g)
    PROVE  \E w : /\ w = Iterating(L, w)
                  /\ Iterated(L) = [i \in 1 .. Cardinality({j \in DOMAIN w : w[j] # NULL}) |-> w[i]]
  BY DEF Iterated, Iterating

LEMMA NumberedFacts ==
    ASSUME NEW L, NEW n, NEW c, Numbered(L, n, c)
    PROVE  /\ n \in Nat /\ c \in [1 .. n -> Nat \ {0}] /\ \A i, j \in 1 .. n : c[i] = c[j] => i = j
           /\ L.head = Following(c, n, 0) /\ L.tail = Preceding(c, n + 1) /\ L.size = n
           /\ DOMAIN L.node = {c[i] : i \in 1 .. n}
           /\ \A i \in 1 .. n : L.node[c[i]] \in Cell /\ c[i] \in Nat /\ c[i] # 0
           /\ \A i \in 1 .. n : /\ L.node[c[i]].next = Following(c, n, i)
                                /\ L.node[c[i]].prev = Preceding(c, i)
<1>1. L.node \in [{c[i] : i \in 1 .. n} -> Cell]
  BY DEF Numbered
<1>2. DOMAIN L.node = {c[i] : i \in 1 .. n} /\ \A i \in 1 .. n : L.node[c[i]] \in Cell
  BY <1>1
<1>3. QED
  BY <1>2 DEF Numbered

\* As many addresses as nodes.
LEMMA Addresses ==
    ASSUME NEW n \in Nat, NEW c \in [1 .. n -> Nat \ {0}], \A i, j \in 1 .. n : c[i] = c[j] => i = j
    PROVE  /\ IsFiniteSet({c[i] : i \in 1 .. n})
           /\ Cardinality({c[i] : i \in 1 .. n}) = n
<1> DEFINE D == {c[i] : i \in 1 .. n}
<1>1. c \in Bijection(1 .. n, D)
  BY DEF Bijection, Injection, Surjection, IsInjective
<1>2. ExistsBijection(1 .. n, D)
  BY <1>1 DEF ExistsBijection
<1>3. IsFiniteSet(1 .. n) /\ Cardinality(1 .. n) = n
  BY FS_Interval
<1> HIDE DEF D
<1>4. IsFiniteSet(D) /\ Cardinality(D) = n
  BY <1>2, <1>3, FS_Bijection
<1>5. QED
  BY <1>4 DEF D

LEMMA NumberedSize ==
    ASSUME NEW L, NEW n, NEW c, Numbered(L, n, c)
    PROVE  IsFiniteSet(DOMAIN L.node) /\ Cardinality(DOMAIN L.node) = n
<1>1. n \in Nat /\ c \in [1 .. n -> Nat \ {0}] /\ \A i, j \in 1 .. n : c[i] = c[j] => i = j
  BY NumberedFacts
<1>2. DOMAIN L.node = {c[i] : i \in 1 .. n}
  BY NumberedFacts
<1>3. /\ IsFiniteSet({c[i] : i \in 1 .. n})
      /\ Cardinality({c[i] : i \in 1 .. n}) = n
  BY <1>1, Addresses
<1>4. QED
  BY <1>2, <1>3

\* A function on the first numbers is a sequence.
LEMMA IsSequence ==
    ASSUME NEW n \in Nat, NEW S, NEW f \in [1 .. n -> S]
    PROVE  f \in Seq(S) /\ Len(f) = n /\ (f = <<>> <=> n = 0)
<1>1. f \in Seq(S) /\ Len(f) = n
  BY SeqDef, LenProperties
<1>2. QED
  BY <1>1, EmptySeq

\* An iterator visits the nodes as they are numbered.
LEMMA IteratedIs ==
    ASSUME NEW L, NEW n, NEW c, Numbered(L, n, c)
    PROVE  Iterated(L) = c
<1>1. /\ n \in Nat /\ c \in [1 .. n -> Nat \ {0}] /\ \A i, j \in 1 .. n : c[i] = c[j] => i = j
      /\ L.head = Following(c, n, 0) /\ DOMAIN L.node = {c[i] : i \in 1 .. n}
      /\ \A i \in 1 .. n : L.node[c[i]].next = Following(c, n, i)
  BY NumberedFacts
<1>2. Cardinality(DOMAIN L.node) = n
  BY NumberedSize
<1>3. ASSUME NEW i \in 1 .. n
      PROVE  c[i] = IF i = 1 THEN L.head ELSE IF c[i - 1] = NULL THEN NULL ELSE L.node[c[i - 1]].next
  <2>1. CASE i = 1
    BY <1>1, <2>1 DEF Following
  <2>2. CASE i # 1
    <3>1. i - 1 \in 1 .. n /\ (i - 1) + 1 = i /\ i - 1 < n
      BY <1>1, <2>2
    <3>2. L.node[c[i - 1]].next = c[i] /\ c[i - 1] # 0
      BY <1>1, <3>1 DEF Following
    <3>3. QED
      BY <2>2, <3>2 DEF NULL
  <2>3. QED
    BY <2>1, <2>2
<1>4. c = Iterating(L, c)
  BY <1>1, <1>2, <1>3 DEF Iterating
<1>5. PICK w : /\ w = Iterating(L, w)
               /\ Iterated(L) = [i \in 1 .. Cardinality({j \in DOMAIN w : w[j] # NULL}) |-> w[i]]
  BY <1>4, IteratedUnfolds
<1>6. DOMAIN w = 1 .. n
  BY <1>2, <1>5 DEF Iterating
<1>7. \A i \in 1 .. n : w[i] = c[i]
  <2> DEFINE T == {i \in 1 .. n : w[i] # c[i]}
  <2> SUFFICES ASSUME T # {} PROVE FALSE
    OBVIOUS
  <2>1. T \subseteq Nat /\ \A i \in 1 .. n : i \in T <=> w[i] # c[i]
    OBVIOUS
  <2>1a. T \subseteq 1 .. n
    OBVIOUS
  <2> HIDE DEF T
  <2>2. PICK i \in T : \A j \in T : i <= j
    BY <2>1, LeastNat
  <2>3. i \in 1 .. n /\ w[i] # c[i]
    BY <2>1, <2>1a
  <2>4. w[i] = IF i = 1 THEN L.head ELSE IF w[i - 1] = NULL THEN NULL ELSE L.node[w[i - 1]].next
    BY <1>2, <1>5, <2>3 DEF Iterating
  <2>5. c[i] = IF i = 1 THEN L.head ELSE IF c[i - 1] = NULL THEN NULL ELSE L.node[c[i - 1]].next
    BY <1>3, <2>3
  <2>6. CASE i = 1
    BY <2>3, <2>4, <2>5, <2>6
  <2>7. CASE i # 1
    <3>1. i - 1 \in 1 .. n /\ ~ i <= i - 1
      BY <1>1, <2>3, <2>7
    <3>2. w[i - 1] = c[i - 1]
      BY <2>1, <2>2, <3>1
    <3>3. QED
      BY <2>3, <2>4, <2>5, <2>7, <3>2
  <2>8. QED
    BY <2>6, <2>7
<1>8. {j \in DOMAIN w : w[j] # NULL} = 1 .. n
  BY <1>1, <1>6, <1>7 DEF NULL
<1>9. Cardinality({j \in DOMAIN w : w[j] # NULL}) = n
  <2>1. Cardinality(1 .. n) = n
    BY <1>1, FS_Interval
  <2>2. QED
    BY <1>8, <2>1
<1>10. QED
  BY <1>1, <1>5, <1>7, <1>9

LEMMA ValuesAre ==
    ASSUME NEW L, NEW n, NEW c, Numbered(L, n, c)
    PROVE  /\ ListValues(L) = Valued(L, n, c)
           /\ Valued(L, n, c) \in Seq(Entry) /\ Len(Valued(L, n, c)) = n /\ n \in Nat
<1>1. n \in Nat /\ c \in [1 .. n -> Nat \ {0}] /\ \A i \in 1 .. n : L.node[c[i]] \in Cell
  BY NumberedFacts
<1>2. Iterated(L) = c /\ DOMAIN c = 1 .. n
  BY <1>1, IteratedIs
<1>3. ListValues(L) = Valued(L, n, c)
  BY <1>2 DEF ListValues, Valued
<1>4. Valued(L, n, c) \in [1 .. n -> Entry]
  BY <1>1 DEF Valued, Cell
<1>5. QED
  BY <1>1, <1>3, <1>4, IsSequence

LEMMA IsWellLinked ==
    ASSUME NEW L, NEW n, NEW c, Numbered(L, n, c)
    PROVE  WellLinked(L)
<1>1. /\ n \in Nat /\ c \in [1 .. n -> Nat \ {0}] /\ \A i, j \in 1 .. n : c[i] = c[j] => i = j
      /\ L.head = Following(c, n, 0) /\ L.tail = Preceding(c, n + 1) /\ L.size = n
      /\ DOMAIN L.node = {c[i] : i \in 1 .. n}
      /\ \A i \in 1 .. n : /\ L.node[c[i]].next = Following(c, n, i)
                           /\ L.node[c[i]].prev = Preceding(c, i)
  BY NumberedFacts
<1>2. Iterated(L) = c /\ DOMAIN c = 1 .. n /\ Len(c) = n /\ (c = <<>> <=> n = 0)
  BY <1>1, IteratedIs, IsSequence
<1>3. Cardinality(DOMAIN L.node) = n
  BY NumberedSize
<1>4. L.head = IF c = <<>> THEN NULL ELSE c[1]
  BY <1>1, <1>2 DEF Following, NULL
<1>5. L.tail = IF c = <<>> THEN NULL ELSE c[Len(c)]
  BY <1>1, <1>2 DEF Preceding, NULL
<1>6. ASSUME NEW i \in 1 .. n
      PROVE  /\ L.node[c[i]].prev = IF i = 1 THEN NULL ELSE c[i - 1]
             /\ L.node[c[i]].next = IF i = Len(c) THEN NULL ELSE c[i + 1]
  <2>1. /\ L.node[c[i]].next = Following(c, n, i) /\ L.node[c[i]].prev = Preceding(c, i)
        /\ n \in Nat /\ Len(c) = n
    BY <1>1, <1>2
  <2>2. L.node[c[i]].prev = IF i = 1 THEN NULL ELSE c[i - 1]
    BY <2>1 DEF Preceding, NULL
  <2>3. L.node[c[i]].next = IF i = Len(c) THEN NULL ELSE c[i + 1]
    BY <2>1 DEF Following, NULL
  <2>4. QED
    BY <2>2, <2>3
<1>7. QED
  BY <1>1, <1>2, <1>3, <1>4, <1>5, <1>6 DEF WellLinked

\* malloc finds an address.
LEMMA FreshIs ==
    ASSUME NEW L, NEW n, NEW c, Numbered(L, n, c)
    PROVE  Fresh(L) \in Nat \ {0} /\ Fresh(L) \notin DOMAIN L.node
<1>1. n \in Nat /\ IsFiniteSet(DOMAIN L.node) /\ Cardinality(DOMAIN L.node) = n
  BY NumberedFacts, NumberedSize
<1>2. \E m \in 1 .. n + 1 : m \notin DOMAIN L.node
  <2> SUFFICES ASSUME 1 .. n + 1 \subseteq DOMAIN L.node PROVE FALSE
    OBVIOUS
  <2>1. Cardinality(1 .. n + 1) = n + 1
    BY <1>1, FS_Interval
  <2>2. Cardinality(1 .. n + 1) <= n
    BY <1>1, FS_Subset
  <2>3. QED
    BY <1>1, <2>1, <2>2
<1>3. Fresh(L) \in 1 .. n + 1 /\ Fresh(L) \notin DOMAIN L.node
  BY <1>1, <1>2 DEF Fresh
<1>4. QED
  BY <1>1, <1>3

\* A record of a node with another link.
LEMMA Relinked ==
    ASSUME NEW e \in Cell, NEW x \in Nat, NEW z, z = [e EXCEPT !.next = x]
    PROVE  z \in Cell /\ z.value = e.value /\ z.next = x /\ z.prev = e.prev
  BY DEF Cell

Longer(f, n, x) == [i \in 1 .. n + 1 |-> IF i <= n THEN f[i] ELSE x]
Shorter(f, n, k) == [i \in 1 .. n - 1 |-> IF i < k THEN f[i] ELSE f[i + 1]]

LEMMA AppendsTail ==
    ASSUME NEW L, NEW n, NEW c, Numbered(L, n, c), NEW v \in Entry
    PROVE  LET d == Longer(c, n, Fresh(L))
               M == ListAppendTail(L, v)
           IN  Numbered(M, n + 1, d) /\ Valued(M, n + 1, d) = Longer(Valued(L, n, c), n, v)
<1> DEFINE x == Fresh(L)
           d == Longer(c, n, x)
           M == ListAppendTail(L, v)
<1>1. /\ n \in Nat /\ c \in [1 .. n -> Nat \ {0}] /\ \A i, j \in 1 .. n : c[i] = c[j] => i = j
      /\ L.head = Following(c, n, 0) /\ L.tail = Preceding(c, n + 1) /\ L.size = n
      /\ DOMAIN L.node = {c[i] : i \in 1 .. n}
      /\ \A i \in 1 .. n : L.node[c[i]] \in Cell /\ c[i] \in Nat /\ c[i] # 0
      /\ \A i \in 1 .. n : /\ L.node[c[i]].next = Following(c, n, i)
                           /\ L.node[c[i]].prev = Preceding(c, i)
  BY NumberedFacts
<1>2. x \in Nat \ {0} /\ x \notin DOMAIN L.node
  BY FreshIs
<1>3. /\ M.head = IF L.head = NULL THEN x ELSE L.head
      /\ M.tail = x /\ M.size = n + 1
      /\ M.node = [m \in DOMAIN L.node \cup {x} |->
                     IF m = x THEN [value |-> v, next |-> NULL, prev |-> L.tail]
                     ELSE [L.node[m] EXCEPT !.next = IF m = L.tail THEN x ELSE @]]
      /\ M = [head |-> M.head, tail |-> M.tail, size |-> M.size, node |-> M.node]
  BY <1>1 DEF ListAppendTail
<1> HIDE DEF x, M
<1>4. /\ d \in [1 .. n + 1 -> Nat \ {0}] /\ d[n + 1] = x /\ \A i \in 1 .. n : d[i] = c[i]
      /\ n + 1 \in 1 .. n + 1 /\ \A i \in 1 .. n + 1 : i \in 1 .. n \/ i = n + 1
  BY <1>1, <1>2 DEF Longer
<1>5. \A i \in 1 .. n : c[i] # x
  BY <1>1, <1>2
<1> HIDE DEF d
<1>6. \A i, j \in 1 .. n + 1 : d[i] = d[j] => i = j
  <2>1. ASSUME NEW i \in 1 .. n + 1, NEW j \in 1 .. n + 1, d[i] = d[j]
        PROVE  i = j
    <3>1. CASE i \in 1 .. n /\ j \in 1 .. n
      BY <1>1, <1>4, <2>1, <3>1
    <3>2. CASE i \in 1 .. n /\ j = n + 1
      BY <1>4, <1>5, <2>1, <3>2
    <3>3. CASE i = n + 1 /\ j \in 1 .. n
      BY <1>4, <1>5, <2>1, <3>3
    <3>4. QED
      BY <1>4, <3>1, <3>2, <3>3
  <2>2. QED
    BY <2>1
<1>7. {d[i] : i \in 1 .. n + 1} = DOMAIN L.node \cup {x}
  <2>1. \A i \in 1 .. n : i \in 1 .. n + 1
    BY <1>1
  <2>2. QED
    BY <1>1, <1>4, <2>1
<1>8. L.tail \in Nat /\ \A i \in 1 .. n : c[i] = L.tail <=> i = n
  BY <1>1 DEF Preceding
<1>9. ASSUME NEW i \in 1 .. n
      PROVE  /\ M.node[c[i]] \in Cell /\ M.node[c[i]].value = L.node[c[i]].value
             /\ M.node[c[i]].next = (IF i = n THEN x ELSE L.node[c[i]].next)
             /\ M.node[c[i]].prev = L.node[c[i]].prev
  <2>1. c[i] \in DOMAIN L.node /\ c[i] # x
    BY <1>1, <1>5
  <2>2. M.node[c[i]] = [L.node[c[i]] EXCEPT !.next = IF c[i] = L.tail THEN x ELSE @]
    BY <1>3, <2>1
  <2>3. L.node[c[i]] \in Cell /\ L.node[c[i]].next \in Nat /\ x \in Nat
    BY <1>1, <1>2 DEF Cell
  <2> DEFINE y == IF i = n THEN x ELSE L.node[c[i]].next
  <2>4. M.node[c[i]] = [L.node[c[i]] EXCEPT !.next = y] /\ y \in Nat
    BY <1>8, <2>2, <2>3
  <2>6. /\ M.node[c[i]] \in Cell /\ M.node[c[i]].value = L.node[c[i]].value
        /\ M.node[c[i]].next = y /\ M.node[c[i]].prev = L.node[c[i]].prev
    <3> HIDE DEF y
    <3>1. QED
      BY <2>3, <2>4, Relinked
  <2>7. QED
    BY <2>6
<1>10. M.node[x] = [value |-> v, next |-> 0, prev |-> L.tail] /\ M.node[x] \in Cell
  <2>1. M.node[x] = [value |-> v, next |-> 0, prev |-> L.tail]
    BY <1>3 DEF NULL
  <2>2. QED
    BY <1>8, <2>1 DEF Cell
<1>11. M.node \in [{d[i] : i \in 1 .. n + 1} -> Cell]
  <2>1. \A m \in DOMAIN L.node \cup {x} : M.node[m] \in Cell
    BY <1>1, <1>9, <1>10
  <2>2. M.node = [m \in DOMAIN L.node \cup {x} |-> M.node[m]]
    BY <1>3
  <2>3. QED
    BY <1>7, <2>1, <2>2
<1>12. M.head = Following(d, n + 1, 0) /\ M.tail = Preceding(d, n + 1 + 1)
  BY <1>1, <1>3, <1>4 DEF Following, Preceding, NULL
<1>13. ASSUME NEW i \in 1 .. n + 1
       PROVE  /\ M.node[d[i]].next = Following(d, n + 1, i)
              /\ M.node[d[i]].prev = Preceding(d, i)
  <2>1. CASE i \in 1 .. n
    <3>1. d[i] = c[i] /\ L.node[c[i]].next = Following(c, n, i) /\ L.node[c[i]].prev = Preceding(c, i)
      BY <1>1, <1>4, <2>1
    <3>2. Preceding(d, i) = Preceding(c, i)
      BY <1>1, <1>4, <2>1 DEF Preceding
    <3>3. Following(d, n + 1, i) = IF i = n THEN x ELSE Following(c, n, i)
      BY <1>1, <1>4, <2>1 DEF Following
    <3>4. QED
      BY <1>9, <2>1, <3>1, <3>2, <3>3
  <2>2. CASE i = n + 1
    <3>1. Following(d, n + 1, i) = 0 /\ Preceding(d, i) = L.tail
      BY <1>1, <1>4, <2>2 DEF Following, Preceding
    <3>2. QED
      BY <1>4, <1>10, <2>2, <3>1
  <2>3. QED
    BY <1>4, <2>1, <2>2
<1>14. M \in [head : Nat, tail : Nat, size : Nat, node : [{d[i] : i \in 1 .. n + 1} -> Cell]]
  <2>1. L.head \in Nat /\ M.head \in Nat /\ M.tail \in Nat /\ M.size \in Nat
    BY <1>1, <1>2, <1>3 DEF Following
  <2>2. QED
    BY <1>3, <1>11, <2>1
<1>15. Numbered(M, n + 1, d)
  BY <1>1, <1>3, <1>4, <1>6, <1>12, <1>13, <1>14 DEF Numbered
<1>16. Valued(M, n + 1, d) = Longer(Valued(L, n, c), n, v)
  <2>1. \A i \in 1 .. n + 1 : M.node[d[i]].value = IF i <= n THEN Valued(L, n, c)[i] ELSE v
    <3> SUFFICES ASSUME NEW i \in 1 .. n + 1
                 PROVE  M.node[d[i]].value = IF i <= n THEN Valued(L, n, c)[i] ELSE v
      OBVIOUS
    <3>1. CASE i \in 1 .. n
      BY <1>1, <1>4, <1>9, <3>1 DEF Valued
    <3>2. CASE i = n + 1
      BY <1>1, <1>4, <1>10, <3>2
    <3>3. QED
      BY <1>4, <3>1, <3>2
  <2>2. QED
    BY <2>1 DEF Valued, Longer
<1>17. QED
  BY <1>15, <1>16 DEF M, d, x

LEMMA DeletesNode ==
    ASSUME NEW L, NEW n, NEW c, Numbered(L, n, c), NEW k \in 1 .. n
    PROVE  LET d == Shorter(c, n, k)
               M == ListIteratorDeleteNode(L, c[k])
           IN  Numbered(M, n - 1, d) /\ Valued(M, n - 1, d) = Shorter(Valued(L, n, c), n, k)
<1> DEFINE d == Shorter(c, n, k)
           M == ListIteratorDeleteNode(L, c[k])
           before == Preceding(c, k)
           after == Following(c, n, k)
<1>1. /\ n \in Nat /\ c \in [1 .. n -> Nat \ {0}] /\ \A i, j \in 1 .. n : c[i] = c[j] => i = j
      /\ L.head = Following(c, n, 0) /\ L.tail = Preceding(c, n + 1) /\ L.size = n
      /\ DOMAIN L.node = {c[i] : i \in 1 .. n}
      /\ \A i \in 1 .. n : L.node[c[i]] \in Cell /\ c[i] \in Nat /\ c[i] # 0
      /\ \A i \in 1 .. n : /\ L.node[c[i]].next = Following(c, n, i)
                           /\ L.node[c[i]].prev = Preceding(c, i)
  BY NumberedFacts
<1>2. /\ M.head = IF before = 0 THEN after ELSE L.head
      /\ M.tail = IF after = 0 THEN before ELSE L.tail
      /\ M.size = n - 1
      /\ M.node = [m \in DOMAIN L.node \ {c[k]} |->
                     [L.node[m] EXCEPT !.next = IF m = before THEN after ELSE @,
                                       !.prev = IF m = after THEN before ELSE @]]
      /\ M = [head |-> M.head, tail |-> M.tail, size |-> M.size, node |-> M.node]
  BY <1>1 DEF ListIteratorDeleteNode, NULL
<1>3. before \in Nat /\ after \in Nat /\ n - 1 \in Nat /\ k \in Nat
  BY <1>1 DEF Preceding, Following
<1>4. /\ \A i \in 1 .. n : (c[i] = before <=> i = k - 1) /\ (c[i] = after <=> i = k + 1)
      /\ (before = 0 <=> k = 1) /\ (after = 0 <=> k = n)
  <2>1. /\ k = 1 => before = 0
        /\ k # 1 => k - 1 \in 1 .. n /\ before = c[k - 1] /\ before # 0
    BY <1>1 DEF Preceding
  <2>2. /\ k = n => after = 0
        /\ k # n => k + 1 \in 1 .. n /\ after = c[k + 1] /\ after # 0
    BY <1>1 DEF Following
  <2> HIDE DEF before, after
  <2>3. (before = 0 <=> k = 1) /\ (after = 0 <=> k = n)
    BY <2>1, <2>2
  <2>4. \A i \in 1 .. n : c[i] = before <=> i = k - 1
    BY <1>1, <2>1
  <2>5. \A i \in 1 .. n : c[i] = after <=> i = k + 1
    BY <1>1, <2>2
  <2>6. QED
    BY <2>3, <2>4, <2>5
<1> HIDE DEF M, before, after
<1>5. /\ d \in [1 .. n - 1 -> Nat \ {0}]
      /\ \A i \in 1 .. n - 1 : IF i < k THEN d[i] = c[i] ELSE d[i] = c[i + 1]
      /\ \A i \in 1 .. n - 1 : i \in 1 .. n /\ i + 1 \in 1 .. n
  BY <1>1, <1>3 DEF Shorter
<1> HIDE DEF d
<1> DEFINE at(i) == IF i < k THEN i ELSE i + 1
<1>6. \A i \in 1 .. n - 1 : at(i) \in 1 .. n /\ at(i) # k /\ d[i] = c[at(i)]
  BY <1>3, <1>5
<1>7. \A i, j \in 1 .. n - 1 : at(i) = at(j) => i = j
  BY <1>3
<1> HIDE DEF at
<1>8. \A i, j \in 1 .. n - 1 : d[i] = d[j] => i = j
  BY <1>1, <1>6, <1>7
<1>9. {d[i] : i \in 1 .. n - 1} = DOMAIN L.node \ {c[k]}
  <2>1. \A i \in 1 .. n - 1 : d[i] \in DOMAIN L.node /\ d[i] # c[k]
    BY <1>1, <1>6
  <2>2. ASSUME NEW i \in 1 .. n, i # k
        PROVE  \E j \in 1 .. n - 1 : c[i] = d[j]
    <3>1. CASE i < k
      <4>1. i \in 1 .. n - 1 /\ d[i] = c[i]
        BY <1>1, <1>5, <3>1
      <4>2. QED
        BY <4>1
    <3>2. CASE i > k
      <4>1. i - 1 \in 1 .. n - 1 /\ (i - 1) + 1 = i /\ ~ (i - 1 < k)
        BY <1>1, <3>2
      <4>2. d[i - 1] = c[i]
        BY <1>5, <4>1
      <4>3. QED
        BY <4>1, <4>2
    <3>3. QED
      BY <1>1, <2>2, <3>1, <3>2
  <2>3. \A m \in DOMAIN L.node \ {c[k]} : \E i \in 1 .. n : m = c[i] /\ i # k
    BY <1>1
  <2>4. QED
    BY <2>1, <2>2, <2>3
<1>10. ASSUME NEW i \in 1 .. n, i # k
      PROVE  /\ M.node[c[i]] \in Cell /\ M.node[c[i]].value = L.node[c[i]].value
             /\ M.node[c[i]].next = (IF i = k - 1 THEN after ELSE Following(c, n, i))
             /\ M.node[c[i]].prev = (IF i = k + 1 THEN before ELSE Preceding(c, i))
  <2>1. c[i] \in DOMAIN L.node \ {c[k]}
    BY <1>1, <1>10
  <2>2. M.node[c[i]] = [L.node[c[i]] EXCEPT !.next = IF c[i] = before THEN after ELSE @,
                                            !.prev = IF c[i] = after THEN before ELSE @]
    BY <1>2, <2>1
  <2>3. /\ L.node[c[i]] \in Cell /\ L.node[c[i]].next \in Nat /\ L.node[c[i]].prev \in Nat
        /\ L.node[c[i]].next = Following(c, n, i) /\ L.node[c[i]].prev = Preceding(c, i)
    BY <1>1 DEF Cell
  <2> DEFINE x == IF i = k - 1 THEN after ELSE Following(c, n, i)
             y == IF i = k + 1 THEN before ELSE Preceding(c, i)
  <2>4. M.node[c[i]] = [L.node[c[i]] EXCEPT !.next = x, !.prev = y]
    BY <1>4, <2>2, <2>3
  <2>5. x \in Nat /\ y \in Nat
    BY <1>3, <2>3
  <2>6. /\ M.node[c[i]] \in Cell /\ M.node[c[i]].value = L.node[c[i]].value
        /\ M.node[c[i]].next = x /\ M.node[c[i]].prev = y
    <3> DEFINE e == L.node[c[i]]
               z == M.node[c[i]]
    <3>1. e \in Cell /\ x \in Nat /\ y \in Nat /\ z = [e EXCEPT !.next = x, !.prev = y]
      BY <2>3, <2>4, <2>5
    <3> HIDE DEF x, y, e, z
    <3>2. z \in Cell /\ z.value = e.value /\ z.next = x /\ z.prev = y
      BY <3>1 DEF Cell
    <3>3. QED
      BY <3>2 DEF e, z
  <2>7. QED
    BY <2>6
<1>11. M.node \in [{d[i] : i \in 1 .. n - 1} -> Cell]
  <2>1. \A m \in DOMAIN L.node \ {c[k]} : M.node[m] \in Cell
    BY <1>1, <1>10
  <2>2. M.node = [m \in DOMAIN L.node \ {c[k]} |-> M.node[m]]
    BY <1>2
  <2>3. QED
    BY <1>9, <2>1, <2>2
<1>12. M.head = Following(d, n - 1, 0) /\ M.tail = Preceding(d, (n - 1) + 1)
  <2>1. (n - 1) + 1 = n
    BY <1>1
  <2>2. CASE n = 1
    <3>1. k = 1 /\ before = 0 /\ after = 0
      BY <1>4, <2>2
    <3>2. M.head = 0 /\ M.tail = 0
      BY <1>2, <3>1
    <3>3. ~ (0 < n - 1) /\ ~ (n > 1)
      BY <2>2
    <3>4. QED
      BY <2>1, <3>2, <3>3 DEF Following, Preceding
  <2>3. CASE n # 1
    <3>1. n - 1 \in 1 .. n - 1 /\ 1 \in 1 .. n - 1
      BY <1>1, <2>3
    <3>2. Following(d, n - 1, 0) = d[1] /\ Preceding(d, n) = d[n - 1] /\ L.head = c[1] /\ L.tail = c[n]
      BY <1>1, <1>3, <2>3 DEF Following, Preceding
    <3>3. d[1] = IF k = 1 THEN c[2] ELSE c[1]
      BY <1>3, <1>5, <3>1
    <3>4. d[n - 1] = IF k = n THEN c[n - 1] ELSE c[n]
      <4>1. n - 1 < k <=> k = n
        BY <1>1
      <4>2. QED
        BY <1>5, <2>1, <3>1, <4>1
    <3>5. (k = 1 => after = c[2]) /\ (k = n => before = c[n - 1])
      BY <1>1, <2>3 DEF Following, Preceding, before, after
    <3>6. QED
      BY <1>2, <1>4, <2>1, <3>2, <3>3, <3>4, <3>5
  <2>4. QED
    BY <2>2, <2>3
<1>13. ASSUME NEW i \in 1 .. n - 1
       PROVE  /\ M.node[d[i]].next = Following(d, n - 1, i)
              /\ M.node[d[i]].prev = Preceding(d, i)
              /\ M.node[d[i]].value = IF i < k THEN L.node[c[i]].value ELSE L.node[c[i + 1]].value
  <2>1. CASE i < k
    <3>1. i \in 1 .. n /\ i # k /\ d[i] = c[i] /\ i # k + 1
      BY <1>3, <1>5, <2>1
    <3>2. /\ M.node[c[i]].next = (IF i = k - 1 THEN after ELSE Following(c, n, i))
          /\ M.node[c[i]].prev = Preceding(c, i) /\ M.node[c[i]].value = L.node[c[i]].value
      BY <1>10, <3>1
    <3>3. Preceding(d, i) = Preceding(c, i)
      BY <1>1, <1>3, <1>5, <2>1 DEF Preceding
    <3>4. Following(d, n - 1, i) = IF i = k - 1 THEN after ELSE Following(c, n, i)
      BY <1>1, <1>3, <1>5, <2>1 DEF Following, after
    <3>5. QED
      BY <2>1, <3>1, <3>2, <3>3, <3>4
  <2>2. CASE ~ i < k
    <3>1. i + 1 \in 1 .. n /\ i + 1 # k /\ d[i] = c[i + 1] /\ i + 1 # k - 1
      BY <1>3, <1>5, <2>2
    <3>2. /\ M.node[c[i + 1]].next = Following(c, n, i + 1)
          /\ M.node[c[i + 1]].prev = (IF i + 1 = k + 1 THEN before ELSE Preceding(c, i + 1))
          /\ M.node[c[i + 1]].value = L.node[c[i + 1]].value
      BY <1>10, <3>1
    <3>3. Preceding(d, i) = IF i + 1 = k + 1 THEN before ELSE Preceding(c, i + 1)
      <4>1. CASE i = k
        BY <1>1, <1>3, <1>5, <4>1 DEF Preceding, before
      <4>2. CASE i # k
        <5>1. i - 1 \in 1 .. n - 1 /\ ~ (i - 1 < k) /\ (i - 1) + 1 = i /\ i > 1 /\ i + 1 > 1 /\ (i + 1) - 1 = i
          BY <1>3, <2>2, <4>2
        <5>2. d[i - 1] = c[i]
          BY <1>5, <5>1
        <5>3. QED
          BY <4>2, <5>1, <5>2 DEF Preceding
      <4>3. QED
        BY <4>1, <4>2
    <3>4. Following(d, n - 1, i) = Following(c, n, i + 1)
      BY <1>1, <1>3, <1>5, <2>2 DEF Following
    <3>5. QED
      BY <2>2, <3>1, <3>2, <3>3, <3>4
  <2>3. QED
    BY <2>1, <2>2
<1>14. M \in [head : Nat, tail : Nat, size : Nat, node : [{d[i] : i \in 1 .. n - 1} -> Cell]]
  <2>1. L.head \in Nat /\ L.tail \in Nat
    BY <1>1 DEF Following, Preceding
  <2>2. M.head \in Nat /\ M.tail \in Nat /\ M.size \in Nat
    BY <1>2, <1>3, <2>1
  <2>3. QED
    BY <1>2, <1>11, <2>2
<1>15. Numbered(M, n - 1, d)
  BY <1>2, <1>3, <1>5, <1>8, <1>12, <1>13, <1>14 DEF Numbered
<1>16. Valued(M, n - 1, d) = Shorter(Valued(L, n, c), n, k)
  <2>1. \A i \in 1 .. n - 1 : M.node[d[i]].value = IF i < k THEN Valued(L, n, c)[i] ELSE Valued(L, n, c)[i + 1]
    BY <1>5, <1>13 DEF Valued
  <2>2. QED
    BY <2>1 DEF Valued, Shorter
<1>17. QED
  BY <1>15, <1>16 DEF M, d

\* An entry of the map with another value.
Changed(e, key, val) == IF e.key = key THEN [e EXCEPT !.val = val] ELSE e

LEMMA Replaces ==
    ASSUME NEW L, NEW n, NEW c, Numbered(L, n, c), NEW key, NEW val \in Pool
    PROVE  /\ Numbered(Replaced(L, key, val), n, c)
           /\ Valued(Replaced(L, key, val), n, c)
                = [i \in 1 .. n |-> Changed(Valued(L, n, c)[i], key, val)]
<1> DEFINE M == Replaced(L, key, val)
<1>1. /\ n \in Nat /\ c \in [1 .. n -> Nat \ {0}] /\ \A i, j \in 1 .. n : c[i] = c[j] => i = j
      /\ L.head = Following(c, n, 0) /\ L.tail = Preceding(c, n + 1) /\ L.size = n
      /\ DOMAIN L.node = {c[i] : i \in 1 .. n}
      /\ \A i \in 1 .. n : L.node[c[i]] \in Cell /\ c[i] \in Nat /\ c[i] # 0
      /\ \A i \in 1 .. n : /\ L.node[c[i]].next = Following(c, n, i)
                           /\ L.node[c[i]].prev = Preceding(c, i)
  BY NumberedFacts
<1>2. L \in [head : Nat, tail : Nat, size : Nat, node : [{c[i] : i \in 1 .. n} -> Cell]]
  BY DEF Numbered
<1> DEFINE new == [m \in DOMAIN L.node |->
                     IF L.node[m].value.key = key THEN [L.node[m] EXCEPT !.value.val = val]
                     ELSE L.node[m]]
<1>3. M = [L EXCEPT !.node = new]
  BY DEF Replaced
<1>4. ASSUME NEW i \in 1 .. n
      PROVE  /\ new[c[i]] \in Cell /\ new[c[i]].value = Changed(L.node[c[i]].value, key, val)
             /\ new[c[i]].next = L.node[c[i]].next /\ new[c[i]].prev = L.node[c[i]].prev
  <2> DEFINE e == L.node[c[i]]
             z == new[c[i]]
  <2>1. e \in Cell /\ z = IF e.value.key = key THEN [e EXCEPT !.value.val = val] ELSE e
    BY <1>1
  <2> HIDE DEF e, z
  <2>2. z \in Cell /\ z.value = Changed(e.value, key, val) /\ z.next = e.next /\ z.prev = e.prev
    BY <2>1 DEF Cell, Entry, Changed
  <2>3. QED
    BY <2>2 DEF e, z
<1>5. new \in [{c[i] : i \in 1 .. n} -> Cell]
  <2>1. \A m \in DOMAIN L.node : new[m] \in Cell
    BY <1>1, <1>4
  <2>2. new = [m \in DOMAIN L.node |-> new[m]]
    OBVIOUS
  <2> HIDE DEF new
  <2>3. QED
    BY <1>1, <2>1, <2>2
<1> HIDE DEF new
<1>6. /\ M.head = L.head /\ M.tail = L.tail /\ M.size = L.size /\ M.node = new
      /\ M \in [head : Nat, tail : Nat, size : Nat, node : [{c[i] : i \in 1 .. n} -> Cell]]
  BY <1>2, <1>3, <1>5
<1> HIDE DEF M
<1>7. Numbered(M, n, c)
  BY <1>1, <1>4, <1>6 DEF Numbered
<1>8. Valued(M, n, c) = [i \in 1 .. n |-> Changed(Valued(L, n, c)[i], key, val)]
  BY <1>4, <1>6 DEF Valued
<1>9. QED
  BY <1>7, <1>8 DEF M

-----------------------------------------------------------------------------
\* A list without repetition, by the set of its values.
Holds(L, S) ==
    \E n, c : /\ Numbered(L, n, c)
              /\ \A i, j \in 1 .. n : Valued(L, n, c)[i] = Valued(L, n, c)[j] => i = j
              /\ S = {Valued(L, n, c)[i] : i \in 1 .. n}

LEMMA HoldsNone == Holds(ListNew, {})
<1> DEFINE c == [i \in 1 .. 0 |-> 1]
<1>1. ListNew = [head |-> 0, tail |-> 0, size |-> 0, node |-> <<>>]
  BY DEF ListNew, NULL
<1>2. <<>> \in [{} -> Cell] /\ {c[i] : i \in 1 .. 0} = {}
  OBVIOUS
<1>3. Following(c, 0, 0) = 0 /\ Preceding(c, 0 + 1) = 0
  BY DEF Following, Preceding
<1>4. Numbered(ListNew, 0, c)
  BY <1>1, <1>2, <1>3 DEF Numbered
<1>5. {Valued(ListNew, 0, c)[i] : i \in 1 .. 0} = {}
  OBVIOUS
<1>6. QED
  BY <1>4, <1>5 DEF Holds

LEMMA HoldsReads ==
    ASSUME NEW L, NEW S, Holds(L, S)
    PROVE  /\ WellLinked(L) /\ ListValues(L) \in Seq(Entry) /\ S \subseteq Entry
           /\ \A i, j \in 1 .. Len(ListValues(L)) : ListValues(L)[i] = ListValues(L)[j] => i = j
           /\ S = {ListValues(L)[i] : i \in 1 .. Len(ListValues(L))}
<1>1. PICK n, c : /\ Numbered(L, n, c)
                  /\ \A i, j \in 1 .. n : Valued(L, n, c)[i] = Valued(L, n, c)[j] => i = j
                  /\ S = {Valued(L, n, c)[i] : i \in 1 .. n}
  BY DEF Holds
<1>2. /\ ListValues(L) = Valued(L, n, c)
      /\ Valued(L, n, c) \in Seq(Entry) /\ Len(Valued(L, n, c)) = n
  BY <1>1, ValuesAre
<1>3. \A i \in 1 .. n : Valued(L, n, c)[i] \in Entry
  BY <1>2, ElementOfSeq
<1>4. WellLinked(L)
  BY <1>1, IsWellLinked
<1>5. QED
  BY <1>1, <1>2, <1>3, <1>4

LEMMA HoldsAppended ==
    ASSUME NEW L, NEW S, Holds(L, S), NEW v \in Entry, v \notin S
    PROVE  Holds(ListAppendTail(L, v), S \cup {v})
<1>1. PICK n, c : /\ Numbered(L, n, c)
                  /\ \A i, j \in 1 .. n : Valued(L, n, c)[i] = Valued(L, n, c)[j] => i = j
                  /\ S = {Valued(L, n, c)[i] : i \in 1 .. n}
  BY DEF Holds
<1> DEFINE d == Longer(c, n, Fresh(L))
           M == ListAppendTail(L, v)
           f == Valued(L, n, c)
           g == Valued(M, n + 1, d)
<1>2. Numbered(M, n + 1, d) /\ g = Longer(f, n, v) /\ n \in Nat
  BY <1>1, AppendsTail, NumberedFacts
<1> HIDE DEF d, M, f, g
<1>3. (\A i \in 1 .. n : g[i] = f[i]) /\ g[n + 1] = v /\ \A i \in 1 .. n : f[i] # v
  <2>1. \A i \in 1 .. n : f[i] # v
    BY <1>1 DEF f
  <2>2. n + 1 \in 1 .. n + 1 /\ ~ (n + 1 <= n) /\ \A i \in 1 .. n : i \in 1 .. n + 1 /\ i <= n
    BY <1>2
  <2>3. (\A i \in 1 .. n : g[i] = f[i]) /\ g[n + 1] = v
    BY <1>2, <2>2 DEF Longer
  <2>4. QED
    BY <2>1, <2>3
<1>4. \A i \in 1 .. n + 1 : i \in 1 .. n \/ i = n + 1
  BY <1>2
<1>5. \A i \in 1 .. n : i \in 1 .. n + 1
  BY <1>2
<1>6. n + 1 \in 1 .. n + 1
  BY <1>2
<1>7. \A i, j \in 1 .. n + 1 : g[i] = g[j] => i = j
  BY <1>1, <1>3, <1>4 DEF f
<1>8. {g[i] : i \in 1 .. n + 1} = S \cup {v}
  <2>1. \A i \in 1 .. n + 1 : g[i] \in S \cup {v}
    BY <1>1, <1>3, <1>4 DEF f
  <2>2. \A e \in S : \E i \in 1 .. n + 1 : e = g[i]
    BY <1>1, <1>3, <1>5 DEF f
  <2>3. QED
    BY <1>3, <1>6, <2>1, <2>2
<1>9. QED
  BY <1>2, <1>7, <1>8 DEF Holds, g, M

LEMMA HoldsDeleted ==
    ASSUME NEW L, NEW S, Holds(L, S), NEW k \in 1 .. Len(ListValues(L))
    PROVE  Holds(ListIteratorDeleteNode(L, Iterated(L)[k]), S \ {ListValues(L)[k]})
<1>1. PICK n, c : /\ Numbered(L, n, c)
                  /\ \A i, j \in 1 .. n : Valued(L, n, c)[i] = Valued(L, n, c)[j] => i = j
                  /\ S = {Valued(L, n, c)[i] : i \in 1 .. n}
  BY DEF Holds
<1>2. /\ ListValues(L) = Valued(L, n, c) /\ Len(Valued(L, n, c)) = n /\ n \in Nat
      /\ Iterated(L) = c
  BY <1>1, ValuesAre, IteratedIs
<1> DEFINE d == Shorter(c, n, k)
           M == ListIteratorDeleteNode(L, c[k])
           f == Valued(L, n, c)
           g == Valued(M, n - 1, d)
<1>3. k \in 1 .. n
  BY <1>2
<1>4. Numbered(M, n - 1, d) /\ g = Shorter(f, n, k)
  BY <1>1, <1>3, DeletesNode
<1>5. \A i \in 1 .. n - 1 : g[i] = IF i < k THEN f[i] ELSE f[i + 1]
  BY <1>4 DEF Shorter
<1> HIDE DEF d, M, f, g
<1>6. /\ \A i, j \in 1 .. n : f[i] = f[j] => i = j
      /\ S = {f[i] : i \in 1 .. n}
  BY <1>1 DEF f
<1>7. \A i, j \in 1 .. n - 1 : g[i] = g[j] => i = j
  BY <1>2, <1>3, <1>5, <1>6
<1>8. {g[i] : i \in 1 .. n - 1} = S \ {f[k]}
  <2>1. \A i \in 1 .. n - 1 : g[i] \in S /\ g[i] # f[k]
    BY <1>2, <1>3, <1>5, <1>6
  <2>2. ASSUME NEW i \in 1 .. n, i # k
        PROVE  \E j \in 1 .. n - 1 : f[i] = g[j]
    <3>1. CASE i < k
      <4>1. i \in 1 .. n - 1 /\ g[i] = f[i]
        BY <1>2, <1>3, <1>5, <3>1
      <4>2. QED
        BY <4>1
    <3>2. CASE i > k
      <4>1. i - 1 \in 1 .. n - 1 /\ (i - 1) + 1 = i /\ ~ (i - 1 < k)
        BY <1>2, <1>3, <3>2
      <4>2. g[i - 1] = f[i]
        BY <1>5, <4>1
      <4>3. QED
        BY <4>1, <4>2
    <3>3. QED
      BY <1>2, <1>3, <2>2, <3>1, <3>2
  <2>3. \A e \in S \ {f[k]} : \E i \in 1 .. n : e = f[i] /\ i # k
    BY <1>6
  <2>4. QED
    BY <2>1, <2>2, <2>3
<1>9. QED
  BY <1>2, <1>4, <1>7, <1>8 DEF Holds, M, f, g

LEMMA HoldsReplaced ==
    ASSUME NEW L, NEW S, Holds(L, S), NEW e \in S, NEW val \in Pool, \A d \in S : d.key = e.key => d = e
    PROVE  Holds(Replaced(L, e.key, val), (S \ {e}) \cup {[key |-> e.key, val |-> val]})
<1>1. PICK n, c : /\ Numbered(L, n, c)
                  /\ \A i, j \in 1 .. n : Valued(L, n, c)[i] = Valued(L, n, c)[j] => i = j
                  /\ S = {Valued(L, n, c)[i] : i \in 1 .. n}
  BY DEF Holds
<1> DEFINE M == Replaced(L, e.key, val)
           f == Valued(L, n, c)
           g == Valued(M, n, c)
           new == [key |-> e.key, val |-> val]
<1>2. Numbered(M, n, c) /\ g = [i \in 1 .. n |-> Changed(f[i], e.key, val)]
  <2>1. Numbered(L, n, c)
    BY <1>1
  <2>2. val \in Pool
    OBVIOUS
  <2>3. PICK key : key = e.key
    OBVIOUS
  <2>4. /\ Numbered(Replaced(L, key, val), n, c)
        /\ Valued(Replaced(L, key, val), n, c)
             = [i \in 1 .. n |-> Changed(Valued(L, n, c)[i], key, val)]
    BY <2>1, <2>2, Replaces
  <2>5. QED
    BY <2>3, <2>4
<1> HIDE DEF M, f, g
<1>3. /\ \A i, j \in 1 .. n : f[i] = f[j] => i = j
      /\ S = {f[i] : i \in 1 .. n}
  BY <1>1 DEF f
<1>4. S \subseteq Entry
  BY HoldsReads
<1>5. ASSUME NEW i \in 1 .. n
      PROVE  g[i] = IF f[i] = e THEN new ELSE f[i]
  <2>1. g[i] = Changed(f[i], e.key, val) /\ f[i] \in S
    BY <1>2, <1>3
  <2>2. CASE f[i] = e
    <3>1. e \in Entry
      BY <1>4
    <3>2. QED
      BY <2>1, <2>2, <3>1 DEF Changed, Entry
  <2>3. CASE f[i] # e
    BY <2>1, <2>3 DEF Changed
  <2>4. QED
    BY <2>2, <2>3
<1>6. \A d \in S : d # e => d # new
  <2>1. new.key = e.key
    OBVIOUS
  <2>2. QED
    BY <2>1
<1> HIDE DEF new
<1>7. \A i, j \in 1 .. n : g[i] = g[j] => i = j
  BY <1>3, <1>5, <1>6
<1>8. {g[i] : i \in 1 .. n} = (S \ {e}) \cup {new}
  <2>1. \A i \in 1 .. n : g[i] \in (S \ {e}) \cup {new}
    BY <1>3, <1>5
  <2>2. \A d \in S \ {e} : \E i \in 1 .. n : d = g[i]
    BY <1>3, <1>5
  <2>3. \E i \in 1 .. n : new = g[i]
    BY <1>3, <1>5
  <2>4. QED
    BY <2>1, <2>2, <2>3
<1>9. QED
  <2>1. /\ Numbered(M, n, c)
        /\ \A i, j \in 1 .. n : Valued(M, n, c)[i] = Valued(M, n, c)[j] => i = j
        /\ (S \ {e}) \cup {new} = {Valued(M, n, c)[i] : i \in 1 .. n}
    BY <1>2, <1>7, <1>8 DEF g
  <2>2. Holds(M, (S \ {e}) \cup {new})
    BY <2>1 DEF Holds
  <2>3. QED
    BY <2>2 DEF M, new

-----------------------------------------------------------------------------
(***************************************************************************)
(* Sequences of sequences, one behind the other                            *)
(***************************************************************************)
Flattening(s, at) == [i \in 1 .. Len(s) |-> IF i = 1 THEN s[i] ELSE at[i - 1] \o s[i]]

LEMMA FlattenUnfolds ==
    ASSUME NEW s, Len(s) \in Nat \ {0}
    PROVE  \E w : w = Flattening(s, w) /\ FlattenSeq(s) = w[Len(s)]
<1> DEFINE Until(m, g) == g = [i \in 1 .. m |-> IF i = 1 THEN s[i] ELSE g[i - 1] \o s[i]]
           T == {m \in 1 .. Len(s) : ~ \E g : Until(m, g)}
<1> HIDE DEF Until
<1>1. T = {}
  <2> SUFFICES ASSUME T # {}
               PROVE  FALSE
    OBVIOUS
  <2>1. PICK m \in T : \A k \in T : m <= k
    <3>1. T \subseteq Nat
      OBVIOUS
    <3>2. QED
      BY <3>1, LeastNat
  <2>2. m \in 1 .. Len(s) /\ m \in Nat
    OBVIOUS
  <2>3. CASE m = 1
    <3>1. Until(1, [i \in 1 .. 1 |-> s[i]])
      BY DEF Until
    <3>2. QED
      BY <2>3, <3>1
  <2>4. CASE m # 1
    <3>1. m - 1 \in 1 .. Len(s) /\ m - 1 \notin T
      BY <2>1, <2>2, <2>4
    <3>2. PICK g : Until(m - 1, g)
      BY <3>1
    <3> DEFINE last == g[m - 1] \o s[m]
               h == [i \in 1 .. m |-> IF i < m THEN g[i] ELSE last]
    <3> HIDE DEF last
    <3>3. \A i \in 1 .. m : h[i] = IF i = 1 THEN s[i] ELSE h[i - 1] \o s[i]
      <4> SUFFICES ASSUME NEW i \in 1 .. m
                   PROVE  h[i] = IF i = 1 THEN s[i] ELSE h[i - 1] \o s[i]
        OBVIOUS
      <4>1. CASE i < m
        <5>1. i \in 1 .. m - 1 /\ (i # 1 => i - 1 \in 1 .. m /\ i - 1 < m)
          BY <2>2, <4>1
        <5>2. h[i] = g[i] /\ (i # 1 => h[i - 1] = g[i - 1])
          BY <4>1, <5>1
        <5>3. QED
          BY <3>2, <5>1, <5>2 DEF Until
      <4>2. CASE i = m
        <5>1. ~ (i < m) /\ i # 1 /\ i - 1 \in 1 .. m /\ i - 1 < m
          BY <2>2, <2>4, <4>2
        <5>2. h[i] = last /\ h[i - 1] = g[i - 1]
          BY <5>1
        <5>3. last = g[i - 1] \o s[i]
          BY <4>2 DEF last
        <5>4. QED
          BY <5>1, <5>2, <5>3
      <4>3. QED
        BY <2>2, <4>1, <4>2
    <3>4. h = [i \in 1 .. m |-> h[i]]
      OBVIOUS
    <3> HIDE DEF h
    <3>6. Until(m, h)
      BY <3>3, <3>4 DEF Until
    <3>7. QED
      BY <3>6
  <2>5. QED
    BY <2>3, <2>4
<1>2. PICK g : Until(Len(s), g)
  <2>1. Len(s) \in 1 .. Len(s)
    OBVIOUS
  <2>2. QED
    BY <1>1, <2>1
<1>3. g = Flattening(s, g)
  BY <1>2 DEF Until, Flattening
<1>4. QED
  BY <1>3 DEF FlattenSeq, Flattening

LEMMA FlattenIs ==
    ASSUME NEW A, NEW s, Len(s) \in Nat \ {0}, \A i \in 1 .. Len(s) : s[i] \in Seq(A)
    PROVE  /\ FlattenSeq(s) \in Seq(A)
           /\ \A x : (\E j \in 1 .. Len(FlattenSeq(s)) : FlattenSeq(s)[j] = x)
                       <=> \E i \in 1 .. Len(s) : \E j \in 1 .. Len(s[i]) : s[i][j] = x
           /\ (\A i, k \in 1 .. Len(s) : \A j \in 1 .. Len(s[i]), l \in 1 .. Len(s[k]) :
                  s[i][j] = s[k][l] => i = k /\ j = l)
              => \A j, l \in 1 .. Len(FlattenSeq(s)) : FlattenSeq(s)[j] = FlattenSeq(s)[l] => j = l
<1>1. PICK w : w = Flattening(s, w) /\ FlattenSeq(s) = w[Len(s)]
  BY FlattenUnfolds
<1>2. PICK n \in Nat \ {0} : n = Len(s)
  OBVIOUS
<1>3. \A i \in 1 .. n : w[i] = IF i = 1 THEN s[i] ELSE w[i - 1] \o s[i]
  BY <1>1, <1>2 DEF Flattening
<1> DEFINE Apart == \A i, k \in 1 .. n : \A j \in 1 .. Len(s[i]), l \in 1 .. Len(s[k]) :
                       s[i][j] = s[k][l] => i = k /\ j = l
           Good(m, r) == /\ r \in Seq(A)
                         /\ \A j \in 1 .. Len(r) :
                               \E i \in 1 .. m : \E l \in 1 .. Len(s[i]) : s[i][l] = r[j]
                         /\ \A i \in 1 .. m : \A l \in 1 .. Len(s[i]) :
                               \E j \in 1 .. Len(r) : s[i][l] = r[j]
                         /\ Apart => \A j, l \in 1 .. Len(r) : r[j] = r[l] => j = l
           T == {m \in 1 .. n : ~ Good(m, w[m])}
<1> HIDE DEF Good
<1>4. T = {}
  <2> SUFFICES ASSUME T # {}
               PROVE  FALSE
    OBVIOUS
  <2>1. PICK m \in T : \A k \in T : m <= k
    <3>1. T \subseteq Nat
      OBVIOUS
    <3>2. QED
      BY <3>1, LeastNat
  <2>2. m \in 1 .. n /\ m \in Nat /\ ~ Good(m, w[m])
    OBVIOUS
  <2>3. CASE m = 1
    <3>1. w[1] = s[1] /\ s[1] \in Seq(A) /\ 1 \in 1 .. n
      BY <1>2, <1>3
    <3>2. Good(1, w[1])
      BY <3>1 DEF Good
    <3>3. QED
      BY <2>2, <2>3, <3>2
  <2>4. CASE m # 1
    <3>1. m - 1 \in 1 .. n /\ m - 1 \notin T /\ m - 1 \in Nat
      BY <2>1, <2>2, <2>4
    <3>2. PICK k \in 1 .. n : k = m - 1
      BY <3>1
    <3>3. Good(k, w[k])
      BY <3>1, <3>2
    <3>4. PICK a \in Seq(A) : a = w[k] /\ Good(k, a)
      BY <3>3 DEF Good
    <3>5. PICK b \in Seq(A) : b = s[m]
      BY <1>2, <2>2
    <3>6. PICK z : z = w[m]
      OBVIOUS
    <3>7. z = a \o b
      BY <1>3, <2>2, <2>4, <3>2, <3>4, <3>5, <3>6
    <3>8. PICK p \in Nat, q \in Nat : p = Len(a) /\ q = Len(b)
      BY LenProperties
    <3>9. /\ z \in Seq(A) /\ Len(z) = p + q
          /\ \A i \in 1 .. p + q : z[i] = IF i <= p THEN a[i] ELSE b[i - p]
      BY <3>7, <3>8, ConcatProperties
    <3> HIDE DEF Apart, T
    <3>10. /\ \A j \in 1 .. p : \E i \in 1 .. k : \E l \in 1 .. Len(s[i]) : s[i][l] = a[j]
           /\ \A i \in 1 .. k : \A l \in 1 .. Len(s[i]) : \E j \in 1 .. p : s[i][l] = a[j]
           /\ Apart => \A j, l \in 1 .. p : a[j] = a[l] => j = l
      <4>1. /\ \A j \in 1 .. Len(a) : \E i \in 1 .. k : \E l \in 1 .. Len(s[i]) : s[i][l] = a[j]
            /\ \A i \in 1 .. k : \A l \in 1 .. Len(s[i]) : \E j \in 1 .. Len(a) : s[i][l] = a[j]
            /\ Apart => \A j, l \in 1 .. Len(a) : a[j] = a[l] => j = l
        BY <3>4 DEF Good
      <4>2. QED
        BY <3>8, <4>1
    <3>11. k \in Nat /\ m = k + 1 /\ m \in 1 .. n
      BY <2>2, <3>2
    <3>12. \A j \in 1 .. p + q : j \in 1 .. p \/ (j - p \in 1 .. q /\ ~ (j <= p))
      OBVIOUS
    <3>13. /\ \A j \in 1 .. p : j \in 1 .. p + q /\ z[j] = a[j]
           /\ \A j \in 1 .. q : p + j \in 1 .. p + q /\ z[p + j] = b[j]
      <4>1. \A j \in 1 .. p : j \in 1 .. p + q /\ j <= p
        OBVIOUS
      <4>2. \A j \in 1 .. q : p + j \in 1 .. p + q /\ ~ (p + j <= p) /\ (p + j) - p = j
        OBVIOUS
      <4>3. QED
        BY <3>9, <4>1, <4>2
    <3>14. \A j \in 1 .. p + q : \E i \in 1 .. m : \E l \in 1 .. Len(s[i]) : s[i][l] = z[j]
      <4> SUFFICES ASSUME NEW j \in 1 .. p + q
                   PROVE  \E i \in 1 .. m : \E l \in 1 .. Len(s[i]) : s[i][l] = z[j]
        OBVIOUS
      <4>1. CASE j \in 1 .. p
        <5>1. PICK i \in 1 .. k : \E l \in 1 .. Len(s[i]) : s[i][l] = a[j]
          BY <3>10, <4>1
        <5>2. i \in 1 .. m
          BY <3>11
        <5>3. QED
          BY <3>13, <4>1, <5>1, <5>2
      <4>2. CASE j - p \in 1 .. q /\ ~ (j <= p)
        <5>1. z[j] = b[j - p]
          BY <3>9, <4>2
        <5>2. m \in 1 .. m /\ j - p \in 1 .. Len(s[m]) /\ s[m][j - p] = z[j]
          BY <3>5, <3>8, <3>11, <4>2, <5>1
        <5>3. QED
          BY <5>2
      <4>3. QED
        BY <3>12, <4>1, <4>2
    <3>15. \A i \in 1 .. m : \A l \in 1 .. Len(s[i]) : \E j \in 1 .. p + q : s[i][l] = z[j]
      <4> SUFFICES ASSUME NEW i \in 1 .. m, NEW l \in 1 .. Len(s[i])
                   PROVE  \E j \in 1 .. p + q : s[i][l] = z[j]
        OBVIOUS
      <4>1. CASE i \in 1 .. k
        <5>1. PICK j \in 1 .. p : s[i][l] = a[j]
          BY <3>10, <4>1
        <5>2. QED
          BY <3>13, <5>1
      <4>2. CASE i = m
        BY <3>5, <3>8, <3>13, <4>2
      <4>3. QED
        BY <3>11, <4>1, <4>2
    <3>16. ASSUME Apart
           PROVE  \A j, l \in 1 .. p + q : z[j] = z[l] => j = l
      <4>1. \A j, l \in 1 .. p : a[j] = a[l] => j = l
        BY <3>10, <3>16
      <4>2. \A j, l \in 1 .. q : b[j] = b[l] => j = l
        BY <3>5, <3>8, <3>11, <3>16 DEF Apart
      <4>3. \A j \in 1 .. p, l \in 1 .. q : a[j] # b[l]
        <5> SUFFICES ASSUME NEW j \in 1 .. p, NEW l \in 1 .. q, a[j] = b[l]
                     PROVE  FALSE
          OBVIOUS
        <5>1. PICK i \in 1 .. k : \E h \in 1 .. Len(s[i]) : s[i][h] = a[j]
          BY <3>10
        <5>0. PICK h \in 1 .. Len(s[i]) : s[i][h] = a[j]
          BY <5>1
        <5>2. i \in 1 .. n /\ i # m /\ l \in 1 .. Len(s[m]) /\ s[m][l] = b[l]
          BY <3>5, <3>8, <3>11
        <5>3. QED
          BY <3>11, <3>16, <5>0, <5>2 DEF Apart
      <4>4. ASSUME NEW j \in 1 .. p + q, NEW l \in 1 .. p + q, z[j] = z[l]
            PROVE  j = l
        <5>1. CASE j \in 1 .. p /\ l \in 1 .. p
          BY <3>13, <4>1, <4>4, <5>1
        <5>2. CASE j \in 1 .. p /\ l - p \in 1 .. q /\ ~ (l <= p)
          <6>1. z[l] = b[l - p] /\ z[j] = a[j]
            BY <3>9, <3>13, <5>2
          <6>2. QED
            BY <4>3, <4>4, <5>2, <6>1
        <5>3. CASE l \in 1 .. p /\ j - p \in 1 .. q /\ ~ (j <= p)
          <6>1. z[j] = b[j - p] /\ z[l] = a[l]
            BY <3>9, <3>13, <5>3
          <6>2. QED
            BY <4>3, <4>4, <5>3, <6>1
        <5>4. CASE l - p \in 1 .. q /\ ~ (l <= p) /\ j - p \in 1 .. q /\ ~ (j <= p)
          <6>1. z[j] = b[j - p] /\ z[l] = b[l - p]
            BY <3>9, <5>4
          <6>2. j - p = l - p
            BY <4>2, <4>4, <5>4, <6>1
          <6>3. QED
            BY <6>2
        <5>5. QED
          BY <3>12, <5>1, <5>2, <5>3, <5>4
      <4>5. QED
        BY <4>4
    <3>17. Good(m, w[m])
      BY <3>6, <3>9, <3>14, <3>15, <3>16 DEF Good
    <3>18. QED
      BY <2>2, <3>17
  <2>5. QED
    BY <2>3, <2>4
<1>5. Good(n, w[n]) /\ FlattenSeq(s) = w[n]
  BY <1>1, <1>2, <1>4
<1>6. PICK r : r = w[n] /\ Good(n, r)
  BY <1>5
<1>7. /\ r \in Seq(A) /\ FlattenSeq(s) = r
      /\ \A j \in 1 .. Len(r) : \E i \in 1 .. n : \E l \in 1 .. Len(s[i]) : s[i][l] = r[j]
      /\ \A i \in 1 .. n : \A l \in 1 .. Len(s[i]) : \E j \in 1 .. Len(r) : s[i][l] = r[j]
      /\ Apart => \A j, l \in 1 .. Len(r) : r[j] = r[l] => j = l
  BY <1>5, <1>6 DEF Good
<1>8. ASSUME NEW x
      PROVE  (\E j \in 1 .. Len(r) : r[j] = x)
                <=> \E i \in 1 .. n : \E j \in 1 .. Len(s[i]) : s[i][j] = x
  <2>1. ASSUME NEW j \in 1 .. Len(r), r[j] = x
        PROVE  \E i \in 1 .. n : \E l \in 1 .. Len(s[i]) : s[i][l] = x
    BY <1>7, <2>1
  <2>2. ASSUME NEW i \in 1 .. n, NEW j \in 1 .. Len(s[i]), s[i][j] = x
        PROVE  \E l \in 1 .. Len(r) : r[l] = x
    BY <1>7, <2>2
  <2>3. QED
    BY <2>1, <2>2
<1>9. QED
  BY <1>2, <1>7, <1>8

-----------------------------------------------------------------------------
(***************************************************************************)
(* The map, by the set of its entries                                      *)
(***************************************************************************)
Slot(key, n) == Hash[key] % n
Distributed(B, n, P) ==
    /\ n \in Nat \ {0} /\ DOMAIN B = 0 .. n - 1 /\ P \subseteq Entry
    /\ \A i \in 0 .. n - 1 : Holds(B[i], {e \in P : Slot(e.key, n) = i})
Represents(map, P) ==
    /\ map = [buckets |-> map.buckets, capacity |-> map.capacity, size |-> map.size]
    /\ Distributed(map.buckets, map.capacity, P)
    /\ \A d, e \in P : d.key = e.key => d = e
    /\ IsFiniteSet(P) /\ map.size = Cardinality(P)

LEMMA SlotIs ==
    ASSUME NEW key \in Names, NEW n \in Nat \ {0}
    PROVE  Slot(key, n) \in 0 .. n - 1
<1>1. Hash[key] \in Nat
  BY HashMapAssumption, CatalogAssumption
<1>2. QED
  BY <1>1 DEF Slot

LEMMA DistributedNone ==
    ASSUME NEW n \in Nat \ {0}
    PROVE  Distributed(buckets_init(n), n, {})
<1>1. \A i \in 0 .. n - 1 : buckets_init(n)[i] = ListNew /\ {e \in {} : Slot(e.key, n) = i} = {}
  BY DEF buckets_init
<1>2. DOMAIN buckets_init(n) = 0 .. n - 1
  BY DEF buckets_init
<1>3. \A i \in 0 .. n - 1 : Holds(buckets_init(n)[i], {e \in {} : Slot(e.key, n) = i})
  BY <1>1, HoldsNone
<1>4. QED
  BY <1>2, <1>3 DEF Distributed

\* One bucket is changed, and with it the entries of its slot.
LEMMA DistributedChanged ==
    ASSUME NEW B, NEW n, NEW P, Distributed(B, n, P), NEW Q, Q \subseteq Entry,
           NEW i \in 0 .. n - 1, NEW L, Holds(L, {e \in Q : Slot(e.key, n) = i}),
           \A e : Slot(e.key, n) # i => (e \in Q <=> e \in P)
    PROVE  Distributed([B EXCEPT ![i] = L], n, Q)
<1> DEFINE C == [B EXCEPT ![i] = L]
<1>1. n \in Nat \ {0} /\ DOMAIN B = 0 .. n - 1
  BY DEF Distributed
<1>2. DOMAIN C = 0 .. n - 1 /\ C[i] = L /\ \A j \in 0 .. n - 1 : j # i => C[j] = B[j]
  BY <1>1
<1> HIDE DEF C
<1>3. ASSUME NEW j \in 0 .. n - 1
      PROVE  Holds(C[j], {e \in Q : Slot(e.key, n) = j})
  <2>1. CASE j = i
    BY <1>2, <2>1
  <2>2. CASE j # i
    <3>1. {e \in Q : Slot(e.key, n) = j} = {e \in P : Slot(e.key, n) = j}
      BY <2>2
    <3>2. Holds(B[j], {e \in P : Slot(e.key, n) = j})
      BY DEF Distributed
    <3>3. QED
      BY <1>2, <2>2, <3>1, <3>2
  <2>3. QED
    BY <2>1, <2>2
<1>4. QED
  BY <1>1, <1>2, <1>3 DEF Distributed, C

LEMMA DistributedAdded ==
    ASSUME NEW B, NEW n, NEW P, Distributed(B, n, P), NEW v \in Entry, v \notin P
    PROVE  Distributed([B EXCEPT ![Slot(v.key, n)] = ListAppendTail(@, v)], n, P \cup {v})
<1>1. PICK i : i = Slot(v.key, n)
  OBVIOUS
<1>2. v.key \in Names
  BY DEF Entry
<1>3. n \in Nat \ {0} /\ P \subseteq Entry
  BY DEF Distributed
<1>4. i \in 0 .. n - 1
  BY <1>1, <1>2, <1>3, SlotIs
<1>5. Holds(B[i], {e \in P : Slot(e.key, n) = i})
  BY <1>4 DEF Distributed
<1>6. {e \in P \cup {v} : Slot(e.key, n) = i} = {e \in P : Slot(e.key, n) = i} \cup {v}
  BY <1>1
<1>7. Holds(ListAppendTail(B[i], v), {e \in P \cup {v} : Slot(e.key, n) = i})
  <2>1. v \notin {e \in P : Slot(e.key, n) = i}
    OBVIOUS
  <2>2. Holds(ListAppendTail(B[i], v), {e \in P : Slot(e.key, n) = i} \cup {v})
    BY <1>5, <2>1, HoldsAppended
  <2>3. QED
    BY <1>6, <2>2
<1>8. \A e : Slot(e.key, n) # i => (e \in P \cup {v} <=> e \in P)
  BY <1>1
<1>9. P \cup {v} \subseteq Entry
  BY <1>3
<1>10. Distributed([B EXCEPT ![i] = ListAppendTail(B[i], v)], n, P \cup {v})
  BY <1>4, <1>7, <1>8, <1>9, DistributedChanged
<1>11. QED
  BY <1>1, <1>10

LEMMA OnlyOne ==
    ASSUME NEW k \in Nat
    PROVE  Max({k}) = k /\ Min({k}) = k
<1>1. \A x \in {k} : \A y \in {k} : x >= y /\ x <= y
  OBVIOUS
<1>2. Max({k}) \in {k}
  BY <1>1 DEF Max
<1>3. Min({k}) \in {k}
  BY <1>1 DEF Min
<1>4. QED
  BY <1>2, <1>3

LEMMA FoundIs ==
    ASSUME NEW L, NEW S, Holds(L, S), NEW key, \A d, e \in S : d.key = e.key => d = e
    PROVE  /\ (\A e \in S : e.key # key) => Found(L, key) = {}
           /\ \A e \in S : e.key = key =>
                 \E k \in 1 .. Len(ListValues(L)) :
                    /\ Found(L, key) = {k} /\ ListValues(L)[k] = e
                    /\ Max(Found(L, key)) = k /\ Min(Found(L, key)) = k
<1>1. PICK f \in Seq(Entry) : f = ListValues(L)
  BY HoldsReads
<1>2. PICK n \in Nat : n = Len(f) /\ DOMAIN f = 1 .. n
  BY LenProperties
<1>3. /\ \A i, j \in 1 .. n : f[i] = f[j] => i = j
      /\ S = {f[i] : i \in 1 .. n}
  <2>1. /\ \A i, j \in 1 .. Len(ListValues(L)) : ListValues(L)[i] = ListValues(L)[j] => i = j
        /\ S = {ListValues(L)[i] : i \in 1 .. Len(ListValues(L))}
    BY HoldsReads
  <2>2. QED
    BY <1>1, <1>2, <2>1
<1>4. Found(L, key) = {i \in 1 .. n : f[i].key = key}
  BY <1>1, <1>2 DEF Found
<1>5. ASSUME NEW e \in S, e.key = key
      PROVE  \E k \in 1 .. n : /\ Found(L, key) = {k} /\ f[k] = e
                               /\ Max(Found(L, key)) = k /\ Min(Found(L, key)) = k
  <2>1. PICK k \in 1 .. n : f[k] = e
    BY <1>3
  <2>2. \A i \in 1 .. n : f[i].key = key => i = k
    <3> SUFFICES ASSUME NEW i \in 1 .. n, f[i].key = key
                 PROVE  i = k
      OBVIOUS
    <3>1. f[i] \in S /\ f[i].key = e.key
      BY <1>3, <1>5
    <3>2. f[i] = e
      BY <3>1
    <3>3. QED
      BY <1>3, <2>1, <3>2
  <2>3. Found(L, key) = {k}
    BY <1>4, <1>5, <2>1, <2>2
  <2>4. k \in Nat
    OBVIOUS
  <2>5. Max({k}) = k /\ Min({k}) = k
    BY <2>4, OnlyOne
  <2>6. QED
    BY <2>1, <2>3, <2>5
<1>6. ASSUME \A e \in S : e.key # key
      PROVE  Found(L, key) = {}
  BY <1>3, <1>4, <1>6
<1>7. QED
  BY <1>1, <1>2, <1>5, <1>6

LEMMA BucketIs ==
    ASSUME NEW map, NEW P, Represents(map, P), NEW key \in Names
    PROVE  /\ map.capacity \in Nat \ {0} /\ Slot(key, map.capacity) \in 0 .. map.capacity - 1
           /\ Bucket(map, key) = map.buckets[Slot(key, map.capacity)]
           /\ Holds(Bucket(map, key), {e \in P : Slot(e.key, map.capacity) = Slot(key, map.capacity)})
<1>1. map.capacity \in Nat \ {0}
  BY DEF Represents, Distributed
<1>2. Slot(key, map.capacity) \in 0 .. map.capacity - 1
  BY <1>1, SlotIs
<1>3. Bucket(map, key) = map.buckets[Slot(key, map.capacity)]
  BY DEF Bucket, Slot
<1>4. Holds(map.buckets[Slot(key, map.capacity)],
            {e \in P : Slot(e.key, map.capacity) = Slot(key, map.capacity)})
  BY <1>2 DEF Represents, Distributed
<1>5. QED
  BY <1>1, <1>2, <1>3, <1>4

\* A lookup finds what is there, and nothing else.
LEMMA MapFinds ==
    ASSUME NEW map, NEW P, Represents(map, P), NEW key \in Names
    PROVE  /\ map_exists(map, key) <=> \E e \in P : e.key = key
           /\ \A e \in P : e.key = key => map_get(map, key) = e.val
<1>1. PICK L, S : /\ L = Bucket(map, key) /\ Holds(L, S)
                  /\ S = {e \in P : Slot(e.key, map.capacity) = Slot(key, map.capacity)}
  BY BucketIs
<1>2. \A d, e \in S : d.key = e.key => d = e
  BY <1>1 DEF Represents
<1>3. ASSUME NEW e \in P, e.key = key
      PROVE  map_exists(map, key) /\ map_get(map, key) = e.val
  <2>1. e \in S
    BY <1>1, <1>3
  <2>2. PICK k : Found(L, key) = {k} /\ ListValues(L)[k] = e /\ Max(Found(L, key)) = k
    BY <1>1, <1>2, <1>3, <2>1, FoundIs
  <2>3. map_exists(map, key)
    BY <1>1, <2>2 DEF map_exists
  <2>4. QED
    BY <1>1, <2>2, <2>3 DEF map_get
<1>4. ASSUME \A e \in P : e.key # key
      PROVE  ~ map_exists(map, key)
  <2>1. \A e \in S : e.key # key
    BY <1>1, <1>4
  <2>2. Found(L, key) = {}
    BY <1>1, <1>2, <2>1, FoundIs
  <2>3. QED
    BY <1>1, <2>2 DEF map_exists
<1>5. QED
  BY <1>3, <1>4

LEMMA Updated ==
    ASSUME NEW map, NEW B, NEW n, NEW size, map = [buckets |-> B, capacity |-> n, size |-> size],
           NEW C, NEW y, NEW m, m = [map EXCEPT !.buckets = C, !.size = y]
    PROVE  m = [buckets |-> C, capacity |-> n, size |-> y]
<1>1. m.buckets = C /\ m.size = y /\ m.capacity = n
  OBVIOUS
<1>2. QED
  BY <1>1

LEMMA MapRemoves ==
    ASSUME NEW map, NEW P, Represents(map, P), NEW key \in Names
    PROVE  Represents(map_remove(map, key), {e \in P : e.key # key})
<1> DEFINE Q == {e \in P : e.key # key}
<1>1. CASE \A e \in P : e.key # key
  <2>1. Q = P
    BY <1>1
  <2>2. map_remove(map, key) = map
    BY <1>1, MapFinds DEF map_remove
  <2>3. QED
    BY <2>1, <2>2
<1>2. ASSUME NEW v \in P, v.key = key
      PROVE  Represents(map_remove(map, key), Q)
  <2>1. PICK n, i :
           /\ n \in Nat \ {0} /\ i \in 0 .. n - 1 /\ n = map.capacity /\ i = Slot(key, n) /\ Bucket(map, key) = map.buckets[i]
           /\ Holds(map.buckets[i], {e \in P : Slot(e.key, n) = i})
    <3>1. PICK n, i : n = map.capacity /\ i = Slot(key, n)
      OBVIOUS
    <3>2. /\ n \in Nat \ {0} /\ i \in 0 .. n - 1 /\ Bucket(map, key) = map.buckets[i]
          /\ Holds(Bucket(map, key), {e \in P : Slot(e.key, n) = i})
      BY <3>1, BucketIs
    <3>3. QED
      BY <3>1, <3>2
  <2>2. PICK L, S : /\ L = map.buckets[i] /\ S = {e \in P : Slot(e.key, n) = i}
    OBVIOUS
  <2>3. Holds(L, S) /\ v \in S /\ \A d, e \in S : d.key = e.key => d = e
    BY <1>2, <2>1, <2>2 DEF Represents
  <2>4. PICK k \in 1 .. Len(ListValues(L)) :
           ListValues(L)[k] = v /\ Min(Found(L, key)) = k
    BY <1>2, <2>3, FoundIs
  <2>5. PICK M : M = ListIteratorDeleteNode(L, Iterated(L)[k])
    OBVIOUS
  <2>6. Holds(M, S \ {v})
    BY <2>3, <2>4, <2>5, HoldsDeleted
  <2>7. /\ map_remove(map, key) = [map EXCEPT !.buckets[i] = M, !.size = @ - 1]
    BY <1>2, <2>1, <2>2, <2>4, <2>5, MapFinds DEF map_remove, Slot
  <2>8. Q = P \ {v} /\ S \ {v} = {e \in Q : Slot(e.key, n) = i}
    BY <1>2, <2>2 DEF Represents
  <2>9. PICK B : B = [map.buckets EXCEPT ![i] = M]
    OBVIOUS
  <2>10. Distributed(B, n, Q)
    <3>1. Distributed(map.buckets, n, P) /\ Q \subseteq Entry
      BY <2>1 DEF Represents, Distributed
    <3>2. \A e : Slot(e.key, n) # i => (e \in Q <=> e \in P)
      BY <2>1
    <3>3. i \in 0 .. n - 1 /\ Holds(M, {e \in Q : Slot(e.key, n) = i})
      BY <2>1, <2>6, <2>8
    <3> HIDE DEF Q
    <3>4. PICK C : C = map.buckets
      OBVIOUS
    <3>5. Distributed([C EXCEPT ![i] = M], n, Q)
      BY <3>1, <3>2, <3>3, <3>4, DistributedChanged
    <3>6. QED
      BY <2>9, <3>4, <3>5
  <2>11. /\ map = [buckets |-> map.buckets, capacity |-> n, size |-> map.size]
         /\ IsFiniteSet(P) /\ map.size = Cardinality(P)
         /\ \A d, e \in P : d.key = e.key => d = e
    BY <2>1 DEF Represents
  <2>12. map_remove(map, key) = [buckets |-> B, capacity |-> n, size |-> map.size - 1]
    <3>1. PICK C, z : C = map.buckets /\ z = map.size /\ map = [buckets |-> C, capacity |-> n, size |-> z]
      BY <2>11
    <3>2. map_remove(map, key) = [map EXCEPT !.buckets = [C EXCEPT ![i] = M], !.size = z - 1]
      BY <2>7, <3>1
    <3>3. [C EXCEPT ![i] = M] = B
      BY <2>9, <3>1
    <3>4. map_remove(map, key) = [map EXCEPT !.buckets = B, !.size = z - 1]
      BY <3>2, <3>3
    <3>5. PICK r, y : r = map_remove(map, key) /\ y = z - 1
      OBVIOUS
    <3>6. r = [map EXCEPT !.buckets = B, !.size = y] /\ map = [buckets |-> C, capacity |-> n, size |-> z]
      BY <3>1, <3>4, <3>5
    <3>7. r = [buckets |-> B, capacity |-> n, size |-> y]
      BY <3>6, Updated
    <3>8. QED
      BY <3>1, <3>5, <3>7
  <2>13. IsFiniteSet(Q) /\ Cardinality(Q) = map.size - 1
    BY <1>2, <2>8, <2>11, FS_RemoveElement
  <2>14. QED
    BY <2>10, <2>11, <2>12, <2>13 DEF Represents
<1>3. QED
  BY <1>1, <1>2

\* FOR_MAP gives every entry once.
LEMMA EntriesAre ==
    ASSUME NEW map, NEW P, Represents(map, P)
    PROVE  /\ Entries(map) \in Seq(Entry) /\ Len(Entries(map)) \in Nat
           /\ \A j, l \in 1 .. Len(Entries(map)) : Entries(map)[j] = Entries(map)[l] => j = l
           /\ P = {Entries(map)[j] : j \in 1 .. Len(Entries(map))}
<1>1. PICK n \in Nat \ {0} : n = map.capacity
  BY DEF Represents, Distributed
<1> DEFINE s == [i \in 1 .. n |-> ListValues(map.buckets[i - 1])]
           In(i) == {e \in P : Slot(e.key, n) = i - 1}
<1>2. Entries(map) = FlattenSeq(s)
  BY <1>1 DEF Entries
<1>3. ASSUME NEW i \in 1 .. n
      PROVE  /\ s[i] \in Seq(Entry)
             /\ \A j, l \in 1 .. Len(s[i]) : s[i][j] = s[i][l] => j = l
             /\ In(i) = {s[i][j] : j \in 1 .. Len(s[i])}
  <2>1. i - 1 \in 0 .. n - 1
    OBVIOUS
  <2>2. PICK L, k, S : L = map.buckets[k] /\ k = i - 1 /\ S = In(i)
    OBVIOUS
  <2>3. Holds(L, S)
    BY <1>1, <2>1, <2>2 DEF Represents, Distributed
  <2>4. PICK f : f = ListValues(L)
    OBVIOUS
  <2>5. /\ f \in Seq(Entry) /\ \A j, l \in 1 .. Len(f) : f[j] = f[l] => j = l
        /\ S = {f[j] : j \in 1 .. Len(f)}
    BY <2>3, <2>4, HoldsReads
  <2>6. s[i] = f
    BY <2>2, <2>4
  <2>7. QED
    BY <2>2, <2>5, <2>6
<1>4. s \in Seq(Seq(Entry)) /\ Len(s) = n
  BY <1>3, IsSequence
<1> HIDE DEF s
<1>5. \A e \in P : \E i \in 1 .. n : e \in In(i)
  <2> SUFFICES ASSUME NEW e \in P
               PROVE  \E i \in 1 .. n : e \in In(i)
    OBVIOUS
  <2>1. e.key \in Names
    BY DEF Represents, Distributed, Entry
  <2>2. PICK k \in 0 .. n - 1 : k = Slot(e.key, n)
    BY <2>1, SlotIs
  <2>3. k + 1 \in 1 .. n /\ (k + 1) - 1 = k
    OBVIOUS
  <2>4. e \in In(k + 1)
    BY <2>2, <2>3
  <2>5. QED
    BY <2>3, <2>4
<1>6. \A i, k \in 1 .. n : \A e : e \in In(i) /\ e \in In(k) => i = k
  OBVIOUS
<1>7. \A i \in 1 .. n : In(i) \subseteq P
  OBVIOUS
<1> HIDE DEF In
<1>8. \A i, k \in 1 .. n : \A j \in 1 .. Len(s[i]), l \in 1 .. Len(s[k]) :
         s[i][j] = s[k][l] => i = k /\ j = l
  <2> SUFFICES ASSUME NEW i \in 1 .. n, NEW k \in 1 .. n, NEW j \in 1 .. Len(s[i]),
                      NEW l \in 1 .. Len(s[k]), s[i][j] = s[k][l]
               PROVE  i = k /\ j = l
    OBVIOUS
  <2>1. s[i][j] \in In(i) /\ s[k][l] \in In(k)
    BY <1>3
  <2>2. i = k
    BY <1>6, <2>1
  <2>3. QED
    BY <1>3, <2>2
<1>9. PICK f : f = FlattenSeq(s)
  OBVIOUS
<1>10. /\ f \in Seq(Entry)
       /\ \A x : (\E j \in 1 .. Len(f) : f[j] = x)
                   <=> \E i \in 1 .. n : \E j \in 1 .. Len(s[i]) : s[i][j] = x
       /\ \A j, l \in 1 .. Len(f) : f[j] = f[l] => j = l
  <2>1. PICK z : z = s
    OBVIOUS
  <2>2. /\ Len(z) \in Nat \ {0} /\ Len(z) = n
        /\ \A i \in 1 .. Len(z) : z[i] \in Seq(Entry)
        /\ \A i, k \in 1 .. Len(z) : \A j \in 1 .. Len(z[i]), l \in 1 .. Len(z[k]) :
              z[i][j] = z[k][l] => i = k /\ j = l
    BY <1>3, <1>4, <1>8, <2>1
  <2>3. PICK g : g = FlattenSeq(z)
    OBVIOUS
  <2>4. /\ g \in Seq(Entry)
        /\ \A x : (\E j \in 1 .. Len(g) : g[j] = x)
                    <=> \E i \in 1 .. Len(z) : \E j \in 1 .. Len(z[i]) : z[i][j] = x
        /\ \A j, l \in 1 .. Len(g) : g[j] = g[l] => j = l
    <3>1. Len(z) \in Nat \ {0} /\ \A i \in 1 .. Len(z) : z[i] \in Seq(Entry)
      BY <2>2
    <3>2. /\ FlattenSeq(z) \in Seq(Entry)
          /\ \A x : (\E j \in 1 .. Len(FlattenSeq(z)) : FlattenSeq(z)[j] = x)
                       <=> \E i \in 1 .. Len(z) : \E j \in 1 .. Len(z[i]) : z[i][j] = x
          /\ (\A i, k \in 1 .. Len(z) : \A j \in 1 .. Len(z[i]), l \in 1 .. Len(z[k]) :
                z[i][j] = z[k][l] => i = k /\ j = l)
              => \A j, l \in 1 .. Len(FlattenSeq(z)) : FlattenSeq(z)[j] = FlattenSeq(z)[l] => j = l
      BY <3>1, FlattenIs
    <3>3. QED
      BY <2>2, <2>3, <3>2
  <2>5. QED
    BY <1>9, <2>1, <2>2, <2>3, <2>4
<1>11. \A x : x \in P <=> \E i \in 1 .. n : \E j \in 1 .. Len(s[i]) : s[i][j] = x
  <2>1. ASSUME NEW x \in P
        PROVE  \E i \in 1 .. n : \E j \in 1 .. Len(s[i]) : s[i][j] = x
    BY <1>3, <1>5
  <2>2. ASSUME NEW i \in 1 .. n, NEW j \in 1 .. Len(s[i])
        PROVE  s[i][j] \in P
    BY <1>3, <1>7
  <2>3. QED
    BY <2>1, <2>2
<1>12. P = {f[j] : j \in 1 .. Len(f)}
  <2>1. \A x : x \in P <=> \E j \in 1 .. Len(f) : f[j] = x
    BY <1>10, <1>11
  <2>2. QED
    BY <2>1
<1>13. Len(f) \in Nat
  BY <1>10, LenProperties
<1>14. QED
  BY <1>2, <1>9, <1>10, <1>12, <1>13

\* What map_resize fills is a fixed point of this.
Filling(e, n, w) ==
    [i \in 0 .. Len(e) |->
        IF i = 0 THEN buckets_init(n)
        ELSE [w[i - 1] EXCEPT ![Hash[e[i].key] % n] = ListAppendTail(@, e[i])]]

LEMMA FillingExists ==
    ASSUME NEW e, Len(e) \in Nat, NEW n
    PROVE  \E w : w = Filling(e, n, w)
<1> DEFINE Until(m, w) == w = [i \in 0 .. m |->
                                IF i = 0 THEN buckets_init(n)
                                ELSE [w[i - 1] EXCEPT ![Hash[e[i].key] % n] = ListAppendTail(@, e[i])]]
           T == {m \in 0 .. Len(e) : ~ \E w : Until(m, w)}
<1> HIDE DEF Until
<1>1. T = {}
  <2> SUFFICES ASSUME T # {}
               PROVE  FALSE
    OBVIOUS
  <2>1. PICK m \in T : \A k \in T : m <= k
    <3>1. T \subseteq Nat
      OBVIOUS
    <3>2. QED
      BY <3>1, LeastNat
  <2>2. m \in 0 .. Len(e) /\ m \in Nat
    OBVIOUS
  <2>3. CASE m = 0
    <3> DEFINE g == [i \in 0 .. 0 |-> buckets_init(n)]
               Turn(i) == [g[i - 1] EXCEPT ![Hash[e[i].key] % n] = ListAppendTail(@, e[i])]
    <3>1. g = [i \in 0 .. 0 |-> IF i = 0 THEN buckets_init(n) ELSE Turn(i)]
      <4> HIDE DEF Turn
      <4>1. QED
        OBVIOUS
    <3>2. Until(0, g)
      BY <3>1 DEF Until
    <3>3. QED
      BY <2>3, <3>2
  <2>4. CASE m # 0
    <3>1. m - 1 \in 0 .. Len(e) /\ m - 1 \notin T
      BY <2>1, <2>2, <2>4
    <3>2. PICK g : Until(m - 1, g)
      BY <3>1
    <3> DEFINE last == [g[m - 1] EXCEPT ![Hash[e[m].key] % n] = ListAppendTail(@, e[m])]
               h == [i \in 0 .. m |-> IF i < m THEN g[i] ELSE last]
               One(b, i) == [b EXCEPT ![Hash[e[i].key] % n] = ListAppendTail(@, e[i])]
    <3>3. last = One(g[m - 1], m)
      OBVIOUS
    <3>4. \A i \in 0 .. m - 1 : g[i] = IF i = 0 THEN buckets_init(n) ELSE One(g[i - 1], i)
      BY <3>2 DEF Until
    <3>5. \A w : Until(m, w) <=> w = [i \in 0 .. m |->
                                        IF i = 0 THEN buckets_init(n) ELSE One(w[i - 1], i)]
      BY DEF Until
    <3> HIDE DEF last, One
    <3>6. ASSUME NEW i \in 0 .. m
          PROVE  h[i] = IF i = 0 THEN buckets_init(n) ELSE One(h[i - 1], i)
      <4>1. CASE i < m
        <5>1. i \in 0 .. m - 1 /\ (i # 0 => i - 1 \in 0 .. m /\ i - 1 < m)
          BY <2>2, <4>1
        <5>2. h[i] = g[i] /\ (i # 0 => h[i - 1] = g[i - 1])
          BY <4>1, <5>1
        <5>3. QED
          BY <3>4, <5>1, <5>2
      <4>2. CASE i = m
        <5>1. ~ (i < m) /\ i # 0 /\ i - 1 \in 0 .. m /\ i - 1 < m
          BY <2>2, <2>4, <4>2
        <5>2. h[i] = last /\ h[i - 1] = g[i - 1]
          BY <5>1
        <5>3. last = One(g[i - 1], i)
          BY <3>3, <4>2
        <5>4. QED
          BY <5>1, <5>2, <5>3
      <4>3. QED
        BY <2>2, <4>1, <4>2
    <3>7. h = [i \in 0 .. m |-> h[i]]
      OBVIOUS
    <3> HIDE DEF h
    <3>8. Until(m, h)
      BY <3>5, <3>6, <3>7
    <3>9. QED
      BY <3>8
  <2>5. QED
    BY <2>3, <2>4
<1>2. PICK w : Until(Len(e), w)
  <2>1. Len(e) \in 0 .. Len(e)
    OBVIOUS
  <2>2. QED
    BY <1>1, <2>1
<1>3. QED
  BY <1>2 DEF Until, Filling

LEMMA ResizeUnfolds ==
    ASSUME NEW map, Len(Entries(map)) \in Nat
    PROVE  \E w : /\ w = Filling(Entries(map), 2 * map.capacity, w)
                  /\ map_resize(map) = [map EXCEPT !.capacity = 2 * map.capacity,
                                                   !.buckets = w[Len(Entries(map))]]
<1>1. PICK w : w = Filling(Entries(map), 2 * map.capacity, w)
  BY FillingExists
<1>2. QED
  BY <1>1 DEF map_resize, Filling

LEMMA FillingIs ==
    ASSUME NEW e \in Seq(Entry), Len(e) \in Nat, NEW n \in Nat \ {0}, NEW w, w = Filling(e, n, w),
           \A j, l \in 1 .. Len(e) : e[j] = e[l] => j = l
    PROVE  Distributed(w[Len(e)], n, {e[j] : j \in 1 .. Len(e)})
<1> DEFINE Upto(i) == {e[j] : j \in 1 .. i}
           Good(i, b) == Distributed(b, n, Upto(i))
           T == {i \in 0 .. Len(e) : ~ Good(i, w[i])}
<1> HIDE DEF Good
<1>1. /\ w[0] = buckets_init(n)
      /\ \A i \in 1 .. Len(e) :
            w[i] = [w[i - 1] EXCEPT ![Slot(e[i].key, n)] = ListAppendTail(@, e[i])]
  <2>1. 0 \in 0 .. Len(e) /\ \A i \in 1 .. Len(e) : i \in 0 .. Len(e) /\ i # 0
    OBVIOUS
  <2>2. w[0] = buckets_init(n)
    BY <2>1 DEF Filling
  <2>3. ASSUME NEW i \in 1 .. Len(e)
        PROVE  w[i] = [w[i - 1] EXCEPT ![Hash[e[i].key] % n] = ListAppendTail(@, e[i])]
    BY <2>1 DEF Filling
  <2>4. QED
    BY <2>2, <2>3 DEF Slot
<1>2. T = {}
  <2> SUFFICES ASSUME T # {}
               PROVE  FALSE
    OBVIOUS
  <2>1. PICK m \in T : \A k \in T : m <= k
    <3>1. T \subseteq Nat
      OBVIOUS
    <3>2. QED
      BY <3>1, LeastNat
  <2>2. m \in 0 .. Len(e) /\ m \in Nat /\ ~ Good(m, w[m])
    OBVIOUS
  <2>3. CASE m = 0
    <3>1. Upto(0) = {}
      OBVIOUS
    <3>2. Distributed(w[0], n, {})
      BY <1>1, DistributedNone
    <3>3. Good(0, w[0])
      BY <3>1, <3>2 DEF Good
    <3>4. QED
      BY <2>2, <2>3, <3>3
  <2>4. CASE m # 0
    <3>1. m - 1 \in 0 .. Len(e) /\ m - 1 \notin T /\ m - 1 \in Nat /\ m \in 1 .. Len(e)
      BY <2>1, <2>2, <2>4
    <3>2. PICK k, b : k \in Nat /\ k = m - 1 /\ b = w[k] /\ Good(k, b)
      BY <3>1
    <3>3. PICK v : v = e[m]
      OBVIOUS
    <3>4. v \in Entry
      BY <3>1, <3>3, ElementOfSeq
    <3>5. v \notin Upto(k) /\ Upto(m) = Upto(k) \cup {v}
      <4>1. \A j \in 1 .. k : j \in 1 .. m /\ j # m /\ j \in 1 .. Len(e)
        BY <3>1, <3>2
      <4>2. \A j \in 1 .. m : j \in 1 .. k \/ j = m
        BY <3>1, <3>2
      <4>3. \A j \in 1 .. k : e[j] # v
        BY <3>1, <3>3, <4>1
      <4>4. m \in 1 .. m
        BY <3>1
      <4>5. QED
        BY <3>3, <4>1, <4>2, <4>3, <4>4
    <3> HIDE DEF Upto
    <3>6. Distributed([b EXCEPT ![Slot(v.key, n)] = ListAppendTail(@, v)], n, Upto(k) \cup {v})
      BY <3>2, <3>4, <3>5, DistributedAdded DEF Good
    <3>7. w[m] = [b EXCEPT ![Slot(v.key, n)] = ListAppendTail(@, v)]
      BY <1>1, <3>1, <3>2, <3>3
    <3>8. Good(m, w[m])
      BY <3>5, <3>6, <3>7 DEF Good
    <3>9. QED
      BY <2>2, <3>8
  <2>5. QED
    BY <2>3, <2>4
<1>3. Len(e) \in 0 .. Len(e)
  OBVIOUS
<1>4. QED
  BY <1>2, <1>3 DEF Good

\* A resize keeps the entries and has each in the bucket of its hash.
LEMMA MapResized ==
    ASSUME NEW map, NEW P, Represents(map, P)
    PROVE  Represents(map_resize(map), P)
<1>1. PICK e \in Seq(Entry) : /\ e = Entries(map) /\ Len(e) \in Nat
                              /\ \A j, l \in 1 .. Len(e) : e[j] = e[l] => j = l
                              /\ P = {e[j] : j \in 1 .. Len(e)}
  BY EntriesAre
<1>2. PICK n \in Nat \ {0} : n = 2 * map.capacity
  <2>1. map.capacity \in Nat \ {0}
    BY DEF Represents, Distributed
  <2>2. 2 * map.capacity \in Nat \ {0}
    BY <2>1
  <2>3. QED
    BY <2>2
<1>3. PICK w : /\ w = Filling(e, n, w)
               /\ map_resize(map) = [map EXCEPT !.capacity = n, !.buckets = w[Len(e)]]
  <2>1. \E w : /\ w = Filling(Entries(map), 2 * map.capacity, w)
               /\ map_resize(map) = [map EXCEPT !.capacity = 2 * map.capacity,
                                                !.buckets = w[Len(Entries(map))]]
    BY <1>1, ResizeUnfolds
  <2>2. QED
    BY <1>1, <1>2, <2>1
<1>4. Distributed(w[Len(e)], n, P)
  BY <1>1, <1>3, FillingIs
<1>5. PICK B, m : B = w[Len(e)] /\ m = map_resize(map)
  OBVIOUS
<1>6. m = [map EXCEPT !.capacity = n, !.buckets = B]
  BY <1>3, <1>5
<1>7. /\ map = [buckets |-> map.buckets, capacity |-> map.capacity, size |-> map.size]
      /\ IsFiniteSet(P) /\ map.size = Cardinality(P)
      /\ \A c, d \in P : c.key = d.key => c = d
  BY DEF Represents
<1>8. m.capacity = n /\ m.buckets = B /\ m.size = map.size
      /\ m = [buckets |-> B, capacity |-> n, size |-> map.size]
  <2>1. PICK C, x, y : map = [buckets |-> C, capacity |-> x, size |-> y] /\ y = map.size
    BY <1>7
  <2>2. m.capacity = n /\ m.buckets = B /\ m.size = y
    BY <1>6, <2>1
  <2>3. m = [buckets |-> B, capacity |-> n, size |-> y]
    BY <1>6, <2>1, <2>2
  <2>4. QED
    BY <2>1, <2>2, <2>3
<1>9. Distributed(m.buckets, m.capacity, P)
  BY <1>4, <1>5, <1>8
<1>10. Represents(m, P)
  BY <1>7, <1>8, <1>9 DEF Represents
<1>11. QED
  BY <1>5, <1>10

LEMMA MapEmpty == Represents(EmptyMap, {})
<1> DEFINE n == MAP_START_CAPACITY
<1>1. n \in Nat \ {0}
  BY HashMapAssumption
<1>2. EmptyMap = [buckets |-> buckets_init(n), capacity |-> n, size |-> 0]
  BY <1>1 DEF EmptyMap, map_init
<1>3. Distributed(buckets_init(n), n, {})
  BY <1>1, DistributedNone
<1> HIDE DEF n
<1>4. QED
  BY <1>2, <1>3, FS_EmptySet DEF Represents

\* A put keeps every other entry and leaves one with the key, whether the chain had
\* it or not, and whether the table is resized first or not.
LEMMA MapPuts ==
    ASSUME NEW map, NEW P, Represents(map, P), NEW key \in Names, NEW val \in Pool
    PROVE  Represents(map_put(map, key, val),
                      {e \in P : e.key # key} \cup {[key |-> key, val |-> val]})
<1>1. PICK m : m = IF map_should_resize(map) THEN map_resize(map) ELSE map
  OBVIOUS
<1>2. Represents(m, P)
  BY <1>1, MapResized
<1>3. PICK n, i : n = m.capacity /\ i = Slot(key, n)
  OBVIOUS
<1>4. PICK L : L = m.buckets[i]
  OBVIOUS
<1> DEFINE v == [key |-> key, val |-> val]
           Q == {e \in P : e.key # key} \cup {v}
           S == {e \in P : Slot(e.key, n) = i}
<1>5. /\ n \in Nat \ {0} /\ i \in 0 .. n - 1 /\ Holds(L, S)
  BY <1>2, <1>3, <1>4, BucketIs
<1>6. v \in Entry /\ v.key = key
  BY DEF Entry
<1>7. map_put(map, key, val) =
         IF map_exists(m, key) THEN [m EXCEPT !.buckets[i] = Replaced(L, key, val)]
         ELSE [m EXCEPT !.buckets[i] = ListAppendTail(L, v), !.size = @ + 1]
  BY <1>1, <1>3, <1>4 DEF map_put, Slot
<1>8. /\ Distributed(m.buckets, n, P)
      /\ \A d, e \in P : d.key = e.key => d = e
      /\ IsFiniteSet(P) /\ m.size = Cardinality(P)
      /\ m = [buckets |-> m.buckets, capacity |-> n, size |-> m.size]
  BY <1>2, <1>3 DEF Represents
<1>9. Q \subseteq Entry /\ \A d, e \in Q : d.key = e.key => d = e
  <2>1. P \subseteq Entry
    BY <1>8 DEF Distributed
  <2>2. QED
    BY <1>6, <1>8, <2>1
<1>10. \A e : Slot(e.key, n) # i => (e \in Q <=> e \in P)
  BY <1>3, <1>6
<1> HIDE DEF v
<1>11. ASSUME NEW M, Holds(M, {e \in Q : Slot(e.key, n) = i})
       PROVE  Distributed([m.buckets EXCEPT ![i] = M], n, Q)
  <2>1. PICK B : B = m.buckets
    OBVIOUS
  <2> HIDE DEF Q
  <2>2. Distributed([B EXCEPT ![i] = M], n, Q)
    BY <1>5, <1>8, <1>9, <1>10, <1>11, <2>1, DistributedChanged
  <2>3. QED
    BY <2>1, <2>2
<1>12. PICK r : r = map_put(map, key, val)
  OBVIOUS
<1>13. ASSUME NEW d \in P, d.key = key
       PROVE  Represents(r, Q)
  <2>1. map_exists(m, key)
    BY <1>2, <1>13, MapFinds
  <2>2. d \in S /\ \A e \in S : e.key = d.key => e = d
    BY <1>3, <1>8, <1>13
  <2>3. {e \in Q : Slot(e.key, n) = i} = (S \ {d}) \cup {v}
    <3>1. \A e \in P : e.key = key <=> e = d
      BY <1>8, <1>13
    <3>2. QED
      BY <1>3, <1>6, <3>1
  <2>4. PICK M : M = Replaced(L, key, val)
    OBVIOUS
  <2>5. Holds(M, (S \ {d}) \cup {v})
    <3> HIDE DEF S
    <3>1. Holds(Replaced(L, d.key, val), (S \ {d}) \cup {[key |-> d.key, val |-> val]})
      BY <1>5, <2>2, HoldsReplaced
    <3>2. QED
      BY <1>13, <2>4, <3>1 DEF v
  <2>6. PICK C, B, z : C = m.buckets /\ B = [C EXCEPT ![i] = M] /\ z = m.size
    OBVIOUS
  <2>7. Distributed(B, n, Q)
    BY <1>11, <2>3, <2>5, <2>6
  <2>8. r = [m EXCEPT !.buckets = B] /\ m = [buckets |-> C, capacity |-> n, size |-> z]
    BY <1>7, <1>8, <1>12, <2>1, <2>4, <2>6
  <2>9. r = [buckets |-> B, capacity |-> n, size |-> z]
    BY <2>8
  <2>10. IsFiniteSet(Q) /\ Cardinality(Q) = z
    <3>1. Q = (P \ {d}) \cup {v} /\ v \notin P \ {d}
      BY <1>6, <1>8, <1>13
    <3>2. IsFiniteSet(P \ {d}) /\ Cardinality(P \ {d}) = Cardinality(P) - 1
      BY <1>8, <1>13, FS_RemoveElement
    <3>3. IsFiniteSet((P \ {d}) \cup {v})
          /\ Cardinality((P \ {d}) \cup {v}) = Cardinality(P \ {d}) + 1
      BY <3>1, <3>2, FS_AddElement
    <3>4. Cardinality(P) \in Nat
      BY <1>8, FS_CardinalityType
    <3>5. Cardinality((P \ {d}) \cup {v}) = Cardinality(P)
      BY <3>2, <3>3, <3>4
    <3>6. QED
      BY <1>8, <2>6, <3>1, <3>3, <3>5
  <2>11. QED
    BY <1>9, <2>7, <2>9, <2>10 DEF Represents
<1>14. ASSUME \A d \in P : d.key # key
       PROVE  Represents(r, Q)
  <2>1. ~ map_exists(m, key)
    BY <1>2, <1>14, MapFinds
  <2>2. Q = P \cup {v} /\ v \notin P
    BY <1>6, <1>14
  <2>3. {e \in Q : Slot(e.key, n) = i} = S \cup {v} /\ v \notin S
    BY <1>3, <1>6, <2>2
  <2>4. PICK M : M = ListAppendTail(L, v)
    OBVIOUS
  <2>5. Holds(M, S \cup {v})
    <3> HIDE DEF S
    <3>1. QED
      BY <1>5, <1>6, <2>3, <2>4, HoldsAppended
  <2>6. PICK C, B, z, y : C = m.buckets /\ B = [C EXCEPT ![i] = M] /\ z = m.size /\ y = z + 1
    OBVIOUS
  <2>7. Distributed(B, n, Q)
    BY <1>11, <2>3, <2>5, <2>6
  <2>8. r = [m EXCEPT !.buckets = B, !.size = y] /\ m = [buckets |-> C, capacity |-> n, size |-> z]
    <3>1. r = [m EXCEPT !.buckets[i] = ListAppendTail(L, v), !.size = @ + 1]
      BY <1>7, <1>12, <2>1
    <3>2. QED
      BY <1>8, <2>4, <2>6, <3>1
  <2>9. r = [buckets |-> B, capacity |-> n, size |-> y]
    BY <2>8, Updated
  <2>10. IsFiniteSet(Q) /\ Cardinality(Q) = y
    <3>1. IsFiniteSet(P \cup {v}) /\ Cardinality(P \cup {v}) = Cardinality(P) + 1
      BY <1>8, <2>2, FS_AddElement
    <3>2. QED
      BY <1>8, <2>2, <2>6, <3>1
  <2>11. QED
    BY <1>9, <2>7, <2>9, <2>10 DEF Represents
<1>15. QED
  BY <1>12, <1>13, <1>14 DEF v

LEMMA AsMany ==
    ASSUME NEW S, NEW T, IsFiniteSet(S), NEW f \in [S -> T],
           \A x, y \in S : f[x] = f[y] => x = y, \A t \in T : \E x \in S : f[x] = t
    PROVE  Cardinality(T) = Cardinality(S)
<1>1. f \in Bijection(S, T)
  BY DEF Bijection, Injection, Surjection, IsInjective
<1>2. ExistsBijection(S, T)
  BY <1>1 DEF ExistsBijection
<1>3. QED
  BY <1>2, FS_Bijection

\* A table a set of entries describes is one a lookup is right in.
LEMMA MapIsWellHashed ==
    ASSUME NEW map, NEW P, Represents(map, P)
    PROVE  WellHashed(map)
<1>1. PICK n : n = map.capacity
  OBVIOUS
<1>2. ASSUME NEW i \in 0 .. n - 1
      PROVE  /\ WellLinked(map.buckets[i])
             /\ \A e \in ToSet(ListValues(map.buckets[i])) : Hash[e.key] % n = i
  <2>1. PICK L, S : /\ L = map.buckets[i] /\ S = {e \in P : Slot(e.key, n) = i}
                    /\ Holds(L, S)
    BY <1>1 DEF Represents, Distributed
  <2>2. PICK f \in Seq(Entry) : f = ListValues(L)
    BY <2>1, HoldsReads
  <2>3. S = {f[j] : j \in 1 .. Len(f)} /\ DOMAIN f = 1 .. Len(f)
    <3>1. Holds(L, S)
      BY <2>1
    <3>2. S = {ListValues(L)[j] : j \in 1 .. Len(ListValues(L))}
      BY <3>1, HoldsReads
    <3>3. QED
      BY <2>2, <3>2, LenProperties
  <2>4. ToSet(f) = S
    BY <2>3 DEF ToSet
  <2>5. \A e \in S : Hash[e.key] % n = i
    BY <2>1 DEF Slot
  <2>6. WellLinked(L)
    BY <2>1, HoldsReads
  <2>7. QED
    BY <2>1, <2>2, <2>4, <2>5, <2>6
<1>3. PICK f \in Seq(Entry) : /\ f = Entries(map) /\ Len(f) \in Nat
                              /\ \A j, l \in 1 .. Len(f) : f[j] = f[l] => j = l
                              /\ P = {f[j] : j \in 1 .. Len(f)}
  BY EntriesAre
<1>4. PICK k \in Nat : k = Len(f) /\ DOMAIN f = 1 .. k
  BY <1>3, LenProperties
<1>5. /\ \A d, e \in P : d.key = e.key => d = e
      /\ IsFiniteSet(P) /\ map.size = Cardinality(P)
  BY DEF Represents
<1>6. ToSet(Entries(map)) = P
  BY <1>3, <1>4 DEF ToSet
<1>7. Cardinality(P) = k
  <2> DEFINE g == [j \in 1 .. k |-> f[j]]
  <2>1. g \in [1 .. k -> P] /\ \A j \in 1 .. k : g[j] = f[j]
    BY <1>3, <1>4
  <2>2. /\ \A x, y \in 1 .. k : g[x] = g[y] => x = y
        /\ \A e \in P : \E j \in 1 .. k : g[j] = e
    BY <1>3, <1>4, <2>1
  <2>3. IsFiniteSet(1 .. k) /\ Cardinality(1 .. k) = k
    BY FS_Interval
  <2> HIDE DEF g
  <2>4. Cardinality(P) = Cardinality(1 .. k)
    BY <2>1, <2>2, <2>3, AsMany
  <2>5. QED
    BY <2>3, <2>4
<1>8. Cardinality({e.key : e \in P}) = Cardinality(P)
  <2> DEFINE g == [e \in P |-> e.key]
             K == {e.key : e \in P}
  <2>1. g \in [P -> K] /\ \A x, y \in P : g[x] = g[y] => x = y
    BY <1>5
  <2>2. \A t \in K : \E x \in P : g[x] = t
    OBVIOUS
  <2> HIDE DEF g, K
  <2>3. Cardinality(K) = Cardinality(P)
    BY <1>5, <2>1, <2>2, AsMany
  <2>4. QED
    BY <2>3 DEF K
<1>9. Cardinality({e.key : e \in ToSet(Entries(map))}) = map.size /\ map.size = Len(Entries(map))
  BY <1>3, <1>4, <1>5, <1>6, <1>7, <1>8
<1>10. QED
  BY <1>1, <1>2, <1>9 DEF WellHashed

-----------------------------------------------------------------------------
(***************************************************************************)
(* The map, by what a lookup of every name gives                           *)
(***************************************************************************)
Sound(map) == \E P : Represents(map, P)
\* The one map answers as the other does.
Agree(m, map, n) == /\ map_exists(m, n) <=> map_exists(map, n)
                    /\ map_exists(m, n) => map_get(m, n) = map_get(map, n)

LEMMA SoundEmpty == Sound(EmptyMap) /\ \A n \in Names : ~ map_exists(EmptyMap, n)
  BY MapEmpty, MapFinds DEF Sound

LEMMA SoundPut ==
    ASSUME NEW map, Sound(map), NEW key \in Names, NEW val \in Pool
    PROVE  LET m == map_put(map, key, val)
           IN  /\ Sound(m) /\ map_exists(m, key) /\ map_get(m, key) = val
               /\ \A n \in Names \ {key} : Agree(m, map, n)
<1>1. PICK P : Represents(map, P)
  BY DEF Sound
<1>2. PICK m, v, Q : /\ m = map_put(map, key, val) /\ v = [key |-> key, val |-> val]
                     /\ Q = {e \in P : e.key # key} \cup {v}
  OBVIOUS
<1>3. Represents(m, Q)
  BY <1>1, <1>2, MapPuts
<1>4. v \in Q /\ v.key = key /\ v.val = val
  BY <1>2
<1>5. map_exists(m, key) /\ map_get(m, key) = val
  BY <1>3, <1>4, MapFinds
<1>6. ASSUME NEW n \in Names \ {key}
      PROVE  Agree(m, map, n)
  <2>1. \A e : e.key = n => (e \in P <=> e \in Q)
    BY <1>2, <1>4
  <2>2. /\ map_exists(m, n) <=> \E e \in Q : e.key = n
        /\ map_exists(map, n) <=> \E e \in P : e.key = n
    BY <1>1, <1>3, MapFinds
  <2>3. ASSUME NEW e \in Q, e.key = n
        PROVE  map_get(m, n) = e.val /\ map_get(map, n) = e.val
    BY <1>1, <1>3, <2>1, <2>3, MapFinds
  <2>4. QED
    BY <2>1, <2>2, <2>3 DEF Agree
<1>7. QED
  BY <1>2, <1>3, <1>5, <1>6 DEF Sound

LEMMA SoundRemove ==
    ASSUME NEW map, Sound(map), NEW key \in Names
    PROVE  LET m == map_remove(map, key)
           IN  /\ Sound(m) /\ ~ map_exists(m, key)
               /\ \A n \in Names \ {key} : Agree(m, map, n)
<1>1. PICK P : Represents(map, P)
  BY DEF Sound
<1>2. PICK m, Q : m = map_remove(map, key) /\ Q = {e \in P : e.key # key}
  OBVIOUS
<1>3. Represents(m, Q)
  BY <1>1, <1>2, MapRemoves
<1>4. ~ map_exists(m, key)
  BY <1>2, <1>3, MapFinds
<1>5. ASSUME NEW n \in Names \ {key}
      PROVE  Agree(m, map, n)
  <2>1. \A e : e.key = n => (e \in P <=> e \in Q)
    BY <1>2
  <2>2. /\ map_exists(m, n) <=> \E e \in Q : e.key = n
        /\ map_exists(map, n) <=> \E e \in P : e.key = n
    BY <1>1, <1>3, MapFinds
  <2>3. ASSUME NEW e \in Q, e.key = n
        PROVE  map_get(m, n) = e.val /\ map_get(map, n) = e.val
    BY <1>1, <1>3, <2>1, <2>3, MapFinds
  <2>4. QED
    BY <2>1, <2>2, <2>3 DEF Agree
<1>6. QED
  BY <1>2, <1>3, <1>4, <1>5 DEF Sound

-----------------------------------------------------------------------------
(***************************************************************************)
(* What opening a file puts into the map                                   *)
(***************************************************************************)
Loading(s, w) ==
    [i \in 0 .. Len(s) |->
        IF i = 0 THEN EmptyMap
        ELSE IF s[i].mark = "added" THEN w[i - 1] ELSE map_put(w[i - 1], s[i].name, s[i].pool)]

LEMMA LoadingExists ==
    ASSUME NEW s, Len(s) \in Nat
    PROVE  \E w : w = Loading(s, w)
<1> DEFINE One(b, i) == IF s[i].mark = "added" THEN b ELSE map_put(b, s[i].name, s[i].pool)
           Until(m, w) == w = [i \in 0 .. m |-> IF i = 0 THEN EmptyMap ELSE One(w[i - 1], i)]
           T == {m \in 0 .. Len(s) : ~ \E w : Until(m, w)}
<1>0. \A w : Loading(s, w) = [i \in 0 .. Len(s) |-> IF i = 0 THEN EmptyMap ELSE One(w[i - 1], i)]
  BY DEF Loading
<1> HIDE DEF Until, One
<1>1. T = {}
  <2> SUFFICES ASSUME T # {}
               PROVE  FALSE
    OBVIOUS
  <2>1. PICK m \in T : \A k \in T : m <= k
    <3>1. T \subseteq Nat
      OBVIOUS
    <3>2. QED
      BY <3>1, LeastNat
  <2>2. m \in 0 .. Len(s) /\ m \in Nat
    OBVIOUS
  <2>3. CASE m = 0
    <3>1. Until(0, [i \in 0 .. 0 |-> EmptyMap])
      BY DEF Until
    <3>2. QED
      BY <2>3, <3>1
  <2>4. CASE m # 0
    <3>1. m - 1 \in 0 .. Len(s) /\ m - 1 \notin T
      BY <2>1, <2>2, <2>4
    <3>2. PICK g : Until(m - 1, g)
      BY <3>1
    <3> DEFINE last == One(g[m - 1], m)
               h == [i \in 0 .. m |-> IF i < m THEN g[i] ELSE last]
    <3> HIDE DEF last
    <3>3. \A i \in 0 .. m - 1 : g[i] = IF i = 0 THEN EmptyMap ELSE One(g[i - 1], i)
      BY <3>2 DEF Until
    <3>4. ASSUME NEW i \in 0 .. m
          PROVE  h[i] = IF i = 0 THEN EmptyMap ELSE One(h[i - 1], i)
      <4>1. CASE i < m
        <5>1. i \in 0 .. m - 1 /\ (i # 0 => i - 1 \in 0 .. m /\ i - 1 < m)
          BY <2>2, <4>1
        <5>2. h[i] = g[i] /\ (i # 0 => h[i - 1] = g[i - 1])
          BY <4>1, <5>1
        <5>3. QED
          BY <3>3, <5>1, <5>2
      <4>2. CASE i = m
        <5>1. ~ (i < m) /\ i # 0 /\ i - 1 \in 0 .. m /\ i - 1 < m
          BY <2>2, <2>4, <4>2
        <5>2. h[i] = last /\ h[i - 1] = g[i - 1]
          BY <5>1
        <5>3. last = One(g[i - 1], i)
          BY <4>2 DEF last
        <5>4. QED
          BY <5>1, <5>2, <5>3
      <4>3. QED
        BY <2>2, <4>1, <4>2
    <3>5. h = [i \in 0 .. m |-> h[i]]
      OBVIOUS
    <3> HIDE DEF h
    <3>6. Until(m, h)
      BY <3>4, <3>5 DEF Until
    <3>7. QED
      BY <3>6
  <2>5. QED
    BY <2>3, <2>4
<1>2. PICK w : Until(Len(s), w)
  <2>1. Len(s) \in 0 .. Len(s)
    OBVIOUS
  <2>2. QED
    BY <1>1, <2>1
<1>3. w = [i \in 0 .. Len(s) |-> IF i = 0 THEN EmptyMap ELSE One(w[i - 1], i)]
  BY <1>2 DEF Until
<1>4. Loading(s, w) = w
  BY <1>0, <1>3
<1>5. QED
  BY <1>4

LEMMA LoadUnfolds ==
    ASSUME NEW pool, Len(FlattenSeq(pool)) \in Nat
    PROVE  \E w : /\ w = Loading(FlattenSeq(pool), w)
                  /\ LoadTables(pool) = w[Len(FlattenSeq(pool))]
<1>1. PICK w : w = Loading(FlattenSeq(pool), w)
  BY LoadingExists
<1>2. QED
  BY <1>1 DEF LoadTables, Loading

\* Every scheme that an append has not left uncommitted is found, and nothing else.
LEMMA LoadingIs ==
    ASSUME NEW s \in Seq(Scheme), Len(s) \in Nat, NEW w, w = Loading(s, w), NEW m \in 0 .. Len(s)
    PROVE  /\ Sound(w[m])
           /\ \A n \in Names :
                 /\ map_exists(w[m], n) <=> \E j \in 1 .. m : s[j].name = n /\ s[j].mark # "added"
                 /\ map_exists(w[m], n) =>
                       \E j \in 1 .. m : /\ s[j].name = n /\ s[j].mark # "added"
                                         /\ s[j].pool = map_get(w[m], n)
<1> DEFINE Good(k, b) ==
             /\ Sound(b)
             /\ \A n \in Names :
                   /\ map_exists(b, n) <=> \E j \in 1 .. k : s[j].name = n /\ s[j].mark # "added"
                   /\ map_exists(b, n) => \E j \in 1 .. k : /\ s[j].name = n /\ s[j].mark # "added"
                                                            /\ s[j].pool = map_get(b, n)
           T == {k \in 0 .. Len(s) : ~ Good(k, w[k])}
<1> HIDE DEF Good
<1>1. /\ w[0] = EmptyMap
      /\ \A i \in 1 .. Len(s) :
            w[i] = IF s[i].mark = "added" THEN w[i - 1] ELSE map_put(w[i - 1], s[i].name, s[i].pool)
  <2>1. 0 \in 0 .. Len(s) /\ \A i \in 1 .. Len(s) : i \in 0 .. Len(s) /\ i # 0
    OBVIOUS
  <2>2. w[0] = EmptyMap
    BY <2>1 DEF Loading
  <2>3. ASSUME NEW i \in 1 .. Len(s)
        PROVE  w[i] = IF s[i].mark = "added" THEN w[i - 1]
                      ELSE map_put(w[i - 1], s[i].name, s[i].pool)
    BY <2>1 DEF Loading
  <2>4. QED
    BY <2>2, <2>3
<1>2. T = {}
  <2> SUFFICES ASSUME T # {}
               PROVE  FALSE
    OBVIOUS
  <2>1. PICK l \in T : \A k \in T : l <= k
    <3>1. T \subseteq Nat
      OBVIOUS
    <3>2. QED
      BY <3>1, LeastNat
  <2>2. l \in 0 .. Len(s) /\ l \in Nat /\ ~ Good(l, w[l])
    OBVIOUS
  <2>3. CASE l = 0
    <3>1. Good(0, EmptyMap)
      BY SoundEmpty DEF Good
    <3>2. QED
      BY <1>1, <2>2, <2>3, <3>1
  <2>4. CASE l # 0
    <3>1. l - 1 \in 0 .. Len(s) /\ l - 1 \notin T /\ l - 1 \in Nat /\ l \in 1 .. Len(s)
      BY <2>1, <2>2, <2>4
    <3>2. PICK k, b : k \in Nat /\ k = l - 1 /\ b = w[k] /\ Good(k, b)
      BY <3>1
    <3>3. PICK v : v = s[l]
      OBVIOUS
    <3>4. v \in Scheme /\ v.name \in Names /\ v.pool \in Pool
      <4>1. v \in Scheme
        BY <3>1, <3>3, ElementOfSeq
      <4>2. QED
        BY <4>1 DEF Scheme
    <3>5. PICK c : c = IF v.mark = "added" THEN b ELSE map_put(b, v.name, v.pool)
      OBVIOUS
    <3>6. w[l] = c
      BY <1>1, <3>1, <3>2, <3>3, <3>5
    <3>7. /\ \A j \in 1 .. l : j \in 1 .. k \/ j = l
          /\ \A j \in 1 .. k : j \in 1 .. l
          /\ l \in 1 .. l
      BY <3>1, <3>2
    <3>8. /\ Sound(b)
          /\ \A n \in Names :
                /\ map_exists(b, n) <=> \E j \in 1 .. k : s[j].name = n /\ s[j].mark # "added"
                /\ map_exists(b, n) => \E j \in 1 .. k : /\ s[j].name = n /\ s[j].mark # "added"
                                                         /\ s[j].pool = map_get(b, n)
      BY <3>2 DEF Good
    <3>9. CASE v.mark = "added"
      <4>1. c = b
        BY <3>5, <3>9
      <4>2. \A n \in Names : \A j \in 1 .. l : s[j].name = n /\ s[j].mark # "added" => j \in 1 .. k
        BY <3>3, <3>7, <3>9
      <4>3. Good(l, b)
        BY <3>7, <3>8, <4>2 DEF Good
      <4>4. QED
        BY <2>2, <3>6, <4>1, <4>3
    <3>10. CASE v.mark # "added"
      <4>1. /\ Sound(c) /\ map_exists(c, v.name) /\ map_get(c, v.name) = v.pool
            /\ \A n \in Names \ {v.name} : Agree(c, b, n)
        BY <3>4, <3>5, <3>8, <3>10, SoundPut
      <4>2. ASSUME NEW n \in Names
            PROVE  /\ map_exists(c, n) <=> \E j \in 1 .. l : s[j].name = n /\ s[j].mark # "added"
                   /\ map_exists(c, n) => \E j \in 1 .. l : /\ s[j].name = n /\ s[j].mark # "added"
                                                            /\ s[j].pool = map_get(c, n)
        <5>1. CASE n = v.name
          BY <3>3, <3>7, <3>10, <4>1, <5>1
        <5>2. CASE n # v.name
          <6>1. Agree(c, b, n)
            BY <4>1, <5>2
          <6>2. \A j \in 1 .. l : s[j].name = n => j \in 1 .. k
            BY <3>3, <3>7, <5>2
          <6>3. QED
            BY <3>7, <3>8, <6>1, <6>2 DEF Agree
        <5>3. QED
          BY <5>1, <5>2
      <4>3. Good(l, c)
        BY <4>1, <4>2 DEF Good
      <4>4. QED
        BY <2>2, <3>6, <4>3
    <3>11. QED
      BY <3>9, <3>10
  <2>5. QED
    BY <2>3, <2>4
<1>3. QED
  BY <1>2 DEF Good

LEMMA Loads ==
    ASSUME NEW t \in [1 .. Heaps -> Seq(Scheme)]
    PROVE  /\ Sound(LoadTables(t))
           /\ \A n \in Names :
                 /\ map_exists(LoadTables(t), n)
                       <=> \E h \in 1 .. Heaps : \E j \in 1 .. Len(t[h]) :
                              t[h][j].name = n /\ t[h][j].mark # "added"
                 /\ map_exists(LoadTables(t), n) =>
                       \E h \in 1 .. Heaps : \E j \in 1 .. Len(t[h]) :
                          /\ t[h][j].name = n /\ t[h][j].mark # "added"
                          /\ t[h][j].pool = map_get(LoadTables(t), n)
<1>1. Len(t) = Heaps /\ Heaps \in Nat \ {0}
  BY CatalogAssumption, IsSequence
<1>2. PICK s : s = FlattenSeq(t)
  OBVIOUS
<1>3. /\ s \in Seq(Scheme)
      /\ \A x : (\E j \in 1 .. Len(s) : s[j] = x)
                  <=> \E h \in 1 .. Heaps : \E j \in 1 .. Len(t[h]) : t[h][j] = x
  <2>1. Len(t) \in Nat \ {0} /\ \A i \in 1 .. Len(t) : t[i] \in Seq(Scheme)
    BY <1>1
  <2>2. /\ FlattenSeq(t) \in Seq(Scheme)
        /\ \A x : (\E j \in 1 .. Len(FlattenSeq(t)) : FlattenSeq(t)[j] = x)
                    <=> \E i \in 1 .. Len(t) : \E j \in 1 .. Len(t[i]) : t[i][j] = x
        /\ (\A i, k \in 1 .. Len(t) : \A j \in 1 .. Len(t[i]), l \in 1 .. Len(t[k]) :
              t[i][j] = t[k][l] => i = k /\ j = l)
            => \A j, l \in 1 .. Len(FlattenSeq(t)) : FlattenSeq(t)[j] = FlattenSeq(t)[l] => j = l
    BY <2>1, FlattenIs
  <2>3. QED
    BY <1>1, <1>2, <2>2
<1>4. Len(s) \in Nat
  BY <1>3, LenProperties
<1>5. PICK w, m : w = Loading(s, w) /\ m = w[Len(s)] /\ m = LoadTables(t)
  BY <1>2, <1>4, LoadUnfolds
<1>6. Len(s) \in 0 .. Len(s)
  BY <1>4
<1>7. /\ Sound(m)
      /\ \A n \in Names :
            /\ map_exists(m, n) <=> \E j \in 1 .. Len(s) : s[j].name = n /\ s[j].mark # "added"
            /\ map_exists(m, n) => \E j \in 1 .. Len(s) : /\ s[j].name = n /\ s[j].mark # "added"
                                                          /\ s[j].pool = map_get(m, n)
  <2>1. PICK k \in 0 .. Len(s) : k = Len(s)
    BY <1>6
  <2>2. /\ Sound(w[k])
        /\ \A n \in Names :
              /\ map_exists(w[k], n) <=> \E j \in 1 .. k : s[j].name = n /\ s[j].mark # "added"
              /\ map_exists(w[k], n) =>
                    \E j \in 1 .. k : /\ s[j].name = n /\ s[j].mark # "added"
                                      /\ s[j].pool = map_get(w[k], n)
    BY <1>3, <1>4, <1>5, LoadingIs
  <2>3. m = w[k]
    BY <1>5, <2>1
  <2>4. QED
    BY <2>1, <2>2, <2>3
<1>8. /\ \A j \in 1 .. Len(s) : \E h \in 1 .. Heaps : \E k \in 1 .. Len(t[h]) : t[h][k] = s[j]
      /\ \A h \in 1 .. Heaps : \A k \in 1 .. Len(t[h]) : \E j \in 1 .. Len(s) : t[h][k] = s[j]
  BY <1>3
<1>9. ASSUME NEW n \in Names
      PROVE  /\ map_exists(m, n) <=> \E h \in 1 .. Heaps : \E j \in 1 .. Len(t[h]) :
                                        t[h][j].name = n /\ t[h][j].mark # "added"
             /\ map_exists(m, n) => \E h \in 1 .. Heaps : \E j \in 1 .. Len(t[h]) :
                                       /\ t[h][j].name = n /\ t[h][j].mark # "added"
                                       /\ t[h][j].pool = map_get(m, n)
  <2>1. ASSUME map_exists(m, n)
        PROVE  \E h \in 1 .. Heaps : \E j \in 1 .. Len(t[h]) :
                  /\ t[h][j].name = n /\ t[h][j].mark # "added"
                  /\ t[h][j].pool = map_get(m, n)
    <3>1. PICK j \in 1 .. Len(s) : /\ s[j].name = n /\ s[j].mark # "added"
                                   /\ s[j].pool = map_get(m, n)
      BY <1>7, <2>1
    <3>2. PICK h \in 1 .. Heaps : \E k \in 1 .. Len(t[h]) : t[h][k] = s[j]
      BY <1>8
    <3>3. PICK k \in 1 .. Len(t[h]) : t[h][k] = s[j]
      BY <3>2
    <3>4. QED
      BY <3>1, <3>3
  <2>2. ASSUME NEW h \in 1 .. Heaps, NEW k \in 1 .. Len(t[h]),
               t[h][k].name = n, t[h][k].mark # "added"
        PROVE  map_exists(m, n)
    <3>1. PICK j \in 1 .. Len(s) : t[h][k] = s[j]
      BY <1>8
    <3>2. QED
      BY <1>7, <2>2, <3>1
  <2>3. QED
    BY <2>1, <2>2
<1>10. QED
  BY <1>5, <1>7, <1>9

-----------------------------------------------------------------------------
(***************************************************************************)
(* The inductive invariant                                                 *)
(***************************************************************************)
Statement == [kind : {"none", "create", "drop"}, name : Names \cup {NULL},
              pool : 0 .. MaxPools, heap : 1 .. Heaps]
Types ==
    /\ TypeOK /\ op \in Statement
    /\ pc # "idle" => op.name \in Names /\ up
    /\ pc = "create" => pools < MaxPools
    /\ pc = "append" => op.pool = pools /\ op.pool # 0

\* The pool a CREATE has made and no scheme names yet.
Coming(p) == pc = "append" /\ p = op.pool

\* No pool has two schemes, and one marked deleted is of a table that is dropped.
Numbering ==
    /\ \A a, b \in Places : Kept(a).pool = Kept(b).pool => a = b
    /\ \A a \in Places : /\ Kept(a).pool <= pools /\ ~ Coming(Kept(a).pool)
                         /\ Kept(a).mark = "deleted" => fate[Kept(a).pool] = "dropped"

\* A flush settles heap after heap.
Settling ==
    /\ pc # "idle" => said = "none"
    /\ pc \in {"added", "deleted"} =>
          \A a \in Places : a[1] < heap => Kept(a).mark = "stored"
    /\ pc = "deleted" => \A a \in Places : a[1] = heap => Kept(a).mark # "added"
    /\ pc = "put" => \A a \in Places : Kept(a).mark = "stored"

\* What kills and failures have cost: the schemes of tables, and pools without one.
Nameless(p) == \A a \in Places : Kept(a).pool # p
LostTables == {p \in Pool : fate[p] = "table" /\ Nameless(p)}
Orphans == {p \in Pool : p <= pools /\ fate[p] # "dropped" /\ ~ Coming(p) /\ Nameless(p)}
Bounded == Cardinality(LostTables) <= cuts /\ Cardinality(Orphans) <= cuts

\* What a lookup of a name gives is what the file has of it.
At(n) == {a \in Places : Kept(a).name = n}
Answers(n) ==
    /\ map_exists(tables, n) <=> At(n) # {}
    /\ map_exists(tables, n) => \A a \in At(n) : Kept(a).pool = map_get(tables, n)

\* Of a name that no cut has touched there is one scheme at most: a stored one, or
\* the one the running statement is about.
On(n) == pc # "idle" /\ op.name = n
Told ==
    /\ pc # "idle" => op.kind \in {"create", "drop"}
    /\ pc \in {"create", "append"} => op.kind = "create"
    /\ pc \notin {"idle", "create"} => op.pool \in Pool
    /\ pc # "idle" /\ op.kind = "create" => ~ map_exists(tables, op.name)
AgreesOn(n) ==
    /\ \A a, b \in At(n) : a = b
    /\ ~ On(n) => /\ \A a \in At(n) : Kept(a).mark = "stored"
                  /\ up => Answers(n)
    /\ On(n) /\ pc \in {"create", "append"} => At(n) = {}
    /\ On(n) /\ pc \notin {"create", "append"} /\ op.kind = "create" =>
          /\ At(n) # {}
          /\ \A a \in At(n) : Kept(a).pool = op.pool /\ Kept(a).mark # "deleted"
    /\ On(n) /\ op.kind = "drop" => \A a \in At(n) : Kept(a).mark = "deleted"
Agreeing == Told /\ \A n \in Names \ tainted : AgreesOn(n)

\* A name has one copy more than there were cuts only while a CREATE is under way
\* or while the map has it and one of its schemes is stored.
Live(n) == {p \in Pool : \E a \in At(n) : Kept(a).pool = p /\ Kept(a).mark # "deleted"}
Making(n) == On(n) /\ op.kind = "create" /\ pc \in {"added", "deleted", "put"}
Spare(n) == \/ \A a \in At(n) : Kept(a).mark # "stored"
            \/ \E a \in At(n) : Kept(a).mark = "deleted"
            \/ up /\ ~ map_exists(tables, n)
            \/ On(n) /\ op.kind = "drop"
CopiesOn(n) == /\ Cardinality(Live(n)) <= cuts + 1
               /\ ~ Making(n) /\ Spare(n) => Cardinality(Live(n)) <= cuts
Copied == \A n \in Names : CopiesOn(n)

IInv == /\ Types /\ Numbering /\ Settling /\ Bounded
        /\ Sound(tables) /\ Agreeing /\ Copied

-----------------------------------------------------------------------------
(***************************************************************************)
(* What a round of a flush leaves of a heap                                *)
(***************************************************************************)
\* The first marked record of a heap, and the end of what is left of it when the
\* marked ones behind that are gone.
LEMMA HoleIs ==
    ASSUME NEW seq \in Seq(Scheme), \E i \in DOMAIN seq : seq[i].mark = "deleted"
    PROVE  /\ Hole(seq) \in 1 .. Len(seq) /\ seq[Hole(seq)].mark = "deleted"
           /\ \A j \in 1 .. Hole(seq) - 1 : seq[j].mark # "deleted"
<1>1. DOMAIN seq = 1 .. Len(seq) /\ Len(seq) \in Nat
  BY LenProperties
<1> DEFINE T == {i \in DOMAIN seq : seq[i].mark = "deleted"}
<1>2. PICK k \in T : \A i \in T : k <= i
  <2>1. T \subseteq Nat /\ T # {}
    BY <1>1
  <2>2. QED
    BY <2>1, LeastNat
<1>3. k \in DOMAIN seq /\ seq[k].mark = "deleted" /\ \A j \in 1 .. k - 1 : seq[j].mark # "deleted"
  BY <1>1, <1>2
<1>4. QED
  BY <1>1, <1>3 DEF Hole

LEMMA TrimmedIs ==
    ASSUME NEW seq \in Seq(Scheme), \E i \in DOMAIN seq : seq[i].mark = "deleted"
    PROVE  \E m \in Hole(seq) .. Len(seq) :
              /\ m = Hole(seq) \/ seq[m].mark # "deleted"
              /\ \A i \in m + 1 .. Len(seq) : seq[i].mark = "deleted"
              /\ Trimmed(seq) \in Seq(Scheme) /\ Len(Trimmed(seq)) = m
              /\ \A i \in 1 .. m : Trimmed(seq)[i] = seq[i]
<1>1. DOMAIN seq = 1 .. Len(seq) /\ Len(seq) \in Nat /\ Hole(seq) \in 1 .. Len(seq)
  BY LenProperties, HoleIs
<1> DEFINE T == {k \in Hole(seq) .. Len(seq) : \A i \in k + 1 .. Len(seq) : seq[i].mark = "deleted"}
<1>2. Len(seq) \in T /\ T \subseteq Nat
  BY <1>1
<1>3. PICK k \in T : \A i \in T : k <= i
  BY <1>2, LeastNat
<1>4. k = Hole(seq) \/ seq[k].mark # "deleted"
  <2> SUFFICES ASSUME k # Hole(seq), seq[k].mark = "deleted"
               PROVE  FALSE
    OBVIOUS
  <2>1. k - 1 \in T
    BY <1>1
  <2>2. QED
    BY <1>1, <1>3, <2>1
<1> DEFINE m == CHOOSE x \in Hole(seq) .. Len(seq) :
                    /\ x = Hole(seq) \/ seq[x].mark # "deleted"
                    /\ \A i \in x + 1 .. Len(seq) : seq[i].mark = "deleted"
<1>5. /\ m \in Hole(seq) .. Len(seq)
      /\ m = Hole(seq) \/ seq[m].mark # "deleted"
      /\ \A i \in m + 1 .. Len(seq) : seq[i].mark = "deleted"
  BY <1>4
<1>6. Trimmed(seq) = SubSeq(seq, 1, m)
  BY Zenon DEF Trimmed
<1> HIDE DEF m
<1>7. /\ m \in Nat /\ 1 <= m /\ m <= Len(seq)
  BY <1>1, <1>5
<1>8. /\ SubSeq(seq, 1, m) \in Seq(Scheme) /\ Len(SubSeq(seq, 1, m)) = m
      /\ \A i \in 1 .. m : SubSeq(seq, 1, m)[i] = seq[i]
  BY <1>1, <1>7, SubSeqProperties, ElementOfSeq
<1>9. QED
  BY <1>5, <1>6, <1>7, <1>8

\* What heap_record_fill leaves, and what a kill in the middle of it does: of every
\* record there, where it was; all the others were marked, but for one the kill loses.
Moved(seq, t, lost) ==
    \E f \in [DOMAIN t -> DOMAIN seq] :
       /\ \A i, j \in DOMAIN t : f[i] = f[j] => i = j
       /\ \A i \in DOMAIN t : t[i] = seq[f[i]]
       /\ \A j \in DOMAIN seq :
             (\E i \in DOMAIN t : f[i] = j) \/ seq[j].mark = "deleted" \/ j \in lost

LEMMA FillMoves ==
    ASSUME NEW seq \in Seq(Scheme), \E i \in DOMAIN seq : seq[i].mark = "deleted"
    PROVE  /\ Filled(seq) \in Seq(Scheme) /\ Moved(seq, Filled(seq), {})
           /\ Front(Trimmed(seq)) \in Seq(Scheme) /\ Last(Trimmed(seq)) \in Scheme
           /\ \E m \in DOMAIN seq : /\ Moved(seq, Front(Trimmed(seq)), {m})
                                   /\ seq[m] = Last(Trimmed(seq))
<1>1. DOMAIN seq = 1 .. Len(seq) /\ Len(seq) \in Nat
  BY LenProperties
<1>2. PICK k \in 1 .. Len(seq) : k = Hole(seq) /\ seq[k].mark = "deleted"
  BY HoleIs
<1>3. PICK t \in Seq(Scheme), m \in k .. Len(seq) :
         /\ m = k \/ seq[m].mark # "deleted"
         /\ \A i \in m + 1 .. Len(seq) : seq[i].mark = "deleted"
         /\ t = Trimmed(seq) /\ Len(t) = m /\ \A i \in 1 .. m : t[i] = seq[i]
  BY <1>2, TrimmedIs
<1>4. m \in Nat \ {0} /\ k \in Nat \ {0} /\ k <= m /\ m <= Len(seq) /\ t[m] = seq[m]
  BY <1>1, <1>3
<1>5. ASSUME NEW u \in Seq(Scheme), Len(u) = m
      PROVE  /\ Front(u) \in Seq(Scheme) /\ DOMAIN Front(u) = 1 .. m - 1
             /\ \A i \in 1 .. m - 1 : Front(u)[i] = u[i]
  <2>1. /\ SubSeq(u, 1, m - 1) \in Seq(Scheme)
        /\ Len(SubSeq(u, 1, m - 1)) = m - 1
        /\ \A i \in 1 .. m - 1 : SubSeq(u, 1, m - 1)[i] = u[i]
    BY <1>4, <1>5, SubSeqProperties, ElementOfSeq
  <2>2. QED
    BY <1>5, <2>1, LenProperties DEF Front
<1>6. t[m] \in Scheme /\ Last(t) = t[m]
  BY <1>3, <1>4, ElementOfSeq DEF Last
<1>7. Moved(seq, Front(t), {m}) /\ Front(t) \in Seq(Scheme)
  <2> DEFINE f == [i \in 1 .. m - 1 |-> i]
  <2>1. /\ DOMAIN Front(t) = 1 .. m - 1 /\ Front(t) \in Seq(Scheme)
        /\ \A i \in 1 .. m - 1 : Front(t)[i] = seq[i]
    BY <1>3, <1>4, <1>5
  <2>2. f \in [DOMAIN Front(t) -> DOMAIN seq]
    BY <1>1, <1>4, <2>1
  <2>3. \A j \in DOMAIN seq :
           (\E i \in DOMAIN Front(t) : f[i] = j) \/ seq[j].mark = "deleted" \/ j \in {m}
    BY <1>1, <1>3, <1>4, <2>1
  <2>4. /\ \A i, j \in DOMAIN Front(t) : f[i] = f[j] => i = j
        /\ \A i \in DOMAIN Front(t) : Front(t)[i] = seq[f[i]]
    BY <2>1
  <2> HIDE DEF f
  <2>5. QED
    BY <2>1, <2>2, <2>3, <2>4 DEF Moved
<1>8. m \in DOMAIN seq
  BY <1>1, <1>4
<1>9. ASSUME k = m
      PROVE  Filled(seq) \in Seq(Scheme) /\ Moved(seq, Filled(seq), {})
  <2>1. Filled(seq) = Front(t)
    BY <1>2, <1>3, <1>9 DEF Filled
  <2>2. PICK f \in [DOMAIN Front(t) -> DOMAIN seq] :
           /\ \A i, j \in DOMAIN Front(t) : f[i] = f[j] => i = j
           /\ \A i \in DOMAIN Front(t) : Front(t)[i] = seq[f[i]]
           /\ \A j \in DOMAIN seq :
                 (\E i \in DOMAIN Front(t) : f[i] = j) \/ seq[j].mark = "deleted" \/ j \in {m}
    BY <1>7 DEF Moved
  <2>3. \A j \in DOMAIN seq :
           (\E i \in DOMAIN Front(t) : f[i] = j) \/ seq[j].mark = "deleted" \/ j \in {}
    BY <1>2, <1>9, <2>2
  <2>4. Moved(seq, Front(t), {})
    BY <2>2, <2>3 DEF Moved
  <2>5. QED
    BY <1>7, <2>1, <2>4
<1>10. ASSUME k # m
      PROVE  Filled(seq) \in Seq(Scheme) /\ Moved(seq, Filled(seq), {})
  <2> DEFINE u == [t EXCEPT ![k] = t[m]]
             f == [i \in 1 .. m - 1 |-> IF i = k THEN m ELSE i]
  <2>1. Filled(seq) = Front(u)
    BY <1>2, <1>3, <1>6, <1>10 DEF Filled
  <2>2. u \in Seq(Scheme) /\ Len(u) = m /\ \A i \in 1 .. m : u[i] = IF i = k THEN t[m] ELSE t[i]
    BY <1>3, <1>4, <1>6, ExceptSeq
  <2> HIDE DEF u
  <2>3. /\ DOMAIN Front(u) = 1 .. m - 1 /\ Front(u) \in Seq(Scheme)
        /\ \A i \in 1 .. m - 1 : Front(u)[i] = u[i]
    BY <2>2, <1>5
  <2>4. \A i \in 1 .. m - 1 : Front(u)[i] = seq[IF i = k THEN m ELSE i]
    BY <1>3, <1>4, <2>2, <2>3
  <2>5. f \in [DOMAIN Front(u) -> DOMAIN seq]
    BY <1>1, <1>4, <2>3
  <2>6. /\ \A i, j \in DOMAIN Front(u) : f[i] = f[j] => i = j
        /\ \A i \in DOMAIN Front(u) : Front(u)[i] = seq[f[i]]
    BY <1>4, <2>3, <2>4
  <2>7. \A j \in DOMAIN seq :
           (\E i \in DOMAIN Front(u) : f[i] = j) \/ seq[j].mark = "deleted" \/ j \in {}
    <3> SUFFICES ASSUME NEW j \in 1 .. Len(seq), seq[j].mark # "deleted"
                 PROVE  \E i \in 1 .. m - 1 : f[i] = j
      BY <1>1, <2>3
    <3>1. j <= m /\ j # k
      BY <1>2, <1>3, <1>4
    <3>2. CASE j = m
      <4>1. f[k] = m /\ k \in 1 .. m - 1
        BY <1>4, <1>10
      <4>2. QED
        BY <3>2, <4>1
    <3>3. CASE j # m
      <4>1. f[j] = j /\ j \in 1 .. m - 1
        BY <1>4, <3>1, <3>3
      <4>2. QED
        BY <4>1
    <3>4. QED
      BY <3>2, <3>3
  <2> HIDE DEF f
  <2>8. Moved(seq, Front(u), {})
    BY <2>5, <2>6, <2>7 DEF Moved
  <2>9. QED
    BY <2>1, <2>3, <2>8
<1>12. QED
  <2>1. Filled(seq) \in Seq(Scheme) /\ Moved(seq, Filled(seq), {})
    BY <1>9, <1>10
  <2>2. QED
    BY <1>3, <1>4, <1>6, <1>7, <1>8, <2>1

-----------------------------------------------------------------------------
(***************************************************************************)
(* What the steps do to the places of the schemes                          *)
(***************************************************************************)
LEMMA PlacesAre ==
    ASSUME TypeOK
    PROVE  /\ \A h, i : <<h, i>> \in Places <=> h \in 1 .. Heaps /\ i \in DOMAIN tablesPool[h]
           /\ \A a \in Places : /\ a = <<a[1], a[2]>> /\ a[1] \in 1 .. Heaps
                                /\ a[2] \in DOMAIN tablesPool[a[1]]
                                /\ Kept(a) \in Scheme
           /\ \A h \in 1 .. Heaps : /\ tablesPool[h] \in Seq(Scheme)
                                    /\ Len(tablesPool[h]) \in Nat
                                    /\ DOMAIN tablesPool[h] = 1 .. Len(tablesPool[h])
           /\ \A s : s \in Schemes <=> \E a \in Places : Kept(a) = s
<1>1. \A h \in 1 .. Heaps : tablesPool[h] \in Seq(Scheme)
  BY DEF TypeOK
<1>2. \A h \in 1 .. Heaps : /\ Len(tablesPool[h]) \in Nat
                            /\ DOMAIN tablesPool[h] = 1 .. Len(tablesPool[h])
                            /\ \A i \in DOMAIN tablesPool[h] : tablesPool[h][i] \in Scheme
  BY <1>1, LenProperties, ElementOfSeq
<1>3. \A h, i : <<h, i>> \in Places <=> h \in 1 .. Heaps /\ i \in DOMAIN tablesPool[h]
  BY DEF Places
<1>4. \A a \in Places : a = <<a[1], a[2]>> /\ a[1] \in 1 .. Heaps /\ a[2] \in DOMAIN tablesPool[a[1]]
  BY DEF Places
<1>5. ASSUME NEW s
      PROVE  s \in Schemes <=> \E a \in Places : Kept(a) = s
  <2>1. s \in Schemes <=> \E h \in 1 .. Heaps : \E i \in DOMAIN tablesPool[h] : tablesPool[h][i] = s
    BY DEF Schemes, ToSet
  <2>2. ASSUME NEW h \in 1 .. Heaps, NEW i \in DOMAIN tablesPool[h], tablesPool[h][i] = s
        PROVE  \E a \in Places : Kept(a) = s
    <3>1. <<h, i>> \in Places /\ Kept(<<h, i>>) = s
      BY <1>3, <2>2 DEF Kept
    <3>2. QED
      BY <3>1
  <2>3. QED
    BY <1>4, <2>1, <2>2 DEF Kept
<1>6. QED
  BY <1>1, <1>2, <1>3, <1>4, <1>5 DEF Kept

LEMMA FirstOfIs ==
    ASSUME TypeOK, NEW n, Named(n) # {}
    PROVE  FirstOf(n) \in Named(n)
<1>1. \A a \in Named(n) : a = <<a[1], a[2]>> /\ a[1] \in Nat /\ a[2] \in Nat
  BY PlacesAre DEF Named
<1> DEFINE H == {a[1] : a \in Named(n)}
<1>2. H \subseteq Nat /\ H # {}
  BY <1>1
<1>3. PICK h \in H : \A k \in H : h <= k
  BY <1>2, LeastNat
<1> DEFINE I == {a[2] : a \in {b \in Named(n) : b[1] = h}}
<1>4. I \subseteq Nat /\ I # {}
  BY <1>1
<1>5. PICK i \in I : \A k \in I : i <= k
  BY <1>4, LeastNat
<1>6. PICK a \in Named(n) : a[1] = h /\ a[2] = i
  OBVIOUS
<1>7. \A b \in Named(n) : a[1] < b[1] \/ (a[1] = b[1] /\ a[2] <= b[2])
  <2> SUFFICES ASSUME NEW b \in Named(n)
               PROVE  a[1] < b[1] \/ (a[1] = b[1] /\ a[2] <= b[2])
    OBVIOUS
  <2>1. h <= b[1]
    BY <1>3
  <2>2. b[1] = h => i <= b[2]
    BY <1>5
  <2>3. QED
    BY <1>1, <1>6, <2>1, <2>2
<1>8. QED
  BY <1>7 DEF FirstOf

LEMMA Marking ==
    ASSUME TypeOK, NEW a \in Places, NEW m \in {"added", "stored", "deleted"}, Mark(a, m)
    PROVE  /\ tablesPool' \in [1 .. Heaps -> Seq(Scheme)]
           /\ Places' = Places
           /\ \A b \in Places : /\ Kept(b)' = IF b = a THEN [Kept(b) EXCEPT !.mark = m] ELSE Kept(b)
                                /\ Kept(b)'.pool = Kept(b).pool /\ Kept(b)'.name = Kept(b).name
                                /\ Kept(b)'.mark = IF b = a THEN m ELSE Kept(b).mark
<1>1. PICK h, i : h \in 1 .. Heaps /\ i \in DOMAIN tablesPool[h] /\ a = <<h, i>>
  BY PlacesAre
<1> DEFINE e == [tablesPool[h][i] EXCEPT !.mark = m]
           t == [tablesPool[h] EXCEPT ![i] = e]
<1>2. tablesPool' = [tablesPool EXCEPT ![h] = t]
  BY <1>1 DEF Mark
<1>3. /\ tablesPool[h] \in Seq(Scheme) /\ i \in 1 .. Len(tablesPool[h])
      /\ tablesPool[h][i] \in Scheme
  BY <1>1, PlacesAre, ElementOfSeq
<1>4. /\ e \in Scheme /\ e.mark = m
      /\ e.pool = tablesPool[h][i].pool /\ e.name = tablesPool[h][i].name
  BY <1>3 DEF Scheme
<1> HIDE DEF e
<1>5. /\ t \in Seq(Scheme) /\ Len(t) = Len(tablesPool[h])
      /\ \A j \in 1 .. Len(tablesPool[h]) : t[j] = IF j = i THEN e ELSE tablesPool[h][j]
  BY <1>3, <1>4, ExceptSeq
<1>6. DOMAIN t = DOMAIN tablesPool[h]
  OBVIOUS
<1> HIDE DEF t
<1>7. /\ tablesPool' \in [1 .. Heaps -> Seq(Scheme)] /\ tablesPool'[h] = t
      /\ \A k \in 1 .. Heaps : k # h => tablesPool'[k] = tablesPool[k]
  BY <1>1, <1>2, <1>5 DEF TypeOK
<1>8. \A k \in 1 .. Heaps : DOMAIN tablesPool'[k] = DOMAIN tablesPool[k]
  BY <1>6, <1>7
<1>9. Places' = Places
  BY <1>8 DEF Places
<1>10. ASSUME NEW b \in Places
       PROVE  Kept(b)' = IF b = a THEN e ELSE Kept(b)
  <2>1. PICK k, j : k \in 1 .. Heaps /\ j \in DOMAIN tablesPool[k] /\ b = <<k, j>>
    BY PlacesAre
  <2>2. CASE k = h
    BY <1>1, <1>3, <1>5, <1>7, <2>1, <2>2, PlacesAre DEF Kept
  <2>3. CASE k # h
    BY <1>1, <1>7, <2>1, <2>3 DEF Kept
  <2>4. QED
    BY <2>2, <2>3
<1>11. Kept(a) = tablesPool[h][i] /\ e = [Kept(a) EXCEPT !.mark = m]
  BY <1>1 DEF Kept, e
<1>12. QED
  BY <1>4, <1>7, <1>9, <1>10, <1>11

LEMMA Appending ==
    ASSUME TypeOK, NEW h \in 1 .. Heaps, NEW s \in Scheme,
           tablesPool' = [tablesPool EXCEPT ![h] = Append(@, s)]
    PROVE  /\ tablesPool' \in [1 .. Heaps -> Seq(Scheme)]
           /\ \E a : /\ Places' = Places \cup {a} /\ a \notin Places
                     /\ Kept(a)' = s /\ \A b \in Places : Kept(b)' = Kept(b)
<1> DEFINE t == Append(tablesPool[h], s)
           m == Len(tablesPool[h]) + 1
<1>1. tablesPool[h] \in Seq(Scheme) /\ Len(tablesPool[h]) \in Nat
      /\ DOMAIN tablesPool[h] = 1 .. Len(tablesPool[h])
  BY PlacesAre
<1>2. /\ t \in Seq(Scheme) /\ Len(t) = m /\ t[m] = s
      /\ \A i \in 1 .. Len(tablesPool[h]) : t[i] = tablesPool[h][i]
  BY <1>1, AppendProperties
<1>3. tablesPool' = [tablesPool EXCEPT ![h] = t]
  OBVIOUS
<1> HIDE DEF t
<1>4. DOMAIN t = DOMAIN tablesPool[h] \cup {m} /\ m \notin DOMAIN tablesPool[h]
  <2>1. DOMAIN t = 1 .. m
    BY <1>2, LenProperties
  <2>2. QED
    BY <1>1, <2>1
<1>5. /\ tablesPool' \in [1 .. Heaps -> Seq(Scheme)] /\ tablesPool'[h] = t
      /\ \A k \in 1 .. Heaps : k # h => tablesPool'[k] = tablesPool[k]
  BY <1>2, <1>3 DEF TypeOK
<1> HIDE DEF m
<1>6. PICK a : a = <<h, m>>
  OBVIOUS
<1>7. a \notin Places /\ Kept(a)' = s
  BY <1>2, <1>4, <1>5, <1>6, PlacesAre DEF Kept
<1>8. Places' = Places \cup {a}
  <2>1. \A k \in 1 .. Heaps : {k} \X DOMAIN tablesPool'[k] =
           ({k} \X DOMAIN tablesPool[k]) \cup (IF k = h THEN {a} ELSE {})
    BY <1>4, <1>5, <1>6
  <2>2. QED
    BY <2>1 DEF Places
<1>9. ASSUME NEW b \in Places
      PROVE  Kept(b)' = Kept(b)
  <2>1. PICK k, j : k \in 1 .. Heaps /\ j \in DOMAIN tablesPool[k] /\ b = <<k, j>>
    BY PlacesAre
  <2>2. QED
    BY <1>1, <1>2, <1>5, <2>1 DEF Kept
<1>10. QED
  BY <1>5, <1>7, <1>8, <1>9

\* A heap is replaced by another one whose records were all in it.
Carried(F, lost) ==
    /\ \A a \in Places' : F[a] \in Places /\ F[a][1] = a[1] /\ Kept(a)' = Kept(F[a])
    /\ \A a, b \in Places' : F[a] = F[b] => a = b
    /\ \A b \in Places :
          (\E a \in Places' : F[a] = b) \/ Kept(b).mark = "deleted" \/ b \in lost

LEMMA Carrying ==
    ASSUME TypeOK, NEW h \in 1 .. Heaps, NEW t \in Seq(Scheme), NEW lost,
           Moved(tablesPool[h], t, lost),
           tablesPool' = [tablesPool EXCEPT ![h] = t]
    PROVE  /\ tablesPool' \in [1 .. Heaps -> Seq(Scheme)]
           /\ \E F : Carried(F, {h} \X lost)
<1>1. PICK f \in [DOMAIN t -> DOMAIN tablesPool[h]] :
         /\ \A i, j \in DOMAIN t : f[i] = f[j] => i = j
         /\ \A i \in DOMAIN t : t[i] = tablesPool[h][f[i]]
         /\ \A j \in DOMAIN tablesPool[h] :
               (\E i \in DOMAIN t : f[i] = j) \/ tablesPool[h][j].mark = "deleted" \/ j \in lost
  BY DEF Moved
<1>2. /\ tablesPool' \in [1 .. Heaps -> Seq(Scheme)] /\ tablesPool'[h] = t
      /\ \A k \in 1 .. Heaps : k # h => tablesPool'[k] = tablesPool[k]
  BY DEF TypeOK
<1>3. PICK F : F = [a \in Places' |-> IF a[1] = h THEN <<h, f[a[2]]>> ELSE a]
  OBVIOUS
<1>4. \A a : a \in Places' <=> \E k \in 1 .. Heaps : \E i \in DOMAIN tablesPool'[k] : a = <<k, i>>
  BY DEF Places
<1>5. ASSUME NEW a \in Places'
      PROVE  F[a] \in Places /\ F[a][1] = a[1] /\ Kept(a)' = Kept(F[a])
  <2>1. PICK k, i : k \in 1 .. Heaps /\ i \in DOMAIN tablesPool'[k] /\ a = <<k, i>>
    BY <1>4
  <2>2. CASE k = h
    <3>1. F[a] = <<h, f[i]>> /\ f[i] \in DOMAIN tablesPool[h] /\ t[i] = tablesPool[h][f[i]]
      BY <1>1, <1>2, <1>3, <2>1, <2>2
    <3>2. PICK c : c = F[a]
      OBVIOUS
    <3>3. c = <<h, f[i]>> /\ a = <<h, i>>
      BY <2>1, <2>2, <3>1, <3>2
    <3>4. Kept(a)' = t[i]
      BY <1>2, <3>3 DEF Kept
    <3>5. Kept(c) = tablesPool[h][f[i]] /\ c[1] = a[1]
      BY <3>3 DEF Kept
    <3>6. c \in Places
      BY <3>1, <3>3, PlacesAre
    <3>7. QED
      BY <3>1, <3>2, <3>4, <3>5, <3>6
  <2>3. CASE k # h
    <3>1. F[a] = a
      BY <1>3, <2>1, <2>3
    <3>2. QED
      BY <1>2, <2>1, <2>3, <3>1, PlacesAre DEF Kept
  <2>4. QED
    BY <2>2, <2>3
<1>6. ASSUME NEW a \in Places', NEW b \in Places', F[a] = F[b]
      PROVE  a = b
  <2>1. PICK k, i : k \in 1 .. Heaps /\ i \in DOMAIN tablesPool'[k] /\ a = <<k, i>>
    BY <1>4
  <2>2. PICK l, j : l \in 1 .. Heaps /\ j \in DOMAIN tablesPool'[l] /\ b = <<l, j>>
    BY <1>4
  <2>3. /\ F[a] = IF k = h THEN <<h, f[i]>> ELSE a
        /\ F[b] = IF l = h THEN <<h, f[j]>> ELSE b
    BY <1>3, <2>1, <2>2
  <2>4. k = l
    BY <1>6, <2>1, <2>2, <2>3
  <2>5. CASE k = h
    <3>1. <<h, f[i]>> = <<h, f[j]>>
      BY <1>6, <2>3, <2>4, <2>5
    <3>2. f[i] = f[j] /\ i \in DOMAIN t /\ j \in DOMAIN t
      BY <1>2, <2>1, <2>2, <2>4, <2>5, <3>1
    <3>3. QED
      BY <1>1, <2>1, <2>2, <2>4, <3>2
  <2>6. CASE k # h
    BY <1>6, <2>3, <2>4, <2>6
  <2>7. QED
    BY <2>5, <2>6
<1>7. ASSUME NEW b \in Places
      PROVE  \/ \E a \in Places' : F[a] = b
             \/ Kept(b).mark = "deleted" \/ b \in {h} \X lost
  <2>1. PICK k, j : k \in 1 .. Heaps /\ j \in DOMAIN tablesPool[k] /\ b = <<k, j>>
    BY PlacesAre
  <2>2. CASE k = h /\ (tablesPool[h][j].mark = "deleted" \/ j \in lost)
    BY <2>1, <2>2 DEF Kept
  <2>3. CASE k = h /\ \E i \in DOMAIN t : f[i] = j
    <3>1. PICK i \in DOMAIN t : f[i] = j
      BY <2>3
    <3>2. <<h, i>> \in Places'
      BY <1>2, <1>4
    <3>3. F[<<h, i>>] = b
      BY <1>3, <2>1, <2>3, <3>1, <3>2
    <3>4. QED
      BY <3>2, <3>3
  <2>4. CASE k # h
    <3>1. b \in Places' /\ F[b] = b
      BY <1>2, <1>3, <1>4, <2>1, <2>4
    <3>2. QED
      BY <3>1
  <2>5. QED
    BY <1>1, <2>1, <2>2, <2>3, <2>4
<1>8. Carried(F, {h} \X lost)
  BY <1>5, <1>6, <1>7 DEF Carried
<1>9. QED
  BY <1>2, <1>8

\* The two ends a round of heap_flush_delete may have.
LEMMA Deleting ==
    ASSUME Types, pc = "deleted", Marked("deleted") # {},
           NEW whole \in BOOLEAN,
           tablesPool' = [tablesPool EXCEPT ![heap] =
                            IF whole THEN Filled(@) ELSE Front(Trimmed(@))]
    PROVE  /\ tablesPool' \in [1 .. Heaps -> Seq(Scheme)]
           /\ Last(Trimmed(tablesPool[heap])) \in Scheme
           /\ whole => \E F : Carried(F, {})
           /\ ~ whole => \E F, b : /\ b \in Places /\ Carried(F, {b})
                                   /\ Kept(b) = Last(Trimmed(tablesPool[heap]))
<1>1. TypeOK /\ heap \in 1 .. Heaps /\ tablesPool[heap] \in Seq(Scheme)
  BY DEF Types, TypeOK
<1>2. \E i \in DOMAIN tablesPool[heap] : tablesPool[heap][i].mark = "deleted"
  BY DEF Marked
<1>3. PICK s \in Seq(Scheme) : s = tablesPool[heap]
  BY <1>1
<1>4. /\ Filled(s) \in Seq(Scheme) /\ Moved(s, Filled(s), {})
      /\ Front(Trimmed(s)) \in Seq(Scheme) /\ Last(Trimmed(s)) \in Scheme
      /\ \E m \in DOMAIN s : Moved(s, Front(Trimmed(s)), {m}) /\ s[m] = Last(Trimmed(s))
  BY <1>2, <1>3, FillMoves
<1>5. CASE whole
  <2>1. tablesPool' = [tablesPool EXCEPT ![heap] = Filled(s)]
    BY <1>3, <1>5
  <2>2. /\ tablesPool' \in [1 .. Heaps -> Seq(Scheme)]
        /\ \E F : Carried(F, {heap} \X {})
    BY <1>1, <1>3, <1>4, <2>1, Carrying
  <2>3. {heap} \X {} = {}
    OBVIOUS
  <2>4. QED
    BY <1>3, <1>4, <1>5, <2>2, <2>3
<1>6. CASE ~ whole
  <2>1. tablesPool' = [tablesPool EXCEPT ![heap] = Front(Trimmed(s))]
    BY <1>3, <1>6
  <2>2. PICK m \in DOMAIN s : Moved(s, Front(Trimmed(s)), {m}) /\ s[m] = Last(Trimmed(s))
    BY <1>4
  <2>3. /\ tablesPool' \in [1 .. Heaps -> Seq(Scheme)]
        /\ \E F : Carried(F, {heap} \X {m})
    BY <1>1, <1>3, <1>4, <2>1, <2>2, Carrying
  <2>4. PICK b : b = <<heap, m>>
    OBVIOUS
  <2>5. b \in Places /\ {heap} \X {m} = {b} /\ Kept(b) = Last(Trimmed(s))
    BY <1>1, <1>3, <2>2, <2>4, PlacesAre DEF Kept
  <2>6. \E F : Carried(F, {b})
    BY <2>3, <2>5
  <2>7. QED
    BY <1>3, <1>4, <1>6, <2>3, <2>5, <2>6
<1>7. QED
  BY <1>5, <1>6

\* What a kill or a failure does to the file.
LEMMA Cutting ==
    ASSUME Types, pc # "idle", Cut
    PROVE  /\ tablesPool' \in [1 .. Heaps -> Seq(Scheme)]
           /\ tainted' \subseteq Names /\ cuts' = cuts + 1 /\ cuts' <= MaxCuts
           /\ UNCHANGED <<pools, fate>>
           /\ \/ UNCHANGED tablesPool
              \/ pc = "deleted" /\ \E F, b : /\ b \in Places /\ Carried(F, {b})
                                            /\ Kept(b).name \in tainted'
           /\ tainted \cup {op.name} \subseteq tainted'
<1>1. /\ TypeOK /\ heap \in 1 .. Heaps /\ cuts \in 0 .. MaxCuts /\ MaxCuts \in Nat
      /\ op.name \in Names /\ tainted \subseteq Names
  BY CatalogAssumption DEF Types, TypeOK
<1>2. cuts' = cuts + 1 /\ cuts' <= MaxCuts /\ UNCHANGED <<pools, fate>>
  BY <1>1 DEF Cut
<1>3. CASE UNCHANGED tablesPool /\ tainted' = tainted \cup {op.name}
  BY <1>1, <1>2, <1>3 DEF TypeOK
<1>4. CASE /\ pc = "deleted" /\ Marked("deleted") # {}
           /\ LET t == Trimmed(tablesPool[heap]) IN
                 /\ tablesPool' = [tablesPool EXCEPT ![heap] = Front(t)]
                 /\ tainted' = tainted \cup {op.name, Last(t).name}
  <2>1. tablesPool' = [tablesPool EXCEPT ![heap] =
                         IF FALSE THEN Filled(@) ELSE Front(Trimmed(@))]
    BY <1>4
  <2>2. /\ tablesPool' \in [1 .. Heaps -> Seq(Scheme)]
        /\ Last(Trimmed(tablesPool[heap])) \in Scheme
        /\ \E F, b : /\ b \in Places /\ Carried(F, {b})
                     /\ Kept(b) = Last(Trimmed(tablesPool[heap]))
    BY <1>4, <2>1, Deleting
  <2>3. /\ Last(Trimmed(tablesPool[heap])).name \in Names
        /\ tainted' = tainted \cup {op.name, Last(Trimmed(tablesPool[heap])).name}
    BY <1>4, <2>2 DEF Scheme
  <2>4. \E F, b : b \in Places /\ Carried(F, {b}) /\ Kept(b).name \in tainted'
    BY <2>2, <2>3
  <2>5. QED
    BY <1>1, <1>2, <1>4, <2>2, <2>3, <2>4
<1>5. QED
  BY <1>3, <1>4 DEF Cut, Left

-----------------------------------------------------------------------------
(***************************************************************************)
(* The invariant is inductive                                              *)
(***************************************************************************)
LEMMA TypesInit == Init => Types
<1> SUFFICES ASSUME Init
             PROVE  Types
  OBVIOUS
<1>1. /\ Heaps \in Nat \ {0} /\ MaxPools \in Nat /\ MaxCuts \in Nat /\ 1 \in 1 .. Heaps
  BY CatalogAssumption
<1>2. [h \in 1 .. Heaps |-> <<>>] \in [1 .. Heaps -> Seq(Scheme)]
  BY EmptySeq
<1>3. op \in Statement
  BY <1>1 DEF Init, NoOp, Statement
<1>4. QED
  BY <1>1, <1>2, <1>3 DEF Init, Types, TypeOK

LEMMA TypesStep ==
    ASSUME Types, [Next]_vars
    PROVE  Types'
<1>1. /\ TypeOK /\ op \in Statement /\ Heaps \in Nat \ {0} /\ 1 \in 1 .. Heaps
      /\ MaxPools \in Nat /\ pools \in 0 .. MaxPools /\ heap \in 1 .. Heaps
      /\ pc # "idle" => op.name \in Names
  BY CatalogAssumption DEF Types, TypeOK
<1>2. NoOp \in Statement
  BY <1>1 DEF NoOp, Statement
<1>3. ASSUME NEW m \in Names, NEW h \in 1 .. Heaps, CreateTable(m, h)
      PROVE  Types'
  <2>1. CASE map_exists(tables, m)
    BY <1>1, <1>2, <1>3, <2>1 DEF CreateTable, Return, Types, TypeOK, file, history
  <2>2. CASE ~ map_exists(tables, m)
    <3>1. /\ op' = [kind |-> "create", name |-> m, pool |-> 0, heap |-> h]
          /\ pc' = "create" /\ said' = "none" /\ pools < MaxPools /\ up
          /\ UNCHANGED <<tablesPool, pools, heap, up, fate, tainted, cuts>>
      BY <1>3, <2>2 DEF CreateTable, file, history
    <3>2. op' \in Statement /\ op'.name = m
      BY <1>1, <3>1 DEF Statement
    <3>3. QED
      BY <1>1, <3>1, <3>2 DEF Types, TypeOK
  <2>3. QED
    BY <2>1, <2>2
<1>4. CASE PoolCreate
  <2>1. /\ pools < MaxPools /\ pools' = pools + 1 /\ pc' = "append"
        /\ op' = [op EXCEPT !.pool = pools + 1]
        /\ UNCHANGED <<tablesPool, heap, up, said, fate, tainted, cuts>>
    BY <1>4 DEF PoolCreate, Types, history
  <2>2. pools + 1 \in 0 .. MaxPools /\ pools + 1 # 0
    BY <1>1, <2>1
  <2>3. op' \in Statement /\ op'.name = op.name /\ op'.pool = pools + 1
    BY <1>1, <2>1, <2>2 DEF Statement
  <2>4. QED
    BY <1>1, <1>4, <2>1, <2>2, <2>3 DEF Types, TypeOK, PoolCreate
<1>5. CASE PoolAppend
  <2>1. [name |-> op.name, pool |-> op.pool, mark |-> "added"] \in Scheme /\ op.heap \in 1 .. Heaps
    BY <1>1, <1>5 DEF PoolAppend, Types, Statement, Scheme, Pool
  <2>2. tablesPool' \in [1 .. Heaps -> Seq(Scheme)]
    BY <1>1, <1>5, <2>1, Appending DEF PoolAppend
  <2>3. QED
    BY <1>1, <1>5, <2>2 DEF PoolAppend, FlushPool, Types, TypeOK, history
<1>6. CASE Put
  BY <1>1, <1>2, <1>6 DEF Put, Return, Types, TypeOK, file, history
<1>7. ASSUME NEW m \in Names, DeleteTable(m)
      PROVE  Types'
  <2>1. CASE Named(m) = {}
    BY <1>1, <1>2, <1>7, <2>1 DEF DeleteTable, Return, Types, TypeOK
  <2>2. CASE Named(m) # {}
    <3>1. PICK a \in Places : a = FirstOf(m)
      BY <1>1, <2>2, FirstOfIs DEF Named
    <3>2. /\ Mark(a, "deleted") /\ fate' = [fate EXCEPT ![Kept(a).pool] = "dropped"]
          /\ op' = [kind |-> "drop", name |-> m, pool |-> Kept(a).pool, heap |-> 1]
          /\ said' = "none" /\ pc' = "added" /\ heap' = 1 /\ up
          /\ UNCHANGED <<up, pools, tainted, cuts>>
      BY <1>7, <2>2, <3>1 DEF DeleteTable, FlushPool
    <3>3. Kept(a) \in Scheme
      BY <1>1, PlacesAre
    <3>4. op' \in Statement /\ op'.name = m
      BY <1>1, <3>2, <3>3 DEF Statement, Scheme, Pool
    <3>5. tablesPool' \in [1 .. Heaps -> Seq(Scheme)]
      BY <1>1, <3>2, Marking
    <3>6. fate' \in [Pool -> {"new", "table", "dropped"}]
      BY <1>1, <3>2 DEF TypeOK
    <3>7. QED
      BY <1>1, <3>2, <3>4, <3>5, <3>6 DEF Types, TypeOK
  <2>3. QED
    BY <2>1, <2>2
<1>8. CASE CommitAppend
  <2>1. PICK i \in Marked("added") :
           /\ Mark(<<heap, i>>, "stored")
           /\ fate' = [fate EXCEPT ![tablesPool[heap][i].pool] = "table"]
    BY <1>8 DEF CommitAppend
  <2>2. <<heap, i>> \in Places
    BY <1>1, PlacesAre DEF Marked
  <2>3. tablesPool' \in [1 .. Heaps -> Seq(Scheme)]
    BY <1>1, <2>1, <2>2, Marking
  <2>4. fate' \in [Pool -> {"new", "table", "dropped"}]
    BY <1>1, <2>1 DEF TypeOK
  <2>5. QED
    BY <1>1, <1>8, <2>3, <2>4 DEF CommitAppend, Types, TypeOK
<1>9. CASE AppendsDone
  BY <1>1, <1>9 DEF AppendsDone, Types, TypeOK, file, history
<1>10. CASE CommitDelete
  <2>1. tablesPool' = [tablesPool EXCEPT ![heap] =
                         IF TRUE THEN Filled(@) ELSE Front(Trimmed(@))]
    BY <1>10 DEF CommitDelete
  <2>2. tablesPool' \in [1 .. Heaps -> Seq(Scheme)]
    BY <1>10, <2>1, Deleting DEF CommitDelete
  <2>3. QED
    BY <1>1, <1>10, <2>2 DEF CommitDelete, Types, TypeOK, history
<1>11. CASE Flushed
  BY <1>1, <1>11 DEF Flushed, Types, TypeOK, file, history
<1>12. CASE Fail \/ Kill
  <2>1. /\ pc # "idle" /\ Cut /\ op' = NoOp /\ pc' = "idle" /\ heap' = 1
        /\ said' \in {"none", "DB_ERR"} /\ up' \in BOOLEAN
    BY <1>1, <1>12 DEF Fail, Kill, Down, Return, TypeOK
  <2>2. /\ tablesPool' \in [1 .. Heaps -> Seq(Scheme)] /\ tainted' \subseteq Names
        /\ cuts' = cuts + 1 /\ cuts' <= MaxCuts /\ UNCHANGED <<pools, fate>>
    BY <2>1, Cutting
  <2>3. cuts' \in 0 .. MaxCuts
    BY <1>1, <2>2, CatalogAssumption DEF TypeOK
  <2>4. QED
    BY <1>1, <1>2, <2>1, <2>2, <2>3 DEF Types, TypeOK
<1>13. CASE Stop
  BY <1>1, <1>2, <1>13 DEF Stop, Down, Return, Types, TypeOK, file, history
<1>14. CASE Open
  BY <1>1, <1>14 DEF Open, Types, TypeOK, file, history
<1>15. CASE OpenClear
  <2>1. [h \in 1 .. Heaps |-> <<>>] \in [1 .. Heaps -> Seq(Scheme)]
    BY EmptySeq
  <2>2. pc' = pc /\ op' = op /\ heap' = heap /\ said' = said /\ up' = TRUE /\ cuts' = cuts
    BY <1>15 DEF OpenClear
  <2>3. QED
    BY <1>1, <1>15, <2>1, <2>2 DEF OpenClear, Types, TypeOK
<1>16. CASE UNCHANGED vars
  BY <1>16 DEF vars, Types, TypeOK
<1>17. QED
  BY <1>3, <1>4, <1>5, <1>6, <1>7, <1>8, <1>9, <1>10, <1>11, <1>12, <1>13, <1>14, <1>15,
     <1>16 DEF Next

\* A pool has one scheme as long as records only move, and marks of deletion stay.
LEMMA NumberingKept ==
    ASSUME Types, Numbering, NEW F, NEW lost, Carried(F, lost), UNCHANGED <<pools, fate>>,
           pc' # "append"
    PROVE  Numbering'
<1>1. ASSUME NEW a \in Places'
      PROVE  F[a] \in Places /\ Kept(a)' = Kept(F[a])
  BY DEF Carried
<1>2. ASSUME NEW a \in Places', NEW b \in Places', Kept(a)'.pool = Kept(b)'.pool
      PROVE  a = b
  BY <1>1, <1>2 DEF Carried, Numbering
<1>3. ASSUME NEW a \in Places'
      PROVE  /\ Kept(a)'.pool <= pools'
             /\ Kept(a)'.mark = "deleted" => fate'[Kept(a)'.pool] = "dropped"
  BY <1>1, <1>3 DEF Numbering
<1>4. QED
  BY <1>2, <1>3 DEF Numbering, Coming

LEMMA NumberingSame ==
    ASSUME Numbering, UNCHANGED <<tablesPool, pools, fate>>,
           pc' # "append" \/ (UNCHANGED <<op, pc>>)
    PROVE  Numbering'
<1>1. Places' = Places /\ \A a \in Places : Kept(a)' = Kept(a)
  BY DEF Places, Kept
<1>2. \A p : Coming(p)' => Coming(p)
  BY DEF Coming
<1>3. QED
  BY <1>1, <1>2 DEF Numbering

LEMMA NumberingStep ==
    ASSUME Types, Numbering, [Next]_vars
    PROVE  Numbering'
<1>1. /\ TypeOK /\ op \in Statement /\ pools \in 0 .. MaxPools /\ MaxPools \in Nat
      /\ heap \in 1 .. Heaps
      /\ \A a \in Places : Kept(a) \in Scheme
  BY CatalogAssumption, PlacesAre DEF Types, TypeOK
<1>2. CASE (\E m \in Names, h \in 1 .. Heaps : CreateTable(m, h)) \/ Put \/ AppendsDone \/ Flushed
           \/ Stop \/ Open
  BY <1>2, NumberingSame DEF CreateTable, Put, AppendsDone, Flushed, Stop, Open, Down, Return,
                             file, history
<1>3. CASE PoolCreate
  <2>1. /\ pools' = pools + 1 /\ op' = [op EXCEPT !.pool = pools + 1]
        /\ UNCHANGED <<tablesPool, fate>>
    BY <1>3 DEF PoolCreate, history
  <2>2. Places' = Places /\ \A a \in Places : Kept(a)' = Kept(a) /\ Kept(a).pool \in Nat
    BY <1>1, <2>1 DEF Places, Kept, Scheme, Pool
  <2>3. op'.pool = pools + 1
    BY <1>1, <2>1 DEF Statement
  <2>4. \A a \in Places : Kept(a).pool <= pools' /\ Kept(a).pool # op'.pool
    BY <1>1, <2>1, <2>2, <2>3 DEF Numbering
  <2>5. QED
    BY <2>1, <2>2, <2>4 DEF Numbering, Coming
<1>4. CASE PoolAppend
  <2> DEFINE s == [name |-> op.name, pool |-> op.pool, mark |-> "added"]
  <2>1. /\ s \in Scheme /\ op.heap \in 1 .. Heaps /\ pc = "append" /\ pc' = "added"
        /\ op.pool = pools
        /\ tablesPool' = [tablesPool EXCEPT ![op.heap] = Append(@, s)]
        /\ UNCHANGED <<pools, fate>>
    BY <1>1, <1>4 DEF PoolAppend, FlushPool, Types, Statement, Scheme, Pool, history
  <2>2. PICK a : /\ Places' = Places \cup {a} /\ a \notin Places
                 /\ Kept(a)' = s /\ \A b \in Places : Kept(b)' = Kept(b)
    BY <1>1, <2>1, Appending
  <2>3. \A b \in Places : Kept(b).pool # s.pool
    BY <2>1 DEF Numbering, Coming
  <2>4. s.pool = pools /\ s.mark = "added"
    BY <2>1
  <2> HIDE DEF s
  <2>5. \A b, c \in Places' : Kept(b)'.pool = Kept(c)'.pool => b = c
    BY <2>2, <2>3 DEF Numbering
  <2>6. \A b \in Places' : /\ Kept(b)'.pool <= pools
                           /\ Kept(b)'.mark = "deleted" => fate[Kept(b)'.pool] = "dropped"
    BY <1>1, <2>2, <2>4 DEF Numbering
  <2>7. QED
    BY <2>1, <2>5, <2>6 DEF Numbering, Coming
<1>5. ASSUME NEW a \in Places, NEW m \in {"added", "stored", "deleted"}, Mark(a, m),
             pools' = pools, pc' = "added",
             m # "deleted" => fate' = [fate EXCEPT ![Kept(a).pool] = "table"],
             m = "deleted" => fate' = [fate EXCEPT ![Kept(a).pool] = "dropped"]
      PROVE  Numbering'
  <2>1. /\ Places' = Places
        /\ \A b \in Places : /\ Kept(b)'.pool = Kept(b).pool
                             /\ Kept(b)'.mark = IF b = a THEN m ELSE Kept(b).mark
    BY <1>1, <1>5, Marking
  <2>2. \A b, c \in Places' : Kept(b)'.pool = Kept(c)'.pool => b = c
    BY <2>1 DEF Numbering
  <2>3. ASSUME NEW b \in Places
        PROVE  /\ Kept(b)'.pool <= pools
               /\ Kept(b)'.mark = "deleted" => fate'[Kept(b)'.pool] = "dropped"
    <3>1. /\ Kept(b).pool <= pools /\ Kept(b).pool \in Pool /\ fate \in [Pool -> {"new", "table", "dropped"}]
          /\ Kept(b).mark = "deleted" => fate[Kept(b).pool] = "dropped"
          /\ b # a => Kept(b).pool # Kept(a).pool
      BY <1>1 DEF Numbering, Scheme, TypeOK
    <3>2. CASE b = a
      BY <1>5, <2>1, <3>1, <3>2
    <3>3. CASE b # a
      BY <1>5, <2>1, <3>1, <3>3
    <3>4. QED
      BY <3>2, <3>3
  <2>4. QED
    BY <1>5, <2>1, <2>2, <2>3 DEF Numbering, Coming
<1>6. ASSUME NEW m \in Names, DeleteTable(m)
      PROVE  Numbering'
  <2>1. CASE Named(m) = {}
    BY <1>6, <2>1, NumberingSame DEF DeleteTable, Return
  <2>2. CASE Named(m) # {}
    <3>1. PICK a \in Places : a = FirstOf(m)
      BY <1>1, <2>2, FirstOfIs DEF Named
    <3>2. QED
      BY <1>5, <1>6, <2>2, <3>1 DEF DeleteTable, FlushPool
  <2>3. QED
    BY <2>1, <2>2
<1>7. CASE CommitAppend
  <2>1. PICK i \in Marked("added") :
           /\ Mark(<<heap, i>>, "stored")
           /\ fate' = [fate EXCEPT ![tablesPool[heap][i].pool] = "table"]
    BY <1>7 DEF CommitAppend
  <2>2. PICK a \in Places : a = <<heap, i>>
    BY <1>1, PlacesAre DEF Marked
  <2>3. Kept(a) = tablesPool[heap][i] /\ pc' = "added" /\ pools' = pools
    BY <1>7, <2>2 DEF Kept, CommitAppend
  <2>4. QED
    BY <1>5, <2>1, <2>2, <2>3
<1>8. CASE CommitDelete
  <2>1. tablesPool' = [tablesPool EXCEPT ![heap] =
                         IF TRUE THEN Filled(@) ELSE Front(Trimmed(@))]
    BY <1>8 DEF CommitDelete
  <2>2. \E F : Carried(F, {})
    BY <1>8, <2>1, Deleting DEF CommitDelete
  <2>3. QED
    BY <1>8, <2>2, NumberingKept DEF CommitDelete, history
<1>9. CASE Fail \/ Kill
  <2>1. pc # "idle" /\ Cut /\ pc' = "idle"
    BY <1>9 DEF Fail, Kill, Down, Return
  <2>2. UNCHANGED <<pools, fate>>
    BY <2>1, Cutting
  <2>3. CASE UNCHANGED tablesPool
    BY <2>1, <2>2, <2>3, NumberingSame
  <2>4. CASE \E F, b : b \in Places /\ Carried(F, {b})
    BY <2>1, <2>2, <2>4, NumberingKept
  <2>5. QED
    BY <2>1, <2>3, <2>4, Cutting
<1>10. CASE OpenClear
  <2>1. Places' = {} /\ pc' = pc
    BY <1>10 DEF OpenClear, Places
  <2>2. QED
    BY <2>1 DEF Numbering
<1>11. CASE UNCHANGED vars
  BY <1>11, NumberingSame DEF vars
<1>12. QED
  BY <1>2, <1>3, <1>4, <1>6, <1>7, <1>8, <1>9, <1>10, <1>11 DEF Next

LEMMA SettlingStep ==
    ASSUME Types, Settling, [Next]_vars
    PROVE  Settling'
<1>1. /\ TypeOK /\ Heaps \in Nat \ {0} /\ heap \in 1 .. Heaps
      /\ \A a \in Places : Kept(a) \in Scheme /\ a[1] \in 1 .. Heaps
  BY CatalogAssumption, PlacesAre DEF Types, TypeOK
<1>2. CASE pc' \in {"idle", "create", "append"} /\ (pc' # "idle" => said' = "none")
  BY <1>2 DEF Settling
<1>3. ASSUME NEW m \in Names, NEW h \in 1 .. Heaps, CreateTable(m, h)
      PROVE  Settling'
  BY <1>2, <1>3 DEF CreateTable, Return
<1>4. CASE PoolCreate
  BY <1>2, <1>4 DEF PoolCreate, Settling
<1>5. ASSUME Types', pc' = "added", heap' = 1, said' = "none"
      PROVE  Settling'
  <2>1. \A a \in Places' : a[1] \in 1 .. Heaps
    BY DEF Places
  <2>2. QED
    BY <1>1, <1>5, <2>1 DEF Settling
<1>6. CASE PoolAppend
  BY <1>5, <1>6, TypesStep DEF PoolAppend, FlushPool, Settling
<1>7. CASE Put \/ Stop \/ Fail \/ Kill
  BY <1>2, <1>7 DEF Put, Stop, Fail, Kill, Down, Return
<1>8. ASSUME NEW m \in Names, DeleteTable(m)
      PROVE  Settling'
  BY <1>2, <1>5, <1>8, TypesStep DEF DeleteTable, Return, FlushPool
<1>9. CASE CommitAppend
  <2>1. PICK i \in Marked("added") : Mark(<<heap, i>>, "stored")
    BY <1>9 DEF CommitAppend
  <2>2. PICK a \in Places : a = <<heap, i>>
    BY <1>1, PlacesAre DEF Marked
  <2>3. /\ Places' = Places
        /\ \A b \in Places : Kept(b)'.mark = IF b = a THEN "stored" ELSE Kept(b).mark
    BY <1>1, <2>1, <2>2, Marking
  <2>4. pc = "added" /\ UNCHANGED <<pc, heap, said>>
    BY <1>9 DEF CommitAppend
  <2>5. QED
    BY <2>3, <2>4 DEF Settling
<1>10. CASE AppendsDone
  <2>1. /\ pc = "added" /\ pc' = "deleted" /\ Marked("added") = {}
        /\ UNCHANGED <<heap, said, tablesPool>>
    BY <1>10 DEF AppendsDone, file
  <2>2. Places' = Places /\ \A a \in Places : Kept(a)' = Kept(a)
    BY <2>1 DEF Places, Kept
  <2>3. \A a \in Places : a[1] = heap => Kept(a).mark # "added"
    BY <1>1, <2>1, PlacesAre DEF Marked, Kept
  <2>4. QED
    BY <2>1, <2>2, <2>3 DEF Settling
<1>11. CASE CommitDelete
  <2>1. tablesPool' = [tablesPool EXCEPT ![heap] =
                         IF TRUE THEN Filled(@) ELSE Front(Trimmed(@))]
    BY <1>11 DEF CommitDelete
  <2>2. PICK F : Carried(F, {})
    BY <1>11, <2>1, Deleting DEF CommitDelete
  <2>3. \A a \in Places' : F[a] \in Places /\ F[a][1] = a[1] /\ Kept(a)' = Kept(F[a])
    BY <2>2 DEF Carried
  <2>4. pc = "deleted" /\ UNCHANGED <<pc, heap, said>>
    BY <1>11 DEF CommitDelete
  <2>5. QED
    BY <2>3, <2>4 DEF Settling
<1>12. CASE Flushed
  <2>1. /\ pc = "deleted" /\ Marked("deleted") = {}
        /\ IF heap < Heaps THEN heap' = heap + 1 /\ pc' = "added"
           ELSE heap' = 1 /\ pc' = "put"
        /\ UNCHANGED <<said, tablesPool>>
    BY <1>12 DEF Flushed, file
  <2>2. Places' = Places /\ \A a \in Places : Kept(a)' = Kept(a)
    BY <2>1 DEF Places, Kept
  <2>3. \A a \in Places : a[1] = heap => Kept(a).mark # "deleted"
    BY <1>1, <2>1, PlacesAre DEF Marked, Kept
  <2>4. \A a \in Places : a[1] <= heap => Kept(a).mark = "stored"
    <3> SUFFICES ASSUME NEW a \in Places, a[1] <= heap
                 PROVE  Kept(a).mark = "stored"
      OBVIOUS
    <3>1. Kept(a).mark \in {"added", "stored", "deleted"}
      BY <1>1 DEF Scheme
    <3>2. a[1] < heap \/ a[1] = heap
      BY <1>1
    <3>3. QED
      BY <2>1, <2>3, <3>1, <3>2 DEF Settling
  <2>5. CASE heap < Heaps
    <3>1. \A a \in Places : a[1] < heap + 1 => a[1] <= heap
      BY <1>1
    <3>2. QED
      BY <2>1, <2>2, <2>4, <2>5, <3>1 DEF Settling
  <2>6. CASE ~ (heap < Heaps)
    <3>1. \A a \in Places : a[1] <= heap
      BY <1>1, <2>6
    <3>2. QED
      BY <2>1, <2>2, <2>4, <2>6, <3>1 DEF Settling
  <2>7. QED
    BY <2>5, <2>6
<1>13. CASE Open \/ OpenClear
  <2>1. pc = "idle" /\ pc' = "idle"
    BY <1>13 DEF Open, OpenClear, Types
  <2>2. QED
    BY <1>2, <2>1
<1>14. CASE UNCHANGED vars
  <2>1. UNCHANGED <<pc, heap, said>> /\ Places' = Places /\ \A a \in Places : Kept(a)' = Kept(a)
    BY <1>14 DEF vars, Places, Kept
  <2>2. QED
    BY <2>1 DEF Settling
<1>15. QED
  BY <1>3, <1>4, <1>6, <1>7, <1>8, <1>9, <1>10, <1>11, <1>12, <1>13, <1>14 DEF Next

-----------------------------------------------------------------------------
(***************************************************************************)
(* What kills and failures cost                                            *)
(***************************************************************************)
LEMMA Costs ==
    ASSUME NEW S, NEW T, S \subseteq Pool, NEW k \in Nat, Cardinality(S) <= k
    PROVE  /\ T \subseteq S => Cardinality(T) <= k
           /\ \A x : T \subseteq S \cup {x} => Cardinality(T) <= k + 1
<1>1. IsFiniteSet(S) /\ Cardinality(S) \in Nat
  <2>1. IsFiniteSet(Pool)
    BY CatalogAssumption, FS_Interval DEF Pool
  <2>2. QED
    BY <2>1, FS_Subset, FS_CardinalityType
<1>2. ASSUME T \subseteq S
      PROVE  Cardinality(T) <= k
  <2>1. Cardinality(T) <= Cardinality(S) /\ Cardinality(T) \in Nat
    BY <1>1, <1>2, FS_Subset, FS_CardinalityType
  <2>2. QED
    BY <1>1, <2>1
<1>3. ASSUME NEW x, T \subseteq S \cup {x}
      PROVE  Cardinality(T) <= k + 1
  <2>1. /\ IsFiniteSet(S \cup {x})
        /\ Cardinality(S \cup {x}) = IF x \in S THEN Cardinality(S) ELSE Cardinality(S) + 1
    BY <1>1, FS_AddElement
  <2>2. Cardinality(T) <= Cardinality(S \cup {x}) /\ Cardinality(T) \in Nat
    BY <1>3, <2>1, FS_Subset, FS_CardinalityType
  <2>3. QED
    BY <1>1, <2>1, <2>2
<1>4. QED
  BY <1>2, <1>3

LEMMA BoundedKept ==
    ASSUME TypeOK, Bounded, cuts' = cuts,
           LostTables' \subseteq LostTables, Orphans' \subseteq Orphans
    PROVE  Bounded'
<1>1. cuts \in Nat /\ LostTables \subseteq Pool /\ Orphans \subseteq Pool
  BY CatalogAssumption DEF TypeOK, LostTables, Orphans
<1>2. Cardinality(LostTables') <= cuts /\ Cardinality(Orphans') <= cuts
  BY <1>1, Costs DEF Bounded
<1>3. QED
  BY <1>2 DEF Bounded

LEMMA BoundedStep ==
    ASSUME Types, Numbering, Bounded, [Next]_vars
    PROVE  Bounded'
<1>1. /\ TypeOK /\ op \in Statement /\ pools \in 0 .. MaxPools /\ MaxPools \in Nat
      /\ heap \in 1 .. Heaps /\ fate \in [Pool -> {"new", "table", "dropped"}]
      /\ Pool \subseteq Nat /\ cuts \in Nat
      /\ \A a \in Places : Kept(a) \in Scheme /\ Kept(a).pool \in Pool
  <2>1. TypeOK /\ Pool \subseteq Nat /\ MaxPools \in Nat /\ MaxCuts \in Nat
    BY CatalogAssumption DEF Types, Pool
  <2>2. \A a \in Places : Kept(a) \in Scheme /\ Kept(a).pool \in Pool
    BY <2>1, PlacesAre DEF Scheme
  <2>3. QED
    BY <2>1, <2>2 DEF Types, TypeOK
<1>2. CASE UNCHANGED <<tablesPool, pools, fate, cuts>> /\ \A p \in Pool : Coming(p) => Coming(p)'
  <2>1. \A p \in Pool : Nameless(p)' = Nameless(p)
    BY <1>2 DEF Nameless, Places, Kept
  <2>2. LostTables' \subseteq LostTables /\ Orphans' \subseteq Orphans
    BY <1>2, <2>1 DEF LostTables, Orphans
  <2>3. QED
    BY <1>1, <1>2, <2>2, BoundedKept
<1>3. CASE (\E m \in Names, h \in 1 .. Heaps : CreateTable(m, h)) \/ Put \/ AppendsDone \/ Flushed
           \/ Stop \/ Open
  BY <1>2, <1>3 DEF CreateTable, Put, AppendsDone, Flushed, Stop, Open, Down, Return,
                    file, history, Coming
<1>4. CASE PoolCreate
  <2>1. /\ pools' = pools + 1 /\ op' = [op EXCEPT !.pool = pools + 1] /\ pc' = "append"
        /\ UNCHANGED <<tablesPool, fate, cuts>>
    BY <1>4 DEF PoolCreate, history
  <2>2. \A p \in Pool : Nameless(p)' = Nameless(p)
    BY <2>1 DEF Nameless, Places, Kept
  <2>3. op'.pool = pools + 1
    BY <1>1, <2>1 DEF Statement
  <2>4. Orphans' \subseteq Orphans
    <3> SUFFICES ASSUME NEW p \in Pool, p <= pools', fate'[p] # "dropped", ~ Coming(p)', Nameless(p)'
                 PROVE  p <= pools /\ ~ Coming(p)
      BY <2>1, <2>2 DEF Orphans
    <3>1. p <= pools
      BY <1>1, <2>1, <2>3 DEF Coming
    <3>2. QED
      BY <1>4, <3>1 DEF PoolCreate, Coming
  <2>5. LostTables' \subseteq LostTables
    BY <2>1, <2>2 DEF LostTables
  <2>6. QED
    BY <1>1, <2>1, <2>4, <2>5, BoundedKept
<1>5. CASE PoolAppend
  <2> DEFINE s == [name |-> op.name, pool |-> op.pool, mark |-> "added"]
  <2>1. /\ s \in Scheme /\ op.heap \in 1 .. Heaps /\ pc = "append" /\ pc' = "added"
        /\ tablesPool' = [tablesPool EXCEPT ![op.heap] = Append(@, s)]
        /\ UNCHANGED <<op, pools, fate, cuts>>
    BY <1>1, <1>5 DEF PoolAppend, FlushPool, Types, Statement, Scheme, Pool, history
  <2>2. PICK a : /\ Places' = Places \cup {a} /\ a \notin Places
                 /\ Kept(a)' = s /\ \A b \in Places : Kept(b)' = Kept(b)
    BY <1>1, <2>1, Appending
  <2>3. \A p \in Pool : Nameless(p)' => Nameless(p) /\ p # s.pool
    BY <2>2 DEF Nameless
  <2>4. s.pool = op.pool
    OBVIOUS
  <2> HIDE DEF s
  <2>5. LostTables' \subseteq LostTables /\ Orphans' \subseteq Orphans
    BY <2>1, <2>3, <2>4 DEF LostTables, Orphans, Coming
  <2>6. QED
    BY <1>1, <2>1, <2>5, BoundedKept
<1>6. ASSUME NEW a \in Places, NEW m \in {"added", "stored", "deleted"}, Mark(a, m),
             NEW f \in {"table", "dropped"}, fate' = [fate EXCEPT ![Kept(a).pool] = f],
             UNCHANGED <<pools, cuts>>, pc # "append"
      PROVE  Bounded'
  <2>1. Places' = Places /\ \A b \in Places : Kept(b)'.pool = Kept(b).pool
    BY <1>1, <1>6, Marking
  <2>2. \A p \in Pool : Nameless(p)' <=> Nameless(p)
    BY <2>1 DEF Nameless
  <2>3. \A p \in Pool : Nameless(p) => fate'[p] = fate[p]
    BY <1>1, <1>6 DEF Nameless
  <2>4. LostTables' \subseteq LostTables /\ Orphans' \subseteq Orphans
    BY <1>6, <2>2, <2>3 DEF LostTables, Orphans, Coming
  <2>5. QED
    BY <1>1, <1>6, <2>4, BoundedKept
<1>7. ASSUME NEW m \in Names, DeleteTable(m)
      PROVE  Bounded'
  <2>1. CASE Named(m) = {}
    BY <1>2, <1>7, <2>1 DEF DeleteTable, Return, Coming
  <2>2. CASE Named(m) # {}
    <3>1. PICK a \in Places : a = FirstOf(m)
      BY <1>1, <2>2, FirstOfIs DEF Named
    <3>2. QED
      BY <1>6, <1>7, <2>2, <3>1 DEF DeleteTable
  <2>3. QED
    BY <2>1, <2>2
<1>8. CASE CommitAppend
  <2>1. PICK i \in Marked("added") :
           /\ Mark(<<heap, i>>, "stored")
           /\ fate' = [fate EXCEPT ![tablesPool[heap][i].pool] = "table"]
    BY <1>8 DEF CommitAppend
  <2>2. PICK a \in Places : a = <<heap, i>>
    BY <1>1, PlacesAre DEF Marked
  <2>3. Kept(a) = tablesPool[heap][i] /\ pc = "added" /\ UNCHANGED <<pools, cuts>>
    BY <1>8, <2>2 DEF Kept, CommitAppend
  <2>4. QED
    BY <1>6, <2>1, <2>2, <2>3
<1>9. ASSUME NEW F, NEW lost, Carried(F, lost), NEW p \in Pool, Nameless(p)', ~ Nameless(p),
             fate[p] # "dropped"
      PROVE  \E b \in lost \cap Places : Kept(b).pool = p
  <2>1. PICK b \in Places : Kept(b).pool = p
    BY <1>9 DEF Nameless
  <2>2. Kept(b).mark # "deleted"
    BY <1>9, <2>1 DEF Numbering
  <2>3. ~ \E a \in Places' : F[a] = b
    BY <1>9, <2>1 DEF Nameless, Carried
  <2>4. QED
    BY <1>9, <2>1, <2>2, <2>3 DEF Carried
<1>10. CASE CommitDelete
  <2>1. tablesPool' = [tablesPool EXCEPT ![heap] =
                         IF TRUE THEN Filled(@) ELSE Front(Trimmed(@))]
    BY <1>10 DEF CommitDelete
  <2>2. PICK F : Carried(F, {})
    BY <1>10, <2>1, Deleting DEF CommitDelete
  <2>3. pc = "deleted" /\ UNCHANGED <<pc, op, pools, fate, cuts>>
    BY <1>10 DEF CommitDelete, history
  <2>4. \A p \in Pool : Nameless(p)' /\ fate[p] # "dropped" => Nameless(p)
    BY <1>9, <2>2
  <2>5. LostTables' \subseteq LostTables /\ Orphans' \subseteq Orphans
    BY <2>3, <2>4 DEF LostTables, Orphans, Coming
  <2>6. QED
    BY <1>1, <2>3, <2>5, BoundedKept
<1>11. CASE Fail \/ Kill
  <2>1. pc # "idle" /\ Cut /\ pc' = "idle"
    BY <1>11 DEF Fail, Kill, Down, Return
  <2>2. UNCHANGED <<pools, fate>> /\ cuts' = cuts + 1
    BY <2>1, Cutting
  <2>3. \E x : /\ LostTables' \subseteq LostTables \cup {x}
               /\ Orphans' \subseteq Orphans \cup {x}
    <3>1. CASE UNCHANGED tablesPool
      <4>1. \A p \in Pool : Nameless(p)' = Nameless(p)
        BY <3>1 DEF Nameless, Places, Kept
      <4>2. /\ LostTables' \subseteq LostTables \cup {op.pool}
            /\ Orphans' \subseteq Orphans \cup {op.pool}
        BY <2>2, <4>1 DEF LostTables, Orphans, Coming
      <4>3. QED
        BY <4>2
    <3>2. CASE pc = "deleted" /\ \E F, b : b \in Places /\ Carried(F, {b})
      <4>1. PICK F, b : b \in Places /\ Carried(F, {b})
        BY <3>2
      <4>2. \A p \in Pool : Nameless(p)' /\ fate[p] # "dropped" => Nameless(p) \/ p = Kept(b).pool
        BY <1>9, <4>1
      <4>3. PICK x : x = Kept(b).pool
        OBVIOUS
      <4>4. LostTables' \subseteq LostTables \cup {x} /\ Orphans' \subseteq Orphans \cup {x}
        BY <2>2, <3>2, <4>2, <4>3 DEF LostTables, Orphans, Coming
      <4>5. QED
        BY <4>4
    <3>3. QED
      BY <2>1, <3>1, <3>2, Cutting
  <2>4. Cardinality(LostTables') <= cuts + 1 /\ Cardinality(Orphans') <= cuts + 1
    <3>1. LostTables \subseteq Pool /\ Orphans \subseteq Pool
      BY DEF LostTables, Orphans
    <3>2. QED
      BY <1>1, <2>3, <3>1, Costs DEF Bounded
  <2>5. QED
    BY <2>2, <2>4 DEF Bounded
<1>12. CASE OpenClear
  <2>1. LostTables' = {} /\ Orphans' = {} /\ cuts' = cuts
    BY <1>1, <1>12 DEF OpenClear, LostTables, Orphans
  <2>2. QED
    BY <1>1, <2>1, BoundedKept
<1>13. CASE UNCHANGED vars
  BY <1>2, <1>13 DEF vars, Coming
<1>14. QED
  BY <1>3, <1>4, <1>5, <1>7, <1>8, <1>10, <1>11, <1>12, <1>13 DEF Next

-----------------------------------------------------------------------------
(***************************************************************************)
(* The map and the file                                                    *)
(***************************************************************************)
LEMMA AtSame ==
    ASSUME UNCHANGED tablesPool
    PROVE  \A n : At(n)' = At(n) /\ \A a : Kept(a)' = Kept(a)
<1>1. Places' = Places /\ \A a : Kept(a)' = Kept(a)
  BY DEF Places, Kept
<1>2. QED
  BY <1>1 DEF At

LEMMA AtMarked ==
    ASSUME TypeOK, NEW a \in Places, NEW m \in {"added", "stored", "deleted"}, Mark(a, m)
    PROVE  \A n : /\ At(n)' = At(n)
                  /\ \A b \in At(n) : /\ Kept(b)'.pool = Kept(b).pool
                                      /\ Kept(b)'.mark = IF b = a THEN m ELSE Kept(b).mark
<1>1. /\ Places' = Places
      /\ \A b \in Places : /\ Kept(b)'.pool = Kept(b).pool /\ Kept(b)'.name = Kept(b).name
                           /\ Kept(b)'.mark = IF b = a THEN m ELSE Kept(b).mark
  BY Marking
<1>2. QED
  BY <1>1 DEF At

LEMMA AtCarried ==
    ASSUME NEW F, NEW lost, Carried(F, lost)
    PROVE  \A n : /\ \A a \in At(n)' : F[a] \in At(n) /\ Kept(a)' = Kept(F[a])
                  /\ \A a, b \in At(n)' : F[a] = F[b] => a = b
                  /\ \A b \in At(n) : (\E a \in At(n)' : F[a] = b) \/ Kept(b).mark = "deleted" \/ b \in lost
  BY DEF Carried, At

\* A name the step is not about keeps what it has.
LEMMA AgreesSame ==
    ASSUME NEW n, AgreesOn(n), At(n)' = At(n),
           \A a \in At(n) : Kept(a)'.pool = Kept(a).pool /\ Kept(a)'.mark = Kept(a).mark,
           On(n)' <=> On(n),
           On(n)' => /\ op'.kind = op.kind
                     /\ IF pc \in {"create", "append"} THEN pc' \in {"create", "append"}
                        ELSE pc' \notin {"create", "append"} /\ op' = op,
           ~ On(n) /\ up' => up /\ Agree(tables', tables, n)
    PROVE  AgreesOn(n)'
<1>1. \A a, b \in At(n)' : a = b
  BY DEF AgreesOn
<1>2. ASSUME ~ On(n)'
      PROVE  /\ \A a \in At(n)' : Kept(a)'.mark = "stored"
             /\ up' => Answers(n)'
  <2>1. ~ On(n)
    BY <1>2
  <2>2. \A a \in At(n)' : Kept(a)'.mark = "stored"
    BY <2>1 DEF AgreesOn
  <2>3. ASSUME up'
        PROVE  Answers(n)'
    <3>1. Answers(n) /\ Agree(tables', tables, n)
      BY <2>1, <2>3 DEF AgreesOn
    <3>2. QED
      BY <3>1 DEF Answers, Agree
  <2>4. QED
    BY <2>2, <2>3
<1>3. CASE On(n)'
  <2>1. CASE pc \in {"create", "append"}
    BY <1>1, <1>3, <2>1 DEF AgreesOn
  <2>2. CASE pc \notin {"create", "append"}
    <3>1. op' = op /\ pc' \notin {"create", "append"}
      BY <1>3, <2>2
    <3>2. QED
      BY <1>1, <1>3, <2>2, <3>1 DEF AgreesOn
  <2>3. QED
    BY <2>1, <2>2
<1>4. QED
  BY <1>1, <1>2, <1>3 DEF AgreesOn

LEMMA AgreesStep ==
    ASSUME Types, Numbering, Settling, Told, Agreeing, Sound(tables), [Next]_vars,
           NEW n \in Names, n \notin tainted'
    PROVE  AgreesOn(n)'
<1>1. /\ TypeOK /\ op \in Statement /\ heap \in 1 .. Heaps /\ pools \in 0 .. MaxPools
      /\ MaxPools \in Nat /\ Pool \subseteq Nat /\ up \in BOOLEAN
      /\ pc # "idle" => op.name \in Names /\ up
      /\ \A a \in Places : Kept(a) \in Scheme
  BY CatalogAssumption, PlacesAre DEF Types, TypeOK, Pool
<1>2. Agree(tables, tables, n)
  BY DEF Agree
<1>3. n \notin tainted => AgreesOn(n)
  BY DEF Agreeing
<1>4. CASE UNCHANGED vars
  <2>1. AgreesOn(n) /\ UNCHANGED <<tablesPool, tables, up, pc, op>>
    BY <1>3, <1>4 DEF vars
  <2>2. On(n)' = On(n)
    BY <2>1 DEF On
  <2>3. QED
    BY <1>2, <2>1, <2>2, AtSame, AgreesSame
<1>5. ASSUME NEW m \in Names, NEW h \in 1 .. Heaps, CreateTable(m, h)
      PROVE  AgreesOn(n)'
  <2>1. /\ UNCHANGED <<tablesPool, tables, up, tainted>> /\ pc = "idle" /\ up
        /\ AgreesOn(n) /\ ~ On(n)
    BY <1>3, <1>5 DEF CreateTable, file, history, On
  <2>2. CASE ~ On(n)'
    BY <1>2, <2>1, <2>2, AtSame, AgreesSame
  <2>3. CASE On(n)'
    <3>1. pc' = "create" /\ op'.kind = "create" /\ ~ map_exists(tables, n)
      BY <1>5, <2>3 DEF CreateTable, Return, On
    <3>2. At(n) = {}
      BY <2>1, <3>1 DEF AgreesOn, Answers
    <3>3. At(n)' = {}
      BY <2>1, <3>2, AtSame
    <3>4. QED
      BY <2>3, <3>1, <3>3 DEF AgreesOn
  <2>4. QED
    BY <2>2, <2>3
<1>6. CASE PoolCreate
  <2>1. /\ UNCHANGED <<tablesPool, tables, up, tainted>> /\ pc = "create" /\ pc' = "append"
        /\ AgreesOn(n) /\ op'.kind = op.kind /\ op'.name = op.name
    BY <1>1, <1>3, <1>6 DEF PoolCreate, history, Statement
  <2>2. On(n)' = On(n)
    BY <2>1 DEF On
  <2>3. QED
    BY <1>2, <2>1, <2>2, AtSame, AgreesSame
<1>7. CASE PoolAppend
  <2> DEFINE s == [name |-> op.name, pool |-> op.pool, mark |-> "added"]
  <2>1. /\ s \in Scheme /\ op.heap \in 1 .. Heaps /\ pc = "append" /\ pc' = "added"
        /\ tablesPool' = [tablesPool EXCEPT ![op.heap] = Append(@, s)]
        /\ UNCHANGED <<tables, up, op, tainted>>
    BY <1>1, <1>7 DEF PoolAppend, FlushPool, Types, Statement, Scheme, Pool, history
  <2>2. PICK a : /\ Places' = Places \cup {a} /\ a \notin Places
                 /\ Kept(a)' = s /\ \A b \in Places : Kept(b)' = Kept(b)
    BY <1>1, <2>1, Appending
  <2>3. Kept(a)'.name = op.name /\ Kept(a)'.pool = op.pool /\ Kept(a)'.mark = "added"
    BY <2>2
  <2> HIDE DEF s
  <2>4. AgreesOn(n) /\ op.kind = "create" /\ op'.kind = "create" /\ (On(n) <=> op.name = n)
        /\ On(n)' = On(n)
    BY <1>3, <2>1 DEF Told, On
  <2>5. CASE op.name = n
    <3>1. At(n) = {}
      BY <2>1, <2>4, <2>5 DEF AgreesOn
    <3>2. At(n)' = {a}
      BY <2>2, <2>3, <2>5, <3>1 DEF At
    <3>3. On(n)' /\ \A b \in At(n)' : Kept(b)'.pool = op'.pool /\ Kept(b)'.mark # "deleted"
      BY <2>1, <2>3, <2>4, <2>5, <3>2
    <3>4. QED
      BY <2>1, <2>4, <3>2, <3>3 DEF AgreesOn
  <2>6. CASE op.name # n
    <3>1. At(n)' = At(n) /\ \A b \in At(n) : Kept(b)' = Kept(b)
      BY <2>2, <2>3, <2>6 DEF At
    <3>2. QED
      BY <1>2, <2>1, <2>4, <2>6, <3>1, AgreesSame
  <2>7. QED
    BY <2>5, <2>6
<1>8. CASE Put
  <2>1. /\ UNCHANGED <<tablesPool, up, tainted>> /\ pc = "put" /\ pc' = "idle"
        /\ tables' = IF op.kind = "create" THEN map_put(tables, op.name, op.pool)
                     ELSE map_remove(tables, op.name)
        /\ AgreesOn(n) /\ ~ On(n)' /\ op.name \in Names /\ up
    BY <1>1, <1>3, <1>8 DEF Put, Return, file, history, On
  <2>2. At(n)' = At(n) /\ \A a : Kept(a)' = Kept(a)
    BY <2>1, AtSame
  <2>3. \A a \in At(n) : Kept(a).mark = "stored"
    BY <2>1 DEF Settling, At
  <2>4. CASE op.name # n
    <3>1. ~ On(n)
      BY <2>4 DEF On
    <3>2. Agree(tables', tables, n)
      <4>1. CASE op.kind = "create"
        <5>1. op.pool \in Pool
          BY <2>1 DEF Told
        <5>2. QED
          BY <2>1, <2>4, <4>1, <5>1, SoundPut
      <4>2. CASE op.kind # "create"
        BY <2>1, <2>4, <4>2, SoundRemove
      <4>3. QED
        BY <4>1, <4>2
    <3>3. QED
      BY <2>1, <2>2, <3>1, <3>2, AgreesSame
  <2>5. CASE op.name = n
    <3>1. On(n)
      BY <2>1, <2>5 DEF On
    <3>2. Answers(n)'
      <4>1. CASE op.kind = "create"
        <5>1. /\ At(n) # {} /\ \A a \in At(n) : Kept(a).pool = op.pool
          BY <2>1, <3>1, <4>1 DEF AgreesOn
        <5>2. op.pool \in Pool
          BY <1>1, <5>1 DEF At, Scheme
        <5>3. map_exists(tables', n) /\ map_get(tables', n) = op.pool
          BY <2>1, <2>5, <4>1, <5>2, SoundPut
        <5>4. QED
          BY <2>2, <5>1, <5>3 DEF Answers
      <4>2. CASE op.kind # "create"
        <5>1. \A a \in At(n) : Kept(a).mark = "deleted"
          BY <2>1, <3>1, <4>2 DEF AgreesOn, Told
        <5>2. At(n) = {}
          BY <2>3, <5>1
        <5>3. ~ map_exists(tables', n)
          BY <2>1, <2>5, <4>2, SoundRemove
        <5>4. QED
          BY <2>2, <5>2, <5>3 DEF Answers
      <4>3. QED
        BY <4>1, <4>2
    <3>3. \A a, b \in At(n)' : a = b
      BY <2>1, <2>2 DEF AgreesOn
    <3>4. QED
      BY <2>1, <2>2, <2>3, <3>2, <3>3 DEF AgreesOn
  <2>6. QED
    BY <2>4, <2>5
<1>9. CASE AppendsDone \/ Flushed
  <2>1. /\ UNCHANGED <<tablesPool, tables, up, op, tainted>> /\ AgreesOn(n)
        /\ pc \in {"added", "deleted"} /\ pc' \in {"added", "deleted", "put"}
    BY <1>3, <1>9 DEF AppendsDone, Flushed, file, history
  <2>2. On(n)' = On(n)
    BY <2>1 DEF On
  <2>3. QED
    BY <1>2, <2>1, <2>2, AtSame, AgreesSame
<1>10. ASSUME NEW m \in Names, DeleteTable(m)
       PROVE  AgreesOn(n)'
  <2>1. /\ pc = "idle" /\ up /\ ~ On(n) /\ AgreesOn(n) /\ UNCHANGED <<tables, up, tainted>>
    BY <1>3, <1>10 DEF DeleteTable, On
  <2>2. CASE Named(m) = {}
    <3>1. UNCHANGED tablesPool /\ pc' = "idle" /\ ~ On(n)'
      BY <1>10, <2>2 DEF DeleteTable, Return, On
    <3>2. QED
      BY <1>2, <2>1, <3>1, AtSame, AgreesSame
  <2>3. CASE Named(m) # {}
    <3>1. PICK a \in Places : a = FirstOf(m) /\ a \in At(m)
      BY <1>1, <2>3, FirstOfIs DEF Named, At
    <3>2. /\ Mark(a, "deleted") /\ pc' = "added"
          /\ op' = [kind |-> "drop", name |-> m, pool |-> Kept(a).pool, heap |-> 1]
      BY <1>10, <2>3, <3>1 DEF DeleteTable, FlushPool
    <3>3. op'.kind = "drop" /\ op'.name = m
      BY <3>2
    <3>4. /\ At(n)' = At(n)
          /\ \A b \in At(n) : /\ Kept(b)'.pool = Kept(b).pool
                              /\ Kept(b)'.mark = IF b = a THEN "deleted" ELSE Kept(b).mark
      BY <1>1, <3>2, AtMarked
    <3>5. CASE m = n
      <4>1. On(n)' /\ \A b \in At(n) : b = a
        BY <2>1, <3>1, <3>2, <3>3, <3>5 DEF On, AgreesOn
      <4>2. \A b \in At(n)' : Kept(b)'.mark = "deleted"
        BY <3>4, <4>1
      <4>3. QED
        BY <3>2, <3>3, <3>4, <4>1, <4>2 DEF AgreesOn
    <3>6. CASE m # n
      <4>1. ~ On(n)' /\ a \notin At(n)
        BY <3>1, <3>3, <3>6 DEF On, At
      <4>2. QED
        BY <1>2, <2>1, <3>4, <4>1, AgreesSame
    <3>7. QED
      BY <3>5, <3>6
  <2>4. QED
    BY <2>2, <2>3
<1>11. CASE CommitAppend
  <2>1. /\ UNCHANGED <<tables, up, pc, op, tainted>> /\ pc = "added" /\ AgreesOn(n)
    BY <1>3, <1>11 DEF CommitAppend
  <2>2. PICK i \in Marked("added") : Mark(<<heap, i>>, "stored")
    BY <1>11 DEF CommitAppend
  <2>3. PICK a \in Places : a = <<heap, i>> /\ Kept(a).mark = "added"
    <3>1. <<heap, i>> \in Places /\ Kept(<<heap, i>>) = tablesPool[heap][i]
      BY <1>1, PlacesAre DEF Marked, Kept
    <3>2. tablesPool[heap][i].mark = "added"
      BY DEF Marked
    <3>3. QED
      BY <3>1, <3>2
  <2>4. /\ At(n)' = At(n)
        /\ \A b \in At(n) : /\ Kept(b)'.pool = Kept(b).pool
                            /\ Kept(b)'.mark = IF b = a THEN "stored" ELSE Kept(b).mark
    BY <1>1, <2>2, <2>3, AtMarked
  <2>5. On(n)' = On(n)
    BY <2>1 DEF On
  <2>6. CASE ~ On(n) \/ op.kind = "drop"
    <3>1. a \notin At(n)
      BY <2>1, <2>3, <2>6 DEF AgreesOn
    <3>2. QED
      BY <1>2, <2>1, <2>4, <2>5, <3>1, AgreesSame
  <2>7. CASE On(n) /\ op.kind = "create"
    <3>1. /\ At(n) # {} /\ \A b \in At(n) : Kept(b).pool = op.pool /\ Kept(b).mark # "deleted"
          /\ \A b, c \in At(n) : b = c
      BY <2>1, <2>7 DEF AgreesOn
    <3>2. At(n)' # {} /\ \A b \in At(n)' : Kept(b)'.pool = op'.pool /\ Kept(b)'.mark # "deleted"
      BY <2>1, <2>4, <3>1
    <3>3. On(n)' /\ op'.kind = "create" /\ pc' = "added" /\ \A b, c \in At(n)' : b = c
      BY <2>1, <2>4, <2>5, <2>7, <3>1
    <3>4. QED
      BY <3>2, <3>3 DEF AgreesOn
  <2>8. QED
    BY <2>1, <2>6, <2>7 DEF Told
<1>12. CASE CommitDelete
  <2>1. tablesPool' = [tablesPool EXCEPT ![heap] =
                         IF TRUE THEN Filled(@) ELSE Front(Trimmed(@))]
    BY <1>12 DEF CommitDelete
  <2>2. PICK F : Carried(F, {})
    BY <1>12, <2>1, Deleting DEF CommitDelete
  <2>3. /\ \A a \in At(n)' : F[a] \in At(n) /\ Kept(a)' = Kept(F[a])
        /\ \A a, b \in At(n)' : F[a] = F[b] => a = b
        /\ \A b \in At(n) : (\E a \in At(n)' : F[a] = b) \/ Kept(b).mark = "deleted"
    BY <2>2, AtCarried
  <2>4. pc = "deleted" /\ UNCHANGED <<pc, op, tables, up, tainted>> /\ AgreesOn(n) /\ On(n)' = On(n)
    BY <1>3, <1>12 DEF CommitDelete, history, On
  <2>5. \A a, b \in At(n)' : a = b
    BY <2>3, <2>4 DEF AgreesOn
  <2>6. CASE ~ On(n)
    <3>1. /\ \A a \in At(n)' : Kept(a)'.mark = "stored"
          /\ At(n)' # {} <=> At(n) # {}
      BY <2>3, <2>4, <2>6 DEF AgreesOn
    <3>2. up => Answers(n)'
      BY <2>3, <2>4, <2>6, <3>1 DEF AgreesOn, Answers
    <3>3. QED
      BY <2>4, <2>5, <2>6, <3>1, <3>2 DEF AgreesOn
  <2>7. CASE On(n) /\ op.kind = "create"
    <3>1. /\ At(n) # {} /\ \A b \in At(n) : Kept(b).pool = op.pool /\ Kept(b).mark # "deleted"
      BY <2>4, <2>7 DEF AgreesOn
    <3>2. At(n)' # {} /\ \A b \in At(n)' : Kept(b)'.pool = op'.pool /\ Kept(b)'.mark # "deleted"
      BY <2>3, <2>4, <3>1
    <3>3. On(n)' /\ op'.kind = "create" /\ pc' = "deleted"
      BY <2>4, <2>7
    <3>4. QED
      BY <2>5, <3>2, <3>3 DEF AgreesOn
  <2>8. CASE On(n) /\ op.kind = "drop"
    <3>1. \A b \in At(n) : Kept(b).mark = "deleted"
      BY <2>4, <2>8 DEF AgreesOn
    <3>2. \A b \in At(n)' : Kept(b)'.mark = "deleted"
      BY <2>3, <3>1
    <3>3. On(n)' /\ op'.kind = "drop" /\ pc' = "deleted"
      BY <2>4, <2>8
    <3>4. QED
      BY <2>5, <3>2, <3>3 DEF AgreesOn
  <2>9. QED
    BY <2>4, <2>6, <2>7, <2>8 DEF Told
<1>13. CASE Fail \/ Kill
  <2>1. pc # "idle" /\ Cut /\ pc' = "idle" /\ (up' => UNCHANGED <<up, tables>>)
    BY <1>13 DEF Fail, Kill, Down, Return
  <2>2. tainted \cup {op.name} \subseteq tainted'
    BY <2>1, Cutting
  <2>3. n \notin tainted /\ ~ On(n) /\ ~ On(n)' /\ AgreesOn(n)
    BY <1>3, <2>1, <2>2 DEF On
  <2>4. CASE UNCHANGED tablesPool
    BY <1>2, <2>1, <2>3, <2>4, AtSame, AgreesSame
  <2>5. CASE \E F, b : b \in Places /\ Carried(F, {b}) /\ Kept(b).name \in tainted'
    <3>1. PICK F, b : b \in Places /\ Carried(F, {b}) /\ Kept(b).name \in tainted'
      BY <2>5
    <3>2. b \notin At(n)
      BY <3>1 DEF At
    <3>3. /\ \A a \in At(n)' : F[a] \in At(n) /\ Kept(a)' = Kept(F[a])
          /\ \A a, c \in At(n)' : F[a] = F[c] => a = c
          /\ \A c \in At(n) : (\E a \in At(n)' : F[a] = c) \/ Kept(c).mark = "deleted" \/ c \in {b}
      BY <3>1, AtCarried
    <3>4. \A a, c \in At(n)' : a = c
      BY <2>3, <3>3 DEF AgreesOn
    <3>5. /\ \A a \in At(n)' : Kept(a)'.mark = "stored"
          /\ At(n)' # {} <=> At(n) # {}
      BY <2>3, <3>2, <3>3 DEF AgreesOn
    <3>6. up' => Answers(n)'
      BY <2>1, <2>3, <3>3, <3>5 DEF AgreesOn, Answers
    <3>7. QED
      BY <2>3, <3>4, <3>5, <3>6 DEF AgreesOn
  <2>6. QED
    BY <2>1, <2>4, <2>5, Cutting
<1>14. CASE Stop
  <2>1. UNCHANGED <<tablesPool, tainted>> /\ pc = "idle" /\ pc' = "idle" /\ ~ up'
    BY <1>14 DEF Stop, Down, Return, file, history
  <2>2. AgreesOn(n) /\ ~ On(n) /\ ~ On(n)'
    BY <1>3, <2>1 DEF On
  <2>3. QED
    BY <2>1, <2>2, AtSame, AgreesSame
<1>15. CASE Open
  <2>1. UNCHANGED <<tablesPool, pc, op, tainted>> /\ pc = "idle" /\ tables' = LoadTables(tablesPool)
    BY <1>1, <1>15 DEF Open, file, history, Types
  <2>2. AgreesOn(n) /\ ~ On(n) /\ ~ On(n)' /\ At(n)' = At(n) /\ \A a : Kept(a)' = Kept(a)
    BY <1>3, <2>1, AtSame DEF On
  <2>3. PICK m : m = LoadTables(tablesPool)
    OBVIOUS
  <2>4. tablesPool \in [1 .. Heaps -> Seq(Scheme)]
    BY <1>1 DEF TypeOK
  <2>5. /\ map_exists(m, n) <=> \E h \in 1 .. Heaps : \E j \in 1 .. Len(tablesPool[h]) :
                                   tablesPool[h][j].name = n /\ tablesPool[h][j].mark # "added"
        /\ map_exists(m, n) => \E h \in 1 .. Heaps : \E j \in 1 .. Len(tablesPool[h]) :
                                  /\ tablesPool[h][j].name = n /\ tablesPool[h][j].mark # "added"
                                  /\ tablesPool[h][j].pool = map_get(m, n)
    <3>1. PICK t \in [1 .. Heaps -> Seq(Scheme)] : t = tablesPool
      BY <2>4
    <3>2. /\ Sound(LoadTables(t))
          /\ \A x \in Names :
                /\ map_exists(LoadTables(t), x)
                      <=> \E h \in 1 .. Heaps : \E j \in 1 .. Len(t[h]) :
                             t[h][j].name = x /\ t[h][j].mark # "added"
                /\ map_exists(LoadTables(t), x) =>
                      \E h \in 1 .. Heaps : \E j \in 1 .. Len(t[h]) :
                         /\ t[h][j].name = x /\ t[h][j].mark # "added"
                         /\ t[h][j].pool = map_get(LoadTables(t), x)
      BY Loads
    <3>3. QED
      BY <2>3, <3>1, <3>2
  <2>6. /\ \A a \in At(n) : /\ a[1] \in 1 .. Heaps /\ a[2] \in 1 .. Len(tablesPool[a[1]])
                            /\ tablesPool[a[1]][a[2]].name = n /\ Kept(a) = tablesPool[a[1]][a[2]]
        /\ \A h \in 1 .. Heaps : \A j \in 1 .. Len(tablesPool[h]) : tablesPool[h][j].name = n =>
              <<h, j>> \in At(n) /\ Kept(<<h, j>>) = tablesPool[h][j]
    BY <1>1, PlacesAre DEF At, Kept
  <2>7. \A a \in At(n) : Kept(a).mark = "stored" /\ \A b \in At(n) : a = b
    BY <2>2 DEF AgreesOn
  <2>8. map_exists(m, n) <=> At(n) # {}
    <3>1. ASSUME map_exists(m, n)
          PROVE  At(n) # {}
      <4>1. PICK h \in 1 .. Heaps : \E j \in 1 .. Len(tablesPool[h]) : tablesPool[h][j].name = n
        BY <2>5, <3>1
      <4>2. PICK j \in 1 .. Len(tablesPool[h]) : tablesPool[h][j].name = n
        BY <4>1
      <4>3. QED
        BY <2>6, <4>2
    <3>2. ASSUME NEW a \in At(n)
          PROVE  map_exists(m, n)
      <4>1. PICK h, j : h = a[1] /\ j = a[2]
        OBVIOUS
      <4>2. /\ h \in 1 .. Heaps /\ j \in 1 .. Len(tablesPool[h])
            /\ tablesPool[h][j].name = n /\ tablesPool[h][j].mark # "added"
        BY <2>6, <2>7, <4>1
      <4>3. QED
        BY <2>5, <4>2
    <3>3. QED
      BY <3>1, <3>2
  <2>9. ASSUME map_exists(m, n), NEW a \in At(n)
        PROVE  Kept(a).pool = map_get(m, n)
    <3>1. PICK h \in 1 .. Heaps : \E j \in 1 .. Len(tablesPool[h]) :
                                     /\ tablesPool[h][j].name = n
                                     /\ tablesPool[h][j].pool = map_get(m, n)
      BY <2>5, <2>9
    <3>2. PICK j \in 1 .. Len(tablesPool[h]) : /\ tablesPool[h][j].name = n
                                               /\ tablesPool[h][j].pool = map_get(m, n)
      BY <3>1
    <3>3. <<h, j>> \in At(n) /\ Kept(<<h, j>>) = tablesPool[h][j]
      BY <2>6, <3>2
    <3>4. a = <<h, j>>
      BY <2>7, <3>3
    <3>5. QED
      BY <3>2, <3>3, <3>4
  <2>10. Answers(n)'
    BY <2>1, <2>2, <2>3, <2>8, <2>9 DEF Answers
  <2>11. QED
    BY <2>2, <2>7, <2>10 DEF AgreesOn
<1>16. CASE OpenClear
  <2>1. /\ UNCHANGED <<pc, op>> /\ pc = "idle"
        /\ tablesPool' = [h \in 1 .. Heaps |-> <<>>] /\ tables' = LoadTables(tablesPool')
    BY <1>1, <1>16 DEF OpenClear, Types
  <2>2. PICK t, m : t = [h \in 1 .. Heaps |-> <<>>] /\ m = LoadTables(t)
    OBVIOUS
  <2>3. t \in [1 .. Heaps -> Seq(Scheme)] /\ \A h \in 1 .. Heaps : Len(t[h]) = 0
    BY <2>2, EmptySeq
  <2>4. ~ map_exists(m, n)
    <3>1. /\ Sound(LoadTables(t))
          /\ \A x \in Names :
                /\ map_exists(LoadTables(t), x)
                      <=> \E h \in 1 .. Heaps : \E j \in 1 .. Len(t[h]) :
                             t[h][j].name = x /\ t[h][j].mark # "added"
                /\ map_exists(LoadTables(t), x) =>
                      \E h \in 1 .. Heaps : \E j \in 1 .. Len(t[h]) :
                         /\ t[h][j].name = x /\ t[h][j].mark # "added"
                         /\ t[h][j].pool = map_get(LoadTables(t), x)
      BY <2>3, Loads
    <3>2. SUFFICES ASSUME map_exists(m, n)
                   PROVE  FALSE
      OBVIOUS
    <3>3. \E h \in 1 .. Heaps : \E j \in 1 .. Len(t[h]) : t[h][j].name = n
      BY <2>2, <3>1, <3>2
    <3>4. PICK h \in 1 .. Heaps : \E j \in 1 .. Len(t[h]) : t[h][j].name = n
      BY <3>3
    <3>5. 1 .. Len(t[h]) = {}
      BY <2>3
    <3>6. QED
      BY <3>4, <3>5
  <2>5. At(n)' = {} /\ ~ On(n)'
    BY <2>1 DEF At, Places, On
  <2>6. ~ map_exists(tables', n)
    BY <2>1, <2>2, <2>4
  <2>7. Answers(n)'
    BY <2>5, <2>6 DEF Answers
  <2>8. QED
    BY <2>5, <2>7 DEF AgreesOn
<1>17. QED
  BY <1>4, <1>5, <1>6, <1>7, <1>8, <1>9, <1>10, <1>11, <1>12, <1>13, <1>14, <1>15, <1>16 DEF Next

LEMMA ToldStep ==
    ASSUME Types, Told, [Next]_vars
    PROVE  Told'
<1>1. /\ TypeOK /\ op \in Statement /\ pools \in 0 .. MaxPools /\ MaxPools \in Nat
      /\ Pool = 1 .. MaxPools
      /\ \A a \in Places : Kept(a) \in Scheme
  BY CatalogAssumption, PlacesAre DEF Types, TypeOK, Pool
<1>2. CASE pc' = "idle"
  BY <1>2 DEF Told
<1>3. CASE UNCHANGED <<tables, op>> /\ pc # "idle" /\ pc' \notin {"idle", "create", "append"}
           /\ pc # "create"
  BY <1>3 DEF Told
<1>4. CASE UNCHANGED vars
  BY <1>4 DEF vars, Told
<1>5. ASSUME NEW m \in Names, NEW h \in 1 .. Heaps, CreateTable(m, h), pc' # "idle"
      PROVE  Told'
  <2>1. /\ pc' = "create" /\ ~ map_exists(tables, m) /\ UNCHANGED tables
        /\ op'.kind = "create" /\ op'.name = m
    BY <1>5 DEF CreateTable, Return
  <2>2. QED
    BY <2>1 DEF Told
<1>6. CASE PoolCreate
  <2>1. /\ pc = "create" /\ pc' = "append" /\ UNCHANGED tables /\ pools < MaxPools
        /\ op'.kind = op.kind /\ op'.name = op.name /\ op'.pool = pools + 1
    BY <1>1, <1>6 DEF PoolCreate, Statement, Types
  <2>2. op'.pool \in Pool
    BY <1>1, <2>1
  <2>3. QED
    BY <2>1, <2>2 DEF Told
<1>7. CASE PoolAppend \/ CommitAppend \/ AppendsDone \/ CommitDelete
  BY <1>3, <1>7 DEF PoolAppend, FlushPool, CommitAppend, AppendsDone, CommitDelete
<1>8. CASE Flushed
  BY <1>3, <1>8 DEF Flushed
<1>9. ASSUME NEW m \in Names, DeleteTable(m), pc' # "idle"
      PROVE  Told'
  <2>1. Named(m) # {}
    BY <1>9 DEF DeleteTable, Return
  <2>2. PICK a \in Places : a = FirstOf(m)
    BY <1>1, <2>1, FirstOfIs DEF Named
  <2>3. pc' = "added" /\ op' = [kind |-> "drop", name |-> m, pool |-> Kept(a).pool, heap |-> 1]
    BY <1>9, <2>1, <2>2 DEF DeleteTable, FlushPool
  <2>4. Kept(a).pool \in Pool
    BY <1>1 DEF Scheme
  <2>5. op'.kind = "drop" /\ op'.pool \in Pool
    BY <2>3, <2>4
  <2>6. QED
    BY <2>3, <2>5 DEF Told
<1>10. CASE Open \/ OpenClear
  <2>1. pc' = "idle"
    BY <1>10 DEF Open, OpenClear, Types
  <2>2. QED
    BY <1>2, <2>1
<1>11. CASE Put \/ Fail \/ Kill \/ Stop
  BY <1>2, <1>11 DEF Put, Fail, Kill, Stop, Down, Return
<1>12. QED
  BY <1>2, <1>4, <1>5, <1>6, <1>7, <1>8, <1>9, <1>10, <1>11 DEF Next

LEMMA SoundStep ==
    ASSUME Types, Told, Sound(tables), [Next]_vars
    PROVE  Sound(tables')
<1>1. CASE UNCHANGED tables
  BY <1>1
<1>2. CASE Put
  <2>1. /\ op.name \in Names /\ op.pool \in Pool
        /\ tables' = IF op.kind = "create" THEN map_put(tables, op.name, op.pool)
                     ELSE map_remove(tables, op.name)
    BY <1>2 DEF Put, Types, Told
  <2>2. CASE op.kind = "create"
    BY <2>1, <2>2, SoundPut
  <2>3. CASE op.kind # "create"
    BY <2>1, <2>3, SoundRemove
  <2>4. QED
    BY <2>2, <2>3
<1>3. CASE tables' = EmptyMap
  BY <1>3, SoundEmpty
<1>4. CASE Open
  <2>1. tables' = LoadTables(tablesPool) /\ tablesPool \in [1 .. Heaps -> Seq(Scheme)]
    BY <1>4 DEF Open, Types, TypeOK
  <2>2. PICK t \in [1 .. Heaps -> Seq(Scheme)] : t = tablesPool
    BY <2>1
  <2>3. Sound(LoadTables(t))
    BY Loads
  <2>4. QED
    BY <2>1, <2>2, <2>3
<1>5. CASE OpenClear
  <2>1. tables' = LoadTables(tablesPool') /\ tablesPool' = [h \in 1 .. Heaps |-> <<>>]
    BY <1>5 DEF OpenClear
  <2>2. PICK t \in [1 .. Heaps -> Seq(Scheme)] : t = [h \in 1 .. Heaps |-> <<>>]
    BY EmptySeq
  <2>3. Sound(LoadTables(t))
    BY Loads
  <2>4. QED
    BY <2>1, <2>2, <2>3
<1>6. QED
  BY <1>1, <1>2, <1>3, <1>4, <1>5
     DEF Next, vars, CreateTable, PoolCreate, PoolAppend, DeleteTable, CommitAppend, AppendsDone,
         CommitDelete, Flushed, Fail, Kill, Stop, Down

-----------------------------------------------------------------------------
(***************************************************************************)
(* Copies of a name                                                        *)
(***************************************************************************)
LEMMA CopiesKept ==
    ASSUME TypeOK, NEW n, CopiesOn(n), cuts' = cuts, Live(n)' \subseteq Live(n),
           ~ Making(n)' /\ Spare(n)' => (~ Making(n) /\ Spare(n)) \/ Live(n)' = {}
    PROVE  CopiesOn(n)'
<1>1. cuts \in Nat /\ cuts + 1 \in Nat /\ Live(n) \subseteq Pool
  BY CatalogAssumption DEF TypeOK, Live
<1>2. Cardinality(Live(n)') <= cuts + 1
  BY <1>1, Costs DEF CopiesOn
<1>3. ASSUME ~ Making(n)', Spare(n)'
      PROVE  Cardinality(Live(n)') <= cuts
  <2>1. CASE ~ Making(n) /\ Spare(n)
    BY <1>1, <2>1, Costs DEF CopiesOn
  <2>2. CASE Live(n)' = {}
    BY <1>1, <2>2, FS_EmptySet
  <2>3. QED
    BY <1>3, <2>1, <2>2
<1>4. QED
  BY <1>2, <1>3 DEF CopiesOn

LEMMA LiveSame ==
    ASSUME NEW n, At(n)' = At(n),
           \A a \in At(n) : /\ Kept(a)'.pool = Kept(a).pool
                            /\ Kept(a).mark = "deleted" => Kept(a)'.mark = "deleted"
    PROVE  Live(n)' \subseteq Live(n)
  BY DEF Live

LEMMA CopiesStep ==
    ASSUME Types, Numbering, Settling, Told, Sound(tables), Copied, [Next]_vars, NEW n \in Names
    PROVE  CopiesOn(n)'
<1>1. /\ TypeOK /\ op \in Statement /\ heap \in 1 .. Heaps /\ cuts \in Nat
      /\ Pool \subseteq Nat /\ up \in BOOLEAN /\ CopiesOn(n)
      /\ pc # "idle" => op.name \in Names /\ up
      /\ \A a \in Places : Kept(a) \in Scheme
  BY CatalogAssumption, PlacesAre DEF Types, TypeOK, Pool, Copied
<1>2. CASE UNCHANGED <<tablesPool, cuts>>
           /\ (~ Making(n)' /\ Spare(n)' => (~ Making(n) /\ Spare(n)) \/ Live(n)' = {})
  <2>1. Live(n)' \subseteq Live(n)
    BY <1>2, AtSame, LiveSame
  <2>2. QED
    BY <1>1, <1>2, <2>1, CopiesKept
<1>3. CASE UNCHANGED vars
  <2>1. At(n)' = At(n) /\ \A a : Kept(a)' = Kept(a)
    BY <1>3, AtSame DEF vars
  <2>2. (Making(n)' <=> Making(n)) /\ (Spare(n)' <=> Spare(n))
    BY <1>3, <2>1 DEF vars, Making, Spare, On
  <2>3. QED
    BY <1>2, <1>3, <2>2 DEF vars
<1>4. ASSUME NEW m \in Names, NEW h \in 1 .. Heaps, CreateTable(m, h)
      PROVE  CopiesOn(n)'
  <2>1. /\ UNCHANGED <<tablesPool, tables, up, cuts>> /\ pc = "idle"
        /\ pc' = "idle" \/ (pc' = "create" /\ op'.kind = "create")
    BY <1>4 DEF CreateTable, Return, file, history
  <2>2. At(n)' = At(n) /\ \A a : Kept(a)' = Kept(a)
    BY <2>1, AtSame
  <2>3. ~ Making(n) /\ (Spare(n)' => Spare(n))
    BY <2>1, <2>2 DEF Making, Spare, On
  <2>4. QED
    BY <1>2, <2>1, <2>3
<1>5. CASE PoolCreate
  <2>1. /\ UNCHANGED <<tablesPool, tables, up, cuts>> /\ pc = "create" /\ pc' = "append"
        /\ op'.kind = op.kind /\ op'.name = op.name
    BY <1>1, <1>5 DEF PoolCreate, history, Statement
  <2>2. At(n)' = At(n) /\ \A a : Kept(a)' = Kept(a)
    BY <2>1, AtSame
  <2>3. ~ Making(n) /\ (Spare(n)' => Spare(n))
    BY <2>1, <2>2 DEF Making, Spare, On
  <2>4. QED
    BY <1>2, <2>1, <2>3
<1>6. CASE AppendsDone \/ Flushed
  <2>1. /\ UNCHANGED <<tablesPool, tables, up, op, cuts>>
        /\ pc \in {"added", "deleted"} /\ pc' \in {"added", "deleted", "put"}
    BY <1>6 DEF AppendsDone, Flushed, file, history
  <2>2. At(n)' = At(n) /\ \A a : Kept(a)' = Kept(a)
    BY <2>1, AtSame
  <2>3. (Making(n)' <=> Making(n)) /\ (Spare(n)' => Spare(n))
    BY <2>1, <2>2 DEF Making, Spare, On
  <2>4. QED
    BY <1>2, <2>1, <2>3
<1>7. CASE PoolAppend
  <2> DEFINE s == [name |-> op.name, pool |-> op.pool, mark |-> "added"]
  <2>1. /\ s \in Scheme /\ op.heap \in 1 .. Heaps /\ pc = "append" /\ pc' = "added"
        /\ tablesPool' = [tablesPool EXCEPT ![op.heap] = Append(@, s)]
        /\ UNCHANGED <<tables, up, op, cuts>>
    BY <1>1, <1>7 DEF PoolAppend, FlushPool, Types, Statement, Scheme, Pool, history
  <2>2. PICK a : /\ Places' = Places \cup {a} /\ a \notin Places
                 /\ Kept(a)' = s /\ \A b \in Places : Kept(b)' = Kept(b)
    BY <1>1, <2>1, Appending
  <2>3. Kept(a)'.name = op.name /\ Kept(a)'.pool = op.pool /\ Kept(a)'.mark = "added"
    BY <2>2
  <2> HIDE DEF s
  <2>4. op.kind = "create" /\ op'.kind = "create" /\ ~ map_exists(tables, op.name) /\ up /\ ~ Making(n)
    BY <1>1, <2>1 DEF Told, Making
  <2>5. CASE op.name = n
    <3>1. Spare(n)
      BY <2>4, <2>5 DEF Spare
    <3>2. Cardinality(Live(n)) <= cuts /\ Live(n) \subseteq Pool
      BY <1>1, <2>4, <3>1 DEF CopiesOn, Live
    <3>3. At(n)' = At(n) \cup {a} /\ \A b \in At(n) : Kept(b)' = Kept(b)
      BY <2>2, <2>3, <2>5 DEF At
    <3>4. PICK p : p = op.pool
      OBVIOUS
    <3>5. Live(n)' \subseteq Live(n) \cup {p}
      BY <2>3, <3>3, <3>4 DEF Live
    <3>6. Cardinality(Live(n)') <= cuts + 1
      BY <1>1, <3>2, <3>5, Costs
    <3>7. Making(n)'
      BY <2>1, <2>4, <2>5 DEF Making, On
    <3>8. QED
      BY <2>1, <3>6, <3>7 DEF CopiesOn
  <2>6. CASE op.name # n
    <3>1. At(n)' = At(n) /\ \A b \in At(n) : Kept(b)' = Kept(b)
      BY <2>2, <2>3, <2>6 DEF At
    <3>2. Live(n)' \subseteq Live(n)
      BY <3>1, LiveSame
    <3>3. Spare(n)' => Spare(n)
      BY <2>1, <2>4, <3>1 DEF Spare, On
    <3>4. QED
      BY <1>1, <2>1, <2>4, <3>2, <3>3, CopiesKept
  <2>7. QED
    BY <2>5, <2>6
<1>8. CASE Put
  <2>1. /\ UNCHANGED <<tablesPool, up, cuts>> /\ pc = "put" /\ pc' = "idle"
        /\ tables' = IF op.kind = "create" THEN map_put(tables, op.name, op.pool)
                     ELSE map_remove(tables, op.name)
        /\ op.name \in Names /\ op.pool \in Pool /\ op.kind \in {"create", "drop"}
    BY <1>1, <1>8 DEF Put, Return, file, history, Told
  <2>2. At(n)' = At(n) /\ \A a : Kept(a)' = Kept(a)
    BY <2>1, AtSame
  <2>3. \A a \in At(n) : Kept(a).mark = "stored"
    BY <2>1 DEF Settling, At
  <2>4. (\A a \in At(n) : Kept(a).mark # "stored") => Live(n)' = {}
    BY <2>2, <2>3 DEF Live
  <2>5. CASE op.name # n
    <3>1. Agree(tables', tables, n)
      BY <2>1, <2>5, SoundPut, SoundRemove
    <3>2. Spare(n)' => Spare(n)
      BY <2>1, <2>2, <3>1 DEF Spare, Agree, On
    <3>3. ~ Making(n)
      BY <2>5 DEF Making, On
    <3>4. QED
      BY <1>2, <2>1, <3>2, <3>3
  <2>6. CASE op.name = n /\ op.kind = "create"
    <3>1. map_exists(tables', n)
      BY <2>1, <2>6, SoundPut
    <3>2. Spare(n)' => Live(n)' = {}
      BY <2>1, <2>2, <2>3, <2>4, <3>1 DEF Spare, On
    <3>3. QED
      BY <1>2, <2>1, <3>2
  <2>7. CASE op.name = n /\ op.kind = "drop"
    <3>1. ~ Making(n) /\ Spare(n)
      BY <2>1, <2>7 DEF Making, Spare, On
    <3>2. QED
      BY <1>2, <2>1, <3>1
  <2>8. QED
    BY <2>1, <2>5, <2>6, <2>7
<1>9. ASSUME NEW m \in Names, DeleteTable(m)
      PROVE  CopiesOn(n)'
  <2>1. /\ pc = "idle" /\ UNCHANGED <<tables, up, cuts>> /\ ~ Making(n)
    BY <1>9 DEF DeleteTable, Making, On
  <2>2. CASE Named(m) = {}
    <3>1. UNCHANGED tablesPool /\ pc' = "idle"
      BY <1>9, <2>2 DEF DeleteTable, Return
    <3>2. Spare(n)' => Spare(n)
      BY <2>1, <3>1, AtSame DEF Spare, On
    <3>3. QED
      BY <1>2, <2>1, <3>1, <3>2
  <2>3. CASE Named(m) # {}
    <3>1. PICK a \in Places : a = FirstOf(m) /\ a \in At(m) /\ Kept(a).mark \in {"stored", "deleted"}
      BY <1>1, <2>3, FirstOfIs DEF Named, At, Scheme
    <3>2. /\ Mark(a, "deleted") /\ pc' = "added"
          /\ op' = [kind |-> "drop", name |-> m, pool |-> Kept(a).pool, heap |-> 1]
      BY <1>9, <2>3, <3>1 DEF DeleteTable, FlushPool
    <3>3. op'.kind = "drop" /\ op'.name = m
      BY <3>2
    <3>4. /\ At(n)' = At(n)
          /\ \A b \in At(n) : /\ Kept(b)'.pool = Kept(b).pool
                              /\ Kept(b)'.mark = IF b = a THEN "deleted" ELSE Kept(b).mark
      BY <1>1, <3>2, AtMarked
    <3>5. Live(n)' \subseteq Live(n)
      BY <3>4, LiveSame
    <3>6. CASE m # n
      <4>1. a \notin At(n) /\ ~ On(n)'
        BY <3>1, <3>3, <3>6 DEF At, On
      <4>2. Spare(n)' => Spare(n)
        BY <2>1, <3>4, <4>1 DEF Spare
      <4>3. QED
        BY <1>1, <2>1, <3>5, <4>2, CopiesKept
    <3>7. CASE m = n /\ Kept(a).mark = "deleted"
      <4>1. Spare(n)
        BY <3>1, <3>7 DEF Spare
      <4>2. QED
        BY <1>1, <2>1, <3>5, <4>1, CopiesKept
    <3>8. CASE m = n /\ Kept(a).mark = "stored"
      <4>1. PICK p : p = Kept(a).pool
        OBVIOUS
      <4>2. p \in Live(n)
        BY <1>1, <3>1, <3>8, <4>1 DEF Live, Scheme
      <4>3. p \notin Live(n)'
        <5>1. \A b \in At(n) : Kept(b).pool = p => b = a
          BY <4>1 DEF Numbering, At
        <5>2. QED
          BY <3>4, <5>1 DEF Live
      <4>4. PICK S, T : S = Live(n) /\ T = Live(n)'
        OBVIOUS
      <4>5. T \subseteq S \ {p} /\ p \in S /\ S \subseteq Pool /\ Cardinality(S) <= cuts + 1
        BY <1>1, <3>5, <4>2, <4>3, <4>4 DEF CopiesOn, Live
      <4>6. IsFiniteSet(S) /\ Cardinality(S) \in Nat
        <5>1. IsFiniteSet(Pool)
          BY CatalogAssumption, FS_Interval DEF Pool
        <5>2. QED
          BY <4>5, <5>1, FS_Subset, FS_CardinalityType
      <4>7. IsFiniteSet(S \ {p}) /\ Cardinality(S \ {p}) = Cardinality(S) - 1
        BY <4>5, <4>6, FS_RemoveElement
      <4>8. Cardinality(T) <= Cardinality(S \ {p}) /\ Cardinality(T) \in Nat
        BY <4>5, <4>7, FS_Subset, FS_CardinalityType
      <4>9. Cardinality(T) <= cuts
        BY <1>1, <4>5, <4>6, <4>7, <4>8
      <4>10. Cardinality(Live(n)') <= cuts /\ Cardinality(Live(n)') <= cuts + 1
        BY <1>1, <4>4, <4>8, <4>9
      <4>11. QED
        BY <2>1, <4>10 DEF CopiesOn
    <3>9. QED
      BY <3>1, <3>6, <3>7, <3>8
  <2>4. QED
    BY <2>2, <2>3
<1>10. CASE CommitAppend
  <2>1. /\ UNCHANGED <<tables, up, pc, op, cuts>>
    BY <1>10 DEF CommitAppend
  <2>2. PICK i \in Marked("added") : Mark(<<heap, i>>, "stored")
    BY <1>10 DEF CommitAppend
  <2>3. PICK a \in Places : a = <<heap, i>> /\ Kept(a).mark = "added"
    <3>1. <<heap, i>> \in Places /\ Kept(<<heap, i>>) = tablesPool[heap][i]
      BY <1>1, PlacesAre DEF Marked, Kept
    <3>2. tablesPool[heap][i].mark = "added"
      BY DEF Marked
    <3>3. QED
      BY <3>1, <3>2
  <2>4. /\ At(n)' = At(n)
        /\ \A b \in At(n) : /\ Kept(b)'.pool = Kept(b).pool
                            /\ Kept(b)'.mark = IF b = a THEN "stored" ELSE Kept(b).mark
    BY <1>1, <2>2, <2>3, AtMarked
  <2>5. Live(n)' \subseteq Live(n)
    <3>1. \A b \in At(n) : Kept(b).mark = "deleted" => Kept(b)'.mark = "deleted"
      BY <2>3, <2>4
    <3>2. QED
      BY <2>4, <3>1, LiveSame
  <2>6. (Making(n)' <=> Making(n)) /\ (Spare(n)' => Spare(n))
    BY <2>1, <2>3, <2>4 DEF Making, Spare, On
  <2>7. QED
    BY <1>1, <2>1, <2>5, <2>6, CopiesKept
<1>11. ASSUME NEW F, NEW lost, Carried(F, lost)
       PROVE  Live(n)' \subseteq Live(n)
  <2>1. \A a \in At(n)' : F[a] \in At(n) /\ Kept(a)' = Kept(F[a])
    BY <1>11, AtCarried
  <2>2. QED
    BY <2>1 DEF Live
<1>12. CASE CommitDelete
  <2>1. tablesPool' = [tablesPool EXCEPT ![heap] =
                         IF TRUE THEN Filled(@) ELSE Front(Trimmed(@))]
    BY <1>12 DEF CommitDelete
  <2>2. PICK F : Carried(F, {})
    BY <1>12, <2>1, Deleting DEF CommitDelete
  <2>3. /\ \A a \in At(n)' : F[a] \in At(n) /\ Kept(a)' = Kept(F[a])
        /\ \A b \in At(n) : (\E a \in At(n)' : F[a] = b) \/ Kept(b).mark = "deleted"
    BY <2>2, AtCarried
  <2>4. UNCHANGED <<pc, op, tables, up, cuts>>
    BY <1>12 DEF CommitDelete, history
  <2>5. (Making(n)' <=> Making(n)) /\ (Spare(n)' => Spare(n))
    BY <2>3, <2>4 DEF Making, Spare, On
  <2>6. QED
    BY <1>1, <1>11, <2>2, <2>4, <2>5, CopiesKept
<1>13. CASE Fail \/ Kill
  <2>1. pc # "idle" /\ Cut
    BY <1>13 DEF Fail, Kill
  <2>2. cuts' = cuts + 1 /\ (UNCHANGED tablesPool \/ \E F, b : Carried(F, {b}))
    BY <2>1, Cutting
  <2>3. Live(n)' \subseteq Live(n)
    <3>1. CASE UNCHANGED tablesPool
      BY <3>1, AtSame, LiveSame
    <3>2. CASE \E F, b : Carried(F, {b})
      BY <1>11, <3>2
    <3>3. QED
      BY <2>2, <3>1, <3>2
  <2>4. cuts + 1 \in Nat /\ Live(n) \subseteq Pool /\ Cardinality(Live(n)) <= cuts + 1
    BY <1>1 DEF CopiesOn, Live
  <2>5. Cardinality(Live(n)') <= cuts + 1 /\ Cardinality(Live(n)') <= (cuts + 1) + 1
    <3>1. PICK k \in Nat : k = cuts + 1 /\ k + 1 \in Nat
      BY <2>4
    <3>2. Cardinality(Live(n)') <= k
      BY <2>3, <2>4, <3>1, Costs
    <3>3. Cardinality(Live(n)) <= k + 1
      <4>1. IsFiniteSet(Live(n)) /\ Cardinality(Live(n)) \in Nat
        <5>1. IsFiniteSet(Pool)
          BY CatalogAssumption, FS_Interval DEF Pool
        <5>2. QED
          BY <2>4, <5>1, FS_Subset, FS_CardinalityType
      <4>2. QED
        BY <2>4, <3>1, <4>1
    <3>4. Cardinality(Live(n)') <= k + 1
      BY <2>3, <2>4, <3>1, <3>3, Costs
    <3>5. QED
      BY <3>1, <3>2, <3>4
  <2>6. QED
    BY <2>2, <2>5 DEF CopiesOn
<1>14. CASE Stop
  <2>1. UNCHANGED <<tablesPool, cuts>> /\ pc = "idle" /\ pc' = "idle" /\ ~ up'
    BY <1>14 DEF Stop, Down, Return, file, history
  <2>2. ~ Making(n) /\ (Spare(n)' => Spare(n))
    BY <2>1, AtSame DEF Making, Spare, On
  <2>3. QED
    BY <1>2, <2>1, <2>2
<1>15. CASE Open
  <2>1. UNCHANGED <<tablesPool, pc, op, cuts>> /\ pc = "idle" /\ tables' = LoadTables(tablesPool)
    BY <1>1, <1>15 DEF Open, file, history, Types
  <2>2. PICK t \in [1 .. Heaps -> Seq(Scheme)] : t = tablesPool
    BY <1>1 DEF TypeOK
  <2>3. /\ Sound(LoadTables(t))
        /\ \A x \in Names :
              /\ map_exists(LoadTables(t), x)
                    <=> \E h \in 1 .. Heaps : \E j \in 1 .. Len(t[h]) :
                           t[h][j].name = x /\ t[h][j].mark # "added"
              /\ map_exists(LoadTables(t), x) =>
                    \E h \in 1 .. Heaps : \E j \in 1 .. Len(t[h]) :
                       /\ t[h][j].name = x /\ t[h][j].mark # "added"
                       /\ t[h][j].pool = map_get(LoadTables(t), x)
    BY Loads
  <2>4. ASSUME ~ map_exists(tables', n)
        PROVE  \A a \in At(n) : Kept(a).mark # "stored"
    <3> SUFFICES ASSUME NEW a \in At(n), Kept(a).mark = "stored"
                 PROVE  FALSE
      OBVIOUS
    <3>1. PICK h, j : h = a[1] /\ j = a[2]
      OBVIOUS
    <3>2. h \in 1 .. Heaps /\ j \in 1 .. Len(t[h]) /\ Kept(a) = t[h][j] /\ Kept(a).name = n
      BY <1>1, <2>2, <3>1, PlacesAre DEF At, Kept
    <3>3. map_exists(LoadTables(t), n)
      BY <2>3, <3>2
    <3>4. QED
      BY <2>1, <2>2, <2>4, <3>3
  <2>5. At(n)' = At(n) /\ \A a : Kept(a)' = Kept(a)
    BY <2>1, AtSame
  <2>6. ~ Making(n) /\ (Spare(n)' => Spare(n))
    BY <2>1, <2>4, <2>5 DEF Making, Spare, On
  <2>7. QED
    BY <1>2, <2>1, <2>6
<1>16. CASE OpenClear
  <2>1. tablesPool' = [h \in 1 .. Heaps |-> <<>>] /\ cuts' = cuts
    BY <1>16 DEF OpenClear
  <2>2. Live(n)' = {}
    BY <2>1 DEF Live, At, Places
  <2>3. Cardinality(Live(n)') = 0
    BY <2>2, FS_EmptySet
  <2>4. QED
    BY <1>1, <2>1, <2>3 DEF CopiesOn
<1>17. QED
  BY <1>3, <1>4, <1>5, <1>6, <1>7, <1>8, <1>9, <1>10, <1>12, <1>13, <1>14, <1>15, <1>16 DEF Next

\* The invariant of the catalog.
THEOREM Invariance == Spec => []IInv
<1>1. Init => IInv
  <2> SUFFICES ASSUME Init
               PROVE  IInv
    OBVIOUS
  <2>1. Places = {} /\ pc = "idle"
    BY DEF Init, Places
  <2>2. LostTables = {} /\ Orphans = {} /\ cuts = 0
    BY CatalogAssumption DEF Init, LostTables, Orphans, Pool
  <2>3. Types /\ Numbering /\ Settling /\ Bounded
    BY <2>1, <2>2, TypesInit, FS_EmptySet DEF Numbering, Settling, Bounded
  <2>4. tables = EmptyMap
    BY DEF Init
  <2>5. Sound(tables) /\ \A n \in Names : ~ map_exists(tables, n)
    BY <2>4, SoundEmpty
  <2>6. \A n : At(n) = {} /\ Live(n) = {}
    BY <2>1 DEF At, Live
  <2>7. Agreeing
    BY <2>1, <2>5, <2>6 DEF Agreeing, Told, AgreesOn, On, Answers
  <2>8. Copied
    BY <2>2, <2>6, FS_EmptySet DEF Copied, CopiesOn
  <2>9. QED
    BY <2>3, <2>5, <2>7, <2>8 DEF IInv
<1>2. IInv /\ [Next]_vars => IInv'
  <2> SUFFICES ASSUME IInv, [Next]_vars
               PROVE  IInv'
    OBVIOUS
  <2>1. /\ Types /\ Numbering /\ Settling /\ Bounded /\ Sound(tables) /\ Agreeing /\ Copied
        /\ Told
    BY DEF IInv, Agreeing
  <2>2. Types' /\ Numbering' /\ Settling' /\ Bounded'
    BY <2>1, TypesStep, NumberingStep, SettlingStep, BoundedStep
  <2>3. Told' /\ Sound(tables')
    BY <2>1, ToldStep, SoundStep
  <2>4. \A n \in Names : CopiesOn(n)'
    BY <2>1, CopiesStep
  <2>5. \A n \in Names : n \notin tainted' => AgreesOn(n)'
    BY <2>1, AgreesStep
  <2>6. Agreeing' /\ Copied'
    BY <2>3, <2>4, <2>5 DEF Agreeing, Copied
  <2>7. QED
    BY <2>2, <2>3, <2>6 DEF IInv
<1>3. QED
  BY <1>1, <1>2, PTL DEF Spec

\* The flush of a CREATE or DROP commits what is in every heap of the pool
\* (pool_flush): when the answer is DB_OK no scheme is left half created or half
\* dropped, by this statement or by one that failed before it.
THEOREM Settled == Spec => OkSettles
<1>1. IInv /\ [Next]_vars => [said' = "DB_OK" /\ pc # "idle" => \A s \in Schemes' : s.mark = "stored"]_vars
  <2> SUFFICES ASSUME IInv, Next, said' = "DB_OK", pc # "idle", NEW s \in Schemes'
               PROVE  s.mark = "stored"
    OBVIOUS
  <2>1. Put
    BY DEF IInv, Settling, Types, Next, CreateTable, PoolCreate, PoolAppend, DeleteTable, CommitAppend,
           AppendsDone, CommitDelete, Flushed, Fail, Kill, Stop, Down, Return, Open, OpenClear
  <2>2. TypeOK /\ UNCHANGED tablesPool /\ \A a \in Places : Kept(a).mark = "stored"
    BY <2>1 DEF Put, file, IInv, Types, Settling
  <2>3. s \in Schemes
    BY <2>2 DEF Schemes
  <2>4. QED
    BY <2>2, <2>3, PlacesAre
<1>2. QED
  BY <1>1, Invariance, PTL DEF Spec, OkSettles

\* However often a CREATE or DROP fails or is killed, at any step: no pool has two
\* schemes in the file, and each kill or failure loses the scheme of one table at
\* most, the one heap_record_fill is moving.
THEOREM SchemesAreKept == Spec => []SchemesKept
<1>1. IInv => SchemesKept
  <2> SUFFICES ASSUME IInv
               PROVE  SchemesKept
    OBVIOUS
  <2>1. ASSUME NEW p \in Pool
        PROVE  Cardinality({a \in Places : Kept(a).pool = p}) <= 1
    <3>1. CASE {a \in Places : Kept(a).pool = p} = {}
      BY <3>1, FS_EmptySet
    <3>2. CASE {a \in Places : Kept(a).pool = p} # {}
      <4>1. PICK a : {b \in Places : Kept(b).pool = p} = {a}
        BY <3>2 DEF IInv, Numbering
      <4>2. Cardinality({a}) = 1
        BY FS_Singleton
      <4>3. QED
        BY <4>1, <4>2
    <3>3. QED
      BY <3>1, <3>2
  <2>2. {p \in Pool : fate[p] = "table" /\ \A s \in Schemes : s.pool # p} = LostTables
    BY PlacesAre DEF IInv, Types, LostTables, Nameless
  <2>3. QED
    BY <2>1, <2>2 DEF SchemesKept, IInv, Bounded
<1>2. QED
  BY <1>1, Invariance, PTL

\* A pool no scheme names is the one of a table that was dropped, or of a CREATE or
\* a move that was cut short, one for each kill or failure.
THEOREM PoolsAreAccounted == Spec => []PoolsAccounted
<1>1. IInv => PoolsAccounted
  <2> SUFFICES ASSUME IInv, pc = "idle"
               PROVE  Cardinality({p \in 1 .. pools : /\ fate[p] # "dropped"
                                                      /\ \A s \in Schemes : s.pool # p}) <= cuts
    BY DEF PoolsAccounted
  <2>1. pools \in 0 .. MaxPools /\ MaxPools \in Nat /\ TypeOK
    BY CatalogAssumption DEF IInv, Types, TypeOK
  <2>2. {p \in 1 .. pools : fate[p] # "dropped" /\ \A s \in Schemes : s.pool # p} = Orphans
    BY <2>1, PlacesAre DEF Orphans, Nameless, Coming, Pool
  <2>3. QED
    BY <2>2 DEF IInv, Bounded
<1>2. QED
  BY <1>1, Invariance, PTL

\* However the puts, removals and resizes of the hash map (util/map/map.c) follow
\* each other, every bucket is a list linked both ways, of entries that hash to it,
\* and no key is in it twice.
THEOREM MapIsSound == Spec => []MapSound
<1>1. IInv => MapSound
  <2> SUFFICES ASSUME IInv
               PROVE  MapSound
    OBVIOUS
  <2>1. PICK P : Represents(tables, P)
    BY DEF IInv, Sound
  <2>2. WellHashed(tables)
    BY <2>1, MapIsWellHashed
  <2>3. QED
    BY <2>2 DEF MapSound, IInv, Types
<1>2. QED
  BY <1>1, Invariance, PTL

\* Between two statements a lookup in the map (MAP_EXISTS, MAP_GET) says of every name
\* that no failure or kill has touched what the one scheme of that name in the file
\* says, and that scheme is stored.
THEOREM MapAndFileAgree == Spec => []MapAgrees
<1>1. IInv => MapAgrees
  <2> SUFFICES ASSUME IInv, up, pc = "idle", NEW n \in Names \ tainted
               PROVE  {<<s.pool, s.mark>> : s \in Of(n)} =
                         IF map_exists(tables, n) THEN {<<map_get(tables, n), "stored">>} ELSE {}
    BY DEF MapAgrees
  <2>1. AgreesOn(n) /\ ~ On(n) /\ TypeOK
    BY DEF IInv, Agreeing, On, Types
  <2>2. /\ \A a, b \in At(n) : a = b
        /\ \A a \in At(n) : Kept(a).mark = "stored"
        /\ Answers(n)
    BY <2>1 DEF AgreesOn
  <2>3. \A s : s \in Of(n) <=> \E a \in At(n) : Kept(a) = s
    BY <2>1, PlacesAre DEF Of, At
  <2>4. CASE At(n) = {}
    <3>1. Of(n) = {} /\ ~ map_exists(tables, n)
      BY <2>2, <2>3, <2>4 DEF Answers
    <3>2. QED
      BY <3>1
  <2>5. CASE At(n) # {}
    <3>1. PICK a : At(n) = {a}
      BY <2>2, <2>5
    <3>2. Of(n) = {Kept(a)}
      BY <2>3, <3>1
    <3>3. /\ map_exists(tables, n) /\ Kept(a).pool = map_get(tables, n)
          /\ Kept(a).mark = "stored"
      BY <2>2, <2>5, <3>1 DEF Answers
    <3>4. QED
      BY <3>2, <3>3
  <2>6. QED
    BY <2>4, <2>5
<1>2. QED
  BY <1>1, Invariance, PTL

\* CREATE TABLE repeated after a failure (DatabaseCreateTable) adds a second scheme of
\* a name the map does not know: one for each kill or failure, and no more.
THEOREM CopiesAreCounted == Spec => []Copies
<1>1. IInv => Copies
  <2> SUFFICES ASSUME IInv, NEW n \in Names
               PROVE  Cardinality({s \in Of(n) : s.mark # "deleted"}) <= cuts + 1
    BY DEF Copies
  <2> DEFINE S == {s \in Of(n) : s.mark # "deleted"}
             f == [p \in Live(n) |-> CHOOSE s \in S : s.pool = p]
  <2>1. TypeOK /\ Numbering /\ Cardinality(Live(n)) <= cuts + 1
    BY DEF IInv, Types, Copied, CopiesOn
  <2>2. \A a \in Places : Kept(a).pool \in Pool
    BY <2>1, PlacesAre DEF Scheme
  <2>3. \A s : s \in S <=> \E a \in At(n) : Kept(a) = s /\ Kept(a).mark # "deleted"
    BY <2>1, PlacesAre DEF Of, At
  <2>4. \A s, t \in S : s.pool = t.pool => s = t
    BY <2>1, <2>3 DEF Numbering, At
  <2>5. \A s \in S : s.pool \in Live(n)
    BY <2>2, <2>3 DEF Live, At
  <2>6. \A p \in Live(n) : \E s \in S : s.pool = p
    BY <2>3 DEF Live
  <2> HIDE DEF S
  <2>7. \A p \in Live(n) : f[p] \in S /\ f[p].pool = p
    BY <2>6
  <2> HIDE DEF f
  <2>8. IsFiniteSet(Live(n))
    <3>1. IsFiniteSet(Pool)
      BY CatalogAssumption, FS_Interval DEF Pool
    <3>2. QED
      BY <3>1, FS_Subset DEF Live
  <2>9. f \in [Live(n) -> S]
    <3>1. f = [p \in Live(n) |-> f[p]]
      BY DEF f
    <3>2. QED
      BY <2>7, <3>1
  <2>10. \A s \in S : \E p \in Live(n) : f[p] = s
    BY <2>4, <2>5, <2>7
  <2>11. Cardinality(S) = Cardinality(Live(n))
    <3>1. \A p, q \in Live(n) : f[p] = f[q] => p = q
      BY <2>7
    <3>2. QED
      BY <2>8, <2>9, <2>10, <3>1, AsMany
  <2>12. QED
    BY <2>1, <2>11 DEF S
<1>2. QED
  BY <1>1, Invariance, PTL
-----------------------------------------------------------------------------
(***************************************************************************)
(* Folds.  A fold is a recursive function on sets of indexes; with pick    *)
(* it takes the next index from a set.                                     *)
(***************************************************************************)
IsFold(g, n, base, step, pick) ==
    \A s \in SUBSET (1 .. n) :
       g[s] = IF s = {} THEN base ELSE step[pick[s]][g[s \ {pick[s]}]]

\* A set of numbers with what precedes a number has all of them.
LEMMA Climb ==
  ASSUME NEW n \in Nat, NEW T, 0 \in T, \A i \in 1 .. n : i - 1 \in T => i \in T
  PROVE  \A i \in 0 .. n : i \in T
<1> SUFFICES ASSUME NEW i \in 0 .. n, i \notin T PROVE FALSE
  OBVIOUS
<1> DEFINE M == {j \in 0 .. n : j \notin T}
<1>1. M \subseteq Nat /\ M # {}
  OBVIOUS
<1>2. PICK j \in M : \A k \in M : j <= k
  <2> HIDE DEF M
  <2> QED BY <1>1, LeastNat
<1>3. j # 0 /\ j \in 1 .. n
  BY <1>2
<1>4. j - 1 \notin M /\ j - 1 \in 0 .. n
  BY <1>2, <1>3
<1> QED BY <1>2, <1>3, <1>4

LEMMA FoldExists ==
  ASSUME NEW n \in Nat, NEW A, NEW base \in A, NEW step \in [1 .. n -> [A -> A]],
         NEW pick, \A s \in SUBSET (1 .. n) : s # {} => pick[s] \in s
  PROVE  \E g \in [SUBSET (1 .. n) -> A] : IsFold(g, n, base, step, pick)
<1> DEFINE Upto(m) == {s \in SUBSET (1 .. n) : Cardinality(s) <= m}
           Good(m) == \E g \in [Upto(m) -> A] : \A s \in Upto(m) :
              g[s] = IF s = {} THEN base ELSE step[pick[s]][g[s \ {pick[s]}]]
           T == {m \in Nat : Good(m)}
<1>0. /\ IsFiniteSet(1 .. n) /\ Cardinality(1 .. n) = n
      /\ \A s \in SUBSET (1 .. n) :
            IsFiniteSet(s) /\ Cardinality(s) \in Nat /\ Cardinality(s) <= n
  <2>1. IsFiniteSet(1 .. n) /\ Cardinality(1 .. n) = IF 1 > n THEN 0 ELSE n - 1 + 1
    BY FS_Interval
  <2>2. Cardinality(1 .. n) = n
    BY <2>1
  <2>3. ASSUME NEW s \in SUBSET (1 .. n)
        PROVE  IsFiniteSet(s) /\ Cardinality(s) \in Nat /\ Cardinality(s) <= n
    <3>1. IsFiniteSet(s) /\ Cardinality(s) <= Cardinality(1 .. n)
      BY <2>1, FS_Subset
    <3> QED BY <2>2, <3>1, FS_CardinalityType
  <2> QED BY <2>1, <2>2, <2>3
<1>1. 0 \in T
  <2> DEFINE g == [s \in Upto(0) |-> base]
  <2>1. \A s \in Upto(0) : s = {}
    BY <1>0, FS_EmptySet
  <2>2. g \in [Upto(0) -> A] /\ \A s \in Upto(0) : g[s] = base
    OBVIOUS
  <2>3. Good(0)
    <3> HIDE DEF g
    <3> QED BY <2>1, <2>2
  <2> QED BY <2>3
<1>2. ASSUME NEW m \in 1 .. n, m - 1 \in T PROVE m \in T
  <2>1. PICK g \in [Upto(m - 1) -> A] : \A s \in Upto(m - 1) :
              g[s] = IF s = {} THEN base ELSE step[pick[s]][g[s \ {pick[s]}]]
    BY <1>2
  <2> DEFINE f == [s \in Upto(m) |-> IF s \in Upto(m - 1) THEN g[s]
                                     ELSE step[pick[s]][g[s \ {pick[s]}]]]
  <2>2. ASSUME NEW s \in Upto(m), s # {}
        PROVE  s \ {pick[s]} \in Upto(m - 1) /\ pick[s] \in 1 .. n
    <3>1. pick[s] \in s /\ s \in SUBSET (1 .. n) /\ IsFiniteSet(s) /\ Cardinality(s) \in Nat
          /\ Cardinality(s) <= m
      BY <1>0, <2>2
    <3>2. Cardinality(s \ {pick[s]}) = Cardinality(s) - 1
      BY <3>1, FS_RemoveElement
    <3>3. Cardinality(s) - 1 <= m - 1
      BY <3>1
    <3> QED BY <3>1, <3>2, <3>3
  <2>3. \A s \in Upto(m - 1) : s \in Upto(m)
    BY <1>0
  <2>4. {} \in Upto(m - 1)
    BY FS_EmptySet
  <2> HIDE DEF Upto
  <2>5. f \in [Upto(m) -> A]
    <3>1. ASSUME NEW s \in Upto(m) PROVE f[s] \in A
      <4>1. CASE s \in Upto(m - 1)
        BY <4>1
      <4>2. CASE s \notin Upto(m - 1)
        <5>1. s \ {pick[s]} \in Upto(m - 1) /\ pick[s] \in 1 .. n
          BY <2>2, <2>4, <4>2
        <5>2. g[s \ {pick[s]}] \in A /\ step[pick[s]] \in [A -> A]
          BY <5>1
        <5>3. step[pick[s]][g[s \ {pick[s]}]] \in A
          BY <5>2
        <5> QED BY <4>2, <5>3
      <4> QED BY <4>1, <4>2
    <3> QED BY <3>1
  <2>6. \A s \in Upto(m - 1) : f[s] = g[s]
    BY <2>3
  <2>7. ASSUME NEW s \in Upto(m)
        PROVE  f[s] = IF s = {} THEN base ELSE step[pick[s]][f[s \ {pick[s]}]]
    <3>1. CASE s = {}
      BY <2>1, <2>4, <2>6, <3>1
    <3>2. CASE s # {}
      <4>1. f[s \ {pick[s]}] = g[s \ {pick[s]}]
        BY <2>2, <2>6, <3>2
      <4>2. f[s] = step[pick[s]][g[s \ {pick[s]}]]
        <5>1. CASE s \in Upto(m - 1)
          BY <2>1, <2>6, <3>2, <5>1
        <5>2. CASE s \notin Upto(m - 1)
          BY <5>2
        <5> QED BY <5>1, <5>2
      <4> QED BY <3>2, <4>1, <4>2
    <3> QED BY <3>1, <3>2
  <2> HIDE DEF f
  <2>8. Good(m)
    BY <2>5, <2>7
  <2> HIDE DEF Good
  <2> QED BY <2>8
<1>3. Good(n)
  <2> HIDE DEF T
  <2>1. \A i \in 0 .. n : i \in T
    BY <1>1, <1>2, Climb
  <2>2. n \in 0 .. n
    OBVIOUS
  <2>3. n \in T
    BY <2>1, <2>2
  <2> QED BY <2>3 DEF T
<1>4. Upto(n) = SUBSET (1 .. n)
  BY <1>0
<1> HIDE DEF Upto
<1> QED BY <1>3, <1>4 DEF IsFold

\* A fold from the first to the last, and one from the last to the first.
Upward(r, n, base, step) == r[0] = base /\ \A i \in 1 .. n : r[i] = step[i][r[i - 1]]
Downward(r, n, base, step) == r[n + 1] = base /\ \A i \in 1 .. n : r[i] = step[i][r[i + 1]]
UpFold(g, n, base, step) ==
    \A s \in SUBSET (1 .. n) : g[s] = IF s = {} THEN base ELSE step[Max(s)][g[s \ {Max(s)}]]
DownFold(g, n, base, step) ==
    \A s \in SUBSET (1 .. n) : g[s] = IF s = {} THEN base ELSE step[Min(s)][g[s \ {Min(s)}]]

LEMMA Ends ==
  ASSUME NEW n \in Nat
  PROVE  /\ \A s \in SUBSET (1 .. n) : s # {} =>
               /\ Max(s) \in s /\ \A x \in s : x <= Max(s)
               /\ Min(s) \in s /\ \A x \in s : Min(s) <= x
         /\ \A i \in 1 .. n : Max(1 .. i) = i /\ Min(i .. n) = i
<1>1. ASSUME NEW s \in SUBSET (1 .. n), s # {}
      PROVE  /\ Min(s) \in s /\ \A x \in s : Min(s) <= x
             /\ Max(s) \in s /\ \A x \in s : x <= Max(s)
  <2>0. s \subseteq Nat
    OBVIOUS
  <2>1. \E x \in s : \A y \in s : x <= y
    BY <1>1, <2>0, LeastNat
  <2>2. Min(s) \in s /\ \A x \in s : Min(s) <= x
    BY <2>1 DEF Min
  <2> DEFINE D == {n - x : x \in s}
  <2>3. D \subseteq Nat /\ D # {}
    <3>1. \A x \in s : x \in Nat /\ n - x \in Nat
      OBVIOUS
    <3> QED BY <1>1, <3>1
  <2>4. PICK d \in D : \A e \in D : d <= e
    <3> HIDE DEF D
    <3> QED BY <2>3, LeastNat
  <2>5. PICK x \in s : d = n - x
    BY <2>4
  <2>6. \A y \in s : x >= y
    <3>1. \A y \in s : n - y \in D
      OBVIOUS
    <3>2. \A y \in s : n - x <= n - y
      BY <2>4, <2>5, <3>1
    <3>3. \A y \in s : y \in Nat
      BY <2>0
    <3> HIDE DEF D
    <3> QED BY <3>2, <3>3
  <2>7. Max(s) \in s /\ \A y \in s : Max(s) >= y
    BY <2>5, <2>6 DEF Max
  <2> QED BY <2>2, <2>7
<1>2. ASSUME NEW i \in 1 .. n PROVE Max(1 .. i) = i /\ Min(i .. n) = i
  <2>1. 1 .. i \in SUBSET (1 .. n) /\ i .. n \in SUBSET (1 .. n) /\ i \in 1 .. i /\ i \in i .. n
    OBVIOUS
  <2>2. Max(1 .. i) \in 1 .. i /\ i <= Max(1 .. i) /\ Min(i .. n) \in i .. n /\ Min(i .. n) <= i
    BY <1>1, <2>1
  <2> QED BY <2>2
<1> QED BY <1>1, <1>2

Grows(h, n, A, step) ==
    \A s \in SUBSET (1 .. n) :
       s # {} /\ h[s \ {Max(s)}] \in A => h[s] = step[Max(s)][h[s \ {Max(s)}]]
Shrinks(h, n, A, step) ==
    \A s \in SUBSET (1 .. n) :
       s # {} /\ h[s \ {Min(s)}] \in A => h[s] = step[Min(s)][h[s \ {Min(s)}]]

UpChain(h, n, A, base, step) ==
    \E r \in [0 .. n -> A] : r[n] = h[1 .. n] /\ Upward(r, n, base, step)
DownChain(h, n, A, base, step) ==
    \E r \in [1 .. n + 1 -> A] : r[1] = h[1 .. n] /\ Downward(r, n, base, step)

LEMMA FoldUp ==
  ASSUME NEW n \in Nat, NEW A, NEW base \in A, NEW step \in [1 .. n -> [A -> A]], NEW h,
         h[{}] = base, Grows(h, n, A, step)
  PROVE  UpChain(h, n, A, base, step)
<1> DEFINE r == [i \in 0 .. n |-> h[1 .. i]]
           T == {i \in 0 .. n : r[i] \in A}
<1>1. r[0] = base
  <2>1. 1 .. 0 = {} /\ 0 \in 0 .. n
    OBVIOUS
  <2> QED BY <2>1
<1>2. ASSUME NEW i \in 1 .. n, r[i - 1] \in A PROVE r[i] = step[i][r[i - 1]] /\ r[i] \in A
  <2>1. /\ 1 .. i \in SUBSET (1 .. n) /\ 1 .. i # {} /\ (1 .. i) \ {i} = 1 .. i - 1
        /\ i \in 0 .. n /\ i - 1 \in 0 .. n
    OBVIOUS
  <2>2. Max(1 .. i) = i
    BY Ends
  <2>3. r[i] = h[1 .. i] /\ r[i - 1] = h[1 .. i - 1]
    BY <2>1
  <2>4. r[i] = step[i][r[i - 1]]
    BY <1>2, <2>1, <2>2, <2>3 DEF Grows
  <2> QED BY <1>2, <2>4
<1>3. \A i \in 0 .. n : r[i] \in A
  <2>1. 0 \in T
    BY <1>1
  <2>2. ASSUME NEW i \in 1 .. n, i - 1 \in T PROVE i \in T
    <3>1. r[i - 1] \in A
      BY <2>2
    <3> HIDE DEF r
    <3>2. r[i] \in A /\ i \in 0 .. n
      BY <1>2, <3>1
    <3> QED BY <3>2
  <2>3. \A i \in 0 .. n : i \in T
    <3> HIDE DEF T
    <3> QED BY <2>1, <2>2, Climb
  <2> HIDE DEF r
  <2> QED BY <2>3
<1>4. r \in [0 .. n -> A] /\ r[n] = h[1 .. n]
  BY <1>3
<1>5. \A i \in 1 .. n : r[i] = step[i][r[i - 1]]
  <2>1. \A i \in 1 .. n : i - 1 \in 0 .. n
    OBVIOUS
  <2> HIDE DEF r
  <2> QED BY <1>2, <1>3, <2>1
<1> HIDE DEF r
<1> QED BY <1>1, <1>4, <1>5 DEF Upward, UpChain

\* A fold from the last to the first.
LEMMA FoldDown ==
  ASSUME NEW n \in Nat, NEW A, NEW base \in A, NEW step \in [1 .. n -> [A -> A]], NEW h,
         h[{}] = base, Shrinks(h, n, A, step)
  PROVE  DownChain(h, n, A, base, step)
<1> DEFINE r == [i \in 1 .. n + 1 |-> h[i .. n]]
           T == {i \in 0 .. n : r[n + 1 - i] \in A}
<1>1. r[n + 1] = base
  <2>1. n + 1 .. n = {} /\ n + 1 \in 1 .. n + 1
    OBVIOUS
  <2> QED BY <2>1
<1>2. ASSUME NEW i \in 1 .. n, r[i + 1] \in A PROVE r[i] = step[i][r[i + 1]] /\ r[i] \in A
  <2>1. /\ i .. n \in SUBSET (1 .. n) /\ i .. n # {} /\ (i .. n) \ {i} = i + 1 .. n
        /\ i \in 1 .. n + 1 /\ i + 1 \in 1 .. n + 1
    <3>1. i \in i .. n /\ \A x \in i .. n : x \in 1 .. n
      OBVIOUS
    <3>2. \A x : x \in (i .. n) \ {i} <=> x \in i + 1 .. n
      OBVIOUS
    <3>3. (i .. n) \ {i} = i + 1 .. n
      BY <3>2
    <3>4. i \in 1 .. n + 1 /\ i + 1 \in 1 .. n + 1
      OBVIOUS
    <3>5. i .. n \in SUBSET (1 .. n) /\ i .. n # {}
      BY <3>1
    <3> QED BY <3>3, <3>4, <3>5
  <2>2. Min(i .. n) = i
    BY Ends
  <2>3. r[i] = h[i .. n] /\ r[i + 1] = h[i + 1 .. n]
    BY <2>1
  <2>4. r[i] = step[i][r[i + 1]]
    BY <1>2, <2>1, <2>2, <2>3 DEF Shrinks
  <2> QED BY <1>2, <2>4
<1>3. \A i \in 1 .. n + 1 : r[i] \in A
  <2>1. 0 \in T
    <3>1. n + 1 - 0 = n + 1 /\ 0 \in 0 .. n
      OBVIOUS
    <3> QED BY <1>1, <3>1
  <2>2. ASSUME NEW i \in 1 .. n, i - 1 \in T PROVE i \in T
    <3>1. /\ n + 1 - i \in 1 .. n /\ (n + 1 - i) + 1 = n + 1 - (i - 1) /\ i \in 0 .. n
      OBVIOUS
    <3>2. r[n + 1 - (i - 1)] \in A
      BY <2>2
    <3> HIDE DEF r
    <3>3. r[n + 1 - i] \in A
      BY <1>2, <3>1, <3>2
    <3> QED BY <3>1, <3>3
  <2>3. \A i \in 0 .. n : i \in T
    <3> HIDE DEF T
    <3> QED BY <2>1, <2>2, Climb
  <2> HIDE DEF r
  <2>4. ASSUME NEW i \in 1 .. n + 1 PROVE r[i] \in A
    <3>1. n + 1 - i \in 0 .. n /\ n + 1 - (n + 1 - i) = i
      OBVIOUS
    <3>2. r[n + 1 - (n + 1 - i)] \in A
      BY <2>3, <3>1
    <3> QED BY <3>1, <3>2
  <2> QED BY <2>4
<1>4. r \in [1 .. n + 1 -> A] /\ r[1] = h[1 .. n]
  BY <1>3
<1>5. \A i \in 1 .. n : r[i] = step[i][r[i + 1]]
  <2>1. \A i \in 1 .. n : i + 1 \in 1 .. n + 1
    OBVIOUS
  <2> HIDE DEF r
  <2> QED BY <1>2, <1>3, <2>1
<1> HIDE DEF r
<1> QED BY <1>1, <1>4, <1>5 DEF Downward, DownChain

LEMMA FoldsExist ==
  ASSUME NEW n \in Nat, NEW A, NEW base \in A, NEW step \in [1 .. n -> [A -> A]]
  PROVE  /\ \E g \in [SUBSET (1 .. n) -> A] : UpFold(g, n, base, step)
         /\ \E g \in [SUBSET (1 .. n) -> A] : DownFold(g, n, base, step)
<1> DEFINE last == [s \in SUBSET (1 .. n) |-> Max(s)]
           first == [s \in SUBSET (1 .. n) |-> Min(s)]
<1>1. /\ \A s \in SUBSET (1 .. n) : last[s] = Max(s) /\ first[s] = Min(s)
      /\ \A s \in SUBSET (1 .. n) : s # {} => last[s] \in s
      /\ \A s \in SUBSET (1 .. n) : s # {} => first[s] \in s
  BY Ends
<1> HIDE DEF last, first
<1>2. PICK g \in [SUBSET (1 .. n) -> A] : IsFold(g, n, base, step, last)
  BY <1>1, FoldExists
<1>3. PICK h \in [SUBSET (1 .. n) -> A] : IsFold(h, n, base, step, first)
  BY <1>1, FoldExists
<1>4. UpFold(g, n, base, step)
  BY <1>1, <1>2 DEF IsFold, UpFold
<1>5. DownFold(h, n, base, step)
  BY <1>1, <1>3 DEF IsFold, DownFold
<1> QED BY <1>4, <1>5

-----------------------------------------------------------------------------
Byte == {k \in Int : 0 <= k /\ k <= 255}
LEMMA DivMod ==
  \A k \in Int : k \div 256 \in Int /\ k % 256 \in Byte /\ k = 256 * (k \div 256) + (k % 256)
BY DEF Byte

Part == [left : Int, bytes : Seq(Byte)]
BytePart(p) == [left |-> p.left \div 256, bytes |-> Append(p.bytes, p.left % 256)]
BytesFold(n, width, h) ==
    [s \in SUBSET DOMAIN [i \in 1 .. width |-> i] |->
       IF s = {} THEN [left |-> n, bytes |-> <<>>] ELSE BytePart(h[s \ {Max(s)}])]

LEMMA BytesUnfold ==
  ASSUME NEW n, NEW width, NEW g, g = BytesFold(n, width, g)
  PROVE  \E h : h = BytesFold(n, width, h) /\ Bytes(n, width) = h[DOMAIN [i \in 1 .. width |-> i]].bytes
<1> DEFINE f == CHOOSE h : h = BytesFold(n, width, h)
<1>1. f = BytesFold(n, width, f)
  <2> HIDE DEF BytesFold
  <2> QED OBVIOUS
<1>2. Bytes(n, width) = f[DOMAIN [i \in 1 .. width |-> i]].bytes
  BY DEF Bytes, FoldLeft, MapThenFoldSet, BytesFold, BytePart
<1> HIDE DEF f
<1> QED BY <1>1, <1>2

LEMMA BytesAre ==
  ASSUME NEW n \in Int, NEW width \in Nat
  PROVE  \E r \in [0 .. width -> Part] :
            /\ r[0] = [left |-> n, bytes |-> <<>>] /\ Bytes(n, width) = r[width].bytes
            /\ \A i \in 1 .. width : r[i] = BytePart(r[i - 1])
<1> DEFINE base == [left |-> n, bytes |-> <<>>]
           step == [i \in 1 .. width |-> [p \in Part |-> BytePart(p)]]
<1>1. base \in Part
  BY DEF Part
<1>2. ASSUME NEW p \in Part PROVE BytePart(p) \in Part
  <2>1. p.left \div 256 \in Int /\ p.left % 256 \in Byte
    BY DivMod DEF Part
  <2>2. Append(p.bytes, p.left % 256) \in Seq(Byte)
    BY <2>1 DEF Part
  <2> QED BY <2>1, <2>2 DEF Part, BytePart
<1>3. step \in [1 .. width -> [Part -> Part]]
  BY <1>2
<1>4. \A i \in 1 .. width : \A p \in Part : step[i][p] = BytePart(p)
  OBVIOUS
<1> HIDE DEF base, step
<1>5. DOMAIN [i \in 1 .. width |-> i] = 1 .. width
  OBVIOUS
<1>6. PICK g \in [SUBSET (1 .. width) -> Part] : UpFold(g, width, base, step)
  BY <1>1, <1>3, FoldsExist
<1>7. g = BytesFold(n, width, g)
  <2>1. ASSUME NEW s \in SUBSET (1 .. width)
        PROVE  g[s] = IF s = {} THEN base ELSE BytePart(g[s \ {Max(s)}])
    <3>1. CASE s = {}
      BY <1>6, <3>1 DEF UpFold
    <3>2. CASE s # {}
      <4>1. Max(s) \in 1 .. width /\ s \ {Max(s)} \in SUBSET (1 .. width)
        BY <3>2, Ends
      <4>2. g[s] = step[Max(s)][g[s \ {Max(s)}]]
        BY <1>6, <3>2 DEF UpFold
      <4> QED BY <1>4, <3>2, <4>1, <4>2
    <3> QED BY <3>1, <3>2
  <2> QED BY <1>5, <2>1 DEF BytesFold, base
<1>8. PICK h : h = BytesFold(n, width, h) /\ Bytes(n, width) = h[1 .. width].bytes
  BY <1>5, <1>7, BytesUnfold
<1>9. h[{}] = base /\ \A s \in SUBSET (1 .. width) : s # {} => h[s] = BytePart(h[s \ {Max(s)}])
  BY <1>5, <1>8 DEF BytesFold, base
<1>10. Grows(h, width, Part, step)
  <2>1. \A s \in SUBSET (1 .. width) : s # {} => Max(s) \in 1 .. width
    BY Ends
  <2>2. ASSUME NEW s \in SUBSET (1 .. width), s # {}, h[s \ {Max(s)}] \in Part
        PROVE  h[s] = step[Max(s)][h[s \ {Max(s)}]]
    BY <2>2, <1>4, <1>9, <2>1
  <2> QED BY <2>2 DEF Grows
<1>11. PICK r \in [0 .. width -> Part] :
            r[width] = h[1 .. width] /\ Upward(r, width, base, step)
  <2>1. UpChain(h, width, Part, base, step)
    BY <1>1, <1>3, <1>9, <1>10, FoldUp
  <2> QED BY <2>1 DEF UpChain
<1>12. \A i \in 1 .. width : r[i] = BytePart(r[i - 1])
  <2>1. \A i \in 1 .. width : r[i - 1] \in Part
    OBVIOUS
  <2> QED BY <1>4, <1>11, <2>1 DEF Upward
<1> QED BY <1>8, <1>11, <1>12 DEF base, Upward

LEMMA Appended ==
  ASSUME NEW a \in Seq(Byte), NEW x \in Byte
  PROVE  /\ Len(Append(a, x)) = Len(a) + 1 /\ Append(a, x)[Len(a) + 1] = x
         /\ \A i \in 1 .. Len(a) : Append(a, x)[i] = a[i]
OBVIOUS

\* Bytes takes a number apart from its low end; what is left is shifted.
Digits(n, width, l) ==
    /\ l[0] = n /\ \A i \in 1 .. width : l[i] = l[i - 1] \div 256
    /\ Bytes(n, width) \in Seq(Byte) /\ Len(Bytes(n, width)) = width
    /\ \A i \in 1 .. width : Bytes(n, width)[i] = l[i - 1] % 256
LEMMA BytesDigits ==
  ASSUME NEW n \in Int, NEW width \in Nat
  PROVE  \E l \in [0 .. width -> Int] : Digits(n, width, l)
<1>1. PICK r \in [0 .. width -> Part] :
            /\ r[0] = [left |-> n, bytes |-> <<>>] /\ Bytes(n, width) = r[width].bytes
            /\ \A i \in 1 .. width : r[i] = BytePart(r[i - 1])
  BY BytesAre
<1> DEFINE l == [i \in 0 .. width |-> r[i].left]
           T == {i \in 0 .. width : Len(r[i].bytes) = i /\
                    \A j \in 1 .. i : r[i].bytes[j] = r[j - 1].left % 256}
<1>2. \A i \in 0 .. width : r[i].left \in Int /\ r[i].bytes \in Seq(Byte)
  BY DEF Part
<1>3. \A i \in 1 .. width : /\ i - 1 \in 0 .. width /\ i \in 0 .. width
                            /\ r[i].left = r[i - 1].left \div 256
                            /\ r[i].bytes = Append(r[i - 1].bytes, r[i - 1].left % 256)
  <2>1. \A i \in 1 .. width : i - 1 \in 0 .. width /\ i \in 0 .. width
    OBVIOUS
  <2>2. \A i \in 1 .. width : /\ r[i].left = r[i - 1].left \div 256
                              /\ r[i].bytes = Append(r[i - 1].bytes, r[i - 1].left % 256)
    <3>1. \A p : /\ BytePart(p).left = p.left \div 256
                 /\ BytePart(p).bytes = Append(p.bytes, p.left % 256)
      BY DEF BytePart
    <3> QED BY <1>1, <3>1, Zenon
  <2> QED BY <2>1, <2>2
<1>4. 0 \in T
  BY <1>1
<1>5. ASSUME NEW i \in 1 .. width, i - 1 \in T PROVE i \in T
  <2>1. /\ Len(r[i - 1].bytes) = i - 1
        /\ \A j \in 1 .. i - 1 : r[i - 1].bytes[j] = r[j - 1].left % 256
    BY <1>5
  <2>2. r[i - 1].left % 256 \in Byte
    BY <1>2, <1>3, DivMod
  <2>3. /\ Len(r[i].bytes) = i /\ r[i].bytes[i] = r[i - 1].left % 256
        /\ \A j \in 1 .. i - 1 : r[i].bytes[j] = r[i - 1].bytes[j]
    <3>1. r[i - 1].bytes \in Seq(Byte) /\ r[i].bytes = Append(r[i - 1].bytes, r[i - 1].left % 256)
      BY <1>2, <1>3
    <3>2. Len(r[i].bytes) = (i - 1) + 1 /\ r[i].bytes[(i - 1) + 1] = r[i - 1].left % 256
          /\ \A j \in 1 .. i - 1 : r[i].bytes[j] = r[i - 1].bytes[j]
      BY <2>1, <2>2, <3>1, Appended
    <3>3. (i - 1) + 1 = i
      OBVIOUS
    <3> QED BY <3>2, <3>3
  <2>4. \A j \in 1 .. i : j = i \/ j \in 1 .. i - 1
    OBVIOUS
  <2>5. \A j \in 1 .. i : r[i].bytes[j] = r[j - 1].left % 256
    BY <2>1, <2>3, <2>4
  <2> QED BY <1>3, <2>3, <2>5
<1>6. \A i \in 0 .. width : i \in T
  <2> HIDE DEF T
  <2> QED BY <1>4, <1>5, Climb
<1>7. /\ Len(r[width].bytes) = width
      /\ \A j \in 1 .. width : r[width].bytes[j] = r[j - 1].left % 256
  <2>1. width \in T
    <3> HIDE DEF T
    <3> QED BY <1>6
  <2> QED BY <2>1
<1>8. l \in [0 .. width -> Int] /\ \A i \in 0 .. width : l[i] = r[i].left
  BY <1>2
<1>9. l[0] = n /\ 0 \in 0 .. width /\ width \in 0 .. width
  BY <1>1, <1>8
<1>10. \A i \in 1 .. width : /\ l[i] = l[i - 1] \div 256
                             /\ Bytes(n, width)[i] = l[i - 1] % 256
  <2> HIDE DEF l, T
  <2>1. ASSUME NEW i \in 1 .. width PROVE l[i] = r[i].left /\ l[i - 1] = r[i - 1].left
    BY <1>3, <1>8
  <2> QED BY <1>1, <1>3, <1>7, <2>1
<1>11. Bytes(n, width) \in Seq(Byte) /\ Len(Bytes(n, width)) = width
  BY <1>1, <1>2, <1>7, <1>9
<1> HIDE DEF l
<1>12. Digits(n, width, l)
  BY <1>9, <1>10, <1>11 DEF Digits
<1> QED BY <1>8, <1>12

NumberBase(bytes) == IF Len(bytes) > 1 /\ Last(bytes) > 127 THEN -1 ELSE 0
NumberFold(bytes, h) ==
    [s \in SUBSET DOMAIN bytes |->
       IF s = {} THEN NumberBase(bytes) ELSE h[s \ {Min(s)}] * 256 + bytes[Min(s)]]

Sums(bytes, r) ==
    /\ r[Len(bytes) + 1] = NumberBase(bytes) /\ Number(bytes) = r[1]
    /\ \A i \in 1 .. Len(bytes) : r[i] = r[i + 1] * 256 + bytes[i]
LEMMA NumberAre ==
  ASSUME NEW bytes \in Seq(Byte)
  PROVE  \E r \in [1 .. Len(bytes) + 1 -> Int] : Sums(bytes, r)
<1> DEFINE n == Len(bytes)
           base == NumberBase(bytes)
           step == [i \in 1 .. n |-> [a \in Int |-> a * 256 + bytes[i]]]
           h == CHOOSE f : f = NumberFold(bytes, f)
<1>1. n \in Nat /\ DOMAIN bytes = 1 .. n /\ base \in Int /\ \A i \in 1 .. n : bytes[i] \in Int
  BY DEF NumberBase, Byte
<1>2. step \in [1 .. n -> [Int -> Int]] /\ \A i \in 1 .. n : \A a \in Int : step[i][a] = a * 256 + bytes[i]
  BY <1>1
<1> HIDE DEF base, step, n
<1>3. PICK g \in [SUBSET (1 .. n) -> Int] : DownFold(g, n, base, step)
  BY <1>1, <1>2, FoldsExist
<1>4. g = NumberFold(bytes, g)
  <2>1. ASSUME NEW s \in SUBSET (1 .. n)
        PROVE  g[s] = IF s = {} THEN base ELSE g[s \ {Min(s)}] * 256 + bytes[Min(s)]
    <3>1. CASE s = {}
      BY <1>3, <3>1 DEF DownFold
    <3>2. CASE s # {}
      <4>1. Min(s) \in 1 .. n /\ g[s \ {Min(s)}] \in Int
        BY <1>1, <3>2, Ends
      <4>2. g[s] = step[Min(s)][g[s \ {Min(s)}]]
        BY <1>3, <3>2 DEF DownFold
      <4> QED BY <1>2, <3>2, <4>1, <4>2
    <3> QED BY <3>1, <3>2
  <2> QED BY <1>1, <2>1 DEF NumberFold, base
<1>5. h = NumberFold(bytes, h)
  <2> HIDE DEF NumberFold
  <2> QED BY <1>4
<1>6. Number(bytes) = h[DOMAIN bytes]
  BY DEF Number, FoldRight, MapThenFoldSet, NumberFold, NumberBase
<1> HIDE DEF h
<1>7. h[{}] = base /\ \A s \in SUBSET (1 .. n) : s # {} => h[s] = h[s \ {Min(s)}] * 256 + bytes[Min(s)]
  BY <1>1, <1>5 DEF NumberFold, base
<1>8. Shrinks(h, n, Int, step)
  <2>1. \A s \in SUBSET (1 .. n) : s # {} => Min(s) \in 1 .. n
    BY <1>1, Ends
  <2>2. ASSUME NEW s \in SUBSET (1 .. n), s # {}, h[s \ {Min(s)}] \in Int
        PROVE  h[s] = step[Min(s)][h[s \ {Min(s)}]]
    <3>1. step[Min(s)][h[s \ {Min(s)}]] = h[s \ {Min(s)}] * 256 + bytes[Min(s)]
      BY <2>2, <1>2, <2>1, Zenon
    <3>2. h[s] = h[s \ {Min(s)}] * 256 + bytes[Min(s)]
      BY <2>2, <1>7, Zenon
    <3> QED BY <3>1, <3>2, Zenon
  <2> QED BY <2>2 DEF Shrinks
<1>9. PICK r \in [1 .. n + 1 -> Int] : r[1] = h[1 .. n] /\ Downward(r, n, base, step)
  <2>1. DownChain(h, n, Int, base, step)
    BY <1>1, <1>2, <1>7, <1>8, FoldDown
  <2> QED BY <2>1 DEF DownChain
<1>10. \A i \in 1 .. n : r[i] = r[i + 1] * 256 + bytes[i]
  <2>1. \A i \in 1 .. n : r[i + 1] \in Int
    BY <1>1
  <2> QED BY <1>2, <1>9, <2>1 DEF Downward
<1>11. Sums(bytes, r)
  BY <1>1, <1>6, <1>9, <1>10 DEF base, n, Downward, Sums
<1> QED BY <1>11 DEF n

Small == {k \in Int : -128 <= k /\ k <= 127}

\* A number is read as it was written if its upper end is its sign.
LEMMA NumberOfBytes ==
  ASSUME NEW n \in Int, NEW width \in Nat \ {0}, NEW l \in [0 .. width -> Int], Digits(n, width, l),
         \/ width = 1 /\ n \in Byte
         \/ width > 1 /\ l[width - 1] \in Small
  PROVE  Number(Bytes(n, width)) = n
<1> DEFINE b == Bytes(n, width)
<1>0. l[0] = n /\ \A i \in 1 .. width : l[i] = l[i - 1] \div 256
  BY DEF Digits
<1>1. b \in Seq(Byte) /\ Len(b) = width /\ \A i \in 1 .. width : b[i] = l[i - 1] % 256
  BY DEF Digits
<1> HIDE DEF b
<1>10. PICK r \in [1 .. Len(b) + 1 -> Int] : Sums(b, r)
  BY <1>1, NumberAre
<1>2. /\ r \in [1 .. width + 1 -> Int]
      /\ r[width + 1] = NumberBase(b) /\ Number(b) = r[1]
      /\ \A i \in 1 .. width : r[i] = r[i + 1] * 256 + b[i]
  BY <1>1, <1>10 DEF Sums
<1>3. \A i \in 1 .. width : /\ i - 1 \in 0 .. width /\ l[i] \in Int /\ l[i - 1] \in Int
                            /\ b[i] \in Byte /\ l[i - 1] = 256 * l[i] + b[i]
  <2>1. ASSUME NEW i \in 1 .. width
        PROVE  i - 1 \in 0 .. width /\ l[i] \in Int /\ l[i - 1] \in Int
    OBVIOUS
  <2>2. ASSUME NEW i \in 1 .. width
        PROVE  b[i] \in Byte /\ l[i - 1] = 256 * l[i] + b[i]
    <3>1. l[i] = l[i - 1] \div 256 /\ b[i] = l[i - 1] % 256
      BY <1>0, <1>1
    <3>2. /\ l[i - 1] % 256 \in Byte
          /\ l[i - 1] = 256 * (l[i - 1] \div 256) + (l[i - 1] % 256)
      BY <2>1, DivMod
    <3> QED BY <3>1, <3>2
  <2> QED BY <2>1, <2>2
<1>4. NumberBase(b) = l[width]
  <2>1. width \in 1 .. width /\ Last(b) = b[width]
    BY <1>1 DEF Last
  <2>2. l[width - 1] = 256 * l[width] + b[width] /\ b[width] \in Byte /\ l[width] \in Int
    BY <1>3, <2>1
  <2>3. CASE width = 1 /\ n \in Byte
    <3>1. l[width - 1] \in Byte
      BY <1>0, <2>3
    <3>2. l[width] = 0
      BY <2>2, <3>1 DEF Byte
    <3> QED BY <1>1, <2>3, <3>2 DEF NumberBase
  <2>4. CASE width > 1 /\ l[width - 1] \in Small
    <3>1. l[width] = IF b[width] > 127 THEN -1 ELSE 0
      BY <2>2, <2>4 DEF Small, Byte
    <3> QED BY <1>1, <2>1, <2>4, <3>1 DEF NumberBase
  <2> QED BY <2>3, <2>4
<1> DEFINE T == {i \in 0 .. width : r[width + 1 - i] = l[width - i]}
<1>5. 0 \in T
  BY <1>2, <1>4
<1>6. ASSUME NEW i \in 1 .. width, i - 1 \in T PROVE i \in T
  <2> DEFINE j == width + 1 - i
  <2>1. j \in 1 .. width /\ width + 1 - (i - 1) = j + 1 /\ width - (i - 1) = j /\ width - i = j - 1
    OBVIOUS
  <2>2. r[j + 1] = l[j]
    BY <1>6, <2>1
  <2>3. r[j] = r[j + 1] * 256 + b[j]
    BY <1>2, <2>1
  <2> HIDE DEF j
  <2>4. r[j] = l[j - 1]
    <3>1. l[j] * 256 = 256 * l[j] /\ l[j] \in Int /\ b[j] \in Int
      BY <1>3, <2>1 DEF Byte
    <3> QED BY <1>3, <2>1, <2>2, <2>3, <3>1
  <2> QED BY <2>1, <2>4 DEF j
<1>7. width \in T
  <2> HIDE DEF T
  <2>1. \A i \in 0 .. width : i \in T
    BY <1>5, <1>6, Climb
  <2> QED BY <2>1
<1>8. r[1] = l[0]
  <2>1. width + 1 - width = 1 /\ width - width = 0
    OBVIOUS
  <2> QED BY <1>7, <2>1
<1> QED BY <1>0, <1>2, <1>8 DEF b

Int32 == {k \in Int : -2147483648 <= k /\ k <= 2147483647}
LEMMA UpperByte ==
  \A k \in Int32 : ((k \div 256) \div 256) \div 256 \in Small
<1> SUFFICES ASSUME NEW k \in Int32 PROVE ((k \div 256) \div 256) \div 256 \in Small
  OBVIOUS
<1> DEFINE x == k \div 256
           y == x \div 256
           z == y \div 256
<1>1. k \in Int
  BY SMT DEF Int32
<1>2. k = 256 * x + (k % 256) /\ 0 <= k % 256 /\ k % 256 <= 255 /\ k % 256 \in Int /\ x \in Int
  BY <1>1, DivMod
<1>3. x = 256 * y + (x % 256) /\ 0 <= x % 256 /\ x % 256 <= 255 /\ x % 256 \in Int /\ y \in Int
  BY <1>2, DivMod
<1>4. y = 256 * z + (y % 256) /\ 0 <= y % 256 /\ y % 256 <= 255 /\ y % 256 \in Int /\ z \in Int
  BY <1>3, DivMod
<1> HIDE DEF x, y, z
<1>5. -8388608 <= x /\ x <= 8388607
  BY <1>1, <1>2, SMT DEF Int32
<1>6. -32768 <= y /\ y <= 32767
  BY <1>2, <1>3, <1>5, SMT
<1>7. z \in Small
  BY <1>3, <1>4, <1>6, SMT DEF Small
<1> QED BY <1>7 DEF x, y, z

LEMMA FourBytes ==
  ASSUME NEW n \in Int32
  PROVE  Bytes(n, 4) \in Seq(Byte) /\ Len(Bytes(n, 4)) = 4 /\ Number(Bytes(n, 4)) = n
<1> DEFINE width == 4
<1>1. n \in Int /\ width \in Nat /\ width \in Nat \ {0} /\ width > 1
  BY SMT DEF Int32
<1> HIDE DEF width
<1>2. PICK l \in [0 .. width -> Int] : Digits(n, width, l)
  BY <1>1, BytesDigits
<1>3. \A i \in 1 .. 3 : i \in 1 .. width
  BY SMT DEF width
<1>4. l[1] = n \div 256 /\ l[2] = l[1] \div 256 /\ l[3] = l[2] \div 256
  <2>1. 1 \in 1 .. 3 /\ 2 \in 1 .. 3 /\ 3 \in 1 .. 3 /\ 1 - 1 = 0 /\ 2 - 1 = 1 /\ 3 - 1 = 2
    OBVIOUS
  <2>2. l[0] = n /\ l[1] = l[1 - 1] \div 256 /\ l[2] = l[2 - 1] \div 256 /\ l[3] = l[3 - 1] \div 256
    BY <1>2, <1>3, <2>1, Zenon DEF Digits
  <2> QED BY <2>1, <2>2
<1>5. l[width - 1] \in Small
  <2>1. l[3] \in Small
    <3>1. l[3] = ((n \div 256) \div 256) \div 256
      BY <1>4
    <3>2. ((n \div 256) \div 256) \div 256 \in Small
      BY UpperByte
    <3> QED BY <3>1, <3>2
  <2> QED BY <2>1, SMT DEF width
<1>6. Number(Bytes(n, width)) = n
  BY <1>1, <1>2, <1>5, NumberOfBytes
<1> QED BY <1>2, <1>6 DEF width, Digits

LEMMA OneByte ==
  ASSUME NEW n \in Byte
  PROVE  Bytes(n, 1) \in Seq(Byte) /\ Len(Bytes(n, 1)) = 1 /\ Number(Bytes(n, 1)) = n
<1> DEFINE width == 1
<1>1. n \in Int /\ width \in Nat /\ width \in Nat \ {0} /\ width = 1
  BY DEF Byte
<1> HIDE DEF width
<1>2. PICK l \in [0 .. width -> Int] : Digits(n, width, l)
  BY <1>1, BytesDigits
<1>3. Number(Bytes(n, width)) = n
  BY <1>1, <1>2, NumberOfBytes
<1> QED BY <1>2, <1>3 DEF width, Digits

-----------------------------------------------------------------------------
(***************************************************************************)
(* Rows                                                                    *)
(***************************************************************************)
ColumnType == {"INT32", "FLOAT32", "STRING", "BOOL"}
Column == [type : {"INT32", "FLOAT32"}, value : Int32]
          \cup [type : {"STRING"}, value : Seq(Byte \ {0})]
          \cup [type : {"BOOL"}, value : Byte]

\* The bytes of a column.
Enc(column) == CASE column.type \in {"INT32", "FLOAT32"} -> Bytes(column.value, 4)
                 [] column.type = "STRING" -> Append(column.value, 0)
                 [] column.type = "BOOL" -> Bytes(column.value, 1)

LEMMA EncodedColumn ==
  ASSUME NEW c \in Column
  PROVE  Enc(c) \in Seq(Byte) /\ Len(Enc(c)) = ColumnSize(c) /\ ColumnSize(c) \in Nat
<1>1. CASE c \in [type : {"INT32", "FLOAT32"}, value : Int32]
  <2>1. Enc(c) = Bytes(c.value, 4) /\ ColumnSize(c) = 4
    BY <1>1 DEF Enc, ColumnSize
  <2>2. c.value \in Int32
    BY <1>1
  <2> QED BY <2>1, <2>2, FourBytes
<1>2. CASE c \in [type : {"STRING"}, value : Seq(Byte \ {0})]
  <2>1. Enc(c) = Append(c.value, 0) /\ ColumnSize(c) = Len(c.value) + 1
    BY <1>2 DEF Enc, ColumnSize
  <2>2. c.value \in Seq(Byte) /\ 0 \in Byte
    BY <1>2 DEF Byte
  <2> QED BY <2>1, <2>2
<1>3. CASE c \in [type : {"BOOL"}, value : Byte]
  <2>1. Enc(c) = Bytes(c.value, 1) /\ ColumnSize(c) = 1
    BY <1>3 DEF Enc, ColumnSize
  <2>2. c.value \in Byte
    BY <1>3
  <2> QED BY <2>1, <2>2, OneByte
<1> QED BY <1>1, <1>2, <1>3 DEF Column

RowSizeFold(row, h) ==
    [s \in SUBSET DOMAIN row |-> IF s = {} THEN 0 ELSE h[s \ {Max(s)}] + ColumnSize(row[Max(s)])]

LEMMA RowSizes ==
  ASSUME NEW row \in Seq(Column)
  PROVE  \E z \in [0 .. Len(row) -> Nat] :
            /\ z[0] = 0 /\ RowSize(row) = z[Len(row)]
            /\ \A i \in 1 .. Len(row) : z[i] = z[i - 1] + ColumnSize(row[i])
<1> DEFINE n == Len(row)
           step == [i \in 1 .. n |-> [a \in Nat |-> a + ColumnSize(row[i])]]
           base == 0
           h == CHOOSE f : f = RowSizeFold(row, f)
<1>1. n \in Nat /\ DOMAIN row = 1 .. n /\ base \in Nat /\ \A i \in 1 .. n : ColumnSize(row[i]) \in Nat
  BY EncodedColumn
<1>2. step \in [1 .. n -> [Nat -> Nat]]
      /\ \A i \in 1 .. n : \A a \in Nat : step[i][a] = a + ColumnSize(row[i])
  BY <1>1
<1> HIDE DEF step, n, base
<1>3. PICK g \in [SUBSET (1 .. n) -> Nat] : UpFold(g, n, base, step)
  BY <1>1, <1>2, FoldsExist
<1>4. g = RowSizeFold(row, g)
  <2>1. ASSUME NEW s \in SUBSET (1 .. n)
        PROVE  g[s] = IF s = {} THEN base ELSE g[s \ {Max(s)}] + ColumnSize(row[Max(s)])
    <3>1. CASE s = {}
      BY <1>3, <3>1 DEF UpFold
    <3>2. CASE s # {}
      <4>1. Max(s) \in 1 .. n /\ g[s \ {Max(s)}] \in Nat
        BY <1>1, <3>2, Ends
      <4>2. g[s] = step[Max(s)][g[s \ {Max(s)}]]
        BY <1>3, <3>2 DEF UpFold
      <4> QED BY <1>2, <3>2, <4>1, <4>2
    <3> QED BY <3>1, <3>2
  <2> QED BY <1>1, <2>1 DEF RowSizeFold, base
<1>5. h = RowSizeFold(row, h)
  <2> HIDE DEF RowSizeFold
  <2> QED BY <1>4
<1>6. RowSize(row) = h[DOMAIN row]
  BY DEF RowSize, FoldLeft, MapThenFoldSet, RowSizeFold
<1> HIDE DEF h
<1>7. h[{}] = base /\ \A s \in SUBSET (1 .. n) : s # {} => h[s] = h[s \ {Max(s)}] + ColumnSize(row[Max(s)])
  BY <1>1, <1>5 DEF RowSizeFold, base
<1>8. Grows(h, n, Nat, step)
  <2>1. \A s \in SUBSET (1 .. n) : s # {} => Max(s) \in 1 .. n
    BY <1>1, Ends
  <2>2. ASSUME NEW s \in SUBSET (1 .. n), s # {}, h[s \ {Max(s)}] \in Nat
        PROVE  h[s] = step[Max(s)][h[s \ {Max(s)}]]
    BY <2>2, <1>2, <1>7, <2>1
  <2> QED BY <2>2 DEF Grows
<1>9. PICK r \in [0 .. n -> Nat] : r[n] = h[1 .. n] /\ Upward(r, n, base, step)
  <2>1. UpChain(h, n, Nat, base, step)
    BY <1>1, <1>2, <1>7, <1>8, FoldUp
  <2> QED BY <2>1 DEF UpChain
<1>10. \A i \in 1 .. n : r[i] = r[i - 1] + ColumnSize(row[i])
  <2>1. \A i \in 1 .. n : r[i - 1] \in Nat
    BY <1>1
  <2> QED BY <1>2, <1>9, <2>1 DEF Upward
<1> QED BY <1>1, <1>6, <1>9, <1>10 DEF n, Upward, base

Buffer == [size : Nat, data : Seq(Byte), rcur : Nat]
PutValue(buffer, column) ==
    CASE column.type \in {"INT32", "FLOAT32"} -> Write(buffer, Bytes(column.value, 4))
      [] column.type = "STRING" -> BufferWriteString(buffer, column.value)
      [] column.type = "BOOL" -> Write(buffer, Bytes(column.value, 1))
RowFold(row, h) ==
    [s \in SUBSET DOMAIN row |->
       IF s = {} THEN BufferNew(RowSize(row)) ELSE PutValue(h[s \ {Max(s)}], row[Max(s)])]

LEMMA WriteKeepsBuffer ==
  ASSUME NEW b \in Buffer, NEW e \in Seq(Byte)
  PROVE  Write(b, e) \in Buffer
<1>1. b.data \o e \in Seq(Byte) /\ b.data \in Seq(Byte)
  BY DEF Buffer
<1> QED BY <1>1 DEF Write, Buffer

LEMMA PutIsWrite ==
  ASSUME NEW c \in Column, NEW b
  PROVE  PutValue(b, c) = Write(b, Enc(c))
<1>1. c.type \in ColumnType
  BY DEF Column, ColumnType
<1>2. CASE c.type \in {"INT32", "FLOAT32"}
  BY <1>2 DEF PutValue, Enc
<1>3. CASE c.type = "STRING"
  BY <1>3 DEF PutValue, Enc, BufferWriteString
<1>4. CASE c.type = "BOOL"
  BY <1>4 DEF PutValue, Enc
<1> QED BY <1>1, <1>2, <1>3, <1>4 DEF ColumnType

LEMMA RowWrites ==
  ASSUME NEW row \in Seq(Column)
  PROVE  \E w \in [0 .. Len(row) -> Buffer] :
            /\ w[0] = BufferNew(RowSize(row)) /\ RowSerialize(row) = w[Len(row)]
            /\ \A i \in 1 .. Len(row) : w[i] = Write(w[i - 1], Enc(row[i]))
<1> DEFINE n == Len(row)
           base == BufferNew(RowSize(row))
           step == [i \in 1 .. n |-> [a \in Buffer |-> PutValue(a, row[i])]]
           h == CHOOSE f : f = RowFold(row, f)
<1>1. n \in Nat /\ DOMAIN row = 1 .. n /\ \A i \in 1 .. n : row[i] \in Column
  OBVIOUS
<1>2. base \in Buffer
  <2>1. RowSize(row) \in Nat
    BY <1>1, RowSizes
  <2> QED BY <2>1 DEF Buffer, BufferNew
<1>3. \A i \in 1 .. n : \A a \in Buffer : PutValue(a, row[i]) \in Buffer
  BY <1>1, PutIsWrite, EncodedColumn, WriteKeepsBuffer
<1>4. step \in [1 .. n -> [Buffer -> Buffer]]
      /\ \A i \in 1 .. n : \A a \in Buffer : step[i][a] = PutValue(a, row[i])
  BY <1>3
<1> HIDE DEF step, n, base
<1>5. PICK g \in [SUBSET (1 .. n) -> Buffer] : UpFold(g, n, base, step)
  BY <1>1, <1>2, <1>4, FoldsExist
<1>6. g = RowFold(row, g)
  <2>1. ASSUME NEW s \in SUBSET (1 .. n)
        PROVE  g[s] = IF s = {} THEN base ELSE PutValue(g[s \ {Max(s)}], row[Max(s)])
    <3>1. CASE s = {}
      BY <1>5, <3>1 DEF UpFold
    <3>2. CASE s # {}
      <4>1. Max(s) \in 1 .. n /\ g[s \ {Max(s)}] \in Buffer
        BY <1>1, <3>2, Ends
      <4>2. g[s] = step[Max(s)][g[s \ {Max(s)}]]
        BY <1>5, <3>2 DEF UpFold
      <4> QED BY <1>4, <3>2, <4>1, <4>2
    <3> QED BY <3>1, <3>2
  <2> QED BY <1>1, <2>1 DEF RowFold, base
<1>7. h = RowFold(row, h)
  <2> HIDE DEF RowFold
  <2> QED BY <1>6
<1>8. RowSerialize(row) = h[DOMAIN row]
  <2>1. RowSerialize(row) = FoldLeft(PutValue, BufferNew(RowSize(row)), row)
    BY SMT DEF RowSerialize, PutValue
  <2> QED BY <2>1, SMT DEF FoldLeft, MapThenFoldSet, RowFold
<1> HIDE DEF h
<1>9. h[{}] = base /\ \A s \in SUBSET (1 .. n) : s # {} => h[s] = PutValue(h[s \ {Max(s)}], row[Max(s)])
  BY <1>1, <1>7 DEF RowFold, base
<1>10. Grows(h, n, Buffer, step)
  <2>1. \A s \in SUBSET (1 .. n) : s # {} => Max(s) \in 1 .. n
    BY <1>1, Ends
  <2>2. ASSUME NEW s \in SUBSET (1 .. n), s # {}, h[s \ {Max(s)}] \in Buffer
        PROVE  h[s] = step[Max(s)][h[s \ {Max(s)}]]
    BY <2>2, <1>4, <1>9, <2>1
  <2> QED BY <2>2 DEF Grows
<1>11. PICK r \in [0 .. n -> Buffer] : r[n] = h[1 .. n] /\ Upward(r, n, base, step)
  <2>1. UpChain(h, n, Buffer, base, step)
    BY <1>1, <1>2, <1>4, <1>9, <1>10, FoldUp
  <2> QED BY <2>1 DEF UpChain
<1>12. \A i \in 1 .. n : r[i] = Write(r[i - 1], Enc(row[i]))
  <2>1. \A i \in 1 .. n : r[i - 1] \in Buffer
    BY <1>1
  <2> QED BY <1>1, <1>4, <1>11, <2>1, PutIsWrite DEF Upward
<1> QED BY <1>1, <1>8, <1>11, <1>12 DEF n, base, Upward
LEMMA Joined ==
  ASSUME NEW a \in Seq(Byte), NEW b \in Seq(Byte)
  PROVE  /\ Len(a \o b) = Len(a) + Len(b)
         /\ \A i \in 1 .. Len(a) : (a \o b)[i] = a[i]
         /\ \A i \in 1 .. Len(b) : (a \o b)[Len(a) + i] = b[i]
OBVIOUS

LEMMA Backwards ==
  ASSUME NEW n \in Nat, NEW i \in 1 .. n
  PROVE  n - i + 1 \in 1 .. n /\ n - (i - 1) = n - i + 1 /\ (n - i + 1) - 1 = n - i /\ i \in 0 .. n
OBVIOUS

LEMMA Parts ==
  ASSUME NEW x \in Nat, NEW y \in Nat, NEW c \in Nat, NEW k \in Nat, x = y + k
  PROVE  (x <= c => y <= c) /\ (c <= y => c <= x)
OBVIOUS

\* Pieces of bytes, where each of them ends, buffers each of which is the one
\* before it and a piece if there is room, and a buffer with all the pieces.
PieceEnds(n, e, z) == z[0] = 0 /\ \A i \in 1 .. n : z[i] = z[i - 1] + Len(e[i])
Writes(n, e, w) ==
    \A i \in 1 .. n : Len(w[i - 1].data) + Len(e[i]) <= w[i - 1].size => w[i] = Write(w[i - 1], e[i])
HasPieces(b, n, e, z) ==
    /\ \A i \in 0 .. n : z[i] <= z[n]
    /\ b \in Buffer /\ b.rcur = 0 /\ b.size = z[n] /\ Len(b.data) = z[n]
    /\ \A i \in 1 .. n : \A j \in 1 .. Len(e[i]) : b.data[z[i - 1] + j] = e[i][j]

\* What is written to a buffer that has room for it is there, each piece from
\* where the one before it ends.
LEMMA Pieces ==
  ASSUME NEW n \in Nat, NEW e, \A i \in 1 .. n : e[i] \in Seq(Byte) /\ Len(e[i]) \in Nat,
         NEW z \in [0 .. n -> Nat], PieceEnds(n, e, z),
         NEW w \in [0 .. n -> Buffer], w[0] = BufferNew(z[n]), Writes(n, e, w)
  PROVE  HasPieces(w[n], n, e, z)
<1>1. n \in Nat /\ \A i \in 1 .. n : e[i] \in Seq(Byte) /\ Len(e[i]) \in Nat
  OBVIOUS
<1>4. \A i \in 1 .. n : /\ z[i] = z[i - 1] + Len(e[i]) /\ z[i] \in Nat /\ z[i - 1] \in Nat
                        /\ i - 1 \in 0 .. n /\ i \in 0 .. n
  BY <1>1 DEF PieceEnds
<1>5. \A i \in 0 .. n : z[i] <= z[n]
  <2> DEFINE T == {i \in 0 .. n : z[n - i] <= z[n]}
  <2>1. 0 \in T
    <3>1. n - 0 = n /\ 0 \in 0 .. n /\ z[n] \in Nat
      BY <1>1
    <3> QED BY <3>1
  <2>2. ASSUME NEW i \in 1 .. n, i - 1 \in T PROVE i \in T
    <3>1. n - i + 1 \in 1 .. n /\ n - (i - 1) = n - i + 1 /\ (n - i + 1) - 1 = n - i /\ i \in 0 .. n
      BY <1>1, Backwards
    <3>2. z[n - i + 1] = z[n - i] + Len(e[n - i + 1]) /\ z[n - i] \in Nat /\ z[n - i + 1] \in Nat
          /\ Len(e[n - i + 1]) \in Nat
      BY <1>1, <1>4, <3>1
    <3>3. z[n - i + 1] <= z[n]
      BY <2>2, <3>1
    <3>4. z[n] \in Nat
      BY <1>1
    <3>5. z[n - i] <= z[n]
      BY <3>2, <3>3, <3>4, Parts
    <3> QED BY <3>1, <3>5
  <2>3. \A i \in 0 .. n : i \in T
    <3> HIDE DEF T
    <3> QED BY <1>1, <2>1, <2>2, Climb
  <2>4. ASSUME NEW i \in 0 .. n PROVE z[i] <= z[n]
    <3>1. n - i \in 0 .. n /\ n - (n - i) = i
      BY <1>1
    <3>2. z[n - (n - i)] <= z[n]
      BY <2>3, <3>1
    <3> QED BY <3>1, <3>2
  <2> QED BY <2>4
<1> DEFINE Written(i) ==
       /\ w[i].size = z[n] /\ w[i].rcur = 0 /\ Len(w[i].data) = z[i]
       /\ \A k \in 1 .. i : \A j \in 1 .. Len(e[k]) : w[i].data[z[k - 1] + j] = e[k][j]
           T == {i \in 0 .. n : Written(i)}
<1>6. 0 \in T
  <2>1. w[0].size = z[n] /\ w[0].data = <<>> /\ w[0].rcur = 0 /\ z[0] = 0
    BY DEF BufferNew, PieceEnds
  <2> QED BY <1>1, <2>1
<1>7. ASSUME NEW i \in 1 .. n, i - 1 \in T PROVE i \in T
  <2>1. Written(i - 1) /\ w[i - 1] \in Buffer /\ w[i - 1].data \in Seq(Byte) /\ i \in 0 .. n
    BY <1>4, <1>7 DEF Buffer
  <2>3. Len(w[i - 1].data) + Len(e[i]) = z[i] /\ z[i] <= z[n] /\ z[n] \in Nat /\ z[i] \in Nat
    BY <1>1, <1>4, <1>5, <2>1
  <2>2. w[i] = Write(w[i - 1], e[i])
    <3>1. Len(w[i - 1].data) + Len(e[i]) <= w[i - 1].size
      BY <2>1, <2>3
    <3> QED BY <3>1 DEF Writes
  <2>4. w[i] = [w[i - 1] EXCEPT !.data = @ \o e[i]]
    BY <2>1, <2>2, <2>3 DEF Write
  <2>5. w[i].size = z[n] /\ w[i].rcur = 0 /\ w[i].data = w[i - 1].data \o e[i]
    BY <2>1, <2>4 DEF Buffer
  <2>6. Len(w[i].data) = z[i]
    <3>1. Len(w[i - 1].data \o e[i]) = Len(w[i - 1].data) + Len(e[i])
      BY <1>1, <2>1, Joined
    <3> QED BY <2>3, <2>5, <3>1
  <2>7. ASSUME NEW k \in 1 .. i, NEW j \in 1 .. Len(e[k])
        PROVE  w[i].data[z[k - 1] + j] = e[k][j]
    <3>1. CASE k = i
      <4>1. z[k - 1] + j = Len(w[i - 1].data) + j /\ e[i] \in Seq(Byte) /\ j \in 1 .. Len(e[i])
        BY <1>1, <2>1, <3>1
      <4>2. (w[i - 1].data \o e[i])[Len(w[i - 1].data) + j] = e[i][j]
        BY <2>1, <4>1, Joined
      <4> QED BY <2>5, <3>1, <4>1, <4>2
    <3>2. CASE k # i
      <4>1. k \in 1 .. i - 1 /\ k \in 1 .. n
        BY <1>1, <3>2
      <4>2. w[i - 1].data[z[k - 1] + j] = e[k][j]
        BY <2>1, <4>1
      <4>3. z[k] <= z[i - 1]
        <5> DEFINE U == {m \in 0 .. n : m >= k => z[k] <= z[m]}
        <5>1. 0 \in U
          BY <1>1, <4>1
        <5>2. ASSUME NEW m \in 1 .. n, m - 1 \in U PROVE m \in U
          <6>1. z[m] = z[m - 1] + Len(e[m]) /\ z[m] \in Nat /\ z[m - 1] \in Nat /\ m \in 0 .. n
                /\ Len(e[m]) \in Nat /\ z[k] \in Nat
            BY <1>1, <1>4, <4>1
          <6>2. m - 1 >= k => z[k] <= z[m - 1]
            BY <5>2
          <6>3. m - 1 >= k => z[k] <= z[m]
            BY <6>1, <6>2, Parts
          <6>5. m = k => z[k] <= z[m]
            BY <6>1
          <6>4. ASSUME m >= k PROVE z[k] <= z[m]
            <7>1. m = k \/ m - 1 >= k
              BY <1>1, <4>1, <6>4
            <7> QED BY <6>3, <6>5, <7>1
          <6> QED BY <6>1, <6>4
        <5>3. \A m \in 0 .. n : m \in U
          <6> HIDE DEF U
          <6> QED BY <1>1, <5>1, <5>2, Climb
        <5>4. i - 1 \in U /\ i - 1 >= k
          <6> HIDE DEF U
          <6> QED BY <1>4, <4>1, <5>3
        <5> QED BY <5>4
      <4>4. z[k - 1] + j \in 1 .. Len(w[i - 1].data)
        <5>1. z[k] = z[k - 1] + Len(e[k]) /\ z[k] \in Nat /\ z[k - 1] \in Nat /\ Len(e[k]) \in Nat
              /\ z[i - 1] \in Nat /\ Len(w[i - 1].data) = z[i - 1]
          BY <1>1, <1>4, <2>1, <4>1
        <5> QED BY <4>3, <5>1
      <4>5. (w[i - 1].data \o e[i])[z[k - 1] + j] = w[i - 1].data[z[k - 1] + j]
        BY <1>1, <2>1, <4>4, Joined
      <4> QED BY <2>5, <4>2, <4>5
    <3> QED BY <3>1, <3>2
  <2>8. Written(i)
    BY <2>5, <2>6, <2>7
  <2> QED BY <2>1, <2>8
<1>8. Written(n) /\ w[n] \in Buffer
  <2>1. n \in T /\ n \in 0 .. n
    <3> HIDE DEF T
    <3>1. \A i \in 0 .. n : i \in T
      BY <1>1, <1>6, <1>7, Climb
    <3> QED BY <1>1, <3>1
  <2> QED BY <2>1
<1> HIDE DEF T
<1> QED BY <1>5, <1>8 DEF HasPieces

\* The buffer of a row has the bytes of its columns.
Encodings(row) == [i \in 1 .. Len(row) |-> Enc(row[i])]
LEMMA RowBytes ==
  ASSUME NEW row \in Seq(Column)
  PROVE  \E z \in [0 .. Len(row) -> Nat] :
            /\ PieceEnds(Len(row), Encodings(row), z)
            /\ HasPieces(RowSerialize(row), Len(row), Encodings(row), z)
<1> DEFINE n == Len(row)
           e == Encodings(row)
<1>1. n \in Nat /\ \A i \in 1 .. n : /\ e[i] = Enc(row[i]) /\ e[i] \in Seq(Byte)
                                     /\ Len(e[i]) \in Nat /\ ColumnSize(row[i]) = Len(e[i])
  BY EncodedColumn DEF Encodings
<1>2. PICK z \in [0 .. n -> Nat] : /\ z[0] = 0 /\ RowSize(row) = z[n]
                                   /\ \A i \in 1 .. n : z[i] = z[i - 1] + ColumnSize(row[i])
  BY RowSizes
<1>3. PICK w \in [0 .. n -> Buffer] :
            /\ w[0] = BufferNew(RowSize(row)) /\ RowSerialize(row) = w[n]
            /\ \A i \in 1 .. n : w[i] = Write(w[i - 1], Enc(row[i]))
  BY RowWrites
<1> HIDE DEF n, e
<1>4. PieceEnds(n, e, z)
  BY <1>1, <1>2 DEF PieceEnds
<1>5. Writes(n, e, w) /\ w[0] = BufferNew(z[n])
  BY <1>1, <1>2, <1>3 DEF Writes
<1>6. HasPieces(w[n], n, e, z)
  BY <1>1, <1>4, <1>5, Pieces
<1> QED BY <1>3, <1>4, <1>6 DEF n, e

-----------------------------------------------------------------------------
\* A buffer that is full, and what may be read of it.
FullBuffer == {b \in Buffer : b.size = Len(b.data)}
AnyValue == Int \cup Seq(Int)
AnyCell == [type : ColumnType, value : AnyValue]
ReadValue(buffer, type) ==
    CASE type \in {"INT32", "FLOAT32"} -> Read(buffer, 4)
      [] type = "STRING" -> BufferReadString(buffer)
      [] type = "BOOL" -> Read(buffer, 1)

LEMMA ReadByType ==
  ASSUME NEW buffer
  PROVE  /\ ReadValue(buffer, "INT32") = Read(buffer, 4)
         /\ ReadValue(buffer, "FLOAT32") = Read(buffer, 4)
         /\ ReadValue(buffer, "STRING") = BufferReadString(buffer)
         /\ ReadValue(buffer, "BOOL") = Read(buffer, 1)
BY SMT DEF ReadValue

\* The bytes from one to another.
LEMMA Slice ==
  ASSUME NEW d \in Seq(Byte), NEW p \in Nat, NEW q \in Nat, p <= q, q <= Len(d)
  PROVE  /\ SubSeq(d, p + 1, q) \in Seq(Byte) /\ Len(SubSeq(d, p + 1, q)) = q - p
         /\ \A i \in 1 .. q - p : SubSeq(d, p + 1, q)[i] = d[p + i]
<1>1. \A i \in p + 1 .. q : d[i] \in Byte
  OBVIOUS
<1>2. SubSeq(d, p + 1, q) \in Seq(Byte) /\ Len(SubSeq(d, p + 1, q)) = IF p + 1 <= q THEN q - (p + 1) + 1 ELSE 0
  BY <1>1, SubSeqProperties
<1>3. \A i \in 1 .. q - (p + 1) + 1 : SubSeq(d, p + 1, q)[i] = d[p + 1 + i - 1]
  BY <1>1, SubSeqProperties
<1>4. \A i \in 1 .. q - p : i \in 1 .. q - (p + 1) + 1 /\ p + 1 + i - 1 = p + i
  OBVIOUS
<1>5. \A i \in 1 .. q - p : SubSeq(d, p + 1, q)[i] = d[p + i]
  BY <1>3, <1>4
<1>6. Len(SubSeq(d, p + 1, q)) = q - p
  BY <1>2
<1> QED BY <1>2, <1>5, <1>6

LEMMA ReadString ==
  ASSUME NEW b \in FullBuffer, NEW z, z = {i \in b.rcur + 1 .. Len(b.data) : b.data[i] = 0}
  PROVE  \/ z = {} /\ BufferReadString(b) = [buffer |-> b, value |-> NoString]
         \/ \E end \in z :
               /\ \A j \in z : end <= j
               /\ BufferReadString(b) =
                    [buffer |-> [b EXCEPT !.rcur = end],
                     value |-> SubSeq(b.data, b.rcur + 1, end - 1)]
<1>1. CASE z = {}
  BY <1>1 DEF BufferReadString
<1>2. CASE z # {}
  <2> DEFINE end == CHOOSE i \in z : \A j \in z : i <= j
  <2>1. b.rcur \in Nat /\ z \subseteq Nat
    <3>1. b.rcur \in Nat
      BY DEF FullBuffer, Buffer
    <3> QED BY <3>1
  <2>2. end \in z /\ \A j \in z : end <= j
    <3>1. \E i \in z : \A j \in z : i <= j
      BY <1>2, <2>1, LeastNat
    <3> QED BY <3>1
  <2>3. BufferReadString(b) = [buffer |-> [b EXCEPT !.rcur = end],
                               value |-> SubSeq(b.data, b.rcur + 1, end - 1)]
    BY <1>2 DEF BufferReadString
  <2> HIDE DEF end
  <2> QED BY <2>2, <2>3
<1> QED BY <1>1, <1>2

LEMMA ReadIsTyped ==
  ASSUME NEW b \in FullBuffer, NEW type \in ColumnType
  PROVE  ReadValue(b, type).buffer \in FullBuffer /\ ReadValue(b, type).value \in AnyValue
<1>1. b \in Buffer /\ b.size = Len(b.data) /\ b.data \in Seq(Byte) /\ b.rcur \in Nat /\ b.size \in Nat
  BY DEF FullBuffer, Buffer
<1>2. ASSUME NEW width \in Nat
      PROVE  Read(b, width).buffer \in FullBuffer /\ Read(b, width).value \in AnyValue
  <2>1. CASE b.rcur + width > b.size
    BY <2>1 DEF Read, AnyValue
  <2>2. CASE ~ (b.rcur + width > b.size)
    <3>1. Read(b, width) = [buffer |-> [b EXCEPT !.rcur = @ + width],
                            value |-> Number(SubSeq(b.data, b.rcur + 1, b.rcur + width))]
      BY <2>2 DEF Read
    <3>2. b.rcur <= b.rcur + width /\ b.rcur + width <= Len(b.data) /\ b.rcur + width \in Nat
      BY <1>1, <2>2
    <3>3. SubSeq(b.data, b.rcur + 1, b.rcur + width) \in Seq(Byte)
      BY <1>1, <3>2, Slice
    <3>4. Number(SubSeq(b.data, b.rcur + 1, b.rcur + width)) \in Int
      <4>1. ASSUME NEW s \in Seq(Byte) PROVE Number(s) \in Int
        <5>1. PICK r \in [1 .. Len(s) + 1 -> Int] : Sums(s, r)
          BY NumberAre
        <5>2. 1 \in 1 .. Len(s) + 1
          OBVIOUS
        <5> QED BY <5>1, <5>2 DEF Sums
      <4> QED BY <3>3, <4>1
    <3>5. [b EXCEPT !.rcur = @ + width] \in FullBuffer
      BY <1>1, <3>2 DEF FullBuffer, Buffer
    <3> QED BY <3>1, <3>4, <3>5 DEF AnyValue
  <2> QED BY <2>1, <2>2
<1>3. BufferReadString(b).buffer \in FullBuffer /\ BufferReadString(b).value \in AnyValue
  <2> DEFINE z == {i \in b.rcur + 1 .. Len(b.data) : b.data[i] = 0}
  <2>1. CASE BufferReadString(b) = [buffer |-> b, value |-> NoString]
    <3>1. NoString \in Seq(Int)
      BY DEF NoString
    <3> QED BY <2>1, <3>1 DEF AnyValue
  <2>2. ASSUME NEW end \in z,
               BufferReadString(b) = [buffer |-> [b EXCEPT !.rcur = end],
                                      value |-> SubSeq(b.data, b.rcur + 1, end - 1)]
        PROVE  BufferReadString(b).buffer \in FullBuffer /\ BufferReadString(b).value \in AnyValue
    <3>1. end \in Nat /\ end - 1 \in Nat /\ b.rcur <= end - 1 /\ end - 1 <= Len(b.data)
      BY <1>1
    <3>2. SubSeq(b.data, b.rcur + 1, end - 1) \in Seq(Byte)
      BY <1>1, <3>1, Slice
    <3>3. SubSeq(b.data, b.rcur + 1, end - 1) \in Seq(Int)
      <4>1. Byte \subseteq Int
        BY DEF Byte
      <4> QED BY <3>2, <4>1, SeqMonotonic, Zenon
    <3>4. [b EXCEPT !.rcur = end] \in FullBuffer
      BY <1>1, <3>1 DEF FullBuffer, Buffer
    <3> QED BY <2>2, <3>3, <3>4 DEF AnyValue
  <2> HIDE DEF z
  <2>3. \/ BufferReadString(b) = [buffer |-> b, value |-> NoString]
        \/ \E end \in z : BufferReadString(b) =
                    [buffer |-> [b EXCEPT !.rcur = end],
                     value |-> SubSeq(b.data, b.rcur + 1, end - 1)]
    BY ReadString DEF z
  <2> QED BY <2>1, <2>2, <2>3
<1>4. 4 \in Nat /\ 1 \in Nat
  OBVIOUS
<1> QED BY <1>2, <1>3, <1>4, ReadByType DEF ColumnType

\* Where the bytes of a column are, it is read.
LEMMA ReadColumn ==
  ASSUME NEW b \in FullBuffer, NEW c \in Column, b.rcur + Len(Enc(c)) <= b.size,
         \A j \in 1 .. Len(Enc(c)) : b.data[b.rcur + j] = Enc(c)[j]
  PROVE  /\ ReadValue(b, c.type).value = c.value
         /\ ReadValue(b, c.type).buffer = [b EXCEPT !.rcur = @ + Len(Enc(c))]
<1>1. b \in Buffer /\ b.size = Len(b.data) /\ b.data \in Seq(Byte) /\ b.rcur \in Nat /\ b.size \in Nat
  BY DEF FullBuffer, Buffer
<1>2. Enc(c) \in Seq(Byte) /\ Len(Enc(c)) \in Nat
  BY EncodedColumn
<1>3. ASSUME NEW width \in Nat, Len(Enc(c)) = width
      PROVE  /\ Read(b, width).value = Number(Enc(c))
             /\ Read(b, width).buffer = [b EXCEPT !.rcur = @ + Len(Enc(c))]
  <2>1. Read(b, width) = [buffer |-> [b EXCEPT !.rcur = @ + width],
                          value |-> Number(SubSeq(b.data, b.rcur + 1, b.rcur + width))]
    BY <1>1, <1>3 DEF Read
  <2> DEFINE s == SubSeq(b.data, b.rcur + 1, b.rcur + width)
             q == b.rcur + width
  <2>2. q \in Nat /\ b.rcur <= q /\ q <= Len(b.data) /\ q - b.rcur = width
    BY <1>1, <1>3
  <2>3. /\ SubSeq(b.data, b.rcur + 1, q) \in Seq(Byte) /\ Len(SubSeq(b.data, b.rcur + 1, q)) = q - b.rcur
        /\ \A i \in 1 .. q - b.rcur : SubSeq(b.data, b.rcur + 1, q)[i] = b.data[b.rcur + i]
    <3> HIDE DEF q
    <3> QED BY <1>1, <2>2, Slice
  <2>4. s \in Seq(Byte) /\ Len(s) = width /\ \A i \in 1 .. width : s[i] = Enc(c)[i]
    BY <1>3, <2>2, <2>3
  <2> HIDE DEF s
  <2>5. s = Enc(c)
    BY <1>2, <1>3, <2>4
  <2>6. Read(b, width).value = Number(SubSeq(b.data, b.rcur + 1, b.rcur + width))
    BY <2>1
  <2>7. Read(b, width).buffer = [b EXCEPT !.rcur = @ + width]
    BY <2>1
  <2> QED BY <1>3, <2>5, <2>6, <2>7, Zenon DEF s
<1>4. CASE c \in [type : {"INT32", "FLOAT32"}, value : Int32]
  <2>1. Enc(c) = Bytes(c.value, 4) /\ c.value \in Int32 /\ c.type \in {"INT32", "FLOAT32"}
    BY <1>4 DEF Enc
  <2>2. Len(Enc(c)) = 4 /\ Number(Enc(c)) = c.value /\ 4 \in Nat
    BY <2>1, FourBytes
  <2>3. ReadValue(b, c.type) = Read(b, 4)
    BY <2>1, ReadByType
  <2> QED BY <1>3, <2>2, <2>3
<1>5. CASE c \in [type : {"BOOL"}, value : Byte]
  <2>1. Enc(c) = Bytes(c.value, 1) /\ c.value \in Byte /\ c.type = "BOOL"
    BY <1>5 DEF Enc
  <2>2. Len(Enc(c)) = 1 /\ Number(Enc(c)) = c.value /\ 1 \in Nat
    BY <2>1, OneByte
  <2>3. ReadValue(b, c.type) = Read(b, 1)
    BY <2>1, ReadByType
  <2> QED BY <1>3, <2>2, <2>3
<1>6. CASE c \in [type : {"STRING"}, value : Seq(Byte \ {0})]
  <2>1. /\ Enc(c) = Append(c.value, 0) /\ c.value \in Seq(Byte \ {0}) /\ c.type = "STRING"
        /\ c.value \in Seq(Byte)
    BY <1>6 DEF Enc
  <2> DEFINE m == Len(c.value)
             z == {i \in b.rcur + 1 .. Len(b.data) : b.data[i] = 0}
  <2>2. /\ m \in Nat /\ Len(Enc(c)) = m + 1 /\ Enc(c)[m + 1] = 0
        /\ \A j \in 1 .. m : Enc(c)[j] = c.value[j] /\ c.value[j] # 0
    BY <2>1
  <2>3. b.rcur + (m + 1) \in z /\ \A j \in 1 .. m : b.rcur + j \notin z
    <3>1. m + 1 \in 1 .. Len(Enc(c)) /\ \A j \in 1 .. m : j \in 1 .. Len(Enc(c))
      BY <2>2
    <3>2. b.data[b.rcur + (m + 1)] = 0 /\ \A j \in 1 .. m : b.data[b.rcur + j] # 0
      BY <2>2, <3>1
    <3>3. b.rcur + (m + 1) \in b.rcur + 1 .. Len(b.data)
      BY <1>1, <2>2
    <3> QED BY <3>2, <3>3
  <2>4. z \subseteq Nat /\ \A i \in z : i >= b.rcur + 1
    BY <1>1
  <2>5. \/ z = {} /\ BufferReadString(b) = [buffer |-> b, value |-> NoString]
        \/ \E end \in z :
              /\ \A j \in z : end <= j
              /\ BufferReadString(b) =
                   [buffer |-> [b EXCEPT !.rcur = end],
                    value |-> SubSeq(b.data, b.rcur + 1, end - 1)]
    <3> HIDE DEF z
    <3> QED BY ReadString DEF z
  <2> HIDE DEF z
  <2>6. PICK end \in z : /\ \A j \in z : end <= j
                         /\ BufferReadString(b) =
                              [buffer |-> [b EXCEPT !.rcur = end],
                               value |-> SubSeq(b.data, b.rcur + 1, end - 1)]
    BY <2>3, <2>5
  <2>7. end = b.rcur + (m + 1)
    <3>1. end \in Nat /\ end >= b.rcur + 1 /\ end <= b.rcur + (m + 1)
      BY <2>3, <2>4, <2>6
    <3>2. \A x, y \in Nat : y >= x + 1 /\ y <= x + (m + 1) =>
             (\E j \in 1 .. m : y = x + j) \/ y = x + (m + 1)
      <4>1. ASSUME NEW x \in Nat, NEW y \in Nat, y >= x + 1, y <= x + (m + 1), y # x + (m + 1)
            PROVE  y - x \in 1 .. m /\ y = x + (y - x)
        BY <2>2, <4>1
      <4> QED BY <4>1
    <3>3. (\E j \in 1 .. m : end = b.rcur + j) \/ end = b.rcur + (m + 1)
      BY <1>1, <3>1, <3>2
    <3> QED BY <2>3, <3>3
  <2> DEFINE q == end - 1
             s == SubSeq(b.data, b.rcur + 1, q)
  <2>8. q \in Nat /\ b.rcur <= q /\ q <= Len(b.data) /\ q - b.rcur = m
    BY <1>1, <2>2, <2>7
  <2>9. s \in Seq(Byte) /\ Len(s) = q - b.rcur /\ \A i \in 1 .. q - b.rcur : s[i] = b.data[b.rcur + i]
    <3> HIDE DEF q
    <3> QED BY <1>1, <2>8, Slice
  <2> HIDE DEF s
  <2>10. \A i \in 1 .. m : s[i] = c.value[i]
    <3>1. \A i \in 1 .. m : i \in 1 .. Len(Enc(c))
      BY <2>2
    <3> QED BY <2>2, <2>8, <2>9, <3>1
  <2>11. s = c.value
    BY <2>1, <2>2, <2>8, <2>9, <2>10
  <2>12. ReadValue(b, c.type) = BufferReadString(b)
    BY <2>1, ReadByType
  <2>13. ReadValue(b, c.type).value = c.value
    BY <2>6, <2>11, <2>12 DEF s
  <2>14. ReadValue(b, c.type).buffer = [b EXCEPT !.rcur = @ + Len(Enc(c))]
    BY <2>2, <2>6, <2>7, <2>12
  <2> QED BY <2>13, <2>14
<1> QED BY <1>4, <1>5, <1>6 DEF Column
\* A row that is being read.
SchemeColumn == [type : ColumnType, name : Seq(Byte \ {0})]
Reader == [buffer : FullBuffer, row : Seq(AnyCell)]
NextCell(r, col) ==
    [buffer |-> ReadValue(r.buffer, col.type).buffer,
     row |-> Append(r.row, [type |-> col.type, value |-> ReadValue(r.buffer, col.type).value])]
ReadFold(columns, buffer, h) ==
    [s \in SUBSET DOMAIN columns |->
       IF s = {} THEN [buffer |-> buffer, row |-> <<>>] ELSE NextCell(h[s \ {Max(s)}], columns[Max(s)])]

LEMMA RowReads ==
  ASSUME NEW scheme, scheme.columns \in Seq(SchemeColumn),
         NEW buffer \in FullBuffer
  PROVE  \E w \in [0 .. Len(scheme.columns) -> Reader] :
            /\ w[0] = [buffer |-> buffer, row |-> <<>>]
            /\ row_deserialize(scheme, buffer) = w[Len(scheme.columns)].row
            /\ \A i \in 1 .. Len(scheme.columns) : w[i] = NextCell(w[i - 1], scheme.columns[i])
<1> DEFINE cols == scheme.columns
           n == Len(cols)
           base == [buffer |-> buffer, row |-> <<>>]
           step == [i \in 1 .. n |-> [a \in Reader |-> NextCell(a, cols[i])]]
           h == CHOOSE f : f = ReadFold(cols, buffer, f)
<1>0. cols \in Seq(SchemeColumn)
  OBVIOUS
<1>2. base \in Reader
  BY DEF Reader
<1> HIDE DEF cols
<1>1. n \in Nat /\ DOMAIN cols = 1 .. n /\ \A i \in 1 .. n : cols[i].type \in ColumnType
  <2>1. n \in Nat /\ DOMAIN cols = 1 .. n /\ \A i \in 1 .. n : cols[i] \in SchemeColumn
    BY <1>0
  <2> HIDE DEF n
  <2> QED BY <2>1 DEF SchemeColumn
<1>3. ASSUME NEW i \in 1 .. n, NEW a \in Reader PROVE NextCell(a, cols[i]) \in Reader
  <2> DEFINE t == cols[i].type
             v == ReadValue(a.buffer, t)
  <2>1. t \in ColumnType /\ a.buffer \in FullBuffer /\ a.row \in Seq(AnyCell)
    BY <1>1 DEF Reader
  <2> HIDE DEF t
  <2>2. v.buffer \in FullBuffer /\ v.value \in AnyValue
    BY <2>1, ReadIsTyped
  <2> HIDE DEF v
  <2>3. Append(a.row, [type |-> t, value |-> v.value]) \in Seq(AnyCell)
    BY <2>1, <2>2 DEF AnyCell
  <2> QED BY <2>2, <2>3 DEF NextCell, Reader, t, v
<1>4. step \in [1 .. n -> [Reader -> Reader]]
      /\ \A i \in 1 .. n : \A a \in Reader : step[i][a] = NextCell(a, cols[i])
  BY <1>3
<1> HIDE DEF step, n, base
<1>5. PICK g \in [SUBSET (1 .. n) -> Reader] : UpFold(g, n, base, step)
  BY <1>1, <1>2, <1>4, FoldsExist
<1>6. g = ReadFold(cols, buffer, g)
  <2>1. ASSUME NEW s \in SUBSET (1 .. n)
        PROVE  g[s] = IF s = {} THEN base ELSE NextCell(g[s \ {Max(s)}], cols[Max(s)])
    <3>1. CASE s = {}
      BY <1>5, <3>1 DEF UpFold
    <3>2. CASE s # {}
      <4>1. Max(s) \in 1 .. n /\ g[s \ {Max(s)}] \in Reader
        BY <1>1, <3>2, Ends
      <4>2. g[s] = step[Max(s)][g[s \ {Max(s)}]]
        BY <1>5, <3>2 DEF UpFold
      <4> QED BY <1>4, <3>2, <4>1, <4>2
    <3> QED BY <3>1, <3>2
  <2> QED BY <1>1, <2>1 DEF ReadFold, base
<1>7. h = ReadFold(cols, buffer, h)
  <2> HIDE DEF ReadFold
  <2> QED BY <1>6
<1>8. row_deserialize(scheme, buffer) = h[DOMAIN cols].row
  <2>1. row_deserialize(scheme, buffer) = FoldLeft(NextCell, [buffer |-> buffer, row |-> <<>>], cols).row
    BY Zenon DEF row_deserialize, NextCell, ReadValue, cols
  <2> QED BY <2>1, SMT DEF FoldLeft, MapThenFoldSet, ReadFold
<1> HIDE DEF h
<1>9. h[{}] = base /\ \A s \in SUBSET (1 .. n) : s # {} => h[s] = NextCell(h[s \ {Max(s)}], cols[Max(s)])
  BY <1>1, <1>7 DEF ReadFold, base
<1>10. Grows(h, n, Reader, step)
  <2>1. \A s \in SUBSET (1 .. n) : s # {} => Max(s) \in 1 .. n
    BY <1>1, Ends
  <2>2. ASSUME NEW s \in SUBSET (1 .. n), s # {}, h[s \ {Max(s)}] \in Reader
        PROVE  h[s] = step[Max(s)][h[s \ {Max(s)}]]
    BY <2>2, <1>4, <1>9, <2>1
  <2> QED BY <2>2 DEF Grows
<1>11. PICK r \in [0 .. n -> Reader] : r[n] = h[1 .. n] /\ Upward(r, n, base, step)
  <2>1. UpChain(h, n, Reader, base, step)
    BY <1>1, <1>2, <1>4, <1>9, <1>10, FoldUp
  <2> QED BY <2>1 DEF UpChain
<1>12. \A i \in 1 .. n : r[i] = NextCell(r[i - 1], cols[i])
  <2>1. \A i \in 1 .. n : r[i - 1] \in Reader
    BY <1>1
  <2> QED BY <1>1, <1>4, <1>11, <2>1 DEF Upward
<1> QED BY <1>1, <1>8, <1>11, <1>12 DEF n, base, cols, Upward

\* What a column is after the end of a buffer.
Blank(type) == IF type = "STRING" THEN NoString ELSE 0

LEMMA ReadBeyond ==
  ASSUME NEW b \in FullBuffer, b.rcur = b.size, NEW type \in ColumnType
  PROVE  ReadValue(b, type) = [buffer |-> b, value |-> Blank(type)]
<1>1. b.size = Len(b.data) /\ b.size \in Nat
  BY DEF FullBuffer, Buffer
<1>2. Read(b, 4) = [buffer |-> b, value |-> 0] /\ Read(b, 1) = [buffer |-> b, value |-> 0]
  BY <1>1 DEF Read
<1>3. BufferReadString(b) = [buffer |-> b, value |-> NoString]
  <2>1. {i \in b.rcur + 1 .. Len(b.data) : b.data[i] = 0} = {}
    BY <1>1
  <2> QED BY <2>1 DEF BufferReadString
<1> QED BY <1>2, <1>3, ReadByType DEF ColumnType, Blank

\* A row that was written is read by its scheme as it was written: each column
\* has its value, whatever the values are and wherever the columns before it
\* end; a column that the row does not have is 0, and a string that it does
\* not have is no string (RowSerialize, row_deserialize).
THEOREM RowReadsBack ==
  ASSUME NEW row \in Seq(Column), NEW scheme,
         scheme.columns \in Seq(SchemeColumn),
         Len(row) <= Len(scheme.columns),
         \A i \in 1 .. Len(row) : scheme.columns[i].type = row[i].type
  PROVE  row_deserialize(scheme, RowSerialize(row)) =
           [i \in 1 .. Len(scheme.columns) |->
              IF i <= Len(row) THEN row[i]
              ELSE [type |-> scheme.columns[i].type, value |-> Blank(scheme.columns[i].type)]]
<1> DEFINE n == Len(row)
           cols == scheme.columns
           m == Len(cols)
           b == RowSerialize(row)
           Expected(i) == IF i <= n THEN row[i] ELSE [type |-> cols[i].type, value |-> Blank(cols[i].type)]
           ReadTo(i) == IF i <= n THEN i ELSE n
<1>0. PICK z \in [0 .. n -> Nat] : PieceEnds(n, Encodings(row), z) /\ HasPieces(b, n, Encodings(row), z)
  BY RowBytes
<1>1. /\ z[0] = 0 /\ \A i \in 1 .. n : z[i] = z[i - 1] + Len(Enc(row[i]))
      /\ \A i \in 0 .. n : z[i] <= z[n]
      /\ b \in Buffer /\ b.rcur = 0 /\ b.size = z[n] /\ Len(b.data) = z[n]
      /\ \A i \in 1 .. n : \A j \in 1 .. Len(Enc(row[i])) :
            b.data[z[i - 1] + j] = Enc(row[i])[j]
  <2>1. \A i \in 1 .. n : Encodings(row)[i] = Enc(row[i])
    BY DEF Encodings
  <2> HIDE DEF b, n
  <2>2. z[0] = 0 /\ \A i \in 1 .. n : z[i] = z[i - 1] + Len(Encodings(row)[i])
    BY <1>0 DEF PieceEnds
  <2>3. /\ \A i \in 0 .. n : z[i] <= z[n]
        /\ b \in Buffer /\ b.rcur = 0 /\ b.size = z[n] /\ Len(b.data) = z[n]
        /\ \A i \in 1 .. n : \A j \in 1 .. Len(Encodings(row)[i]) :
              b.data[z[i - 1] + j] = Encodings(row)[i][j]
    BY <1>0 DEF HasPieces
  <2>4. \A i \in 1 .. n : Encodings(row)[i] = Enc(row[i])
    BY <2>1 DEF n
  <2>5. \A i \in 1 .. n : z[i] = z[i - 1] + Len(Enc(row[i]))
    BY <2>2, <2>4
  <2>6. \A i \in 1 .. n : \A j \in 1 .. Len(Enc(row[i])) : b.data[z[i - 1] + j] = Enc(row[i])[j]
    BY <2>3, <2>4
  <2> QED BY <2>2, <2>3, <2>5, <2>6
<1>2. b \in FullBuffer
  BY <1>1 DEF FullBuffer
<1>3. PICK w \in [0 .. m -> Reader] :
            /\ w[0] = [buffer |-> b, row |-> <<>>]
            /\ row_deserialize(scheme, b) = w[m].row
            /\ \A i \in 1 .. m : w[i] = NextCell(w[i - 1], cols[i])
  <2> HIDE DEF b
  <2> QED BY <1>2, RowReads
<1>4. /\ n \in Nat /\ m \in Nat /\ n <= m
      /\ \A i \in 1 .. n : row[i] \in Column /\ row[i].type = cols[i].type
      /\ \A i \in 1 .. m : cols[i].type \in ColumnType
  <2>1. cols \in Seq(SchemeColumn) /\ n <= m
        /\ n \in Nat /\ \A i \in 1 .. n : row[i] \in Column /\ row[i].type = cols[i].type
    OBVIOUS
  <2> HIDE DEF cols, n
  <2>2. m \in Nat /\ \A i \in 1 .. m : cols[i] \in SchemeColumn
    BY <2>1
  <2> HIDE DEF m
  <2> QED BY <2>1, <2>2 DEF SchemeColumn
<1> HIDE DEF n, m, cols, b
<1> DEFINE T == {i \in 0 .. m : /\ w[i].buffer = [b EXCEPT !.rcur = z[ReadTo(i)]]
                                /\ Len(w[i].row) = i
                                /\ \A k \in 1 .. i : w[i].row[k] = Expected(k)}
<1>5. b = [b EXCEPT !.rcur = z[0]] /\ b.data \in Seq(Byte) /\ b.size = Len(b.data) /\ b.size \in Nat
  BY <1>1 DEF Buffer
<1>6. 0 \in T
  <2>1. ReadTo(0) = 0 /\ 0 \in 0 .. m
    BY <1>4
  <2>2. w[0].buffer = b /\ w[0].row = <<>>
    BY <1>3
  <2> HIDE DEF ReadTo
  <2> QED BY <1>5, <2>1, <2>2
<1>7. ASSUME NEW i \in 1 .. m, i - 1 \in T PROVE i \in T
  <2> DEFINE v == w[i - 1].buffer
             t == cols[i].type
  <2>1. /\ v = [b EXCEPT !.rcur = z[ReadTo(i - 1)]] /\ Len(w[i - 1].row) = i - 1
        /\ \A k \in 1 .. i - 1 : w[i - 1].row[k] = Expected(k)
    BY <1>7
  <2>2. /\ w[i - 1] \in Reader /\ w[i] \in Reader /\ i \in 0 .. m /\ t \in ColumnType
        /\ w[i] = NextCell(w[i - 1], cols[i]) /\ i - 1 \in 0 .. m
    <3>1. i \in 0 .. m /\ i - 1 \in 0 .. m
      BY <1>4
    <3>2. w[i - 1] \in Reader /\ w[i] \in Reader /\ w[i] = NextCell(w[i - 1], cols[i])
      BY <1>3, <3>1
    <3>3. t \in ColumnType
      BY <1>4
    <3> QED BY <3>1, <3>2, <3>3
  <2>3. v \in FullBuffer /\ w[i - 1].row \in Seq(AnyCell)
    BY <2>2 DEF Reader
  <2> HIDE DEF v, t
  <2>4. w[i].buffer = ReadValue(v, t).buffer
        /\ w[i].row = Append(w[i - 1].row, [type |-> t, value |-> ReadValue(v, t).value])
    BY <2>2 DEF NextCell, v, t
  <2>5. /\ ReadValue(v, t).buffer = [b EXCEPT !.rcur = z[ReadTo(i)]]
        /\ [type |-> t, value |-> ReadValue(v, t).value] = Expected(i)
    <3>1. CASE i <= n
      <4>1. i \in 1 .. n /\ ReadTo(i - 1) = i - 1 /\ ReadTo(i) = i /\ i - 1 \in 0 .. n
        BY <1>4, <3>1
      <4>2. row[i] \in Column /\ row[i].type = t /\ Expected(i) = row[i]
        BY <1>4, <3>1, <4>1 DEF t
      <4> HIDE DEF ReadTo, Expected
      <4>3. v = [b EXCEPT !.rcur = z[i - 1]] /\ b \in Buffer
        BY <1>1, <2>1, <4>1
      <4>4. v.rcur = z[i - 1] /\ v.data = b.data /\ v.size = b.size
        BY <4>3 DEF Buffer
      <4>5. /\ v.rcur + Len(Enc(row[i])) = z[i] /\ z[i] <= v.size
            /\ \A j \in 1 .. Len(Enc(row[i])) : v.data[v.rcur + j] = Enc(row[i])[j]
        <5>1. z[i] = z[i - 1] + Len(Enc(row[i])) /\ z[i] <= z[n] /\ b.size = z[n]
          BY <1>1, <4>1
        <5>2. \A j \in 1 .. Len(Enc(row[i])) : b.data[z[i - 1] + j] = Enc(row[i])[j]
          BY <1>1, <4>1
        <5> QED BY <4>4, <5>1, <5>2
      <4>6. /\ ReadValue(v, row[i].type).value = row[i].value
            /\ ReadValue(v, row[i].type).buffer = [v EXCEPT !.rcur = @ + Len(Enc(row[i]))]
        <5>1. v.rcur + Len(Enc(row[i])) <= v.size
              /\ \A j \in 1 .. Len(Enc(row[i])) : v.data[v.rcur + j] = Enc(row[i])[j]
          BY <4>5
        <5> QED BY <2>3, <4>2, <5>1, ReadColumn
      <4>7. [v EXCEPT !.rcur = @ + Len(Enc(row[i]))] = [b EXCEPT !.rcur = z[i]]
        <5>1. [v EXCEPT !.rcur = @ + Len(Enc(row[i]))] = [v EXCEPT !.rcur = z[i]]
          BY <4>5
        <5> QED BY <4>3, <5>1 DEF Buffer
      <4>8. [type |-> row[i].type, value |-> row[i].value] = row[i]
        BY <4>2 DEF Column
      <4> QED BY <4>1, <4>2, <4>6, <4>7, <4>8
    <3>2. CASE ~ (i <= n)
      <4>6. Expected(i) = [type |-> t, value |-> Blank(t)]
        BY <3>2 DEF t
      <4> HIDE DEF Expected
      <4>7. ReadTo(i - 1) = n /\ ReadTo(i) = n
        BY <1>4, <3>2
      <4>1. ReadTo(i - 1) = n /\ ReadTo(i) = n /\ Expected(i) = [type |-> t, value |-> Blank(t)]
        BY <4>6, <4>7
      <4> HIDE DEF ReadTo
      <4>2. v = [b EXCEPT !.rcur = z[n]] /\ b \in Buffer /\ b.size = z[n]
        BY <1>1, <2>1, <4>1
      <4>3. v.rcur = v.size
        BY <4>2 DEF Buffer
      <4>4. ReadValue(v, t) = [buffer |-> v, value |-> Blank(t)]
        BY <2>2, <2>3, <4>3, ReadBeyond
      <4>5. ReadValue(v, t).buffer = v /\ ReadValue(v, t).value = Blank(t)
        BY <4>4
      <4> QED BY <4>1, <4>2, <4>5
    <3> QED BY <3>1, <3>2
  <2> HIDE DEF ReadTo, Expected
  <2>6. Len(w[i].row) = i /\ w[i].row[i] = Expected(i)
        /\ \A k \in 1 .. i - 1 : w[i].row[k] = w[i - 1].row[k]
    <3>1. w[i].row = Append(w[i - 1].row, Expected(i)) /\ w[i].row \in Seq(AnyCell)
      BY <2>2, <2>4, <2>5 DEF Reader
    <3> QED BY <2>1, <2>3, <3>1
  <2>7. \A k \in 1 .. i : w[i].row[k] = Expected(k)
    <3>1. \A k \in 1 .. i : k = i \/ k \in 1 .. i - 1
      BY <1>4
    <3> QED BY <2>1, <2>6, <3>1
  <2> QED BY <2>2, <2>4, <2>5, <2>6, <2>7
<1>8. Len(w[m].row) = m /\ \A k \in 1 .. m : w[m].row[k] = Expected(k)
  <2>1. m \in T
    <3> HIDE DEF T
    <3>1. \A i \in 0 .. m : i \in T
      BY <1>4, <1>6, <1>7, Climb
    <3>2. m \in 0 .. m
      BY <1>4
    <3> QED BY <3>1, <3>2
  <2> HIDE DEF ReadTo, Expected
  <2> QED BY <2>1
<1>9. w[m].row \in Seq(AnyCell)
  BY <1>4 DEF Reader
<1> HIDE DEF T, ReadTo
<1>10. w[m].row = [i \in 1 .. m |-> Expected(i)]
  <2> HIDE DEF Expected
  <2>1. w[m].row = [i \in 1 .. m |-> w[m].row[i]]
    BY <1>8, <1>9
  <2> QED BY <1>8, <2>1
<1> QED BY <1>3, <1>10 DEF n, m, cols, b
-----------------------------------------------------------------------------
(***************************************************************************)
(* Schemes                                                                 *)
(***************************************************************************)
\* A number of 8 bytes: its upper 4 bytes are one of 4.
Int64 == {n \in Int : (n \div 65536) \div 65536 \in Int32}
TableScheme == {s \in [pool_offset : Int64, name : Seq(Byte \ {0}), columns : Seq(SchemeColumn)] :
             Len(s.columns) \in Int32}

LEMMA EightBytes ==
  ASSUME NEW n \in Int64
  PROVE  Bytes(n, 8) \in Seq(Byte) /\ Len(Bytes(n, 8)) = 8 /\ Number(Bytes(n, 8)) = n
<1> DEFINE width == 8
<1>0. (n \div 65536) \div 65536 \in Int32
  BY DEF Int64
<1>1. n \in Int /\ width \in Nat /\ width \in Nat \ {0} /\ width > 1
  BY DEF Int64
<1> HIDE DEF width
<1>2. PICK l \in [0 .. width -> Int] : Digits(n, width, l)
  BY <1>1, BytesDigits
<1>3. \A i \in 1 .. 7 : i \in 1 .. width /\ i \in 0 .. width
  BY SMT DEF width
<1>4. \A i \in 1 .. 7 : l[i] = l[i - 1] \div 256 /\ l[i] \in Int
  <2>1. \A i \in 1 .. width : l[i] = l[i - 1] \div 256
    BY <1>2 DEF Digits
  <2> QED BY <1>3, <2>1, Zenon
<1>5. l[1] = n \div 256 /\ l[2] = l[1] \div 256 /\ l[3] = l[2] \div 256 /\ l[4] = l[3] \div 256
  <2>1. 1 \in 1 .. 7 /\ 2 \in 1 .. 7 /\ 3 \in 1 .. 7 /\ 4 \in 1 .. 7
        /\ 1 - 1 = 0 /\ 2 - 1 = 1 /\ 3 - 1 = 2 /\ 4 - 1 = 3
    OBVIOUS
  <2>2. l[0] = n /\ l[1] = l[1 - 1] \div 256 /\ l[2] = l[2 - 1] \div 256
        /\ l[3] = l[3 - 1] \div 256 /\ l[4] = l[4 - 1] \div 256
    BY <1>2, <1>4, <2>1, Zenon DEF Digits
  <2> QED BY <2>1, <2>2
<1>6. l[5] = l[4] \div 256 /\ l[6] = l[5] \div 256 /\ l[7] = l[6] \div 256
  <2>1. 5 \in 1 .. 7 /\ 6 \in 1 .. 7 /\ 7 \in 1 .. 7 /\ 5 - 1 = 4 /\ 6 - 1 = 5 /\ 7 - 1 = 6
    OBVIOUS
  <2>2. l[5] = l[5 - 1] \div 256 /\ l[6] = l[6 - 1] \div 256 /\ l[7] = l[7 - 1] \div 256
    BY <1>4, <2>1, Zenon
  <2> QED BY <2>1, <2>2
<1>7. \A k \in Int : k \div 65536 = (k \div 256) \div 256
  OBVIOUS
<1>8. l[2] = n \div 65536 /\ l[4] = l[2] \div 65536
  <2>1. l[2] \in Int
    BY <1>4
  <2> QED BY <1>1, <1>5, <1>7, <2>1
<1>9. l[4] \in Int32
  BY <1>0, <1>8
<1>11. l[7] \in Small
  BY <1>6, <1>9, UpperByte
<1>14. l[width - 1] \in Small
  BY <1>11, SMT DEF width
<1>15. Number(Bytes(n, width)) = n
  BY <1>1, <1>2, <1>14, NumberOfBytes
<1> QED BY <1>2, <1>15 DEF width, Digits

ColumnPiece(col) == Bytes(TypeNumber[col.type], 4) \o Append(col.name, 0)
SchemePieces(scheme) ==
    [i \in 1 .. 3 + Len(scheme.columns) |->
       CASE i = 1 -> Bytes(scheme.pool_offset, 8)
         [] i = 2 -> Append(scheme.name, 0)
         [] i = 3 -> Bytes(Len(scheme.columns), 4)
         [] OTHER -> ColumnPiece(scheme.columns[i - 3])]

LEMMA NamePiece ==
  ASSUME NEW name \in Seq(Byte \ {0})
  PROVE  Append(name, 0) \in Seq(Byte) /\ Len(Append(name, 0)) = Len(name) + 1 /\ Len(name) \in Nat
<1>1. name \in Seq(Byte) /\ 0 \in Byte
  BY DEF Byte
<1> QED BY <1>1

LEMMA TypePiece ==
  ASSUME NEW type \in ColumnType
  PROVE  TypeNumber[type] \in Int32 /\ TypeOf(TypeNumber[type]) = type
<1>1. /\ DOMAIN TypeNumber = ColumnType
      /\ TypeNumber["INT32"] = 1 /\ TypeNumber["FLOAT32"] = 2
      /\ TypeNumber["STRING"] = 3 /\ TypeNumber["BOOL"] = 4
  BY DEF TypeNumber, ColumnType
<1>2. \A t, u \in ColumnType : TypeNumber[t] = TypeNumber[u] => t = u
  BY <1>1 DEF ColumnType
<1>3. TypeNumber[type] \in Int32
  BY <1>1 DEF ColumnType, Int32
<1>4. TypeOf(TypeNumber[type]) \in ColumnType
      /\ TypeNumber[TypeOf(TypeNumber[type])] = TypeNumber[type]
  BY <1>1 DEF TypeOf
<1> QED BY <1>2, <1>3, <1>4

LEMMA ColumnPieces ==
  ASSUME NEW col \in SchemeColumn
  PROVE  /\ ColumnPiece(col) \in Seq(Byte) /\ Len(ColumnPiece(col)) = (Len(col.name) + 1) + 4
         /\ Len(col.name) \in Nat
<1>1. col.type \in ColumnType /\ col.name \in Seq(Byte \ {0})
  BY DEF SchemeColumn
<1> DEFINE x == Bytes(TypeNumber[col.type], 4)
           y == Append(col.name, 0)
<1>2. x \in Seq(Byte) /\ Len(x) = 4
  BY <1>1, TypePiece, FourBytes
<1>3. y \in Seq(Byte) /\ Len(y) = Len(col.name) + 1 /\ Len(col.name) \in Nat
  BY <1>1, NamePiece
<1> HIDE DEF x, y
<1>4. x \o y \in Seq(Byte) /\ Len(x \o y) = Len(x) + Len(y)
  BY <1>2, <1>3, ConcatProperties
<1>5. 4 + (Len(col.name) + 1) = (Len(col.name) + 1) + 4
  BY <1>3
<1> QED BY <1>2, <1>3, <1>4, <1>5 DEF ColumnPiece, x, y

SizeOfHeader(scheme) == 8 + (Len(scheme.name) + 1) + 4
AddColumn(n, col) == n + (Len(col.name) + 1) + 4
SizeFold(scheme, h) ==
    [s \in SUBSET DOMAIN scheme.columns |->
       IF s = {} THEN SizeOfHeader(scheme) ELSE AddColumn(h[s \ {Max(s)}], scheme.columns[Max(s)])]

LEMMA SchemeSizes ==
  ASSUME NEW scheme \in TableScheme
  PROVE  \E y \in [0 .. Len(scheme.columns) -> Nat] :
            /\ y[0] = SizeOfHeader(scheme) /\ table_scheme_size(scheme) = y[Len(scheme.columns)]
            /\ \A i \in 1 .. Len(scheme.columns) : y[i] = AddColumn(y[i - 1], scheme.columns[i])
<1> DEFINE cols == scheme.columns
           n == Len(cols)
           base == SizeOfHeader(scheme)
           step == [i \in 1 .. n |-> [a \in Nat |-> AddColumn(a, cols[i])]]
           h == CHOOSE f : f = SizeFold(scheme, f)
<1>0. cols \in Seq(SchemeColumn) /\ scheme.name \in Seq(Byte \ {0})
  BY DEF TableScheme
<1>1. base \in Nat
  BY <1>0, NamePiece DEF SizeOfHeader
<1> HIDE DEF cols, base
<1>2. n \in Nat /\ DOMAIN cols = 1 .. n /\ \A i \in 1 .. n : cols[i] \in SchemeColumn
  BY <1>0
<1> HIDE DEF n
<1>3. \A i \in 1 .. n : \A a \in Nat : AddColumn(a, cols[i]) \in Nat
  BY <1>2, ColumnPieces DEF AddColumn
<1>4. step \in [1 .. n -> [Nat -> Nat]]
      /\ \A i \in 1 .. n : \A a \in Nat : step[i][a] = AddColumn(a, cols[i])
  BY <1>3
<1> HIDE DEF step
<1>5. PICK g \in [SUBSET (1 .. n) -> Nat] : UpFold(g, n, base, step)
  BY <1>1, <1>2, <1>4, FoldsExist
<1>6. g = SizeFold(scheme, g)
  <2>1. ASSUME NEW s \in SUBSET (1 .. n)
        PROVE  g[s] = IF s = {} THEN base ELSE AddColumn(g[s \ {Max(s)}], cols[Max(s)])
    <3>1. CASE s = {}
      BY <1>5, <3>1 DEF UpFold
    <3>2. CASE s # {}
      <4>1. Max(s) \in 1 .. n /\ g[s \ {Max(s)}] \in Nat
        BY <1>2, <3>2, Ends
      <4>2. g[s] = step[Max(s)][g[s \ {Max(s)}]]
        BY <1>5, <3>2 DEF UpFold
      <4> QED BY <1>4, <3>2, <4>1, <4>2
    <3> QED BY <3>1, <3>2
  <2> QED BY <1>2, <2>1 DEF SizeFold, base, cols
<1>7. h = SizeFold(scheme, h)
  <2> HIDE DEF SizeFold
  <2> QED BY <1>6
<1>8. table_scheme_size(scheme) = h[DOMAIN cols]
  BY DEF table_scheme_size, FoldLeft, MapThenFoldSet, SizeFold, SizeOfHeader, AddColumn, cols
<1> HIDE DEF h
<1>9. h[{}] = base /\ \A s \in SUBSET (1 .. n) : s # {} => h[s] = AddColumn(h[s \ {Max(s)}], cols[Max(s)])
  BY <1>2, <1>7 DEF SizeFold, base, cols
<1>10. Grows(h, n, Nat, step)
  <2>1. \A s \in SUBSET (1 .. n) : s # {} => Max(s) \in 1 .. n
    BY <1>2, Ends
  <2>2. ASSUME NEW s \in SUBSET (1 .. n), s # {}, h[s \ {Max(s)}] \in Nat
        PROVE  h[s] = step[Max(s)][h[s \ {Max(s)}]]
    BY <2>2, <1>4, <1>9, <2>1
  <2> QED BY <2>2 DEF Grows
<1>11. PICK r \in [0 .. n -> Nat] : r[n] = h[1 .. n] /\ Upward(r, n, base, step)
  <2>1. UpChain(h, n, Nat, base, step)
    BY <1>1, <1>2, <1>4, <1>9, <1>10, FoldUp
  <2> QED BY <2>1 DEF UpChain
<1>12. \A i \in 1 .. n : r[i] = AddColumn(r[i - 1], cols[i])
  <2>1. \A i \in 1 .. n : r[i - 1] \in Nat
    BY <1>2
  <2> QED BY <1>4, <1>11, <2>1 DEF Upward
<1> QED BY <1>2, <1>8, <1>11, <1>12 DEF n, base, cols, Upward

Header(scheme) ==
    Write(BufferWriteString(Write(BufferNew(table_scheme_size(scheme)), Bytes(scheme.pool_offset, 8)),
                            scheme.name),
          Bytes(Len(scheme.columns), 4))
PutColumn(buffer, col) == BufferWriteString(Write(buffer, Bytes(TypeNumber[col.type], 4)), col.name)
SchemeFold(scheme, h) ==
    [s \in SUBSET DOMAIN scheme.columns |->
       IF s = {} THEN Header(scheme) ELSE PutColumn(h[s \ {Max(s)}], scheme.columns[Max(s)])]

LEMMA SchemeWrites ==
  ASSUME NEW scheme \in TableScheme
  PROVE  \E w \in [0 .. Len(scheme.columns) -> Buffer] :
            /\ w[0] = Header(scheme) /\ table_scheme_serialize(scheme) = w[Len(scheme.columns)]
            /\ \A i \in 1 .. Len(scheme.columns) : w[i] = PutColumn(w[i - 1], scheme.columns[i])
<1> DEFINE cols == scheme.columns
           n == Len(cols)
           base == Header(scheme)
           step == [i \in 1 .. n |-> [a \in Buffer |-> PutColumn(a, cols[i])]]
           h == CHOOSE f : f = SchemeFold(scheme, f)
<1>0. cols \in Seq(SchemeColumn) /\ scheme.name \in Seq(Byte \ {0}) /\ scheme.pool_offset \in Int64
      /\ n \in Int32
  BY DEF TableScheme
<1>1. base \in Buffer
  <2>1. table_scheme_size(scheme) \in Nat
    <3>1. n \in 0 .. n
      BY <1>0
    <3> HIDE DEF cols
    <3> QED BY <1>0, <3>1, SchemeSizes DEF cols
  <2>2. BufferNew(table_scheme_size(scheme)) \in Buffer
    BY <2>1 DEF BufferNew, Buffer
  <2>3. Bytes(scheme.pool_offset, 8) \in Seq(Byte) /\ Append(scheme.name, 0) \in Seq(Byte)
        /\ Bytes(n, 4) \in Seq(Byte)
    BY <1>0, EightBytes, FourBytes, NamePiece
  <2> HIDE DEF n
  <2> QED BY <2>2, <2>3, WriteKeepsBuffer DEF Header, BufferWriteString, n
<1> HIDE DEF cols, base
<1>2. n \in Nat /\ DOMAIN cols = 1 .. n /\ \A i \in 1 .. n : cols[i] \in SchemeColumn
  BY <1>0
<1> HIDE DEF n
<1>3. ASSUME NEW i \in 1 .. n, NEW a \in Buffer PROVE PutColumn(a, cols[i]) \in Buffer
  <2>1. cols[i].type \in ColumnType /\ cols[i].name \in Seq(Byte \ {0})
    BY <1>2 DEF SchemeColumn
  <2>2. Bytes(TypeNumber[cols[i].type], 4) \in Seq(Byte) /\ Append(cols[i].name, 0) \in Seq(Byte)
    BY <2>1, TypePiece, FourBytes, NamePiece
  <2> QED BY <2>2, WriteKeepsBuffer DEF PutColumn, BufferWriteString
<1>4. step \in [1 .. n -> [Buffer -> Buffer]]
      /\ \A i \in 1 .. n : \A a \in Buffer : step[i][a] = PutColumn(a, cols[i])
  BY <1>3
<1> HIDE DEF step
<1>5. PICK g \in [SUBSET (1 .. n) -> Buffer] : UpFold(g, n, base, step)
  BY <1>1, <1>2, <1>4, FoldsExist
<1>6. g = SchemeFold(scheme, g)
  <2>1. ASSUME NEW s \in SUBSET (1 .. n)
        PROVE  g[s] = IF s = {} THEN base ELSE PutColumn(g[s \ {Max(s)}], cols[Max(s)])
    <3>1. CASE s = {}
      BY <1>5, <3>1 DEF UpFold
    <3>2. CASE s # {}
      <4>1. Max(s) \in 1 .. n /\ g[s \ {Max(s)}] \in Buffer
        BY <1>2, <3>2, Ends
      <4>2. g[s] = step[Max(s)][g[s \ {Max(s)}]]
        BY <1>5, <3>2 DEF UpFold
      <4> QED BY <1>4, <3>2, <4>1, <4>2
    <3> QED BY <3>1, <3>2
  <2> QED BY <1>2, <2>1 DEF SchemeFold, base, cols
<1>7. h = SchemeFold(scheme, h)
  <2> HIDE DEF SchemeFold
  <2> QED BY <1>6
<1>8. table_scheme_serialize(scheme) = h[DOMAIN cols]
  BY DEF table_scheme_serialize, FoldLeft, MapThenFoldSet, SchemeFold, Header, PutColumn, cols
<1> HIDE DEF h
<1>9. h[{}] = base /\ \A s \in SUBSET (1 .. n) : s # {} => h[s] = PutColumn(h[s \ {Max(s)}], cols[Max(s)])
  BY <1>2, <1>7 DEF SchemeFold, base, cols
<1>10. Grows(h, n, Buffer, step)
  <2>1. \A s \in SUBSET (1 .. n) : s # {} => Max(s) \in 1 .. n
    BY <1>2, Ends
  <2>2. ASSUME NEW s \in SUBSET (1 .. n), s # {}, h[s \ {Max(s)}] \in Buffer
        PROVE  h[s] = step[Max(s)][h[s \ {Max(s)}]]
    BY <2>2, <1>4, <1>9, <2>1
  <2> QED BY <2>2 DEF Grows
<1>11. PICK r \in [0 .. n -> Buffer] : r[n] = h[1 .. n] /\ Upward(r, n, base, step)
  <2>1. UpChain(h, n, Buffer, base, step)
    BY <1>1, <1>2, <1>4, <1>9, <1>10, FoldUp
  <2> QED BY <2>1 DEF UpChain
<1>12. \A i \in 1 .. n : r[i] = PutColumn(r[i - 1], cols[i])
  <2>1. \A i \in 1 .. n : r[i - 1] \in Buffer
    BY <1>2
  <2> QED BY <1>4, <1>11, <2>1 DEF Upward
<1> QED BY <1>2, <1>8, <1>11, <1>12 DEF n, base, cols, Upward
LEMMA SchemePiecesAre ==
  ASSUME NEW scheme \in TableScheme
  PROVE  /\ Len(scheme.columns) \in Nat
         /\ SchemePieces(scheme)[1] = Bytes(scheme.pool_offset, 8)
         /\ SchemePieces(scheme)[2] = Append(scheme.name, 0)
         /\ SchemePieces(scheme)[3] = Bytes(Len(scheme.columns), 4)
         /\ \A i \in 1 .. Len(scheme.columns) :
               SchemePieces(scheme)[3 + i] = ColumnPiece(scheme.columns[i])
         /\ \A i \in 1 .. 3 + Len(scheme.columns) :
               i = 1 \/ i = 2 \/ i = 3 \/ (i - 3 \in 1 .. Len(scheme.columns) /\ i = 3 + (i - 3))
<1> DEFINE cols == scheme.columns
           n == Len(cols)
           e == SchemePieces(scheme)
           second == Append(scheme.name, 0)
<1>1. n \in Nat
  <2>1. cols \in Seq(SchemeColumn)
    BY DEF TableScheme
  <2> HIDE DEF cols
  <2> QED BY <2>1
<1>2. \A i \in 1 .. 3 + n : e[i] = IF i = 1 THEN Bytes(scheme.pool_offset, 8)
                                   ELSE IF i = 2 THEN second
                                   ELSE IF i = 3 THEN Bytes(n, 4)
                                   ELSE ColumnPiece(cols[i - 3])
  BY SMT DEF SchemePieces
<1> HIDE DEF n, cols, e, second
<1>3. 1 \in 1 .. 3 + n /\ 2 \in 1 .. 3 + n /\ 3 \in 1 .. 3 + n
  BY <1>1, SMT
<1>4. e[1] = Bytes(scheme.pool_offset, 8) /\ e[2] = second /\ e[3] = Bytes(n, 4)
  <2>1. e[1] = Bytes(scheme.pool_offset, 8)
    BY <1>2, <1>3, SMT
  <2>2. e[2] = second
    BY <1>2, <1>3, SMT
  <2>3. e[3] = Bytes(n, 4)
    BY <1>2, <1>3, SMT
  <2> QED BY <2>1, <2>2, <2>3
<1>5. ASSUME NEW i \in 1 .. n PROVE e[3 + i] = ColumnPiece(cols[i])
  <2>1. 3 + i \in 1 .. 3 + n /\ (3 + i) - 3 = i /\ 3 + i # 1 /\ 3 + i # 2 /\ 3 + i # 3
    BY <1>1, SMT
  <2> QED BY <1>2, <2>1
<1>6. \A i \in 1 .. 3 + n : i = 1 \/ i = 2 \/ i = 3 \/ (i - 3 \in 1 .. n /\ i = 3 + (i - 3))
  BY <1>1, SMT
<1> QED BY <1>1, <1>4, <1>5, <1>6 DEF n, cols, e, second

LEMMA WriteTwo ==
  ASSUME NEW b \in Buffer, NEW x \in Seq(Byte), NEW y \in Seq(Byte),
         Len(b.data) + Len(x \o y) <= b.size
  PROVE  Write(Write(b, x), y) = Write(b, x \o y)
<1> DEFINE d == b.data
           c == [b EXCEPT !.data = @ \o x]
<1>1. d \in Seq(Byte) /\ Len(d) \in Nat /\ Len(x) \in Nat /\ Len(y) \in Nat /\ b.size \in Nat
  BY DEF Buffer
<1>2. Len(x \o y) = Len(x) + Len(y) /\ Len(d \o x) = Len(d) + Len(x)
  BY <1>1, Joined
<1>0. Len(d) + Len(x \o y) <= b.size
  OBVIOUS
<1>3. Len(d) + Len(x) + Len(y) <= b.size /\ Len(d) + Len(x) <= b.size
  <2> HIDE DEF d
  <2>1. Len(d) + (Len(x) + Len(y)) <= b.size
    BY <1>0, <1>2
  <2> QED BY <1>1, <2>1
<1>4. Write(b, x) = c
  BY <1>1, <1>3 DEF Write
<1>5. c.data = d \o x /\ c.size = b.size
  BY DEF Buffer
<1>6. Write(c, y) = [c EXCEPT !.data = @ \o y]
  BY <1>1, <1>2, <1>3, <1>5 DEF Write
<1>7. [c EXCEPT !.data = @ \o y] = [b EXCEPT !.data = (@ \o x) \o y]
  BY DEF Buffer
<1>8. (d \o x) \o y = d \o (x \o y)
  <2> HIDE DEF d
  <2> QED BY <1>1, ConcatAssociative
<1>9. Write(b, x \o y) = [b EXCEPT !.data = @ \o (x \o y)]
  <2>1. ~ (Len(d) + Len(x \o y) > b.size)
    <3> HIDE DEF d
    <3> QED BY <1>0, <1>1, <1>2
  <2> QED BY <2>1 DEF Write
<1> QED BY <1>4, <1>6, <1>7, <1>8, <1>9

\* The buffer of a scheme has its offset, its name, how many columns it has,
\* and the columns.
LEMMA SchemeBytes ==
  ASSUME NEW scheme \in TableScheme
  PROVE  \E z \in [0 .. 3 + Len(scheme.columns) -> Nat] :
            /\ PieceEnds(3 + Len(scheme.columns), SchemePieces(scheme), z)
            /\ HasPieces(table_scheme_serialize(scheme), 3 + Len(scheme.columns), SchemePieces(scheme), z)
<1> DEFINE cols == scheme.columns
           n == Len(cols)
           m == 3 + n
           e == SchemePieces(scheme)
           size == table_scheme_size(scheme)
<1>1. /\ n \in Nat /\ e[1] = Bytes(scheme.pool_offset, 8) /\ e[2] = Append(scheme.name, 0)
      /\ e[3] = Bytes(n, 4) /\ \A i \in 1 .. n : e[3 + i] = ColumnPiece(cols[i])
      /\ \A i \in 1 .. m : i = 1 \/ i = 2 \/ i = 3 \/ (i - 3 \in 1 .. n /\ i = 3 + (i - 3))
  BY SchemePiecesAre
<1>2. PICK y \in [0 .. n -> Nat] :
            /\ y[0] = SizeOfHeader(scheme) /\ size = y[n]
            /\ \A i \in 1 .. n : y[i] = AddColumn(y[i - 1], cols[i])
  BY SchemeSizes
<1>3. PICK w \in [0 .. n -> Buffer] :
            /\ w[0] = Header(scheme) /\ table_scheme_serialize(scheme) = w[n]
            /\ \A i \in 1 .. n : w[i] = PutColumn(w[i - 1], cols[i])
  BY SchemeWrites
<1>4. /\ scheme.pool_offset \in Int64 /\ scheme.name \in Seq(Byte \ {0}) /\ n \in Int32
      /\ cols \in Seq(SchemeColumn)
  BY DEF TableScheme
<1> HIDE DEF cols, e, size
<1>5. \A i \in 1 .. n : cols[i] \in SchemeColumn
  BY <1>4
<1> HIDE DEF n
<1>6. /\ e[1] \in Seq(Byte) /\ Len(e[1]) = 8
      /\ e[2] \in Seq(Byte) /\ Len(e[2]) = Len(scheme.name) + 1 /\ Len(scheme.name) \in Nat
      /\ e[3] \in Seq(Byte) /\ Len(e[3]) = 4
  BY <1>1, <1>4, EightBytes, FourBytes, NamePiece
<1>7. \A i \in 1 .. n : /\ e[3 + i] \in Seq(Byte) /\ Len(e[3 + i]) = (Len(cols[i].name) + 1) + 4
                        /\ Len(e[3 + i]) \in Nat /\ Len(cols[i].name) \in Nat
  <2>1. ASSUME NEW i \in 1 .. n
        PROVE  /\ e[3 + i] \in Seq(Byte) /\ Len(e[3 + i]) = (Len(cols[i].name) + 1) + 4
               /\ Len(cols[i].name) \in Nat
    <3>1. e[3 + i] = ColumnPiece(cols[i]) /\ cols[i] \in SchemeColumn
      BY <1>1, <1>5
    <3> QED BY <3>1, ColumnPieces
  <2>2. \A k \in Nat : (k + 1) + 4 \in Nat
    OBVIOUS
  <2> QED BY <2>1, <2>2
<1>8. m \in Nat /\ 0 \in 0 .. m /\ 1 \in 0 .. m /\ 2 \in 0 .. m /\ 3 \in 0 .. m /\ 0 \in 0 .. n
  BY <1>1, SMT
<1> HIDE DEF m
<1>9. \A i \in 1 .. m : e[i] \in Seq(Byte) /\ Len(e[i]) \in Nat
  <2>1. ASSUME NEW i \in 1 .. m PROVE e[i] \in Seq(Byte) /\ Len(e[i]) \in Nat
    <3>1. CASE i = 1 \/ i = 2 \/ i = 3
      BY <1>6, <3>1
    <3>2. CASE i - 3 \in 1 .. n /\ i = 3 + (i - 3)
      BY <1>7, <3>2
    <3>3. i = 1 \/ i = 2 \/ i = 3 \/ (i - 3 \in 1 .. n /\ i = 3 + (i - 3))
      BY <1>1 DEF m
    <3> QED BY <3>1, <3>2, <3>3
  <2> QED BY <2>1
<1> DEFINE z == [i \in 0 .. m |-> IF i = 0 THEN 0 ELSE IF i = 1 THEN 8
                                  ELSE IF i = 2 THEN 8 + (Len(scheme.name) + 1) ELSE y[i - 3]]
           b0 == BufferNew(size)
           b1 == Write(b0, e[1])
           b2 == Write(b1, e[2])
           v == [i \in 0 .. m |-> IF i = 0 THEN b0 ELSE IF i = 1 THEN b1
                                  ELSE IF i = 2 THEN b2 ELSE w[i - 3]]
<1>10. b0 \in Buffer /\ b1 \in Buffer /\ b2 \in Buffer /\ w[0] = Write(b2, e[3])
  <2>1. b0 \in Buffer
    BY <1>2, <1>8 DEF BufferNew, Buffer, n
  <2>2. b1 \in Buffer
    BY <1>6, <2>1, WriteKeepsBuffer
  <2>3. b2 \in Buffer
    BY <1>6, <2>2, WriteKeepsBuffer
  <2>4. w[0] = Write(b2, e[3])
    BY <1>1, <1>3 DEF Header, BufferWriteString, size, n, cols
  <2> QED BY <2>1, <2>2, <2>3, <2>4
<1> HIDE DEF b0, b1, b2
<1>11. \A i \in 0 .. m : i = 0 \/ i = 1 \/ i = 2 \/ (i - 3 \in 0 .. n /\ i # 0 /\ i # 1 /\ i # 2)
  BY <1>1 DEF m
<1>12. z \in [0 .. m -> Nat] /\ v \in [0 .. m -> Buffer]
  <2>1. 8 \in Nat /\ 8 + (Len(scheme.name) + 1) \in Nat /\ 0 \in Nat
    BY <1>6
  <2> QED BY <1>10, <1>11, <2>1
<1>13. /\ z[0] = 0 /\ z[1] = 8 /\ z[2] = 8 + (Len(scheme.name) + 1) /\ z[3] = y[0]
       /\ v[0] = b0 /\ v[1] = b1 /\ v[2] = b2 /\ v[3] = w[0]
  BY <1>8
<1>14. \A i \in 0 .. n : 3 + i \in 0 .. m /\ z[3 + i] = y[i] /\ v[3 + i] = w[i]
  <2>1. ASSUME NEW i \in 0 .. n
        PROVE  3 + i \in 0 .. m /\ (3 + i) - 3 = i /\ 3 + i # 0 /\ 3 + i # 1 /\ 3 + i # 2
    BY <1>1 DEF m
  <2> QED BY <2>1
<1> HIDE DEF z, v
<1>15. \A i \in 1 .. n : i - 1 \in 0 .. n /\ i \in 0 .. n /\ (3 + i) - 1 = 3 + (i - 1)
  BY <1>1
<1>16. n \in 0 .. n /\ m = 3 + n
  BY <1>1 DEF m
<1>17. PieceEnds(m, e, z)
  <2>1. z[1] = z[0] + Len(e[1]) /\ z[2] = z[1] + Len(e[2]) /\ z[3] = z[2] + Len(e[3])
    BY <1>2, <1>6, <1>13 DEF SizeOfHeader
  <2>2. \A i \in 1 .. n : z[3 + i] = z[(3 + i) - 1] + Len(e[3 + i])
    <3>1. ASSUME NEW i \in 1 .. n PROVE z[3 + i] = z[(3 + i) - 1] + Len(e[3 + i])
      <4>1. z[3 + i] = y[i] /\ z[(3 + i) - 1] = y[i - 1] /\ y[i - 1] \in Nat
        BY <1>14, <1>15
      <4>2. y[i] = y[i - 1] + (Len(cols[i].name) + 1) + 4
        BY <1>2 DEF AddColumn
      <4> QED BY <1>7, <4>1, <4>2
    <3> QED BY <3>1
  <2>3. ASSUME NEW i \in 1 .. m PROVE z[i] = z[i - 1] + Len(e[i])
    <3>1. CASE i = 1 \/ i = 2 \/ i = 3
      BY <2>1, <3>1
    <3>2. CASE i - 3 \in 1 .. n /\ i = 3 + (i - 3)
      BY <2>2, <3>2
    <3> QED BY <1>1, <1>16, <3>1, <3>2
  <2> QED BY <1>13, <2>3 DEF PieceEnds
<1>18. Writes(m, e, v)
  <2>1. v[1] = Write(v[0], e[1]) /\ v[2] = Write(v[1], e[2]) /\ v[3] = Write(v[2], e[3])
    BY <1>10, <1>13 DEF b1, b2
  <2>2. ASSUME NEW i \in 1 .. n, Len(v[(3 + i) - 1].data) + Len(e[3 + i]) <= v[(3 + i) - 1].size
        PROVE  v[3 + i] = Write(v[(3 + i) - 1], e[3 + i])
    <3> DEFINE x == Bytes(TypeNumber[cols[i].type], 4)
               u == Append(cols[i].name, 0)
    <3>1. v[3 + i] = w[i] /\ v[(3 + i) - 1] = w[i - 1] /\ w[i - 1] \in Buffer
      BY <1>14, <1>15
    <3>2. x \in Seq(Byte) /\ u \in Seq(Byte)
      <4>1. cols[i].type \in ColumnType /\ cols[i].name \in Seq(Byte \ {0})
        BY <1>5 DEF SchemeColumn
      <4> QED BY <4>1, TypePiece, FourBytes, NamePiece
    <3>3. e[3 + i] = x \o u
      BY <1>1 DEF ColumnPiece
    <3>4. w[i] = Write(Write(w[i - 1], x), u)
      BY <1>3 DEF PutColumn, BufferWriteString
    <3> HIDE DEF x, u
    <3>5. Len(w[i - 1].data) + Len(x \o u) <= w[i - 1].size
      BY <2>2, <3>1, <3>3
    <3>6. Write(Write(w[i - 1], x), u) = Write(w[i - 1], x \o u)
      BY <3>1, <3>2, <3>5, WriteTwo
    <3> QED BY <3>1, <3>3, <3>4, <3>6
  <2>3. ASSUME NEW i \in 1 .. m, Len(v[i - 1].data) + Len(e[i]) <= v[i - 1].size
        PROVE  v[i] = Write(v[i - 1], e[i])
    <3>1. CASE i = 1 \/ i = 2 \/ i = 3
      BY <2>1, <3>1
    <3>2. CASE i - 3 \in 1 .. n /\ i = 3 + (i - 3)
      BY <2>2, <2>3, <3>2
    <3> QED BY <1>1, <1>16, <3>1, <3>2
  <2> QED BY <2>3 DEF Writes
<1>19. v[0] = BufferNew(z[m]) /\ v[m] = table_scheme_serialize(scheme)
  BY <1>2, <1>3, <1>13, <1>14, <1>16 DEF b0
<1>20. HasPieces(v[m], m, e, z)
  BY <1>8, <1>9, <1>12, <1>17, <1>18, <1>19, Pieces
<1> QED BY <1>12, <1>17, <1>19, <1>20 DEF m, e, n, cols
-----------------------------------------------------------------------------
\* Bytes that are there are read.
LEMMA ReadBytes ==
  ASSUME NEW b \in FullBuffer, NEW e \in Seq(Byte), NEW width \in Nat, Len(e) = width,
         b.rcur + width <= b.size,
         \A j \in 1 .. width : b.data[b.rcur + j] = e[j]
  PROVE  Read(b, width) = [buffer |-> [b EXCEPT !.rcur = @ + width], value |-> Number(e)]
<1>1. b.size = Len(b.data) /\ b.data \in Seq(Byte) /\ b.rcur \in Nat /\ b.size \in Nat
  BY DEF FullBuffer, Buffer
<1>2. Read(b, width) = [buffer |-> [b EXCEPT !.rcur = @ + width],
                        value |-> Number(SubSeq(b.data, b.rcur + 1, b.rcur + width))]
  BY <1>1 DEF Read
<1> DEFINE q == b.rcur + width
           s == SubSeq(b.data, b.rcur + 1, q)
<1>3. q \in Nat /\ b.rcur <= q /\ q <= Len(b.data) /\ q - b.rcur = width
  BY <1>1
<1>4. s \in Seq(Byte) /\ Len(s) = q - b.rcur /\ \A i \in 1 .. q - b.rcur : s[i] = b.data[b.rcur + i]
  <2> HIDE DEF q
  <2> QED BY <1>1, <1>3, Slice
<1> HIDE DEF s
<1>5. s = e
  <2>1. \A i \in 1 .. Len(s) : s[i] = e[i]
    BY <1>3, <1>4
  <2> QED BY <1>3, <1>4, <2>1, SeqEqual
<1> QED BY <1>2, <1>5 DEF s

\* A name and the 0 after it are read as the name.
LEMMA ReadName ==
  ASSUME NEW b \in FullBuffer, NEW name \in Seq(Byte \ {0}), b.rcur + Len(Append(name, 0)) <= b.size,
         \A j \in 1 .. Len(Append(name, 0)) : b.data[b.rcur + j] = Append(name, 0)[j]
  PROVE  /\ BufferReadString(b).value = name
         /\ BufferReadString(b).buffer = [b EXCEPT !.rcur = @ + Len(Append(name, 0))]
<1> DEFINE c == [type |-> "STRING", value |-> name]
<1>1. c \in Column
  BY DEF Column
<1>2. Enc(c) = Append(name, 0)
  BY SMT DEF Enc
<1>3. c.type = "STRING" /\ c.value = name
  OBVIOUS
<1> HIDE DEF c
<1>4. /\ ReadValue(b, c.type).value = c.value
      /\ ReadValue(b, c.type).buffer = [b EXCEPT !.rcur = @ + Len(Enc(c))]
  BY <1>1, <1>2, ReadColumn
<1> QED BY <1>2, <1>3, <1>4, ReadByType

\* Any value of a type number, and any string, that a column may be read as.
AnyColumn == {[type |-> TypeOf(t), name |-> s] : t \in AnyValue, s \in AnyValue}
SchemeReader == [buffer : FullBuffer, columns : Seq(AnyColumn)]
NextColumn(r, i) ==
    [buffer |-> BufferReadString(Read(r.buffer, 4).buffer).buffer,
     columns |-> Append(r.columns,
        [type |-> TypeOf(Read(r.buffer, 4).value),
         name |-> BufferReadString(Read(r.buffer, 4).buffer).value])]
ColumnsFold(buffer, size, h) ==
    [s \in SUBSET DOMAIN [i \in 1 .. size |-> i] |->
       IF s = {} THEN [buffer |-> buffer, columns |-> <<>>]
       ELSE NextColumn(h[s \ {Max(s)}], [i \in 1 .. size |-> i][Max(s)])]

LEMMA ColumnsRead ==
  ASSUME NEW buffer \in FullBuffer, NEW n \in Nat
  PROVE  \E w \in [0 .. n -> SchemeReader] :
            /\ w[0] = [buffer |-> buffer, columns |-> <<>>]
            /\ read_columns(buffer, n) = w[n].columns
            /\ \A i \in 1 .. n : w[i] = NextColumn(w[i - 1], i)
<1> DEFINE base == [buffer |-> buffer, columns |-> <<>>]
           id == [i \in 1 .. n |-> i]
           step == [i \in 1 .. n |-> [a \in SchemeReader |-> NextColumn(a, i)]]
           h == CHOOSE f : f = ColumnsFold(buffer, n, f)
<1>1. DOMAIN id = 1 .. n /\ \A i \in 1 .. n : id[i] = i
  OBVIOUS
<1> HIDE DEF id
<1>2. base \in SchemeReader
  BY DEF SchemeReader
<1>3. ASSUME NEW i \in 1 .. n, NEW a \in SchemeReader PROVE NextColumn(a, i) \in SchemeReader
  <2> DEFINE x == Read(a.buffer, 4)
             y == BufferReadString(x.buffer)
  <2>1. a.buffer \in FullBuffer /\ a.columns \in Seq(AnyColumn)
    BY DEF SchemeReader
  <2>2. x.buffer \in FullBuffer /\ x.value \in AnyValue
    <3>1. "INT32" \in ColumnType
      BY DEF ColumnType
    <3> QED BY <2>1, <3>1, ReadIsTyped, ReadByType
  <2> HIDE DEF x
  <2>3. y.buffer \in FullBuffer /\ y.value \in AnyValue
    <3>1. "STRING" \in ColumnType
      BY DEF ColumnType
    <3> QED BY <2>2, <3>1, ReadIsTyped, ReadByType
  <2> HIDE DEF y
  <2>4. [type |-> TypeOf(x.value), name |-> y.value] \in AnyColumn
    BY <2>2, <2>3 DEF AnyColumn
  <2>5. Append(a.columns, [type |-> TypeOf(x.value), name |-> y.value]) \in Seq(AnyColumn)
    BY <2>1, <2>4
  <2> QED BY <2>3, <2>5 DEF NextColumn, SchemeReader, x, y
<1>4. step \in [1 .. n -> [SchemeReader -> SchemeReader]]
      /\ \A i \in 1 .. n : \A a \in SchemeReader : step[i][a] = NextColumn(a, i)
  BY <1>3
<1> HIDE DEF step, base
<1>5. PICK g \in [SUBSET (1 .. n) -> SchemeReader] : UpFold(g, n, base, step)
  BY <1>2, <1>4, FoldsExist
<1>6. g = ColumnsFold(buffer, n, g)
  <2>1. ASSUME NEW s \in SUBSET (1 .. n)
        PROVE  g[s] = IF s = {} THEN base ELSE NextColumn(g[s \ {Max(s)}], id[Max(s)])
    <3>1. CASE s = {}
      BY <1>5, <3>1 DEF UpFold
    <3>2. CASE s # {}
      <4>1. Max(s) \in 1 .. n /\ g[s \ {Max(s)}] \in SchemeReader
        BY <3>2, Ends
      <4>2. g[s] = step[Max(s)][g[s \ {Max(s)}]]
        BY <1>5, <3>2 DEF UpFold
      <4> QED BY <1>1, <1>4, <3>2, <4>1, <4>2
    <3> QED BY <3>1, <3>2
  <2> QED BY <1>1, <2>1 DEF ColumnsFold, base, id
<1>7. h = ColumnsFold(buffer, n, h)
  <2> HIDE DEF ColumnsFold
  <2> QED BY <1>6
<1>8. read_columns(buffer, n) = h[DOMAIN id].columns
  BY DEF read_columns, FoldLeft, MapThenFoldSet, ColumnsFold, NextColumn, id
<1> HIDE DEF h
<1>9. h[{}] = base /\ \A s \in SUBSET (1 .. n) : s # {} => h[s] = NextColumn(h[s \ {Max(s)}], id[Max(s)])
  BY <1>1, <1>7 DEF ColumnsFold, base, id
<1>10. Grows(h, n, SchemeReader, step)
  <2>1. \A s \in SUBSET (1 .. n) : s # {} => Max(s) \in 1 .. n
    BY Ends
  <2>2. ASSUME NEW s \in SUBSET (1 .. n), s # {}, h[s \ {Max(s)}] \in SchemeReader
        PROVE  h[s] = step[Max(s)][h[s \ {Max(s)}]]
    <3>1. Max(s) \in 1 .. n /\ id[Max(s)] = Max(s)
      BY <1>1, <2>1, <2>2
    <3>2. step[Max(s)][h[s \ {Max(s)}]] = NextColumn(h[s \ {Max(s)}], Max(s))
      BY <1>4, <2>2, <3>1, Zenon
    <3>3. h[s] = NextColumn(h[s \ {Max(s)}], Max(s))
      BY <1>9, <2>2, <3>1, Zenon
    <3> QED BY <3>2, <3>3
  <2> QED BY <2>2 DEF Grows
<1>11. PICK r \in [0 .. n -> SchemeReader] : r[n] = h[1 .. n] /\ Upward(r, n, base, step)
  <2>1. UpChain(h, n, SchemeReader, base, step)
    BY <1>2, <1>4, <1>9, <1>10, FoldUp
  <2> QED BY <2>1 DEF UpChain
<1>12. \A i \in 1 .. n : r[i] = NextColumn(r[i - 1], i)
  <2>1. \A i \in 1 .. n : r[i - 1] \in SchemeReader
    OBVIOUS
  <2> QED BY <1>4, <1>11, <2>1 DEF Upward
<1> QED BY <1>1, <1>8, <1>11, <1>12 DEF base, Upward
\* A buffer that is read up to p.
ReadTo(b, p) == [b EXCEPT !.rcur = p]

LEMMA AtIs ==
  ASSUME NEW b \in FullBuffer, NEW p \in Nat
  PROVE  /\ ReadTo(b, p) \in FullBuffer /\ ReadTo(b, p).rcur = p /\ ReadTo(b, p).data = b.data /\ ReadTo(b, p).size = b.size
         /\ \A k \in Nat : [ReadTo(b, p) EXCEPT !.rcur = @ + k] = ReadTo(b, p + k)
<1>1. ReadTo(b, p) \in FullBuffer /\ ReadTo(b, p).rcur = p /\ ReadTo(b, p).data = b.data /\ ReadTo(b, p).size = b.size
  BY DEF FullBuffer, Buffer, ReadTo
<1>2. ASSUME NEW k \in Nat PROVE [ReadTo(b, p) EXCEPT !.rcur = @ + k] = ReadTo(b, p + k)
  <2>1. [ReadTo(b, p) EXCEPT !.rcur = @ + k] = [ReadTo(b, p) EXCEPT !.rcur = p + k]
    BY <1>1
  <2>2. [[b EXCEPT !.rcur = p] EXCEPT !.rcur = p + k] = [b EXCEPT !.rcur = p + k]
    BY DEF FullBuffer, Buffer
  <2> QED BY <2>1, <2>2 DEF ReadTo
<1> QED BY <1>1, <1>2

\* One column of a scheme is read where its bytes are.
LEMMA ReadPiece ==
  ASSUME NEW b \in FullBuffer, NEW col \in SchemeColumn, NEW p \in Nat,
         p + Len(ColumnPiece(col)) <= b.size,
         \A j \in 1 .. Len(ColumnPiece(col)) : b.data[p + j] = ColumnPiece(col)[j]
  PROVE  /\ TypeOf(Read(ReadTo(b, p), 4).value) = col.type
         /\ BufferReadString(Read(ReadTo(b, p), 4).buffer).value = col.name
         /\ BufferReadString(Read(ReadTo(b, p), 4).buffer).buffer = ReadTo(b, p + Len(ColumnPiece(col)))
<1> DEFINE x == Bytes(TypeNumber[col.type], 4)
           u == Append(col.name, 0)
           e == ColumnPiece(col)
           q == p + 4
<1>1. col.type \in ColumnType /\ col.name \in Seq(Byte \ {0})
  BY DEF SchemeColumn
<1>2. /\ x \in Seq(Byte) /\ Len(x) = 4 /\ Number(x) = TypeNumber[col.type]
      /\ u \in Seq(Byte) /\ Len(u) \in Nat /\ e = x \o u
      /\ TypeOf(TypeNumber[col.type]) = col.type
  BY <1>1, TypePiece, FourBytes, NamePiece DEF ColumnPiece
<1>3. /\ p + Len(e) <= b.size /\ \A j \in 1 .. Len(e) : b.data[p + j] = e[j]
      /\ b.size \in Nat
  BY DEF FullBuffer, Buffer
<1> HIDE DEF x, u, e
<1>4. /\ Len(e) = 4 + Len(u) /\ \A j \in 1 .. 4 : e[j] = x[j]
      /\ \A j \in 1 .. Len(u) : e[4 + j] = u[j]
  <2>1. /\ Len(x \o u) = Len(x) + Len(u)
        /\ \A j \in 1 .. Len(x) : (x \o u)[j] = x[j]
        /\ \A j \in 1 .. Len(u) : (x \o u)[Len(x) + j] = u[j]
    BY <1>2, Joined, Zenon
  <2>2. Len(x) = 4 /\ e = x \o u
    BY <1>2
  <2> QED BY <2>1, <2>2, Zenon
<1>5. \A j \in 1 .. 4 : j \in 1 .. Len(e)
  BY <1>2, <1>4, SMT
<1>6. \A j \in 1 .. Len(u) : 4 + j \in 1 .. Len(e) /\ p + (4 + j) = q + j
  BY <1>2, <1>4, SMT
<1>7. q \in Nat /\ q + Len(u) = p + Len(e) /\ q <= b.size /\ 4 \in Nat
  BY <1>2, <1>3, <1>4, SMT
<1> HIDE DEF q
<1>8. \A j \in 1 .. 4 : b.data[p + j] = x[j]
  BY <1>3, <1>4, <1>5, Zenon
<1>9. \A j \in 1 .. Len(u) : b.data[q + j] = u[j]
  <2>1. ASSUME NEW j \in 1 .. Len(u) PROVE b.data[q + j] = u[j]
    <3>1. b.data[p + (4 + j)] = e[4 + j] /\ p + (4 + j) = q + j
      BY <1>3, <1>6
    <3> QED BY <1>4, <3>1
  <2> QED BY <2>1
<1>10. Read(ReadTo(b, p), 4) = [buffer |-> ReadTo(b, q), value |-> TypeNumber[col.type]]
  <2>1. ReadTo(b, p) \in FullBuffer /\ ReadTo(b, p).rcur = p /\ ReadTo(b, p).data = b.data /\ ReadTo(b, p).size = b.size
        /\ [ReadTo(b, p) EXCEPT !.rcur = @ + 4] = ReadTo(b, q)
    BY <1>7, AtIs DEF q
  <2>2. ReadTo(b, p).rcur + 4 <= ReadTo(b, p).size /\ \A j \in 1 .. 4 : ReadTo(b, p).data[ReadTo(b, p).rcur + j] = x[j]
    BY <1>7, <1>8, <2>1 DEF q
  <2>3. Read(ReadTo(b, p), 4) = [buffer |-> [ReadTo(b, p) EXCEPT !.rcur = @ + 4], value |-> Number(x)]
    BY <1>2, <1>7, <2>1, <2>2, ReadBytes
  <2> QED BY <1>2, <2>1, <2>3
<1>11. /\ BufferReadString(ReadTo(b, q)).value = col.name
       /\ BufferReadString(ReadTo(b, q)).buffer = ReadTo(b, p + Len(e))
  <2>1. ReadTo(b, q) \in FullBuffer /\ ReadTo(b, q).rcur = q /\ ReadTo(b, q).data = b.data /\ ReadTo(b, q).size = b.size
        /\ [ReadTo(b, q) EXCEPT !.rcur = @ + Len(u)] = ReadTo(b, p + Len(e))
    BY <1>2, <1>7, AtIs
  <2>2. ReadTo(b, q).rcur + Len(u) <= ReadTo(b, q).size
        /\ \A j \in 1 .. Len(u) : ReadTo(b, q).data[ReadTo(b, q).rcur + j] = u[j]
    BY <1>3, <1>7, <1>9, <2>1
  <2>3. /\ BufferReadString(ReadTo(b, q)).value = col.name
        /\ BufferReadString(ReadTo(b, q)).buffer = [ReadTo(b, q) EXCEPT !.rcur = @ + Len(u)]
    BY <1>1, <2>1, <2>2, ReadName, Zenon DEF u
  <2> QED BY <2>1, <2>3
<1>12. Read(ReadTo(b, p), 4).buffer = ReadTo(b, q) /\ Read(ReadTo(b, p), 4).value = TypeNumber[col.type]
  BY <1>10
<1> QED BY <1>2, <1>11, <1>12 DEF e

\* A scheme that was written is read as it was written: the offset of its heap,
\* its name, and every column with its type and name, for any number of
\* columns and names of any length (table_scheme_serialize,
\* table_scheme_deserialize).
THEOREM SchemeReadsBack ==
  ASSUME NEW scheme \in TableScheme
  PROVE  table_scheme_deserialize(table_scheme_serialize(scheme)) = scheme
<1> DEFINE cols == scheme.columns
           n == Len(cols)
           m == 3 + n
           e == SchemePieces(scheme)
           b == table_scheme_serialize(scheme)
<1>1. PICK z \in [0 .. m -> Nat] : PieceEnds(m, e, z) /\ HasPieces(b, m, e, z)
  BY SchemeBytes
<1>2. /\ n \in Nat /\ e[1] = Bytes(scheme.pool_offset, 8) /\ e[2] = Append(scheme.name, 0)
      /\ e[3] = Bytes(n, 4) /\ \A i \in 1 .. n : e[3 + i] = ColumnPiece(cols[i])
  BY SchemePiecesAre
<1>3. /\ scheme \in [pool_offset : Int64, name : Seq(Byte \ {0}), columns : Seq(SchemeColumn)]
      /\ scheme.pool_offset \in Int64 /\ scheme.name \in Seq(Byte \ {0}) /\ n \in Int32
      /\ cols \in Seq(SchemeColumn)
  BY DEF TableScheme
<1> HIDE DEF b, e, cols
<1>4. \A i \in 1 .. n : cols[i] \in SchemeColumn
  BY <1>3
<1>5. cols = [i \in 1 .. n |-> cols[i]]
  BY <1>3
<1> HIDE DEF n
<1>6. b \in FullBuffer /\ b.rcur = 0 /\ b.size = z[m]
  BY <1>1 DEF HasPieces, FullBuffer
<1>7. m \in Nat /\ 1 \in 1 .. m /\ 2 \in 1 .. m /\ 3 \in 1 .. m
      /\ 1 - 1 = 0 /\ 2 - 1 = 1 /\ 3 - 1 = 2 /\ 8 \in Nat /\ 4 \in Nat
  BY <1>2, SMT
<1> HIDE DEF m
<1>8. \A i \in 1 .. m : /\ z[i] = z[i - 1] + Len(e[i]) /\ z[i] \in Nat /\ z[i - 1] \in Nat
                        /\ z[i] <= b.size
                        /\ \A j \in 1 .. Len(e[i]) : b.data[z[i - 1] + j] = e[i][j]
  <2>1. ASSUME NEW i \in 1 .. m PROVE i \in 0 .. m /\ i - 1 \in 0 .. m
    BY <1>7
  <2>2. \A i \in 1 .. m : z[i] \in Nat /\ z[i - 1] \in Nat
    BY <2>1
  <2>3. \A i \in 1 .. m : z[i] = z[i - 1] + Len(e[i])
    BY <1>1 DEF PieceEnds
  <2>4. \A i \in 1 .. m : \A j \in 1 .. Len(e[i]) : b.data[z[i - 1] + j] = e[i][j]
    BY <1>1 DEF HasPieces
  <2>5. \A i \in 1 .. m : z[i] <= b.size
    BY <1>1, <1>6, <2>1 DEF HasPieces
  <2> QED BY <2>2, <2>3, <2>4, <2>5
<1>9. z[0] = 0 /\ ReadTo(b, z[0]) = b
  <2>1. z[0] = 0
    BY <1>1 DEF PieceEnds
  <2>2. b = [b EXCEPT !.rcur = 0]
    BY <1>6 DEF FullBuffer, Buffer
  <2> QED BY <2>1, <2>2 DEF ReadTo
<1>10. Read(b, 8) = [buffer |-> ReadTo(b, z[1]), value |-> scheme.pool_offset]
  <2>1. e[1] \in Seq(Byte) /\ Len(e[1]) = 8 /\ Number(e[1]) = scheme.pool_offset
    BY <1>2, <1>3, EightBytes
  <2>2. z[1] = b.rcur + 8 /\ z[1] <= b.size
        /\ \A j \in 1 .. 8 : b.data[b.rcur + j] = e[1][j]
    <3>1. /\ z[1] = z[1 - 1] + Len(e[1]) /\ z[1] <= b.size
          /\ \A j \in 1 .. Len(e[1]) : b.data[z[1 - 1] + j] = e[1][j]
      BY <1>7, <1>8, Zenon
    <3>2. z[1 - 1] = b.rcur /\ Len(e[1]) = 8
      BY <1>6, <1>9, <2>1
    <3> QED BY <3>1, <3>2, Zenon
  <2>3. Read(b, 8) = [buffer |-> [b EXCEPT !.rcur = @ + 8], value |-> Number(e[1])]
    BY <1>6, <1>7, <2>1, <2>2, ReadBytes
  <2>4. [b EXCEPT !.rcur = @ + 8] = [b EXCEPT !.rcur = z[1]]
    BY <2>2
  <2> QED BY <2>1, <2>3, <2>4 DEF ReadTo
<1>11. /\ BufferReadString(ReadTo(b, z[1])).value = scheme.name
       /\ BufferReadString(ReadTo(b, z[1])).buffer = ReadTo(b, z[2])
  <2> DEFINE u == Append(scheme.name, 0)
  <2>1. e[2] = u /\ Len(u) \in Nat
    BY <1>2, <1>3, NamePiece
  <2> HIDE DEF u
  <2>2. z[1] \in Nat /\ z[2] = z[1] + Len(u) /\ z[2] <= b.size
        /\ \A j \in 1 .. Len(u) : b.data[z[1] + j] = u[j]
    BY <1>7, <1>8, <2>1
  <2>3. ReadTo(b, z[1]) \in FullBuffer /\ ReadTo(b, z[1]).rcur = z[1] /\ ReadTo(b, z[1]).data = b.data
        /\ ReadTo(b, z[1]).size = b.size /\ [ReadTo(b, z[1]) EXCEPT !.rcur = @ + Len(u)] = ReadTo(b, z[2])
    BY <1>6, <2>1, <2>2, AtIs
  <2>4. ReadTo(b, z[1]).rcur + Len(u) <= ReadTo(b, z[1]).size
        /\ \A j \in 1 .. Len(u) : ReadTo(b, z[1]).data[ReadTo(b, z[1]).rcur + j] = u[j]
    BY <2>2, <2>3
  <2> DEFINE d == ReadTo(b, z[1])
  <2>5. /\ d \in FullBuffer /\ d.rcur + Len(u) <= d.size
        /\ \A j \in 1 .. Len(u) : d.data[d.rcur + j] = u[j]
    BY <2>3, <2>4
  <2> HIDE DEF d
  <2>6. /\ BufferReadString(d).value = scheme.name
        /\ BufferReadString(d).buffer = [d EXCEPT !.rcur = @ + Len(u)]
    BY <1>3, <2>5, ReadName, Zenon DEF u
  <2> QED BY <2>3, <2>6, Zenon DEF d
<1>12. Read(ReadTo(b, z[2]), 4) = [buffer |-> ReadTo(b, z[3]), value |-> n]
  <2>1. e[3] \in Seq(Byte) /\ Len(e[3]) = 4 /\ Number(e[3]) = n
    BY <1>2, <1>3, FourBytes
  <2>2. z[2] \in Nat /\ z[3] = z[2] + 4 /\ z[3] <= b.size
        /\ \A j \in 1 .. 4 : b.data[z[2] + j] = e[3][j]
    <3>1. /\ z[3] = z[3 - 1] + Len(e[3]) /\ z[3 - 1] \in Nat /\ z[3] <= b.size
          /\ \A j \in 1 .. Len(e[3]) : b.data[z[3 - 1] + j] = e[3][j]
      BY <1>7, <1>8, Zenon
    <3> QED BY <1>7, <2>1, <3>1, Zenon
  <2>3. ReadTo(b, z[2]) \in FullBuffer /\ ReadTo(b, z[2]).rcur = z[2] /\ ReadTo(b, z[2]).data = b.data
        /\ ReadTo(b, z[2]).size = b.size /\ [ReadTo(b, z[2]) EXCEPT !.rcur = @ + 4] = ReadTo(b, z[3])
    <3>1. ReadTo(b, z[2]) \in FullBuffer /\ ReadTo(b, z[2]).rcur = z[2] /\ ReadTo(b, z[2]).data = b.data
          /\ ReadTo(b, z[2]).size = b.size
          /\ \A k \in Nat : [ReadTo(b, z[2]) EXCEPT !.rcur = @ + k] = ReadTo(b, z[2] + k)
      BY <1>6, <2>2, AtIs, Zenon
    <3>2. [ReadTo(b, z[2]) EXCEPT !.rcur = @ + 4] = ReadTo(b, z[2] + 4)
      BY <1>7, <3>1, Zenon
    <3>3. z[3] = z[2] + 4
      BY <2>2
    <3> QED BY <3>1, <3>2, <3>3, Zenon
  <2>4. ReadTo(b, z[2]).rcur + 4 <= ReadTo(b, z[2]).size
        /\ \A j \in 1 .. 4 : ReadTo(b, z[2]).data[ReadTo(b, z[2]).rcur + j] = e[3][j]
    BY <2>2, <2>3
  <2>5. Read(ReadTo(b, z[2]), 4) = [buffer |-> [ReadTo(b, z[2]) EXCEPT !.rcur = @ + 4], value |-> Number(e[3])]
    BY <1>7, <2>1, <2>3, <2>4, ReadBytes
  <2> QED BY <2>1, <2>3, <2>5
<1>13. z[3] \in Nat /\ ReadTo(b, z[3]) \in FullBuffer
  BY <1>6, <1>7, <1>8, AtIs
<1>14. PICK w \in [0 .. n -> SchemeReader] :
            /\ w[0] = [buffer |-> ReadTo(b, z[3]), columns |-> <<>>]
            /\ read_columns(ReadTo(b, z[3]), n) = w[n].columns
            /\ \A i \in 1 .. n : w[i] = NextColumn(w[i - 1], i)
  BY <1>2, <1>13, ColumnsRead
<1> DEFINE T == {i \in 0 .. n : /\ w[i].buffer = ReadTo(b, z[3 + i]) /\ Len(w[i].columns) = i
                                /\ \A k \in 1 .. i : w[i].columns[k] = cols[k]}
<1>15. 0 \in T
  <2>1. 0 \in 0 .. n /\ 3 + 0 = 3
    BY <1>2
  <2>2. w[0].buffer = ReadTo(b, z[3]) /\ w[0].columns = <<>>
    BY <1>14
  <2> QED BY <2>1, <2>2
<1>16. ASSUME NEW i \in 1 .. n, i - 1 \in T PROVE i \in T
  <2>1. /\ w[i - 1].buffer = ReadTo(b, z[3 + (i - 1)]) /\ Len(w[i - 1].columns) = i - 1
        /\ \A k \in 1 .. i - 1 : w[i - 1].columns[k] = cols[k]
    BY <1>16
  <2>2. /\ i \in 0 .. n /\ i - 1 \in 0 .. n /\ 3 + i \in 1 .. m /\ (3 + i) - 1 = 3 + (i - 1)
    BY <1>2 DEF m
  <2> DEFINE p == z[3 + (i - 1)]
             piece == ColumnPiece(cols[i])
  <2>3. /\ p \in Nat /\ z[3 + i] = p + Len(piece) /\ z[3 + i] <= b.size
        /\ \A j \in 1 .. Len(piece) : b.data[p + j] = piece[j]
    <3>1. e[3 + i] = piece
      BY <1>2
    <3> HIDE DEF piece
    <3> QED BY <1>8, <2>2, <3>1
  <2> HIDE DEF p
  <2>4. p + Len(piece) <= b.size /\ cols[i] \in SchemeColumn
    BY <1>4, <2>3
  <2>5. /\ TypeOf(Read(ReadTo(b, p), 4).value) = cols[i].type
        /\ BufferReadString(Read(ReadTo(b, p), 4).buffer).value = cols[i].name
        /\ BufferReadString(Read(ReadTo(b, p), 4).buffer).buffer = ReadTo(b, p + Len(piece))
    BY <1>6, <2>3, <2>4, ReadPiece
  <2>6. w[i] = NextColumn(w[i - 1], i) /\ w[i - 1] \in SchemeReader /\ w[i] \in SchemeReader
    BY <1>14, <2>2
  <2>7. cols[i] = [type |-> cols[i].type, name |-> cols[i].name]
    BY <2>4 DEF SchemeColumn
  <2> HIDE DEF piece, T
  <2>8. /\ w[i].buffer = BufferReadString(Read(w[i - 1].buffer, 4).buffer).buffer
        /\ w[i].columns = Append(w[i - 1].columns,
              [type |-> TypeOf(Read(w[i - 1].buffer, 4).value),
               name |-> BufferReadString(Read(w[i - 1].buffer, 4).buffer).value])
    BY <2>6 DEF NextColumn
  <2>9. w[i - 1].buffer = ReadTo(b, p)
    BY <2>1 DEF p
  <2>10. w[i].buffer = ReadTo(b, z[3 + i]) /\ w[i].columns = Append(w[i - 1].columns, cols[i])
    BY <2>3, <2>5, <2>7, <2>8, <2>9
  <2>11. w[i - 1].columns \in Seq(AnyColumn) /\ w[i].columns \in Seq(AnyColumn)
    BY <2>6 DEF SchemeReader
  <2>12. Len(w[i].columns) = i /\ w[i].columns[i] = cols[i]
         /\ \A k \in 1 .. i - 1 : w[i].columns[k] = w[i - 1].columns[k]
    BY <2>1, <2>10, <2>11
  <2>13. \A k \in 1 .. i : k = i \/ k \in 1 .. i - 1
    OBVIOUS
  <2>14. \A k \in 1 .. i : w[i].columns[k] = cols[k]
    BY <2>1, <2>12, <2>13
  <2> QED BY <2>2, <2>10, <2>12, <2>14 DEF T
<1>17. Len(w[n].columns) = n /\ \A k \in 1 .. n : w[n].columns[k] = cols[k]
  <2>1. n \in T
    <3> HIDE DEF T
    <3>1. \A i \in 0 .. n : i \in T
      BY <1>2, <1>15, <1>16, Climb
    <3>2. n \in 0 .. n
      BY <1>2
    <3> QED BY <3>1, <3>2
  <2> QED BY <2>1
<1> HIDE DEF T
<1>18. w[n].columns = cols
  <2>1. w[n].columns \in Seq(AnyColumn) /\ n \in 0 .. n
    BY <1>2 DEF SchemeReader
  <2>2. w[n].columns = [i \in 1 .. n |-> w[n].columns[i]]
    BY <1>17, <2>1
  <2> QED BY <1>5, <1>17, <2>2
<1>19. table_scheme_deserialize(b) =
         [pool_offset |-> scheme.pool_offset, name |-> scheme.name, columns |-> cols]
  <2>1. Read(b, 8).buffer = ReadTo(b, z[1]) /\ Read(b, 8).value = scheme.pool_offset
    BY <1>10
  <2>2. Read(ReadTo(b, z[2]), 4).buffer = ReadTo(b, z[3]) /\ Read(ReadTo(b, z[2]), 4).value = n
    BY <1>12
  <2> QED BY <1>11, <1>14, <1>18, <2>1, <2>2 DEF table_scheme_deserialize
<1>20. scheme = [pool_offset |-> scheme.pool_offset, name |-> scheme.name, columns |-> cols]
  BY <1>3 DEF cols
<1> QED BY <1>19, <1>20 DEF b
===============================================================================
