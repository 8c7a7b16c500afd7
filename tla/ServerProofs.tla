----------------------------- MODULE ServerProofs -----------------------------
(***************************************************************************)
(* Proofs about Server: while it serves, the list is the live connections  *)
(* and nothing freed is used, but for the number the loop reads, for every *)
(* set of connections, number of requests and choice of faults.            *)
(***************************************************************************)
EXTENDS Server, SequenceTheorems, TLAPS

-----------------------------------------------------------------------------
(***************************************************************************)
(* Lists of connections                                                    *)
(***************************************************************************)
Lists == {s \in Seq(Conns) : IsInjective(s)}

LEMMA Appended ==
  ASSUME NEW s \in Lists, NEW c \in Conns, c \notin ToSet(s)
  PROVE  Append(s, c) \in Lists /\ ToSet(Append(s, c)) = ToSet(s) \cup {c}
<1>1. s \in Seq(Conns) /\ Len(s) \in Nat /\ DOMAIN s = 1 .. Len(s)
  BY DEF Lists
<1>2. /\ Append(s, c) \in Seq(Conns) /\ DOMAIN Append(s, c) = 1 .. Len(s) + 1
      /\ Append(s, c)[Len(s) + 1] = c /\ \A i \in 1 .. Len(s) : Append(s, c)[i] = s[i]
  BY <1>1
<1>3. \A i \in 1 .. Len(s) : s[i] # c
  BY <1>1 DEF ToSet
<1>4. IsInjective(Append(s, c))
  BY <1>1, <1>2, <1>3 DEF Lists, IsInjective
<1>5. ToSet(Append(s, c)) = ToSet(s) \cup {c}
  BY <1>1, <1>2 DEF ToSet
<1>6. QED
  BY <1>2, <1>4, <1>5 DEF Lists

LEMMA RemovedAt ==
  ASSUME NEW s \in Lists, NEW i \in 1 .. Len(s)
  PROVE  RemoveAt(s, i) \in Lists /\ ToSet(RemoveAt(s, i)) = ToSet(s) \ {s[i]}
<1> DEFINE a == SubSeq(s, 1, i - 1)
           b == SubSeq(s, i + 1, Len(s))
           t == a \o b
           n == Len(s) - 1
<1>1. s \in Seq(Conns) /\ Len(s) \in Nat /\ DOMAIN s = 1 .. Len(s) /\ i \in Nat /\ n \in Nat
  BY DEF Lists
<1>1a. i = Len(s) \/ i < Len(s)
  <2>1. \A m \in Nat : \A k \in 1 .. m : k = m \/ k < m
    OBVIOUS
  <2>2. QED
    BY <1>1, <2>1, Zenon
<1>2. a \in Seq(Conns) /\ Len(a) = i - 1 /\ \A j \in 1 .. i - 1 : a[j] = s[j]
  BY <1>1
<1>3. b \in Seq(Conns) /\ Len(b) = Len(s) - i /\ \A j \in 1 .. Len(s) - i : b[j] = s[i + j]
  <2>1. \A j \in i + 1 .. Len(s) : s[j] \in Conns
    BY <1>1
  <2>2. i + 1 \in Int /\ Len(s) \in Int
    BY <1>1
  <2>3. /\ b \in Seq(Conns) /\ Len(b) = IF i + 1 <= Len(s) THEN Len(s) - (i + 1) + 1 ELSE 0
        /\ \A j \in 1 .. Len(s) - (i + 1) + 1 : b[j] = s[i + 1 + j - 1]
    BY <2>1, <2>2, SubSeqProperties
  <2>4. Len(s) - (i + 1) + 1 = Len(s) - i /\ \A j \in 1 .. Len(s) - i : i + 1 + j - 1 = i + j
    BY <1>1
  <2>5. Len(b) = Len(s) - i
    <3>1. CASE i = Len(s)
      <4>1. ~ (i + 1 <= Len(s)) /\ Len(s) - i = 0
        BY <1>1, <3>1
      <4>2. QED
        BY <2>3, <4>1
    <3>2. CASE i < Len(s)
      <4>1. i + 1 <= Len(s)
        BY <1>1, <3>2
      <4>2. QED
        BY <2>3, <2>4, <4>1
    <3>3. QED
      BY <1>1a, <3>1, <3>2, Zenon
  <2>6. QED
    BY <2>3, <2>4, <2>5
<1> HIDE DEF a, b
<1>4. t \in Seq(Conns) /\ Len(t) = n /\ DOMAIN t = 1 .. n
  <2>1. t \in Seq(Conns) /\ Len(t) = Len(a) + Len(b)
    BY <1>2, <1>3, ConcatProperties
  <2>2. Len(a) + Len(b) = n
    BY <1>1, <1>2, <1>3
  <2>3. QED
    BY <2>1, <2>2
<1>5. \A j \in 1 .. n : t[j] = IF j < i THEN s[j] ELSE s[j + 1]
  <2> SUFFICES ASSUME NEW j \in 1 .. n PROVE t[j] = IF j < i THEN s[j] ELSE s[j + 1]
    OBVIOUS
  <2>0. t[j] = IF j <= Len(a) THEN a[j] ELSE b[j - Len(a)]
    <3>1. j \in 1 .. Len(a) + Len(b)
      BY <1>1, <1>2, <1>3
    <3>2. QED
      BY <1>2, <1>3, <3>1, ConcatProperties
  <2>1. CASE j < i
    BY <1>1, <1>2, <2>0, <2>1
  <2>2. CASE ~ (j < i)
    <3>1. t[j] = b[j - (i - 1)] /\ j - (i - 1) \in 1 .. Len(s) - i
      BY <1>1, <1>2, <2>0, <2>2
    <3>2. i + (j - (i - 1)) = j + 1
      BY <1>1
    <3>3. QED
      BY <1>3, <2>2, <3>1, <3>2
  <2>3. QED
    BY <2>1, <2>2
<1> HIDE DEF t
<1>6. IsInjective(t)
  <2> DEFINE from(j) == IF j < i THEN j ELSE j + 1
  <2>1. \A j \in 1 .. n : from(j) \in 1 .. Len(s) /\ t[j] = s[from(j)]
    BY <1>1, <1>5
  <2>2. \A j, k \in 1 .. n : from(j) = from(k) => j = k
    BY <1>1
  <2>3. \A j, k \in 1 .. Len(s) : s[j] = s[k] => j = k
    BY <1>1 DEF Lists, IsInjective
  <2> HIDE DEF from
  <2>4. ASSUME NEW j \in 1 .. n, NEW k \in 1 .. n, t[j] = t[k] PROVE j = k
    <3>1. s[from(j)] = s[from(k)]
      BY <2>1, <2>4
    <3>2. QED
      BY <2>1, <2>2, <2>3, <3>1
  <2>5. QED
    BY <1>4, <2>4, Zenon DEF IsInjective
<1>7. ToSet(t) = ToSet(s) \ {s[i]}
  <2>1. ASSUME NEW j \in 1 .. n PROVE t[j] \in ToSet(s) /\ t[j] # s[i]
    <3>1. PICK k \in 1 .. Len(s) : k # i /\ t[j] = s[k]
      <4>1. CASE j < i
        <5>1. j \in 1 .. Len(s) /\ j # i
          BY <1>1, <4>1
        <5>2. QED
          BY <1>5, <4>1, <5>1
      <4>2. CASE ~ (j < i)
        <5>1. j + 1 \in 1 .. Len(s) /\ j + 1 # i
          BY <1>1, <4>2
        <5>2. QED
          BY <1>5, <4>2, <5>1
      <4>3. QED
        BY <4>1, <4>2
    <3>2. QED
      BY <1>1, <3>1 DEF Lists, IsInjective, ToSet
  <2>2. ASSUME NEW j \in 1 .. Len(s), s[j] # s[i] PROVE \E k \in 1 .. n : t[k] = s[j]
    <3>1. CASE j < i
      BY <1>1, <1>5, <3>1
    <3>2. CASE j > i
      <4>1. j - 1 \in 1 .. n /\ ~ (j - 1 < i) /\ (j - 1) + 1 = j
        BY <1>1, <3>2
      <4>2. QED
        BY <1>5, <4>1
    <3>3. QED
      BY <1>1, <2>2, <3>1, <3>2
  <2>3. ToSet(t) \subseteq ToSet(s) \ {s[i]}
    BY <1>4, <2>1 DEF ToSet
  <2>4. ASSUME NEW x \in ToSet(s) \ {s[i]} PROVE x \in ToSet(t)
    <3>1. PICK j \in 1 .. Len(s) : x = s[j]
      BY <1>1 DEF ToSet
    <3>2. PICK k \in 1 .. n : t[k] = x
      BY <2>2, <2>4, <3>1
    <3>3. QED
      BY <1>4, <3>2 DEF ToSet
  <2>5. QED
    BY <2>3, <2>4
<1>8. RemoveAt(s, i) = t
  BY DEF RemoveAt, t, a, b
<1>9. QED
  BY <1>4, <1>6, <1>7, <1>8 DEF Lists

\* Unlinking takes the connection out of the list, if it is there.
LEMMA Removed ==
  ASSUME NEW s \in Lists, NEW c
  PROVE  RemoveFirst(s, c) \in Lists /\ ToSet(RemoveFirst(s, c)) = ToSet(s) \ {c}
<1>1. s \in Seq(Conns) /\ Len(s) \in Nat /\ DOMAIN s = 1 .. Len(s)
  BY DEF Lists
<1>2. CASE \E i \in 1 .. Len(s) : s[i] = c
  <2> DEFINE I == {i \in 1 .. Len(s) : s[i] = c}
             k == SelectInSeq(s, LAMBDA v : v = c)
  <2>1. PICK i \in 1 .. Len(s) : s[i] = c
    BY <1>2
  <2>2. I = {i}
    BY <1>1, <2>1 DEF Lists, IsInjective
  <2>3. k = i
    <3>1. k = Min(I)
      BY <2>2 DEF SelectInSeq
    <3>2. Min({i}) = i
      BY <1>1 DEF Min
    <3>3. QED
      BY <2>2, <3>1, <3>2
  <2>4. RemoveFirst(s, c) = RemoveAt(s, i)
    BY <1>2, <2>3 DEF RemoveFirst
  <2>5. QED
    BY <2>1, <2>4, RemovedAt
<1>3. CASE ~ \E i \in 1 .. Len(s) : s[i] = c
  <2>1. RemoveFirst(s, c) = s
    BY <1>3 DEF RemoveFirst
  <2>2. c \notin ToSet(s)
    BY <1>1, <1>3 DEF ToSet
  <2>3. QED
    BY <2>1, <2>2
<1>4. QED
  BY <1>2, <1>3

-----------------------------------------------------------------------------
(***************************************************************************)
(* The invariant                                                           *)
(***************************************************************************)
MainAt == {"serving", "lock", "each", "free", "close", "unlink", "destroy", "stopped"}
LoopAt == {"accept", "append", "start", "report", "free", "close", "unlink", "ended", "dead"}
ConnAt == {"unborn", "accepted", "recv", "wait", "serve", "send", "sent", "failed", "log",
           "free", "close", "unlink", "ended", "dead"}

\* Where the loop has a connection in its hand, of which there is no thread yet.
Starting == {"append", "start", "free", "close", "unlink"}

Places ==
    /\ at["main"] \in MainAt /\ at["loop"] \in LoopAt /\ \A c \in Conns : at[c] \in ConnAt
    /\ at["main"] \in {"free", "close", "unlink"} => hand["main"] \in Conns
    /\ at["loop"] \in Starting \cup {"report"} => hand["loop"] \in Conns

\* A connection is listed once, after it has been accepted.
Fresh ==
    /\ \A c \in Conns : at[c] = "unborn" => c \notin ToSet(list)
    /\ at["loop"] = "append" => hand["loop"] \notin ToSet(list) /\ at[hand["loop"]] # "unborn"

Listed == {c \in Conns :
             at[c] \notin {"unborn", "ended"} /\ ~ (hand["loop"] = c /\ at["loop"] = "append")}

\* As long as main does not stop the server.
Serving ==
    /\ misuse # "used" /\ srv = "nobody" /\ cancelled = {}
    /\ freed = {c \in Conns : at[c] = "ended"}
    /\ ToSet(list) = Listed
    /\ at["loop"] \in Starting => at[hand["loop"]] = "accepted"

IInv == TypeOK /\ Places /\ Fresh /\ (at["main"] = "serving" => Serving)

LEMMA InitIInv == Init => IInv
<1> SUFFICES ASSUME Init PROVE IInv
  OBVIOUS
<1>1. /\ at = [t \in Threads |-> CASE t = "main" -> "serving" [] t = "loop" -> "accept"
                                   [] OTHER -> "unborn"]
      /\ hand = [t \in {"main", "loop"} |-> "nobody"]
      /\ list = <<>> /\ freed = {} /\ cancelled = {} /\ db = "nobody" /\ srv = "nobody"
      /\ asked = [c \in Conns |-> 0] /\ misuse = "none" /\ quiet = TRUE
  BY DEF Init
<1>2. at["main"] = "serving" /\ at["loop"] = "accept" /\ \A c \in Conns : at[c] = "unborn"
  BY <1>1, ServerAssumption DEF Threads
<1>3. list \in Seq(Conns) /\ DOMAIN list = {} /\ ToSet(list) = {} /\ IsInjective(list)
  BY <1>1 DEF ToSet, IsInjective
<1>4. TypeOK
  <2>1. at \in [Threads -> {"serving", "accept", "unborn"}]
    BY <1>1
  <2>2. asked \in [Conns -> 0 .. MaxRequests]
    BY <1>1, ServerAssumption
  <2>3. QED
    BY <1>1, <1>3, <2>1, <2>2 DEF TypeOK, Labels
<1>5. Places /\ Fresh
  BY <1>2, <1>3 DEF Places, Fresh, MainAt, LoopAt, ConnAt, Starting
<1>6. Serving
  BY <1>1, <1>2, <1>3 DEF Serving, Listed, Starting
<1>7. QED
  BY <1>4, <1>5, <1>6 DEF IInv

\* What everybody needs to know of the names of threads and of the types.
LEMMA Names ==
  /\ Threads = Conns \cup {"main", "loop"}
  /\ \A c \in Conns : c \in Threads /\ c # "main" /\ c # "loop" /\ c # "nobody"
  /\ Hand("main") = hand["main"] /\ Hand("loop") = hand["loop"] /\ \A c \in Conns : Hand(c) = c
  BY ServerAssumption DEF Threads, Hand

-----------------------------------------------------------------------------
(***************************************************************************)
(* Steps of one thread that leave the list alone                           *)
(***************************************************************************)
Keeps(t, l) ==
    \/ /\ t \in Conns
       /\ at[t] \in ConnAt \ {"unborn", "accepted", "ended"}
       /\ l \in ConnAt \ {"unborn", "accepted", "ended"}
    \/ /\ t = "loop" /\ at["loop"] # "append"
       /\ l \in LoopAt \ (Starting \cup {"report"}) \/ (at["loop"] \in Starting /\ l \in {"close", "unlink"})
    \/ /\ t = "main" /\ at["main"] # "serving"
       /\ \/ l \in {"each", "destroy", "stopped"}
          \/ at["main"] \in {"free", "close"} /\ l \in {"close", "unlink"}

LEMMA MoveStep ==
  ASSUME IInv, NEW t \in Threads, NEW l, Keeps(t, l), Goto(t, l),
         UNCHANGED <<hand, list, freed, cancelled>>,
         db' \in Threads \cup {"nobody"}, asked' \in [Conns -> 0 .. MaxRequests],
         misuse' \in {"none", "read", "used"}, quiet' \in BOOLEAN,
         srv' \in {"main", "nobody"}, at["main"] = "serving" => misuse' # "used" /\ srv' = srv
  PROVE  IInv'
<1>1. TypeOK /\ Places /\ Fresh /\ (at["main"] = "serving" => Serving)
  BY DEF IInv
<1>2. /\ at' = [at EXCEPT ![t] = l] /\ t \in DOMAIN at
      /\ at'[t] = l /\ \A u \in Threads : u # t => at'[u] = at[u]
  BY <1>1 DEF Goto, TypeOK
<1>3. TypeOK'
  <2>1. l \in MainAt \cup LoopAt \cup ConnAt
    BY DEF Keeps, MainAt
  <2>2. at' \in [Threads -> Labels]
    BY <1>1, <1>2, <2>1 DEF TypeOK, MainAt, LoopAt, ConnAt, Labels
  <2>3. QED
    BY <1>1, <2>2 DEF TypeOK
<1>4. CASE t \in Conns
  <2>1. /\ at'["main"] = at["main"] /\ at'["loop"] = at["loop"]
        /\ at[t] \in ConnAt \ {"unborn", "accepted", "ended"}
        /\ at'[t] \in ConnAt \ {"unborn", "accepted", "ended"}
        /\ \A c \in Conns : c # t => at'[c] = at[c]
    BY <1>2, <1>4, Names DEF Keeps
  <2>2. Places'
    BY <1>1, <2>1 DEF Places
  <2>3. Fresh'
    BY <1>1, <2>1 DEF Places, Fresh, Starting
  <2>4. at["main"] = "serving" => Serving'
    BY <1>1, <2>1 DEF Serving, Listed, Places
  <2>5. QED
    BY <1>3, <2>1, <2>2, <2>3, <2>4 DEF IInv
<1>5. CASE t = "loop"
  <2>1. /\ at'["main"] = at["main"] /\ at'["loop"] = l /\ at["loop"] # "append" /\ l # "append"
        /\ l \in LoopAt
        /\ l \in Starting \cup {"report"} => at["loop"] \in Starting
        /\ \A c \in Conns : at'[c] = at[c]
    BY <1>2, <1>5, Names DEF Keeps, LoopAt, Starting
  <2>2. Places'
    BY <1>1, <2>1 DEF Places
  <2>3. Fresh'
    BY <1>1, <2>1 DEF Fresh
  <2>4. at["main"] = "serving" => Serving'
    <3>1. Listed' = Listed
      BY <2>1 DEF Listed
    <3>2. at["main"] = "serving" /\ l \in Starting => at'[hand["loop"]] = "accepted"
      BY <1>1, <2>1 DEF Serving, Places
    <3>3. freed' = {c \in Conns : at[c] = "ended"} <=> freed' = {c \in Conns : at'[c] = "ended"}
      BY <2>1
    <3>4. QED
      BY <1>1, <2>1, <3>1, <3>2, <3>3 DEF Serving
  <2>5. QED
    BY <1>3, <2>1, <2>2, <2>3, <2>4 DEF IInv
<1>6. CASE t = "main"
  <2>1. /\ at'["main"] = l /\ l \in MainAt /\ l # "serving" /\ at'["loop"] = at["loop"]
        /\ l \in {"free", "close", "unlink"} => at["main"] \in {"free", "close", "unlink"}
        /\ \A c \in Conns : at'[c] = at[c]
    BY <1>2, <1>6, Names DEF Keeps, MainAt
  <2>2. Places'
    BY <1>1, <2>1 DEF Places
  <2>3. Fresh'
    BY <1>1, <2>1 DEF Fresh, Places, Starting
  <2>4. QED
    BY <1>3, <2>1, <2>2, <2>3 DEF IInv
<1>7. QED
  BY <1>4, <1>5, <1>6, Names

-----------------------------------------------------------------------------
(***************************************************************************)
(* The steps of Next                                                       *)
(***************************************************************************)

\* Nobody works on a freed connection while the server serves.
LEMMA TouchLive ==
  ASSUME IInv, NEW t \in Threads, Touch(t),
         t \in Conns => at[t] \notin {"unborn", "ended"},
         t = "loop" => at["loop"] \in Starting,
         t = "main" => at["main"] # "serving"
  PROVE  misuse' \in {"none", "read", "used"} /\ (at["main"] = "serving" => misuse' # "used")
<1>1. misuse' = IF Hand(t) \in freed THEN "used" ELSE misuse
  BY DEF Touch, UsedIf
<1>2. ASSUME at["main"] = "serving" PROVE Hand(t) \notin freed
  <2>1. Serving
    BY <1>2 DEF IInv
  <2>2. CASE t \in Conns
    BY <2>1, <2>2, Names DEF Serving
  <2>3. CASE t = "loop"
    BY <2>1, <2>3, Names DEF Serving
  <2>4. QED
    BY <1>2, <2>2, <2>3, Names
<1>3. misuse' \in {"none", "read", "used"}
  BY <1>1 DEF IInv, TypeOK
<1>4. at["main"] = "serving" => misuse' # "used"
  BY <1>1, <1>2 DEF IInv, Serving
<1>5. QED
  BY <1>3, <1>4, Zenon

LEMMA HandlingStep ==
  ASSUME IInv, NEW c \in Conns, Receive(c) \/ Handling(c)
  PROVE  IInv'
<1>1. TypeOK /\ c \in Threads /\ c # "main" /\ c # "loop"
  BY Names DEF IInv
<1>2. CASE Receive(c)
  <2>1. asked' \in [Conns -> 0 .. MaxRequests]
    <3>1. CASE asked' = asked
      BY <1>1, <3>1 DEF TypeOK
    <3>2. CASE asked[c] < MaxRequests /\ asked' = [asked EXCEPT ![c] = @ + 1]
      <4>1. asked[c] \in 0 .. MaxRequests /\ MaxRequests \in Nat
        BY <1>1, ServerAssumption DEF TypeOK
      <4>2. asked[c] + 1 \in 0 .. MaxRequests
        BY <3>2, <4>1
      <4>3. QED
        BY <1>1, <3>2, <4>2 DEF TypeOK
    <3>3. QED
      BY <1>2, <3>1, <3>2 DEF Receive
  <2>2. quiet' \in BOOLEAN
    BY <1>1, <1>2 DEF Receive, Busy, TypeOK
  <2>3. misuse' \in {"none", "read", "used"} /\ (at["main"] = "serving" => misuse' # "used")
    BY <1>1, <1>2, TouchLive DEF Receive
  <2>4. PICK l \in {"wait", "log"} : Goto(c, l)
    BY <1>2 DEF Receive
  <2>5. Keeps(c, l) /\ UNCHANGED <<hand, list, freed, cancelled, db, srv>>
    BY <1>2 DEF Receive, Keeps, ConnAt, locks
  <2>6. QED
    BY <1>1, <2>1, <2>2, <2>3, <2>4, <2>5, MoveStep DEF TypeOK
<1>3. CASE LockDatabase(c) \/ Serve(c) \/ Send(c) \/ UnlockDatabase(c)
  <2>1. /\ UNCHANGED <<hand, list, freed, cancelled, srv, asked, quiet>> /\ Touch(c)
        /\ db' \in {db, c, "nobody"} /\ at[c] \in {"wait", "serve", "send", "sent", "failed"}
    BY <1>3 DEF LockDatabase, Serve, Send, UnlockDatabase, locks
  <2>2. PICK l \in {"serve", "send", "failed", "sent", "recv", "log"} : Goto(c, l)
    BY <1>3 DEF LockDatabase, Serve, Send, UnlockDatabase
  <2>3. Keeps(c, l)
    BY <2>1 DEF Keeps, ConnAt
  <2>4. misuse' \in {"none", "read", "used"} /\ (at["main"] = "serving" => misuse' # "used")
    BY <1>1, <2>1, TouchLive
  <2>5. db' \in Threads \cup {"nobody"}
    BY <1>1, <2>1 DEF TypeOK
  <2>6. QED
    BY <1>1, <2>1, <2>2, <2>3, <2>4, <2>5, MoveStep DEF TypeOK
<1>4. CASE Log(c)
  <2>1. /\ UNCHANGED <<hand, list, freed, cancelled, db, srv, asked, misuse, quiet>>
        /\ Goto(c, "free") /\ at[c] = "log"
    BY <1>4 DEF Log, locks
  <2>2. Keeps(c, "free")
    BY <2>1 DEF Keeps, ConnAt
  <2>3. misuse' \in {"none", "read", "used"} /\ (at["main"] = "serving" => misuse' # "used")
    BY <1>1, <2>1 DEF IInv, Serving, TypeOK
  <2>4. QED
    BY <1>1, <2>1, <2>2, <2>3, MoveStep DEF TypeOK
<1>5. QED
  BY <1>2, <1>3, <1>4 DEF Handling

LEMMA DieStep ==
  ASSUME IInv, NEW t \in Threads, Die(t)
  PROVE  IInv'
<1>1. TypeOK /\ Places /\ t # "main" /\ t \in cancelled /\ Goto(t, "dead")
  BY DEF IInv, Die, TypeOK
<1>2. at["main"] # "serving"
  BY <1>1 DEF IInv, Serving
<1>3. /\ at[t] \in {"accept", "recv", "send", "close", "log"}
      /\ UNCHANGED <<hand, list, freed, cancelled, db, srv, asked, misuse, quiet>>
  BY DEF Die, locks
<1>4. Keeps(t, "dead")
  <2>1. CASE t \in Conns
    BY <1>1, <1>3, <2>1 DEF Keeps, ConnAt, Places
  <2>2. CASE t = "loop"
    BY <1>3, <2>2 DEF Keeps, LoopAt, Starting
  <2>3. QED
    BY <1>1, <2>1, <2>2, Names
<1>5. QED
  BY <1>1, <1>2, <1>3, <1>4, MoveStep DEF TypeOK

LEMMA CloseStep ==
  ASSUME IInv, NEW t \in Threads, LockToClose(t) \/ CloseSocket(t)
  PROVE  IInv'
<1>1. TypeOK /\ Places
  BY DEF IInv
<1>2. PICK l \in {"close", "unlink"} : Goto(t, l)
  BY DEF LockToClose, CloseSocket
<1>3. /\ at[t] \in {"free", "close"} /\ Touch(t) /\ db' \in {t, "nobody"}
      /\ UNCHANGED <<hand, list, freed, cancelled, srv, asked, quiet>>
  BY DEF LockToClose, CloseSocket
<1>4. Keeps(t, l)
  BY <1>1, <1>3, Names DEF Keeps, ConnAt, LoopAt, Starting
<1>5. misuse' \in {"none", "read", "used"} /\ (at["main"] = "serving" => misuse' # "used")
  BY <1>3, TouchLive DEF Starting
<1>6. QED
  BY <1>1, <1>2, <1>3, <1>4, <1>5, MoveStep DEF TypeOK

\* A thread takes its connection, or main the one in its hand, out of the list and frees it.
LEMMA UnlinkStep ==
  ASSUME IInv, NEW t \in Threads, Unlink(t)
  PROVE  IInv'
<1>1. TypeOK /\ Places /\ Fresh /\ (at["main"] = "serving" => Serving) /\ list \in Lists
  BY DEF IInv, TypeOK, Lists
<1>2. /\ at[t] = "unlink" /\ list' = RemoveFirst(list, Hand(t)) /\ freed' = freed \cup {Hand(t)}
      /\ Touch(t) /\ UNCHANGED <<hand, cancelled, db, srv, asked, quiet>>
      /\ at' = IF t = "main" THEN [at EXCEPT !["main"] = "each"]
               ELSE [at EXCEPT ![t] = "ended", ![Hand(t)] = "ended"]
  BY DEF Unlink, locks
<1>3. Hand(t) \in Conns
  BY <1>1, <1>2, Names DEF Places, Starting
<1>4. list' \in Lists /\ ToSet(list') = ToSet(list) \ {Hand(t)}
  BY <1>1, <1>2, Removed
<1>5. misuse' \in {"none", "read", "used"} /\ (at["main"] = "serving" => misuse' # "used")
  BY <1>2, TouchLive DEF Starting
<1>6. CASE t = "main"
  <2>1. /\ at'["main"] = "each" /\ at'["loop"] = at["loop"] /\ \A c \in Conns : at'[c] = at[c]
        /\ at' \in [Threads -> Labels]
    BY <1>1, <1>2, <1>6, Names DEF TypeOK, Labels
  <2>2. TypeOK'
    BY <1>1, <1>2, <1>3, <1>4, <1>5, <2>1 DEF TypeOK, Lists
  <2>3. Places'
    BY <1>1, <1>2, <2>1 DEF Places, MainAt
  <2>4. Fresh'
    <3>1. \A c : c \notin ToSet(list) => c \notin ToSet(list)'
      BY <1>4
    <3>2. hand' = hand /\ (at["loop"] = "append" => hand["loop"] \in Conns)
      BY <1>1, <1>2 DEF Places, Starting
    <3>3. QED
      BY <1>1, <2>1, <3>1, <3>2 DEF Fresh
  <2>5. QED
    BY <2>1, <2>2, <2>3, <2>4 DEF IInv
<1>7. CASE t # "main"
  <2>1. /\ at'["main"] = at["main"] /\ at'[Hand(t)] = "ended" /\ at'[t] = "ended"
        /\ \A u \in Threads : u # t /\ u # Hand(t) => at'[u] = at[u]
        /\ at' \in [Threads -> Labels]
    BY <1>1, <1>2, <1>3, <1>7, Names DEF TypeOK, Labels
  <2>2. TypeOK'
    BY <1>1, <1>2, <1>3, <1>4, <1>5, <2>1 DEF TypeOK, Lists
  <2>3. /\ at'["loop"] \in {at["loop"], "ended"}
        /\ t = "loop" => at'["loop"] = "ended"
        /\ \A c \in Conns : c # Hand(t) => at'[c] = at[c]
    BY <1>3, <1>7, <2>1, Names
  <2>4. Places'
    BY <1>1, <1>2, <2>1, <2>3 DEF Places, LoopAt, ConnAt, Starting
  <2>5. Fresh'
    BY <1>1, <1>2, <1>4, <2>1, <2>3 DEF Places, Fresh, Starting
  <2>6. ASSUME at["main"] = "serving" PROVE Serving'
    <3>1. Serving
      BY <1>1, <2>6
    <3>2. t \in Conns => Hand(t) = t /\ at["loop"] = at'["loop"]
      BY <1>3, <2>1, Names
    <3>3. at'["loop"] \in Starting => hand["loop"] # Hand(t) /\ at["loop"] = at'["loop"]
      BY <1>2, <1>7, <2>3, <3>1, <3>2, Names DEF Serving, Starting
    <3>4. at'["loop"] \in Starting => at'[hand["loop"]] = "accepted"
      BY <1>1, <2>3, <3>1, <3>3 DEF Serving, Places
    <3>5. freed' = {c \in Conns : at'[c] = "ended"}
      BY <1>2, <1>3, <2>1, <2>3, <3>1 DEF Serving
    <3>6. Listed' = Listed \ {Hand(t)}
      BY <1>2, <1>3, <2>1, <2>3, <3>2, <3>3, Names DEF Listed, Starting
    <3>7. QED
      BY <1>2, <1>4, <1>5, <2>6, <3>1, <3>4, <3>5, <3>6 DEF Serving
  <2>7. QED
    BY <2>1, <2>2, <2>4, <2>5, <2>6 DEF IInv
<1>8. QED
  BY <1>6, <1>7

LEMMA AcceptStep ==
  ASSUME IInv, NEW c \in Conns, Accept(c)
  PROVE  IInv'
<1>1. TypeOK /\ Places /\ Fresh /\ (at["main"] = "serving" => Serving)
  BY DEF IInv
<1>2. /\ at["loop"] = "accept" /\ at[c] = "unborn"
      /\ at' = [at EXCEPT !["loop"] = "append", ![c] = "accepted"]
      /\ hand' = [hand EXCEPT !["loop"] = c] /\ Busy
      /\ UNCHANGED <<list, freed, cancelled, db, srv, asked, misuse>>
  BY DEF Accept, locks
<1>3. /\ at'["main"] = at["main"] /\ at'["loop"] = "append" /\ at'[c] = "accepted"
      /\ \A d \in Conns : d # c => at'[d] = at[d]
      /\ hand'["main"] = hand["main"] /\ hand'["loop"] = c
  BY <1>1, <1>2, Names DEF TypeOK
<1>4. TypeOK'
  <2>1. at' \in [Threads -> Labels]
    BY <1>1, <1>2 DEF TypeOK, Labels
  <2>2. hand' \in [{"main", "loop"} -> Conns \cup {"nobody"}]
    BY <1>1, <1>2 DEF TypeOK
  <2>3. quiet' \in BOOLEAN
    BY <1>1, <1>2 DEF Busy, TypeOK
  <2>4. QED
    BY <1>1, <1>2, <2>1, <2>2, <2>3 DEF TypeOK
<1>5. Places'
  BY <1>1, <1>3 DEF Places, LoopAt, ConnAt
<1>6. Fresh'
  BY <1>1, <1>2, <1>3 DEF Fresh
<1>7. ASSUME at["main"] = "serving" PROVE Serving'
  <2>1. Listed' = Listed
    <3>1. c \notin Listed /\ c \notin Listed'
      BY <1>2, <1>3 DEF Listed
    <3>2. \A d \in Conns : d # c => (d \in Listed <=> d \in Listed')
      BY <1>2, <1>3 DEF Listed
    <3>3. QED
      BY <3>1, <3>2 DEF Listed
  <2>2. freed' = {d \in Conns : at'[d] = "ended"}
    BY <1>1, <1>2, <1>3, <1>7 DEF Serving
  <2>3. QED
    BY <1>1, <1>2, <1>3, <1>7, <2>1, <2>2 DEF Serving
<1>8. QED
  BY <1>3, <1>4, <1>5, <1>6, <1>7 DEF IInv

LEMMA AppendStep ==
  ASSUME IInv, AppendConnection
  PROVE  IInv'
<1>1. TypeOK /\ Places /\ Fresh /\ (at["main"] = "serving" => Serving) /\ list \in Lists
  BY DEF IInv, TypeOK, Lists
<1>2. /\ at["loop"] = "append" /\ list' = Append(list, hand["loop"])
      /\ at' = [at EXCEPT !["loop"] = "start"] /\ misuse' = (IF at["main"] \in {"destroy", "stopped"} THEN "used" ELSE misuse)
      /\ UNCHANGED <<hand, freed, cancelled, db, srv, asked, quiet>>
  BY DEF AppendConnection, Goto, locks, UsedIf
<1>3. hand["loop"] \in Conns /\ hand["loop"] \notin ToSet(list) /\ at[hand["loop"]] # "unborn"
  BY <1>1, <1>2 DEF Places, Starting, Fresh
<1>4. list' \in Lists /\ ToSet(list)' = ToSet(list) \cup {hand["loop"]}
  BY <1>1, <1>2, <1>3, Appended
<1>5. at'["main"] = at["main"] /\ at'["loop"] = "start" /\ \A c \in Conns : at'[c] = at[c]
  BY <1>1, <1>2, Names DEF TypeOK
<1>6. TypeOK'
  <2>1. at' \in [Threads -> Labels]
    BY <1>1, <1>2 DEF TypeOK, Labels
  <2>2. misuse' \in {"none", "read", "used"}
    BY <1>1, <1>2 DEF TypeOK
  <2>3. QED
    BY <1>1, <1>2, <1>4, <2>1, <2>2 DEF TypeOK, Lists
<1>7. Places' /\ Fresh'
  BY <1>1, <1>2, <1>3, <1>4, <1>5 DEF Places, Fresh, LoopAt
<1>8. ASSUME at["main"] = "serving" PROVE Serving'
  <2>1. Serving
    BY <1>1, <1>8
  <2>2. at[hand["loop"]] = "accepted"
    BY <1>2, <2>1 DEF Serving, Starting
  <2>3. Listed' = Listed \cup {hand["loop"]}
    BY <1>2, <1>3, <1>5, <2>2 DEF Listed
  <2>4. freed' = {c \in Conns : at'[c] = "ended"}
    BY <1>2, <1>5, <2>1 DEF Serving
  <2>5. QED
    BY <1>2, <1>3, <1>4, <1>5, <1>8, <2>1, <2>2, <2>3, <2>4 DEF Serving
<1>9. QED
  BY <1>5, <1>6, <1>7, <1>8 DEF IInv

\* The thread of the connection begins, or the loop has to free it again.
LEMMA StartStep ==
  ASSUME IInv, ConnectionStart
  PROVE  IInv'
<1>1. TypeOK /\ Places /\ Fresh /\ (at["main"] = "serving" => Serving)
  BY DEF IInv
<1>2. /\ at["loop"] = "start" /\ Touch("loop")
      /\ UNCHANGED <<hand, list, freed, cancelled, db, srv, asked, quiet>>
      /\ \/ at' = [at EXCEPT !["loop"] = "report", ![hand["loop"]] = "recv"]
         \/ at' = [at EXCEPT !["loop"] = "free"]
  BY DEF ConnectionStart, Goto, locks
<1>3. hand["loop"] \in Conns
  BY <1>1, <1>2 DEF Places, Starting
<1>4. misuse' \in {"none", "read", "used"} /\ (at["main"] = "serving" => misuse' # "used")
  BY <1>2, TouchLive, Names DEF Starting
<1>5. at' \in [Threads -> Labels]
  BY <1>1, <1>2 DEF TypeOK, Labels
<1>6. TypeOK'
  BY <1>1, <1>2, <1>4, <1>5 DEF TypeOK
<1>7. /\ at'["main"] = at["main"] /\ at'["loop"] \in {"report", "free"}
      /\ \A c \in Conns : c # hand["loop"] => at'[c] = at[c]
      /\ at'[hand["loop"]] = IF at'["loop"] = "report" THEN "recv" ELSE at[hand["loop"]]
  BY <1>1, <1>2, <1>3, Names DEF TypeOK
<1>8. Places'
  BY <1>1, <1>2, <1>3, <1>7 DEF Places, LoopAt, ConnAt
<1>9. Fresh'
  BY <1>1, <1>2, <1>3, <1>7 DEF Fresh
<1>10. ASSUME at["main"] = "serving" PROVE Serving'
  <2>1. Serving /\ at[hand["loop"]] = "accepted"
    BY <1>1, <1>2, <1>10 DEF Serving, Starting
  <2>2. at'[hand["loop"]] \in {"recv", "accepted"}
    BY <1>7, <2>1
  <2>3. Listed' = Listed
    BY <1>2, <1>3, <1>7, <2>1, <2>2 DEF Listed
  <2>4. freed' = {c \in Conns : at'[c] = "ended"}
    BY <1>2, <1>3, <1>7, <2>1, <2>2 DEF Serving
  <2>5. at'["loop"] \in Starting => at'[hand["loop"]] = "accepted"
    BY <1>7, <2>1 DEF Starting
  <2>6. QED
    BY <1>2, <1>4, <1>10, <2>1, <2>3, <2>4, <2>5 DEF Serving
<1>11. QED
  BY <1>6, <1>7, <1>8, <1>9, <1>10 DEF IInv

LEMMA LoopStepKeeps ==
  ASSUME IInv, AcceptFails \/ ReturnSocket
  PROVE  IInv'
<1>1. PICK l \in {"accept", "ended"} : Goto("loop", l)
  BY DEF AcceptFails, ReturnSocket
<1>2. /\ at["loop"] \in {"accept", "report"}
      /\ UNCHANGED <<hand, list, freed, cancelled, db, srv, asked, quiet>>
      /\ misuse' \in {"read", misuse}
  BY DEF AcceptFails, ReturnSocket, locks
<1>3. Keeps("loop", l)
  BY <1>2 DEF Keeps, LoopAt, Starting
<1>4. TypeOK /\ (at["main"] = "serving" => misuse # "used") /\ "loop" \in Threads
  BY Names DEF IInv, Serving
<1>5. misuse' \in {"none", "read", "used"} /\ (at["main"] = "serving" => misuse' # "used")
  BY <1>2, <1>4 DEF TypeOK
<1>6. QED
  BY <1>1, <1>2, <1>3, <1>4, <1>5, MoveStep DEF TypeOK

\* main begins to stop; from here on Serving says nothing.
LEMMA StopStep ==
  ASSUME IInv, Stop \/ ConnectionStop
  PROVE  IInv'
<1>1. TypeOK /\ Places /\ Fresh
  BY DEF IInv
<1>2. PICK l \in {"lock", "free"} : at' = [at EXCEPT !["main"] = l]
  BY DEF Stop, ConnectionStop, Goto
<1>3. /\ at'["main"] = l /\ at'["loop"] = at["loop"] /\ \A c \in Conns : at'[c] = at[c]
      /\ at' \in [Threads -> Labels]
  BY <1>1, <1>2, Names DEF TypeOK, Labels
<1>4. CASE Stop
  <2>1. /\ UNCHANGED <<hand, list, freed, db, srv, asked, misuse>> /\ l = "lock"
        /\ cancelled' = cancelled \cup {"loop"}
    BY <1>1, <1>2, <1>4, Names DEF Stop, Goto, locks, TypeOK
  <2>2. quiet' \in BOOLEAN
    BY <1>4 DEF Stop
  <2>3. TypeOK'
    BY <1>1, <1>3, <2>1, <2>2, Names DEF TypeOK
  <2>4. Places' /\ Fresh'
    <3>1. Places'
      BY <1>1, <1>3, <2>1 DEF Places, MainAt
    <3>2. hand' = hand /\ (at["loop"] = "append" => hand["loop"] \in Conns)
      BY <1>1, <2>1 DEF Places, Starting
    <3>3. Fresh'
      BY <1>1, <1>3, <2>1, <3>2 DEF Fresh
    <3>4. QED
      BY <3>1, <3>3
  <2>5. QED
    BY <1>3, <2>1, <2>3, <2>4 DEF IInv
<1>5. CASE ConnectionStop
  <2>1. /\ UNCHANGED <<list, freed, db, srv, asked, quiet>> /\ l = "free" /\ list # <<>>
        /\ hand' = [hand EXCEPT !["main"] = Head(list)]
        /\ cancelled' = cancelled \cup {Head(list)}
    BY <1>1, <1>2, <1>5, Names DEF ConnectionStop, Goto, locks, TypeOK
  <2>2. misuse' \in {"none", "read", "used"}
    BY <1>1, <1>5 DEF ConnectionStop, UsedIf, TypeOK
  <2>3. Head(list) \in Conns
    BY <1>1, <2>1 DEF TypeOK
  <2>4. /\ hand'["main"] = Head(list) /\ hand'["loop"] = hand["loop"]
        /\ hand' \in [{"main", "loop"} -> Conns \cup {"nobody"}]
    BY <1>1, <2>1, <2>3 DEF TypeOK
  <2>5. TypeOK'
    BY <1>1, <1>3, <2>1, <2>2, <2>3, <2>4, Names DEF TypeOK
  <2>6. Places'
    BY <1>1, <1>3, <2>1, <2>3, <2>4 DEF Places, MainAt
  <2>7. Fresh'
    BY <1>1, <1>3, <2>1, <2>4 DEF Fresh, Places, Starting
  <2>8. QED
    BY <1>3, <2>1, <2>5, <2>6, <2>7 DEF IInv
<1>6. QED
  BY <1>4, <1>5

LEMMA StoppingStep ==
  ASSUME IInv, LockServer \/ UnlockServer \/ Destroy
  PROVE  IInv'
<1>1. PICK l \in {"each", "destroy", "stopped"} : Goto("main", l)
  BY DEF LockServer, UnlockServer, Destroy
<1>2. /\ at["main"] # "serving" /\ srv' \in {srv, "main", "nobody"}
      /\ UNCHANGED <<hand, list, freed, cancelled, db, asked, misuse, quiet>>
  BY DEF LockServer, UnlockServer, Destroy, locks
<1>3. Keeps("main", l)
  BY <1>2 DEF Keeps
<1>4. TypeOK /\ "main" \in Threads
  BY Names DEF IInv
<1>5. QED
  BY <1>1, <1>2, <1>3, <1>4, MoveStep DEF TypeOK

-----------------------------------------------------------------------------
(***************************************************************************)
(* Theorems                                                                *)
(***************************************************************************)
THEOREM Invariance == Spec => []IInv
<1>1. IInv /\ [Next]_vars => IInv'
  <2> SUFFICES ASSUME IInv, [Next]_vars PROVE IInv'
    OBVIOUS
  <2>1. CASE \E c \in Conns : Accept(c)
    BY <2>1, AcceptStep
  <2>2. CASE \E c \in Conns : Receive(c) \/ Handling(c)
    BY <2>2, HandlingStep
  <2>3. CASE \E t \in Threads : Freeing(t)
    BY <2>3, CloseStep, UnlinkStep DEF Freeing
  <2>4. CASE \E t \in Threads : Die(t)
    BY <2>4, DieStep
  <2>5. CASE AcceptFails \/ LoopStep
    BY <2>5, LoopStepKeeps, AppendStep, StartStep DEF LoopStep
  <2>6. CASE Stop \/ Stopping
    BY <2>6, StopStep, StoppingStep DEF Stopping
  <2>7. CASE UNCHANGED vars
    <3>1. UNCHANGED <<at, hand, list, freed, cancelled, db, srv, asked, misuse, quiet>>
      BY <2>7 DEF vars, locks
    <3>2. TypeOK' /\ Places' /\ Fresh'
      BY <3>1 DEF IInv, TypeOK, Places, Fresh
    <3>3. at["main"] = "serving" => Serving'
      BY <3>1 DEF IInv, Serving, Listed
    <3>4. QED
      BY <3>1, <3>2, <3>3 DEF IInv
  <2>8. QED
    BY <2>1, <2>2, <2>3, <2>4, <2>5, <2>6, <2>7 DEF Next
<1>2. QED
  BY <1>1, InitIInv, PTL DEF Spec

\* While the server serves, its list is exactly the live connections, the freed ones are
\* those that have ended, and nobody has used one of them, but for the loop, which may have
\* read the socket number of one it has just accepted; and the types are right.
THEOREM ListCorrect == Spec => []ListExact
<1>1. IInv => ListExact
  BY DEF IInv, ListExact, Serving, Listed
<1>2. QED
  BY <1>1, Invariance, PTL
=============================================================================
