--------------------------- MODULE ExceptionsProofs ---------------------------
(***************************************************************************)
(* Proofs about Exceptions: raise_env names the innermost block, FINALLY   *)
(* blocks run, and exceptions in flight are not dropped, for every set of  *)
(* codes and addresses and every depth of nesting.                         *)
(***************************************************************************)
EXTENDS Exceptions, SequenceTheorems, TLAPS

-----------------------------------------------------------------------------
(***************************************************************************)
(* The invariant                                                           *)
(***************************************************************************)
Distinct(s) == \A i, j \in DOMAIN s : s[i].at = s[j].at => i = j

\* env is the innermost block of the frames before n.
IsInner(s, n, env) ==
    \/ env = NULL /\ \A i \in DOMAIN s : i < n => s[i].phase = "finally"
    \/ \E i \in DOMAIN s :
          /\ i < n /\ s[i].phase \in Kinds
          /\ env = [at |-> s[i].at, kind |-> s[i].phase]
          /\ \A j \in DOMAIN s : i < j /\ j < n => s[j].phase = "finally"

\* env is dead for the frames before n, or the address of one in FINALLY.
Stale(s, n, env) ==
    env # NULL /\ \A i \in DOMAIN s : i < n /\ s[i].at = env.at => s[i].phase = "finally"
Dead(s, env) == \A i \in DOMAIN s : s[i].at # env.at

EnvOK(s, n, env, gone) == IsInner(s, n, env) \/ (gone /\ Stale(s, n, env))

Olds(s, gone) == \A i \in DOMAIN s : EnvOK(s, i, s[i].old, gone)

\* What raise_env is now, and what it was when each statement began.
Chain(s, env, gone) ==
    /\ EnvOK(s, Len(s) + 1, env, gone)
    /\ Olds(s, gone)

FrameOK(f) == (f.phase = "try" => f.exception = 0) /\ (f.phase = "catch" => f.exception \in f.caught)
Stacks == {s \in Seq(Frame) : Distinct(s) /\ \A i \in DOMAIN s : FrameOK(s[i])}

IInv == TypeOK /\ stack \in Stacks /\ (Running => Chain(stack, raise_env, left))

-----------------------------------------------------------------------------
(***************************************************************************)
(* Stacks cut off and changed at their end                                 *)
(***************************************************************************)

\* The frames below k, and what they say.
LEMMA Below ==
  ASSUME NEW s \in Stacks, NEW k \in 0 .. Len(s)
  PROVE  LET t == SubSeq(s, 1, k) IN
         /\ t \in Stacks /\ Len(t) = k /\ \A i \in 1 .. k : t[i] = s[i]
         /\ \A i \in 1 .. k + 1, env \in Env, gone \in BOOLEAN :
               EnvOK(s, i, env, gone) => EnvOK(t, i, env, gone)
<1> DEFINE t == SubSeq(s, 1, k)
<1>1. s \in Seq(Frame) /\ Len(s) \in Nat /\ DOMAIN s = 1 .. Len(s)
  BY DEF Stacks
<1>2. t \in Seq(Frame) /\ Len(t) = k /\ DOMAIN t = 1 .. k /\ \A i \in 1 .. k : t[i] = s[i]
  BY <1>1
<1> HIDE DEF t
<1>3. t \in Stacks
  BY <1>1, <1>2 DEF Stacks, Distinct
<1>4. ASSUME NEW i \in 1 .. k + 1, NEW env \in Env, NEW gone \in BOOLEAN, EnvOK(s, i, env, gone)
      PROVE  EnvOK(t, i, env, gone)
  <2>1. CASE IsInner(s, i, env)
    BY <1>1, <1>2, <2>1 DEF IsInner, EnvOK
  <2>2. CASE gone /\ Stale(s, i, env)
    BY <1>1, <1>2, <2>2 DEF Stale, EnvOK
  <2>3. QED
    BY <1>4, <2>1, <2>2 DEF EnvOK
<1>5. QED
  BY <1>2, <1>3, <1>4 DEF t

\* The frame k in another phase, and none above it.
LEMMA Changed ==
  ASSUME NEW s \in Stacks, NEW k \in 1 .. Len(s), NEW f \in Frame, FrameOK(f),
         f.at = s[k].at, f.old = s[k].old
  PROVE  LET t == Append(SubSeq(s, 1, k - 1), f) IN
         /\ t \in Stacks /\ Len(t) = k /\ t[k] = f /\ \A i \in 1 .. k - 1 : t[i] = s[i]
         /\ \A i \in 1 .. k, env \in Env, gone \in BOOLEAN :
               EnvOK(s, i, env, gone) => EnvOK(t, i, env, gone)
<1> DEFINE b == SubSeq(s, 1, k - 1)
           t == Append(b, f)
<1>1. s \in Seq(Frame) /\ Len(s) \in Nat /\ DOMAIN s = 1 .. Len(s) /\ k - 1 \in 0 .. Len(s)
  BY DEF Stacks
<1>2. b \in Seq(Frame) /\ b \in Stacks /\ Len(b) = k - 1 /\ \A i \in 1 .. k - 1 : b[i] = s[i]
  BY <1>1, Below DEF Stacks
<1> HIDE DEF b
<1>3. /\ t \in Seq(Frame) /\ Len(t) = k /\ DOMAIN t = 1 .. k /\ t[k] = f
      /\ \A i \in 1 .. k - 1 : t[i] = s[i]
  BY <1>2
<1> HIDE DEF t
<1>4. \A i \in DOMAIN t : t[i].at = s[i].at
  BY <1>3
<1>5. Distinct(t)
  BY <1>1, <1>3, <1>4 DEF Stacks, Distinct
<1>6. \A i \in DOMAIN t : FrameOK(t[i])
  BY <1>1, <1>3 DEF Stacks
<1>7. ASSUME NEW i \in 1 .. k, NEW env \in Env, NEW gone \in BOOLEAN, EnvOK(s, i, env, gone)
      PROVE  EnvOK(t, i, env, gone)
  <2>1. CASE IsInner(s, i, env)
    <3>1. CASE env = NULL /\ \A j \in DOMAIN s : j < i => s[j].phase = "finally"
      BY <1>1, <1>3, <3>1 DEF IsInner, EnvOK
    <3>2. CASE \E j \in DOMAIN s :
                 /\ j < i /\ s[j].phase \in Kinds /\ env = [at |-> s[j].at, kind |-> s[j].phase]
                 /\ \A l \in DOMAIN s : j < l /\ l < i => s[l].phase = "finally"
      <4>1. PICK j \in DOMAIN s :
                 /\ j < i /\ s[j].phase \in Kinds /\ env = [at |-> s[j].at, kind |-> s[j].phase]
                 /\ \A l \in DOMAIN s : j < l /\ l < i => s[l].phase = "finally"
        BY <3>2
      <4>2. j \in DOMAIN t /\ t[j] = s[j]
        BY <1>1, <1>3, <4>1
      <4>3. \A l \in DOMAIN t : l < i => l \in DOMAIN s /\ t[l] = s[l]
        BY <1>1, <1>3
      <4>4. IsInner(t, i, env)
        BY <4>1, <4>2, <4>3 DEF IsInner
      <4>5. QED
        BY <4>4 DEF EnvOK
    <3>3. QED
      BY <2>1, <3>1, <3>2 DEF IsInner
  <2>2. CASE gone /\ Stale(s, i, env)
    <3>1. \A j \in DOMAIN t : j < i => j \in DOMAIN s /\ t[j] = s[j]
      BY <1>1, <1>3
    <3>2. QED
      BY <2>2, <3>1 DEF Stale, EnvOK
  <2>3. QED
    BY <1>7, <2>1, <2>2 DEF EnvOK
<1>8. QED
  BY <1>3, <1>5, <1>6, <1>7 DEF t, b, Stacks

\* The frame k comes to FINALLY: its statement's raise_env is put back.
LEMMA ToFinally ==
  ASSUME NEW s \in Stacks, NEW k \in 1 .. Len(s), NEW e \in Codes \cup {0},
         NEW gone \in BOOLEAN, Olds(s, gone)
  PROVE  LET t == Append(SubSeq(s, 1, k - 1), Finally(s[k], e)) IN
         /\ t \in Stacks /\ Len(t) = k /\ t[k].exception = e
         /\ s[k].old \in Env /\ Chain(t, s[k].old, gone)
<1> USE DEF Olds
<1> DEFINE f == Finally(s[k], e)
           t == Append(SubSeq(s, 1, k - 1), f)
<1>1. /\ s \in Seq(Frame) /\ Len(s) \in Nat /\ DOMAIN s = 1 .. Len(s) /\ s[k] \in Frame
      /\ \A i \in DOMAIN s : s[i].old \in Env
  <2>1. s \in Seq(Frame) /\ Len(s) \in Nat /\ DOMAIN s = 1 .. Len(s) /\ \A i \in DOMAIN s : s[i] \in Frame
    BY DEF Stacks
  <2>2. \A g \in Frame : g.old \in Env
    BY DEF Frame
  <2>3. QED
    BY <2>1, <2>2
<1>2. f \in Frame /\ FrameOK(f) /\ f.at = s[k].at /\ f.old = s[k].old /\ f.phase = "finally" /\ f.exception = e
  BY <1>1 DEF Finally, Frame, FrameOK
<1> HIDE DEF f
<1>3. /\ t \in Stacks /\ Len(t) = k /\ t[k] = f /\ \A i \in 1 .. k - 1 : t[i] = s[i]
      /\ \A i \in 1 .. k, env \in Env : EnvOK(s, i, env, gone) => EnvOK(t, i, env, gone)
  BY <1>1, <1>2, Changed
<1> HIDE DEF t
<1>4. DOMAIN t = 1 .. k
  BY <1>3 DEF Stacks
<1>5. \A i \in DOMAIN t : t[i].old = s[i].old
  BY <1>2, <1>3, <1>4
<1>6. \A i \in DOMAIN t : EnvOK(t, i, t[i].old, gone)
  <2>1. \A i \in DOMAIN t : /\ i \in 1 .. k /\ s[i].old \in Env /\ t[i].old = s[i].old
                           /\ EnvOK(s, i, s[i].old, gone)
    BY <1>1, <1>4, <1>5
  <2>2. QED
    BY <1>3, <2>1
<1>7. EnvOK(t, k + 1, s[k].old, gone)
  <2>1. EnvOK(t, k, s[k].old, gone)
    BY <1>4, <1>5, <1>6
  <2>2. t[k].phase = "finally" /\ \A i \in DOMAIN t : i < k \/ i = k
    BY <1>2, <1>3, <1>4
  <2>3. \A i \in DOMAIN t : i < k => i < k + 1
    BY <1>4
  <2>4. CASE IsInner(t, k, s[k].old)
    BY <2>2, <2>3, <2>4 DEF IsInner, EnvOK
  <2>5. CASE gone /\ Stale(t, k, s[k].old)
    BY <2>2, <2>5 DEF Stale, EnvOK
  <2>6. QED
    BY <2>1, <2>4, <2>5 DEF EnvOK
<1>8. QED
  BY <1>1, <1>2, <1>3, <1>6, <1>7 DEF t, f, Chain, Olds

\* The TRY block of k has raised e, which its CATCH takes.
Caught(f, e) == [f EXCEPT !.phase = "catch", !.exception = e]

LEMMA ToCatch ==
  ASSUME NEW s \in Stacks, NEW k \in 1 .. Len(s), NEW e \in Codes, e \in s[k].caught,
         NEW gone \in BOOLEAN, Olds(s, gone)
  PROVE  LET f == Caught(s[k], e)
             t == Append(SubSeq(s, 1, k - 1), f)
             env == [at |-> s[k].at, kind |-> "catch"]
         IN  t \in Stacks /\ Len(t) = k /\ t[k].exception = e /\ env \in Env /\ Chain(t, env, gone)
<1> USE DEF Olds
<1> DEFINE f == Caught(s[k], e)
           t == Append(SubSeq(s, 1, k - 1), f)
           env == [at |-> s[k].at, kind |-> "catch"]
<1>1. /\ s \in Seq(Frame) /\ Len(s) \in Nat /\ DOMAIN s = 1 .. Len(s) /\ s[k] \in Frame
      /\ \A i \in DOMAIN s : s[i].old \in Env
  <2>1. s \in Seq(Frame) /\ Len(s) \in Nat /\ DOMAIN s = 1 .. Len(s) /\ \A i \in DOMAIN s : s[i] \in Frame
    BY DEF Stacks
  <2>2. \A g \in Frame : g.old \in Env
    BY DEF Frame
  <2>3. QED
    BY <2>1, <2>2
<1>2. f \in Frame /\ FrameOK(f) /\ f.at = s[k].at /\ f.old = s[k].old /\ f.phase = "catch" /\ f.exception = e
  BY <1>1 DEF Frame, Kinds, FrameOK, Caught
<1>3. env \in Env
  BY <1>1 DEF Frame, Env, Kinds
<1> HIDE DEF f
<1>4. /\ t \in Stacks /\ Len(t) = k /\ t[k] = f /\ \A i \in 1 .. k - 1 : t[i] = s[i]
      /\ \A i \in 1 .. k, v \in Env : EnvOK(s, i, v, gone) => EnvOK(t, i, v, gone)
  BY <1>1, <1>2, Changed
<1> HIDE DEF t
<1>5. DOMAIN t = 1 .. k
  BY <1>4 DEF Stacks
<1>6. \A i \in DOMAIN t : EnvOK(t, i, t[i].old, gone)
  <2>1. \A i \in DOMAIN t : t[i].old = s[i].old
    BY <1>2, <1>4, <1>5
  <2>2. QED
    BY <1>1, <1>4, <1>5, <2>1
<1>7. IsInner(t, k + 1, env)
  BY <1>2, <1>4, <1>5 DEF IsInner, Kinds
<1>8. QED
  BY <1>2, <1>3, <1>4, <1>6, <1>7 DEF t, f, Chain, Olds, EnvOK

-----------------------------------------------------------------------------
(***************************************************************************)
(* RAISE                                                                   *)
(***************************************************************************)

\* A pointer that is not dead names a statement, and as long as no TRY block was left by
\* return the frames above it are in their FINALLY blocks.
LEMMA Landing ==
  ASSUME NEW s \in Stacks, NEW env \in Env, env # NULL, NEW gone \in BOOLEAN,
         Chain(s, env, gone), ~ Dead(s, env)
  PROVE  LET k == CHOOSE i \in DOMAIN s : s[i].at = env.at IN
         /\ k \in 1 .. Len(s) /\ s[k].at = env.at
         /\ ~ gone => \A i \in DOMAIN s : k < i => s[i].phase = "finally"
<1>1. s \in Seq(Frame) /\ Len(s) \in Nat /\ DOMAIN s = 1 .. Len(s) /\ Distinct(s)
  BY DEF Stacks
<1>2. PICK j \in DOMAIN s : s[j].at = env.at
  BY DEF Dead
<1>3. j = CHOOSE i \in DOMAIN s : s[i].at = env.at
  BY <1>1, <1>2 DEF Distinct
<1>4. ASSUME ~ gone PROVE \A i \in DOMAIN s : j < i => s[i].phase = "finally"
  <2>1. IsInner(s, Len(s) + 1, env)
    BY <1>4 DEF Chain, EnvOK
  <2>2. PICK l \in DOMAIN s : /\ env = [at |-> s[l].at, kind |-> s[l].phase]
                              /\ \A i \in DOMAIN s : l < i => s[i].phase = "finally"
    BY <1>1, <2>1 DEF IsInner
  <2>3. l = j
    BY <1>1, <1>2, <2>2 DEF Distinct
  <2>4. QED
    BY <2>2, <2>3
<1>5. QED
  BY <1>1, <1>2, <1>3, <1>4

LEMMA JumpStep ==
  ASSUME NEW s \in Stacks, NEW env \in Env, NEW e \in Codes, NEW gone \in BOOLEAN,
         Chain(s, env, gone), Running, Jump(s, env, e)
  PROVE  /\ stack' \in Stacks /\ Len(stack') <= Len(s) /\ raise_env' \in Env
         /\ state' \in {"running", "exited", "undefined"}
         /\ state' = "running" => Chain(stack', raise_env', gone)
         /\ ~ gone => \A i \in DOMAIN s : Len(stack') < i => s[i].phase = "finally"
         /\ state' # "running" \/ (stack' # <<>> /\ stack'[Len(stack')].exception = e)
<1>1. s \in Seq(Frame) /\ Len(s) \in Nat /\ DOMAIN s = 1 .. Len(s)
  BY DEF Stacks
<1>2. CASE env = NULL
  BY <1>1, <1>2 DEF Jump
<1>3. CASE env # NULL /\ Dead(s, env)
  BY <1>1, <1>3 DEF Jump, Dead
<1>4. CASE env # NULL /\ ~ Dead(s, env)
  <2> DEFINE k == CHOOSE i \in DOMAIN s : s[i].at = env.at
  <2>1. /\ k \in 1 .. Len(s) /\ s[k].at = env.at
        /\ ~ gone => \A i \in DOMAIN s : k < i => s[i].phase = "finally"
    BY <1>4, Landing
  <2>2. /\ IF env.kind = "try" /\ e \in s[k].caught
            THEN /\ stack' = Append(SubSeq(s, 1, k - 1), Caught(s[k], e))
                 /\ raise_env' = [env EXCEPT !.kind = "catch"]
            ELSE /\ stack' = Append(SubSeq(s, 1, k - 1), Finally(s[k], e))
                 /\ raise_env' = s[k].old
        /\ state' = state
    BY <1>4 DEF Jump, Dead, Caught
  <2> HIDE DEF k
  <2>3. Olds(s, gone)
    BY DEF Chain
  <2>4. /\ stack' \in Stacks /\ Len(stack') = k /\ stack'[k].exception = e
        /\ raise_env' \in Env /\ Chain(stack', raise_env', gone)
    <3>1. CASE env.kind = "try" /\ e \in s[k].caught
      <4>1. [env EXCEPT !.kind = "catch"] = [at |-> s[k].at, kind |-> "catch"]
        <5>1. [env EXCEPT !.kind = "catch"] = [at |-> env.at, kind |-> "catch"]
          BY DEF Env
        <5>2. QED
          BY <2>1, <5>1
      <4> DEFINE t == Append(SubSeq(s, 1, k - 1), Caught(s[k], e))
                 v == [at |-> s[k].at, kind |-> "catch"]
      <4>2. t \in Stacks /\ Len(t) = k /\ t[k].exception = e /\ v \in Env /\ Chain(t, v, gone)
        <5>1. k \in 1 .. Len(s) /\ e \in s[k].caught
          BY <2>1, <3>1
        <5>2. QED
          BY <2>3, <5>1, ToCatch
      <4>3. stack' = t /\ raise_env' = v
        BY <2>2, <3>1, <4>1
      <4> HIDE DEF t, v
      <4>4. QED
        BY <4>2, <4>3
    <3>2. CASE ~ (env.kind = "try" /\ e \in s[k].caught)
      <4> DEFINE t == Append(SubSeq(s, 1, k - 1), Finally(s[k], e))
                 v == s[k].old
      <4>1. t \in Stacks /\ Len(t) = k /\ t[k].exception = e /\ v \in Env /\ Chain(t, v, gone)
        BY <2>1, <2>3, ToFinally
      <4>2. stack' = t /\ raise_env' = v
        BY <2>2, <3>2
      <4> HIDE DEF t, v
      <4>3. QED
        BY <4>1, <4>2
    <3>3. QED
      BY <3>1, <3>2
  <2>5. stack' # <<>>
    BY <2>1, <2>4
  <2>6. QED
    BY <1>1, <2>1, <2>2, <2>4, <2>5 DEF Running
<1>5. QED
  BY <1>2, <1>3, <1>4

-----------------------------------------------------------------------------
(***************************************************************************)
(* The steps                                                               *)
(***************************************************************************)
LEMMA InitIInv == Init => IInv
<1> SUFFICES ASSUME Init PROVE IInv
  OBVIOUS
<1>1. stack = <<>> /\ raise_env = NULL /\ state = "running" /\ left = FALSE
  BY DEF Init
<1>2. stack \in Seq(Frame) /\ Len(stack) = 0 /\ DOMAIN stack = {}
  BY <1>1
<1>3. TypeOK
  <2>1. Range(stack) = {}
    BY <1>2, Zenon DEF Range
  <2>2. NULL \in Env
    BY DEF NULL, Env
  <2>3. left \in BOOLEAN
    BY <1>1, Zenon
  <2>4. QED
    BY <1>1, <1>2, <2>1, <2>2, <2>3, ExceptionsAssumption DEF TypeOK
<1>4. stack \in Stacks
  BY <1>2 DEF Stacks, Distinct
<1>5. Chain(stack, raise_env, left)
  BY <1>1, <1>2 DEF Chain, Olds, EnvOK, IsInner
<1>6. QED
  BY <1>3, <1>4, <1>5 DEF IInv

\* What a stack in Stacks adds to the types.
LEMMA StackTypes ==
  ASSUME NEW s \in Stacks
  PROVE  /\ s \in Seq(Frame) /\ Len(s) \in Nat /\ DOMAIN s = 1 .. Len(s)
         /\ \A f \in Range(s) : /\ f.phase = "try" => f.exception = 0
                              /\ f.phase = "catch" => f.exception \in f.caught
  BY DEF Stacks, FrameOK, Range

LEMMA TryStep ==
  ASSUME IInv, NEW c \in SUBSET Codes, Try(c), UNCHANGED left
  PROVE  IInv'
<1>1. PICK a \in Unused :
         /\ stack' = Append(stack, [at |-> a, old |-> raise_env, phase |-> "try",
                                    caught |-> c, exception |-> 0, reraise |-> 0])
         /\ raise_env' = [at |-> a, kind |-> "try"]
  BY DEF Try
<1> DEFINE f == [at |-> a, old |-> raise_env, phase |-> "try",
                  caught |-> c, exception |-> 0, reraise |-> 0]
<1>2. /\ stack \in Seq(Frame) /\ Len(stack) \in Nat /\ DOMAIN stack = 1 .. Len(stack)
      /\ Len(stack) < MaxDepth /\ Running /\ state' = state /\ raise_env \in Env
      /\ left \in BOOLEAN /\ left' = left
  BY StackTypes DEF IInv, TypeOK, Try
<1>3. f \in Frame /\ FrameOK(f) /\ f.at = a /\ f.old = raise_env /\ f.phase = "try"
  BY <1>2 DEF Frame, FrameOK, Unused, Kinds
<1>4. \A i \in DOMAIN stack : a # stack[i].at
  BY DEF Unused, Range
<1>5. stack' = Append(stack, f)
  BY <1>1
<1> HIDE DEF f
<1>6. /\ stack' \in Seq(Frame) /\ Len(stack') = Len(stack) + 1 /\ DOMAIN stack' = 1 .. Len(stack) + 1
      /\ stack'[Len(stack) + 1] = f /\ \A i \in DOMAIN stack : stack'[i] = stack[i]
  BY <1>2, <1>3, <1>5
<1>7. stack' \in Stacks
  <2>1. Distinct(stack')
    BY <1>2, <1>3, <1>4, <1>6 DEF IInv, Stacks, Distinct
  <2>2. \A i \in DOMAIN stack' : FrameOK(stack'[i])
    BY <1>2, <1>3, <1>6 DEF IInv, Stacks
  <2>3. QED
    BY <1>6, <2>1, <2>2 DEF Stacks
<1>8. ASSUME NEW i \in 1 .. Len(stack) + 1, NEW env, EnvOK(stack, i, env, left)
      PROVE  EnvOK(stack', i, env, left)
  <2>1. CASE IsInner(stack, i, env)
    BY <1>2, <1>6, <2>1 DEF IsInner, EnvOK
  <2>2. CASE left /\ Stale(stack, i, env)
    <3>1. \A j \in DOMAIN stack' : j < i => j \in DOMAIN stack /\ stack'[j] = stack[j]
      BY <1>2, <1>6
    <3>2. QED
      BY <2>2, <3>1 DEF Stale, EnvOK
  <2>3. QED
    BY <1>8, <2>1, <2>2 DEF EnvOK
<1>9. Chain(stack, raise_env, left)
  BY <1>2 DEF IInv
<1>10. Chain(stack', raise_env', left')
  <2>1. IsInner(stack', Len(stack') + 1, raise_env')
    <3> DEFINE n == Len(stack) + 1
    <3>1. /\ n \in DOMAIN stack' /\ n < Len(stack') + 1 /\ stack'[n].phase \in Kinds
          /\ \A j \in DOMAIN stack' : ~ n < j
      BY <1>2, <1>3, <1>6 DEF Kinds
    <3>2. raise_env' = [at |-> stack'[n].at, kind |-> stack'[n].phase]
      BY <1>1, <1>3, <1>6
    <3> HIDE DEF n
    <3>3. QED
      BY <3>1, <3>2 DEF IsInner
  <2>2. ASSUME NEW i \in DOMAIN stack' PROVE EnvOK(stack', i, stack'[i].old, left)
    <3>1. CASE i = Len(stack) + 1
      BY <1>2, <1>3, <1>6, <1>8, <1>9, <3>1 DEF Chain, Olds
    <3>2. CASE i # Len(stack) + 1
      <4>1. i \in DOMAIN stack /\ i \in 1 .. Len(stack) + 1 /\ stack'[i].old = stack[i].old
        BY <1>2, <1>6, <3>2
      <4>2. QED
        BY <1>8, <1>9, <4>1 DEF Chain, Olds
    <3>3. QED
      BY <3>1, <3>2
  <2>3. QED
    BY <1>2, <2>1, <2>2 DEF Chain, Olds, EnvOK
<1>11. raise_env' \in Env
  BY <1>1 DEF Env, Kinds, Unused
<1>12. TypeOK'
  BY <1>2, <1>6, <1>7, <1>11, StackTypes, ExceptionsAssumption DEF IInv, TypeOK
<1>13. QED
  BY <1>7, <1>10, <1>12 DEF IInv

\* A step that jumps with the frames s, which are those of the stack that remain.
LEMMA JumpKeeps ==
  ASSUME IInv, NEW s \in Stacks, Len(s) <= Len(stack), NEW e \in Codes, Running,
         Chain(s, raise_env, left), Jump(s, raise_env, e), UNCHANGED left
  PROVE  IInv'
<1>1. raise_env \in Env /\ left \in BOOLEAN /\ Len(stack) <= MaxDepth /\ left' = left
  BY DEF IInv, TypeOK
<1>2. /\ stack' \in Stacks /\ Len(stack') <= Len(s) /\ raise_env' \in Env
      /\ state' \in {"running", "exited", "undefined"}
      /\ state' = "running" => Chain(stack', raise_env', left)
  BY <1>1, JumpStep
<1>3. /\ stack \in Stacks /\ Len(stack) \in Nat /\ Len(s) \in Nat /\ Len(stack') \in Nat
  BY <1>2, StackTypes DEF IInv
<1>4. Len(stack') <= MaxDepth
  BY <1>1, <1>2, <1>3, ExceptionsAssumption
<1>5. TypeOK'
  BY <1>1, <1>2, <1>4, StackTypes DEF TypeOK
<1>6. QED
  BY <1>1, <1>2, <1>5 DEF IInv, Running

LEMMA RaiseStep ==
  ASSUME IInv, NEW e \in Codes, Raise(e), UNCHANGED left
  PROVE  IInv'
<1>1. stack \in Stacks /\ Len(stack) \in Nat /\ Running /\ Chain(stack, raise_env, left)
  BY StackTypes DEF IInv, Raise
<1>2. QED
  BY <1>1, JumpKeeps DEF Raise

LEMMA EndBlockStep ==
  ASSUME IInv, EndBlock, UNCHANGED left
  PROVE  IInv'
<1> DEFINE k == Len(stack)
<1>1. /\ stack \in Stacks /\ stack \in Seq(Frame) /\ k \in 1 .. Len(stack) /\ left \in BOOLEAN
      /\ Len(stack) \in Nat /\ Chain(stack, raise_env, left) /\ state' = state /\ Running
      /\ Len(stack) <= MaxDepth
  BY StackTypes DEF IInv, TypeOK, EndBlock
<1>2. PICK e \in {0, stack[k].reraise} :
         /\ stack' = Append(SubSeq(stack, 1, k - 1), Finally(stack[k], e))
         /\ raise_env' = stack[k].old
  BY DEF EndBlock, Top, Front
<1>3. Olds(stack, left)
  BY <1>1 DEF Chain
<1> HIDE DEF k
<1>4. stack' \in Stacks /\ Len(stack') = k /\ raise_env' \in Env /\ Chain(stack', raise_env', left)
  <2> DEFINE t == Append(SubSeq(stack, 1, k - 1), Finally(stack[k], e))
  <2>1. t \in Stacks /\ Len(t) = k /\ stack[k].old \in Env /\ Chain(t, stack[k].old, left)
    <3>1. e \in Codes \cup {0}
      <4>1. stack[k] \in Frame
        BY <1>1
      <4>2. stack[k].reraise \in Codes \cup {0}
        BY <4>1 DEF Frame
      <4>3. QED
        BY <1>2, <4>2
    <3>2. k \in 1 .. Len(stack) /\ stack \in Stacks /\ left \in BOOLEAN
      BY <1>1
    <3>3. QED
      BY <1>3, <3>1, <3>2, ToFinally
  <2>2. stack' = t
    BY <1>2
  <2> HIDE DEF t
  <2>3. QED
    BY <1>2, <2>1, <2>2
<1>5. TypeOK'
  BY <1>1, <1>4, StackTypes DEF IInv, TypeOK, k
<1>6. QED
  BY <1>1, <1>4, <1>5 DEF IInv

\* The frames below the one that ends, when it is in FINALLY.
LEMMA FrontChain ==
  ASSUME IInv, Running, stack # <<>>, Top.phase = "finally"
  PROVE  /\ Front(stack) \in Stacks /\ Len(Front(stack)) = Len(stack) - 1
         /\ Chain(Front(stack), raise_env, left)
<1> DEFINE k == Len(stack) - 1
           t == SubSeq(stack, 1, k)
<1>1. /\ stack \in Stacks /\ stack \in Seq(Frame) /\ Len(stack) \in Nat /\ DOMAIN stack = 1 .. Len(stack)
      /\ k \in 0 .. Len(stack) /\ left \in BOOLEAN /\ raise_env \in Env
      /\ Chain(stack, raise_env, left)
  BY StackTypes DEF IInv, TypeOK
<1>2. /\ t \in Stacks /\ Len(t) = k /\ \A i \in 1 .. k : t[i] = stack[i]
      /\ \A i \in 1 .. k + 1, env \in Env : EnvOK(stack, i, env, left) => EnvOK(t, i, env, left)
  BY <1>1, Below
<1> HIDE DEF t
<1>3. DOMAIN t = 1 .. k
  BY <1>2, StackTypes
<1>4. \A i \in DOMAIN stack : stack[i] \in Frame /\ stack[i].old \in Env
  <2>1. \A i \in DOMAIN stack : stack[i] \in Frame
    BY <1>1
  <2>2. \A f \in Frame : f.old \in Env
    BY DEF Frame
  <2>3. QED
    BY <2>1, <2>2
<1>5. EnvOK(stack, k + 1, raise_env, left)
  <2>1. EnvOK(stack, Len(stack) + 1, raise_env, left)
    BY <1>1 DEF Chain, Olds
  <2>2. CASE IsInner(stack, Len(stack) + 1, raise_env)
    <3>1. stack[Len(stack)].phase \notin Kinds /\ Len(stack) \in DOMAIN stack
      BY <1>1 DEF Top, Kinds
    <3>2. IsInner(stack, Len(stack), raise_env)
      BY <1>1, <2>2, <3>1 DEF IsInner
    <3>3. QED
      BY <1>1, <3>2 DEF EnvOK
  <2>3. CASE left /\ Stale(stack, Len(stack) + 1, raise_env)
    BY <1>1, <2>3 DEF Stale, EnvOK
  <2>4. QED
    BY <2>1, <2>2, <2>3 DEF EnvOK
<1>6. Chain(t, raise_env, left)
  <2>1. \A i \in DOMAIN t : t[i].old = stack[i].old /\ EnvOK(stack, i, stack[i].old, left)
    BY <1>1, <1>2, <1>3 DEF Chain, Olds
  <2>2. \A i \in DOMAIN t : i \in 1 .. k + 1 /\ stack[i].old \in Env
    BY <1>1, <1>3, <1>4
  <2>3. \A i \in DOMAIN t : EnvOK(t, i, t[i].old, left)
    BY <1>2, <2>1, <2>2
  <2>4. EnvOK(t, k + 1, raise_env, left)
    BY <1>1, <1>2, <1>5
  <2>5. QED
    BY <1>2, <2>3, <2>4 DEF Chain, Olds
<1>7. QED
  BY <1>2, <1>6 DEF t, Front

LEMMA EndFinallyStep ==
  ASSUME IInv, EndFinally, UNCHANGED left
  PROVE  IInv'
<1>1. /\ Running /\ stack # <<>> /\ Top.phase = "finally" /\ stack \in Stacks
      /\ Front(stack) \in Stacks /\ Len(Front(stack)) = Len(stack) - 1
      /\ Chain(Front(stack), raise_env, left) /\ Len(stack) \in Nat
      /\ Chain(stack, raise_env, left)
  BY FrontChain, StackTypes DEF EndFinally, IInv
<1>2. CASE /\ stack' = Front(stack)
           /\ UNCHANGED <<raise_env, state>>
  <2>1. TypeOK'
    BY <1>1, <1>2, StackTypes, ExceptionsAssumption DEF IInv, TypeOK
  <2>2. QED
    BY <1>1, <1>2, <2>1 DEF IInv
<1>3. CASE Top.exception # 0 /\ Jump(stack, raise_env, Top.exception)
  <2>1. Top \in Frame
    BY <1>1, StackTypes DEF Top
  <2>2. Top.exception \in Codes
    BY <1>3, <2>1 DEF Frame
  <2>3. QED
    BY <1>1, <1>3, <2>2, JumpKeeps
<1>4. QED
  BY <1>2, <1>3 DEF EndFinally

LEMMA ReturnStep ==
  ASSUME IInv, Return
  PROVE  IInv'
<1> DEFINE k == Len(stack) - 1
           t == SubSeq(stack, 1, k)
<1>1. /\ stack \in Stacks /\ stack \in Seq(Frame) /\ Len(stack) \in Nat /\ DOMAIN stack = 1 .. Len(stack)
      /\ k \in 0 .. Len(stack) /\ left \in BOOLEAN /\ raise_env \in Env /\ Running
      /\ Chain(stack, raise_env, left) /\ Len(stack) <= MaxDepth
      /\ raise_env' = raise_env /\ state' = state /\ left' = TRUE /\ Top.phase = "try"
  BY StackTypes DEF IInv, TypeOK, Return
<1>2. /\ t \in Stacks /\ Len(t) = k /\ \A i \in 1 .. k : t[i] = stack[i]
      /\ \A i \in 1 .. k + 1, env \in Env : EnvOK(stack, i, env, left) => EnvOK(t, i, env, left)
  BY <1>1, Below
<1>3. stack' = t
  BY DEF Return, Front
<1> HIDE DEF t
<1>4. DOMAIN t = 1 .. k
  BY <1>2, StackTypes
<1>5. Stale(t, k + 1, raise_env)
  <2>1. EnvOK(stack, Len(stack) + 1, raise_env, left)
    BY <1>1 DEF Chain, Olds
  <2>2. CASE IsInner(stack, Len(stack) + 1, raise_env)
    <3>1. stack[Len(stack)].phase = "try" /\ Len(stack) \in DOMAIN stack
      BY <1>1 DEF Top
    <3>2. raise_env.at = stack[Len(stack)].at
      BY <1>1, <2>2, <3>1 DEF IsInner
    <3>3. stack[Len(stack)] \in Frame
      BY <1>1, <3>1
    <3>4. raise_env.at \in Addresses
      BY <3>2, <3>3 DEF Frame
    <3>5. raise_env # NULL
      BY <3>4, ExceptionsAssumption DEF NULL
    <3>6. QED
      BY <1>1, <1>2, <1>4, <3>1, <3>2, <3>5 DEF Stale, Stacks, Distinct
  <2>3. CASE Stale(stack, Len(stack) + 1, raise_env)
    BY <1>1, <1>2, <1>4, <2>3 DEF Stale
  <2>4. QED
    BY <2>1, <2>2, <2>3 DEF EnvOK
<1>6. \A i \in DOMAIN t : EnvOK(t, i, t[i].old, TRUE)
  <2>1. \A i \in DOMAIN stack : stack[i] \in Frame /\ stack[i].old \in Env
    <3>1. \A i \in DOMAIN stack : stack[i] \in Frame
      BY <1>1
    <3>2. \A f \in Frame : f.old \in Env
      BY DEF Frame
    <3>3. QED
      BY <3>1, <3>2
  <2>2. \A i \in DOMAIN t : /\ i \in 1 .. k + 1 /\ i \in DOMAIN stack /\ t[i].old = stack[i].old
                           /\ EnvOK(stack, i, stack[i].old, left)
    BY <1>1, <1>2, <1>4 DEF Chain, Olds
  <2>3. \A i \in DOMAIN t : EnvOK(t, i, t[i].old, left)
    BY <1>2, <2>1, <2>2
  <2>4. QED
    BY <2>3 DEF EnvOK
<1>7. Chain(stack', raise_env', left')
  BY <1>1, <1>2, <1>3, <1>5, <1>6 DEF Chain, Olds, EnvOK
<1>8. TypeOK'
  BY <1>1, <1>2, <1>3, StackTypes, ExceptionsAssumption DEF IInv, TypeOK
<1>9. QED
  BY <1>2, <1>3, <1>7, <1>8 DEF IInv

-----------------------------------------------------------------------------
(***************************************************************************)
(* Theorems                                                                *)
(***************************************************************************)

\* The inductive invariant: raise_env, and what every statement keeps of it, is the
\* innermost block of the frames below, or once a TRY block was left by return, dead or the
\* address of a statement in FINALLY.
THEOREM Invariance == Spec => []IInv
<1>1. IInv /\ [Next]_vars => IInv'
  <2> SUFFICES ASSUME IInv, [Next]_vars PROVE IInv'
    OBVIOUS
  <2>1. CASE Return
    BY <2>1, ReturnStep
  <2>2. CASE EndBlock /\ UNCHANGED left
    BY <2>2, EndBlockStep
  <2>3. CASE EndFinally /\ UNCHANGED left
    BY <2>3, EndFinallyStep
  <2>4. CASE \E c \in SUBSET Codes : Try(c) /\ UNCHANGED left
    BY <2>4, TryStep
  <2>5. CASE \E e \in Codes : Raise(e) /\ UNCHANGED left
    BY <2>5, RaiseStep
  <2>6. CASE UNCHANGED vars
    BY <2>6 DEF vars, IInv, TypeOK, Running, Chain, Olds
  <2>7. QED
    BY <2>1, <2>2, <2>3, <2>4, <2>5, <2>6 DEF Next
<1>2. QED
  BY <1>1, InitIInv, PTL DEF Spec

\* RAISE always knows the innermost block, or a TRY block has been left by return and its
\* pointer is dead or names a statement in FINALLY: no other block in execution, and not NULL.
THEOREM InnermostKnown == Spec => []KnowsInnermost
<1>1. IInv => KnowsInnermost
  <2> SUFFICES ASSUME IInv PROVE KnowsInnermost
    OBVIOUS
  <2> DEFINE n == Len(stack) + 1
  <2>1. /\ TypeOK /\ DOMAIN stack = 1 .. Len(stack) /\ Len(stack) \in Nat
        /\ Running => EnvOK(stack, n, raise_env, left)
    BY StackTypes DEF IInv, Chain, Olds
  <2>2. ASSUME IsInner(stack, n, raise_env) PROVE raise_env = Innermost(stack)
    <3>1. CASE \A i \in DOMAIN stack : stack[i].phase = "finally"
      <4>1. Blocks(stack) = {}
        BY <3>1 DEF Blocks, Kinds
      <4>2. raise_env = NULL
        BY <2>2, <3>1 DEF IsInner, Kinds
      <4>3. QED
        BY <4>1, <4>2 DEF Innermost
    <3>2. CASE ~ \A i \in DOMAIN stack : stack[i].phase = "finally"
      <4>1. PICK i \in DOMAIN stack :
              /\ stack[i].phase \in Kinds
              /\ raise_env = [at |-> stack[i].at, kind |-> stack[i].phase]
              /\ \A j \in DOMAIN stack : i < j => stack[j].phase = "finally"
        BY <2>1, <2>2, <3>2 DEF IsInner
      <4>2. i \in Blocks(stack) /\ \A j \in Blocks(stack) : j <= i
        BY <2>1, <4>1 DEF Blocks, Kinds
      <4>3. i = CHOOSE j \in Blocks(stack) : \A k \in Blocks(stack) : k <= j
        BY <2>1, <4>2 DEF Blocks
      <4>4. QED
        BY <4>1, <4>2, <4>3 DEF Innermost
    <3>3. QED
      BY <3>1, <3>2
  <2>3. QED
    BY <2>1, <2>2 DEF KnowsInnermost, EnvOK, Stale
<1>2. QED
  BY <1>1, Invariance, PTL

\* A statement is left through its FINALLY block only, unless a TRY block is left by return.
THEOREM FinallyAlways == Spec => FinallyRuns
<1> DEFINE A == ~ left' => \A i \in DOMAIN stack : Len(stack') < i => stack[i].phase = "finally"
<1>1. IInv /\ [Next]_vars => [A]_vars
  <2> SUFFICES ASSUME IInv, Next, ~ left' PROVE A
    BY DEF vars
  <2>1. /\ stack \in Stacks /\ stack \in Seq(Frame) /\ Len(stack) \in Nat /\ DOMAIN stack = 1 .. Len(stack)
        /\ raise_env \in Env /\ left \in BOOLEAN
    BY StackTypes DEF IInv, TypeOK
  <2>2. CASE \E c \in SUBSET Codes : Try(c)
    <3>1. PICK f : stack' = Append(stack, f)
      BY <2>2 DEF Try
    <3>2. Len(stack') = Len(stack) + 1
      BY <2>1, <3>1
    <3>3. QED
      BY <2>1, <3>2
  <2>3. CASE (\E e \in Codes : Raise(e)) /\ UNCHANGED left
    <3>1. PICK e \in Codes : Raise(e)
      BY <2>3
    <3>2. Chain(stack, raise_env, left) /\ Running /\ Jump(stack, raise_env, e) /\ ~ left
      BY <2>3, <3>1 DEF IInv, Raise
    <3>3. QED
      BY <2>1, <3>2, JumpStep
  <2>4. CASE EndBlock
    <3>1. \E e : stack' = Append(SubSeq(stack, 1, Len(stack) - 1), Finally(Top, e)) /\ stack # <<>>
      BY <2>4 DEF EndBlock, Front
    <3>2. Len(stack') = Len(stack)
      BY <2>1, <3>1
    <3>3. QED
      BY <2>1, <3>2
  <2>5. CASE EndFinally /\ UNCHANGED left
    <3>1. /\ Running /\ stack # <<>> /\ Top.phase = "finally" /\ ~ left
          /\ Chain(stack, raise_env, left)
      BY <2>5 DEF EndFinally, IInv
    <3>2. \/ stack' = Front(stack)
          \/ Jump(stack, raise_env, Top.exception) /\ Top.exception # 0
      BY <2>5 DEF EndFinally
    <3>3. CASE stack' = Front(stack)
      <4>1. Len(Front(stack)) = Len(stack) - 1
        BY <2>1, <3>1 DEF Front
      <4>2. QED
        BY <2>1, <3>1, <3>3, <4>1 DEF Top
    <3>4. CASE Jump(stack, raise_env, Top.exception) /\ Top.exception # 0
      <4>1. Top \in Frame
        BY <2>1, <3>1 DEF Top
      <4>2. Top.exception \in Codes
        BY <3>4, <4>1 DEF Frame
      <4>3. QED
        BY <2>1, <3>1, <3>4, <4>2, JumpStep
    <3>5. QED
      BY <3>2, <3>3, <3>4
  <2>6. CASE Return
    BY <2>6 DEF Return
  <2>7. QED
    BY <2>2, <2>3, <2>4, <2>5, <2>6 DEF Next
<1>2. QED
  BY <1>1, Invariance, PTL DEF Spec, FinallyRuns

\* What is in flight when a FINALLY block ends is handled, waits for the next FINALLY, or
\* ends the process.
THEOREM InFlightKept == Spec => NothingSwallowed
<1> DEFINE A == Len(stack') < Len(stack) /\ Top.phase = "finally" /\ Top.exception # 0 =>
                  \/ state' # "running"
                  \/ stack' # <<>> /\ stack'[Len(stack')].exception # 0
<1>1. IInv /\ [Next]_vars => [A]_vars
  <2> SUFFICES ASSUME IInv, Next, Len(stack') < Len(stack), Top.phase = "finally", Top.exception # 0
               PROVE  \/ state' # "running"
                      \/ stack' # <<>> /\ stack'[Len(stack')].exception # 0
    BY DEF vars
  <2>1. /\ stack \in Stacks /\ stack \in Seq(Frame) /\ Len(stack) \in Nat /\ DOMAIN stack = 1 .. Len(stack)
        /\ raise_env \in Env /\ left \in BOOLEAN
    BY StackTypes DEF IInv, TypeOK
  <2>2. CASE \E c \in SUBSET Codes : Try(c)
    <3>1. PICK f : stack' = Append(stack, f)
      BY <2>2 DEF Try
    <3>2. Len(stack') = Len(stack) + 1
      BY <2>1, <3>1
    <3>3. QED
      BY <2>1, <3>2
  <2>3. CASE \E e \in Codes : Raise(e)
    <3>1. PICK e \in Codes : Raise(e)
      BY <2>3
    <3>2. Chain(stack, raise_env, left) /\ Running /\ Jump(stack, raise_env, e)
      BY <3>1 DEF IInv, Raise
    <3>3. state' # "running" \/ (stack' # <<>> /\ stack'[Len(stack')].exception = e)
      BY <2>1, <3>2, JumpStep
    <3>4. QED
      BY <3>3, ExceptionsAssumption
  <2>4. CASE EndBlock
    <3>1. \E e : stack' = Append(SubSeq(stack, 1, Len(stack) - 1), Finally(Top, e)) /\ stack # <<>>
      BY <2>4 DEF EndBlock, Front
    <3>2. Len(stack') = Len(stack)
      BY <2>1, <3>1
    <3>3. QED
      BY <2>1, <3>2
  <2>5. CASE EndFinally
    <3>1. /\ Running /\ stack # <<>> /\ Jump(stack, raise_env, Top.exception)
          /\ Chain(stack, raise_env, left)
      BY <2>5 DEF EndFinally, IInv
    <3>2. Top \in Frame
      BY <2>1, <3>1 DEF Top
    <3>3. Top.exception \in Codes
      BY <3>2 DEF Frame
    <3>4. state' # "running" \/ (stack' # <<>> /\ stack'[Len(stack')].exception = Top.exception)
      BY <2>1, <3>1, <3>3, JumpStep
    <3>5. QED
      BY <3>4
  <2>6. CASE Return
    BY <2>6 DEF Return
  <2>7. QED
    BY <2>2, <2>3, <2>4, <2>5, <2>6 DEF Next
<1>2. QED
  BY <1>1, Invariance, PTL DEF Spec, NothingSwallowed
===============================================================================
