-------------------------------- MODULE Loops --------------------------------
(***************************************************************************)
(* The nested loops of the cursors (core/src/database/cursor) by positions *)
(* alone: FROM walks the rows of table 0, JOIN k pairs what its left       *)
(* cursor is at with the rows of table k, WHERE filters, and the statement *)
(* takes what comes out.  Which rows a condition takes is a set of         *)
(* positions, any at all; evaluating one, or getting a page, may fail at   *)
(* every step.                                                             *)
(***************************************************************************)
EXTENDS Naturals, Sequences

VARIABLES
    joins,          \* how many JOINs
    size,           \* of every table: its rows
    passes,         \* of JOIN k: the positions in tables 0 .. k it takes; the last is WHERE's
    pos,            \* the row every FROM is at; one beyond the last when empty
    top,            \* the outermost JOIN built so far
    level,          \* the cursor whose next() runs
    step,           \* where the walk is
    got             \* the positions that came out
asked == <<joins, size, passes>>
walk == <<joins, size, passes, pos, top, level, step, got>>

Upto(t, k) == [i \in 0 .. k |-> t[i]]
Takes(k) == Upto(pos, k) \in passes[k]

\* CursorIsEmpty of the cursor of JOIN k; of the first FROM when k is 0.
Empty(k) == \E t \in 0 .. k : pos[t] > size[t]

Start ==
    /\ joins \in Nat /\ size \in [0 .. joins -> Nat] /\ DOMAIN passes = 1 .. joins + 1
    /\ pos = [k \in 0 .. joins |-> 1] /\ top = 0 /\ level = 0
    /\ step = "rest" /\ got = <<>>

BuildJoin ==                    \* CursorNew_JOIN
    /\ step = "rest" /\ top < joins
    /\ top' = top + 1 /\ level' = top + 1
    /\ step' = IF Empty(top + 1) \/ Takes(top + 1) THEN "rest" ELSE "next"
    /\ UNCHANGED <<asked, pos, got>>

\* next() of JOIN k is over: on with JOIN k + 1, which restarts its own table, or
\* with who called it.
After(k, moved) ==
    IF k = top THEN pos' = moved /\ level' = level /\ step' = "rest"
    ELSE pos' = [moved EXCEPT ![k + 1] = 1] /\ level' = k + 1 /\ step' = "test"

NextRow ==                      \* CursorNext, from the outside in
    /\ step = "next"
    /\ LET moved == [pos EXCEPT ![level] = @ + 1]
       IN  IF level = 0 THEN After(0, moved)
           ELSE /\ pos' = moved
                /\ IF moved[level] > size[level]
                   THEN step' = "next" /\ level' = level - 1
                   ELSE step' = "test" /\ UNCHANGED level
    /\ UNCHANGED <<asked, top, got>>

Test ==                         \* the loop of CursorNext_JOIN
    /\ step = "test"
    /\ IF Empty(level) \/ Takes(level) THEN After(level, pos)
       ELSE step' = "next" /\ UNCHANGED <<pos, level>>
    /\ UNCHANGED <<asked, top, got>>

Where ==                        \* the loop of CursorNew_WHERE and CursorNext_WHERE
    /\ step = "rest" /\ top = joins
    /\ step' = IF Empty(joins) \/ pos \in passes[joins + 1] THEN "row" ELSE "next"
    /\ UNCHANGED <<asked, pos, top, level, got>>

Found ==                        \* the body of the statement's loop
    /\ step = "row" /\ ~ Empty(joins)
    /\ got' = Append(got, pos) /\ step' = "next"
    /\ UNCHANGED <<asked, pos, top, level>>

LastRow ==
    /\ step = "row" /\ Empty(joins)
    /\ step' = "done"
    /\ UNCHANGED <<asked, pos, top, level, got>>

Stop ==                         \* an exception, an assertion, a page that cannot be mapped
    /\ step # "stopped" /\ step' = "stopped"
    /\ \/ UNCHANGED <<top, level>>
       \/ top < joins /\ top' = top + 1 /\ level' = top + 1
    /\ UNCHANGED <<asked, pos, got>>

Turn == BuildJoin \/ NextRow \/ Test \/ Where \/ Found \/ LastRow \/ Stop

Walk == Start /\ [][Turn]_walk

-----------------------------------------------------------------------------
(***************************************************************************)
(* What the walk is for                                                    *)
(***************************************************************************)
Positions == {t \in [0 .. joins -> UNION {1 .. size[k] : k \in 0 .. joins}] :
                 \A k \in 0 .. joins : t[k] <= size[k]}
InView(t) ==
    /\ \A k \in 1 .. joins : Upto(t, k) \in passes[k]
    /\ t \in passes[joins + 1]
Before(s, t, k) == \E i \in 0 .. k : s[i] < t[i] /\ \A h \in 0 .. i - 1 : s[h] = t[h]

\* The rows that come out are those that every condition takes, each once and in the
\* order of nested loops; none is left out up to where the walk has come, whatever
\* tables are empty.
WalkExact ==
    /\ \A i, j \in DOMAIN got : i < j => Before(got[i], got[j], joins)
    /\ \A i \in DOMAIN got : got[i] \in Positions /\ InView(got[i])
    /\ step \in {"row", "done"} =>
          \A t \in Positions :
             InView(t) /\ (step = "row" => Before(t, pos, joins)) =>
                \E i \in DOMAIN got : got[i] = t
=============================================================================
