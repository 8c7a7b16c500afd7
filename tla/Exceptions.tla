------------------------------ MODULE Exceptions ------------------------------
(***************************************************************************)
(* The TRY, CATCH, FINALLY and RAISE macros of util/exceptions.  One       *)
(* global pointer, raise_env, says where RAISE jumps to.  TRY points it at *)
(* a jmp_buf in its own stack frame and keeps the old pointer to put back. *)
(* RETRY, which nothing uses, is left out.                                 *)
(***************************************************************************)
EXTENDS Naturals, Sequences, SequencesExt

CONSTANTS
    Codes,          \* exception codes, none of them 0
    Addresses,      \* of the jmp_buf pairs on the stack
    MaxDepth        \* bound: nested TRY statements

ASSUME ExceptionsAssumption ==
    0 \notin Codes /\ MaxDepth \in Nat /\ "null" \notin Addresses

VARIABLES
    stack,          \* the TRY statements in execution, the innermost last
    raise_env,      \* __TRY_CATCH_LIB__raise_env
    state,          \* "running", "exited" by exit(), "undefined" after a jump
                    \* into a function that has returned
    left            \* history: a TRY block has been left by return
vars == <<stack, raise_env, state, left>>

\* exception is what CATCH handles, or what FINALLY has to raise again; 0 is none.
\* reraise is what FINALLY had to raise again in an earlier round.  old is raise_env
\* from before the TRY.
Kinds == {"try", "catch"}
Env == [at : Addresses, kind : Kinds] \cup {[at |-> "null", kind |-> "try"]}
NULL == [at |-> "null", kind |-> "try"]
Frame == [at : Addresses, old : Env, phase : Kinds \cup {"finally"},
          caught : SUBSET Codes, exception : Codes \cup {0}, reraise : Codes \cup {0}]

TypeOK ==
    /\ stack \in Seq(Frame) /\ Len(stack) <= MaxDepth
    /\ \A f \in Range(stack) : /\ f.phase = "try" => f.exception = 0
                              /\ f.phase = "catch" => f.exception \in f.caught
    /\ raise_env \in Env
    /\ state \in {"running", "exited", "undefined"}
    /\ left \in BOOLEAN

Init == stack = <<>> /\ raise_env = NULL /\ state = "running" /\ left = FALSE

Running == state = "running"
Top == stack[Len(stack)]

\* The frame of a function that has returned is used again: raise_env, and what a
\* statement keeps of it, may be the address of the next jmp_buf.  (One that merely
\* overlaps a dead jmp_buf makes a jump there as undefined as none.)
Unused == Addresses \ {f.at : f \in Range(stack)}

Try(caught) ==
    /\ Running /\ Len(stack) < MaxDepth
    /\ \E a \in Unused :
          /\ stack' = Append(stack, [at |-> a, old |-> raise_env, phase |-> "try",
                                     caught |-> caught, exception |-> 0, reraise |-> 0])
          /\ raise_env' = [at |-> a, kind |-> "try"]
    /\ UNCHANGED state

\* The block of f is over, with the exception e still to be raised.
Finally(f, e) == [f EXCEPT !.phase = "finally", !.exception = e, !.reraise = e]

\* Mutant: the block of FINALLY runs before raise_env is put back.
JumpLate(s, env, e) ==
    IF env = NULL THEN state' = "exited" /\ stack' = s /\ raise_env' = env
    ELSE IF \A i \in DOMAIN s : s[i].at # env.at
         THEN state' = "undefined" /\ stack' = s /\ raise_env' = env
    ELSE LET k == CHOOSE i \in DOMAIN s : s[i].at = env.at
             f == s[k]
             below == SubSeq(s, 1, k - 1)
         IN  /\ IF env.kind = "try" /\ e \in f.caught
                THEN /\ stack' = Append(below, [f EXCEPT !.phase = "catch", !.exception = e])
                     /\ raise_env' = [env EXCEPT !.kind = "catch"]
                ELSE /\ stack' = Append(below, Finally(f, e))
                     /\ raise_env' = env
             /\ UNCHANGED state

\* RAISE(e) with raise_env = env and the frames s: longjmp drops the frames above
\* the one it lands in.  From the TRY block it goes to the CATCH that matches,
\* and without one, or from a CATCH block, to FINALLY.  A pointer to a statement
\* whose block is over runs that statement's CATCH and FINALLY once more.
Jump(s, env, e) ==
    IF env = NULL THEN state' = "exited" /\ stack' = s /\ raise_env' = env
    ELSE IF \A i \in DOMAIN s : s[i].at # env.at
         THEN state' = "undefined" /\ stack' = s /\ raise_env' = env
    ELSE LET k == CHOOSE i \in DOMAIN s : s[i].at = env.at
             f == s[k]
             below == SubSeq(s, 1, k - 1)
         IN  /\ IF env.kind = "try" /\ e \in f.caught
                THEN /\ stack' = Append(below, [f EXCEPT !.phase = "catch", !.exception = e])
                     /\ raise_env' = [env EXCEPT !.kind = "catch"]
                ELSE /\ stack' = Append(below, Finally(f, e))
                     /\ raise_env' = f.old
             /\ UNCHANGED state

Raise(e) == Running /\ Jump(stack, raise_env, e)    \* also rmalloc's

\* Mutant: FINALLY is for exceptions only.
EndBlockNoFinally ==
    /\ Running /\ stack # <<>> /\ Top.phase \in Kinds
    /\ stack' = Front(stack)
    /\ raise_env' = Top.old
    /\ UNCHANGED state

\* The TRY block, or the CATCH block, comes to its end.  Where the statement has been
\* in FINALLY before, longjmp may have restored its __TRY_CATCH_LIB__reraise or not.
EndBlock ==
    /\ Running /\ stack # <<>> /\ Top.phase \in Kinds
    /\ \E e \in {0, Top.reraise} : stack' = Append(Front(stack), Finally(Top, e))
    /\ raise_env' = Top.old
    /\ UNCHANGED state

\* Mutant: the exception is forgotten after FINALLY.
EndFinallyForgets ==
    /\ Running /\ stack # <<>> /\ Top.phase = "finally"
    /\ stack' = Front(stack)
    /\ UNCHANGED <<raise_env, state>>

EndFinally ==
    /\ Running /\ stack # <<>> /\ Top.phase = "finally"
    /\ \/ /\ Top.exception = 0
          /\ stack' = Front(stack)
          /\ UNCHANGED <<raise_env, state>>
       \/ /\ Top.exception # 0
          /\ Jump(stack, raise_env, Top.exception)

\* return inside a TRY block, as in Database.c:253, leaves raise_env behind.
Return ==
    /\ Running /\ stack # <<>> /\ Top.phase = "try"
    /\ stack' = Front(stack)
    /\ left' = TRUE
    /\ UNCHANGED <<raise_env, state>>

Next ==
    \/ /\ \/ \E c \in SUBSET Codes : Try(c)
          \/ \E e \in Codes : Raise(e)
          \/ EndBlock \/ EndFinally
       /\ UNCHANGED left
    \/ Return

Spec == Init /\ [][Next]_vars

-----------------------------------------------------------------------------
(***************************************************************************)
(* Properties                                                              *)
(***************************************************************************)

\* The innermost TRY or CATCH block in execution, if there is one.
Blocks(s) == {i \in DOMAIN s : s[i].phase \in Kinds}
Innermost(s) ==
    IF Blocks(s) = {} THEN NULL
    ELSE LET i == CHOOSE j \in Blocks(s) : \A k \in Blocks(s) : k <= j
         IN  [at |-> s[i].at, kind |-> s[i].phase]

\* RAISE always knows the innermost block, FINALLY blocks left out: an exception
\* raised in FINALLY, or in a function called there, goes to the enclosing
\* statement.  After a return inside a TRY block raise_env may be dead, or name a
\* statement that reused the dead frame and is in FINALLY already (an exception
\* there starts it over); it never skips the innermost block for an outer one in
\* execution, nor for the end of the process.
KnowsInnermost ==
    /\ TypeOK
    /\ Running =>
          \/ raise_env = Innermost(stack)
          \/ /\ left /\ raise_env # NULL
             /\ \A i \in DOMAIN stack :
                   stack[i].at = raise_env.at => stack[i].phase = "finally"

\* A statement whose block has begun is left through its FINALLY block only,
\* whatever is raised in functions called below it.
FinallyRuns ==
    [][~ left' => \A i \in DOMAIN stack : Len(stack') < i => stack[i].phase = "finally"]_vars

\* An exception in flight is not dropped when FINALLY is over: the same one, or
\* one raised in the FINALLY block in its place, is being handled by an enclosing
\* statement or waits there for FINALLY, or has ended the process.
NothingSwallowed ==
    [][Len(stack') < Len(stack) /\ Top.phase = "finally" /\ Top.exception # 0 =>
          \/ state' # "running"
          \/ stack' # <<>> /\ stack'[Len(stack')].exception # 0]_vars

\* RAISE never jumps into a function that has returned: without a TRY above it
\* the program exits with the code.
NoDeadJump == state # "undefined"
=============================================================================
