----------------------------- MODULE RecordStore ------------------------------
(***************************************************************************)
(* What a heap promises (core/src/heap/heap.h, core/src/pool/pool.h): a    *)
(* set of records, changed by appends and deletes that take effect in the  *)
(* next flush, all of them, and nothing else does.  The promise ends with  *)
(* a kill, or a failure in the middle of a call.                           *)
(***************************************************************************)
CONSTANT Records

VARIABLES
    status,     \* of each record: "absent", "added", "stored" or "deleted"
    flushing,   \* a flush is in progress
    cut         \* a call has been cut short

vars == <<status, flushing, cut>>

Init ==
    /\ status = [r \in Records |-> "absent"]
    /\ flushing = FALSE /\ cut = FALSE

Append(r) ==
    /\ ~ flushing /\ status[r] = "absent"
    /\ status' = [status EXCEPT ![r] = "added"]
    /\ UNCHANGED flushing

Delete(r) ==
    /\ ~ flushing /\ status[r] = "stored"
    /\ status' = [status EXCEPT ![r] = "deleted"]
    /\ UNCHANGED flushing

StartFlush == ~ flushing /\ flushing' = TRUE /\ UNCHANGED status

Apply(r) ==
    /\ flushing /\ status[r] \in {"added", "deleted"}
    /\ status' = [status EXCEPT ![r] = IF @ = "added" THEN "stored" ELSE "absent"]
    /\ UNCHANGED flushing

EndFlush ==
    /\ flushing /\ \A r \in Records : status[r] \in {"absent", "stored"}
    /\ flushing' = FALSE
    /\ UNCHANGED status

Clear ==
    /\ ~ flushing
    /\ status' = [r \in Records |-> "absent"]
    /\ UNCHANGED flushing

Call ==
    \/ \E r \in Records : Append(r) \/ Delete(r) \/ Apply(r)
    \/ StartFlush \/ EndFlush \/ Clear

Next == cut' \/ (~ cut /\ ~ cut' /\ Call)

Spec == Init /\ [][Next]_vars
=============================================================================
