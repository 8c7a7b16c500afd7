------------------------------- MODULE PageSeq -------------------------------
(***************************************************************************)
(* What the list of pages of a heap is (core/src/heap/private/pagelist.h): *)
(* a sequence of distinct pages that grows at its end.  A kill, or a       *)
(* failure in the middle of a call, ends the promise.                      *)
(***************************************************************************)
EXTENDS Naturals, SequencesExt

CONSTANT Page

VARIABLES list, cut

vars == <<list, cut>>

Init == list = <<>> /\ cut = FALSE

Append1 == \E p \in Page \ ToSet(list) : list' = Append(list, p)

Delete1 == \E i \in 1 .. Len(list) : list' = RemoveAt(list, i)

Next == cut' \/ (~ cut /\ ~ cut' /\ (Append1 \/ Delete1))

Spec == Init /\ [][Next]_vars
=============================================================================
