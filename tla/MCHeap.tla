-------------------------------- MODULE MCHeap --------------------------------
EXTENDS Heap, TLC

CONSTANTS r1, r2, r3, r4, r5, r6

\* Records are only compared with each other and with "junk" and "none".
Symmetry == Permutations(Records)
=============================================================================
