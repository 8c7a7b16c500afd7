------------------------------- MODULE MCTable --------------------------------
EXTENDS Table, TLC

CONSTANTS k1, k2

Symmetry == Permutations(Keys)
=============================================================================
