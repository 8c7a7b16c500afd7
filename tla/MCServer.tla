------------------------------- MODULE MCServer -------------------------------
EXTENDS Server, TLC

CONSTANTS c1, c2, c3

Symmetry == Permutations(Conns)
=============================================================================
