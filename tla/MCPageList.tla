------------------------------ MODULE MCPageList ------------------------------
EXTENDS PageList, TLC

CONSTANTS a, b, c, d

\* Pages are only compared with each other and with 0.
Symmetry == Permutations(Page)
=============================================================================
