---------------------------- MODULE MCExceptions -----------------------------
EXTENDS Exceptions, TLC

CONSTANTS e1, e2, b1, b2, b3, b4

\* Codes and addresses are only compared.
Symmetry == Permutations(Codes) \cup Permutations(Addresses)
=============================================================================
