------------------------------ MODULE MCGroups ------------------------------
EXTENDS Groups, TLC

CONSTANTS owner, a, c1, c2, p1

Symmetry == Permutations(Calls)
=============================================================================
