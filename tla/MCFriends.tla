----------------------------- MODULE MCFriends ------------------------------
EXTENDS Friends, TLC

CONSTANTS a, b, c1, c2

Symmetry == Permutations(Calls)
=============================================================================
