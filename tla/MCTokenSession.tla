--------------------------- MODULE MCTokenSession ---------------------------
EXTENDS TokenSession, TLC
CallSymmetry == Permutations(Calls)
=============================================================================
