---------------------------- MODULE MCStreamCache ----------------------------
EXTENDS StreamCache, TLC
Symmetry == Permutations(Callers) \cup Permutations(Macs)
=============================================================================
