----------------------------- MODULE MCSurfaces -----------------------------
EXTENDS Surfaces, TLC
Symmetry == Permutations(Surfaces) \cup Permutations(Volumes) \cup Permutations(Requests)
=============================================================================
