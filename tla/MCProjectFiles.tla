-------------------------- MODULE MCProjectFiles ---------------------------
EXTENDS ProjectFiles, TLC
OneCache == <<"terrain">>
Symmetry == Permutations(Projects) \cup Permutations(Drawings) \cup Permutations(Requests)
=============================================================================
