---------------------------- MODULE MCSceneFeed ----------------------------
(* Small instances of SceneFeed for TLC. *)
EXTENDS SceneFeed, TLC

Symmetry == Permutations(Clients) \cup Permutations(Mutations) \cup Permutations(Loads)
=============================================================================
