----------------------------- MODULE MCTenancy -----------------------------
(* Small instances of Tenancy for TLC. *)
EXTENDS Tenancy, TLC

SoloCaps == [projects |-> 1, admins |-> 1, non_admin |-> 1]

Symmetry == Permutations(Users) \cup Permutations(Orgs) \cup Permutations(Projects)
              \cup Permutations(Emails) \cup Permutations(Requests)
=============================================================================
