--------------------------- MODULE MCApplications ---------------------------
(* Instances of Applications for TLC. *)
EXTENDS Applications, TLC

Symmetry == Permutations(Updates) \cup Permutations(People)
=============================================================================
