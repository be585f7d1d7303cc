--------------------------- MODULE MCBGECapacity ---------------------------
(* Symmetry for BGECapacity: requests of a mode are interchangeable. *)
EXTENDS BGECapacity, TLC

RequestSymmetry == Permutations(Queries) \cup Permutations(Batches)
=============================================================================
