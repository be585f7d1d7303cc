------------------------------ MODULE MCCloud ------------------------------
(* Symmetry for CloudLineage. *)
EXTENDS CloudLineage, TLC

OperatorSymmetry == Permutations(Operators)
=============================================================================
