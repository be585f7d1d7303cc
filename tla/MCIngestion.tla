---------------------------- MODULE MCIngestion ----------------------------
(* Two bundles that share a point, and a third that can be prepared or     *)
(* assembled from them.                                                    *)
EXTENDS Ingestion

CONSTANTS b1, b2, p1, p2, p3

SharedPoints ==
  [b \in Bundles |-> IF b = b1 THEN {p1, p2} ELSE IF b = b2 THEN {p2, p3} ELSE Points]
=============================================================================
