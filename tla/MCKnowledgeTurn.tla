-------------------------- MODULE MCKnowledgeTurn --------------------------
(* Model values for PinProbe and for ReleaseAudit, whose operators are the *)
(* ones that PinProbe's turns and checks run beside.                       *)
EXTENDS PinProbe, ReleaseAudit, TLC

CONSTANTS r1, r2, r3, d1, d2, d3

NoneActive == <<>>

\* r1 and r3 hold the same two documents and find another one of them first;
\* r2 is the release the check expects after the rollback.
MCHolds == r1 :> {d1, d3} @@ r2 :> {d2} @@ r3 :> {d1, d3}
MCTop == r1 :> d1 @@ r2 :> d2 @@ r3 :> d3

MCInit == PInit /\ AInit

MCSpec == MCInit /\ [][PNext /\ NextOwed]_<<pvars, owed>>

OperatorSymmetry == Permutations(Operators)

(* Bound: two operators, or one operator beside a turn, or one beside a    *)
(* check, run at a time.                                                   *)
BusyOperators == {p \in Operators : pc[p] # "idle"}
TurnRuns      == \E t \in Turns : step[t] # "off"
CheckRuns     == phase \in {"search"} \cup Verifying

AtMostTwoRun ==
  /\ ~(TurnRuns /\ CheckRuns)
  /\ TurnRuns \/ CheckRuns => Cardinality(BusyOperators) <= 1
=============================================================================
