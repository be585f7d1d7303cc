--------------------------- MODULE ReleaseLineage ---------------------------
(***************************************************************************)
(* ReleaseActivation with a history variable: what the operators have done,*)
(* independently of what the .history log says.                            *)
(***************************************************************************)
EXTENDS ReleaseActivation

VARIABLE
  lineage  \* releases activated and not rolled back since, oldest first

lvars == <<verified, current, history, pc, target, seen, lineage>>

Front(s) == SubSeq(s, 1, Len(s) - 1)

LInit ==
  /\ Init
  /\ lineage = InitiallyActive

(* A rollback leaves the newest release of the lineage; linking another    *)
(* release than the active one extends it.                                 *)
NextLineage ==
  lineage' = IF \E p \in Operators : LinkedBy(p) /\ pc[p] = "relink"
             THEN IF Len(lineage) > 1 THEN Front(lineage) ELSE lineage
             ELSE IF current' # current THEN Append(lineage, current')
             ELSE lineage

LNext == Next /\ NextLineage

LSpec == LInit /\ [][LNext]_lvars

----------------------------------------------------------------------------
(* The promise to the operator: a stack of releases, see ReleaseStack. *)
Stack == INSTANCE ReleaseStack WITH stack <- lineage, serving <- current

StackSpec == Stack!Spec

(* A rollback is about to link the release that was active before the      *)
(* active one, or refuses only when there is none.                         *)
RollbackReturnsToPrevious ==
  \A p \in Operators :
    /\ pc[p] = "relink" =>
         Len(lineage) > 1 /\ target[p] = lineage[Len(lineage) - 1]
    /\ pc[p] = "refused" => Len(lineage) < 2
=============================================================================
