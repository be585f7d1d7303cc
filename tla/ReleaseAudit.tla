---------------------------- MODULE ReleaseAudit ----------------------------
(***************************************************************************)
(* ReleaseActivation with an audit of the .history log: which links the    *)
(* operators have made whose line is not in it.                            *)
(***************************************************************************)
EXTENDS ReleaseActivation, Integers

ASSUME AuditAssumption == IsFiniteSet(Operators)

VARIABLE
  owed  \* per release: links whose line a running operator owes the log

avars == <<verified, current, history, pc, target, seen, owed>>

AInit ==
  /\ Init
  /\ owed = [r \in Releases |-> 0]

Lines(h, r) == Cardinality({i \in DOMAIN h : h[i] = r})

\* The operators that link r in this step, and those killed before its line.
LinkedTo(r) == {p \in Operators : LinkedBy(p) /\ target[p] = r}

KilledOwing(r) ==
  {p \in Operators :
     pc[p] = "record" /\ pc'[p] = "idle" /\ history' = history /\ target[p] = r}

(* Linking r owes the log a line; a line pays, and a crash forgives, one.  *)
NextOwed ==
  owed' = [r \in Releases |->
             owed[r] + Lines(history, r) + Cardinality(LinkedTo(r))
               - Lines(history', r) - Cardinality(KilledOwing(r))]

ANext == Next /\ NextOwed

ASpec == AInit /\ [][ANext]_avars

----------------------------------------------------------------------------
Recording(r) == {p \in Operators : pc[p] = "record" /\ target[p] = r}

(* "History records both": however the operators interleave and wherever  *)
(* they are killed, the links missing from the log are exactly those that  *)
(* a running operator is about to append, or that were lost by a crash     *)
(* between the rename and the append.                                      *)
HistoryRecordsEveryLink ==
  \A r \in Releases : owed[r] = Cardinality(Recording(r))
=============================================================================
