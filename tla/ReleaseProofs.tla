--------------------------- MODULE ReleaseProofs ---------------------------
(***************************************************************************)
(* Local activation: an unfinished ingestion is never served, and serving  *)
(* never stops, for any number of operators and releases, whatever the     *)
(* interleaving, the crashes and the withdrawals of retired releases.      *)
(*                                                                         *)
(* And rollback is right for a disciplined operator: one process, no       *)
(* crash, no marker removed, and only newly built releases activated.      *)
(* Under that discipline ReleaseLineage implements ReleaseStack, for any   *)
(* number of releases and any length of the log.                           *)
(*                                                                         *)
(* The log misses exactly the links that a running operator owes it, and   *)
(* those whose operator was killed.                                        *)
(*                                                                         *)
(* For any number of turns, operators and releases, a turn reads releases  *)
(* served while it ran, and no more than it has asked for.  And the check  *)
(* of release pins passes only when what it reports is so.                 *)
(***************************************************************************)
EXTENDS PinProbe, ReleaseLineage, ReleaseAudit, SequenceTheorems,
        FiniteSetTheorems, TLAPS

LEMMA EntriesAppend ==
  ASSUME NEW s \in Seq(Releases), NEW x \in Releases
  PROVE  Entries(Append(s, x)) = Entries(s) \cup {x}
<1>1. ASSUME NEW y \in Entries(Append(s, x)) PROVE y \in Entries(s) \cup {x}
  BY <1>1 DEF Entries
<1>2. ASSUME NEW y \in Entries(s) PROVE y \in Entries(Append(s, x))
  BY <1>2 DEF Entries
<1>3. x \in Entries(Append(s, x))
  <2>1. Len(s) + 1 \in DOMAIN Append(s, x) /\ Append(s, x)[Len(s) + 1] = x
    OBVIOUS
  <2> QED BY <2>1 DEF Entries
<1> QED BY <1>1, <1>2, <1>3

(* Every step keeps the types, while every logged release is verified. *)
LEMMA TypeStep ==
  ASSUME TypeOK, Entries(history) \subseteq verified, [Next]_vars
  PROVE  TypeOK'
<1> USE ReleaseAssumption
<1>1. ASSUME NEW r \in Releases, FinishImport(r) \/ Withdraw(r) PROVE TypeOK'
  BY <1>1 DEF TypeOK, FinishImport, Withdraw
<1>2. ASSUME NEW p \in Operators, NEW r \in Releases, BeginActivate(p, r)
      PROVE  TypeOK'
  BY <1>2 DEF TypeOK, BeginActivate, Steps
<1>3. ASSUME NEW p \in Operators, BeginRollback(p) PROVE TypeOK'
  <2>1. ValidHistory \in Seq(Releases)
    BY DEF ValidHistory, TypeOK
  <2> QED BY <1>3, <2>1 DEF TypeOK, BeginRollback, Steps
<1>4. ASSUME NEW p \in Operators, ChoosePrevious(p) PROVE TypeOK'
  <2> DEFINE t == seen[p][RollbackIndex(seen[p]) - 1]
  <2>1. CASE /\ Activatable(t)
             /\ pc' = [pc EXCEPT ![p] = "relink"]
             /\ target' = [target EXCEPT ![p] = t]
    <3>1. t \in Releases
      BY <2>1 DEF Activatable, TypeOK
    <3> HIDE DEF t
    <3> QED
      BY <1>4, <2>1, <3>1 DEF TypeOK, ChoosePrevious, Steps
  <2>2. CASE pc' = [pc EXCEPT ![p] = "refused"] /\ UNCHANGED target
    BY <1>4, <2>2 DEF TypeOK, ChoosePrevious, Steps
  <2> QED
    BY <1>4, <2>1, <2>2 DEF ChoosePrevious
<1>5. ASSUME NEW p \in Operators, SwapLink(p) PROVE TypeOK'
  BY <1>5 DEF TypeOK, SwapLink, Steps
<1>6. ASSUME NEW p \in Operators, Record(p) PROVE TypeOK'
  BY <1>6 DEF TypeOK, Record, Steps
<1>7. ASSUME NEW p \in Operators, ReportRefusal(p) PROVE TypeOK'
  BY <1>7 DEF TypeOK, ReportRefusal, Steps
<1>8. ASSUME NEW p \in Operators, Crash(p) PROVE TypeOK'
  <2>1. seen' \in [Operators -> Seq(Releases)]
    BY <1>8 DEF TypeOK, Crash
  <2> QED BY <1>8, <2>1 DEF TypeOK, Crash, Steps
<1>9. CASE UNCHANGED vars
  BY <1>9 DEF TypeOK, vars
<1> QED
  BY <1>1, <1>2, <1>3, <1>4, <1>5, <1>6, <1>7, <1>8, <1>9 DEF Next, OperatorStep

----------------------------------------------------------------------------
(* Without withdrawals nothing a running operator links or logs, and       *)
(* nothing the log holds, loses its marker.                                *)
LoggedInv ==
  /\ TypeOK
  /\ Entries(history) \subseteq verified
  /\ \A p \in Operators : target[p] \in verified \cup {None}

LEMMA LoggedInit == Init => LoggedInv
<1> SUFFICES ASSUME Init PROVE LoggedInv
  OBVIOUS
<1> USE ReleaseAssumption DEF Init
<1>1. TypeOK
  BY DEF TypeOK, Steps, Entries, Last
<1> QED
  BY <1>1 DEF LoggedInv, Entries

LEMMA LoggedStep ==
  ASSUME ~MayWithdraw, LoggedInv, [Next]_vars
  PROVE  LoggedInv'
<1> USE ReleaseAssumption DEF LoggedInv
<1>T. TypeOK /\ TypeOK'
  BY TypeStep
<1>1. ASSUME NEW r \in Releases, FinishImport(r) PROVE LoggedInv'
  BY <1>1, <1>T DEF FinishImport
<1>2. ASSUME NEW p \in Operators, NEW r \in Releases, BeginActivate(p, r)
      PROVE  LoggedInv'
  BY <1>2, <1>T DEF BeginActivate, Activatable, TypeOK
<1>3. ASSUME NEW p \in Operators, BeginRollback(p) PROVE LoggedInv'
  BY <1>3, <1>T DEF BeginRollback
<1>4. ASSUME NEW p \in Operators, ChoosePrevious(p) PROVE LoggedInv'
  <2> DEFINE t == seen[p][RollbackIndex(seen[p]) - 1]
  <2>1. target' = target \/ (t \in verified /\ target' = [target EXCEPT ![p] = t])
    BY <1>4 DEF ChoosePrevious, Activatable
  <2> HIDE DEF t
  <2>2. \A q \in Operators : target'[q] \in verified \cup {None}
    BY <2>1, <1>T DEF TypeOK
  <2> QED BY <1>4, <1>T, <2>2 DEF ChoosePrevious
<1>5. ASSUME NEW p \in Operators, SwapLink(p) PROVE LoggedInv'
  BY <1>5, <1>T DEF SwapLink
<1>6. ASSUME NEW p \in Operators, Record(p) PROVE LoggedInv'
  <2>1. target[p] \in verified /\ target[p] \in Releases
    BY <1>6, <1>T DEF Record, TypeOK
  <2>2. Entries(history') = Entries(history) \cup {target[p]}
    BY <1>6, <1>T, <2>1, EntriesAppend DEF Record, TypeOK
  <2> QED BY <1>6, <1>T, <2>1, <2>2 DEF Record, TypeOK
<1>7. ASSUME NEW p \in Operators, ReportRefusal(p) PROVE LoggedInv'
  BY <1>7, <1>T DEF ReportRefusal
<1>8. ASSUME NEW p \in Operators, Crash(p) PROVE LoggedInv'
  BY <1>8, <1>T DEF Crash, TypeOK
<1>9. CASE UNCHANGED vars
  BY <1>9, <1>T DEF vars
<1> QED
  BY <1>1, <1>2, <1>3, <1>4, <1>5, <1>6, <1>7, <1>8, <1>9
  DEF Next, OperatorStep, Withdraw

(* The types hold.  (A rollback's filtered reading of the log is a         *)
(* SelectSeq, of which the prover knows nothing; without withdrawals it is *)
(* the log itself.)                                                        *)
THEOREM TypesHold ==
  ASSUME ~MayWithdraw
  PROVE  Spec => []TypeOK
<1>1. LoggedInv => TypeOK
  BY DEF LoggedInv
<1> QED
  BY LoggedInit, LoggedStep, <1>1, PTL DEF Spec

----------------------------------------------------------------------------
(* What keeps an unfinished release from being linked: whatever an         *)
(* operator is about to link is verified, and nobody withdraws it.         *)
LinkInv ==
  /\ verified \subseteq Releases
  /\ pc \in [Operators -> Steps]
  /\ target \in [Operators -> Releases \cup {None}]
  /\ ServesOnlyVerified
  /\ \A p \in Operators :
       pc[p] \in {"link", "relink"} => target[p] \in verified

LEMMA LinkInit == Init => LinkInv
BY ReleaseAssumption
DEF Init, LinkInv, ServesOnlyVerified, Steps, Entries, Last

LEMMA LinkStep ==
  ASSUME LinkInv, [Next]_vars
  PROVE  LinkInv'
<1> USE ReleaseAssumption DEF LinkInv, ServesOnlyVerified, Steps
<1>1. ASSUME NEW r \in Releases, FinishImport(r) \/ Withdraw(r) PROVE LinkInv'
  BY <1>1 DEF FinishImport, Withdraw
<1>2. ASSUME NEW p \in Operators, NEW r \in Releases, BeginActivate(p, r)
      PROVE  LinkInv'
  BY <1>2 DEF BeginActivate, Activatable
<1>3. ASSUME NEW p \in Operators, BeginRollback(p) PROVE LinkInv'
  BY <1>3 DEF BeginRollback
<1>4. ASSUME NEW p \in Operators, ChoosePrevious(p) PROVE LinkInv'
  <2> DEFINE t == seen[p][RollbackIndex(seen[p]) - 1]
  <2>1. \/ /\ t \in verified
           /\ target' = [target EXCEPT ![p] = t]
           /\ pc' = [pc EXCEPT ![p] = "relink"]
        \/ target' = target /\ pc' = [pc EXCEPT ![p] = "refused"]
    BY <1>4 DEF ChoosePrevious, Activatable
  <2> HIDE DEF t
  <2> QED BY <1>4, <2>1 DEF ChoosePrevious
<1>5. ASSUME NEW p \in Operators, SwapLink(p) PROVE LinkInv'
  BY <1>5 DEF SwapLink
<1>6. ASSUME NEW p \in Operators, Record(p) PROVE LinkInv'
  BY <1>6 DEF Record
<1>7. ASSUME NEW p \in Operators, ReportRefusal(p) PROVE LinkInv'
  BY <1>7 DEF ReportRefusal
<1>8. ASSUME NEW p \in Operators, Crash(p) PROVE LinkInv'
  BY <1>8 DEF Crash
<1>9. CASE UNCHANGED vars
  BY <1>9 DEF vars
<1> QED
  BY <1>1, <1>2, <1>3, <1>4, <1>5, <1>6, <1>7, <1>8, <1>9 DEF Next, OperatorStep

(* The link never points to a release that did not pass import.            *)
THEOREM OnlyVerifiedIsServed == Spec => []ServesOnlyVerified
<1>1. LinkInv => ServesOnlyVerified
  BY DEF LinkInv
<1> QED
  BY LinkInit, LinkStep, <1>1, PTL DEF Spec

(* No step takes the served release away without serving another.          *)
LEMMA ServingStep ==
  ASSUME LinkInv, [Next]_vars, Served # None
  PROVE  Served' # None
<1>1. LinkInv'
  BY LinkStep
<1>2. current # None
  BY DEF Served
<1>3. current' # None
  BY <1>2, ReleaseAssumption DEF LinkInv, Next, vars, OperatorStep, FinishImport,
    Withdraw, BeginActivate, BeginRollback, ChoosePrevious, SwapLink, Record,
    ReportRefusal, Crash
<1> QED
  BY <1>1, <1>3 DEF LinkInv, ServesOnlyVerified, Served

(* Retrieval always finds a release once it has found one.                 *)
THEOREM ServingNeverStops == Spec => NeverUnpublished
<1>1. LinkInv /\ [Next]_vars => [Served # None => Served' # None]_vars
  BY ServingStep
<1> QED
  BY LinkInit, LinkStep, <1>1, PTL DEF Spec, NeverUnpublished

----------------------------------------------------------------------------
(* Under the discipline of one operator. *)
Discipline(op) ==
  /\ Operators = {op}
  /\ ~MayCrash
  /\ ~MayReactivate
  /\ ~MayWithdraw
  /\ \A i, j \in DOMAIN InitiallyActive :
       InitiallyActive[i] = InitiallyActive[j] => i = j

\* The log as it will be once the operator has caught up with its last link.
Log(op) == IF pc[op] = "record" THEN Append(history, target[op]) ELSE history

\* e is the position of the first entry of the log equal to r.
FirstAt(log, r, e) ==
  e \in DOMAIN log /\ log[e] = r /\ \A j \in 1..(e - 1) : log[j] # r

LineageOK(log) ==
  /\ lineage \in Seq(Releases)
  /\ \A i, j \in DOMAIN lineage : lineage[i] = lineage[j] => i = j
  /\ IF lineage = <<>>
     THEN current = None /\ log = <<>>
     ELSE /\ current = lineage[Len(lineage)]
          /\ log # <<>>
          /\ log[Len(log)] = current

\* What rollback relies on: the entry before the first entry of a release of
\* the lineage is the release below it.
LogOrdersLineage(log) ==
  \A k \in DOMAIN lineage :
    \E e \in DOMAIN log :
      /\ FirstAt(log, lineage[k], e)
      /\ k = 1 => e = 1
      /\ k > 1 => e > 1 /\ log[e - 1] = lineage[k - 1]

OperatorOK(op) ==
  /\ pc[op] = "link" =>
       target[op] # current /\ target[op] \notin Entries(history)
  /\ pc[op] = "readCurrent" => seen[op] = history
  /\ pc[op] = "relink" =>
       Len(lineage) > 1 /\ target[op] = lineage[Len(lineage) - 1]
  /\ pc[op] = "refused" => Len(lineage) < 2

DisciplinedInv(op) ==
  /\ TypeOK
  /\ Entries(Log(op)) \subseteq verified
  /\ pc[op] \in {"link", "relink"} => target[op] \in verified
  /\ LineageOK(Log(op))
  /\ LogOrdersLineage(Log(op))
  /\ OperatorOK(op)

----------------------------------------------------------------------------
(* The index list.index returns is the only position FirstAt holds at. *)
LEMMA FirstIndexIsFirst ==
  ASSUME NEW s \in Seq(Releases), NEW r, NEW e, FirstAt(s, r, e)
  PROVE  FirstIndex(s, r) = e
<1>1. ASSUME NEW i \in DOMAIN s, s[i] = r, \A j \in 1..(i - 1) : s[j] # r
      PROVE  i = e
  BY <1>1, SMT DEF FirstAt
<1>2. e \in DOMAIN s /\ s[e] = r /\ \A j \in 1..(e - 1) : s[j] # r
  BY DEF FirstAt
<1> QED
  BY <1>1, <1>2 DEF FirstIndex

(* Appending to the log leaves the first entry of what it holds where it is. *)
LEMMA FirstAtAppend ==
  ASSUME NEW s \in Seq(Releases), NEW x \in Releases, NEW r, NEW e,
         FirstAt(s, r, e)
  PROVE  FirstAt(Append(s, x), r, e)
BY DEF FirstAt

(* An entry that is new to the log is first at its end. *)
LEMMA FirstAtNew ==
  ASSUME NEW s \in Seq(Releases), NEW x \in Releases, x \notin Entries(s)
  PROVE  FirstAt(Append(s, x), x, Len(s) + 1)
BY DEF FirstAt, Entries

----------------------------------------------------------------------------
LEMMA DisciplinedInit ==
  ASSUME NEW op, Discipline(op), LInit
  PROVE  DisciplinedInv(op)
<1> USE ReleaseAssumption
<1>1. pc = [p \in {op} |-> "idle"] /\ pc[op] = "idle"
  BY DEF LInit, Init, Discipline
<1>2. Log(op) = InitiallyActive /\ lineage = InitiallyActive
  BY <1>1 DEF LInit, Init, Log
<1>3. TypeOK
  BY <1>1 DEF LInit, Init, TypeOK, Steps, Entries, Last, Discipline
<1>4. LineageOK(Log(op))
  BY <1>2 DEF LineageOK, LInit, Init, Last, Discipline
<1>5. LogOrdersLineage(Log(op))
  <2> SUFFICES ASSUME NEW k \in DOMAIN lineage
               PROVE  /\ FirstAt(InitiallyActive, lineage[k], k)
                      /\ k > 1 => InitiallyActive[k - 1] = lineage[k - 1]
    BY <1>2 DEF LogOrdersLineage
  <2> QED BY <1>2 DEF FirstAt, Discipline
<1> QED
  BY <1>1, <1>2, <1>3, <1>4, <1>5 DEF DisciplinedInv, OperatorOK, LInit, Init

(* The steps that neither link nor log: the ghost and the log stand still. *)
LEMMA DisciplinedQuiet ==
  ASSUME NEW op, Discipline(op), DisciplinedInv(op), TypeOK',
         verified \subseteq verified', current' = current,
         lineage' = lineage, Log(op)' = Log(op),
         pc'[op] \in {"link", "relink"} => target'[op] \in verified',
         OperatorOK(op)'
  PROVE  DisciplinedInv(op)'
BY DEF DisciplinedInv, LineageOK, LogOrdersLineage

(* Linking a release that is new to the log. *)
LEMMA DisciplinedActivate ==
  ASSUME NEW op, Discipline(op), DisciplinedInv(op), TypeOK', SwapLink(op),
         pc[op] = "link", lineage' = Append(lineage, current')
  PROVE  DisciplinedInv(op)'
<1> DEFINE t == target[op]
           n == Len(history)
<1>1. /\ Operators = {op} /\ TypeOK
      /\ Log(op) = history /\ history \in Seq(Releases) /\ lineage \in Seq(Releases)
      /\ LineageOK(history) /\ LogOrdersLineage(history)
      /\ Entries(history) \subseteq verified
  BY DEF Discipline, DisciplinedInv, Log, LineageOK, TypeOK
<1>2. /\ t \in Releases /\ t \in verified
      /\ t \notin Entries(history) /\ t # current
  BY <1>1 DEF DisciplinedInv, OperatorOK, TypeOK
<1>3. /\ current' = t /\ lineage' = Append(lineage, t)
      /\ pc'[op] = "record" /\ history' = history /\ verified' = verified
      /\ Log(op)' = Append(history, t)
  BY <1>1 DEF SwapLink, Log, TypeOK
<1>4. Entries(Log(op)') \subseteq verified'
  BY <1>1, <1>2, <1>3, EntriesAppend
<1>5. ASSUME NEW k \in DOMAIN lineage PROVE lineage[k] # t
  <2>1. PICK e \in DOMAIN history : history[e] = lineage[k]
    BY <1>1 DEF LogOrdersLineage, FirstAt
  <2> QED BY <1>2, <2>1 DEF Entries
<1>6. LineageOK(Log(op))'
  <2>1. \A i, j \in DOMAIN lineage' : lineage'[i] = lineage'[j] => i = j
    BY <1>1, <1>2, <1>3, <1>5 DEF LineageOK
  <2>2. lineage' # <<>> /\ lineage' \in Seq(Releases)
    BY <1>1, <1>2, <1>3
  <2>3. current' = lineage'[Len(lineage')]
    BY <1>1, <1>2, <1>3
  <2>4. Log(op)' # <<>> /\ Log(op)'[Len(Log(op)')] = current'
    BY <1>1, <1>2, <1>3
  <2> HIDE DEF t
  <2> QED BY <2>1, <2>2, <2>3, <2>4 DEF LineageOK
<1>7. LogOrdersLineage(Log(op))'
  <2> SUFFICES ASSUME NEW k \in DOMAIN Append(lineage, t)
               PROVE  \E e \in DOMAIN Append(history, t) :
                        /\ FirstAt(Append(history, t), Append(lineage, t)[k], e)
                        /\ k = 1 => e = 1
                        /\ k > 1 => /\ e > 1
                                    /\ Append(history, t)[e - 1]
                                         = Append(lineage, t)[k - 1]
    BY <1>3 DEF LogOrdersLineage
  <2>1. CASE k \in DOMAIN lineage
    <3>1. PICK e \in DOMAIN history :
            /\ FirstAt(history, lineage[k], e)
            /\ k = 1 => e = 1
            /\ k > 1 => e > 1 /\ history[e - 1] = lineage[k - 1]
      BY <1>1, <2>1 DEF LogOrdersLineage
    <3>2. FirstAt(Append(history, t), lineage[k], e)
      BY <1>1, <1>2, <3>1, FirstAtAppend
    <3>3. Append(lineage, t)[k] = lineage[k] /\ e \in DOMAIN Append(history, t)
      BY <1>1, <1>2, <2>1
    <3>4. k > 1 => e > 1 /\ Append(history, t)[e - 1] = Append(lineage, t)[k - 1]
      BY <1>1, <1>2, <2>1, <3>1
    <3> HIDE DEF t
    <3> QED BY <3>1, <3>2, <3>3, <3>4
  <2>2. CASE k = Len(lineage) + 1
    <3>1. PICK e \in DOMAIN Append(history, t) : e = n + 1
      BY <1>1, <1>2
    <3>2. Append(lineage, t)[k] = t
      BY <1>1, <1>2, <2>2
    <3>3. FirstAt(Append(history, t), Append(lineage, t)[k], e)
      BY <1>1, <1>2, <3>1, <3>2, FirstAtNew
    <3>4. k = 1 => e = 1
      BY <1>1, <2>2, <3>1 DEF LineageOK
    <3>5. k > 1 => e > 1 /\ Append(history, t)[e - 1] = Append(lineage, t)[k - 1]
      BY <1>1, <1>2, <2>2, <3>1 DEF LineageOK
    <3> HIDE DEF t
    <3> QED BY <3>3, <3>4, <3>5
  <2>3. k \in DOMAIN lineage \/ k = Len(lineage) + 1
    BY <1>1, <1>2
  <2> QED BY <2>1, <2>2, <2>3
<1>8. OperatorOK(op)' /\ ~(pc'[op] \in {"link", "relink"})
  BY <1>3 DEF OperatorOK
<1> QED BY <1>4, <1>6, <1>7, <1>8 DEF DisciplinedInv

(* Linking the release below the active one. *)
LEMMA DisciplinedRollback ==
  ASSUME NEW op, Discipline(op), DisciplinedInv(op), TypeOK', SwapLink(op),
         pc[op] = "relink", lineage' = Front(lineage)
  PROVE  DisciplinedInv(op)'
<1> DEFINE t == target[op]
           m == Len(lineage)
<1>1. /\ Operators = {op} /\ TypeOK
      /\ Log(op) = history /\ history \in Seq(Releases) /\ lineage \in Seq(Releases)
      /\ LineageOK(history) /\ LogOrdersLineage(history)
      /\ Entries(history) \subseteq verified
  BY DEF Discipline, DisciplinedInv, Log, LineageOK, TypeOK
<1>2. t \in Releases /\ t \in verified /\ m > 1 /\ t = lineage[m - 1]
  BY <1>1 DEF DisciplinedInv, OperatorOK, TypeOK
<1>3. /\ current' = t
      /\ pc'[op] = "record" /\ history' = history /\ verified' = verified
      /\ Log(op)' = Append(history, t)
  BY <1>1 DEF SwapLink, Log, TypeOK
<1>4. /\ lineage' \in Seq(Releases) /\ Len(lineage') = m - 1
      /\ \A i \in 1..(m - 1) : lineage'[i] = lineage[i]
  BY <1>1, <1>2 DEF Front
<1>5. Entries(Log(op)') \subseteq verified'
  BY <1>1, <1>2, <1>3, EntriesAppend
<1>6. LineageOK(Log(op))'
  <2>1. \A i, j \in DOMAIN lineage' : lineage'[i] = lineage'[j] => i = j
    BY <1>1, <1>2, <1>4 DEF LineageOK
  <2>2. lineage' # <<>> /\ current' = lineage'[Len(lineage')]
    BY <1>1, <1>2, <1>3, <1>4
  <2>3. Log(op)' # <<>> /\ Log(op)'[Len(Log(op)')] = current'
    BY <1>1, <1>2, <1>3
  <2> HIDE DEF t, m
  <2> QED BY <1>4, <2>1, <2>2, <2>3 DEF LineageOK
<1>7. LogOrdersLineage(Log(op))'
  <2> SUFFICES ASSUME NEW k \in DOMAIN lineage'
               PROVE  \E e \in DOMAIN Append(history, t) :
                        /\ FirstAt(Append(history, t), lineage'[k], e)
                        /\ k = 1 => e = 1
                        /\ k > 1 => /\ e > 1
                                    /\ Append(history, t)[e - 1] = lineage'[k - 1]
    BY <1>3 DEF LogOrdersLineage
  <2>1. k \in DOMAIN lineage /\ lineage'[k] = lineage[k]
    BY <1>1, <1>4
  <2>2. k > 1 => lineage'[k - 1] = lineage[k - 1]
    BY <1>1, <1>4
  <2>3. PICK e \in DOMAIN history :
          /\ FirstAt(history, lineage[k], e)
          /\ k = 1 => e = 1
          /\ k > 1 => e > 1 /\ history[e - 1] = lineage[k - 1]
    BY <1>1, <2>1 DEF LogOrdersLineage
  <2>4. FirstAt(Append(history, t), lineage[k], e)
    BY <1>1, <1>2, <2>3, FirstAtAppend
  <2>5. /\ e \in DOMAIN Append(history, t)
        /\ k > 1 => e > 1 /\ Append(history, t)[e - 1] = lineage[k - 1]
    BY <1>1, <1>2, <2>3
  <2> HIDE DEF t
  <2> QED BY <2>1, <2>2, <2>3, <2>4, <2>5
<1>8. OperatorOK(op)' /\ ~(pc'[op] \in {"link", "relink"})
  BY <1>3 DEF OperatorOK
<1> QED BY <1>5, <1>6, <1>7, <1>8 DEF DisciplinedInv

(* What the choice of `previous` comes to: the release below the active    *)
(* one, and a refusal only when there is none.                             *)
LEMMA DisciplinedChoice ==
  ASSUME NEW op, Discipline(op), DisciplinedInv(op), ChoosePrevious(op)
  PROVE  \/ /\ pc' = [pc EXCEPT ![op] = "relink"]
            /\ Len(lineage) > 1
            /\ target' = [target EXCEPT ![op] = lineage[Len(lineage) - 1]]
            /\ lineage[Len(lineage) - 1] \in verified
         \/ /\ pc' = [pc EXCEPT ![op] = "refused"]
            /\ Len(lineage) < 2
            /\ target' = target
<1> DEFINE m == Len(lineage)
           i == RollbackIndex(history)
<1> USE ReleaseAssumption
<1>1. /\ TypeOK /\ pc[op] = "readCurrent" /\ seen[op] = history
      /\ Log(op) = history /\ history \in Seq(Releases) /\ lineage \in Seq(Releases)
      /\ LineageOK(history) /\ LogOrdersLineage(history)
      /\ Entries(history) \subseteq verified
  BY DEF ChoosePrevious, DisciplinedInv, Log, LineageOK, OperatorOK, TypeOK
<1>2. CASE lineage = <<>>
  <2>1. current = None /\ m = 0
    BY <1>1, <1>2 DEF LineageOK
  <2> QED BY <2>1 DEF ChoosePrevious
<1>3. CASE lineage # <<>>
  <2>1. m \in DOMAIN lineage /\ current = lineage[m] /\ current # None
    BY <1>1, <1>3 DEF LineageOK
  <2>2. PICK e \in DOMAIN history :
          /\ FirstAt(history, current, e)
          /\ m = 1 => e = 1
          /\ m > 1 => e > 1 /\ history[e - 1] = lineage[m - 1]
    BY <1>1, <2>1 DEF LogOrdersLineage
  <2>3. i = e
    BY <1>1, <2>2, FirstIndexIsFirst DEF RollbackIndex, Entries, FirstAt
  <2>4. CASE m > 1
    <3>1. history[i - 1] = lineage[m - 1] /\ i > 1 /\ history[i - 1] \in verified
      BY <1>1, <2>2, <2>3, <2>4 DEF Entries
    <3>2. \/ /\ pc' = [pc EXCEPT ![op] = "relink"]
             /\ target' = [target EXCEPT ![op] = history[i - 1]]
          \/ ~(current # None /\ i > 1 /\ Activatable(history[i - 1]))
      BY <1>1 DEF ChoosePrevious
    <3> HIDE DEF i
    <3> QED BY <2>1, <2>4, <3>1, <3>2 DEF Activatable
  <2>5. CASE m = 1
    <3>1. ~(i > 1)
      BY <2>2, <2>3, <2>5
    <3>2. \/ i > 1
          \/ pc' = [pc EXCEPT ![op] = "refused"] /\ target' = target
      BY <1>1 DEF ChoosePrevious
    <3> QED BY <2>5, <3>1, <3>2
  <2>6. m > 1 \/ m = 1
    <3>1. m \in Nat
      BY <1>1
    <3>2. m # 0
      BY <1>1, <1>3, EmptySeq
    <3> HIDE DEF m, i
    <3> QED BY <3>1, <3>2
  <2> HIDE DEF m
  <2> QED BY <2>4, <2>5, <2>6
<1> QED BY <1>2, <1>3

(* What a step does to the ghost, for the one operator there is. *)
LEMMA LineageStep ==
  ASSUME NEW op, Discipline(op), DisciplinedInv(op), [LNext]_lvars
  PROVE  /\ SwapLink(op) /\ pc[op] = "link" => lineage' = Append(lineage, current')
         /\ SwapLink(op) /\ pc[op] = "relink" => lineage' = Front(lineage)
         /\ pc'[op] # "record" \/ pc[op] = "record" =>
              (current' = current => lineage' = lineage)
BY DEF LNext, lvars, NextLineage, LinkedBy, SwapLink, Discipline, DisciplinedInv, OperatorOK, TypeOK

LEMMA DisciplinedStep ==
  ASSUME NEW op, Discipline(op), DisciplinedInv(op), [LNext]_lvars
  PROVE  DisciplinedInv(op)'
<1> USE ReleaseAssumption
<1>T. /\ TypeOK /\ op \in Operators /\ Operators = {op}
      /\ ~MayCrash /\ ~MayReactivate /\ ~MayWithdraw
  BY DEF DisciplinedInv, Discipline
<1>Q. Entries(history) \subseteq verified
  BY <1>T, EntriesAppend DEF DisciplinedInv, Log, TypeOK
<1>T2. TypeOK'
  BY <1>T, <1>Q, TypeStep DEF LNext, lvars, vars
<1>L. [Next]_vars
  BY DEF LNext, lvars, vars
<1>1. ASSUME NEW r \in Releases, FinishImport(r) PROVE DisciplinedInv(op)'
  BY <1>1, <1>T, <1>T2, LineageStep, DisciplinedQuiet
  DEF FinishImport, Log, OperatorOK, DisciplinedInv
<1>2. ASSUME NEW r \in Releases, BeginActivate(op, r) PROVE DisciplinedInv(op)'
  <2>1. /\ pc[op] = "idle" /\ pc'[op] = "link" /\ target'[op] = r
        /\ r # current /\ r \notin Entries(history) /\ r \in verified
    BY <1>2, <1>T DEF BeginActivate, Fresh, Activatable, TypeOK
  <2> QED
    BY <1>2, <1>T, <1>T2, <2>1, LineageStep, DisciplinedQuiet
    DEF BeginActivate, Log, OperatorOK
<1>3. CASE BeginRollback(op)
  <2>1. pc[op] = "idle" /\ pc'[op] = "readCurrent" /\ seen'[op] = history
    BY <1>3, <1>T, <1>Q DEF BeginRollback, ValidHistory, TypeOK
  <2> QED
    BY <1>3, <1>T, <1>T2, <2>1, LineageStep, DisciplinedQuiet
    DEF BeginRollback, Log, OperatorOK
<1>4. CASE ChoosePrevious(op)
  <2>1. /\ pc[op] = "readCurrent" /\ pc'[op] \in {"relink", "refused"}
        /\ UNCHANGED <<verified, current, history>>
    BY <1>4, <1>T DEF ChoosePrevious, TypeOK
  <2>2. lineage' = lineage
    BY <2>1, LineageStep
  <2>3. /\ pc'[op] = "relink" => /\ Len(lineage) > 1
                                 /\ target'[op] = lineage[Len(lineage) - 1]
                                 /\ target'[op] \in verified
        /\ pc'[op] = "refused" => Len(lineage) < 2
    BY <1>4, <1>T, DisciplinedChoice DEF TypeOK
  <2> QED
    BY <1>T2, <2>1, <2>2, <2>3, DisciplinedQuiet DEF Log, OperatorOK
<1>5. CASE SwapLink(op)
  BY <1>5, <1>T2, LineageStep, DisciplinedActivate, DisciplinedRollback DEF SwapLink
<1>6. CASE Record(op)
  <2>1. /\ pc[op] = "record" /\ pc'[op] = "idle"
        /\ history' = Append(history, target[op])
        /\ UNCHANGED <<verified, current>>
    BY <1>6, <1>T DEF Record, TypeOK
  <2> QED
    BY <1>T2, <2>1, LineageStep, DisciplinedQuiet DEF Log, OperatorOK
<1>7. CASE ReportRefusal(op)
  <2>1. pc[op] = "refused" /\ pc'[op] = "idle"
    BY <1>7, <1>T DEF ReportRefusal, TypeOK
  <2> QED
    BY <1>7, <1>T2, <2>1, LineageStep, DisciplinedQuiet
    DEF ReportRefusal, Log, OperatorOK
<1>8. CASE UNCHANGED vars
  BY <1>8, <1>T2, LineageStep, DisciplinedQuiet
  DEF vars, Log, OperatorOK, DisciplinedInv
<1> QED
  BY <1>L, <1>T, <1>1, <1>2, <1>3, <1>4, <1>5, <1>6, <1>7, <1>8
  DEF Next, OperatorStep, Withdraw, Crash

(* A disciplined operator's rollback returns to the release that was       *)
(* active before, and is refused only when there is none.                  *)
THEOREM DisciplinedRollbackIsRight ==
  ASSUME NEW op, Discipline(op)
  PROVE  LSpec => []RollbackReturnsToPrevious
<1>1. LInit => DisciplinedInv(op)
  BY DisciplinedInit
<1>2. DisciplinedInv(op) /\ [LNext]_lvars => DisciplinedInv(op)'
  BY DisciplinedStep
<1>3. DisciplinedInv(op) => RollbackReturnsToPrevious
  BY DEF Discipline, DisciplinedInv, OperatorOK, RollbackReturnsToPrevious
<1> QED
  BY <1>1, <1>2, <1>3, PTL DEF LSpec

(* For a disciplined operator, activation and rollback implement a stack.  *)
THEOREM DisciplinedRefinesStack ==
  ASSUME NEW op, Discipline(op)
  PROVE  LSpec => StackSpec
<1> USE ReleaseAssumption
<1>1. LInit => DisciplinedInv(op)
  BY DisciplinedInit
<1>2. DisciplinedInv(op) /\ [LNext]_lvars => DisciplinedInv(op)'
  BY DisciplinedStep
<1>3. LInit => Stack!Init
  BY DEF LInit, Init, Stack!Init, Last
<1>4. DisciplinedInv(op) /\ [LNext]_lvars => [Stack!Next]_<<lineage, current>>
  <2> SUFFICES ASSUME DisciplinedInv(op), [LNext]_lvars
               PROVE  [Stack!Next]_<<lineage, current>>
    OBVIOUS
  <2>0. TypeOK /\ Operators = {op} /\ lineage \in Seq(Releases)
    BY DEF DisciplinedInv, Discipline, LineageOK
  <2>1. CASE SwapLink(op) /\ pc[op] = "link"
    <3>1. current' = target[op] /\ target[op] \in Releases
      BY <2>0, <2>1 DEF SwapLink, TypeOK
    <3> QED BY <2>1, <3>1, LineageStep DEF Stack!Next, Stack!Activate
  <2>2. CASE SwapLink(op) /\ pc[op] = "relink"
    <3>1. current' = target[op]
      BY <2>2 DEF SwapLink
    <3>2. Len(lineage) > 1 /\ target[op] = lineage[Len(lineage) - 1]
      BY <2>2 DEF DisciplinedInv, OperatorOK
    <3> QED BY <2>2, <3>1, <3>2, LineageStep DEF Stack!Next, Stack!Rollback, Front
  <2>3. CASE ~SwapLink(op)
    <3>1. current' = current /\ (pc'[op] # "record" \/ pc[op] = "record")
      BY <2>0, <2>3 DEF LNext, lvars, Next, OperatorStep, FinishImport, Withdraw,
        BeginActivate, BeginRollback, ChoosePrevious, Record, ReportRefusal, Crash,
        TypeOK
    <3> QED BY <3>1, LineageStep
  <2> QED BY <2>1, <2>2, <2>3 DEF SwapLink
<1> QED
  BY <1>1, <1>2, <1>3, <1>4, PTL DEF LSpec, StackSpec, Stack!Spec

----------------------------------------------------------------------------
(* What the account of the log rests on: an operator that has linked owes  *)
(* the log the line of a release.                                          *)
AuditInv ==
  /\ LinkInv
  /\ history \in Seq(Releases)
  /\ \A p \in Operators : pc[p] = "record" => target[p] \in Releases
  /\ owed \in [Releases -> Int]
  /\ HistoryRecordsEveryLink

(* A line appended to the log counts for its release, once.                *)
LEMMA LinesAppend ==
  ASSUME NEW h \in Seq(Releases), NEW x \in Releases, NEW r \in Releases
  PROVE  /\ Lines(h, r) \in Nat
         /\ Lines(Append(h, x), r) = Lines(h, r) + (IF x = r THEN 1 ELSE 0)
<1> DEFINE At(s) == {i \in DOMAIN s : s[i] = r}
           n == Len(h) + 1
<1>1. DOMAIN h = 1..Len(h) /\ Len(h) \in Nat
  OBVIOUS
<1>2. IsFiniteSet(1..Len(h))
  BY <1>1, FS_Interval
<1>3. IsFiniteSet(At(h)) /\ Cardinality(At(h)) \in Nat
  BY <1>1, <1>2, FS_Subset, FS_CardinalityType
<1>4. At(Append(h, x)) = IF x = r THEN At(h) \cup {n} ELSE At(h)
  BY <1>1
<1>5. n \notin At(h)
  BY <1>1
<1>6. Cardinality(At(h) \cup {n}) = Cardinality(At(h)) + 1
  BY <1>3, <1>5, FS_AddElement
<1> HIDE DEF At, n
<1>7. Lines(h, r) = Cardinality(At(h)) /\ Lines(Append(h, x), r) = Cardinality(At(Append(h, x)))
  BY DEF Lines, At
<1> QED BY <1>3, <1>4, <1>6, <1>7

(* The operators about to record a release can be counted, one by one.     *)
LEMMA OperatorsCounted ==
  ASSUME NEW S \in SUBSET Operators, NEW p \in Operators
  PROVE  /\ Cardinality(S) \in Nat
         /\ p \notin S => Cardinality(S \cup {p}) = Cardinality(S) + 1
         /\ p \in S => Cardinality(S \ {p}) = Cardinality(S) - 1
         /\ Cardinality({p}) = 1 /\ Cardinality({}) = 0
<1>1. IsFiniteSet(S)
  BY AuditAssumption, FS_Subset
<1> QED
  BY <1>1, FS_CardinalityType, FS_AddElement, FS_RemoveElement, FS_Singleton, FS_EmptySet

(* Nobody, or one operator.                                                *)
LEMMA FewOperators ==
  Cardinality({}) = 0 /\ \A p : Cardinality({p}) = 1
BY FS_EmptySet, FS_Singleton

LEMMA AuditInit == AInit => AuditInv
<1> SUFFICES ASSUME AInit PROVE AuditInv
  OBVIOUS
<1>1. LinkInv
  BY LinkInit DEF AInit
<1>2. history \in Seq(Releases)
  BY ReleaseAssumption DEF AInit, Init
<1>3. \A p \in Operators : pc[p] = "idle"
  BY DEF AInit, Init
<1>4. \A r \in Releases : Recording(r) = {} /\ owed[r] = 0
  BY <1>3 DEF AInit, Recording
<1>5. HistoryRecordsEveryLink
  BY <1>4, FewOperators DEF HistoryRecordsEveryLink
<1>6. owed \in [Releases -> Int]
  BY DEF AInit
<1> QED
  BY <1>1, <1>2, <1>3, <1>5, <1>6 DEF AuditInv

(* The account balances after a step if it does for every release.         *)
LEMMA AuditBalance ==
  ASSUME AuditInv, LinkInv', NextOwed, history' \in Seq(Releases),
         \A p \in Operators : pc'[p] = "record" => target'[p] \in Releases,
         \A r \in Releases :
           /\ Cardinality(Recording(r)') \in Int
           /\ Cardinality(Recording(r)')
                = Cardinality(Recording(r)) + Lines(history, r) + Cardinality(LinkedTo(r))
                    - Lines(history', r) - Cardinality(KilledOwing(r))
  PROVE  AuditInv'
<1>1. ASSUME NEW r \in Releases
      PROVE  owed'[r] = Cardinality(Recording(r)') /\ owed'[r] \in Int
  <2>1. owed[r] = Cardinality(Recording(r))
    BY DEF AuditInv, HistoryRecordsEveryLink
  <2>2. owed'[r] = owed[r] + Lines(history, r) + Cardinality(LinkedTo(r))
                     - Lines(history', r) - Cardinality(KilledOwing(r))
    BY DEF NextOwed
  <2> QED BY <2>1, <2>2
<1>2. owed' \in [Releases -> Int]
  BY <1>1 DEF NextOwed
<1>3. HistoryRecordsEveryLink'
  BY <1>1 DEF HistoryRecordsEveryLink
<1> QED
  BY <1>2, <1>3 DEF AuditInv

(* A step in which nobody links, logs or dies owing a line.                *)
LEMMA AuditQuiet ==
  ASSUME AuditInv, LinkInv', NextOwed, history' = history,
         \A p \in Operators :
           /\ pc'[p] = "record" <=> pc[p] = "record"
           /\ pc[p] = "record" => target'[p] = target[p]
  PROVE  AuditInv'
<1>1. ASSUME NEW r \in Releases
      PROVE  /\ Cardinality(Recording(r)') \in Int
             /\ Cardinality(Recording(r)')
                  = Cardinality(Recording(r)) + Lines(history, r) + Cardinality(LinkedTo(r))
                      - Lines(history', r) - Cardinality(KilledOwing(r))
  <2>1. /\ Recording(r)' = Recording(r)
        /\ LinkedTo(r) = {}
        /\ KilledOwing(r) = {}
    BY DEF LinkedTo, LinkedBy, KilledOwing, Recording
  <2>2. IsFiniteSet(Recording(r))
    BY AuditAssumption, FS_Subset DEF Recording
  <2>3. Cardinality(Recording(r)) \in Nat
    BY <2>2, FS_CardinalityType
  <2>4. Lines(history, r) \in Nat /\ Lines(history', r) = Lines(history, r)
    BY LinesAppend DEF AuditInv
  <2> QED BY <2>1, <2>3, <2>4, FewOperators
<1>2. \A p \in Operators : pc'[p] = "record" => target'[p] \in Releases
  BY DEF AuditInv
<1>3. history' \in Seq(Releases)
  BY DEF AuditInv
<1> QED
  BY <1>1, <1>2, <1>3, AuditBalance

(* An operator links: it owes the log a line.                              *)
LEMMA AuditLink ==
  ASSUME AuditInv, LinkInv', NextOwed, NEW p \in Operators, SwapLink(p)
  PROVE  AuditInv'
<1>1. /\ pc[p] \in {"link", "relink"} /\ pc' = [pc EXCEPT ![p] = "record"]
      /\ history' = history /\ target' = target
      /\ target[p] \in Releases
  BY DEF SwapLink, AuditInv, LinkInv
<1>2. pc \in [Operators -> Steps] /\ history \in Seq(Releases)
  BY DEF AuditInv, LinkInv
<1>3. ASSUME NEW r \in Releases
      PROVE  /\ Cardinality(Recording(r)') \in Int
             /\ Cardinality(Recording(r)')
                  = Cardinality(Recording(r)) + Lines(history, r) + Cardinality(LinkedTo(r))
                      - Lines(history', r) - Cardinality(KilledOwing(r))
  <2>1. KilledOwing(r) = {} /\ p \notin Recording(r)
    BY <1>1, <1>2 DEF KilledOwing, Recording
  <2>2. Recording(r) \in SUBSET Operators
    BY DEF Recording
  <2>3. Lines(history, r) \in Nat /\ Lines(history', r) = Lines(history, r)
    BY <1>1, <1>2, LinesAppend
  <2>4. CASE target[p] = r
    <3>1. LinkedTo(r) = {p}
      BY <1>1, <1>2, <2>4 DEF LinkedTo, LinkedBy
    <3>2. Recording(r)' = Recording(r) \cup {p}
      BY <1>1, <1>2, <2>4 DEF Recording
    <3>3. /\ Cardinality(Recording(r)) \in Nat
          /\ Cardinality(Recording(r) \cup {p}) = Cardinality(Recording(r)) + 1
      BY <2>1, <2>2, OperatorsCounted
    <3>4. Cardinality(LinkedTo(r)) = 1 /\ Cardinality(KilledOwing(r)) = 0
      BY <2>1, <3>1, FewOperators
    <3>5. Cardinality(Recording(r)') = Cardinality(Recording(r)) + 1
      BY <3>2, <3>3
    <3> QED BY <2>3, <3>3, <3>4, <3>5
  <2>5. CASE target[p] # r
    <3>1. LinkedTo(r) = {} /\ Recording(r)' = Recording(r)
      BY <1>1, <1>2, <2>5 DEF LinkedTo, LinkedBy, Recording
    <3>2. Cardinality(Recording(r)) \in Nat
      BY <2>2, OperatorsCounted
    <3> QED BY <2>1, <2>3, <3>1, <3>2, FewOperators
  <2> QED BY <2>4, <2>5
<1>4. /\ history' \in Seq(Releases)
      /\ \A q \in Operators : pc'[q] = "record" => target'[q] \in Releases
  BY <1>1, <1>2 DEF AuditInv
<1> QED
  BY <1>3, <1>4, AuditBalance

(* An operator that owed the log a line has written it, or was killed.     *)
LEMMA AuditSettle ==
  ASSUME AuditInv, LinkInv', NextOwed, NEW p \in Operators, pc[p] = "record",
         pc' = [pc EXCEPT ![p] = "idle"],
         target' = [target EXCEPT ![p] = None],
         history' = history \/ history' = Append(history, target[p])
  PROVE  AuditInv'
<1>1. /\ history \in Seq(Releases) /\ target[p] \in Releases
      /\ pc \in [Operators -> Steps]
      /\ target \in [Operators -> Releases \cup {None}]
  BY DEF AuditInv, LinkInv
<1>2. Append(history, target[p]) # history
  BY <1>1
<1>3. ASSUME NEW r \in Releases
      PROVE  /\ Cardinality(Recording(r)') \in Int
             /\ Cardinality(Recording(r)')
                  = Cardinality(Recording(r)) + Lines(history, r) + Cardinality(LinkedTo(r))
                      - Lines(history', r) - Cardinality(KilledOwing(r))
  <2>1. Recording(r) \in SUBSET Operators /\ LinkedTo(r) = {}
    BY <1>1 DEF Recording, LinkedTo, LinkedBy
  <2>2. /\ Lines(history, r) \in Nat
        /\ Lines(Append(history, target[p]), r)
             = Lines(history, r) + (IF target[p] = r THEN 1 ELSE 0)
    BY <1>1, LinesAppend
  <2>3. Cardinality(Recording(r)) \in Nat
    BY <2>1, OperatorsCounted
  <2>4. CASE target[p] # r
    <3>1. KilledOwing(r) = {} /\ Recording(r)' = Recording(r)
      BY <1>1, <2>4 DEF KilledOwing, Recording
    <3>2. Lines(Append(history, target[p]), r) = Lines(history, r)
      BY <2>2, <2>4
    <3>3. Lines(history', r) = Lines(history, r)
      BY <3>2
    <3> QED BY <2>1, <2>2, <2>3, <3>1, <3>3, FewOperators
  <2>5. CASE target[p] = r
    <3>1. p \in Recording(r) /\ Recording(r)' = Recording(r) \ {p}
      BY <1>1, <2>5 DEF Recording
    <3>2. Cardinality(Recording(r) \ {p}) = Cardinality(Recording(r)) - 1
      BY <2>1, <3>1, OperatorsCounted
    <3>3. CASE history' = history
      <4>1. KilledOwing(r) = {p}
        BY <1>1, <2>5, <3>3 DEF KilledOwing
      <4>2. Lines(history', r) = Lines(history, r)
        BY <3>3
      <4>3. Cardinality(LinkedTo(r)) = 0 /\ Cardinality(KilledOwing(r)) = 1
        BY <2>1, <4>1, FewOperators
      <4>4. Cardinality(Recording(r)') = Cardinality(Recording(r)) - 1
        BY <3>1, <3>2
      <4> QED BY <2>2, <2>3, <4>2, <4>3, <4>4
    <3>4. CASE history' = Append(history, target[p])
      <4>1. KilledOwing(r) = {}
        BY <1>2, <3>4 DEF KilledOwing
      <4>2. Lines(history', r) = Lines(history, r) + 1
        BY <2>2, <2>5, <3>4
      <4>3. Cardinality(LinkedTo(r)) = 0 /\ Cardinality(KilledOwing(r)) = 0
        BY <2>1, <4>1, FewOperators
      <4>4. Cardinality(Recording(r)') = Cardinality(Recording(r)) - 1
        BY <3>1, <3>2
      <4> QED BY <2>2, <2>3, <4>2, <4>3, <4>4
    <3> QED BY <3>3, <3>4
  <2> QED BY <2>4, <2>5
<1>4. history' \in Seq(Releases)
  BY <1>1
<1>5. \A q \in Operators : pc'[q] = "record" => target'[q] \in Releases
  BY <1>1 DEF AuditInv
<1> QED
  BY <1>3, <1>4, <1>5, AuditBalance

LEMMA AuditStep ==
  ASSUME AuditInv, [ANext]_avars
  PROVE  AuditInv'
<1>L. LinkInv /\ LinkInv'
  BY LinkStep DEF AuditInv, ANext, avars, vars
<1>1. CASE UNCHANGED avars
  BY <1>1, <1>L DEF avars, AuditInv, HistoryRecordsEveryLink, Recording
<1>2. CASE ANext
  <2> USE <1>2 DEF ANext
  <2>T. /\ pc \in [Operators -> Steps]
        /\ target \in [Operators -> Releases \cup {None}]
    BY <1>L DEF LinkInv
  <2>1. ASSUME NEW r \in Releases, FinishImport(r) \/ Withdraw(r) PROVE AuditInv'
    BY <2>1, <1>L, AuditQuiet DEF FinishImport, Withdraw
  <2>2. ASSUME NEW p \in Operators, NEW r \in Releases, BeginActivate(p, r)
        PROVE  AuditInv'
    BY <2>2, <2>T, <1>L, AuditQuiet DEF BeginActivate
  <2>3. ASSUME NEW p \in Operators, BeginRollback(p) PROVE AuditInv'
    BY <2>3, <2>T, <1>L, AuditQuiet DEF BeginRollback
  <2>4. ASSUME NEW p \in Operators, ChoosePrevious(p) PROVE AuditInv'
    <3>1. /\ pc[p] = "readCurrent" /\ history' = history
          /\ \E t : \/ /\ pc' = [pc EXCEPT ![p] = "relink"]
                       /\ target' = [target EXCEPT ![p] = t]
                    \/ pc' = [pc EXCEPT ![p] = "refused"] /\ target' = target
      BY <2>4 DEF ChoosePrevious
    <3> QED BY <3>1, <2>T, <1>L, AuditQuiet
  <2>5. ASSUME NEW p \in Operators, SwapLink(p) PROVE AuditInv'
    BY <2>5, <1>L, AuditLink
  <2>6. ASSUME NEW p \in Operators, Record(p) PROVE AuditInv'
    BY <2>6, <1>L, AuditSettle DEF Record
  <2>7. ASSUME NEW p \in Operators, ReportRefusal(p) PROVE AuditInv'
    BY <2>7, <2>T, <1>L, AuditQuiet DEF ReportRefusal
  <2>8. ASSUME NEW p \in Operators, Crash(p) PROVE AuditInv'
    <3>1. CASE pc[p] = "record"
      BY <2>8, <3>1, <1>L, AuditSettle DEF Crash
    <3>2. CASE pc[p] # "record"
      BY <2>8, <3>2, <2>T, <1>L, AuditQuiet DEF Crash
    <3> QED BY <3>1, <3>2
  <2> QED
    BY <2>1, <2>2, <2>3, <2>4, <2>5, <2>6, <2>7, <2>8 DEF Next, OperatorStep
<1> QED BY <1>1, <1>2

(* For any number of operators, interleaved, killed and withdrawing        *)
(* anywhere: the log misses no link but those.                             *)
THEOREM LogOwesOnlyPendingLinks == ASpec => []HistoryRecordsEveryLink
<1>1. AuditInv => HistoryRecordsEveryLink
  BY DEF AuditInv
<1> QED
  BY AuditInit, AuditStep, <1>1, PTL DEF ASpec

----------------------------------------------------------------------------
TurnTypes ==
  /\ step \in [Turns -> {"off", "open", "calling"}]
  /\ pin \in [Turns -> Releases \cup {None}]
  /\ calls \in [Turns -> 0..MaxCalls]
  /\ asked \in [Turns -> Nat]
  /\ answered \in [Turns -> SUBSET Releases]
  /\ servable \in [Turns -> SUBSET (Releases \cup {None})]

LEMMA TurnTypesAreTurnTypeOK == TurnTypes <=> TurnTypeOK
BY DEF TurnTypes, TurnTypeOK

(* The release a call resolves to exists. *)
LEMMA ResolvedIsRelease ==
  ASSUME NEW t \in Turns, LinkInv
  PROVE  Served \in Releases \cup {None} /\ ResolvedRelease(t) \in Releases \cup {None}
BY DEF LinkInv, Served, ResolvedRelease, LocalPinIsValid

(* What the turns may rely on of the releases. *)
LEMMA ReleaseStepKeepsLink ==
  ASSUME LinkInv, [TNext]_tvars
  PROVE  LinkInv'
<1>1. CASE ReleaseStep
  BY <1>1, LinkStep DEF ReleaseStep
<1>2. ASSUME NEW t \in Turns, TurnStep(t) PROVE LinkInv'
  <2>1. UNCHANGED vars
    BY <1>2 DEF TurnStep, BeginTurn, StartCall, Answer, EndTurn
  <2> QED BY <2>1, LinkStep
<1>3. CASE UNCHANGED tvars
  BY <1>3, LinkStep DEF tvars, vars
<1> QED BY <1>1, <1>2, <1>3 DEF TNext

----------------------------------------------------------------------------
(* Every release a turn may still read was served while the turn ran. *)
ServedInv ==
  /\ LinkInv
  /\ TurnTypes
  /\ TurnReadsServedRelease
  /\ \A t \in Turns :
       /\ step[t] = "off" => answered[t] = {}
       /\ step[t] # "off" =>
            /\ Served \in servable[t]
            /\ pin[t] # None => pin[t] \in servable[t]

LEMMA ServedInit == TInit => ServedInv
BY LinkInit, TurnAssumption
DEF TInit, ServedInv, TurnTypes, TurnReadsServedRelease

LEMMA ServedStep ==
  ASSUME ServedInv, [TNext]_tvars
  PROVE  ServedInv'
<1> USE TurnAssumption DEF ServedInv, TurnTypes, TurnReadsServedRelease
<1>L. LinkInv /\ LinkInv'
  BY ReleaseStepKeepsLink
<1>S. Served \in Releases \cup {None} /\ Served' \in Releases \cup {None}
  BY <1>L DEF LinkInv, Served
<1>1. CASE ReleaseStep
  <2>1. /\ UNCHANGED <<step, pin, calls, asked, answered>>
        /\ servable' = [t \in Turns |->
             IF step[t] = "off" THEN {} ELSE servable[t] \cup {Served'}]
    BY <1>1 DEF ReleaseStep
  <2>2. servable' \in [Turns -> SUBSET (Releases \cup {None})]
    BY <2>1, <1>S
  <2>3. ASSUME NEW t \in Turns
        PROVE  /\ answered'[t] \subseteq servable'[t]
               /\ step'[t] # "off" =>
                    /\ Served' \in servable'[t]
                    /\ pin'[t] # None => pin'[t] \in servable'[t]
    BY <2>1, <2>3
  <2> QED BY <1>L, <2>1, <2>2, <2>3
<1>2. ASSUME NEW t \in Turns, TurnStep(t) PROVE ServedInv'
  <2>0. Served' = Served
    BY <1>2 DEF TurnStep, BeginTurn, StartCall, Answer, EndTurn, vars, Served
  <2>1. CASE BeginTurn(t)
    BY <2>1, <2>0, <1>L, <1>S DEF BeginTurn
  <2>2. CASE StartCall(t)
    BY <2>2, <2>0, <1>L, <1>S DEF StartCall
  <2>3. CASE Answer(t)
    <3>1. ResolvedRelease(t) \in servable[t] /\ ResolvedRelease(t) \in Releases
      BY <2>3, <1>L, ResolvedIsRelease DEF Answer, ResolvedRelease, LocalPinIsValid
    <3> QED BY <2>3, <2>0, <3>1, <1>L DEF Answer
  <2>4. CASE EndTurn(t)
    BY <2>4, <2>0, <1>L DEF EndTurn
  <2> QED BY <1>2, <2>1, <2>2, <2>3, <2>4 DEF TurnStep
<1>3. CASE UNCHANGED tvars
  BY <1>3, <1>L DEF tvars, Served
<1> QED BY <1>1, <1>2, <1>3 DEF TNext

(* A turn reads only releases that were served while it ran, whichever of  *)
(* its calls share a context.                                              *)
THEOREM TurnsReadServedReleases == TSpec => [](TurnTypeOK /\ TurnReadsServedRelease)
<1>1. ServedInv => TurnTypeOK /\ TurnReadsServedRelease
  BY TurnTypesAreTurnTypeOK DEF ServedInv
<1> QED
  BY ServedInit, ServedStep, <1>1, PTL DEF TSpec

----------------------------------------------------------------------------
(* A turn has asked once for every release it has read, for the one it is  *)
(* pinned to, and for the call it makes without a pin.                     *)
AskedInv ==
  /\ ServedInv
  /\ \A t \in Turns :
       /\ IsFiniteSet(answered[t])
       /\ Cardinality(answered[t]) <= asked[t]
       /\ step[t] # "off" /\ pin[t] # None =>
            Cardinality(answered[t] \cup {pin[t]}) <= asked[t]
       /\ step[t] = "calling" /\ pin[t] = None =>
            Cardinality(answered[t]) + 1 <= asked[t]

(* One more element makes a set larger by at most one. *)
LEMMA OneMore ==
  ASSUME NEW S, IsFiniteSet(S), NEW x
  PROVE  /\ IsFiniteSet(S \cup {x})
         /\ Cardinality(S) \in Nat
         /\ Cardinality(S \cup {x}) \in Nat
         /\ Cardinality(S \cup {x}) <= Cardinality(S) + 1
<1>1. Cardinality(S) \in Nat /\ IsFiniteSet(S \cup {x})
  BY FS_CardinalityType, FS_AddElement
<1>2. Cardinality(S \cup {x}) = Cardinality(S) \/ Cardinality(S \cup {x}) = Cardinality(S) + 1
  BY FS_AddElement
<1> QED BY <1>1, <1>2

LEMMA AskedInit == TInit => AskedInv
<1> SUFFICES ASSUME TInit PROVE AskedInv
  OBVIOUS
<1>1. IsFiniteSet({}) /\ Cardinality({}) = 0
  BY FS_EmptySet
<1> QED BY <1>1, ServedInit DEF TInit, AskedInv

LEMMA AskedStep ==
  ASSUME AskedInv, [TNext]_tvars
  PROVE  AskedInv'
<1> USE DEF AskedInv
<1>S. ServedInv /\ ServedInv'
  BY ServedStep
<1>T. TurnTypes /\ LinkInv
  BY <1>S DEF ServedInv
<1>0. IsFiniteSet({}) /\ Cardinality({}) = 0
  BY FS_EmptySet
<1>1. CASE ReleaseStep
  BY <1>1, <1>S DEF ReleaseStep
<1>2. ASSUME NEW t \in Turns, TurnStep(t) PROVE AskedInv'
  <2>1. CASE BeginTurn(t)
    BY <2>1, <1>S, <1>T DEF BeginTurn, TurnTypes
  <2>2. CASE StartCall(t)
    <3>1. CASE pin[t] = None
      <4>1. Cardinality(answered[t] \cup {Served}) <= asked[t] + 1
            /\ Cardinality(answered[t]) + 1 <= asked[t] + 1
            /\ Cardinality(answered[t]) <= asked[t] + 1
        <5>1. Cardinality(answered[t]) \in Nat /\ asked[t] \in Nat
              /\ Cardinality(answered[t] \cup {Served}) \in Nat
              /\ Cardinality(answered[t] \cup {Served}) <= Cardinality(answered[t]) + 1
              /\ Cardinality(answered[t]) <= asked[t]
          BY <1>T, OneMore DEF TurnTypes
        <5> QED BY <5>1
      <4>2. /\ pin' = [pin EXCEPT ![t] = Served]
            /\ step' = [step EXCEPT ![t] = "calling"]
            /\ asked' = [asked EXCEPT ![t] = @ + 1]
            /\ UNCHANGED answered
        BY <2>2, <3>1, <1>T DEF StartCall, TurnTypes
      <4> QED BY <4>1, <4>2, <1>S, <1>T DEF TurnTypes
    <3>2. CASE pin[t] # None
      <4>1. UNCHANGED <<pin, asked, answered>> /\ step[t] = "open"
            /\ step' = [step EXCEPT ![t] = "calling"]
        BY <2>2, <3>2, <1>T DEF StartCall, TurnTypes
      <4> QED BY <4>1, <3>2, <1>S, <1>T DEF TurnTypes
    <3> QED BY <3>1, <3>2
  <2>3. CASE Answer(t)
    <3> DEFINE r == ResolvedRelease(t)
    <3>1. /\ step[t] = "calling"
          /\ answered' = [answered EXCEPT ![t] = @ \cup {r}]
          /\ step' = [step EXCEPT ![t] = "open"]
          /\ UNCHANGED asked
          /\ pin' = pin \/ pin' = [pin EXCEPT ![t] = None]
          /\ pin[t] # None => r = pin[t]
      BY <2>3, <1>T DEF Answer, ResolvedRelease, LocalPinIsValid
    <3> HIDE DEF r
    <3>2. /\ IsFiniteSet(answered[t] \cup {r})
          /\ Cardinality(answered[t] \cup {r}) <= asked[t]
      <4>1. /\ IsFiniteSet(answered[t] \cup {r})
            /\ Cardinality(answered[t]) \in Nat /\ asked[t] \in Nat
            /\ Cardinality(answered[t] \cup {r}) \in Nat
            /\ Cardinality(answered[t] \cup {r}) <= Cardinality(answered[t]) + 1
        BY <1>T, OneMore DEF TurnTypes
      <4>2. CASE pin[t] # None
        BY <4>1, <4>2, <3>1
      <4>3. CASE pin[t] = None
        <5>1. Cardinality(answered[t]) + 1 <= asked[t]
          BY <4>3, <3>1
        <5> QED BY <4>1, <5>1
      <4> QED BY <4>2, <4>3
    <3>3. pin'[t] # None => answered'[t] \cup {pin'[t]} = answered[t] \cup {r}
      BY <3>1, <1>T DEF TurnTypes
    <3>4. answered'[t] = answered[t] \cup {r} /\ step'[t] = "open"
      BY <3>1, <1>T DEF TurnTypes
    <3>5. ASSUME NEW u \in Turns \ {t}
          PROVE  /\ answered'[u] = answered[u] /\ pin'[u] = pin[u]
                 /\ step'[u] = step[u] /\ asked'[u] = asked[u]
      BY <3>1, <1>T DEF TurnTypes
    <3> QED BY <3>1, <3>2, <3>3, <3>4, <3>5, <1>S
  <2>4. CASE EndTurn(t)
    BY <2>4, <1>0, <1>S, <1>T DEF EndTurn, TurnTypes
  <2> QED BY <1>2, <2>1, <2>2, <2>3, <2>4 DEF TurnStep
<1>3. CASE UNCHANGED tvars
  BY <1>3, <1>S DEF tvars
<1> QED BY <1>1, <1>2, <1>3 DEF TNext

(* Whatever is activated meanwhile, and whichever calls share a context: a *)
(* turn reads at most as many releases as it has asked for.                *)
THEOREM TurnsReadNoReleaseUnasked == TSpec => []NoReleaseUnasked
<1>1. AskedInv => NoReleaseUnasked
  BY DEF AskedInv, NoReleaseUnasked
<1> QED
  BY AskedInit, AskedStep, <1>1, PTL DEF TSpec

----------------------------------------------------------------------------
(* What the check of release pins has established by the request it is at. *)
ProbeInv ==
  /\ LinkInv
  /\ ProbeTypeOK
  /\ phase = "search" => record.release # None /\ record.doc = None
  /\ phase = "readPinned" => pinned = {}
  /\ phase \in {"searchPinned", "releasePinned", "releaseCurrent",
                "searchCurrent", "passed"} => pinned = {record.release}
  /\ phase \in {"releasePinned", "releaseCurrent", "searchCurrent", "passed"} =>
       Top[record.release] = record.doc /\ record.doc \in Expected
  /\ phase = "passed" =>
       unpinned \in Releases /\ Top[unpinned] \in ExpectedCurrent

LEMMA ProbeInit == PInit => ProbeInv
BY LinkInit DEF PInit, TInit, ProbeInv, ProbeTypeOK, Verifying, NoRecord

LEMMA ProbeSteps ==
  ASSUME ProbeInv, ProbeStep
  PROVE  ProbeInv'
<1> USE DEF Verifying, NoRecord
<1>L. LinkInv' /\ Served \in Releases \cup {None}
  <2>1. UNCHANGED vars
    BY DEF ProbeStep, tvars, vars
  <2> QED BY <2>1, LinkStep DEF ProbeInv, LinkInv, Served
<1>1. CASE AskRelease
  BY <1>1, <1>L DEF ProbeInv, ProbeTypeOK, AskRelease
<1>2. CASE Capture
  BY <1>2, <1>L, ProbeAssumption DEF ProbeInv, ProbeTypeOK, Capture
<1>3. CASE BeginVerify
  BY <1>3, <1>L DEF ProbeInv, ProbeTypeOK, BeginVerify
<1>4. CASE ReadPinned
  <2>1. /\ phase = "readPinned" /\ phase' = "searchPinned"
        /\ pinned' = pinned \cup {record.release} /\ UNCHANGED <<record, unpinned>>
        /\ record.release \in Releases
    BY <1>4 DEF ReadPinned, Accept, Pinned, LocalPinIsValid, ProbeInv, ProbeTypeOK
  <2> QED BY <1>L, <2>1 DEF ProbeInv, ProbeTypeOK
<1>5. CASE SearchPinned
  <2>1. /\ phase = "searchPinned" /\ phase' = "releasePinned"
        /\ pinned' = pinned \cup {record.release} /\ UNCHANGED <<record, unpinned>>
        /\ record.release \in Releases
        /\ Top[record.release] \in Expected /\ Top[record.release] = record.doc
    BY <1>5 DEF SearchPinned, Accept, Pinned, LocalPinIsValid, ProbeInv, ProbeTypeOK
  <2> QED BY <1>L, <2>1 DEF ProbeInv, ProbeTypeOK
<1>6. CASE ReleasePinned
  <2>1. /\ phase = "releasePinned" /\ phase' = "releaseCurrent"
        /\ pinned' = pinned \cup {record.release} /\ UNCHANGED <<record, unpinned>>
        /\ record.release \in Releases
    BY <1>6 DEF ReleasePinned, Accept, Pinned, LocalPinIsValid, ProbeInv, ProbeTypeOK
  <2> QED BY <1>L, <2>1 DEF ProbeInv, ProbeTypeOK
<1>7. CASE ReleaseCurrent
  BY <1>7, <1>L DEF ProbeInv, ProbeTypeOK, ReleaseCurrent
<1>8. CASE SearchCurrent
  BY <1>8, <1>L DEF ProbeInv, ProbeTypeOK, SearchCurrent
<1>9. CASE Fail
  BY <1>9, <1>L DEF ProbeInv, ProbeTypeOK, Fail, Fails
<1> QED BY <1>1, <1>2, <1>3, <1>4, <1>5, <1>6, <1>7, <1>8, <1>9 DEF ProbeStep

LEMMA ProbeNext ==
  ASSUME ProbeInv, [PNext]_pvars
  PROVE  ProbeInv'
<1>1. CASE ProbeStep
  BY <1>1, ProbeSteps
<1>2. CASE [TNext]_tvars /\ UNCHANGED probe
  <2>1. LinkInv'
    BY <1>2, ReleaseStepKeepsLink DEF ProbeInv
  <2> QED BY <1>2, <2>1 DEF ProbeInv, ProbeTypeOK, probe
<1>3. CASE UNCHANGED pvars
  <2>1. UNCHANGED tvars /\ UNCHANGED probe
    BY <1>3 DEF pvars, tvars, probe
  <2> QED BY <2>1, <1>2
<1> QED BY <1>1, <1>2, <1>3 DEF PNext

(* A check that passes has seen the captured release answer every request  *)
(* with the pin, and another release the last one without.                 *)
THEOREM PassedChecksAreTrue == PSpec => []PassIsTrue
<1>1. ProbeInv => PassIsTrue
  <2> SUFFICES ASSUME ProbeInv, phase = "passed" PROVE PassIsTrue
    BY DEF PassIsTrue
  <2>1. unpinned # record.release
    BY ProbeAssumption DEF ProbeInv
  <2> QED BY <2>1 DEF ProbeInv, PassIsTrue
<1> QED BY ProbeInit, ProbeNext, <1>1, PTL DEF PSpec
=============================================================================
