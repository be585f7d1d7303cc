----------------------------- MODULE CloudProofs -----------------------------
(***************************************************************************)
(* Theorems of CloudActivation and CloudLineage, for any releases, any     *)
(* operators and any failures.                                             *)
(***************************************************************************)
EXTENDS CloudLineage, TLAPS

(* Appending and dropping the newest entry of a log. *)
LEMMA AppendFacts ==
  ASSUME NEW S, NEW s \in Seq(S), NEW r \in S
  PROVE  /\ Append(s, r) \in Seq(S)
         /\ Len(Append(s, r)) = Len(s) + 1
         /\ Append(s, r)[Len(s) + 1] = r
         /\ \A i \in DOMAIN s : i \in DOMAIN Append(s, r) /\ Append(s, r)[i] = s[i]
         /\ \A i \in DOMAIN Append(s, r) : i \in DOMAIN s \/ Append(s, r)[i] = r
  OBVIOUS

LEMMA FrontFacts ==
  ASSUME NEW S, NEW s \in Seq(S), Len(s) > 1
  PROVE  /\ Front(s) \in Seq(S)
         /\ Len(Front(s)) = Len(s) - 1
         /\ \A i \in DOMAIN Front(s) : i \in DOMAIN s /\ Front(s)[i] = s[i]
         /\ Previous(s) \in S
         /\ Front(s)[Len(s) - 1] = Previous(s)
  BY DEF Front, Previous

LEMMA NewestFacts ==
  ASSUME NEW S, NEW s \in Seq(S)
  PROVE  /\ \A r \in S : NewestOf(Append(s, r)) = r
         /\ Len(s) > 1 => NewestOf(Front(s)) = Previous(s)
  <1>1. ASSUME NEW r \in S PROVE NewestOf(Append(s, r)) = r
    BY AppendFacts DEF NewestOf
  <1>2. ASSUME Len(s) > 1 PROVE NewestOf(Front(s)) = Previous(s)
    <2>1. Len(Front(s)) = Len(s) - 1 /\ Front(s)[Len(s) - 1] = Previous(s)
      BY <1>2, FrontFacts
    <2>2. Front(s) # <<>>
      BY <1>2, <2>1
    <2> QED
      BY <2>1, <2>2 DEF NewestOf
  <1> QED
    BY <1>1, <1>2

----------------------------------------------------------------------------
USE DEF local, own

(* The type invariant is inductive: the order of the steps never takes a   *)
(* rollback to a step that only an activation has.                         *)
LEMMA TypeStep == ASSUME TypeOK, [Next]_vars PROVE TypeOK'
  <1> USE CloudAssumption
  <1>0. CASE UNCHANGED vars
    BY <1>0 DEF TypeOK, vars
  <1> SUFFICES ASSUME NEW p \in Operators, Step(p) PROVE TypeOK'
    BY <1>0 DEF Next
  <1>1. ASSUME NEW r \in Releases, BeginActivate(p, r) PROVE TypeOK'
    BY <1>1 DEF TypeOK, BeginActivate, Jobs, Steps
  <1>2. CASE BeginRollback(p)
    <2>1. Previous(log) \in Releases
      BY <1>2, FrontFacts DEF BeginRollback, TypeOK
    <2> QED
      BY <1>2, <2>1 DEF TypeOK, BeginRollback, Jobs, Steps
  <1>3. CASE ReadGeneration(p)
    BY <1>3 DEF TypeOK, ReadGeneration, GoesOn, Order, RollbackOrder, Jobs, Steps
  <1>4. CASE WritePointer(p)
    BY <1>4 DEF TypeOK, WritePointer, PointerWritten, GoesOn, Order, RollbackOrder, Jobs, Steps
  <1>5. CASE LoseAnswer(p)
    BY <1>5 DEF TypeOK, LoseAnswer, PointerWritten, Stops, Jobs, Steps
  <1>6. CASE FailPrecondition(p)
    BY <1>6 DEF TypeOK, FailPrecondition, Stops, Jobs, Steps
  <1>7. CASE LoadLog(p)
    BY <1>7 DEF TypeOK, LoadLog, GoesOn, Order, RollbackOrder, Jobs, Steps
  <1>8. CASE SaveLog(p)
    <2>0. /\ pc[p] = "save" /\ seen[p] \in Seq(Releases) /\ target[p] \in Releases
          /\ job[p] \in Jobs /\ (job[p] = "rollback" => Len(seen[p]) > 1)
      BY <1>8 DEF TypeOK, SaveLog
    <2>1. log' \in Seq(Releases)
      <3>1. CASE job[p] = "activate"
        BY <1>8, <2>0, <3>1, AppendFacts DEF SaveLog, NewLog
      <3>2. CASE job[p] = "rollback"
        BY <1>8, <2>0, <3>2, FrontFacts DEF SaveLog, NewLog
      <3> QED
        BY <2>0, <3>1, <3>2 DEF Jobs
    <2>2. CASE job[p] = "activate"
      <3>1. pc' = [pc EXCEPT ![p] = "link"]
        BY <1>8, <2>0, <2>2 DEF SaveLog, GoesOn, Order, RollbackOrder
      <3> QED
        BY <1>8, <2>1, <2>2, <3>1 DEF TypeOK, SaveLog, Jobs, Steps
    <2>3. CASE job[p] # "activate"
      <3>1. Stops(p)
        BY <1>8, <2>3 DEF SaveLog
      <3> QED
        BY <1>8, <2>1, <3>1 DEF TypeOK, SaveLog, Stops, Jobs, Steps
    <2> QED
      BY <2>2, <2>3
  <1>9. CASE SwapLink(p)
    BY <1>9 DEF TypeOK, SwapLink, GoesOn, Order, RollbackOrder, Jobs, Steps
  <1>10. CASE Record(p)
    BY <1>10, AppendFacts DEF TypeOK, Record, Stops, Jobs, Steps
  <1>11. CASE Fail(p)
    BY <1>11 DEF TypeOK, Fail, Stops, Jobs, Steps
  <1> QED
    BY <1>1, <1>2, <1>3, <1>4, <1>5, <1>6, <1>7, <1>8, <1>9, <1>10, <1>11 DEF Step

(* Every variable keeps its type, and no command runs without a release. *)
THEOREM CloudTypesHold == Spec => []TypeOK
  <1>1. Init => TypeOK
    BY DEF Init, TypeOK, Jobs, Steps
  <1> QED
    BY <1>1, TypeStep, PTL DEF Spec

----------------------------------------------------------------------------
(* LoggedWasServed is inductive once it also covers the copies of the log  *)
(* that commands hold, and the releases of those past their pointer write. *)
AllServed(s) == \A i \in DOMAIN s : s[i] \in pointed

ServedInv ==
  /\ TypeOK
  /\ AllServed(log)
  /\ \A p \in Operators : AllServed(seen[p])
  /\ \A p \in Operators :
       pc[p] \in {"load", "save", "link", "record"} => target[p] \in pointed

LEMMA ServedInit == LInit => ServedInv
  BY DEF LInit, Init, ServedInv, AllServed, TypeOK, Jobs, Steps

LEMMA PointedGrows == ASSUME LNext PROVE pointed \subseteq pointed'
  BY DEF LNext

LEMMA ServedStep == ASSUME ServedInv, [LNext]_lvars PROVE ServedInv'
  <1> USE DEF ServedInv, AllServed
  <1>0. CASE UNCHANGED lvars
    <2>1. TypeOK'
      BY <1>0, TypeStep DEF lvars, vars
    <2> QED
      BY <1>0, <2>1 DEF lvars
  <1>a. TypeOK'
    <2>1. [Next]_vars
      BY DEF LNext, lvars, vars
    <2> QED
      BY <2>1, TypeStep
  <1> SUFFICES ASSUME LNext, NEW p \in Operators, Step(p) PROVE ServedInv'
    BY <1>0 DEF LNext, Next
  <1>b. pointed \subseteq pointed'
    BY PointedGrows
  <1>c. \A q \in Operators : /\ pc[q] \in Steps
                             /\ seen[q] \in Seq(Releases)
                             /\ job[q] \in Jobs
                             /\ pc[q] # "idle" => target[q] \in Releases
    BY DEF TypeOK
  <1>1. ASSUME NEW r \in Releases, BeginActivate(p, r) PROVE ServedInv'
    BY <1>1, <1>a, <1>b, <1>c DEF BeginActivate, TypeOK
  <1>2. CASE BeginRollback(p)
    BY <1>2, <1>a, <1>b, <1>c DEF BeginRollback, TypeOK
  <1>3. CASE ReadGeneration(p)
    BY <1>3, <1>a, <1>b, <1>c DEF ReadGeneration, GoesOn, Order, RollbackOrder, Jobs, TypeOK
  <1>4. CASE WritePointer(p)
    <2>1. pointer' = target[p] /\ generation' # generation
      BY <1>4 DEF WritePointer, PointerWritten, TypeOK
    <2>2. target[p] \in pointed'
      BY <2>1 DEF LNext
    <2> QED
      BY <1>4, <1>a, <1>b, <1>c, <2>2 DEF WritePointer, GoesOn, TypeOK
  <1>5. CASE LoseAnswer(p)
    BY <1>5, <1>a, <1>b, <1>c DEF LoseAnswer, Stops, TypeOK
  <1>6. CASE FailPrecondition(p)
    BY <1>6, <1>a, <1>b, <1>c DEF FailPrecondition, Stops, TypeOK
  <1>7. CASE LoadLog(p)
    BY <1>7, <1>a, <1>b, <1>c DEF LoadLog, GoesOn, TypeOK
  <1>8. CASE SaveLog(p)
    <2>1. \A i \in DOMAIN log' : log'[i] \in pointed
      <3>1. CASE job[p] = "activate"
        <4>1. log' = Append(seen[p], target[p]) /\ pc[p] = "save"
          BY <1>8, <3>1 DEF SaveLog, NewLog
        <4> QED
          BY <4>1, <1>c, AppendFacts
      <3>2. CASE job[p] = "rollback"
        <4>1. log' = Front(seen[p]) /\ Len(seen[p]) > 1
          BY <1>8, <3>2 DEF SaveLog, NewLog, TypeOK
        <4> QED
          BY <4>1, <1>c, FrontFacts
      <3> QED
        BY <1>c, <3>1, <3>2 DEF Jobs
    <2>2. \A q \in Operators : seen'[q] = seen[q] \/ seen'[q] = <<>>
      BY <1>8, <1>c DEF SaveLog, Stops, TypeOK
    <2>3. \A q \in Operators :
            pc'[q] # "idle" => /\ target'[q] = target[q]
                               /\ pc'[q] = pc[q] \/ pc[q] = "save"
      BY <1>8, <1>c DEF SaveLog, Stops, GoesOn, TypeOK
    <2> QED
      BY <1>a, <1>b, <2>1, <2>2, <2>3
  <1>9. CASE SwapLink(p)
    BY <1>9, <1>a, <1>b, <1>c DEF SwapLink, GoesOn, TypeOK
  <1>10. CASE Record(p)
    BY <1>10, <1>a, <1>b, <1>c DEF Record, Stops, TypeOK
  <1>11. CASE Fail(p)
    BY <1>11, <1>a, <1>b, <1>c DEF Fail, Stops, TypeOK
  <1> QED
    BY <1>1, <1>2, <1>3, <1>4, <1>5, <1>6, <1>7, <1>8, <1>9, <1>10, <1>11 DEF Step

(* Whatever races and fails, .history-gcs only names releases that the     *)
(* pointer has named.                                                      *)
THEOREM OnlyServedIsLogged == LSpec => []LoggedWasServed
  <1>1. ServedInv => LoggedWasServed
    BY DEF ServedInv, AllServed, LoggedWasServed
  <1> QED
    BY <1>1, ServedInit, ServedStep, PTL DEF LSpec

----------------------------------------------------------------------------
(* Until the first disturbance at most one command runs, and how far the   *)
(* log and the link lag behind the pointer is known from its step.         *)
Resting ==
  /\ log = lineage
  /\ pointer = NewestOf(lineage)
  /\ current = NewestOf(lineage)

Chosen(p) ==
  job[p] = "rollback" =>
    seen[p] = log /\ Len(log) > 1 /\ target[p] = Previous(log)

Logging(p) ==
  /\ job[p] = "activate" => /\ lineage = Append(log, target[p])
                            /\ pc[p] = "save" => seen[p] = log
  /\ job[p] = "rollback" => /\ Len(seen[p]) > 1
                            /\ lineage = Front(seen[p])
                            /\ current = NewestOf(lineage)

Linking(p) ==
  /\ target[p] = NewestOf(lineage)
  /\ job[p] = "activate" => log = lineage
  /\ job[p] = "rollback" => Len(seen[p]) > 1 /\ lineage = Front(seen[p])

Stage(p) ==
  /\ pc[p] \in {"idle", "generation", "pointer", "record"} => Resting
  /\ pc[p] \in {"generation", "pointer"} => Chosen(p)
  /\ pc[p] \in {"load", "save"} => Logging(p)
  /\ pc[p] = "link" => Linking(p)
  /\ pointer = NewestOf(lineage)

Alone(p) == \A q \in Operators : q # p => pc[q] = "idle"

Calm ==
  /\ Idle => Resting
  /\ \A p \in Operators : pc[p] # "idle" => Alone(p) /\ Stage(p)

CalmInv ==
  /\ TypeOK
  /\ lineage \in Seq(Releases)
  /\ disturbed \in BOOLEAN
  /\ ~disturbed => Calm

LEMMA CalmInit == LInit => CalmInv
  <1> SUFFICES ASSUME LInit PROVE CalmInv
    OBVIOUS
  <1>1. TypeOK
    BY DEF LInit, Init, TypeOK, Jobs, Steps
  <1>2. lineage = <<>> /\ disturbed = FALSE
    BY DEF LInit
  <1>3. Resting
    <2>1. log = <<>> /\ pointer = None /\ current = None /\ lineage = <<>>
      BY DEF LInit, Init
    <2> QED
      BY <2>1 DEF Resting, NewestOf
  <1>4. \A p \in Operators : pc[p] = "idle"
    BY DEF LInit, Init
  <1>5. Calm
    BY <1>3, <1>4 DEF Calm
  <1>6. lineage \in Seq(Releases)
    BY <1>2
  <1>7. disturbed \in BOOLEAN
    BY <1>2
  <1> QED
    BY <1>1, <1>5, <1>6, <1>7 DEF CalmInv

LEMMA LineageType ==
  ASSUME TypeOK, TypeOK', lineage \in Seq(Releases), LNext
  PROVE  lineage' \in Seq(Releases)
  <1>1. generation' # generation => pointer' \in Releases
    BY CloudAssumption DEF LNext, Next, Step, TypeOK, BeginActivate, BeginRollback,
       ReadGeneration, WritePointer, LoseAnswer, PointerWritten, FailPrecondition,
       LoadLog, SaveLog, SwapLink, Record, Fail
  <1>2. Len(lineage) > 1 => Front(lineage) \in Seq(Releases)
    BY FrontFacts
  <1>3. generation' # generation => Append(lineage, pointer') \in Seq(Releases)
    BY <1>1
  <1>4. \/ lineage' = lineage
        \/ Len(lineage) > 1 /\ lineage' = Front(lineage)
        \/ generation' # generation /\ lineage' = Append(lineage, pointer')
    BY DEF LNext, NextLineage
  <1> QED
    BY <1>2, <1>3, <1>4

(* A step of p that does not write leaves the lineage; one that does moves *)
(* it with the pointer.                                                    *)
LEMMA LineageMoves ==
  ASSUME LNext, TypeOK, NEW p \in Operators,
         \A q \in Operators : q # p => pc'[q] = pc[q]
  PROVE  /\ generation' = generation => lineage' = lineage
         /\ PointerWritten(p) /\ pc'[p] # "pointer" =>
              lineage' = IF job[p] = "rollback"
                         THEN IF Len(lineage) > 1 THEN Front(lineage) ELSE lineage
                         ELSE Append(lineage, target[p])
  <1>1. generation' = generation => lineage' = lineage
    BY DEF LNext, NextLineage, Writes
  <1>2. ASSUME PointerWritten(p), pc'[p] # "pointer"
        PROVE  lineage' = IF job[p] = "rollback"
                          THEN IF Len(lineage) > 1 THEN Front(lineage) ELSE lineage
                          ELSE Append(lineage, target[p])
    <2>1. generation' # generation /\ pointer' = target[p]
      BY <1>2 DEF PointerWritten, TypeOK
    <2>2. (\E q \in Operators : Writes(q) /\ job[q] = "rollback") <=> job[p] = "rollback"
      BY <1>2, <2>1 DEF Writes, PointerWritten
    <2> QED
      BY <2>1, <2>2 DEF LNext, NextLineage
  <1> QED
    BY <1>1, <1>2

(* Until the first disturbance, whoever takes a step is alone. *)
LEMMA StepsAlone ==
  ASSUME CalmInv, LNext, ~disturbed', NEW p \in Operators, Step(p)
  PROVE  /\ ~disturbed
         /\ \A q \in Operators : q # p => pc'[q] = "idle" /\ pc[q] = "idle"
         /\ ~FailsHalfDone(p)
         /\ Stage(p)
         /\ pc[p] = "idle" => Resting
  <1>1. ~disturbed /\ ~FailsHalfDone(p)
    BY DEF LNext, NextDisturbed
  <1>2. \A q \in Operators : q # p => pc'[q] = pc[q]
    BY DEF Step, BeginActivate, BeginRollback, ReadGeneration, WritePointer,
       LoseAnswer, FailPrecondition, LoadLog, SaveLog, SwapLink, Record, Fail,
       Stops, GoesOn, CalmInv, TypeOK
  <1>3. Calm
    BY <1>1 DEF CalmInv
  <1>4. \A q \in Operators : q # p => pc[q] = "idle"
    <2> SUFFICES ASSUME NEW q \in Operators, q # p, pc[q] # "idle" PROVE FALSE
      OBVIOUS
    <2>1. pc'[q] # "idle" /\ pc[p] = "idle"
      BY <1>2, <1>3 DEF Calm, Alone
    <2>2. pc'[p] # "idle"
      BY <2>1 DEF Step, BeginActivate, BeginRollback, ReadGeneration, WritePointer,
         LoseAnswer, PointerWritten, FailPrecondition, LoadLog, SaveLog, SwapLink,
         Record, Fail, CalmInv, TypeOK
    <2> QED
      BY <2>1, <2>2 DEF LNext, NextDisturbed
  <1>5. pc[p] = "idle" => Idle
    BY <1>4 DEF Idle
  <1>6. Stage(p) /\ (pc[p] = "idle" => Resting)
    BY <1>3, <1>5 DEF Calm, Stage, Resting, CalmInv, TypeOK
  <1> QED
    BY <1>1, <1>2, <1>4, <1>6

(* When p alone has moved, the new state is calm if p is at rest, or at    *)
(* the stage of its new step.                                              *)
LEMMA CalmAfter ==
  ASSUME NEW p \in Operators,
         \A q \in Operators : q # p => pc'[q] = "idle",
         pc'[p] = "idle" => Resting',
         pc'[p] # "idle" => Stage(p)'
  PROVE  Calm'
  BY DEF Calm, Idle, Alone

LEMMA CalmStep == ASSUME CalmInv, [LNext]_lvars PROVE CalmInv'
  <1>a. TypeOK'
    <2>1. [Next]_vars
      BY DEF LNext, lvars, vars
    <2> QED
      BY <2>1, TypeStep DEF CalmInv
  <1>b. lineage' \in Seq(Releases)
    BY <1>a, LineageType DEF CalmInv, lvars
  <1>c. disturbed' \in BOOLEAN
    BY DEF CalmInv, LNext, NextDisturbed, lvars
  <1>0. CASE UNCHANGED lvars
    <2>1. Calm' <=> Calm
      BY <1>0 DEF lvars, Calm, Idle, Alone, Stage, Resting, Chosen, Logging,
         Linking, NewestOf, Previous
    <2> QED
      BY <1>0, <1>a, <1>b, <1>c, <2>1 DEF lvars, CalmInv
  <1> SUFFICES ASSUME LNext, ~disturbed', NEW p \in Operators, Step(p) PROVE Calm'
    BY <1>0, <1>a, <1>b, <1>c DEF CalmInv, LNext, Next
  <1>s. /\ \A q \in Operators : q # p => pc'[q] = "idle" /\ pc[q] = "idle"
        /\ Stage(p)
        /\ pc[p] = "idle" => Resting
        /\ ~FailsHalfDone(p)
    BY StepsAlone
  <1>t. /\ TypeOK /\ lineage \in Seq(Releases)
        /\ pc[p] \in Steps /\ job[p] \in Jobs
        /\ seen[p] \in Seq(Releases) /\ log \in Seq(Releases)
        /\ pc[p] # "idle" => target[p] \in Releases
    BY DEF CalmInv, TypeOK
  <1>m. /\ generation' = generation => lineage' = lineage
        /\ PointerWritten(p) /\ pc'[p] # "pointer" =>
              lineage' = IF job[p] = "rollback"
                         THEN IF Len(lineage) > 1 THEN Front(lineage) ELSE lineage
                         ELSE Append(lineage, target[p])
    <2>1. \A q \in Operators : q # p => pc'[q] = pc[q]
      BY <1>s
    <2> QED
      BY <2>1, <1>t, LineageMoves
  <1> SUFFICES /\ pc'[p] = "idle" => Resting'
               /\ pc'[p] # "idle" => Stage(p)'
    BY <1>s, CalmAfter
  <1>1. ASSUME NEW r \in Releases, BeginActivate(p, r)
        PROVE  pc'[p] = "generation" /\ Stage(p)'
    BY <1>1, <1>s, <1>t, <1>m DEF BeginActivate, Stage, Resting, Chosen, NewestOf, TypeOK
  <1>2. CASE BeginRollback(p)
    BY <1>2, <1>s, <1>t, <1>m
    DEF BeginRollback, Stage, Resting, Chosen, NewestOf, Previous, TypeOK
  <1>3. CASE ReadGeneration(p)
    BY <1>3, <1>s, <1>t, <1>m
    DEF ReadGeneration, GoesOn, Order, RollbackOrder, Jobs, Stage, Resting, Chosen, NewestOf, Previous, TypeOK
  <1>4. CASE WritePointer(p)
    <2>1. Resting /\ Chosen(p) /\ pc[p] = "pointer" /\ PointerWritten(p)
      BY <1>4, <1>s DEF WritePointer, PointerWritten, Stage
    <2>2. CASE job[p] = "activate"
      <3>1. pc'[p] = "load"
        BY <1>4, <1>t, <2>1, <2>2 DEF WritePointer, GoesOn, Order, RollbackOrder, TypeOK
      <3>2. lineage' = Append(log, target[p])
        BY <1>m, <2>1, <2>2, <3>1 DEF Resting
      <3>3. NewestOf(lineage') = target[p]
        BY <3>2, <1>t, <2>1, NewestFacts
      <3> QED
        BY <1>4, <2>1, <2>2, <3>1, <3>2, <3>3 DEF WritePointer, PointerWritten, Stage, Logging, NewestOf
    <2>3. CASE job[p] = "rollback"
      <3>1. pc'[p] = "link"
        BY <1>4, <1>t, <2>1, <2>3 DEF WritePointer, GoesOn, Order, RollbackOrder, TypeOK
      <3>2. lineage' = Front(log) /\ Len(log) > 1 /\ seen[p] = log /\ target[p] = Previous(log)
        BY <1>m, <2>1, <2>3, <3>1 DEF Resting, Chosen
      <3>3. NewestOf(lineage') = target[p]
        BY <3>2, <1>t, NewestFacts
      <3> QED
        BY <1>4, <2>1, <2>3, <3>1, <3>2, <3>3 DEF WritePointer, PointerWritten, Stage, Linking, NewestOf
    <2> QED
      BY <1>t, <2>2, <2>3 DEF Jobs
  <1>5. CASE LoseAnswer(p)
    <2>1. pc[p] = "pointer" /\ pc'[p] = "idle" /\ generation' # generation
      BY <1>5, <1>t DEF LoseAnswer, PointerWritten, Stops, TypeOK
    <2> QED
      BY <1>s, <2>1 DEF FailsHalfDone, Writes
  <1>6. CASE FailPrecondition(p)
    BY <1>6, <1>s, <1>t, <1>m DEF FailPrecondition, Stops, Stage, Resting, NewestOf, TypeOK
  <1>7. CASE LoadLog(p)
    <2>1. job[p] = "activate" /\ pc[p] = "load" /\ Logging(p) /\ pointer = NewestOf(lineage)
      BY <1>7, <1>s, <1>t DEF LoadLog, Stage, TypeOK, Jobs
    <2>2. pc'[p] = "save"
      BY <1>7, <1>t, <2>1 DEF LoadLog, GoesOn, Order, RollbackOrder, TypeOK
    <2>3. seen'[p] = log
      BY <1>7, <1>t DEF LoadLog, TypeOK
    <2> QED
      BY <1>7, <1>m, <2>1, <2>2, <2>3 DEF LoadLog, Stage, Logging, NewestOf
  <1>8. CASE SaveLog(p)
    <2>1. pc[p] = "save" /\ Logging(p) /\ pointer = NewestOf(lineage) /\ lineage' = lineage
      BY <1>8, <1>s, <1>m DEF SaveLog, Stage
    <2>2. CASE job[p] = "activate"
      <3>1. pc'[p] = "link"
        BY <1>8, <1>t, <2>1, <2>2 DEF SaveLog, GoesOn, Order, RollbackOrder, TypeOK
      <3>2. log' = lineage /\ lineage = Append(log, target[p])
        BY <1>8, <2>1, <2>2 DEF SaveLog, NewLog, Logging
      <3>3. NewestOf(lineage) = target[p]
        BY <1>t, <2>1, <3>2, NewestFacts
      <3> QED
        BY <1>8, <2>1, <2>2, <3>1, <3>2, <3>3 DEF SaveLog, Stage, Linking, NewestOf
    <2>3. CASE job[p] = "rollback"
      BY <1>8, <1>t, <2>1, <2>3 DEF SaveLog, NewLog, Logging, Stops, Resting, NewestOf, TypeOK
    <2> QED
      BY <1>t, <2>2, <2>3 DEF Jobs
  <1>9. CASE SwapLink(p)
    <2>1. pc[p] = "link" /\ Linking(p) /\ pointer = NewestOf(lineage) /\ lineage' = lineage
      BY <1>9, <1>s, <1>m DEF SwapLink, Stage
    <2>2. CASE job[p] = "activate"
      <3>1. pc'[p] = "record"
        BY <1>9, <1>t, <2>1, <2>2 DEF SwapLink, GoesOn, Order, RollbackOrder, TypeOK
      <3> QED
        BY <1>9, <2>1, <2>2, <3>1 DEF SwapLink, Stage, Linking, Resting, NewestOf
    <2>3. CASE job[p] = "rollback"
      <3>1. pc'[p] = "save"
        BY <1>9, <1>t, <2>1, <2>3 DEF SwapLink, GoesOn, Order, RollbackOrder, TypeOK
      <3> QED
        BY <1>9, <2>1, <2>3, <3>1 DEF SwapLink, Stage, Linking, Logging, NewestOf
    <2> QED
      BY <1>t, <2>2, <2>3 DEF Jobs
  <1>10. CASE Record(p)
    BY <1>10, <1>s, <1>t, <1>m DEF Record, Stops, Stage, Resting, NewestOf, TypeOK
  <1>11. CASE Fail(p)
    <2>1. pc'[p] = "idle" /\ UNCHANGED <<log, pointer, generation, current>> /\ lineage' = lineage
      BY <1>11, <1>t, <1>m DEF Fail, Stops, TypeOK
    <2>2. pc[p] \notin {"load", "save", "link"}
      BY <1>s, <2>1 DEF FailsHalfDone
    <2> QED
      BY <1>s, <1>t, <2>1, <2>2 DEF Stage, Resting, NewestOf, Steps
  <1> QED
    BY <1>1, <1>2, <1>3, <1>4, <1>5, <1>6, <1>7, <1>8, <1>9, <1>10, <1>11 DEF Step

LEMMA CalmAlways == LSpec => []CalmInv
  BY CalmInit, CalmStep, PTL DEF LSpec

(* Unless commands have overlapped or one failed after its pointer write,  *)
(* the pointer, the link and the log agree once no command runs.           *)
THEOREM UndisturbedViewsAgree == LSpec => []ViewsAgree
  <1>1. CalmInv => ViewsAgree
    BY DEF CalmInv, Calm, Resting, ViewsAgree
  <1> QED
    BY <1>1, CalmAlways, PTL

(* Until the first disturbance a rollback whose conditional write is going *)
(* to succeed returns to the release before the active one.                *)
THEOREM UndisturbedRollbacksRewind == LSpec => []UndisturbedRollbackRewinds
  <1>1. ASSUME CalmInv PROVE UndisturbedRollbackRewinds
    <2> SUFFICES ASSUME ~disturbed, NEW p \in Operators,
                        pc[p] = "pointer", job[p] = "rollback"
                 PROVE  Len(lineage) > 1 /\ target[p] = lineage[Len(lineage) - 1]
      BY DEF UndisturbedRollbackRewinds, RollbackRewindsToPrevious
    <2>1. Stage(p)
      BY <1>1 DEF CalmInv, Calm
    <2>2. Resting /\ Chosen(p)
      BY <2>1 DEF Stage
    <2> QED
      BY <2>2 DEF Resting, Chosen, Previous
  <1> QED
    BY <1>1, CalmAlways, PTL

(* Until the first disturbance every step is one of the stack of releases, *)
(* or leaves the active release and what lies below it alone.              *)
LEMMA StackStep ==
  ASSUME CalmInv, [LNext]_lvars, ~disturbed'
  PROVE  Stack!Next \/ UNCHANGED <<lineage, pointer>>
  <1>0. CASE UNCHANGED lvars
    BY <1>0 DEF lvars
  <1> SUFFICES ASSUME LNext, NEW p \in Operators, Step(p)
               PROVE  Stack!Next \/ UNCHANGED <<lineage, pointer>>
    BY <1>0 DEF LNext, Next
  <1>s. /\ Stage(p)
        /\ ~FailsHalfDone(p)
        /\ \A q \in Operators : q # p => pc'[q] = pc[q]
    BY StepsAlone
  <1>t. TypeOK /\ pc[p] \in Steps /\ job[p] \in Jobs
    BY DEF CalmInv, TypeOK
  <1>m. /\ generation' = generation => lineage' = lineage
        /\ PointerWritten(p) /\ pc'[p] # "pointer" =>
              lineage' = IF job[p] = "rollback"
                         THEN IF Len(lineage) > 1 THEN Front(lineage) ELSE lineage
                         ELSE Append(lineage, target[p])
    BY <1>s, <1>t, LineageMoves
  <1>1. CASE UNCHANGED <<pointer, generation>>
    BY <1>1, <1>m
  <1>2. CASE WritePointer(p)
    <2>1. /\ pc[p] = "pointer"
          /\ PointerWritten(p)
          /\ pointer' = target[p]
          /\ target[p] \in Releases
      BY <1>2, <1>t DEF WritePointer, PointerWritten, TypeOK
    <2>2. Resting /\ Chosen(p)
      BY <1>s, <2>1 DEF Stage
    <2>3. pc'[p] # "pointer"
      BY <1>2, <1>t, <2>1 DEF WritePointer, GoesOn, Order, RollbackOrder, Jobs, TypeOK
    <2>4. CASE job[p] = "activate"
      <3>1. Stack!Activate(target[p])
        BY <1>m, <2>1, <2>3, <2>4 DEF Stack!Activate
      <3> QED
        BY <2>1, <3>1 DEF Stack!Next
    <2>5. CASE job[p] = "rollback"
      <3>1. Len(lineage) > 1 /\ target[p] = lineage[Len(lineage) - 1]
        BY <2>2, <2>5 DEF Resting, Chosen, Previous
      <3>2. lineage' = Front(lineage)
        BY <1>m, <2>1, <2>3, <2>5, <3>1
      <3>3. Stack!Rollback
        BY <2>1, <3>1, <3>2 DEF Stack!Rollback, Front
      <3> QED
        BY <3>3 DEF Stack!Next
    <2> QED
      BY <1>t, <2>4, <2>5 DEF Jobs
  <1>3. CASE LoseAnswer(p)
    <2>1. pc[p] = "pointer" /\ pc'[p] = "idle" /\ generation' # generation
      BY <1>3, <1>t DEF LoseAnswer, PointerWritten, Stops, TypeOK
    <2> QED
      BY <1>s, <2>1 DEF FailsHalfDone, Writes
  <1>4. \/ WritePointer(p) \/ LoseAnswer(p)
        \/ UNCHANGED <<pointer, generation>>
    BY DEF Step, BeginActivate, BeginRollback, ReadGeneration, FailPrecondition,
       LoadLog, SaveLog, SwapLink, Record, Fail
  <1> QED
    BY <1>1, <1>2, <1>3, <1>4

THEOREM CloudIsStackUntilDisturbed == LSpec => StackWhileUndisturbed
  <1>1. CalmInv /\ [LNext]_lvars =>
          [~disturbed' => Stack!Next \/ UNCHANGED <<lineage, pointer>>]_lvars
    BY StackStep
  <1> QED
    BY <1>1, CalmAlways, PTL DEF LSpec, StackWhileUndisturbed
=============================================================================
