-------------------------- MODULE IngestionProofs ---------------------------
(***************************************************************************)
(* What the reports of the ingestion jobs promise for any number of        *)
(* bundles and collections, jobs running at once and jobs killed: the      *)
(* invariant says what holds at each step of a running job.                *)
(***************************************************************************)
EXTENDS Ingestion, TLAPS

ImportSteps == {"look", "create", "upsert", "verify", "import report"}

(* What a running job has found and written so far. *)
JobHasDone(b) ==
  /\ job[b] = "convert" => extraction[b] = "partial"
  /\ job[b] \in {"prepare", "prepare report"} => extraction[b] = "complete"
  /\ job[b] = "prepare" => phase[b] = "none"
  /\ job[b] = "prepare report" => phase[b] = "prepared"
  /\ job[b] \in {"embed", "coverage"} => phase[b] = "prepared"
  /\ job[b] \in {"coverage", "embed report"} => vectors[b] = "complete"
  /\ job[b] = "embed report" => phase[b] = "embedded"
  /\ job[b] \in ImportSteps => Importable(b) /\ target[b] # None
  /\ job[b] \in {"look", "create"} => sent[b] = {}
  /\ job[b] \in {"upsert", "verify", "import report"} => sent[b] \subseteq stored[target[b]]
  /\ job[b] \in {"verify", "import report"} => sent[b] = PointsOf[b]

(* The reports of a bundle, one by one. *)
ReportsTrue(b) ==
  /\ "prepare" \in reports[b] => extraction[b] = "complete" /\ phase[b] # "none"
  /\ Importable(b) => phase[b] = "embedded" /\ vectors[b] = "complete"
  /\ "import" \in reports[b] => /\ Importable(b) /\ target[b] # None
                                /\ PointsOf[b] \subseteq stored[target[b]]

BInv(b) == JobHasDone(b) /\ ReportsTrue(b)

IInv == TypeOK /\ \A b \in Bundles : BInv(b)

----------------------------------------------------------------------------
LEMMA InitHolds == Init => IInv
BY BundleAssumption
   DEF Init, IInv, BInv, TypeOK, Steps, JobHasDone, ReportsTrue, ImportSteps,
       Importable

(* A running import has a collection. *)
LEMMA ImportHasTarget ==
  ASSUME IInv, NEW b \in Bundles, job[b] \in ImportSteps
  PROVE  target[b] \in Collections
<1>1. target[b] \in Collections \cup {None}
  BY DEF IInv, TypeOK
<1>2. BInv(b)  BY DEF IInv
<1>3. target[b] # None
  BY <1>2 DEF BInv, JobHasDone
<1>4. QED  BY <1>1, <1>3

(* Each step keeps the types. *)
LEMMA TypeStep ==
  ASSUME IInv, NEW b \in Bundles, JobStep(b)
  PROVE  TypeOK'
<1> USE BundleAssumption DEF IInv, TypeOK, Steps
<1>1. CASE BeginConvert(b)
  BY <1>1 DEF BeginConvert, Go, files, index
<1>2. CASE WriteManifest(b)
  BY <1>2 DEF WriteManifest, Go, files, index
<1>3. CASE BeginPrepare(b)
  BY <1>3 DEF BeginPrepare, Go, files, index
<1>4. CASE RenameBundle(b)
  BY <1>4 DEF RenameBundle, Go, files, index
<1>5. CASE BeginEmbed(b)
  BY <1>5 DEF BeginEmbed, Embeddable, Go, files, index
<1>6. CASE FlushVectors(b)
  BY <1>6 DEF FlushVectors, Go, files, index
<1>7. CASE WriteCoverage(b)
  <2>1. PICK c \in Collections \cup {None} : target' = [target EXCEPT ![b] = c]
    BY <1>7 DEF WriteCoverage
  <2>2. target' \in [Bundles -> Collections \cup {None}]
    BY <2>1
  <2>3. QED
    BY <1>7, <2>2 DEF WriteCoverage, Go, index
<1>8. CASE BeginImport(b)
  BY <1>8 DEF BeginImport, Importable, ImportTarget, Go, files, index
<1>9. CASE LookAtCollection(b)
  BY <1>9 DEF LookAtCollection, Go, files, index
<1>10. CASE FindNoCollection(b)
  BY <1>10 DEF FindNoCollection, Go, files, index
<1>11. CASE CreateCollection(b)
  <2>1. target[b] \in Collections
    BY <1>11, ImportHasTarget DEF CreateCollection, Go, ImportSteps
  <2>2. created' \subseteq Collections
    BY <1>11, <2>1 DEF CreateCollection
  <2>3. QED
    BY <1>11, <2>2 DEF CreateCollection, Go, files
<1>12. CASE Upsert(b)
  <2>1. target[b] \in Collections
    BY <1>12, ImportHasTarget DEF Upsert, ImportSteps
  <2>2. PICK p \in PointsOf[b] \ sent[b] :
          /\ sent' = [sent EXCEPT ![b] = @ \cup {p}]
          /\ stored' = [stored EXCEPT ![target[b]] = @ \cup {p}]
    BY <1>12 DEF Upsert
  <2>3. p \in Points
    BY <2>2
  <2>4. sent' \in [Bundles -> SUBSET Points]
    BY <2>2, <2>3
  <2>5. stored' \in [Collections -> SUBSET Points]
    BY <2>1, <2>2, <2>3
  <2>6. QED
    BY <1>12, <2>4, <2>5 DEF Upsert, files
<1>13. CASE ComparePoints(b)
  BY <1>13 DEF ComparePoints, Go, files, index
<1>14. CASE VerifyBundle(b)
  BY <1>14 DEF VerifyBundle, Go, files, index
<1>15. CASE Fail(b)
  BY <1>15 DEF Fail, files, index
<1>16. ASSUME NEW stage \in {"prepare", "embed", "import"}, NEW from,
              Report(b, stage, from)
      PROVE  TypeOK'
  BY <1>16 DEF Report, Go, files, index
<1>17. CASE Assemble(b)
  <2>1. PICK c \in Collections : target' = [target EXCEPT ![b] = c]
    BY <1>17 DEF Assemble
  <2>2. target' \in [Bundles -> Collections \cup {None}]
    BY <2>1
  <2>3. QED
    BY <1>17, <2>2 DEF Assemble, index
<1>18. QED
  BY <1>1, <1>2, <1>3, <1>4, <1>5, <1>6, <1>7, <1>8, <1>9, <1>10, <1>11,
     <1>12, <1>13, <1>14, <1>15, <1>16, <1>17
     DEF JobStep, ReportPrepared, ReportEmbedded

(* A step of one bundle's job leaves the files of the others alone, and    *)
(* takes no point out of a collection.                                     *)
LEMMA OthersKept ==
  ASSUME IInv, NEW b \in Bundles, JobStep(b)
  PROVE  /\ \A r \in Bundles \ {b} :
              /\ job'[r] = job[r] /\ extraction'[r] = extraction[r]
              /\ phase'[r] = phase[r] /\ vectors'[r] = vectors[r]
              /\ target'[r] = target[r] /\ reports'[r] = reports[r]
              /\ sent'[r] = sent[r]
         /\ \A c \in Collections : stored[c] \subseteq stored'[c]
<1> USE DEF IInv, TypeOK
<1> DEFINE Kept == /\ \A r \in Bundles \ {b} :
                        /\ job'[r] = job[r] /\ extraction'[r] = extraction[r]
                        /\ phase'[r] = phase[r] /\ vectors'[r] = vectors[r]
                        /\ target'[r] = target[r] /\ reports'[r] = reports[r]
                        /\ sent'[r] = sent[r]
                   /\ \A c \in Collections : stored[c] \subseteq stored'[c]
<1>1. CASE BeginConvert(b)
  BY <1>1 DEF BeginConvert, Go, files, index
<1>2. CASE WriteManifest(b)
  BY <1>2 DEF WriteManifest, Go, files, index
<1>3. CASE BeginPrepare(b)
  BY <1>3 DEF BeginPrepare, Go, files, index
<1>4. CASE RenameBundle(b)
  BY <1>4 DEF RenameBundle, Go, files, index
<1>5. CASE BeginEmbed(b)
  BY <1>5 DEF BeginEmbed, Embeddable, Go, files, index
<1>6. CASE FlushVectors(b)
  BY <1>6 DEF FlushVectors, Go, files, index
<1>7. CASE WriteCoverage(b)
  BY <1>7 DEF WriteCoverage, Go, files, index
<1>8. CASE BeginImport(b)
  BY <1>8 DEF BeginImport, Importable, ImportTarget, Go, files, index
<1>9. CASE LookAtCollection(b)
  BY <1>9 DEF LookAtCollection, Go, files, index
<1>10. CASE FindNoCollection(b)
  BY <1>10 DEF FindNoCollection, Go, files, index
<1>11. CASE CreateCollection(b)
  BY <1>11 DEF CreateCollection, Go, files, index
<1>12. CASE Upsert(b)
  BY <1>12 DEF Upsert, files, index
<1>13. CASE ComparePoints(b)
  BY <1>13 DEF ComparePoints, Go, files, index
<1>14. CASE VerifyBundle(b)
  BY <1>14 DEF VerifyBundle, Go, files, index
<1>15. CASE Fail(b)
  BY <1>15 DEF Fail, files, index
<1>16. ASSUME NEW stage, NEW from, Report(b, stage, from)
      PROVE  Kept
  BY <1>16 DEF Report, Go, files, index
<1>17. CASE Assemble(b)
  BY <1>17 DEF Assemble, index
<1>18. QED
  BY <1>1, <1>2, <1>3, <1>4, <1>5, <1>6, <1>7, <1>8, <1>9, <1>10, <1>11,
     <1>12, <1>13, <1>14, <1>15, <1>16, <1>17
     DEF JobStep, ReportPrepared, ReportEmbedded

(* So the others' invariant is kept. *)
LEMMA OthersStep ==
  ASSUME IInv, NEW b \in Bundles, JobStep(b), NEW r \in Bundles \ {b}
  PROVE  BInv(r)'
<1>1. target[r] # None => stored[target[r]] \subseteq stored'[target[r]]
  BY OthersKept DEF IInv, TypeOK
<1>2. /\ job'[r] = job[r] /\ extraction'[r] = extraction[r]
      /\ phase'[r] = phase[r] /\ vectors'[r] = vectors[r]
      /\ target'[r] = target[r] /\ reports'[r] = reports[r]
      /\ sent'[r] = sent[r]
  BY OthersKept
<1>3. BInv(r)  BY DEF IInv
<1>4. JobHasDone(r)'
  BY <1>1, <1>2, <1>3 DEF BInv, JobHasDone, ImportSteps, Importable
<1>5. ReportsTrue(r)'
  BY <1>1, <1>2, <1>3 DEF BInv, ReportsTrue, Importable
<1>6. QED  BY <1>4, <1>5 DEF BInv

(* And each step keeps the invariant of its own bundle. *)
LEMMA OwnStep ==
  ASSUME IInv, NEW b \in Bundles, JobStep(b)
  PROVE  BInv(b)'
<1> USE BundleAssumption
    DEF IInv, TypeOK, BInv, JobHasDone, ReportsTrue, ImportSteps, Importable
<1>1. CASE BeginConvert(b)
  BY <1>1 DEF BeginConvert, Go, files, index
<1>2. CASE WriteManifest(b)
  BY <1>2 DEF WriteManifest, Go, files, index
<1>3. CASE BeginPrepare(b)
  BY <1>3 DEF BeginPrepare, Go, files, index
<1>4. CASE RenameBundle(b)
  BY <1>4 DEF RenameBundle, Go, files, index
<1>5. CASE BeginEmbed(b)
  BY <1>5 DEF BeginEmbed, Embeddable, Go, files, index
<1>6. CASE FlushVectors(b)
  BY <1>6 DEF FlushVectors, Go, files, index
<1>7. CASE WriteCoverage(b)
  BY <1>7 DEF WriteCoverage, Go, files, index
<1>8. CASE BeginImport(b)
  <2>1. /\ job[b] = "idle" /\ job'[b] = "look" /\ sent'[b] = {}
        /\ Importable(b)
        /\ target'[b] = IF target[b] = None THEN DefaultCollection ELSE target[b]
    BY <1>8 DEF BeginImport, Importable, ImportTarget, Go
  <2>2. UNCHANGED <<extraction, phase, vectors, reports, stored>>
    BY <1>8 DEF BeginImport, index
  <2>3. target'[b] # None /\ (target[b] # None => target'[b] = target[b])
    <3>1. DefaultCollection # None  OBVIOUS
    <3>2. QED  BY ONLY <2>1, <3>1
  <2>4. QED
    BY <2>1, <2>2, <2>3
<1>9. CASE LookAtCollection(b)
  BY <1>9 DEF LookAtCollection, Go, files, index
<1>10. CASE FindNoCollection(b)
  BY <1>10 DEF FindNoCollection, Go, files, index
<1>11. CASE CreateCollection(b)
  BY <1>11 DEF CreateCollection, Go, files, index
<1>12. CASE Upsert(b)
  <2>1. target[b] \in Collections /\ sent[b] \subseteq stored[target[b]]
    BY <1>12, ImportHasTarget DEF Upsert
  <2>2. PICK p \in PointsOf[b] \ sent[b] :
          /\ sent' = [sent EXCEPT ![b] = @ \cup {p}]
          /\ stored' = [stored EXCEPT ![target[b]] = @ \cup {p}]
    BY <1>12 DEF Upsert
  <2>3. /\ sent'[b] = sent[b] \cup {p}
        /\ stored'[target[b]] = stored[target[b]] \cup {p}
    BY <2>1, <2>2
  <2>4. QED
    BY <1>12, <2>1, <2>3 DEF Upsert, files
<1>13. CASE ComparePoints(b)
  BY <1>13 DEF ComparePoints, Go, files, index
<1>14. CASE VerifyBundle(b)
  BY <1>14 DEF VerifyBundle, Go, files, index
<1>15. CASE Fail(b)
  BY <1>15 DEF Fail, files, index
<1>16. CASE Report(b, "prepare", "prepare report")
  BY <1>16 DEF Report, Go, index
<1>17. CASE Report(b, "embed", "embed report")
  BY <1>17 DEF Report, Go, index
<1>18. CASE Report(b, "import", "import report")
  BY <1>18 DEF Report, Go, index
<1>19. CASE Assemble(b)
  <2>1. PICK c \in Collections : target' = [target EXCEPT ![b] = c]
    BY <1>19 DEF Assemble
  <2>2. /\ job[b] = "idle" /\ job'[b] = "idle"
        /\ phase[b] = "none" /\ phase'[b] = "embedded" /\ vectors'[b] = "complete"
        /\ reports'[b] = reports[b] \cup {"assemble"}
    <3>1. /\ job[b] = "idle" /\ phase[b] = "none" /\ job' = job
          /\ phase' = [phase EXCEPT ![b] = "embedded"]
          /\ vectors' = [vectors EXCEPT ![b] = "complete"]
          /\ reports' = [reports EXCEPT ![b] = @ \cup {"assemble"}]
      BY ONLY <1>19 DEF Assemble
    <3>2. /\ phase \in [Bundles -> {"none", "prepared", "embedded"}]
          /\ vectors \in [Bundles -> {"none", "partial", "complete"}]
          /\ reports \in [Bundles -> SUBSET {"prepare", "embed", "assemble", "import"}]
      OBVIOUS
    <3>3. QED
      BY ONLY <3>1, <3>2, b \in Bundles
  <2>3. target'[b] # None
    BY <2>1
  <2>4. "prepare" \notin reports[b] /\ "import" \notin reports[b]
    <3>1. ReportsTrue(b) /\ phase[b] = "none"
      BY <2>2
    <3>2. QED
      BY ONLY <3>1 DEF ReportsTrue
  <2>5. "prepare" \notin reports'[b] /\ "import" \notin reports'[b]
    BY <2>2, <2>4
  <2>6. JobHasDone(b)'
    BY <2>2
  <2>7. ReportsTrue(b)'
    BY <2>2, <2>5
  <2>8. QED
    BY <2>6, <2>7
<1>20. QED
  BY <1>1, <1>2, <1>3, <1>4, <1>5, <1>6, <1>7, <1>8, <1>9, <1>10, <1>11,
     <1>12, <1>13, <1>14, <1>15, <1>16, <1>17, <1>18, <1>19
     DEF JobStep, ReportPrepared, ReportEmbedded

(* The invariant holds in every state. *)
LEMMA Invariance == Spec => []IInv
<1>1. IInv /\ [Next]_vars => IInv'
  <2> SUFFICES ASSUME IInv, [Next]_vars PROVE IInv'  OBVIOUS
  <2>1. CASE UNCHANGED vars
    <3>1. TypeOK'
      BY <2>1 DEF vars, files, index, IInv, TypeOK
    <3>2. ASSUME NEW b \in Bundles PROVE BInv(b)'
      <4>1. BInv(b)  BY DEF IInv
      <4>2. JobHasDone(b)'
        BY <2>1, <4>1 DEF vars, files, index, BInv, JobHasDone, Importable
      <4>3. ReportsTrue(b)'
        BY <2>1, <4>1 DEF vars, files, index, BInv, ReportsTrue, Importable
      <4>4. QED  BY <4>2, <4>3 DEF BInv
    <3>3. QED  BY <3>1, <3>2 DEF IInv
  <2>2. ASSUME NEW b \in Bundles, JobStep(b) PROVE IInv'
    BY <2>2, TypeStep, OwnStep, OthersStep DEF IInv
  <2>3. QED  BY <2>1, <2>2 DEF Next
<1>2. QED  BY InitHolds, <1>1, PTL DEF Spec

(* For any bundles and collections and any jobs running at once, types. *)
THEOREM IngestionTypes == Spec => []TypeOK
<1>1. IInv => TypeOK  BY DEF IInv
<1>2. QED  BY Invariance, <1>1, PTL

----------------------------------------------------------------------------
\* Bundle b is verified: its report is written, or is the next thing to be.
Verified(b) == "import" \in reports[b] \/ job[b] = "import report"

Comparable(b, r) ==
  PointsOf[b] \subseteq PointsOf[r] \/ PointsOf[r] \subseteq PointsOf[b]

VerifiedComparable ==
  \A b, r \in Bundles :
    Verified(b) /\ Verified(r) /\ target[b] = target[r] => Comparable(b, r)

(* A verified bundle has a collection, and its points are there. *)
LEMMA VerifiedIsStored ==
  ASSUME IInv, NEW b \in Bundles, Verified(b)
  PROVE  target[b] # None /\ PointsOf[b] \subseteq stored[target[b]]
<1>1. BInv(b)  BY DEF IInv
<1>2. CASE "import" \in reports[b]
  BY <1>1, <1>2 DEF BInv, ReportsTrue
<1>3. CASE job[b] = "import report"
  BY <1>1, <1>3 DEF BInv, JobHasDone, ImportSteps
<1>4. QED  BY <1>2, <1>3 DEF Verified

(* Only verify_bundle makes a bundle verified, and it then is alone in its *)
(* collection; the collection of a verified bundle never changes.          *)
LEMMA NewlyVerified ==
  ASSUME IInv, NEW b \in Bundles, JobStep(b), NEW r \in Bundles, Verified(r)'
  PROVE  \/ Verified(r) /\ target'[r] = target[r]
         \/ r = b /\ target'[b] = target[b] /\ stored[target[b]] = PointsOf[b]
<1>1. CASE r # b
  BY <1>1, OthersKept DEF Verified
<1>2. CASE r = b
  <2> USE <1>2 DEF Verified
  <2>1. job[b] \in Steps /\ target \in [Bundles -> Collections \cup {None}]
        /\ reports \in [Bundles -> SUBSET {"prepare", "embed", "assemble", "import"}]
        /\ job \in [Bundles -> Steps]
    BY DEF IInv, TypeOK
  <2>2. CASE VerifyBundle(b)
    BY <2>1, <2>2 DEF VerifyBundle, HoldsExactly, Go, files
  <2>3. CASE Report(b, "import", "import report")
    BY <2>1, <2>3 DEF Report, Go
  <2>4. CASE BeginImport(b)
    <3>1. "import" \in reports[b]
      BY <2>1, <2>4 DEF BeginImport, Go
    <3>2. target[b] # None
      BY <3>1, VerifiedIsStored
    <3>3. QED
      BY <2>1, <2>4, <3>1, <3>2 DEF BeginImport, ImportTarget
  <2>5. CASE WriteCoverage(b)
    <3>1. "import" \in reports[b]
      BY <2>1, <2>5 DEF WriteCoverage, Go
    <3>2. FALSE
      BY <2>5, <3>1 DEF WriteCoverage, Go, IInv, BInv, JobHasDone, ReportsTrue
    <3>3. QED  BY <3>2
  <2>6. CASE BeginConvert(b) \/ WriteManifest(b)
    BY <2>1, <2>6 DEF BeginConvert, WriteManifest, Go
  <2>7. CASE BeginPrepare(b) \/ RenameBundle(b)
    BY <2>1, <2>7 DEF BeginPrepare, RenameBundle, files, Go
  <2>8. CASE Report(b, "prepare", "prepare report")
    BY <2>1, <2>8 DEF Report, Go
  <2>9. CASE Report(b, "embed", "embed report")
    BY <2>1, <2>9 DEF Report, Go
  <2>10. CASE BeginEmbed(b) \/ FlushVectors(b)
    BY <2>1, <2>10 DEF BeginEmbed, FlushVectors, Go
  <2>11. CASE LookAtCollection(b) \/ FindNoCollection(b) \/ CreateCollection(b)
    BY <2>1, <2>11 DEF LookAtCollection, FindNoCollection, CreateCollection, files, Go
  <2>12. CASE Upsert(b) \/ ComparePoints(b)
    BY <2>1, <2>12 DEF Upsert, ComparePoints, files, Go
  <2>13. CASE Fail(b)
    BY <2>1, <2>13 DEF Fail, files
  <2>14. CASE Assemble(b)
    <3>1. "import" \in reports[b]
      BY <2>1, <2>14 DEF Assemble
    <3>2. FALSE
      BY <2>14, <3>1 DEF Assemble, IInv, BInv, ReportsTrue
    <3>3. QED  BY <3>2
  <2>15. QED
    BY <2>2, <2>3, <2>4, <2>5, <2>6, <2>7, <2>8, <2>9, <2>10, <2>11, <2>12, <2>13,
       <2>14 DEF JobStep, ReportPrepared, ReportEmbedded
<1>3. QED  BY <1>1, <1>2

LEMMA ComparableStep ==
  ASSUME IInv, VerifiedComparable, NEW q \in Bundles, JobStep(q)
  PROVE  VerifiedComparable'
<1> SUFFICES ASSUME NEW b \in Bundles, NEW r \in Bundles,
                    Verified(b)', Verified(r)', target'[b] = target'[r]
             PROVE  Comparable(b, r)
  BY DEF VerifiedComparable, Comparable
<1>1. CASE Verified(b) /\ target'[b] = target[b] /\ Verified(r) /\ target'[r] = target[r]
  BY <1>1 DEF VerifiedComparable
<1>2. ASSUME NEW x \in Bundles, NEW y \in Bundles, target'[x] = target'[y],
             target'[x] = target[x], stored[target[x]] = PointsOf[x],
             Verified(y), target'[y] = target[y]
      PROVE  PointsOf[y] \subseteq PointsOf[x]
  BY <1>2, VerifiedIsStored
<1>3. CASE b = q /\ r = q
  BY <1>3 DEF Comparable
<1>4. QED
  BY <1>1, <1>2, <1>3, NewlyVerified DEF Comparable

(* For any number of imports into one collection, however they interleave: *)
(* of bundles that do not contain one another at most one is reported.     *)
THEOREM OneReportPerCollectionHolds == Spec => []OneReportPerCollection
<1>1. Init => VerifiedComparable
  BY DEF Init, VerifiedComparable, Verified
<1>2. IInv /\ VerifiedComparable /\ [Next]_vars => VerifiedComparable'
  <2> SUFFICES ASSUME IInv, VerifiedComparable, [Next]_vars PROVE VerifiedComparable'
    OBVIOUS
  <2>1. CASE UNCHANGED vars
    BY <2>1 DEF vars, files, VerifiedComparable, Verified, Comparable
  <2>2. QED  BY <2>1, ComparableStep DEF Next
<1>3. VerifiedComparable => OneReportPerCollection
  BY DEF VerifiedComparable, Verified, Comparable, OneReportPerCollection
<1>4. QED  BY Invariance, <1>1, <1>2, <1>3, PTL DEF Spec

(* However many jobs run, fail and run again, no report is ahead of what   *)
(* it reports, and what a reported import stored stays.                    *)
THEOREM ReportsAreTrue == Spec => []ReportsTellTheTruth
<1>1. IInv => ReportsTellTheTruth
  BY DEF IInv, BInv, ReportsTrue, Importable, ReportsTellTheTruth
<1>2. QED  BY Invariance, <1>1, PTL

(* No job changes a bundle whose import is reported. *)
THEOREM ReportedBundlesAreFrozen == Spec => ReportedBundleFrozen
<1> DEFINE Frozen == \A b \in Bundles : "import" \in reports[b] =>
                       /\ UNCHANGED <<phase[b], vectors[b], target[b]>>
                       /\ "prepare" \in reports[b] => UNCHANGED extraction[b]
<1>1. IInv /\ [Next]_vars => [Frozen]_vars
  <2> SUFFICES ASSUME IInv, NEW b \in Bundles, JobStep(b) PROVE Frozen
    BY DEF Next
  <2>1. ASSUME NEW r \in Bundles, "import" \in reports[r]
        PROVE  /\ UNCHANGED <<phase[r], vectors[r], target[r]>>
               /\ "prepare" \in reports[r] => UNCHANGED extraction[r]
    <3>1. CASE r # b
      BY <3>1, OthersKept
    <3>2. CASE r = b
      <4>1. /\ phase[b] = "embedded" /\ vectors[b] = "complete" /\ target[b] # None
            /\ job[b] \in ImportSteps \cup {"idle", "embed report", "convert"}
            /\ "prepare" \in reports[b] =>
                 extraction[b] = "complete" /\ job[b] # "convert"
        BY <2>1, <3>2 DEF IInv, TypeOK, Steps, BInv, JobHasDone, ReportsTrue,
                          ImportSteps
      <4>2. QED
        BY <3>2, <4>1
           DEF JobStep, ReportPrepared, ReportEmbedded, Go, ImportSteps, BeginConvert, WriteManifest, BeginPrepare,
               RenameBundle, Report, BeginEmbed, Embeddable, FlushVectors,
               WriteCoverage, Assemble, BeginImport, ImportTarget, LookAtCollection,
               FindNoCollection, CreateCollection, Upsert, ComparePoints,
               VerifyBundle, Fail, files, IInv, TypeOK
    <3>3. QED  BY <3>1, <3>2
  <2>2. QED  BY <2>1
<1>2. QED  BY Invariance, <1>1, PTL DEF Spec, ReportedBundleFrozen

----------------------------------------------------------------------------
\* Bundle b has been admitted to its collection, by the import that is running
\* or by one that is reported.
Engaged(b) ==
  "import" \in reports[b] \/ job[b] \in {"upsert", "verify", "import report"}

\* All of collection c belongs to one bundle.
OfOneBundle(c) ==
  stored[c] # {} => \E b \in Bundles : target[b] = c /\ stored[c] \subseteq PointsOf[b]

(* What keeps a collection unmixed: a bundle has a collection only when it *)
(* is embedded, and keeps it; all bundles admitted to a collection that no *)
(* two imports raced for have the same points, and it holds no others.     *)
UnmixedInv ==
  /\ \A b \in Bundles : phase[b] # "embedded" => target[b] = None
  /\ \A c \in Collections : stored[c] # {} => c \in created
  /\ \A b \in Bundles : Engaged(b) => target[b] \in created
  /\ \A c \in Collections \ raced : OfOneBundle(c)
  /\ \A b \in Bundles :
       Engaged(b) /\ target[b] \notin raced => stored[target[b]] \subseteq PointsOf[b]
  /\ \A b, r \in Bundles :
       Engaged(b) /\ Engaged(r) /\ target[b] = target[r] /\ target[b] \notin raced
         => PointsOf[b] = PointsOf[r]

(* A bundle that has a collection is embedded, and keeps both.             *)
LEMMA TargetStays ==
  ASSUME IInv, UnmixedInv, NEW b \in Bundles, JobStep(b), NEW r \in Bundles
  PROVE  /\ phase'[r] # "embedded" => target'[r] = None
         /\ target[r] # None => target'[r] = target[r]
<1>0. phase[r] # "embedded" => target[r] = None
  BY DEF UnmixedInv
<1>1. CASE r # b
  BY <1>0, <1>1, OthersKept
<1>2. CASE r = b
  <2>1. /\ phase \in [Bundles -> {"none", "prepared", "embedded"}]
        /\ target \in [Bundles -> Collections \cup {None}]
        /\ Importable(b) => phase[b] = "embedded"
        /\ job[b] \in {"embed", "coverage"} => phase[b] = "prepared"
        /\ job[b] = "prepare" => phase[b] = "none"
    BY DEF IInv, TypeOK, BInv, JobHasDone, ReportsTrue
  <2>2. CASE RenameBundle(b)
    BY <1>0, <1>2, <2>1, <2>2 DEF RenameBundle, Go
  <2>3. CASE WriteCoverage(b)
    BY <1>0, <1>2, <2>1, <2>3 DEF WriteCoverage, Go
  <2>4. CASE Assemble(b)
    BY <1>0, <1>2, <2>1, <2>4 DEF Assemble
  <2>5. CASE BeginImport(b)
    BY <1>0, <1>2, <2>1, <2>5 DEF BeginImport, ImportTarget, Go
  <2>6. CASE UNCHANGED <<phase, target>>
    BY <1>0, <1>2, <2>6
  <2>7. QED
    BY <2>2, <2>3, <2>4, <2>5, <2>6
       DEF JobStep, ReportPrepared, ReportEmbedded, BeginConvert, WriteManifest, BeginPrepare, Report, BeginEmbed,
           FlushVectors, LookAtCollection, FindNoCollection, CreateCollection,
           Upsert, ComparePoints, VerifyBundle, Fail, files
<1>3. QED  BY <1>1, <1>2

(* Only the steps that are admitted to a collection and those that write   *)
(* to it concern the invariant.                                            *)
LEMMA OnlyImportsEngage ==
  ASSUME IInv, NEW b \in Bundles, JobStep(b)
  PROVE  \/ LookAtCollection(b) \/ CreateCollection(b) \/ Upsert(b)
         \/ /\ UNCHANGED index
            /\ \A r \in Bundles : Engaged(r)' => Engaged(r)
<1> USE DEF Engaged
<1>T. /\ job \in [Bundles -> Steps]
      /\ reports \in [Bundles -> SUBSET {"prepare", "embed", "assemble", "import"}]
  BY DEF IInv, TypeOK
<1>1. CASE BeginConvert(b) \/ WriteManifest(b) \/ BeginPrepare(b) \/ RenameBundle(b)
  BY <1>1, <1>T DEF BeginConvert, WriteManifest, BeginPrepare, RenameBundle, Go, files
<1>2. CASE BeginEmbed(b) \/ FlushVectors(b) \/ WriteCoverage(b)
  BY <1>2, <1>T DEF BeginEmbed, FlushVectors, WriteCoverage, Go
<1>3. CASE Assemble(b)
  BY <1>3, <1>T DEF Assemble
<1>4. CASE BeginImport(b) \/ FindNoCollection(b)
  BY <1>4, <1>T DEF BeginImport, FindNoCollection, Go, files
<1>5. CASE ComparePoints(b) \/ VerifyBundle(b)
  BY <1>5, <1>T DEF ComparePoints, VerifyBundle, Go, files
<1>6. ASSUME NEW stage \in {"prepare", "embed"}, NEW from, Report(b, stage, from)
      PROVE  UNCHANGED index /\ \A r \in Bundles : Engaged(r)' => Engaged(r)
  BY <1>6, <1>T DEF Report, Go
<1>7. CASE Report(b, "import", "import report")
  BY <1>7, <1>T DEF Report, Go
<1>8. CASE Fail(b)
  BY <1>8, <1>T DEF Fail, files
<1>9. QED
  BY <1>1, <1>2, <1>3, <1>4, <1>5, <1>6, <1>7, <1>8 DEF JobStep, ReportPrepared, ReportEmbedded

(* An engaged bundle has a collection.                                     *)
LEMMA EngagedHasTarget ==
  ASSUME IInv, NEW b \in Bundles, Engaged(b)
  PROVE  target[b] \in Collections
<1>1. target[b] \in Collections \cup {None} /\ BInv(b)
  BY DEF IInv, TypeOK
<1>2. target[b] # None
  BY <1>1 DEF Engaged, BInv, JobHasDone, ReportsTrue, ImportSteps
<1>3. QED  BY <1>1, <1>2

LEMMA UnmixedQuiet ==
  ASSUME IInv, UnmixedInv, NEW b \in Bundles, JobStep(b), UNCHANGED index,
         \A r \in Bundles : Engaged(r)' => Engaged(r)
  PROVE  UnmixedInv'
<1>1. \A r \in Bundles : /\ phase'[r] # "embedded" => target'[r] = None
                         /\ target[r] # None => target'[r] = target[r]
  BY TargetStays
<1>2. \A r \in Bundles : Engaged(r)' =>
        Engaged(r) /\ target'[r] = target[r] /\ target[r] \in Collections
  BY <1>1, EngagedHasTarget, BundleAssumption
<1>3. \A c \in Collections \ raced : OfOneBundle(c)'
  BY <1>1, BundleAssumption DEF UnmixedInv, OfOneBundle, index
<1>4. QED
  BY <1>1, <1>2, <1>3 DEF UnmixedInv, index

(* The points of an engaged bundle that is past its upserts are stored.    *)
LEMMA PastUpsertsStored ==
  ASSUME IInv, NEW b \in Bundles, Engaged(b), job[b] # "upsert"
  PROVE  PointsOf[b] \subseteq stored[target[b]]
<1>1. BInv(b)  BY DEF IInv
<1>2. CASE "import" \in reports[b]
  BY <1>1, <1>2 DEF BInv, ReportsTrue
<1>3. CASE job[b] \in {"verify", "import report"}
  BY <1>1, <1>3 DEF BInv, JobHasDone
<1>4. QED  BY <1>2, <1>3 DEF Engaged

(* An import is admitted to a collection that exists.  Those admitted      *)
(* before it have its points: they have finished, and the collection holds *)
(* theirs and nothing else, or else they are rivals.                       *)
LEMMA UnmixedLook ==
  ASSUME IInv, UnmixedInv, NEW b \in Bundles, LookAtCollection(b)
  PROVE  UnmixedInv'
<1> DEFINE c == target[b]
<1>1. /\ job[b] = "look" /\ job' = [job EXCEPT ![b] = "upsert"]
      /\ c \in created /\ stored[c] \in {{}, PointsOf[b]}
      /\ raced' = IF Rivals(b) # {} THEN raced \cup {c} ELSE raced
      /\ UNCHANGED <<phase, target, reports, created, stored>>
  BY DEF LookAtCollection, Go, Admits, files
<1>2. /\ job \in [Bundles -> Steps] /\ c \in Collections
      /\ stored \in [Collections -> SUBSET Points]
      /\ PointsOf \in [Bundles -> (SUBSET Points) \ {{}}]
  BY <1>1, ImportHasTarget, BundleAssumption DEF IInv, TypeOK, ImportSteps
<1>3. /\ Engaged(b)'
      /\ \A r \in Bundles \ {b} : Engaged(r)' <=> Engaged(r)
      /\ raced \subseteq raced'
  BY <1>1, <1>2 DEF Engaged
<1>4. c \notin raced' => stored[c] \subseteq PointsOf[b]
  BY <1>1
<1>5. ASSUME NEW r \in Bundles \ {b}, Engaged(r), target[r] = c, c \notin raced'
      PROVE  PointsOf[r] = PointsOf[b]
  <2>1. CASE job[r] = "upsert"
    BY <1>1, <1>5, <2>1 DEF Rivals
  <2>2. CASE job[r] # "upsert"
    <3>1. PointsOf[r] \subseteq stored[c]
      BY <1>5, <2>2, PastUpsertsStored
    <3>2. stored[c] \subseteq PointsOf[r]
      BY <1>3, <1>5 DEF UnmixedInv
    <3>3. QED  BY <1>1, <1>2, <3>1, <3>2
  <2>3. QED  BY <2>1, <2>2
<1>6. \A d \in Collections \ raced' : OfOneBundle(d)'
  BY <1>1, <1>3 DEF UnmixedInv, OfOneBundle
<1> HIDE DEF c
<1>7. \A r \in Bundles : Engaged(r)' => target[r] \in created
  BY <1>1, <1>3 DEF UnmixedInv, c
<1>8. \A r \in Bundles : Engaged(r)' /\ target[r] \notin raced' =>
        stored[target[r]] \subseteq PointsOf[r]
  BY <1>3, <1>4 DEF UnmixedInv, c
<1>9. \A q, r \in Bundles :
        Engaged(q)' /\ Engaged(r)' /\ target[q] = target[r] /\ target[q] \notin raced'
          => PointsOf[q] = PointsOf[r]
  BY <1>3, <1>5 DEF UnmixedInv, c
<1>10. QED
  BY <1>1, <1>6, <1>7, <1>8, <1>9 DEF UnmixedInv

(* A collection that is created is empty, and nobody was admitted to it.   *)
LEMMA UnmixedCreate ==
  ASSUME IInv, UnmixedInv, NEW b \in Bundles, CreateCollection(b)
  PROVE  UnmixedInv'
<1> DEFINE c == target[b]
<1>1. /\ job[b] = "create" /\ job' = [job EXCEPT ![b] = "upsert"]
      /\ c \notin created /\ created' = created \cup {c}
      /\ UNCHANGED <<phase, target, reports, stored, raced>>
  BY DEF CreateCollection, Go, files
<1>2. job \in [Bundles -> Steps] /\ c \in Collections /\ stored[c] = {}
  BY <1>1, ImportHasTarget DEF IInv, TypeOK, ImportSteps, UnmixedInv
<1>3. \A r \in Bundles \ {b} : Engaged(r)' => Engaged(r) /\ target[r] # c
  BY <1>1, <1>2 DEF Engaged, UnmixedInv
<1>4. \A d \in Collections \ raced' : OfOneBundle(d)'
  BY <1>1 DEF UnmixedInv, OfOneBundle
<1> HIDE DEF c
<1>5. \A r \in Bundles : Engaged(r)' => target[r] \in created'
  BY <1>1, <1>3 DEF UnmixedInv, c
<1>6. \A r \in Bundles : Engaged(r)' /\ target[r] \notin raced =>
        stored[target[r]] \subseteq PointsOf[r]
  BY <1>2, <1>3 DEF UnmixedInv, c
<1>7. \A q, r \in Bundles :
        Engaged(q)' /\ Engaged(r)' /\ target[q] = target[r] /\ target[q] \notin raced
          => PointsOf[q] = PointsOf[r]
  BY <1>3 DEF UnmixedInv, c
<1>8. QED
  BY <1>1, <1>4, <1>5, <1>6, <1>7 DEF UnmixedInv

(* A point that is sent is one of every bundle admitted to the collection. *)
LEMMA UnmixedUpsert ==
  ASSUME IInv, UnmixedInv, NEW b \in Bundles, Upsert(b)
  PROVE  UnmixedInv'
<1> DEFINE c == target[b]
<1>1. PICK p \in PointsOf[b] : stored' = [stored EXCEPT ![c] = @ \cup {p}]
  BY DEF Upsert
<1>2. /\ job[b] = "upsert"
      /\ UNCHANGED <<job, phase, target, reports, created, raced>>
  BY DEF Upsert, files
<1>3. Engaged(b) /\ c \in created /\ c \in Collections
  BY <1>2, EngagedHasTarget DEF Engaged, UnmixedInv
<1>4. /\ stored'[c] = stored[c] \cup {p}
      /\ \A d \in Collections \ {c} : stored'[d] = stored[d]
  BY <1>1, <1>3 DEF IInv, TypeOK
<1>5. \A r \in Bundles : Engaged(r)' <=> Engaged(r)
  BY <1>2 DEF Engaged
<1>6. ASSUME NEW r \in Bundles, Engaged(r), target[r] \notin raced
      PROVE  stored'[target[r]] \subseteq PointsOf[r]
  <2>1. stored[target[r]] \subseteq PointsOf[r] /\ target[r] \in Collections
    BY <1>6, EngagedHasTarget DEF UnmixedInv
  <2>2. target[r] = c => PointsOf[b] = PointsOf[r]
    BY <1>3, <1>6 DEF UnmixedInv
  <2>3. QED  BY <1>4, <2>1, <2>2
<1>7. ASSUME NEW d \in Collections \ raced PROVE OfOneBundle(d)'
  <2>1. CASE d = c
    BY <1>2, <1>3, <1>6, <1>7, <2>1 DEF OfOneBundle
  <2>2. CASE d # c
    BY <1>2, <1>4, <1>7, <2>2 DEF OfOneBundle, UnmixedInv
  <2>3. QED  BY <2>1, <2>2
<1>8. \A d \in Collections : stored'[d] # {} => d \in created
  BY <1>3, <1>4 DEF UnmixedInv
<1>9. QED
  BY <1>2, <1>5, <1>6, <1>7, <1>8 DEF UnmixedInv

(* For any bundles, collections and imports at once: unless two imports    *)
(* were admitted to it at the same time, a collection holds the points of  *)
(* one bundle, and of a reported one exactly all of them.                  *)
THEOREM CollectionsStayUnmixed == Spec => []CollectionsUnmixed
<1>1. Init => UnmixedInv
  BY DEF Init, UnmixedInv, Engaged, OfOneBundle
<1>2. IInv /\ UnmixedInv /\ [Next]_vars => UnmixedInv'
  <2> SUFFICES ASSUME IInv, UnmixedInv, [Next]_vars PROVE UnmixedInv'  OBVIOUS
  <2>1. CASE UNCHANGED vars
    BY <2>1 DEF vars, files, index, UnmixedInv, Engaged, OfOneBundle
  <2>2. ASSUME NEW b \in Bundles, JobStep(b) PROVE UnmixedInv'
    BY <2>2, OnlyImportsEngage, UnmixedQuiet, UnmixedLook, UnmixedCreate, UnmixedUpsert
  <2>3. QED  BY <2>1, <2>2 DEF Next
<1>3. IInv /\ UnmixedInv => CollectionsUnmixed
  <2> SUFFICES ASSUME IInv, UnmixedInv, NEW c \in Collections \ raced
               PROVE  /\ OfOneBundle(c)
                      /\ \A b \in Bundles :
                           "import" \in reports[b] /\ target[b] = c =>
                             stored[c] = PointsOf[b]
    BY DEF CollectionsUnmixed, OfOneBundle
  <2>1. ASSUME NEW b \in Bundles, "import" \in reports[b], target[b] = c
        PROVE  stored[c] = PointsOf[b]
    <3>1. PointsOf[b] \subseteq stored[c]
      BY <2>1 DEF IInv, BInv, ReportsTrue
    <3>2. stored[c] \subseteq PointsOf[b]
      BY <2>1 DEF UnmixedInv, Engaged
    <3>3. QED  BY <3>1, <3>2
  <2>2. QED  BY <2>1 DEF UnmixedInv
<1>4. QED  BY Invariance, <1>1, <1>2, <1>3, PTL DEF Spec
=============================================================================
