----------------------------- MODULE Ingestion ------------------------------
(***************************************************************************)
(* The four ingestion jobs of nora.jobs and the assembly of two bundles    *)
(* into a third, over the bundles they make and the Qdrant collections     *)
(* bundles are imported into (nora.preparation, nora.indexing).  Jobs on   *)
(* one bundle follow one another, by hand or by knowledge_update; jobs on  *)
(* different bundles overlap, and any job may fail or be killed between    *)
(* two of its writes.                                                      *)
(*                                                                         *)
(* A point stands for one batch of chunks with its vectors: its ID is made *)
(* from the document's digest and the chunk's place, so that one ID means  *)
(* one content.                                                            *)
(***************************************************************************)
EXTENDS Naturals

CONSTANTS
  Bundles,
  Collections,
  Points,
  PointsOf,           \* the points of each bundle
  DefaultCollection,  \* settings.collection
  None                \* no collection chosen

ASSUME BundleAssumption ==
  /\ PointsOf \in [Bundles -> (SUBSET Points) \ {{}}]
  /\ DefaultCollection \in Collections
  /\ None \notin Collections

VARIABLES
  job,         \* per bundle: the step its running job takes next, or "idle"
  extraction,  \* per bundle: what run_convert left
  phase,       \* per bundle: phase of coverage.json, "none" before prepare
  vectors,     \* per bundle: vectors.npy
  target,      \* per bundle: qdrant_collection of coverage.json
  reports,     \* per bundle: the job-*.json written
  sent,        \* per bundle: points its running import has upserted
  created,     \* collections that exist
  stored,      \* per collection: the points in it
  raced        \* history: collections two imports were admitted to at once

files == <<extraction, phase, vectors, target, reports>>
index == <<created, stored, raced>>
vars == <<job, files, sent, index>>

Init ==
  /\ job = [b \in Bundles |-> "idle"]
  /\ extraction = [b \in Bundles |-> "none"]
  /\ phase = [b \in Bundles |-> "none"]
  /\ vectors = [b \in Bundles |-> "none"]
  /\ target = [b \in Bundles |-> None]
  /\ reports = [b \in Bundles |-> {}]
  /\ sent = [b \in Bundles |-> {}]
  /\ created = {}
  /\ stored = [c \in Collections |-> {}]
  /\ raced = {}

\* The job of bundle b goes from one step to the next.
Go(b, from, to) == job[b] = from /\ job' = [job EXCEPT ![b] = to]

----------------------------------------------------------------------------
\* Mutant: an earlier conversion is overwritten.
BeginConvertOver(b) ==
  /\ Go(b, "idle", "convert")
  /\ extraction' = [extraction EXCEPT ![b] = "partial"]
  /\ UNCHANGED <<phase, vectors, target, reports, sent, index>>

(* run_convert: refused when its output is not empty. *)
BeginConvert(b) ==
  /\ Go(b, "idle", "convert")
  /\ extraction[b] = "none"
  /\ extraction' = [extraction EXCEPT ![b] = "partial"]
  /\ UNCHANGED <<phase, vectors, target, reports, sent, index>>

(* The manifest is written last; it lists the sources that failed, and     *)
(* with one of those, or with nothing converted, the job raises.           *)
WriteManifest(b) ==
  /\ Go(b, "convert", "idle")
  /\ \E result \in {"complete", "failed"} :
       extraction' = [extraction EXCEPT ![b] = result]
  /\ UNCHANGED <<phase, vectors, target, reports, sent, index>>

(* run_prepare: a manifest without failures is required, and an output     *)
(* that exists is never overwritten.                                       *)
BeginPrepare(b) ==
  /\ Go(b, "idle", "prepare")
  /\ extraction[b] = "complete"
  /\ phase[b] = "none"
  /\ UNCHANGED <<files, sent, index>>

(* prepare_texts: the bundle appears complete, by one rename. *)
RenameBundle(b) ==
  /\ Go(b, "prepare", "prepare report")
  /\ phase' = [phase EXCEPT ![b] = "prepared"]
  /\ UNCHANGED <<extraction, vectors, target, reports, sent, index>>

\* Mutant: a bundle may be embedded again.
EmbeddableAgain(b) == "prepare" \in reports[b]

(* run_embed wants the report of the preparation, and a bundle that has    *)
(* not been embedded.                                                      *)
Embeddable(b) == "prepare" \in reports[b] /\ phase[b] = "prepared"

(* embed_bundle creates vectors.npy anew and fills it batch by batch. *)
BeginEmbed(b) ==
  /\ Go(b, "idle", "embed")
  /\ Embeddable(b)
  /\ vectors' = [vectors EXCEPT ![b] = "partial"]
  /\ UNCHANGED <<extraction, phase, target, reports, sent, index>>

FlushVectors(b) ==
  /\ Go(b, "embed", "coverage")
  /\ vectors' = [vectors EXCEPT ![b] = "complete"]
  /\ UNCHANGED <<extraction, phase, target, reports, sent, index>>

(* coverage.json: the digest of the vectors, and the collection if one was *)
(* given.                                                                  *)
WriteCoverage(b) ==
  /\ Go(b, "coverage", "embed report")
  /\ phase' = [phase EXCEPT ![b] = "embedded"]
  /\ \E c \in Collections \cup {None} : target' = [target EXCEPT ![b] = c]
  /\ UNCHANGED <<extraction, vectors, reports, sent, index>>

(* assemble_bundle: an embedded bundle with what another adds to it, for   *)
(* another collection than the first one's.  The output is new and appears *)
(* by one rename, report included; an interrupted assembly leaves nothing. *)
(* Embedded inputs change no more, but for the collection an import gives  *)
(* to a bundle without one.                                                *)
Assemble(b) ==
  /\ job[b] = "idle"
  /\ phase[b] = "none"
  /\ \E base, delta \in Bundles, c \in Collections :
       /\ \A input \in {base, delta} :
            phase[input] = "embedded" /\ vectors[input] = "complete"
       /\ PointsOf[b] = PointsOf[base] \cup PointsOf[delta]
       /\ c # target[base]
       /\ target' = [target EXCEPT ![b] = c]
  /\ phase' = [phase EXCEPT ![b] = "embedded"]
  /\ vectors' = [vectors EXCEPT ![b] = "complete"]
  /\ reports' = [reports EXCEPT ![b] = @ \cup {"assemble"}]
  /\ UNCHANGED <<job, extraction, sent, index>>

----------------------------------------------------------------------------
(* run_import_verify wants the report of the embedding or of the assembly. *)
Importable(b) == reports[b] \cap {"embed", "assemble"} # {}

ImportTarget(b) == IF target[b] = None THEN DefaultCollection ELSE target[b]

(* A bundle without a collection gets the default one, in coverage.json,   *)
(* before anything is sent.                                                *)
BeginImport(b) ==
  /\ Go(b, "idle", "look")
  /\ Importable(b)
  /\ target' = [target EXCEPT ![b] = ImportTarget(b)]
  /\ sent' = [sent EXCEPT ![b] = {}]
  /\ UNCHANGED <<extraction, phase, vectors, reports, index>>

\* Mutant: a collection that begins with points of the bundle is taken for its
\* own.
AdmitsOverlap(b) ==
  stored[target[b]] = {} \/ stored[target[b]] \cap PointsOf[b] # {}

(* An existing collection is used if it is empty or holds exactly the      *)
(* points of the bundle.                                                   *)
Admits(b) == stored[target[b]] \in {{}, PointsOf[b]}

\* Imports of other points that are writing to the same collection.
Rivals(b) ==
  {r \in Bundles : job[r] = "upsert" /\ target[r] = target[b] /\ PointsOf[r] # PointsOf[b]}

(* import_bundle, after load_bundle has found the checksums right: the     *)
(* existing points are compared with the bundle's.                         *)
LookAtCollection(b) ==
  /\ Go(b, "look", "upsert")
  /\ vectors[b] = "complete"
  /\ target[b] \in created
  /\ Admits(b)
  /\ raced' = IF Rivals(b) # {} THEN raced \cup {target[b]} ELSE raced
  /\ UNCHANGED <<files, sent, created, stored>>

FindNoCollection(b) ==
  /\ Go(b, "look", "create")
  /\ vectors[b] = "complete"
  /\ target[b] \notin created
  /\ UNCHANGED <<files, sent, index>>

(* Creating a collection that has appeared meanwhile is an error (Fail). *)
CreateCollection(b) ==
  /\ Go(b, "create", "upsert")
  /\ target[b] \notin created
  /\ created' = created \cup {target[b]}
  /\ UNCHANGED <<files, sent, stored, raced>>

Upsert(b) ==
  /\ job[b] = "upsert"
  /\ \E p \in PointsOf[b] \ sent[b] :
       /\ sent' = [sent EXCEPT ![b] = @ \cup {p}]
       /\ stored' = [stored EXCEPT ![target[b]] = @ \cup {p}]
  /\ UNCHANGED <<job, files, created, raced>>

\* Mutant: the final comparison is left out.
HoldsAny(b) == TRUE

\* The comparison of point IDs, after the import and again by verify_bundle.
HoldsExactly(b) == stored[target[b]] = PointsOf[b]

ComparePoints(b) ==
  /\ Go(b, "upsert", "verify")
  /\ sent[b] = PointsOf[b]
  /\ HoldsExactly(b)
  /\ UNCHANGED <<files, sent, index>>

VerifyBundle(b) ==
  /\ Go(b, "verify", "import report")
  /\ HoldsExactly(b)
  /\ UNCHANGED <<files, sent, index>>

----------------------------------------------------------------------------
(* The last write of a job is its job-<stage>.json. *)
Report(b, stage, from) ==
  /\ Go(b, from, "idle")
  /\ reports' = [reports EXCEPT ![b] = @ \cup {stage}]
  /\ UNCHANGED <<extraction, phase, vectors, target, sent, index>>

\* job-prepare.json and job-embed.json; job-import.json is Report's last use.
ReportPrepared(b) == Report(b, "prepare", "prepare report")
ReportEmbedded(b) == Report(b, "embed", "embed report")

(* A job raises or is killed: a source unreadable, the encoder refused     *)
(* after its retries, a collection refused or not as expected.  What it    *)
(* has written stays.                                                      *)
Fail(b) ==
  /\ job[b] # "idle"
  /\ job' = [job EXCEPT ![b] = "idle"]
  /\ UNCHANGED <<files, sent, index>>

JobStep(b) ==
  \/ BeginConvert(b) \/ WriteManifest(b)
  \/ BeginPrepare(b) \/ RenameBundle(b) \/ ReportPrepared(b)
  \/ BeginEmbed(b) \/ FlushVectors(b) \/ WriteCoverage(b) \/ ReportEmbedded(b)
  \/ Assemble(b)
  \/ BeginImport(b) \/ LookAtCollection(b) \/ FindNoCollection(b)
  \/ CreateCollection(b) \/ Upsert(b) \/ ComparePoints(b) \/ VerifyBundle(b)
  \/ Report(b, "import", "import report")
  \/ Fail(b)

Next == \E b \in Bundles : JobStep(b)

Spec == Init /\ [][Next]_vars

----------------------------------------------------------------------------
Steps == {"idle", "convert", "prepare", "prepare report", "embed", "coverage",
          "embed report", "look", "create", "upsert", "verify", "import report"}

(* Every variable has its type. *)
TypeOK ==
  /\ job \in [Bundles -> Steps]
  /\ extraction \in [Bundles -> {"none", "partial", "failed", "complete"}]
  /\ phase \in [Bundles -> {"none", "prepared", "embedded"}]
  /\ vectors \in [Bundles -> {"none", "partial", "complete"}]
  /\ target \in [Bundles -> Collections \cup {None}]
  /\ reports \in [Bundles -> SUBSET {"prepare", "embed", "assemble", "import"}]
  /\ sent \in [Bundles -> SUBSET Points]
  /\ created \subseteq Collections
  /\ stored \in [Collections -> SUBSET Points]
  /\ raced \subseteq Collections

(* A report is never ahead of what it reports, wherever jobs were killed   *)
(* and however they were run again: a bundle reported embedded or          *)
(* assembled has all its vectors, and one reported imported has all its    *)
(* points in the collection its coverage names, from then on.              *)
ReportsTellTheTruth ==
  \A b \in Bundles :
    /\ "prepare" \in reports[b] => extraction[b] = "complete" /\ phase[b] # "none"
    /\ reports[b] \cap {"embed", "assemble"} # {} =>
         phase[b] = "embedded" /\ vectors[b] = "complete"
    /\ "import" \in reports[b] =>
         target[b] # None /\ PointsOf[b] \subseteq stored[target[b]]

(* A collection holds the points of a single bundle, and once an import    *)
(* into it is reported exactly that bundle's, unless two imports were both *)
(* admitted while it was empty.                                            *)
CollectionsUnmixed ==
  \A c \in Collections \ raced :
    /\ stored[c] # {} => \E b \in Bundles : target[b] = c /\ stored[c] \subseteq PointsOf[b]
    /\ \A b \in Bundles :
         "import" \in reports[b] /\ target[b] = c => stored[c] = PointsOf[b]

(* Of two bundles imported into one collection, the comparison after the   *)
(* import and the one that verifies it let at most one through, even if    *)
(* both were admitted - unless one contains the other.                     *)
OneReportPerCollection ==
  \A b, r \in Bundles :
    "import" \in reports[b] /\ "import" \in reports[r] /\ target[b] = target[r] =>
      PointsOf[b] \subseteq PointsOf[r] \/ PointsOf[r] \subseteq PointsOf[b]

(* A reported release is frozen: no later job changes its vectors, its     *)
(* coverage, its collection or the conversion it was prepared from,        *)
(* whatever is run on it again.                                            *)
ReportedBundleFrozen ==
  [][\A b \in Bundles : "import" \in reports[b] =>
       /\ UNCHANGED <<phase[b], vectors[b], target[b]>>
       /\ "prepare" \in reports[b] => UNCHANGED extraction[b]]_vars
=============================================================================
