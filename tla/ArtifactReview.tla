--------------------------- MODULE ArtifactReview ---------------------------
(***************************************************************************)
(* Saved artifact reviews and owner decisions: replay_review and           *)
(* record_review_revision of nora.evaluation.                              *)
(*                                                                         *)
(* A replay copies a frozen packet and a captured response into a new      *)
(* directory, validates the one against the other, saves the feedback and  *)
(* ends with its state.json.  A revision reads such a directory file by    *)
(* file, checks the owner's decisions and the next packet against it, and  *)
(* saves its own directory.  Commands run at the same time, are killed     *)
(* between any two writes, and find files that others have edited.         *)
(*                                                                         *)
(* A packet is told apart by its artifact's text and version, the context  *)
(* that a revision must keep (task, criteria, rubric, sources, reviewer),  *)
(* and whether it is well formed; a response by the packet whose hash its  *)
(* report names, whether the report is sound, and its findings.  A digest  *)
(* stands for the content it is taken of.                                  *)
(***************************************************************************)
EXTENDS Naturals, FiniteSets

CONSTANTS
  Packets,    \* records [text, version, context, valid]
  Responses,  \* records [name, about, sound, findings]
  Jobs,       \* processes running review-replay or review-revision
  Dirs,       \* names of output directories
  None,
  MaxEdits    \* bound on the saved files that are edited afterwards

ASSUME ReviewAssumption == MaxEdits \in Nat

VARIABLES
  disk,       \* per directory: the files it holds
  job,        \* per job: its step and what it has read
  \* history variables, read by the properties only
  passed,     \* <<packet, response>> of the replays that passed
  edited      \* the files that were edited, as <<directory, file>>

vars == <<disk, job, passed, edited>>

FindingIds == UNION {r.findings : r \in Responses}

\* The verdicts but "accept" differ in wording only.
Verdicts == {"accept", "reject"}

\* Decision files: the hashes they name, and the findings they decide.
DecisionFiles ==
  [packet : Packets, response : Responses,
   rows : UNION {[S -> Verdicts] : S \in SUBSET FindingIds}]

\* The files of a directory; state.json is its status and its digests.
Absent ==
  [status |-> "absent", packetDigest |-> None, responseDigest |-> None,
   packet |-> None, response |-> None, feedback |-> None,
   decisions |-> None, artifact |-> None, nextDigest |-> None]

\* What a job has read.
Idle ==
  [step |-> "idle", out |-> None, review |-> None, accepted |-> FALSE,
   packetDigest |-> None, responseDigest |-> None,
   packet |-> None, response |-> None, feedback |-> None,
   decisions |-> None, next |-> None]

Init ==
  /\ disk = [d \in Dirs |-> Absent]
  /\ job = [p \in Jobs |-> Idle]
  /\ passed = {}
  /\ edited = {}

----------------------------------------------------------------------------
\* _review_packet: its identity, hashes, anchors and sources are in order.
WellFormed(packet) == packet.valid

(* _review_content and _validate_review: the report is final, sound, and   *)
(* names this very packet, which is well formed.                           *)
ValidReview(packet, response) ==
  WellFormed(packet) /\ response.sound /\ response.about = packet

At(p, step) == job[p].step = step

\* p writes a file of its output directory and goes on to a step.
Write(p, file, content, step) ==
  /\ disk' = [disk EXCEPT ![job[p].out][file] = content]
  /\ job' = [job EXCEPT ![p].step = step]

\* p reads a file of the review and goes on to a step.
Read(p, file, step) ==
  /\ job' = [job EXCEPT ![p][file] = disk[job[p].review][file],
                        ![p].step = step]
  /\ UNCHANGED disk

End(p) == job' = [job EXCEPT ![p] = Idle]

\* Mutant: mkdir with exist_ok.
NewDirectoryOrOld(d) == d \in Dirs

\* output.mkdir: refused if it exists, whatever it holds.
NewDirectory(d) == disk[d].status = "absent"

(* replay_review: the inputs are read, then the directory is made.         *)
(* `accepted` says whether the captured HTTP status was one of success.    *)
BeginReplay(p, d, packet, response, accepted) ==
  /\ At(p, "idle")
  /\ NewDirectory(d)
  /\ disk' = [disk EXCEPT ![d].status = "made"]
  /\ job' = [job EXCEPT ![p] =
       [Idle EXCEPT !.step = "savePending", !.out = d, !.accepted = accepted,
                    !.packet = packet, !.response = response]]
  /\ UNCHANGED <<passed, edited>>

(* state(result): pending, with the digests of what was read. *)
SavePending(p) ==
  /\ At(p, "savePending")
  /\ disk' = [disk EXCEPT ![job[p].out].status = "pending",
                          ![job[p].out].packetDigest = job[p].packet,
                          ![job[p].out].responseDigest = job[p].response]
  /\ job' = [job EXCEPT ![p].step = "copyPacket"]
  /\ UNCHANGED <<passed, edited>>

(* The byte copies precede all parsing. *)
CopyPacket(p) ==
  /\ At(p, "copyPacket")
  /\ Write(p, "packet", job[p].packet, "copyResponse")
  /\ UNCHANGED <<passed, edited>>

CopyResponse(p) ==
  /\ At(p, "copyResponse")
  /\ Write(p, "response", job[p].response, "validate")
  /\ UNCHANGED <<passed, edited>>

Passes(p) == job[p].accepted /\ ValidReview(job[p].packet, job[p].response)

\* Mutant: state.json is replaced before feedback.json is written.
ValidateStateFirst(p) ==
  /\ At(p, "validate")
  /\ Passes(p)
  /\ Write(p, "status", "requires_owner_review", "pass")
  /\ UNCHANGED <<passed, edited>>

(* The review is valid: its report is saved as feedback.json. *)
Validate(p) ==
  /\ At(p, "validate")
  /\ Passes(p)
  /\ Write(p, "feedback", job[p].response, "pass")
  /\ UNCHANGED <<passed, edited>>

(* state(result): requires_owner_review *)
Pass(p) ==
  /\ At(p, "pass")
  /\ disk' = [disk EXCEPT ![job[p].out].status = "requires_owner_review"]
  /\ End(p)
  /\ passed' = passed \cup {<<job[p].packet, job[p].response>>}
  /\ UNCHANGED edited

(* ReviewFailure: state(result), failed, without feedback or score; also   *)
(* when the report turns out too large to be saved.                        *)
Reject(p) ==
  /\ At(p, "validate")
  /\ disk' = [disk EXCEPT ![job[p].out].status = "failed"]
  /\ End(p)
  /\ UNCHANGED <<passed, edited>>

----------------------------------------------------------------------------
(* record_review_revision: state.json is read first. *)
BeginRevision(p, d) ==
  /\ At(p, "idle")
  /\ disk[d].status = "requires_owner_review"
  /\ job' = [job EXCEPT ![p] =
       [Idle EXCEPT !.step = "readPacket", !.review = d,
                    !.packetDigest = disk[d].packetDigest,
                    !.responseDigest = disk[d].responseDigest]]
  /\ UNCHANGED <<disk, passed, edited>>

ReadPacket(p) ==
  At(p, "readPacket") /\ Read(p, "packet", "readFeedback")
  /\ UNCHANGED <<passed, edited>>

ReadFeedback(p) ==
  At(p, "readFeedback") /\ Read(p, "feedback", "readResponse")
  /\ UNCHANGED <<passed, edited>>

ReadResponse(p) ==
  At(p, "readResponse") /\ Read(p, "response", "decide")
  /\ UNCHANGED <<passed, edited>>

(* What was read is what was replayed: the digests of state.json match the *)
(* copies, and the feedback is the report of that response.                *)
Receipt(j) ==
  /\ j.packetDigest = j.packet /\ j.responseDigest = j.response
  /\ j.feedback = j.response
  /\ ValidReview(j.packet, j.response)

Accepted(rows) == {f \in DOMAIN rows : rows[f] = "accept"}

\* Mutant: decisions are compared with the packet only.
DecidedAnyReview(j, decisions, next) ==
  /\ decisions.packet = j.packet
  /\ DOMAIN decisions.rows = j.response.findings
  /\ WellFormed(next) /\ next.context = j.packet.context
  /\ (Accepted(decisions.rows) # {}) <=> (next.text # j.packet.text)
  /\ (next.version # j.packet.version) <=> (next.text # j.packet.text)

(* The decisions are about this packet and this response and decide every  *)
(* finding; the next packet keeps the context, and its text and version    *)
(* change together, if and only if something was accepted.                 *)
Decided(j, decisions, next) ==
  /\ decisions.packet = j.packet /\ decisions.response = j.response
  /\ DOMAIN decisions.rows = j.response.findings
  /\ WellFormed(next) /\ next.context = j.packet.context
  /\ (Accepted(decisions.rows) # {}) <=> (next.text # j.packet.text)
  /\ (next.version # j.packet.version) <=> (next.text # j.packet.text)

(* The decisions and the next packet are read and checked, and the output  *)
(* directory is made.                                                      *)
Decide(p, d) ==
  /\ At(p, "decide")
  /\ Receipt(job[p])
  /\ NewDirectory(d)
  /\ disk' = [disk EXCEPT ![d].status = "made"]
  /\ \E decisions \in DecisionFiles, next \in Packets :
       /\ Decided(job[p], decisions, next)
       /\ job' = [job EXCEPT ![p].step = "saveDecisions", ![p].out = d,
                             ![p].decisions = decisions, ![p].next = next]
  /\ UNCHANGED <<passed, edited>>

SaveDecisions(p) ==
  /\ At(p, "saveDecisions")
  /\ Write(p, "decisions", job[p].decisions, "saveArtifact")
  /\ UNCHANGED <<passed, edited>>

SaveArtifact(p) ==
  /\ At(p, "saveArtifact")
  /\ Write(p, "artifact", job[p].next.text, "record")
  /\ UNCHANGED <<passed, edited>>

(* state.json of the revision, with the digests of the review. *)
RecordRevision(p) ==
  /\ At(p, "record")
  /\ disk' = [disk EXCEPT
       ![job[p].out].status = IF job[p].next.text # job[p].packet.text
                              THEN "revision_recorded" ELSE "artifact_retained",
       ![job[p].out].packetDigest = job[p].packet,
       ![job[p].out].responseDigest = job[p].response,
       ![job[p].out].nextDigest = job[p].next]
  /\ End(p)
  /\ UNCHANGED <<passed, edited>>

(* A check of a revision fails, an output directory exists, an exception   *)
(* that is no ReviewFailure escapes, or the process is killed: what was    *)
(* written stays.                                                          *)
Stop(p) ==
  /\ ~At(p, "idle")
  /\ End(p)
  /\ UNCHANGED <<disk, passed, edited>>

(* External: a file of a finished review is replaced; its state is not.    *)
Edit(d, file, content) ==
  /\ Cardinality(edited) < MaxEdits
  /\ <<d, file>> \notin edited
  /\ disk[d].status \in {"failed", "requires_owner_review"}
  /\ disk' = [disk EXCEPT ![d][file] = content]
  /\ edited' = edited \cup {<<d, file>>}
  /\ UNCHANGED <<job, passed>>

Replay(p) ==
  \/ \E d \in Dirs, k \in Packets, r \in Responses, accepted \in BOOLEAN :
       BeginReplay(p, d, k, r, accepted)
  \/ SavePending(p) \/ CopyPacket(p) \/ CopyResponse(p)
  \/ Validate(p) \/ Pass(p) \/ Reject(p)

Revise(p) ==
  \/ \E d \in Dirs : BeginRevision(p, d)
  \/ ReadPacket(p) \/ ReadFeedback(p) \/ ReadResponse(p)
  \/ \E d \in Dirs : Decide(p, d)
  \/ SaveDecisions(p) \/ SaveArtifact(p) \/ RecordRevision(p)

Next ==
  \/ \E p \in Jobs : Replay(p) \/ Revise(p) \/ Stop(p)
  \/ \E d \in Dirs :
       \/ \E k \in Packets : Edit(d, "packet", k)
       \/ \E r \in Responses : Edit(d, "response", r) \/ Edit(d, "feedback", r)

Spec == Init /\ [][Next]_vars

----------------------------------------------------------------------------
(* A saved receipt is true of the files next to it, wherever another       *)
(* command was, or was killed: a finished replay holds the very bytes its  *)
(* digests name; one that awaits its owner also holds the feedback, which  *)
(* is that response and was given on that packet; a failed one has none.   *)
ReceiptTruthful ==
  \A d \in Dirs \ {e[1] : e \in edited} :
    disk[d].status \in {"failed", "requires_owner_review"} =>
      /\ disk[d].packet = disk[d].packetDigest
      /\ disk[d].response = disk[d].responseDigest
      /\ IF disk[d].status = "failed" THEN disk[d].feedback = None
         ELSE /\ disk[d].feedback = disk[d].response
              /\ disk[d].response.about = disk[d].packet
              /\ disk[d].response.sound

(* A recorded revision rests on a review that did pass as it is recorded,  *)
(* even if the saved files were edited before or while they were read; the *)
(* owner decided on each finding of that very response, and the artifact   *)
(* has another text, under another version, exactly if he accepted one.    *)
RevisionEarned ==
  \A d \in Dirs :
    disk[d].status \in {"revision_recorded", "artifact_retained"} =>
      LET from == disk[d].packetDigest
          to == disk[d].nextDigest
          owner == disk[d].decisions
          taken == {f \in DOMAIN owner.rows : owner.rows[f] = "accept"}
      IN  /\ <<from, disk[d].responseDigest>> \in passed
          /\ owner.packet = from /\ owner.response = disk[d].responseDigest
          /\ DOMAIN owner.rows = disk[d].responseDigest.findings
          /\ disk[d].artifact = to.text
          /\ to.context = from.context
          /\ IF disk[d].status = "artifact_retained"
             THEN taken = {} /\ to.text = from.text /\ to.version = from.version
             ELSE taken # {} /\ to.text # from.text /\ to.version # from.version

(* What a finished or abandoned directory holds is changed by no later     *)
(* command: a rerun into it is refused, so its bytes stay evidence.        *)
RunsAreKept ==
  [][\A d \in Dirs :
       (disk[d].status # "absent" /\ \A p \in Jobs : job[p].out # d)
         => disk'[d] = disk[d] \/ edited' # edited]_vars
=============================================================================
