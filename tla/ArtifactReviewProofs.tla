------------------------ MODULE ArtifactReviewProofs ------------------------
(***************************************************************************)
(* What a saved review and a recorded revision are evidence of, for any    *)
(* packets, responses, directories and number of commands at once, killed  *)
(* anywhere, and for any number of edits to the saved files: the invariant *)
(* says what a command has saved or read so far at each of its steps.      *)
(***************************************************************************)
EXTENDS ArtifactReview, TLAPS

OrNone(S) == S \cup {None}

Statuses == {"absent", "made", "pending", "failed", "requires_owner_review",
             "revision_recorded", "artifact_retained"}

CopySteps == {"savePending", "copyPacket", "copyResponse", "validate", "pass"}

ReadSteps == {"readPacket", "readFeedback", "readResponse", "decide"}

SaveSteps == {"saveDecisions", "saveArtifact", "record"}

Saved ==
  [status : Statuses,
   packetDigest : OrNone(Packets), responseDigest : OrNone(Responses),
   packet : OrNone(Packets), response : OrNone(Responses),
   feedback : OrNone(Responses), decisions : OrNone(DecisionFiles),
   artifact : OrNone({k.text : k \in Packets}), nextDigest : OrNone(Packets)]

Progress ==
  [step : {"idle"} \cup CopySteps \cup ReadSteps \cup SaveSteps,
   out : OrNone(Dirs), review : OrNone(Dirs), accepted : BOOLEAN,
   packetDigest : OrNone(Packets), responseDigest : OrNone(Responses),
   packet : OrNone(Packets), response : OrNone(Responses),
   feedback : OrNone(Responses), decisions : OrNone(DecisionFiles),
   next : OrNone(Packets)]

Types == disk \in [Dirs -> Saved] /\ job \in [Jobs -> Progress]

(* A job that writes has a directory of its own, which is not finished.    *)
Owns(p) == job[p].step \in CopySteps \cup SaveSteps

OwnDirectory ==
  /\ \A p \in Jobs :
       Owns(p) => /\ job[p].out \in Dirs
                  /\ disk[job[p].out].status \in {"made", "pending"}
  /\ \A p \in Jobs : job[p].step \in ReadSteps => job[p].review \in Dirs
  /\ \A p, q \in Jobs : Owns(p) /\ Owns(q) /\ job[p].out = job[q].out => p = q

(* What a replay has saved so far is what it has read.                     *)
Copied(p) ==
  LET j == job[p]  own == disk[j.out]
  IN  /\ j.step \in CopySteps \ {"pass"} => own.feedback = None
      /\ j.step \in CopySteps \ {"savePending"} =>
           own.packetDigest = j.packet /\ own.responseDigest = j.response
      /\ j.step \in {"copyResponse", "validate", "pass"} => own.packet = j.packet
      /\ j.step \in {"validate", "pass"} => own.response = j.response
      /\ j.step = "pass" => own.feedback = j.response /\ Passes(p)

(* The digests a revision has read are those of a review that passed; what *)
(* it has saved is what the owner decided on that review.                  *)
Decisive(p) ==
  LET j == job[p]  own == disk[j.out]
  IN  /\ j.step \in ReadSteps \cup SaveSteps =>
           <<j.packetDigest, j.responseDigest>> \in passed
      /\ j.step \in SaveSteps => 
           j.next \in Packets /\ Receipt(j) /\ Decided(j, j.decisions, j.next)
      /\ j.step \in {"saveArtifact", "record"} => own.decisions = j.decisions
      /\ j.step = "record" => own.artifact = j.next.text

(* A directory that was never made holds nothing; the state of one that    *)
(* awaits its owner names a review that passed.                            *)
Signed(d) ==
  /\ disk[d].status = "absent" => disk[d].feedback = None
  /\ disk[d].status = "requires_owner_review" =>
       <<disk[d].packetDigest, disk[d].responseDigest>> \in passed

(* ReceiptTruthful and RevisionEarned, of one directory.                   *)
Truthful(d) ==
  (\A e \in edited : e[1] # d) =>
    /\ disk[d].status \in {"failed", "requires_owner_review"} =>
         disk[d].packet = disk[d].packetDigest /\ disk[d].response = disk[d].responseDigest
    /\ disk[d].status = "failed" => disk[d].feedback = None
    /\ disk[d].status = "requires_owner_review" =>
         /\ disk[d].feedback = disk[d].response
         /\ disk[d].response.about = disk[d].packet
         /\ disk[d].response.sound

Earned(d) ==
  LET kept == disk[d]  owner == kept.decisions
  IN  kept.status \in {"revision_recorded", "artifact_retained"} =>
        /\ <<kept.packetDigest, kept.responseDigest>> \in passed
        /\ Decided([packet |-> kept.packetDigest, response |-> kept.responseDigest],
                   owner, kept.nextDigest)
        /\ kept.artifact = kept.nextDigest.text
        /\ kept.status = "revision_recorded" <=>
             kept.nextDigest.text # kept.packetDigest.text

IInv ==
  /\ Types
  /\ OwnDirectory
  /\ \A p \in Jobs : Copied(p) /\ Decisive(p)
  /\ \A d \in Dirs : Signed(d) /\ Truthful(d) /\ Earned(d)
----------------------------------------------------------------------------
LEMMA PropertiesByDirectory ==
  /\ ReceiptTruthful <=> \A d \in Dirs : Truthful(d)
  /\ (\A d \in Dirs : Earned(d)) => RevisionEarned
<1>1. ReceiptTruthful <=> \A d \in Dirs : Truthful(d)
  BY DEF ReceiptTruthful, Truthful
<1>2. (\A d \in Dirs : Earned(d)) => RevisionEarned
  BY DEF RevisionEarned, Earned, Decided, Accepted
<1> QED BY <1>1, <1>2

LEMMA InitHolds == Init => IInv
<1> SUFFICES ASSUME Init PROVE IInv
  OBVIOUS
<1>1. Types
  BY DEF Init, Types, Saved, Progress, Absent, Idle, OrNone, Statuses
<1>2. \A d \in Dirs : Signed(d) /\ Truthful(d) /\ Earned(d)
  BY DEF Init, Absent, Signed, Truthful, Earned
<1>3. OwnDirectory /\ \A p \in Jobs : Copied(p) /\ Decisive(p)
  BY DEF Init, Idle, OwnDirectory, Owns, Copied, Decisive, CopySteps, ReadSteps, SaveSteps
<1> QED BY <1>1, <1>2, <1>3 DEF IInv

(* A job whose directory and whose steps are left alone keeps what it has. *)
LEMMA JobFrame ==
  ASSUME NEW p \in Jobs, Copied(p), Decisive(p), job'[p] = job[p], passed \subseteq passed',
         Owns(p) => disk'[job[p].out] = disk[job[p].out]
  PROVE  Copied(p)' /\ Decisive(p)'
BY DEF Copied, Decisive, Owns, Passes, CopySteps, SaveSteps

(* Likewise a directory that is left alone.                                *)
LEMMA DirectoryFrame ==
  ASSUME NEW d \in Dirs, Signed(d), Truthful(d), Earned(d),
         disk'[d] = disk[d], passed \subseteq passed', edited \subseteq edited'
  PROVE  Signed(d)' /\ Truthful(d)' /\ Earned(d)'
BY DEF Signed, Truthful, Earned

----------------------------------------------------------------------------
(* What a step of a job writes has its type.                               *)
LEMMA DiskTypes ==
  ASSUME IInv, NEW p \in Jobs, Replay(p) \/ Revise(p) \/ Stop(p)
  PROVE  disk' \in [Dirs -> Saved]
<1>1. /\ disk \in [Dirs -> Saved] /\ job[p] \in Progress
      /\ Owns(p) => job[p].out \in Dirs
      /\ job[p].step \in SaveSteps => job[p].next \in Packets
  BY DEF IInv, Types, OwnDirectory, Decisive
<1>2. ASSUME UNCHANGED disk PROVE disk' \in [Dirs -> Saved]
  BY <1>1, <1>2
<1>3. ASSUME NEW d \in Dirs, NEW status \in Statuses, disk' = [disk EXCEPT ![d].status = status]
      PROVE  disk' \in [Dirs -> Saved]
  BY <1>1, <1>3 DEF Saved
<1>4. CASE SavePending(p)
  <2>1. job[p].out \in Dirs
    BY <1>1, <1>4 DEF SavePending, At, Owns, CopySteps
  <2>2. /\ job[p].packet \in OrNone(Packets) /\ job[p].response \in OrNone(Responses)
        /\ "pending" \in Statuses
    BY <1>1 DEF Progress, Statuses
  <2> DEFINE own == [disk[job[p].out] EXCEPT !.status = "pending",
                                             !.packetDigest = job[p].packet,
                                             !.responseDigest = job[p].response]
  <2>3. disk' = [disk EXCEPT ![job[p].out] = own]
    BY <1>1, <1>4, <2>1 DEF SavePending
  <2>4. own \in Saved
    BY <1>1, <2>1, <2>2 DEF Saved
  <2> HIDE DEF own
  <2> QED BY <1>1, <2>3, <2>4
<1>5. CASE CopyPacket(p)
  <2>1. job[p].out \in Dirs
    BY <1>1, <1>5 DEF CopyPacket, At, Owns, CopySteps
  <2> QED BY <1>1, <1>5, <2>1 DEF CopyPacket, Write, Saved, Progress
<1>6. CASE CopyResponse(p)
  <2>1. job[p].out \in Dirs
    BY <1>1, <1>6 DEF CopyResponse, At, Owns, CopySteps
  <2> QED BY <1>1, <1>6, <2>1 DEF CopyResponse, Write, Saved, Progress
<1>7. CASE Validate(p)
  <2>1. job[p].out \in Dirs
    BY <1>1, <1>7 DEF Validate, At, Owns, CopySteps
  <2> QED BY <1>1, <1>7, <2>1 DEF Validate, Write, Saved, Progress
<1>8. CASE Pass(p) \/ Reject(p)
  <2>1. job[p].out \in Dirs
    BY <1>1, <1>8 DEF Pass, Reject, At, Owns, CopySteps
  <2> QED BY <1>3, <1>8, <2>1 DEF Pass, Reject, Statuses
<1>9. CASE SaveDecisions(p)
  <2>1. job[p].out \in Dirs
    BY <1>1, <1>9 DEF SaveDecisions, At, Owns, SaveSteps
  <2> QED BY <1>1, <1>9, <2>1 DEF SaveDecisions, Write, Saved, Progress
<1>10. CASE SaveArtifact(p)
  <2>1. job[p].out \in Dirs /\ job[p].next \in Packets
    BY <1>1, <1>10 DEF SaveArtifact, At, Owns, SaveSteps
  <2>2. job[p].next.text \in OrNone({k.text : k \in Packets})
    BY <2>1 DEF OrNone
  <2> QED BY <1>1, <1>10, <2>1, <2>2 DEF SaveArtifact, Write, Saved
<1>11. CASE RecordRevision(p)
  <2>1. job[p].out \in Dirs
    BY <1>1, <1>11 DEF RecordRevision, At, Owns, SaveSteps
  <2>2. /\ job[p].packet \in OrNone(Packets) /\ job[p].response \in OrNone(Responses)
        /\ job[p].next \in OrNone(Packets)
        /\ {"revision_recorded", "artifact_retained"} \subseteq Statuses
    BY <1>1 DEF Progress, Statuses
  <2> DEFINE status == IF job[p].next.text # job[p].packet.text
                       THEN "revision_recorded" ELSE "artifact_retained"
  <2> DEFINE own == [disk[job[p].out] EXCEPT !.status = status,
                                             !.packetDigest = job[p].packet,
                                             !.responseDigest = job[p].response,
                                             !.nextDigest = job[p].next]
  <2>3. disk' = [disk EXCEPT ![job[p].out] = own]
    BY <1>1, <1>11, <2>1 DEF RecordRevision
  <2>4. status \in Statuses
    BY <2>2
  <2> HIDE DEF status
  <2>5. own \in Saved
    BY <1>1, <2>1, <2>2, <2>4 DEF Saved
  <2> HIDE DEF own
  <2> QED BY <1>1, <2>3, <2>5
<1>12. ASSUME NEW d \in Dirs, NEW k \in Packets, NEW r \in Responses, NEW accepted \in BOOLEAN,
              BeginReplay(p, d, k, r, accepted)
       PROVE  disk' \in [Dirs -> Saved]
  BY <1>3, <1>12 DEF BeginReplay, Statuses
<1>13. ASSUME NEW d \in Dirs, Decide(p, d)
       PROVE  disk' \in [Dirs -> Saved]
  BY <1>3, <1>13 DEF Decide, Statuses
<1>14. CASE \/ \E d \in Dirs : BeginRevision(p, d)
            \/ ReadPacket(p) \/ ReadFeedback(p) \/ ReadResponse(p) \/ Stop(p)
  BY <1>2, <1>14 DEF BeginRevision, ReadPacket, ReadFeedback, ReadResponse, Read, Stop
<1> QED
  BY <1>4, <1>5, <1>6, <1>7, <1>8, <1>9, <1>10, <1>11, <1>12, <1>13, <1>14
  DEF Replay, Revise

(* What a job has read has its type.                                       *)
LEMMA JobTypes ==
  ASSUME IInv, NEW p \in Jobs, Replay(p) \/ Revise(p) \/ Stop(p)
  PROVE  job' \in [Jobs -> Progress]
<1>1. /\ disk \in [Dirs -> Saved] /\ job \in [Jobs -> Progress]
      /\ job[p].step \in ReadSteps => job[p].review \in Dirs
  BY DEF IInv, Types, OwnDirectory
<1>2. ASSUME NEW j \in Progress, job' = [job EXCEPT ![p] = j]
      PROVE  job' \in [Jobs -> Progress]
  BY <1>1, <1>2
<1>3. Idle \in Progress
  BY DEF Idle, Progress, OrNone
<1>4. ASSUME NEW step \in CopySteps \cup ReadSteps \cup SaveSteps,
             job' = [job EXCEPT ![p].step = step]
      PROVE  job' \in [Jobs -> Progress]
  BY <1>1, <1>4 DEF Progress
<1>5. ASSUME NEW d \in Dirs, NEW k \in Packets, NEW r \in Responses, NEW accepted \in BOOLEAN,
             BeginReplay(p, d, k, r, accepted)
      PROVE  job' \in [Jobs -> Progress]
  <2>1. [Idle EXCEPT !.step = "savePending", !.out = d, !.accepted = accepted,
                     !.packet = k, !.response = r] \in Progress
    BY <1>3 DEF Progress, CopySteps, OrNone
  <2> QED BY <1>2, <1>5, <2>1 DEF BeginReplay
<1>6. CASE SavePending(p) \/ CopyPacket(p) \/ CopyResponse(p) \/ Validate(p)
           \/ SaveDecisions(p) \/ SaveArtifact(p)
  BY <1>4, <1>6 DEF SavePending, CopyPacket, CopyResponse, Validate, SaveDecisions,
    SaveArtifact, Write, CopySteps, SaveSteps
<1>7. CASE Pass(p) \/ Reject(p) \/ RecordRevision(p) \/ Stop(p)
  BY <1>2, <1>3, <1>7 DEF Pass, Reject, RecordRevision, Stop, End
<1>8. ASSUME NEW d \in Dirs, BeginRevision(p, d)
      PROVE  job' \in [Jobs -> Progress]
  <2>1. disk[d].packetDigest \in OrNone(Packets) /\ disk[d].responseDigest \in OrNone(Responses)
    BY <1>1 DEF Saved
  <2>2. [Idle EXCEPT !.step = "readPacket", !.review = d,
                     !.packetDigest = disk[d].packetDigest,
                     !.responseDigest = disk[d].responseDigest] \in Progress
    BY <1>3, <2>1 DEF Progress, ReadSteps, OrNone
  <2> QED BY <1>2, <1>8, <2>2 DEF BeginRevision
<1>9. CASE ReadPacket(p)
  <2>1. job[p].review \in Dirs
    BY <1>1, <1>9 DEF ReadPacket, At, ReadSteps
  <2>2. disk[job[p].review].packet \in OrNone(Packets)
    BY <1>1, <2>1 DEF Saved
  <2> DEFINE j == [job[p] EXCEPT !.packet = disk[job[p].review].packet, !.step = "readFeedback"]
  <2>3. job' = [job EXCEPT ![p] = j]
    BY <1>1, <1>9 DEF ReadPacket, Read
  <2>4. j \in Progress
    BY <1>1, <2>2 DEF Progress, ReadSteps
  <2> HIDE DEF j
  <2> QED BY <1>2, <2>3, <2>4
<1>10. CASE ReadFeedback(p)
  <2>1. job[p].review \in Dirs
    BY <1>1, <1>10 DEF ReadFeedback, At, ReadSteps
  <2>2. disk[job[p].review].feedback \in OrNone(Responses)
    BY <1>1, <2>1 DEF Saved
  <2> DEFINE j == [job[p] EXCEPT !.feedback = disk[job[p].review].feedback, !.step = "readResponse"]
  <2>3. job' = [job EXCEPT ![p] = j]
    BY <1>1, <1>10 DEF ReadFeedback, Read
  <2>4. j \in Progress
    BY <1>1, <2>2 DEF Progress, ReadSteps
  <2> HIDE DEF j
  <2> QED BY <1>2, <2>3, <2>4
<1>11. CASE ReadResponse(p)
  <2>1. job[p].review \in Dirs
    BY <1>1, <1>11 DEF ReadResponse, At, ReadSteps
  <2>2. disk[job[p].review].response \in OrNone(Responses)
    BY <1>1, <2>1 DEF Saved
  <2> DEFINE j == [job[p] EXCEPT !.response = disk[job[p].review].response, !.step = "decide"]
  <2>3. job' = [job EXCEPT ![p] = j]
    BY <1>1, <1>11 DEF ReadResponse, Read
  <2>4. j \in Progress
    BY <1>1, <2>2 DEF Progress, ReadSteps
  <2> HIDE DEF j
  <2> QED BY <1>2, <2>3, <2>4
<1>12. ASSUME NEW d \in Dirs, Decide(p, d)
       PROVE  job' \in [Jobs -> Progress]
  <2>1. PICK decisions \in DecisionFiles, next \in Packets :
          job' = [job EXCEPT ![p].step = "saveDecisions", ![p].out = d,
                             ![p].decisions = decisions, ![p].next = next]
    BY <1>12 DEF Decide
  <2> DEFINE j == [job[p] EXCEPT !.step = "saveDecisions", !.out = d,
                                 !.decisions = decisions, !.next = next]
  <2>2. job' = [job EXCEPT ![p] = j]
    BY <1>1, <2>1
  <2>3. j \in Progress
    BY <1>1 DEF Progress, SaveSteps, OrNone
  <2> HIDE DEF j
  <2> QED BY <1>2, <2>2, <2>3
<1> QED
  BY <1>5, <1>6, <1>7, <1>8, <1>9, <1>10, <1>11, <1>12 DEF Replay, Revise

----------------------------------------------------------------------------
(* A step of one job that changes the directories D only.                  *)
LEMMA OneJob ==
  ASSUME IInv, Types', NEW p \in Jobs, NEW D \in SUBSET Dirs,
         \A q \in Jobs \ {p} : job'[q] = job[q] /\ (Owns(q) => job[q].out \notin D),
         \A d \in Dirs \ D : disk'[d] = disk[d],
         passed \subseteq passed', edited' = edited,
         Copied(p)', Decisive(p)',
         Owns(p)' => job'[p].out \in D /\ disk'[job'[p].out].status \in {"made", "pending"},
         job'[p].step \in ReadSteps => job'[p].review \in Dirs,
         \A d \in D : Signed(d)' /\ Truthful(d)' /\ Earned(d)'
  PROVE  IInv'
<1>1. ASSUME NEW q \in Jobs PROVE Copied(q)' /\ Decisive(q)'
  <2>1. CASE q # p
    <3>1. Owns(q) => disk'[job[q].out] = disk[job[q].out]
      BY <2>1 DEF IInv, OwnDirectory
    <3> QED BY <2>1, <3>1, JobFrame DEF IInv
  <2> QED BY <2>1
<1>2. ASSUME NEW d \in Dirs PROVE Signed(d)' /\ Truthful(d)' /\ Earned(d)'
  <2>1. CASE d \notin D
    BY <2>1, DirectoryFrame DEF IInv
  <2> QED BY <2>1
<1>3. \A q \in Jobs \ {p} : Owns(q)' <=> Owns(q)
  BY DEF Owns
<1>4. \A q \in Jobs :
        Owns(q)' => job'[q].out \in Dirs /\ disk'[job'[q].out].status \in {"made", "pending"}
  BY <1>3 DEF IInv, OwnDirectory
<1>5. \A q, r \in Jobs : Owns(q)' /\ Owns(r)' /\ job'[q].out = job'[r].out => q = r
  BY <1>3 DEF IInv, OwnDirectory
<1>6. \A q \in Jobs : job'[q].step \in ReadSteps => job'[q].review \in Dirs
  BY DEF IInv, OwnDirectory
<1>7. OwnDirectory'
  BY <1>4, <1>5, <1>6 DEF OwnDirectory
<1> QED BY <1>1, <1>2, <1>7 DEF IInv

(* A directory that is being written promises nothing yet.                 *)
LEMMA Unfinished ==
  ASSUME NEW d \in Dirs, disk'[d].status \in {"made", "pending"}
  PROVE  Signed(d)' /\ Truthful(d)' /\ Earned(d)'
BY DEF Signed, Truthful, Earned

(* A job writes in its own directory and goes on, or is done.              *)
LEMMA OwnStep ==
  ASSUME IInv, Types', NEW p \in Jobs, Owns(p), NEW o, o = job[p].out,
         NEW own, NEW j, disk' = [disk EXCEPT ![o] = own], job' = [job EXCEPT ![p] = j],
         passed \subseteq passed', edited' = edited,
         Copied(p)', Decisive(p)',
         \/ /\ j.step \in CopySteps \cup SaveSteps
            /\ j.out = o /\ own.status \in {"made", "pending"}
         \/ /\ j = Idle
            /\ Signed(o)' /\ Truthful(o)' /\ Earned(o)'
  PROVE  IInv'
<1>1. /\ o \in Dirs /\ disk \in [Dirs -> Saved] /\ job \in [Jobs -> Progress]
      /\ \A q \in Jobs \ {p} : Owns(q) => job[q].out # o
  BY DEF IInv, Types, OwnDirectory
<1>2. disk'[o] = own /\ job'[p] = j
  BY <1>1
<1>3. j.step \notin ReadSteps
  BY DEF Idle, CopySteps, SaveSteps, ReadSteps
<1>4. Owns(p)' => job'[p].out = o /\ disk'[o].status \in {"made", "pending"}
  BY <1>2 DEF Owns, Idle, CopySteps, SaveSteps
<1>5. Signed(o)' /\ Truthful(o)' /\ Earned(o)'
  BY <1>1, <1>2, Unfinished
<1>6. \A q \in Jobs \ {p} : job'[q] = job[q] /\ (Owns(q) => job[q].out \notin {o})
  BY <1>1
<1>7. \A d \in Dirs \ {o} : disk'[d] = disk[d]
  BY <1>1
<1>8. \A d \in {o} : Signed(d)' /\ Truthful(d)' /\ Earned(d)'
  BY <1>5
<1>9. {o} \in SUBSET Dirs
  BY <1>1
<1>10. Owns(p)' => job'[p].out \in {o} /\ disk'[job'[p].out].status \in {"made", "pending"}
  BY <1>4
<1>11. job'[p].step \in ReadSteps => job'[p].review \in Dirs
  BY <1>2, <1>3
<1> QED BY <1>6, <1>7, <1>8, <1>9, <1>10, <1>11, OneJob

----------------------------------------------------------------------------
(* The steps of a replay. *)
LEMMA SavePendingStep ==
  ASSUME IInv, Types', NEW p \in Jobs, SavePending(p)
  PROVE  IInv'
<1>1. At(p, "savePending") /\ Owns(p) /\ Copied(p) /\ Decisive(p)
  BY DEF SavePending, At, Owns, CopySteps, IInv
<1>2. PICK o \in Dirs : o = job[p].out
  BY <1>1 DEF IInv, OwnDirectory
<1>3. /\ disk \in [Dirs -> Saved] /\ job \in [Jobs -> Progress]
      /\ disk[o].status \in {"made", "pending"}
  BY <1>1, <1>2 DEF IInv, Types, OwnDirectory
<1>4. PICK own, j :
        /\ disk' = [disk EXCEPT ![o] = own] /\ job' = [job EXCEPT ![p] = j]
        /\ own = [disk[o] EXCEPT !.status = "pending",
                                    !.packetDigest = job[p].packet,
                                    !.responseDigest = job[p].response]
        /\ j = [job[p] EXCEPT !.step = "copyPacket"]
  BY <1>2, <1>3 DEF SavePending
<1>5. disk'[o] = own /\ job'[p] = j /\ j.out = o /\ own.status \in {"made", "pending"}
  BY <1>2, <1>3, <1>4 DEF Saved, Progress
<1>6. passed \subseteq passed' /\ edited' = edited
  BY DEF SavePending
<1>7. Copied(p)'
  BY <1>1, <1>2, <1>3, <1>4, <1>5 DEF Copied, CopySteps, At, Saved, Progress
<1>8. Decisive(p)'
  BY <1>1, <1>2, <1>3, <1>4, <1>5 DEF Decisive, ReadSteps, SaveSteps, Progress
<1>9. j.step \in CopySteps
  BY <1>3, <1>4 DEF CopySteps, Progress
<1> QED BY <1>1, <1>2, <1>4, <1>5, <1>6, <1>7, <1>8, <1>9, OwnStep

LEMMA CopyPacketStep ==
  ASSUME IInv, Types', NEW p \in Jobs, CopyPacket(p)
  PROVE  IInv'
<1>1. At(p, "copyPacket") /\ Owns(p) /\ Copied(p) /\ Decisive(p)
  BY DEF CopyPacket, At, Owns, CopySteps, IInv
<1>2. PICK o \in Dirs : o = job[p].out
  BY <1>1 DEF IInv, OwnDirectory
<1>3. /\ disk \in [Dirs -> Saved] /\ job \in [Jobs -> Progress]
      /\ disk[o].status \in {"made", "pending"}
  BY <1>1, <1>2 DEF IInv, Types, OwnDirectory
<1>4. PICK own, j :
        /\ disk' = [disk EXCEPT ![o] = own] /\ job' = [job EXCEPT ![p] = j]
        /\ own = [disk[o] EXCEPT !.packet = job[p].packet]
        /\ j = [job[p] EXCEPT !.step = "copyResponse"]
  BY <1>2, <1>3 DEF CopyPacket, Write
<1>5. disk'[o] = own /\ job'[p] = j /\ j.out = o /\ own.status \in {"made", "pending"}
  BY <1>2, <1>3, <1>4 DEF Saved, Progress
<1>6. passed \subseteq passed' /\ edited' = edited
  BY DEF CopyPacket
<1>7. Copied(p)'
  BY <1>1, <1>2, <1>3, <1>4, <1>5 DEF Copied, CopySteps, At, Saved, Progress
<1>8. Decisive(p)'
  BY <1>1, <1>2, <1>3, <1>4, <1>5 DEF Decisive, ReadSteps, SaveSteps, Progress
<1>9. j.step \in CopySteps
  BY <1>3, <1>4 DEF CopySteps, Progress
<1> QED BY <1>1, <1>2, <1>4, <1>5, <1>6, <1>7, <1>8, <1>9, OwnStep

LEMMA CopyResponseStep ==
  ASSUME IInv, Types', NEW p \in Jobs, CopyResponse(p)
  PROVE  IInv'
<1>1. At(p, "copyResponse") /\ Owns(p) /\ Copied(p) /\ Decisive(p)
  BY DEF CopyResponse, At, Owns, CopySteps, IInv
<1>2. PICK o \in Dirs : o = job[p].out
  BY <1>1 DEF IInv, OwnDirectory
<1>3. /\ disk \in [Dirs -> Saved] /\ job \in [Jobs -> Progress]
      /\ disk[o].status \in {"made", "pending"}
  BY <1>1, <1>2 DEF IInv, Types, OwnDirectory
<1>4. PICK own, j :
        /\ disk' = [disk EXCEPT ![o] = own] /\ job' = [job EXCEPT ![p] = j]
        /\ own = [disk[o] EXCEPT !.response = job[p].response]
        /\ j = [job[p] EXCEPT !.step = "validate"]
  BY <1>2, <1>3 DEF CopyResponse, Write
<1>5. disk'[o] = own /\ job'[p] = j /\ j.out = o /\ own.status \in {"made", "pending"}
  BY <1>2, <1>3, <1>4 DEF Saved, Progress
<1>6. passed \subseteq passed' /\ edited' = edited
  BY DEF CopyResponse
<1>7. Copied(p)'
  BY <1>1, <1>2, <1>3, <1>4, <1>5 DEF Copied, CopySteps, At, Saved, Progress
<1>8. Decisive(p)'
  BY <1>1, <1>2, <1>3, <1>4, <1>5 DEF Decisive, ReadSteps, SaveSteps, Progress
<1>9. j.step \in CopySteps
  BY <1>3, <1>4 DEF CopySteps, Progress
<1> QED BY <1>1, <1>2, <1>4, <1>5, <1>6, <1>7, <1>8, <1>9, OwnStep

LEMMA ValidateStep ==
  ASSUME IInv, Types', NEW p \in Jobs, Validate(p)
  PROVE  IInv'
<1>1. At(p, "validate") /\ Owns(p) /\ Copied(p) /\ Decisive(p)
  BY DEF Validate, At, Owns, CopySteps, IInv
<1>2. PICK o \in Dirs : o = job[p].out
  BY <1>1 DEF IInv, OwnDirectory
<1>3. /\ disk \in [Dirs -> Saved] /\ job \in [Jobs -> Progress]
      /\ disk[o].status \in {"made", "pending"}
  BY <1>1, <1>2 DEF IInv, Types, OwnDirectory
<1>4. PICK own, j :
        /\ disk' = [disk EXCEPT ![o] = own] /\ job' = [job EXCEPT ![p] = j]
        /\ own = [disk[o] EXCEPT !.feedback = job[p].response]
        /\ j = [job[p] EXCEPT !.step = "pass"]
  BY <1>2, <1>3 DEF Validate, Write
<1>5. disk'[o] = own /\ job'[p] = j /\ j.out = o /\ own.status \in {"made", "pending"}
  BY <1>2, <1>3, <1>4 DEF Saved, Progress
<1>6. passed \subseteq passed' /\ edited' = edited
  BY DEF Validate
<1>7. Copied(p)'
  BY <1>1, <1>2, <1>3, <1>4, <1>5 DEF Copied, CopySteps, At, Saved, Progress, Validate, Passes
<1>8. Decisive(p)'
  BY <1>1, <1>2, <1>3, <1>4, <1>5 DEF Decisive, ReadSteps, SaveSteps, Progress
<1>9. j.step \in CopySteps
  BY <1>3, <1>4 DEF CopySteps, Progress
<1> QED BY <1>1, <1>2, <1>4, <1>5, <1>6, <1>7, <1>8, <1>9, OwnStep

(* The steps of a revision. *)
LEMMA SaveDecisionsStep ==
  ASSUME IInv, Types', NEW p \in Jobs, SaveDecisions(p)
  PROVE  IInv'
<1>1. At(p, "saveDecisions") /\ Owns(p) /\ Copied(p) /\ Decisive(p)
  BY DEF SaveDecisions, At, Owns, SaveSteps, IInv
<1>2. PICK o \in Dirs : o = job[p].out
  BY <1>1 DEF IInv, OwnDirectory
<1>3. /\ disk \in [Dirs -> Saved] /\ job \in [Jobs -> Progress]
      /\ disk[o].status \in {"made", "pending"}
  BY <1>1, <1>2 DEF IInv, Types, OwnDirectory
<1>4. PICK own, j :
        /\ disk' = [disk EXCEPT ![o] = own] /\ job' = [job EXCEPT ![p] = j]
        /\ own = [disk[o] EXCEPT !.decisions = job[p].decisions]
        /\ j = [job[p] EXCEPT !.step = "saveArtifact"]
  BY <1>2, <1>3 DEF SaveDecisions, Write
<1>5. disk'[o] = own /\ job'[p] = j /\ j.out = o /\ own.status \in {"made", "pending"}
  BY <1>2, <1>3, <1>4 DEF Saved, Progress
<1>6. passed \subseteq passed' /\ edited' = edited
  BY DEF SaveDecisions
<1>7. Copied(p)'
  BY <1>1, <1>2, <1>3, <1>4, <1>5 DEF Copied, CopySteps, Progress
<1>8. Decisive(p)'
  <2>1. /\ job[p].next \in Packets /\ Receipt(job[p])
        /\ Decided(job[p], job[p].decisions, job[p].next)
        /\ <<job[p].packetDigest, job[p].responseDigest>> \in passed
    BY <1>1 DEF Decisive, At, SaveSteps
  <2>2. /\ j.next = job[p].next /\ j.decisions = job[p].decisions
        /\ j.packet = job[p].packet /\ j.response = job[p].response
        /\ j.feedback = job[p].feedback
        /\ j.packetDigest = job[p].packetDigest /\ j.responseDigest = job[p].responseDigest
    BY <1>3, <1>4 DEF Progress
  <2>3. Receipt(j) /\ Decided(j, j.decisions, j.next)
    BY <2>1, <2>2 DEF Receipt, Decided
  <2> QED
    BY <1>1, <1>3, <1>4, <1>5, <1>6, <2>1, <2>2, <2>3
    DEF Decisive, At, Saved, Progress, ReadSteps, SaveSteps
<1>9. j.step \in SaveSteps
  BY <1>3, <1>4 DEF SaveSteps, Progress
<1> QED BY <1>1, <1>2, <1>4, <1>5, <1>6, <1>7, <1>8, <1>9, OwnStep

LEMMA SaveArtifactStep ==
  ASSUME IInv, Types', NEW p \in Jobs, SaveArtifact(p)
  PROVE  IInv'
<1>1. At(p, "saveArtifact") /\ Owns(p) /\ Copied(p) /\ Decisive(p)
  BY DEF SaveArtifact, At, Owns, SaveSteps, IInv
<1>2. PICK o \in Dirs : o = job[p].out
  BY <1>1 DEF IInv, OwnDirectory
<1>3. /\ disk \in [Dirs -> Saved] /\ job \in [Jobs -> Progress]
      /\ disk[o].status \in {"made", "pending"}
  BY <1>1, <1>2 DEF IInv, Types, OwnDirectory
<1>4. PICK own, j :
        /\ disk' = [disk EXCEPT ![o] = own] /\ job' = [job EXCEPT ![p] = j]
        /\ own = [disk[o] EXCEPT !.artifact = job[p].next.text]
        /\ j = [job[p] EXCEPT !.step = "record"]
  BY <1>2, <1>3 DEF SaveArtifact, Write
<1>5. disk'[o] = own /\ job'[p] = j /\ j.out = o /\ own.status \in {"made", "pending"}
  BY <1>2, <1>3, <1>4 DEF Saved, Progress
<1>6. passed \subseteq passed' /\ edited' = edited
  BY DEF SaveArtifact
<1>7. Copied(p)'
  BY <1>1, <1>2, <1>3, <1>4, <1>5 DEF Copied, CopySteps, Progress
<1>8. Decisive(p)'
  <2>1. /\ job[p].next \in Packets /\ Receipt(job[p])
        /\ Decided(job[p], job[p].decisions, job[p].next)
        /\ <<job[p].packetDigest, job[p].responseDigest>> \in passed
    BY <1>1 DEF Decisive, At, SaveSteps
  <2>2. /\ j.next = job[p].next /\ j.decisions = job[p].decisions
        /\ j.packet = job[p].packet /\ j.response = job[p].response
        /\ j.feedback = job[p].feedback
        /\ j.packetDigest = job[p].packetDigest /\ j.responseDigest = job[p].responseDigest
    BY <1>3, <1>4 DEF Progress
  <2>3. Receipt(j) /\ Decided(j, j.decisions, j.next)
    BY <2>1, <2>2 DEF Receipt, Decided
  <2> QED
    BY <1>1, <1>3, <1>4, <1>5, <1>6, <2>1, <2>2, <2>3
    DEF Decisive, At, Saved, Progress, ReadSteps, SaveSteps
<1>9. j.step \in SaveSteps
  BY <1>3, <1>4 DEF SaveSteps, Progress
<1> QED BY <1>1, <1>2, <1>4, <1>5, <1>6, <1>7, <1>8, <1>9, OwnStep

(* A job that is done, or was killed, promises nothing more.               *)
LEMMA IdleJob ==
  ASSUME NEW p \in Jobs, job'[p] = Idle
  PROVE  Copied(p)' /\ Decisive(p)' /\ ~Owns(p)' /\ job'[p].step \notin ReadSteps
BY DEF Idle, Copied, Decisive, Owns, CopySteps, ReadSteps, SaveSteps

(* A replay ends: what it saved is what its state names.                   *)
LEMMA PassStep ==
  ASSUME IInv, Types', NEW p \in Jobs, Pass(p)
  PROVE  IInv'
<1>1. At(p, "pass") /\ Owns(p) /\ Copied(p)
  BY DEF Pass, At, Owns, CopySteps, IInv
<1>2. PICK o \in Dirs : o = job[p].out
  BY <1>1 DEF IInv, OwnDirectory
<1>3. disk \in [Dirs -> Saved] /\ job \in [Jobs -> Progress]
  BY DEF IInv, Types
<1>4. PICK own :
        /\ disk' = [disk EXCEPT ![o] = own] /\ job' = [job EXCEPT ![p] = Idle]
        /\ own = [disk[o] EXCEPT !.status = "requires_owner_review"]
        /\ passed' = passed \cup {<<job[p].packet, job[p].response>>} /\ edited' = edited
  BY <1>2, <1>3 DEF Pass, End
<1>5. disk'[o] = own /\ job'[p] = Idle
  BY <1>3, <1>4
<1>6. /\ own.status = "requires_owner_review"
      /\ own.packetDigest = job[p].packet /\ own.responseDigest = job[p].response
      /\ own.packet = job[p].packet /\ own.response = job[p].response
      /\ own.feedback = job[p].response
      /\ job[p].response.sound /\ job[p].response.about = job[p].packet
  BY <1>1, <1>2, <1>3, <1>4 DEF Copied, At, CopySteps, Passes, ValidReview, Saved
<1>7. <<own.packetDigest, own.responseDigest>> \in passed'
  BY <1>4, <1>6
<1>8. Signed(o)' /\ Truthful(o)' /\ Earned(o)'
  BY <1>5, <1>6, <1>7 DEF Signed, Truthful, Earned
<1>9. Copied(p)' /\ Decisive(p)'
  BY <1>5, IdleJob
<1> QED BY <1>1, <1>2, <1>4, <1>8, <1>9, OwnStep

LEMMA RejectStep ==
  ASSUME IInv, Types', NEW p \in Jobs, Reject(p)
  PROVE  IInv'
<1>1. At(p, "validate") /\ Owns(p) /\ Copied(p)
  BY DEF Reject, At, Owns, CopySteps, IInv
<1>2. PICK o \in Dirs : o = job[p].out
  BY <1>1 DEF IInv, OwnDirectory
<1>3. disk \in [Dirs -> Saved] /\ job \in [Jobs -> Progress]
  BY DEF IInv, Types
<1>4. PICK own :
        /\ disk' = [disk EXCEPT ![o] = own] /\ job' = [job EXCEPT ![p] = Idle]
        /\ own = [disk[o] EXCEPT !.status = "failed"]
        /\ passed' = passed /\ edited' = edited
  BY <1>2, <1>3 DEF Reject, End
<1>5. disk'[o] = own /\ job'[p] = Idle
  BY <1>3, <1>4
<1>6. /\ own.status = "failed" /\ own.feedback = None
      /\ own.packet = own.packetDigest /\ own.response = own.responseDigest
  BY <1>1, <1>2, <1>3, <1>4 DEF Copied, At, CopySteps, Saved
<1>7. Signed(o)' /\ Truthful(o)' /\ Earned(o)'
  BY <1>5, <1>6 DEF Signed, Truthful, Earned
<1>8. Copied(p)' /\ Decisive(p)'
  BY <1>5, IdleJob
<1> QED BY <1>1, <1>2, <1>4, <1>7, <1>8, OwnStep

(* A revision is recorded: the receipt it has checked says that the copies *)
(* it worked on are those of the review that passed.                       *)
LEMMA RecordRevisionStep ==
  ASSUME IInv, Types', NEW p \in Jobs, RecordRevision(p)
  PROVE  IInv'
<1>1. At(p, "record") /\ Owns(p) /\ Decisive(p)
  BY DEF RecordRevision, At, Owns, SaveSteps, IInv
<1>2. PICK o \in Dirs : o = job[p].out
  BY <1>1 DEF IInv, OwnDirectory
<1>3. disk \in [Dirs -> Saved] /\ job \in [Jobs -> Progress]
  BY DEF IInv, Types
<1>4. PICK own, status :
        /\ disk' = [disk EXCEPT ![o] = own] /\ job' = [job EXCEPT ![p] = Idle]
        /\ own = [disk[o] EXCEPT !.status = status,
                                 !.packetDigest = job[p].packet,
                                 !.responseDigest = job[p].response,
                                 !.nextDigest = job[p].next]
        /\ status = IF job[p].next.text # job[p].packet.text
                    THEN "revision_recorded" ELSE "artifact_retained"
        /\ passed' = passed /\ edited' = edited
  BY <1>2, <1>3 DEF RecordRevision, End
<1>5. disk'[o] = own /\ job'[p] = Idle
  BY <1>3, <1>4
<1>6. /\ own.status = status
      /\ own.packetDigest = job[p].packet /\ own.responseDigest = job[p].response
      /\ own.nextDigest = job[p].next
      /\ own.decisions = disk[o].decisions /\ own.artifact = disk[o].artifact
  BY <1>2, <1>3, <1>4 DEF Saved
<1>7. /\ <<job[p].packetDigest, job[p].responseDigest>> \in passed
      /\ Receipt(job[p]) /\ Decided(job[p], job[p].decisions, job[p].next)
      /\ disk[o].decisions = job[p].decisions /\ disk[o].artifact = job[p].next.text
  BY <1>1, <1>2 DEF Decisive, At, SaveSteps
<1>8. <<job[p].packet, job[p].response>> \in passed
  BY <1>7 DEF Receipt
<1>9. Decided([packet |-> job[p].packet, response |-> job[p].response],
              job[p].decisions, job[p].next)
  BY <1>7 DEF Decided
<1>10. /\ own.status \in {"revision_recorded", "artifact_retained"}
       /\ own.status = "revision_recorded" <=> own.nextDigest.text # own.packetDigest.text
       /\ <<own.packetDigest, own.responseDigest>> \in passed'
  BY <1>4, <1>6, <1>8
<1>11. /\ Decided([packet |-> own.packetDigest, response |-> own.responseDigest],
                  own.decisions, own.nextDigest)
       /\ own.artifact = own.nextDigest.text
  BY <1>6, <1>7, <1>9
<1>12. Earned(o)'
  BY <1>5, <1>10, <1>11 DEF Earned
<1>13. Signed(o)' /\ Truthful(o)'
  BY <1>5, <1>10 DEF Signed, Truthful
<1>14. Copied(p)' /\ Decisive(p)'
  BY <1>5, IdleJob
<1> QED BY <1>1, <1>2, <1>4, <1>12, <1>13, <1>14, OwnStep

(* A step of one job that saves nothing.                                   *)
LEMMA SilentStep ==
  ASSUME IInv, Types', NEW p \in Jobs, NEW j, job' = [job EXCEPT ![p] = j],
         UNCHANGED <<disk, passed, edited>>,
         Copied(p)', Decisive(p)', ~Owns(p)',
         j.step \in ReadSteps => j.review \in Dirs
  PROVE  IInv'
<1> DEFINE D == {}
<1>1. /\ \A q \in Jobs \ {p} : job'[q] = job[q] /\ (Owns(q) => job[q].out \notin D)
      /\ \A d \in Dirs \ D : disk'[d] = disk[d]
      /\ job'[p] = j
  BY DEF IInv, Types
<1>2. D \in SUBSET Dirs /\ \A d \in D : Signed(d)' /\ Truthful(d)' /\ Earned(d)'
  OBVIOUS
<1> HIDE DEF D
<1> QED BY <1>1, <1>2, OneJob

(* A job is killed.                                                        *)
LEMMA StopStep ==
  ASSUME IInv, Types', NEW p \in Jobs, Stop(p)
  PROVE  IInv'
<1>1. job' = [job EXCEPT ![p] = Idle] /\ UNCHANGED <<disk, passed, edited>>
  BY DEF Stop, End
<1>2. job'[p] = Idle
  BY <1>1 DEF IInv, Types
<1>3. Idle.step \notin ReadSteps
  BY DEF Idle, ReadSteps
<1> QED BY <1>1, <1>2, <1>3, IdleJob, SilentStep

(* A directory that does not exist yet is nobody's.                        *)
LEMMA NobodyHas ==
  ASSUME IInv, NEW d \in Dirs, NewDirectory(d)
  PROVE  \A q \in Jobs : Owns(q) => job[q].out \notin {d}
BY DEF IInv, OwnDirectory, NewDirectory

LEMMA BeginReplayStep ==
  ASSUME IInv, Types', NEW p \in Jobs, NEW d \in Dirs, NEW k \in Packets, NEW r \in Responses,
         NEW accepted \in BOOLEAN, BeginReplay(p, d, k, r, accepted)
  PROVE  IInv'
<1>1. disk \in [Dirs -> Saved] /\ job \in [Jobs -> Progress]
  BY DEF IInv, Types
<1>2. PICK own, j :
        /\ disk' = [disk EXCEPT ![d] = own] /\ job' = [job EXCEPT ![p] = j]
        /\ own = [disk[d] EXCEPT !.status = "made"]
        /\ j = [Idle EXCEPT !.step = "savePending", !.out = d, !.accepted = accepted,
                            !.packet = k, !.response = r]
  BY <1>1 DEF BeginReplay
<1>3. /\ NewDirectory(d) /\ passed' = passed /\ edited' = edited
      /\ disk[d].feedback = None
  BY DEF BeginReplay, NewDirectory, IInv, Signed
<1>4. /\ \A q \in Jobs \ {p} : job'[q] = job[q] /\ (Owns(q) => job[q].out \notin {d})
      /\ \A e \in Dirs \ {d} : disk'[e] = disk[e]
      /\ disk'[d] = own /\ job'[p] = j
  BY <1>1, <1>2, <1>3, NobodyHas
<1>5. /\ own.status = "made" /\ own.feedback = None
      /\ j.step = "savePending" /\ j.out = d
  BY <1>1, <1>2, <1>3 DEF Saved, Idle
<1>6. Copied(p)' /\ Decisive(p)'
  BY <1>4, <1>5 DEF Copied, Decisive, CopySteps, ReadSteps, SaveSteps
<1>7. \A e \in {d} : Signed(e)' /\ Truthful(e)' /\ Earned(e)'
  BY <1>4, <1>5, Unfinished
<1>8. job'[p].out \in {d} /\ disk'[job'[p].out].status \in {"made", "pending"}
  BY <1>4, <1>5
<1>9. job'[p].step \notin ReadSteps
  BY <1>4, <1>5 DEF ReadSteps
<1>10. {d} \in SUBSET Dirs
  OBVIOUS
<1> QED BY <1>3, <1>4, <1>6, <1>7, <1>8, <1>9, <1>10, OneJob

(* The owner's decisions are accepted for the review as it was read.       *)
LEMMA DecideStep ==
  ASSUME IInv, Types', NEW p \in Jobs, NEW d \in Dirs, Decide(p, d)
  PROVE  IInv'
<1>1. disk \in [Dirs -> Saved] /\ job \in [Jobs -> Progress]
  BY DEF IInv, Types
<1>2. PICK decisions \in DecisionFiles, next \in Packets :
        /\ Decided(job[p], decisions, next)
        /\ job' = [job EXCEPT ![p].step = "saveDecisions", ![p].out = d,
                              ![p].decisions = decisions, ![p].next = next]
  BY DEF Decide
<1>3. PICK own, j :
        /\ disk' = [disk EXCEPT ![d] = own] /\ job' = [job EXCEPT ![p] = j]
        /\ own = [disk[d] EXCEPT !.status = "made"]
        /\ j = [job[p] EXCEPT !.step = "saveDecisions", !.out = d,
                              !.decisions = decisions, !.next = next]
  BY <1>1, <1>2 DEF Decide
<1>4. /\ NewDirectory(d) /\ passed' = passed /\ edited' = edited
      /\ Receipt(job[p])
      /\ <<job[p].packetDigest, job[p].responseDigest>> \in passed
  BY DEF Decide, At, IInv, Decisive, ReadSteps
<1>5. /\ \A q \in Jobs \ {p} : job'[q] = job[q] /\ (Owns(q) => job[q].out \notin {d})
      /\ \A e \in Dirs \ {d} : disk'[e] = disk[e]
      /\ disk'[d] = own /\ job'[p] = j
  BY <1>1, <1>3, <1>4, NobodyHas
<1>6. /\ own.status = "made"
      /\ j.step = "saveDecisions" /\ j.out = d /\ j.next = next /\ j.decisions = decisions
      /\ j.packet = job[p].packet /\ j.response = job[p].response
      /\ j.feedback = job[p].feedback
      /\ j.packetDigest = job[p].packetDigest /\ j.responseDigest = job[p].responseDigest
  BY <1>1, <1>3 DEF Saved, Progress
<1>7. j.next \in Packets /\ Receipt(j) /\ Decided(j, j.decisions, j.next)
  BY <1>2, <1>4, <1>6 DEF Receipt, Decided
<1>8. Copied(p)' /\ Decisive(p)'
  BY <1>4, <1>5, <1>6, <1>7 DEF Copied, Decisive, CopySteps, ReadSteps, SaveSteps
<1>9. \A e \in {d} : Signed(e)' /\ Truthful(e)' /\ Earned(e)'
  BY <1>5, <1>6, Unfinished
<1>10. job'[p].out \in {d} /\ disk'[job'[p].out].status \in {"made", "pending"}
  BY <1>5, <1>6
<1>11. job'[p].step \notin ReadSteps
  BY <1>5, <1>6 DEF ReadSteps
<1>12. {d} \in SUBSET Dirs
  OBVIOUS
<1> QED BY <1>4, <1>5, <1>8, <1>9, <1>10, <1>11, <1>12, OneJob

(* A step that only reads.                                                 *)
LEMMA ReadingStep ==
  ASSUME IInv, Types', NEW p \in Jobs, NEW j, job' = [job EXCEPT ![p] = j],
         UNCHANGED <<disk, passed, edited>>,
         j.step \in ReadSteps, j.review \in Dirs,
         <<j.packetDigest, j.responseDigest>> \in passed
  PROVE  IInv'
<1>1. job'[p] = j
  BY DEF IInv, Types
<1>2. ~Owns(p)'
  BY <1>1 DEF Owns, CopySteps, ReadSteps, SaveSteps
<1>3. Copied(p)' /\ Decisive(p)'
  BY <1>1 DEF Copied, Decisive, CopySteps, ReadSteps, SaveSteps
<1> QED BY <1>2, <1>3, SilentStep

LEMMA BeginRevisionStep ==
  ASSUME IInv, Types', NEW p \in Jobs, NEW d \in Dirs, BeginRevision(p, d)
  PROVE  IInv'
<1>1. PICK j :
        /\ job' = [job EXCEPT ![p] = j]
        /\ j = [Idle EXCEPT !.step = "readPacket", !.review = d,
                            !.packetDigest = disk[d].packetDigest,
                            !.responseDigest = disk[d].responseDigest]
  BY DEF BeginRevision
<1>2. <<disk[d].packetDigest, disk[d].responseDigest>> \in passed
  BY DEF BeginRevision, IInv, Signed
<1>3. /\ j.step \in ReadSteps /\ j.review = d
      /\ j.packetDigest = disk[d].packetDigest /\ j.responseDigest = disk[d].responseDigest
  BY <1>1 DEF ReadSteps, Idle
<1>4. UNCHANGED <<disk, passed, edited>>
  BY DEF BeginRevision
<1> QED BY <1>1, <1>2, <1>3, <1>4, ReadingStep

LEMMA ReadStep ==
  ASSUME IInv, Types', NEW p \in Jobs, ReadPacket(p) \/ ReadFeedback(p) \/ ReadResponse(p)
  PROVE  IInv'
<1>1. /\ job \in [Jobs -> Progress] /\ job[p].review \in Dirs
      /\ <<job[p].packetDigest, job[p].responseDigest>> \in passed
  BY DEF ReadPacket, ReadFeedback, ReadResponse, At, IInv, Types, OwnDirectory, Decisive, ReadSteps
<1>2. PICK j :
        /\ job' = [job EXCEPT ![p] = j]
        /\ j.step \in {"readFeedback", "readResponse", "decide"}
        /\ j.review = job[p].review
        /\ j.packetDigest = job[p].packetDigest /\ j.responseDigest = job[p].responseDigest
  <2>1. CASE ReadPacket(p)
    <3>1. PICK j :
            /\ job' = [job EXCEPT ![p] = j]
            /\ j = [job[p] EXCEPT !.packet = disk[job[p].review].packet, !.step = "readFeedback"]
      BY <1>1, <2>1 DEF ReadPacket, Read
    <3>2. /\ j.step = "readFeedback" /\ j.review = job[p].review
          /\ j.packetDigest = job[p].packetDigest
          /\ j.responseDigest = job[p].responseDigest
      BY <1>1, <3>1 DEF Progress
    <3> QED BY <3>1, <3>2
  <2>2. CASE ReadFeedback(p)
    <3>1. PICK j :
            /\ job' = [job EXCEPT ![p] = j]
            /\ j = [job[p] EXCEPT !.feedback = disk[job[p].review].feedback, !.step = "readResponse"]
      BY <1>1, <2>2 DEF ReadFeedback, Read
    <3>2. /\ j.step = "readResponse" /\ j.review = job[p].review
          /\ j.packetDigest = job[p].packetDigest
          /\ j.responseDigest = job[p].responseDigest
      BY <1>1, <3>1 DEF Progress
    <3> QED BY <3>1, <3>2
  <2>3. CASE ReadResponse(p)
    <3>1. PICK j :
            /\ job' = [job EXCEPT ![p] = j]
            /\ j = [job[p] EXCEPT !.response = disk[job[p].review].response, !.step = "decide"]
      BY <1>1, <2>3 DEF ReadResponse, Read
    <3>2. /\ j.step = "decide" /\ j.review = job[p].review
          /\ j.packetDigest = job[p].packetDigest
          /\ j.responseDigest = job[p].responseDigest
      BY <1>1, <3>1 DEF Progress
    <3> QED BY <3>1, <3>2
  <2> QED BY <2>1, <2>2, <2>3
<1>3. j.step \in ReadSteps
  BY <1>2 DEF ReadSteps
<1>4. UNCHANGED <<disk, passed, edited>>
  BY DEF ReadPacket, ReadFeedback, ReadResponse, Read
<1> QED BY <1>1, <1>2, <1>3, <1>4, ReadingStep

----------------------------------------------------------------------------
(* An edited file changes neither a state nor a digest, and no file of a   *)
(* directory that is still being written.                                  *)
LEMMA EditStep ==
  ASSUME IInv, NEW d \in Dirs,
         \/ \E k \in Packets : Edit(d, "packet", k)
         \/ \E r \in Responses : Edit(d, "response", r) \/ Edit(d, "feedback", r)
  PROVE  IInv'
<1>1. /\ disk \in [Dirs -> Saved] /\ job \in [Jobs -> Progress]
  BY DEF IInv, Types
<1>2. PICK own \in Saved :
        /\ disk' = [disk EXCEPT ![d] = own]
        /\ own.status = disk[d].status /\ own.packetDigest = disk[d].packetDigest
        /\ own.responseDigest = disk[d].responseDigest
  <2>1. ASSUME NEW k \in Packets, Edit(d, "packet", k)
        PROVE  \E own \in Saved :
                 /\ disk' = [disk EXCEPT ![d] = own]
                 /\ own.status = disk[d].status /\ own.packetDigest = disk[d].packetDigest
                 /\ own.responseDigest = disk[d].responseDigest
    <3>1. PICK own :
            disk' = [disk EXCEPT ![d] = own] /\ own = [disk[d] EXCEPT !.packet = k]
      BY <1>1, <2>1 DEF Edit
    <3>2. own \in Saved
      BY <1>1, <3>1 DEF Saved, OrNone
    <3> QED BY <1>1, <3>1, <3>2 DEF Saved
  <2>2. ASSUME NEW r \in Responses, Edit(d, "response", r)
        PROVE  \E own \in Saved :
                 /\ disk' = [disk EXCEPT ![d] = own]
                 /\ own.status = disk[d].status /\ own.packetDigest = disk[d].packetDigest
                 /\ own.responseDigest = disk[d].responseDigest
    <3>1. PICK own :
            disk' = [disk EXCEPT ![d] = own] /\ own = [disk[d] EXCEPT !.response = r]
      BY <1>1, <2>2 DEF Edit
    <3>2. own \in Saved
      BY <1>1, <3>1 DEF Saved, OrNone
    <3> QED BY <1>1, <3>1, <3>2 DEF Saved
  <2>3. ASSUME NEW r \in Responses, Edit(d, "feedback", r)
        PROVE  \E own \in Saved :
                 /\ disk' = [disk EXCEPT ![d] = own]
                 /\ own.status = disk[d].status /\ own.packetDigest = disk[d].packetDigest
                 /\ own.responseDigest = disk[d].responseDigest
    <3>1. PICK own :
            disk' = [disk EXCEPT ![d] = own] /\ own = [disk[d] EXCEPT !.feedback = r]
      BY <1>1, <2>3 DEF Edit
    <3>2. own \in Saved
      BY <1>1, <3>1 DEF Saved, OrNone
    <3> QED BY <1>1, <3>1, <3>2 DEF Saved
  <2> QED BY <2>1, <2>2, <2>3
<1>3. /\ disk[d].status \in {"failed", "requires_owner_review"}
      /\ UNCHANGED <<job, passed>>
      /\ edited \subseteq edited'
      /\ \E e \in edited' : e[1] = d
  BY DEF Edit
<1>4. disk'[d] = own /\ \A e \in Dirs \ {d} : disk'[e] = disk[e]
  BY <1>1, <1>2
<1>5. Types'
  BY <1>1, <1>2, <1>3 DEF Types
<1>6. \A p \in Jobs : Owns(p) => job[p].out \in Dirs \ {d}
  BY <1>3 DEF IInv, OwnDirectory
<1>7. OwnDirectory'
  <2>1. \A p \in Jobs : Owns(p)' <=> Owns(p)
    BY <1>3 DEF Owns
  <2> QED BY <1>3, <1>4, <1>6, <2>1 DEF IInv, OwnDirectory
<1>8. \A p \in Jobs : Copied(p)' /\ Decisive(p)'
  BY <1>3, <1>4, <1>6, JobFrame DEF IInv
<1>9. ASSUME NEW e \in Dirs PROVE Signed(e)' /\ Truthful(e)' /\ Earned(e)'
  <2>1. CASE e # d
    BY <1>3, <1>4, <2>1, DirectoryFrame DEF IInv
  <2>2. CASE e = d
    <3>1. Signed(d)'
      BY <1>2, <1>3, <1>4 DEF IInv, Signed
    <3>2. Truthful(d)'
      BY <1>3 DEF Truthful
    <3>3. Earned(d)'
      BY <1>2, <1>3, <1>4 DEF Earned
    <3> QED BY <2>2, <3>1, <3>2, <3>3
  <2> QED BY <2>1, <2>2
<1> QED BY <1>5, <1>7, <1>8, <1>9 DEF IInv

(* Every step keeps the invariant.                                         *)
LEMMA StepKeepsIInv == IInv /\ [Next]_vars => IInv'
<1> SUFFICES ASSUME IInv, [Next]_vars PROVE IInv'
  OBVIOUS
<1>1. ASSUME NEW p \in Jobs, Replay(p) \/ Revise(p) \/ Stop(p) PROVE IInv'
  <2>1. Types'
    BY <1>1, DiskTypes, JobTypes DEF Types
  <2>2. CASE Replay(p)
    BY <2>1, <2>2, BeginReplayStep, SavePendingStep, CopyPacketStep, CopyResponseStep,
      ValidateStep, PassStep, RejectStep DEF Replay
  <2>3. CASE Revise(p)
    BY <2>1, <2>3, BeginRevisionStep, ReadStep, DecideStep, SaveDecisionsStep,
      SaveArtifactStep, RecordRevisionStep DEF Revise
  <2>4. CASE Stop(p)
    BY <2>1, <2>4, StopStep
  <2> QED BY <1>1, <2>2, <2>3, <2>4
<1>2. CASE UNCHANGED vars
  <2>1. UNCHANGED <<disk, job, passed, edited>>
    BY <1>2 DEF vars
  <2>2. Types' /\ OwnDirectory'
    BY <2>1 DEF IInv, Types, OwnDirectory, Owns
  <2>3. \A p \in Jobs : Copied(p)' /\ Decisive(p)'
    BY <2>1, JobFrame DEF IInv
  <2>4. \A d \in Dirs : Signed(d)' /\ Truthful(d)' /\ Earned(d)'
    BY <2>1, DirectoryFrame DEF IInv
  <2> QED BY <2>2, <2>3, <2>4 DEF IInv
<1> QED BY <1>1, <1>2, EditStep DEF Next

LEMMA IInvAlways == Spec => []IInv
BY InitHolds, StepKeepsIInv, PTL DEF Spec

(* Whichever commands run at once and are killed, a saved receipt is true  *)
(* of the files next to it, until somebody edits one of them.              *)
THEOREM ReceiptsAreTruthful == Spec => []ReceiptTruthful
<1>1. IInv => ReceiptTruthful
  BY PropertiesByDirectory DEF IInv
<1> QED BY IInvAlways, <1>1, PTL

(* However the saved files were edited before or while they were read, a   *)
(* recorded revision rests on a review that passed, and on the owner's     *)
(* decision on each of its findings.                                       *)
THEOREM RevisionsAreEarned == Spec => []RevisionEarned
<1>1. IInv => RevisionEarned
  BY PropertiesByDirectory DEF IInv
<1> QED BY IInvAlways, <1>1, PTL

(* A directory that no command is writing is changed by none: what a run   *)
(* has left stays as it is, whether it finished or was killed.             *)
THEOREM AbandonedRunsAreKept == Spec => RunsAreKept
<1>1. ASSUME IInv, [Next]_vars, NEW d \in Dirs, disk[d].status # "absent",
             \A p \in Jobs : job[p].out # d
      PROVE  disk'[d] = disk[d] \/ edited' # edited
  <2>1. disk \in [Dirs -> Saved]
    BY <1>1 DEF IInv, Types
  <2>2. ASSUME NEW p \in Jobs, Replay(p) PROVE disk'[d] = disk[d]
    BY <1>1, <2>1, <2>2 DEF Replay, BeginReplay, NewDirectory, SavePending, CopyPacket,
      CopyResponse, Validate, Pass, Reject, Write
  <2>3. ASSUME NEW p \in Jobs, Revise(p) PROVE disk'[d] = disk[d]
    BY <1>1, <2>1, <2>3 DEF Revise, BeginRevision, ReadPacket, ReadFeedback, ReadResponse,
      Read, Decide, NewDirectory, SaveDecisions, SaveArtifact, RecordRevision, Write
  <2>4. ASSUME NEW p \in Jobs, Stop(p) PROVE disk'[d] = disk[d]
    BY <2>4 DEF Stop
  <2>5. ASSUME NEW e \in Dirs, NEW file, NEW content, Edit(e, file, content)
        PROVE  edited' # edited
    BY <2>5 DEF Edit
  <2>6. CASE UNCHANGED vars
    BY <2>6 DEF vars
  <2> QED BY <1>1, <2>2, <2>3, <2>4, <2>5, <2>6 DEF Next
<1>2. IInv /\ [Next]_vars =>
        [\A d \in Dirs :
           (disk[d].status # "absent" /\ \A p \in Jobs : job[p].out # d)
             => disk'[d] = disk[d] \/ edited' # edited]_vars
  BY <1>1
<1> QED BY IInvAlways, <1>2, PTL DEF Spec, RunsAreKept
=============================================================================
