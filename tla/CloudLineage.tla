---------------------------- MODULE CloudLineage ----------------------------
(***************************************************************************)
(* CloudActivation with history variables: what the pointer has been       *)
(* through, independently of the local logs.                               *)
(***************************************************************************)
EXTENDS CloudActivation

VARIABLES
  lineage,   \* releases activated and not rolled back since, oldest first
  pointed,   \* releases the pointer has named
  disturbed  \* commands have overlapped, or one failed after its pointer write

lvars == <<pointer, generation, log, local, own, lineage, pointed, disturbed>>

LInit ==
  /\ Init
  /\ lineage = <<>>
  /\ pointed = {}
  /\ disturbed = FALSE

Writes(p) == pc[p] = "pointer" /\ pc'[p] # "pointer" /\ generation' # generation

(* A rollback leaves the newest release of the lineage. *)
NextLineage ==
  lineage' = IF \E p \in Operators : Writes(p) /\ job[p] = "rollback"
             THEN IF Len(lineage) > 1 THEN Front(lineage) ELSE lineage
             ELSE IF generation' # generation THEN Append(lineage, pointer')
             ELSE lineage

FailsHalfDone(p) ==
  /\ pc'[p] = "idle"
  /\ \/ pc[p] \in {"load", "save", "link"} /\ log' = log
     \/ Writes(p)

NextDisturbed ==
  disturbed' = \/ disturbed
               \/ \E p, q \in Operators :
                    p # q /\ pc'[p] # "idle" /\ pc'[q] # "idle"
               \/ \E p \in Operators : FailsHalfDone(p)

LNext ==
  /\ Next
  /\ NextLineage
  /\ pointed' = IF generation' # generation THEN pointed \cup {pointer'} ELSE pointed
  /\ NextDisturbed

LSpec == LInit /\ [][LNext]_lvars

----------------------------------------------------------------------------
Idle == \A p \in Operators : pc[p] = "idle"

NewestOf(s) == IF s = <<>> THEN None ELSE s[Len(s)]

(* Whatever races and fails, a rollback can only be offered a release that *)
(* retrieval has served: nothing enters .history-gcs that the pointer has  *)
(* not named.                                                              *)
LoggedWasServed == \A i \in DOMAIN log : log[i] \in pointed

(* Unless commands have overlapped or one failed after its pointer write,  *)
(* the pointer, the link and the log agree once no command runs.           *)
ViewsAgree ==
  ~disturbed /\ Idle =>
    /\ log = lineage
    /\ pointer = NewestOf(lineage)
    /\ current = NewestOf(lineage)

(* "Activate the previous release by rewinding the cloud pointer": a       *)
(* rollback whose conditional write is going to succeed returns to the     *)
(* release that was active before the active one.                          *)
RollbackRewindsToPrevious ==
  \A p \in Operators :
    pc[p] = "pointer" /\ job[p] = "rollback" /\ expected[p] = generation =>
      Len(lineage) > 1 /\ target[p] = lineage[Len(lineage) - 1]

(* The same, unless commands have overlapped or one failed after its       *)
(* pointer write.                                                          *)
UndisturbedRollbackRewinds == ~disturbed => RollbackRewindsToPrevious

(* The promise to the operator, see ReleaseStack, by every step up to the  *)
(* first overlap or half-done command: even a release that is activated    *)
(* again is a new entry, and failures before the pointer write do no harm. *)
Stack == INSTANCE ReleaseStack WITH stack <- lineage, serving <- pointer

StackWhileUndisturbed ==
  [][~disturbed' => Stack!Next \/ UNCHANGED <<lineage, pointer>>]_lvars
=============================================================================
