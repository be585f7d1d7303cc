------------------------- MODULE ReleaseActivation -------------------------
(***************************************************************************)
(* Local activation of knowledge releases: `activate` and `rollback` of    *)
(* nora.jobs without a cloud pointer, and the release that retrieval       *)
(* serves as a result.                                                     *)
(*                                                                         *)
(* On disk a releases root holds one directory per release, a `current`    *)
(* symbolic link, and the append-only `.history` log.  An operator process *)
(* replaces the link by an atomic rename and then appends one line to the  *)
(* log: two system calls, with a window between them.  Rollback is a read  *)
(* of the log, a read of the link, and an activation.                      *)
(***************************************************************************)
EXTENDS Naturals, Sequences, FiniteSets

CONSTANTS
  Releases,        \* release directories the operators may build
  Operators,       \* processes running knowledge-update, activate or rollback
  None,            \* no `current` link
  InitiallyActive, \* releases verified, linked and logged, in order, at the start
  MayCrash,        \* a process may be killed between two steps
  MayReactivate,   \* `nora activate` may name a release that was active before
  MayWithdraw,     \* an administrator may remove a retired release's marker
  MaxHistory       \* bound on the number of lines of the log

ASSUME ReleaseAssumption ==
  /\ None \notin Releases
  /\ InitiallyActive \in Seq(Releases)
  /\ {MayCrash, MayReactivate, MayWithdraw} \subseteq BOOLEAN
  /\ MaxHistory \in Nat

VARIABLES
  verified,  \* releases whose directory holds job-import.json
  current,   \* the release the `current` link points to, or None
  history,   \* the lines of .history, oldest first
  pc,        \* per operator: the step of the command it is running
  target,    \* per operator: the release it is about to link or log
  seen       \* per operator: the history a rollback has read

vars == <<verified, current, history, pc, target, seen>>

Steps == {"idle", "link", "readCurrent", "relink", "record", "refused"}

Entries(s) == {s[i] : i \in DOMAIN s}

\* Mutant: the position of the last entry equal to r.
LastIndex(s, r) ==
  CHOOSE i \in DOMAIN s : s[i] = r /\ \A j \in (i + 1)..Len(s) : s[j] # r

\* list.index: the position of the FIRST entry equal to r.
FirstIndex(s, r) ==
  CHOOSE i \in DOMAIN s : s[i] = r /\ \A j \in 1..(i - 1) : s[j] # r

Last(s) == s[Len(s)]

Init ==
  /\ verified = Entries(InitiallyActive)
  /\ current = IF InitiallyActive = <<>> THEN None ELSE Last(InitiallyActive)
  /\ history = InitiallyActive
  /\ pc = [p \in Operators |-> "idle"]
  /\ target = [p \in Operators |-> None]
  /\ seen = [p \in Operators |-> <<>>]

----------------------------------------------------------------------------
(* run_import_verify writes the marker: the release may be activated. *)
FinishImport(r) ==
  /\ r \notin verified
  /\ verified' = verified \cup {r}
  /\ UNCHANGED <<current, history, pc, target, seen>>

(* External: an administrator removes the marker of a release that is      *)
(* neither active nor about to be linked.                                  *)
Withdraw(r) ==
  /\ MayWithdraw
  /\ r \in verified
  /\ r # current
  /\ \A p \in Operators : target[p] # r
  /\ verified' = verified \ {r}
  /\ UNCHANGED <<current, history, pc, target, seen>>

\* Mutant: activate does not look for the marker.
ActivatableUnchecked(r) == r \in Releases

\* activate refuses a release that has not passed import/verify.
Activatable(r) == r \in verified

\* knowledge_update activates the release it has just built; only a direct
\* `activate` command names one that was linked before.
Fresh(r) == r # current /\ r \notin Entries(history)

\* Mutant: the release to link is never set.
BeginActivateUntargeted(p, r) ==
  /\ pc[p] = "idle"
  /\ Len(history) < MaxHistory
  /\ Activatable(r)
  /\ MayReactivate \/ Fresh(r)
  /\ pc' = [pc EXCEPT ![p] = "link"]
  /\ UNCHANGED <<verified, current, history, target, seen>>

(* activate: the checks, up to the rename. *)
BeginActivate(p, r) ==
  /\ pc[p] = "idle"
  /\ Len(history) < MaxHistory
  /\ Activatable(r)
  /\ MayReactivate \/ Fresh(r)
  /\ pc' = [pc EXCEPT ![p] = "link"]
  /\ target' = [target EXCEPT ![p] = r]
  /\ UNCHANGED <<verified, current, history, seen>>

\* _releases_history: the logged releases that still carry their marker.
ValidHistory ==
  IF Entries(history) \subseteq verified
  THEN history
  ELSE SelectSeq(history, Activatable)

(* rollback: history = _releases_history(releases_root) *)
BeginRollback(p) ==
  /\ pc[p] = "idle"
  /\ Len(history) < MaxHistory
  /\ pc' = [pc EXCEPT ![p] = "readCurrent"]
  /\ seen' = [seen EXCEPT ![p] = ValidHistory]
  /\ UNCHANGED <<verified, current, history, target>>

\* Mutant: always step back from the last line of the log.
RollbackIndexFromEnd(s) == Len(s)

\* The position from which rollback steps back: the first entry of the active
\* release, or the last entry of a log that does not hold it.
RollbackIndex(s) ==
  IF current \in Entries(s) THEN FirstIndex(s, current) ELSE Len(s)

(* rollback: current = active_release(...), the choice of `previous`, and  *)
(* the checks of the activate call it ends in.                             *)
ChoosePrevious(p) ==
  /\ pc[p] = "readCurrent"
  /\ LET i        == RollbackIndex(seen[p])
         accepted == /\ current # None
                     /\ i > 1
                     /\ Activatable(seen[p][i - 1])
     IN \/ /\ accepted
           /\ pc' = [pc EXCEPT ![p] = "relink"]
           /\ target' = [target EXCEPT ![p] = seen[p][i - 1]]
        \/ /\ ~accepted
           /\ pc' = [pc EXCEPT ![p] = "refused"]
           /\ UNCHANGED target
  /\ seen' = [seen EXCEPT ![p] = <<>>]
  /\ UNCHANGED <<verified, current, history>>

\* Mutant: unlink the old link, then make the new one.
SwapLinkInTwoSteps(p) ==
  /\ pc[p] \in {"link", "relink"}
  /\ IF current = None
     THEN current' = target[p] /\ pc' = [pc EXCEPT ![p] = "record"]
     ELSE current' = None /\ UNCHANGED pc
  /\ UNCHANGED <<verified, history, target, seen>>

(* os.replace(tmp, current) *)
SwapLink(p) ==
  /\ pc[p] \in {"link", "relink"}
  /\ current' = target[p]
  /\ pc' = [pc EXCEPT ![p] = "record"]
  /\ UNCHANGED <<verified, history, target, seen>>

\* Mutant: the line names what the link points to by now.
RecordCurrent(p) ==
  /\ pc[p] = "record"
  /\ history' = Append(history, current)
  /\ pc' = [pc EXCEPT ![p] = "idle"]
  /\ target' = [target EXCEPT ![p] = None]
  /\ UNCHANGED <<verified, current, seen>>

(* _record_activation: append one line. *)
Record(p) ==
  /\ pc[p] = "record"
  /\ history' = Append(history, target[p])
  /\ pc' = [pc EXCEPT ![p] = "idle"]
  /\ target' = [target EXCEPT ![p] = None]
  /\ UNCHANGED <<verified, current, seen>>

(* ValueError("No previous release available for rollback") reaches the CLI. *)
ReportRefusal(p) ==
  /\ pc[p] = "refused"
  /\ pc' = [pc EXCEPT ![p] = "idle"]
  /\ UNCHANGED <<verified, current, history, target, seen>>

(* The process dies; what it wrote stays. *)
Crash(p) ==
  /\ MayCrash
  /\ pc[p] # "idle"
  /\ pc' = [pc EXCEPT ![p] = "idle"]
  /\ target' = [target EXCEPT ![p] = None]
  /\ seen' = [seen EXCEPT ![p] = <<>>]
  /\ UNCHANGED <<verified, current, history>>

OperatorStep(p) ==
  \/ \E r \in Releases : BeginActivate(p, r)
  \/ BeginRollback(p)
  \/ ChoosePrevious(p)
  \/ SwapLink(p)
  \/ Record(p)
  \/ ReportRefusal(p)
  \/ Crash(p)

Next ==
  \/ \E r \in Releases : FinishImport(r) \/ Withdraw(r)
  \/ \E p \in Operators : OperatorStep(p)

Spec == Init /\ [][Next]_vars

\* In this step, p has replaced the link.
LinkedBy(p) == pc[p] \in {"link", "relink"} /\ pc'[p] = "record"

----------------------------------------------------------------------------
(* retrieval.current_release: the linked release, if it carries its marker. *)
Served == IF current \in verified THEN current ELSE None

(* Every variable has its type. *)
TypeOK ==
  /\ verified \subseteq Releases
  /\ current \in Releases \cup {None}
  /\ history \in Seq(Releases)
  /\ pc \in [Operators -> Steps]
  /\ target \in [Operators -> Releases \cup {None}]
  /\ seen \in [Operators -> Seq(Releases)]
  /\ \A p \in Operators :
       pc[p] \in {"link", "relink", "record"} => target[p] # None

(* Whatever crashes and whoever else is activating, the link never points  *)
(* to a release that has not passed import and verification: an unfinished *)
(* ingestion is never served.                                              *)
ServesOnlyVerified == current \in verified \cup {None}

(* Once a release is served, some release is served ever after: the rename *)
(* leaves no moment in which retrieval finds no active release.            *)
NeverUnpublished == [][Served # None => Served' # None]_vars
=============================================================================
