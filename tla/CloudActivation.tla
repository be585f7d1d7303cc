--------------------------- MODULE CloudActivation ---------------------------
(***************************************************************************)
(* Cloud activation of knowledge releases: activate_cloud and              *)
(* rollback_cloud of nora.jobs.                                            *)
(*                                                                         *)
(* The pointer object in the bucket decides what retrieval serves.  It is  *)
(* replaced by a write that is conditional on its generation.  The         *)
(* releases root keeps a local view: the .history-gcs log, which a         *)
(* rollback reads, the `current` link and the .history log.  A command is  *)
(* a sequence of requests and file operations; other operators run between *)
(* them, and it may fail or be killed at each.                             *)
(*                                                                         *)
(* A manifest stands for its release: publish_release uploads every object *)
(* under a tag of its own and returns only when all of it is there, and    *)
(* the pointer names generations, which nobody overwrites.                 *)
(***************************************************************************)
EXTENDS Naturals, Sequences

CONSTANTS
  Releases,   \* verified release directories
  Operators,  \* processes running activate or rollback with a cloud pointer
  None,       \* no pointer object, no link, no target
  MayFail,    \* a command may fail or be killed between two steps
  MaxWrites   \* bound on the pointer's generation

ASSUME CloudAssumption ==
  /\ None \notin Releases
  /\ MayFail \in BOOLEAN
  /\ MaxWrites \in Nat

VARIABLES
  pointer,     \* the active manifest of the pointer object, or None
  generation,  \* the generation of the pointer object, 0 when there is none
  log,         \* .history-gcs, oldest first
  current,     \* the local `current` link, or None
  history,     \* .history
  job,         \* per operator: its command
  pc,          \* per operator: the next step of it
  target,      \* per operator: the release it activates or returns to
  expected,    \* per operator: the generation it has read
  seen         \* per operator: the .history-gcs it has read

local == <<current, history>>
own == <<job, pc, target, expected, seen>>
vars == <<pointer, generation, log, local, own>>

Jobs == {"activate", "rollback"}
Steps == {"idle", "generation", "pointer", "load", "save", "link", "record"}

Front(s) == SubSeq(s, 1, Len(s) - 1)

Init ==
  /\ pointer = None
  /\ generation = 0
  /\ log = <<>>
  /\ current = None
  /\ history = <<>>
  /\ job = [p \in Operators |-> "activate"]
  /\ pc = [p \in Operators |-> "idle"]
  /\ target = [p \in Operators |-> None]
  /\ expected = [p \in Operators |-> 0]
  /\ seen = [p \in Operators |-> <<>>]

----------------------------------------------------------------------------
\* Mutant: an activation is recorded before the pointer is written.
OrderRecordingFirst ==
  [activate |-> [generation |-> "load", load |-> "save", save |-> "pointer",
                 pointer |-> "link", link |-> "record", record |-> "idle"],
   rollback |-> [generation |-> "pointer", pointer |-> "link",
                 link |-> "save", save |-> "idle"]]

\* Mutant: a rollback leaves the local link alone.
OrderWithoutLink ==
  [activate |-> [generation |-> "pointer", pointer |-> "load", load |-> "save",
                 save |-> "link", link |-> "record", record |-> "idle"],
   rollback |-> [generation |-> "pointer", pointer |-> "save", save |-> "idle"]]

\* The order of the steps: what follows each of them.
RollbackOrder ==
  [generation |-> "pointer", pointer |-> "link", link |-> "save", save |-> "idle"]

Order ==
  [activate |-> [generation |-> "pointer", pointer |-> "load", load |-> "save",
                 save |-> "link", link |-> "record", record |-> "idle"],
   rollback |-> RollbackOrder]

GoesOn(p) == pc' = [pc EXCEPT ![p] = Order[job[p]][pc[p]]]

(* activate_cloud, up to the end of publish_release. *)
BeginActivate(p, r) ==
  /\ pc[p] = "idle"
  /\ generation < MaxWrites
  /\ job' = [job EXCEPT ![p] = "activate"]
  /\ pc' = [pc EXCEPT ![p] = "generation"]
  /\ target' = [target EXCEPT ![p] = r]
  /\ UNCHANGED <<pointer, generation, log, local, expected, seen>>

\* Mutant: the oldest entry.
PreviousOldest(s) == s[1]

\* history[-2]
Previous(s) == s[Len(s) - 1]

(* rollback_cloud, up to the choice of the previous entry.  With less than *)
(* two entries it is refused and changes nothing.                          *)
BeginRollback(p) ==
  /\ pc[p] = "idle"
  /\ generation < MaxWrites
  /\ Len(log) > 1
  /\ job' = [job EXCEPT ![p] = "rollback"]
  /\ pc' = [pc EXCEPT ![p] = "generation"]
  /\ target' = [target EXCEPT ![p] = Previous(log)]
  /\ seen' = [seen EXCEPT ![p] = log]
  /\ UNCHANGED <<pointer, generation, log, local, expected>>

(* _pointer_generation *)
ReadGeneration(p) ==
  /\ pc[p] = "generation"
  /\ expected' = [expected EXCEPT ![p] = generation]
  /\ GoesOn(p)
  /\ UNCHANGED <<pointer, generation, log, local, job, target, seen>>

\* The command ends, with an error or killed, and what it wrote stays.
Stops(p) ==
  /\ job' = [job EXCEPT ![p] = "activate"]
  /\ pc' = [pc EXCEPT ![p] = "idle"]
  /\ target' = [target EXCEPT ![p] = None]
  /\ expected' = [expected EXCEPT ![p] = 0]
  /\ seen' = [seen EXCEPT ![p] = <<>>]

\* The object is written if its generation is the expected one.
PointerWritten(p) ==
  /\ pc[p] = "pointer"
  /\ generation = expected[p]
  /\ pointer' = target[p]
  /\ generation' = generation + 1

(* write_cloud_pointer succeeds. *)
WritePointer(p) ==
  /\ PointerWritten(p)
  /\ GoesOn(p)
  /\ UNCHANGED <<log, local, job, target, expected, seen>>

(* write_cloud_pointer writes, and its answer is lost. *)
LoseAnswer(p) ==
  /\ MayFail
  /\ PointerWritten(p)
  /\ Stops(p)
  /\ UNCHANGED <<log, local>>

(* Somebody else wrote since: the precondition fails. *)
FailPrecondition(p) ==
  /\ pc[p] = "pointer"
  /\ generation # expected[p]
  /\ Stops(p)
  /\ UNCHANGED <<pointer, generation, log, local>>

(* _record_cloud_activation: history = _cloud_history(...) *)
LoadLog(p) ==
  /\ pc[p] = "load"
  /\ seen' = [seen EXCEPT ![p] = log]
  /\ GoesOn(p)
  /\ UNCHANGED <<pointer, generation, log, local, job, target, expected>>

\* What _write_cloud_history is given.
NewLog(p) ==
  IF job[p] = "activate" THEN Append(seen[p], target[p]) ELSE Front(seen[p])

(* _write_cloud_history: one rename; the last step of a rollback. *)
SaveLog(p) ==
  /\ pc[p] = "save"
  /\ log' = NewLog(p)
  /\ IF job[p] = "activate"
     THEN GoesOn(p) /\ UNCHANGED <<job, target, expected, seen>>
     ELSE Stops(p)
  /\ UNCHANGED <<pointer, generation, local>>

(* os.replace(tmp, current) *)
SwapLink(p) ==
  /\ pc[p] = "link"
  /\ current' = target[p]
  /\ GoesOn(p)
  /\ UNCHANGED <<pointer, generation, log, history, job, target, expected, seen>>

(* _record_activation: the last step of an activation. *)
Record(p) ==
  /\ pc[p] = "record"
  /\ history' = Append(history, target[p])
  /\ Stops(p)
  /\ UNCHANGED <<pointer, generation, log, current>>

(* A request or a file operation raises, or the process dies. *)
Fail(p) ==
  /\ MayFail
  /\ pc[p] # "idle"
  /\ Stops(p)
  /\ UNCHANGED <<pointer, generation, log, local>>

Step(p) ==
  \/ \E r \in Releases : BeginActivate(p, r)
  \/ BeginRollback(p)
  \/ ReadGeneration(p)
  \/ WritePointer(p) \/ LoseAnswer(p) \/ FailPrecondition(p)
  \/ LoadLog(p)
  \/ SaveLog(p)
  \/ SwapLink(p)
  \/ Record(p)
  \/ Fail(p)

Next == \E p \in Operators : Step(p)

Spec == Init /\ [][Next]_vars

----------------------------------------------------------------------------
(* Every variable has its type; a running command knows its release, and a *)
(* rollback has an entry to drop.                                          *)
TypeOK ==
  /\ pointer \in Releases \cup {None}
  /\ generation \in Nat
  /\ log \in Seq(Releases)
  /\ current \in Releases \cup {None}
  /\ history \in Seq(Releases)
  /\ job \in [Operators -> Jobs]
  /\ pc \in [Operators -> Steps]
  /\ target \in [Operators -> Releases \cup {None}]
  /\ expected \in [Operators -> Nat]
  /\ seen \in [Operators -> Seq(Releases)]
  /\ \A p \in Operators : pc[p] # "idle" =>
       /\ target[p] # None
       /\ job[p] = "rollback" => Len(seen[p]) > 1 /\ pc[p] \notin {"load", "record"}
=============================================================================
