----------------------------- MODULE CloudSetup -----------------------------
(***************************************************************************)
(* Provisioning of the cloud foundation: Setup.execute of                  *)
(* setup/google-cloud/03-cloud-setup.py with --apply.                      *)
(*                                                                         *)
(* A run executes one stage: it checks the project, looks every resource   *)
(* of the stage up before its first change, creates those that are         *)
(* missing, reads each one back, and adds the IAM bindings.  A run stops at *)
(* the first error and is started again by its operator; nothing is rolled *)
(* back.  Each gcloud command may fail, or its answer may be lost: then    *)
(* what it asked for is done at any later time, or never.  Meanwhile others *)
(* (an administrator, a second run) create, alter and delete resources of  *)
(* the same names.                                                         *)
(*                                                                         *)
(* A resource is told apart by its name's status only: "differing" stands  *)
(* for whatever validate_resource rejects and for an ambiguous name.  The  *)
(* boot disk of the VM comes and goes with it and is looked up on its own. *)
(***************************************************************************)
EXTENDS Naturals, Sequences

CONSTANTS
  MaxFaults,  \* bound on the commands that fail or whose answer is lost
  MaxEdits    \* bound on the changes others make

ASSUME SetupAssumption == {MaxFaults, MaxEdits} \subseteq Nat

VARIABLES
  enabled,    \* the required APIs are enabled
  state,      \* per part: the status of its resource
  granted,    \* IAM bindings in place
  late,       \* changes whose answer was lost, still under way
  stage,      \* the stage that runs, or ran last
  pc,         \* how far the run is
  todo,       \* what the current phase of the run has still to go through
  missing,    \* kinds the run found absent
  listed,     \* status of the NAT in the cached list of routers
  faults,     \* commands that failed or whose answer was lost, so far
  edits,      \* changes made by others, so far
  \* history variables, read by the properties only
  completed,  \* stages some run has reported complete; "check" makes nothing
              \* and is not recorded
  touched,    \* parts others have made or changed
  witnessed   \* per part: the statuses it has had since the run began

cloud == <<enabled, state, granted, late>>
run == <<stage, pc, todo, missing, listed>>
vars == <<enabled, state, granted, late, stage, pc, todo, missing, listed,
          faults, edits, completed, touched, witnessed>>

----------------------------------------------------------------------------
STAGES == {"check", "apis", "network", "identity", "storage", "vm"}

Status == {"absent", "matching", "differing"}

Network == {"network", "subnet", "router", "nat", "firewall"}
Storage == {"bucket", "disk", "secret"}
Kinds == Network \cup {"sa"} \cup Storage \cup {"vm"}
Parts == Kinds \cup {"boot"}

(* resources(stage) *)
Resources(s) ==
  CASE s = "network"  -> Network
    [] s = "identity" -> {"sa"}
    [] s = "storage"  -> Storage
    [] s = "vm"       -> {"vm"}
    [] OTHER          -> {}

\* What a stage makes: the boot disk is created with the VM.
Made(s) == Resources(s) \cup (IF s = "vm" THEN {"boot"} ELSE {})

\* Mutant: storage is not among the stages a VM needs.
DependenciesOfComputeOnly(s) ==
  CASE s = "storage" -> {"sa"}
    [] s = "vm"      -> Network \cup {"sa"}
    [] OTHER         -> {}

(* execute: what must be there before a stage looks at its own resources. *)
Dependencies(s) ==
  CASE s = "storage" -> {"sa"}
    [] s = "vm"      -> Network \cup {"sa"} \cup Storage
    [] OTHER         -> {}

(* bindings(stage) *)
Bindings(s) ==
  CASE s = "identity" -> {"tunnelResourceAccessor", "osAdminLogin",
                          "serviceAccountUser"}
    [] s = "storage"  -> {"objectAdmin", "secretAccessor"}
    [] OTHER          -> {}

AllBindings == Bindings("identity") \cup Bindings("storage")

\* The changes a run asks for.
Changes == {"apis"} \cup Kinds \cup AllBindings

\* Mutant: a network's parts are created before it.
OrderLeavesFirst ==
  <<"nat", "firewall", "subnet", "router", "network", "sa",
    "bucket", "disk", "secret", "vm", "boot",
    "tunnelResourceAccessor", "osAdminLogin", "serviceAccountUser",
    "objectAdmin", "secretAccessor">>

(* The order of the lists of resources and bindings; resources(network) +  *)
(* resources(identity) + resources(storage) is in the same order.  The boot *)
(* disk is looked up after its VM.                                         *)
Order ==
  <<"network", "subnet", "router", "nat", "firewall", "sa",
    "bucket", "disk", "secret", "vm", "boot",
    "tunnelResourceAccessor", "osAdminLogin", "serviceAccountUser",
    "objectAdmin", "secretAccessor">>

IsFirst(x, S) ==
  x \in S /\ \E i \in DOMAIN Order :
    Order[i] = x /\ \A j \in 1..(i - 1) : Order[j] \notin S

(* External: what a resource refers to.  Google Cloud refuses to create a  *)
(* resource whose references are absent, and to delete one referred to.    *)
References(k) ==
  CASE k \in {"subnet", "router", "firewall"} -> {"network"}
    [] k = "nat" -> {"router", "subnet"}
    [] k = "vm"  -> {"network", "subnet", "sa", "disk"}
    [] OTHER     -> {}

(* External: what a binding is added to, or names as its member. *)
Bound(b) ==
  CASE b = "serviceAccountUser" -> {"sa"}
    [] b = "objectAdmin"        -> {"bucket", "sa"}
    [] b = "secretAccessor"     -> {"secret", "sa"}
    [] OTHER                    -> {}

Init ==
  /\ enabled \in BOOLEAN
  /\ state = [k \in Parts |-> "absent"]
  /\ touched = {}
  /\ granted = {}
  /\ late = {}
  /\ stage = "check"
  /\ pc = "idle"
  /\ todo = {}
  /\ missing = {}
  /\ listed = "absent"
  /\ faults = 0
  /\ edits = 0
  /\ completed = {}
  /\ witnessed = [k \in Parts |-> {}]

----------------------------------------------------------------------------
\* The run ends; what it knew is gone.
Ended ==
  /\ pc' = "idle"
  /\ todo' = {}
  /\ missing' = {}
  /\ listed' = "absent"
  /\ witnessed' = [k \in Parts |-> {}]
  /\ UNCHANGED stage

\* ValueError or RuntimeError reaches main: "Stopped".
Stopped == Ended /\ UNCHANGED <<faults, edits, completed, touched>>

\* A command of the run fails, is killed, or loses its answer.
Faulted ==
  /\ faults < MaxFaults
  /\ faults' = faults + 1
  /\ Ended
  /\ UNCHANGED <<edits, completed, touched>>

\* A status seen by the properties: kept while a run is on.
Witness(s) == [k \in Parts |-> witnessed[k] \cup {s[k]}]

\* The run goes on; others and the properties' variables do not change.
GoesOn == UNCHANGED <<stage, faults, edits, completed, touched, witnessed>>

(* main: the operator starts a stage with --apply. *)
Start(s) ==
  /\ pc = "idle"
  /\ stage' = s
  /\ pc' = "precheck"
  /\ witnessed' = [k \in Parts |-> {state[k]}]
  /\ UNCHANGED <<cloud, todo, missing, listed, faults, edits, completed,
                 touched>>

(* precheck: the project is active and billed. *)
Precheck ==
  /\ pc = "precheck"
  /\ pc' = IF stage = "apis" THEN "apis" ELSE "inspect"
  /\ todo' = Dependencies(stage) \cup Resources(stage)
  /\ UNCHANGED <<cloud, missing, listed>>
  /\ GoesOn

(* execute, stage apis: enable what is missing. *)
EnableApis ==
  /\ pc = "apis"
  /\ enabled' = TRUE
  /\ pc' = "bind"
  /\ UNCHANGED <<state, granted, late, todo, missing, listed>>
  /\ GoesOn

\* lookup: what the run sees of k.  Routers are listed once, when the router
\* is looked up; the NAT is read from that list.
Seen(k) == IF k = "nat" THEN listed ELSE state[k]

(* execute: k is there and as requested, or is to be created.  The boot    *)
(* disk of a VM that is there is looked up in a list of its own.           *)
Inspect(k) ==
  /\ pc = "inspect"
  /\ IsFirst(k, todo)
  /\ enabled
  /\ Seen(k) # "differing"
  /\ k \in Dependencies(stage) \cup {"boot"} => Seen(k) # "absent"
  /\ missing' = IF Seen(k) = "absent" THEN missing \cup {k} ELSE missing
  /\ todo' = (todo \ {k}) \cup
       IF k = "vm" /\ Seen(k) # "absent" THEN {"boot"} ELSE {}
  /\ listed' = IF k = "router" THEN state["nat"] ELSE listed
  /\ UNCHANGED <<cloud, pc>>
  /\ GoesOn

(* "differs from the requested setup", "Ambiguous", "Run earlier stages    *)
(* first", "Cannot verify existing VM boot disk"; or the listing fails     *)
(* because its API is not enabled.                                         *)
InspectStops(k) ==
  /\ pc = "inspect"
  /\ IsFirst(k, todo)
  /\ \/ ~enabled
     \/ Seen(k) = "differing"
     \/ k \in Dependencies(stage) \cup {"boot"} /\ Seen(k) = "absent"
  /\ UNCHANGED cloud
  /\ Stopped

\* Mutant: the first resource found missing is created at once.
BeginChangesEarly ==
  /\ pc = "inspect"
  /\ todo = {} \/ missing # {}
  /\ pc' = "create"
  /\ todo' = missing
  /\ missing' = {}
  /\ UNCHANGED <<cloud, listed>>
  /\ GoesOn

(* Everything is inspected: the run turns to its pending creations. *)
BeginChanges ==
  /\ pc = "inspect"
  /\ todo = {}
  /\ pc' = "create"
  /\ todo' = missing
  /\ missing' = {}
  /\ UNCHANGED <<cloud, listed>>
  /\ GoesOn

Creatable(k) ==
  /\ state[k] = "absent"
  /\ \A r \in References(k) : state[r] # "absent"

\* The parts of k: a VM has its boot disk.
With(k) == IF k = "vm" THEN {"vm", "boot"} ELSE {k}

\* run(op.create) is applied.
Created(k) ==
  /\ Creatable(k)
  /\ state' = [j \in Parts |-> IF j \in With(k) THEN "matching" ELSE state[j]]
  /\ UNCHANGED <<enabled, granted>>

(* run(op.create) *)
Create(k) ==
  /\ pc = "create"
  /\ IsFirst(k, todo)
  /\ Created(k)
  /\ pc' = "readback"
  /\ witnessed' = Witness(state')
  /\ UNCHANGED <<late, stage, todo, missing, listed, faults, edits, completed,
                 touched>>

(* External: somebody else has made k, or removed what it refers to. *)
CreateRefused(k) ==
  /\ pc = "create"
  /\ IsFirst(k, todo)
  /\ ~Creatable(k)
  /\ UNCHANGED cloud
  /\ Stopped

\* lookup with an empty cache finds k as requested; it does not look at the
\* boot disk.
ReadsBack(k) ==
  /\ state[k] = "matching"
  /\ k = "nat" => state["router"] = "matching"

(* require(lookup(op, {}) is not None) *)
Readback(k) ==
  /\ pc = "readback"
  /\ IsFirst(k, todo)
  /\ ReadsBack(k)
  /\ pc' = "create"
  /\ todo' = todo \ {k}
  /\ UNCHANGED <<cloud, missing, listed>>
  /\ GoesOn

(* "was not returned by readback", or it differs by now. *)
ReadbackStops(k) ==
  /\ pc = "readback"
  /\ IsFirst(k, todo)
  /\ ~ReadsBack(k)
  /\ UNCHANGED cloud
  /\ Stopped

\* Mutant: a resource that was there already is taken to be bound.
BeginBindingsOfNew ==
  /\ pc = "create"
  /\ todo = {}
  /\ pc' = "bind"
  /\ todo' = IF \E k \in Resources(stage) : "absent" \in witnessed[k]
             THEN Bindings(stage) ELSE {}
  /\ UNCHANGED <<cloud, missing, listed>>
  /\ GoesOn

(* Nothing is left to create; every binding is added again. *)
BeginBindings ==
  /\ pc = "create"
  /\ todo = {}
  /\ pc' = "bind"
  /\ todo' = Bindings(stage)
  /\ UNCHANGED <<cloud, missing, listed>>
  /\ GoesOn

\* add-iam-policy-binding is applied.
Granted(b) ==
  /\ \A k \in Bound(b) : state[k] # "absent"
  /\ granted' = granted \cup {b}
  /\ UNCHANGED <<enabled, state>>

(* Ensure IAM binding *)
Bind(b) ==
  /\ pc = "bind"
  /\ IsFirst(b, todo)
  /\ Granted(b)
  /\ todo' = todo \ {b}
  /\ UNCHANGED <<late, pc, missing, listed>>
  /\ GoesOn

(* External: what the binding names is gone. *)
BindRefused(b) ==
  /\ pc = "bind"
  /\ IsFirst(b, todo)
  /\ \E k \in Bound(b) : state[k] = "absent"
  /\ UNCHANGED cloud
  /\ Stopped

(* "stage complete" *)
Complete ==
  /\ pc = "bind"
  /\ todo = {}
  /\ completed' = completed \cup ({stage} \ {"check"})
  /\ Ended
  /\ UNCHANGED <<cloud, faults, edits, touched>>

(* run: a command exits with an error or times out, or the run is killed. *)
Fail ==
  /\ pc # "idle"
  /\ UNCHANGED cloud
  /\ Faulted

(* run: a change was asked for and its answer is lost, "a timed-out        *)
(* mutation may have completed"; the run stops.                            *)
Unanswered(x) ==
  /\ \/ pc = "apis" /\ x = "apis"
     \/ pc = "create" /\ IsFirst(x, todo) /\ Creatable(x)
     \/ pc = "bind" /\ IsFirst(x, todo) /\ \A k \in Bound(x) : state[k] # "absent"
  /\ late' = late \cup {x}
  /\ UNCHANGED <<enabled, state, granted>>
  /\ Faulted

(* External: a change under way is done, at once or during a later run.    *)
(* One that is no longer possible never is.                                *)
Applies(x) ==
  /\ x \in late
  /\ late' = late \ {x}
  /\ \/ x = "apis" /\ enabled' = TRUE /\ UNCHANGED <<state, granted>>
     \/ x \in Kinds /\ Created(x)
     \/ x \in AllBindings /\ Granted(x)
  /\ witnessed' = IF pc = "idle" THEN witnessed ELSE Witness(state')
  /\ UNCHANGED <<run, faults, edits, completed, touched>>

\* What changes when others give k a status: a VM is made and deleted with its
\* boot disk.
Edited(k, status) ==
  IF "absent" \in {state[k], status} THEN With(k) ELSE {k}

(* External: others create, alter or delete k; the bindings on a deleted   *)
(* resource go with it.  A boot disk is only altered.                      *)
Edit(k, status) ==
  /\ edits < MaxEdits
  /\ status # state[k]
  /\ enabled
  /\ k = "boot" => "absent" \notin {state[k], status}
  /\ state[k] = "absent" => \A r \in References(k) : state[r] # "absent"
  /\ status = "absent" =>
       \A j \in Kinds : state[j] # "absent" => k \notin References(j)
  /\ state' = [j \in Parts |-> IF j \in Edited(k, status) THEN status ELSE state[j]]
  /\ granted' = IF status = "absent"
                THEN {b \in granted : k \notin Bound(b)} ELSE granted
  /\ edits' = edits + 1
  /\ touched' = touched \cup Edited(k, status)
  /\ witnessed' = IF pc = "idle" THEN witnessed ELSE Witness(state')
  /\ UNCHANGED <<enabled, late, run, faults, completed>>

Command ==
  \/ Precheck
  \/ EnableApis
  \/ BeginChanges \/ BeginBindings \/ Complete
  \/ \E k \in Parts : Inspect(k) \/ InspectStops(k)
  \/ \E k \in Kinds : \/ Create(k) \/ CreateRefused(k)
                      \/ Readback(k) \/ ReadbackStops(k)
  \/ \E b \in AllBindings : Bind(b) \/ BindRefused(b)

Trouble ==
  \/ Fail
  \/ \E x \in Changes : Unanswered(x) \/ Applies(x)

Next ==
  \/ \E s \in STAGES : Start(s)
  \/ Command
  \/ Trouble
  \/ \E k \in Parts, status \in Status : Edit(k, status)

Spec == Init /\ [][Next]_vars

Guide == <<"apis", "network", "identity", "storage", "vm">>

\* A stage that no run has completed, or whose resources were deleted since.
Undone(s) ==
  s \notin completed \/ \E k \in Resources(s) : state[k] = "absent"

\* The operator runs the first stage of the guide that is not done.
StartUndone ==
  \E i \in DOMAIN Guide :
    /\ Undone(Guide[i])
    /\ \A j \in 1..(i - 1) : ~Undone(Guide[j])
    /\ Start(Guide[i])

(* A run that is not stopped goes on; whatever else the operator runs, he  *)
(* comes back to the first stage that is not done, as the guide asks for   *)
(* after a failure.                                                        *)
FairSpec == Spec /\ WF_vars(Command) /\ SF_vars(StartUndone)

----------------------------------------------------------------------------
Changing == {"create", "readback", "bind"}

(* Every variable has its type, and each phase works on its own things: in *)
(* particular a run creates resources of its own stage only.               *)
TypeOK ==
  /\ enabled \in BOOLEAN
  /\ state \in [Parts -> Status]
  /\ state["boot"] = "absent" <=> state["vm"] = "absent"
  /\ granted \subseteq AllBindings
  /\ late \subseteq Changes
  /\ stage \in STAGES
  /\ pc \in {"idle", "precheck", "apis", "inspect"} \cup Changing
  /\ pc = "inspect" => todo \subseteq Made(stage) \cup Dependencies(stage)
  /\ pc \in {"create", "readback"} => todo \subseteq Resources(stage)
  /\ pc = "bind" => todo \subseteq Bindings(stage)
  /\ pc \notin {"inspect"} \cup Changing => todo = {}
  /\ missing \subseteq Resources(stage)
  /\ listed \in Status
  /\ faults \in Nat /\ edits \in Nat
  /\ completed \subseteq STAGES
  /\ touched \subseteq Parts
  /\ witnessed \in [Parts -> SUBSET Status]

(* A run changes nothing if a resource of its stage, or the boot disk of   *)
(* the VM, has differed ever since the run began: all of them are          *)
(* inspected before the first change.  A change that others make after the *)
(* inspection is not noticed.                                              *)
ChangesFollowInspection ==
  pc \in Changing => \A k \in Made(stage) : witnessed[k] # {"differing"}

(* A run changes nothing unless everything its stage depends on was there  *)
(* and as requested at some time of this run: a VM is never built beside a *)
(* disk of another size, or before the bucket and the secret exist.        *)
ChangesRestOnDependencies ==
  pc \in Changing =>
    /\ stage = "storage" => "matching" \in witnessed["sa"]
    /\ stage = "vm" => \A k \in Kinds \ {"vm"} : "matching" \in witnessed[k]

(* What a stage reported complete stands, after any number of runs that    *)
(* stopped halfway or lost an answer, and whenever what they asked for is  *)
(* done: its resources are there as requested and its bindings granted,    *)
(* but for those others have changed.                                      *)
CompletedStagesStand ==
  \A s \in completed :
    /\ \A k \in Made(s) \ touched : state[k] = "matching"
    /\ \A b \in Bindings(s) : Bound(b) \cap touched = {} => b \in granted
    /\ s = "apis" => enabled

(* Stages that failed can be run again until they are done: no interrupted *)
(* run, lost answer or change by others leaves the project in a state that *)
(* the stages cannot complete, unless a name stays taken by a resource     *)
(* that differs.                                                           *)
RerunsComplete ==
  <>[](\A k \in Parts : state[k] # "differing") => <>(completed = STAGES \ {"check"})
=============================================================================
