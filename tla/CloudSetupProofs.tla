-------------------------- MODULE CloudSetupProofs --------------------------
(***************************************************************************)
(* What a run of the cloud setup knows when it changes something, and what *)
(* stands when it reports its stage complete: for any number of failures,  *)
(* lost answers and changes by others.                                     *)
(***************************************************************************)
EXTENDS CloudSetup, TLAPS

(* While a run is on, the properties witness what is there. *)
WitnessInv ==
  pc # "idle" => \A k \in Parts : state[k] \in witnessed[k]

(* Only a run of stage apis enables APIs, and only one that inspects has   *)
(* found something missing.                                                *)
PhaseInv ==
  /\ pc = "apis" => stage = "apis"
  /\ stage = "apis" => pc \notin {"inspect", "create", "readback"}
  /\ pc # "inspect" => missing = {}

\* k is as requested, or others have touched it.
Stands(k) == state[k] = "matching" \/ k \in touched

\* k was absent or as requested when the run looked at it.
Acceptable(k) == witnessed[k] \cap {"absent", "matching"} # {}

\* The run is done with k; with a boot disk only after its VM.
Done(k) == k \notin todo /\ (k = "boot" => "vm" \notin todo)

\* What the run found missing, and the boot disk of a VM that is.
Lacking == missing \cup (IF "vm" \in missing THEN {"boot"} ELSE {})

(* What a run that inspects has established of what it is done with; the   *)
(* NAT is read from the list of routers.                                   *)
InspectInv ==
  pc = "inspect" =>
    /\ "nat" \in todo /\ "router" \notin todo =>
         listed \in witnessed["nat"] /\ (listed = "matching" => Stands("nat"))
    /\ \A k \in Made(stage) :
         Done(k) => Acceptable(k) /\ (k \in Lacking \/ Stands(k))
    /\ \A k \in Dependencies(stage) \ todo : "matching" \in witnessed[k]

(* What a run that changes has established, and what it has done. *)
ChangeInv ==
  /\ pc \in Changing =>
       /\ \A k \in Made(stage) : Acceptable(k)
       /\ \A k \in Dependencies(stage) : "matching" \in witnessed[k]
  /\ pc \in {"create", "readback"} =>
       \A k \in Made(stage) : Done(k) => Stands(k)
  /\ pc = "readback" /\ stage = "vm" => Stands("boot")
  /\ pc = "bind" =>
       /\ \A k \in Made(stage) : Stands(k)
       /\ \A b \in Bindings(stage) \ todo : Bound(b) \cap touched = {} => b \in granted
       /\ stage = "apis" => enabled

SetupInv ==
  /\ TypeOK
  /\ PhaseInv
  /\ WitnessInv
  /\ InspectInv
  /\ ChangeInv
  /\ CompletedStagesStand

----------------------------------------------------------------------------
(* Facts about the tables. *)
LEMMA TablesAreTyped ==
  ASSUME NEW s
  PROVE  /\ Resources(s) \subseteq Kinds
         /\ Dependencies(s) \subseteq Kinds
         /\ Made(s) \subseteq Parts
         /\ Kinds \subseteq Parts /\ {"vm", "boot"} \subseteq Parts
         /\ "boot" \notin Dependencies(s) \cup Resources(s)
         /\ "boot" \in Made(s) <=> s = "vm"
         /\ Resources(s) = Made(s) \ {"boot"}
         /\ Bindings(s) \subseteq AllBindings
<1>1. /\ Resources(s) \subseteq Kinds
      /\ Dependencies(s) \subseteq Kinds
      /\ Bindings(s) \subseteq AllBindings
  BY DEF Resources, Dependencies, Bindings, AllBindings, Kinds, Network, Storage
<1>2. "boot" \notin Kinds
  BY DEF Kinds, Network, Storage
<1>3. Kinds \subseteq Parts /\ {"vm", "boot"} \subseteq Parts
  BY DEF Parts, Kinds
<1> QED BY <1>1, <1>2, <1>3 DEF Made

LEMMA BoundAreKinds ==
  ASSUME NEW b
  PROVE  Bound(b) \subseteq Kinds
BY DEF Bound, Kinds, Network, Storage

(* A resource is among its parts. *)
LEMMA PartsAreWith ==
  ASSUME NEW k \in Kinds
  PROVE  k \in With(k) /\ With(k) \subseteq Parts /\ k # "boot"
BY DEF With, Parts, Kinds, Network, Storage

(* A stage looks at the routers before it looks at the NAT. *)
LEMMA RouterBeforeNat ==
  ASSUME NEW S
  PROVE  /\ IsFirst("nat", S) => "router" \notin S
         /\ \A s : "nat" \in Dependencies(s) \cup Resources(s)
                     => "router" \in Dependencies(s) \cup Resources(s)
<1>1. ASSUME IsFirst("nat", S) PROVE "router" \notin S
  <2>1. PICK i \in DOMAIN Order :
          Order[i] = "nat" /\ \A j \in 1..(i - 1) : Order[j] \notin S
    BY <1>1 DEF IsFirst
  <2>2. i = 4 /\ Order[3] = "router"
    BY <2>1 DEF Order
  <2> QED BY <2>1, <2>2
<1>2. ASSUME NEW s, "nat" \in Dependencies(s) \cup Resources(s)
      PROVE  "router" \in Dependencies(s) \cup Resources(s)
  BY <1>2 DEF Dependencies, Resources, Network, Storage
<1> QED BY <1>1, <1>2

LEMMA FirstIsMember ==
  ASSUME NEW x, NEW S, IsFirst(x, S)
  PROVE  x \in S
BY DEF IsFirst

(* A run that ends leaves nothing to show but the state. *)
LEMMA EndedInv ==
  ASSUME SetupInv, Ended,
         enabled' \in BOOLEAN, state' = state, late' \subseteq Changes,
         granted' \subseteq AllBindings, faults' \in Nat, edits' \in Nat,
         completed' \subseteq STAGES, touched' \subseteq Parts,
         CompletedStagesStand'
  PROVE  SetupInv'
<1>1. /\ pc' = "idle" /\ todo' = {} /\ missing' = {} /\ listed' = "absent"
      /\ witnessed' = [k \in Parts |-> {}] /\ UNCHANGED stage
  BY DEF Ended
<1>2. TypeOK'
  BY <1>1 DEF SetupInv, TypeOK, Changing, Status
<1>3. PhaseInv' /\ WitnessInv' /\ InspectInv' /\ ChangeInv'
  BY <1>1 DEF PhaseInv, WitnessInv, InspectInv, ChangeInv, Changing
<1> QED BY <1>2, <1>3 DEF SetupInv

(* A run that changes nothing keeps what stages have completed. *)
LEMMA CompletedKept ==
  ASSUME CompletedStagesStand, UNCHANGED <<cloud, completed, touched>>
  PROVE  CompletedStagesStand'
BY DEF CompletedStagesStand, cloud

(* What is completed stands when only resources that were absent are made, *)
(* bindings are added and APIs enabled.                                    *)
LEMMA CompletedGrows ==
  ASSUME CompletedStagesStand, UNCHANGED <<completed, touched>>,
         \A k \in Parts : state[k] = "matching" => state'[k] = "matching",
         granted \subseteq granted', enabled => enabled'
  PROVE  CompletedStagesStand'
BY TablesAreTyped DEF CompletedStagesStand

LEMMA SetupInit == Init => SetupInv
<1> SUFFICES ASSUME Init PROVE SetupInv
  OBVIOUS
<1>1. TypeOK
  BY TablesAreTyped DEF Init, TypeOK, STAGES, Status, Changing
<1>2. PhaseInv /\ WitnessInv /\ InspectInv /\ ChangeInv /\ CompletedStagesStand
  BY DEF Init, PhaseInv, WitnessInv, InspectInv, ChangeInv, CompletedStagesStand, Changing
<1> QED BY <1>1, <1>2 DEF SetupInv

----------------------------------------------------------------------------
(* One lemma per phase of a run. *)
LEMMA StartStep ==
  ASSUME SetupInv, NEW s \in STAGES, Start(s)
  PROVE  SetupInv'
<1>1. /\ pc' = "precheck" /\ stage' = s
      /\ witnessed' = [k \in Parts |-> {state[k]}]
      /\ UNCHANGED <<cloud, todo, missing, listed, faults, edits, completed, touched>>
      /\ pc = "idle"
  BY DEF Start
<1>2. todo = {} /\ missing = {}
  BY <1>1 DEF SetupInv, TypeOK, PhaseInv, Changing
<1>3. TypeOK' /\ PhaseInv'
  BY <1>1, <1>2 DEF SetupInv, TypeOK, PhaseInv, cloud, Changing
<1>4. WitnessInv'
  BY <1>1 DEF WitnessInv, cloud
<1>5. InspectInv' /\ ChangeInv'
  BY <1>1 DEF InspectInv, ChangeInv, Changing
<1> QED BY <1>1, <1>3, <1>4, <1>5, CompletedKept DEF SetupInv

LEMMA PrecheckStep ==
  ASSUME SetupInv, Precheck
  PROVE  SetupInv'
<1>1. /\ pc = "precheck" /\ pc' = IF stage = "apis" THEN "apis" ELSE "inspect"
      /\ todo' = Dependencies(stage) \cup Resources(stage)
      /\ UNCHANGED <<cloud, missing, listed, stage, faults, edits, completed,
                     touched, witnessed>>
  BY DEF Precheck, GoesOn
<1>2. stage = "apis" => todo' = {}
  BY <1>1 DEF Dependencies, Resources
<1>3. TypeOK' /\ PhaseInv'
  <2>1. todo' \subseteq Made(stage) \cup Dependencies(stage)
    BY <1>1 DEF Made
  <2> QED BY <1>1, <1>2, <2>1 DEF SetupInv, TypeOK, PhaseInv, cloud, Changing
<1>4. WitnessInv'
  BY <1>1 DEF SetupInv, WitnessInv, cloud
<1>5. InspectInv'
  <2>1. \A k \in Made(stage) : ~ Done(k)'
    BY <1>1 DEF Done, Made, Resources
  <2> QED BY <1>1, <2>1, RouterBeforeNat DEF InspectInv
<1>6. ChangeInv'
  BY <1>1 DEF ChangeInv, Changing
<1> QED BY <1>1, <1>3, <1>4, <1>5, <1>6, CompletedKept DEF SetupInv

LEMMA EnableStep ==
  ASSUME SetupInv, EnableApis
  PROVE  SetupInv'
<1>1. /\ pc = "apis" /\ pc' = "bind" /\ enabled' = TRUE
      /\ UNCHANGED <<state, granted, late, todo, missing, listed, stage, faults, edits,
                     completed, touched, witnessed>>
  BY DEF EnableApis, GoesOn
<1>2. stage = "apis" /\ todo = {} /\ missing = {}
  BY <1>1 DEF SetupInv, PhaseInv, TypeOK, Changing
<1>3. Made("apis") = {} /\ Dependencies("apis") = {} /\ Bindings("apis") = {}
  BY DEF Made, Resources, Dependencies, Bindings
<1>4. TypeOK' /\ PhaseInv' /\ WitnessInv'
  BY <1>1, <1>2 DEF SetupInv, TypeOK, PhaseInv, WitnessInv, Changing
<1>5. InspectInv' /\ ChangeInv'
  BY <1>1, <1>2, <1>3 DEF InspectInv, ChangeInv, Changing
<1> QED BY <1>1, <1>4, <1>5, CompletedGrows DEF SetupInv

LEMMA InspectStep ==
  ASSUME SetupInv, NEW k \in Parts, Inspect(k)
  PROVE  SetupInv'
<1> DEFINE boot == IF k = "vm" /\ Seen(k) # "absent" THEN {"boot"} ELSE {}
<1>1. /\ pc = "inspect" /\ IsFirst(k, todo)
      /\ Seen(k) # "differing"
      /\ k \in Dependencies(stage) \cup {"boot"} => Seen(k) # "absent"
      /\ missing' = IF Seen(k) = "absent" THEN missing \cup {k} ELSE missing
      /\ todo' = (todo \ {k}) \cup boot
      /\ listed' = IF k = "router" THEN state["nat"] ELSE listed
      /\ UNCHANGED <<cloud, pc, stage, faults, edits, completed, touched, witnessed>>
  BY DEF Inspect, GoesOn
<1>2. k \in todo /\ k \in Made(stage) \cup Dependencies(stage)
  BY <1>1, FirstIsMember DEF SetupInv, TypeOK
<1>3. Seen(k) \in witnessed[k] /\ Seen(k) \in Status /\ (Seen(k) = "matching" => Stands(k))
  <2>1. CASE k = "nat"
    <3>1. "router" \notin todo
      BY <1>1, <2>1, RouterBeforeNat
    <3> QED BY <1>1, <1>2, <2>1, <3>1 DEF SetupInv, InspectInv, TypeOK, Seen
  <2>2. CASE k # "nat"
    BY <1>1, <2>2 DEF SetupInv, WitnessInv, TypeOK, Seen, Stands
  <2> QED BY <2>1, <2>2
<1>4. Seen(k) \in {"absent", "matching"}
  BY <1>1, <1>3 DEF Status
<1>5. /\ k \in Dependencies(stage) => k \notin Made(stage)
      /\ k = "vm" /\ k \notin Dependencies(stage) => stage = "vm"
  BY <1>2 DEF Made, Dependencies, Resources, Kinds, Network, Storage
<1>6. "vm" \notin Dependencies(stage)
  BY DEF Dependencies, Kinds, Network, Storage
<1>7. TypeOK' /\ PhaseInv'
  <2>1. missing' \subseteq Resources(stage)
    BY <1>1, <1>2, TablesAreTyped DEF SetupInv, TypeOK
  <2>2. boot \subseteq Made(stage)
    BY <1>2, <1>5, <1>6, TablesAreTyped
  <2>3. listed' \in Status
    BY <1>1 DEF SetupInv, TypeOK, Parts, Kinds, Network
  <2>4. todo' \subseteq Made(stage) \cup Dependencies(stage)
    BY <1>1, <2>2 DEF SetupInv, TypeOK
  <2> QED BY <1>1, <2>1, <2>3, <2>4 DEF SetupInv, TypeOK, PhaseInv, cloud, Changing
<1>8. WitnessInv' /\ ChangeInv'
  BY <1>1 DEF SetupInv, WitnessInv, ChangeInv, cloud, Changing
<1>9. InspectInv'
  <2>1. "nat" \in todo' /\ "router" \notin todo' =>
          listed' \in witnessed'["nat"] /\ (listed' = "matching" => Stands("nat")')
    <3>1. "nat" \in Parts /\ "nat" \notin boot /\ "router" \notin boot
      BY DEF Parts, Kinds, Network
    <3>2. CASE k = "router"
      BY <1>1, <3>1, <3>2 DEF SetupInv, WitnessInv, cloud, Stands
    <3>3. CASE k # "router"
      BY <1>1, <3>1, <3>3 DEF SetupInv, InspectInv, cloud, Stands
    <3> QED BY <3>2, <3>3
  <2>2. ASSUME NEW j \in Made(stage), Done(j)'
        PROVE  Acceptable(j)' /\ (j \in Lacking' \/ Stands(j)')
    <3>1. CASE j = k
      BY <1>1, <1>3, <1>4, <2>2, <3>1 DEF Acceptable, Stands, Lacking, cloud
    <3>2. CASE j # k /\ j = "boot" /\ k = "vm"
      <4>1. Seen("vm") = "absent" /\ state["vm"] = "absent"
        BY <1>1, <2>2, <3>2 DEF Done, Seen
      <4>2. state["boot"] = "absent" /\ state["boot"] \in witnessed["boot"]
        BY <1>1, <4>1, TablesAreTyped DEF SetupInv, TypeOK, WitnessInv
      <4> QED BY <1>1, <3>2, <4>1, <4>2 DEF Acceptable, Lacking
    <3>3. CASE j # k /\ ~(j = "boot" /\ k = "vm")
      <4>1. Done(j)
        BY <1>1, <2>2, <3>3 DEF Done
      <4> QED BY <1>1, <3>3, <4>1 DEF SetupInv, InspectInv, Acceptable, Stands, Lacking, cloud
    <3> QED BY <3>1, <3>2, <3>3
  <2>3. ASSUME NEW j \in Dependencies(stage) \ todo'
        PROVE  "matching" \in witnessed'[j]
    BY <1>1, <1>3, <1>4, <2>3 DEF SetupInv, InspectInv
  <2> QED BY <1>1, <2>1, <2>2, <2>3 DEF InspectInv
<1> QED BY <1>1, <1>7, <1>8, <1>9, CompletedKept DEF SetupInv

LEMMA BeginChangesStep ==
  ASSUME SetupInv, BeginChanges
  PROVE  SetupInv'
<1>1. /\ pc = "inspect" /\ todo = {} /\ pc' = "create" /\ todo' = missing
      /\ missing' = {}
      /\ UNCHANGED <<cloud, listed, stage, faults, edits, completed, touched, witnessed>>
  BY DEF BeginChanges, GoesOn
<1>2. TypeOK' /\ PhaseInv' /\ WitnessInv'
  BY <1>1 DEF SetupInv, TypeOK, PhaseInv, WitnessInv, cloud, Changing
<1>3. InspectInv' /\ ChangeInv'
  BY <1>1, TablesAreTyped
  DEF SetupInv, InspectInv, ChangeInv, Acceptable, Stands, Done, Lacking, cloud, Changing
<1> QED BY <1>1, <1>2, <1>3, CompletedKept DEF SetupInv

(* A resource that was absent is made, as requested and with its parts.    *)
LEMMA CreatedIsMatching ==
  ASSUME SetupInv, NEW k \in Kinds, Created(k)
  PROVE  /\ state' \in [Parts -> Status]
         /\ \A j \in With(k) : state[j] = "absent" /\ state'[j] = "matching"
         /\ \A j \in Parts \ With(k) : state'[j] = state[j]
         /\ \A j \in Parts : Stands(j) /\ touched' = touched => Stands(j)'
         /\ state'["boot"] = "absent" <=> state'["vm"] = "absent"
         /\ UNCHANGED <<enabled, granted>>
<1>1. /\ state[k] = "absent" /\ UNCHANGED <<enabled, granted>>
      /\ state' = [j \in Parts |-> IF j \in With(k) THEN "matching" ELSE state[j]]
  BY DEF Created, Creatable
<1>2. /\ state \in [Parts -> Status]
      /\ state["boot"] = "absent" <=> state["vm"] = "absent"
  BY DEF SetupInv, TypeOK
<1>3. With(k) \subseteq Parts /\ \A j \in With(k) : state[j] = "absent"
  BY <1>1, <1>2, PartsAreWith DEF With
<1>4. state'["boot"] = "absent" <=> state'["vm"] = "absent"
  BY <1>1, <1>2, PartsAreWith, TablesAreTyped DEF With
<1> QED BY <1>1, <1>2, <1>3, <1>4 DEF Status, Stands

LEMMA CreateStep ==
  ASSUME SetupInv, NEW k \in Kinds, Create(k)
  PROVE  SetupInv'
<1>1. /\ pc = "create" /\ IsFirst(k, todo) /\ pc' = "readback" /\ Created(k)
      /\ witnessed' = [j \in Parts |-> witnessed[j] \cup {state'[j]}]
      /\ UNCHANGED <<late, stage, todo, missing, listed, faults, edits,
                     completed, touched>>
  BY DEF Create, Witness
<1>2. /\ state' \in [Parts -> Status]
      /\ \A j \in With(k) : state'[j] = "matching"
      /\ \A j \in Parts : Stands(j) => Stands(j)'
      /\ \A j \in Parts : state[j] = "matching" => state'[j] = "matching"
      /\ state'["boot"] = "absent" <=> state'["vm"] = "absent"
      /\ UNCHANGED <<enabled, granted>>
  BY <1>1, CreatedIsMatching DEF Status
<1>3. TypeOK' /\ PhaseInv' /\ WitnessInv'
  BY <1>1, <1>2 DEF SetupInv, TypeOK, PhaseInv, WitnessInv, Changing
<1>4. stage = "vm" => Stands("boot")'
  <2>1. k \in Resources(stage)
    BY <1>1, FirstIsMember DEF SetupInv, TypeOK
  <2>2. stage = "vm" => k = "vm"
    BY <2>1 DEF Resources
  <2> QED BY <1>2, <2>2 DEF With, Stands
<1>5. InspectInv' /\ ChangeInv'
  BY <1>1, <1>2, <1>4, TablesAreTyped
  DEF SetupInv, InspectInv, ChangeInv, Acceptable, Done, Changing
<1>6. CompletedStagesStand'
  BY <1>1, <1>2, CompletedGrows DEF SetupInv
<1> QED BY <1>3, <1>5, <1>6 DEF SetupInv

LEMMA ReadbackStep ==
  ASSUME SetupInv, NEW k \in Kinds, Readback(k)
  PROVE  SetupInv'
<1>1. /\ pc = "readback" /\ state[k] = "matching"
      /\ pc' = "create" /\ todo' = todo \ {k}
      /\ UNCHANGED <<cloud, missing, listed, stage, faults, edits, completed,
                     touched, witnessed>>
  BY DEF Readback, ReadsBack, GoesOn
<1>2. TypeOK' /\ PhaseInv' /\ WitnessInv'
  BY <1>1 DEF SetupInv, TypeOK, PhaseInv, WitnessInv, cloud, Changing
<1>3. ASSUME NEW j \in Made(stage), Done(j)'
      PROVE  Stands(j)'
  <2>1. CASE j = k
    BY <1>1, <2>1 DEF Stands, cloud
  <2>2. CASE j = "boot" /\ k = "vm"
    BY <1>1, <2>2, TablesAreTyped DEF SetupInv, ChangeInv, Stands, cloud
  <2>3. CASE j # k /\ ~(j = "boot" /\ k = "vm")
    <3>1. Done(j)
      BY <1>1, <1>3, <2>3 DEF Done
    <3> QED BY <1>1, <3>1 DEF SetupInv, ChangeInv, Stands, cloud
  <2> QED BY <2>1, <2>2, <2>3
<1>4. InspectInv' /\ ChangeInv'
  BY <1>1, <1>3 DEF SetupInv, InspectInv, ChangeInv, Acceptable, cloud, Changing
<1> QED BY <1>1, <1>2, <1>4, CompletedKept DEF SetupInv

LEMMA BeginBindingsStep ==
  ASSUME SetupInv, BeginBindings
  PROVE  SetupInv'
<1>1. /\ pc = "create" /\ todo = {} /\ pc' = "bind" /\ todo' = Bindings(stage)
      /\ UNCHANGED <<cloud, missing, listed, stage, faults, edits, completed,
                     touched, witnessed>>
  BY DEF BeginBindings, GoesOn
<1>2. TypeOK' /\ PhaseInv' /\ WitnessInv'
  BY <1>1 DEF SetupInv, TypeOK, PhaseInv, WitnessInv, cloud, Changing
<1>3. stage # "apis"
  BY <1>1 DEF SetupInv, PhaseInv
<1>4. InspectInv' /\ ChangeInv'
  BY <1>1, <1>3 DEF SetupInv, InspectInv, ChangeInv, Acceptable, Stands, Done, cloud, Changing
<1> QED BY <1>1, <1>2, <1>4, CompletedKept DEF SetupInv

LEMMA BindStep ==
  ASSUME SetupInv, NEW b \in AllBindings, Bind(b)
  PROVE  SetupInv'
<1>1. /\ pc = "bind" /\ granted' = granted \cup {b} /\ todo' = todo \ {b}
      /\ UNCHANGED <<enabled, state, late, pc, missing, listed, stage, faults, edits,
                     completed, touched, witnessed>>
  BY DEF Bind, Granted, GoesOn
<1>2. TypeOK' /\ PhaseInv' /\ WitnessInv'
  BY <1>1 DEF SetupInv, TypeOK, PhaseInv, WitnessInv, Changing
<1>3. InspectInv' /\ ChangeInv'
  BY <1>1 DEF SetupInv, InspectInv, ChangeInv, Acceptable, Stands, Changing
<1>4. CompletedStagesStand'
  BY <1>1, CompletedGrows DEF SetupInv
<1> QED BY <1>2, <1>3, <1>4 DEF SetupInv

LEMMA CompleteStep ==
  ASSUME SetupInv, Complete
  PROVE  SetupInv'
<1>1. /\ pc = "bind" /\ todo = {} /\ completed' = completed \cup ({stage} \ {"check"})
      /\ Ended /\ UNCHANGED <<cloud, faults, edits, touched>>
  BY DEF Complete
<1>2. CompletedStagesStand'
  <2> SUFFICES ASSUME NEW s \in completed'
               PROVE  /\ \A k \in Made(s) \ touched' : state'[k] = "matching"
                      /\ \A b \in Bindings(s) :
                           Bound(b) \cap touched' = {} => b \in granted'
                      /\ s = "apis" => enabled'
    BY DEF CompletedStagesStand
  <2>1. CASE s \in completed
    BY <1>1, <2>1 DEF SetupInv, CompletedStagesStand, cloud
  <2>2. CASE s = stage
    BY <1>1, <2>2 DEF SetupInv, ChangeInv, Stands, cloud
  <2> QED BY <1>1, <2>1, <2>2
<1> QED BY <1>1, <1>2, EndedInv DEF SetupInv, TypeOK, cloud

----------------------------------------------------------------------------
(* A run that stops leaves the cloud as it is; the change whose answer it  *)
(* lost is under way.                                                      *)
LEMMA StopStep ==
  ASSUME SetupInv, UNCHANGED <<enabled, state, granted>>, late' \subseteq Changes,
         Stopped \/ Faulted
  PROVE  SetupInv'
<1>1. Ended /\ UNCHANGED <<edits, completed, touched>> /\ faults' \in Nat
  BY DEF Stopped, Faulted, SetupInv, TypeOK
<1>2. CompletedStagesStand'
  BY <1>1 DEF SetupInv, CompletedStagesStand
<1> QED BY <1>1, <1>2, EndedInv DEF SetupInv, TypeOK

(* A change under way is done: what stands still does.                     *)
LEMMA AppliesStep ==
  ASSUME SetupInv, NEW x \in Changes, Applies(x)
  PROVE  SetupInv'
<1>1. /\ late' = late \ {x}
      /\ witnessed' = IF pc = "idle" THEN witnessed
                      ELSE [j \in Parts |-> witnessed[j] \cup {state'[j]}]
      /\ UNCHANGED <<stage, pc, todo, missing, listed, faults, edits, completed, touched>>
  BY DEF Applies, Witness, run
<1>2. /\ enabled' \in BOOLEAN /\ (enabled => enabled')
      /\ state' \in [Parts -> Status]
      /\ state'["boot"] = "absent" <=> state'["vm"] = "absent"
      /\ \A j \in Parts : state[j] = "matching" => state'[j] = "matching"
      /\ \A j \in Parts : Stands(j) => Stands(j)'
      /\ granted \subseteq granted' /\ granted' \subseteq AllBindings
  <2>1. CASE x = "apis" /\ enabled' = TRUE /\ UNCHANGED <<state, granted>>
    BY <1>1, <2>1 DEF SetupInv, TypeOK, Stands
  <2>2. CASE x \in Kinds /\ Created(x)
    BY <1>1, <2>2, CreatedIsMatching DEF SetupInv, TypeOK, Status
  <2>3. CASE x \in AllBindings /\ Granted(x)
    BY <1>1, <2>3 DEF Granted, SetupInv, TypeOK, Stands
  <2> QED BY <2>1, <2>2, <2>3 DEF Applies
<1>3. \A j \in Parts : witnessed[j] \subseteq witnessed'[j]
  BY <1>1
<1>4. TypeOK' /\ PhaseInv' /\ WitnessInv'
  <2>1. witnessed' \in [Parts -> SUBSET Status]
    BY <1>1, <1>2 DEF SetupInv, TypeOK
  <2> QED BY <1>1, <1>2, <2>1 DEF SetupInv, TypeOK, PhaseInv, WitnessInv
<1>5. \A j \in Parts : Acceptable(j) => Acceptable(j)'
  BY <1>3 DEF Acceptable
<1>6. InspectInv'
  <2>1. "nat" \in Parts
    BY DEF Parts, Kinds, Network
  <2> QED BY <1>1, <1>2, <1>3, <1>5, <2>1, TablesAreTyped
          DEF SetupInv, InspectInv, Done, Lacking
<1>7. ChangeInv'
  BY <1>1, <1>2, <1>3, <1>5, TablesAreTyped DEF SetupInv, ChangeInv, Done
<1>8. CompletedStagesStand'
  BY <1>1, <1>2, CompletedGrows DEF SetupInv
<1> QED BY <1>4, <1>6, <1>7, <1>8 DEF SetupInv

(* What others change is touched; a run has witnessed what they made of it. *)
LEMMA EditStep ==
  ASSUME SetupInv, NEW k \in Parts, NEW status \in Status, Edit(k, status)
  PROVE  SetupInv'
<1>1. /\ state' = [j \in Parts |-> IF j \in Edited(k, status) THEN status ELSE state[j]]
      /\ granted' = IF status = "absent"
                    THEN {b \in granted : k \notin Bound(b)} ELSE granted
      /\ edits' = edits + 1 /\ touched' = touched \cup Edited(k, status)
      /\ witnessed' = IF pc = "idle" THEN witnessed
                      ELSE [j \in Parts |-> witnessed[j] \cup {state'[j]}]
      /\ UNCHANGED <<enabled, late, stage, pc, todo, missing, listed, faults, completed>>
  BY DEF Edit, Witness, run
<1>a. /\ state \in [Parts -> Status] /\ state' \in [Parts -> Status]
      /\ Edited(k, status) \subseteq Parts /\ k \in Edited(k, status)
  BY <1>1, TablesAreTyped DEF SetupInv, TypeOK, Edited, With
<1>b. state'["boot"] = "absent" <=> state'["vm"] = "absent"
  <2>1. k = "boot" => state["boot"] # "absent" /\ status # "absent"
    BY DEF Edit
  <2>2. state["boot"] = "absent" <=> state["vm"] = "absent"
    BY DEF SetupInv, TypeOK
  <2> QED BY <1>1, <2>1, <2>2, TablesAreTyped DEF Edited, With
<1>2. /\ state' \in [Parts -> Status] /\ touched' \subseteq Parts
      /\ k \in touched'
  BY <1>1, <1>a DEF SetupInv, TypeOK
<1>3. \A j \in Parts : /\ witnessed[j] \subseteq witnessed'[j]
                       /\ j \notin touched' => state'[j] = state[j]
  BY <1>1, <1>a
<1>4. \A b : Bound(b) \cap touched' = {} /\ b \in granted => b \in granted'
  BY <1>1, <1>2
<1>5. TypeOK' /\ PhaseInv' /\ WitnessInv'
  <2>1. witnessed' \in [Parts -> SUBSET Status]
    BY <1>1, <1>2 DEF SetupInv, TypeOK
  <2>2. TypeOK'
    BY <1>1, <1>2, <1>b, <2>1 DEF SetupInv, TypeOK
  <2>3. PhaseInv' /\ WitnessInv'
    BY <1>1, <1>2 DEF SetupInv, PhaseInv, WitnessInv
  <2> QED BY <2>2, <2>3
<1>6. \A j \in Parts : /\ Acceptable(j) => Acceptable(j)'
                       /\ Stands(j) => Stands(j)'
  BY <1>1, <1>3 DEF Acceptable, Stands
<1>7. InspectInv'
  <2>1. "nat" \in Parts
    BY DEF Parts, Kinds, Network
  <2> QED BY <1>1, <1>3, <1>6, <2>1, TablesAreTyped
          DEF SetupInv, InspectInv, Done, Lacking
<1>8. ChangeInv'
  <2>3. pc \in Changing => /\ \A j \in Made(stage) : Acceptable(j)'
                           /\ \A j \in Dependencies(stage) : "matching" \in witnessed'[j]
    BY <1>3, <1>6, TablesAreTyped DEF SetupInv, ChangeInv
  <2>4. /\ pc \in {"create", "readback"} =>
             \A j \in Made(stage) : Done(j) => Stands(j)'
        /\ pc = "readback" /\ stage = "vm" => Stands("boot")'
        /\ pc = "bind" => \A j \in Made(stage) : Stands(j)'
    BY <1>6, TablesAreTyped DEF SetupInv, ChangeInv
  <2>5. pc = "bind" =>
          /\ \A b \in Bindings(stage) \ todo : Bound(b) \cap touched' = {} => b \in granted'
          /\ stage = "apis" => enabled
    BY <1>1, <1>4 DEF SetupInv, ChangeInv
  <2> QED BY <1>1, <2>3, <2>4, <2>5 DEF ChangeInv, Done
<1>9. CompletedStagesStand'
  BY <1>1, <1>3, <1>4, TablesAreTyped DEF SetupInv, CompletedStagesStand
<1> QED BY <1>5, <1>7, <1>8, <1>9 DEF SetupInv

LEMMA SetupStep == SetupInv /\ [Next]_vars => SetupInv'
<1> SUFFICES ASSUME SetupInv, [Next]_vars PROVE SetupInv'
  OBVIOUS
<1>a. late \subseteq Changes
  BY DEF SetupInv, TypeOK
<1>1. CASE \E s \in STAGES : Start(s)
  BY <1>1, StartStep
<1>2. CASE Command
  <2>1. CASE Precheck \/ EnableApis \/ BeginChanges \/ BeginBindings \/ Complete
    BY <2>1, PrecheckStep, EnableStep, BeginChangesStep, BeginBindingsStep, CompleteStep
  <2>2. CASE \/ \E k \in Parts : Inspect(k)
             \/ \E k \in Kinds : Create(k) \/ Readback(k)
    BY <2>2, InspectStep, CreateStep, ReadbackStep
  <2>3. CASE \/ \E k \in Parts : InspectStops(k)
             \/ \E k \in Kinds : CreateRefused(k) \/ ReadbackStops(k)
    BY <2>3, StopStep, <1>a DEF InspectStops, CreateRefused, ReadbackStops, cloud
  <2>4. CASE \E b \in AllBindings : Bind(b)
    BY <2>4, BindStep
  <2>5. CASE \E b \in AllBindings : BindRefused(b)
    BY <2>5, StopStep, <1>a DEF BindRefused, cloud
  <2> QED BY <1>2, <2>1, <2>2, <2>3, <2>4, <2>5 DEF Command
<1>3. CASE Trouble
  <2>1. CASE Fail
    BY <2>1, StopStep, <1>a DEF Fail, cloud
  <2>2. CASE \E x \in Changes : Unanswered(x)
    BY <2>2, StopStep, <1>a DEF Unanswered
  <2>3. CASE \E x \in Changes : Applies(x)
    BY <2>3, AppliesStep
  <2> QED BY <1>3, <2>1, <2>2, <2>3 DEF Trouble
<1>4. CASE \E k \in Parts, status \in Status : Edit(k, status)
  BY <1>4, EditStep
<1>5. CASE UNCHANGED vars
  BY <1>5 DEF vars, cloud, SetupInv, TypeOK, PhaseInv, WitnessInv, InspectInv,
              ChangeInv, CompletedStagesStand, Acceptable, Stands, Done, Lacking
<1> QED BY <1>1, <1>2, <1>3, <1>4, <1>5 DEF Next

LEMMA SetupInvariance == Spec => []SetupInv
BY SetupInit, SetupStep, PTL DEF Spec

(* Every variable keeps its type, and a run creates resources of its own   *)
(* stage only and adds bindings of its own stage only.                     *)
THEOREM SetupIsTyped == Spec => []TypeOK
BY SetupInvariance, PTL DEF SetupInv

LEMMA InspectedFirst == SetupInv => ChangesFollowInspection
BY DEF SetupInv, ChangeInv, Acceptable, ChangesFollowInspection

(* No run changes anything if something its stage makes has differed ever  *)
(* since the run began.                                                    *)
THEOREM SetupInspectsFirst == Spec => []ChangesFollowInspection
BY SetupInvariance, InspectedFirst, PTL

LEMMA DependenciesFirst == SetupInv => ChangesRestOnDependencies
<1>1. /\ "sa" \in Dependencies("storage")
      /\ Kinds \ {"vm"} \subseteq Dependencies("vm")
  BY DEF Dependencies, Kinds, Network, Storage
<1> QED BY <1>1 DEF SetupInv, ChangeInv, ChangesRestOnDependencies

(* No run changes anything that rests on a stage not found as requested.   *)
THEOREM SetupRestsOnEarlierStages == Spec => []ChangesRestOnDependencies
BY SetupInvariance, DependenciesFirst, PTL

(* What stages report complete stands, whatever was interrupted or lost.   *)
THEOREM SetupStagesStand == Spec => []CompletedStagesStand
BY SetupInvariance, PTL DEF SetupInv
=============================================================================
