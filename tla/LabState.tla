------------------------------ MODULE LabState ------------------------------
(***************************************************************************)
(* The durable record of one full-tier lab and the operations of           *)
(* LabStateStore on it (src/cks_simulator/state.py).  The record is one    *)
(* JSON file replaced atomically, so every operation below is one step:    *)
(* the whole record changes, or nothing does.  Every operation reloads the *)
(* file, and a load rejects a record that __post_init__ rejects.           *)
(*                                                                         *)
(* One lab name is modelled.  Its UUID is drawn once, by Claim, and stands *)
(* for the variables themselves; an operation called with another UUID is  *)
(* refused and changes nothing.  The journal is represented by its last    *)
(* phase: the code reads the earlier entries only to print them and to     *)
(* size a disk check.  Refused calls change nothing and are stuttering.    *)
(***************************************************************************)

CONSTANTS
  Roles,          \* the machine roles of a full lab (_FULL_LIMA_ROLES)
  Profiles,       \* memory profiles
  Specs,          \* digests of the provisioning inputs
  Facts,          \* complete observation sets: addresses, UUIDs and bundle digest of every machine
  Healths,        \* health fingerprints
  Scenarios,      \* scenario identifiers
  Attempts,       \* attempt UUIDs
  None            \* an absent optional field

ASSUME RolesAssumption == Roles # {}

VARIABLES
  phase,          \* the phase of the last journal entry, "missing" before the claim
  profile, spec,  \* immutable provisioning inputs
  inventory,      \* the roles whose machines are declared, handles derived from the UUID
  observations,   \* verified machine facts, all of them or none
  health,         \* the attested health baseline
  active          \* the one write-ahead scenario attempt

store == <<phase, profile, spec, inventory, observations, health, active>>

-----------------------------------------------------------------------------

U4Phases == {"vms-created", "os-ready", "cluster-ready", "addons-ready"}

LabPhase ==
  U4Phases \cup {"declared", "candidate-ready", "validated", "scenario-prepared",
                 "graded", "degraded", "cleanup-pending", "destroyed"}

\* The phases a journal entry may follow, _ALLOWED_TRANSITIONS.
AllowedTransitions ==
       {"declared", "degraded"} \X {"vms-created"}
  \cup {"vms-created", "degraded"} \X {"os-ready"}
  \cup {"os-ready", "degraded"} \X {"cluster-ready"}
  \cup {"cluster-ready", "degraded"} \X {"addons-ready"}
  \cup {"addons-ready"} \X {"candidate-ready"}
  \cup {"candidate-ready", "scenario-prepared", "graded", "degraded"} \X {"validated"}
  \cup {"validated"} \X {"scenario-prepared"}
  \cup {"scenario-prepared"} \X {"graded"}
  \cup (LabPhase \ {"degraded", "cleanup-pending", "destroyed"}) \X {"degraded"}
  \cup (LabPhase \ {"cleanup-pending", "destroyed"}) \X {"cleanup-pending"}
  \cup {"declared", "validated", "cleanup-pending"} \X {"destroyed"}

ActiveScenario == [scenario : Scenarios, attempt : Attempts, baseline : Healths]

ASSUME NoneAssumption ==
  None \notin Profiles \cup Specs \cup Facts \cup Healths \cup ActiveScenario

\* What a load demands of the record beyond the types of its fields.
ValidRecord ==
  /\ observations # None => inventory = Roles
  /\ phase = "validated" => active = None
  /\ phase = "scenario-prepared" /\ health # None => active # None
  /\ active # None => health # None /\ active.baseline = health

-----------------------------------------------------------------------------

Claim ==
  /\ phase = "missing"
  /\ phase' = "declared"
  /\ UNCHANGED <<profile, spec, inventory, observations, health, active>>

BindProvisioningProfile(p) ==
  /\ phase # "missing"
  /\ profile = None /\ spec = None /\ inventory = {}
  /\ profile' = p
  /\ UNCHANGED <<phase, spec, inventory, observations, health, active>>

BindProvisioningSpec(q) ==
  /\ phase # "missing"
  /\ spec = None /\ inventory = {} /\ observations = None
  /\ spec' = q
  /\ UNCHANGED <<phase, profile, inventory, observations, health, active>>

DeclareInventory(roles) ==
  /\ phase = "declared"
  /\ inventory = {} /\ roles # {}
  /\ inventory' = roles
  /\ UNCHANGED <<phase, profile, spec, observations, health, active>>

\* A replay of the recorded facts is a no-op, other facts are refused.
RecordMachineObservations(f) ==
  /\ phase \notin {"missing", "cleanup-pending", "destroyed"}
  /\ inventory = Roles
  /\ observations = None
  /\ observations' = f
  /\ UNCHANGED <<phase, profile, spec, inventory, health, active>>

\* Bug: an open claim does not stop an attestation.
AttestValidatedOverClaim(h) ==
  /\ phase \in {"validated", "candidate-ready"}
  /\ phase' = "validated" /\ health' = h
  /\ UNCHANGED <<profile, spec, inventory, observations, active>>

\* A validated lab keeps its baseline; only one written before baselines
\* existed still receives it here.
AttestValidated(h) ==
  /\ \/ /\ phase = "validated"
        /\ health = None
        /\ UNCHANGED phase
     \/ /\ phase = "candidate-ready"
        /\ active = None
        /\ phase' = "validated"
  /\ health' = h
  /\ UNCHANGED <<profile, spec, inventory, observations, active>>

\* Bug: a lab without a baseline is accepted.
PrepareScenarioUnattested(s, a) ==
  /\ phase = "validated" /\ active = None
  /\ active' = [scenario |-> s, attempt |-> a, baseline |-> health]
  /\ phase' = "scenario-prepared"
  /\ UNCHANGED <<profile, spec, inventory, observations, health>>

PrepareScenario(s, a) ==
  /\ phase = "validated"
  /\ health # None
  /\ active = None
  /\ active' = [scenario |-> s, attempt |-> a, baseline |-> health]
  /\ phase' = "scenario-prepared"
  /\ UNCHANGED <<profile, spec, inventory, observations, health>>

\* Bug: any phase accepts a restore.
RestoreScenarioAnywhere(s, a, h, reached) ==
  /\ active # None
  /\ active.scenario = s /\ active.attempt = a /\ h = active.baseline /\ reached
  /\ active' = None /\ health' = h /\ phase' = "validated"
  /\ UNCHANGED <<profile, spec, inventory, observations>>

\* reached: the guests' scenario fingerprint is the active attempt's restore
\* fingerprint.
RestoreScenario(s, a, h, reached) ==
  /\ phase \in {"scenario-prepared", "degraded"}
  /\ active # None
  /\ active.scenario = s /\ active.attempt = a
  /\ h = active.baseline
  /\ reached
  /\ active' = None
  /\ health' = h
  /\ phase' = "validated"
  /\ UNCHANGED <<profile, spec, inventory, observations>>

\* Bug: a phase is recorded without the observations it rests on.
AdvanceUnobserved(target) ==
  /\ phase # "missing" /\ phase # "degraded"
  /\ <<phase, target>> \in AllowedTransitions
  /\ target \notin {"validated", "scenario-prepared", "graded"}
  /\ phase' = target
  /\ UNCHANGED <<profile, spec, inventory, observations, health, active>>

Advance(target) ==
  /\ phase # "missing"
  /\ target \notin {"validated", "scenario-prepared", "graded"}
  /\ ~(phase = "degraded" /\ target \in U4Phases)
  /\ <<phase, target>> \in AllowedTransitions
  /\ target \in U4Phases => observations # None
  /\ phase' = target
  /\ UNCHANGED <<profile, spec, inventory, observations, health, active>>

\* Bug: recovery replaces the recorded facts.
RecoverVerifiedPhaseDrifted(target, f) ==
  /\ target \in U4Phases /\ phase = "degraded" /\ inventory = Roles
  /\ observations' = f /\ phase' = target
  /\ UNCHANGED <<profile, spec, inventory, health, active>>

\* Bug: recovery drops the open claim.
RecoverVerifiedPhaseForgetting(target, f) ==
  /\ target \in U4Phases /\ phase = "degraded" /\ inventory = Roles
  /\ observations \in {None, f} /\ observations' = f
  /\ phase' = target /\ active' = None
  /\ UNCHANGED <<profile, spec, inventory, health>>

RecoverVerifiedPhase(target, f) ==
  /\ target \in U4Phases
  /\ phase = "degraded"
  /\ inventory = Roles
  /\ observations \in {None, f}
  /\ observations' = f
  /\ phase' = target
  /\ UNCHANGED <<profile, spec, inventory, health, active>>

-----------------------------------------------------------------------------

Fresh ==
  /\ phase = "missing"
  /\ profile = None /\ spec = None /\ inventory = {}
  /\ observations = None /\ health = None /\ active = None

\* Files written before baselines, attempts and profiles were recorded stay
\* readable (comments in __post_init__ and on the GRADED transition).
Legacy ==
  /\ phase \in {"validated", "scenario-prepared", "graded"}
  /\ profile = None /\ spec \in Specs /\ inventory = Roles
  /\ observations \in Facts /\ health = None /\ active = None

StoreInit == Fresh \/ Legacy

StoreNext ==
  \/ Claim
  \/ \E p \in Profiles : BindProvisioningProfile(p)
  \/ \E q \in Specs : BindProvisioningSpec(q)
  \/ \E roles \in SUBSET Roles : DeclareInventory(roles)
  \/ \E f \in Facts : RecordMachineObservations(f)
  \/ \E h \in Healths : AttestValidated(h)
  \/ \E s \in Scenarios, a \in Attempts : PrepareScenario(s, a)
  \/ \E s \in Scenarios, a \in Attempts, h \in Healths, reached \in BOOLEAN :
       RestoreScenario(s, a, h, reached)
  \/ \E target \in LabPhase : Advance(target)
  \/ \E target \in U4Phases, f \in Facts : RecoverVerifiedPhase(target, f)

StoreSpec == StoreInit /\ [][StoreNext]_store

-----------------------------------------------------------------------------

StoreTypeOK ==
  /\ phase \in LabPhase \cup {"missing"}
  /\ profile \in Profiles \cup {None}
  /\ spec \in Specs \cup {None}
  /\ inventory \subseteq Roles
  /\ observations \in Facts \cup {None}
  /\ health \in Healths \cup {None}
  /\ active = None \/ active \in ActiveScenario

\* No sequence of calls writes a record that the next load would reject, which
\* would make the lab unusable and undeletable through the tool.
RecordsStayLoadable == ValidRecord

\* A phase past "declared" is only reached by a lab whose machines have been
\* declared and, unless it only degraded or was abandoned, observed: the
\* verified phases rest on recorded evidence.
VerifiedPhases ==
  U4Phases \cup {"candidate-ready", "validated", "scenario-prepared", "graded"}

VerifiedPhasesHaveEvidence ==
  phase \in VerifiedPhases => observations # None

\* The write-ahead claim of a scenario outlives every failure: once written, it
\* is erased only by a restore, which leaves the baseline as it was.
ClaimErasedOnlyByRestore ==
  [][active # None /\ active' # active =>
       /\ active' = None
       /\ phase' = "validated"
       /\ health' = active.baseline]_store

\* Every step of the journal is one the table allows, whichever operation
\* appends it, and a tombstone is final.
JournalFollowsTable ==
  [][phase' # phase => phase = "missing" \/ <<phase, phase'>> \in AllowedTransitions]_store

\* Inventory, provisioning inputs and machine facts never change once written.
BoundFieldsAreImmutable ==
  [][/\ profile # None => profile' = profile
     /\ spec # None => spec' = spec
     /\ inventory # {} => inventory' = inventory
     /\ observations # None => observations' = observations]_store

=============================================================================
