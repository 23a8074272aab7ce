---------------------------- MODULE FullLab_proofs ----------------------------
(* Proofs about FullLab: its steps are steps of the durable record, and its  *)
(* safety invariants hold for every set of roles, inputs and scenarios.      *)
EXTENDS FullLab, LabState_proofs

\* What a running operation may rely on between two of its steps.  The lock
\* makes it true: no other operation writes the record in between.
ControlMatchesRecord ==
  /\ job.pc = "bind-profile" => job.profile \in Profiles
  /\ job.pc \in {"bind-profile", "bind-spec"} => job.spec \in Specs
  /\ job.pc \in {"declare", "check", "ensure", "verify"} => spec # None
  /\ job.pc \in {"check", "ensure", "verify"} => inventory = Roles
  /\ job.pc = "verify" => job.seen \in Facts /\ Present = Roles
  /\ job.pc \in {"ensure", "verify", "degrade", "prepare", "restore"}
       => phase \notin {"missing", "cleanup-pending", "destroyed"}
  /\ job.pc \in {"discover", "break-glass", "delete"} => phase = "cleanup-pending"
  /\ job.pc \in {"claim", "prepare", "restore"} => job.scenario \in Scenarios
  /\ job.pc = "prepare" => active # None /\ active.scenario = job.scenario

LabInv ==
  /\ StoreInv
  /\ TypeOK
  /\ ControlMatchesRecord
  /\ MachinesAreClaimed
  /\ VerifiedLabsAreWhole
  /\ DestroyedMeansGone
  /\ MutationsAreClaimed

-----------------------------------------------------------------------------
(* Every step of an operation is one step of the durable record, or leaves it *)
(* alone.                                                                    *)

LEMMA StoreUnchanged == UNCHANGED store => [StoreNext]_store
  OBVIOUS

LEMMA ProvisionRefinesStore == LabInv /\ Provision => [StoreNext]_store
<1> SUFFICES ASSUME LabInv, Provision
             PROVE  [StoreNext]_store
  OBVIOUS
<1> USE DEF LabInv
<1>1. ASSUME NEW p \in Profiles, NEW q \in Specs, ProvisionStart(p, q)
      PROVE  [StoreNext]_store
  BY <1>1 DEF ProvisionStart, StoreNext
<1>2. CASE BindProfile
  BY <1>2 DEF BindProfile, ControlMatchesRecord, StoreNext
<1>3. CASE BindSpec
  BY <1>3 DEF BindSpec, ControlMatchesRecord, StoreNext
<1>4. CASE DeclareMachines
  BY <1>4 DEF DeclareMachines, StoreNext
<1>5. CASE CheckInputs
  BY <1>5 DEF CheckInputs
<1>6. ASSUME NEW r \in Roles, EnsureMachine(r) \/ EnsureFails(r)
      PROVE  [StoreNext]_store
  BY <1>6 DEF EnsureMachine, EnsureFails
<1>7. ASSUME NEW f \in Facts, ObserveMachines(f)
      PROVE  [StoreNext]_store
  BY <1>7 DEF ObserveMachines, StoreNext
<1>8. CASE ConvergeStage
  <2>1. job.seen \in Facts /\ job.stage \in LabPhase
    BY <1>8 DEF ConvergeStage, ControlMatchesRecord, TypeOK, Job, Stages, LabPhase
  <2>2. RecordVerifiedPhase(job.stage)
    BY <1>8 DEF ConvergeStage
  <2>3. CASE RecoverVerifiedPhase(job.stage, job.seen)
    BY <2>1, <2>3 DEF StoreNext, RecoverVerifiedPhase
  <2>4. CASE Advance(job.stage)
    BY <2>1, <2>4 DEF StoreNext
  <2>5. QED
    BY <2>2, <2>3, <2>4 DEF RecordVerifiedPhase
<1>9. CASE ProvisionFails
  BY <1>9 DEF ProvisionFails
<1>10. CASE MarkDegraded
  BY <1>10 DEF MarkDegraded, StoreNext, LabPhase
<1>11. QED
  BY <1>1, <1>2, <1>3, <1>4, <1>5, <1>6, <1>7, <1>8, <1>9, <1>10 DEF Provision

LEMMA ScenarioRefinesStore == LabInv /\ Scenario => [StoreNext]_store
<1> SUFFICES ASSUME LabInv, Scenario
             PROVE  [StoreNext]_store
  OBVIOUS
<1> USE DEF LabInv
<1>1. ASSUME NEW s \in Scenarios, PrepareStart(s)
      PROVE  [StoreNext]_store
  <2>1. CASE phase = "validated" /\ UNCHANGED store
    BY <2>1
  <2>2. CASE /\ AllRunning /\ observations # None
             /\ AttestValidated(HealthOf[<<spec, observations>>])
    <3>1. spec \in Specs
      BY <2>2, RolesAssumption DEF AllRunning, MachinesAreClaimed, StoreInv, StoreTypeOK
    <3>2. HealthOf[<<spec, observations>>] \in Healths
      BY <2>2, <3>1, FullLabAssumption DEF StoreInv, StoreTypeOK
    <3>3. QED
      BY <2>2, <3>2 DEF StoreNext
  <2>3. QED
    BY <1>1, <2>1, <2>2 DEF PrepareStart
<1>2. ASSUME NEW s \in Scenarios, GradeFails(s) \/ RestoreStart(s)
      PROVE  [StoreNext]_store
  BY <1>2 DEF GradeFails, RestoreStart
<1>3. ASSUME NEW a \in Attempts, ClaimScenario(a)
      PROVE  [StoreNext]_store
  BY <1>3 DEF ClaimScenario, ControlMatchesRecord, StoreNext
<1>4. ASSUME NEW r \in Roles, MutateRole(r) \/ MutateFails(r) \/ RestoreRole(r)
      PROVE  [StoreNext]_store
  BY <1>4 DEF MutateRole, MutateFails, RestoreRole
<1>5. CASE PrepareDone \/ UntouchedGradeFails \/ RestoreFails
  BY <1>5 DEF PrepareDone, UntouchedGradeFails, RestoreFails
<1>6. CASE RestoreDone
  <2> DEFINE h == HealthOf[<<spec, observations>>]
             reached == mutated \cap On(job.scenario) = {}
  <2>1. RestoreScenario(job.scenario, active.attempt, h, reached) /\ job.scenario \in Scenarios
    BY <1>6 DEF RestoreDone, ControlMatchesRecord
  <2>2. active.attempt \in Attempts /\ active.baseline \in Healths
    BY <2>1, NoneAssumption DEF RestoreScenario, StoreInv, StoreTypeOK, ActiveScenario
  <2>3. h \in Healths /\ reached \in BOOLEAN
    BY <2>1, <2>2 DEF RestoreScenario
  <2>4. QED
    BY <2>1, <2>2, <2>3 DEF StoreNext
<1>7. QED
  BY <1>1, <1>2, <1>3, <1>4, <1>5, <1>6 DEF Scenario

LEMMA DestroyRefinesStore == LabInv /\ Destroy => [StoreNext]_store
<1> SUFFICES ASSUME LabInv, Destroy
             PROVE  [StoreNext]_store
  OBVIOUS
<1>1. ASSUME NEW point \in {"discover", "break-glass"}, DestroyStart(point)
      PROVE  [StoreNext]_store
  BY <1>1 DEF DestroyStart, StoreNext, LabPhase
<1>2. CASE AuthorizeOrdinary \/ AuthorizeBreakGlass \/ DestroyRefused
  BY <1>2 DEF AuthorizeOrdinary, AuthorizeBreakGlass, DestroyRefused
<1>3. ASSUME NEW r \in Roles, DeleteMachine(r) \/ DeleteFails(r)
      PROVE  [StoreNext]_store
  BY <1>3 DEF DeleteMachine, DeleteFails
<1>4. CASE ConcludeDestroy
  BY <1>4 DEF ConcludeDestroy, StoreNext, LabPhase
<1>5. QED
  BY <1>1, <1>2, <1>3, <1>4 DEF Destroy

LEMMA StepRefinesStore == LabInv /\ [Next]_vars => [StoreNext]_store
<1>1. Crash => UNCHANGED store
  BY DEF Crash
<1>2. ASSUME NEW r \in Roles
      PROVE  VmStops(r) => UNCHANGED store
  BY DEF VmStops, store
<1>3. UNCHANGED vars => UNCHANGED store
  BY DEF vars
<1>4. QED
  BY <1>1, <1>2, <1>3, ProvisionRefinesStore, ScenarioRefinesStore, DestroyRefinesStore DEF Next

-----------------------------------------------------------------------------
(* The steps of each operation preserve the invariant.                       *)

LEMMA IdleType == Idle \in Job
  BY DEF Idle, Job, ControlPoint, Stages, U4Phases

\* Every update of the running operation keeps its type.
LEMMA JobUpdates ==
  job \in Job =>
    /\ \A point \in ControlPoint : [job EXCEPT !.pc = point] \in Job
    /\ \A point \in ControlPoint, roles \in SUBSET Roles :
         [job EXCEPT !.pc = point, !.pending = roles] \in Job
    /\ \A r \in Roles : [job EXCEPT !.pending = @ \ {r}] \in Job
    /\ \A r \in Roles : [job EXCEPT !.pending = @ \ {r}, !.failed = TRUE] \in Job
    /\ \A f \in Facts : [job EXCEPT !.pc = "verify", !.seen = f, !.stage = "vms-created"] \in Job
    /\ [job EXCEPT !.stage = NextStage(@)] \in Job
<1>1. "verify" \in ControlPoint
  BY DEF ControlPoint
<1>2. "vms-created" \in Stages /\ NextStage(job.stage) \in Stages
  BY DEF NextStage, Stages, U4Phases
<1>3. QED
  BY <1>1, <1>2 DEF Job

\* Every operation starts with locals of the right types.
LEMMA JobStarts ==
  /\ \A point \in ControlPoint : [Idle EXCEPT !.pc = point] \in Job
  /\ \A point \in ControlPoint, p \in Profiles, q \in Specs :
       [Idle EXCEPT !.pc = point, !.profile = p, !.spec = q] \in Job
  /\ \A point \in ControlPoint, s \in Scenarios :
       [Idle EXCEPT !.pc = point, !.scenario = s] \in Job
  /\ \A point \in ControlPoint, s \in Scenarios, roles \in SUBSET Roles :
       [Idle EXCEPT !.pc = point, !.scenario = s, !.pending = roles] \in Job
<1>1. "vms-created" \in Stages
  BY DEF Stages, U4Phases
<1>2. QED
  BY <1>1 DEF Job, Idle

LEMMA JobTyped == TypeOK /\ ControlMatchesRecord /\ Next => job' \in Job
<1> SUFFICES ASSUME TypeOK, ControlMatchesRecord, Next
             PROVE  job' \in Job
  OBVIOUS
<1>1. job \in Job
  BY DEF TypeOK
<1>2. ASSUME NEW point \in ControlPoint, Goto(point) \/ Return
      PROVE  job' \in Job
  BY <1>1, <1>2, IdleType, JobUpdates DEF Goto, Return
<1>3. CASE Provision
  <2>1. ASSUME NEW p \in Profiles, NEW q \in Specs, ProvisionStart(p, q)
        PROVE  job' \in Job
    <3>1. "bind-profile" \in ControlPoint
      BY DEF ControlPoint
    <3>2. QED
      BY <2>1, <3>1, JobStarts DEF ProvisionStart
  <2>2. CASE BindProfile \/ BindSpec \/ DeclareMachines \/ ProvisionFails \/ MarkDegraded
    <3>1. {"bind-spec", "declare", "check", "degrade"} \subseteq ControlPoint
      BY DEF ControlPoint
    <3>2. QED
      BY <1>2, <2>2, <3>1 DEF BindProfile, BindSpec, DeclareMachines, ProvisionFails, MarkDegraded
  <2>3. CASE CheckInputs
    <3>1. {"ensure", "degrade"} \subseteq ControlPoint
      BY DEF ControlPoint
    <3>2. [job EXCEPT !.pc = "ensure", !.pending = Roles] \in Job
      BY <1>1, <3>1, JobUpdates
    <3>3. QED
      BY <1>2, <2>3, <3>1, <3>2 DEF CheckInputs
  <2>4. ASSUME NEW r \in Roles, EnsureMachine(r) \/ EnsureFails(r)
        PROVE  job' \in Job
    <3>1. {"ensure", "degrade"} \subseteq ControlPoint
      BY DEF ControlPoint
    <3>2. QED
      BY <1>1, <1>2, <2>4, <3>1, JobUpdates DEF EnsureMachine, EnsureFails
  <2>5. ASSUME NEW f \in Facts, ObserveMachines(f)
        PROVE  job' \in Job
    BY <1>1, <2>5, JobUpdates DEF ObserveMachines
  <2>6. CASE ConvergeStage
    BY <1>1, <2>6, IdleType, JobUpdates DEF ConvergeStage, Return
  <2>7. QED
    BY <1>3, <2>1, <2>2, <2>3, <2>4, <2>5, <2>6 DEF Provision
<1>4. CASE Scenario
  <2> DEFINE points == {"claim", "prepare", "restore", "degrade"}
  <2>1. points \subseteq ControlPoint
    BY DEF ControlPoint
  <2>2. ASSUME NEW s \in Scenarios, PrepareStart(s) \/ GradeFails(s) \/ RestoreStart(s)
        PROVE  job' \in Job
    <3>1. MutationRoles[s] \in SUBSET Roles
      BY FullLabAssumption
    <3>2. /\ [Idle EXCEPT !.pc = "claim", !.scenario = s] \in Job
          /\ [Idle EXCEPT !.pc = "degrade"] \in Job
          /\ [Idle EXCEPT !.pc = "restore", !.scenario = s, !.pending = MutationRoles[s]] \in Job
      BY <2>1, <3>1, JobStarts
    <3>3. QED
      BY <2>2, <3>2 DEF PrepareStart, GradeFails, RestoreStart
  <2>3. ASSUME NEW a \in Attempts, ClaimScenario(a)
        PROVE  job' \in Job
    <3>1. CASE job.scenario \in Scenarios
      <4>1. MutationRoles[job.scenario] \in SUBSET Roles
        BY <3>1, FullLabAssumption
      <4>2. QED
        BY <1>1, <2>1, <2>3, <4>1, JobUpdates DEF ClaimScenario
    <3>2. QED
      BY <3>1, <2>3 DEF ClaimScenario, ControlMatchesRecord
  <2>4. ASSUME NEW r \in Roles, MutateRole(r) \/ RestoreRole(r)
        PROVE  job' \in Job
    BY <1>1, <2>1, <2>4, JobUpdates DEF MutateRole, RestoreRole
  <2>5. ASSUME NEW r \in Roles, MutateFails(r)
        PROVE  job' \in Job
    BY <1>2, <2>1, <2>5 DEF MutateFails
  <2>6. CASE PrepareDone \/ UntouchedGradeFails \/ RestoreFails \/ RestoreDone
    <3>1. Return \/ Goto("degrade")
      BY <2>6 DEF PrepareDone, UntouchedGradeFails, RestoreFails, RestoreDone
    <3>2. QED
      BY <1>2, <2>1, <3>1
  <2>7. QED
    BY <1>4, <2>2, <2>3, <2>4, <2>5, <2>6 DEF Scenario
<1>5. CASE Destroy
  <2>1. {"discover", "break-glass", "delete"} \subseteq ControlPoint
    BY DEF ControlPoint
  <2>2. ASSUME NEW point \in {"discover", "break-glass"}, DestroyStart(point)
        PROVE  job' \in Job
    BY <2>1, <2>2, JobStarts DEF DestroyStart
  <2>3. CASE AuthorizeOrdinary \/ AuthorizeBreakGlass
    <3>1. Present \in SUBSET Roles
      BY DEF Present, TypeOK, StoreTypeOK
    <3>2. [job EXCEPT !.pc = "delete", !.pending = Present] \in Job
      BY <1>1, <2>1, <3>1, JobUpdates
    <3>3. QED
      BY <2>3, <3>2 DEF AuthorizeOrdinary, AuthorizeBreakGlass
  <2>4. ASSUME NEW r \in Roles, DeleteMachine(r) \/ DeleteFails(r)
        PROVE  job' \in Job
    <3>1. {r} \in SUBSET Roles /\ "delete" \in ControlPoint
      BY <2>1
    <3>2. QED
      BY <1>1, <2>4, <3>1, IdleType, JobUpdates DEF DeleteMachine, DeleteFails, Return
  <2>5. CASE DestroyRefused \/ ConcludeDestroy
    BY <2>5, IdleType DEF DestroyRefused, ConcludeDestroy, Return
  <2>6. QED
    BY <1>5, <2>2, <2>3, <2>4, <2>5 DEF Destroy
<1>6. CASE Crash
  BY <1>6, IdleType DEF Crash, Return
<1>7. ASSUME NEW r \in Roles, VmStops(r)
      PROVE  job' \in Job
  BY <1>1, <1>7 DEF VmStops
<1>8. QED
  BY <1>3, <1>4, <1>5, <1>6, <1>7 DEF Next

\* Where two operations continue.
LEMMA AfterCheckInputs ==
  ASSUME job \in Job, CheckInputs
  PROVE  \/ job'.pc = "idle"
         \/ job'.pc \in {"ensure", "degrade"} /\ phase \notin {"cleanup-pending", "destroyed"}
<1>1. CASE job' = Idle
  BY <1>1 DEF Idle
<1>2. ASSUME job' = [job EXCEPT !.pc = "ensure", !.pending = Roles]
      PROVE  job'.pc = "ensure"
  BY <1>2 DEF Job
<1>3. ASSUME job' = [job EXCEPT !.pc = "degrade"]
      PROVE  job'.pc = "degrade"
  BY <1>3 DEF Job
<1>4. QED
  BY <1>1, <1>2, <1>3 DEF CheckInputs, Unprovisionable, Goto, Return

LEMMA AfterDeleteFails ==
  ASSUME job \in Job, NEW r \in Roles, DeleteFails(r)
  PROVE  job'.pc \in {"idle", "delete"}
<1>1. job.pc = "delete"
  BY DEF DeleteFails
<1>2. CASE job' = Idle
  BY <1>2 DEF Idle
<1>3. ASSUME job' = [job EXCEPT !.pending = @ \ {r}, !.failed = TRUE]
      PROVE  job'.pc = "delete"
  BY <1>1, <1>3 DEF Job
<1>4. QED
  BY <1>2, <1>3 DEF DeleteFails, Return

LEMMA ProvisionKeepsInv == LabInv /\ Provision /\ StoreInv' /\ job' \in Job => LabInv'
<1> SUFFICES ASSUME LabInv, Provision, StoreInv', job' \in Job
             PROVE  LabInv'
  OBVIOUS
<1> USE DEF LabInv, TypeOK, ControlMatchesRecord, MachinesAreClaimed, VerifiedLabsAreWhole,
       DestroyedMeansGone, MutationsAreClaimed, StoreInv, store, guests, Goto, Return, Present, Job, Idle,
       On, VerifiedPhases, U4Phases
<1>1. ASSUME NEW p \in Profiles, NEW q \in Specs, ProvisionStart(p, q)
      PROVE  LabInv'
  BY <1>1 DEF ProvisionStart, Claim
<1>2. CASE BindProfile
  BY <1>2 DEF BindProfile, BindProvisioningProfile
<1>3. CASE BindSpec
  BY <1>3, NoneAssumption DEF BindSpec, BindProvisioningSpec
<1>4. CASE DeclareMachines
  BY <1>4 DEF DeclareMachines, DeclareInventory
<1>5. CASE CheckInputs
  <2>1. phase # "missing"
    BY <1>5, RolesAssumption DEF CheckInputs, MissingIsEmpty
  <2>2. /\ UNCHANGED <<store, guests>> /\ spec # None /\ inventory = Roles
        /\ job'.pc = "idle" \/ phase \notin {"missing", "cleanup-pending", "destroyed"}
        /\ job'.pc \in {"idle", "ensure", "degrade"}
    BY <1>5, <2>1, AfterCheckInputs DEF CheckInputs
  <2>3. QED
    BY <2>2
<1>6. ASSUME NEW r \in Roles, EnsureMachine(r)
      PROVE  LabInv'
  BY <1>6 DEF EnsureMachine, VmState
<1>7. ASSUME NEW r \in Roles, EnsureFails(r)
      PROVE  LabInv'
  BY <1>7 DEF EnsureFails, EnsureRemains, VmState
<1>8. ASSUME NEW f \in Facts, ObserveMachines(f)
      PROVE  LabInv'
  <2>1. /\ job.pc = "ensure" /\ AllRunning
        /\ UNCHANGED <<phase, profile, spec, inventory, health, active, vms, mutated, captured>>
        /\ job' = [job EXCEPT !.pc = "verify", !.seen = f, !.stage = "vms-created"]
    BY <1>8 DEF ObserveMachines, RecordMachineObservations
  <2>2. inventory = Roles /\ inventory' = inventory /\ vms' = vms
    BY <2>1
  <2>3. Present' = Roles
    BY <2>1, <2>2 DEF AllRunning
  <2>4. job'.pc = "verify" /\ job'.seen \in Facts
    <3>1. job \in Job /\ job' = [job EXCEPT !.pc = "verify", !.seen = f, !.stage = "vms-created"]
      BY <2>1
    <3>2. QED
      BY ONLY <3>1, f \in Facts DEF Job
  <2>5. ControlMatchesRecord'
    BY <2>1, <2>2, <2>3, <2>4
  <2>6. QED
    BY <2>1, <2>2, <2>5
<1>9. CASE ConvergeStage
  <2>1. job.pc = "verify" /\ Present = Roles /\ inventory = Roles /\ job.stage \in Stages
    BY <1>9 DEF ConvergeStage
  <2>2. UNCHANGED <<profile, spec, inventory, health, active, vms, mutated, captured>>
    BY <1>9 DEF ConvergeStage, RecordVerifiedPhase, RecoverVerifiedPhase, Advance
  <2>3. phase' = phase \/ phase' = job.stage
    BY <1>9 DEF ConvergeStage, RecordVerifiedPhase, RecoverVerifiedPhase, Advance
  <2>4. job' = Idle \/ job' = [job EXCEPT !.stage = NextStage(@)]
    BY <1>9 DEF ConvergeStage
  <2>5. Present' = Roles
    BY <2>1, <2>2
  <2>6. ControlMatchesRecord'
    BY <2>1, <2>2, <2>3, <2>4 DEF Stages
  <2>7. DestroyedMeansGone'
    BY <2>1, <2>2, <2>3 DEF Stages
  <2>8. QED
    BY <2>2, <2>5, <2>6, <2>7
<1>10. CASE ProvisionFails
  <2>1. phase # "missing"
    BY <1>10, RolesAssumption DEF ProvisionFails, MissingIsEmpty
  <2>2. QED
    BY <1>10, <2>1 DEF ProvisionFails
<1>11. CASE MarkDegraded
  BY <1>11 DEF MarkDegraded, Advance
<1>12. QED
  BY <1>1, <1>2, <1>3, <1>4, <1>5, <1>6, <1>7, <1>8, <1>9, <1>10, <1>11 DEF Provision

LEMMA ScenarioKeepsInv == LabInv /\ Scenario /\ StoreInv' /\ job' \in Job => LabInv'
<1> SUFFICES ASSUME LabInv, Scenario, StoreInv', job' \in Job
             PROVE  LabInv'
  OBVIOUS
<1> USE DEF LabInv, TypeOK, ControlMatchesRecord, MachinesAreClaimed, VerifiedLabsAreWhole,
       DestroyedMeansGone, MutationsAreClaimed, StoreInv, store, guests, Goto, Return, Present, Job, Idle,
       On, VerifiedPhases, U4Phases
<1>1. ASSUME NEW s \in Scenarios, PrepareStart(s)
      PROVE  LabInv'
  BY <1>1 DEF PrepareStart, AttestValidated, AllRunning
<1>2. ASSUME NEW a \in Attempts, ClaimScenario(a)
      PROVE  LabInv'
  <2>1. mutated = {}
    BY <1>2 DEF ClaimScenario, PrepareScenario
  <2>2. active' # None /\ active'.scenario = job.scenario
    BY <1>2 DEF ClaimScenario, PrepareScenario, ValidRecord
  <2>3. job'.pc = "prepare" /\ job'.scenario = job.scenario /\ job.scenario \in Scenarios
    BY <1>2 DEF ClaimScenario
  <2>4. UNCHANGED <<spec, inventory, vms, mutated, captured>> /\ phase = "validated" /\ phase' = "scenario-prepared"
    BY <1>2 DEF ClaimScenario, PrepareScenario
  <2>5. QED
    BY <2>1, <2>2, <2>3, <2>4
<1>3. ASSUME NEW r \in Roles, MutateRole(r)
      PROVE  LabInv'
  BY <1>3 DEF MutateRole
<1>4. ASSUME NEW r \in Roles, MutateFails(r)
      PROVE  LabInv'
  BY <1>4 DEF MutateFails
<1>5. CASE PrepareDone
  BY <1>5 DEF PrepareDone
<1>6. CASE UntouchedGradeFails
  BY <1>6 DEF UntouchedGradeFails
<1>7. ASSUME NEW s \in Scenarios, GradeFails(s)
      PROVE  LabInv'
  BY <1>7 DEF GradeFails
<1>8. ASSUME NEW s \in Scenarios, RestoreStart(s)
      PROVE  LabInv'
  BY <1>8 DEF RestoreStart
<1>9. ASSUME NEW r \in Roles, RestoreRole(r)
      PROVE  LabInv'
  BY <1>9 DEF RestoreRole
<1>10. CASE RestoreFails
  BY <1>10 DEF RestoreFails
<1>11. CASE RestoreDone
  <2>1. mutated = {}
    BY <1>11 DEF RestoreDone, RestoreScenario
  <2>2. UNCHANGED <<spec, inventory, vms, mutated, captured>> /\ phase' = "validated" /\ job' = Idle
    BY <1>11 DEF RestoreDone, RestoreScenario
  <2>3. Present = Roles
    BY <1>11 DEF RestoreDone, AllRunning, StoreTypeOK
  <2>4. QED
    BY <2>1, <2>2, <2>3
<1>12. QED
  BY <1>1, <1>2, <1>3, <1>4, <1>5, <1>6, <1>7, <1>8, <1>9, <1>10, <1>11 DEF Scenario

LEMMA DestroyKeepsInv == LabInv /\ Destroy /\ StoreInv' /\ job' \in Job => LabInv'
<1> SUFFICES ASSUME LabInv, Destroy, StoreInv', job' \in Job
             PROVE  LabInv'
  OBVIOUS
<1> USE DEF LabInv, TypeOK, ControlMatchesRecord, MachinesAreClaimed, VerifiedLabsAreWhole,
       DestroyedMeansGone, MutationsAreClaimed, StoreInv, store, guests, Goto, Return, Present, Job, Idle,
       On, VerifiedPhases, U4Phases
<1>1. ASSUME NEW point \in {"discover", "break-glass"}, DestroyStart(point)
      PROVE  LabInv'
  BY <1>1 DEF DestroyStart, Advance
<1>2. CASE AuthorizeOrdinary
  BY <1>2 DEF AuthorizeOrdinary
<1>3. CASE AuthorizeBreakGlass
  BY <1>3 DEF AuthorizeBreakGlass
<1>4. CASE DestroyRefused
  BY <1>4 DEF DestroyRefused
<1>5. ASSUME NEW r \in Roles, DeleteMachine(r)
      PROVE  LabInv'
  BY <1>5 DEF DeleteMachine, Deleted, VmState
<1>6. ASSUME NEW r \in Roles, DeleteFails(r)
      PROVE  LabInv'
  <2>1. phase = "cleanup-pending" /\ UNCHANGED <<phase, spec, inventory, active>>
    BY <1>6 DEF DeleteFails
  <2>2. /\ vms' \in [Roles -> VmState]
        /\ \A x \in Roles : vms'[x] # "absent" => vms[x] # "absent"
    BY <1>6 DEF DeleteFails, Deleted, Halted, VmState
  <2>3. mutated' \subseteq mutated /\ captured' \subseteq captured
    BY <1>6 DEF DeleteFails, Deleted
  <2>4. job'.pc \in {"idle", "delete"}
    BY <1>6, AfterDeleteFails
  <2>5. QED
    BY <2>1, <2>2, <2>3, <2>4
<1>7. CASE ConcludeDestroy
  BY <1>7 DEF ConcludeDestroy, Advance
<1>8. QED
  BY <1>1, <1>2, <1>3, <1>4, <1>5, <1>6, <1>7 DEF Destroy

-----------------------------------------------------------------------------

LEMMA LabInitInv == Init => LabInv
<1> SUFFICES ASSUME Init
             PROVE  LabInv
  OBVIOUS
<1>1. StoreInv
  BY StoreInitInv DEF Init
<1>2. /\ job = Idle /\ mutated = {} /\ captured = {}
      /\ vms = [r \in Roles |-> IF phase = "missing" THEN "absent" ELSE "running"]
  BY DEF Init
<1>3. phase = "missing" \/ (inventory = Roles /\ spec # None /\ phase # "destroyed")
  BY NoneAssumption DEF Init, StoreInit, Fresh, Legacy
<1>4. TypeOK
  BY <1>1, <1>2, IdleType DEF TypeOK, StoreInv, VmState
<1>5. ControlMatchesRecord
  BY <1>2 DEF ControlMatchesRecord, Idle
<1>6. MachinesAreClaimed /\ MutationsAreClaimed
  BY <1>2, <1>3 DEF MachinesAreClaimed, MutationsAreClaimed
<1>7. VerifiedLabsAreWhole /\ DestroyedMeansGone
  BY <1>2, <1>3 DEF VerifiedLabsAreWhole, DestroyedMeansGone, VerifiedPhases, U4Phases, Present
<1>8. QED
  BY <1>1, <1>4, <1>5, <1>6, <1>7 DEF LabInv

LEMMA LabStepInv == LabInv /\ [Next]_vars => LabInv'
<1> SUFFICES ASSUME LabInv, [Next]_vars
             PROVE  LabInv'
  OBVIOUS
<1>1. StoreInv'
  BY StepRefinesStore, StoreStepInv DEF LabInv
<1>2. job' \in Job
  <2>1. CASE Next
    BY <2>1, JobTyped DEF LabInv
  <2>2. CASE UNCHANGED vars
    BY <2>2 DEF vars, LabInv, TypeOK
  <2>3. QED
    BY <2>1, <2>2
<1>3. CASE Provision
  BY <1>1, <1>2, <1>3, ProvisionKeepsInv
<1>4. CASE Scenario
  BY <1>1, <1>2, <1>4, ScenarioKeepsInv
<1>5. CASE Destroy
  BY <1>1, <1>2, <1>5, DestroyKeepsInv
<1>6. CASE Crash \/ UNCHANGED vars
  <2>1. UNCHANGED <<store, guests>> /\ (job' = Idle \/ job' = job)
    BY <1>6 DEF Crash, Return, vars
  <2>2. TypeOK'
    BY <1>1, <1>2, <2>1 DEF StoreInv, LabInv, TypeOK, guests
  <2>3. ControlMatchesRecord'
    BY <2>1 DEF LabInv, ControlMatchesRecord, Idle, Present, store, guests
  <2>4. QED
    BY <1>1, <2>1, <2>2, <2>3
    DEF LabInv, MachinesAreClaimed, VerifiedLabsAreWhole, DestroyedMeansGone, MutationsAreClaimed, Present, store, guests
<1>7. ASSUME NEW r \in Roles, VmStops(r)
      PROVE  LabInv'
  <2>1. /\ UNCHANGED <<store, mutated, captured, job>>
        /\ vms' \in [Roles -> VmState]
        /\ \A x \in Roles : vms'[x] = "absent" <=> vms[x] = "absent"
    BY <1>7 DEF VmStops, Halted, LabInv, TypeOK, VmState
  <2>2. TypeOK'
    BY <1>1, <1>2, <2>1 DEF StoreInv, LabInv, TypeOK
  <2>3. Present' = Present /\ Present \subseteq Roles
    BY <2>1 DEF Present, LabInv, TypeOK, StoreTypeOK, store
  <2>4. ControlMatchesRecord'
    BY <2>1, <2>3 DEF LabInv, ControlMatchesRecord, store
  <2>5. QED
    BY <1>1, <2>1, <2>2, <2>3, <2>4
    DEF LabInv, MachinesAreClaimed, VerifiedLabsAreWhole, DestroyedMeansGone, MutationsAreClaimed, store
<1>8. QED
  BY <1>3, <1>4, <1>5, <1>6, <1>7 DEF Next

-----------------------------------------------------------------------------

\* Whatever operations are run, interrupted and retried on a lab, the record
\* and the machines stay in the relation LabInv.
THEOREM LabInvariant == Spec => []LabInv
<1>1. QED
  BY LabInitInv, LabStepInv, PTL DEF Spec

\* The operations use the record only through its own operations: what they
\* do to it is a behaviour of StoreSpec.
THEOREM LabRefinesStore == Spec => StoreSpec
<1>1. Init => StoreInit
  BY DEF Init
<1>2. QED
  BY <1>1, LabInvariant, StepRefinesStore, PTL DEF Spec, StoreSpec

\* The type of the whole state.
THEOREM LabTypeCorrect == Spec => []TypeOK
<1>1. LabInv => TypeOK
  BY DEF LabInv
<1>2. QED
  BY <1>1, LabInvariant, PTL

\* No VM exists before the inventory and the inputs that own it are on disk.
THEOREM LabMachinesAreClaimed == Spec => []MachinesAreClaimed
<1>1. LabInv => MachinesAreClaimed
  BY DEF LabInv
<1>2. QED
  BY <1>1, LabInvariant, PTL

\* A verified phase is never recorded over a missing machine.
THEOREM LabIsWhole == Spec => []VerifiedLabsAreWhole
<1>1. LabInv => VerifiedLabsAreWhole
  BY DEF LabInv
<1>2. QED
  BY <1>1, LabInvariant, PTL

\* A lab that is recorded as destroyed has no machine left.
THEOREM LabTombstonesAreEmpty == Spec => []DestroyedMeansGone
<1>1. LabInv => DestroyedMeansGone
  BY DEF LabInv
<1>2. QED
  BY <1>1, LabInvariant, PTL

\* Every scenario mutation on a guest belongs to the recorded attempt.
THEOREM LabMutationsAreClaimed == Spec => []MutationsAreClaimed
<1>1. LabInv => MutationsAreClaimed
  BY DEF LabInv
<1>2. QED
  BY <1>1, LabInvariant, PTL

\* A machine is deleted only after its cleanup was recorded.
THEOREM LabDeletionIsWrittenAhead == Spec => DeletionIsWrittenAhead
<1> DEFINE Ahead == \A r \in Roles : vms[r] # "absent" /\ vms'[r] = "absent" => phase = "cleanup-pending"
<1>1. LabInv /\ [Next]_vars => [Ahead]_vars
  <2> SUFFICES ASSUME LabInv, Next
               PROVE  Ahead
    OBVIOUS
  <2>1. vms \in [Roles -> VmState]
    BY DEF LabInv, TypeOK
  <2>2. CASE vms' = vms
    BY <2>2
  <2>3. ASSUME NEW r \in Roles, EnsureMachine(r)
        PROVE  Ahead
    BY <2>1, <2>3 DEF EnsureMachine
  <2>4. ASSUME NEW r \in Roles, EnsureFails(r)
        PROVE  Ahead
    BY <2>1, <2>4 DEF EnsureFails, EnsureRemains
  <2>5. ASSUME NEW r \in Roles, DeleteMachine(r) \/ DeleteFails(r)
        PROVE  Ahead
    BY <2>5 DEF DeleteMachine, DeleteFails, LabInv, ControlMatchesRecord
  <2>6. ASSUME NEW r \in Roles, VmStops(r)
        PROVE  Ahead
    BY <2>1, <2>6 DEF VmStops, Halted
  <2>7. CASE Provision
    BY <2>2, <2>3, <2>4, <2>7
    DEF Provision, ProvisionStart, BindProfile, BindSpec, DeclareMachines, CheckInputs, ObserveMachines,
        ConvergeStage, ProvisionFails, MarkDegraded, guests
  <2>8. CASE Scenario
    BY <2>2, <2>8
    DEF Scenario, PrepareStart, GradeFails, RestoreStart, ClaimScenario, MutateRole, MutateFails, RestoreRole,
        PrepareDone, UntouchedGradeFails, RestoreFails, RestoreDone, guests
  <2>9. CASE Destroy
    BY <2>2, <2>5, <2>9
    DEF Destroy, DestroyStart, AuthorizeOrdinary, AuthorizeBreakGlass, DestroyRefused, ConcludeDestroy, guests
  <2>10. QED
    BY <2>2, <2>6, <2>7, <2>8, <2>9 DEF Next, Crash, guests
<1>2. QED
  BY <1>1, LabInvariant, PTL DEF Spec, DeletionIsWrittenAhead

=============================================================================
