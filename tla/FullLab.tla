------------------------------- MODULE FullLab -------------------------------
(***************************************************************************)
(* The operations of the full tier on one lab: FullLabLifecycle.provision  *)
(* and .destroy (src/cks_simulator/lab.py), ScenarioEngine.prepare, .grade *)
(* and .restore (scenarios.py), the Lima provider they drive               *)
(* (providers/lima.py) and the guest helpers that mutate a scenario        *)
(* (infra/provision/scenarios).                                            *)
(*                                                                         *)
(* Every operation holds the lab lock from its first load to its return,   *)
(* so at most one is running: job holds its control point and locals, and  *)
(* is Idle when the lock is free.  Each persisted write and each provider  *)
(* or guest command is a step of its own.  Between any two of them the     *)
(* host process may die (Crash), and Lima may stop a VM (VmStops).  A      *)
(* command may fail or time out wherever the code tests for it.            *)
(* An operation that refuses before it writes anything is stuttering.      *)
(***************************************************************************)
EXTENDS LabState, LimaContract, Naturals

CONSTANTS
  Standard,        \* the profile that legacy records imply
  EnsureOrder,     \* the position of each role in MACHINE_ROLES
  DeleteOrder,     \* the position of each role in _DESTROY_ROLE_ORDER
  MutationRoles,   \* the roles a scenario's helper runs on
  CaptureRoles,    \* those where its restore needs a baseline file that its prepare captures
  HealthOf         \* the health fingerprint, a function of specification and machine facts

ASSUME FullLabAssumption ==
  /\ Standard \in Profiles
  /\ EnsureOrder \in [Roles -> Nat] /\ DeleteOrder \in [Roles -> Nat]
  /\ MutationRoles \in [Scenarios -> SUBSET Roles]
  /\ CaptureRoles \in [Scenarios -> SUBSET Roles]
  /\ HealthOf \in [Specs \X Facts -> Healths]

VARIABLES
  vms,        \* each role's Lima instance
  mutated,    \* the <<scenario, role>> pairs whose mutation is on a guest
  captured,   \* the pairs whose baseline file is on a guest
  job         \* the running operation

guests == <<vms, mutated, captured>>
vars == <<store, guests, job>>

-----------------------------------------------------------------------------

ControlPoint ==
  {"idle", "bind-profile", "bind-spec", "declare", "check", "ensure",
   "verify", "degrade", "claim", "prepare", "restore", "discover", "break-glass",
   "delete"}

Stages == U4Phases \cup {"candidate-ready"}

Job == [pc : ControlPoint,
        profile : Profiles \cup {None}, spec : Specs \cup {None},
        seen : Facts \cup {None}, stage : Stages,
        scenario : Scenarios \cup {None},
        pending : SUBSET Roles, failed : BOOLEAN]

Idle == [pc |-> "idle", profile |-> None, spec |-> None, seen |-> None,
         stage |-> "vms-created", scenario |-> None, pending |-> {}, failed |-> FALSE]

Goto(point) == job' = [job EXCEPT !.pc = point]
Return == job' = Idle

Rank(p) == CASE p = "declared" -> 0
             [] p = "vms-created" -> 1
             [] p = "os-ready" -> 2
             [] p = "cluster-ready" -> 3
             [] p = "addons-ready" -> 4
             [] p = "candidate-ready" -> 5
             [] OTHER -> 6

\* Bug: the last stage is followed by another one.
NextStageOverrun(t) == CASE t = "vms-created" -> "os-ready"
                         [] t = "os-ready" -> "cluster-ready"
                         [] t = "cluster-ready" -> "addons-ready"
                         [] OTHER -> "validated"

NextStage(t) == CASE t = "vms-created" -> "os-ready"
                  [] t = "os-ready" -> "cluster-ready"
                  [] t = "cluster-ready" -> "addons-ready"
                  [] OTHER -> "candidate-ready"

First(roles, order) == {r \in roles : \A other \in roles : order[r] <= order[other]}

Present == {r \in inventory : vms[r] # "absent"}
AllRunning == \A r \in Roles : vms[r] = "running"

On(s) == {s} \X Roles

-----------------------------------------------------------------------------
(* FullLabLifecycle.provision                                              *)

\* The claim of the UUID precedes everything else.
ProvisionStart(p, q) ==
  /\ job = Idle
  /\ \/ Claim
     \/ phase # "missing" /\ UNCHANGED store
  /\ job' = [Idle EXCEPT !.pc = "bind-profile", !.profile = p, !.spec = q]
  /\ UNCHANGED guests

ProfileAgrees ==
  profile = job.profile \/ (profile = None /\ spec # None /\ job.profile = Standard)

BindProfile ==
  /\ job.pc = "bind-profile"
  /\ \/ BindProvisioningProfile(job.profile) /\ Goto("bind-spec")
     \/ ProfileAgrees /\ UNCHANGED store /\ Goto("bind-spec")
     \/ /\ profile # None \/ spec # None
        /\ ~ProfileAgrees
        /\ UNCHANGED store /\ Return
  /\ UNCHANGED guests

\* Bug: machines are created before their inventory is written.
BindSpecSkipInventory ==
  /\ job.pc = "bind-spec"
  /\ BindProvisioningSpec(job.spec) \/ (spec # None /\ UNCHANGED store)
  /\ Goto("check")
  /\ UNCHANGED guests

BindSpec ==
  /\ job.pc = "bind-spec"
  /\ \/ BindProvisioningSpec(job.spec)
     \/ spec # None /\ UNCHANGED store
  /\ Goto("declare")
  /\ UNCHANGED guests

DeclareMachines ==
  /\ job.pc = "declare"
  /\ \/ DeclareInventory(Roles)
     \/ inventory = Roles /\ UNCHANGED store
  /\ Goto("check")
  /\ UNCHANGED guests

Unprovisionable == {"cleanup-pending", "destroyed", "scenario-prepared", "graded"}

\* A phase that refuses provisioning returns; drifted inputs degrade the lab
\* before any guest is touched.
CheckInputs ==
  /\ job.pc = "check"
  /\ \/ phase \in Unprovisionable /\ Return
     \/ /\ phase \notin Unprovisionable /\ spec = job.spec
        /\ job' = [job EXCEPT !.pc = "ensure", !.pending = Roles]
     \/ phase \notin Unprovisionable /\ spec # job.spec /\ Goto("degrade")
  /\ UNCHANGED <<store, guests>>

\* LimaProvider.ensure: create an absent instance and write its marker, reuse a
\* running one, restart a stopped one; never adopt one without the marker.
EnsureMachine(r) ==
  /\ job.pc = "ensure"
  /\ r \in First(job.pending, EnsureOrder)
  /\ vms[r] \in {"absent", "running", "stopped"}
  /\ vms' = [vms EXCEPT ![r] = "running"]
  /\ job' = [job EXCEPT !.pending = @ \ {r}]
  /\ UNCHANGED <<store, mutated, captured>>

EnsureFails(r) ==
  /\ job.pc = "ensure"
  /\ r \in First(job.pending, EnsureOrder)
  /\ \E v \in EnsureRemains(vms[r]) : vms' = [vms EXCEPT ![r] = v]
  /\ Goto("degrade")
  /\ UNCHANGED <<store, mutated, captured>>

\* Facts that differ from the recorded ones are drift.
ObserveMachines(f) ==
  /\ job.pc = "ensure" /\ job.pending = {}
  /\ AllRunning
  /\ \/ RecordMachineObservations(f)
     \/ observations = f /\ UNCHANGED store
  /\ job' = [job EXCEPT !.pc = "verify", !.seen = f, !.stage = "vms-created"]
  /\ UNCHANGED guests

\* Bug: the phase is overwritten without comparing ranks.
RecordVerifiedPhaseBlindly(t) ==
  phase' = t /\ UNCHANGED <<profile, spec, inventory, observations, health, active>>

\* _record_verified_phase, after the convergence the stage stands for.
RecordVerifiedPhase(t) ==
  \/ phase = "degraded" /\ RecoverVerifiedPhase(t, job.seen)
  \/ phase # "degraded" /\ Rank(phase) >= Rank(t) /\ UNCHANGED store
  \/ phase # "degraded" /\ Rank(phase) < Rank(t) /\ Advance(t)

\* A machine may have stopped again since its last command.
ConvergeStage ==
  /\ job.pc = "verify"
  /\ RecordVerifiedPhase(job.stage)
  /\ IF job.stage = "candidate-ready"
       THEN Return
       ELSE job' = [job EXCEPT !.stage = NextStage(@)]
  /\ UNCHANGED guests

\* Any other error of the reconciliation: an observation, installation,
\* convergence or health command that fails, or drifted facts.
ProvisionFails ==
  /\ \/ job.pc = "ensure" /\ job.pending = {}
     \/ job.pc = "verify"
  /\ Goto("degrade")
  /\ UNCHANGED <<store, guests>>

\* _mark_degraded and ScenarioEngine._degrade; a lab already degraded stays so.
\* Bug: degrading drops the scenario attempt.
MarkDegradedForgetting ==
  /\ job.pc = "degrade"
  /\ phase' = "degraded" /\ active' = None
  /\ Return
  /\ UNCHANGED <<profile, spec, inventory, observations, health, guests>>

MarkDegraded ==
  /\ job.pc = "degrade"
  /\ \/ Advance("degraded")
     \/ phase = "degraded" /\ UNCHANGED store
  /\ Return
  /\ UNCHANGED guests

-----------------------------------------------------------------------------
(* ScenarioEngine                                                          *)

\* A lab that has not been attested is attested first, which commands every
\* guest; a failed attestation refuses without degrading.
PrepareStart(s) ==
  /\ job = Idle
  /\ \/ /\ AllRunning
        /\ observations # None
        /\ AttestValidated(HealthOf[<<spec, observations>>])
     \/ /\ phase = "validated" /\ health # None
        /\ UNCHANGED store
  /\ job' = [Idle EXCEPT !.pc = "claim", !.scenario = s]
  /\ UNCHANGED guests

\* The write-ahead claim.
ClaimScenario(a) ==
  /\ job.pc = "claim"
  /\ PrepareScenario(job.scenario, a)
  /\ job' = [job EXCEPT !.pc = "prepare", !.pending = MutationRoles[job.scenario]]
  /\ UNCHANGED guests

\* One guest helper run; it captures the baseline before it mutates.
MutateRole(r) ==
  /\ job.pc = "prepare"
  /\ r \in job.pending
  /\ vms[r] = "running"
  /\ mutated' = mutated \cup {<<job.scenario, r>>}
  /\ captured' = captured \cup {p \in {<<job.scenario, r>>} : r \in CaptureRoles[job.scenario]}
  /\ job' = [job EXCEPT !.pending = @ \ {r}]
  /\ UNCHANGED <<store, vms>>

\* The helper dies on a guest before, between or after the two.
MutateFails(r) ==
  /\ job.pc = "prepare"
  /\ r \in job.pending
  /\ \/ UNCHANGED <<mutated, captured>>
     \/ /\ vms[r] = "running"
        /\ captured' = captured \cup {p \in {<<job.scenario, r>>} : r \in CaptureRoles[job.scenario]}
        /\ mutated' \in {mutated, mutated \cup {<<job.scenario, r>>}}
  /\ Goto("degrade")
  /\ UNCHANGED <<store, vms>>

\* The guests match the claimed fingerprint and the untouched scenario grades FAIL.
PrepareDone ==
  /\ job.pc = "prepare" /\ job.pending = {}
  /\ AllRunning
  /\ Return
  /\ UNCHANGED <<store, guests>>

\* The fingerprint or the untouched grade of a prepared scenario is refused.
UntouchedGradeFails ==
  /\ job.pc = "prepare" /\ job.pending = {}
  /\ Goto("degrade")
  /\ UNCHANGED <<store, guests>>

\* A grade only reads; one that cannot be trusted degrades the lab.
GradeFails(s) ==
  /\ job = Idle
  /\ phase = "scenario-prepared"
  /\ active # None /\ active.scenario = s
  /\ job' = [Idle EXCEPT !.pc = "degrade"]
  /\ UNCHANGED <<store, guests>>

RestoreStart(s) ==
  /\ job = Idle
  /\ phase \in {"scenario-prepared", "degraded"}
  /\ active # None /\ active.scenario = s
  /\ job' = [Idle EXCEPT !.pc = "restore", !.scenario = s, !.pending = MutationRoles[s]]
  /\ UNCHANGED <<store, guests>>

\* A helper whose restore needs the captured baseline dies when it is missing.
RestoreRole(r) ==
  /\ job.pc = "restore"
  /\ r \in job.pending
  /\ vms[r] = "running"
  /\ r \in CaptureRoles[job.scenario] => <<job.scenario, r>> \in captured
  /\ mutated' = mutated \ {<<job.scenario, r>>}
  /\ job' = [job EXCEPT !.pending = @ \ {r}]
  /\ UNCHANGED <<store, vms, captured>>

RestoreFails ==
  /\ job.pc = "restore"
  /\ Goto("degrade")
  /\ UNCHANGED <<store, guests>>

\* The guests reached the restore fingerprint and the health is attested.
RestoreDone ==
  /\ job.pc = "restore" /\ job.pending = {}
  /\ AllRunning
  /\ RestoreScenario(job.scenario, active.attempt, HealthOf[<<spec, observations>>],
                     mutated \cap On(job.scenario) = {})
  /\ Return
  /\ UNCHANGED guests

-----------------------------------------------------------------------------
(* FullLabLifecycle.destroy                                                *)

\* Bug: the deletions start before the cleanup is recorded.
DestroyStartUnrecorded(point) ==
  /\ job = Idle
  /\ inventory # {} /\ phase # "destroyed"
  /\ job' = [Idle EXCEPT !.pc = point]
  /\ UNCHANGED <<store, guests>>

\* Bug: a cleanup that is already pending cannot be asked for again.
DestroyStartOnce(point) ==
  /\ job = Idle
  /\ inventory # {}
  /\ Advance("cleanup-pending")
  /\ job' = [Idle EXCEPT !.pc = point]
  /\ UNCHANGED guests

\* The cleanup is written ahead of the first deletion.  Break-glass needs the
\* exact UUID; called with another one it changes nothing.
DestroyStart(point) ==
  /\ job = Idle
  /\ inventory # {}
  /\ \/ Advance("cleanup-pending")
     \/ phase = "cleanup-pending" /\ UNCHANGED store
  /\ job' = [Idle EXCEPT !.pc = point]
  /\ UNCHANGED guests

\* Ordinary cleanup: all recorded machines, all proved, or none present.
AuthorizeOrdinary ==
  /\ job.pc = "discover"
  /\ Present \in {{}, inventory}
  /\ \A r \in Present : vms[r] \in Provable(FALSE)
  /\ job' = [job EXCEPT !.pc = "delete", !.pending = Present]
  /\ UNCHANGED <<store, guests>>

\* Break-glass: the present ones, but at least one.
AuthorizeBreakGlass ==
  /\ job.pc = "break-glass"
  /\ Present # {}
  /\ job' = [job EXCEPT !.pc = "delete", !.pending = Present]
  /\ UNCHANGED <<store, guests>>

\* Discovery is unknown, a proof fails, or the machines are not those required.
DestroyRefused ==
  /\ job.pc \in {"discover", "break-glass"}
  /\ Return
  /\ UNCHANGED <<store, guests>>

Deleted(r) ==
  /\ vms' = [vms EXCEPT ![r] = "absent"]
  /\ mutated' = {p \in mutated : p[2] # r}
  /\ captured' = {p \in captured : p[2] # r}

\* LimaProvider._delete_exact: stop, verify, delete.
DeleteMachine(r) ==
  /\ job.pc = "delete"
  /\ r \in First(job.pending, DeleteOrder)
  /\ Deleted(r)
  /\ job' = [job EXCEPT !.pending = @ \ {r}]
  /\ UNCHANGED store

\* A stop or delete command fails or times out, whatever it achieved: the other
\* machines are still attempted.  An error raised between the commands ends the
\* operation instead.
DeleteFails(r) ==
  /\ job.pc = "delete"
  /\ r \in First(job.pending, DeleteOrder)
  /\ \/ Deleted(r)
     \/ vms' \in {vms, [vms EXCEPT ![r] = Halted(@)]} /\ UNCHANGED <<mutated, captured>>
  /\ \/ job' = [job EXCEPT !.pending = @ \ {r}, !.failed = TRUE]
     \/ Return
  /\ UNCHANGED store

\* Bug: an unknown discovery after the deletions counts as absence.
ConcludeDestroyUnverified ==
  /\ job.pc = "delete" /\ job.pending = {}
  /\ Advance("destroyed") \/ UNCHANGED store
  /\ Return
  /\ UNCHANGED guests

\* Only a discovery that finds every exact handle absent ends the lab.
ConcludeDestroy ==
  /\ job.pc = "delete" /\ job.pending = {}
  /\ \/ /\ Present = {} /\ ~job.failed
        /\ Advance("destroyed")
     \/ UNCHANGED store
  /\ Return
  /\ UNCHANGED guests

-----------------------------------------------------------------------------
(* The environment                                                         *)

\* The host process dies; the lock is released and its locals are lost.
Crash ==
  /\ job # Idle
  /\ Return
  /\ UNCHANGED <<store, guests>>

\* "Lima may stop VMs outside this CLI" (docs/runbook.md).
VmStops(r) ==
  /\ vms[r] \in {"running", "bare"}
  /\ vms' = [vms EXCEPT ![r] = Halted(@)]
  /\ UNCHANGED <<store, mutated, captured, job>>

-----------------------------------------------------------------------------

Init ==
  /\ StoreInit
  /\ vms = [r \in Roles |-> IF phase = "missing" THEN "absent" ELSE "running"]
  /\ mutated = {} /\ captured = {}
  /\ job = Idle

Provision ==
  \/ \E p \in Profiles, q \in Specs : ProvisionStart(p, q)
  \/ BindProfile \/ BindSpec \/ DeclareMachines \/ CheckInputs
  \/ \E r \in Roles : EnsureMachine(r) \/ EnsureFails(r)
  \/ \E f \in Facts : ObserveMachines(f)
  \/ ConvergeStage \/ ProvisionFails \/ MarkDegraded

Scenario ==
  \/ \E s \in Scenarios : PrepareStart(s) \/ GradeFails(s) \/ RestoreStart(s)
  \/ \E a \in Attempts : ClaimScenario(a)
  \/ \E r \in Roles : MutateRole(r) \/ MutateFails(r) \/ RestoreRole(r)
  \/ PrepareDone \/ UntouchedGradeFails \/ RestoreFails \/ RestoreDone

Destroy ==
  \/ \E point \in {"discover", "break-glass"} : DestroyStart(point)
  \/ AuthorizeOrdinary \/ AuthorizeBreakGlass \/ DestroyRefused
  \/ \E r \in Roles : DeleteMachine(r) \/ DeleteFails(r)
  \/ ConcludeDestroy

Next ==
  \/ Provision \/ Scenario \/ Destroy
  \/ Crash
  \/ \E r \in Roles : VmStops(r)

Spec == Init /\ [][Next]_vars

-----------------------------------------------------------------------------

TypeOK ==
  /\ StoreTypeOK
  /\ vms \in [Roles -> VmState]
  /\ mutated \subseteq Scenarios \X Roles
  /\ captured \subseteq Scenarios \X Roles
  /\ job \in Job

\* No VM exists before the UUID, the inputs and the inventory that own it are on
\* disk, wherever the process died: every VM can be found and deleted by handle.
MachinesAreClaimed ==
  \A r \in Roles : vms[r] # "absent" => r \in inventory /\ spec # None

\* A verified phase is never recorded over a missing machine, also when it was
\* recovered from a degraded lab whose creation had failed part way.
VerifiedLabsAreWhole ==
  phase \in VerifiedPhases => Present = Roles

\* A tombstone is only written over an empty inventory: cleanup that was cut
\* short, refused or partly failed never reports the lab destroyed.
DestroyedMeansGone ==
  phase = "destroyed" => Present = {}

\* Every scenario mutation on any guest belongs to the recorded attempt, through
\* crashes, failed restores and re-provisioning: a validated lab, which has no
\* attempt, carries none.
MutationsAreClaimed ==
  mutated # {} => active # None /\ mutated \subseteq On(active.scenario)

\* A machine is deleted only after the cleanup was written ahead.
DeletionIsWrittenAhead ==
  [][\A r \in Roles :
       vms[r] # "absent" /\ vms'[r] = "absent" => phase = "cleanup-pending"]_vars

\* docs/runbook.md:125-127: after a failure the operator runs the scenario restore,
\* and "degraded labs accept the exact reviewed restore for their active
\* write-ahead claim".  Whenever no operation runs, an open claim can be restored.
OpenClaimsAcceptRestore ==
  job = Idle /\ active # None /\ phase \notin {"cleanup-pending", "destroyed"}
    => phase \in {"scenario-prepared", "degraded"}

-----------------------------------------------------------------------------
(* An operator who keeps asking for cleanup, ordinary and break-glass, on a    *)
(* host where discovery, proofs and deletions do not fail for ever.  Crashes,  *)
(* failing commands and other operations remain possible.                      *)

CleanupFairness ==
  /\ \A point \in {"discover", "break-glass"} : SF_vars(DestroyStart(point))
  /\ SF_vars(AuthorizeOrdinary)
  /\ SF_vars(AuthorizeBreakGlass)
  /\ \A r \in Roles : SF_vars(DeleteMachine(r))
  /\ SF_vars(ConcludeDestroy /\ phase' = "destroyed")
  /\ WF_vars(ConcludeDestroy) /\ WF_vars(DestroyRefused)
  /\ WF_vars(BindProfile) /\ WF_vars(BindSpec)
  /\ WF_vars(DeclareMachines) /\ WF_vars(CheckInputs)

FairSpec == Spec /\ CleanupFairness

\* A cleanup that was started ends: whatever it left behind, deleted or half
\* created, one of the two cleanup paths still accepts it.
CleanupEndsInTombstone == phase = "cleanup-pending" ~> phase = "destroyed"

=============================================================================
