-------------------------- MODULE LabState_proofs ---------------------------
(***************************************************************************)
(* Theorems about LabState, for any roles, inputs, scenarios and callers.  *)
(* StoreInv is inductive: the type of the record, what a load demands of   *)
(* it, and two facts that make this inductive: an open claim keeps the     *)
(* evidence it was made on, which a restore from "degraded" relies on, and *)
(* a record without a claimed UUID is empty.                               *)
(***************************************************************************)
EXTENDS LabState, TLAPS

MissingIsEmpty ==
  phase = "missing" => inventory = {} /\ observations = None /\ active = None

ClaimsHaveEvidence ==
  active # None => observations # None

StoreInv ==
  /\ StoreTypeOK
  /\ ValidRecord
  /\ VerifiedPhasesHaveEvidence
  /\ MissingIsEmpty
  /\ ClaimsHaveEvidence

-----------------------------------------------------------------------------

LEMMA StoreInitInv == StoreInit => StoreInv
  BY NoneAssumption
  DEF StoreInit, Fresh, Legacy, StoreInv, StoreTypeOK, ValidRecord,
      VerifiedPhasesHaveEvidence, MissingIsEmpty, ClaimsHaveEvidence, VerifiedPhases, LabPhase, U4Phases

LEMMA StoreStepInv == StoreInv /\ [StoreNext]_store => StoreInv'
<1> SUFFICES ASSUME StoreInv, [StoreNext]_store
             PROVE  StoreInv'
  OBVIOUS
<1> USE NoneAssumption
    DEF StoreInv, StoreTypeOK, ValidRecord, VerifiedPhasesHaveEvidence, MissingIsEmpty, ClaimsHaveEvidence,
        VerifiedPhases, LabPhase, U4Phases
<1>1. CASE Claim
  BY <1>1 DEF Claim
<1>2. ASSUME NEW p \in Profiles, BindProvisioningProfile(p)
      PROVE  StoreInv'
  BY <1>2 DEF BindProvisioningProfile
<1>3. ASSUME NEW q \in Specs, BindProvisioningSpec(q)
      PROVE  StoreInv'
  BY <1>3 DEF BindProvisioningSpec
<1>4. ASSUME NEW roles \in SUBSET Roles, DeclareInventory(roles)
      PROVE  StoreInv'
  <2>1. observations = None
    BY <1>4, RolesAssumption DEF DeclareInventory
  <2>2. QED
    BY <1>4, <2>1 DEF DeclareInventory
<1>5. ASSUME NEW f \in Facts, RecordMachineObservations(f)
      PROVE  StoreInv'
  BY <1>5 DEF RecordMachineObservations
<1>6. ASSUME NEW h \in Healths, AttestValidated(h)
      PROVE  StoreInv'
  BY <1>6 DEF AttestValidated
<1>7. ASSUME NEW s \in Scenarios, NEW a \in Attempts, PrepareScenario(s, a)
      PROVE  StoreInv'
  <2>1. active' \in ActiveScenario /\ active'.baseline = health
    BY <1>7 DEF PrepareScenario, ActiveScenario
  <2>2. QED
    BY <1>7, <2>1 DEF PrepareScenario
<1>8. ASSUME NEW s \in Scenarios, NEW a \in Attempts, NEW h \in Healths,
             NEW reached \in BOOLEAN, RestoreScenario(s, a, h, reached)
      PROVE  StoreInv'
  BY <1>8 DEF RestoreScenario
<1>9. ASSUME NEW target \in LabPhase, Advance(target)
      PROVE  StoreInv'
  BY <1>9 DEF Advance, AllowedTransitions
<1>10. ASSUME NEW target \in U4Phases, NEW f \in Facts, RecoverVerifiedPhase(target, f)
       PROVE  StoreInv'
  BY <1>10 DEF RecoverVerifiedPhase
<1>11. CASE UNCHANGED store
  BY <1>11 DEF store
<1>12. QED
  BY <1>1, <1>2, <1>3, <1>4, <1>5, <1>6, <1>7, <1>8, <1>9, <1>10, <1>11 DEF StoreNext

-----------------------------------------------------------------------------

\* Every reachable record has the type and the evidence the store promises.
THEOREM StoreInvariant == StoreSpec => []StoreInv
<1>1. QED
  BY StoreInitInv, StoreStepInv, PTL DEF StoreSpec

\* The fields of a record always hold values of their types.
THEOREM StoreTypeCorrect == StoreSpec => []StoreTypeOK
<1>1. StoreInv => StoreTypeOK
  BY DEF StoreInv
<1>2. QED
  BY <1>1, StoreInvariant, PTL

\* LabState.__post_init__ accepts on the next load every record that any
\* sequence of store operations wrote.
THEOREM StoreLoadable == StoreSpec => []RecordsStayLoadable
<1>1. StoreInv => RecordsStayLoadable
  BY DEF StoreInv, RecordsStayLoadable
<1>2. QED
  BY <1>1, StoreInvariant, PTL

\* No lab is in a verified phase without its complete machine observations.
THEOREM StoreEvidence == StoreSpec => []VerifiedPhasesHaveEvidence
<1>1. StoreInv => VerifiedPhasesHaveEvidence
  BY DEF StoreInv
<1>2. QED
  BY <1>1, StoreInvariant, PTL

\* The operations that append their phase without consulting the table
\* (attest, prepare, restore, recover) still follow it.
THEOREM StoreJournal == StoreSpec => JournalFollowsTable
<1>1. StoreInv /\ [StoreNext]_store =>
        (phase' # phase => phase = "missing" \/ <<phase, phase'>> \in AllowedTransitions)
  BY DEF StoreInv, StoreTypeOK, StoreNext, store, AllowedTransitions, LabPhase, U4Phases,
         Claim, BindProvisioningProfile, BindProvisioningSpec, DeclareInventory,
         RecordMachineObservations, AttestValidated, PrepareScenario, RestoreScenario,
         Advance, RecoverVerifiedPhase
<1>2. QED
  BY <1>1, StoreInvariant, PTL DEF StoreSpec, JournalFollowsTable

\* A bound profile, specification, inventory or observation set is never
\* rewritten, not even by the recovery of a degraded lab.
THEOREM StoreImmutable == StoreSpec => BoundFieldsAreImmutable
<1>1. [StoreNext]_store =>
        /\ profile # None => profile' = profile
        /\ spec # None => spec' = spec
        /\ inventory # {} => inventory' = inventory
        /\ observations # None => observations' = observations
  BY DEF StoreNext, store,
         Claim, BindProvisioningProfile, BindProvisioningSpec, DeclareInventory,
         RecordMachineObservations, AttestValidated, PrepareScenario, RestoreScenario,
         Advance, RecoverVerifiedPhase
<1>2. QED
  BY <1>1, PTL DEF StoreSpec, BoundFieldsAreImmutable

\* An open claim survives every operation but the restore that ends it, and
\* that restore leaves the lab validated with the baseline of the claim.
THEOREM StoreClaims == StoreSpec => ClaimErasedOnlyByRestore
<1>1. StoreInv /\ [StoreNext]_store =>
        (active # None /\ active' # active =>
           active' = None /\ phase' = "validated" /\ health' = active.baseline)
  BY DEF StoreNext, store,
         Claim, BindProvisioningProfile, BindProvisioningSpec, DeclareInventory,
         RecordMachineObservations, AttestValidated, PrepareScenario, RestoreScenario,
         Advance, RecoverVerifiedPhase
<1>2. QED
  BY <1>1, StoreInvariant, PTL DEF StoreSpec, ClaimErasedOnlyByRestore

=============================================================================
