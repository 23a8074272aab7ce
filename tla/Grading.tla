------------------------------- MODULE Grading -------------------------------
(***************************************************************************)
(* One scenario of the full tier from its claim to its restore, as the     *)
(* guests see it: ScenarioEngine.prepare, .grade, .restore and             *)
(* ._collect_grade_read_only (src/cks_simulator/scenarios.py), the runtime *)
(* they call (scenario_runtime.py) and the pure evaluation of              *)
(* live_grading.py.  FullLab takes a grade or an observation in one step;  *)
(* here every guest is commanded by itself, while the candidate keeps      *)
(* working on all of them.                                                 *)
(*                                                                         *)
(* A criterion is met or not on the guest where it is observed.  The       *)
(* lifecycle of a role is the file its helper writes when it is done, its  *)
(* baseline what the first preparation found there (backup_once in         *)
(* infra/provision/scenarios/mutate.sh) and a restore puts back.  A        *)
(* careless helper reports success and leaves its role as it was.          *)
(***************************************************************************)
EXTENDS Naturals, Sequences, FiniteSetsExt

CONSTANTS
  MutationRoles, ObservationRoles,  \* sequences of roles, in the order they are commanded
  Criteria,
  At,              \* the role where a criterion is observed
  Weight,
  MetWhenRestored, \* the criteria that hold on a restored guest
  CaptureRoles,    \* the roles whose restore needs a captured baseline
  Careless,        \* whether the helpers may be
  None,
  MaxChanges       \* how often the candidate changes a criterion or the cluster its health

VARIABLES
  phase, active,   \* the record: the phase and whether an attempt is claimed
  met,             \* the criteria that hold now
  lifecycle,       \* per role
  baseline,        \* per role, the criteria met when its baseline was captured
  sound,           \* whether the machines and the cluster attest healthy
  job,
  result,          \* the last grade of this attempt
  ever, always,    \* history: the criteria met at some and at all times of the running or last grade
  strayed,         \* history: the criteria changed since a contract was last observed on their role
  touched,         \* history: whether the candidate or a restore has worked on this attempt
  changes

record == <<phase, active>>
guests == <<met, lifecycle, baseline, sound>>
window == <<ever, always>>
vars == <<record, guests, job, result, window, strayed, touched, changes>>

-----------------------------------------------------------------------------

Roles == {MutationRoles[i] : i \in DOMAIN MutationRoles}

\* Every criterion is observed, once, on a role that is prepared.
ASSUME GradingAssumption ==
  /\ MutationRoles \in Seq(Roles) /\ ObservationRoles \in Seq(Roles)
  /\ \A i, j \in DOMAIN ObservationRoles : ObservationRoles[i] = ObservationRoles[j] => i = j
  /\ \A c \in Criteria : \E i \in DOMAIN ObservationRoles : At[c] = ObservationRoles[i]
  /\ Criteria # {} /\ MetWhenRestored \subseteq Criteria /\ CaptureRoles \subseteq Roles

Of(r) == {c \in Criteria : At[c] = r}

Idle == [pc |-> "idle", op |-> "none", todo |-> <<>>, checks |-> {}, cycles |-> {}, failed |-> FALSE]
Operate(op, pc, roles) == job' = [Idle EXCEPT !.op = op, !.pc = pc, !.todo = roles]
Probe(pc) == job' = [job EXCEPT !.pc = pc, !.todo = ObservationRoles, !.checks = {}, !.cycles = {}]
Goto(pc) == job' = [job EXCEPT !.pc = pc]

\* What a role looks like after a helper has done its work, _expected_contract_sha.
Contract(op) == IF op = "restore" THEN MetWhenRestored ELSE {}
Lifecycle(op) == IF op = "restore" THEN "restored" ELSE "prepared"

Sum(criteria) == MapThenSumSet(LAMBDA c : Weight[c], criteria)

\* The weights of _CHECKS in scenario_runtime.py: whole, positive, and together
\* too small for two decimals of a percentage to hide one of them.
ASSUME WeightAssumption ==
  /\ IsFiniteSet(Criteria)
  /\ Weight \in [Criteria -> Nat \ {0}]
  /\ Sum(Criteria) < 20000

\* round(earned / possible * 100, 2), in hundredths; no weights of _CHECKS tie.
Score(earned, possible) == (20000 * earned + possible) \div (2 * possible)

Status(earned, possible) ==
  IF earned = possible THEN "PASS" ELSE IF earned > 0 THEN "PARTIAL" ELSE "FAIL"

\* evaluate_live_grade: a fixed denominator.  The evidence of the runtime is
\* never guest-only, and it raises no tamper or breakage signal.
LiveGrade(passed) ==
  [passed |-> passed,
   score |-> Score(Sum(passed), Sum(Criteria)),
   status |-> Status(Sum(passed), Sum(Criteria))]

-----------------------------------------------------------------------------
(* prepare and restore                                                     *)

\* The write-ahead claim.
Prepare ==
  /\ job = Idle
  /\ phase = "validated" /\ ~active
  /\ phase' = "scenario-prepared" /\ active' = TRUE
  /\ Operate("prepare", "mutate", MutationRoles)
  /\ result' = None /\ touched' = FALSE
  /\ UNCHANGED <<guests, window, strayed, changes>>

Restore ==
  /\ job = Idle
  /\ phase \in {"scenario-prepared", "degraded"} /\ active
  /\ Operate("restore", "mutate", MutationRoles)
  /\ touched' = TRUE
  /\ UNCHANGED <<record, guests, result, window, strayed, changes>>

\* backup_once: what is there is captured, unless it was before.
Capture(r) ==
  baseline' = IF r \in CaptureRoles /\ baseline[r] = None
                THEN [baseline EXCEPT ![r] = met \cap Of(r)] ELSE baseline

\* "controller-manager baseline is missing": a restore dies without its baseline.
Restorable(r) == r \in CaptureRoles => baseline[r] # None

Original(r) == IF r \in CaptureRoles THEN baseline[r] ELSE MetWhenRestored \cap Of(r)

\* What a helper does to its role: a preparation captures before it mutates.
Reset(r) ==
  \/ job.op = "prepare" /\ met' = met \ Of(r) /\ Capture(r)
  \/ job.op = "restore" /\ Restorable(r) /\ met' = (met \ Of(r)) \cup Original(r) /\ UNCHANGED baseline

\* One helper run; what it does to a role it may do badly.
Mutate ==
  /\ job.pc = "mutate" /\ job.todo # <<>>
  /\ job.op = "restore" => Restorable(Head(job.todo))
  /\ Reset(Head(job.todo)) \/ (Careless /\ UNCHANGED <<met, baseline>>)
  /\ lifecycle' = [lifecycle EXCEPT ![Head(job.todo)] = Lifecycle(job.op)]
  /\ IF Len(job.todo) = 1 THEN Probe("contract") ELSE job' = [job EXCEPT !.todo = Tail(@)]
  /\ UNCHANGED <<record, sound, result, window, strayed, touched, changes>>

\* A helper that is cut off: it has done nothing, all but the lifecycle, which is
\* the last thing it writes, or only captured the baseline.
CutOff ==
  /\ job.pc = "mutate" /\ job.todo # <<>>
  /\ \/ Reset(Head(job.todo))
     \/ job.op = "prepare" /\ Capture(Head(job.todo)) /\ UNCHANGED met
     \/ UNCHANGED <<met, baseline>>

\* The integrity check of the helper, or the helper, fails.
MutateFails ==
  /\ CutOff
  /\ Goto("degrade")
  /\ UNCHANGED <<record, lifecycle, sound, result, window, strayed, touched, changes>>

\* Bug: the lifecycle files alone are compared.
ReachContractLoosely ==
  /\ job.pc = "contract" /\ job.todo = <<>>
  /\ job.cycles = {Lifecycle(job.op)}
  /\ Goto(IF job.op = "prepare" THEN "before" ELSE "attest")
  /\ UNCHANGED <<record, guests, result, window, strayed, touched, changes>>

\* U7ScenarioMutator._apply: the exact contract on every observed role.
ReachContract ==
  /\ job.pc = "contract" /\ job.todo = <<>>
  /\ job.cycles = {Lifecycle(job.op)}
  /\ job.checks = Contract(job.op)
  /\ Goto(IF job.op = "prepare" THEN "before" ELSE "attest")
  /\ UNCHANGED <<record, guests, result, window, strayed, touched, changes>>

MissContract ==
  /\ job.pc = "contract" /\ job.todo = <<>>
  /\ job.cycles # {Lifecycle(job.op)} \/ job.checks # Contract(job.op)
  /\ Goto("degrade")
  /\ UNCHANGED <<record, guests, result, window, strayed, touched, changes>>

\* Bug: the claim outlives its restore.
RestoreDoneKeepingClaim ==
  /\ job.pc = "attest"
  /\ sound
  /\ phase' = "validated"
  /\ job' = Idle
  /\ result' = None
  /\ UNCHANGED <<active, guests, window, strayed, touched, changes>>

\* The health attested after a restore is compared with the baseline.
RestoreDone ==
  /\ job.pc = "attest"
  /\ sound
  /\ phase' = "validated" /\ active' = FALSE
  /\ job' = Idle
  /\ result' = None
  /\ UNCHANGED <<guests, window, strayed, touched, changes>>

RestoreUnhealthy ==
  /\ job.pc = "attest"
  /\ ~sound
  /\ Goto("degrade")
  /\ UNCHANGED <<record, guests, result, window, strayed, touched, changes>>

-----------------------------------------------------------------------------
(* grade                                                                   *)

\* Bug: a grade starts from what an earlier one has seen.
GradeCached ==
  /\ job = Idle
  /\ phase = "scenario-prepared" /\ active
  /\ job' = [Idle EXCEPT !.op = "grade", !.pc = "observe", !.todo = ObservationRoles,
                         !.checks = IF result = None THEN {} ELSE result.passed]
  /\ result' = None
  /\ ever' = met /\ always' = met
  /\ UNCHANGED <<record, guests, strayed, touched, changes>>

Grade ==
  /\ job = Idle
  /\ phase = "scenario-prepared" /\ active
  /\ Operate("grade", "before", <<>>)
  /\ result' = None
  /\ UNCHANGED <<record, guests, window, strayed, touched, changes>>

\* The health before the probe; the probe begins.
AttestBefore ==
  /\ job.pc = "before"
  /\ sound
  /\ Probe("observe")
  /\ ever' = met /\ always' = met
  /\ UNCHANGED <<record, guests, result, strayed, touched, changes>>

AttestBeforeFails ==
  /\ job.pc = "before"
  /\ ~sound
  /\ Goto("degrade")
  /\ UNCHANGED <<record, guests, result, window, strayed, touched, changes>>

\* _VerifiedTransport.observe_role, of the next role: what it sees is of now.
Observe ==
  /\ job.pc \in {"contract", "observe"} /\ job.todo # <<>>
  /\ LET r == Head(job.todo) IN
       /\ lifecycle[r] # None
       /\ job' = [job EXCEPT !.todo = Tail(@), !.checks = @ \cup (met \cap Of(r)), !.cycles = @ \cup {lifecycle[r]}]
       /\ strayed' = IF job.pc = "contract" THEN strayed \ Of(r) ELSE strayed
  /\ UNCHANGED <<record, guests, result, window, touched, changes>>

\* An observation that fails ends a probe, not the attestation that follows it.
ObserveFails ==
  /\ job.pc \in {"contract", "observe"} /\ job.todo # <<>>
  /\ IF job.pc = "contract" THEN Goto("degrade") ELSE job' = [job EXCEPT !.pc = "after", !.failed = TRUE]
  /\ UNCHANGED <<record, guests, result, window, strayed, touched, changes>>

\* collect_state: the roles have to agree on their lifecycle.
Observed ==
  /\ job.pc = "observe" /\ job.todo = <<>>
  /\ job' = [job EXCEPT !.pc = "after", !.failed = \E x, y \in job.cycles : x # y]
  /\ UNCHANGED <<record, guests, result, window, strayed, touched, changes>>

Trusted == sound /\ ~job.failed

\* A grade is returned; one of an untouched preparation only when it is FAIL.
AttestAfter ==
  /\ job.pc = "after"
  /\ Trusted
  /\ job.op = "prepare" => LiveGrade(job.checks).status = "FAIL"
  /\ result' = IF job.op = "grade" THEN LiveGrade(job.checks) ELSE None
  /\ job' = Idle
  /\ UNCHANGED <<record, guests, window, strayed, touched, changes>>

AttestAfterFails ==
  /\ job.pc = "after"
  /\ ~Trusted \/ (job.op = "prepare" /\ LiveGrade(job.checks).status # "FAIL")
  /\ Goto("degrade")
  /\ UNCHANGED <<record, guests, result, window, strayed, touched, changes>>

Degrade ==
  /\ job.pc = "degrade"
  /\ phase' = "degraded"
  /\ job' = Idle
  /\ UNCHANGED <<active, guests, result, window, strayed, touched, changes>>

-----------------------------------------------------------------------------
(* The environment                                                         *)

\* The host dies, a helper with it.
Crash ==
  /\ job # Idle
  /\ CutOff \/ UNCHANGED <<met, baseline>>
  /\ job' = Idle
  /\ UNCHANGED <<record, lifecycle, sound, result, window, strayed, touched, changes>>

\* The candidate meets or undoes a criterion, at any time.
Change(c) ==
  /\ changes < MaxChanges
  /\ met' = IF c \in met THEN met \ {c} ELSE met \cup {c}
  /\ IF job.pc = "observe" THEN ever' = ever \cup met' /\ always' = always \cap met' ELSE UNCHANGED window
  /\ strayed' = strayed \cup {c}
  /\ touched' = TRUE
  /\ changes' = changes + 1
  /\ UNCHANGED <<record, lifecycle, baseline, sound, job, result>>

\* A machine or the cluster stops attesting healthy, or does again.
Disturb ==
  /\ changes < MaxChanges
  /\ sound' = ~sound
  /\ changes' = changes + 1
  /\ UNCHANGED <<record, met, lifecycle, baseline, job, result, window, strayed, touched>>

-----------------------------------------------------------------------------

Init ==
  /\ phase = "validated" /\ active = FALSE
  /\ met = MetWhenRestored /\ sound = TRUE
  /\ lifecycle = [r \in Roles |-> None] /\ baseline = [r \in Roles |-> None]
  /\ job = Idle /\ result = None
  /\ ever = {} /\ always = {} /\ strayed = {} /\ touched = FALSE
  /\ changes = 0

Next ==
  \/ Prepare \/ Restore \/ Mutate \/ MutateFails
  \/ ReachContract \/ MissContract \/ RestoreDone \/ RestoreUnhealthy
  \/ Grade \/ AttestBefore \/ AttestBeforeFails
  \/ Observe \/ ObserveFails \/ Observed \/ AttestAfter \/ AttestAfterFails
  \/ Degrade \/ Crash
  \/ \E c \in Criteria : Change(c)
  \/ Disturb

Spec == Init /\ [][Next]_vars

-----------------------------------------------------------------------------

TypeOK ==
  /\ phase \in {"validated", "scenario-prepared", "degraded"} /\ active \in BOOLEAN
  /\ active <=> phase # "validated"
  /\ met \subseteq Criteria /\ strayed \subseteq Criteria
  /\ lifecycle \in [Roles -> {None, "prepared", "restored"}]
  /\ baseline \in [Roles -> {None} \cup SUBSET Criteria]
  /\ job.pc \in {"idle", "mutate", "contract", "before", "observe", "after", "attest", "degrade"}
  /\ job.checks \subseteq Criteria
  /\ result # None => phase # "validated"

\* A grade looks at its guests one after the other while the candidate works.
\* Still it credits only what was met at some moment of the grade, credits
\* everything that was met throughout, and is PASS only with every criterion.
\* The score, although it is rounded, agrees with the status at both ends.
GradesAreFair ==
  result # None =>
    /\ always \subseteq result.passed /\ result.passed \subseteq ever
    /\ result.status = "PASS" <=> Criteria \subseteq result.passed
    /\ result.score = 10000 <=> result.status = "PASS"
    /\ result.score = 0 <=> result.status = "FAIL"

\* A lab that a restore has validated is at the restored contract of its
\* scenario, but for what was changed after it was looked at: the helpers'
\* success is not taken for it.
RestoredIsExact ==
  phase = "validated" =>
    \A c \in Criteria \ strayed : c \in met <=> c \in MetWhenRestored

\* docs/architecture.md:65 "Untouched grading must be `FAIL 0`": a grade of an
\* attempt that neither the candidate nor a restore has worked on scores nothing.
UntouchedScoresNothing ==
  result # None /\ ~touched => result.status = "FAIL" /\ result.score = 0

=============================================================================
