# A TLA+ model of CKS-simulator

This directory holds TLA+ models of CKS-simulator, the TLC configurations that
check them on small instances, and TLAPS proofs of what matters most about them
for instances of any size. Paths below are relative to the repository.

## 1. The system

CKS-simulator runs a Kubernetes practice lab on one host. The *full tier* owns
four Lima virtual machines per lab; its commands (`provision`, `scenario
prepare/restore`, `grade`, `exam start/resume/teardown`, `delete`) are separate
short-lived host processes that meet through files, advisory locks and the
guests themselves. The *quick tier* is a separate set of commands over a Kind
cluster, without a lock.

| Component | Source | State it keeps | Operations | Modelled in |
|---|---|---|---|---|
| Lab state store | `state.py` | one JSON record per lab: identity, profile, specification, inventory, observations, health, active scenario, journal of phases | claim, bind, declare, record, attest, prepare, restore, advance, recover, destroy | `LabState` |
| Lab lock, directory chain, atomic replace | `state.py` | lock files, directories, records as file system objects | acquire, verify, load, claim, replace, release | `LabLock` |
| Full lab lifecycle | `lab.py` | none of its own; the record and the VMs | provision, destroy | `FullLab`; the commands of a provisioning in `Converge`, `LabProgram` |
| Joining workers, token revocation | `lab.py`, `infra/provision/{control-plane,worker}` | bootstrap tokens | bootstrap, generate, join, revoke | `Converge`, `LabProgram` |
| Lima provider | `providers/lima.py` | the Lima instances, their identity digests and root-owned markers, the last proof of ownership | discover, ensure, prove_ownership, execute_verified, delete | `LimaMachine`; its contract in `LimaContract` |
| Serial scenario engine | `scenarios.py`, `scenario_runtime.py` | claim in the lab record, mutations and baselines on guests | prepare, grade, restore | `FullLab` (claims, mutations), `Grading` (role by role) |
| Live grading | `live_grading.py` | none | evaluate_live_grade | `Grading` |
| Guest helpers | `infra/provision/scenarios/*.sh` | task files, captured baselines, lifecycle file | prepare, reference, restore, observe | `FullLab`, `Exam`, `Grading` (partly) |
| Exam session and store | `exam.py` | one JSON session per lab, compare-and-swap on a revision, an exam lock | create, claim, confirm, activate, progress, submit, complete, fail, delete | `ExamSession`, `ExamLifecycle` |
| Exam engine | `exam_engine.py` | none of its own | start, grade_task, grade_all, teardown | `Exam` |
| Exam UI bridge, desktop tunnel | `exam_server.py`, `full_cli.py`, `desktop.py`, `exam_ui/app.js` | an SSH tunnel, a request in progress | resume, poll, progress, check, submit, close | `Exam` |
| Quick tier | `cli.py` | a Kind cluster with an ownership marker, three files per cluster name | provision, delete, reset, e2e | `QuickTier` |
| Exam score aggregation | `exam.py` | none | aggregate_exam_grades | not modelled |
| Recovery rehearsal, release gate | `recovery.py`, `e2e.py` | receipts | rehearse, build, clean up | not modelled |
| Provider contract, prerequisites, progress | `providers/base.py`, `prerequisites.py`, `progress.py` | none that matters | process execution, display | no: input and output only |

### How the parts interact

* Every full-tier command that mutates a lab holds the **lab lock** from its
  first load to its return. All callers wait for it; the
  non-blocking variant (`LOCK_NB`) exists in the code and is modelled, but no
  command asks for it.
* Beneath it, the provider takes a **host provider lock** for each discovery,
  creation, proof and deletion; `execute`, the installation of root files and the
  observation of machines take none.
* The record is written *ahead* of what it describes: identity, profile,
  specification and inventory before the first VM; the scenario claim before the
  first mutation; `cleanup-pending` before the first deletion.
* An exam has a second file and a second lock. Submissions, progress updates and
  teardown take the **exam lock**, and the lab lock inside it; the start of an
  exam takes the lab lock only and relies on the revision of the session.
* Any number of UI bridges may serve the same session, each with its own desktop
  tunnel; a page polls, and only a poll notices that the deadline has passed.
* Quick-tier commands meet only through Kind, the metadata, kubeconfig and claim
  files of a cluster name, and the marker inside the node.

### What is hard

Processes die between two writes; commands time out after they took effect;
Lima stops machines on its own; somebody replaces a machine, a directory or a
cluster between two looks at it; several terminals work on one lab; the
candidate works on the guests while they are graded; a decision taken under one
acquisition of a lock is acted on under the next. These are the hazards that
`PROJECT.json` lists with the lines where they bite and the properties that
would catch them. What makes each component correct:

* *store*: a record that is written can be loaded; phases follow the table;
  bound inputs never change; a claim ends only by its restore;
* *lock*: one command at a time works below a state root, nobody waits for
  ever, and no record lands on that of another lab;
* *lifecycle and scenarios*: no machine outside the inventory, no mutation
  outside the claim, no verified phase with a machine missing, no tombstone over
  a machine, cleanup that always ends, no bootstrap token left behind, and a
  phase that certifies the guests also on a replay;
* *provider*: what is stopped, deleted or commanded is what was proved;
* *grading*: a grade that is fair although nothing stands still while it is
  taken, and a restore that does not take a helper's word;
* *exam*: one session at a time, at most one receipt, mutations always covered
  by a claim, an end for every exam that someone looks at;
* *quick tier*: release gates that do not touch each other's cluster and leave
  none of their own.

## 2. Modules

| Module | Models | Builds on |
|---|---|---|
| `LabState` | the lab record and one action per `LabStateStore` operation; the abstract specification of the full tier | - |
| `LabLock` | lock acquisition, record creation and replacement over named directories that somebody may move | - |
| `LimaContract` | what an operation of the provider may do to a machine, in the terms of `FullLab` | - |
| `LimaMachine` | the provider's operations on one machine, `limactl` command by command | `LimaContract` (shown to be kept) |
| `FullLab` | provision, scenario and destroy as sequences of persisted writes, provider operations and guest commands, with crashes | `LabState`, `LimaContract` |
| `Converge` | a run of the guest commands between the creation of the machines and the last phase, for any program of a certain shape | `FullLab` (its stages implemented) |
| `LabProgram` | the program of the code: its commands, guest by guest, in the order of `provision` | `Converge` |
| `Grading` | prepare, grade and restore of one scenario, role by role | - |
| `ExamLifecycle` | what an exam promises: one exam, its state diagram, one final receipt | - |
| `ExamSession` | the session record, its transitions and its store | - |
| `Exam` | starts, teardowns and bridges as processes with two locks, and the other commands on the same lab | `ExamSession`, `ExamLifecycle` (refined) |
| `QuickTier` | the quick tier's commands on one cluster name | - |
| `MCFullLab`, `MCConverge`, `MCGrading`, `MCExam` | instances for TLC | the module each is named after; `MCConverge` on `LabProgram` |
| `LabState_proofs`, `FullLab_proofs`, `LabLock_proofs`, `Exam_proofs`, `Grading_proofs`, `LimaMachine_proofs`, `QuickTier_proofs`, `Converge_proofs` | theorems | the module each is named after |

The modules stack: `FullLab` refines the store of `LabState`; a stage that
`FullLab` takes in one step is opened in `Converge`, a machine that it ensures or
deletes in one step is opened in `LimaMachine`, the exclusion that its single
`job` assumes is what `LabLock` establishes, and the mutation and restore of a
role is opened in `Grading`.

Definitions whose comment begins with *Bug:* are variants that no specification
uses. Each says how a plausible mistake would read; `PROJECT.json` names the
property that finds it when it takes the place of the definition after it.

### State and code

*LabState.* `phase` is the phase of the last journal entry, `"missing"` before
the file exists; the code reads earlier entries only to display them and to size
a disk check. `observations` stands for the complete tuple of machine facts
(they are written together or not at all), `active` for `ActiveScenario` with
the baseline it pins. An operation refused by its guard changes nothing and is a
stuttering step. One lab name is modelled; its UUID is the variables themselves.
`StoreInit` includes records written before memory profiles existed.

*LabLock.* Objects are numbers: directories, lock files and record files that
were ever made; `at[d][n]` is what the name `n` in the directory `d` refers to.
A process keeps what it has opened (`root`, `locks`, `file`, `dir`), as the code
keeps file descriptors, and compares it with what the names say before it
enters, before it commits and when it leaves. `MoveAway` and `MoveLab` are
somebody else's renames at any moment. `Leave` covers `__exit__`, which fails a
command whose root no longer has its name; `Die` releases by the death of the
process. The order of the two locks (root directory, then lock file) and the
release on every error path (`Abandon`) are those of `LabMutatorLock.__enter__`.

*FullLab.* `job` is the process that holds the lab lock: its control point and
its locals. `vms` says for each role whether the instance is absent, running or
stopped, and whether its marker is written (`bare` when not). `mutated` and
`captured` are pairs of a scenario and a role: the mutation is on that guest,
the baseline file its restore needs is there. The stages of convergence are one
step each that succeeds or fails; `Crash` ends the process at any control point.

*Converge.* `Program` is the sequence of guest commands of a run: a constant,
of which `ProgramAssumption` says what the properties rely on. `LabProgram`
defines that of the code, `ProvisionProgram`, in the order of `provision`. A
command *makes* pieces and *needs* pieces; a piece is
`good` when it works and `stuck` when a replay refuses it, as `kubeadm` scripts
do that verify an existing control plane, member or certificate instead of
making it anew. A failed or interrupted command may have done all, none or half
of its work (`HalfDone`). `tokens` distinguishes the token of `kubeadm init`,
that of this run's join and those of earlier runs; a failed or interrupted join
passes through `"revoke"`, the `finally` clause. `StagesImplementFullLab` maps
this state to that of `FullLab`.

*LimaMachine.* `vm` is the instance that the name stands for: identity digest in
its Lima configuration, provider data (directory, CPUs, disk ...), status and
marker inside the guest. Each process runs one operation with what it last saw
(`seen`) and its fingerprints; `proof` is `_ownership_fingerprints`, which
outlives an operation. `Meddle` replaces or alters the instance without the
lock; `meddled`, `stale` and `refused` are history that the properties speak of.

*Grading.* A criterion is met or not on the role where it is observed; the
lifecycle of a role is the file its helper writes last. `baseline` is what the
first preparation of a role captured (`backup_once`): on the roles of
`CaptureRoles` a restore dies without it (`Restorable`) and puts it back
(`Original`); a helper that is cut off may have captured and not mutated
(`CutOff`). `job` is the engine's operation with the roles it has still to
command or observe, what its probe has seen (`checks`, `cycles`) and whether the
probe failed. `Change` is the
candidate at work, `Disturb` a machine or the cluster that stops attesting
healthy. `ever` and `always` are the criteria met at some and at all moments of
the probe, `strayed` those changed since a contract was last observed on their
role. A grade is computed from the credits as `evaluate_live_grade` does it: the
weights earned and possible, a score in hundredths of a percent, rounded to the
nearest (`Score`; the weights of `_CHECKS` tie nowhere), and the status
(`Status`).

*Exam.* `session` is the stored session, `start`, `teardown` and `bridge[b]` the
processes with their locals. `start.local` is the session the start holds in
memory; that it can be older than the stored one is the point of several
properties. `orphans` says that a tunnel outlived its bridge. A command that
meets the exam only through the guests (`SerialPrepare`, `SerialRestore`,
`Provision`, `Destroy`) is one step with every result it can have, including
those of its death part way; `FullLab` has their steps one by one.

*QuickTier.* `cluster` is what Kind has under the name: the creation and the
command it comes from, and the marker written into its node. The three files are
variables, and each process runs one command with the identity it declared.
`Presence` and `Ownership` are what a query may answer: the truth, or silence
and a refusal, which the code treats alike in some places and not in others. A
deletion removes its files one at a time. `fresh` numbers what is created;
`commands` and `foreign` count against the bounds.

## 3. Runs

| Run | Question | Distinct states | Result |
|---|---|---|---|
| `lab_state` | does any sequence of store operations break the record? | small | holds |
| `full_lab` | do crashes, failures and VM stops separate record, machines and guests, and does cleanup end? | 93 047 | holds, and every step is a store operation |
| `full_lab_claim_phase` | can an open claim always be restored? | - | violated |
| `converge` | do the commands inside a provisioning, failing anywhere, leave a token behind, or record a phase that the guests do not deserve? | 582 294 | holds, and every step is a stage of `FullLab` |
| `lima_machine` | do operations reach what they verified, and leave a machine only as `LimaContract` says? | 125 648 | holds |
| `lab_lock` | do exclusion and ownership of records survive renames, does nobody wait in a circle, and is every waiter served? | 60 754 | holds |
| `grading` | is a grade fair and a restore exact while everything moves? | 2 211 443 | holds |
| `grading_untouched` | does an untouched attempt score nothing? | - | violated |
| `quick_tier` | do concurrent release gates disturb each other, or leave a cluster? | 871 752 | holds |
| `exam` | do racing starts, teardowns and bridges keep claims and lifecycle? | 1.3 million | holds |
| `exam_live` | do watched exams end, and is the exam lock released? | - | holds |
| `exam_submitting` | does a submission that was begun come to an end? | - | violated |

### Bounds

* `LabState`: two roles, two of each kind of fingerprint, two scenarios and
  attempts. Every guard compares one value with one recorded value, so two
  distinguish equal from different.
* `FullLab`: two machines, the least that can be partly created, mutated or
  deleted; two specifications and two fact sets for drift; one scenario that
  captures baselines on both of its roles, one that captures none; one attempt
  and one health, since no action of `FullLab` compares two attempts and
  `HealthOf` is a function. The violation run uses fewer inputs.
* `Converge`: the four machines of a lab, since the order of commands among them
  is the point; one set of facts, as drift is the subject of `FullLab`; one piece
  or machine that fails on its own (`MaxBreaks`), out of five representatives
  (`Fragile`): one that is made anew, one that is kept, one of a stage in the
  middle, a certificate, and one of the last stage. Any number of runs, failures,
  interrupts and deaths. TLC also evaluates `ProgramAssumption` on the program of
  the code.
* `LimaMachine`: two processes, two kinds of provider data (the one that `ensure`
  makes and another), one machine. The operations address one machine at a time.
  No other bound: `Meddle` and `VmStops` happen any number of times.
* `LabLock`: two processes of which one is impatient, two labs, one move;
  `MaxObjects = 8` lets both processes make a whole chain twice. Two moves were
  also checked (880 000 states).
* `Grading`: scenario 05, observed on two roles with two criteria each, half of
  which a restored guest meets, and both of which capture the baseline that their
  restore needs; three changes by the candidate or the machines:
  one before, one between and one after two observations.
* `Exam`: two tasks, one of which captures a baseline, the least with a prefix,
  a reverse order and a partial restore; two bridges, as the third adds no new
  pair of racing processes; two session UUIDs, so that a process of the first
  exam meets the second; `MaxRevision = 6` allows one progress update after the
  activation (revision 5), which is enough to make the starter's copy stale.
  `exam_live` and `exam_submitting` use one bridge, which is enough for them.
* `QuickTier`: two processes and two commands, so that each pair of commands
  meets at every pair of steps, and one cluster made by hand. Three commands
  without that cluster were also checked.

### Fairness

* `CleanupFairness` (`full_lab`): an operator repeats ordinary and break-glass
  cleanup, and discovery, proofs and deletions do not fail for ever. The steps of
  another operation that hold the lock before its first external command (binding
  inputs) end. Nothing else is fair: crashes, failing commands and other
  operations go on as they like.
* `Fairness` of `LabLock`: a command that runs goes on and ends (weak); a waiter
  obtains a lock that is released again and again (strong: `flock` queues its
  waiters). Nobody is obliged to begin, and moves and deaths are free.
* `Fairness` of `Exam` (`exam_live`, `exam_submitting`): a process that runs
  takes its next step or fails; one that waits for a lock obtains it if the lock
  is released again and again; an open page polls (`tick` and the 15-second timer
  in `app.js`); a closed bridge is resumed. No candidate is obliged to submit,
  and nobody to start or tear down.

`Converge`, `LimaMachine`, `Grading` and `QuickTier` state no fairness: what they
promise is safety. Deadlock is checked except in `LabState` (a destroyed record
stays) and `QuickTier` (no command is left to run).

### What the violated properties show

1. **A claim stranded by provisioning** (`full_lab_claim_phase`). A degraded lab
   with an open scenario claim is provisioned: the phase recovers, the claim
   stays. `scenario restore` now refuses by phase, `prepare` and the exam refuse
   because of the claim. The runbook asks for restore first; nothing enforces it.
2. **A submission nobody concludes** (`exam_submitting`). After a bridge ended
   during grading the session is `submitting`; polls act on active sessions only
   and the page disables its submit button.
3. **An untouched grade that scores** (`grading_untouched`). One attempt captures
   the baselines of its roles and is restored; another is prepared. The phase and
   the claim are written before the first helper. If the host dies right then,
   the guests still carry the restored lifecycle of the earlier attempt; grading
   compares the roles with each other only, and scores what a restored guest
   meets.

### What else was seen while modelling

These behaviours are in the models, and the properties above are stated so that
they do not exclude them; no run is kept for them.

* *A claim without a baseline.* The host or the helper ends between the claim and
  the capture of the baseline, and the restore dies on the missing file each time
  (`mutate.sh:426`). `Grading` has it as `MutateFails` and no `Mutate`. Exam tasks
  share the helpers.
* *A desktop during grading.* Submission closes the tunnel of its own bridge
  only; `docs/exam-architecture.md:20` promises more.
* *Two owners of the guests.* An active exam leaves the lab `validated`, which is
  all that `scenario prepare` asks for.
* *An active exam over restored guests.* The start saves the activated session
  but keeps the older copy; an error in the report after it restores every task,
  and the failure is then refused by the revision check. A forced teardown that
  dies part way has the same effect.
* *The expiry of another exam.* A poll decides under one acquisition of the exam
  lock and submits under another, without comparing sessions.
* *A half-prepared grade.* Scenarios 04, 06, 15 and 17 mutate roles that they do
  not observe, so that a preparation cut off between two roles can be graded.
* *The quick tier's window.* `e2e` looks for an existing cluster and claims the
  name afterwards; a cluster provisioned in between is reused and deleted at the
  end, which `docs/validation-2026-07-14.md:54` rules out.
* *Deletions without proof.* `delete` without `--force` deletes a cluster that is
  not owned when `kind get clusters` is not answered; the cleanup of `e2e` forces
  its deletion when the ownership test is not answered (`cli.py:1464`).
* *A claim nobody holds.* An error or Ctrl-C while `e2e` writes its claim
  (`cli.py:643`), or within its final cleanup, leaves what the death of the
  process leaves there and is covered by `Crash`: the claim file stays, and refuses later
  runs until a `delete` or `reset` of that name removes it.
* *Metadata of the winner.* Of two `provision`s at once, the one that fails
  removes the metadata that the other wrote.
* *A pending kubeconfig.* The temporary `.kubeconfig-*` of a quick-tier creation
  stays behind when its process is killed.

## 4. Proofs

All theorems are for any finite or infinite choice of the constants that
satisfies the named assumptions of the modules; TLC evaluates each of them on
the instances.

* `RolesAssumption`, `NoneAssumption`, `FullLabAssumption`,
  `LabLockAssumption`, `TasksAssumption`, `AbsentAssumption`,
  `CaptureAssumption`, `BoundAssumption`, `BridgesAssumption`, `LimaAssumption`,
  `QuickAssumption`: `None` is not a value of the optional fields nor of what a
  process, a machine or an operation is, names of processes are not those of
  points of control, the order and role tables have their types, and bounds are
  natural numbers.
* `GradingAssumption`: every criterion of a scenario is observed on one of its
  roles, and the roles that capture a baseline are among them.
  `WeightAssumption`: the criteria are finitely many, with positive whole
  weights, less than 20 000 together, as in `_CHECKS`; beyond that a single
  criterion may vanish in the rounding of a score.
* `ProgramAssumption`: a program of `Converge` has one bootstrap, one generation
  and one revocation, in this order, and its joins exactly between the last two;
  it records each phase, in their order, `cluster-ready` after the revocation,
  and ends with a record; nothing that a phase stands for is made again after
  the phase is recorded.

*LabState_proofs.* The inductive invariant `StoreInv` is the type invariant with
`RecordsStayLoadable` and `VerifiedPhasesHaveEvidence`, and two facts that these
need: an open claim keeps the evidence it was made on, which a restore from
`degraded` relies on, and a record without an identity is empty. The action
properties (`JournalFollowsTable`, `BoundFieldsAreImmutable`,
`ClaimErasedOnlyByRestore`) follow from it, one case per operation. That a renewed
attestation does not replace the baseline of an open claim follows as well:
`RecordsStayLoadable` wants the two equal, and the claim itself stays.

*FullLab_proofs.* `LabInv` is `StoreInv`, the typing of guests and job, the
invariants that the runs check, and `ControlMatchesRecord`, the strengthening
that makes them inductive: what each control point knows about the record (at
`ensure` the inventory is declared, at `prepare` the claim is written, at
`delete` the cleanup is recorded, and so on). `LabRefinesStore` shows that each
step of `FullLab` is a step of the store or leaves the record alone, so
everything proved of the store holds of the lab. `LabMutationsAreClaimed`,
`LabTombstonesAreEmpty`, `LabIsWhole` and `LabMachinesAreClaimed` are the safety
properties of the run `full_lab`; `LabDeletionIsWrittenAhead` (no machine
disappears before the cleanup is recorded) is proved only.

*Converge_proofs.* `ConvergeInv` says what holds by the position of the run in
its program: which tokens may be live before and after the bootstrap, the
generation and the revocation (`TokensOK`), that everything before the position
has been made or checked and stands unless something outside the run spoiled it
(`CoverageOK`), and which phase the record has reached (`RecordOK`).
`PassedPhasesCertify` needs the assumption that later commands make nothing anew
that an earlier phase covers. `RunsImplementStages` is the refinement: a run of
any such program is, between two records, a stage of `FullLab` that succeeds or
fails, and the records come in the order in which `FullLab` takes its stages
(`RecordsInOrder`).

*LabLock_proofs.* `LockInv` adds to the properties what a process knows: past the
root lock it holds it (`RootsAreHeld`), about to overwrite a record it has read
its own lab in it (`WritersHaveRead`), the objects it has opened were made
(`RootsAreMade`), and its lab is known (`LabsAreKnown`). The subtle part is
`OverlapsAreNoticed`: of two processes that were inside together, at most one has
a root that still bears its name, a root that lost its name does not get it back,
and `Leave` compares. `LockExcludes` and `LockOverlapsAreSerial` follow from it,
`LockRecordsKeepTheirLab` from `WritersHaveRead`. `LockWaitsAreShort`: a lock that
is held is in use by its holder, whoever waits for a root waits for a process that
has its own, and whoever waits for a lock file waits for one that has passed both
(`WaitsAreShort`). So no circle of commands waits for each other. It needs
that no object is opened once as a root and once as a lock file
(`KindsAreApart`); `AcquisitionsEnd` is the live counterpart that TLC checks.

*Exam_proofs.* `ExamInv` ties processes to locks (`LocksAreHeld`) and says what
each may rely on while others run: a bridge that grades finds its session
submitting (`GradersFindSubmissions`), what a start has in memory is the stored
session until it has activated the exam and an older one after
(`StarterKnows`), a teardown without an error has dealt with every task it no
longer lists (`TeardownKnows`). `TransitionsStayValid` is the lemma about the
transitions of a session. Each lemma `...KeepsInv` treats one process.
`ExamKeepsLifecycle` is the refinement: every step is a step of `ExamLifecycle`
or leaves the exam alone. `ExamLocksAreUsed`, proved only, is the safety behind
`ExamLockIsReleased`: whoever holds a lock is at a point from which it gives it
back, and nobody waits with the lab lock in hand.

*Grading_proofs.* `GradingInv` says what has been learnt when some roles are
still to be looked at: of the criteria of the other roles, those not touched
since are as they were seen (`ContractIsSeen`), and those met throughout have
been credited and those credited were met at some moment (`WindowIsCredited`).
No role is looked at twice (`ProbeOK`). `GradingRestoresExactly` and
`GradingGradesFairly` follow at the end of a probe, when no role is left. The
second is about a score as well, a rounded quotient of two sums over sets:
`SumStep` to `SumIsMonotone` establish what is needed of such sums (a set on
which one failed would have a least subset on which it fails), `RoundFacts` what
rounding preserves.

*LimaMachine_proofs.* The host provider lock makes a running operation the only
one (`LocksAreHeld`). With it `LimaInv` is inductive whoever meddles: it carries
`CommandsReachWhatWasVerified`, and `DeletionsFollowTheLatestProof` with the fact
that a refused attempt leaves no proof behind (`RefusedHaveNoProof`).
`ContractInv` is what lets the contract follow: relative to the machine that an
operation found when it began, `EnsureKnows`, `ProofKnows` and `DeleteKnows` say
what it knows at each of its control points, as long as nobody outside the
program replaced the machine; a stop by Lima itself between two commands keeps
it (`StoppingKeeps`). `LimaKeepsContract` is the result, and `FullLab` is built
on that contract.

*QuickTier_proofs.* No two processes are the same run of `e2e`
(`RunsAreDistinct`), and a run that has looked for a cluster holds the claim of
its name until its own cluster is gone, unless somebody robbed it of the claim
(`ClaimsAreHeld`). What a run deletes can then not be of another run
(`QuickRunsAreIsolated`), and a run that reports its cleanup has left nothing
(`QuickCleanedRunsLeaveNothing`).

Only model-checked: the liveness properties (`CleanupEndsInTombstone`,
`AcquisitionsEnd`, `OpenExamsEnd`, `ExamLockIsReleased`), which need fairness and
`ENABLED`. Every safety property and action property that a passing run checks is
stated by a theorem. That `ProvisionProgram` satisfies `ProgramAssumption` is not
proved but evaluated: it is a fixed sequence of about a hundred commands, and the
four machines of the instance are those of every lab.

## 5. Assumptions and omissions

* Advisory locks exclude and are released by the death of their holder; `rename`
  and `link` are atomic. In `FullLab`, `Exam` and `Grading` the lab lock excludes;
  `LabLock` shows in which sense it does when directories are moved.
* In `LabLock` the namespace level of the chain, which is one like the level
  above it, is left out, and what was moved away does not come back.
* The health fingerprint is a function of specification and machine facts: the
  code recomputes it from the guests and compares. A guest whose health changed
  makes the command fail, which is among the failures.
* A guest command that failed, timed out or lost its host process is over when
  the next operation reaches that guest.
* `execute`, the installation of root files and `observe_machine` take no
  provider lock and verify nothing; in `LimaMachine` they are no operations of
  their own, in `Converge` they are the commands.
* The lifetime of a join token (15 minutes) is not compared with the timeouts of
  the joins (600 seconds each): a token may expire at any moment.
* In `QuickTier` the presence, the ownership and the health of a cluster are one
  look where the code asks Kind, Docker and the nodes one after the other; each
  decision is still separate from what is done about it.
* Configurations without workstation inputs stop after the base phases; this
  prefix of a provisioning is not modelled, nor are the read-only helpers that
  the exam bridge uses.
* Task contents, observations and grades are abstracted to what decides control:
  prepared, restored, met or not, trusted or not. The evidence that the runtime
  hands to `evaluate_live_grade` never carries a tamper or breakage signal, so
  the verdicts `LAB_TAMPERED` and `LAB_BROKEN` do not occur in `Grading`.
* Progress display, argument parsing, redaction and formatting are left out.

### Not modelled

* *Score aggregation* (`aggregate_exam_grades`): a weighted sum of the task
  grades, rounded twice, against a threshold; a pure function.
* *Recovery rehearsal and release gate* (`recovery.py`, `e2e.py`): a sequential
  script over operations that are modelled here, which writes receipts. The
  reference solutions (`apply_reference_all`, `scenario` reference actions) and
  the host-reset mode of a restore belong to it.
* *The quick tier's scenarios* (`start`, `solve`, `grade`): they apply and read
  fixtures in a cluster that the modelled commands own. `providers/kind.py` has no
  caller.
* *Provisioning scripts*: package installation; each is a command of `Converge`,
  by what it needs and leaves.
* *Provider contract, prerequisites, progress*: input and output.
* *VM spike*: a prototype that the program does not use.

## 6. Plan

In this order:

1. the composition of `Exam` and `FullLab`, for exams over degraded labs;
2. score aggregation against an exact reference, with its rounding;
3. the release gate of `e2e.py` and `recovery.py`, with receipts.
