--------------------------------- MODULE Exam ---------------------------------
(***************************************************************************)
(* The combined exam on one lab, across host processes:                    *)
(* ExamEngine.start and .teardown (src/cks_simulator/              *)
(* exam_engine.py), the UI bridges that serve a stored session             *)
(* (exam_server.py, full_cli.py, desktop.py), and what other commands do   *)
(* to the same lab meanwhile (scenarios.py, lab.py).                       *)
(*                                                                         *)
(* Two advisory locks order them: the exam lock, held by submissions,      *)
(* progress updates and teardown, and the lab lock, held by whoever        *)
(* touches the guests.  The start of an exam holds the lab lock only.      *)
(* A process may die at any step, which releases its locks.                *)
(*                                                                         *)
(* A bridge serves one request at a time (the controller's own lock).  A   *)
(* command that holds the lab lock from its load to its return and meets   *)
(* the exam only through the guests is one step.                           *)
(***************************************************************************)
EXTENDS ExamSession

CONSTANTS
  Bridges,       \* UI bridge processes: exam start or resume, serving
  CaptureTasks,  \* tasks whose restore needs a baseline file their prepare captures
  MaxRevision    \* bound: no progress update is made at or past this revision

ASSUME CaptureAssumption == CaptureTasks \subseteq Tasks
ASSUME BoundAssumption == MaxRevision \in Nat
ASSUME BridgesAssumption == {"free", "start", "teardown"} \cap Bridges = {}

VARIABLES
  unused,     \* the session UUIDs not drawn yet
  expired,    \* the deadline of the stored session has passed
  lab,        \* the phase of the lab
  serial,     \* the task of the lab's active serial scenario, or None
  onGuest,    \* the tasks whose mutation is on the guests
  captured,   \* the tasks whose baseline file is on the guests
  orphans,    \* a desktop tunnel outlives the bridge that opened it
  examLock, labLock,
  start,      \* the process that starts an exam: control point and locals
  teardown,   \* the process that tears one down
  bridge      \* the bridge processes

exam == <<session, unused, expired>>
guests == <<onGuest, captured>>
labVars == <<lab, serial>>
locks == <<examLock, labLock>>
vars == <<exam, guests, labVars, locks, orphans, start, teardown, bridge>>

-----------------------------------------------------------------------------

LabPhase == {"candidate-ready", "validated", "scenario-prepared", "degraded", "destroyed"}

StartProcess ==
  [pc : {"idle", "claim", "prepare", "confirm", "report", "restore"},
   local : ExamSession \cup {None}, pending : SUBSET Tasks]

TeardownProcess ==
  [pc : {"idle", "lab", "check", "restore"}, pending : SUBSET Tasks, failed : BOOLEAN]

BridgeProcess ==
  [pc : {"closed", "dial", "connect", "open", "submit", "revoke", "collect", "grade",
         "record", "fail"},
   reason : ExamEndReason, desktop : BOOLEAN]

NotStarting == [pc |-> "idle", local |-> None, pending |-> {}]
NoTeardown == [pc |-> "idle", pending |-> {}, failed |-> FALSE]
Closed == [pc |-> "closed", reason |-> "manual", desktop |-> FALSE]

\* _validated_lab: a ready lab is attested; any other refuses the exam.
ReadyLab == lab \in {"candidate-ready", "validated"} /\ serial = None

Restorable(t) == t \in CaptureTasks => t \in captured

\* A helper captures the baseline of its task before it mutates the guest, and
\* may die before, between or after the two.
Prepared(t) ==
  /\ captured' = captured \cup ({t} \cap CaptureTasks)
  /\ onGuest' = onGuest \cup {t}

PartlyPrepared(t) ==
  \/ UNCHANGED guests
  \/ captured' = captured \cup ({t} \cap CaptureTasks) /\ UNCHANGED onGuest
  \/ Prepared(t)

Last(tasks) == {t \in tasks : \A other \in tasks : other <= t}

-----------------------------------------------------------------------------
(* ExamEngine.start                                                *)

StartBegin(id) ==
  /\ start.pc = "idle" /\ labLock = "free"
  /\ ReadyLab
  /\ id \in unused
  /\ Create(NewSession(id))
  /\ unused' = unused \ {id} /\ expired' = FALSE
  /\ lab' = "validated" /\ labLock' = "start"
  /\ start' = [NotStarting EXCEPT !.pc = "claim", !.local = NewSession(id)]
  /\ UNCHANGED <<serial, guests, examLock, orphans, teardown, bridge>>

\* The write-ahead claim of the next task.
StartClaim ==
  /\ start.pc = "claim" /\ CanClaim(start.local)
  /\ Save(ClaimPreparation(start.local), start.local.revision)
  /\ start' = [start EXCEPT !.pc = "prepare", !.local = ClaimPreparation(@)]
  /\ UNCHANGED <<unused, expired, labVars, guests, locks, orphans, teardown, bridge>>

StartPrepare ==
  /\ start.pc = "prepare"
  /\ Prepared(start.local.claimed)
  /\ start' = [start EXCEPT !.pc = "confirm"]
  /\ UNCHANGED <<exam, labVars, locks, orphans, teardown, bridge>>

\* The guests match the claim and the untouched task grades FAIL 0.
StartConfirm ==
  /\ start.pc = "confirm"
  /\ CanConfirm(start.local)
  /\ Save(ConfirmPreparation(start.local), start.local.revision)
  /\ start' = [start EXCEPT !.pc = "claim", !.local = ConfirmPreparation(@)]
  /\ UNCHANGED <<unused, expired, labVars, guests, locks, orphans, teardown, bridge>>

\* The activated session is saved, but the local one is not replaced.
StartActivate ==
  /\ start.pc = "claim" /\ start.local.prepared = NTasks
  /\ Save(Activate(start.local), start.local.revision)
  /\ start' = [start EXCEPT !.pc = "report"]
  /\ UNCHANGED <<unused, expired, labVars, guests, locks, orphans, teardown, bridge>>

StartReturns ==
  /\ start.pc = "report"
  /\ start' = NotStarting /\ labLock' = "free"
  /\ UNCHANGED <<exam, labVars, guests, examLock, orphans, teardown, bridge>>

\* Any error or interrupt after the creation restores what was claimed.
StartErrs ==
  /\ start.pc \in {"claim", "prepare", "confirm", "report"}
  /\ IF start.pc = "prepare" THEN PartlyPrepared(start.local.claimed) ELSE UNCHANGED guests
  /\ start' = [start EXCEPT !.pc = "restore", !.pending = 1..start.local.claimed]
  /\ UNCHANGED <<exam, labVars, locks, orphans, teardown, bridge>>

\* In reverse order, continuing past the tasks whose restore fails.
StartRestore(t) ==
  /\ start.pc = "restore" /\ t \in Last(start.pending)
  /\ \/ Restorable(t) /\ onGuest' = onGuest \ {t}
     \/ UNCHANGED onGuest
  /\ start' = [start EXCEPT !.pending = @ \ {t}]
  /\ UNCHANGED <<exam, captured, labVars, locks, orphans, teardown, bridge>>

\* The failure is saved over the revision of the local session, if that is
\* still the stored one; otherwise the save raises.
StartFails ==
  /\ start.pc = "restore" /\ start.pending = {}
  /\ \/ Save(Fail(start.local), start.local.revision)
     \/ ~Current(Fail(start.local), start.local.revision) /\ UNCHANGED session
  /\ start' = NotStarting /\ labLock' = "free"
  /\ UNCHANGED <<unused, expired, labVars, guests, examLock, orphans, teardown, bridge>>

StartDies ==
  /\ start.pc # "idle"
  /\ IF start.pc = "prepare" THEN PartlyPrepared(start.local.claimed) ELSE UNCHANGED guests
  /\ start' = NotStarting /\ labLock' = "free"
  /\ UNCHANGED <<exam, labVars, examLock, orphans, teardown, bridge>>

-----------------------------------------------------------------------------
(* ExamEngine.teardown                                             *)

ReleaseBoth == examLock' = "free" /\ labLock' = "free"

\* Bug: teardown takes the lab lock first.
TeardownLocksReversed ==
  /\ \/ /\ teardown.pc = "idle" /\ labLock = "free"
        /\ labLock' = "teardown" /\ UNCHANGED examLock
        /\ teardown' = [teardown EXCEPT !.pc = "lab"]
     \/ /\ teardown.pc = "lab" /\ examLock = "free"
        /\ examLock' = "teardown" /\ UNCHANGED labLock
        /\ teardown' = [teardown EXCEPT !.pc = "check"]
  /\ UNCHANGED <<exam, labVars, guests, orphans, start, bridge>>

TeardownLocks ==
  /\ \/ /\ teardown.pc = "idle" /\ examLock = "free"
        /\ examLock' = "teardown" /\ UNCHANGED labLock
        /\ teardown' = [teardown EXCEPT !.pc = "lab"]
     \/ /\ teardown.pc = "lab" /\ labLock = "free"
        /\ labLock' = "teardown" /\ UNCHANGED examLock
        /\ teardown' = [teardown EXCEPT !.pc = "check"]
  /\ UNCHANGED <<exam, labVars, guests, orphans, start, bridge>>

\* A running exam needs force, every exam a ready lab.
MayTearDown(force) ==
  /\ session # None
  /\ force \/ session.status \notin {"active", "submitting"}
  /\ ReadyLab

TeardownBegin(force) ==
  /\ teardown.pc = "check" /\ MayTearDown(force)
  /\ lab' = "validated"
  /\ teardown' = [NoTeardown EXCEPT !.pc = "restore", !.pending = 1..session.claimed]
  /\ UNCHANGED <<exam, serial, guests, locks, orphans, start, bridge>>

TeardownRefuses(force) ==
  /\ teardown.pc = "check" /\ ~MayTearDown(force)
  /\ teardown' = NoTeardown /\ ReleaseBoth
  /\ UNCHANGED <<exam, labVars, guests, orphans, start, bridge>>

TeardownRestore(t) ==
  /\ teardown.pc = "restore" /\ t \in Last(teardown.pending)
  /\ \/ /\ Restorable(t) /\ onGuest' = onGuest \ {t}
        /\ teardown' = [teardown EXCEPT !.pending = @ \ {t}]
     \/ /\ UNCHANGED onGuest
        /\ teardown' = [teardown EXCEPT !.pending = @ \ {t}, !.failed = TRUE]
  /\ UNCHANGED <<exam, captured, labVars, locks, orphans, start, bridge>>

\* Bug: restore errors are collected but not tested.
TeardownConcludeRegardless ==
  /\ teardown.pc = "restore" /\ teardown.pending = {}
  /\ Delete(session.id)
  /\ teardown' = NoTeardown /\ ReleaseBoth
  /\ UNCHANGED <<unused, expired, labVars, guests, orphans, start, bridge>>

\* The session goes only when every claimed task is restored and the health is
\* that of the baseline; a failed restore is recorded unless the exam ended.
TeardownConclude ==
  /\ teardown.pc = "restore" /\ teardown.pending = {}
  /\ \/ ~teardown.failed /\ Delete(session.id)
     \/ ~teardown.failed /\ UNCHANGED session
     \/ /\ teardown.failed
        /\ IF session.status \in {"failed", "submitted"}
             THEN UNCHANGED session
             ELSE Save(Fail(session), session.revision)
  /\ teardown' = NoTeardown /\ ReleaseBoth
  /\ UNCHANGED <<unused, expired, labVars, guests, orphans, start, bridge>>

TeardownDies ==
  /\ teardown.pc # "idle"
  /\ teardown' = NoTeardown
  /\ examLock' = "free"
  /\ labLock' = IF labLock = "teardown" THEN "free" ELSE labLock
  /\ UNCHANGED <<exam, labVars, guests, orphans, start, bridge>>

-----------------------------------------------------------------------------
(* A UI bridge: _serve_exam_ui and StoredExamController                    *)

\* The reason of a request is forgotten once its submission has begun.
BridgeGoes(b, point) ==
  bridge' = [bridge EXCEPT ![b].pc = point, ![b].reason = "manual"]

\* Loads the session, without the exam lock, to decide whether a desktop is due.
BridgeLoads(b) ==
  /\ bridge[b].pc = "closed" /\ session # None
  /\ BridgeGoes(b, IF session.status = "active" THEN "dial" ELSE "open")
  /\ UNCHANGED <<exam, labVars, guests, locks, orphans, start, teardown>>

\* verified_candidate_handle, under the lab lock for as long as it reads.
BridgeDials(b) ==
  /\ bridge[b].pc = "dial" /\ labLock = "free"
  /\ BridgeGoes(b, IF lab \in {"candidate-ready", "validated", "scenario-prepared"}
                     THEN "connect" ELSE "closed")
  /\ UNCHANGED <<exam, labVars, guests, locks, orphans, start, teardown>>

BridgeConnects(b) ==
  /\ bridge[b].pc = "connect"
  /\ \/ lab # "destroyed" /\ bridge' = [bridge EXCEPT ![b].pc = "open", ![b].desktop = TRUE]
     \/ BridgeGoes(b, "closed")
  /\ UNCHANGED <<exam, labVars, guests, locks, orphans, start, teardown>>

\* Bug: the snapshot only renders.
PollRendering(b) ==
  /\ bridge[b].pc = "open" /\ examLock = "free"
  /\ UNCHANGED vars

\* snapshot: an expired session is submitted, by a second acquisition of the lock.
Poll(b) ==
  /\ bridge[b].pc = "open" /\ examLock = "free"
  /\ Status = "active" /\ expired
  /\ bridge' = [bridge EXCEPT ![b].pc = "submit", ![b].reason = "expired"]
  /\ UNCHANGED <<exam, labVars, guests, locks, orphans, start, teardown>>

\* The candidate confirms the submission dialog.
RequestSubmit(b) ==
  /\ bridge[b].pc = "open"
  /\ bridge' = [bridge EXCEPT ![b].pc = "submit", ![b].reason = "manual"]
  /\ UNCHANGED <<exam, labVars, guests, locks, orphans, start, teardown>>

Progress(b) ==
  /\ bridge[b].pc = "open" /\ examLock = "free"
  /\ Status = "active" /\ ~expired
  /\ session.revision < MaxRevision
  /\ Save(UpdateProgress(session), session.revision)
  /\ UNCHANGED <<unused, expired, labVars, guests, locks, orphans, start, teardown, bridge>>

\* Practice mode's interim check: reads, under both locks, on an attested lab.
Check(b) ==
  /\ bridge[b].pc = "open" /\ examLock = "free" /\ labLock = "free"
  /\ Status = "active" /\ ~expired /\ ReadyLab
  /\ lab' = "validated"
  /\ UNCHANGED <<exam, serial, guests, locks, orphans, start, teardown, bridge>>

\* submit: a final session answers with its receipt, an active one begins its
\* submission, one found submitting is graded as it is; any other refuses.
SubmitBegin(b) ==
  /\ bridge[b].pc = "submit" /\ examLock = "free"
  /\ \/ /\ Status \in {"missing", "preparing", "failed", "submitted"}
        /\ BridgeGoes(b, "open") /\ UNCHANGED <<session, examLock>>
     \/ /\ Status = "active"
        /\ Save(BeginSubmit(session, bridge[b].reason, expired), session.revision)
        /\ BridgeGoes(b, "revoke") /\ examLock' = b
     \/ /\ Status = "submitting"
        /\ BridgeGoes(b, "collect") /\ examLock' = b /\ UNCHANGED session
  /\ UNCHANGED <<unused, expired, labVars, guests, labLock, orphans, start, teardown>>

\* on_submission_start closes the tunnel of this bridge.  One that cannot be
\* reaped raises before grading is attempted.
SubmitRevoke(b) ==
  /\ bridge[b].pc = "revoke"
  /\ \/ /\ bridge' = [bridge EXCEPT ![b].pc = "collect", ![b].desktop = FALSE]
        /\ UNCHANGED <<examLock, orphans>>
     \/ /\ bridge[b].desktop
        /\ bridge' = [bridge EXCEPT ![b].pc = "open", ![b].desktop = FALSE]
        /\ orphans' = TRUE /\ examLock' = "free"
  /\ UNCHANGED <<exam, labVars, guests, labLock, start, teardown>>

\* grade_all, first step: the lab lock and a ready lab.
SubmitCollect(b) ==
  /\ bridge[b].pc = "collect" /\ labLock = "free"
  /\ \/ /\ ReadyLab /\ lab' = "validated"
        /\ BridgeGoes(b, "grade") /\ labLock' = b
     \/ /\ ~ReadyLab /\ BridgeGoes(b, "fail")
        /\ UNCHANGED <<lab, labLock>>
  /\ UNCHANGED <<exam, serial, guests, examLock, orphans, start, teardown>>

\* All tasks are observed between two equal health attestations, or an error.
SubmitGrade(b) ==
  /\ bridge[b].pc = "grade"
  /\ \E point \in {"record", "fail"} : BridgeGoes(b, point)
  /\ labLock' = "free"
  /\ UNCHANGED <<exam, labVars, guests, examLock, orphans, start, teardown>>

SubmitRecord(b, receipt) ==
  /\ bridge[b].pc = "record"
  /\ Save(CompleteSubmit(session, receipt), session.revision)
  /\ BridgeGoes(b, "open") /\ examLock' = "free"
  /\ UNCHANGED <<unused, expired, labVars, guests, labLock, orphans, start, teardown>>

SubmitFails(b) ==
  /\ bridge[b].pc = "fail"
  /\ IF Status = "submitting" THEN Save(Fail(session), session.revision) ELSE UNCHANGED session
  /\ BridgeGoes(b, "open") /\ examLock' = "free"
  /\ UNCHANGED <<unused, expired, labVars, guests, labLock, orphans, start, teardown>>

Drop(lock, b) == IF lock = b THEN "free" ELSE lock

\* Ctrl-C closes the bridge and its tunnel, at any point of a request; a killed
\* bridge leaves the tunnel, which runs in a session of its own.
BridgeEnds(b, killed) ==
  /\ bridge[b].pc # "closed"
  /\ bridge' = [bridge EXCEPT ![b] = Closed]
  /\ orphans' = (orphans \/ (killed /\ bridge[b].desktop))
  /\ examLock' = Drop(examLock, b) /\ labLock' = Drop(labLock, b)
  /\ UNCHANGED <<exam, labVars, guests, start, teardown>>

-----------------------------------------------------------------------------
(* Time, and the other commands on the same lab                            *)

DeadlinePasses ==
  /\ session # None /\ session.started /\ ~expired
  /\ expired' = TRUE
  /\ UNCHANGED <<session, unused, labVars, guests, locks, orphans, start, teardown, bridge>>

\* ScenarioEngine.prepare looks at the lab only, not at the exam store.
SerialPrepare(t) ==
  /\ labLock = "free" /\ ReadyLab
  /\ serial' = t
  /\ \/ lab' = "scenario-prepared" /\ Prepared(t)
     \/ lab' \in {"scenario-prepared", "degraded"} /\ PartlyPrepared(t)
  /\ UNCHANGED <<exam, locks, orphans, start, teardown, bridge>>

\* It may fail, or die between the guests and the record.
SerialRestore ==
  /\ labLock = "free" /\ lab \in {"scenario-prepared", "degraded"} /\ serial # None
  /\ \/ /\ Restorable(serial) /\ onGuest' = onGuest \ {serial}
        /\ lab' = "validated" /\ serial' = None
     \/ /\ lab' \in {lab, "degraded"} /\ UNCHANGED serial
        /\ onGuest' \in {onGuest} \cup {onGuest \ {t} : t \in {t \in {serial} : Restorable(t)}}
  /\ UNCHANGED <<exam, captured, locks, orphans, start, teardown, bridge>>

\* Provisioning may recover or degrade the lab; it keeps a serial claim.
Provision ==
  /\ labLock = "free" /\ lab \notin {"scenario-prepared", "destroyed"}
  /\ lab' \in {"degraded", IF lab = "degraded" THEN "candidate-ready" ELSE lab}
  /\ UNCHANGED <<exam, serial, guests, locks, orphans, start, teardown, bridge>>

\* Destroying the lab ends its guests and every connection to them; the exam
\* session is not consulted.
Destroy ==
  /\ labLock = "free" /\ lab # "destroyed"
  /\ lab' = "destroyed" /\ onGuest' = {} /\ captured' = {}
  /\ orphans' = FALSE /\ bridge' = [b \in Bridges |-> [bridge[b] EXCEPT !.desktop = FALSE]]
  /\ UNCHANGED <<exam, serial, locks, start, teardown>>

-----------------------------------------------------------------------------

Init ==
  /\ session = None /\ unused = SessionIds /\ expired = FALSE
  /\ lab \in {"candidate-ready", "validated"} /\ serial = None
  /\ onGuest = {} /\ captured = {}
  /\ orphans = FALSE /\ examLock = "free" /\ labLock = "free"
  /\ start = NotStarting /\ teardown = NoTeardown
  /\ bridge = [b \in Bridges |-> Closed]

StartStep ==
  \/ StartClaim \/ StartPrepare \/ StartConfirm \/ StartActivate \/ StartReturns
  \/ StartErrs \/ StartFails
  \/ \E t \in Tasks : StartRestore(t)

TeardownStep ==
  \/ \E force \in BOOLEAN : TeardownBegin(force) \/ TeardownRefuses(force)
  \/ \E t \in Tasks : TeardownRestore(t)
  \/ TeardownConclude

BridgeOpens(b) == BridgeLoads(b) \/ BridgeDials(b) \/ BridgeConnects(b)

SubmitStep(b) ==
  \/ SubmitRevoke(b) \/ SubmitGrade(b) \/ SubmitFails(b)
  \/ \E receipt \in Receipts : SubmitRecord(b, receipt)

BridgeNext(b) ==
  \/ BridgeOpens(b) \/ Poll(b) \/ RequestSubmit(b) \/ Progress(b) \/ Check(b)
  \/ SubmitBegin(b) \/ SubmitCollect(b) \/ SubmitStep(b)
  \/ \E killed \in BOOLEAN : BridgeEnds(b, killed)

LabNext ==
  \/ \E t \in Tasks : SerialPrepare(t)
  \/ SerialRestore \/ Provision \/ Destroy

Next ==
  \/ \E id \in SessionIds : StartBegin(id)
  \/ StartStep \/ StartDies
  \/ TeardownLocks \/ TeardownStep \/ TeardownDies
  \/ \E b \in Bridges : BridgeNext(b)
  \/ DeadlinePasses \/ LabNext

Spec == Init /\ [][Next]_vars

\* A process that runs goes on, and one that waits for a lock gets it in the
\* end (flock queues its waiters).  An open page polls.  A closed bridge is
\* resumed, but nobody is obliged to submit, to start or to tear down.
Fairness ==
  /\ WF_vars(StartStep) /\ WF_vars(TeardownStep)
  /\ SF_vars(teardown.pc = "lab" /\ TeardownLocks)
  /\ \A b \in Bridges :
       /\ SF_vars(BridgeOpens(b)) /\ SF_vars(Poll(b))
       /\ SF_vars(SubmitBegin(b)) /\ SF_vars(SubmitCollect(b)) /\ WF_vars(SubmitStep(b))

FairSpec == Spec /\ Fairness

-----------------------------------------------------------------------------
(* Properties                                                              *)

TypeOK ==
  /\ session \in ExamSession \cup {None} /\ unused \subseteq SessionIds
  /\ expired \in BOOLEAN /\ orphans \in BOOLEAN
  /\ lab \in LabPhase /\ serial \in Tasks \cup {None}
  /\ onGuest \subseteq Tasks /\ captured \subseteq Tasks
  /\ examLock \in {"free", "teardown"} \cup Bridges
  /\ labLock \in {"free", "start", "teardown"} \cup Bridges
  /\ start \in StartProcess /\ teardown \in TeardownProcess
  /\ bridge \in [Bridges -> BridgeProcess]

\* Whatever a process writes, and wherever one dies, the stored session is one
\* that __post_init__ accepts: otherwise no command could load it again.
SessionsStayLoadable == session # None => ValidSession(session)

\* A task found on a guest has a durable claim, of the exam session or of the
\* serial scenario: the claims precede the mutations and outlive them through
\* failures, crashes and teardowns, so there is always a record to restore by.
GuestMutationsAreClaimed ==
  \A t \in onGuest : (session # None /\ t <= session.claimed) \/ serial = t

\* Seen from outside, the processes together keep the promise of one exam: its
\* state diagram, one receipt that never changes, no new exam before the old one
\* is discarded.
Lifecycle ==
  INSTANCE ExamLifecycle WITH
    Exams <- SessionIds, Results <- Receipts, Nothing <- None,
    exam <- IF session = None THEN None
            ELSE [id |-> session.id, status |-> session.status, receipt |-> session.receipt]

KeepsLifecycle == Lifecycle!LifecycleSpec

\* An exam past its deadline does not stay active while a page is open on it.
OpenExamsEnd ==
  \A b \in Bridges :
    (bridge[b].pc = "open" /\ Status = "active" /\ expired)
      ~> (Status # "active" \/ bridge[b].pc = "closed")

\* Whoever holds the exam lock gives it back: no submission and teardown, or
\* start, wait for each other.
ExamLockIsReleased == (examLock # "free") ~> (examLock = "free")

-----------------------------------------------------------------------------
(* Statements of the documentation that the code does not keep             *)

\* "the VM lab and exam session remain resumable" (full_cli.py): with pages that
\* are resumed and poll, on a lab that stays ready, a submission that was begun
\* comes to an end.
SubmissionsConclude ==
  (Status = "submitting") ~> (Status # "submitting" \/ lab # "validated")

=============================================================================
