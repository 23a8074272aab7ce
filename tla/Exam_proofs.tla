----------------------------- MODULE Exam_proofs -----------------------------
(***************************************************************************)
(* Theorems about Exam, for any number of tasks, bridges, session UUIDs    *)
(* and receipts.  The invariants of Exam become inductive once it is said  *)
(* what each process knows about what the others may do meanwhile: which   *)
(* locks it holds (LocksAreHeld), that the session it grades is still      *)
(* being submitted (GradersFindSubmissions), how the session that a start  *)
(* keeps in memory is related to the stored one (StarterKnows), and that a *)
(* teardown without errors has dealt with every task it no longer lists    *)
(* (TeardownKnows).                                                        *)
(***************************************************************************)
EXTENDS Exam, TLAPS

Submitting == {"revoke", "collect", "grade", "record", "fail"}

SubmissionsAreReasoned == Status = "submitting" => session.reason # None

LocksAreHeld ==
  /\ start.pc # "idle" => labLock = "start"
  /\ teardown.pc # "idle" => examLock = "teardown"
  /\ teardown.pc \in {"check", "restore"} => labLock = "teardown"
  /\ \A b \in Bridges : bridge[b].pc \in Submitting => examLock = b
  /\ \A b \in Bridges : bridge[b].pc = "grade" => labLock = b

GradersFindSubmissions ==
  \A b \in Bridges : bridge[b].pc \in Submitting => Status = "submitting"

\* A start that has not activated its exam has the stored session in memory, a
\* later one that or an older one.
StarterKnows ==
  start.pc # "idle" =>
    /\ session # None /\ start.local # None
    /\ session.id = start.local.id /\ session.claimed = start.local.claimed
    /\ start.local.status = "preparing"
    /\ session = start.local \/ session.revision > start.local.revision
    /\ start.pc \in {"claim", "prepare", "confirm"} => session = start.local
    /\ start.pc = "claim" => start.local.claimed = start.local.prepared
    /\ start.pc \in {"prepare", "confirm"} => start.local.claimed = start.local.prepared + 1

TeardownKnows ==
  teardown.pc = "restore" =>
    /\ session # None
    /\ ~teardown.failed => \A t \in onGuest : t \in teardown.pending \/ serial = t

ExamInv ==
  /\ TypeOK /\ SessionsStayLoadable /\ GuestMutationsAreClaimed
  /\ SubmissionsAreReasoned /\ LocksAreHeld /\ GradersFindSubmissions
  /\ StarterKnows /\ TeardownKnows

-----------------------------------------------------------------------------
(* The transitions of a session                                            *)

\* Every transition of ExamSession, taken where the code takes it, gives a
\* record that loads again, over a higher revision.
LEMMA TransitionsStayValid ==
  ASSUME NEW s \in ExamSession, ValidSession(s)
  PROVE  /\ s.revision \in Nat
         /\ CanClaim(s) => ClaimPreparation(s) \in ExamSession /\ ValidSession(ClaimPreparation(s))
         /\ CanConfirm(s) => ConfirmPreparation(s) \in ExamSession /\ ValidSession(ConfirmPreparation(s))
         /\ s.status = "preparing" => Activate(s) \in ExamSession /\ ValidSession(Activate(s))
         /\ s.status # "submitted" => Fail(s) \in ExamSession /\ ValidSession(Fail(s))
         /\ UpdateProgress(s) \in ExamSession /\ ValidSession(UpdateProgress(s))
<1>1. s.status = "preparing" => s.receipt = None
  BY DEF ValidSession
<1>2. s.revision + 1 \in Nat /\ s.revision \in Nat
  BY DEF ExamSession
<1>3. ASSUME CanClaim(s)
      PROVE  ClaimPreparation(s) \in ExamSession /\ ValidSession(ClaimPreparation(s))
  <2> DEFINE n == ClaimPreparation(s)
  <2>1. s.claimed \in 0..NTasks /\ s.prepared \in 0..NTasks
    BY DEF ExamSession
  <2>2. s.claimed + 1 \in 0..NTasks
    BY <1>3, <2>1, TasksAssumption DEF CanClaim
  <2>3. n \in ExamSession
    BY <1>2, <2>2 DEF ClaimPreparation, ExamSession
  <2>4. /\ n.claimed = s.claimed + 1 /\ n.prepared = s.prepared /\ n.status = s.status
        /\ n.started = s.started /\ n.reason = s.reason /\ n.receipt = s.receipt
    BY DEF ClaimPreparation, ExamSession
  <2>5. n.prepared <= n.claimed
    BY <1>3, <2>1, <2>4, TasksAssumption DEF CanClaim, ValidSession
  <2>6. ValidSession(n)
    BY <2>4, <2>5 DEF ValidSession
  <2>7. QED
    BY <2>3, <2>6
<1>4. ASSUME CanConfirm(s)
      PROVE  ConfirmPreparation(s) \in ExamSession /\ ValidSession(ConfirmPreparation(s))
  <2> DEFINE n == ConfirmPreparation(s)
  <2>1. s.claimed \in 0..NTasks /\ s.prepared \in 0..NTasks
    BY DEF ExamSession
  <2>2. s.prepared + 1 \in 0..NTasks
    BY <1>4, <2>1, TasksAssumption DEF CanConfirm
  <2>3. n \in ExamSession
    BY <1>2, <2>2 DEF ConfirmPreparation, ExamSession
  <2>4. /\ n.prepared = s.prepared + 1 /\ n.claimed = s.claimed /\ n.status = s.status
        /\ n.started = s.started /\ n.reason = s.reason /\ n.receipt = s.receipt
    BY DEF ConfirmPreparation, ExamSession
  <2>5. n.prepared <= n.claimed
    BY <1>4, <2>1, <2>4, TasksAssumption DEF CanConfirm, ValidSession
  <2>6. ValidSession(n)
    BY <2>4, <2>5 DEF ValidSession
  <2>7. QED
    BY <2>3, <2>6
<1>5. ASSUME s.status = "preparing"
      PROVE  Activate(s) \in ExamSession /\ ValidSession(Activate(s))
  BY <1>1, <1>2, <1>5 DEF Activate, ExamSession, ExamStatus, ValidSession
<1>6. ASSUME s.status # "submitted"
      PROVE  Fail(s) \in ExamSession /\ ValidSession(Fail(s))
  BY <1>2, <1>6 DEF Fail, ExamSession, ExamStatus, ValidSession
<1>7. UpdateProgress(s) \in ExamSession /\ ValidSession(UpdateProgress(s))
  BY <1>2 DEF UpdateProgress, ExamSession, ValidSession
<1>8. QED
  BY <1>2, <1>3, <1>4, <1>5, <1>6, <1>7

LEMMA BeginsStayValid ==
  ASSUME NEW s \in ExamSession, ValidSession(s), s.status = "active",
         NEW reason \in ExamEndReason, NEW late \in BOOLEAN
  PROVE  /\ BeginSubmit(s, reason, late) \in ExamSession
         /\ ValidSession(BeginSubmit(s, reason, late))
         /\ BeginSubmit(s, reason, late).reason # None
<1>1. s.revision + 1 \in Nat
  BY DEF ExamSession
<1>2. QED
  BY <1>1, AbsentAssumption DEF BeginSubmit, ExamSession, ExamStatus, ExamEndReason, ValidSession

LEMMA CompletionsStayValid ==
  ASSUME NEW s \in ExamSession, ValidSession(s), s.status = "submitting", s.reason # None,
         NEW receipt \in Receipts
  PROVE  /\ CompleteSubmit(s, receipt) \in ExamSession
         /\ ValidSession(CompleteSubmit(s, receipt))
<1>1. s.revision + 1 \in Nat
  BY DEF ExamSession
<1>2. QED
  BY <1>1, AbsentAssumption DEF CompleteSubmit, ExamSession, ExamStatus, ValidSession

\* What the transitions leave of a session.
LEMMA TransitionFields ==
  ASSUME NEW s \in ExamSession, NEW reason, NEW late, NEW receipt
  PROVE  /\ \A n \in {ClaimPreparation(s), ConfirmPreparation(s), Activate(s), Fail(s), UpdateProgress(s),
                      BeginSubmit(s, reason, late), CompleteSubmit(s, receipt)} :
              n.id = s.id /\ n.revision = s.revision + 1
         /\ \A n \in {ConfirmPreparation(s), Activate(s), Fail(s), UpdateProgress(s),
                      BeginSubmit(s, reason, late), CompleteSubmit(s, receipt)} :
              n.claimed = s.claimed
         /\ \A n \in {ClaimPreparation(s), ConfirmPreparation(s), UpdateProgress(s)} :
              n.status = s.status /\ n.receipt = s.receipt
         /\ \A n \in {Activate(s), Fail(s), BeginSubmit(s, reason, late)} : n.receipt = s.receipt
         /\ ClaimPreparation(s).claimed = s.claimed + 1 /\ ClaimPreparation(s).prepared = s.prepared
         /\ ConfirmPreparation(s).prepared = s.prepared + 1
         /\ Activate(s).status = "active" /\ Fail(s).status = "failed"
         /\ BeginSubmit(s, reason, late).status = "submitting"
         /\ CompleteSubmit(s, receipt).status = "submitted" /\ CompleteSubmit(s, receipt).receipt = receipt
BY DEF ExamSession, ClaimPreparation, ConfirmPreparation, Activate, Fail, UpdateProgress,
       BeginSubmit, CompleteSubmit

\* The control points and their fields, without the records around them.
LEMMA Bounds ==
  /\ None \notin ExamSession /\ None \notin Tasks
  /\ "free" \notin Bridges /\ "start" \notin Bridges /\ "teardown" \notin Bridges
  /\ NTasks \in Nat /\ 0 \in 0..NTasks
  BY AbsentAssumption, BridgesAssumption, TasksAssumption

-----------------------------------------------------------------------------
(* The steps of a start                                                    *)

\* Whatever a start does, it does while nobody else has the lab lock and while
\* the stored session is its own.
LEMMA StarterKeepsInv ==
  ASSUME ExamInv, start.pc # "idle",
         UNCHANGED <<unused, expired, labVars, examLock, orphans, teardown, bridge>>,
         session' \in ExamSession, ValidSession(session'),
         session' # session => session.status = "preparing" /\ session'.status # "submitting",
         session.claimed <= session'.claimed,
         onGuest' \subseteq Tasks, captured' \subseteq Tasks,
         \A t \in onGuest' : t \in onGuest \/ t <= session'.claimed,
         start' \in StartProcess, StarterKnows',
         labLock' = labLock \/ (labLock' = "free" /\ start'.pc = "idle")
  PROVE  ExamInv'
<1>1. /\ session \in ExamSession /\ session # None /\ session' # None
      /\ labLock = "start"
  BY Bounds DEF ExamInv, TypeOK, StarterKnows, LocksAreHeld
<1>2. TypeOK'
  BY <1>1 DEF ExamInv, TypeOK, labVars
<1>3. SessionsStayLoadable'
  BY DEF SessionsStayLoadable
<1>4. GuestMutationsAreClaimed'
  <2>1. session.claimed \in 0..NTasks /\ session'.claimed \in 0..NTasks
    BY <1>1 DEF ExamSession
  <2>2. \A t \in onGuest' : t \in onGuest => t <= session'.claimed \/ serial = t
    BY <1>1, <2>1, Bounds DEF ExamInv, TypeOK, GuestMutationsAreClaimed, Tasks
  <2>3. QED
    BY <1>1, <2>2 DEF GuestMutationsAreClaimed, labVars
<1>5. SubmissionsAreReasoned'
  BY <1>1 DEF ExamInv, SubmissionsAreReasoned, Status
<1>6. LocksAreHeld'
  BY <1>1, Bounds DEF ExamInv, LocksAreHeld
<1>7. GradersFindSubmissions'
  BY <1>1 DEF ExamInv, GradersFindSubmissions, Status
<1>8. TeardownKnows'
  BY <1>1 DEF ExamInv, LocksAreHeld, TeardownKnows
<1>9. QED
  BY <1>2, <1>3, <1>4, <1>5, <1>6, <1>7, <1>8 DEF ExamInv

\* A prepared or half-prepared task is one that the session claims.
LEMMA PreparationIsClaimed ==
  ASSUME ExamInv, start.pc = "prepare",
         Prepared(start.local.claimed) \/ PartlyPrepared(start.local.claimed)
  PROVE  /\ onGuest' \subseteq Tasks /\ captured' \subseteq Tasks
         /\ \A t \in onGuest' : t \in onGuest \/ t <= session.claimed
<1>1. /\ session \in ExamSession /\ session = start.local
      /\ session.claimed = session.prepared + 1
  BY DEF ExamInv, TypeOK, StarterKnows
<1>2. session.claimed \in Tasks
  BY <1>1, Bounds DEF ExamSession, Tasks
<1>3. /\ onGuest' \in {onGuest, onGuest \cup {session.claimed}}
      /\ captured' \in {captured, captured \cup ({session.claimed} \cap CaptureTasks)}
  BY <1>1 DEF Prepared, PartlyPrepared, guests
<1>4. session.claimed <= session.claimed
  BY <1>2 DEF Tasks
<1>5. QED
  BY <1>2, <1>3, <1>4 DEF ExamInv, TypeOK

\* The facts about a running start that its steps use.
LEMMA StarterFacts ==
  ASSUME ExamInv, start.pc # "idle"
  PROVE  /\ session \in ExamSession /\ ValidSession(session) /\ session # None
         /\ session.claimed \in 0..NTasks /\ session.claimed <= session.claimed
         /\ start.local \in ExamSession /\ start.local.revision \in Nat
         /\ start \in StartProcess
         /\ onGuest \subseteq Tasks /\ captured \subseteq Tasks
<1>1. session \in ExamSession /\ start.local \in ExamSession /\ ValidSession(session) /\ session # None
  BY DEF ExamInv, TypeOK, StarterKnows, StartProcess, SessionsStayLoadable
<1>2. session.claimed \in 0..NTasks /\ start.local.revision \in Nat
  BY <1>1 DEF ExamSession
<1>3. session.claimed <= session.claimed
  BY <1>2
<1>4. QED
  BY <1>1, <1>2, <1>3 DEF ExamInv, TypeOK

LEMMA StarterEnds ==
  ASSUME ExamInv, start' = NotStarting
  PROVE  start' \in StartProcess /\ StarterKnows' /\ start'.pc = "idle"
BY DEF StartProcess, StarterKnows, NotStarting

LEMMA StartClaimKeepsInv ==
  ASSUME ExamInv, StartClaim
  PROVE  ExamInv'
<1> DEFINE n == ClaimPreparation(start.local)
<1>1. /\ start.pc = "claim" /\ CanClaim(start.local)
      /\ session' = n
      /\ start' = [start EXCEPT !.pc = "prepare", !.local = n]
      /\ UNCHANGED <<unused, expired, labVars, guests, locks, orphans, teardown, bridge>>
  BY DEF StartClaim, Save
<1>2. session = start.local /\ start.local.claimed = start.local.prepared /\ start.local.status = "preparing"
  BY <1>1 DEF ExamInv, StarterKnows
<1>3. n \in ExamSession /\ ValidSession(n)
  BY <1>1, <1>2, StarterFacts, TransitionsStayValid
<1>4. /\ n.id = start.local.id /\ n.status = "preparing"
      /\ n.claimed = start.local.claimed + 1 /\ n.prepared = start.local.prepared
  BY <1>1, <1>2, StarterFacts, TransitionFields
<1> HIDE DEF n
<1>5. /\ start'.pc = "prepare" /\ start'.local = n /\ start' \in StartProcess
  BY <1>1, <1>3, StarterFacts DEF StartProcess
<1>6. StarterKnows'
  BY <1>1, <1>2, <1>3, <1>4, <1>5, Bounds DEF StarterKnows
<1>7. session.claimed <= session'.claimed
  BY <1>1, <1>2, <1>4, StarterFacts
<1>8. QED
  BY <1>1, <1>2, <1>3, <1>4, <1>5, <1>6, <1>7, StarterFacts, StarterKeepsInv DEF guests, locks

LEMMA StartConfirmKeepsInv ==
  ASSUME ExamInv, StartConfirm
  PROVE  ExamInv'
<1> DEFINE n == ConfirmPreparation(start.local)
<1>1. /\ start.pc = "confirm" /\ CanConfirm(start.local)
      /\ session' = n
      /\ start' = [start EXCEPT !.pc = "claim", !.local = n]
      /\ UNCHANGED <<unused, expired, labVars, guests, locks, orphans, teardown, bridge>>
  BY DEF StartConfirm, Save
<1>2. session = start.local /\ start.local.status = "preparing"
      /\ start.local.claimed = start.local.prepared + 1
  BY <1>1 DEF ExamInv, StarterKnows
<1>3. n \in ExamSession /\ ValidSession(n)
  BY <1>1, <1>2, StarterFacts, TransitionsStayValid
<1>4. /\ n.id = start.local.id /\ n.status = "preparing"
      /\ n.claimed = start.local.claimed /\ n.prepared = start.local.prepared + 1
  BY <1>1, <1>2, StarterFacts, TransitionFields
<1> HIDE DEF n
<1>5. /\ start'.pc = "claim" /\ start'.local = n /\ start' \in StartProcess
  BY <1>1, <1>3, StarterFacts DEF StartProcess
<1>6. StarterKnows'
  BY <1>1, <1>2, <1>3, <1>4, <1>5, Bounds DEF StarterKnows
<1>7. session.claimed <= session'.claimed
  BY <1>1, <1>2, <1>4, StarterFacts
<1>8. QED
  BY <1>1, <1>2, <1>3, <1>4, <1>5, <1>6, <1>7, StarterFacts, StarterKeepsInv DEF guests, locks

\* From here on the session in memory is older than the stored one.
LEMMA StartActivateKeepsInv ==
  ASSUME ExamInv, StartActivate
  PROVE  ExamInv'
<1> DEFINE n == Activate(start.local)
<1>1. /\ start.pc = "claim"
      /\ session' = n
      /\ start' = [start EXCEPT !.pc = "report"]
      /\ UNCHANGED <<unused, expired, labVars, guests, locks, orphans, teardown, bridge>>
  BY DEF StartActivate, Save
<1>2. session = start.local /\ start.local.status = "preparing"
  BY <1>1 DEF ExamInv, StarterKnows
<1>3. n \in ExamSession /\ ValidSession(n)
  BY <1>1, <1>2, StarterFacts, TransitionsStayValid
<1>4. /\ n.id = start.local.id /\ n.status = "active" /\ n.claimed = start.local.claimed
      /\ n.revision = start.local.revision + 1
  BY <1>1, <1>2, StarterFacts, TransitionFields
<1> HIDE DEF n
<1>5. /\ start'.pc = "report" /\ start'.local = start.local /\ start' \in StartProcess
  BY <1>1, StarterFacts DEF StartProcess
<1>6. n.revision > start.local.revision
  BY <1>1, <1>4, StarterFacts
<1>7. StarterKnows'
  BY <1>1, <1>2, <1>3, <1>4, <1>5, <1>6, StarterFacts, Bounds DEF StarterKnows
<1>8. session.claimed <= session'.claimed
  BY <1>1, <1>2, <1>4, StarterFacts
<1>9. QED
  BY <1>1, <1>2, <1>3, <1>4, <1>5, <1>7, <1>8, StarterFacts, StarterKeepsInv DEF guests, locks

\* The steps of a start that leave the session alone.
LEMMA StartWorksKeepsInv ==
  ASSUME ExamInv, StartPrepare \/ StartErrs \/ (\E t \in Tasks : StartRestore(t))
  PROVE  ExamInv'
<1>1. /\ start.pc # "idle"
      /\ UNCHANGED <<exam, labVars, locks, orphans, teardown, bridge>>
  BY DEF StartPrepare, StartErrs, StartRestore
<1>2. /\ onGuest' \subseteq Tasks /\ captured' \subseteq Tasks
      /\ \A t \in onGuest' : t \in onGuest \/ t <= session.claimed
  <2>1. CASE Prepared(start.local.claimed) /\ start.pc = "prepare"
    BY <2>1, PreparationIsClaimed
  <2>2. CASE PartlyPrepared(start.local.claimed) /\ start.pc = "prepare"
    BY <2>2, PreparationIsClaimed
  <2>3. CASE onGuest' \subseteq onGuest /\ captured' = captured
    BY <1>1, <2>3, StarterFacts
  <2>4. QED
    BY <2>1, <2>2, <2>3 DEF StartPrepare, StartErrs, StartRestore, guests
<1>3. /\ start' \in StartProcess /\ start'.local = start.local
      /\ start'.pc \in {"confirm", "restore"}
      /\ start'.pc = "confirm" => start.pc = "prepare"
  <2>1. start \in StartProcess
    BY <1>1, StarterFacts
  <2>2. CASE StartPrepare
    <3>1. start.pc = "prepare" /\ start' = [start EXCEPT !.pc = "confirm"]
      BY <2>2 DEF StartPrepare
    <3>2. QED
      BY <2>1, <3>1 DEF StartProcess
  <2>3. CASE StartErrs
    <3>1. 1..start.local.claimed \subseteq Tasks
      BY <1>1, StarterFacts, Bounds DEF ExamSession, Tasks
    <3>2. start' = [start EXCEPT !.pc = "restore", !.pending = 1..start.local.claimed]
      BY <2>3 DEF StartErrs
    <3>3. QED
      BY <2>1, <3>1, <3>2 DEF StartProcess
  <2>4. ASSUME NEW t \in Tasks, StartRestore(t)
        PROVE  /\ start' \in StartProcess /\ start'.local = start.local
               /\ start'.pc = "restore"
    <3>1. start.pc = "restore" /\ start' = [start EXCEPT !.pending = @ \ {t}]
      BY <2>4 DEF StartRestore
    <3>2. QED
      BY <2>1, <3>1 DEF StartProcess
  <2>5. QED
    BY <2>2, <2>3, <2>4
<1>4. session' = session
  BY <1>1 DEF exam
<1>5. StarterKnows'
  BY <1>1, <1>3, <1>4 DEF ExamInv, StarterKnows
<1>6. QED
  BY <1>1, <1>2, <1>3, <1>4, <1>5, StarterFacts, StarterKeepsInv DEF exam, locks

\* The steps that end a start.  A failure is written over the session only if
\* the start has that session in memory.
LEMMA StartEndsKeepsInv ==
  ASSUME ExamInv, StartReturns \/ StartDies \/ StartFails
  PROVE  ExamInv'
<1>1. /\ start.pc # "idle" /\ start' = NotStarting /\ labLock' = "free"
      /\ UNCHANGED <<unused, expired, labVars, examLock, orphans, teardown, bridge>>
  BY DEF StartReturns, StartDies, StartFails, exam
<1>2. /\ onGuest' \subseteq Tasks /\ captured' \subseteq Tasks
      /\ \A t \in onGuest' : t \in onGuest \/ t <= session.claimed
  <2>1. CASE PartlyPrepared(start.local.claimed) /\ start.pc = "prepare"
    BY <2>1, PreparationIsClaimed
  <2>2. CASE UNCHANGED guests
    BY <1>1, <2>2, StarterFacts DEF guests
  <2>3. QED
    BY <2>1, <2>2 DEF StartReturns, StartDies, StartFails
<1>3. /\ session' \in ExamSession /\ ValidSession(session')
      /\ session' # session => session.status = "preparing" /\ session'.status # "submitting"
      /\ session'.claimed = session.claimed
  <2>1. CASE session' = session
    BY <1>1, <2>1, StarterFacts
  <2>2. CASE session' # session
    <3>1. /\ session' = Fail(start.local)
          /\ session.revision = start.local.revision
      BY <2>2 DEF StartReturns, StartDies, StartFails, Save, Current, exam
    <3>2. session = start.local /\ start.local.status = "preparing"
      BY <1>1, <3>1, StarterFacts DEF ExamInv, StarterKnows
    <3>3. Fail(session) \in ExamSession /\ ValidSession(Fail(session))
      BY <1>1, <3>2, StarterFacts, TransitionsStayValid
    <3>4. Fail(session).status = "failed" /\ Fail(session).claimed = session.claimed
      BY <1>1, StarterFacts, TransitionFields
    <3>5. QED
      BY <3>1, <3>2, <3>3, <3>4
  <2>3. QED
    BY <2>1, <2>2
<1>4. QED
  BY <1>1, <1>2, <1>3, StarterEnds, StarterFacts, StarterKeepsInv

\* A start begins when there is no exam and no serial scenario, so nothing is on
\* the guests.
LEMMA StartBeginKeepsInv ==
  ASSUME ExamInv, NEW id \in SessionIds, StartBegin(id)
  PROVE  ExamInv'
<1> DEFINE n == NewSession(id)
<1>1. /\ start.pc = "idle" /\ labLock = "free" /\ serial = None /\ session = None
      /\ session' = n /\ unused' = unused \ {id} /\ expired' = FALSE
      /\ lab' = "validated" /\ labLock' = "start"
      /\ start' = [NotStarting EXCEPT !.pc = "claim", !.local = n]
      /\ UNCHANGED <<serial, onGuest, captured, examLock, orphans, teardown, bridge>>
  BY DEF StartBegin, ReadyLab, Create, guests
<1>2. /\ n \in ExamSession /\ n.id = id /\ n.status = "preparing"
      /\ n.claimed = 0 /\ n.prepared = 0
  BY Bounds DEF NewSession, ExamSession, ExamStatus
<1>3. ValidSession(n)
  BY DEF NewSession, ValidSession
<1> HIDE DEF n
<1>4. start' \in StartProcess /\ start'.pc = "claim" /\ start'.local = n
  BY <1>1, <1>2 DEF StartProcess, NotStarting
<1>5. onGuest = {}
  BY <1>1, Bounds DEF ExamInv, TypeOK, GuestMutationsAreClaimed
<1>6. TypeOK'
  BY <1>1, <1>2, <1>4 DEF ExamInv, TypeOK, LabPhase
<1>7. SessionsStayLoadable' /\ SubmissionsAreReasoned' /\ GuestMutationsAreClaimed'
  BY <1>1, <1>2, <1>3, <1>5, Bounds
     DEF SessionsStayLoadable, SubmissionsAreReasoned, GuestMutationsAreClaimed, Status
<1>8. LocksAreHeld'
  BY <1>1, Bounds DEF ExamInv, LocksAreHeld
<1>9. GradersFindSubmissions'
  BY <1>1 DEF ExamInv, GradersFindSubmissions, Status
<1>10. StarterKnows'
  BY <1>1, <1>2, <1>4, Bounds DEF StarterKnows
<1>11. TeardownKnows'
  BY <1>1 DEF ExamInv, LocksAreHeld, TeardownKnows
<1>12. QED
  BY <1>6, <1>7, <1>8, <1>9, <1>10, <1>11 DEF ExamInv

-----------------------------------------------------------------------------
(* The steps of a teardown                                                 *)

\* What a teardown changes it changes under the locks it holds, and it deletes
\* the session only with every task off the guests.
LEMMA TeardownKeepsInv ==
  ASSUME ExamInv,
         UNCHANGED <<unused, expired, serial, captured, orphans, start, bridge>>,
         teardown.pc # "idle" \/ examLock = "free",
         teardown' \in TeardownProcess,
         lab' \in LabPhase, onGuest' \subseteq onGuest,
         <<session', onGuest', lab'>> # <<session, onGuest, lab>> => teardown.pc \in {"check", "restore"},
         session' \in ExamSession \cup {None}, session' # None => ValidSession(session'),
         session' # None /\ session # None =>
           session'.claimed = session.claimed
             /\ (session'.status = "submitting" => session' = session),
         session' # None => session # None,
         session' = None => \A t \in onGuest' : serial = t,
         examLock' = IF teardown'.pc = "idle" THEN "free" ELSE "teardown",
         \/ labLock' = "teardown" /\ teardown'.pc # "idle" /\ labLock \in {"free", "teardown"}
         \/ labLock' = labLock /\ teardown'.pc = "lab" 
         \/ labLock' = (IF labLock = "teardown" THEN "free" ELSE labLock) /\ teardown'.pc = "idle",
         TeardownKnows'
  PROVE  ExamInv'
<1>1. /\ "teardown" \notin Bridges /\ "free" \notin Bridges
      /\ examLock \in {"free", "teardown"}
      /\ \A b \in Bridges : bridge[b].pc \notin Submitting
  BY Bounds DEF ExamInv, LocksAreHeld
<1>2. session' # session => start.pc = "idle"
  BY DEF ExamInv, LocksAreHeld
<1>3. TypeOK'
  BY DEF ExamInv, TypeOK
<1>4. SessionsStayLoadable' /\ SubmissionsAreReasoned'
  BY DEF ExamInv, SessionsStayLoadable, SubmissionsAreReasoned, Status
<1>5. GuestMutationsAreClaimed'
  BY DEF ExamInv, GuestMutationsAreClaimed
<1>6. LocksAreHeld'
  BY <1>1 DEF ExamInv, LocksAreHeld, Submitting, TypeOK
<1>7. GradersFindSubmissions'
  BY <1>1 DEF GradersFindSubmissions
<1>8. StarterKnows'
  BY <1>2 DEF ExamInv, StarterKnows
<1>9. QED
  BY <1>3, <1>4, <1>5, <1>6, <1>7, <1>8 DEF ExamInv

\* Taking the locks, refusing and dying: nothing else changes.
LEMMA TeardownMovesKeepsInv ==
  ASSUME ExamInv,
         TeardownLocks \/ TeardownDies \/ (\E force \in BOOLEAN : TeardownRefuses(force))
  PROVE  ExamInv'
<1>1. /\ UNCHANGED <<unused, expired, serial, captured, orphans, start, bridge>>
      /\ UNCHANGED <<session, onGuest, lab>>
      /\ teardown.pc # "idle" \/ examLock = "free"
  BY DEF TeardownLocks, TeardownDies, TeardownRefuses, exam, guests, labVars
<1>2. teardown \in TeardownProcess
  BY DEF ExamInv, TypeOK
<1>3. /\ teardown' \in TeardownProcess /\ teardown'.pc # "restore"
      /\ examLock' = IF teardown'.pc = "idle" THEN "free" ELSE "teardown"
      /\ \/ labLock' = "teardown" /\ teardown'.pc # "idle" /\ labLock \in {"free", "teardown"}
         \/ labLock' = labLock /\ teardown'.pc = "lab"
         \/ labLock' = (IF labLock = "teardown" THEN "free" ELSE labLock) /\ teardown'.pc = "idle"
  <2>1. CASE teardown.pc = "idle" /\ TeardownLocks
    <3>1. /\ examLock' = "teardown" /\ labLock' = labLock
          /\ teardown' = [teardown EXCEPT !.pc = "lab"]
      BY <2>1 DEF TeardownLocks
    <3>2. teardown' \in TeardownProcess /\ teardown'.pc = "lab"
      BY <1>2, <3>1 DEF TeardownProcess
    <3>3. QED
      BY <3>1, <3>2
  <2>2. CASE teardown.pc = "lab" /\ TeardownLocks
    <3>1. /\ examLock = "teardown" /\ examLock' = examLock /\ labLock = "free" /\ labLock' = "teardown"
          /\ teardown' = [teardown EXCEPT !.pc = "check"]
      BY <2>2 DEF TeardownLocks, ExamInv, LocksAreHeld
    <3>2. teardown' \in TeardownProcess /\ teardown'.pc = "check"
      BY <1>2, <3>1 DEF TeardownProcess
    <3>3. QED
      BY <3>1, <3>2
  <2>3. CASE TeardownDies \/ (\E force \in BOOLEAN : TeardownRefuses(force))
    <3>1. /\ teardown' = NoTeardown /\ examLock' = "free"
          /\ labLock' = IF labLock = "teardown" THEN "free" ELSE labLock
      BY <2>3 DEF TeardownDies, TeardownRefuses, ReleaseBoth, ExamInv, LocksAreHeld
    <3>2. teardown' \in TeardownProcess /\ teardown'.pc = "idle"
      BY <3>1 DEF TeardownProcess, NoTeardown
    <3>3. QED
      BY <3>1, <3>2
  <2>4. QED
    BY <2>1, <2>2, <2>3 DEF TeardownLocks
<1>4. TeardownKnows'
  BY <1>3 DEF TeardownKnows
<1>5. session' # None => ValidSession(session')
  BY <1>1 DEF ExamInv, SessionsStayLoadable
<1>6. /\ session' \in ExamSession \cup {None} /\ lab' \in LabPhase
      /\ session' = None => \A t \in onGuest' : serial = t
  BY <1>1 DEF ExamInv, TypeOK, GuestMutationsAreClaimed
<1>7. QED
  BY <1>1, <1>3, <1>4, <1>5, <1>6, TeardownKeepsInv

\* The tasks to restore are those of the session: with no serial scenario, all
\* that is on the guests.
LEMMA TeardownBeginKeepsInv ==
  ASSUME ExamInv, NEW force \in BOOLEAN, TeardownBegin(force)
  PROVE  ExamInv'
<1>1. /\ teardown.pc = "check" /\ session # None /\ serial = None
      /\ lab' = "validated"
      /\ teardown' = [NoTeardown EXCEPT !.pc = "restore", !.pending = 1..session.claimed]
      /\ UNCHANGED <<session, unused, expired, serial, onGuest, captured, examLock, labLock,
                     orphans, start, bridge>>
  BY DEF TeardownBegin, MayTearDown, ReadyLab, exam, guests, locks
<1>2. /\ session \in ExamSession /\ session.claimed \in 0..NTasks /\ onGuest \subseteq Tasks
      /\ examLock = "teardown" /\ labLock = "teardown"
  BY <1>1 DEF ExamInv, TypeOK, ExamSession, LocksAreHeld
<1>3. 1..session.claimed \subseteq Tasks
  BY <1>2, Bounds DEF Tasks
<1>4. /\ teardown' \in TeardownProcess /\ teardown'.pc = "restore"
      /\ teardown'.pending = 1..session.claimed
  BY <1>1, <1>3 DEF TeardownProcess, NoTeardown
<1>5. \A t \in onGuest : t \in 1..session.claimed
  <2>1. \A t \in onGuest : t \in Tasks /\ t <= session.claimed
    BY <1>1, <1>2, Bounds DEF ExamInv, GuestMutationsAreClaimed
  <2>2. QED
    BY <1>2, <2>1 DEF Tasks
<1>6. TeardownKnows'
  BY <1>1, <1>4, <1>5 DEF TeardownKnows
<1>7. ValidSession(session)
  BY <1>1 DEF ExamInv, SessionsStayLoadable
<1>8. QED
  BY <1>1, <1>2, <1>4, <1>6, <1>7, TeardownKeepsInv DEF LabPhase

LEMMA TeardownRestoreKeepsInv ==
  ASSUME ExamInv, NEW t \in Tasks, TeardownRestore(t)
  PROVE  ExamInv'
<1>1. /\ teardown.pc = "restore"
      /\ \/ /\ onGuest' = onGuest \ {t}
            /\ teardown' = [teardown EXCEPT !.pending = @ \ {t}]
         \/ /\ onGuest' = onGuest
            /\ teardown' = [teardown EXCEPT !.pending = @ \ {t}, !.failed = TRUE]
      /\ UNCHANGED <<session, unused, expired, lab, serial, captured, examLock, labLock,
                     orphans, start, bridge>>
  BY DEF TeardownRestore, exam, labVars, locks
<1>2. /\ teardown \in TeardownProcess /\ session \in ExamSession /\ session # None
      /\ ValidSession(session) /\ lab \in LabPhase
      /\ examLock = "teardown" /\ labLock = "teardown"
  BY <1>1 DEF ExamInv, TypeOK, LocksAreHeld, TeardownKnows, SessionsStayLoadable
<1>3. /\ teardown' \in TeardownProcess /\ teardown'.pc = "restore"
      /\ teardown'.pending = teardown.pending \ {t}
      /\ teardown'.failed = teardown.failed \/ onGuest' = onGuest
      /\ ~teardown'.failed => ~teardown.failed /\ onGuest' = onGuest \ {t}
  BY <1>1, <1>2 DEF TeardownProcess
<1>4. TeardownKnows'
  BY <1>1, <1>2, <1>3 DEF ExamInv, TeardownKnows
<1>5. QED
  BY <1>1, <1>2, <1>3, <1>4, TeardownKeepsInv

LEMMA TeardownConcludeKeepsInv ==
  ASSUME ExamInv, TeardownConclude
  PROVE  ExamInv'
<1>1. /\ teardown.pc = "restore" /\ teardown.pending = {}
      /\ teardown' = NoTeardown /\ examLock' = "free" /\ labLock' = "free"
      /\ UNCHANGED <<unused, expired, lab, serial, onGuest, captured, orphans, start, bridge>>
  BY DEF TeardownConclude, ReleaseBoth, labVars, guests
<1>2. /\ session \in ExamSession /\ session # None
      /\ ValidSession(session) /\ lab \in LabPhase
      /\ examLock = "teardown" /\ labLock = "teardown"
  BY <1>1 DEF ExamInv, TypeOK, LocksAreHeld, TeardownKnows, SessionsStayLoadable
<1>3. teardown' \in TeardownProcess /\ teardown'.pc = "idle"
  BY <1>1 DEF TeardownProcess, NoTeardown
<1>4. \/ session' = session
      \/ session' = None /\ ~teardown.failed
      \/ session' = Fail(session) /\ session.status # "submitted"
  BY DEF TeardownConclude, Delete, Save
<1>5. session.status # "submitted" => Fail(session) \in ExamSession /\ ValidSession(Fail(session))
  BY <1>2, TransitionsStayValid
<1>6. Fail(session).status = "failed" /\ Fail(session).claimed = session.claimed
  BY <1>2, TransitionFields
<1>7. ~teardown.failed => \A t \in onGuest : serial = t
  BY <1>1 DEF ExamInv, TeardownKnows
<1>8. TeardownKnows'
  BY <1>3 DEF TeardownKnows
<1>9. /\ session' \in ExamSession \cup {None}
      /\ session' # None => ValidSession(session')
      /\ session' # None => session'.claimed = session.claimed
                              /\ (session'.status = "submitting" => session' = session)
      /\ session' = None => \A t \in onGuest' : serial = t
  <2>1. CASE session' = session
    BY <1>2, <2>1
  <2>2. CASE session' = None /\ ~teardown.failed
    BY <1>1, <1>7, <2>2
  <2>3. CASE session' = Fail(session) /\ session.status # "submitted"
    BY <1>2, <1>5, <1>6, <2>3, Bounds
  <2>4. QED
    BY <1>4, <2>1, <2>2, <2>3
<1>10. QED
  BY <1>1, <1>2, <1>3, <1>8, <1>9, TeardownKeepsInv

-----------------------------------------------------------------------------
(* The steps of a bridge                                                   *)

\* A bridge takes only free locks and drops only its own, and it writes the
\* session only with the exam lock to itself and the exam running.
LEMMA BridgeKeepsInv ==
  ASSUME ExamInv, NEW b \in Bridges,
         UNCHANGED <<unused, expired, serial, onGuest, captured, start, teardown>>,
         lab' \in LabPhase, orphans' \in BOOLEAN,
         bridge' \in [Bridges -> BridgeProcess],
         \A c \in Bridges : c # b => bridge'[c] = bridge[c],
         examLock' = examLock \/ (examLock \in {"free", b} /\ examLock' \in {"free", b}),
         labLock' = labLock \/ (labLock \in {"free", b} /\ labLock' \in {"free", b}),
         \/ session' = session
         \/ /\ examLock \in {"free", b} /\ session # None /\ session.status # "preparing"
            /\ session' \in ExamSession /\ ValidSession(session')
            /\ session'.id = session.id /\ session'.claimed = session.claimed
            /\ session'.revision = session.revision + 1
            /\ session'.status = "submitting" => session'.reason # None,
         bridge'[b].pc \in Submitting =>
           examLock' = b /\ session' # None /\ session'.status = "submitting",
         bridge'[b].pc = "grade" => labLock' = b
  PROVE  ExamInv'
<1>1. "free" \notin Bridges /\ "start" \notin Bridges /\ "teardown" \notin Bridges
  BY Bounds
<1>2. TypeOK'
  BY <1>1 DEF ExamInv, TypeOK
<1>3. SessionsStayLoadable' /\ SubmissionsAreReasoned'
  BY DEF ExamInv, SessionsStayLoadable, SubmissionsAreReasoned, Status
<1>4. GuestMutationsAreClaimed'
  BY Bounds DEF ExamInv, GuestMutationsAreClaimed
<1>5. LocksAreHeld'
  <2>1. /\ start'.pc # "idle" => labLock' = "start"
        /\ teardown'.pc # "idle" => examLock' = "teardown"
        /\ teardown'.pc \in {"check", "restore"} => labLock' = "teardown"
    BY <1>1 DEF ExamInv, LocksAreHeld
  <2>2. ASSUME NEW c \in Bridges
        PROVE  /\ bridge'[c].pc \in Submitting => examLock' = c
               /\ bridge'[c].pc = "grade" => labLock' = c
    <3>1. CASE c = b
      BY <3>1
    <3>2. CASE c # b
      BY <1>1, <3>2 DEF ExamInv, LocksAreHeld
    <3>3. QED
      BY <3>1, <3>2
  <2>3. QED
    BY <2>1, <2>2 DEF LocksAreHeld
<1>6. GradersFindSubmissions'
  <2> SUFFICES ASSUME NEW c \in Bridges, bridge'[c].pc \in Submitting
               PROVE  session' # None /\ session'.status = "submitting"
    BY DEF GradersFindSubmissions, Status
  <2>1. CASE c = b
    BY <2>1
  <2>2. CASE c # b
    <3>1. bridge[c].pc \in Submitting
      BY <2>2
    <3>2. examLock = c /\ Status = "submitting"
      BY <3>1 DEF ExamInv, LocksAreHeld, GradersFindSubmissions
    <3>3. session' = session
      BY <1>1, <2>2, <3>2
    <3>4. QED
      BY <3>2, <3>3 DEF Status
  <2>3. QED
    BY <2>1, <2>2
<1>7. StarterKnows'
  <2>1. CASE session' = session
    BY <2>1 DEF ExamInv, StarterKnows
  <2>2. CASE session' # session
    <3>1. CASE start.pc = "idle"
      BY <3>1 DEF StarterKnows
    <3>2. CASE start.pc # "idle"
      <4>1. /\ session # start.local /\ start.pc \notin {"claim", "prepare", "confirm"}
            /\ session.revision > start.local.revision
        BY <2>2, <3>2 DEF ExamInv, StarterKnows
      <4>2. session.revision \in Nat /\ start.local.revision \in Nat
        BY <3>2, StarterFacts DEF ExamSession
      <4>3. session.revision + 1 > start.local.revision
        BY <4>1, <4>2
      <4>4. QED
        BY <2>2, <3>2, <4>1, <4>3, Bounds DEF ExamInv, StarterKnows
    <3>3. QED
      BY <3>1, <3>2
  <2>3. QED
    BY <2>1, <2>2
<1>8. TeardownKnows'
  BY <1>1, Bounds DEF ExamInv, LocksAreHeld, TeardownKnows
<1>9. QED
  BY <1>2, <1>3, <1>4, <1>5, <1>6, <1>7, <1>8 DEF ExamInv

\* The forms in which a bridge goes on.
LEMMA BridgeForms ==
  ASSUME ExamInv, NEW b \in Bridges,
         NEW point \in {"closed", "dial", "connect", "open", "submit", "revoke", "collect",
                        "grade", "record", "fail"},
         NEW reason \in ExamEndReason, NEW desktop \in BOOLEAN,
         bridge' \in {[bridge EXCEPT ![b].pc = point, ![b].reason = reason],
                      [bridge EXCEPT ![b].pc = point, ![b].desktop = desktop]}
  PROVE  /\ bridge' \in [Bridges -> BridgeProcess]
         /\ bridge'[b].pc = point
         /\ \A c \in Bridges : c # b => bridge'[c] = bridge[c]
<1>1. bridge \in [Bridges -> BridgeProcess] /\ bridge[b] \in BridgeProcess
  BY DEF ExamInv, TypeOK
<1>2. CASE bridge' = [bridge EXCEPT ![b].pc = point, ![b].reason = reason]
  <2>1. [bridge[b] EXCEPT !.pc = point, !.reason = reason] \in BridgeProcess
    BY <1>1 DEF BridgeProcess
  <2>2. QED
    BY <1>1, <1>2, <2>1 DEF BridgeProcess
<1>3. CASE bridge' = [bridge EXCEPT ![b].pc = point, ![b].desktop = desktop]
  <2>1. [bridge[b] EXCEPT !.pc = point, !.desktop = desktop] \in BridgeProcess
    BY <1>1 DEF BridgeProcess
  <2>2. QED
    BY <1>1, <1>3, <2>1 DEF BridgeProcess
<1>4. QED
  BY <1>2, <1>3

\* The facts about the lab and the session that every step of a bridge uses.
LEMMA SessionFacts ==
  ASSUME ExamInv, session # None
  PROVE  session \in ExamSession /\ ValidSession(session) /\ session.revision \in Nat
BY DEF ExamInv, TypeOK, SessionsStayLoadable, ExamSession

\* Opening, polling, asking for a submission, an interim check.
LEMMA BridgePagesKeepInv ==
  ASSUME ExamInv, NEW b \in Bridges,
         BridgeLoads(b) \/ BridgeDials(b) \/ BridgeConnects(b) \/ Poll(b) \/ RequestSubmit(b)
  PROVE  ExamInv'
<1>1. UNCHANGED <<session, unused, expired, lab, serial, onGuest, captured, examLock, labLock,
                  orphans, start, teardown>>
  BY DEF BridgeLoads, BridgeDials, BridgeConnects, Poll, RequestSubmit, exam, labVars, guests, locks
<1>2. /\ bridge' \in [Bridges -> BridgeProcess]
      /\ bridge'[b].pc \in {"closed", "dial", "connect", "open", "submit"}
      /\ \A c \in Bridges : c # b => bridge'[c] = bridge[c]
  <2>1. PICK point \in {"closed", "dial", "connect", "open", "submit"}, reason \in ExamEndReason :
          \/ bridge' = [bridge EXCEPT ![b].pc = point, ![b].reason = reason]
          \/ bridge' = [bridge EXCEPT ![b].pc = point, ![b].desktop = TRUE]
    <3>1. "manual" \in ExamEndReason /\ "expired" \in ExamEndReason
      BY DEF ExamEndReason
    <3>2. CASE BridgeLoads(b)
      BY <3>1, <3>2 DEF BridgeLoads, BridgeGoes
    <3>3. CASE BridgeDials(b)
      BY <3>1, <3>3 DEF BridgeDials, BridgeGoes
    <3>4. CASE BridgeConnects(b)
      BY <3>1, <3>4 DEF BridgeConnects, BridgeGoes
    <3>5. CASE Poll(b) \/ RequestSubmit(b)
      BY <3>1, <3>5 DEF Poll, RequestSubmit
    <3>6. QED
      BY <3>2, <3>3, <3>4, <3>5
  <2>2. QED
    BY <2>1, BridgeForms
<1>3. lab \in LabPhase /\ orphans \in BOOLEAN
  BY DEF ExamInv, TypeOK
<1>4. QED
  BY <1>1, <1>2, <1>3, BridgeKeepsInv DEF Submitting

LEMMA BridgeReadsKeepInv ==
  ASSUME ExamInv, NEW b \in Bridges, Progress(b) \/ Check(b)
  PROVE  ExamInv'
<1>1. /\ bridge[b].pc = "open" /\ examLock = "free"
      /\ session # None /\ session.status = "active"
      /\ UNCHANGED <<unused, expired, serial, onGuest, captured, examLock, labLock,
                     orphans, start, teardown, bridge>>
      /\ lab' \in {lab, "validated"}
      /\ session' = session \/ session' = UpdateProgress(session)
  BY DEF Progress, Check, Save, Status, exam, labVars, guests, locks
<1>2. /\ bridge \in [Bridges -> BridgeProcess] /\ lab' \in LabPhase /\ orphans \in BOOLEAN
  BY <1>1 DEF ExamInv, TypeOK, LabPhase
<1>3. UpdateProgress(session) \in ExamSession /\ ValidSession(UpdateProgress(session))
  BY <1>1, SessionFacts, TransitionsStayValid
<1>4. /\ UpdateProgress(session).id = session.id
      /\ UpdateProgress(session).claimed = session.claimed
      /\ UpdateProgress(session).status = session.status
      /\ UpdateProgress(session).revision = session.revision + 1
  BY <1>1, SessionFacts, TransitionFields
<1>5. QED
  BY <1>1, <1>2, <1>3, <1>4, BridgeKeepsInv DEF Submitting

LEMMA SubmitBeginKeepsInv ==
  ASSUME ExamInv, NEW b \in Bridges, SubmitBegin(b)
  PROVE  ExamInv'
<1>1. /\ bridge[b].pc = "submit" /\ examLock = "free"
      /\ UNCHANGED <<unused, expired, lab, serial, onGuest, captured, labLock, orphans, start, teardown>>
  BY DEF SubmitBegin, labVars, guests
<1>2. /\ lab \in LabPhase /\ orphans \in BOOLEAN /\ expired \in BOOLEAN
      /\ bridge[b] \in BridgeProcess /\ bridge[b].reason \in ExamEndReason
      /\ "manual" \in ExamEndReason
  BY DEF ExamInv, TypeOK, BridgeProcess, ExamEndReason
<1>3. CASE BridgeGoes(b, "open") /\ UNCHANGED <<session, examLock>>
  <2>1. /\ bridge' \in [Bridges -> BridgeProcess] /\ bridge'[b].pc = "open"
        /\ \A c \in Bridges : c # b => bridge'[c] = bridge[c]
    BY <1>2, <1>3, BridgeForms DEF BridgeGoes
  <2>2. QED
    BY <1>1, <1>2, <1>3, <2>1, BridgeKeepsInv DEF Submitting
<1>4. CASE /\ Status = "active" /\ BridgeGoes(b, "revoke") /\ examLock' = b
           /\ session' = BeginSubmit(session, bridge[b].reason, expired)
  <2> DEFINE n == BeginSubmit(session, bridge[b].reason, expired)
  <2>1. session # None /\ session.status = "active"
    BY <1>4 DEF Status
  <2>2. n \in ExamSession /\ ValidSession(n) /\ n.reason # None
    BY <1>2, <2>1, SessionFacts, BeginsStayValid
  <2>3. /\ n.id = session.id /\ n.claimed = session.claimed /\ n.status = "submitting"
        /\ n.revision = session.revision + 1
    BY <2>1, SessionFacts, TransitionFields
  <2> HIDE DEF n
  <2>4. /\ bridge' \in [Bridges -> BridgeProcess] /\ bridge'[b].pc = "revoke"
        /\ \A c \in Bridges : c # b => bridge'[c] = bridge[c]
    BY <1>2, <1>4, BridgeForms DEF BridgeGoes
  <2>5. session' = n /\ examLock' = b
    BY <1>4 DEF n
  <2>6. QED
    BY <1>1, <1>2, <2>1, <2>2, <2>3, <2>4, <2>5, Bounds, BridgeKeepsInv DEF Submitting
<1>5. CASE Status = "submitting" /\ BridgeGoes(b, "collect") /\ examLock' = b /\ UNCHANGED session
  <2>1. /\ bridge' \in [Bridges -> BridgeProcess] /\ bridge'[b].pc = "collect"
        /\ \A c \in Bridges : c # b => bridge'[c] = bridge[c]
    BY <1>2, <1>5, BridgeForms DEF BridgeGoes
  <2>2. session # None /\ session.status = "submitting"
    BY <1>5 DEF Status
  <2>3. QED
    BY <1>1, <1>2, <1>5, <2>1, <2>2, BridgeKeepsInv DEF Submitting
<1>6. QED
  BY <1>3, <1>4, <1>5 DEF SubmitBegin, Save

\* The steps of a submission that leave the session alone.
LEMMA SubmitWorksKeepInv ==
  ASSUME ExamInv, NEW b \in Bridges, SubmitRevoke(b) \/ SubmitCollect(b) \/ SubmitGrade(b)
  PROVE  ExamInv'
<1>1. /\ bridge[b].pc \in Submitting
      /\ UNCHANGED <<session, unused, expired, serial, onGuest, captured, start, teardown>>
      /\ lab' \in {lab, "validated"} /\ orphans' \in {orphans, TRUE}
  BY DEF SubmitRevoke, SubmitCollect, SubmitGrade, exam, labVars, guests, Submitting
<1>2. /\ examLock = b /\ session # None /\ session.status = "submitting"
      /\ bridge[b].pc = "grade" => labLock = b
  BY <1>1 DEF ExamInv, LocksAreHeld, GradersFindSubmissions, Status
<1>3. /\ lab' \in LabPhase /\ orphans' \in BOOLEAN
      /\ "manual" \in ExamEndReason
  BY <1>1 DEF ExamInv, TypeOK, LabPhase, ExamEndReason
<1>4. CASE SubmitRevoke(b)
  <2>1. \/ bridge' = [bridge EXCEPT ![b].pc = "collect", ![b].desktop = FALSE] /\ examLock' = examLock
        \/ bridge' = [bridge EXCEPT ![b].pc = "open", ![b].desktop = FALSE] /\ examLock' = "free"
    BY <1>4 DEF SubmitRevoke
  <2>2. /\ bridge' \in [Bridges -> BridgeProcess]
        /\ \/ bridge'[b].pc = "collect" /\ examLock' = b
           \/ bridge'[b].pc = "open" /\ examLock' = "free"
        /\ \A c \in Bridges : c # b => bridge'[c] = bridge[c]
    <3>1. CASE bridge' = [bridge EXCEPT ![b].pc = "collect", ![b].desktop = FALSE] /\ examLock' = examLock
      BY <1>2, <1>3, <3>1, BridgeForms
    <3>2. CASE bridge' = [bridge EXCEPT ![b].pc = "open", ![b].desktop = FALSE] /\ examLock' = "free"
      BY <1>3, <3>2, BridgeForms
    <3>3. QED
      BY <2>1, <3>1, <3>2
  <2>3. labLock' = labLock
    BY <1>4 DEF SubmitRevoke
  <2>4. QED
    BY <1>1, <1>2, <1>3, <2>2, <2>3, BridgeKeepsInv DEF Submitting
<1>5. CASE SubmitCollect(b)
  <2>1. \/ BridgeGoes(b, "grade") /\ labLock' = b
        \/ BridgeGoes(b, "fail") /\ labLock' = labLock
    BY <1>5 DEF SubmitCollect
  <2>2. /\ bridge' \in [Bridges -> BridgeProcess]
        /\ \/ bridge'[b].pc = "grade" /\ labLock' = b
           \/ bridge'[b].pc = "fail" /\ labLock' = labLock
        /\ \A c \in Bridges : c # b => bridge'[c] = bridge[c]
    <3>1. CASE BridgeGoes(b, "grade") /\ labLock' = b
      BY <1>3, <3>1, BridgeForms DEF BridgeGoes
    <3>2. CASE BridgeGoes(b, "fail") /\ labLock' = labLock
      BY <1>3, <3>2, BridgeForms DEF BridgeGoes
    <3>3. QED
      BY <2>1, <3>1, <3>2
  <2>3. labLock = "free" /\ examLock' = examLock
    BY <1>5 DEF SubmitCollect
  <2>4. QED
    BY <1>1, <1>2, <1>3, <2>2, <2>3, BridgeKeepsInv DEF Submitting
<1>6. CASE SubmitGrade(b)
  <2>1. PICK point \in {"record", "fail"} : BridgeGoes(b, point)
    BY <1>6 DEF SubmitGrade
  <2>2. /\ bridge' \in [Bridges -> BridgeProcess] /\ bridge'[b].pc = point
        /\ \A c \in Bridges : c # b => bridge'[c] = bridge[c]
    BY <1>3, <2>1, BridgeForms DEF BridgeGoes
  <2>3. labLock = b /\ labLock' = "free" /\ examLock' = examLock
    BY <1>2, <1>6 DEF SubmitGrade
  <2>4. QED
    BY <1>1, <1>2, <1>3, <2>2, <2>3, BridgeKeepsInv DEF Submitting
<1>7. QED
  BY <1>4, <1>5, <1>6

\* The two ends of a submission.
LEMMA SubmitEndsKeepInv ==
  ASSUME ExamInv, NEW b \in Bridges,
         SubmitFails(b) \/ (\E receipt \in Receipts : SubmitRecord(b, receipt))
  PROVE  ExamInv'
<1>1. /\ bridge[b].pc \in Submitting
      /\ BridgeGoes(b, "open") /\ examLock' = "free" /\ labLock' = labLock
      /\ UNCHANGED <<unused, expired, lab, serial, onGuest, captured, orphans, start, teardown>>
  BY DEF SubmitFails, SubmitRecord, labVars, guests, Submitting
<1>2. /\ examLock = b /\ session # None /\ session.status = "submitting" /\ session.reason # None
      /\ lab \in LabPhase /\ orphans \in BOOLEAN /\ "manual" \in ExamEndReason
  BY <1>1 DEF ExamInv, TypeOK, LocksAreHeld, GradersFindSubmissions, SubmissionsAreReasoned, Status,
              ExamEndReason
<1>3. /\ bridge' \in [Bridges -> BridgeProcess] /\ bridge'[b].pc = "open"
      /\ \A c \in Bridges : c # b => bridge'[c] = bridge[c]
  BY <1>1, <1>2, BridgeForms DEF BridgeGoes
<1>4. /\ session' \in ExamSession /\ ValidSession(session')
      /\ session'.id = session.id /\ session'.claimed = session.claimed
      /\ session'.revision = session.revision + 1 /\ session'.status # "submitting"
  <2>1. CASE SubmitFails(b)
    <3>1. session' = Fail(session)
      BY <1>2, <2>1 DEF SubmitFails, Save, Status
    <3>2. Fail(session) \in ExamSession /\ ValidSession(Fail(session))
      BY <1>2, SessionFacts, TransitionsStayValid
    <3>3. /\ Fail(session).id = session.id /\ Fail(session).claimed = session.claimed
          /\ Fail(session).revision = session.revision + 1 /\ Fail(session).status = "failed"
      BY <1>2, SessionFacts, TransitionFields
    <3>4. QED
      BY <3>1, <3>2, <3>3
  <2>2. ASSUME NEW receipt \in Receipts, SubmitRecord(b, receipt)
        PROVE  /\ session' \in ExamSession /\ ValidSession(session')
               /\ session'.id = session.id /\ session'.claimed = session.claimed
               /\ session'.revision = session.revision + 1 /\ session'.status # "submitting"
    <3>1. session' = CompleteSubmit(session, receipt)
      BY <2>2 DEF SubmitRecord, Save
    <3>2. CompleteSubmit(session, receipt) \in ExamSession
            /\ ValidSession(CompleteSubmit(session, receipt))
      BY <1>2, SessionFacts, CompletionsStayValid
    <3>3. /\ CompleteSubmit(session, receipt).id = session.id
          /\ CompleteSubmit(session, receipt).claimed = session.claimed
          /\ CompleteSubmit(session, receipt).revision = session.revision + 1
          /\ CompleteSubmit(session, receipt).status = "submitted"
      BY <1>2, SessionFacts, TransitionFields
    <3>4. QED
      BY <3>1, <3>2, <3>3
  <2>3. QED
    BY <2>1, <2>2
<1>5. QED
  BY <1>1, <1>2, <1>3, <1>4, Bounds, BridgeKeepsInv DEF Submitting

LEMMA BridgeEndsKeepsInv ==
  ASSUME ExamInv, NEW b \in Bridges, NEW killed \in BOOLEAN, BridgeEnds(b, killed)
  PROVE  ExamInv'
<1>1. /\ bridge' = [bridge EXCEPT ![b] = Closed]
      /\ orphans' = (orphans \/ (killed /\ bridge[b].desktop))
      /\ examLock' = Drop(examLock, b) /\ labLock' = Drop(labLock, b)
      /\ UNCHANGED <<session, unused, expired, lab, serial, onGuest, captured, start, teardown>>
  BY DEF BridgeEnds, exam, labVars, guests
<1>2. bridge \in [Bridges -> BridgeProcess] /\ lab \in LabPhase
  BY DEF ExamInv, TypeOK
<1>3. Closed \in BridgeProcess /\ Closed.pc = "closed"
  BY DEF Closed, BridgeProcess, ExamEndReason
<1>4. /\ bridge' \in [Bridges -> BridgeProcess] /\ bridge'[b].pc = "closed"
      /\ \A c \in Bridges : c # b => bridge'[c] = bridge[c]
  BY <1>1, <1>2, <1>3
<1>5. orphans' \in BOOLEAN
  BY <1>1
<1>6. QED
  BY <1>1, <1>2, <1>4, <1>5, BridgeKeepsInv DEF Submitting, Drop

-----------------------------------------------------------------------------
(* The other commands on the lab, time, and the beginning                  *)

\* A command that finds the lab lock free meets neither a start nor a teardown
\* that works on the guests; it leaves the session alone.
LEMMA OthersKeepInv ==
  ASSUME ExamInv,
         UNCHANGED <<session, unused, examLock, labLock, start, teardown>>,
         expired' \in BOOLEAN, orphans' \in BOOLEAN,
         lab' \in LabPhase, serial' \in Tasks \cup {None},
         onGuest' \subseteq Tasks, captured' \subseteq Tasks,
         <<serial', onGuest'>> # <<serial, onGuest>> => labLock = "free",
         \A t \in onGuest' : serial' = t \/ (t \in onGuest /\ (serial' = serial \/ serial # t)),
         bridge' \in [Bridges -> BridgeProcess],
         \A b \in Bridges : bridge'[b].pc = bridge[b].pc
  PROVE  ExamInv'
<1>1. TypeOK'
  BY DEF ExamInv, TypeOK
<1>2. SessionsStayLoadable' /\ SubmissionsAreReasoned'
  BY DEF ExamInv, SessionsStayLoadable, SubmissionsAreReasoned, Status
<1>3. GuestMutationsAreClaimed'
  BY DEF ExamInv, GuestMutationsAreClaimed
<1>4. LocksAreHeld' /\ GradersFindSubmissions'
  BY DEF ExamInv, LocksAreHeld, GradersFindSubmissions, Status
<1>5. StarterKnows'
  BY DEF ExamInv, StarterKnows
<1>6. TeardownKnows'
  BY DEF ExamInv, LocksAreHeld, TeardownKnows
<1>7. QED
  BY <1>1, <1>2, <1>3, <1>4, <1>5, <1>6 DEF ExamInv

LEMMA OtherStepsKeepInv ==
  ASSUME ExamInv, DeadlinePasses \/ LabNext \/ UNCHANGED vars
  PROVE  ExamInv'
<1>1. /\ expired \in BOOLEAN /\ orphans \in BOOLEAN
      /\ lab \in LabPhase /\ serial \in Tasks \cup {None}
      /\ onGuest \subseteq Tasks /\ captured \subseteq Tasks
      /\ bridge \in [Bridges -> BridgeProcess]
  BY DEF ExamInv, TypeOK
<1>2. CASE DeadlinePasses
  BY <1>1, <1>2, OthersKeepInv DEF DeadlinePasses, labVars, guests, locks
<1>3. ASSUME NEW t \in Tasks, SerialPrepare(t)
      PROVE  ExamInv'
  <2>1. /\ labLock = "free" /\ serial = None /\ serial' = t
        /\ lab' \in {"scenario-prepared", "degraded"}
        /\ onGuest' \in {onGuest, onGuest \cup {t}}
        /\ captured' \in {captured, captured \cup ({t} \cap CaptureTasks)}
        /\ UNCHANGED <<session, unused, expired, examLock, labLock, orphans, start, teardown, bridge>>
    BY <1>3 DEF SerialPrepare, ReadyLab, Prepared, PartlyPrepared, exam, guests, locks
  <2>2. onGuest' \subseteq Tasks /\ captured' \subseteq Tasks /\ lab' \in LabPhase
    BY <1>1, <2>1 DEF LabPhase
  <2>3. \A u \in onGuest' : serial' = u \/ (u \in onGuest /\ serial # u)
    BY <1>1, <2>1, Bounds
  <2>4. QED
    BY <1>1, <2>1, <2>2, <2>3, OthersKeepInv
<1>4. CASE SerialRestore
  <2>1. /\ labLock = "free"
        /\ lab' \in {"validated", "degraded", lab}
        /\ \/ onGuest' = onGuest \ {serial} /\ serial' = None
           \/ serial' = serial /\ onGuest' \subseteq onGuest
        /\ UNCHANGED <<session, unused, expired, captured, examLock, labLock, orphans, start,
                       teardown, bridge>>
    BY <1>4 DEF SerialRestore, exam, locks
  <2>2. onGuest' \subseteq Tasks /\ lab' \in LabPhase /\ serial' \in Tasks \cup {None}
    BY <1>1, <2>1 DEF LabPhase
  <2>3. \A u \in onGuest' : u \in onGuest /\ (serial' = serial \/ serial # u)
    BY <2>1
  <2>4. QED
    BY <1>1, <2>1, <2>2, <2>3, OthersKeepInv
<1>5. CASE Provision
  <2>1. lab' \in LabPhase
    BY <1>1, <1>5 DEF Provision, LabPhase
  <2>2. QED
    BY <1>1, <1>5, <2>1, OthersKeepInv DEF Provision, exam, guests, locks
<1>6. CASE Destroy
  <2>1. /\ labLock = "free" /\ lab' = "destroyed" /\ onGuest' = {} /\ captured' = {} /\ orphans' = FALSE
        /\ bridge' = [b \in Bridges |-> [bridge[b] EXCEPT !.desktop = FALSE]]
        /\ UNCHANGED <<session, unused, expired, serial, examLock, labLock, start, teardown>>
    BY <1>6 DEF Destroy, exam, locks
  <2>2. ASSUME NEW b \in Bridges
        PROVE  /\ [bridge[b] EXCEPT !.desktop = FALSE] \in BridgeProcess
               /\ [bridge[b] EXCEPT !.desktop = FALSE].pc = bridge[b].pc
    <3>1. bridge[b] \in BridgeProcess
      BY <1>1
    <3>2. QED
      BY <3>1 DEF BridgeProcess
  <2>3. /\ bridge' \in [Bridges -> BridgeProcess]
        /\ \A b \in Bridges : bridge'[b].pc = bridge[b].pc
    BY <2>1, <2>2
  <2>4. QED
    BY <1>1, <2>1, <2>3, OthersKeepInv DEF LabPhase
<1>7. CASE UNCHANGED vars
  BY <1>1, <1>7, OthersKeepInv DEF vars, exam, guests, labVars, locks
<1>8. QED
  BY <1>2, <1>3, <1>4, <1>5, <1>6, <1>7 DEF LabNext

LEMMA InitEstablishesInv ==
  ASSUME Init
  PROVE  ExamInv
<1>1. /\ start \in StartProcess /\ start.pc = "idle"
      /\ teardown \in TeardownProcess /\ teardown.pc = "idle"
  BY DEF Init, NotStarting, StartProcess, NoTeardown, TeardownProcess
<1>2. /\ bridge \in [Bridges -> BridgeProcess]
      /\ \A b \in Bridges : bridge[b].pc = "closed"
  BY DEF Init, Closed, BridgeProcess, ExamEndReason
<1>3. TypeOK
  BY <1>1, <1>2 DEF Init, TypeOK, LabPhase
<1>4. SessionsStayLoadable /\ SubmissionsAreReasoned /\ GuestMutationsAreClaimed
  BY DEF Init, SessionsStayLoadable, SubmissionsAreReasoned, GuestMutationsAreClaimed, Status
<1>5. LocksAreHeld /\ GradersFindSubmissions /\ StarterKnows /\ TeardownKnows
  BY <1>1, <1>2 DEF LocksAreHeld, GradersFindSubmissions, StarterKnows, TeardownKnows, Submitting
<1>6. QED
  BY <1>3, <1>4, <1>5 DEF ExamInv

LEMMA StepKeepsInv ==
  ASSUME ExamInv, [Next]_vars
  PROVE  ExamInv'
<1>1. ASSUME NEW id \in SessionIds, StartBegin(id)
      PROVE  ExamInv'
  BY <1>1, StartBeginKeepsInv
<1>2. CASE StartStep
  <2>1. CASE StartClaim
    BY <2>1, StartClaimKeepsInv
  <2>2. CASE StartConfirm
    BY <2>2, StartConfirmKeepsInv
  <2>3. CASE StartActivate
    BY <2>3, StartActivateKeepsInv
  <2>4. CASE StartPrepare \/ StartErrs \/ (\E t \in Tasks : StartRestore(t))
    BY <2>4, StartWorksKeepsInv
  <2>5. CASE StartReturns \/ StartFails
    BY <2>5, StartEndsKeepsInv
  <2>6. QED
    BY <1>2, <2>1, <2>2, <2>3, <2>4, <2>5 DEF StartStep
<1>3. CASE StartDies
  BY <1>3, StartEndsKeepsInv
<1>4. CASE TeardownLocks \/ TeardownDies
  BY <1>4, TeardownMovesKeepsInv
<1>5. CASE TeardownStep
  <2>1. ASSUME NEW force \in BOOLEAN, TeardownBegin(force)
        PROVE  ExamInv'
    BY <2>1, TeardownBeginKeepsInv
  <2>2. CASE \E force \in BOOLEAN : TeardownRefuses(force)
    BY <2>2, TeardownMovesKeepsInv
  <2>3. ASSUME NEW t \in Tasks, TeardownRestore(t)
        PROVE  ExamInv'
    BY <2>3, TeardownRestoreKeepsInv
  <2>4. CASE TeardownConclude
    BY <2>4, TeardownConcludeKeepsInv
  <2>5. QED
    BY <1>5, <2>1, <2>2, <2>3, <2>4 DEF TeardownStep
<1>6. ASSUME NEW b \in Bridges, BridgeNext(b)
      PROVE  ExamInv'
  <2>1. CASE BridgeOpens(b) \/ Poll(b) \/ RequestSubmit(b)
    BY <2>1, BridgePagesKeepInv DEF BridgeOpens
  <2>2. CASE Progress(b) \/ Check(b)
    BY <2>2, BridgeReadsKeepInv
  <2>3. CASE SubmitBegin(b)
    BY <2>3, SubmitBeginKeepsInv
  <2>4. CASE SubmitRevoke(b) \/ SubmitCollect(b) \/ SubmitGrade(b)
    BY <2>4, SubmitWorksKeepInv
  <2>5. CASE SubmitFails(b) \/ (\E receipt \in Receipts : SubmitRecord(b, receipt))
    BY <2>5, SubmitEndsKeepInv
  <2>6. ASSUME NEW killed \in BOOLEAN, BridgeEnds(b, killed)
        PROVE  ExamInv'
    BY <2>6, BridgeEndsKeepsInv
  <2>7. QED
    BY <1>6, <2>1, <2>2, <2>3, <2>4, <2>5, <2>6 DEF BridgeNext, SubmitStep
<1>7. CASE DeadlinePasses \/ LabNext \/ UNCHANGED vars
  BY <1>7, OtherStepsKeepInv
<1>8. QED
  BY <1>1, <1>2, <1>3, <1>4, <1>5, <1>6, <1>7 DEF Next

-----------------------------------------------------------------------------
(* The theorems about states                                               *)

LEMMA ExamInvariant == Spec => []ExamInv
<1>1. Init => ExamInv
  BY InitEstablishesInv
<1>2. ExamInv /\ [Next]_vars => ExamInv'
  BY StepKeepsInv
<1>3. QED
  BY <1>1, <1>2, PTL DEF Spec

\* The session, the lab and the processes around them stay well formed, for any
\* number of tasks and bridges.
THEOREM ExamTypeCorrect == Spec => []TypeOK
<1>1. ExamInv => TypeOK
  BY DEF ExamInv
<1>2. QED
  BY <1>1, ExamInvariant, PTL

\* No interleaving of starts, teardowns and bridges stores a session that
\* ExamSession.__post_init__ would reject on the next load.
THEOREM ExamSessionsLoadable == Spec => []SessionsStayLoadable
<1>1. ExamInv => SessionsStayLoadable
  BY DEF ExamInv
<1>2. QED
  BY <1>1, ExamInvariant, PTL

\* Whatever dies or fails in ExamEngine.start and .teardown, a task that is on
\* the guests is claimed by the exam or by the serial scenario.
THEOREM ExamMutationsClaimed == Spec => []GuestMutationsAreClaimed
<1>1. ExamInv => GuestMutationsAreClaimed
  BY DEF ExamInv
<1>2. QED
  BY <1>1, ExamInvariant, PTL

-----------------------------------------------------------------------------
(* The locks: who holds one is at a point where it gives it back           *)

LabLockIsUsed ==
  \/ labLock = "free"
  \/ labLock = "start" /\ start.pc # "idle"
  \/ labLock = "teardown" /\ teardown.pc \in {"check", "restore"}
  \/ \E b \in Bridges : labLock = b /\ bridge[b].pc = "grade"

ExamLockIsUsed ==
  \/ examLock = "free"
  \/ examLock = "teardown" /\ teardown.pc # "idle"
  \/ \E b \in Bridges : examLock = b /\ bridge[b].pc \in Submitting

\* No lock outlives its holder's use of it, and the holder of the lab lock waits
\* for nothing: a circle of waiting processes would need one at "lab" or at
\* "collect" (waiting for the lab lock with the exam lock in hand) and one that
\* waits for the exam lock with the lab lock in hand.
LocksAreUsed == LabLockIsUsed /\ ExamLockIsUsed

LEMMA StartKeepsLocksUsed ==
  ASSUME ExamInv, LocksAreUsed,
         (\E id \in SessionIds : StartBegin(id)) \/ StartStep \/ StartDies
  PROVE  LocksAreUsed'
<1>1. UNCHANGED <<examLock, teardown, bridge>>
  BY DEF StartBegin, StartStep, StartDies, StartClaim, StartPrepare, StartConfirm, StartActivate,
         StartReturns, StartErrs, StartFails, StartRestore, locks
<1>2. start \in StartProcess /\ (start.pc # "idle" => labLock = "start")
  BY DEF ExamInv, TypeOK, LocksAreHeld
<1>3. labLock' = "free" \/ (labLock' = "start" /\ start'.pc # "idle")
  <2>1. CASE \E id \in SessionIds : StartBegin(id)
    BY <2>1 DEF StartBegin, NotStarting
  <2>2. CASE StartClaim \/ StartPrepare \/ StartConfirm \/ StartActivate \/ StartErrs
    BY <1>2, <2>2
       DEF StartClaim, StartPrepare, StartConfirm, StartActivate, StartErrs, StartProcess, locks
  <2>3. CASE \E t \in Tasks : StartRestore(t)
    BY <1>2, <2>3 DEF StartRestore, StartProcess, locks
  <2>4. CASE StartReturns \/ StartFails \/ StartDies
    BY <2>4 DEF StartReturns, StartFails, StartDies
  <2>5. QED
    BY <2>1, <2>2, <2>3, <2>4 DEF StartStep
<1>4. QED
  BY <1>1, <1>3 DEF LocksAreUsed, LabLockIsUsed, ExamLockIsUsed

LEMMA TeardownKeepsLocksUsed ==
  ASSUME ExamInv, LocksAreUsed, TeardownLocks \/ TeardownStep \/ TeardownDies
  PROVE  LocksAreUsed'
<1>1. UNCHANGED <<start, bridge>>
  BY DEF TeardownLocks, TeardownStep, TeardownDies, TeardownBegin, TeardownRefuses,
         TeardownRestore, TeardownConclude
<1>2. /\ teardown \in TeardownProcess
      /\ teardown.pc # "idle" => examLock = "teardown"
      /\ teardown.pc \in {"check", "restore"} => labLock = "teardown"
  BY DEF ExamInv, TypeOK, LocksAreHeld
<1>3. \A b \in Bridges : b # "teardown"
  BY BridgesAssumption
<1>4. labLock = "teardown" => teardown.pc \in {"check", "restore"}
  BY <1>3 DEF LocksAreUsed, LabLockIsUsed
<1>5. \/ examLock' = "free" /\ labLock' \in {"free", labLock} \ {"teardown"}
      \/ /\ examLock' = "teardown" /\ teardown'.pc = "lab"
         /\ labLock' = labLock /\ labLock # "teardown"
      \/ /\ examLock' = "teardown" /\ labLock' = "teardown"
         /\ teardown'.pc \in {"check", "restore"}
  <2>1. CASE TeardownLocks
    BY <1>2, <1>4, <2>1 DEF TeardownLocks, TeardownProcess
  <2>2. CASE \E force \in BOOLEAN : TeardownBegin(force)
    BY <1>2, <2>2 DEF TeardownBegin, NoTeardown, TeardownProcess, locks
  <2>3. CASE \E t \in Tasks : TeardownRestore(t)
    BY <1>2, <2>3 DEF TeardownRestore, TeardownProcess, locks
  <2>4. CASE TeardownConclude \/ (\E force \in BOOLEAN : TeardownRefuses(force))
    BY <2>4 DEF TeardownConclude, TeardownRefuses, ReleaseBoth
  <2>5. CASE TeardownDies
    BY <2>5 DEF TeardownDies
  <2>6. QED
    BY <2>1, <2>2, <2>3, <2>4, <2>5 DEF TeardownStep
<1>6. QED
  BY <1>1, <1>5 DEF LocksAreUsed, LabLockIsUsed, ExamLockIsUsed

\* A bridge that holds a lock is using it.
LEMMA BridgeHolds ==
  ASSUME LocksAreUsed, NEW b \in Bridges
  PROVE  /\ examLock = b => bridge[b].pc \in Submitting
         /\ labLock = b => bridge[b].pc = "grade"
         /\ b \notin {"free", "start", "teardown"}
<1>1. b \notin {"free", "start", "teardown"}
  BY BridgesAssumption
<1>2. QED
  BY <1>1 DEF LocksAreUsed, LabLockIsUsed, ExamLockIsUsed

\* A bridge moves: the others stay where they are.
LEMMA BridgeMoves ==
  ASSUME ExamInv, LocksAreUsed, NEW b \in Bridges, BridgeNext(b)
  PROVE  /\ UNCHANGED <<start, teardown>>
         /\ \A other \in Bridges \ {b} : bridge'[other] = bridge[other]
         /\ \/ examLock' = "free" \/ (examLock' = examLock /\ examLock # b)
            \/ examLock' = b /\ bridge'[b].pc \in Submitting
         /\ \/ labLock' = "free" \/ (labLock' = labLock /\ labLock # b)
            \/ labLock' = b /\ bridge'[b].pc = "grade"
<1>1. bridge \in [Bridges -> BridgeProcess] /\ bridge[b] \in BridgeProcess
  BY DEF ExamInv, TypeOK
<1>2. \A point : BridgeGoes(b, point) =>
        bridge'[b].pc = point /\ \A other \in Bridges \ {b} : bridge'[other] = bridge[other]
  BY <1>1 DEF BridgeGoes, BridgeProcess
<1>3. /\ examLock = b => bridge[b].pc \in Submitting
      /\ labLock = b => bridge[b].pc = "grade"
  BY BridgeHolds
<1>4. CASE BridgeOpens(b) \/ Poll(b) \/ RequestSubmit(b) \/ Progress(b) \/ Check(b)
  <2>1. UNCHANGED <<examLock, labLock, start, teardown>> /\ bridge[b].pc \notin Submitting
    BY <1>4 DEF BridgeOpens, BridgeLoads, BridgeDials, BridgeConnects, Poll, RequestSubmit,
                Progress, Check, Submitting, locks
  <2>2. \A other \in Bridges \ {b} : bridge'[other] = bridge[other]
    <3>1. CASE BridgeLoads(b) \/ BridgeDials(b)
      BY <1>2, <3>1 DEF BridgeLoads, BridgeDials
    <3>2. CASE BridgeConnects(b)
      BY <1>1, <1>2, <3>2 DEF BridgeConnects
    <3>3. CASE Poll(b) \/ RequestSubmit(b)
      BY <1>1, <3>3 DEF Poll, RequestSubmit
    <3>4. CASE Progress(b) \/ Check(b)
      BY <3>4 DEF Progress, Check
    <3>5. QED
      BY <1>4, <3>1, <3>2, <3>3, <3>4 DEF BridgeOpens
  <2>3. QED
    BY <1>3, <2>1, <2>2 DEF Submitting
<1>5. CASE SubmitBegin(b)
  <2>1. /\ bridge[b].pc = "submit" /\ UNCHANGED <<labLock, start, teardown>>
        /\ examLock = "free"
    BY <1>5 DEF SubmitBegin
  <2>2. /\ \A other \in Bridges \ {b} : bridge'[other] = bridge[other]
        /\ examLock' = "free" \/ (examLock' = b /\ bridge'[b].pc \in Submitting)
    BY <1>2, <1>5, <2>1 DEF SubmitBegin, Submitting
  <2>3. QED
    BY <1>3, <2>1, <2>2
<1>6. CASE SubmitRevoke(b)
  <2>1. bridge[b].pc = "revoke" /\ UNCHANGED <<labLock, start, teardown>>
    BY <1>6 DEF SubmitRevoke
  <2>2. examLock = b
    BY <2>1 DEF ExamInv, LocksAreHeld, Submitting
  <2>3. /\ \A other \in Bridges \ {b} : bridge'[other] = bridge[other]
        /\ examLock' = "free" \/ (examLock' = b /\ bridge'[b].pc \in Submitting)
    BY <1>1, <1>6, <2>2 DEF SubmitRevoke, Submitting, BridgeProcess
  <2>4. QED
    BY <1>3, <2>1, <2>3
<1>7. CASE SubmitCollect(b)
  <2>1. bridge[b].pc = "collect" /\ UNCHANGED <<examLock, start, teardown>> /\ labLock = "free"
    BY <1>7 DEF SubmitCollect
  <2>2. examLock = b
    BY <2>1 DEF ExamInv, LocksAreHeld, Submitting
  <2>3. /\ \A other \in Bridges \ {b} : bridge'[other] = bridge[other]
        /\ bridge'[b].pc \in Submitting
        /\ labLock' = "free" \/ (labLock' = b /\ bridge'[b].pc = "grade")
    BY <1>2, <1>7, <2>1 DEF SubmitCollect, Submitting
  <2>4. QED
    BY <2>1, <2>2, <2>3
<1>8. CASE SubmitGrade(b)
  <2>1. bridge[b].pc = "grade" /\ UNCHANGED <<examLock, start, teardown>> /\ labLock' = "free"
    BY <1>8 DEF SubmitGrade
  <2>2. examLock = b
    BY <2>1 DEF ExamInv, LocksAreHeld, Submitting
  <2>3. /\ \A other \in Bridges \ {b} : bridge'[other] = bridge[other]
        /\ bridge'[b].pc \in Submitting
    BY <1>2, <1>8 DEF SubmitGrade, Submitting
  <2>4. QED
    BY <2>1, <2>2, <2>3
<1>9. CASE SubmitFails(b) \/ (\E receipt \in Receipts : SubmitRecord(b, receipt))
  <2>1. /\ bridge[b].pc \in {"fail", "record"} /\ UNCHANGED <<labLock, start, teardown>>
        /\ examLock' = "free" /\ BridgeGoes(b, "open")
    BY <1>9 DEF SubmitFails, SubmitRecord
  <2>2. QED
    BY <1>2, <1>3, <2>1
<1>10. ASSUME NEW killed \in BOOLEAN, BridgeEnds(b, killed)
       PROVE  /\ UNCHANGED <<start, teardown>>
              /\ \A other \in Bridges \ {b} : bridge'[other] = bridge[other]
              /\ examLock' = "free" \/ (examLock' = examLock /\ examLock # b)
              /\ labLock' = "free" \/ (labLock' = labLock /\ labLock # b)
  BY <1>1, <1>10 DEF BridgeEnds, Drop
<1>11. QED
  BY <1>4, <1>5, <1>6, <1>7, <1>8, <1>9, <1>10 DEF BridgeNext, SubmitStep

LEMMA BridgeKeepsLocksUsed ==
  ASSUME ExamInv, LocksAreUsed, NEW b \in Bridges, BridgeNext(b)
  PROVE  LocksAreUsed'
BY BridgeMoves DEF LocksAreUsed, LabLockIsUsed, ExamLockIsUsed

LEMMA OthersKeepLocksUsed ==
  ASSUME ExamInv, LocksAreUsed, DeadlinePasses \/ LabNext \/ UNCHANGED vars
  PROVE  LocksAreUsed'
<1>1. UNCHANGED <<examLock, labLock, start, teardown>>
  BY DEF DeadlinePasses, LabNext, SerialPrepare, SerialRestore, Provision, Destroy, vars, locks
<1>2. \A b \in Bridges : bridge'[b].pc = bridge[b].pc
  <2>1. CASE Destroy
    BY <2>1 DEF Destroy, ExamInv, TypeOK, BridgeProcess
  <2>2. CASE UNCHANGED bridge
    BY <2>2
  <2>3. QED
    BY <2>1, <2>2 DEF DeadlinePasses, LabNext, SerialPrepare, SerialRestore, Provision, vars
<1>3. QED
  BY <1>1, <1>2 DEF LocksAreUsed, LabLockIsUsed, ExamLockIsUsed

\* LabMutatorLock and the exam lock are given back by whoever takes them, in
\* start, teardown and submissions: no lock outlives its holder's use of it, and
\* who holds the lab lock waits for no other.
THEOREM ExamLocksAreUsed == Spec => []LocksAreUsed
<1>1. Init => LocksAreUsed
  BY DEF Init, LocksAreUsed, LabLockIsUsed, ExamLockIsUsed
<1>2. ExamInv /\ LocksAreUsed /\ [Next]_vars => LocksAreUsed'
  BY StartKeepsLocksUsed, TeardownKeepsLocksUsed, BridgeKeepsLocksUsed, OthersKeepLocksUsed DEF Next
<1>3. QED
  BY <1>1, <1>2, ExamInvariant, PTL DEF Spec

-----------------------------------------------------------------------------
(* The refinement                                                          *)

View == IF session = None THEN None
        ELSE [id |-> session.id, status |-> session.status, receipt |-> session.receipt]

\* What any step may do to the stored session.
SessionMoves ==
  \/ session' = session
  \/ session = None /\ (\E id \in SessionIds : session' = NewSession(id))
  \/ session # None /\ session' = None
  \/ session # None /\ session' \in {ClaimPreparation(session), ConfirmPreparation(session),
                                      UpdateProgress(session)}
  \/ session # None /\ session.status = "preparing" /\ session' = Activate(session)
  \/ /\ session # None /\ session.status = "active"
     /\ \E b \in Bridges : session' = BeginSubmit(session, bridge[b].reason, expired)
  \/ /\ session # None /\ session.status = "submitting"
     /\ \E receipt \in Receipts : session' = CompleteSubmit(session, receipt)
  \/ session # None /\ session.status \notin {"submitted", "failed"} /\ session' = Fail(session)

LEMMA StepsMoveSessions ==
  ASSUME ExamInv, Next
  PROVE  SessionMoves
<1>1. ASSUME NEW id \in SessionIds, StartBegin(id)
      PROVE  SessionMoves
  BY <1>1 DEF StartBegin, Create, SessionMoves
<1>2. CASE StartStep \/ StartDies
  <2>1. CASE StartClaim \/ StartConfirm \/ StartActivate
    <3>1. /\ session' \in {ClaimPreparation(start.local), ConfirmPreparation(start.local), Activate(start.local)}
          /\ start.pc \in {"claim", "confirm"}
      BY <2>1 DEF StartClaim, StartConfirm, StartActivate, Save
    <3>2. session = start.local /\ session # None /\ session.status = "preparing"
      BY <3>1 DEF ExamInv, StarterKnows
    <3>3. QED
      BY <3>1, <3>2 DEF SessionMoves
  <2>2. CASE StartFails
    <3>1. CASE session' = session
      BY <3>1 DEF SessionMoves
    <3>2. CASE session' # session
      <4>1. /\ start.pc = "restore" /\ session' = Fail(start.local)
            /\ session.revision = start.local.revision
        BY <2>2, <3>2 DEF StartFails, Save, Current
      <4>2. session = start.local /\ session # None /\ session.status = "preparing"
        BY <4>1, StarterFacts DEF ExamInv, StarterKnows
      <4>3. QED
        BY <4>1, <4>2 DEF SessionMoves
    <3>3. QED
      BY <3>1, <3>2
  <2>3. CASE session' = session
    BY <2>3 DEF SessionMoves
  <2>4. QED
    BY <1>2, <2>1, <2>2, <2>3
       DEF StartStep, StartDies, StartPrepare, StartReturns, StartErrs, StartRestore, exam
<1>3. CASE TeardownLocks \/ TeardownStep \/ TeardownDies
  <2>1. CASE TeardownConclude
    <3>1. session # None
      BY <2>1 DEF TeardownConclude, ExamInv, TeardownKnows
    <3>2. QED
      BY <2>1, <3>1 DEF TeardownConclude, Delete, Save, SessionMoves
  <2>2. CASE session' = session
    BY <2>2 DEF SessionMoves
  <2>3. QED
    BY <1>3, <2>1, <2>2
       DEF TeardownLocks, TeardownStep, TeardownDies, TeardownBegin, TeardownRefuses, TeardownRestore, exam
<1>4. ASSUME NEW b \in Bridges, BridgeNext(b)
      PROVE  SessionMoves
  <2>1. CASE Progress(b)
    BY <2>1 DEF Progress, Save, Status, SessionMoves
  <2>2. CASE SubmitBegin(b)
    BY <2>2 DEF SubmitBegin, Save, Status, SessionMoves
  <2>3. CASE SubmitFails(b)
    BY <2>3 DEF SubmitFails, Save, Status, SessionMoves
  <2>4. ASSUME NEW receipt \in Receipts, SubmitRecord(b, receipt)
        PROVE  SessionMoves
    <3>1. session # None /\ session.status = "submitting"
      BY <2>4 DEF SubmitRecord, ExamInv, GradersFindSubmissions, Submitting, Status
    <3>2. QED
      BY <2>4, <3>1 DEF SubmitRecord, Save, SessionMoves
  <2>5. CASE session' = session
    BY <2>5 DEF SessionMoves
  <2>6. QED
    BY <1>4, <2>1, <2>2, <2>3, <2>4, <2>5
       DEF BridgeNext, BridgeOpens, BridgeLoads, BridgeDials, BridgeConnects, Poll, RequestSubmit,
           Check, SubmitCollect, SubmitStep, SubmitRevoke, SubmitGrade, BridgeEnds, exam
<1>5. CASE DeadlinePasses \/ LabNext
  BY <1>5 DEF DeadlinePasses, LabNext, SerialPrepare, SerialRestore, Provision, Destroy, exam, SessionMoves
<1>6. QED
  BY <1>1, <1>2, <1>3, <1>4, <1>5 DEF Next

\* The same, seen from outside.
LEMMA MovesKeepLifecycle ==
  ASSUME ExamInv, SessionMoves
  PROVE  View' = View \/ Lifecycle!LifecycleNext
<1>1. CASE session' = session
  BY <1>1 DEF View
<1>2. CASE session = None /\ (\E id \in SessionIds : session' = NewSession(id))
  <2>1. PICK id \in SessionIds : session' = NewSession(id)
    BY <1>2
  <2>2. /\ NewSession(id) \in ExamSession /\ NewSession(id).id = id
        /\ NewSession(id).status = "preparing" /\ NewSession(id).receipt = None
    BY Bounds DEF NewSession, ExamSession, ExamStatus
  <2>3. View = None /\ View' = [id |-> id, status |-> "preparing", receipt |-> None]
    BY <1>2, <2>1, <2>2, Bounds DEF View
  <2>4. Lifecycle!Begin(id)
    BY <2>3 DEF Lifecycle!Begin, View
  <2>5. QED
    BY <2>4 DEF Lifecycle!LifecycleNext
<1>3. CASE session # None /\ session' = None
  BY <1>3 DEF Lifecycle!LifecycleNext, Lifecycle!Discard, View
<1>4. CASE session # None /\ session' # None /\ session' # session
  <2>1. /\ session \in ExamSession
        /\ View = [id |-> session.id, status |-> session.status, receipt |-> session.receipt]
        /\ View' = [id |-> session'.id, status |-> session'.status, receipt |-> session'.receipt]
    BY <1>4 DEF ExamInv, TypeOK, View
  <2>2. View # None
    BY <2>1, AbsentAssumption DEF ExamSession
  <2>3. CASE session' \in {ClaimPreparation(session), ConfirmPreparation(session), UpdateProgress(session)}
    <3>1. session'.id = session.id /\ session'.status = session.status /\ session'.receipt = session.receipt
      BY <2>1, <2>3, TransitionFields
    <3>2. QED
      BY <2>1, <3>1
  <2>4. CASE session.status = "preparing" /\ session' = Activate(session)
    <3>1. session'.id = session.id /\ session'.status = "active" /\ session'.receipt = session.receipt
      BY <2>1, <2>4, TransitionFields
    <3>2. View' = [View EXCEPT !.status = "active"] /\ View.status = "preparing"
      BY <2>1, <2>4, <3>1
    <3>3. Lifecycle!Open
      BY <2>2, <3>2 DEF Lifecycle!Open, Lifecycle!In, View
    <3>4. QED
      BY <3>3 DEF Lifecycle!LifecycleNext
  <2>5. CASE session.status = "active" /\ (\E b \in Bridges : session' = BeginSubmit(session, bridge[b].reason, expired))
    <3>1. session'.id = session.id /\ session'.status = "submitting" /\ session'.receipt = session.receipt
      BY <2>1, <2>5, TransitionFields
    <3>2. View' = [View EXCEPT !.status = "submitting"] /\ View.status = "active"
      BY <2>1, <2>5, <3>1
    <3>3. Lifecycle!Submit
      BY <2>2, <3>2 DEF Lifecycle!Submit, Lifecycle!In, View
    <3>4. QED
      BY <3>3 DEF Lifecycle!LifecycleNext
  <2>6. ASSUME session.status = "submitting", NEW receipt \in Receipts, session' = CompleteSubmit(session, receipt)
        PROVE  Lifecycle!LifecycleNext
    <3>1. session'.id = session.id /\ session'.status = "submitted" /\ session'.receipt = receipt
      BY <2>1, <2>6, TransitionFields
    <3>2. View' = [id |-> session.id, status |-> "submitted", receipt |-> receipt]
      BY <2>1, <3>1
    <3>3. View.status = "submitting"
      BY <2>1, <2>6
    <3>4. View.id = session.id
      BY <2>1
    <3>5. Lifecycle!Conclude(receipt)
      BY <2>2, <3>2, <3>3, <3>4 DEF Lifecycle!Conclude, Lifecycle!In, View
    <3>6. QED
      BY <3>5 DEF Lifecycle!LifecycleNext
  <2>7. CASE session.status \notin {"submitted", "failed"} /\ session' = Fail(session)
    <3>1. session'.id = session.id /\ session'.status = "failed" /\ session'.receipt = session.receipt
      BY <2>1, <2>7, TransitionFields
    <3>2. View' = [View EXCEPT !.status = "failed"] /\ View.status \in {"preparing", "active", "submitting"}
      BY <2>1, <2>7, <3>1 DEF ExamSession, ExamStatus
    <3>3. Lifecycle!Break
      BY <2>2, <3>2 DEF Lifecycle!Break, Lifecycle!In, View
    <3>4. QED
      BY <3>3 DEF Lifecycle!LifecycleNext
  <2>8. QED
    BY <1>4, <2>3, <2>4, <2>5, <2>6, <2>7 DEF SessionMoves
<1>5. QED
  BY <1>1, <1>2, <1>3, <1>4 DEF SessionMoves

\* The processes of an exam together refine the promise of one exam: there is at
\* most one, its status follows the diagram of exam.py, its receipt is given
\* once and never changes.
THEOREM ExamKeepsLifecycle == Spec => KeepsLifecycle
<1>1. Init => Lifecycle!LifecycleInit
  BY DEF Init, Lifecycle!LifecycleInit
<1>2. ExamInv /\ [Next]_vars => [Lifecycle!LifecycleNext]_View
  <2> SUFFICES ASSUME ExamInv, [Next]_vars
               PROVE  View' = View \/ Lifecycle!LifecycleNext
    OBVIOUS
  <2>1. CASE Next
    BY <2>1, StepsMoveSessions, MovesKeepLifecycle
  <2>2. CASE UNCHANGED vars
    BY <2>2 DEF vars, exam, View
  <2>3. QED
    BY <2>1, <2>2
<1>3. QED
  BY <1>1, <1>2, ExamInvariant, PTL DEF Spec, KeepsLifecycle, Lifecycle!LifecycleSpec, View

=============================================================================
