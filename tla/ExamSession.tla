------------------------------ MODULE ExamSession ------------------------------
(***************************************************************************)
(* The durable record of one combined exam and the store that keeps it     *)
(* (ExamSession and ExamSessionStore, src/cks_simulator/exam.py).          *)
(*                                                                         *)
(* The record is one file replaced atomically.  Its transitions are        *)
(* functions from a record in memory to the next one; Save writes the      *)
(* result only over the revision that the caller expects.  Tasks are       *)
(* numbered in catalog order, so a claimed or prepared prefix is its       *)
(* length.  Navigation flags are abstracted to the revision they advance.  *)
(***************************************************************************)
EXTENDS Naturals

CONSTANTS
  NTasks,      \* the number of tasks, EXPECTED_TASK_IDS
  SessionIds,  \* session UUIDs
  Receipts,    \* final receipts
  None         \* an absent optional field

ASSUME TasksAssumption == NTasks \in Nat \ {0}

VARIABLE session   \* the stored session, or None

Tasks == 1..NTasks

ExamStatus == {"preparing", "active", "submitting", "submitted", "failed"}
ExamEndReason == {"manual", "expired"}

ExamSession ==
  [id : SessionIds, status : ExamStatus, claimed : 0..NTasks, prepared : 0..NTasks,
   started : BOOLEAN,                      \* the timer fields, present together
   reason : ExamEndReason \cup {None}, receipt : Receipts \cup {None},
   revision : Nat]

ASSUME AbsentAssumption ==
  /\ None \notin ExamSession /\ None \notin Receipts
  /\ None \notin ExamEndReason /\ None \notin Tasks
  /\ None \notin [id : SessionIds, status : ExamStatus, receipt : Receipts \cup {None}]

\* What __post_init__ demands beyond types.
ValidSession(s) ==
  /\ s.prepared <= s.claimed
  /\ s.status \in {"active", "submitting", "submitted"} => s.started
  /\ ~s.started => s.reason = None /\ s.receipt = None
  /\ s.status = "preparing" => ~s.started
  /\ s.status = "submitted" => s.reason # None
  /\ s.receipt # None <=> s.status = "submitted"

-----------------------------------------------------------------------------
(* Transitions of a record in memory.                                      *)

NewSession(id) ==
  [id |-> id, status |-> "preparing", claimed |-> 0, prepared |-> 0, started |-> FALSE,
   reason |-> None, receipt |-> None, revision |-> 0]

\* Bug: the catalog's last task is followed by another one.
CanClaimPastEnd(s) == s.status = "preparing" /\ s.claimed = s.prepared

\* Claims are ordered, and each is confirmed before the next.
CanClaim(s) == s.status = "preparing" /\ s.claimed < NTasks /\ s.claimed = s.prepared

ClaimPreparation(s) == [s EXCEPT !.claimed = @ + 1, !.revision = @ + 1]

CanConfirm(s) == s.status = "preparing" /\ s.claimed = s.prepared + 1

ConfirmPreparation(s) == [s EXCEPT !.prepared = @ + 1, !.revision = @ + 1]

\* Bug: the timer is not started.
ActivateUntimed(s) == [s EXCEPT !.status = "active", !.revision = @ + 1]

Activate(s) == [s EXCEPT !.status = "active", !.started = TRUE, !.revision = @ + 1]

UpdateProgress(s) == [s EXCEPT !.revision = @ + 1]

\* A manual submission after the deadline is an expiry.
BeginSubmit(s, reason, expired) ==
  [s EXCEPT !.status = "submitting", !.revision = @ + 1,
            !.reason = IF expired THEN "expired" ELSE reason]

CompleteSubmit(s, receipt) ==
  [s EXCEPT !.status = "submitted", !.receipt = receipt, !.revision = @ + 1]

Fail(s) == [s EXCEPT !.status = "failed", !.revision = @ + 1]

-----------------------------------------------------------------------------
(* The store.                                                              *)

Status == IF session = None THEN "missing" ELSE session.status

Create(s) == session = None /\ session' = s

Current(s, expected) ==
  /\ session # None
  /\ session.id = s.id
  /\ session.revision = expected
  /\ s.revision > session.revision

\* Bug: the expected revision is not compared.
SaveUnconditionally(s, expected) == session # None /\ session' = s

Save(s, expected) == Current(s, expected) /\ session' = s

Delete(id) == session # None /\ session.id = id /\ session' = None

=============================================================================
