----------------------------- MODULE ExamLifecycle -----------------------------
(***************************************************************************)
(* What a combined exam promises to its candidate, whoever runs it: the    *)
(* state diagram that ExamSession's transitions allow                      *)
(* (src/cks_simulator/exam.py) seen from outside.  There is at most one    *)
(* exam; it ends in one receipt or in failure, a receipt never changes,    *)
(* and only an explicit discard makes room for another exam.               *)
(***************************************************************************)
EXTENDS Naturals

CONSTANTS Exams, Results, Nothing

VARIABLE exam   \* [id, status, receipt], or Nothing

In(statuses) == exam # Nothing /\ exam.status \in statuses

Begin(id) ==
  /\ exam = Nothing
  /\ exam' = [id |-> id, status |-> "preparing", receipt |-> Nothing]

Open == In({"preparing"}) /\ exam' = [exam EXCEPT !.status = "active"]

Submit == In({"active"}) /\ exam' = [exam EXCEPT !.status = "submitting"]

Conclude(result) ==
  /\ In({"submitting"})
  /\ exam' = [id |-> exam.id, status |-> "submitted", receipt |-> result]

\* A setup error, a forced teardown that could not restore, a grading error.
Break ==
  /\ In({"preparing", "active", "submitting"})
  /\ exam' = [exam EXCEPT !.status = "failed"]

Discard == exam # Nothing /\ exam' = Nothing

LifecycleInit == exam = Nothing

LifecycleNext ==
  \/ \E id \in Exams : Begin(id)
  \/ Open \/ Submit \/ Break \/ Discard
  \/ \E result \in Results : Conclude(result)

LifecycleSpec == LifecycleInit /\ [][LifecycleNext]_exam

=============================================================================
