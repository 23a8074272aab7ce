------------------------------ MODULE MCGrading ------------------------------
(* Grading for TLC: scenario 05, which is observed on two roles and whose    *)
(* restored guests meet two of the four criteria.                           *)
EXTENDS Grading

MCRoles == <<"control-plane", "worker1">>
MCAt == [c \in Criteria |-> IF c \in {"profiling-disabled", "etcd-owner"} THEN "control-plane" ELSE "worker1"]
MCWeight == [c \in Criteria |-> 1]

=============================================================================
