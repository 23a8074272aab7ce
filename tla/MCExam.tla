-------------------------------- MODULE MCExam --------------------------------
(* Exam for TLC.  Task 2 captures a baseline that its restore needs, task 1  *)
(* none.  The processes of the bridges are interchangeable.                 *)
EXTENDS Exam, TLC

Interchangeable == Permutations(Bridges)

=============================================================================
