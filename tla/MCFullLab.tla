----------------------------- MODULE MCFullLab ------------------------------
(* FullLab for TLC.  Two machines show partial creation, partial deletion    *)
(* and a mutation that reaches one role only; scenario "05" of the catalog   *)
(* captures a baseline on both of its roles, "01" captures none.             *)
EXTENDS FullLab, TLC

CONSTANTS candidate, plane

MCRoles == {candidate, plane}
MCEnsureOrder == (candidate :> 1) @@ (plane :> 2)
MCDeleteOrder == (candidate :> 2) @@ (plane :> 1)
MCMutationRoles == [s \in Scenarios |-> IF s = "05" THEN {candidate, plane} ELSE {candidate}]
MCCaptureRoles == [s \in Scenarios |-> IF s = "05" THEN {candidate, plane} ELSE {}]
MCHealthOf == [x \in Specs \X Facts |-> CHOOSE h \in Healths : TRUE]

=============================================================================
