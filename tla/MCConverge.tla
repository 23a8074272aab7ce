----------------------------- MODULE MCConverge -----------------------------
(* Converge for TLC, on the four machines of a lab.                         *)
EXTENDS LabProgram

MCMachines == <<"candidate", "control-plane", "worker1", "worker2">>
MCFragile ==
  {<<"hosts", "candidate">>, <<"member", "worker1">>, <<"tools", "worker2">>,
   <<"certificate", "candidate">>, <<"access", "worker2">>}

=============================================================================
