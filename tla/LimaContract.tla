----------------------------- MODULE LimaContract -----------------------------
(* What the operations of the Lima provider may do to one machine: the terms  *)
(* in which FullLab describes its machines, and which LimaMachine shows the   *)
(* provider (src/cks_simulator/providers/lima.py) to keep.                    *)

\* "bare" is an instance that carries the identity digest of its role in its
\* Lima configuration but not yet the root-owned marker inside the guest.
VmState == {"absent", "running", "stopped", "bare", "bare-stopped"}

Halted(v) == CASE v = "running" -> "stopped"
               [] v = "bare" -> "bare-stopped"
               [] OTHER -> v

\* What a failed ensure may leave: a creation stops before or after the marker
\* is written, a restart is rolled back or its rollback fails.
EnsureRemains(v) ==
  CASE v = "absent" -> {"absent", "bare", "bare-stopped", "running"}
    [] v = "stopped" -> {"stopped", "running"}
    [] v = "bare-stopped" -> {"bare-stopped", "bare"}
    [] OTHER -> {v}

\* The same after Lima has stopped the machine on its own.
OrHalted(states) == states \cup {Halted(v) : v \in states}

\* The machines whose ownership a proof may grant: a running one must show its
\* marker, which break-glass lets be absent.
Provable(breakGlass) ==
  {"running", "stopped", "bare-stopped"} \cup (IF breakGlass THEN {"bare"} ELSE {})

\* What a deletion may leave, whatever fails in it.
DeleteRemains(v) == {v, Halted(v), "absent"}

=============================================================================
