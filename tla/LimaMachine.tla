----------------------------- MODULE LimaMachine -----------------------------
(***************************************************************************)
(* One machine of a lab as LimaProvider (src/cks_simulator/providers/      *)
(* lima.py) handles it: discover, ensure, prove_ownership, execute_verified*)
(* and _delete_exact, each a sequence of limactl commands under the host   *)
(* provider lock.                                                          *)
(*                                                                         *)
(* limactl addresses a machine by name.  What the name stands for may be   *)
(* replaced by somebody who does not take the lock (Meddle), and Lima may  *)
(* stop it (VmStops), between any two commands.  A command may fail or     *)
(* time out with or without its effect, and a process may die (Die).       *)
(***************************************************************************)
EXTENDS LimaContract

CONSTANTS
  Processes,
  Data,       \* the provider data of an instance: its directory, CPUs, disk and so on
  Template,   \* the provider data that an instance made by ensure has
  None

VARIABLES
  vm,       \* the instance of this name
  lock,     \* the holder of the host provider lock
  proc,     \* the operation each process runs, with its locals
  proof,    \* each provider's _ownership_fingerprints of this machine
  meddled,  \* history: somebody has replaced the instance
  stale,    \* history: the processes that have not looked since it was replaced
  refused   \* history: the processes whose last proof was not granted

vars == <<vm, lock, proc, proof, meddled, stale, refused>>

-----------------------------------------------------------------------------

\* digest is the identity digest in the Lima configuration, marker the
\* root-owned identity file inside the guest.
Instance == [digest : {"own", "other", "none"}, data : Data,
             status : {"running", "stopped"}, marker : {"own", "other", "absent"}]

\* Bug: the provider data is left out of the fingerprint.
FingerprintOfDigest(i) == [digest |-> i.digest]

Fingerprint(i) == [digest |-> i.digest, data |-> i.data]
Fingerprints == [digest : {"own", "other", "none"}, data : Data]

Is(status) == vm # None /\ vm.status = status
Digest(d) == vm # None /\ vm.digest = d
Shows(f) == vm # None /\ Fingerprint(vm) = f

\* The machine in the terms of LimaContract.
State ==
  IF vm = None THEN "absent"
  ELSE IF vm.digest # "own" \/ vm.marker = "other" THEN "foreign"
  ELSE IF vm.marker = "own" THEN vm.status
  ELSE IF vm.status = "running" THEN "bare" ELSE "bare-stopped"

Operations == {"ensure", "prove", "break-glass", "execute", "delete"}

ASSUME LimaAssumption ==
  /\ Template \in Data
  /\ None \notin Processes \cup Instance \cup Fingerprints \cup Operations

ControlPoint ==
  {"idle", "discover", "start", "write-marker", "verify-created", "read-marker", "restart",
   "verify-restarted", "rollback", "rollback-stop", "command",
   "check-stop", "stop", "check-stopped", "check-delete", "delete"}

\* seen is the fingerprint that the operation has to find again, before what the
\* machine was when it began.
Proc == [pc : ControlPoint, op : Operations \cup {None}, seen : Fingerprints \cup {None},
         before : VmState \cup {"foreign"}]

Idle == [pc |-> "idle", op |-> None, seen |-> None, before |-> "absent"]

At(p, point) == proc[p].pc = point
Goto(p, point) == proc' = [proc EXCEPT ![p].pc = point]

\* The operation returns or raises, and releases the lock.
Return(p) == proc' = [proc EXCEPT ![p] = Idle] /\ lock' = None

\* A look at the machine, by limactl list or by reading its marker.
Looked(p) == stale' = stale \ {p}

-----------------------------------------------------------------------------
(* Beginning an operation                                                  *)

\* Bug: an earlier proof is kept until another one replaces it.
BeginKeepingProof(p, op) ==
  /\ At(p, "idle") /\ op # "delete"
  /\ lock = None /\ lock' = p
  /\ proc' = [proc EXCEPT ![p] = [pc |-> "discover", op |-> op, seen |-> None, before |-> State]]
  /\ refused' = IF op \in {"prove", "break-glass"} THEN refused \cup {p} ELSE refused
  /\ UNCHANGED <<vm, proof, meddled, stale>>

\* ensure and prove_ownership forget an earlier proof, execute_verified leaves it.
Begin(p, op) ==
  /\ At(p, "idle") /\ op # "delete"
  /\ lock = None /\ lock' = p
  /\ proof' = IF op = "execute" THEN proof ELSE [proof EXCEPT ![p] = None]
  /\ proc' = [proc EXCEPT ![p] = [pc |-> "discover", op |-> op, seen |-> None, before |-> State]]
  /\ refused' = IF op \in {"prove", "break-glass"} THEN refused \cup {p} ELSE refused
  /\ UNCHANGED <<vm, meddled, stale>>

\* A deletion takes the proof, which serves once.
BeginDelete(p) ==
  /\ At(p, "idle")
  /\ lock = None /\ lock' = p
  /\ proof[p] # None
  /\ proc' = [proc EXCEPT ![p] = [pc |-> "check-stop", op |-> "delete", seen |-> proof[p],
                                  before |-> State]]
  /\ proof' = [proof EXCEPT ![p] = None]
  /\ UNCHANGED <<vm, meddled, stale, refused>>

-----------------------------------------------------------------------------
(* ensure                                                                  *)

\* A running or stopped instance must carry the digest of this machine.
DiscoverToEnsure(p) ==
  /\ At(p, "discover") /\ proc[p].op = "ensure"
  /\ \/ vm = None /\ Goto(p, "start")
     \/ Is("running") /\ Digest("own") /\ Goto(p, "read-marker")
     \/ /\ Is("stopped") /\ Digest("own")
        /\ proc' = [proc EXCEPT ![p].pc = "restart", ![p].seen = Fingerprint(vm)]
  /\ Looked(p)
  /\ UNCHANGED <<vm, lock, proof, meddled, refused>>

New(status) ==
  [digest |-> "own", data |-> Template, status |-> status, marker |-> "absent"]

\* limactl start on a name that is not taken; it refuses one that is.
Start(p) ==
  /\ At(p, "start")
  /\ vm = None /\ vm' = New("running")
  /\ Goto(p, "write-marker")
  /\ Looked(p)
  /\ UNCHANGED <<lock, proof, meddled, refused>>

StartFails(p) ==
  /\ At(p, "start")
  /\ vm' = vm \/ (vm = None /\ vm' \in {New("running"), New("stopped")})
  /\ Return(p)
  /\ UNCHANGED <<proof, meddled, stale, refused>>

Marked == [vm EXCEPT !.marker = "own"]

WriteMarker(p) ==
  /\ At(p, "write-marker")
  /\ Is("running") /\ vm' = Marked
  /\ Goto(p, "verify-created")
  /\ UNCHANGED <<lock, proof, meddled, stale, refused>>

WriteMarkerFails(p) ==
  /\ At(p, "write-marker")
  /\ vm' = vm \/ (Is("running") /\ vm' = Marked)
  /\ Return(p)
  /\ UNCHANGED <<proof, meddled, stale, refused>>

VerifyCreated(p) ==
  /\ At(p, "verify-created")
  /\ Digest("own") /\ Is("running")
  /\ Goto(p, "read-marker")
  /\ Looked(p)
  /\ UNCHANGED <<vm, lock, proof, meddled, refused>>

Started(i) == [i EXCEPT !.status = "running"]

\* limactl shell --start prints the marker.
Restart(p) ==
  /\ At(p, "restart")
  /\ vm # None /\ vm' = Started(vm)
  /\ Goto(p, IF vm.marker = "own" THEN "verify-restarted" ELSE "rollback")
  /\ UNCHANGED <<lock, proof, meddled, stale, refused>>

RestartFails(p) ==
  /\ At(p, "restart")
  /\ vm' = vm \/ (vm # None /\ vm' = Started(vm))
  /\ Goto(p, "rollback")
  /\ UNCHANGED <<lock, proof, meddled, stale, refused>>

EnsureRestarted(p) ==
  /\ At(p, "verify-restarted")
  /\ Shows(proc[p].seen) /\ Is("running")
  /\ Return(p) /\ Looked(p)
  /\ UNCHANGED <<vm, proof, meddled, refused>>

RestartRefuted(p) ==
  /\ At(p, "verify-restarted")
  /\ Goto(p, "rollback")
  /\ UNCHANGED <<vm, lock, proof, meddled, stale, refused>>

\* _rollback_restart stops only the generation it started.
Rollback(p) ==
  /\ At(p, "rollback")
  /\ Shows(proc[p].seen)
  /\ Goto(p, "rollback-stop")
  /\ Looked(p)
  /\ UNCHANGED <<vm, lock, proof, meddled, refused>>

\* limactl stop --force, which may fail with or without its effect; what the
\* code verifies after it is only told to the user.
RollbackStop(p) ==
  /\ At(p, "rollback-stop")
  /\ vm' = vm \/ (vm # None /\ vm' = [vm EXCEPT !.status = "stopped"])
  /\ Return(p)
  /\ UNCHANGED <<proof, meddled, stale, refused>>

-----------------------------------------------------------------------------
(* prove_ownership and execute_verified                                    *)

Proofs == {"prove", "break-glass"}

\* A stopped guest cannot show its marker; its digest is enough.
DiscoverToProve(p) ==
  /\ At(p, "discover") /\ proc[p].op \in Proofs
  /\ Digest("own")
  /\ \/ /\ Is("stopped")
        /\ proof' = [proof EXCEPT ![p] = Fingerprint(vm)]
        /\ refused' = refused \ {p}
        /\ Return(p)
     \/ /\ Is("running")
        /\ proc' = [proc EXCEPT ![p].pc = "read-marker", ![p].seen = Fingerprint(vm)]
        /\ UNCHANGED <<lock, proof, refused>>
  /\ Looked(p)
  /\ UNCHANGED <<vm, meddled>>

\* Bug: the digest of the configuration is taken for the identity of the guest.
MarkerAllowedUnread(p) == vm # None

\* read_guest_identity; break-glass lets the marker be absent.
MarkerAllows(p) ==
  /\ Is("running")
  /\ vm.marker = "own" \/ (vm.marker = "absent" /\ proc[p].op = "break-glass")

ReadMarker(p) ==
  /\ At(p, "read-marker") /\ proc[p].op # "execute"
  /\ MarkerAllows(p)
  /\ IF proc[p].op \in Proofs
       THEN proof' = [proof EXCEPT ![p] = proc[p].seen] /\ refused' = refused \ {p}
       ELSE UNCHANGED <<proof, refused>>
  /\ Return(p) /\ Looked(p)
  /\ UNCHANGED <<vm, meddled>>

DiscoverToExecute(p) ==
  /\ At(p, "discover") /\ proc[p].op = "execute"
  /\ Is("running") /\ Digest("own")
  /\ Goto(p, "read-marker") /\ Looked(p)
  /\ UNCHANGED <<vm, lock, proof, meddled, refused>>

ReadMarkerToExecute(p) ==
  /\ At(p, "read-marker") /\ proc[p].op = "execute"
  /\ MarkerAllows(p)
  /\ Goto(p, "command") /\ Looked(p)
  /\ UNCHANGED <<vm, lock, proof, meddled, refused>>

Command(p) ==
  /\ At(p, "command")
  /\ Return(p)
  /\ UNCHANGED <<vm, proof, meddled, stale, refused>>

-----------------------------------------------------------------------------
(* _delete_exact                                                           *)

\* Bug: the state before the deletion is not looked at again.
CheckOnce(p) ==
  /\ \/ At(p, "check-stop") /\ Shows(proc[p].seen) /\ Goto(p, "stop")
     \/ At(p, "check-stopped") /\ Goto(p, "delete")
  /\ Looked(p)
  /\ UNCHANGED <<vm, lock, proof, meddled, refused>>

\* The fingerprint of the proof is found again before the stop, after it, and
\* before the deletion.
Check(p) ==
  /\ Shows(proc[p].seen)
  /\ \/ At(p, "check-stop") /\ Goto(p, "stop")
     \/ At(p, "check-stopped") /\ Is("stopped") /\ Goto(p, "check-delete")
     \/ At(p, "check-delete") /\ Is("stopped") /\ Goto(p, "delete")
  /\ Looked(p)
  /\ UNCHANGED <<vm, lock, proof, meddled, refused>>

Stop(p) ==
  /\ At(p, "stop")
  /\ vm # None /\ vm' = [vm EXCEPT !.status = "stopped"]
  /\ Goto(p, "check-stopped")
  /\ UNCHANGED <<lock, proof, meddled, stale, refused>>

StopFails(p) ==
  /\ At(p, "stop")
  /\ vm' = vm \/ (vm # None /\ vm' = [vm EXCEPT !.status = "stopped"])
  /\ Return(p)
  /\ UNCHANGED <<proof, meddled, stale, refused>>

\* limactl delete --force, which may fail with or without its effect.
Delete(p) ==
  /\ At(p, "delete")
  /\ vm' \in {vm, None}
  /\ Return(p)
  /\ UNCHANGED <<proof, meddled, stale, refused>>

-----------------------------------------------------------------------------

Looking == {"discover", "verify-created", "read-marker", "rollback",
            "check-stop", "check-stopped", "check-delete"}

\* An absence, a mismatch, an unknown status or a command that fails ends the
\* operation; nothing is done about the machine.
LookRefuses(p) ==
  /\ proc[p].pc \in Looking
  /\ Return(p) /\ Looked(p)
  /\ UNCHANGED <<vm, proof, meddled, refused>>

\* The process dies: its lock is released, its proofs are gone.
Die(p) ==
  /\ proc[p] # Idle
  /\ Return(p)
  /\ proof' = [proof EXCEPT ![p] = None]
  /\ UNCHANGED <<vm, meddled, stale, refused>>

VmStops ==
  /\ Is("running")
  /\ vm' = [vm EXCEPT !.status = "stopped"]
  /\ UNCHANGED <<lock, proc, proof, meddled, stale, refused>>

\* Somebody else deletes, creates or replaces the instance of this name.
Meddle ==
  /\ vm' \in (Instance \cup {None}) \ {vm}
  /\ meddled' = TRUE
  /\ stale' = Processes
  /\ UNCHANGED <<lock, proc, proof, refused>>

-----------------------------------------------------------------------------

Init ==
  /\ vm \in {None} \cup {i \in Instance : i.digest = "own" => i.marker # "other"}
  /\ lock = None
  /\ proc = [p \in Processes |-> Idle]
  /\ proof = [p \in Processes |-> None]
  /\ meddled = FALSE /\ stale = {} /\ refused = {}

Ensure(p) ==
  \/ DiscoverToEnsure(p) \/ Start(p) \/ StartFails(p) \/ WriteMarker(p)
  \/ WriteMarkerFails(p) \/ VerifyCreated(p) \/ Restart(p) \/ RestartFails(p)
  \/ EnsureRestarted(p) \/ RestartRefuted(p) \/ Rollback(p) \/ RollbackStop(p)

ProveOrExecute(p) ==
  \/ DiscoverToProve(p) \/ ReadMarker(p)
  \/ DiscoverToExecute(p) \/ ReadMarkerToExecute(p) \/ Command(p)

DeleteExact(p) == Check(p) \/ Stop(p) \/ StopFails(p) \/ Delete(p)

Next ==
  \/ \E p \in Processes :
       \/ \E op \in Operations : Begin(p, op)
       \/ BeginDelete(p)
       \/ Ensure(p) \/ ProveOrExecute(p) \/ DeleteExact(p)
       \/ LookRefuses(p) \/ Die(p)
  \/ VmStops \/ Meddle

Spec == Init /\ [][Next]_vars

-----------------------------------------------------------------------------

TypeOK ==
  /\ vm \in Instance \cup {None}
  /\ lock \in Processes \cup {None}
  /\ proc \in [Processes -> Proc]
  /\ proof \in [Processes -> Fingerprints \cup {None}]
  /\ meddled \in BOOLEAN /\ stale \subseteq Processes /\ refused \subseteq Processes

\* What each command that changes a machine requires of it.
Target(p) ==
  CASE proc[p].pc \in {"stop", "delete", "rollback-stop"} -> Shows(proc[p].seen)
    [] proc[p].pc = "command" -> vm # None /\ vm.marker = "own"
    [] proc[p].pc = "write-marker" -> Digest("own")
    [] OTHER -> TRUE

\* A stop, a deletion, a marker or a guest command reaches the machine that was
\* proved or verified: unless somebody replaced it after the very last look, it
\* still is that machine, whatever other processes of the program do and whatever
\* was replaced before (execute_verified promises "atomically before dispatch",
\* test_replacement_between_stop_and_delete_is_never_deleted).
CommandsReachWhatWasVerified ==
  \A p \in Processes : p \notin stale => Target(p)

\* A deletion is never carried by a proof that a later attempt to prove did not
\* confirm.
DeletionsFollowTheLatestProof ==
  \A p \in Processes : proc[p].op = "delete" => p \notin refused

Ends(p, op) == proc[p].op = op /\ proc'[p].pc = "idle"

\* FullLab's machines: what an operation may leave at any moment, also when its
\* process dies there, and what it has achieved when it succeeds.
\* They hold as long as only this program and Lima itself act on the instance.
EnsureKeepsContract(p) ==
  /\ proc[p].op = "ensure" => State' \in OrHalted(EnsureRemains(proc[p].before))
  /\ EnsureRestarted(p) \/ (Ends(p, "ensure") /\ ReadMarker(p)) => State' = "running"
ProofKeepsContract(p) ==
  \A op \in Proofs :
    proc[p].op = op /\ proof'[p] \notin {proof[p], None} => State' \in OrHalted(Provable(op = "break-glass"))
DeleteKeepsContract(p) ==
  proc[p].op = "delete" => State' \in DeleteRemains(proc[p].before)
ProviderKeepsContract ==
  [][~meddled' => \A p \in Processes :
       EnsureKeepsContract(p) /\ ProofKeepsContract(p) /\ DeleteKeepsContract(p)]_vars

=============================================================================
