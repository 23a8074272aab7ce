------------------------------ MODULE QuickTier ------------------------------
(***************************************************************************)
(* The quick tier: provision, delete, reset and e2e of one Kind cluster    *)
(* (src/cks_simulator/cli.py).  No lock serialises the commands: several   *)
(* of them work at once on the cluster and on the files kept for its name, *)
(* and each may be killed at every step.  Only e2e takes a claim, a file   *)
(* it creates exclusively.                                                 *)
(*                                                                         *)
(* Kind and Docker are external.  A query they do not answer is None; a    *)
(* cluster carries the number of the creation it comes from, the command   *)
(* that created it and the ownership marker written into its node.         *)
(***************************************************************************)
EXTENDS Naturals, Sequences

CONSTANTS
  Procs,
  None,
  MaxCommands,   \* bounds the commands that are run
  MaxForeign     \* bounds the clusters created by hand

VARIABLES
  cluster,
  metadata, kubeconfig, claim,   \* the files of the cluster's name
  job,                           \* per process, its command
  commands, foreign, fresh,
  clean, robbed, killed          \* history: runs whose cleanup passed; whose claim another removed; that died

ASSUME QuickAssumption ==
  /\ None \notin Nat /\ None \notin BOOLEAN
  /\ MaxCommands \in Nat /\ MaxForeign \in Nat

files == <<metadata, kubeconfig, claim>>
counters == <<commands, foreign, fresh>>
history == <<clean, robbed, killed>>
vars == <<cluster, files, job, counters, history>>

-----------------------------------------------------------------------------

Idle == [op |-> "none", pc |-> "idle", run |-> 0, id |-> 0, container |-> 0, force |-> FALSE,
         keep |-> FALSE, provisioned |-> FALSE, deleted |-> FALSE, remove |-> <<>>, back |-> "idle"]

Goto(p, pc) == job' = [job EXCEPT ![p].pc = pc]
End(p) == job' = [job EXCEPT ![p] = Idle]
Runs(run) == \E p \in Procs : job[p].run = run

\* state_is_owned: the identity on record is the one marked in the node.
StateIsOwned ==
  /\ metadata # None /\ metadata.status \in {"ready", "nodes-not-ready"}
  /\ cluster # None /\ cluster.marker # None
  /\ cluster.marker = [id |-> metadata.id, container |-> metadata.container]
  /\ cluster.marker.container = cluster.id

\* node_statuses: the nodes are asked with the recorded kubeconfig.
CanBeHealthy == cluster # None /\ kubeconfig = cluster.id

\* What a look at ownership and cluster_presence may answer.
Ownership == {StateIsOwned, FALSE}
Presence == {cluster # None, None}

\* What the command does after its provisioning, or its deletion, has returned.
ProvisionReturns(p, ok) ==
  IF job[p].op # "e2e" THEN End(p)
  ELSE job' = [job EXCEPT ![p].pc = IF ok /\ ~job[p].provisioned THEN "provision" ELSE "finally",
                          ![p].provisioned = @ \/ ok]

DeleteReturns(p, ok) ==
  CASE job[p].op = "e2e" -> job' = [job EXCEPT ![p].pc = "after", ![p].deleted = ok]
    [] job[p].op = "reset" /\ ok -> Goto(p, "provision")
    [] OTHER -> End(p)

-----------------------------------------------------------------------------

Start(p, op, force, keep) ==
  /\ job[p] = Idle /\ commands < MaxCommands
  /\ commands' = commands + 1
  /\ job' = [job EXCEPT ![p] = [Idle EXCEPT !.op = op, !.run = commands', !.force = force, !.keep = keep,
               !.pc = CASE op = "provision" -> "provision" [] op = "e2e" -> "presence" [] OTHER -> "delete"]]
  /\ UNCHANGED <<cluster, files, foreign, fresh, history>>

-----------------------------------------------------------------------------
(* _provision_quick                                                        *)

\* An existing cluster is reused when it is owned and healthy; an unanswered
\* query counts as absence.
ProvisionLooks(p) ==
  /\ job[p].pc = "provision"
  /\ \/ \E present \in Presence : present # TRUE /\ Goto(p, "declare")
     \/ /\ cluster # None
        /\ \E ok \in {StateIsOwned /\ CanBeHealthy, FALSE} : ProvisionReturns(p, ok)
  /\ UNCHANGED <<cluster, files, counters, history>>

Declare(p) ==
  /\ job[p].pc = "declare"
  /\ fresh' = fresh + 1
  /\ metadata' = [id |-> fresh, container |-> None, status |-> "creating"]
  /\ job' = [job EXCEPT ![p].id = fresh, ![p].pc = "create"]
  /\ UNCHANGED <<cluster, kubeconfig, claim, commands, foreign, history>>

NewCluster(p) == [id |-> job[p].id, run |-> job[p].run, marker |-> None]

Create(p) ==
  /\ job[p].pc = "create"
  /\ cluster = None
  /\ cluster' = NewCluster(p)
  /\ Goto(p, "inspect")
  /\ UNCHANGED <<files, counters, history>>

\* Kind fails, on an existing cluster always; what it leaves it usually removes.
CreateFails(p) ==
  /\ job[p].pc = "create"
  /\ UNCHANGED cluster \/ (cluster = None /\ cluster' = NewCluster(p))
  /\ job' = [job EXCEPT ![p].pc = "remove", ![p].remove = <<"metadata">>, ![p].back = "provision"]
  /\ UNCHANGED <<files, counters, history>>

Inspect(p) ==
  /\ job[p].pc = "inspect"
  /\ cluster # None
  /\ job' = [job EXCEPT ![p].container = cluster.id, ![p].pc = "mark"]
  /\ UNCHANGED <<cluster, files, counters, history>>

Identity(p) == [id |-> job[p].id, container |-> job[p].container]

\* _write_quick_marker: into the inspected container, once.
Mark(p) ==
  /\ job[p].pc = "mark"
  /\ cluster # None /\ cluster.id = job[p].container /\ cluster.marker = None
  /\ cluster' = [cluster EXCEPT !.marker = Identity(p)]
  /\ Goto(p, "adopt")
  /\ UNCHANGED <<files, counters, history>>

\* Inspection, marker or its reading back fails, or the nodes do not get ready.
ProvisionFails(p) ==
  /\ job[p].pc \in {"inspect", "mark", "wait"}
  /\ \/ UNCHANGED cluster
     \/ /\ job[p].pc = "mark"
        /\ cluster # None /\ cluster.id = job[p].container /\ cluster.marker = None
        /\ cluster' = [cluster EXCEPT !.marker = Identity(p)]
  /\ ProvisionReturns(p, FALSE)
  /\ UNCHANGED <<files, counters, history>>

AdoptKubeconfig(p) ==
  /\ job[p].pc = "adopt"
  /\ kubeconfig' = job[p].id
  /\ Goto(p, "record")
  /\ UNCHANGED <<cluster, metadata, claim, counters, history>>

Recorded(p, status) == [id |-> job[p].id, container |-> job[p].container, status |-> status]

RecordIdentity(p) ==
  /\ job[p].pc = "record"
  /\ metadata' = Recorded(p, "nodes-not-ready")
  /\ Goto(p, "wait")
  /\ UNCHANGED <<cluster, kubeconfig, claim, counters, history>>

WaitReady(p) ==
  /\ job[p].pc = "wait"
  /\ CanBeHealthy
  /\ Goto(p, "ready")
  /\ UNCHANGED <<cluster, files, counters, history>>

\* Bug: the status is changed in the file as it is by now.
RecordReadyInPlace(p) ==
  /\ job[p].pc = "ready"
  /\ metadata' = IF metadata = None THEN None ELSE [metadata EXCEPT !.status = "ready"]
  /\ ProvisionReturns(p, TRUE)
  /\ UNCHANGED <<cluster, kubeconfig, claim, counters, history>>

RecordReady(p) ==
  /\ job[p].pc = "ready"
  /\ metadata' = Recorded(p, "ready")
  /\ ProvisionReturns(p, TRUE)
  /\ UNCHANGED <<cluster, kubeconfig, claim, counters, history>>

-----------------------------------------------------------------------------
(* _delete_quick                                                           *)

\* Only a cluster that is seen, and not owned, is refused.
DeleteLooks(p) ==
  /\ job[p].pc = "delete"
  /\ \E present \in Presence, owned \in Ownership :
       IF present = TRUE /\ ~job[p].force /\ ~owned
       THEN DeleteReturns(p, FALSE)
       ELSE Goto(p, "kind-delete")
  /\ UNCHANGED <<cluster, files, counters, history>>

\* Kind deletes whatever has the name, and succeeds when nothing has.
KindDelete(p) ==
  /\ job[p].pc = "kind-delete"
  /\ cluster' = None
  /\ job' = [job EXCEPT ![p].pc = "remove", ![p].remove = <<"kubeconfig", "metadata", "claim">>, ![p].back = "delete"]
  /\ UNCHANGED <<files, counters, history>>

KindDeleteFails(p) ==
  /\ job[p].pc = "kind-delete"
  /\ DeleteReturns(p, FALSE)
  /\ UNCHANGED <<cluster, files, counters, history>>

\* One file after the other; then the command goes on.
RemoveStateFile(p) ==
  /\ job[p].pc = "remove"
  /\ LET file == Head(job[p].remove)
         Gone(f, content) == IF file = f THEN None ELSE content IN
       /\ metadata' = Gone("metadata", metadata)
       /\ kubeconfig' = Gone("kubeconfig", kubeconfig)
       /\ claim' = Gone("claim", claim)
       /\ robbed' = robbed \cup (IF file = "claim" /\ claim # job[p].run THEN {claim} \ {None} ELSE {})
  /\ CASE Len(job[p].remove) > 1 -> job' = [job EXCEPT ![p].remove = Tail(@)]
       [] OTHER -> CASE job[p].back = "provision" -> ProvisionReturns(p, FALSE)
                     [] job[p].back = "delete" -> DeleteReturns(p, TRUE)
                     [] OTHER -> End(p)
  /\ UNCHANGED <<cluster, counters, clean, killed>>

-----------------------------------------------------------------------------
(* e2e                                                                     *)

\* An existing cluster or its metadata refuses the run, and so does silence.
E2ELooks(p) ==
  /\ job[p].pc = "presence"
  /\ \E present \in Presence : IF present = FALSE /\ metadata = None THEN Goto(p, "claim") ELSE End(p)
  /\ UNCHANGED <<cluster, files, counters, history>>

\* Bug: the claim file is opened without O_EXCL.
AcquireClaimOver(p) ==
  /\ job[p].pc = "claim"
  /\ claim' = job[p].run /\ Goto(p, "provision")
  /\ UNCHANGED <<cluster, metadata, kubeconfig, counters, history>>

AcquireClaim(p) ==
  /\ job[p].pc = "claim"
  /\ IF claim = None THEN claim' = job[p].run /\ Goto(p, "provision") ELSE UNCHANGED claim /\ End(p)
  /\ UNCHANGED <<cluster, metadata, kubeconfig, counters, history>>

\* An exception or Ctrl-C leaves the provisioning or the fixtures.
Interrupted(p) ==
  /\ job[p].op = "e2e"
  /\ \/ job[p].pc \in {"provision", "declare", "create", "inspect", "mark", "adopt", "record", "wait", "ready"}
     \/ job[p].pc = "remove" /\ job[p].back = "provision"
  /\ UNCHANGED cluster \/ (job[p].pc = "create" /\ cluster = None /\ cluster' = NewCluster(p))
  /\ Goto(p, "finally")
  /\ UNCHANGED <<files, counters, history>>

Kept(p) == job[p].keep /\ job[p].provisioned
Owns(p) == claim = job[p].run

\* Bug: a creation that failed left nothing to clean.
FinallyIfProvisioned(p) ==
  /\ job[p].pc = "finally"
  /\ Goto(p, IF ~Kept(p) /\ Owns(p) /\ job[p].provisioned THEN "cleanup" ELSE "release")
  /\ clean' = IF ~Kept(p) /\ ~(Owns(p) /\ job[p].provisioned) THEN clean \cup {job[p].run} ELSE clean
  /\ UNCHANGED <<cluster, files, counters, robbed, killed>>

\* A run cleans while the claim is its own; otherwise it created nothing.
Finally(p) ==
  /\ job[p].pc = "finally"
  /\ Goto(p, IF ~Kept(p) /\ Owns(p) THEN "cleanup" ELSE "release")
  /\ clean' = IF ~Kept(p) /\ ~Owns(p) THEN clean \cup {job[p].run} ELSE clean
  /\ UNCHANGED <<cluster, files, counters, robbed, killed>>

\* The deletion is forced when the state is not seen to be owned.
Cleanup(p) ==
  /\ job[p].pc = "cleanup"
  /\ \E owned \in Ownership, present \in Presence :
       job' = [job EXCEPT ![p].pc = IF present = TRUE THEN "delete" ELSE "after",
                          ![p].force = ~owned,
                          ![p].deleted = present = FALSE]
  /\ UNCHANGED <<cluster, files, counters, history>>

After(p) ==
  /\ job[p].pc = "after"
  /\ \E present \in Presence :
       clean' = IF job[p].deleted /\ present = FALSE THEN clean \cup {job[p].run} ELSE clean
  /\ Goto(p, "release")
  /\ UNCHANGED <<cluster, files, counters, robbed, killed>>

\* The claim is read, and removed in a step of its own.
Release(p) ==
  /\ job[p].pc = "release"
  /\ IF Owns(p)
     THEN job' = [job EXCEPT ![p].pc = "remove", ![p].remove = <<"claim">>, ![p].back = "idle"]
     ELSE End(p)
  /\ UNCHANGED <<cluster, files, counters, history>>

-----------------------------------------------------------------------------
(* The environment                                                         *)

\* The process is killed; Kind may have created the cluster.  An error or Ctrl-C
\* that leaves the writing of the claim (cli.py:643) or the final cleanup ends a
\* run with the same things left behind, and is such a step too.
Crash(p) ==
  /\ job[p] # Idle
  /\ UNCHANGED cluster \/ (job[p].pc = "create" /\ cluster = None /\ cluster' = NewCluster(p))
  /\ End(p)
  /\ killed' = killed \cup {job[p].run}
  /\ UNCHANGED <<files, counters, clean, robbed>>

\* Somebody creates a cluster of that name by hand.
CreateForeign ==
  /\ foreign < MaxForeign
  /\ cluster = None
  /\ cluster' = [id |-> fresh, run |-> 0, marker |-> None]
  /\ foreign' = foreign + 1 /\ fresh' = fresh + 1
  /\ UNCHANGED <<files, job, commands, history>>

-----------------------------------------------------------------------------

Init ==
  /\ cluster = None
  /\ metadata = None /\ kubeconfig = None /\ claim = None
  /\ job = [p \in Procs |-> Idle]
  /\ commands = 0 /\ foreign = 0 /\ fresh = 1
  /\ clean = {} /\ robbed = {} /\ killed = {}

Provision(p) ==
  \/ ProvisionLooks(p) \/ Declare(p) \/ Create(p) \/ CreateFails(p) \/ Inspect(p) \/ Mark(p)
  \/ ProvisionFails(p) \/ AdoptKubeconfig(p) \/ RecordIdentity(p) \/ WaitReady(p) \/ RecordReady(p)

Delete(p) == DeleteLooks(p) \/ KindDelete(p) \/ KindDeleteFails(p) \/ RemoveStateFile(p)

E2E(p) ==
  \/ E2ELooks(p) \/ AcquireClaim(p) \/ Interrupted(p) \/ Finally(p)
  \/ Cleanup(p) \/ After(p) \/ Release(p)

Next ==
  \/ \E p \in Procs :
       \/ Start(p, "provision", FALSE, FALSE)
       \/ \E op \in {"delete", "reset"}, force \in BOOLEAN : Start(p, op, force, FALSE)
       \/ \E keep \in BOOLEAN : Start(p, "e2e", FALSE, keep)
       \/ Provision(p) \/ Delete(p) \/ E2E(p) \/ Crash(p)
  \/ CreateForeign

Spec == Init /\ [][Next]_vars

-----------------------------------------------------------------------------

RunIds == 1..MaxCommands
Ids == 1..(fresh - 1)

TypeOK ==
  /\ cluster = None \/ (cluster.id \in Ids /\ cluster.run \in RunIds \cup {0})
  /\ metadata = None \/ (metadata.id \in Ids /\ (metadata.container = None <=> metadata.status = "creating"))
  /\ kubeconfig \in Ids \cup {None} /\ claim \in RunIds \cup {None}
  /\ \A p \in Procs : job[p].run \in RunIds \cup {0} /\ (job[p] = Idle <=> job[p].pc = "idle")
  /\ clean \cup robbed \cup killed \subseteq RunIds

\* Two release gates run on one name.  However their looks, claims, failing
\* creations and cleanups interleave, neither deletes the cluster of the other
\* while that is running, unless a delete or reset took the claim of one away.
E2ERunsAreIsolated ==
  [][\A p \in Procs :
       /\ job[p].op = "e2e" /\ cluster # None /\ cluster' = None
       /\ KindDelete(p)
       => \/ cluster.run = job[p].run
          \/ ~\E q \in Procs \ {p} : job[q].op = "e2e" /\ job[q].run = cluster.run
          \/ {job[p].run, cluster.run} \cap robbed # {}]_vars

\* A release gate whose cleanup passed has left no cluster of its own behind,
\* however far its provisioning came, and a claim that is still there belongs
\* to a run that goes on or ended in a Crash.  Claims taken by a delete are exempt.
CleanedRunsLeaveNothing ==
  /\ cluster # None => cluster.run \notin clean \ robbed
  /\ claim # None => Runs(claim) \/ claim \in killed

=============================================================================
