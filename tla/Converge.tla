------------------------------ MODULE Converge ------------------------------
(***************************************************************************)
(* The inside of FullLabLifecycle.provision (src/cks_simulator/lab.py)     *)
(* between the creation of the machines and the last recorded phase:       *)
(* bundles, packages, control plane, join, health, tools and workstation,  *)
(* each one command on one guest, in the order of the code.  FullLab takes *)
(* a stage in one step; here a stage is its commands, any of which may     *)
(* fail, time out half done, or be cut off by the death of the host.       *)
(*                                                                         *)
(* What a command leaves on a machine is a piece, <<name, role>>: good     *)
(* when it works, and stuck when a replay refuses it because the guest     *)
(* script verifies what exists instead of making it anew (kubeadm init and *)
(* join, a signed certificate).  Guest scripts are taken by that contract  *)
(* (infra/provision); the bootstrap tokens they handle are modelled.       *)
(*                                                                         *)
(* A guest command that failed or was cut off is over: it has had its      *)
(* effect or never will.                                                   *)
(***************************************************************************)
EXTENDS Naturals, Sequences

CONSTANTS
  Roles,           \* the machines of a lab
  ControlPlane,
  Program,         \* the commands of provision and the phases it records, in order
  Kept,            \* the pieces that replays verify instead of making them anew
  Facts,           \* what the machines can be observed to be
  None,
  Fragile,         \* the pieces that stop working on their own
  MaxBreaks        \* how often a piece or a machine fails on its own

VARIABLES
  phase, observations,  \* the lab's record
  up,              \* the machines that run
  good, stuck,     \* pieces
  tokens,          \* the live bootstrap tokens: of kubeadm init, of this run's join, of earlier runs
  job,             \* the run: control point, next command, facts, what follows the revocation
  passed,          \* history: the phases this run, or the last one, verified
  spoiled,         \* history: the pieces that failed on their own since it began
  excused,         \* history: the host could not know its token or could not revoke it
  breaks

lab == <<phase, observations>>
guests == <<up, good, stuck, tokens>>
history == <<passed, spoiled, excused>>
vars == <<lab, guests, job, history, breaks>>

-----------------------------------------------------------------------------
(* The program                                                             *)

Commands ==
  [op : {"make", "check", "bootstrap", "generate", "join", "revoke"}, role : Roles,
   makes : SUBSET (STRING \X Roles), needs : SUBSET (STRING \X Roles)]

RecordedPhases == {"vms-created", "os-ready", "cluster-ready", "addons-ready", "candidate-ready"}

Records == {i \in DOMAIN Program : Program[i].op = "record"}

Position(op) == CHOOSE i \in DOMAIN Program : Program[i].op = op

AtPlane == {<<"bundle", ControlPlane>>, <<"control", ControlPlane>>}

Rank(p) == CASE p = "declared" -> 0
             [] p = "vms-created" -> 1
             [] p = "os-ready" -> 2
             [] p = "cluster-ready" -> 3
             [] p = "addons-ready" -> 4
             [] OTHER -> 5

\* The pieces that the commands before a position have made or checked.
Covered(n) == UNION {Program[i].makes \cup Program[i].needs : i \in (1..n) \ Records}

Pieces == Covered(Len(Program))

\* What each recorded phase stands for.
Certified == [i \in Records |-> Covered(i)]

\* An absent field is no fact, and no profile either.
ASSUME NoneAssumption == None \notin Facts \cup {"standard"}

\* The join is opened by its token and closed by its revocation, the phases are
\* recorded in their order, and nothing a recorded phase stands for is made
\* again after it.
ASSUME ProgramAssumption ==
  /\ Program \in Seq(Commands \cup [op : {"record"}, phase : RecordedPhases])
  /\ \A op \in {"bootstrap", "generate", "revoke"} :
       \E i \in DOMAIN Program : \A j \in DOMAIN Program : Program[j].op = op <=> j = i
  /\ Position("bootstrap") < Position("generate") /\ Position("generate") < Position("revoke")
  /\ \A i \in DOMAIN Program :
       Program[i].op = "join" <=> i > Position("generate") /\ i < Position("revoke")
  /\ \A i \in {Position("generate"), Position("revoke")} :
       Program[i].makes = {} /\ Program[i].needs = AtPlane
  /\ {Program[i].phase : i \in Records} = RecordedPhases
  /\ \A i, j \in Records : i < j => Rank(Program[i].phase) < Rank(Program[j].phase)
  /\ Len(Program) \in Records
  /\ \A i \in Records : Program[i].phase = "cluster-ready" => Position("revoke") < i
  /\ \A i \in Records : \A j \in DOMAIN Program \ Records :
       j > i => Program[j].makes \cap Covered(i) = {}

-----------------------------------------------------------------------------
(* The run                                                                 *)

Idle == [pc |-> "idle", at |-> 1, facts |-> None, after |-> "next"]

Current == Program[job.at]
Doing(op) == job.pc = "run" /\ Current.op = op
Next1 == [job EXCEPT !.at = @ + 1]
Give(point) == job' = [job EXCEPT !.pc = point]

\* The earlier steps of provision: the machines are created or restarted, all run.
Begin ==
  /\ job.pc = "idle"
  /\ phase \notin {"cleanup-pending", "destroyed"}
  /\ up' = Roles
  /\ job' = [Idle EXCEPT !.pc = "observe"]
  /\ tokens' = {IF t = "join" THEN "older" ELSE t : t \in tokens}
  /\ passed' = {} /\ spoiled' = {} /\ excused' = FALSE
  /\ UNCHANGED <<lab, good, stuck, breaks>>

\* Facts other than the recorded ones are drift and fail the run.
Observe(f) ==
  /\ job.pc = "observe"
  /\ up = Roles
  /\ observations \in {None, f}
  /\ observations' = f
  /\ job' = [job EXCEPT !.pc = "run", !.facts = f]
  /\ UNCHANGED <<phase, guests, history, breaks>>

ObserveFails ==
  /\ job.pc = "observe"
  /\ Give("degrade")
  /\ UNCHANGED <<lab, guests, history, breaks>>

CanDo(c) == c.role \in up /\ c.needs \subseteq good

\* Bug: what the recorded phase stands for is not verified again.
RunUnlessRecorded ==
  /\ Doing("make") \/ Doing("check")
  /\ \/ CanDo(Current) /\ Current.makes \cap stuck = {} /\ good' = good \cup Current.makes
     \/ phase = "candidate-ready" /\ UNCHANGED good
  /\ job' = Next1
  /\ UNCHANGED <<lab, up, stuck, tokens, history, breaks>>

\* Bug: what exists is overwritten where it should be verified.
RunAnew ==
  /\ Doing("make") \/ Doing("check")
  /\ CanDo(Current)
  /\ good' = good \cup Current.makes
  /\ job' = Next1
  /\ UNCHANGED <<lab, up, stuck, tokens, history, breaks>>

Run ==
  /\ Doing("make") \/ Doing("check")
  /\ CanDo(Current)
  /\ Current.makes \cap stuck = {}
  /\ good' = good \cup Current.makes
  /\ job' = Next1
  /\ UNCHANGED <<lab, up, stuck, tokens, history, breaks>>

\* What a command that did not finish may have left of its pieces: as they
\* were, done, or spoiled.  Spoiling one that worked counts as a break.
HalfDone(c) ==
  \/ UNCHANGED <<good, stuck, breaks>>
  \/ /\ c.role \in up
     /\ good' = good \cup (c.makes \ stuck)
     /\ UNCHANGED <<stuck, breaks>>
  \/ /\ c.role \in up
     /\ IF c.makes \cap good = {} THEN UNCHANGED breaks ELSE breaks < MaxBreaks /\ breaks' = breaks + 1
     /\ good' = good \ c.makes
     /\ stuck' = stuck \cup (c.makes \cap Kept)

RunFails ==
  /\ Doing("make") \/ Doing("check")
  /\ HalfDone(Current)
  /\ Give("degrade")
  /\ UNCHANGED <<lab, up, tokens, history>>

-----------------------------------------------------------------------------
(* The control plane and its bootstrap tokens                              *)

\* Bug: a replay keeps the tokens it finds.
BootstrapKeepingTokens ==
  /\ Doing("bootstrap")
  /\ CanDo(Current) /\ Current.makes \cap stuck = {}
  /\ good' = good \cup Current.makes
  /\ job' = Next1
  /\ UNCHANGED <<lab, up, stuck, tokens, history, breaks>>

\* bootstrap.sh: init or verify, then delete every bootstrap token.
Bootstrap ==
  /\ Doing("bootstrap")
  /\ CanDo(Current)
  /\ Current.makes \cap stuck = {}
  /\ good' = good \cup Current.makes
  /\ tokens' = {}
  /\ job' = Next1
  /\ UNCHANGED <<lab, up, stuck, history, breaks>>

BootstrapFails ==
  /\ Doing("bootstrap")
  /\ HalfDone(Current)
  /\ tokens' \in SUBSET (tokens \cup (IF Current.makes \subseteq good THEN {} ELSE {"init"}))
  /\ ControlPlane \notin up => tokens' = tokens
  /\ Give("degrade")
  /\ UNCHANGED <<lab, up, history>>

\* Join material that arrives but does not parse: the token is revoked when its
\* line at least is well formed.
GenerateJoinMaterial ==
  /\ Doing("generate")
  /\ CanDo(Current)
  /\ tokens' = tokens \cup {"join"}
  /\ \/ job' = Next1 /\ UNCHANGED excused
     \/ job' = [job EXCEPT !.pc = "revoke", !.after = "degrade"] /\ UNCHANGED excused
     \/ Give("degrade") /\ excused' = TRUE
  /\ UNCHANGED <<lab, up, good, stuck, passed, spoiled, breaks>>

GenerateFails ==
  /\ Doing("generate")
  /\ tokens' \in {tokens} \cup {tokens \cup {"join"} : r \in up \cap {ControlPlane}}
  /\ excused' = TRUE
  /\ Give("degrade")
  /\ UNCHANGED <<lab, up, good, stuck, passed, spoiled, breaks>>

\* A member is verified; a machine that is none joins with the token.
Join ==
  /\ Doing("join")
  /\ CanDo(Current)
  /\ Current.makes \cap stuck = {}
  /\ "join" \in tokens \/ Current.makes \subseteq good
  /\ good' = good \cup Current.makes
  /\ job' = Next1
  /\ UNCHANGED <<lab, up, stuck, tokens, history, breaks>>

\* Bug: a failed join ends the run at once.
JoinFailsOutright ==
  /\ Doing("join")
  /\ HalfDone(Current)
  /\ Give("degrade")
  /\ UNCHANGED <<lab, up, tokens, history>>

\* The finally clause: a failed join is surfaced after the revocation.
JoinFails ==
  /\ Doing("join")
  /\ HalfDone(Current)
  /\ job' = [job EXCEPT !.pc = "revoke", !.after = "degrade"]
  /\ UNCHANGED <<lab, up, tokens, history>>

\* Ctrl-C at a join also runs the finally clause, but degrades nothing.
Interrupt ==
  /\ Doing("join")
  /\ HalfDone(Current)
  /\ job' = [job EXCEPT !.pc = "revoke", !.after = "return"]
  /\ UNCHANGED <<lab, up, tokens, history>>

Revoking == Doing("revoke") \/ job.pc = "revoke"

Afterwards ==
  CASE job.after = "next" -> job' = Next1
    [] job.after = "degrade" -> Give("degrade")
    [] job.after = "return" -> job' = Idle

\* revoke-token.sh refuses a token that has expired.
RevokeToken ==
  /\ Revoking
  /\ ControlPlane \in up /\ AtPlane \subseteq good
  /\ "join" \in tokens
  /\ tokens' = tokens \ {"join"}
  /\ Afterwards
  /\ UNCHANGED <<lab, up, good, stuck, history, breaks>>

RevokeFails ==
  /\ Revoking
  /\ tokens' \in {tokens} \cup {tokens \ {"join"} : r \in up \cap {ControlPlane}}
  /\ excused' = TRUE
  /\ IF job.after = "return" THEN job' = Idle ELSE Give("degrade")
  /\ UNCHANGED <<lab, up, good, stuck, passed, spoiled, breaks>>

-----------------------------------------------------------------------------
(* The record                                                              *)

\* Bug: the phase is overwritten without comparing ranks.
RecordPhaseBlindly ==
  /\ Doing("record")
  /\ phase' = Current.phase
  /\ passed' = passed \cup {Current.phase}
  /\ IF job.at = Len(Program) THEN job' = Idle ELSE job' = Next1
  /\ UNCHANGED <<observations, guests, spoiled, excused, breaks>>

\* _record_verified_phase; the last one ends the run.
RecordPhase ==
  /\ Doing("record")
  /\ phase' = IF phase = "degraded" \/ Rank(phase) < Rank(Current.phase) THEN Current.phase ELSE phase
  /\ passed' = passed \cup {Current.phase}
  /\ IF job.at = Len(Program) THEN job' = Idle ELSE job' = Next1
  /\ UNCHANGED <<observations, guests, spoiled, excused, breaks>>

MarkDegraded ==
  /\ job.pc = "degrade"
  /\ phase' = "degraded"
  /\ job' = Idle
  /\ UNCHANGED <<observations, guests, history, breaks>>

-----------------------------------------------------------------------------
(* The environment                                                         *)

\* The tokens a command that is cut off may leave.
Leaves(c) ==
  CASE c.op = "bootstrap" /\ ~(c.makes \subseteq good) -> {"init"}
    [] c.op = "generate" -> {"join"}
    [] OTHER -> {}

\* The host dies, or Ctrl-C ends a command outside the join.
Crash ==
  /\ job.pc # "idle"
  /\ IF job.pc = "run" /\ Current.op \in {"make", "check", "bootstrap", "join"}
       THEN HalfDone(Current) ELSE UNCHANGED <<good, stuck, breaks>>
  /\ tokens' = tokens \/ (job.pc = "run" /\ tokens' = tokens \cup Leaves(Current))
  /\ job' = Idle
  /\ excused' = TRUE
  /\ UNCHANGED <<lab, up, passed, spoiled>>

\* The token controller removes a token when its 15 minutes are over.
TokenExpires(t) ==
  /\ t \in tokens
  /\ tokens' = tokens \ {t}
  /\ UNCHANGED <<lab, up, good, stuck, job, history, breaks>>

Breaks(p) ==
  /\ breaks < MaxBreaks
  /\ p \in good \cap Fragile
  /\ good' = good \ {p}
  /\ stuck' \in {stuck, stuck \cup ({p} \cap Kept)}
  /\ spoiled' = spoiled \cup {p}
  /\ breaks' = breaks + 1
  /\ UNCHANGED <<lab, up, tokens, job, passed, excused>>

VmStops(r) ==
  /\ breaks < MaxBreaks
  /\ r \in up
  /\ up' = up \ {r}
  /\ breaks' = breaks + 1
  /\ UNCHANGED <<lab, good, stuck, tokens, job, history>>

-----------------------------------------------------------------------------

Phases == {"declared", "vms-created", "os-ready", "cluster-ready", "addons-ready",
           "candidate-ready", "degraded"}

Init ==
  /\ phase = "declared" /\ observations = None
  /\ up = {} /\ good = {} /\ stuck = {} /\ tokens = {}
  /\ job = Idle
  /\ passed = {} /\ spoiled = {} /\ excused = FALSE
  /\ breaks = 0

Next ==
  \/ Begin \/ ObserveFails \/ Run \/ RunFails
  \/ \E f \in Facts : Observe(f)
  \/ Bootstrap \/ BootstrapFails
  \/ GenerateJoinMaterial \/ GenerateFails
  \/ Join \/ JoinFails \/ Interrupt
  \/ RevokeToken \/ RevokeFails
  \/ RecordPhase \/ MarkDegraded
  \/ Crash
  \/ \E t \in {"init", "join", "older"} : TokenExpires(t)
  \/ \E p \in Pieces : Breaks(p)
  \/ \E r \in Roles : VmStops(r)

Spec == Init /\ [][Next]_vars

-----------------------------------------------------------------------------

TypeOK ==
  /\ phase \in Phases /\ observations \in Facts \cup {None}
  /\ up \subseteq Roles /\ good \subseteq Pieces /\ stuck \subseteq Kept
  /\ good \cap stuck = {}
  /\ tokens \subseteq {"init", "join", "older"}
  /\ job \in [pc : {"idle", "observe", "run", "revoke", "degrade"}, at : 1..Len(Program),
              facts : Facts \cup {None}, after : {"next", "degrade", "return"}]
  /\ passed \subseteq Phases /\ spoiled \subseteq Pieces /\ excused \in BOOLEAN

\* src/README.md:228 "temporary join material is revoked".  Once a run has
\* verified the joined cluster no bootstrap token of any run is live: not its
\* own, not the one of kubeadm init, not one that an earlier run left when it
\* failed, was interrupted or died.
NoTokenOutlivesTheJoin == "cluster-ready" \in passed => tokens = {}

\* A run that ends after a failed or interrupted join has revoked its token,
\* unless it never learnt it or the revocation itself failed.
FailedJoinsRevoke ==
  job.pc \in {"degrade", "idle"} /\ "join" \in tokens => excused

\* A phase a run verifies certifies everything up to it, also when the record
\* already showed that phase: what was broken before the run began is repaired
\* or fails the run.
PhasesCertifyTheMachines ==
  \A i \in Records :
    Program[i].phase \in passed => Certified[i] \subseteq good \cup spoiled

-----------------------------------------------------------------------------
(* FullLab takes each stage in one step.                                   *)

StageOf(n) ==
  Program[CHOOSE i \in Records : i >= n /\ \A j \in Records : j >= n => i <= j].phase

FullJob ==
  [pc |-> CASE job.pc = "observe" -> "ensure"
            [] job.pc \in {"run", "revoke"} -> "verify"
            [] OTHER -> job.pc,
   profile |-> None, spec |-> None, seen |-> job.facts, stage |-> StageOf(job.at),
   scenario |-> None, pending |-> {}, failed |-> FALSE]

Full == INSTANCE FullLab WITH
  Profiles <- {"standard"}, Specs <- {}, Healths <- {}, Scenarios <- {}, Attempts <- {},
  Standard <- "standard", EnsureOrder <- [r \in Roles |-> 0], DeleteOrder <- [r \in Roles |-> 0],
  MutationRoles <- <<>>, CaptureRoles <- <<>>, HealthOf <- <<>>,
  profile <- None, spec <- None, inventory <- Roles, health <- None, active <- None,
  vms <- [r \in Roles |-> IF r \in up THEN "running" ELSE "stopped"],
  mutated <- {}, captured <- {}, job <- FullJob

\* Every step of a run is a step that FullLab allows provision, or none that it
\* sees: no command sequence records a phase that FullLab would not.
StagesImplementFullLab ==
  [][job.pc # "idle" =>
       \/ Full!Provision \/ Full!Crash \/ \E r \in Roles : Full!VmStops(r)
       \/ UNCHANGED Full!vars]_vars

=============================================================================
