----------------------------- MODULE LabProgram -----------------------------
(* The commands of FullLabLifecycle.provision (src/cks_simulator/lab.py), the *)
(* Program that Converge runs: for each its guest, the pieces it makes and    *)
(* those it finds missing.                                                    *)
EXTENDS Converge, SequencesExt

CONSTANTS
  Machines,        \* the roles in the order of MACHINE_ROLES
  Candidate

-----------------------------------------------------------------------------
(* Commands                                                                *)

LabRoles == Range(Machines)
Cluster == SelectSeq(Machines, LAMBDA r : r # Candidate)
Workers == SelectSeq(Cluster, LAMBDA r : r # ControlPlane)

Over(roles, Command(_)) == [i \in DOMAIN roles |-> Command(roles[i])]

Command(op, r, makes, needs) == [op |-> op, role |-> r, makes |-> makes, needs |-> needs]
Make(name, r, needs) == Command("make", r, {<<name, r>>}, needs)
Check(r, needs) == Command("check", r, {}, needs)
Script(name, r, needs) == Make(name, r, needs \cup {<<"bundle", r>>})
Record(p) == <<[op |-> "record", phase |-> p]>>

OnAll(name, roles) == {name} \X Range(roles)
Nodes == {<<"control", ControlPlane>>} \cup OnAll("member", Workers)

VmsCreated ==
  Over(Machines, LAMBDA r : Make("bundle", r, {}))
    \o <<Make("aliases", Candidate, {})>>
    \o Over(Machines, LAMBDA r : Make("hosts", r, {}))

OsReady ==
  Over(Machines, LAMBDA r : Script("os", r, {}))
    \o Over(Machines, LAMBDA r : Check(r, {<<"bundle", r>>, <<"os", r>>}))

ClusterReady ==
  <<Command("bootstrap", ControlPlane, {<<"control", ControlPlane>>},
            {<<"bundle", ControlPlane>>, <<"os", ControlPlane>>, <<"hosts", ControlPlane>>}),
    Command("generate", ControlPlane, {}, AtPlane)>>
    \o Over(Workers, LAMBDA r : Command("join", r, {<<"member", r>>},
              {<<"bundle", r>>, <<"os", r>>, <<"hosts", r>>, <<"control", ControlPlane>>}))
    \o <<Command("revoke", ControlPlane, {}, AtPlane)>>

Health == <<Check(ControlPlane, AtPlane \cup Nodes)>>

Tools ==
  Over(Machines, LAMBDA r : Make("metadata", r, {}))
    \o Health
    \o Over(Cluster, LAMBDA r : Script("tools", r, {<<"os", r>>}))
    \o <<Script("grader", ControlPlane, {<<"control", ControlPlane>>})>>
    \o Over(Cluster, LAMBDA r : Check(r, {<<"bundle", r>>, <<"tools", r>>}))
    \o <<Script("addons", ControlPlane, Nodes),
         Check(ControlPlane, AtPlane \cup Nodes \cup OnAll("tools", Workers)),
         Check(ControlPlane, AtPlane \cup Nodes \cup {<<"addons", ControlPlane>>})>>

\* A certificate is issued at the control plane for a key that stays on the role.
Credentials(r) ==
  <<Command("check", r, {}, {<<"bundle", r>>, <<"account", r>>}),
    Command("make", ControlPlane, {<<"certificate", r>>}, AtPlane),
    Script("kubeconfig", r, {<<"certificate", r>>}),
    Check(r, {<<"kubeconfig", r>>, <<"control", ControlPlane>>})>>

Workstation ==
  <<Script("account", Candidate, {}), Script("utilities", Candidate, {}),
    Script("desktop", Candidate, {}), Check(Candidate, {<<"account", Candidate>>}),
    Script("access", Candidate, {<<"account", Candidate>>})>>
    \o Over(Cluster, LAMBDA r : Command("make", r, {<<"account", r>>, <<"access", r>>}, {<<"bundle", r>>}))
    \o Over(Machines, LAMBDA r : Check(r, {<<"access", r>>}))
    \o <<Script("trust", Candidate, {<<"account", Candidate>>})>>
    \o FlattenSeq(Over(Machines, Credentials))
    \o Over(Cluster, LAMBDA r : Check(r, {<<"bundle", r>>, <<"access", r>>}))
    \o <<Check(Candidate, OnAll("access", Machines)
                 \cup {<<n, Candidate>> : n \in {"account", "utilities", "trust", "kubeconfig"}})>>

ProvisionProgram ==
  VmsCreated \o Record("vms-created") \o OsReady \o Record("os-ready")
    \o ClusterReady \o Record("cluster-ready") \o Health \o Record("addons-ready")
    \o Tools \o Workstation \o Record("candidate-ready")

\* Replays verify these instead of making them anew.
LabKept == Nodes \cup OnAll("certificate", Machines)

=============================================================================
