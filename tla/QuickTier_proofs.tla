--------------------------- MODULE QuickTier_proofs ---------------------------
(***************************************************************************)
(* Theorems about QuickTier, for any processes and any bounds.  A run of   *)
(* e2e holds the claim from the moment it takes it, unless somebody robbed *)
(* it of the claim or its own cluster is gone already (ClaimsAreHeld):     *)
(* what one run deletes can then not be the cluster of another.            *)
(***************************************************************************)
EXTENDS QuickTier, TLAPS

ProvisionPoints == {"provision", "declare", "create", "inspect", "mark", "adopt", "record", "wait", "ready"}
E2EPoints == {"presence", "claim", "finally", "cleanup", "after", "release"}
Points == ProvisionPoints \cup E2EPoints \cup {"idle", "delete", "kind-delete", "remove"}

\* What is left to remove, by the place the removal returns to.
Removals(back) ==
  {r \in {<<"metadata">>} : back = "provision"}
    \cup {r \in {<<"kubeconfig", "metadata", "claim">>, <<"metadata", "claim">>} : back = "delete"}
    \cup {r \in {<<"claim">>} : back \in {"delete", "idle"}}

Job ==
  [op : {"none", "provision", "delete", "reset", "e2e"}, pc : Points, run : 0..commands,
   id : {0} \cup Ids, container : {0} \cup Ids, force : BOOLEAN, keep : BOOLEAN,
   provisioned : BOOLEAN, deleted : BOOLEAN,
   remove : {<<>>} \cup Removals("provision") \cup Removals("delete"),
   back : {"provision", "delete", "idle"}]

Types ==
  /\ TypeOK
  /\ commands \in 0..MaxCommands /\ fresh \in Nat \ {0} /\ foreign \in Nat
  /\ claim # None => claim \in 1..commands
  /\ cluster \in [id : Ids, run : 0..commands, marker : {None} \cup [id : Ids, container : Ids]] \cup {None}
  /\ clean \cup robbed \cup killed \subseteq 1..commands
  /\ job \in [Procs -> Job]

Before(p) == job[p].pc \in {"presence", "claim"}
Leaving(p) == job[p].pc = "release" \/ (job[p].pc = "remove" /\ job[p].back = "idle")
MadeBy(p) == cluster # None /\ cluster.run = job[p].run

JobOK(p) ==
  /\ job[p].pc = "idle" <=> job[p] = Idle
  /\ job[p].pc = "idle" <=> job[p].run = 0
  /\ job[p].pc \in E2EPoints => job[p].op = "e2e"
  /\ job[p].pc \in {"create", "inspect", "mark", "adopt", "record", "wait", "ready"} => job[p].id # 0
  /\ job[p].pc \in {"mark", "adopt", "record", "wait", "ready"} => job[p].container # 0
  /\ job[p].pc = "remove" =>
       /\ job[p].remove \in Removals(job[p].back)
       /\ job[p].back = "idle" => job[p].op = "e2e"

\* A run that has looked holds the claim until its own cluster is gone.
ClaimOK(p) ==
  /\ claim = job[p].run => job[p].op = "e2e" /\ ~Before(p)
  /\ MadeBy(p) /\ job[p].op = "e2e" => ~Before(p) /\ ~(job[p].pc = "remove" /\ job[p].back = "delete")
  /\ job[p].op = "e2e" /\ ~Before(p) =>
       claim = job[p].run \/ job[p].run \in robbed \/ (job[p].pc \in {"after", "release"} /\ ~MadeBy(p))
  /\ job[p].run \in clean => Leaving(p)

ClaimsAreHeld == \A p \in Procs : JobOK(p) /\ ClaimOK(p)

RunsAreDistinct == \A p, q \in Procs : p # q /\ job[p].run = job[q].run => job[p].run = 0

QuickInv == Types /\ RunsAreDistinct /\ ClaimsAreHeld /\ CleanedRunsLeaveNothing

-----------------------------------------------------------------------------
(* Jobs                                                                    *)

\* p moves, the others do not.
Others(p) == \A q \in Procs \ {p} : job'[q] = job[q]

LEMMA RemovalFacts ==
  ASSUME NEW r, NEW back, r \in Removals(back)
  PROVE  /\ back \in {"provision", "delete", "idle"}
         /\ r \in {<<"metadata">>, <<"kubeconfig", "metadata", "claim">>,
                  <<"metadata", "claim">>, <<"claim">>}
         /\ Len(r) > 1 => back = "delete" /\ Tail(r) \in Removals("delete") /\ Head(r) # "claim"
         /\ Len(r) <= 1 => Head(r) = (IF back = "provision" THEN "metadata" ELSE "claim")
<1>1. CASE back = "provision" /\ r = <<"metadata">>
  BY <1>1
<1>2. CASE back = "delete" /\ r = <<"kubeconfig", "metadata", "claim">>
  <2>1. Len(r) = 3 /\ Head(r) = "kubeconfig" /\ Tail(r) = <<"metadata", "claim">>
    BY <1>2
  <2>2. QED
    BY <1>2, <2>1 DEF Removals
<1>3. CASE back = "delete" /\ r = <<"metadata", "claim">>
  <2>1. Len(r) = 2 /\ Head(r) = "metadata" /\ Tail(r) = <<"claim">>
    BY <1>3
  <2>2. QED
    BY <1>3, <2>1 DEF Removals
<1>4. CASE back \in {"delete", "idle"} /\ r = <<"claim">>
  BY <1>4
<1>5. QED
  BY <1>1, <1>2, <1>3, <1>4 DEF Removals

LEMMA IdleType == Types => Idle \in Job
BY DEF Idle, Job, Points, Removals, Types

LEMMA JobTypes ==
  ASSUME QuickInv, NEW p \in Procs
  PROVE  /\ job[p] \in Job /\ JobOK(p) /\ ClaimOK(p)
         /\ job[p].run \in 0..commands /\ commands \in Nat /\ fresh \in Nat
BY QuickAssumption DEF QuickInv, Types, ClaimsAreHeld, Job

LEMMA Ending ==
  ASSUME QuickInv, NEW p \in Procs, End(p)
  PROVE  Others(p) /\ job' \in [Procs -> Job] /\ job'[p] = Idle
BY IdleType DEF QuickInv, Types, End, Others

LEMMA Going ==
  ASSUME QuickInv, NEW p \in Procs, NEW pc \in Points, Goto(p, pc)
  PROVE  /\ Others(p) /\ job' \in [Procs -> Job]
         /\ job'[p] = [job[p] EXCEPT !.pc = pc]
         /\ job'[p].pc = pc /\ job'[p].op = job[p].op /\ job'[p].run = job[p].run
         /\ job'[p].id = job[p].id /\ job'[p].container = job[p].container
         /\ job'[p].back = job[p].back /\ job'[p].remove = job[p].remove
<1>1. job \in [Procs -> Job] /\ job[p] \in Job
  BY DEF QuickInv, Types
<1>2. [job[p] EXCEPT !.pc = pc] \in Job
  BY <1>1 DEF Job
<1>3. QED
  BY <1>1, <1>2 DEF Goto, Others, Job

\* What a job keeps when it goes on.
Same(p) ==
  /\ Others(p) /\ job' \in [Procs -> Job]
  /\ job'[p].op = job[p].op /\ job'[p].run = job[p].run

LEMMA ProvisionReturning ==
  ASSUME QuickInv, NEW p \in Procs, NEW ok \in BOOLEAN, ProvisionReturns(p, ok)
  PROVE  \/ job[p].op # "e2e" /\ End(p)
         \/ job[p].op = "e2e" /\ Same(p) /\ job'[p].pc \in {"provision", "finally"}
<1>1. job \in [Procs -> Job] /\ job[p] \in Job
  BY DEF QuickInv, Types
<1>2. CASE job[p].op = "e2e"
  <2> DEFINE pc == IF ok /\ ~job[p].provisioned THEN "provision" ELSE "finally"
             j == [job[p] EXCEPT !.pc = pc, !.provisioned = @ \/ ok]
  <2>1. pc \in {"provision", "finally"} /\ {"provision", "finally"} \subseteq Points
    BY DEF Points, ProvisionPoints, E2EPoints
  <2>2. (job[p].provisioned \/ ok) \in BOOLEAN
    OBVIOUS
  <2>3. job' = [job EXCEPT ![p] = j]
    BY <1>2, <1>1 DEF ProvisionReturns
  <2> HIDE DEF pc
  <2>4. j \in Job /\ j.op = job[p].op /\ j.run = job[p].run /\ j.pc = pc
    BY <1>1, <2>1, <2>2 DEF Job
  <2> HIDE DEF j
  <2>5. QED
    BY <1>1, <1>2, <2>1, <2>3, <2>4 DEF Same, Others
<1>3. QED
  BY <1>2 DEF ProvisionReturns

LEMMA DeleteReturning ==
  ASSUME QuickInv, NEW p \in Procs, NEW ok \in BOOLEAN, DeleteReturns(p, ok)
  PROVE  \/ job[p].op # "e2e" /\ End(p)
         \/ job[p].op # "e2e" /\ Same(p) /\ job'[p].pc = "provision"
         \/ job[p].op = "e2e" /\ Same(p) /\ job'[p].pc = "after"
<1>1. job \in [Procs -> Job] /\ job[p] \in Job
  BY DEF QuickInv, Types
<1>2. CASE job[p].op = "e2e"
  <2> DEFINE j == [job[p] EXCEPT !.pc = "after", !.deleted = ok]
  <2>1. j \in Job /\ j.op = job[p].op /\ j.run = job[p].run /\ j.pc = "after"
    BY <1>1 DEF Job, Points, E2EPoints
  <2>2. job' = [job EXCEPT ![p] = j]
    BY <1>2, <1>1 DEF DeleteReturns
  <2> HIDE DEF j
  <2>3. QED
    BY <1>1, <1>2, <2>1, <2>2 DEF Same, Others
<1>3. CASE job[p].op = "reset" /\ ok
  BY <1>3, Going DEF DeleteReturns, Same, Points, ProvisionPoints
<1>4. CASE job[p].op # "e2e" /\ ~(job[p].op = "reset" /\ ok)
  BY <1>4 DEF DeleteReturns
<1>5. QED
  BY <1>2, <1>3, <1>4

-----------------------------------------------------------------------------
(* What one process does to the others                                     *)

\* The types of everything but the jobs.
World ==
  /\ commands \in 0..MaxCommands /\ fresh \in Nat \ {0} /\ foreign \in Nat
  /\ claim \in (1..commands) \cup {None}
  /\ cluster \in [id : Ids, run : 0..commands, marker : {None} \cup [id : Ids, container : Ids]] \cup {None}
  /\ clean \cup robbed \cup killed \subseteq 1..commands
  /\ metadata = None \/ (metadata.id \in Ids /\ (metadata.container = None <=> metadata.status = "creating"))
  /\ kubeconfig \in Ids \cup {None}

Jobs == job \in [Procs -> Job]

LEMMA WorldFacts ==
  /\ QuickInv => World
  /\ World /\ Jobs /\ ClaimsAreHeld => Types
<1>1. QuickInv => World
  BY DEF QuickInv, Types, TypeOK, World, RunIds
<1>2. ASSUME World, Jobs, ClaimsAreHeld PROVE Types
  <2>1. 0..commands \subseteq RunIds \cup {0} /\ 1..commands \subseteq RunIds
    BY <1>2, QuickAssumption DEF World, RunIds
  <2>2. \A p \in Procs : job[p].run \in 0..commands
    BY <1>2 DEF Jobs, Job
  <2>3. TypeOK
    BY <1>2, <2>1, <2>2 DEF World, TypeOK, ClaimsAreHeld, JobOK
  <2>4. QED
    BY <1>2, <2>3 DEF World, Types, Jobs
<1>3. QED
  BY <1>1, <1>2

LEMMA OthersKeep ==
  ASSUME QuickInv, NEW p \in Procs, NEW run \in Nat \ {0}, Others(p),
         \A q \in Procs \ {p} : job[q].run # run,
         robbed \subseteq robbed', clean' \subseteq clean \cup {run},
         \/ claim' = claim
         \/ claim = None /\ claim' = run
         \/ claim' = None /\ claim \in {None, run} \cup robbed',
         \/ cluster' = None
         \/ cluster'.run \in {0, run}
         \/ cluster # None /\ cluster'.run = cluster.run
  PROVE  \A q \in Procs \ {p} : JobOK(q)' /\ ClaimOK(q)'
<1> SUFFICES ASSUME NEW q \in Procs \ {p} PROVE JobOK(q)' /\ ClaimOK(q)'
  OBVIOUS
<1>1. /\ job'[q] = job[q] /\ JobOK(q) /\ ClaimOK(q) /\ job[q].run # run
      /\ job[q].run \in Nat /\ job[q].run # None
  BY JobTypes, QuickAssumption DEF Others
<1>2. JobOK(q)'
  BY <1>1 DEF JobOK
<1>3. CASE job[q] = Idle
  <2>1. job[q].run = 0 /\ job[q].op = "none"
    BY <1>3 DEF Idle
  <2>2. claim' # 0 /\ 0 \notin clean'
    BY QuickAssumption DEF QuickInv, Types
  <2>3. QED
    BY <1>1, <1>2, <2>1, <2>2 DEF ClaimOK
<1>4. CASE job[q] # Idle
  <2>1. job[q].run # 0
    BY <1>1, <1>4 DEF JobOK
  <2>2. MadeBy(q)' => MadeBy(q)
    BY <1>1, <2>1 DEF MadeBy
  <2>3. claim' = job[q].run => claim = job[q].run
    BY <1>1
  <2>4. claim = job[q].run => claim' = job[q].run \/ job[q].run \in robbed'
    BY <1>1
  <2>5. (Before(q) <=> Before(q)') /\ (Leaving(q) <=> Leaving(q)')
    BY <1>1 DEF Before, Leaving
  <2>6. job[q].run \in clean' => job[q].run \in clean
    BY <1>1
  <2>7. QED
    BY <1>1, <1>2, <2>2, <2>3, <2>4, <2>5, <2>6 DEF ClaimOK
<1>5. QED
  BY <1>3, <1>4

LEMMA StepKeepsInv ==
  ASSUME QuickInv, NEW p \in Procs, NEW run \in Nat \ {0}, Others(p),
         \A q \in Procs \ {p} : job[q].run # run,
         robbed \subseteq robbed', clean' \subseteq clean \cup {run},
         \/ claim' = claim
         \/ claim = None /\ claim' = run
         \/ claim' = None /\ claim \in {None, run} \cup robbed',
         \/ cluster' = None
         \/ cluster'.run \in {0, run}
         \/ cluster # None /\ cluster'.run = cluster.run,
         World', job' \in [Procs -> Job'], job'[p].run \in {0, run},
         JobOK(p)', ClaimOK(p)', CleanedRunsLeaveNothing'
  PROVE  QuickInv'
<1>1. \A q \in Procs \ {p} : JobOK(q)' /\ ClaimOK(q)'
  BY OthersKeep
<1>2. ClaimsAreHeld'
  BY <1>1 DEF ClaimsAreHeld
<1>3. Jobs'
  BY DEF Jobs
<1>4. Types'
  BY <1>2, <1>3, WorldFacts, PTL
<1>5. RunsAreDistinct'
  BY DEF Others, QuickInv, RunsAreDistinct
<1>6. QED
  BY <1>2, <1>4, <1>5 DEF QuickInv

LEMMA DistinctRuns ==
  ASSUME QuickInv, NEW p \in Procs, job[p] # Idle
  PROVE  /\ job[p].run \in Nat \ {0} /\ job[p].run \in 1..commands
         /\ \A q \in Procs \ {p} : job[q].run # job[p].run
<1>1. job[p].run # 0 /\ job[p].run \in 0..commands /\ commands \in Nat
  BY JobTypes DEF JobOK
<1>2. QED
  BY <1>1 DEF QuickInv, RunsAreDistinct

-----------------------------------------------------------------------------
(* Steps that leave the claim alone                                        *)

\* The world goes on, but for files whose content nobody relies on.
Quiet ==
  /\ UNCHANGED <<claim, counters, clean, robbed>>
  /\ killed \subseteq killed'
  /\ World'
  /\ cluster' = None \/ (cluster # None /\ cluster'.run = cluster.run)

LEMMA EndKeepsInv ==
  ASSUME QuickInv, NEW p \in Procs, job[p] # Idle, Quiet, End(p),
         claim # job[p].run \/ job[p].run \in killed'
  PROVE  QuickInv'
<1>1. Others(p) /\ job' \in [Procs -> Job] /\ job'[p] = Idle
  BY Ending
<1>2. Job' = Job
  BY DEF Quiet, counters, Job, Ids
<1>3. JobOK(p)'
  BY <1>1 DEF JobOK, Idle, E2EPoints
<1>4. claim # 0 /\ 0 \notin clean
  BY QuickAssumption DEF QuickInv, Types
<1>5. ClaimOK(p)'
  BY <1>1, <1>4 DEF Quiet, ClaimOK, Idle
<1>6. CleanedRunsLeaveNothing'
  <2>1. claim # None /\ Runs(claim) /\ claim # job[p].run => Runs(claim)'
    BY <1>1 DEF Runs, Others, Quiet
  <2>2. QED
    BY <2>1 DEF QuickInv, CleanedRunsLeaveNothing, Quiet
<1>7. QED
  BY <1>1, <1>2, <1>3, <1>5, <1>6, DistinctRuns, StepKeepsInv DEF Quiet, Idle

LEMMA GoKeepsInv ==
  ASSUME QuickInv, NEW p \in Procs, job[p] # Idle, Quiet, Same(p), JobOK(p)', ClaimOK(p)'
  PROVE  QuickInv'
<1>1. Job' = Job
  BY DEF Quiet, counters, Job, Ids
<1>2. CleanedRunsLeaveNothing'
  <2>1. \A run : Runs(run) => Runs(run)'
    BY DEF Runs, Same, Others
  <2>2. QED
    BY <2>1 DEF QuickInv, CleanedRunsLeaveNothing, Quiet
<1>3. QED
  BY <1>1, <1>2, DistinctRuns, StepKeepsInv DEF Quiet, Same

\* A run that neither looks nor leaves keeps its claim from step to step.
Between(pc) == pc \notin {"presence", "claim", "after", "release", "remove", "idle"}

LEMMA TravelKeepsInv ==
  ASSUME QuickInv, NEW p \in Procs, Quiet, Same(p), JobOK(p)',
         Between(job[p].pc) \/ (job[p].pc = "remove" /\ job[p].back = "provision"),
         Between(job'[p].pc) \/ job'[p].pc = "after"
           \/ (job'[p].pc = "remove" /\ job'[p].back = "provision")
  PROVE  QuickInv'
<1>1. ClaimOK(p) /\ JobOK(p)
  BY JobTypes
<1>2. job[p] # Idle
  BY <1>1 DEF JobOK, Between
<1>3. MadeBy(p)' => MadeBy(p)
  BY DEF MadeBy, Quiet, Same
<1>4. ~Before(p) /\ ~Before(p)' /\ ~Leaving(p)
  BY DEF Before, Leaving, Between
<1>5. ClaimOK(p)'
  BY <1>1, <1>3, <1>4 DEF ClaimOK, Quiet, Same, Between
<1>6. QED
  BY <1>2, <1>5, GoKeepsInv

LEMMA Still ==
  ASSUME QuickInv, UNCHANGED <<cluster, files, counters, history>>
  PROVE  Quiet
BY WorldFacts DEF Quiet, World, files, counters, history, Ids

LEMMA ProvisionReturnsKeepsInv ==
  ASSUME QuickInv, NEW p \in Procs, Quiet, NEW ok \in BOOLEAN, ProvisionReturns(p, ok),
         job[p].pc \in ProvisionPoints \/ (job[p].pc = "remove" /\ job[p].back = "provision")
  PROVE  QuickInv'
<1>1. JobOK(p) /\ ClaimOK(p) /\ job[p] # Idle /\ job[p].run # 0
  BY JobTypes DEF JobOK, ProvisionPoints
<1>2. CASE job[p].op # "e2e" /\ End(p)
  BY <1>1, <1>2, EndKeepsInv DEF ClaimOK
<1>3. CASE job[p].op = "e2e" /\ Same(p) /\ job'[p].pc \in {"provision", "finally"}
  <2>1. JobOK(p)'
    BY <1>1, <1>3 DEF JobOK, Same, Idle
  <2>2. QED
    BY <1>3, <2>1, TravelKeepsInv DEF Between, ProvisionPoints
<1>4. QED
  BY <1>2, <1>3, ProvisionReturning

\* The cluster is created with the number of the run.
LEMMA CreatingKeepsInv ==
  ASSUME QuickInv, NEW p \in Procs, job[p].pc = "create",
         cluster = None, cluster' = NewCluster(p),
         UNCHANGED <<files, counters, clean, robbed>>,
         killed \subseteq killed', killed' \subseteq killed \cup {job[p].run},
         \/ /\ Same(p) /\ JobOK(p)'
            /\ (Between(job'[p].pc) \/ (job'[p].pc = "remove" /\ job'[p].back = "provision"))
         \/ End(p) /\ job[p].run \in killed'
  PROVE  QuickInv'
<1>1. /\ JobOK(p) /\ ClaimOK(p) /\ job[p] # Idle /\ job[p] \in Job /\ World
      /\ job[p].run \in Nat \ {0} /\ job[p].run \in 1..commands
      /\ \A q \in Procs \ {p} : job[q].run # job[p].run
  BY JobTypes, WorldFacts, DistinctRuns DEF JobOK
<1>2. Job' = Job
  BY DEF counters, Job, Ids
<1>3. job[p].run \notin clean /\ (job[p].op = "e2e" => claim = job[p].run \/ job[p].run \in robbed)
  BY <1>1 DEF ClaimOK, Leaving, Before
<1>4. World'
  BY <1>1 DEF World, NewCluster, files, counters, Ids, Job, JobOK
<1>5. cluster'.run = job[p].run
  BY DEF NewCluster
<1>6. CASE /\ Same(p) /\ JobOK(p)'
           /\ Between(job'[p].pc) \/ (job'[p].pc = "remove" /\ job'[p].back = "provision")
  <2>1. ~Before(p)'
    BY <1>6 DEF Before, Between
  <2>2. ClaimOK(p)'
    BY <1>1, <1>3, <1>6, <2>1 DEF ClaimOK, Same, files, Between, Before
  <2>3. CleanedRunsLeaveNothing'
    <3>1. \A run : Runs(run) => Runs(run)'
      BY <1>6 DEF Runs, Same, Others
    <3>2. QED
      BY <1>3, <1>5, <3>1 DEF QuickInv, CleanedRunsLeaveNothing, files
  <2>4. QED
    BY <1>1, <1>2, <1>4, <1>5, <1>6, <2>2, <2>3, StepKeepsInv DEF files, Same
<1>7. CASE End(p) /\ job[p].run \in killed'
  <2>1. Others(p) /\ job' \in [Procs -> Job] /\ job'[p] = Idle
    BY <1>7, Ending
  <2>2. JobOK(p)'
    BY <2>1 DEF JobOK, Idle, E2EPoints
  <2>3. claim # 0 /\ 0 \notin clean
    BY <1>1, QuickAssumption DEF World
  <2>4. ClaimOK(p)'
    BY <2>1, <2>3 DEF ClaimOK, Idle, files
  <2>5. CleanedRunsLeaveNothing'
    <3>1. claim # None /\ Runs(claim) /\ claim # job[p].run => Runs(claim)'
      BY <2>1 DEF Runs, Others, files
    <3>2. QED
      BY <1>3, <1>5, <1>7, <3>1 DEF QuickInv, CleanedRunsLeaveNothing, files
  <2>6. QED
    BY <1>1, <1>2, <1>4, <1>5, <2>1, <2>2, <2>4, <2>5, StepKeepsInv DEF files, Idle
<1>8. QED
  BY <1>6, <1>7

-----------------------------------------------------------------------------
(* Provisioning                                                            *)

LEMMA DeclareKeepsInv ==
  ASSUME QuickInv, NEW p \in Procs, Declare(p)
  PROVE  QuickInv'
<1>1. /\ JobOK(p) /\ ClaimOK(p) /\ job[p] # Idle /\ job[p] \in Job /\ World
      /\ job[p].run \in Nat \ {0} /\ job[p].run \in 1..commands
      /\ \A q \in Procs \ {p} : job[q].run # job[p].run
      /\ job[p].pc = "declare" /\ fresh' = fresh + 1
      /\ UNCHANGED <<cluster, kubeconfig, claim, commands, foreign, history>>
  BY JobTypes, WorldFacts, DistinctRuns DEF JobOK, Declare
<1>2. Ids \subseteq Ids' /\ fresh \in Ids' /\ fresh # 0
  BY <1>1 DEF World, Ids
<1>3. Job \subseteq Job'
  BY <1>1, <1>2 DEF Job
<1>4. World'
  BY <1>1, <1>2, QuickAssumption DEF World, Declare, history
<1>5. /\ Others(p) /\ job' \in [Procs -> Job']
      /\ job'[p].pc = "create" /\ job'[p].op = job[p].op /\ job'[p].run = job[p].run /\ job'[p].id = fresh
  <2> DEFINE j == [job[p] EXCEPT !.id = fresh, !.pc = "create"]
  <2>1. job \in [Procs -> Job]
    BY DEF QuickInv, Types
  <2>2. j \in Job'
    BY <1>1, <1>2, <1>3 DEF Job, Points, ProvisionPoints
  <2>3. j.pc = "create" /\ j.op = job[p].op /\ j.run = job[p].run /\ j.id = fresh
    BY <1>1 DEF Job
  <2>4. job' = [job EXCEPT ![p] = j]
    BY <2>1 DEF Declare
  <2> HIDE DEF j
  <2>5. QED
    BY <1>3, <2>1, <2>2, <2>3, <2>4 DEF Others
<1>6. JobOK(p)'
  BY <1>1, <1>2, <1>5 DEF JobOK, Idle, E2EPoints
<1>7. ClaimOK(p)'
  BY <1>1, <1>5 DEF ClaimOK, MadeBy, Before, Leaving, history
<1>8. CleanedRunsLeaveNothing'
  <2>1. \A run : Runs(run) => Runs(run)'
    BY <1>5 DEF Runs, Others
  <2>2. QED
    BY <1>1, <2>1 DEF QuickInv, CleanedRunsLeaveNothing, history
<1>9. QED
  BY <1>1, <1>4, <1>5, <1>6, <1>7, <1>8, StepKeepsInv DEF history

LEMMA CreateKeepsInv ==
  ASSUME QuickInv, NEW p \in Procs, Create(p) \/ CreateFails(p)
  PROVE  QuickInv'
<1>1. /\ JobOK(p) /\ job[p] # Idle /\ job[p] \in Job /\ job \in [Procs -> Job]
      /\ job[p].pc = "create" /\ UNCHANGED <<files, counters, history>>
  BY JobTypes DEF JobOK, Create, CreateFails, QuickInv, Types
<1>2. CASE Create(p)
  <2>1. Same(p) /\ job'[p].pc = "inspect" /\ job'[p].id = job[p].id
    BY <1>2, Going DEF Create, Same, Points, ProvisionPoints
  <2>2. JobOK(p)'
    BY <1>1, <2>1 DEF JobOK, Same, Idle, E2EPoints
  <2>3. QED
    BY <1>1, <1>2, <2>1, <2>2, CreatingKeepsInv DEF Create, Between, history
<1>3. CASE CreateFails(p)
  <2> DEFINE j == [job[p] EXCEPT !.pc = "remove", !.remove = <<"metadata">>, !.back = "provision"]
  <2>1. <<"metadata">> \in Removals("provision")
    BY DEF Removals
  <2>2. j \in Job
    BY <1>1, <2>1 DEF Job, Points
  <2>3. /\ j.pc = "remove" /\ j.op = job[p].op /\ j.run = job[p].run
        /\ j.remove = <<"metadata">> /\ j.back = "provision"
    BY <1>1 DEF Job
  <2>4. job' = [job EXCEPT ![p] = j]
    BY <1>1, <1>3 DEF CreateFails
  <2> HIDE DEF j
  <2>5. Same(p) /\ job'[p] = j
    BY <1>1, <2>2, <2>3, <2>4 DEF Same, Others
  <2>6. JobOK(p)'
    BY <1>1, <2>1, <2>3, <2>5 DEF JobOK, Idle, E2EPoints
  <2>7. CASE UNCHANGED cluster
    BY <1>1, <2>3, <2>5, <2>6, <2>7, Still, TravelKeepsInv DEF Between
  <2>8. CASE cluster = None /\ cluster' = NewCluster(p)
    BY <1>1, <2>3, <2>5, <2>6, <2>8, CreatingKeepsInv DEF history
  <2>9. QED
    BY <1>3, <2>7, <2>8 DEF CreateFails
<1>4. QED
  BY <1>2, <1>3

LEMMA ProvisionKeepsInv ==
  ASSUME QuickInv, NEW p \in Procs, Provision(p)
  PROVE  QuickInv'
<1>1. /\ JobOK(p) /\ ClaimOK(p) /\ job[p] \in Job /\ job \in [Procs -> Job] /\ World
  BY JobTypes, WorldFacts DEF QuickInv, Types
<1>2. CASE ProvisionLooks(p)
  <2>1. Quiet /\ job[p].pc = "provision"
    BY <1>2, Still DEF ProvisionLooks
  <2>2. CASE Goto(p, "declare")
    <3>1. Same(p) /\ job'[p].pc = "declare"
      BY <2>2, Going DEF Same, Points, ProvisionPoints
    <3>2. JobOK(p)'
      BY <1>1, <2>1, <3>1 DEF JobOK, Same, Idle, E2EPoints
    <3>3. QED
      BY <2>1, <3>1, <3>2, TravelKeepsInv DEF Between
  <2>3. CASE \E ok \in BOOLEAN : ProvisionReturns(p, ok)
    BY <2>1, <2>3, ProvisionReturnsKeepsInv DEF ProvisionPoints
  <2>4. QED
    BY <1>2, <2>2, <2>3 DEF ProvisionLooks, StateIsOwned, CanBeHealthy
<1>3. CASE Declare(p)
  BY <1>3, DeclareKeepsInv
<1>4. CASE Create(p) \/ CreateFails(p)
  BY <1>4, CreateKeepsInv
<1>5. CASE Inspect(p)
  <2> DEFINE j == [job[p] EXCEPT !.container = cluster.id, !.pc = "mark"]
  <2>1. Quiet /\ job[p].pc = "inspect" /\ cluster.id \in Ids
    BY <1>1, <1>5, Still DEF Inspect, World
  <2>2. j \in Job /\ cluster.id # 0
    <3>1. cluster.id # 0
      BY <1>1, <2>1 DEF World, Ids
    <3>2. "mark" \in Points
      BY DEF Points, ProvisionPoints
    <3>3. j \in Job
      BY <1>1, <2>1, <3>2 DEF Job
    <3>4. QED
      BY <3>1, <3>3
  <2>3. /\ j.pc = "mark" /\ j.op = job[p].op /\ j.run = job[p].run /\ j.id = job[p].id
        /\ j.container = cluster.id
    BY <1>1 DEF Job
  <2>4. job' = [job EXCEPT ![p] = j]
    BY <1>1, <1>5 DEF Inspect
  <2> HIDE DEF j
  <2>5. Same(p) /\ job'[p] = j
    BY <1>1, <2>2, <2>3, <2>4 DEF Same, Others
  <2>6. JobOK(p)'
    BY <1>1, <2>1, <2>2, <2>3, <2>5 DEF JobOK, Idle, E2EPoints
  <2>7. QED
    BY <2>1, <2>3, <2>5, <2>6, TravelKeepsInv DEF Between
<1>6. CASE Mark(p) \/ AdoptKubeconfig(p) \/ RecordIdentity(p) \/ WaitReady(p)
  <2>1. Quiet
    <3>1. CASE Mark(p)
      <4>1. Identity(p) \in [id : Ids, container : Ids]
        BY <1>1, <3>1 DEF Identity, Mark, Job, JobOK
      <4>2. World' /\ (cluster' = None \/ cluster'.run = cluster.run)
        BY <1>1, <3>1, <4>1 DEF Mark, World, files, counters, history, Ids
      <4>3. QED
        BY <3>1, <4>2 DEF Mark, Quiet, files, history
    <3>2. CASE AdoptKubeconfig(p)
      <4>1. job[p].id \in Ids
        BY <1>1, <3>2 DEF AdoptKubeconfig, Job, JobOK
      <4>2. QED
        BY <1>1, <3>2, <4>1 DEF AdoptKubeconfig, Quiet, World, counters, history, Ids
    <3>3. CASE RecordIdentity(p)
      <4>1. job[p].id \in Ids /\ job[p].container # None
        BY <1>1, <3>3, QuickAssumption DEF RecordIdentity, Job, JobOK, Ids, World
      <4>2. QED
        BY <1>1, <3>3, <4>1 DEF RecordIdentity, Recorded, Quiet, World, counters, history, Ids
    <3>4. CASE WaitReady(p)
      BY <3>4, Still DEF WaitReady
    <3>5. QED
      BY <1>6, <3>1, <3>2, <3>3, <3>4
  <2>2. PICK pc \in {"adopt", "record", "wait", "ready"} : Goto(p, pc)
    BY <1>6 DEF Mark, AdoptKubeconfig, RecordIdentity, WaitReady
  <2>3. Same(p) /\ job'[p].pc = pc /\ job'[p].id = job[p].id /\ job'[p].container = job[p].container
    BY <2>2, Going DEF Same, Points, ProvisionPoints
  <2>4. job[p].pc \in {"mark", "adopt", "record", "wait"}
    BY <1>6 DEF Mark, AdoptKubeconfig, RecordIdentity, WaitReady
  <2>5. JobOK(p)'
    BY <1>1, <2>3, <2>4 DEF JobOK, Same, Idle, E2EPoints
  <2>6. QED
    BY <2>1, <2>3, <2>4, <2>5, TravelKeepsInv DEF Between
<1>7. CASE ProvisionFails(p)
  <2>1. Quiet
    <3>1. CASE UNCHANGED cluster
      BY <1>7, <3>1, Still DEF ProvisionFails
    <3>2. CASE job[p].pc = "mark" /\ cluster # None /\ cluster' = [cluster EXCEPT !.marker = Identity(p)]
      <4>1. Identity(p) \in [id : Ids, container : Ids]
        BY <1>1, <3>2 DEF Identity, Job, JobOK
      <4>2. World' /\ cluster'.run = cluster.run
        BY <1>1, <1>7, <3>2, <4>1 DEF ProvisionFails, World, files, counters, history, Ids
      <4>3. QED
        BY <1>7, <3>2, <4>2 DEF ProvisionFails, Quiet, files, history
    <3>3. QED
      BY <1>7, <3>1, <3>2 DEF ProvisionFails
  <2>2. QED
    BY <1>7, <2>1, ProvisionReturnsKeepsInv DEF ProvisionFails, ProvisionPoints
<1>8. CASE RecordReady(p)
  <2>1. job[p].id \in Ids /\ job[p].container # None
    BY <1>1, <1>8, QuickAssumption DEF RecordReady, Job, JobOK, Ids, World
  <2>2. Quiet
    BY <1>1, <1>8, <2>1 DEF RecordReady, Recorded, Quiet, World, counters, history, Ids
  <2>3. QED
    BY <1>8, <2>2, ProvisionReturnsKeepsInv DEF RecordReady, ProvisionPoints
<1>9. QED
  BY <1>2, <1>3, <1>4, <1>5, <1>6, <1>7, <1>8 DEF Provision

-----------------------------------------------------------------------------
(* Deleting                                                                *)

LEMMA DeleteReturnsKeepsInv ==
  ASSUME QuickInv, NEW p \in Procs, Quiet, DeleteReturns(p, FALSE),
         job[p].pc \in {"delete", "kind-delete"}
  PROVE  QuickInv'
<1>1. JobOK(p) /\ ClaimOK(p) /\ job[p] # Idle /\ job[p].run # 0
  BY JobTypes DEF JobOK
<1>2. CASE job[p].op # "e2e" /\ End(p)
  BY <1>1, <1>2, EndKeepsInv DEF ClaimOK
<1>3. CASE Same(p) /\ \/ job[p].op # "e2e" /\ job'[p].pc = "provision"
                      \/ job[p].op = "e2e" /\ job'[p].pc = "after"
  <2>1. JobOK(p)'
    BY <1>1, <1>3 DEF JobOK, Same, Idle, E2EPoints
  <2>2. QED
    BY <1>3, <2>1, TravelKeepsInv DEF Between
<1>4. QED
  BY <1>2, <1>3, DeleteReturning

\* A claim that goes with the state files was of this run, or its run is robbed.
LEMMA RemoveStateFileKeepsInv ==
  ASSUME QuickInv, NEW p \in Procs, RemoveStateFile(p)
  PROVE  QuickInv'
<1> DEFINE r == job[p].remove
           back == job[p].back
<1>1. /\ JobOK(p) /\ ClaimOK(p) /\ job[p] # Idle /\ job[p] \in Job /\ job \in [Procs -> Job] /\ World
      /\ job[p].run \in Nat \ {0} /\ job[p].run \in 1..commands
      /\ \A q \in Procs \ {p} : job[q].run # job[p].run
      /\ job[p].pc = "remove" /\ r \in Removals(back)
  BY JobTypes, WorldFacts, DistinctRuns DEF JobOK, RemoveStateFile, QuickInv, Types
<1>2. /\ back \in {"provision", "delete", "idle"}
      /\ Len(r) > 1 => back = "delete" /\ Tail(r) \in Removals("delete") /\ Head(r) # "claim"
      /\ Len(r) <= 1 => Head(r) = (IF back = "provision" THEN "metadata" ELSE "claim")
      /\ Len(r) \in Nat
  <2>1. Len(r) \in Nat
    BY <1>1 DEF Removals
  <2>2. QED
    BY <1>1, <2>1, RemovalFacts
<1>3. World' /\ UNCHANGED <<cluster, counters, clean, killed>>
  BY <1>1 DEF RemoveStateFile, World, counters, Ids
<1>4. CASE Head(r) # "claim"
  <2>1. UNCHANGED <<claim, robbed>>
    BY <1>4 DEF RemoveStateFile
  <2>2. Quiet
    BY <1>3, <2>1 DEF Quiet
  <2>3. CASE Len(r) > 1
    <3> DEFINE j == [job[p] EXCEPT !.remove = Tail(@)]
    <3>1. back = "delete" /\ Tail(r) \in Removals("delete")
      BY <1>2, <2>3
    <3>2. j \in Job
      BY <1>1, <3>1 DEF Job
    <3>3. /\ j.pc = "remove" /\ j.op = job[p].op /\ j.run = job[p].run
          /\ j.remove = Tail(r) /\ j.back = "delete"
      BY <1>1, <3>1 DEF Job
    <3>4. job' = [job EXCEPT ![p] = j]
      BY <1>1, <2>3 DEF RemoveStateFile
    <3> HIDE DEF j
    <3>5. Same(p) /\ job'[p] = j
      BY <1>1, <3>2, <3>3, <3>4 DEF Same, Others
    <3>6. JobOK(p)'
      BY <1>1, <3>1, <3>3, <3>5 DEF JobOK, Idle, E2EPoints
    <3>7. ClaimOK(p)'
      BY <1>1, <1>3, <2>1, <3>1, <3>3, <3>5 DEF ClaimOK, MadeBy, Before, Leaving
    <3>8. QED
      BY <1>1, <2>2, <3>5, <3>6, <3>7, GoKeepsInv
  <2>4. CASE ~(Len(r) > 1)
    <3>1. back = "provision"
      BY <1>2, <1>4, <2>4
    <3>2. ProvisionReturns(p, FALSE)
      BY <2>4, <3>1 DEF RemoveStateFile
    <3>3. QED
      BY <1>1, <2>2, <3>1, <3>2, ProvisionReturnsKeepsInv
  <2>5. QED
    BY <2>3, <2>4
<1>5. CASE Head(r) = "claim"
  <2>1. ~(Len(r) > 1) /\ back \in {"delete", "idle"}
    BY <1>2, <1>5
  <2>2. /\ claim' = None /\ robbed \subseteq robbed'
        /\ claim \in {None, job[p].run} \cup robbed'
    BY <1>1, <1>5 DEF RemoveStateFile
  <2>3. (back = "delete" /\ DeleteReturns(p, TRUE)) \/ (back = "idle" /\ End(p))
    BY <2>1 DEF RemoveStateFile
  <2>4. CleanedRunsLeaveNothing'
    BY <1>3, <2>2 DEF QuickInv, CleanedRunsLeaveNothing
  <2>5. Job' = Job /\ None # 0 /\ None # job[p].run
    BY <1>1, <1>3, QuickAssumption DEF counters, Job, Ids
  <2>6. CASE End(p)
    <3>1. Others(p) /\ job' \in [Procs -> Job] /\ job'[p] = Idle
      BY <2>6, Ending
    <3>2. JobOK(p)'
      BY <3>1 DEF JobOK, Idle, E2EPoints
    <3>3. ClaimOK(p)'
      BY <1>1, <1>3, <2>2, <2>5, <3>1 DEF ClaimOK, Idle, World
    <3>4. QED
      BY <1>1, <1>3, <2>2, <2>4, <2>5, <3>1, <3>2, <3>3, StepKeepsInv DEF Idle
  <2>7. CASE /\ Same(p) /\ back = "delete"
             /\ \/ job[p].op # "e2e" /\ job'[p].pc = "provision"
                \/ job[p].op = "e2e" /\ job'[p].pc = "after"
    <3>1. JobOK(p)'
      BY <1>1, <2>7 DEF JobOK, Same, Idle, E2EPoints
    <3>2. job[p].run \notin clean /\ (job[p].op = "e2e" => ~MadeBy(p))
      BY <1>1, <2>7 DEF ClaimOK, Leaving, Before
    <3>3. ClaimOK(p)'
      BY <1>3, <2>2, <2>5, <2>7, <3>2 DEF ClaimOK, Same, MadeBy, Before, Leaving
    <3>4. QED
      BY <1>1, <1>3, <2>2, <2>4, <2>5, <2>7, <3>1, <3>3, StepKeepsInv DEF Same
  <2>8. QED
    BY <2>3, <2>6, <2>7, DeleteReturning
<1>6. QED
  BY <1>4, <1>5

LEMMA DeleteKeepsInv ==
  ASSUME QuickInv, NEW p \in Procs, Delete(p)
  PROVE  QuickInv'
<1>1. JobOK(p) /\ ClaimOK(p) /\ job[p] \in Job /\ job \in [Procs -> Job] /\ World
  BY JobTypes, WorldFacts DEF QuickInv, Types
<1>2. CASE DeleteLooks(p)
  <2>1. Quiet /\ job[p].pc = "delete"
    BY <1>2, Still DEF DeleteLooks
  <2>2. CASE Goto(p, "kind-delete")
    <3>1. Same(p) /\ job'[p].pc = "kind-delete"
      BY <2>2, Going DEF Same, Points
    <3>2. JobOK(p)'
      BY <1>1, <2>1, <3>1 DEF JobOK, Same, Idle, E2EPoints
    <3>3. QED
      BY <2>1, <3>1, <3>2, TravelKeepsInv DEF Between
  <2>3. CASE DeleteReturns(p, FALSE)
    BY <2>1, <2>3, DeleteReturnsKeepsInv
  <2>4. QED
    BY <1>2, <2>2, <2>3 DEF DeleteLooks
<1>3. CASE KindDelete(p)
  <2> DEFINE files3 == <<"kubeconfig", "metadata", "claim">>
             j == [job[p] EXCEPT !.pc = "remove", !.remove = files3, !.back = "delete"]
  <2>1. files3 \in Removals("delete")
    BY DEF Removals
  <2> HIDE DEF files3
  <2>2. j \in Job
    BY <1>1, <2>1 DEF Job, Points
  <2>3. /\ j.pc = "remove" /\ j.op = job[p].op /\ j.run = job[p].run
        /\ j.remove = files3 /\ j.back = "delete"
    BY <1>1 DEF Job
  <2>4. job' = [job EXCEPT ![p] = j] /\ job[p].pc = "kind-delete" /\ cluster' = None
    BY <1>1, <1>3 DEF KindDelete, files3
  <2> HIDE DEF j
  <2>5. Same(p) /\ job'[p] = j
    BY <1>1, <2>2, <2>3, <2>4 DEF Same, Others
  <2>6. JobOK(p)' /\ job[p] # Idle
    BY <1>1, <2>1, <2>3, <2>4, <2>5 DEF JobOK, Idle, E2EPoints
  <2>7. Quiet
    BY <1>1, <1>3 DEF KindDelete, Quiet, World, files, counters, history, Ids
  <2>8. ClaimOK(p)'
    BY <1>1, <2>3, <2>4, <2>5, <2>7 DEF ClaimOK, MadeBy, Before, Leaving, Quiet
  <2>9. QED
    BY <2>5, <2>6, <2>7, <2>8, GoKeepsInv
<1>4. CASE KindDeleteFails(p)
  BY <1>4, Still, DeleteReturnsKeepsInv DEF KindDeleteFails
<1>5. CASE RemoveStateFile(p)
  BY <1>5, RemoveStateFileKeepsInv
<1>6. QED
  BY <1>2, <1>3, <1>4, <1>5 DEF Delete

-----------------------------------------------------------------------------
(* The release gate                                                        *)

LEMMA AcquireClaimKeepsInv ==
  ASSUME QuickInv, NEW p \in Procs, AcquireClaim(p)
  PROVE  QuickInv'
<1>1. /\ JobOK(p) /\ ClaimOK(p) /\ job[p] # Idle /\ job[p] \in Job /\ World
      /\ job[p].run \in Nat \ {0} /\ job[p].run \in 1..commands
      /\ \A q \in Procs \ {p} : job[q].run # job[p].run
      /\ job[p].pc = "claim" /\ job[p].op = "e2e"
      /\ UNCHANGED <<cluster, metadata, kubeconfig, counters, history>>
  BY JobTypes, WorldFacts, DistinctRuns DEF JobOK, AcquireClaim, E2EPoints
<1>2. CASE claim = None /\ claim' = job[p].run /\ Goto(p, "provision")
  <2>1. Same(p) /\ job'[p].pc = "provision"
    BY <1>2, Going DEF Same, Points, ProvisionPoints
  <2>2. JobOK(p)'
    BY <1>1, <2>1 DEF JobOK, Same, Idle, E2EPoints
  <2>3. ClaimOK(p)'
    BY <1>1, <1>2, <2>1 DEF ClaimOK, Same, MadeBy, Before, Leaving, history
  <2>4. World' /\ Job' = Job
    BY <1>1, <1>2 DEF World, counters, history, Job, Ids
  <2>5. CleanedRunsLeaveNothing'
    <3>1. Runs(claim)'
      BY <1>2, <2>1 DEF Runs, Same
    <3>2. QED
      BY <1>1, <3>1 DEF QuickInv, CleanedRunsLeaveNothing, history
  <2>6. QED
    BY <1>1, <1>2, <2>1, <2>2, <2>3, <2>4, <2>5, StepKeepsInv DEF Same, history
<1>3. CASE UNCHANGED claim /\ End(p)
  <2>1. Quiet
    BY <1>1, <1>3, Still DEF files
  <2>2. claim # job[p].run
    BY <1>1 DEF ClaimOK, Before
  <2>3. QED
    BY <1>1, <1>3, <2>1, <2>2, EndKeepsInv
<1>4. QED
  BY <1>2, <1>3 DEF AcquireClaim

\* A cleanup that passes finds no cluster, or one that this run has not made.
LEMMA PassingKeepsInv ==
  ASSUME QuickInv, NEW p \in Procs, Finally(p) \/ After(p), Goto(p, "release")
  PROVE  QuickInv'
<1>1. /\ JobOK(p) /\ ClaimOK(p) /\ job[p] # Idle /\ job[p] \in Job /\ World
      /\ job[p].run \in Nat \ {0} /\ job[p].run \in 1..commands
      /\ \A q \in Procs \ {p} : job[q].run # job[p].run
      /\ job[p].pc \in {"finally", "after"} /\ job[p].op = "e2e"
      /\ UNCHANGED <<cluster, files, counters, robbed, killed>>
  BY JobTypes, WorldFacts, DistinctRuns DEF JobOK, Finally, After, E2EPoints
<1>2. /\ clean' \in {clean, clean \cup {job[p].run}}
      /\ clean' # clean => (cluster # None => cluster.run # job[p].run) \/ job[p].run \in robbed
  <2>1. CASE Finally(p)
    BY <1>1, <2>1 DEF Finally, Owns, ClaimOK, Before
  <2>2. CASE After(p)
    BY <2>2, QuickAssumption DEF After, Presence
  <2>3. QED
    BY <2>1, <2>2
<1>3. Same(p) /\ job'[p].pc = "release"
  BY Going DEF Same, Points, E2EPoints
<1>4. JobOK(p)'
  BY <1>1, <1>3 DEF JobOK, Same, Idle, E2EPoints
<1>5. ClaimOK(p)'
  BY <1>1, <1>3 DEF ClaimOK, Same, MadeBy, Before, Leaving, files
<1>6. World' /\ Job' = Job
  BY <1>1, <1>2 DEF World, files, counters, Job, Ids
<1>7. CleanedRunsLeaveNothing'
  <2>1. \A run : Runs(run) => Runs(run)'
    BY <1>3 DEF Runs, Same, Others
  <2>2. QED
    BY <1>1, <1>2, <2>1 DEF QuickInv, CleanedRunsLeaveNothing, files
<1>8. QED
  BY <1>1, <1>2, <1>3, <1>4, <1>5, <1>6, <1>7, StepKeepsInv DEF Same, files

LEMMA E2EKeepsInv ==
  ASSUME QuickInv, NEW p \in Procs, E2E(p)
  PROVE  QuickInv'
<1>1. JobOK(p) /\ ClaimOK(p) /\ job[p] \in Job /\ job \in [Procs -> Job] /\ World
  BY JobTypes, WorldFacts DEF QuickInv, Types
<1>2. CASE E2ELooks(p)
  <2>1. Quiet /\ job[p].pc = "presence" /\ job[p] # Idle
    BY <1>1, <1>2, Still DEF E2ELooks, Idle
  <2>2. CASE Goto(p, "claim")
    <3>1. Same(p) /\ job'[p].pc = "claim"
      BY <2>2, Going DEF Same, Points, E2EPoints
    <3>2. JobOK(p)'
      BY <1>1, <2>1, <3>1 DEF JobOK, Same, Idle, E2EPoints
    <3>3. ClaimOK(p)'
      BY <1>1, <2>1, <3>1 DEF ClaimOK, Same, MadeBy, Before, Leaving, Quiet
    <3>4. QED
      BY <2>1, <3>1, <3>2, <3>3, GoKeepsInv
  <2>3. CASE End(p)
    BY <1>1, <2>1, <2>3, EndKeepsInv DEF ClaimOK, Before
  <2>4. QED
    BY <1>2, <2>2, <2>3 DEF E2ELooks
<1>3. CASE AcquireClaim(p)
  BY <1>3, AcquireClaimKeepsInv
<1>4. CASE Interrupted(p)
  <2>1. /\ job[p].op = "e2e" /\ UNCHANGED <<files, counters, history>> /\ Goto(p, "finally")
        /\ job[p].pc \in ProvisionPoints \/ (job[p].pc = "remove" /\ job[p].back = "provision")
    BY <1>4 DEF Interrupted, ProvisionPoints
  <2>2. Same(p) /\ job'[p].pc = "finally"
    BY <2>1, Going DEF Same, Points, E2EPoints
  <2>3. JobOK(p)'
    BY <1>1, <2>1, <2>2 DEF JobOK, Same, Idle, E2EPoints, ProvisionPoints
  <2>4. CASE UNCHANGED cluster
    BY <2>1, <2>2, <2>3, <2>4, Still, TravelKeepsInv DEF Between, ProvisionPoints
  <2>5. CASE job[p].pc = "create" /\ cluster = None /\ cluster' = NewCluster(p)
    BY <2>1, <2>2, <2>3, <2>5, CreatingKeepsInv DEF history, Between
  <2>6. QED
    BY <1>4, <2>4, <2>5 DEF Interrupted
<1>5. CASE Finally(p)
  <2>1. CASE Goto(p, "release")
    BY <1>5, <2>1, PassingKeepsInv
  <2>2. CASE ~Kept(p) /\ Owns(p)
    <3>1. Quiet /\ job[p].pc = "finally"
      BY <1>5, <2>2, Still DEF Finally, history
    <3>2. Same(p) /\ job'[p].pc = "cleanup"
      BY <1>5, <2>2, Going DEF Finally, Same, Points, E2EPoints
    <3>3. JobOK(p)'
      BY <1>1, <3>1, <3>2 DEF JobOK, Same, Idle, E2EPoints
    <3>4. QED
      BY <3>1, <3>2, <3>3, TravelKeepsInv DEF Between
  <2>3. QED
    BY <1>5, <2>1, <2>2 DEF Finally
<1>6. CASE Cleanup(p)
  <2>1. PICK owned \in BOOLEAN, present \in {TRUE, FALSE, None} :
          job' = [job EXCEPT ![p].pc = IF present = TRUE THEN "delete" ELSE "after",
                             ![p].force = ~owned,
                             ![p].deleted = present = FALSE]
    BY <1>6 DEF Cleanup, Ownership, Presence, StateIsOwned
  <2> DEFINE pc == IF present = TRUE THEN "delete" ELSE "after"
             j == [job[p] EXCEPT !.pc = pc, !.force = ~owned, !.deleted = present = FALSE]
  <2>2. job' = [job EXCEPT ![p] = j] /\ Quiet /\ job[p].pc = "cleanup"
    BY <1>1, <1>6, <2>1, Still DEF Cleanup
  <2>3. pc \in {"delete", "after"} /\ pc \in Points /\ (~owned) \in BOOLEAN /\ (present = FALSE) \in BOOLEAN
    <3>1. pc \in {"delete", "after"} /\ pc \in Points
      BY DEF Points, E2EPoints
    <3>2. (~owned) \in BOOLEAN
      OBVIOUS
    <3>3. (present = FALSE) \in BOOLEAN
      OBVIOUS
    <3>4. QED
      BY <3>1, <3>2, <3>3
  <2> HIDE DEF pc
  <2>4. j \in Job
    BY <1>1, <2>3 DEF Job
  <2>5. j.op = job[p].op /\ j.run = job[p].run /\ j.pc = pc
    BY <1>1 DEF Job
  <2> HIDE DEF j
  <2>6. Same(p) /\ job'[p] = j
    BY <1>1, <2>2, <2>4, <2>5 DEF Same, Others
  <2>7. JobOK(p)'
    BY <1>1, <2>2, <2>3, <2>5, <2>6 DEF JobOK, Idle, E2EPoints
  <2>8. QED
    BY <2>2, <2>3, <2>5, <2>6, <2>7, TravelKeepsInv DEF Between
<1>7. CASE After(p)
  BY <1>7, PassingKeepsInv DEF After
<1>8. CASE Release(p)
  <2>1. Quiet /\ job[p].pc = "release" /\ job[p] # Idle
    BY <1>1, <1>8, Still DEF Release, Idle
  <2>2. CASE Owns(p)
    <3> DEFINE j == [job[p] EXCEPT !.pc = "remove", !.remove = <<"claim">>, !.back = "idle"]
    <3>1. <<"claim">> \in Removals("idle") /\ <<"claim">> \in Removals("delete")
      BY DEF Removals
    <3>2. j \in Job
      BY <1>1, <3>1 DEF Job, Points
    <3>3. /\ j.pc = "remove" /\ j.op = job[p].op /\ j.run = job[p].run
          /\ j.remove = <<"claim">> /\ j.back = "idle"
      BY <1>1 DEF Job
    <3>4. job' = [job EXCEPT ![p] = j]
      BY <1>1, <1>8, <2>2 DEF Release
    <3> HIDE DEF j
    <3>5. Same(p) /\ job'[p] = j
      BY <1>1, <3>2, <3>3, <3>4 DEF Same, Others
    <3>6. JobOK(p)'
      BY <1>1, <2>1, <3>1, <3>3, <3>5 DEF JobOK, Idle, E2EPoints
    <3>7. ClaimOK(p)'
      BY <1>1, <2>1, <2>2, <3>3, <3>5 DEF ClaimOK, MadeBy, Before, Leaving, Quiet, Owns
    <3>8. QED
      BY <2>1, <3>5, <3>6, <3>7, GoKeepsInv
  <2>3. CASE ~Owns(p)
    BY <1>8, <2>1, <2>3, EndKeepsInv DEF Release, Owns
  <2>4. QED
    BY <2>2, <2>3
<1>9. QED
  BY <1>2, <1>3, <1>4, <1>5, <1>6, <1>7, <1>8 DEF E2E

-----------------------------------------------------------------------------
(* Commands that start or die, and clusters made by hand                   *)

LEMMA CrashKeepsInv ==
  ASSUME QuickInv, NEW p \in Procs, Crash(p)
  PROVE  QuickInv'
<1>1. /\ job[p] # Idle /\ End(p) /\ killed' = killed \cup {job[p].run} /\ World
      /\ UNCHANGED <<files, counters, clean, robbed>> /\ job[p].run \in 1..commands
  BY WorldFacts, DistinctRuns DEF Crash
<1>2. CASE UNCHANGED cluster
  <2>1. Quiet
    BY <1>1, <1>2 DEF Quiet, World, files, counters, Ids
  <2>2. QED
    BY <1>1, <2>1, EndKeepsInv
<1>3. CASE job[p].pc = "create" /\ cluster = None /\ cluster' = NewCluster(p)
  BY <1>1, <1>3, CreatingKeepsInv
<1>4. QED
  BY <1>2, <1>3 DEF Crash

LEMMA StartKeepsInv ==
  ASSUME QuickInv, NEW p \in Procs, NEW op \in {"provision", "delete", "reset", "e2e"},
         NEW force \in BOOLEAN, NEW keep \in BOOLEAN, Start(p, op, force, keep)
  PROVE  QuickInv'
<1> DEFINE run == commands + 1
           pc == CASE op = "provision" -> "provision" [] op = "e2e" -> "presence" [] OTHER -> "delete"
           j == [Idle EXCEPT !.op = op, !.run = run, !.force = force, !.keep = keep, !.pc = pc]
<1>1. /\ JobOK(p) /\ ClaimOK(p) /\ job[p] = Idle /\ World /\ job \in [Procs -> Job]
      /\ commands' = run /\ run \in Nat \ {0} /\ commands \in Nat /\ run \in 0..MaxCommands
      /\ job' = [job EXCEPT ![p] = j]
      /\ UNCHANGED <<cluster, files, foreign, fresh, history>>
  BY JobTypes, WorldFacts, QuickAssumption DEF Start, QuickInv, Types, World
<1>2. \A q \in Procs : job[q].run \in 0..commands /\ job[q].run # run
  BY <1>1 DEF Job
<1>3. Job \subseteq Job' /\ Ids' = Ids
  BY <1>1 DEF Job, Ids
<1>4. /\ pc \in {"provision", "presence", "delete"} /\ pc \in Points
      /\ pc \in E2EPoints => op = "e2e"
      /\ op = "e2e" => pc = "presence"
  BY DEF Points, ProvisionPoints, E2EPoints
<1> HIDE DEF pc
<1>5. j \in Job' /\ j.op = op /\ j.run = run /\ j.pc = pc
  <2>1. Idle \in Job' /\ run \in 0..commands'
    BY <1>1, <1>3, IdleType DEF QuickInv
  <2>2. QED
    BY <1>4, <2>1 DEF Job, Idle
<1> HIDE DEF j, run
<1>6. Others(p) /\ job' \in [Procs -> Job'] /\ job'[p] = j
  BY <1>1, <1>3, <1>5 DEF Others
<1>7. JobOK(p)'
  BY <1>1, <1>4, <1>5, <1>6 DEF JobOK, Idle
<1>8. World'
  BY <1>1, <1>3 DEF World, files, history, run
<1>9. claim # run /\ ~(cluster # None /\ cluster.run = run) /\ run \notin clean
  BY <1>1, QuickAssumption DEF World, run
<1>10. ClaimOK(p)'
  BY <1>1, <1>4, <1>5, <1>6, <1>9 DEF ClaimOK, MadeBy, Before, Leaving, files, history
<1>11. CleanedRunsLeaveNothing'
  <2>1. claim # None /\ Runs(claim) => Runs(claim)'
    BY <1>1, <1>6, QuickAssumption DEF Runs, Others, Idle, World, files
  <2>2. QED
    BY <1>1, <2>1 DEF QuickInv, CleanedRunsLeaveNothing, files, history
<1>12. QED
  BY <1>1, <1>2, <1>5, <1>6, <1>7, <1>8, <1>10, <1>11, StepKeepsInv DEF files, history

LEMMA CreateForeignKeepsInv ==
  ASSUME QuickInv, CreateForeign
  PROVE  QuickInv'
<1>1. /\ World /\ cluster'.run = 0 /\ fresh' = fresh + 1 /\ job' = job
      /\ UNCHANGED <<files, commands, history>> /\ cluster' = [id |-> fresh, run |-> 0, marker |-> None]
  BY WorldFacts DEF CreateForeign
<1>2. Ids \subseteq Ids' /\ fresh \in Ids' /\ Job \subseteq Job'
  BY <1>1 DEF World, Ids, Job
<1>3. World'
  BY <1>1, <1>2 DEF CreateForeign, World, files, history
<1>4. ASSUME NEW p \in Procs PROVE JobOK(p)' /\ ClaimOK(p)'
  <2>1. JobOK(p) /\ ClaimOK(p)
    BY JobTypes
  <2>2. MadeBy(p)' => job[p].op # "e2e"
    BY <1>1, <2>1 DEF MadeBy, JobOK, Idle
  <2>3. QED
    BY <1>1, <2>1, <2>2 DEF JobOK, ClaimOK, Before, Leaving, files, history
<1>5. ClaimsAreHeld' /\ RunsAreDistinct'
  BY <1>1, <1>4 DEF ClaimsAreHeld, QuickInv, RunsAreDistinct
<1>6. Jobs'
  BY <1>1, <1>2 DEF Jobs, QuickInv, Types
<1>7. Types'
  BY <1>3, <1>5, <1>6, WorldFacts, PTL
<1>8. CleanedRunsLeaveNothing'
  <2>1. 0 \notin clean
    BY <1>1 DEF World
  <2>2. QED
    BY <1>1, <2>1 DEF QuickInv, CleanedRunsLeaveNothing, Runs, files, history
<1>9. QED
  BY <1>5, <1>7, <1>8 DEF QuickInv

LEMMA NextKeepsInv == QuickInv /\ [Next]_vars => QuickInv'
<1>1. ASSUME QuickInv, Next PROVE QuickInv'
  BY <1>1, StartKeepsInv, ProvisionKeepsInv, DeleteKeepsInv, E2EKeepsInv, CrashKeepsInv,
     CreateForeignKeepsInv DEF Next
<1>2. ASSUME QuickInv, UNCHANGED vars PROVE QuickInv'
  BY <1>2 DEF vars, files, counters, history, QuickInv, Types, TypeOK, RunIds, Ids, Job, RunsAreDistinct,
     ClaimsAreHeld, JobOK, ClaimOK, MadeBy, Before, Leaving, CleanedRunsLeaveNothing, Runs
<1>3. QED
  BY <1>1, <1>2

LEMMA InitInv == Init => QuickInv
<1> SUFFICES ASSUME Init PROVE QuickInv
  OBVIOUS
<1>1. World /\ \A p \in Procs : job[p] = Idle
  BY QuickAssumption DEF Init, World
<1>2. Idle \in Job
  BY <1>1 DEF World, Idle, Job, Points, Removals
<1>3. Jobs
  BY <1>2 DEF Init, Jobs
<1>4. ClaimsAreHeld /\ RunsAreDistinct
  BY <1>1, QuickAssumption
     DEF Init, ClaimsAreHeld, JobOK, ClaimOK, MadeBy, Before, Leaving, RunsAreDistinct, Idle, E2EPoints
<1>5. QED
  BY <1>1, <1>3, <1>4, WorldFacts DEF Init, QuickInv, CleanedRunsLeaveNothing

-----------------------------------------------------------------------------
(* The theorems                                                            *)

\* The invariant of claims and runs, however the commands on a name interleave.
THEOREM QuickInvariance == Spec => []QuickInv
BY InitInv, NextKeepsInv, PTL DEF Spec

\* Cluster, files, jobs and counters have their types.
THEOREM QuickTypeCorrect == Spec => []TypeOK
<1>1. QuickInv => TypeOK
  BY DEF QuickInv, Types
<1>2. QED
  BY <1>1, QuickInvariance, PTL

\* A release gate whose cleanup passed has left no cluster behind, and no claim
\* is left without a run, but by a process that was killed.
THEOREM QuickCleanedRunsLeaveNothing == Spec => []CleanedRunsLeaveNothing
<1>1. QuickInv => CleanedRunsLeaveNothing
  BY DEF QuickInv
<1>2. QED
  BY <1>1, QuickInvariance, PTL

\* Release gates on one name do not delete the cluster of each other while the
\* claims are their own.
THEOREM QuickRunsAreIsolated == Spec => E2ERunsAreIsolated
<1>1. ASSUME QuickInv, NEW p \in Procs, NEW q \in Procs \ {p},
             job[p].op = "e2e", cluster # None, KindDelete(p),
             job[q].op = "e2e", job[q].run = cluster.run
      PROVE  {job[p].run, cluster.run} \cap robbed # {}
  <2>1. ClaimOK(p) /\ ClaimOK(q) /\ job[p].pc = "kind-delete" /\ JobOK(p)
    BY <1>1, JobTypes DEF KindDelete
  <2>2. claim = job[p].run \/ job[p].run \in robbed
    BY <1>1, <2>1 DEF ClaimOK, Before
  <2>3. claim = job[q].run \/ job[q].run \in robbed
    BY <1>1, <2>1 DEF ClaimOK, MadeBy
  <2>4. job[p].run # job[q].run
    BY <1>1, <2>1 DEF QuickInv, RunsAreDistinct, JobOK
  <2>5. QED
    BY <1>1, <2>2, <2>3, <2>4
<1>2. QuickInv /\ [Next]_vars =>
        [\A p \in Procs :
           /\ job[p].op = "e2e" /\ cluster # None /\ cluster' = None
           /\ KindDelete(p)
           => \/ cluster.run = job[p].run
              \/ ~\E q \in Procs \ {p} : job[q].op = "e2e" /\ job[q].run = cluster.run
              \/ {job[p].run, cluster.run} \cap robbed # {}]_vars
  BY <1>1
<1>3. QED
  BY <1>2, QuickInvariance, PTL DEF Spec, E2ERunsAreIsolated

=============================================================================
