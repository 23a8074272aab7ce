--------------------------- MODULE Converge_proofs ---------------------------
(***************************************************************************)
(* Theorems about Converge, for any program that keeps ProgramAssumption.  *)
(* What makes its safety inductive is where the run stands: which tokens   *)
(* may be live at a position (TokensOK), which pieces the commands before  *)
(* it have made or checked (CoverageOK), and which phase the record has    *)
(* reached (RecordOK).                                                     *)
(***************************************************************************)
EXTENDS Converge, TLAPS

B == Position("bootstrap")
G == Position("generate")
V == Position("revoke")

Running == job.pc = "run"

JobOK ==
  /\ job.pc = "idle" => job = Idle
  /\ job.pc = "observe" => job = [Idle EXCEPT !.pc = "observe"]
  /\ Running => job.after = "next" /\ job.facts \in Facts /\ observations = job.facts
  /\ job.pc = "revoke" => job.after \in {"degrade", "return"} /\ job.at \in G..(V - 1)

\* The token of the join lives from its generation to its revocation, and the
\* bootstrap has removed every other one before.
TokensOK ==
  /\ Running /\ job.at > B /\ job.at <= G => tokens = {}
  /\ Running /\ job.at > G /\ job.at <= V => tokens \subseteq {"join"}
  /\ Running /\ job.at > V => tokens = {}
  /\ "cluster-ready" \in passed =>
       tokens = {} /\ job.pc \notin {"observe", "revoke"} /\ (Running => job.at > V)
  /\ "join" \in tokens /\ ~excused =>
       job.pc = "revoke" \/ (Running /\ job.at > G /\ job.at <= V)

\* What a run has passed it has verified, and not undone.
CoverageOK ==
  /\ job.pc = "observe" => passed = {}
  /\ Running => Covered(job.at - 1) \subseteq good \cup spoiled
  /\ job.pc \in {"run", "revoke"} =>
       \A i \in Records : Program[i].phase \in passed => i < job.at
  /\ PhasesCertifyTheMachines

\* A run that has passed a record has left its phase, or a later one, in the file.
RecordOK ==
  Running => \A i \in Records :
    i < job.at => phase # "degraded" /\ Rank(phase) >= Rank(Program[i].phase)

ConvergeInv == TypeOK /\ JobOK /\ TokensOK /\ CoverageOK /\ RecordOK

-----------------------------------------------------------------------------
(* The program                                                             *)

Size == Len(Program)

LEMMA ProgramShape ==
  /\ Size \in Nat \ {0} /\ DOMAIN Program = 1..Size
  /\ Records \subseteq 1..Size /\ Size \in Records
  /\ \A i \in Records : Program[i].op = "record" /\ Program[i].phase \in RecordedPhases
  /\ \A i \in (1..Size) \ Records : Program[i] \in Commands
<1> DEFINE Marks == [op : {"record"}, phase : RecordedPhases]
<1>1. Program \in Seq(Commands \cup Marks) /\ Size \in Records
  BY ProgramAssumption DEF Size
<1>2. Size \in Nat /\ DOMAIN Program = 1..Size
  BY <1>1 DEF Size
<1>3. ASSUME NEW i \in 1..Size
      PROVE  /\ Program[i] \in Commands \cup Marks
             /\ i \in Records <=> Program[i].op = "record"
  <2>1. Program[i] \in Commands \cup Marks
    BY <1>1, <1>2
  <2>2. QED
    BY <1>2, <2>1 DEF Records
<1>4. \A c \in Commands : c.op # "record"
  BY DEF Commands
<1>5. Records \subseteq 1..Size
  BY <1>2 DEF Records
<1>6. \A i \in Records : Program[i].op = "record" /\ Program[i].phase \in RecordedPhases
  BY <1>3, <1>4, <1>5
<1>7. \A i \in (1..Size) \ Records : Program[i] \in Commands
  BY <1>3
<1>8. QED
  BY <1>1, <1>2, <1>5, <1>6, <1>7

\* Where the commands of the join are.
LEMMA Places ==
  /\ B \in 1..Size /\ G \in 1..Size /\ V \in 1..Size /\ B < G /\ G < V
  /\ \A i \in 1..Size :
       /\ Program[i].op = "bootstrap" <=> i = B
       /\ Program[i].op = "generate" <=> i = G
       /\ Program[i].op = "revoke" <=> i = V
       /\ Program[i].op = "join" <=> G < i /\ i < V
       /\ Program[i].op = "record" <=> i \in Records
<1>1. DOMAIN Program = 1..Size
  BY ProgramShape
<1>2. ASSUME NEW op \in {"bootstrap", "generate", "revoke"}
      PROVE  /\ Position(op) \in 1..Size
             /\ \A i \in 1..Size : Program[i].op = op <=> i = Position(op)
  <2>1. PICK i \in DOMAIN Program : \A j \in DOMAIN Program : Program[j].op = op <=> j = i
    BY ProgramAssumption
  <2>2. Position(op) \in DOMAIN Program /\ Program[Position(op)].op = op
    BY <2>1 DEF Position
  <2>3. QED
    BY <1>1, <2>1, <2>2
<1>3. B < G /\ G < V
  BY ProgramAssumption DEF B, G, V
<1>4. ASSUME NEW i \in 1..Size
      PROVE  /\ Program[i].op = "join" <=> G < i /\ i < V
             /\ Program[i].op = "record" <=> i \in Records
  <2>1. Program[i].op = "join" <=> i > G /\ i < V
    BY <1>1, ProgramAssumption DEF G, V
  <2>2. G \in Nat /\ V \in Nat /\ i \in Nat
    BY <1>2, ProgramShape DEF G, V
  <2>3. QED
    BY <1>1, <2>1, <2>2 DEF Records
<1>5. QED
  BY <1>2, <1>3, <1>4 DEF B, G, V

\* A command is followed by another entry.
LEMMA CommandFacts ==
  ASSUME NEW n \in 1..Size, Program[n].op # "record"
  PROVE  /\ n \notin Records /\ n + 1 \in 1..Size
         /\ Program[n].makes \subseteq Pieces /\ Program[n].needs \subseteq Pieces
         /\ Covered(n) = Covered(n - 1) \cup Program[n].makes \cup Program[n].needs
<1>1. n \notin Records /\ n # Size /\ Size \in Nat
  BY ProgramShape
<1>2. n + 1 \in 1..Size
  BY <1>1
<1>3. n \in (1..Size) \ Records /\ Pieces = Covered(Size)
  BY <1>1 DEF Pieces, Size
<1>4. Program[n].makes \subseteq Pieces /\ Program[n].needs \subseteq Pieces
  BY <1>3 DEF Covered
<1>5. (1..n) \ Records = ((1..(n - 1)) \ Records) \cup {n}
  BY <1>1
<1>6. Covered(n) = Covered(n - 1) \cup Program[n].makes \cup Program[n].needs
  BY <1>5 DEF Covered
<1>7. QED
  BY <1>1, <1>2, <1>4, <1>6

\* A record covers nothing new, and none covers more than it follows.
LEMMA RecordFacts ==
  ASSUME NEW n \in Records
  PROVE  /\ n \in 1..Size /\ Covered(n) = Covered(n - 1)
         /\ n # Size => n + 1 \in 1..Size
         /\ \A i \in Records : Program[i].phase = Program[n].phase => i = n
         /\ \A i \in Records : i < n => Rank(Program[i].phase) < Rank(Program[n].phase)
<1>1. n \in 1..Size /\ Size \in Nat
  BY ProgramShape
<1>2. (1..n) \ Records = (1..(n - 1)) \ Records
  BY <1>1
<1>3. Covered(n) = Covered(n - 1)
  BY <1>2 DEF Covered
<1>4. \A i \in Records : i < n => Rank(Program[i].phase) < Rank(Program[n].phase)
  BY ProgramAssumption
<1>5. ASSUME NEW i \in Records, Program[i].phase = Program[n].phase
      PROVE  i = n
  <2>1. i \in 1..Size /\ \A p : Rank(p) \in Nat
    BY ProgramShape DEF Rank
  <2>2. ~(i < n) /\ ~(n < i)
    BY <1>5, <2>1, ProgramAssumption
  <2>3. QED
    BY <1>1, <2>1, <2>2
<1>6. QED
  BY <1>1, <1>3, <1>4, <1>5

LEMMA CoveredAtStart == Covered(0) = {}
  BY DEF Covered

\* What a command that did not finish leaves alone.
LEMMA HalfDoneFacts ==
  ASSUME TypeOK, NEW c, c.makes \subseteq Pieces, HalfDone(c)
  PROVE  /\ good' \subseteq Pieces /\ stuck' \subseteq Kept /\ good' \cap stuck' = {}
         /\ good \ c.makes \subseteq good'
<1>1. CASE UNCHANGED <<good, stuck, breaks>>
  BY <1>1 DEF TypeOK
<1>2. CASE good' = good \cup (c.makes \ stuck) /\ stuck' = stuck
  BY <1>2 DEF TypeOK
<1>3. CASE good' = good \ c.makes /\ stuck' = stuck \cup (c.makes \cap Kept)
  BY <1>3 DEF TypeOK
<1>4. QED
  BY <1>1, <1>2, <1>3 DEF HalfDone

-----------------------------------------------------------------------------
(* Types                                                                   *)

\* The commands a run can be at, and the two ways it can pass an entry.
LEMMA AtCommand ==
  ASSUME TypeOK, Current.op # "record"
  PROVE  /\ job.at \in 1..Size /\ job.at \notin Records /\ job.at + 1 \in 1..Size
         /\ Current.makes \subseteq Pieces /\ Current.needs \subseteq Pieces
<1>1. job.at \in 1..Size
  BY DEF TypeOK, Size
<1>2. QED
  BY <1>1, CommandFacts DEF Current

LEMMA TypesStayOnRun ==
  ASSUME ConvergeInv, Begin \/ ObserveFails \/ Run \/ RunFails \/ (\E f \in Facts : Observe(f))
  PROVE  TypeOK'
<1> USE DEF ConvergeInv, Size
<1>0. TypeOK /\ Size \in Nat \ {0}
  BY ProgramShape
<1>1. CASE Begin
  <2>1. tokens' \subseteq {"init", "join", "older"}
    BY <1>1 DEF Begin, TypeOK
  <2>2. job' = [pc |-> "observe", at |-> 1, facts |-> None, after |-> "next"]
    BY <1>1 DEF Begin, Idle
  <2>3. job' \in [pc : {"idle", "observe", "run", "revoke", "degrade"}, at : 1..Size,
                  facts : Facts \cup {None}, after : {"next", "degrade", "return"}]
    BY <1>0, <2>2
  <2>4. phase' = phase /\ observations' = observations /\ good' = good /\ stuck' = stuck
    BY <1>1 DEF Begin, lab
  <2>5. up' = Roles /\ passed' = {} /\ spoiled' = {} /\ excused' = FALSE
    BY <1>1 DEF Begin
  <2>6. QED
    BY <1>0, <2>1, <2>3, <2>4, <2>5 DEF TypeOK
<1>2. CASE ObserveFails
  BY <1>0, <1>2 DEF ObserveFails, TypeOK, Give, lab, guests, history
<1>3. CASE Run
  <2>1. Current.op # "record" /\ Current.makes \cap stuck = {}
    BY <1>3 DEF Run, Doing
  <2>2. job.at + 1 \in 1..Size /\ Current.makes \subseteq Pieces
    BY <2>1, AtCommand
  <2>3. QED
    BY <1>3, <2>1, <2>2 DEF Run, TypeOK, Next1, lab, history
<1>4. CASE RunFails
  <2>1. Current.op # "record"
    BY <1>4 DEF RunFails, Doing
  <2>2. good' \subseteq Pieces /\ stuck' \subseteq Kept /\ good' \cap stuck' = {}
    BY <1>4, <2>1, AtCommand, HalfDoneFacts DEF RunFails
  <2>3. QED
    BY <1>4, <2>2 DEF RunFails, TypeOK, Give, lab, history
<1>5. ASSUME NEW f \in Facts, Observe(f)
      PROVE  TypeOK'
  BY <1>5 DEF Observe, TypeOK, guests, history
<1>6. QED
  BY <1>1, <1>2, <1>3, <1>4, <1>5

LEMMA TypesStayOnJoin ==
  ASSUME ConvergeInv,
         \/ Bootstrap \/ BootstrapFails \/ GenerateJoinMaterial \/ GenerateFails
         \/ Join \/ JoinFails \/ Interrupt \/ RevokeToken \/ RevokeFails
  PROVE  TypeOK'
<1> USE DEF ConvergeInv, Size
<1>0. TypeOK /\ Size \in Nat \ {0}
  BY ProgramShape
<1>1. CASE Bootstrap \/ Join
  <2>1. Current.op # "record" /\ Current.makes \cap stuck = {}
    BY <1>1 DEF Bootstrap, Join, Doing
  <2>2. job.at + 1 \in 1..Size /\ Current.makes \subseteq Pieces
    BY <2>1, AtCommand
  <2>3. QED
    BY <1>1, <2>1, <2>2 DEF Bootstrap, Join, TypeOK, Next1, lab, history
<1>2. CASE BootstrapFails \/ JoinFails \/ Interrupt
  <2>1. Current.op # "record"
    BY <1>2 DEF BootstrapFails, JoinFails, Interrupt, Doing
  <2>2. good' \subseteq Pieces /\ stuck' \subseteq Kept /\ good' \cap stuck' = {}
    BY <1>2, <2>1, AtCommand, HalfDoneFacts DEF BootstrapFails, JoinFails, Interrupt
  <2>3. CASE BootstrapFails
    BY <2>2, <2>3 DEF BootstrapFails, TypeOK, Give, lab, history
  <2>4. CASE JoinFails \/ Interrupt
    BY <2>2, <2>4 DEF JoinFails, Interrupt, TypeOK, lab, history
  <2>5. QED
    BY <1>2, <2>3, <2>4
<1>3. CASE GenerateJoinMaterial
  <2>1. job.at + 1 \in 1..Size
    BY <1>3, AtCommand DEF GenerateJoinMaterial, Doing
  <2>2. QED
    BY <1>3, <2>1 DEF GenerateJoinMaterial, TypeOK, Next1, Give, lab
<1>4. CASE GenerateFails
  BY <1>4 DEF GenerateFails, TypeOK, Give, lab
<1>5. CASE RevokeToken
  <2>1. Doing("revoke") \/ job.after # "next"
    BY <1>5 DEF RevokeToken, Revoking, JobOK
  <2>2. Doing("revoke") => job.at + 1 \in 1..Size
    BY AtCommand DEF Doing
  <2>3. job' \in [pc : {"idle", "observe", "run", "revoke", "degrade"}, at : 1..Size,
                  facts : Facts \cup {None}, after : {"next", "degrade", "return"}]
    <3>1. CASE job.after = "next"
      BY <1>5, <2>1, <2>2, <3>1 DEF RevokeToken, Afterwards, TypeOK, Next1
    <3>2. CASE job.after = "degrade"
      BY <1>5, <3>2 DEF RevokeToken, Afterwards, TypeOK, Give
    <3>3. CASE job.after = "return"
      BY <1>0, <1>5, <3>3 DEF RevokeToken, Afterwards, Idle
    <3>4. QED
      BY <3>1, <3>2, <3>3 DEF TypeOK
  <2>4. QED
    BY <1>5, <2>3 DEF RevokeToken, TypeOK, lab, history
<1>6. CASE RevokeFails
  BY <1>0, <1>6 DEF RevokeFails, TypeOK, Give, Idle, lab
<1>7. QED
  BY <1>1, <1>2, <1>3, <1>4, <1>5, <1>6

LEMMA TypesStayOtherwise ==
  ASSUME ConvergeInv,
         \/ RecordPhase \/ MarkDegraded \/ Crash
         \/ \E t \in {"init", "join", "older"} : TokenExpires(t)
         \/ \E p \in Pieces : Breaks(p)
         \/ \E r \in Roles : VmStops(r)
         \/ UNCHANGED vars
  PROVE  TypeOK'
<1> USE DEF ConvergeInv, Size
<1>0. TypeOK /\ Size \in Nat \ {0} /\ RecordedPhases \subseteq Phases
  BY ProgramShape DEF RecordedPhases, Phases
<1>1. CASE RecordPhase
  <2>1. job.at \in Records
    BY <1>1, Places DEF RecordPhase, Doing, Current, TypeOK
  <2>2. Current.phase \in RecordedPhases /\ (job.at # Size => job.at + 1 \in 1..Size)
    BY <2>1, ProgramShape, RecordFacts DEF Current
  <2>3. QED
    BY <1>0, <1>1, <2>2 DEF RecordPhase, TypeOK, Idle, Next1, guests
<1>2. CASE MarkDegraded
  BY <1>0, <1>2 DEF MarkDegraded, TypeOK, Idle, Phases, guests, history
<1>3. CASE Crash
  <2>1. good' \subseteq Pieces /\ stuck' \subseteq Kept /\ good' \cap stuck' = {}
    <3>1. CASE job.pc = "run" /\ Current.op \in {"make", "check", "bootstrap", "join"}
      BY <1>3, <3>1, AtCommand, HalfDoneFacts DEF Crash
    <3>2. CASE UNCHANGED <<good, stuck, breaks>>
      BY <3>2 DEF TypeOK
    <3>3. QED
      BY <1>3, <3>1, <3>2 DEF Crash
  <2>2. tokens' \subseteq {"init", "join", "older"}
    BY <1>3 DEF Crash, Leaves, TypeOK
  <2>3. QED
    BY <1>0, <1>3, <2>1, <2>2 DEF Crash, TypeOK, Idle, lab
<1>4. ASSUME NEW t \in {"init", "join", "older"}, TokenExpires(t)
      PROVE  TypeOK'
  BY <1>4 DEF TokenExpires, TypeOK, lab, history
<1>5. ASSUME NEW p \in Pieces, Breaks(p)
      PROVE  TypeOK'
  BY <1>5 DEF Breaks, TypeOK, lab
<1>6. ASSUME NEW r \in Roles, VmStops(r)
      PROVE  TypeOK'
  BY <1>6 DEF VmStops, TypeOK, lab, history
<1>7. CASE UNCHANGED vars
  BY <1>7 DEF TypeOK, vars, lab, guests, history
<1>8. QED
  BY <1>1, <1>2, <1>3, <1>4, <1>5, <1>6, <1>7

LEMMA TypesStay == ConvergeInv /\ [Next]_vars => TypeOK'
  BY TypesStayOnRun, TypesStayOnJoin, TypesStayOtherwise DEF Next

-----------------------------------------------------------------------------
(* The run and its tokens                                                  *)

Plain == {"make", "check", "record"}

\* Away from the join no token may change.
LEMMA PlainFacts ==
  ASSUME TypeOK, Current.op \in Plain
  PROVE  /\ job.at \in 1..Size /\ job.at \notin {B, G, V} /\ ~(G < job.at /\ job.at < V)
         /\ {B, G, V} \subseteq 1..Size /\ 1..Size \subseteq Nat /\ B < G /\ G < V
<1>1. job.at \in 1..Size /\ 1..Size \subseteq Nat
  BY ProgramShape DEF TypeOK, Size
<1>2. QED
  BY <1>1, Places DEF Plain, Current

\* After the revocation the run goes on, or ends as the join did.
LEMMA AfterTheRevocation ==
  ASSUME TypeOK, JobOK, RevokeToken
  PROVE  \/ Doing("revoke") /\ job' = Next1
         \/ job.pc = "revoke" /\ (Give("degrade") \/ job' = Idle)
<1>1. CASE Doing("revoke")
  <2>1. job.after = "next"
    BY <1>1 DEF Doing, JobOK, Running
  <2>2. QED
    BY <1>1, <2>1 DEF RevokeToken, Afterwards
<1>2. CASE job.pc = "revoke"
  <2>1. job.after \in {"degrade", "return"}
    BY <1>2 DEF JobOK
  <2>2. QED
    BY <1>2, <2>1 DEF RevokeToken, Afterwards
<1>3. QED
  BY <1>1, <1>2 DEF RevokeToken, Revoking

LEMMA JobStays == ConvergeInv /\ [Next]_vars => JobOK'
<1> SUFFICES ASSUME ConvergeInv, [Next]_vars
             PROVE  JobOK'
  OBVIOUS
<1> USE DEF ConvergeInv, Running
<1>0. TypeOK /\ JobOK
  OBVIOUS
<1>j. /\ {B, G, V} \subseteq 1..Size /\ 1..Size \subseteq Nat /\ B < G /\ G < V
      /\ job.at \in 1..Size
  BY Places, ProgramShape DEF TypeOK, Size
<1>t. job = [pc |-> job.pc, at |-> job.at, facts |-> job.facts, after |-> job.after]
  BY DEF TypeOK
<1>1. CASE Begin
  BY <1>1 DEF Begin, JobOK, Idle
<1>2. CASE ObserveFails \/ RunFails \/ BootstrapFails \/ GenerateFails
  <2>1. job'.pc = "degrade"
    BY <1>2, <1>t DEF ObserveFails, RunFails, BootstrapFails, GenerateFails, Give
  <2>2. QED
    BY <2>1 DEF JobOK
<1>3. ASSUME NEW f \in Facts, Observe(f)
      PROVE  JobOK'
  BY <1>0, <1>3 DEF Observe, JobOK, Idle
<1>4. CASE Run \/ Bootstrap \/ Join
  <2>1. job.pc = "run" /\ job' = Next1 /\ observations' = observations
    BY <1>4 DEF Run, Bootstrap, Join, Doing, lab
  <2>2. QED
    BY <1>0, <1>t, <2>1 DEF JobOK, Next1
<1>5. CASE GenerateJoinMaterial
  <2>1. job.pc = "run" /\ job.at = G /\ observations' = observations
    BY <1>5, <1>j, Places DEF GenerateJoinMaterial, Doing, Current, lab
  <2>2. CASE job' = Next1
    BY <1>0, <1>t, <2>1, <2>2 DEF JobOK, Next1
  <2>3. CASE job' = [job EXCEPT !.pc = "revoke", !.after = "degrade"]
    BY <1>j, <1>t, <2>1, <2>3 DEF JobOK
  <2>4. CASE Give("degrade")
    BY <1>t, <2>4 DEF JobOK, Give
  <2>5. QED
    BY <1>5, <2>2, <2>3, <2>4 DEF GenerateJoinMaterial
<1>6. CASE JoinFails \/ Interrupt
  <2>1. G < job.at /\ job.at < V
    BY <1>6, <1>j, Places DEF JoinFails, Interrupt, Doing, Current
  <2>2. job'.pc = "revoke" /\ job'.after \in {"degrade", "return"} /\ job'.at = job.at
    BY <1>6, <1>t DEF JoinFails, Interrupt
  <2>3. QED
    BY <1>j, <2>1, <2>2 DEF JobOK
<1>7. CASE RevokeToken
  <2>1. CASE Doing("revoke") /\ job' = Next1
    BY <1>0, <1>t, <1>7, <2>1 DEF RevokeToken, Doing, JobOK, Next1, lab
  <2>2. CASE Give("degrade") \/ job' = Idle
    BY <1>t, <2>2 DEF Give, Idle, JobOK
  <2>3. QED
    BY <1>0, <1>7, <2>1, <2>2, AfterTheRevocation
<1>8. CASE RevokeFails
  <2>1. Give("degrade") \/ job' = Idle
    BY <1>8 DEF RevokeFails
  <2>2. QED
    BY <1>t, <2>1 DEF Give, Idle, JobOK
<1>9. CASE RecordPhase
  <2>1. job.pc = "run" /\ observations' = observations /\ job' \in {Idle, Next1}
    BY <1>9 DEF RecordPhase, Doing
  <2>2. QED
    BY <1>0, <1>t, <2>1 DEF JobOK, Next1, Idle
<1>10. CASE MarkDegraded \/ Crash
  BY <1>10 DEF MarkDegraded, Crash, JobOK, Idle
<1>11. ASSUME \/ \E t \in {"init", "join", "older"} : TokenExpires(t)
              \/ \E p \in Pieces : Breaks(p)
              \/ \E r \in Roles : VmStops(r)
              \/ UNCHANGED vars
       PROVE  JobOK'
  <2>1. job' = job /\ observations' = observations
    BY <1>11 DEF TokenExpires, Breaks, VmStops, vars, lab
  <2>2. QED
    BY <1>0, <2>1 DEF JobOK
<1>12. QED
  BY <1>1, <1>2, <1>3, <1>4, <1>5, <1>6, <1>7, <1>8, <1>9, <1>10, <1>11 DEF Next

LEMMA TokensStay == ConvergeInv /\ [Next]_vars => TokensOK'
<1> SUFFICES ASSUME ConvergeInv, [Next]_vars
             PROVE  TokensOK'
  OBVIOUS
<1> USE DEF ConvergeInv, Running
<1>0. TypeOK /\ JobOK /\ TokensOK
  OBVIOUS
<1>j. /\ {B, G, V} \subseteq 1..Size /\ 1..Size \subseteq Nat /\ B < G /\ G < V
      /\ job.at \in 1..Size
  BY Places, ProgramShape DEF TypeOK, Size
<1>t. job = [pc |-> job.pc, at |-> job.at, facts |-> job.facts, after |-> job.after]
  BY DEF TypeOK
<1>1. CASE Begin
  <2>1. "join" \notin tokens' /\ passed' = {} /\ job'.pc = "observe"
    BY <1>1 DEF Begin, Idle
  <2>2. QED
    BY <2>1 DEF TokensOK
\* A run that stops where no join token is owed.
<1>2. CASE ObserveFails \/ RunFails \/ MarkDegraded
  <2>1. tokens' = tokens /\ passed' = passed /\ excused' = excused /\ job'.pc \in {"degrade", "idle"}
    BY <1>2, <1>t DEF ObserveFails, RunFails, MarkDegraded, Give, Idle, guests, history
  <2>2. job.pc \in {"observe", "degrade"} \/ (job.pc = "run" /\ ~(job.at > G /\ job.at <= V))
    <3>1. CASE RunFails
      BY <1>0, <3>1, PlainFacts DEF RunFails, Doing, Plain
    <3>2. QED
      BY <1>2, <3>1 DEF ObserveFails, MarkDegraded
  <2>3. "join" \in tokens => excused
    BY <1>0, <2>2 DEF TokensOK
  <2>4. "cluster-ready" \in passed => tokens = {}
    BY <1>0 DEF TokensOK
  <2>5. QED
    BY <2>1, <2>3, <2>4 DEF TokensOK
<1>3. ASSUME NEW f \in Facts, Observe(f)
      PROVE  TokensOK'
  <2>1. job.at = 1 /\ job.pc = "observe"
    BY <1>0, <1>3 DEF Observe, JobOK, Idle
  <2>2. job'.pc = "run" /\ job'.at = 1
    BY <1>3, <1>t, <2>1 DEF Observe
  <2>3. tokens' = tokens /\ passed' = passed /\ excused' = excused
    BY <1>3 DEF Observe, guests, history
  <2>4. "cluster-ready" \notin passed /\ ("join" \in tokens => excused)
    BY <1>0, <2>1 DEF TokensOK
  <2>5. ~(1 > B)
    BY <1>j
  <2>6. QED
    BY <1>j, <2>2, <2>3, <2>4, <2>5 DEF TokensOK
\* A run passes an entry that is none of the join.
<1>4. ASSUME NEW n \in Nat, n = job.at, job.pc = "run", Current.op \in Plain,
             tokens' = tokens, excused' = excused,
             job'.pc = "run" /\ job'.at = n + 1,
             "cluster-ready" \in passed' => "cluster-ready" \in passed \/ n > V
      PROVE  TokensOK'
  <2>1. n \notin {B, G, V} /\ ~(G < n /\ n < V)
    BY <1>0, <1>4, PlainFacts
  <2>2. "cluster-ready" \in passed' => tokens = {} /\ n > V
    BY <1>0, <1>4 DEF TokensOK
  <2>3. /\ n > B /\ n <= G => tokens = {}
        /\ n > V => tokens = {}
        /\ "join" \in tokens => excused
    BY <1>0, <1>4, <2>1, <1>j DEF TokensOK
  <2>4. /\ n + 1 > B /\ n + 1 <= G => n > B /\ n <= G
        /\ ~(n + 1 > G /\ n + 1 <= V)
        /\ n + 1 > V => n > V
        /\ n > V => n + 1 > V
    BY <1>j, <2>1
  <2>5. QED
    BY <1>4, <2>2, <2>3, <2>4 DEF TokensOK
<1>5. CASE Run
  <2>1. /\ job.pc = "run" /\ Current.op \in Plain /\ job'.pc = "run" /\ job'.at = job.at + 1
        /\ tokens' = tokens /\ excused' = excused /\ passed' = passed
    BY <1>5, <1>t DEF Run, Doing, Plain, Next1, history
  <2>2. QED
    BY <1>4, <1>j, <2>1
<1>6. CASE RecordPhase
  <2>1. /\ job.pc = "run" /\ Current.op \in Plain /\ tokens' = tokens /\ excused' = excused
        /\ passed' = passed \cup {Current.phase}
    BY <1>6 DEF RecordPhase, Doing, Plain, guests
  <2>2. job.at \in Records
    BY <1>6, <1>j, Places DEF RecordPhase, Doing, Current
  <2>3. "cluster-ready" \in passed' => "cluster-ready" \in passed \/ job.at > V
    <3>1. Current.phase = "cluster-ready" => V < job.at
      BY <2>2, ProgramAssumption DEF Current, V
    <3>2. QED
      BY <1>j, <2>1, <3>1
  <2>4. CASE job' = Next1
    BY <1>4, <1>j, <1>t, <2>1, <2>3, <2>4 DEF Next1
  <2>5. CASE job' = Idle
    <3>1. job.at \notin {B, G, V} /\ ~(G < job.at /\ job.at < V)
      BY <1>0, <2>1, PlainFacts
    <3>2. ("join" \in tokens => excused) /\ (job.at > V => tokens = {})
          /\ ("cluster-ready" \in passed => tokens = {})
      BY <1>0, <1>j, <2>1, <3>1 DEF TokensOK
    <3>3. "cluster-ready" \in passed' => tokens = {}
      BY <2>3, <3>2
    <3>4. QED
      BY <2>1, <2>5, <3>2, <3>3 DEF TokensOK, Idle
  <2>6. QED
    BY <1>6, <2>4, <2>5 DEF RecordPhase
<1>7. CASE Bootstrap \/ BootstrapFails
  <2>1. job.at = B /\ job.pc = "run"
    BY <1>7, <1>j, Places DEF Bootstrap, BootstrapFails, Doing, Current
  <2>2. /\ "cluster-ready" \notin passed /\ ("join" \in tokens => excused)
        /\ passed' = passed /\ excused' = excused
    BY <1>0, <1>7, <1>j, <2>1 DEF TokensOK, Bootstrap, BootstrapFails, history
  <2>3. CASE Bootstrap
    <3>1. tokens' = {}
      BY <2>3 DEF Bootstrap
    <3>2. QED
      BY <2>2, <3>1 DEF TokensOK
  <2>4. CASE BootstrapFails
    <3>1. "join" \in tokens' => "join" \in tokens
      BY <2>4 DEF BootstrapFails
    <3>2. job'.pc = "degrade"
      BY <2>4, <1>t DEF BootstrapFails, Give
    <3>3. QED
      BY <2>2, <3>1, <3>2 DEF TokensOK
  <2>5. QED
    BY <1>7, <2>3, <2>4
<1>8. CASE GenerateJoinMaterial \/ GenerateFails
  <2>1. job.at = G /\ job.pc = "run"
    BY <1>8, <1>j, Places DEF GenerateJoinMaterial, GenerateFails, Doing, Current
  <2>2. tokens = {} /\ "cluster-ready" \notin passed /\ passed' = passed
    BY <1>0, <1>8, <1>j, <2>1 DEF TokensOK, GenerateJoinMaterial, GenerateFails
  <2>3. tokens' \subseteq {"join"}
    BY <1>8, <2>2 DEF GenerateJoinMaterial, GenerateFails
  <2>4. \/ job'.pc = "run" /\ job'.at = G + 1
        \/ job'.pc = "revoke"
        \/ job'.pc = "degrade" /\ excused'
    BY <1>8, <1>t, <2>1 DEF GenerateJoinMaterial, GenerateFails, Next1, Give
  <2>5. G + 1 > G /\ G + 1 <= V /\ ~(G + 1 <= G) /\ ~(G + 1 > V)
    BY <1>j
  <2>6. QED
    BY <2>2, <2>3, <2>4, <2>5 DEF TokensOK
<1>9. CASE Join \/ JoinFails \/ Interrupt
  <2>1. G < job.at /\ job.at < V /\ job.pc = "run"
    BY <1>9, <1>j, Places DEF Join, JoinFails, Interrupt, Doing, Current
  <2>2. tokens \subseteq {"join"} /\ "cluster-ready" \notin passed
    BY <1>0, <1>j, <2>1 DEF TokensOK
  <2>3. tokens' = tokens /\ passed' = passed
    BY <1>9 DEF Join, JoinFails, Interrupt, history
  <2>4. (job'.pc = "run" /\ job'.at = job.at + 1) \/ job'.pc = "revoke"
    BY <1>9, <1>t, <2>1 DEF Join, JoinFails, Interrupt, Next1
  <2>5. job.at + 1 > G /\ job.at + 1 <= V /\ ~(job.at + 1 <= G) /\ ~(job.at + 1 > V)
    BY <1>j, <2>1
  <2>6. QED
    BY <2>2, <2>3, <2>4, <2>5 DEF TokensOK
<1>10. CASE RevokeToken \/ RevokeFails
  <2>1. (job.pc = "run" /\ job.at = V) \/ job.pc = "revoke"
    BY <1>10, <1>j, Places DEF RevokeToken, RevokeFails, Revoking, Doing, Current
  <2>2. "cluster-ready" \notin passed /\ passed' = passed /\ (job.pc = "run" => tokens \subseteq {"join"})
    BY <1>0, <1>10, <1>j, <2>1 DEF TokensOK, RevokeToken, RevokeFails, history
  <2>3. CASE RevokeToken
    <3>1. tokens' = tokens \ {"join"}
      BY <2>3 DEF RevokeToken
    <3>2. \/ job.pc = "run" /\ job'.pc = "run" /\ job'.at = V + 1
          \/ job'.pc \in {"degrade", "idle"}
      BY <1>0, <1>t, <2>1, <2>3, AfterTheRevocation DEF Doing, Next1, Give, Idle
    <3>3. ~(V + 1 <= G) /\ ~(V + 1 <= V)
      BY <1>j
    <3>4. QED
      BY <2>2, <3>1, <3>2, <3>3 DEF TokensOK
  <2>4. CASE RevokeFails
    BY <1>t, <2>2, <2>4 DEF RevokeFails, Give, Idle, TokensOK
  <2>5. QED
    BY <1>10, <2>3, <2>4
<1>11. CASE Crash
  <2>1. job'.pc = "idle" /\ excused' /\ passed' = passed
    BY <1>11 DEF Crash, Idle
  <2>2. "cluster-ready" \in passed => tokens' = {}
    <3>1. SUFFICES ASSUME "cluster-ready" \in passed
                   PROVE  tokens' = {}
      OBVIOUS
    <3>2. tokens = {} /\ (job.pc = "run" => job.at > V)
      BY <1>0, <3>1 DEF TokensOK
    <3>3. job.pc = "run" => Current.op \notin {"bootstrap", "generate"}
      BY <1>j, <3>2, Places DEF Current
    <3>4. QED
      BY <1>11, <3>2, <3>3 DEF Crash, Leaves
  <2>3. QED
    BY <2>1, <2>2 DEF TokensOK
<1>12. ASSUME \/ \E t \in {"init", "join", "older"} : TokenExpires(t)
              \/ \E p \in Pieces : Breaks(p)
              \/ \E r \in Roles : VmStops(r)
              \/ UNCHANGED vars
       PROVE  TokensOK'
  <2>1. job' = job /\ passed' = passed /\ excused' = excused /\ tokens' \subseteq tokens
    BY <1>12 DEF TokenExpires, Breaks, VmStops, vars, guests, history
  <2>2. QED
    BY <1>0, <2>1 DEF TokensOK
<1>13. QED
  BY <1>1, <1>2, <1>3, <1>5, <1>6, <1>7, <1>8, <1>9, <1>10, <1>11, <1>12 DEF Next

-----------------------------------------------------------------------------
(* What is certified                                                       *)

LEMMA CertifiedFacts ==
  PhasesCertifyTheMachines <=>
    \A i \in Records : Program[i].phase \in passed => Covered(i) \subseteq good \cup spoiled
  BY DEF PhasesCertifyTheMachines, Certified

\* A run goes on after a command that left what it stands for.
LEMMA CoverageGrows ==
  ASSUME ConvergeInv, job.pc = "run", Current.op # "record",
         Current.makes \cup Current.needs \cup good \subseteq good',
         passed' = passed, spoiled' = spoiled, job' = Next1
  PROVE  CoverageOK'
<1> DEFINE n == job.at
<1>0. TypeOK /\ CoverageOK /\ 1..Size \subseteq Nat /\ Records \subseteq 1..Size
  BY ProgramShape DEF ConvergeInv
<1>1. job'.pc = "run" /\ job'.at = n + 1 /\ n \in 1..Size
  BY <1>0 DEF TypeOK, Next1, Size
<1>2. Covered(n) = Covered(n - 1) \cup Current.makes \cup Current.needs
  BY <1>1, CommandFacts DEF Current
<1>3. Covered(n - 1) \subseteq good \cup spoiled
  BY <1>0 DEF CoverageOK, Running
<1>4. (n + 1) - 1 = n
  BY <1>0, <1>1
<1>5. Covered(n) \subseteq good' \cup spoiled'
  BY <1>2, <1>3
<1>6. \A i \in Records : Program[i].phase \in passed' => i < n + 1
  BY <1>0, <1>1 DEF CoverageOK
<1>7. PhasesCertifyTheMachines'
  BY <1>0, <1>3 DEF CoverageOK, PhasesCertifyTheMachines
<1>8. QED
  BY <1>1, <1>4, <1>5, <1>6, <1>7 DEF CoverageOK, Running

\* A run that stops at a command has passed no record that stands for it.
LEMMA CoverageLasts ==
  ASSUME ConvergeInv, passed' = passed, spoiled' = spoiled,
         job'.pc \in {"idle", "degrade"} \/ (job.pc = "run" /\ job'.pc = "revoke" /\ job'.at = job.at),
         \/ good' = good
         \/ job.pc = "run" /\ Current.op # "record" /\ good \ Current.makes \subseteq good'
  PROVE  CoverageOK'
<1>0. /\ TypeOK /\ CoverageOK /\ job.at \in 1..Size /\ DOMAIN Program = 1..Size
      /\ 1..Size \subseteq Nat /\ Records \subseteq 1..Size
  BY ProgramShape DEF ConvergeInv, TypeOK, Size
<1>1. ASSUME NEW i \in Records, Program[i].phase \in passed
      PROVE  Covered(i) \subseteq good' \cup spoiled
  <2>1. Covered(i) \subseteq good \cup spoiled
    BY <1>0, <1>1, CertifiedFacts DEF CoverageOK
  <2>2. CASE job.pc = "run" /\ Current.op # "record" /\ good \ Current.makes \subseteq good'
    <3>1. i < job.at /\ job.at \notin Records
      BY <1>0, <1>1, <2>2, CommandFacts DEF CoverageOK, Current
    <3>2. Current.makes \cap Covered(i) = {}
      <4>1. job.at > i /\ job.at \in DOMAIN Program \ Records
        BY <1>0, <3>1
      <4>2. QED
        BY <4>1, ProgramAssumption DEF Current
    <3>3. QED
      BY <2>1, <2>2, <3>2
  <2>3. QED
    BY <2>1, <2>2
<1>2. PhasesCertifyTheMachines'
  BY <1>1 DEF PhasesCertifyTheMachines, Certified
<1>3. job'.pc = "revoke" => \A i \in Records : Program[i].phase \in passed' => i < job'.at
  BY <1>0 DEF CoverageOK
<1>4. job'.pc \notin {"run", "observe"}
  OBVIOUS
<1>5. QED
  BY <1>2, <1>3, <1>4 DEF CoverageOK, Running

LEMMA CoverageStays == ConvergeInv /\ [Next]_vars => CoverageOK'
<1> SUFFICES ASSUME ConvergeInv, [Next]_vars
             PROVE  CoverageOK'
  OBVIOUS
<1>0. /\ TypeOK /\ JobOK /\ CoverageOK /\ job.at \in 1..Size
      /\ {B, G, V} \subseteq 1..Size /\ 1..Size \subseteq Nat /\ Records \subseteq 1..Size
  BY Places, ProgramShape DEF ConvergeInv, TypeOK, Size
<1>t. job = [pc |-> job.pc, at |-> job.at, facts |-> job.facts, after |-> job.after]
  BY <1>0 DEF TypeOK
<1>1. CASE Begin
  BY <1>1 DEF Begin, Idle, CoverageOK, PhasesCertifyTheMachines, Running
<1>2. ASSUME NEW f \in Facts, Observe(f)
      PROVE  CoverageOK'
  <2>1. job.at = 1 /\ passed = {}
    BY <1>0, <1>2 DEF Observe, JobOK, CoverageOK, Idle
  <2>2. job'.pc = "run" /\ job'.at - 1 = 0 /\ passed' = {}
    BY <1>2, <1>t, <2>1 DEF Observe, history
  <2>3. QED
    BY <2>2, CoveredAtStart DEF CoverageOK, PhasesCertifyTheMachines
<1>3. CASE Run \/ Bootstrap \/ Join
  <2>1. /\ job.pc = "run" /\ Current.op # "record" /\ passed' = passed /\ spoiled' = spoiled /\ job' = Next1
        /\ Current.needs \subseteq good /\ good' = good \cup Current.makes
    BY <1>3 DEF Run, Bootstrap, Join, Doing, CanDo, history
  <2>2. QED
    BY <2>1, CoverageGrows
<1>4. CASE RunFails \/ BootstrapFails \/ JoinFails \/ Interrupt
  <2>1. /\ job.pc = "run" /\ Current.op # "record" /\ passed' = passed /\ spoiled' = spoiled
        /\ HalfDone(Current)
    BY <1>4 DEF RunFails, BootstrapFails, JoinFails, Interrupt, Doing, history
  <2>2. good \ Current.makes \subseteq good'
    BY <1>0, <2>1, AtCommand, HalfDoneFacts
  <2>3. job'.pc = "degrade" \/ (job'.pc = "revoke" /\ job'.at = job.at)
    BY <1>4, <1>t DEF RunFails, BootstrapFails, JoinFails, Interrupt, Give
  <2>4. QED
    BY <2>1, <2>2, <2>3, CoverageLasts
<1>5. CASE GenerateJoinMaterial
  <2>1. /\ job.pc = "run" /\ Current.op = "generate" /\ Current.needs \subseteq good
        /\ good' = good /\ passed' = passed /\ spoiled' = spoiled
    BY <1>5 DEF GenerateJoinMaterial, Doing, CanDo
  <2>2. Current.makes = {}
    <3>1. job.at = G
      BY <1>0, <2>1, Places DEF Current
    <3>2. QED
      BY <3>1, ProgramAssumption DEF Current, G
  <2>3. CASE job' = Next1
    BY <2>1, <2>2, <2>3, CoverageGrows
  <2>4. CASE job' = [job EXCEPT !.pc = "revoke", !.after = "degrade"] \/ Give("degrade")
    <3>1. job'.pc = "degrade" \/ (job'.pc = "revoke" /\ job'.at = job.at)
      BY <1>t, <2>4 DEF Give
    <3>2. QED
      BY <2>1, <3>1, CoverageLasts
  <2>5. QED
    BY <1>5, <2>3, <2>4 DEF GenerateJoinMaterial
<1>6. CASE RevokeToken
  <2>1. good' = good /\ passed' = passed /\ spoiled' = spoiled /\ AtPlane \subseteq good
    BY <1>6 DEF RevokeToken, history
  <2>2. CASE Doing("revoke") /\ job' = Next1
    <3>1. job.at = V /\ job.pc = "run" /\ Current.op # "record"
      BY <1>0, <2>2, Places DEF Doing, Current
    <3>2. Current.makes = {} /\ Current.needs = AtPlane
      BY <3>1, ProgramAssumption DEF Current, V
    <3>3. QED
      BY <2>1, <2>2, <3>1, <3>2, CoverageGrows
  <2>3. CASE Give("degrade") \/ job' = Idle
    <3>1. job'.pc \in {"idle", "degrade"}
      BY <1>t, <2>3 DEF Give, Idle
    <3>2. QED
      BY <2>1, <3>1, CoverageLasts
  <2>4. QED
    BY <1>0, <1>6, <2>2, <2>3, AfterTheRevocation
<1>7. CASE ObserveFails \/ GenerateFails \/ RevokeFails \/ MarkDegraded
  <2>1. good' = good /\ passed' = passed /\ spoiled' = spoiled
    BY <1>7 DEF ObserveFails, GenerateFails, RevokeFails, MarkDegraded, guests, history
  <2>2. job'.pc \in {"idle", "degrade"}
    BY <1>7, <1>t DEF ObserveFails, GenerateFails, RevokeFails, MarkDegraded, Give, Idle
  <2>3. QED
    BY <2>1, <2>2, CoverageLasts
<1>8. CASE RecordPhase
  <2> DEFINE n == job.at
  <2>1. /\ job.pc = "run" /\ Current.op = "record" /\ good' = good /\ spoiled' = spoiled
        /\ passed' = passed \cup {Current.phase} /\ job' \in {Idle, Next1}
    BY <1>8 DEF RecordPhase, Doing, guests
  <2>2. n \in Records
    BY <1>0, <2>1, Places DEF Current
  <2>3. Covered(n) = Covered(n - 1) /\ \A i \in Records : Program[i].phase = Current.phase => i = n
    BY <2>2, RecordFacts DEF Current
  <2>4. Covered(n) \subseteq good \cup spoiled
    BY <1>0, <2>1, <2>3 DEF CoverageOK, Running
  <2>5. ASSUME NEW i \in Records, Program[i].phase \in passed'
        PROVE  Covered(i) \subseteq good' \cup spoiled' /\ i < n + 1
    <3>1. CASE Program[i].phase \in passed
      <4>1. Covered(i) \subseteq good \cup spoiled /\ i < n
        BY <1>0, <2>1, <3>1, CertifiedFacts DEF CoverageOK
      <4>2. QED
        BY <1>0, <2>1, <4>1
    <3>2. CASE i = n
      BY <1>0, <2>1, <2>4, <3>2
    <3>3. QED
      BY <2>1, <2>3, <2>5, <3>1, <3>2
  <2>6. PhasesCertifyTheMachines'
    BY <2>5 DEF PhasesCertifyTheMachines, Certified
  <2>7. CASE job' = Next1
    <3>1. job'.pc = "run" /\ job'.at = n + 1 /\ (n + 1) - 1 = n
      BY <1>0, <1>t, <2>1, <2>7 DEF Next1
    <3>2. QED
      BY <2>1, <2>4, <2>5, <2>6, <3>1 DEF CoverageOK, Running
  <2>8. CASE job' = Idle
    BY <2>6, <2>8 DEF CoverageOK, Idle, Running
  <2>9. QED
    BY <2>1, <2>7, <2>8
<1>9. CASE Crash
  <2>1. passed' = passed /\ spoiled' = spoiled /\ job'.pc = "idle"
    BY <1>9 DEF Crash, Idle
  <2>2. CASE job.pc = "run" /\ Current.op \in {"make", "check", "bootstrap", "join"}
    <3>1. HalfDone(Current)
      BY <1>9, <2>2 DEF Crash
    <3>2. good \ Current.makes \subseteq good'
      BY <1>0, <2>2, <3>1, AtCommand, HalfDoneFacts
    <3>3. QED
      BY <2>1, <2>2, <3>2, CoverageLasts
  <2>3. CASE good' = good
    BY <2>1, <2>3, CoverageLasts
  <2>4. QED
    BY <1>9, <2>2, <2>3 DEF Crash
<1>10. ASSUME \/ \E t \in {"init", "join", "older"} : TokenExpires(t)
              \/ \E p \in Pieces : Breaks(p)
              \/ \E r \in Roles : VmStops(r)
              \/ UNCHANGED vars
       PROVE  CoverageOK'
  <2>1. job' = job /\ passed' = passed
    BY <1>10 DEF TokenExpires, Breaks, VmStops, vars, history
  <2>2. good \cup spoiled \subseteq good' \cup spoiled'
    BY <1>10 DEF TokenExpires, Breaks, VmStops, vars, guests, history
  <2>3. QED
    BY <1>0, <2>1, <2>2 DEF CoverageOK, PhasesCertifyTheMachines, Running
<1>11. QED
  BY <1>1, <1>2, <1>3, <1>4, <1>5, <1>6, <1>7, <1>8, <1>9, <1>10 DEF Next

LEMMA RecordStays == ConvergeInv /\ [Next]_vars => RecordOK'
<1> SUFFICES ASSUME ConvergeInv, [Next]_vars, job'.pc = "run",
                    NEW i \in Records, i < job'.at
             PROVE  phase' # "degraded" /\ Rank(phase') >= Rank(Program[i].phase)
  BY DEF RecordOK, Running
<1>0. /\ TypeOK /\ JobOK /\ RecordOK /\ job.at \in 1..Size /\ i \in 1..Size
      /\ 1..Size \subseteq Nat /\ \A p : Rank(p) \in Nat
  BY ProgramShape DEF ConvergeInv, TypeOK, Size, Rank
<1>t. job = [pc |-> job.pc, at |-> job.at, facts |-> job.facts, after |-> job.after]
  BY <1>0 DEF TypeOK
\* A record passed earlier.
<1>1. CASE job.pc = "run" /\ phase' = phase /\ i < job.at
  BY <1>0, <1>1 DEF RecordOK, Running
<1>2. ASSUME NEW f \in Facts, Observe(f)
      PROVE  FALSE
  <2>1. job'.at = 1
    BY <1>0, <1>2 DEF Observe, JobOK, Idle
  <2>2. QED
    BY <1>0, <2>1
<1>3. CASE Run \/ Bootstrap \/ Join \/ GenerateJoinMaterial \/ RevokeToken
  <2>1. job.pc = "run" /\ Current.op # "record" /\ phase' = phase /\ job' = Next1
    <3>1. CASE Run \/ Bootstrap \/ Join
      BY <3>1 DEF Run, Bootstrap, Join, Doing, lab
    <3>2. CASE GenerateJoinMaterial
      BY <1>t, <3>2 DEF GenerateJoinMaterial, Doing, Give, lab
    <3>3. CASE RevokeToken
      BY <1>0, <1>t, <3>3, AfterTheRevocation DEF RevokeToken, Doing, Give, Idle, lab
    <3>4. QED
      BY <1>3, <3>1, <3>2, <3>3
  <2>2. i # job.at /\ job'.at = job.at + 1
    BY <1>0, <1>t, <2>1, CommandFacts DEF Current, Next1
  <2>3. i < job.at
    BY <1>0, <2>2
  <2>4. QED
    BY <1>1, <2>1, <2>3
<1>4. CASE RecordPhase
  <2>1. /\ job.pc = "run" /\ Current.op = "record" /\ job' = Next1
        /\ phase' = IF phase = "degraded" \/ Rank(phase) < Rank(Current.phase) THEN Current.phase ELSE phase
    BY <1>4 DEF RecordPhase, Doing, Idle
  <2>2. job.at \in Records /\ job'.at = job.at + 1
    BY <1>0, <1>t, <2>1, Places DEF Current, Next1
  <2>3. Current.phase # "degraded" /\ (i < job.at => Rank(Program[i].phase) < Rank(Current.phase))
    BY <2>2, ProgramShape, RecordFacts DEF Current, RecordedPhases
  <2>4. i < job.at \/ i = job.at
    BY <1>0, <2>2
  <2>5. CASE phase = "degraded" \/ Rank(phase) < Rank(Current.phase)
    <3>1. phase' = Current.phase
      BY <2>1, <2>5
    <3>2. Rank(Current.phase) >= Rank(Program[i].phase)
      <4>1. Rank(Current.phase) \in Nat /\ Rank(Program[i].phase) \in Nat
        BY <1>0
      <4>2. CASE i = job.at
        BY <4>1, <4>2 DEF Current
      <4>3. CASE i < job.at
        BY <2>3, <4>1, <4>3
      <4>4. QED
        BY <2>4, <4>2, <4>3
    <3>3. QED
      BY <2>3, <3>1, <3>2
  <2>6. CASE phase # "degraded" /\ ~(Rank(phase) < Rank(Current.phase))
    <3>1. phase' = phase
      BY <2>1, <2>6
    <3>2. Rank(phase) >= Rank(Program[i].phase)
      <4>1. Rank(phase) \in Nat /\ Rank(Current.phase) \in Nat /\ Rank(Program[i].phase) \in Nat
        BY <1>0
      <4>2. CASE i = job.at
        BY <2>6, <4>1, <4>2 DEF Current
      <4>3. CASE i < job.at
        BY <2>3, <2>6, <4>1, <4>3
      <4>4. QED
        BY <2>4, <4>2, <4>3
    <3>3. QED
      BY <2>6, <3>1, <3>2
  <2>7. QED
    BY <2>5, <2>6
<1>5. CASE \/ Begin \/ ObserveFails \/ RunFails \/ BootstrapFails \/ GenerateFails
           \/ JoinFails \/ Interrupt \/ RevokeFails \/ MarkDegraded \/ Crash
  <2>1. \/ job' \in {Idle, [Idle EXCEPT !.pc = "observe"]}
        \/ \E point \in {"degrade", "revoke"}, after \in {"degrade", "return", job.after} :
             job' = [job EXCEPT !.pc = point, !.after = after]
    <3>1. CASE Begin \/ MarkDegraded \/ Crash
      BY <3>1 DEF Begin, MarkDegraded, Crash
    <3>2. CASE ObserveFails \/ RunFails \/ BootstrapFails \/ GenerateFails \/ RevokeFails
      <4>1. Give("degrade") \/ job' = Idle
        BY <3>2 DEF ObserveFails, RunFails, BootstrapFails, GenerateFails, RevokeFails
      <4>2. QED
        BY <1>t, <4>1 DEF Give
    <3>3. CASE JoinFails \/ Interrupt
      BY <1>t, <3>3 DEF JoinFails, Interrupt
    <3>4. QED
      BY <1>5, <3>1, <3>2, <3>3
  <2>2. job'.pc # "run"
    <3>1. CASE job' \in {Idle, [Idle EXCEPT !.pc = "observe"]}
      BY <3>1 DEF Idle
    <3>2. ASSUME NEW point \in {"degrade", "revoke"}, NEW after \in {"degrade", "return", job.after},
                 job' = [job EXCEPT !.pc = point, !.after = after]
          PROVE  job'.pc # "run"
      BY <1>t, <3>2
    <3>3. QED
      BY <2>1, <3>1, <3>2
  <2>3. QED
    BY <2>2
<1>6. ASSUME \/ \E t \in {"init", "join", "older"} : TokenExpires(t)
             \/ \E p \in Pieces : Breaks(p)
             \/ \E r \in Roles : VmStops(r)
             \/ UNCHANGED vars
      PROVE  job' = job /\ phase' = phase
  BY <1>6 DEF TokenExpires, Breaks, VmStops, vars, lab
<1>7. QED
  BY <1>1, <1>2, <1>3, <1>4, <1>5, <1>6 DEF Next

-----------------------------------------------------------------------------
(* The theorems                                                            *)

\* The inductive invariant: what may be live, verified and recorded at every
\* position of a run.
THEOREM ConvergeInvariance == Spec => []ConvergeInv
<1>1. Init => ConvergeInv
  <2> SUFFICES ASSUME Init
               PROVE  ConvergeInv
    OBVIOUS
  <2>1. 1 \in 1..Len(Program)
    BY ProgramShape DEF Size
  <2>2. TypeOK
    BY <2>1 DEF Init, TypeOK, Idle, Phases
  <2>3. JobOK /\ TokensOK /\ CoverageOK /\ RecordOK
    BY DEF Init, Idle, JobOK, TokensOK, CoverageOK, RecordOK, Running, PhasesCertifyTheMachines
  <2>4. QED
    BY <2>2, <2>3 DEF ConvergeInv
<1>2. ConvergeInv /\ [Next]_vars => ConvergeInv'
  BY TypesStay, JobStays, TokensStay, CoverageStays, RecordStays DEF ConvergeInv
<1>3. QED
  BY <1>1, <1>2, PTL DEF Spec

\* Type correctness: no piece both works and is refused, whatever half-done
\* commands leave.
THEOREM ConvergeTypeCorrect == Spec => []TypeOK
<1>1. ConvergeInv => TypeOK
  BY DEF ConvergeInv
<1>2. QED
  BY <1>1, ConvergeInvariance, PTL

\* Once the joined cluster is verified no bootstrap token is live, for every
\* program that opens and closes its join like this one.
THEOREM NoTokenSurvives == Spec => []NoTokenOutlivesTheJoin
<1>1. ConvergeInv => NoTokenOutlivesTheJoin
  BY DEF ConvergeInv, TokensOK, NoTokenOutlivesTheJoin
<1>2. QED
  BY <1>1, ConvergeInvariance, PTL

\* A failed or interrupted join has revoked the token it knew.
THEOREM JoinsEndRevoked == Spec => []FailedJoinsRevoke
<1>1. ConvergeInv => FailedJoinsRevoke
  BY DEF ConvergeInv, TokensOK, FailedJoinsRevoke, Running
<1>2. QED
  BY <1>1, ConvergeInvariance, PTL

\* Every phase a run verifies covers all that the commands before it made or
\* checked.
THEOREM PassedPhasesCertify == Spec => []PhasesCertifyTheMachines
<1>1. ConvergeInv => PhasesCertifyTheMachines
  BY DEF ConvergeInv, CoverageOK
<1>2. QED
  BY <1>1, ConvergeInvariance, PTL

-----------------------------------------------------------------------------
(* Every step of a run is one that FullLab knows, or none it sees.         *)

LEMMA RecordsInOrder ==
  \E a, b, c, d \in Records :
    /\ a < b /\ b < c /\ c < d /\ d < Size
    /\ Records = {a, b, c, d, Size}
    /\ Program[a].phase = "vms-created" /\ Program[b].phase = "os-ready"
    /\ Program[c].phase = "cluster-ready" /\ Program[d].phase = "addons-ready"
    /\ Program[Size].phase = "candidate-ready"
<1>0. Records \subseteq 1..Size /\ 1..Size \subseteq Nat /\ Size \in Records /\ Size \in Nat
  BY ProgramShape
<1>1. \A p \in RecordedPhases : \E i \in Records : Program[i].phase = p
  BY ProgramAssumption
<1>2. PICK a, b, c, d, e \in Records :
        /\ Program[a].phase = "vms-created" /\ Program[b].phase = "os-ready"
        /\ Program[c].phase = "cluster-ready" /\ Program[d].phase = "addons-ready"
        /\ Program[e].phase = "candidate-ready"
  BY <1>1 DEF RecordedPhases
<1>3. ASSUME NEW i \in Records, NEW j \in Records, Rank(Program[i].phase) < Rank(Program[j].phase)
      PROVE  i < j
  <2>1. ~(j < i)
    <3>1. Rank(Program[i].phase) \in Nat /\ Rank(Program[j].phase) \in Nat
      BY DEF Rank
    <3>2. QED
      BY <1>3, <3>1, RecordFacts
  <2>2. i # j
    <3>1. Rank(Program[i].phase) \in Nat
      BY DEF Rank
    <3>2. QED
      BY <1>3, <3>1
  <2>3. QED
    BY <1>0, <2>1, <2>2
<1>4. a < b /\ b < c /\ c < d /\ d < e
  BY <1>2, <1>3 DEF Rank
<1>5. \A i \in Records : Program[i].phase \in RecordedPhases
  BY ProgramShape
<1>6. Records = {a, b, c, d, e}
  BY <1>2, <1>5, RecordFacts DEF RecordedPhases
<1>7. e = Size
  BY <1>0, <1>4, <1>6
<1>8. QED
  BY <1>2, <1>4, <1>6, <1>7

Least(n, i) == i \in Records /\ i >= n /\ \A j \in Records : j >= n => i <= j

LEMMA StageOfLeast ==
  ASSUME NEW n \in Nat, NEW i, Least(n, i)
  PROVE  StageOf(n) = Program[i].phase
<1>1. Records \subseteq Nat
  BY ProgramShape
<1>2. \A j \in Records : j >= n /\ (\A k \in Records : k >= n => j <= k) => j = i
  BY <1>1 DEF Least
<1>3. (CHOOSE j \in Records : j >= n /\ \A k \in Records : k >= n => j <= k) = i
  BY <1>2 DEF Least
<1>4. QED
  BY <1>3 DEF StageOf

LEMMA Stages ==
  /\ StageOf(1) = "vms-created"
  /\ \A n \in Records : StageOf(n) = Program[n].phase
  /\ \A n \in (1..Size) \ Records : StageOf(n + 1) = StageOf(n)
  /\ \A n \in Records \ {Size} : StageOf(n + 1) = Full!NextStage(Program[n].phase)
  /\ \A n \in Records : Program[n].phase = "candidate-ready" <=> n = Size
<1>0. Records \subseteq 1..Size /\ 1..Size \subseteq Nat /\ Size \in Records
  BY ProgramShape
<1>1. PICK a, b, c, d \in Records :
    /\ a < b /\ b < c /\ c < d /\ d < Size
    /\ Records = {a, b, c, d, Size}
    /\ Program[a].phase = "vms-created" /\ Program[b].phase = "os-ready"
    /\ Program[c].phase = "cluster-ready" /\ Program[d].phase = "addons-ready"
    /\ Program[Size].phase = "candidate-ready"
  BY RecordsInOrder
<1>2. {a, b, c, d, Size} \subseteq 1..Size
  BY <1>0
<1>3. StageOf(1) = "vms-created"
  <2>1. Least(1, a)
    BY <1>0, <1>1, <1>2 DEF Least
  <2>2. QED
    BY <1>1, <2>1, StageOfLeast
<1>4. ASSUME NEW n \in Records
      PROVE  StageOf(n) = Program[n].phase
  <2>1. Least(n, n)
    BY <1>0 DEF Least
  <2>2. QED
    BY <1>0, <2>1, StageOfLeast
<1>5. ASSUME NEW n \in (1..Size) \ Records
      PROVE  StageOf(n + 1) = StageOf(n)
  <2>1. \E i \in Records : Least(n, i)
    <3>1. CASE n <= a
      BY <1>0, <1>1, <1>2, <3>1 DEF Least
    <3>2. CASE a < n /\ n <= b
      BY <1>0, <1>1, <1>2, <3>2 DEF Least
    <3>3. CASE b < n /\ n <= c
      BY <1>0, <1>1, <1>2, <3>3 DEF Least
    <3>4. CASE c < n /\ n <= d
      BY <1>0, <1>1, <1>2, <3>4 DEF Least
    <3>5. CASE d < n
      BY <1>0, <1>1, <1>2, <3>5 DEF Least
    <3>6. QED
      BY <1>0, <1>2, <3>1, <3>2, <3>3, <3>4, <3>5
  <2>2. PICK i \in Records : Least(n, i)
    BY <2>1
  <2>3. Least(n + 1, i)
    BY <1>0, <2>2 DEF Least
  <2>4. n \in Nat /\ n + 1 \in Nat
    BY <1>0
  <2>5. QED
    BY <2>2, <2>3, <2>4, StageOfLeast
<1>6. ASSUME NEW n \in Records \ {Size}
      PROVE  StageOf(n + 1) = Full!NextStage(Program[n].phase)
  <2>0. n + 1 \in Nat
    BY <1>0
  <2>1. CASE n = a
    <3>1. Least(n + 1, b)
      BY <1>0, <1>1, <1>2, <2>1 DEF Least
    <3>2. QED
      BY <1>1, <2>0, <2>1, <3>1, StageOfLeast DEF Full!NextStage
  <2>2. CASE n = b
    <3>1. Least(n + 1, c)
      BY <1>0, <1>1, <1>2, <2>2 DEF Least
    <3>2. QED
      BY <1>1, <2>0, <2>2, <3>1, StageOfLeast DEF Full!NextStage
  <2>3. CASE n = c
    <3>1. Least(n + 1, d)
      BY <1>0, <1>1, <1>2, <2>3 DEF Least
    <3>2. QED
      BY <1>1, <2>0, <2>3, <3>1, StageOfLeast DEF Full!NextStage
  <2>4. CASE n = d
    <3>1. Least(n + 1, Size)
      BY <1>0, <1>1, <1>2, <2>4 DEF Least
    <3>2. QED
      BY <1>1, <2>0, <2>4, <3>1, StageOfLeast DEF Full!NextStage
  <2>5. QED
    BY <1>1, <2>1, <2>2, <2>3, <2>4
<1>7. \A n \in Records : Program[n].phase = "candidate-ready" <=> n = Size
  BY <1>0, <1>1, <1>2
<1>8. QED
  BY <1>3, <1>4, <1>5, <1>6, <1>7

LEMMA Unseen ==
  ASSUME phase' = phase, observations' = observations, up' = up, FullJob' = FullJob
  PROVE  UNCHANGED Full!vars
  BY DEF Full!vars, Full!store, Full!guests

\* What FullLab sees of a run.
NotFailed == FALSE

View(pc, seen, stage, failed) ==
  [pc |-> pc, profile |-> None, spec |-> None, seen |-> seen, stage |-> stage,
   scenario |-> None, pending |-> {}, failed |-> failed]

LEMMA ViewFacts ==
  ASSUME NEW pc, NEW seen, NEW stage, NEW failed, NEW q
  PROVE  /\ [View(pc, seen, stage, failed) EXCEPT !.pc = q] = View(q, seen, stage, failed)
         /\ [View(pc, seen, stage, failed) EXCEPT !.seen = q] = View(pc, q, stage, failed)
         /\ [View(pc, seen, stage, failed) EXCEPT !.stage = q] = View(pc, seen, q, failed)
         /\ View(pc, seen, stage, failed).pc = pc /\ View(pc, seen, stage, failed).seen = seen
         /\ View(pc, seen, stage, failed).stage = stage /\ View(pc, seen, stage, failed).pending = {}
<1>1. [View(pc, seen, stage, failed) EXCEPT !.pc = q] = View(q, seen, stage, failed)
  BY DEF View
<1>2. [View(pc, seen, stage, failed) EXCEPT !.seen = q] = View(pc, q, stage, failed)
  BY DEF View
<1>3. [View(pc, seen, stage, failed) EXCEPT !.stage = q] = View(pc, seen, q, failed)
  BY DEF View
<1>4. /\ View(pc, seen, stage, failed).pc = pc /\ View(pc, seen, stage, failed).seen = seen
      /\ View(pc, seen, stage, failed).stage = stage /\ View(pc, seen, stage, failed).pending = {}
  BY DEF View
<1>5. QED
  BY <1>1, <1>2, <1>3, <1>4

LEMMA FullJobIs ==
  /\ job.pc = "observe" => FullJob = View("ensure", job.facts, StageOf(job.at), NotFailed)
  /\ job.pc \in {"run", "revoke"} => FullJob = View("verify", job.facts, StageOf(job.at), NotFailed)
  /\ job.pc \in {"idle", "degrade"} => FullJob = View(job.pc, job.facts, StageOf(job.at), NotFailed)
  BY DEF FullJob, View, NotFailed

LEMMA FullJobBecomes ==
  /\ job'.pc = "observe" => FullJob' = View("ensure", job'.facts, StageOf(job'.at), NotFailed)
  /\ job'.pc \in {"run", "revoke"} => FullJob' = View("verify", job'.facts, StageOf(job'.at), NotFailed)
  /\ job'.pc \in {"idle", "degrade"} => FullJob' = View(job'.pc, job'.facts, StageOf(job'.at), NotFailed)
<1>1. CASE job'.pc = "observe"
  BY <1>1 DEF FullJob, View, NotFailed
<1>2. CASE job'.pc \in {"run", "revoke"}
  BY <1>2 DEF FullJob, View, NotFailed
<1>3. CASE job'.pc \in {"idle", "degrade"}
  BY <1>3 DEF FullJob, View, NotFailed
<1>4. QED
  BY <1>1, <1>2, <1>3

LEMMA FullJobFacts ==
  /\ FullJob.seen = job.facts /\ FullJob.stage = StageOf(job.at) /\ FullJob.pending = {}
  /\ job.pc = "observe" => FullJob.pc = "ensure"
  /\ job.pc \in {"run", "revoke"} => FullJob.pc = "verify"
  /\ job.pc \in {"idle", "degrade"} => FullJob.pc = job.pc
  BY DEF FullJob

\* The run goes on within its stage.
LEMMA WithinStage ==
  ASSUME TypeOK, job.pc \in {"run", "revoke"}, job'.pc \in {"run", "revoke"},
         job'.facts = job.facts,
         job'.at = job.at \/ (job.at \notin Records /\ job'.at = job.at + 1),
         phase' = phase, observations' = observations, up' = up
  PROVE  UNCHANGED Full!vars
<1>1. job.at \in 1..Size
  BY DEF TypeOK, Size
<1>2. StageOf(job'.at) = StageOf(job.at)
  BY <1>1, Stages
<1>3. FullJob' = FullJob
  BY <1>2 DEF FullJob
<1>4. QED
  BY <1>3, Unseen

\* The run gives up.
LEMMA GivesUp ==
  ASSUME TypeOK, job.pc \in {"observe", "run", "revoke"}, Give("degrade"),
         phase' = phase, observations' = observations, up' = up
  PROVE  Full!ProvisionFails
<1>1. job'.pc = "degrade" /\ job'.at = job.at /\ job'.facts = job.facts
  BY DEF Give, TypeOK
<1>2. FullJob' = [FullJob EXCEPT !.pc = "degrade"]
  BY <1>1, FullJobIs, FullJobBecomes, ViewFacts
<1>3. (FullJob.pc = "ensure" /\ FullJob.pending = {}) \/ FullJob.pc = "verify"
  BY FullJobFacts
<1>4. UNCHANGED <<Full!store, Full!guests>>
  BY DEF Full!store, Full!guests
<1>5. QED
  BY <1>2, <1>3, <1>4 DEF Full!ProvisionFails, Full!Goto

LEMMA IdleIsIdle ==
  /\ job = Idle => FullJob = Full!Idle
  /\ job' = Idle => FullJob' = Full!Idle
<1>1. StageOf(Idle.at) = "vms-created"
  BY Stages DEF Idle
<1>2. View("idle", None, "vms-created", NotFailed) = Full!Idle
  BY DEF View, NotFailed, Full!Idle
<1>3. Idle.pc = "idle" /\ Idle.facts = None
  BY DEF Idle
<1>4. QED
  BY <1>1, <1>2, <1>3, FullJobIs, FullJobBecomes

\* The run ends without a trace.
LEMMA Vanishes ==
  ASSUME job.pc \in {"observe", "run", "revoke", "degrade"}, job' = Idle,
         phase' = phase, observations' = observations, up' = up
  PROVE  Full!Crash
<1>1. FullJob.pc # "idle"
  BY FullJobFacts
<1>2. FullJob # Full!Idle
  BY <1>1 DEF Full!Idle
<1>3. UNCHANGED <<Full!store, Full!guests>>
  BY DEF Full!store, Full!guests
<1>4. QED
  BY <1>2, <1>3, IdleIsIdle DEF Full!Crash, Full!Return

LEMMA RecordRefines ==
  ASSUME ConvergeInv, RecordPhase
  PROVE  Full!ConvergeStage
<1> DEFINE p == Current.phase
<1>0. /\ TypeOK /\ JobOK /\ RecordOK /\ job.pc = "run" /\ Current.op = "record"
      /\ job.at \in 1..Size /\ 1..Size \subseteq Nat /\ Records \subseteq 1..Size /\ Size \in Nat
  BY ProgramShape DEF ConvergeInv, RecordPhase, Doing, TypeOK, Size
<1>1. job.at \in Records
  BY <1>0, Places DEF Current
<1>2. FullJob.pc = "verify" /\ FullJob.stage = p /\ p \in RecordedPhases
  BY <1>0, <1>1, FullJobFacts, Stages, ProgramShape DEF Current
<1>3. observations = job.facts /\ job.facts \in Facts /\ FullJob.seen = job.facts /\ job.facts # None
  BY <1>0, FullJobFacts, NoneAssumption DEF JobOK, Running
<1>4. phase' = IF phase = "degraded" \/ Rank(phase) < Rank(p) THEN p ELSE phase
  BY DEF RecordPhase
\* The records before are in the file, so nothing is skipped.
<1>5. phase # "degraded" \/ p = "vms-created"
  <2>1. SUFFICES ASSUME phase = "degraded", p # "vms-created"
                 PROVE  FALSE
    OBVIOUS
  <2>2. PICK i \in Records : Program[i].phase = "vms-created"
    BY RecordsInOrder
  <2>3. ~(i < job.at)
    BY <1>0, <2>1, <2>2 DEF RecordOK, Running
  <2>4. job.at < i
    BY <1>0, <1>1, <2>1, <2>2, <2>3 DEF Current
  <2>5. Rank(p) < 1
    BY <1>1, <2>2, <2>4, RecordFacts DEF Current, Rank
  <2>6. QED
    BY <1>2, <2>1, <2>5 DEF RecordedPhases, Rank
<1>6. phase # "degraded" /\ Rank(phase) < Rank(p) => Rank(p) = Rank(phase) + 1
  <2>1. SUFFICES ASSUME phase # "degraded", Rank(phase) < Rank(p)
                 PROVE  Rank(p) = Rank(phase) + 1
    OBVIOUS
  <2>2. PICK a, b, c, d \in Records :
      /\ a < b /\ b < c /\ c < d /\ d < Size
      /\ Records = {a, b, c, d, Size}
      /\ Program[a].phase = "vms-created" /\ Program[b].phase = "os-ready"
      /\ Program[c].phase = "cluster-ready" /\ Program[d].phase = "addons-ready"
      /\ Program[Size].phase = "candidate-ready"
    BY RecordsInOrder
  <2>3. \A i \in Records : i < job.at => Rank(phase) >= Rank(Program[i].phase)
    BY <1>0 DEF RecordOK, Running
  <2>4. Rank(phase) \in Nat
    BY DEF Rank
  <2>5. CASE job.at = a
    BY <2>1, <2>2, <2>4, <2>5 DEF Current, Rank
  <2>6. CASE job.at = b
    <3>1. Rank(phase) >= 1
      BY <2>2, <2>3, <2>6 DEF Rank
    <3>2. Rank(p) = 2
      BY <2>2, <2>6 DEF Current, Rank
    <3>3. QED
      BY <2>1, <2>4, <3>1, <3>2
  <2>7. CASE job.at = c
    <3>1. Rank(phase) >= 2
      BY <2>2, <2>3, <2>7 DEF Rank
    <3>2. Rank(p) = 3
      BY <2>2, <2>7 DEF Current, Rank
    <3>3. QED
      BY <2>1, <2>4, <3>1, <3>2
  <2>8. CASE job.at = d
    <3>1. Rank(phase) >= 3
      BY <2>2, <2>3, <2>8 DEF Rank
    <3>2. Rank(p) = 4
      BY <2>2, <2>8 DEF Current, Rank
    <3>3. QED
      BY <2>1, <2>4, <3>1, <3>2
  <2>9. CASE job.at = Size
    <3>1. Rank(phase) >= 4
      BY <2>2, <2>3, <2>9 DEF Rank
    <3>2. Rank(p) = 5
      BY <2>2, <2>9 DEF Current, Rank
    <3>3. QED
      BY <2>1, <2>4, <3>1, <3>2
  <2>10. QED
    BY <1>1, <2>2, <2>5, <2>6, <2>7, <2>8, <2>9
<1>7. observations' = observations /\ up' = up
  BY DEF RecordPhase, guests
<1>8. phase \in Phases
  BY <1>0 DEF TypeOK
<1>9. Full!RecordVerifiedPhase(p)
  <2>1. CASE phase = "degraded"
    <3>1. p = "vms-created" /\ phase' = p
      BY <1>4, <1>5, <2>1
    <3>2. Full!RecoverVerifiedPhase(p, FullJob.seen)
      BY <1>3, <1>7, <2>1, <3>1 DEF Full!RecoverVerifiedPhase, Full!U4Phases
    <3>3. QED
      BY <2>1, <3>2 DEF Full!RecordVerifiedPhase
  <2>2. CASE phase # "degraded" /\ ~(Rank(phase) < Rank(p))
    <3>1. phase' = phase
      BY <1>4, <2>2
    <3>2. Full!Rank(phase) >= Full!Rank(p)
      BY <1>2, <1>8, <2>2 DEF Full!Rank, Rank, RecordedPhases, Phases
    <3>3. UNCHANGED Full!store
      BY <1>7, <3>1 DEF Full!store
    <3>4. QED
      BY <2>2, <3>2, <3>3 DEF Full!RecordVerifiedPhase
  <2>3. CASE phase # "degraded" /\ Rank(phase) < Rank(p)
    <3>1. phase' = p /\ Rank(p) = Rank(phase) + 1
      BY <1>4, <1>6, <2>3
    <3>2. Full!Rank(phase) < Full!Rank(p)
      BY <1>2, <1>8, <2>3 DEF Full!Rank, Rank, RecordedPhases, Phases
    <3>3. <<phase, p>> \in {<<"declared", "vms-created">>, <<"vms-created", "os-ready">>,
             <<"os-ready", "cluster-ready">>, <<"cluster-ready", "addons-ready">>,
             <<"addons-ready", "candidate-ready">>}
      BY <1>2, <1>8, <2>3, <3>1 DEF Rank, RecordedPhases, Phases
    <3>4. <<phase, p>> \in Full!AllowedTransitions
      BY <3>3 DEF Full!AllowedTransitions
    <3>5. phase # "missing" /\ p \notin {"validated", "scenario-prepared", "graded"}
      BY <3>3
    <3>6. Full!Advance(p)
      BY <1>3, <1>7, <2>3, <3>1, <3>4, <3>5 DEF Full!Advance
    <3>7. QED
      BY <2>3, <3>2, <3>6 DEF Full!RecordVerifiedPhase
  <2>4. QED
    BY <2>1, <2>2, <2>3
<1>10. IF FullJob.stage = "candidate-ready"
         THEN FullJob' = Full!Idle
         ELSE FullJob' = [FullJob EXCEPT !.stage = Full!NextStage(@)]
  <2>1. FullJob.stage = "candidate-ready" <=> job.at = Size
    BY <1>1, <1>2, Stages DEF Current
  <2>2. CASE job.at = Size
    <3>1. job' = Idle
      BY <2>2 DEF RecordPhase, Size
    <3>2. QED
      BY <2>1, <2>2, <3>1, IdleIsIdle
  <2>3. CASE job.at # Size
    <3>1. job' = Next1
      BY <2>3 DEF RecordPhase, Size
    <3>2. job'.pc = "run" /\ job'.at = job.at + 1 /\ job'.facts = job.facts
      BY <1>0, <3>1 DEF Next1, TypeOK
    <3>3. StageOf(job.at + 1) = Full!NextStage(p)
      BY <1>1, <2>3, Stages DEF Current
    <3>4. FullJob' = [FullJob EXCEPT !.stage = Full!NextStage(p)]
      BY <1>0, <3>2, <3>3, FullJobIs, FullJobBecomes, ViewFacts
    <3>5. QED
      BY <1>2, <2>1, <2>3, <3>4
  <2>4. QED
    BY <2>2, <2>3
<1>11. UNCHANGED Full!guests
  BY <1>7 DEF Full!guests
<1>12. QED
  BY <1>2, <1>9, <1>10, <1>11 DEF Full!ConvergeStage, Full!Return

\* A step that FullLab allows a provision that is under way.
FullStep ==
  \/ Full!Provision \/ Full!Crash \/ \E r \in Roles : Full!VmStops(r)
  \/ UNCHANGED Full!vars

LEMMA StepsRefine ==
  ASSUME ConvergeInv, [Next]_vars, job.pc # "idle"
  PROVE  FullStep
<1>0. TypeOK /\ JobOK /\ job.pc \in {"observe", "run", "revoke", "degrade"}
  BY DEF ConvergeInv, TypeOK
<1>t. job = [pc |-> job.pc, at |-> job.at, facts |-> job.facts, after |-> job.after]
  BY <1>0 DEF TypeOK
<1>1. CASE Begin
  BY <1>1 DEF Begin
<1>2. ASSUME NEW f \in Facts, Observe(f)
      PROVE  FullStep
  <2>1. job.pc = "observe" /\ job.at = 1 /\ up = Roles /\ observations \in {None, f}
    BY <1>0, <1>2 DEF Observe, JobOK, Idle
  <2>2. job'.pc = "run" /\ job'.at = 1 /\ job'.facts = f
    BY <1>2, <1>t, <2>1 DEF Observe
  <2>3. observations' = f /\ phase' = phase /\ up' = up
    BY <1>2 DEF Observe, guests
  <2>4. phase \notin {"missing", "cleanup-pending", "destroyed"}
    BY <1>0 DEF TypeOK, Phases
  <2>5. FullJob.pc = "ensure" /\ FullJob.pending = {}
    BY <2>1, FullJobFacts
  <2>6. Full!AllRunning
    BY <2>1 DEF Full!AllRunning
  <2>7. Full!RecordMachineObservations(f) \/ (observations = f /\ UNCHANGED Full!store)
    BY <2>1, <2>3, <2>4 DEF Full!RecordMachineObservations, Full!store
  <2>8. FullJob' = [FullJob EXCEPT !.pc = "verify", !.seen = f, !.stage = "vms-created"]
    <3>1. /\ FullJob = View("ensure", job.facts, StageOf(1), NotFailed)
          /\ FullJob' = View("verify", f, StageOf(1), NotFailed)
      BY <2>1, <2>2, FullJobIs, FullJobBecomes
    <3>2. [FullJob EXCEPT !.pc = "verify"] = View("verify", job.facts, StageOf(1), NotFailed)
      BY <3>1, ViewFacts
    <3>3. [View("verify", job.facts, StageOf(1), NotFailed) EXCEPT !.seen = f]
            = View("verify", f, StageOf(1), NotFailed)
      BY ViewFacts
    <3>4. [View("verify", f, StageOf(1), NotFailed) EXCEPT !.stage = "vms-created"]
            = View("verify", f, "vms-created", NotFailed)
      BY ViewFacts
    <3>5. QED
      BY <3>1, <3>2, <3>3, <3>4, Stages
  <2>9. UNCHANGED Full!guests
    BY <2>3 DEF Full!guests
  <2>10. Full!ObserveMachines(f)
    BY <2>5, <2>6, <2>7, <2>8, <2>9 DEF Full!ObserveMachines
  <2>11. QED
    BY <2>10 DEF FullStep, Full!Provision
<1>3. CASE Run \/ Bootstrap \/ Join \/ JoinFails \/ Interrupt
  <2>1. job.pc = "run" /\ Current.op # "record" /\ phase' = phase /\ observations' = observations /\ up' = up
    BY <1>3 DEF Run, Bootstrap, Join, JoinFails, Interrupt, Doing, lab
  <2>2. job'.pc \in {"run", "revoke"} /\ job'.facts = job.facts /\ job'.at \in {job.at, job.at + 1}
    BY <1>3, <1>t, <2>1 DEF Run, Bootstrap, Join, JoinFails, Interrupt, Next1
  <2>3. job.at \notin Records
    BY <1>0, <2>1, AtCommand
  <2>4. QED
    BY <1>0, <2>1, <2>2, <2>3, WithinStage DEF FullStep
<1>4. CASE GenerateJoinMaterial
  <2>1. job.pc = "run" /\ Current.op # "record" /\ phase' = phase /\ observations' = observations /\ up' = up
    BY <1>4 DEF GenerateJoinMaterial, Doing, lab
  <2>2. job.at \notin Records
    BY <1>0, <2>1, AtCommand
  <2>3. CASE job' = Next1 \/ job' = [job EXCEPT !.pc = "revoke", !.after = "degrade"]
    <3>1. job'.pc \in {"run", "revoke"} /\ job'.facts = job.facts /\ job'.at \in {job.at, job.at + 1}
      BY <1>t, <2>1, <2>3 DEF Next1
    <3>2. QED
      BY <1>0, <2>1, <2>2, <3>1, WithinStage DEF FullStep
  <2>4. CASE Give("degrade")
    BY <1>0, <2>1, <2>4, GivesUp DEF FullStep, Full!Provision
  <2>5. QED
    BY <1>4, <2>3, <2>4 DEF GenerateJoinMaterial
<1>5. CASE ObserveFails \/ RunFails \/ BootstrapFails \/ GenerateFails
  <2>1. /\ job.pc \in {"observe", "run"} /\ Give("degrade")
        /\ phase' = phase /\ observations' = observations /\ up' = up
    BY <1>5 DEF ObserveFails, RunFails, BootstrapFails, GenerateFails, Doing, lab, guests
  <2>2. QED
    BY <1>0, <2>1, GivesUp DEF FullStep, Full!Provision
<1>6. CASE RevokeToken
  <2>1. phase' = phase /\ observations' = observations /\ up' = up
    BY <1>6 DEF RevokeToken, lab
  <2>2. CASE Doing("revoke") /\ job' = Next1
    <3>1. job.pc = "run" /\ job.at \notin Records
      BY <1>0, <2>2, AtCommand DEF Doing
    <3>2. job'.pc = "run" /\ job'.facts = job.facts /\ job'.at = job.at + 1
      BY <1>t, <2>2, <3>1 DEF Next1
    <3>3. QED
      BY <1>0, <2>1, <3>1, <3>2, WithinStage DEF FullStep
  <2>3. CASE job.pc = "revoke" /\ Give("degrade")
    BY <1>0, <2>1, <2>3, GivesUp DEF FullStep, Full!Provision
  <2>4. CASE job' = Idle
    BY <1>0, <2>1, <2>4, Vanishes DEF FullStep
  <2>5. QED
    BY <1>0, <1>6, <2>2, <2>3, <2>4, AfterTheRevocation
<1>7. CASE RevokeFails
  <2>1. phase' = phase /\ observations' = observations /\ up' = up /\ job.pc \in {"run", "revoke"}
    BY <1>7 DEF RevokeFails, Revoking, Doing, lab
  <2>2. CASE Give("degrade")
    BY <1>0, <2>1, <2>2, GivesUp DEF FullStep, Full!Provision
  <2>3. CASE job' = Idle
    BY <1>0, <2>1, <2>3, Vanishes DEF FullStep
  <2>4. QED
    BY <1>7, <2>2, <2>3 DEF RevokeFails
<1>8. CASE RecordPhase
  BY <1>8, RecordRefines DEF FullStep, Full!Provision
<1>9. CASE MarkDegraded
  <2>1. job.pc = "degrade" /\ phase' = "degraded" /\ job' = Idle /\ observations' = observations /\ up' = up
    BY <1>9 DEF MarkDegraded, guests
  <2>2. FullJob.pc = "degrade" /\ FullJob' = Full!Idle /\ UNCHANGED Full!guests
    BY <2>1, FullJobFacts, IdleIsIdle DEF Full!guests
  <2>3. phase \in Phases
    BY <1>0 DEF TypeOK
  <2>4. CASE phase = "degraded"
    <3>1. UNCHANGED Full!store
      BY <2>1, <2>4 DEF Full!store
    <3>2. Full!MarkDegraded
      BY <2>2, <2>4, <3>1 DEF Full!MarkDegraded, Full!Return
    <3>3. QED
      BY <3>2 DEF FullStep, Full!Provision
  <2>5. CASE phase # "degraded"
    <3>1. phase \in Full!LabPhase \ {"degraded", "cleanup-pending", "destroyed"} /\ phase # "missing"
      BY <2>3, <2>5 DEF Phases, Full!LabPhase, Full!U4Phases
    <3>2. <<phase, "degraded">> \in Full!AllowedTransitions
      BY <3>1 DEF Full!AllowedTransitions
    <3>3. Full!Advance("degraded")
      BY <2>1, <2>5, <3>1, <3>2 DEF Full!Advance, Full!U4Phases
    <3>4. Full!MarkDegraded
      BY <2>2, <3>3 DEF Full!MarkDegraded, Full!Return
    <3>5. QED
      BY <3>4 DEF FullStep, Full!Provision
  <2>6. QED
    BY <2>4, <2>5
<1>10. CASE Crash
  <2>1. job' = Idle /\ phase' = phase /\ observations' = observations /\ up' = up
    BY <1>10 DEF Crash, lab
  <2>2. QED
    BY <1>0, <2>1, Vanishes DEF FullStep
<1>11. ASSUME NEW r \in Roles, VmStops(r)
       PROVE  FullStep
  <2> DEFINE Vms == [q \in Roles |-> IF q \in up THEN "running" ELSE "stopped"]
  <2>1. r \in up /\ up' = up \ {r} /\ phase' = phase /\ observations' = observations /\ job' = job
    BY <1>11 DEF VmStops, lab
  <2>2. FullJob' = FullJob
    BY <2>1 DEF FullJob
  <2>3. Vms[r] = "running" /\ Vms' = [Vms EXCEPT ![r] = "stopped"]
    BY <2>1
  <2>4. UNCHANGED Full!store
    BY <2>1 DEF Full!store
  <2>5. Full!VmStops(r)
    BY <2>2, <2>3, <2>4 DEF Full!VmStops, Full!Halted
  <2>6. QED
    BY <2>5 DEF FullStep
<1>12. ASSUME \/ \E t \in {"init", "join", "older"} : TokenExpires(t)
              \/ \E p \in Pieces : Breaks(p)
              \/ UNCHANGED vars
       PROVE  FullStep
  <2>1. job' = job /\ phase' = phase /\ observations' = observations /\ up' = up
    BY <1>12 DEF TokenExpires, Breaks, vars, lab, guests
  <2>2. FullJob' = FullJob
    BY <2>1 DEF FullJob
  <2>3. QED
    BY <2>1, <2>2, Unseen DEF FullStep
<1>13. QED
  BY <1>1, <1>2, <1>3, <1>4, <1>5, <1>6, <1>7, <1>8, <1>9, <1>10, <1>11, <1>12 DEF Next

\* The refinement: every step of a run, command by command, is a step that
\* FullLab, which takes a stage in one, allows provision, or none that it sees;
\* no command sequence records a phase that FullLab would not.
THEOREM RunsImplementStages == Spec => StagesImplementFullLab
<1>1. ConvergeInv /\ [Next]_vars => [job.pc # "idle" => FullStep]_vars
  BY StepsRefine
<1>2. [job.pc # "idle" => FullStep]_vars
        => [job.pc # "idle" =>
              \/ Full!Provision \/ Full!Crash \/ \E r \in Roles : Full!VmStops(r)
              \/ UNCHANGED Full!vars]_vars
  BY DEF FullStep
<1>3. QED
  BY <1>1, <1>2, ConvergeInvariance, PTL DEF Spec, StagesImplementFullLab

=============================================================================
