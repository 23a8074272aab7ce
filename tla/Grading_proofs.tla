--------------------------- MODULE Grading_proofs ---------------------------
(***************************************************************************)
(* Theorems about Grading, for any roles, criteria and number of changes.  *)
(* A grade and a restore both rest on looking at one role after the other  *)
(* while the candidate works.  The invariant says what has been learnt     *)
(* when some roles are still to be looked at: of the criteria of the other *)
(* roles, those that were not touched since are as they were seen          *)
(* (ContractIsSeen), and those met throughout have been credited           *)
(* (WindowIsCredited).                                                     *)
(***************************************************************************)
EXTENDS Grading, FiniteSetTheorems, WellFoundedInduction, TLAPS

Left(todo) == {todo[i] : i \in DOMAIN todo}
Distinct(todo) == \A i, j \in DOMAIN todo : todo[i] = todo[j] => i = j

Job ==
  [pc : {"idle", "mutate", "contract", "before", "observe", "after", "attest", "degrade"},
   op : {"none", "prepare", "restore", "grade"},
   todo : Seq(Roles), checks : SUBSET Criteria, cycles : SUBSET {None, "prepared", "restored"},
   failed : BOOLEAN]

JobOK ==
  /\ job \in Job
  /\ job.pc = "idle" => job = Idle
  /\ phase = "validated" => job = Idle
  /\ job.pc \in {"mutate", "contract"} => job.op = "restore" \/ (job.op = "prepare" /\ result = None)
  /\ job.pc = "attest" => job.op = "restore"
  /\ job.pc \in {"before", "observe", "after"} => result = None

\* No role is looked at twice in one probe.
ProbeOK ==
  job.pc \in {"contract", "observe"} =>
    Distinct(job.todo) /\ \A c \in job.checks : At[c] \notin Left(job.todo)

ContractIsSeen ==
  job.pc = "contract" =>
    \A c \in Criteria \ strayed : At[c] \notin Left(job.todo) => (c \in job.checks <=> c \in met)

AttestedIsExact ==
  job.pc = "attest" => \A c \in Criteria \ strayed : c \in met <=> c \in MetWhenRestored

WindowIsCredited ==
  /\ job.pc = "observe" =>
       /\ always \subseteq met /\ met \subseteq ever
       /\ job.checks \subseteq ever
       /\ \A c \in always : At[c] \notin Left(job.todo) => c \in job.checks
  /\ job.pc = "after" /\ ~job.failed => always \subseteq job.checks /\ job.checks \subseteq ever

GradingInv ==
  /\ TypeOK /\ JobOK /\ ProbeOK
  /\ ContractIsSeen /\ AttestedIsExact /\ WindowIsCredited
  /\ RestoredIsExact /\ GradesAreFair

-----------------------------------------------------------------------------
(* Sequences of roles                                                      *)

LEMMA TodoSteps ==
  ASSUME NEW todo \in Seq(Roles), todo # <<>>
  PROVE  /\ Head(todo) \in Roles /\ Head(todo) \in Left(todo)
         /\ Tail(todo) \in Seq(Roles)
         /\ Left(Tail(todo)) \subseteq Left(todo)
         /\ Left(todo) \subseteq Left(Tail(todo)) \cup {Head(todo)}
         /\ Distinct(todo) => Distinct(Tail(todo)) /\ Head(todo) \notin Left(Tail(todo))
<1>1. /\ Len(todo) \in Nat \ {0} /\ DOMAIN todo = 1 .. Len(todo)
      /\ Head(todo) = todo[1] /\ todo[1] \in Roles
      /\ Tail(todo) \in Seq(Roles) /\ Len(Tail(todo)) = Len(todo) - 1
      /\ DOMAIN Tail(todo) = 1 .. Len(todo) - 1
      /\ \A i \in 1 .. Len(todo) - 1 : Tail(todo)[i] = todo[i + 1]
  OBVIOUS
<1>2. Left(Tail(todo)) \subseteq Left(todo) /\ Head(todo) \in Left(todo)
  BY <1>1 DEF Left
<1>3. Left(todo) \subseteq Left(Tail(todo)) \cup {Head(todo)}
  <2> SUFFICES ASSUME NEW i \in 1 .. Len(todo), i # 1
               PROVE  todo[i] \in Left(Tail(todo))
    BY <1>1 DEF Left
  <2>1. i - 1 \in 1 .. Len(todo) - 1 /\ (i - 1) + 1 = i
    BY <1>1
  <2>2. QED
    BY <1>1, <2>1 DEF Left
<1>4. ASSUME Distinct(todo)
      PROVE  Distinct(Tail(todo)) /\ Head(todo) \notin Left(Tail(todo))
  BY <1>1, <1>4 DEF Distinct, Left
<1>5. QED
  BY <1>1, <1>2, <1>3, <1>4

LEMMA NothingLeft == Left(<<>>) = {} /\ <<>> \in Seq(Roles)
BY DEF Left

LEMMA ObservationIsComplete ==
  /\ ObservationRoles \in Seq(Roles) /\ Distinct(ObservationRoles)
  /\ \A c \in Criteria : At[c] \in Left(ObservationRoles)
BY GradingAssumption DEF Distinct, Left

-----------------------------------------------------------------------------
(* Sums of weights                                                         *)

Chosen(s) == CHOOSE x \in s : TRUE

\* What the fold of Sum defines on the subsets of S.
IsFold(f, S) ==
  f = [s \in SUBSET S |-> IF s = {} THEN 0 ELSE Weight[Chosen(s)] + f[s \ {Chosen(s)}]]

Fold(S) == CHOOSE f : IsFold(f, S)

LEMMA SumIsFold ==
  ASSUME NEW S
  PROVE  Sum(S) = Fold(S)[S]
BY Zenon DEF Sum, MapThenSumSet, MapThenFoldSet, Fold, IsFold, Chosen

\* Induction over finite sets in the form the provers take: a non-empty set of
\* subsets has a least one.
LEMMA LeastSubset ==
  ASSUME NEW S, IsFiniteSet(S), NEW T, T \subseteq SUBSET S, T # {}
  PROVE  \E s \in T : \A t \in T : t \subseteq s => t = s
<1>1. IsWellFoundedOn(StrictSubsetOrdering(S), SUBSET S)
  BY FS_StrictSubsetOrderingWellFounded, FS_FiniteSubsetsOfFinite
<1>2. PICK s \in T : \A t \in T : ~ (<<t, s>> \in StrictSubsetOrdering(S))
  BY <1>1, WFMin
<1>3. \A t \in T : t \subseteq s => t = s
  BY <1>2 DEF StrictSubsetOrdering
<1>4. QED
  BY <1>3

LEMMA ChosenIsIn ==
  ASSUME NEW s, s # {}
  PROVE  Chosen(s) \in s
BY DEF Chosen

\* Two folds agree on what both are defined on.
LEMMA FoldsAgree ==
  ASSUME NEW S, IsFiniteSet(S), NEW D \in SUBSET S, NEW f, NEW g, IsFold(f, S), IsFold(g, D)
  PROVE  \A s \in SUBSET D : f[s] = g[s]
<1> DEFINE T == {s \in SUBSET D : f[s] # g[s]}
<1> SUFFICES ASSUME T # {} PROVE FALSE
  OBVIOUS
<1>1. T \subseteq SUBSET S
  OBVIOUS
<1>2. PICK s \in T : \A t \in T : t \subseteq s => t = s
  <2> HIDE DEF T
  <2>1. QED
    BY <1>1, LeastSubset
<1>3. s \in SUBSET D /\ f[s] # g[s]
  BY <1>2
<1>4. CASE s = {}
  BY <1>3, <1>4 DEF IsFold
<1>5. CASE s # {}
  <2> DEFINE r == s \ {Chosen(s)}
  <2>1. r \in SUBSET D /\ r \subseteq s /\ r # s
    BY <1>3, <1>5, ChosenIsIn
  <2>2. f[r] = g[r]
    BY <1>2, <2>1
  <2>3. f[s] = Weight[Chosen(s)] + f[r]
    BY <1>3, <1>5 DEF IsFold
  <2>4. g[s] = Weight[Chosen(s)] + g[r]
    BY <1>3, <1>5 DEF IsFold
  <2>5. QED
    BY <1>3, <2>2, <2>3, <2>4
<1>6. QED
  BY <1>4, <1>5

\* Every finite set has a fold: a least set without one would get it from the
\* folds of its proper subsets.
LEMMA FoldsExist ==
  ASSUME NEW S, IsFiniteSet(S)
  PROVE  \A C \in SUBSET S : IsFold(Fold(C), C)
<1> DEFINE T == {C \in SUBSET S : ~ IsFold(Fold(C), C)}
<1> SUFFICES ASSUME T # {} PROVE FALSE
  OBVIOUS
<1>1. T \subseteq SUBSET S
  OBVIOUS
<1>2. PICK C \in T : \A t \in T : t \subseteq C => t = C
  <2> HIDE DEF T
  <2>1. QED
    BY <1>1, LeastSubset
<1>3. C \in SUBSET S /\ ~ IsFold(Fold(C), C)
  BY <1>2
<1>4. \A D \in SUBSET C : D # C => IsFold(Fold(D), D)
  BY <1>2, <1>3
<1> DEFINE Rest(s) == s \ {Chosen(s)}
           f == [s \in SUBSET C |-> IF s = {} THEN 0 ELSE Weight[Chosen(s)] + Fold(Rest(s))[Rest(s)]]
<1>5. \A D \in SUBSET C : D # C => Fold(D)[D] = f[D]
  <2> SUFFICES ASSUME NEW D \in SUBSET C, D # C PROVE Fold(D)[D] = f[D]
    OBVIOUS
  <2>1. IsFold(Fold(D), D)
    BY <1>4
  <2>2. CASE D = {}
    <3>1. Fold(D)[D] = 0
      <4> DEFINE h == Fold(D)
      <4>1. IsFold(h, D) BY <2>1
      <4> HIDE DEF h
      <4>2. h[D] = 0 BY <4>1, <2>2 DEF IsFold
      <4>3. QED BY <4>2 DEF h
    <3>2. QED
      BY <2>2, <3>1
  <2>3. CASE D # {}
    <3>1. /\ Rest(D) \in SUBSET D /\ Rest(D) \in SUBSET C /\ Rest(D) # C
      BY <2>3, ChosenIsIn
    <3>2. IsFold(Fold(Rest(D)), Rest(D))
      BY <1>4, <3>1
    <3>3. IsFiniteSet(D)
      BY <1>3, FS_Subset
    <3>4. Fold(D)[Rest(D)] = Fold(Rest(D))[Rest(D)]
      <4> DEFINE h == Fold(D)
                 g == Fold(Rest(D))
                 R == Rest(D)
      <4>1. IsFold(h, D) /\ IsFold(g, R) /\ R \in SUBSET D BY <2>1, <3>1, <3>2
      <4> HIDE DEF h, g, R
      <4>2. \A s \in SUBSET R : h[s] = g[s] BY <4>1, <3>3, FoldsAgree
      <4>3. QED BY <4>2 DEF h, g, R
    <3>5. Fold(D)[D] = Weight[Chosen(D)] + Fold(D)[Rest(D)]
      <4> DEFINE h == Fold(D)
      <4>1. IsFold(h, D) BY <2>1
      <4> HIDE DEF h
      <4>2. h[D] = Weight[Chosen(D)] + h[Rest(D)] BY <4>1, <2>3 DEF IsFold
      <4>3. QED BY <4>2 DEF h
    <3>6. f[D] = Weight[Chosen(D)] + Fold(Rest(D))[Rest(D)]
      BY <2>3
    <3>7. QED
      BY <3>4, <3>5, <3>6
  <2>4. QED
    BY <2>2, <2>3
<1>6. \A s \in SUBSET C : s # {} => Rest(s) \in SUBSET C /\ Rest(s) # C
  BY ChosenIsIn
<1>7. f = [s \in SUBSET C |-> IF s = {} THEN 0 ELSE Weight[Chosen(s)] + f[Rest(s)]]
  <2> DEFINE g == [s \in SUBSET C |-> IF s = {} THEN 0 ELSE Weight[Chosen(s)] + f[Rest(s)]]
  <2>1. \A s \in SUBSET C : s # {} => Fold(Rest(s))[Rest(s)] = f[Rest(s)]
    <3> HIDE DEF f
    <3> QED BY <1>5, <1>6
  <2>2. \A s \in SUBSET C : f[s] = g[s]
    <3> TAKE s \in SUBSET C
    <3>1. f[s] = IF s = {} THEN 0 ELSE Weight[Chosen(s)] + Fold(Rest(s))[Rest(s)]
      OBVIOUS
    <3>2. s # {} => Fold(Rest(s))[Rest(s)] = f[Rest(s)]
      BY <2>1
    <3>3. g[s] = IF s = {} THEN 0 ELSE Weight[Chosen(s)] + f[Rest(s)]
      <4> HIDE DEF f
      <4> QED OBVIOUS
    <3> HIDE DEF f, g
    <3>4. QED
      BY <3>1, <3>2, <3>3
  <2>3. f = [s \in SUBSET C |-> f[s]]
    <3> DEFINE body(s) == IF s = {} THEN 0 ELSE Weight[Chosen(s)] + Fold(Rest(s))[Rest(s)]
    <3>1. f = [s \in SUBSET C |-> body(s)] OBVIOUS
    <3> HIDE DEF f, body
    <3> QED BY <3>1
  <2>4. g = [s \in SUBSET C |-> g[s]]
    <3> DEFINE body(s) == IF s = {} THEN 0 ELSE Weight[Chosen(s)] + f[Rest(s)]
    <3>1. g = [s \in SUBSET C |-> body(s)] OBVIOUS
    <3> HIDE DEF f, g, body
    <3> QED BY <3>1
  <2> HIDE DEF f, g
  <2>5. f = g
    BY <2>2, <2>3, <2>4
  <2>6. QED
    BY <2>5 DEF g
<1> HIDE DEF f
<1>8. IsFold(f, C)
  BY <1>7 DEF IsFold
<1>9. IsFold(Fold(C), C)
  BY <1>8 DEF Fold
<1>10. QED
  BY <1>3, <1>9

\* Sum by the element that its fold chooses.
LEMMA SumStep ==
  ASSUME IsFiniteSet(Criteria), NEW S \in SUBSET Criteria
  PROVE  /\ S = {} => Sum(S) = 0
         /\ S # {} => Sum(S) = Weight[Chosen(S)] + Sum(S \ {Chosen(S)})
<1> DEFINE R == S \ {Chosen(S)}
<1>1. R \in SUBSET Criteria /\ R \in SUBSET S /\ IsFiniteSet(S)
  BY FS_Subset
<1>2. Sum(S) = Fold(S)[S] /\ Sum(R) = Fold(R)[R]
  BY SumIsFold
<1>3. PICK f, g : f = Fold(S) /\ g = Fold(R)
  OBVIOUS
<1>4. IsFold(f, S) /\ IsFold(g, R)
  BY <1>1, <1>3, FoldsExist
<1>5. f[R] = g[R]
  BY <1>1, <1>4, FoldsAgree
<1>6. f[S] = IF S = {} THEN 0 ELSE Weight[Chosen(S)] + f[R]
  BY <1>4 DEF IsFold
<1>7. QED
  BY <1>2, <1>3, <1>5, <1>6

LEMMA SumIsNat ==
  \A S \in SUBSET Criteria : Sum(S) \in Nat
<1> DEFINE T == {S \in SUBSET Criteria : Sum(S) \notin Nat}
<1> SUFFICES ASSUME T # {} PROVE FALSE
  OBVIOUS
<1>1. T \subseteq SUBSET Criteria
  OBVIOUS
<1>2. PICK S \in T : \A t \in T : t \subseteq S => t = S
  <2> HIDE DEF T
  <2>1. QED
    BY <1>1, LeastSubset, WeightAssumption
<1>3. S \in SUBSET Criteria /\ Sum(S) \notin Nat
  BY <1>2
<1>4. S # {} /\ Sum(S) = Weight[Chosen(S)] + Sum(S \ {Chosen(S)})
  BY <1>3, SumStep, WeightAssumption
<1>5. Chosen(S) \in Criteria /\ Sum(S \ {Chosen(S)}) \in Nat
  BY <1>2, <1>3, <1>4, ChosenIsIn
<1>6. QED
  BY <1>3, <1>4, <1>5, WeightAssumption

\* Sum by any of its elements.
LEMMA SumByElement ==
  \A S \in SUBSET Criteria : \A y \in S : Sum(S) = Weight[y] + Sum(S \ {y})
<1> DEFINE T == {S \in SUBSET Criteria : \E y \in S : Sum(S) # Weight[y] + Sum(S \ {y})}
<1> SUFFICES ASSUME T # {} PROVE FALSE
  OBVIOUS
<1>1. T \subseteq SUBSET Criteria
  OBVIOUS
<1>2. PICK S \in T : \A t \in T : t \subseteq S => t = S
  <2> HIDE DEF T
  <2>1. QED
    BY <1>1, LeastSubset, WeightAssumption
<1>3. PICK y \in S : Sum(S) # Weight[y] + Sum(S \ {y})
  OBVIOUS
<1>4. S \in SUBSET Criteria /\ S # {} /\ Weight \in [Criteria -> Nat] /\ IsFiniteSet(Criteria)
  BY <1>2, <1>3, WeightAssumption
<1>5. PICK x \in S : Sum(S) = Weight[x] + Sum(S \ {x})
  BY <1>4, SumStep, ChosenIsIn
<1>6. x # y
  BY <1>3, <1>5
<1>7. \A R \in SUBSET S : R # S => \A z \in R : Sum(R) = Weight[z] + Sum(R \ {z})
  BY <1>2, <1>4
<1> HIDE DEF T
<1>8. Sum(S \ {x}) = Weight[y] + Sum((S \ {x}) \ {y})
  BY <1>6, <1>7
<1>9. Sum(S \ {y}) = Weight[x] + Sum((S \ {y}) \ {x})
  BY <1>6, <1>7
<1>10. (S \ {x}) \ {y} = (S \ {y}) \ {x} /\ Sum((S \ {x}) \ {y}) \in Nat
  BY <1>4, SumIsNat
<1>11. Weight[x] \in Nat /\ Weight[y] \in Nat
  BY <1>4
<1> DEFINE r == Sum((S \ {x}) \ {y})
<1>12. Sum(S) = Weight[x] + (Weight[y] + r) /\ Sum(S \ {y}) = Weight[x] + r
  BY <1>5, <1>8, <1>9, <1>10
<1>13. r \in Nat
  BY <1>10
<1> HIDE DEF r
<1>14. Sum(S) = Weight[y] + Sum(S \ {y})
  BY <1>11, <1>12, <1>13
<1>15. QED
  BY <1>3, <1>14

\* What is missing from a sum shows in it.
LEMMA SumIsMonotone ==
  \A S \in SUBSET Criteria : \A A \in SUBSET S :
     /\ Sum(A) <= Sum(S)
     /\ Sum(A) = Sum(S) => A = S
<1> DEFINE T == {S \in SUBSET Criteria : \E A \in SUBSET S : Sum(A) >= Sum(S) /\ A # S}
<1>1. T = {}
  <2> SUFFICES ASSUME T # {} PROVE FALSE
    OBVIOUS
  <2>1. T \subseteq SUBSET Criteria
    OBVIOUS
  <2>2. PICK S \in T : \A t \in T : t \subseteq S => t = S
    <3> HIDE DEF T
    <3>1. QED
      BY <2>1, LeastSubset, WeightAssumption
  <2>3. PICK A \in SUBSET S : Sum(A) >= Sum(S) /\ A # S
    OBVIOUS
  <2>4. PICK y \in S : y \notin A
    BY <2>3
  <2>5. S \in SUBSET Criteria /\ Weight[y] \in Nat \ {0}
    BY <2>2, <2>4, WeightAssumption
  <2>6. Sum(S) = Weight[y] + Sum(S \ {y})
    BY <2>4, <2>5, SumByElement
  <2>7. A \in SUBSET (S \ {y}) /\ S \ {y} \in SUBSET Criteria /\ S \ {y} \notin T
    BY <2>2, <2>3, <2>4, <2>5
  <2>8. A = S \ {y} \/ ~ (Sum(A) >= Sum(S \ {y}))
    BY <2>7
  <2>9. Sum(A) \in Nat /\ Sum(S \ {y}) \in Nat
    BY <2>5, <2>7, SumIsNat
  <2>10. QED
    BY <2>3, <2>5, <2>6, <2>8, <2>9
<1>2. TAKE S \in SUBSET Criteria
<1>3. TAKE A \in SUBSET S
<1>4. A # S => ~ (Sum(A) >= Sum(S))
  BY <1>1
<1>5. Sum(A) \in Nat /\ Sum(S) \in Nat
  BY SumIsNat
<1>6. QED
  BY <1>4, <1>5

\* Rounding to hundredths hides nothing of a total below 20000.
LEMMA RoundFacts ==
  ASSUME NEW p \in Nat, NEW t \in Nat, p <= t, 0 < t, t < 20000
  PROVE  /\ Score(p, t) = 10000 <=> p = t
         /\ Score(p, t) = 0 <=> p = 0
<1> DEFINE q == Score(p, t)
<1>1. q \in Int /\ q * (2 * t) <= 20000 * p + t /\ 20000 * p + t < (q + 1) * (2 * t)
  BY DEF Score
<1> QED
  BY <1>1

-----------------------------------------------------------------------------
(* The pieces of the actions                                               *)

\* What an evaluation says about what has passed.
LEMMA LiveGradeFacts ==
  ASSUME NEW passed \in SUBSET Criteria
  PROVE  /\ LiveGrade(passed).passed = passed
         /\ LiveGrade(passed).status = "PASS" <=> Criteria \subseteq passed
         /\ LiveGrade(passed).score = 10000 <=> LiveGrade(passed).status = "PASS"
         /\ LiveGrade(passed).score = 0 <=> LiveGrade(passed).status = "FAIL"
<1>1. /\ Sum(passed) \in Nat /\ Sum(Criteria) \in Nat
      /\ Sum(passed) <= Sum(Criteria) /\ (Sum(passed) = Sum(Criteria) <=> passed = Criteria)
  BY SumIsNat, SumIsMonotone
<1>2. Sum({}) = 0 /\ Criteria # {}
  <2>1. {} \in SUBSET Criteria /\ IsFiniteSet(Criteria)
    BY WeightAssumption
  <2>2. QED
    BY <2>1, SumStep, GradingAssumption
<1>3. 0 < Sum(Criteria) /\ Sum(Criteria) < 20000
  BY <1>1, <1>2, SumIsMonotone, SumIsNat, WeightAssumption
<1> DEFINE p == Sum(passed)
           t == Sum(Criteria)
<1>5. /\ Score(p, t) = 10000 <=> p = t
      /\ Score(p, t) = 0 <=> p = 0
  BY <1>1, <1>3, RoundFacts
<1>6. /\ Status(p, t) = "PASS" <=> p = t
      /\ Status(p, t) = "FAIL" <=> p = 0
  BY <1>1, <1>3 DEF Status
<1>7. LiveGrade(passed) = [passed |-> passed, score |-> Score(p, t), status |-> Status(p, t)]
  BY DEF LiveGrade
<1>8. p = t <=> Criteria \subseteq passed
  BY <1>1
<1> HIDE DEF p, t
<1>9. QED
  BY <1>5, <1>6, <1>7, <1>8

\* The operations begin, go on and probe with well-formed jobs.
LEMMA JobForms ==
  ASSUME GradingInv,
         NEW pc \in {"mutate", "contract", "before", "observe", "after", "attest", "degrade"}
  PROVE  /\ Idle \in Job /\ Idle.pc = "idle"
         /\ \A op \in {"prepare", "restore", "grade"}, todo \in Seq(Roles) : Operate(op, pc, todo) =>
              job' \in Job /\ job'.pc = pc /\ job'.op = op /\ job'.todo = todo /\ job'.checks = {}
         /\ Probe(pc) =>
              /\ job' \in Job /\ job'.pc = pc /\ job'.op = job.op
              /\ job'.todo = ObservationRoles /\ job'.checks = {} /\ job'.failed = job.failed
         /\ Goto(pc) =>
              /\ job' \in Job /\ job'.pc = pc /\ job'.op = job.op
              /\ job'.todo = job.todo /\ job'.checks = job.checks /\ job'.failed = job.failed
<1>1. Idle \in Job /\ Idle.pc = "idle"
  BY NothingLeft DEF Idle, Job
<1>2. ASSUME NEW op \in {"prepare", "restore", "grade"}, NEW todo \in Seq(Roles), Operate(op, pc, todo)
      PROVE  job' \in Job /\ job'.pc = pc /\ job'.op = op /\ job'.todo = todo /\ job'.checks = {}
  BY <1>2 DEF Operate, Idle, Job
<1>3. job \in Job
  BY DEF GradingInv, JobOK
<1>4. ASSUME Probe(pc)
      PROVE  /\ job' \in Job /\ job'.pc = pc /\ job'.op = job.op
             /\ job'.todo = ObservationRoles /\ job'.checks = {} /\ job'.failed = job.failed
  BY <1>3, <1>4, ObservationIsComplete DEF Probe, Job
<1>5. ASSUME Goto(pc)
      PROVE  /\ job' \in Job /\ job'.pc = pc /\ job'.op = job.op
             /\ job'.todo = job.todo /\ job'.checks = job.checks /\ job'.failed = job.failed
  BY <1>3, <1>5 DEF Goto, Job
<1>6. QED
  BY <1>1, <1>2, <1>4, <1>5

Baselines == [Roles -> {None} \cup SUBSET Criteria]

LEMMA CaptureFacts ==
  ASSUME GradingInv, NEW r \in Roles, Capture(r)
  PROVE  baseline' \in Baselines
<1>1. baseline \in Baselines /\ met \cap Of(r) \in SUBSET Criteria
  BY DEF GradingInv, TypeOK, Of, Baselines
<1> DEFINE seen == met \cap Of(r)
<1>2. [baseline EXCEPT ![r] = seen] \in Baselines
  <2> HIDE DEF seen
  <2>1. seen \in SUBSET Criteria
    BY <1>1 DEF seen
  <2>2. QED
    BY <1>1, <2>1 DEF Baselines
<1>3. QED
  BY <1>1, <1>2 DEF Capture

\* What a helper leaves, however far it came, and what it has captured.
LEMMA ResetFacts ==
  ASSUME GradingInv, NEW r \in Roles,
         Reset(r) \/ (Capture(r) /\ UNCHANGED met) \/ UNCHANGED <<met, baseline>>
  PROVE  met' \subseteq Criteria /\ baseline' \in Baselines
<1>1. met \subseteq Criteria /\ baseline \in Baselines
  BY DEF GradingInv, TypeOK, Baselines
<1>2. CASE Capture(r) /\ (UNCHANGED met \/ met' = met \ Of(r))
  BY <1>1, <1>2, CaptureFacts
<1>3. CASE UNCHANGED baseline /\ Restorable(r) /\ met' = (met \ Of(r)) \cup Original(r)
  <2>1. Original(r) \subseteq Criteria
    <3>1. CASE r \in CaptureRoles
      BY <1>1, <1>3, <3>1 DEF Original, Restorable, Baselines
    <3>2. CASE r \notin CaptureRoles
      BY <3>2, GradingAssumption DEF Original
    <3>3. QED
      BY <3>1, <3>2
  <2>2. QED
    BY <1>1, <1>3, <2>1
<1>4. QED
  BY <1>1, <1>2, <1>3 DEF Reset

-----------------------------------------------------------------------------
(* The steps                                                               *)

\* A step to a point where nothing has been learnt yet.
LEMMA ForgettingKeepsInv ==
  ASSUME GradingInv, TypeOK', job' \in Job,
         job'.pc \in {"idle", "mutate", "before", "degrade"},
         job'.pc = "idle" => job' = Idle,
         job'.pc = "mutate" => job'.op = "restore" \/ (job'.op = "prepare" /\ result' = None),
         job'.pc = "before" => result' = None,
         result' \in {result, None}, ever' = ever, always' = always,
         phase' = "validated" => phase = "validated" /\ job' = Idle /\ met' = met /\ strayed' = strayed
  PROVE  GradingInv'
<1>1. JobOK'
  BY DEF JobOK
<1>2. ProbeOK' /\ ContractIsSeen' /\ AttestedIsExact' /\ WindowIsCredited'
  BY DEF ProbeOK, ContractIsSeen, AttestedIsExact, WindowIsCredited
<1>3. RestoredIsExact'
  BY DEF GradingInv, RestoredIsExact
<1>4. GradesAreFair'
  BY DEF GradingInv, GradesAreFair
<1>5. QED
  BY <1>1, <1>2, <1>3, <1>4 DEF GradingInv

LEMMA BeginsKeepInv ==
  ASSUME GradingInv, Prepare \/ Restore \/ Grade
  PROVE  GradingInv'
<1>1. MutationRoles \in Seq(Roles) /\ <<>> \in Seq(Roles)
  BY GradingAssumption, NothingLeft
<1>2. CASE Prepare
  <2>1. /\ job' \in Job /\ job'.pc = "mutate" /\ job'.op = "prepare" /\ job'.checks = {}
    BY <1>1, <1>2, JobForms DEF Prepare
  <2>2. /\ phase' = "scenario-prepared" /\ active' = TRUE /\ result' = None
        /\ UNCHANGED <<met, lifecycle, baseline, strayed, ever, always>>
    BY <1>2 DEF Prepare, guests, window
  <2>3. TypeOK'
    BY <2>1, <2>2 DEF GradingInv, TypeOK
  <2>4. QED
    BY <2>1, <2>2, <2>3, ForgettingKeepsInv
<1>3. CASE Restore
  <2>1. /\ job' \in Job /\ job'.pc = "mutate" /\ job'.op = "restore" /\ job'.checks = {}
    BY <1>1, <1>3, JobForms DEF Restore
  <2>2. /\ phase # "validated"
        /\ UNCHANGED <<phase, active, result, met, lifecycle, baseline, strayed, ever, always>>
    BY <1>3 DEF Restore, record, guests, window
  <2>3. TypeOK'
    BY <2>1, <2>2 DEF GradingInv, TypeOK
  <2>4. QED
    BY <2>1, <2>2, <2>3, ForgettingKeepsInv
<1>4. CASE Grade
  <2>1. /\ job' \in Job /\ job'.pc = "before" /\ job'.op = "grade" /\ job'.checks = {}
    BY <1>1, <1>4, JobForms DEF Grade
  <2>2. /\ phase # "validated" /\ result' = None
        /\ UNCHANGED <<phase, active, met, lifecycle, baseline, strayed, ever, always>>
    BY <1>4 DEF Grade, record, guests, window
  <2>3. TypeOK'
    BY <2>1, <2>2 DEF GradingInv, TypeOK
  <2>4. QED
    BY <2>1, <2>2, <2>3, ForgettingKeepsInv
<1>5. QED
  BY <1>2, <1>3, <1>4

\* Failures, the end of a failed operation and the death of the host.
LEMMA FailuresKeepInv ==
  ASSUME GradingInv,
         \/ MutateFails \/ MissContract \/ RestoreUnhealthy \/ AttestBeforeFails \/ AttestAfterFails
         \/ Degrade \/ Crash \/ (ObserveFails /\ job.pc = "contract")
  PROVE  GradingInv'
<1>1. /\ job.pc # "idle" /\ phase # "validated"
      /\ phase' \in {phase, "degraded"}
      /\ UNCHANGED <<active, lifecycle, result, ever, always, strayed>>
  BY DEF GradingInv, JobOK, MutateFails, MissContract, RestoreUnhealthy, AttestBeforeFails,
         AttestAfterFails, Degrade, Crash, ObserveFails, CutOff, Idle, record, guests, window
<1>2. met' \subseteq Criteria /\ baseline' \in Baselines
  <2>1. CASE UNCHANGED <<met, baseline>>
    BY <2>1 DEF GradingInv, TypeOK, Baselines
  <2>2. CASE CutOff
    <3>1. Head(job.todo) \in Roles
      BY <2>2, TodoSteps DEF CutOff, GradingInv, JobOK, Job
    <3>2. QED
      BY <2>2, <3>1, ResetFacts DEF CutOff
  <2>3. QED
    BY <2>1, <2>2
       DEF MutateFails, MissContract, RestoreUnhealthy, AttestBeforeFails, AttestAfterFails,
           Degrade, Crash, ObserveFails, guests
<1>3. /\ job' \in Job /\ job'.checks \subseteq Criteria
      /\ job'.pc = "degrade" \/ (job' = Idle /\ job'.pc = "idle")
  <2>1. CASE Goto("degrade")
    BY <2>1, JobForms DEF GradingInv, TypeOK
  <2>2. CASE job' = Idle
    <3>1. Idle \in Job /\ Idle.pc = "idle" /\ Idle.checks = {}
      BY JobForms DEF Idle
    <3>2. QED
      BY <2>2, <3>1
  <2>3. QED
    BY <2>1, <2>2
       DEF MutateFails, MissContract, RestoreUnhealthy, AttestBeforeFails, AttestAfterFails,
           Degrade, Crash, ObserveFails
<1>4. TypeOK'
  BY <1>1, <1>2, <1>3 DEF GradingInv, TypeOK, Baselines
<1>5. QED
  BY <1>1, <1>3, <1>4, ForgettingKeepsInv

\* A step that begins to look at the roles.
LEMMA ProbingKeepsInv ==
  ASSUME GradingInv, TypeOK', job' \in Job, job'.pc \in {"contract", "observe"},
         job'.todo = ObservationRoles, job'.checks = {},
         phase' # "validated", result' \in {result, None},
         result' # None => ever' = ever /\ always' = always,
         job'.pc = "contract" => job'.op = "restore" \/ (job'.op = "prepare" /\ result' = None),
         job'.pc = "observe" => result' = None /\ ever' = met' /\ always' = met'
  PROVE  GradingInv'
<1>1. JobOK'
  BY DEF JobOK
<1>2. \A c \in Criteria : At[c] \in Left(job'.todo)
  BY ObservationIsComplete
<1>3. ProbeOK'
  BY ObservationIsComplete DEF ProbeOK
<1>4. ContractIsSeen'
  BY <1>2 DEF ContractIsSeen
<1>5. AttestedIsExact' /\ RestoredIsExact'
  BY DEF AttestedIsExact, RestoredIsExact
<1>6. WindowIsCredited'
  <2>1. met' \subseteq Criteria
    BY DEF TypeOK
  <2>2. CASE job'.pc = "observe"
    BY <1>2, <2>1, <2>2 DEF WindowIsCredited
  <2>3. CASE job'.pc = "contract"
    BY <2>3 DEF WindowIsCredited
  <2>4. QED
    BY <2>2, <2>3
<1>7. GradesAreFair'
  BY DEF GradingInv, GradesAreFair
<1>8. QED
  BY <1>1, <1>3, <1>4, <1>5, <1>6, <1>7 DEF GradingInv

LEMMA MutateKeepsInv ==
  ASSUME GradingInv, Mutate
  PROVE  GradingInv'
<1>1. /\ job \in Job /\ job.pc = "mutate" /\ job.todo # <<>> /\ job.pc # "idle"
      /\ job.op = "restore" \/ (job.op = "prepare" /\ result = None)
      /\ phase # "validated"
  BY DEF GradingInv, JobOK, Mutate, Idle
<1>2. UNCHANGED <<phase, active, result, ever, always, strayed>>
  BY DEF Mutate, record, window
<1>3. Head(job.todo) \in Roles /\ Tail(job.todo) \in Seq(Roles)
  BY <1>1, TodoSteps DEF Job
<1>4. met' \subseteq Criteria /\ baseline' \in Baselines
  BY <1>3, ResetFacts DEF Mutate
<1>5. lifecycle' \in [Roles -> {None, "prepared", "restored"}]
  <2>1. Lifecycle(job.op) \in {None, "prepared", "restored"}
    BY DEF Lifecycle
  <2>2. lifecycle \in [Roles -> {None, "prepared", "restored"}]
    BY DEF GradingInv, TypeOK
  <2>3. lifecycle' = [lifecycle EXCEPT ![Head(job.todo)] = Lifecycle(job.op)]
    BY DEF Mutate
  <2> HIDE DEF Lifecycle
  <2>4. QED
    BY <1>3, <2>1, <2>2, <2>3
<1>6. CASE Probe("contract")
  <2>1. /\ job' \in Job /\ job'.pc = "contract" /\ job'.op = job.op
        /\ job'.todo = ObservationRoles /\ job'.checks = {}
    BY <1>6, JobForms
  <2>2. TypeOK'
    BY <1>2, <1>4, <1>5, <2>1 DEF GradingInv, TypeOK, Baselines
  <2>3. QED
    BY <1>1, <1>2, <2>1, <2>2, ProbingKeepsInv
<1>7. CASE job' = [job EXCEPT !.todo = Tail(@)]
  <2>1. job' \in Job /\ job'.pc = "mutate" /\ job'.op = job.op /\ job'.checks = job.checks
    BY <1>1, <1>3, <1>7 DEF Job
  <2>2. TypeOK'
    BY <1>2, <1>4, <1>5, <2>1 DEF GradingInv, TypeOK, Baselines
  <2>3. QED
    BY <1>1, <1>2, <2>1, <2>2, ForgettingKeepsInv
<1>8. QED
  BY <1>6, <1>7 DEF Mutate

\* The contract the roles show is the one asked for: what was not changed since
\* it was looked at is as a restore leaves it.
LEMMA ReachContractKeepsInv ==
  ASSUME GradingInv, ReachContract
  PROVE  GradingInv'
<1>1. /\ job \in Job /\ job.pc = "contract" /\ job.todo = <<>> /\ job.checks = Contract(job.op)
      /\ job.op = "restore" \/ (job.op = "prepare" /\ result = None)
      /\ job.pc # "idle" /\ phase # "validated"
  BY DEF GradingInv, JobOK, ReachContract, Idle
<1>2. UNCHANGED <<phase, active, met, lifecycle, baseline, result, ever, always, strayed>>
  BY DEF ReachContract, record, guests, window
<1>3. CASE job.op = "prepare"
  <2>1. Goto("before")
    BY <1>3 DEF ReachContract
  <2>2. job' \in Job /\ job'.pc = "before" /\ job'.checks = job.checks
    BY <2>1, JobForms
  <2>3. TypeOK'
    BY <1>2, <2>2 DEF GradingInv, TypeOK
  <2>4. result' = None
    BY <1>1, <1>2, <1>3
  <2>5. QED
    BY <1>1, <1>2, <2>2, <2>3, <2>4, ForgettingKeepsInv
<1>4. CASE job.op = "restore"
  <2>1. Goto("attest")
    BY <1>4 DEF ReachContract
  <2>2. job' \in Job /\ job'.pc = "attest" /\ job'.op = "restore" /\ job'.checks = job.checks
    BY <1>4, <2>1, JobForms
  <2>3. TypeOK'
    BY <1>2, <2>2 DEF GradingInv, TypeOK
  <2>4. JobOK' /\ ProbeOK' /\ ContractIsSeen' /\ WindowIsCredited'
    BY <1>1, <1>2, <2>2 DEF JobOK, ProbeOK, ContractIsSeen, WindowIsCredited
  <2>5. AttestedIsExact'
    <3>1. \A c \in Criteria \ strayed : c \in job.checks <=> c \in met
      BY <1>1, NothingLeft DEF GradingInv, ContractIsSeen
    <3>2. job.checks = MetWhenRestored
      BY <1>1, <1>4 DEF Contract
    <3>3. QED
      BY <1>2, <3>1, <3>2 DEF AttestedIsExact
  <2>6. RestoredIsExact' /\ GradesAreFair'
    BY <1>1, <1>2 DEF GradingInv, RestoredIsExact, GradesAreFair
  <2>7. QED
    BY <2>3, <2>4, <2>5, <2>6 DEF GradingInv
<1>5. QED
  BY <1>1, <1>3, <1>4

LEMMA RestoreDoneKeepsInv ==
  ASSUME GradingInv, RestoreDone
  PROVE  GradingInv'
<1>1. /\ job.pc = "attest" /\ job' = Idle /\ phase' = "validated" /\ active' = FALSE /\ result' = None
      /\ UNCHANGED <<met, lifecycle, baseline, ever, always, strayed>>
  BY DEF RestoreDone, guests, window
<1>2. Idle \in Job /\ Idle.pc = "idle" /\ Idle.checks = {}
  BY JobForms DEF Idle
<1>3. TypeOK'
  BY <1>1, <1>2 DEF GradingInv, TypeOK
<1>4. JobOK' /\ ProbeOK' /\ ContractIsSeen' /\ AttestedIsExact' /\ WindowIsCredited'
  BY <1>1, <1>2 DEF JobOK, ProbeOK, ContractIsSeen, AttestedIsExact, WindowIsCredited
<1>5. RestoredIsExact'
  BY <1>1 DEF GradingInv, AttestedIsExact, RestoredIsExact
<1>6. GradesAreFair'
  BY <1>1 DEF GradesAreFair
<1>7. QED
  BY <1>3, <1>4, <1>5, <1>6 DEF GradingInv

LEMMA AttestBeforeKeepsInv ==
  ASSUME GradingInv, AttestBefore
  PROVE  GradingInv'
<1>1. /\ job.pc = "before" /\ result = None /\ phase # "validated"
  BY DEF GradingInv, JobOK, AttestBefore, Idle
<1>2. /\ ever' = met' /\ always' = met'
      /\ UNCHANGED <<phase, active, met, lifecycle, baseline, result, strayed>>
  BY DEF AttestBefore, record, guests
<1>3. /\ job' \in Job /\ job'.pc = "observe" /\ job'.todo = ObservationRoles /\ job'.checks = {}
  BY JobForms DEF AttestBefore
<1>4. TypeOK'
  BY <1>2, <1>3 DEF GradingInv, TypeOK
<1>5. QED
  BY <1>1, <1>2, <1>3, <1>4, ProbingKeepsInv

LEMMA ObserveKeepsInv ==
  ASSUME GradingInv, Observe
  PROVE  GradingInv'
<1> DEFINE r == Head(job.todo)
           seen == met \cap Of(r)
<1>1. /\ job \in Job /\ job.pc \in {"contract", "observe"} /\ job.todo # <<>>
      /\ job.pc # "idle" /\ phase # "validated"
  BY DEF GradingInv, JobOK, Observe, Idle
<1>2. UNCHANGED <<phase, active, met, lifecycle, baseline, result, ever, always>>
  BY DEF Observe, record, guests, window
<1>3. job' = [job EXCEPT !.todo = Tail(@), !.checks = @ \cup seen, !.cycles = @ \cup {lifecycle[r]}]
  BY DEF Observe
<1>4. strayed' = IF job.pc = "contract" THEN strayed \ Of(r) ELSE strayed
  BY DEF Observe
<1>5. /\ r \in Roles /\ r \in Left(job.todo) /\ Tail(job.todo) \in Seq(Roles)
      /\ Left(Tail(job.todo)) \subseteq Left(job.todo)
      /\ Left(job.todo) \subseteq Left(Tail(job.todo)) \cup {r}
      /\ Distinct(Tail(job.todo)) /\ r \notin Left(Tail(job.todo))
  BY <1>1, TodoSteps DEF Job, GradingInv, ProbeOK
<1>6. /\ seen \subseteq Criteria /\ seen \subseteq met
      /\ \A c \in Criteria : c \in seen <=> (c \in met /\ At[c] = r)
      /\ \A c \in Of(r) : At[c] = r
  BY DEF GradingInv, TypeOK, Of
<1>7. lifecycle[r] \in {None, "prepared", "restored"}
  BY <1>5 DEF GradingInv, TypeOK
<1> HIDE DEF r, seen
<1>8. /\ job' \in Job /\ job'.pc = job.pc /\ job'.op = job.op /\ job'.failed = job.failed
      /\ job'.todo = Tail(job.todo) /\ job'.checks = job.checks \cup seen
  <2>1. job.checks \cup seen \in SUBSET Criteria
    BY <1>1, <1>6 DEF Job
  <2>2. job.cycles \cup {lifecycle[r]} \in SUBSET {None, "prepared", "restored"}
    BY <1>1, <1>7 DEF Job
  <2>3. QED
    BY <1>1, <1>3, <1>5, <2>1, <2>2 DEF Job
<1>9. \A c \in job.checks : At[c] \notin Left(job.todo)
  BY <1>1 DEF GradingInv, ProbeOK
<1>10. TypeOK'
  BY <1>2, <1>4, <1>6, <1>8 DEF GradingInv, TypeOK
<1>11. JobOK'
  BY <1>1, <1>2, <1>8 DEF GradingInv, JobOK
<1>12. ProbeOK'
  <2>1. \A c \in job.checks \cup seen : At[c] \notin Left(Tail(job.todo))
    BY <1>5, <1>6, <1>9
  <2>2. QED
    BY <1>5, <1>8, <2>1 DEF ProbeOK
<1>13. ContractIsSeen'
  <2> SUFFICES ASSUME job.pc = "contract", NEW c \in Criteria, c \notin strayed',
                      At[c] \notin Left(Tail(job.todo))
               PROVE  c \in job.checks \cup seen <=> c \in met
    BY <1>2, <1>8 DEF ContractIsSeen
  <2>1. CASE At[c] = r
    BY <1>5, <1>6, <1>9, <2>1
  <2>2. CASE At[c] # r
    <3>1. c \notin strayed /\ At[c] \notin Left(job.todo) /\ c \notin seen
      BY <1>4, <1>5, <1>6, <2>2
    <3>2. c \in job.checks <=> c \in met
      BY <3>1 DEF GradingInv, ContractIsSeen
    <3>3. QED
      BY <3>1, <3>2
  <2>3. QED
    BY <2>1, <2>2
<1>14. AttestedIsExact' /\ RestoredIsExact'
  BY <1>1, <1>2, <1>8 DEF AttestedIsExact, RestoredIsExact
<1>15. WindowIsCredited'
  <2> SUFFICES ASSUME job.pc = "observe"
               PROVE  /\ always \subseteq met /\ met \subseteq ever
                      /\ job.checks \cup seen \subseteq ever
                      /\ \A c \in always : At[c] \notin Left(Tail(job.todo)) => c \in job.checks \cup seen
    BY <1>1, <1>2, <1>8 DEF WindowIsCredited
  <2>1. /\ always \subseteq met /\ met \subseteq ever /\ job.checks \subseteq ever
        /\ \A c \in always : At[c] \notin Left(job.todo) => c \in job.checks
    BY DEF GradingInv, WindowIsCredited
  <2>2. met \subseteq Criteria
    BY DEF GradingInv, TypeOK
  <2>3. QED
    BY <1>5, <1>6, <2>1, <2>2
<1>16. GradesAreFair'
  BY <1>2 DEF GradingInv, GradesAreFair
<1>17. QED
  BY <1>10, <1>11, <1>12, <1>13, <1>14, <1>15, <1>16 DEF GradingInv

\* The end of a probe: every role was looked at, or the grade has failed.
LEMMA ObservedKeepsInv ==
  ASSUME GradingInv, Observed \/ (ObserveFails /\ job.pc = "observe")
  PROVE  GradingInv'
<1>1. /\ job \in Job /\ job.pc = "observe" /\ result = None
      /\ job.pc # "idle" /\ phase # "validated"
  BY DEF GradingInv, JobOK, ObserveFails, Observed, Idle
<1>2. UNCHANGED <<phase, active, met, lifecycle, baseline, result, strayed, ever, always>>
  BY DEF ObserveFails, Observed, record, guests, window
<1>3. /\ job' \in Job /\ job'.pc = "after" /\ job'.checks = job.checks
      /\ job.todo = <<>> \/ job'.failed = TRUE
  <2>1. CASE Observed
    <3>1. (\E x, y \in job.cycles : x # y) \in BOOLEAN
      OBVIOUS
    <3>2. QED
      BY <1>1, <2>1, <3>1 DEF Observed, Job
  <2>2. CASE ObserveFails /\ job.pc = "observe"
    BY <1>1, <2>2 DEF ObserveFails, Job
  <2>3. QED
    BY <2>1, <2>2
<1>4. TypeOK'
  BY <1>2, <1>3 DEF GradingInv, TypeOK
<1>5. JobOK' /\ ProbeOK' /\ ContractIsSeen' /\ AttestedIsExact' /\ RestoredIsExact'
  BY <1>1, <1>2, <1>3 DEF JobOK, ProbeOK, ContractIsSeen, AttestedIsExact, RestoredIsExact
<1>6. WindowIsCredited'
  <2> SUFFICES ASSUME job.todo = <<>>
               PROVE  always \subseteq job.checks /\ job.checks \subseteq ever
    BY <1>2, <1>3 DEF WindowIsCredited
  <2>1. QED
    BY <1>1, NothingLeft DEF GradingInv, WindowIsCredited
<1>7. GradesAreFair'
  BY <1>1, <1>2 DEF GradesAreFair
<1>8. QED
  BY <1>4, <1>5, <1>6, <1>7 DEF GradingInv

LEMMA AttestAfterKeepsInv ==
  ASSUME GradingInv, AttestAfter
  PROVE  GradingInv'
<1>1. /\ job.pc = "after" /\ job' = Idle /\ ~job.failed /\ job.checks \in SUBSET Criteria
      /\ result' \in {LiveGrade(job.checks), None} /\ phase # "validated"
      /\ UNCHANGED <<phase, active, met, lifecycle, baseline, ever, always, strayed>>
  BY DEF GradingInv, TypeOK, JobOK, AttestAfter, Trusted, Idle, record, guests, window
<1>2. Idle \in Job /\ Idle.pc = "idle" /\ Idle.checks = {}
  BY JobForms DEF Idle
<1>3. TypeOK'
  BY <1>1, <1>2 DEF GradingInv, TypeOK
<1>4. /\ JobOK' /\ ProbeOK' /\ ContractIsSeen' /\ AttestedIsExact'
      /\ WindowIsCredited' /\ RestoredIsExact'
  BY <1>1, <1>2
     DEF JobOK, ProbeOK, ContractIsSeen, AttestedIsExact, WindowIsCredited, RestoredIsExact
<1>5. GradesAreFair'
  <2>1. always \subseteq job.checks /\ job.checks \subseteq ever
    BY <1>1 DEF GradingInv, WindowIsCredited
  <2>2. /\ LiveGrade(job.checks).passed = job.checks
        /\ LiveGrade(job.checks).status = "PASS" <=> Criteria \subseteq job.checks
        /\ LiveGrade(job.checks).score = 10000 <=> LiveGrade(job.checks).status = "PASS"
        /\ LiveGrade(job.checks).score = 0 <=> LiveGrade(job.checks).status = "FAIL"
    BY <1>1, LiveGradeFacts
  <2>3. CASE result' = LiveGrade(job.checks)
    BY <1>1, <2>1, <2>2, <2>3 DEF GradesAreFair
  <2>4. CASE result' = None
    BY <2>4 DEF GradesAreFair
  <2>5. QED
    BY <1>1, <2>3, <2>4
<1>6. QED
  BY <1>3, <1>4, <1>5 DEF GradingInv

\* The candidate works during a probe: the change is in the window, and the
\* criterion has strayed.
LEMMA ChangeKeepsInv ==
  ASSUME GradingInv, NEW c \in Criteria, Change(c)
  PROVE  GradingInv'
<1>1. /\ UNCHANGED <<phase, active, lifecycle, baseline, job, result>>
      /\ strayed' = strayed \cup {c}
      /\ met' = IF c \in met THEN met \ {c} ELSE met \cup {c}
      /\ IF job.pc = "observe" THEN ever' = ever \cup met' /\ always' = always \cap met'
                               ELSE UNCHANGED <<ever, always>>
  BY DEF Change, record, window
<1>2. met' \subseteq Criteria /\ \A d \in Criteria \ {c} : d \in met' <=> d \in met
  BY <1>1 DEF GradingInv, TypeOK
<1>3. TypeOK'
  BY <1>1, <1>2 DEF GradingInv, TypeOK
<1>4. JobOK' /\ ProbeOK'
  BY <1>1 DEF GradingInv, JobOK, ProbeOK
<1>5. ContractIsSeen'
  BY <1>1, <1>2 DEF GradingInv, ContractIsSeen
<1>6. AttestedIsExact' /\ RestoredIsExact'
  BY <1>1, <1>2 DEF GradingInv, AttestedIsExact, RestoredIsExact
<1>7. WindowIsCredited'
  <2>1. CASE job.pc = "observe"
    BY <1>1, <2>1 DEF GradingInv, WindowIsCredited
  <2>2. CASE job.pc # "observe"
    BY <1>1, <2>2 DEF GradingInv, WindowIsCredited
  <2>3. QED
    BY <2>1, <2>2
<1>8. GradesAreFair'
  <2>1. CASE job.pc = "observe"
    BY <1>1, <2>1 DEF GradingInv, JobOK, GradesAreFair
  <2>2. CASE job.pc # "observe"
    BY <1>1, <2>2 DEF GradingInv, GradesAreFair
  <2>3. QED
    BY <2>1, <2>2
<1>9. QED
  BY <1>3, <1>4, <1>5, <1>6, <1>7, <1>8 DEF GradingInv

\* Steps that leave the invariant's variables alone.
LEMMA StutterKeepsInv ==
  ASSUME GradingInv, Disturb \/ UNCHANGED vars
  PROVE  GradingInv'
<1>1. UNCHANGED <<phase, active, met, lifecycle, baseline, job, result, ever, always, strayed>>
  BY DEF Disturb, vars, record, guests, window
<1>2. TypeOK' /\ JobOK' /\ ProbeOK'
  BY <1>1 DEF GradingInv, TypeOK, JobOK, ProbeOK
<1>3. ContractIsSeen' /\ AttestedIsExact' /\ WindowIsCredited'
  BY <1>1 DEF GradingInv, ContractIsSeen, AttestedIsExact, WindowIsCredited
<1>4. RestoredIsExact' /\ GradesAreFair'
  BY <1>1 DEF GradingInv, RestoredIsExact, GradesAreFair
<1>5. QED
  BY <1>2, <1>3, <1>4 DEF GradingInv

-----------------------------------------------------------------------------
(* The theorems                                                            *)

LEMMA InitInv == Init => GradingInv
<1> SUFFICES ASSUME Init PROVE GradingInv
  OBVIOUS
<1>1. /\ phase = "validated" /\ active = FALSE /\ met = MetWhenRestored
      /\ lifecycle = [r \in Roles |-> None] /\ baseline = [r \in Roles |-> None]
      /\ job = Idle /\ result = None /\ strayed = {}
  BY DEF Init
<1>2. /\ Idle \in Job /\ Idle.pc = "idle" /\ Idle.checks = {}
  BY NothingLeft DEF Idle, Job
<1>3. TypeOK
  BY <1>1, <1>2, GradingAssumption DEF TypeOK
<1>4. JobOK /\ ProbeOK /\ ContractIsSeen /\ AttestedIsExact /\ WindowIsCredited
  BY <1>1, <1>2 DEF JobOK, ProbeOK, ContractIsSeen, AttestedIsExact, WindowIsCredited
<1>5. RestoredIsExact /\ GradesAreFair
  BY <1>1 DEF RestoredIsExact, GradesAreFair
<1>6. QED
  BY <1>3, <1>4, <1>5 DEF GradingInv

LEMMA StepKeepsInv == GradingInv /\ [Next]_vars => GradingInv'
<1> SUFFICES ASSUME GradingInv, [Next]_vars PROVE GradingInv'
  OBVIOUS
<1>1. CASE Prepare \/ Restore \/ Grade
  BY <1>1, BeginsKeepInv
<1>2. CASE \/ MutateFails \/ MissContract \/ RestoreUnhealthy \/ AttestBeforeFails \/ AttestAfterFails
           \/ Degrade \/ Crash
  BY <1>2, FailuresKeepInv
<1>3. CASE ObserveFails
  <2>1. job.pc \in {"contract", "observe"}
    BY <1>3 DEF ObserveFails
  <2>2. QED
    BY <1>3, <2>1, FailuresKeepInv, ObservedKeepsInv
<1>4. CASE Mutate \/ ReachContract \/ RestoreDone \/ AttestBefore
  BY <1>4, MutateKeepsInv, ReachContractKeepsInv, RestoreDoneKeepsInv, AttestBeforeKeepsInv
<1>5. CASE Observe \/ Observed \/ AttestAfter
  BY <1>5, ObserveKeepsInv, ObservedKeepsInv, AttestAfterKeepsInv
<1>6. CASE \E c \in Criteria : Change(c)
  BY <1>6, ChangeKeepsInv
<1>7. CASE Disturb \/ UNCHANGED vars
  BY <1>7, StutterKeepsInv
<1>8. QED
  BY <1>1, <1>2, <1>3, <1>4, <1>5, <1>6, <1>7 DEF Next

\* The invariant holds whatever the guests, their helpers and the candidate do.
THEOREM GradingInvariance == Spec => []GradingInv
<1>1. GradingInv /\ UNCHANGED vars => GradingInv'
  BY StepKeepsInv
<1>2. QED
  BY InitInv, StepKeepsInv, PTL DEF Spec

\* The record, the job and the grade have their types, and an attempt is
\* claimed exactly while the lab is not validated.
THEOREM GradingTypeCorrect == Spec => []TypeOK
<1>1. GradingInv => TypeOK
  BY DEF GradingInv
<1>2. QED
  BY <1>1, GradingInvariance, PTL

\* A restore validates a lab only at the restored contract, but for what was
\* changed after it was looked at: _apply verifies every role itself.
THEOREM GradingRestoresExactly == Spec => []RestoredIsExact
<1>1. GradingInv => RestoredIsExact
  BY DEF GradingInv
<1>2. QED
  BY <1>1, GradingInvariance, PTL

\* A grade credits what was met throughout, only what was met at some moment,
\* is PASS only with every criterion, and its rounded score is the least or the
\* greatest only with FAIL or PASS: _collect_grade_read_only, evaluate_live_grade.
THEOREM GradingGradesFairly == Spec => []GradesAreFair
<1>1. GradingInv => GradesAreFair
  BY DEF GradingInv
<1>2. QED
  BY <1>1, GradingInvariance, PTL

=============================================================================
