--------------------------- MODULE LabLock_proofs ---------------------------
(***************************************************************************)
(* Theorems about LabLock, for any processes, labs and bounds on the       *)
(* objects made and moved.  Three facts make the safety properties         *)
(* inductive: a process past the root lock holds it (RootsAreHeld), a      *)
(* process about to overwrite a record has read its own lab in it          *)
(* (WritersHaveRead), and of two processes that were inside together only  *)
(* the one whose root still has the name can end well                      *)
(* (OverlapsAreNoticed).                                                   *)
(***************************************************************************)
EXTENDS LabLock, TLAPS

Admitted == Working \cup {"ok", "failed"}

RootsAreHeld ==
  \A p \in Processes : proc[p].pc \in Holding => holder[proc[p].root] = p

WritersHaveRead ==
  \A p \in Processes :
    proc[p].pc \in {"verify-record", "commit"} /\ ~proc[p].claims
      => proc[p].lab \in Labs /\ record[proc[p].dir] = proc[p].lab

\* Objects are made in order, and those in use have been made.
RootsAreMade ==
  /\ \A p \in Processes : proc[p].root \in 0 .. made
  /\ at[Top]["root"] \in (0 .. made) \cup {None, Unsafe}

LabsAreKnown ==
  \A p \in Processes : proc[p].pc \in {"lock-root"} \cup Holding => proc[p].lab \in Labs

OverlapsAreNoticed ==
  \A p, q \in Processes :
    p # q /\ {p, q} \in overlapped =>
      /\ proc[p].pc \in Admitted
      /\ proc[p].root # proc[q].root
      /\ proc[p].pc = "ok" => at[Top]["root"] # proc[q].root /\ proc[q].pc # "ok"

LockInv ==
  TypeOK /\ RootsAreHeld /\ WritersHaveRead /\ RootsAreMade /\ LabsAreKnown /\ OverlapsAreNoticed

-----------------------------------------------------------------------------
(* What the actions are made of                                            *)

LEMMA Bounds ==
  /\ Top \in Objects
  /\ None \notin Objects /\ Unsafe \notin Objects
  /\ {"root", "locks"} \subseteq Names /\ Labs \subseteq Names
  /\ "root" \notin Labs /\ None \notin Labs /\ None \notin Processes
  BY LabLockAssumption DEF Top, Objects, Names

\* Opening an entry keeps the file system well formed, and leaves the name of
\* the root alone or gives it to a directory nobody has used yet.
LEMMA OpenOrCreateFacts ==
  ASSUME TypeOK, NEW d \in Objects, NEW n \in Names, OpenOrCreate(d, n)
  PROVE  /\ at' \in [Objects -> [Names -> Objects \cup {None, Unsafe}]]
         /\ made' \in 0 .. MaxObjects /\ made' >= made
         /\ Opened(d, n) \in Objects
         /\ at'[d][n] = Opened(d, n)
         /\ \/ at'[Top]["root"] = at[Top]["root"]
            \/ at'[Top]["root"] = made + 1 /\ made' = made + 1
<1>1. /\ at[d] \in [Names -> Objects \cup {None, Unsafe}]
      /\ at[d][n] \in Objects \cup {None, Unsafe}
      /\ made \in 0 .. MaxObjects /\ MaxObjects \in Nat
  BY LabLockAssumption DEF TypeOK
<1>2. /\ Opened(d, n) \in Objects
      /\ made' \in 0 .. MaxObjects /\ made' >= made
      /\ Opened(d, n) = at[d][n] \/ (Opened(d, n) = made + 1 /\ made' = made + 1)
  BY <1>1, Bounds DEF OpenOrCreate, CanOpenOrCreate, Opened, Objects
<1>3. at' = [at EXCEPT ![d][n] = Opened(d, n)]
  BY DEF OpenOrCreate
<1>4. at' \in [Objects -> [Names -> Objects \cup {None, Unsafe}]]
  BY <1>1, <1>2, <1>3 DEF TypeOK
<1>5. /\ at'[d][n] = Opened(d, n)
      /\ at'[Top]["root"] \in {at[Top]["root"], Opened(d, n)}
      /\ at'[Top]["root"] # at[Top]["root"] => d = Top /\ n = "root"
  BY <1>1, <1>2, <1>3, Bounds DEF TypeOK
<1>6. QED
  BY <1>2, <1>4, <1>5

\* Moving on changes the control point of one process and nothing else of it.
LEMMA GotoFacts ==
  ASSUME TypeOK, NEW p \in Processes, NEW point \in ControlPoint, Goto(p, point)
  PROVE  /\ proc' \in [Processes -> Proc]
         /\ proc'[p] = [proc[p] EXCEPT !.pc = point]
         /\ proc'[p].pc = point
         /\ proc'[p].lab = proc[p].lab /\ proc'[p].root = proc[p].root
         /\ proc'[p].dir = proc[p].dir /\ proc'[p].claims = proc[p].claims
         /\ \A q \in Processes : q # p => proc'[q] = proc[q]
<1>1. proc \in [Processes -> Proc]
  BY DEF TypeOK
<1>2. proc[p] \in Proc
  BY <1>1
<1>3. proc'[p] = [proc[p] EXCEPT !.pc = point]
  BY <1>1 DEF Goto
<1>4. [proc[p] EXCEPT !.pc = point] \in Proc
  BY <1>2 DEF Proc
<1>5. /\ proc' \in [Processes -> Proc]
      /\ \A q \in Processes : q # p => proc'[q] = proc[q]
  BY <1>1, <1>3, <1>4 DEF Goto
<1>6. /\ proc'[p].pc = point
      /\ proc'[p].lab = proc[p].lab /\ proc'[p].root = proc[p].root
      /\ proc'[p].dir = proc[p].dir /\ proc'[p].claims = proc[p].claims
  BY <1>2, <1>3 DEF Proc
<1>7. QED
  BY <1>3, <1>5, <1>6

\* A release takes no lock from another process.
LEMMA ReleasedFacts ==
  ASSUME TypeOK, NEW p \in Processes, holder' = Released(p)
  PROVE  /\ holder' \in [Objects -> Processes \cup {None}]
         /\ \A o \in Objects, q \in Processes : q # p /\ holder[o] = q => holder'[o] = q
  BY Bounds DEF TypeOK, Released

-----------------------------------------------------------------------------
(* Types                                                                   *)

\* A process that opened something remembers it.
LEMMA OpenedTyping ==
  ASSUME TypeOK, NEW p \in Processes, NEW point \in ControlPoint, NEW lab \in Labs \cup {None},
         NEW o \in Objects, NEW claims \in BOOLEAN,
         proc' \in {[proc EXCEPT ![p].pc = point, ![p].lab = lab, ![p].root = o],
                    [proc EXCEPT ![p].pc = point, ![p].locks = o],
                    [proc EXCEPT ![p].pc = point, ![p].file = o],
                    [proc EXCEPT ![p].pc = point, ![p].claims = claims, ![p].dir = o]}
  PROVE  /\ proc' \in [Processes -> Proc]
         /\ proc'[p].pc = point
         /\ \A q \in Processes : q # p => proc'[q] = proc[q]
<1>1. proc \in [Processes -> Proc] /\ proc[p] \in Proc
  BY DEF TypeOK
<1>2. CASE proc' = [proc EXCEPT ![p].pc = point, ![p].lab = lab, ![p].root = o]
  <2>1. [proc[p] EXCEPT !.pc = point, !.lab = lab, !.root = o] \in Proc
    BY <1>1 DEF Proc
  <2>2. QED
    BY <1>1, <1>2, <2>1 DEF Proc
<1>3. CASE proc' = [proc EXCEPT ![p].pc = point, ![p].locks = o]
  <2>1. [proc[p] EXCEPT !.pc = point, !.locks = o] \in Proc
    BY <1>1 DEF Proc
  <2>2. QED
    BY <1>1, <1>3, <2>1 DEF Proc
<1>4. CASE proc' = [proc EXCEPT ![p].pc = point, ![p].file = o]
  <2>1. [proc[p] EXCEPT !.pc = point, !.file = o] \in Proc
    BY <1>1 DEF Proc
  <2>2. QED
    BY <1>1, <1>4, <2>1 DEF Proc
<1>5. CASE proc' = [proc EXCEPT ![p].pc = point, ![p].claims = claims, ![p].dir = o]
  <2>1. [proc[p] EXCEPT !.pc = point, !.claims = claims, !.dir = o] \in Proc
    BY <1>1 DEF Proc
  <2>2. QED
    BY <1>1, <1>5, <2>1 DEF Proc
<1>6. QED
  BY <1>2, <1>3, <1>4, <1>5

-----------------------------------------------------------------------------
(* What a step of one process has to show for each part of the invariant   *)

OnlyMoves(p) == \A q \in Processes : q # p => proc'[q] = proc[q]

\* The name of the root stays, goes, or is given to a new directory.
RootNameMoves ==
  /\ made \in Nat /\ made' \in Nat /\ made' >= made
  /\ \/ at'[Top]["root"] = at[Top]["root"]
     \/ at'[Top]["root"] = made + 1 /\ made' = made + 1
     \/ at'[Top]["root"] \in {None, Unsafe}

RecordsStay == \A d \in Objects : record[d] # None => record'[d] = record[d]

LEMMA RootsStayHeld ==
  ASSUME RootsAreHeld, NEW p \in Processes, OnlyMoves(p),
         \A o \in Objects, q \in Processes : q # p /\ holder[o] = q => holder'[o] = q,
         proc \in [Processes -> Proc],
         proc'[p].pc \in Holding => holder'[proc'[p].root] = p
  PROVE  RootsAreHeld'
<1>1. \A q \in Processes : proc[q].root \in Objects
  BY DEF Proc
<1>2. QED
  BY <1>1 DEF RootsAreHeld, OnlyMoves

LEMMA WritersStillHaveRead ==
  ASSUME WritersHaveRead, NEW p \in Processes, OnlyMoves(p), RecordsStay,
         proc \in [Processes -> Proc],
         proc'[p].pc \in {"verify-record", "commit"} /\ ~proc'[p].claims
           => proc'[p].lab \in Labs /\ record'[proc'[p].dir] = proc'[p].lab
  PROVE  WritersHaveRead'
<1>1. \A q \in Processes : proc[q].dir \in Objects
  BY DEF Proc
<1>2. QED
  BY <1>1, Bounds DEF WritersHaveRead, OnlyMoves, RecordsStay

LEMMA RootsStayMade ==
  ASSUME RootsAreMade, NEW p \in Processes, OnlyMoves(p), RootNameMoves,
         proc'[p].root \in 0 .. made'
  PROVE  RootsAreMade'
<1>1. \A q \in Processes : proc'[q].root \in 0 .. made'
  BY DEF RootsAreMade, OnlyMoves, RootNameMoves
<1>2. at'[Top]["root"] \in (0 .. made') \cup {None, Unsafe}
  BY DEF RootsAreMade, RootNameMoves
<1>3. QED
  BY <1>1, <1>2 DEF RootsAreMade

LEMMA LabsStayKnown ==
  ASSUME LabsAreKnown, NEW p \in Processes, OnlyMoves(p),
         proc'[p].pc \in {"lock-root"} \cup Holding => proc'[p].lab \in Labs
  PROVE  LabsAreKnown'
  BY DEF LabsAreKnown, OnlyMoves

\* A root that lost its name never gets it back.
LEMMA RootNameStaysAway ==
  ASSUME TypeOK, RootsAreMade, RootNameMoves, NEW q \in Processes, at[Top]["root"] # proc[q].root
  PROVE  at'[Top]["root"] # proc[q].root
<1>1. /\ proc[q].root \in 0 .. made /\ made \in 0 .. MaxObjects /\ MaxObjects \in Nat
      /\ {None, Unsafe} \cap (0 .. MaxObjects) = {}
  BY LabLockAssumption DEF RootsAreMade, TypeOK
<1>2. QED
  BY <1>1 DEF RootNameMoves

LEMMA OverlapsStayNoticed ==
  ASSUME TypeOK, RootsAreMade, OverlapsAreNoticed, NEW p \in Processes, OnlyMoves(p), RootNameMoves,
         overlapped' = overlapped,
         proc[p].pc \in Admitted => proc'[p].pc \in Admitted /\ proc'[p].root = proc[p].root,
         proc'[p].pc = "ok" => proc[p].pc = "ok"
  PROVE  OverlapsAreNoticed'
<1> SUFFICES ASSUME NEW q \in Processes, NEW r \in Processes, q # r, {q, r} \in overlapped
             PROVE  /\ proc'[q].pc \in Admitted
                    /\ proc'[q].root # proc'[r].root
                    /\ proc'[q].pc = "ok" => at'[Top]["root"] # proc'[r].root /\ proc'[r].pc # "ok"
  BY DEF OverlapsAreNoticed
<1>1. /\ proc[q].pc \in Admitted /\ proc[r].pc \in Admitted
      /\ proc[q].root # proc[r].root
      /\ proc[q].pc = "ok" => at[Top]["root"] # proc[r].root /\ proc[r].pc # "ok"
  <2>1. {q, r} = {r, q}
    OBVIOUS
  <2>2. QED
    BY <2>1 DEF OverlapsAreNoticed
<1>2. /\ proc'[q].pc \in Admitted /\ proc'[q].root = proc[q].root
      /\ proc'[q].pc = "ok" => proc[q].pc = "ok"
  BY <1>1 DEF OnlyMoves
<1>3. /\ proc'[r].root = proc[r].root
      /\ proc'[r].pc = "ok" => proc[r].pc = "ok"
  BY <1>1 DEF OnlyMoves
<1>4. at[Top]["root"] # proc[r].root => at'[Top]["root"] # proc[r].root
  BY RootNameStaysAway
<1>5. QED
  BY <1>1, <1>2, <1>3, <1>4

-----------------------------------------------------------------------------
(* The steps of a process                                                  *)

LEMMA OpenRootKeepsInv ==
  ASSUME LockInv, NEW p \in Processes, NEW lab \in Labs, OpenRoot(p, lab)
  PROVE  LockInv'
<1>1. /\ at' \in [Objects -> [Names -> Objects \cup {None, Unsafe}]]
      /\ made' \in 0 .. MaxObjects /\ made' >= made
      /\ Opened(Top, "root") \in Objects
      /\ at'[Top]["root"] = Opened(Top, "root")
      /\ \/ at'[Top]["root"] = at[Top]["root"]
         \/ at'[Top]["root"] = made + 1 /\ made' = made + 1
  BY OpenOrCreateFacts, Bounds DEF OpenRoot, LockInv
<1>2. /\ proc' \in [Processes -> Proc]
      /\ proc'[p].pc = "lock-root"
      /\ OnlyMoves(p)
  BY <1>1, OpenedTyping DEF OpenRoot, LockInv, ControlPoint, OnlyMoves
<1>3. proc'[p].lab = lab /\ proc'[p].root = Opened(Top, "root")
  <2>1. proc[p] \in Proc /\ proc'[p] = [proc[p] EXCEPT !.pc = "lock-root", !.lab = lab, !.root = Opened(Top, "root")]
    BY DEF OpenRoot, LockInv, TypeOK
  <2>2. QED
    BY <2>1 DEF Proc
<1>4. /\ proc[p].pc = "start"
      /\ UNCHANGED <<moves, record, holder, overlapped>>
  BY DEF OpenRoot
<1>5. TypeOK'
  BY <1>1, <1>2, <1>4 DEF LockInv, TypeOK
<1>6. RootNameMoves
  BY <1>1, LabLockAssumption DEF RootNameMoves, LockInv, TypeOK
<1>7. RootsAreHeld'
  BY <1>2, <1>4, RootsStayHeld DEF LockInv, TypeOK, Holding, Working
<1>8. WritersHaveRead'
  BY <1>2, <1>4, WritersStillHaveRead DEF LockInv, TypeOK, RecordsStay
<1>9. RootsAreMade'
  <2>1. Opened(Top, "root") \in 0 .. made'
    BY <1>1, <1>6, LabLockAssumption DEF LockInv, RootsAreMade, RootNameMoves, Objects
  <2>2. QED
    BY <1>2, <1>3, <1>6, <2>1, RootsStayMade DEF LockInv
<1>10. LabsAreKnown'
  BY <1>2, <1>3, LabsStayKnown DEF LockInv
<1>11. OverlapsAreNoticed'
  BY <1>2, <1>4, <1>6, OverlapsStayNoticed DEF LockInv, Admitted, Working
<1>12. QED
  BY <1>5, <1>7, <1>8, <1>9, <1>10, <1>11 DEF LockInv

LEMMA LockRootKeepsInv ==
  ASSUME LockInv, NEW p \in Processes, LockRoot(p)
  PROVE  LockInv'
<1>1. /\ proc' \in [Processes -> Proc]
      /\ proc'[p].pc = "open-locks" /\ proc'[p].root = proc[p].root /\ proc'[p].lab = proc[p].lab
      /\ OnlyMoves(p)
  BY GotoFacts DEF LockRoot, LockInv, ControlPoint, OnlyMoves
<1>2. proc[p].root \in Objects
  BY DEF LockInv, TypeOK, Proc
<1>3. /\ proc[p].pc = "lock-root" /\ holder[proc[p].root] = None
      /\ holder' = [holder EXCEPT ![proc[p].root] = p]
      /\ UNCHANGED <<at, made, moves, record, overlapped>>
  BY DEF LockRoot
<1>4. TypeOK'
  BY <1>1, <1>2, <1>3 DEF LockInv, TypeOK
<1>5. RootNameMoves
  BY <1>3, LabLockAssumption DEF RootNameMoves, LockInv, TypeOK
<1>6. RootsAreHeld'
  <2>1. holder'[proc'[p].root] = p
    BY <1>1, <1>2, <1>3 DEF LockInv, TypeOK
  <2>2. \A o \in Objects, q \in Processes : q # p /\ holder[o] = q => holder'[o] = q
    BY <1>2, <1>3, Bounds DEF LockInv, TypeOK
  <2>3. QED
    BY <1>1, <2>1, <2>2, RootsStayHeld DEF LockInv, TypeOK
<1>7. WritersHaveRead'
  BY <1>1, <1>3, WritersStillHaveRead DEF LockInv, TypeOK, RecordsStay
<1>8. RootsAreMade'
  BY <1>1, <1>3, <1>5, RootsStayMade DEF LockInv, RootsAreMade
<1>9. LabsAreKnown'
  BY <1>1, <1>3, LabsStayKnown DEF LockInv, LabsAreKnown
<1>10. OverlapsAreNoticed'
  BY <1>1, <1>3, <1>5, OverlapsStayNoticed DEF LockInv, Admitted, Working
<1>11. QED
  BY <1>4, <1>6, <1>7, <1>8, <1>9, <1>10 DEF LockInv

\* The two steps that open an entry below the root.
LEMMA OpenBelowKeepsInv ==
  ASSUME LockInv, NEW p \in Processes, OpenLocks(p) \/ OpenFile(p)
  PROVE  LockInv'
<1> DEFINE d == IF proc[p].pc = "open-locks" THEN proc[p].root ELSE proc[p].locks
           n == IF proc[p].pc = "open-locks" THEN "locks" ELSE proc[p].lab
<1>1. /\ proc[p].pc \in {"open-locks", "open-file"}
      /\ OpenOrCreate(d, n)
      /\ proc' \in {[proc EXCEPT ![p].pc = "open-file", ![p].locks = Opened(d, n)],
                    [proc EXCEPT ![p].pc = "lock-file", ![p].file = Opened(d, n)]}
      /\ UNCHANGED <<moves, record, holder, overlapped>>
  BY DEF OpenLocks, OpenFile
<1>2. proc[p] \in Proc /\ proc[p].lab \in Labs
  BY <1>1 DEF LockInv, TypeOK, LabsAreKnown, Holding
<1>3. d \in Objects /\ n \in Names
  BY <1>2, Bounds DEF Proc
<1> HIDE DEF d, n
<1>4. /\ at' \in [Objects -> [Names -> Objects \cup {None, Unsafe}]]
      /\ made' \in 0 .. MaxObjects /\ made' >= made
      /\ Opened(d, n) \in Objects
      /\ \/ at'[Top]["root"] = at[Top]["root"]
         \/ at'[Top]["root"] = made + 1 /\ made' = made + 1
  BY <1>1, <1>3, OpenOrCreateFacts DEF LockInv
<1>5. /\ proc' \in [Processes -> Proc]
      /\ proc'[p].pc \in {"open-file", "lock-file"}
      /\ OnlyMoves(p)
  <2>1. CASE proc' = [proc EXCEPT ![p].pc = "open-file", ![p].locks = Opened(d, n)]
    BY <1>4, <2>1, OpenedTyping DEF LockInv, ControlPoint, OnlyMoves
  <2>2. CASE proc' = [proc EXCEPT ![p].pc = "lock-file", ![p].file = Opened(d, n)]
    BY <1>4, <2>2, OpenedTyping DEF LockInv, ControlPoint, OnlyMoves
  <2>3. QED
    BY <1>1, <2>1, <2>2
<1>6. proc'[p].root = proc[p].root /\ proc'[p].lab = proc[p].lab
  <2>1. proc'[p] \in {[proc[p] EXCEPT !.pc = "open-file", !.locks = Opened(d, n)],
                      [proc[p] EXCEPT !.pc = "lock-file", !.file = Opened(d, n)]}
    BY <1>1 DEF LockInv, TypeOK
  <2>2. QED
    BY <1>2, <2>1 DEF Proc
<1>7. TypeOK'
  BY <1>1, <1>4, <1>5 DEF LockInv, TypeOK
<1>8. RootNameMoves
  BY <1>4, LabLockAssumption DEF RootNameMoves, LockInv, TypeOK
<1>9. RootsAreHeld'
  <2>1. holder[proc[p].root] = p
    BY <1>1 DEF LockInv, RootsAreHeld, Holding
  <2>2. QED
    BY <1>1, <1>5, <1>6, <2>1, RootsStayHeld DEF LockInv, TypeOK
<1>10. WritersHaveRead'
  BY <1>1, <1>5, WritersStillHaveRead DEF LockInv, TypeOK, RecordsStay
<1>11. RootsAreMade'
  <2>1. proc[p].root \in 0 .. made'
    BY <1>8 DEF LockInv, RootsAreMade, RootNameMoves
  <2>2. QED
    BY <1>5, <1>6, <1>8, <2>1, RootsStayMade DEF LockInv
<1>12. LabsAreKnown'
  BY <1>2, <1>5, <1>6, LabsStayKnown DEF LockInv
<1>13. OverlapsAreNoticed'
  BY <1>1, <1>5, <1>8, OverlapsStayNoticed DEF LockInv, Admitted, Working
<1>14. QED
  BY <1>7, <1>9, <1>10, <1>11, <1>12, <1>13 DEF LockInv

LEMMA LockFileKeepsInv ==
  ASSUME LockInv, NEW p \in Processes, LockFile(p)
  PROVE  LockInv'
<1>1. /\ proc' \in [Processes -> Proc]
      /\ proc'[p].pc = "verify" /\ proc'[p].root = proc[p].root /\ proc'[p].lab = proc[p].lab
      /\ OnlyMoves(p)
  BY GotoFacts DEF LockFile, LockInv, ControlPoint, OnlyMoves
<1>2. proc[p].root \in Objects /\ proc[p].file \in Objects
  BY DEF LockInv, TypeOK, Proc
<1>3. /\ proc[p].pc = "lock-file" /\ holder[proc[p].file] = None
      /\ holder' = [holder EXCEPT ![proc[p].file] = p]
      /\ UNCHANGED <<at, made, moves, record, overlapped>>
  BY DEF LockFile
<1>4. TypeOK'
  BY <1>1, <1>2, <1>3 DEF LockInv, TypeOK
<1>5. RootNameMoves
  BY <1>3, LabLockAssumption DEF RootNameMoves, LockInv, TypeOK
<1>6. RootsAreHeld'
  <2>1. holder[proc[p].root] = p
    BY <1>3 DEF LockInv, RootsAreHeld, Holding
  <2>2. holder'[proc'[p].root] = p
    BY <1>1, <1>2, <1>3, <2>1 DEF LockInv, TypeOK
  <2>3. \A o \in Objects, q \in Processes : q # p /\ holder[o] = q => holder'[o] = q
    BY <1>2, <1>3, Bounds DEF LockInv, TypeOK
  <2>4. QED
    BY <1>1, <2>2, <2>3, RootsStayHeld DEF LockInv, TypeOK
<1>7. WritersHaveRead'
  BY <1>1, <1>3, WritersStillHaveRead DEF LockInv, TypeOK, RecordsStay
<1>8. RootsAreMade'
  BY <1>1, <1>3, <1>5, RootsStayMade DEF LockInv, RootsAreMade
<1>9. LabsAreKnown'
  BY <1>1, <1>3, LabsStayKnown DEF LockInv, LabsAreKnown, Holding
<1>10. OverlapsAreNoticed'
  BY <1>1, <1>3, <1>5, OverlapsStayNoticed DEF LockInv, Admitted, Working
<1>11. QED
  BY <1>4, <1>6, <1>7, <1>8, <1>9, <1>10 DEF LockInv

\* The one that enters shares no root with those it finds inside.
LEMMA EnterKeepsInv ==
  ASSUME LockInv, NEW p \in Processes, Enter(p)
  PROVE  LockInv'
<1>1. /\ proc' \in [Processes -> Proc]
      /\ proc'[p].pc = "inside" /\ proc'[p].root = proc[p].root /\ proc'[p].lab = proc[p].lab
      /\ OnlyMoves(p)
  BY GotoFacts DEF Enter, LockInv, ControlPoint, Working, OnlyMoves
<1>2. /\ proc[p].pc = "verify"
      /\ overlapped' = overlapped \cup {{p, q} : q \in {other \in Processes : Inside(other)}}
      /\ UNCHANGED <<at, made, moves, record, holder>>
  BY DEF Enter
<1>3. TypeOK'
  BY <1>1, <1>2 DEF LockInv, TypeOK
<1>4. RootNameMoves
  BY <1>2, LabLockAssumption DEF RootNameMoves, LockInv, TypeOK
<1>5. RootsAreHeld'
  <2>1. holder[proc[p].root] = p
    BY <1>2 DEF LockInv, RootsAreHeld, Holding
  <2>2. QED
    BY <1>1, <1>2, <2>1, RootsStayHeld DEF LockInv, TypeOK
<1>6. WritersHaveRead'
  BY <1>1, <1>2, WritersStillHaveRead DEF LockInv, TypeOK, RecordsStay
<1>7. RootsAreMade'
  BY <1>1, <1>2, <1>4, RootsStayMade DEF LockInv, RootsAreMade
<1>8. LabsAreKnown'
  BY <1>1, <1>2, LabsStayKnown DEF LockInv, LabsAreKnown, Holding
<1>9. OverlapsAreNoticed'
  <2> SUFFICES ASSUME NEW q \in Processes, NEW r \in Processes, q # r, {q, r} \in overlapped'
               PROVE  /\ proc'[q].pc \in Admitted
                      /\ proc'[q].root # proc'[r].root
                      /\ proc'[q].pc = "ok" => at'[Top]["root"] # proc'[r].root /\ proc'[r].pc # "ok"
    BY DEF OverlapsAreNoticed
  <2>1. proc'[q].root = proc[q].root /\ proc'[r].root = proc[r].root
    BY <1>1 DEF OnlyMoves
  <2>2. CASE {q, r} \in overlapped
    <3>1. {q, r} = {r, q}
      OBVIOUS
    <3>2. /\ proc[q].pc \in Admitted /\ proc[r].pc \in Admitted
          /\ proc[q].root # proc[r].root
          /\ proc[q].pc = "ok" => at[Top]["root"] # proc[r].root /\ proc[r].pc # "ok"
      BY <2>2, <3>1 DEF LockInv, OverlapsAreNoticed
    <3>3. q # p /\ r # p
      BY <1>2, <3>2 DEF Admitted, Working
    <3>4. proc'[q] = proc[q] /\ proc'[r] = proc[r]
      BY <1>1, <3>3 DEF OnlyMoves
    <3>5. QED
      BY <1>2, <3>2, <3>4
  <2>3. CASE {q, r} \notin overlapped
    <3>1. PICK o \in Processes : Inside(o) /\ {q, r} = {p, o}
      BY <1>2, <2>3
    <3>2. o # p /\ proc'[o] = proc[o]
      BY <1>1, <1>2, <3>1 DEF Inside, Working, OnlyMoves
    <3>3. proc[o].root # proc[p].root
      BY <1>2, <3>1, <3>2 DEF LockInv, RootsAreHeld, Inside, Holding
    <3>4. proc'[q].pc \in Working /\ proc'[r].pc \in Working
      BY <1>1, <3>1, <3>2 DEF Inside, Working
    <3>5. proc[q].root # proc[r].root
      BY <3>1, <3>2, <3>3
    <3>6. QED
      BY <2>1, <3>4, <3>5 DEF Admitted, Working
  <2>4. QED
    BY <2>2, <2>3
<1>10. QED
  BY <1>3, <1>5, <1>6, <1>7, <1>8, <1>9 DEF LockInv

\* The three ways out.  Only a process whose root is still named leaves well.
LEMMA EndKeepsInv ==
  ASSUME LockInv, NEW p \in Processes, Abandon(p) \/ Die(p) \/ Leave(p)
  PROVE  LockInv'
<1>1. /\ holder' = Released(p)
      /\ UNCHANGED <<at, made, moves, record, overlapped>>
      /\ proc[p].pc # "ok"
      /\ \/ Goto(p, "failed")
         \/ Goto(p, "ok") /\ RootNamed(p) /\ proc[p].pc = "inside"
  BY DEF Abandon, Refused, Die, Leave, LockVerifies
<1>2. /\ proc' \in [Processes -> Proc]
      /\ proc'[p].pc \in {"ok", "failed"} /\ proc'[p].root = proc[p].root
      /\ proc'[p].pc = "ok" => at[Top]["root"] = proc[p].root
      /\ OnlyMoves(p)
  <2>1. CASE Goto(p, "failed")
    <3>1. "failed" \in ControlPoint /\ TypeOK
      BY DEF LockInv, ControlPoint
    <3>2. QED
      BY <2>1, <3>1, GotoFacts DEF OnlyMoves
  <2>2. CASE Goto(p, "ok") /\ RootNamed(p)
    <3>1. "ok" \in ControlPoint /\ TypeOK
      BY DEF LockInv, ControlPoint
    <3>2. QED
      BY <2>2, <3>1, GotoFacts DEF OnlyMoves, RootNamed
  <2>3. QED
    BY <1>1, <2>1, <2>2
<1>3. TypeOK'
  BY <1>1, <1>2, ReleasedFacts DEF LockInv, TypeOK
<1>4. RootNameMoves
  BY <1>1, LabLockAssumption DEF RootNameMoves, LockInv, TypeOK
<1>5. RootsAreHeld'
  BY <1>1, <1>2, ReleasedFacts, RootsStayHeld DEF LockInv, TypeOK, Holding, Working
<1>6. WritersHaveRead'
  BY <1>1, <1>2, WritersStillHaveRead DEF LockInv, TypeOK, RecordsStay
<1>7. RootsAreMade'
  BY <1>1, <1>2, <1>4, RootsStayMade DEF LockInv, RootsAreMade
<1>8. LabsAreKnown'
  BY <1>2, LabsStayKnown DEF LockInv, Holding, Working
<1>9. OverlapsAreNoticed'
  <2> SUFFICES ASSUME NEW q \in Processes, NEW r \in Processes, q # r, {q, r} \in overlapped
               PROVE  /\ proc'[q].pc \in Admitted
                      /\ proc'[q].root # proc'[r].root
                      /\ proc'[q].pc = "ok" => at[Top]["root"] # proc'[r].root /\ proc'[r].pc # "ok"
    BY <1>1 DEF OverlapsAreNoticed
  <2>1. {q, r} = {r, q}
    OBVIOUS
  <2>2. /\ proc[q].pc \in Admitted /\ proc[r].pc \in Admitted
        /\ proc[q].root # proc[r].root
        /\ proc[q].pc = "ok" => at[Top]["root"] # proc[r].root /\ proc[r].pc # "ok"
        /\ proc[r].pc = "ok" => at[Top]["root"] # proc[q].root /\ proc[q].pc # "ok"
    BY <2>1 DEF LockInv, OverlapsAreNoticed
  <2>3. proc'[q].root = proc[q].root /\ proc'[r].root = proc[r].root
    BY <1>2 DEF OnlyMoves
  <2>4. CASE q = p
    BY <1>2, <2>2, <2>3, <2>4 DEF OnlyMoves, Admitted
  <2>5. CASE q # p
    <3>1. proc'[q] = proc[q]
      BY <1>2, <2>5 DEF OnlyMoves
    <3>2. CASE r = p
      BY <1>2, <2>2, <2>3, <3>1, <3>2
    <3>3. CASE r # p
      BY <1>2, <2>2, <3>1, <3>3 DEF OnlyMoves
    <3>4. QED
      BY <3>2, <3>3
  <2>6. QED
    BY <2>4, <2>5
<1>10. QED
  BY <1>3, <1>5, <1>6, <1>7, <1>8, <1>9 DEF LockInv

-----------------------------------------------------------------------------
(* The operations under the lock                                           *)

\* A process that stays inside with its root and lab, its next write allowed.
LEMMA WorkKeepsInv ==
  ASSUME LockInv, NEW p \in Processes, OnlyMoves(p), RootNameMoves, RecordsStay, TypeOK',
         proc[p].pc \in Working, proc'[p].pc \in Working,
         proc'[p].root = proc[p].root, proc'[p].lab = proc[p].lab,
         holder' = holder, overlapped' = overlapped,
         proc'[p].pc \in {"verify-record", "commit"} /\ ~proc'[p].claims
           => record'[proc'[p].dir] = proc'[p].lab
  PROVE  LockInv'
<1>1. holder[proc[p].root] = p /\ proc[p].lab \in Labs
  BY DEF LockInv, RootsAreHeld, LabsAreKnown, Holding
<1>2. RootsAreHeld'
  BY <1>1, RootsStayHeld DEF LockInv, TypeOK
<1>3. WritersHaveRead'
  BY <1>1, WritersStillHaveRead DEF LockInv, TypeOK
<1>4. RootsAreMade'
  <2>1. proc[p].root \in 0 .. made'
    BY DEF LockInv, RootsAreMade, RootNameMoves
  <2>2. QED
    BY <2>1, RootsStayMade DEF LockInv
<1>5. LabsAreKnown'
  BY <1>1, LabsStayKnown DEF LockInv
<1>6. OverlapsAreNoticed'
  BY OverlapsStayNoticed DEF LockInv, Admitted, Working
<1>7. QED
  BY <1>2, <1>3, <1>4, <1>5, <1>6 DEF LockInv

LEMMA BeginClaimKeepsInv ==
  ASSUME LockInv, NEW p \in Processes, BeginClaim(p)
  PROVE  LockInv'
<1>1. /\ proc[p].pc = "inside" /\ proc[p] \in Proc /\ proc[p].lab \in Labs
      /\ UNCHANGED <<moves, record, holder, overlapped>>
  BY DEF BeginClaim, LockInv, TypeOK, LabsAreKnown, Holding, Working
<1>2. CASE at[Top]["root"] = None
  <2>1. OpenOrCreate(Top, "root") /\ proc' = proc
    BY <1>2 DEF BeginClaim
  <2>2. /\ at' \in [Objects -> [Names -> Objects \cup {None, Unsafe}]]
        /\ made' \in 0 .. MaxObjects /\ made' >= made
        /\ \/ at'[Top]["root"] = at[Top]["root"]
           \/ at'[Top]["root"] = made + 1 /\ made' = made + 1
    BY <2>1, OpenOrCreateFacts, Bounds DEF LockInv
  <2>3. TypeOK'
    BY <1>1, <2>1, <2>2 DEF LockInv, TypeOK
  <2>4. RootNameMoves
    BY <2>2, LabLockAssumption DEF RootNameMoves, LockInv, TypeOK
  <2>5. QED
    BY <1>1, <2>1, <2>3, <2>4, WorkKeepsInv DEF OnlyMoves, RecordsStay, Working
<1>3. CASE at[Top]["root"] # None
  <2> DEFINE d == at[Top]["root"]
             n == proc[p].lab
  <2>1. /\ OpenOrCreate(d, n)
        /\ proc' = [proc EXCEPT ![p].pc = "verify-record", ![p].claims = TRUE, ![p].dir = Opened(d, n)]
    BY <1>3 DEF BeginClaim
  <2>2. d \in Objects /\ n \in Names
    BY <1>1, <1>3, Bounds DEF BeginClaim, LockInv, TypeOK
  <2> HIDE DEF d, n
  <2>3. /\ at' \in [Objects -> [Names -> Objects \cup {None, Unsafe}]]
        /\ made' \in 0 .. MaxObjects /\ made' >= made
        /\ Opened(d, n) \in Objects
        /\ \/ at'[Top]["root"] = at[Top]["root"]
           \/ at'[Top]["root"] = made + 1 /\ made' = made + 1
    BY <2>1, <2>2, OpenOrCreateFacts DEF LockInv
  <2>4. "verify-record" \in ControlPoint /\ TypeOK
    BY DEF ControlPoint, Working, LockInv
  <2>5. proc' \in [Processes -> Proc] /\ OnlyMoves(p)
    BY <2>1, <2>3, <2>4, OpenedTyping DEF OnlyMoves
  <2>6. /\ proc'[p].pc = "verify-record" /\ proc'[p].claims = TRUE
        /\ proc'[p].root = proc[p].root /\ proc'[p].lab = proc[p].lab
    <3>1. proc'[p] = [proc[p] EXCEPT !.pc = "verify-record", !.claims = TRUE, !.dir = Opened(d, n)]
      BY <2>1, <2>4 DEF TypeOK
    <3>2. QED
      BY <1>1, <3>1 DEF Proc
  <2>7. TypeOK'
    BY <1>1, <2>3, <2>5 DEF LockInv, TypeOK
  <2>8. RootNameMoves
    BY <2>3, LabLockAssumption DEF RootNameMoves, LockInv, TypeOK
  <2>9. QED
    BY <1>1, <2>5, <2>6, <2>7, <2>8, WorkKeepsInv DEF RecordsStay, Working
<1>4. QED
  BY <1>2, <1>3

LEMMA LoadKeepsInv ==
  ASSUME LockInv, NEW p \in Processes, Load(p)
  PROVE  LockInv'
<1> DEFINE o == RecordIn(p)
<1>1. /\ proc[p].pc = "inside" /\ proc[p] \in Proc /\ TypeOK
      /\ o \in Objects /\ record[o] = proc[p].lab
      /\ proc' = [proc EXCEPT ![p].pc = "verify-record", ![p].claims = FALSE, ![p].dir = o]
      /\ UNCHANGED <<at, made, moves, record, holder, overlapped>>
  BY DEF Load, LockInv, TypeOK
<1> HIDE DEF o
<1>2. "verify-record" \in ControlPoint
  BY DEF ControlPoint, Working
<1>3. proc' \in [Processes -> Proc] /\ OnlyMoves(p)
  BY <1>1, <1>2, OpenedTyping DEF OnlyMoves
<1>4. /\ proc'[p].pc = "verify-record" /\ proc'[p].dir = o
      /\ proc'[p].root = proc[p].root /\ proc'[p].lab = proc[p].lab
  <2>1. proc'[p] = [proc[p] EXCEPT !.pc = "verify-record", !.claims = FALSE, !.dir = o]
    BY <1>1 DEF TypeOK
  <2>2. proc[p] \in Proc
    BY <1>1
  <2>3. QED
    BY <2>1, <2>2 DEF Proc
<1>5. TypeOK'
  BY <1>1, <1>3 DEF TypeOK
<1>6. RootNameMoves
  BY <1>1, LabLockAssumption DEF RootNameMoves, TypeOK
<1>7. QED
  BY <1>1, <1>3, <1>4, <1>5, <1>6, WorkKeepsInv DEF RecordsStay, Working

\* The steps that only go on to another point of the command.
LEMMA GoingOnKeepsInv ==
  ASSUME LockInv, NEW p \in Processes, OperationFails(p) \/ VerifyRecord(p)
  PROVE  LockInv'
<1>1. PICK point \in {"raise", "commit", "inside"} :
        /\ Goto(p, point)
        /\ point = "commit" => proc[p].pc = "verify-record"
        /\ proc[p].pc \in Working
        /\ UNCHANGED <<at, made, moves, record, holder, overlapped>>
  BY DEF OperationFails, VerifyRecord, Working
<1>2. point \in ControlPoint /\ TypeOK
  BY DEF LockInv, ControlPoint, Working
<1>3. /\ proc' \in [Processes -> Proc]
      /\ proc'[p].pc = point /\ proc'[p].claims = proc[p].claims /\ proc'[p].dir = proc[p].dir
      /\ proc'[p].root = proc[p].root /\ proc'[p].lab = proc[p].lab
      /\ OnlyMoves(p)
  BY <1>1, <1>2, GotoFacts DEF OnlyMoves
<1>4. TypeOK'
  BY <1>1, <1>2, <1>3 DEF TypeOK
<1>5. RootNameMoves
  BY <1>1, <1>2, LabLockAssumption DEF RootNameMoves, TypeOK
<1>6. proc'[p].pc \in {"verify-record", "commit"} /\ ~proc'[p].claims
        => record'[proc'[p].dir] = proc'[p].lab
  BY <1>1, <1>3 DEF LockInv, WritersHaveRead
<1>7. QED
  BY <1>1, <1>3, <1>4, <1>5, <1>6, WorkKeepsInv DEF RecordsStay, Working

\* A commit writes where there is no record yet, or its own lab again.
LEMMA CommitKeepsRecords ==
  ASSUME LockInv, NEW p \in Processes, Commit(p)
  PROVE  /\ record' \in [Objects -> Labs \cup {None}]
         /\ RecordsStay
<1>1. /\ record \in [Objects -> Labs \cup {None}]
      /\ proc[p] \in Proc /\ proc[p].dir \in Objects
      /\ proc[p].pc = "commit" /\ proc[p].lab \in Labs
  BY DEF Commit, LockInv, TypeOK, Proc, LabsAreKnown, Holding, Working
<1>2. CASE record' = record
  BY <1>1, <1>2 DEF RecordsStay
<1>3. CASE record' # record
  <2>1. /\ record' = [record EXCEPT ![proc[p].dir] = proc[p].lab]
        /\ proc[p].claims => record[proc[p].dir] = None
    BY <1>3 DEF Commit
  <2>2. record[proc[p].dir] \in {None, proc[p].lab}
    <3>1. proc[p].claims \in BOOLEAN
      BY <1>1 DEF Proc
    <3>2. QED
      BY <1>1, <2>1, <3>1 DEF LockInv, WritersHaveRead
  <2>3. QED
    BY <1>1, <2>1, <2>2 DEF RecordsStay
<1>4. QED
  BY <1>2, <1>3

LEMMA CommitKeepsInv ==
  ASSUME LockInv, NEW p \in Processes, Commit(p)
  PROVE  LockInv'
<1>1. PICK point \in {"raise", "verify-written"} :
        /\ Goto(p, point)
        /\ proc[p].pc = "commit"
        /\ UNCHANGED <<at, made, moves, holder, overlapped>>
  BY DEF Commit
<1>2. point \in ControlPoint /\ TypeOK
  BY DEF LockInv, ControlPoint, Working
<1>3. /\ proc' \in [Processes -> Proc]
      /\ proc'[p].pc = point
      /\ proc'[p].root = proc[p].root /\ proc'[p].lab = proc[p].lab
      /\ OnlyMoves(p)
  BY <1>1, <1>2, GotoFacts DEF OnlyMoves
<1>4. record' \in [Objects -> Labs \cup {None}] /\ RecordsStay
  BY CommitKeepsRecords
<1>5. TypeOK'
  BY <1>1, <1>2, <1>3, <1>4 DEF TypeOK
<1>6. RootNameMoves
  BY <1>1, <1>2, LabLockAssumption DEF RootNameMoves, TypeOK
<1>7. QED
  BY <1>1, <1>3, <1>4, <1>5, <1>6, WorkKeepsInv DEF Working

-----------------------------------------------------------------------------
(* Somebody else, nobody, and the beginning                                *)

\* A step of no process that at most takes the name of the root away.
LEMMA OutsidersKeepInv ==
  ASSUME LockInv,
         at' \in [Objects -> [Names -> Objects \cup {None, Unsafe}]],
         moves' \in 0 .. MaxMoves,
         at'[Top]["root"] \in {at[Top]["root"], None, Unsafe},
         UNCHANGED <<made, record, holder, proc, overlapped>>
  PROVE  LockInv'
<1>1. TypeOK'
  BY DEF LockInv, TypeOK
<1>2. RootNameMoves /\ TypeOK
  BY LabLockAssumption DEF RootNameMoves, LockInv, TypeOK
<1>3. RootsAreHeld' /\ WritersHaveRead' /\ LabsAreKnown'
  BY DEF LockInv, RootsAreHeld, WritersHaveRead, LabsAreKnown
<1>4. RootsAreMade'
  BY DEF LockInv, RootsAreMade
<1>5. \A q \in Processes : at[Top]["root"] # proc[q].root => at'[Top]["root"] # proc'[q].root
  BY <1>2, RootNameStaysAway DEF LockInv
<1>6. OverlapsAreNoticed'
  BY <1>5 DEF LockInv, OverlapsAreNoticed
<1>7. QED
  BY <1>1, <1>3, <1>4, <1>6 DEF LockInv

LEMMA MoveAwayKeepsInv ==
  ASSUME LockInv, NEW d \in Objects, NEW n \in Names, MoveAway(d, n)
  PROVE  LockInv'
<1>1. PICK entry \in {None, Unsafe} : at' = [at EXCEPT ![d][n] = entry]
  BY DEF MoveAway
<1>2. at \in [Objects -> [Names -> Objects \cup {None, Unsafe}]]
  BY DEF LockInv, TypeOK
<1>3. /\ at' \in [Objects -> [Names -> Objects \cup {None, Unsafe}]]
      /\ at'[Top]["root"] \in {at[Top]["root"], None, Unsafe}
  BY <1>1, <1>2, Bounds
<1>4. moves' \in 0 .. MaxMoves
  BY LabLockAssumption DEF MoveAway, LockInv, TypeOK
<1>5. QED
  BY <1>3, <1>4, OutsidersKeepInv DEF MoveAway

LEMMA MoveLabKeepsInv ==
  ASSUME LockInv, NEW d \in Objects, NEW from \in Labs, NEW to \in Labs, MoveLab(d, from, to)
  PROVE  LockInv'
<1>1. at' = [at EXCEPT ![d][from] = None, ![d][to] = at[d][from]]
  BY DEF MoveLab
<1>2. /\ at \in [Objects -> [Names -> Objects \cup {None, Unsafe}]]
      /\ from \in Names /\ to \in Names /\ from # "root" /\ to # "root"
  BY Bounds DEF LockInv, TypeOK
<1>3. /\ at' \in [Objects -> [Names -> Objects \cup {None, Unsafe}]]
      /\ at'[Top]["root"] = at[Top]["root"]
  BY <1>1, <1>2, Bounds
<1>4. moves' \in 0 .. MaxMoves
  BY LabLockAssumption DEF MoveLab, LockInv, TypeOK
<1>5. QED
  BY <1>3, <1>4, OutsidersKeepInv DEF MoveLab

LEMMA NobodyKeepsInv ==
  ASSUME LockInv, UNCHANGED vars
  PROVE  LockInv'
BY OutsidersKeepInv DEF vars, LockInv, TypeOK

LEMMA InitEstablishesInv ==
  ASSUME Init
  PROVE  LockInv
<1>1. TypeOK
  <2>1. [pc |-> "start", lab |-> None, root |-> Top, locks |-> Top,
         file |-> Top, dir |-> Top, claims |-> FALSE] \in Proc
    BY Bounds DEF Proc, ControlPoint
  <2>2. proc \in [Processes -> Proc]
    BY <2>1 DEF Init
  <2>3. 0 \in 0 .. MaxObjects /\ 0 \in 0 .. MaxMoves
    BY LabLockAssumption
  <2>4. QED
    BY <2>2, <2>3 DEF Init, TypeOK
<1>2. \A p \in Processes : proc[p].pc = "start" /\ proc[p].root = 0
  BY DEF Init, Top
<1>3. RootsAreHeld /\ WritersHaveRead /\ LabsAreKnown
  BY <1>2 DEF RootsAreHeld, WritersHaveRead, LabsAreKnown, Holding, Working
<1>4. RootsAreMade
  BY <1>2, Bounds DEF RootsAreMade, Init
<1>5. OverlapsAreNoticed
  BY DEF OverlapsAreNoticed, Init
<1>6. QED
  BY <1>1, <1>3, <1>4, <1>5 DEF LockInv

LEMMA StepKeepsInv ==
  ASSUME LockInv, [Next]_vars
  PROVE  LockInv'
<1>1. ASSUME NEW p \in Processes, Acquire(p)
      PROVE  LockInv'
  <2>1. ASSUME NEW lab \in Labs, OpenRoot(p, lab)
        PROVE  LockInv'
    BY <2>1, OpenRootKeepsInv
  <2>2. CASE LockRoot(p)
    BY <2>2, LockRootKeepsInv
  <2>3. CASE OpenLocks(p) \/ OpenFile(p)
    BY <2>3, OpenBelowKeepsInv
  <2>4. CASE LockFile(p)
    BY <2>4, LockFileKeepsInv
  <2>5. CASE Enter(p)
    BY <2>5, EnterKeepsInv
  <2>6. CASE Abandon(p)
    BY <2>6, EndKeepsInv
  <2>7. QED
    BY <1>1, <2>1, <2>2, <2>3, <2>4, <2>5, <2>6 DEF Acquire
<1>2. ASSUME NEW p \in Processes, Operate(p)
      PROVE  LockInv'
  <2>1. CASE BeginClaim(p)
    BY <2>1, BeginClaimKeepsInv
  <2>2. CASE Load(p)
    BY <2>2, LoadKeepsInv
  <2>3. CASE OperationFails(p) \/ VerifyRecord(p)
    BY <2>3, GoingOnKeepsInv
  <2>4. CASE Commit(p)
    BY <2>4, CommitKeepsInv
  <2>5. QED
    BY <1>2, <2>1, <2>2, <2>3, <2>4 DEF Operate
<1>3. ASSUME NEW p \in Processes, Leave(p) \/ Die(p)
      PROVE  LockInv'
  BY <1>3, EndKeepsInv
<1>4. ASSUME NEW d \in Objects, NEW n \in Names, MoveAway(d, n)
      PROVE  LockInv'
  BY <1>4, MoveAwayKeepsInv
<1>5. ASSUME NEW d \in Objects, NEW from \in Labs, NEW to \in Labs, MoveLab(d, from, to)
      PROVE  LockInv'
  BY <1>5, MoveLabKeepsInv
<1>6. CASE UNCHANGED vars
  BY <1>6, NobodyKeepsInv
<1>7. QED
  BY <1>1, <1>2, <1>3, <1>4, <1>5, <1>6 DEF Next, Finished

-----------------------------------------------------------------------------
(* Who waits for whom                                                      *)

\* A process that is Filed has opened a lock file, one that is Rooted a root.
Filed == {"lock-file"} \cup FileHolding
Rooted == {"lock-root"} \cup Holding

InUse(p, o) ==
  \/ o = proc[p].root /\ proc[p].pc \in Holding
  \/ o = proc[p].file /\ proc[p].pc \in FileHolding

LocksAreUsed == \A o \in Objects, p \in Processes : holder[o] = p => InUse(p, o)

\* What is, or was when a process opened it, a root, or an entry of a lab.
Roots ==
  ({at[Top]["root"]} \cap Objects)
    \cup {proc[p].root : p \in {q \in Processes : proc[q].pc \in Rooted}}
Files ==
  ({at[d][lab] : d \in Objects, lab \in Labs} \cap Objects)
    \cup {proc[p].file : p \in {q \in Processes : proc[q].pc \in Filed}}

KindsAreApart == Roots \cap Files = {} /\ Roots \cup Files \subseteq 0 .. made

UsesInv == LocksAreUsed /\ KindsAreApart

LEMMA LocksStayUsed ==
  ASSUME LocksAreUsed, NEW p \in Processes, OnlyMoves(p),
         \A o \in Objects, q \in Processes : q # p /\ holder'[o] = q => holder[o] = q,
         \A o \in Objects : holder'[o] = p => InUse(p, o)'
  PROVE  LocksAreUsed'
<1> SUFFICES ASSUME NEW o \in Objects, NEW q \in Processes, holder'[o] = q
             PROVE  InUse(q, o)'
  BY DEF LocksAreUsed
<1>1. CASE q = p
  BY <1>1
<1>2. CASE q # p
  BY <1>2 DEF LocksAreUsed, OnlyMoves, InUse
<1>3. QED
  BY <1>1, <1>2

\* A step makes at most one object, which is a root or a file but not both.
LEMMA KindsStayApart ==
  ASSUME KindsAreApart, made \in Nat, made' \in Nat, made' >= made,
         NEW newRoots, NEW newFiles, Roots' \subseteq Roots \cup newRoots, Files' \subseteq Files \cup newFiles,
         newRoots \cup newFiles \subseteq {made + 1},
         newRoots = {} \/ newFiles = {},
         newRoots \cup newFiles # {} => made' = made + 1
  PROVE  KindsAreApart'
<1>1. made + 1 \notin Roots \cup Files
  BY DEF KindsAreApart
<1>2. Roots' \cap Files' = {}
  BY <1>1 DEF KindsAreApart
<1>3. Roots' \cup Files' \subseteq 0 .. made'
  <2>1. Roots \cup Files \subseteq 0 .. made'
    BY DEF KindsAreApart
  <2>2. newRoots \cup newFiles \subseteq 0 .. made'
    OBVIOUS
  <2>3. QED
    BY <2>1, <2>2
<1>4. QED
  BY <1>2, <1>3 DEF KindsAreApart

LEMMA KindsStayAsTheyAre ==
  ASSUME KindsAreApart, made \in Nat, made' \in Nat, made' >= made,
         Roots' \subseteq Roots \cup {}, Files' \subseteq Files \cup {}
  PROVE  KindsAreApart'
BY DEF KindsAreApart

\* What the step of one process does to roots and files.
LEMMA RootsOfStep ==
  ASSUME NEW p \in Processes, OnlyMoves(p), NEW new,
         at'[Top]["root"] \in Objects => at'[Top]["root"] \in {at[Top]["root"]} \cup new,
         proc'[p].pc \in Rooted => proc'[p].root \in Roots \cup new
  PROVE  Roots' \subseteq Roots \cup new
BY DEF Roots, OnlyMoves

LEMMA FilesOfStep ==
  ASSUME NEW p \in Processes, OnlyMoves(p), NEW new,
         \A d \in Objects, lab \in Labs : at'[d][lab] \in Objects => at'[d][lab] \in Files \cup new,
         proc'[p].pc \in Filed => proc'[p].file \in Files \cup new
  PROVE  Files' \subseteq Files \cup new
BY DEF Files, OnlyMoves

LEMMA EntriesAreFiles ==
  \A d \in Objects, lab \in Labs : at[d][lab] \in Objects => at[d][lab] \in Files
BY DEF Files

\* A step that opens nothing new: the process stays with what it has, or ends.
LEMMA MovingOnKeepsKinds ==
  ASSUME LockInv, UsesInv, NEW p \in Processes, OnlyMoves(p), UNCHANGED <<at, made>>,
         proc'[p].pc \in Rooted => proc[p].pc \in Rooted /\ proc'[p].root = proc[p].root,
         proc'[p].pc \in Filed => proc[p].pc \in Filed /\ proc'[p].file = proc[p].file
  PROVE  KindsAreApart'
<1>1. Roots' \subseteq Roots \cup {}
  <2>1. proc'[p].pc \in Rooted => proc'[p].root \in Roots
    BY DEF Roots
  <2>2. QED
    BY <2>1, RootsOfStep
<1>2. Files' \subseteq Files \cup {}
  <2>1. proc'[p].pc \in Filed => proc'[p].file \in Files
    BY DEF Files
  <2>2. QED
    BY <2>1, EntriesAreFiles, FilesOfStep
<1>3. made \in Nat /\ made' \in Nat /\ made' >= made
  BY LabLockAssumption DEF LockInv, TypeOK
<1>4. QED
  BY <1>1, <1>2, <1>3, KindsStayAsTheyAre DEF UsesInv

\* Moving on, with the file as well.
LEMMA GotoKeeps ==
  ASSUME TypeOK, NEW p \in Processes, NEW point \in ControlPoint, Goto(p, point)
  PROVE  /\ proc'[p].pc = point /\ proc'[p].root = proc[p].root /\ proc'[p].file = proc[p].file
         /\ OnlyMoves(p)
<1>1. proc[p] \in Proc /\ proc'[p] = [proc[p] EXCEPT !.pc = point] /\ OnlyMoves(p)
  BY GotoFacts DEF TypeOK, OnlyMoves
<1>2. QED
  BY <1>1 DEF Proc

LEMMA TakesKeepUses ==
  ASSUME LockInv, UsesInv, NEW p \in Processes, LockRoot(p) \/ LockFile(p)
  PROVE  UsesInv'
<1>1. /\ proc[p].root \in Objects /\ proc[p].file \in Objects
      /\ holder \in [Objects -> Processes \cup {None}] /\ TypeOK
  BY DEF LockInv, TypeOK, Proc
<1>2. CASE LockRoot(p)
  <2>1. /\ proc[p].pc = "lock-root" /\ holder' = [holder EXCEPT ![proc[p].root] = p]
        /\ UNCHANGED <<at, made>>
    BY <1>2 DEF LockRoot
  <2>2. /\ proc'[p].pc = "open-locks" /\ proc'[p].root = proc[p].root
        /\ OnlyMoves(p)
    BY <1>1, <1>2, GotoKeeps DEF LockRoot, ControlPoint
  <2>3. \A o \in Objects : holder'[o] = p => InUse(p, o)'
    <3>1. \A o \in Objects : holder[o] # p
      BY <2>1 DEF UsesInv, LocksAreUsed, InUse, Holding, FileHolding, Working
    <3>2. QED
      BY <1>1, <2>1, <2>2, <3>1 DEF InUse, Holding
  <2>4. LocksAreUsed'
    BY <1>1, <2>1, <2>2, <2>3, LocksStayUsed DEF UsesInv
  <2>5. KindsAreApart'
    BY <2>1, <2>2, MovingOnKeepsKinds DEF Rooted, Filed, Holding, FileHolding, Working
  <2>6. QED
    BY <2>4, <2>5 DEF UsesInv
<1>3. CASE LockFile(p)
  <2>1. /\ proc[p].pc = "lock-file" /\ holder' = [holder EXCEPT ![proc[p].file] = p]
        /\ UNCHANGED <<at, made>>
    BY <1>3 DEF LockFile
  <2>2. /\ proc'[p].pc = "verify" /\ proc'[p].root = proc[p].root /\ proc'[p].file = proc[p].file
        /\ OnlyMoves(p)
    BY <1>1, <1>3, GotoKeeps DEF LockFile, ControlPoint
  <2>3. \A o \in Objects : holder'[o] = p => InUse(p, o)'
    <3>1. \A o \in Objects : holder[o] = p => o = proc[p].root
      BY <2>1 DEF UsesInv, LocksAreUsed, InUse, FileHolding, Working
    <3>2. QED
      BY <1>1, <2>1, <2>2, <3>1 DEF InUse, Holding, FileHolding
  <2>4. LocksAreUsed'
    BY <1>1, <2>1, <2>2, <2>3, LocksStayUsed DEF UsesInv
  <2>5. KindsAreApart'
    BY <2>1, <2>2, MovingOnKeepsKinds DEF Rooted, Filed, Holding, FileHolding, Working
  <2>6. QED
    BY <2>4, <2>5 DEF UsesInv
<1>4. QED
  BY <1>2, <1>3

LEMMA EndKeepsUses ==
  ASSUME LockInv, UsesInv, NEW p \in Processes, Abandon(p) \/ Die(p) \/ Leave(p)
  PROVE  UsesInv'
<1>1. /\ holder' = Released(p) /\ UNCHANGED <<at, made>>
      /\ Goto(p, "failed") \/ Goto(p, "ok")
  BY DEF Abandon, Die, Leave
<1>2. "failed" \in ControlPoint /\ "ok" \in ControlPoint /\ TypeOK
  BY DEF ControlPoint, LockInv
<1>3. proc'[p].pc \in {"failed", "ok"} /\ OnlyMoves(p)
  BY <1>1, <1>2, GotoKeeps
<1>4. LocksAreUsed'
  <2>1. \A o \in Objects : holder'[o] # p /\ (holder'[o] = holder[o] \/ holder'[o] = None)
    BY <1>1, <1>2, Bounds DEF Released, TypeOK
  <2>2. QED
    BY <1>3, <2>1, Bounds, LocksStayUsed DEF UsesInv
<1>5. KindsAreApart'
  BY <1>1, <1>3, MovingOnKeepsKinds DEF Rooted, Filed, Holding, FileHolding, Working
<1>6. QED
  BY <1>4, <1>5 DEF UsesInv

\* A step that keeps the locks it has and their use.
LEMMA HoldingKeepsUses ==
  ASSUME LockInv, UsesInv, NEW p \in Processes, OnlyMoves(p), holder' = holder,
         proc[p].pc \in Holding =>
           proc'[p].pc \in Holding /\ proc'[p].root = proc[p].root,
         proc[p].pc \in FileHolding =>
           proc'[p].pc \in FileHolding /\ proc'[p].file = proc[p].file
  PROVE  LocksAreUsed'
<1>1. \A o \in Objects : holder'[o] = p => InUse(p, o)'
  BY DEF UsesInv, LocksAreUsed, InUse
<1>2. QED
  BY <1>1, LocksStayUsed DEF UsesInv

\* Steps that neither open nor lock anything.
LEMMA PlainStepsKeepUses ==
  ASSUME LockInv, UsesInv, NEW p \in Processes,
         Enter(p) \/ OperationFails(p) \/ VerifyRecord(p) \/ Commit(p) \/ Load(p)
  PROVE  UsesInv'
<1>1. TypeOK /\ proc[p] \in Proc
  BY DEF LockInv, TypeOK
<1>2. UNCHANGED <<at, made, holder>> /\ proc[p].pc \in FileHolding
  BY DEF Enter, OperationFails, VerifyRecord, Commit, Load, FileHolding, Working
<1>3. /\ proc'[p].pc \in Working /\ proc'[p].root = proc[p].root /\ proc'[p].file = proc[p].file
      /\ OnlyMoves(p)
  <2>1. CASE \E point \in Working : Goto(p, point)
    BY <1>1, <2>1, GotoKeeps DEF ControlPoint
  <2>2. CASE Load(p)
    <3>1. proc' = [proc EXCEPT ![p] = [proc[p] EXCEPT !.pc = "verify-record", !.claims = FALSE, !.dir = RecordIn(p)]]
      BY <1>1, <2>2 DEF Load, TypeOK
    <3>2. QED
      BY <1>1, <3>1 DEF Proc, TypeOK, OnlyMoves, Working
  <2>3. QED
    BY <2>1, <2>2 DEF Enter, OperationFails, VerifyRecord, Commit, Working
<1>4. LocksAreUsed'
  BY <1>2, <1>3, HoldingKeepsUses DEF Holding, FileHolding
<1>5. KindsAreApart'
  BY <1>2, <1>3, MovingOnKeepsKinds DEF Rooted, Filed, Holding, FileHolding
<1>6. QED
  BY <1>4, <1>5 DEF UsesInv

\* What an entry that is opened or created becomes.
LEMMA OpenedKinds ==
  ASSUME LockInv, NEW d \in Objects, NEW n \in Names, OpenOrCreate(d, n)
  PROVE  /\ \A e \in Objects, m \in Names : <<e, m>> # <<d, n>> => at'[e][m] = at[e][m]
         /\ at'[d][n] = Opened(d, n) /\ Opened(d, n) \in Objects
         /\ made \in Nat /\ made' \in Nat
         /\ \/ Opened(d, n) = at[d][n] /\ made' = made
            \/ Opened(d, n) = made + 1 /\ made' = made + 1
<1>1. TypeOK /\ made \in 0 .. MaxObjects /\ MaxObjects \in Nat
  BY LabLockAssumption DEF LockInv, TypeOK
<1>2. /\ at'[d][n] = Opened(d, n) /\ Opened(d, n) \in Objects
      /\ made' \in Nat /\ made \in Nat
  BY <1>1, OpenOrCreateFacts
<1>3. at' = [at EXCEPT ![d][n] = Opened(d, n)]
  BY DEF OpenOrCreate
<1>4. \A e \in Objects, m \in Names : <<e, m>> # <<d, n>> => at'[e][m] = at[e][m]
  BY <1>1, <1>3 DEF TypeOK
<1>5. \/ Opened(d, n) = at[d][n] /\ made' = made
      \/ Opened(d, n) = made + 1 /\ made' = made + 1
  BY DEF OpenOrCreate, Opened
<1>6. QED
  BY <1>2, <1>4, <1>5

\* The root is opened or created, by an acquisition or by a claim.
LEMMA RootOpens ==
  ASSUME LockInv, UsesInv, NEW p \in Processes, OnlyMoves(p), OpenOrCreate(Top, "root"),
         proc'[p].pc \in Rooted =>
           proc'[p].root = Opened(Top, "root") \/ (proc[p].pc \in Rooted /\ proc'[p].root = proc[p].root),
         proc'[p].pc \in Filed => proc[p].pc \in Filed /\ proc'[p].file = proc[p].file
  PROVE  KindsAreApart'
<1> DEFINE new == {Opened(Top, "root")} \ {at[Top]["root"]}
<1>1. /\ \A e \in Objects, lab \in Labs : at'[e][lab] = at[e][lab]
      /\ at'[Top]["root"] = Opened(Top, "root") /\ Opened(Top, "root") \in Objects
      /\ made \in Nat /\ made' \in Nat
      /\ \/ Opened(Top, "root") = at[Top]["root"] /\ made' = made
         \/ Opened(Top, "root") = made + 1 /\ made' = made + 1
  BY OpenedKinds, Bounds
<1>2. Roots' \subseteq Roots \cup new
  <2>1. proc[p].pc \in Rooted => proc[p].root \in Roots
    BY DEF Roots
  <2>2. Opened(Top, "root") \in Roots \cup new
    BY <1>1 DEF Roots
  <2>3. QED
    BY <1>1, <2>1, <2>2, RootsOfStep
<1>3. Files' \subseteq Files \cup {}
  <2>1. proc'[p].pc \in Filed => proc'[p].file \in Files
    BY DEF Files
  <2>2. QED
    BY <1>1, <2>1, EntriesAreFiles, FilesOfStep
<1>4. new \subseteq {made + 1} /\ (new # {} => made' = made + 1) /\ made' >= made
  BY <1>1
<1> HIDE DEF new
<1>5. QED
  BY <1>1, <1>2, <1>3, <1>4, KindsStayApart DEF UsesInv

\* An entry of a lab is opened or created: a lock file or a record's directory.
LEMMA EntryOpens ==
  ASSUME LockInv, UsesInv, NEW p \in Processes, OnlyMoves(p),
         NEW d \in Objects, NEW n \in Labs, OpenOrCreate(d, n),
         proc'[p].pc \in Rooted => proc[p].pc \in Rooted /\ proc'[p].root = proc[p].root,
         proc'[p].pc \in Filed =>
           proc'[p].file = Opened(d, n) \/ (proc[p].pc \in Filed /\ proc'[p].file = proc[p].file)
  PROVE  KindsAreApart'
<1> DEFINE new == {Opened(d, n)} \ {at[d][n]}
<1>1. /\ at'[Top]["root"] = at[Top]["root"]
      /\ \A e \in Objects, lab \in Labs : at'[e][lab] \in {at[e][lab], Opened(d, n)}
      /\ Opened(d, n) \in Objects
      /\ made \in Nat /\ made' \in Nat
      /\ \/ Opened(d, n) = at[d][n] /\ made' = made
         \/ Opened(d, n) = made + 1 /\ made' = made + 1
  BY OpenedKinds, Bounds
<1>2. Roots' \subseteq Roots \cup {}
  <2>1. proc'[p].pc \in Rooted => proc'[p].root \in Roots
    BY DEF Roots
  <2>2. QED
    BY <1>1, <2>1, RootsOfStep
<1>3. Files' \subseteq Files \cup new
  <2>1. proc[p].pc \in Filed => proc[p].file \in Files
    BY DEF Files
  <2>2. Opened(d, n) \in Files \cup new
    BY <1>1, EntriesAreFiles
  <2>3. \A e \in Objects, lab \in Labs : at'[e][lab] \in Objects => at'[e][lab] \in Files \cup new
    BY <1>1, <2>2, EntriesAreFiles
  <2>4. proc'[p].pc \in Filed => proc'[p].file \in Files \cup new
    BY <2>1, <2>2
  <2> HIDE DEF new
  <2>5. QED
    BY <2>3, <2>4, FilesOfStep
<1>4. new \subseteq {made + 1} /\ (new # {} => made' = made + 1) /\ made' >= made
  BY <1>1
<1> HIDE DEF new
<1>5. QED
  BY <1>1, <1>2, <1>3, <1>4, KindsStayApart DEF UsesInv

LEMMA OpensKeepUses ==
  ASSUME LockInv, UsesInv, NEW p \in Processes,
         (\E lab \in Labs : OpenRoot(p, lab)) \/ OpenLocks(p) \/ OpenFile(p) \/ BeginClaim(p)
  PROVE  UsesInv'
<1>1. TypeOK /\ proc \in [Processes -> Proc] /\ proc[p] \in Proc
  BY DEF LockInv, TypeOK
<1>2. ASSUME NEW lab \in Labs, OpenRoot(p, lab)
      PROVE  UsesInv'
  <2>1. /\ proc[p].pc = "start" /\ OpenOrCreate(Top, "root") /\ holder' = holder
        /\ proc' = [proc EXCEPT ![p] = [proc[p] EXCEPT !.pc = "lock-root", !.lab = lab,
                                                        !.root = Opened(Top, "root")]]
    BY <1>1, <1>2 DEF OpenRoot
  <2>2. /\ proc'[p].pc = "lock-root" /\ proc'[p].root = Opened(Top, "root") /\ OnlyMoves(p)
    BY <1>1, <2>1 DEF Proc, OnlyMoves
  <2>3. KindsAreApart'
    BY <2>1, <2>2, RootOpens DEF Filed, FileHolding, Working
  <2>4. LocksAreUsed'
    BY <2>1, <2>2, HoldingKeepsUses DEF Holding, FileHolding, Working
  <2>5. QED
    BY <2>3, <2>4 DEF UsesInv
<1>3. CASE OpenLocks(p)
  <2>1. /\ proc[p].pc = "open-locks" /\ OpenOrCreate(proc[p].root, "locks") /\ holder' = holder
        /\ proc' = [proc EXCEPT ![p] = [proc[p] EXCEPT !.pc = "open-file",
                                                        !.locks = Opened(proc[p].root, "locks")]]
    BY <1>1, <1>3 DEF OpenLocks
  <2>2. /\ proc'[p].pc = "open-file" /\ proc'[p].root = proc[p].root /\ OnlyMoves(p)
        /\ proc[p].root \in Objects
    BY <1>1, <2>1 DEF Proc, OnlyMoves
  <2>3. /\ at'[Top]["root"] = at[Top]["root"]
        /\ \A e \in Objects, lab \in Labs : at'[e][lab] = at[e][lab]
        /\ made \in Nat /\ made' \in Nat /\ made' >= made
    <3>1. "locks" \in Names /\ "locks" \notin Labs /\ "root" # "locks"
      BY LabLockAssumption DEF Names
    <3>2. QED
      BY <2>1, <2>2, <3>1, OpenedKinds, Bounds
  <2>4. Roots' \subseteq Roots \cup {}
    <3>1. proc[p].root \in Roots
      BY <2>1 DEF Roots, Rooted, Holding
    <3>2. QED
      BY <2>2, <2>3, <3>1, RootsOfStep
  <2>5. Files' \subseteq Files \cup {}
    <3>1. proc'[p].pc \notin Filed
      BY <2>2 DEF Filed, FileHolding, Working
    <3>2. QED
      BY <2>2, <2>3, <3>1, EntriesAreFiles, FilesOfStep
  <2>6. KindsAreApart'
    BY <2>3, <2>4, <2>5, KindsStayAsTheyAre DEF UsesInv
  <2>7. LocksAreUsed'
    BY <2>1, <2>2, HoldingKeepsUses DEF Holding, FileHolding, Working
  <2>8. QED
    BY <2>6, <2>7 DEF UsesInv
<1>4. CASE OpenFile(p)
  <2>1. /\ proc[p].pc = "open-file" /\ OpenOrCreate(proc[p].locks, proc[p].lab) /\ holder' = holder
        /\ proc' = [proc EXCEPT ![p] = [proc[p] EXCEPT !.pc = "lock-file",
                                                        !.file = Opened(proc[p].locks, proc[p].lab)]]
    BY <1>1, <1>4 DEF OpenFile
  <2>2. /\ proc'[p].pc = "lock-file" /\ proc'[p].root = proc[p].root
        /\ proc'[p].file = Opened(proc[p].locks, proc[p].lab) /\ OnlyMoves(p)
        /\ proc[p].locks \in Objects
    BY <1>1, <2>1 DEF Proc, OnlyMoves
  <2>3. proc[p].lab \in Labs
    BY <2>1 DEF LockInv, LabsAreKnown, Holding
  <2>4. KindsAreApart'
    BY <2>1, <2>2, <2>3, EntryOpens DEF Rooted, Holding
  <2>5. LocksAreUsed'
    BY <2>1, <2>2, HoldingKeepsUses DEF Holding, FileHolding, Working
  <2>6. QED
    BY <2>4, <2>5 DEF UsesInv
<1>5. CASE BeginClaim(p)
  <2>1. proc[p].pc = "inside" /\ holder' = holder /\ proc[p].lab \in Labs
    BY <1>5 DEF BeginClaim, LockInv, LabsAreKnown, Holding, Working
  <2>2. /\ proc'[p].pc \in Working /\ proc'[p].root = proc[p].root /\ proc'[p].file = proc[p].file
        /\ OnlyMoves(p)
        /\ \/ OpenOrCreate(Top, "root")
           \/ at[Top]["root"] \in Objects /\ OpenOrCreate(at[Top]["root"], proc[p].lab)
    <3>1. CASE at[Top]["root"] = None
      BY <1>5, <2>1, <3>1 DEF BeginClaim, OnlyMoves, Working
    <3>2. CASE at[Top]["root"] # None
      <4>1. /\ OpenOrCreate(at[Top]["root"], proc[p].lab) /\ at[Top]["root"] # Unsafe
            /\ proc' = [proc EXCEPT ![p] = [proc[p] EXCEPT !.pc = "verify-record", !.claims = TRUE,
                                              !.dir = Opened(at[Top]["root"], proc[p].lab)]]
        BY <1>1, <1>5, <3>2 DEF BeginClaim
      <4>2. at[Top]["root"] \in Objects
        BY <1>1, <3>2, <4>1, Bounds DEF TypeOK
      <4>3. QED
        BY <1>1, <4>1, <4>2 DEF Proc, OnlyMoves, Working
    <3>3. QED
      BY <3>1, <3>2
  <2>3. KindsAreApart'
    BY <2>1, <2>2, RootOpens, EntryOpens DEF Rooted, Filed, Holding, FileHolding, Working
  <2>4. LocksAreUsed'
    BY <2>1, <2>2, HoldingKeepsUses DEF Holding, FileHolding, Working
  <2>5. QED
    BY <2>3, <2>4 DEF UsesInv
<1>6. QED
  BY <1>2, <1>3, <1>4, <1>5

\* Somebody else moves a name, or nothing happens.
LEMMA OutsidersKeepUses ==
  ASSUME LockInv, UsesInv,
         \/ \E d \in Objects, n \in Names : MoveAway(d, n)
         \/ \E d \in Objects, from, to \in Labs : MoveLab(d, from, to)
         \/ UNCHANGED vars
  PROVE  UsesInv'
<1>1. UNCHANGED <<made, holder, proc>>
  BY DEF MoveAway, MoveLab, vars
<1>2. TypeOK /\ made \in Nat
  BY LabLockAssumption DEF LockInv, TypeOK
<1>3. /\ at'[Top]["root"] \in {at[Top]["root"], None, Unsafe}
      /\ \A e \in Objects, lab \in Labs :
           at'[e][lab] \in {None, Unsafe} \cup {at[e][other] : other \in Labs}
  <2>1. ASSUME NEW d \in Objects, NEW n \in Names, MoveAway(d, n)
        PROVE  \A e \in Objects, m \in Names : at'[e][m] \in {at[e][m], None, Unsafe}
    BY <1>2, <2>1 DEF MoveAway, TypeOK
  <2>2. ASSUME NEW d \in Objects, NEW from \in Labs, NEW to \in Labs, MoveLab(d, from, to)
        PROVE  /\ at'[Top]["root"] = at[Top]["root"]
               /\ \A e \in Objects, lab \in Labs : at'[e][lab] \in {None, at[e][lab], at[e][from]}
    BY <1>2, <2>2, Bounds DEF MoveLab, TypeOK
  <2>3. CASE UNCHANGED vars
    BY <2>3 DEF vars
  <2>4. QED
    BY <2>1, <2>2, <2>3, Bounds
<1>4. Roots' \subseteq Roots \cup {}
  BY <1>1, <1>3, Bounds DEF Roots
<1>5. Files' \subseteq Files \cup {}
  BY <1>1, <1>3, Bounds DEF Files
<1>6. KindsAreApart'
  BY <1>1, <1>2, <1>4, <1>5, KindsStayAsTheyAre DEF UsesInv
<1>7. LocksAreUsed'
  BY <1>1 DEF UsesInv, LocksAreUsed, InUse
<1>8. QED
  BY <1>6, <1>7 DEF UsesInv

LEMMA StepKeepsUses ==
  ASSUME LockInv, UsesInv, [Next]_vars
  PROVE  UsesInv'
<1>1. ASSUME NEW p \in Processes, Acquire(p) \/ Operate(p) \/ Leave(p) \/ Die(p)
      PROVE  UsesInv'
  BY <1>1, OpensKeepUses, TakesKeepUses, PlainStepsKeepUses, EndKeepsUses DEF Acquire, Operate
<1>2. QED
  BY <1>1, OutsidersKeepUses DEF Next, Finished

LEMMA InitEstablishesUses == Init => UsesInv
<1> SUFFICES ASSUME Init PROVE UsesInv
  OBVIOUS
<1>1. \A p \in Processes : proc[p].pc = "start"
  BY DEF Init
<1>2. \A d \in Objects, n \in Names : at[d][n] = None
  BY DEF Init
<1>3. Roots = {} /\ Files = {}
  <2>1. "start" \notin Rooted /\ "start" \notin Filed
    BY DEF Rooted, Filed, Holding, FileHolding, Working
  <2>2. QED
    BY <1>1, <1>2, <2>1, Bounds DEF Roots, Files
<1>4. LocksAreUsed
  BY Bounds DEF Init, LocksAreUsed
<1>5. QED
  BY <1>3, <1>4 DEF UsesInv, KindsAreApart

-----------------------------------------------------------------------------
(* The theorems                                                            *)

LEMMA LockInvariant == Spec => []LockInv
<1>1. Init => LockInv
  BY InitEstablishesInv
<1>2. LockInv /\ [Next]_vars => LockInv'
  BY StepKeepsInv
<1>3. QED
  BY <1>1, <1>2, PTL DEF Spec

\* The state of LabMutatorLock, of the directories and of the records stays well
\* formed under every interleaving of commands and moves.
THEOREM LockTypeCorrect == Spec => []TypeOK
<1>1. LockInv => TypeOK
  BY DEF LockInv
<1>2. QED
  BY <1>1, LockInvariant, PTL

\* Whatever is moved or replaced below a state root, LabMutatorLock lets at most
\* one command work on the labs of that root: each of two holds the lock on its
\* root, and a lock has one holder.
THEOREM LockExcludes == Spec => []OneMutatorPerRoot
<1>1. LockInv => OneMutatorPerRoot
  BY DEF LockInv, RootsAreHeld, OneMutatorPerRoot, Inside, Holding
<1>2. QED
  BY <1>1, LockInvariant, PTL

\* Of two commands that were inside LabMutatorLock at the same time, because the
\* root was replaced between them, at most one leaves it without an error.
THEOREM LockOverlapsAreSerial == Spec => []SilentCommandsAreSerial
<1>1. LockInv => SilentCommandsAreSerial
  BY DEF LockInv, OverlapsAreNoticed, SilentCommandsAreSerial
<1>2. QED
  BY <1>1, LockInvariant, PTL

\* LabMutatorLock takes the lock on the root before that on the lock file and
\* gives both back on every way out, so that no circle of commands waits for each
\* other and no lock is kept by a command that has ended.
THEOREM LockWaitsAreShort == Spec => [](LocksAreUsed /\ WaitsAreShort)
<1>1. Init => LockInv /\ UsesInv
  BY InitEstablishesInv, InitEstablishesUses
<1>2. LockInv /\ UsesInv /\ [Next]_vars => (LockInv /\ UsesInv)'
  BY StepKeepsInv, StepKeepsUses
<1>3. LockInv /\ UsesInv => LocksAreUsed /\ WaitsAreShort
  <2> SUFFICES ASSUME LockInv, UsesInv, NEW p \in Processes, NEW q \in Processes, WaitsFor(p, q)
               PROVE  /\ proc[q].pc \in Holding
                      /\ proc[p].pc = "lock-file" => proc[q].pc \in FileHolding
    BY DEF UsesInv, WaitsAreShort
  <2>1. proc[p].root \in Objects /\ proc[p].file \in Objects
    BY DEF LockInv, TypeOK, Proc
  <2>2. proc[q].pc \in Holding
    BY <2>1 DEF WaitsFor, UsesInv, LocksAreUsed, InUse, FileHolding, Holding
  <2>3. ASSUME proc[p].pc = "lock-file"
        PROVE  proc[q].pc \in FileHolding
    <3>1. InUse(q, proc[p].file)
      BY <2>1, <2>3 DEF WaitsFor, UsesInv, LocksAreUsed
    <3>2. proc[p].file \in Files /\ proc[q].root \in Roots
      BY <2>2, <2>3 DEF Files, Roots, Filed, Rooted
    <3>3. proc[p].file # proc[q].root
      BY <3>2 DEF UsesInv, KindsAreApart
    <3>4. QED
      BY <3>1, <3>3 DEF InUse
  <2>4. QED
    BY <2>2, <2>3
<1>4. QED
  BY <1>1, <1>2, <1>3, PTL DEF Spec

\* No claim or replace writes the record of one lab over that of another, also
\* when directories are moved between the verification and the commit.
THEOREM LockRecordsKeepTheirLab == Spec => RecordsKeepTheirLab
<1>1. LockInv /\ [Next]_vars => [\A d \in Objects : record[d] # None => record'[d] = record[d]]_vars
  <2> SUFFICES ASSUME LockInv, Next
               PROVE  RecordsStay
    BY DEF RecordsStay
  <2>1. ASSUME NEW p \in Processes, Commit(p)
        PROVE  RecordsStay
    BY <2>1, CommitKeepsRecords
  <2>2. CASE record' = record
    BY <2>2 DEF RecordsStay
  <2>3. (\E p \in Processes : Commit(p)) \/ record' = record
    <3>1. ASSUME NEW p \in Processes, Acquire(p)
          PROVE  record' = record
      BY <3>1 DEF Acquire, OpenRoot, LockRoot, OpenLocks, OpenFile, LockFile, Enter, Abandon
    <3>2. ASSUME NEW p \in Processes, Operate(p), ~Commit(p)
          PROVE  record' = record
      BY <3>2 DEF Operate, BeginClaim, Load, OperationFails, VerifyRecord
    <3>3. ASSUME NEW p \in Processes, Leave(p) \/ Die(p)
          PROVE  record' = record
      BY <3>3 DEF Leave, Die
    <3>4. ASSUME NEW d \in Objects, NEW n \in Names, MoveAway(d, n)
          PROVE  record' = record
      BY <3>4 DEF MoveAway
    <3>5. ASSUME NEW d \in Objects, NEW from \in Labs, NEW to \in Labs, MoveLab(d, from, to)
          PROVE  record' = record
      BY <3>5 DEF MoveLab
    <3>6. CASE Finished
      BY <3>6 DEF Finished, vars
    <3>7. QED
      BY <3>1, <3>2, <3>3, <3>4, <3>5, <3>6 DEF Next
  <2>4. QED
    BY <2>1, <2>2, <2>3
<1>2. QED
  BY <1>1, LockInvariant, PTL DEF Spec, RecordsKeepTheirLab

=============================================================================
