-------------------------- MODULE LimaMachine_proofs --------------------------
(***************************************************************************)
(* Theorems about LimaMachine, for any processes and provider data.  The   *)
(* host provider lock makes a running operation the only one               *)
(* (LocksAreHeld), so that between two of its commands only Lima itself    *)
(* and somebody outside the program act on the machine.  What an operation *)
(* knows of the machine then depends on its control point and on what the  *)
(* machine was when it began (ContractInv).                                *)
(***************************************************************************)
EXTENDS LimaMachine, TLAPS

LocksAreHeld ==
  \A p \in Processes : IF At(p, "idle") THEN proc[p] = Idle ELSE lock = p

RefusedHaveNoProof == \A p \in refused : proof[p] = None

LimaInv ==
  /\ TypeOK /\ LocksAreHeld
  /\ CommandsReachWhatWasVerified
  /\ DeletionsFollowTheLatestProof /\ RefusedHaveNoProof

-----------------------------------------------------------------------------
(* Machines                                                                *)

LEMMA MachineTypes ==
  ASSUME vm \in Instance \cup {None}
  PROVE  /\ State \in VmState \cup {"foreign"}
         /\ vm # None => Fingerprint(vm) \in Fingerprints
         /\ \A s \in {"running", "stopped"} : vm # None => [vm EXCEPT !.status = s] \in Instance
         /\ vm # None => Marked \in Instance
         /\ \A s \in {"running", "stopped"} : New(s) \in Instance
<1>1. State \in VmState \cup {"foreign"}
  BY DEF State, VmState, Instance
<1>2. vm # None => Fingerprint(vm) \in Fingerprints
  BY DEF Fingerprint, Fingerprints, Instance
<1>3. \A s \in {"running", "stopped"} : vm # None => [vm EXCEPT !.status = s] \in Instance
  BY DEF Instance
<1>4. vm # None => Marked \in Instance
  BY DEF Instance, Marked
<1>5. \A s \in {"running", "stopped"} : New(s) \in Instance
  BY LimaAssumption DEF New, Instance
<1>6. QED
  BY <1>1, <1>2, <1>3, <1>4, <1>5

-----------------------------------------------------------------------------
(* Processes                                                               *)

Others(p) == \A q \in Processes \ {p} : proc'[q] = proc[q]

LEMMA IdleType == Idle \in Proc /\ Idle.pc = "idle" /\ Idle.op = None
BY DEF Idle, Proc, ControlPoint, VmState

LEMMA Becoming ==
  ASSUME proc \in [Processes -> Proc], NEW p \in Processes, NEW r \in Proc,
         proc' = [proc EXCEPT ![p] = r]
  PROVE  proc' \in [Processes -> Proc] /\ proc'[p] = r /\ Others(p)
BY DEF Others

LEMMA Returning ==
  ASSUME proc \in [Processes -> Proc], NEW p \in Processes, Return(p)
  PROVE  proc' \in [Processes -> Proc] /\ proc'[p] = Idle /\ Others(p) /\ lock' = None
BY IdleType, Becoming DEF Return

LEMMA Going ==
  ASSUME proc \in [Processes -> Proc], NEW p \in Processes, NEW point \in ControlPoint, Goto(p, point)
  PROVE  /\ proc' \in [Processes -> Proc] /\ Others(p)
         /\ proc'[p].pc = point /\ proc'[p].op = proc[p].op
         /\ proc'[p].seen = proc[p].seen /\ proc'[p].before = proc[p].before
<1>1. proc[p] \in Proc
  OBVIOUS
<1>2. /\ [proc[p] EXCEPT !.pc = point] \in Proc
      /\ [proc[p] EXCEPT !.pc = point].pc = point
      /\ [proc[p] EXCEPT !.pc = point].op = proc[p].op
      /\ [proc[p] EXCEPT !.pc = point].seen = proc[p].seen
      /\ [proc[p] EXCEPT !.pc = point].before = proc[p].before
  BY <1>1 DEF Proc
<1>3. proc' = [proc EXCEPT ![p] = [proc[p] EXCEPT !.pc = point]]
  BY DEF Goto
<1>4. QED
  BY <1>2, <1>3, Becoming

LEMMA GoingWithSight ==
  ASSUME proc \in [Processes -> Proc], NEW p \in Processes, NEW point \in ControlPoint,
         NEW f \in Fingerprints, proc' = [proc EXCEPT ![p].pc = point, ![p].seen = f]
  PROVE  /\ proc' \in [Processes -> Proc] /\ Others(p)
         /\ proc'[p].pc = point /\ proc'[p].op = proc[p].op
         /\ proc'[p].seen = f /\ proc'[p].before = proc[p].before
<1> DEFINE r == [proc[p] EXCEPT !.pc = point, !.seen = f]
<1>1. proc[p] \in Proc
  OBVIOUS
<1>2. /\ r \in Proc /\ r.pc = point /\ r.op = proc[p].op /\ r.seen = f /\ r.before = proc[p].before
  BY <1>1 DEF Proc
<1>3. proc' = [proc EXCEPT ![p] = r]
  BY <1>1
<1> HIDE DEF r
<1>4. QED
  BY <1>2, <1>3, Becoming

-----------------------------------------------------------------------------
(* The safety of commands and deletions                                    *)

\* A running operation is the only one.
LEMMA OthersAreIdle ==
  ASSUME LimaInv, NEW p \in Processes, lock = None \/ ~At(p, "idle")
  PROVE  /\ lock \in {p, None}
         /\ \A q \in Processes \ {p} : proc[q] = Idle
BY LimaAssumption, IdleType DEF LimaInv, LocksAreHeld, At

\* One process goes on while the others are idle.
LEMMA MovesKeepInv ==
  ASSUME LimaInv, NEW p \in Processes, lock = None \/ ~At(p, "idle"),
         vm' \in Instance \cup {None},
         proc' \in [Processes -> Proc], Others(p),
         IF proc'[p].pc = "idle" THEN proc'[p] = Idle /\ lock' = None ELSE lock' = p,
         proof' \in [Processes -> Fingerprints \cup {None}],
         \A q \in Processes \ {p} : proof'[q] = proof[q],
         meddled' = meddled, stale' \in {stale, stale \ {p}},
         refused' \subseteq refused \cup {p},
         p \in refused' => proof'[p] = None /\ proc'[p].op # "delete",
         p \notin stale' => Target(p)'
  PROVE  LimaInv'
<1>1. \A q \in Processes \ {p} : proc'[q] = Idle
  BY OthersAreIdle DEF Others
<1>2. TypeOK'
  BY OthersAreIdle DEF LimaInv, TypeOK
<1>3. LocksAreHeld'
  BY <1>1, IdleType DEF LocksAreHeld, At
<1>4. CommandsReachWhatWasVerified'
  <2> SUFFICES ASSUME NEW q \in Processes, q # p PROVE Target(q)'
    BY DEF CommandsReachWhatWasVerified
  <2>1. proc'[q].pc = "idle"
    BY <1>1, IdleType
  <2>2. QED
    BY <2>1 DEF Target
<1>5. DeletionsFollowTheLatestProof'
  <2>1. \A q \in Processes \ {p} : proc'[q].op # "delete"
    BY <1>1, IdleType, LimaAssumption DEF Operations
  <2>2. QED
    BY <2>1 DEF DeletionsFollowTheLatestProof
<1>6. RefusedHaveNoProof'
  BY DEF LimaInv, TypeOK, RefusedHaveNoProof
<1>7. QED
  BY <1>2, <1>3, <1>4, <1>5, <1>6 DEF LimaInv

LEMMA EndsKeepInv ==
  ASSUME LimaInv, NEW p \in Processes, ~At(p, "idle"), Return(p),
         vm' \in Instance \cup {None}, meddled' = meddled, stale' \in {stale, stale \ {p}},
         \/ proof' = proof /\ refused' = refused
         \/ proof' = [proof EXCEPT ![p] = None] /\ refused' = refused
         \/ /\ refused' = refused \ {p}
            /\ \E f \in Fingerprints \cup {None} : proof' = [proof EXCEPT ![p] = f]
  PROVE  LimaInv'
<1>1. proc' \in [Processes -> Proc] /\ proc'[p] = Idle /\ Others(p) /\ lock' = None
  BY Returning DEF LimaInv, TypeOK
<1>2. Target(p)'
  BY <1>1, IdleType DEF Target
<1>3. /\ proof' \in [Processes -> Fingerprints \cup {None}]
      /\ \A q \in Processes \ {p} : proof'[q] = proof[q]
      /\ refused' \subseteq refused \cup {p}
      /\ p \in refused' => proof'[p] = None
  BY DEF LimaInv, TypeOK, RefusedHaveNoProof
<1>4. proc'[p].op # "delete" /\ proc'[p].pc = "idle"
  BY <1>1, IdleType, LimaAssumption DEF Operations
<1>5. QED
  BY <1>1, <1>2, <1>3, <1>4, MovesKeepInv

LEMMA GoesKeepInv ==
  ASSUME LimaInv, NEW p \in Processes, ~At(p, "idle"),
         proc' \in [Processes -> Proc], Others(p),
         proc'[p].pc # "idle", proc'[p].op = proc[p].op,
         vm' \in Instance \cup {None},
         UNCHANGED <<lock, proof, meddled, refused>>, stale' \in {stale, stale \ {p}},
         p \notin stale' => Target(p)'
  PROVE  LimaInv'
<1>1. lock' = p
  BY DEF LimaInv, LocksAreHeld
<1>2. p \in refused' => proof'[p] = None /\ proc'[p].op # "delete"
  BY DEF LimaInv, RefusedHaveNoProof, DeletionsFollowTheLatestProof
<1>3. proof' \in [Processes -> Fingerprints \cup {None}]
  BY DEF LimaInv, TypeOK
<1>4. QED
  BY <1>1, <1>2, <1>3, MovesKeepInv

\* The control points at which a command is about to change the machine.
Commanding == {"stop", "delete", "rollback-stop", "command", "write-marker"}

LEMMA BeginsKeepInv ==
  ASSUME LimaInv, NEW p \in Processes, BeginDelete(p) \/ \E op \in Operations : Begin(p, op)
  PROVE  LimaInv'
<1>1. State \in VmState \cup {"foreign"}
  BY MachineTypes DEF LimaInv, TypeOK
<1>2. proc \in [Processes -> Proc] /\ proof \in [Processes -> Fingerprints \cup {None}]
  BY DEF LimaInv, TypeOK
<1>3. vm \in Instance \cup {None}
  BY DEF LimaInv, TypeOK
<1> HIDE DEF State
<1>4. CASE BeginDelete(p)
  <2> DEFINE r == [pc |-> "check-stop", op |-> "delete", seen |-> proof[p], before |-> State]
  <2>1. r \in Proc /\ r.pc = "check-stop"
    BY <1>1, <1>2 DEF Proc, ControlPoint, Operations
  <2>2. proc' = [proc EXCEPT ![p] = r]
    BY <1>4 DEF BeginDelete
  <2> HIDE DEF r
  <2>3. proc' \in [Processes -> Proc] /\ proc'[p] = r /\ Others(p)
    BY <1>2, <2>1, <2>2, Becoming
  <2>4. Target(p)'
    BY <2>1, <2>3 DEF Target
  <2>5. /\ lock = None /\ lock' = p /\ UNCHANGED <<vm, meddled, stale, refused>>
        /\ proof[p] # None /\ proof' = [proof EXCEPT ![p] = None]
    BY <1>4 DEF BeginDelete
  <2>6. p \notin refused
    BY <2>5 DEF LimaInv, RefusedHaveNoProof
  <2>7. /\ proof' \in [Processes -> Fingerprints \cup {None}]
        /\ \A q \in Processes \ {p} : proof'[q] = proof[q]
    BY <1>2, <2>5
  <2>8. QED
    BY <1>3, <2>1, <2>3, <2>4, <2>5, <2>6, <2>7, MovesKeepInv
<1>5. ASSUME NEW op \in Operations, Begin(p, op) PROVE LimaInv'
  <2> DEFINE r == [pc |-> "discover", op |-> op, seen |-> None, before |-> State]
  <2>1. r \in Proc /\ r.pc = "discover" /\ r.op = op
    BY <1>1 DEF Proc, ControlPoint
  <2>2. proc' = [proc EXCEPT ![p] = r]
    BY <1>5 DEF Begin
  <2> HIDE DEF r
  <2>3. proc' \in [Processes -> Proc] /\ proc'[p] = r /\ Others(p)
    BY <1>2, <2>1, <2>2, Becoming
  <2>4. Target(p)'
    BY <2>1, <2>3 DEF Target
  <2>5. /\ op # "delete" /\ lock = None /\ lock' = p /\ UNCHANGED <<vm, meddled, stale>>
        /\ proof' = IF op = "execute" THEN proof ELSE [proof EXCEPT ![p] = None]
        /\ refused' = IF op \in {"prove", "break-glass"} THEN refused \cup {p} ELSE refused
    BY <1>5 DEF Begin
  <2>6. p \in refused' => proof'[p] = None /\ proc'[p].op # "delete"
    BY <1>2, <2>1, <2>3, <2>5 DEF LimaInv, RefusedHaveNoProof
  <2>7. /\ proof' \in [Processes -> Fingerprints \cup {None}]
        /\ \A q \in Processes \ {p} : proof'[q] = proof[q]
        /\ refused' \subseteq refused \cup {p}
    BY <1>2, <2>5
  <2>8. QED
    BY <1>3, <2>1, <2>3, <2>4, <2>5, <2>6, <2>7, MovesKeepInv
<1>6. QED
  BY <1>4, <1>5

\* The end of an operation, also by the death of its process.
Ending(p) ==
  \/ StartFails(p) \/ WriteMarkerFails(p) \/ EnsureRestarted(p) \/ RollbackStop(p)
  \/ ReadMarker(p) \/ Command(p) \/ StopFails(p) \/ Delete(p)
  \/ LookRefuses(p) \/ Die(p)
  \/ (DiscoverToProve(p) /\ Is("stopped"))

LEMMA EndingKeepsInv ==
  ASSUME LimaInv, NEW p \in Processes, Ending(p)
  PROVE  LimaInv'
<1>1. /\ ~At(p, "idle") /\ Return(p)
      /\ meddled' = meddled /\ stale' \in {stale, stale \ {p}}
  BY DEF Ending, StartFails, WriteMarkerFails, EnsureRestarted, RollbackStop, ReadMarker, Command,
         StopFails, Delete, LookRefuses, Die, DiscoverToProve, At, Looking, Looked, Is, Idle,
         LimaInv, LocksAreHeld
<1>2. vm \in Instance \cup {None} /\ proc[p] \in Proc
  BY DEF LimaInv, TypeOK
<1>3. vm' \in Instance \cup {None}
  <2>1. CASE StartFails(p) \/ WriteMarkerFails(p) \/ RollbackStop(p) \/ StopFails(p) \/ Delete(p)
    BY <1>2, <2>1, MachineTypes DEF StartFails, WriteMarkerFails, RollbackStop, StopFails, Delete, Is
  <2>2. CASE \/ EnsureRestarted(p) \/ ReadMarker(p) \/ Command(p) \/ LookRefuses(p) \/ Die(p)
             \/ DiscoverToProve(p)
    BY <1>2, <2>2 DEF EnsureRestarted, ReadMarker, Command, LookRefuses, Die, DiscoverToProve
  <2>3. QED
    BY <2>1, <2>2 DEF Ending
<1>4. \/ proof' = proof /\ refused' = refused
      \/ proof' = [proof EXCEPT ![p] = None] /\ refused' = refused
      \/ /\ refused' = refused \ {p}
         /\ \E f \in Fingerprints \cup {None} : proof' = [proof EXCEPT ![p] = f]
  <2>1. CASE ReadMarker(p)
    <3>1. proc[p].seen \in Fingerprints \cup {None}
      BY <1>2 DEF Proc
    <3>2. QED
      BY <2>1, <3>1 DEF ReadMarker
  <2>2. CASE DiscoverToProve(p) /\ Is("stopped")
    <3>1. Fingerprint(vm) \in Fingerprints /\ ~Is("running")
      BY <1>2, <2>2, MachineTypes DEF Is
    <3>2. proof' = [proof EXCEPT ![p] = Fingerprint(vm)] /\ refused' = refused \ {p}
      BY <2>2, <3>1 DEF DiscoverToProve
    <3> HIDE DEF Fingerprint
    <3>3. QED
      BY <3>1, <3>2
  <2>3. CASE \/ StartFails(p) \/ WriteMarkerFails(p) \/ EnsureRestarted(p) \/ RollbackStop(p)
             \/ Command(p) \/ StopFails(p) \/ Delete(p) \/ LookRefuses(p) \/ Die(p)
    BY <2>3 DEF StartFails, WriteMarkerFails, EnsureRestarted, RollbackStop, Command, StopFails,
               Delete, LookRefuses, Die
  <2>4. QED
    BY <2>1, <2>2, <2>3 DEF Ending
<1>5. QED
  BY <1>1, <1>3, <1>4, EndsKeepInv

\* A step to a control point from which nothing is changed yet.
LEMMA LooksKeepInv ==
  ASSUME LimaInv, NEW p \in Processes, ~At(p, "idle"), NEW point \in ControlPoint \ (Commanding \cup {"idle"}),
         Goto(p, point), vm' \in Instance \cup {None},
         UNCHANGED <<lock, proof, meddled, refused>>, stale' \in {stale, stale \ {p}}
  PROVE  LimaInv'
<1>1. /\ proc' \in [Processes -> Proc] /\ Others(p)
      /\ proc'[p].pc = point /\ proc'[p].op = proc[p].op
  BY Going DEF LimaInv, TypeOK
<1>2. Target(p)'
  BY <1>1 DEF Target, Commanding
<1>3. QED
  BY <1>1, <1>2, GoesKeepInv DEF Commanding

LEMMA EnsureKeepsInv ==
  ASSUME LimaInv, NEW p \in Processes, Ensure(p)
  PROVE  LimaInv'
<1>1. vm \in Instance \cup {None} /\ proc \in [Processes -> Proc]
  BY DEF LimaInv, TypeOK
<1>2. CASE StartFails(p) \/ WriteMarkerFails(p) \/ EnsureRestarted(p) \/ RollbackStop(p)
  BY <1>2, EndingKeepsInv DEF Ending
<1>3. CASE DiscoverToEnsure(p)
  <2>1. ~At(p, "idle") /\ UNCHANGED <<vm, lock, proof, meddled, refused>> /\ stale' = stale \ {p}
    BY <1>3 DEF DiscoverToEnsure, Looked, At
  <2>2. CASE Goto(p, "start") \/ Goto(p, "read-marker")
    BY <1>1, <2>1, <2>2, LooksKeepInv DEF ControlPoint, Commanding
  <2>3. CASE Is("stopped") /\ proc' = [proc EXCEPT ![p].pc = "restart", ![p].seen = Fingerprint(vm)]
    <3>1. Fingerprint(vm) \in Fingerprints
      BY <1>1, <2>3, MachineTypes DEF Is
    <3> HIDE DEF Fingerprint
    <3>2. /\ proc' \in [Processes -> Proc] /\ Others(p)
          /\ proc'[p].pc = "restart" /\ proc'[p].op = proc[p].op
      BY <1>1, <2>3, <3>1, GoingWithSight DEF ControlPoint
    <3>3. Target(p)'
      BY <3>2 DEF Target
    <3>4. QED
      BY <1>1, <2>1, <3>2, <3>3, GoesKeepInv
  <2>4. QED
    BY <1>3, <2>2, <2>3 DEF DiscoverToEnsure
<1>4. CASE Start(p)
  <2>1. /\ ~At(p, "idle") /\ UNCHANGED <<lock, proof, meddled, refused>> /\ stale' = stale \ {p}
        /\ vm' = New("running") /\ Goto(p, "write-marker")
    BY <1>4 DEF Start, Looked, At
  <2>2. vm' \in Instance /\ vm' # None /\ vm'.digest = "own"
    BY <1>1, <2>1, MachineTypes, LimaAssumption DEF New
  <2>3. /\ proc' \in [Processes -> Proc] /\ Others(p)
        /\ proc'[p].pc = "write-marker" /\ proc'[p].op = proc[p].op
    BY <1>1, <2>1, Going DEF ControlPoint
  <2>4. Target(p)'
    BY <2>2, <2>3 DEF Target, Digest
  <2>5. QED
    BY <2>1, <2>2, <2>3, <2>4, GoesKeepInv
<1>5. CASE WriteMarker(p) \/ VerifyCreated(p) \/ Restart(p) \/ RestartFails(p) \/ RestartRefuted(p)
  <2>1. /\ ~At(p, "idle") /\ UNCHANGED <<lock, proof, meddled, refused>>
        /\ stale' \in {stale, stale \ {p}}
        /\ \E point \in {"verify-created", "read-marker", "verify-restarted", "rollback"} : Goto(p, point)
    BY <1>5 DEF WriteMarker, VerifyCreated, Restart, RestartFails, RestartRefuted, Looked, At
  <2>2. vm' \in Instance \cup {None}
    BY <1>1, <1>5, MachineTypes
       DEF WriteMarker, VerifyCreated, Restart, RestartFails, RestartRefuted, Is, Started
  <2>3. QED
    BY <2>1, <2>2, LooksKeepInv DEF ControlPoint, Commanding
<1>6. CASE Rollback(p)
  <2>1. /\ ~At(p, "idle") /\ UNCHANGED <<vm, lock, proof, meddled, refused>> /\ stale' = stale \ {p}
        /\ Shows(proc[p].seen) /\ Goto(p, "rollback-stop")
    BY <1>6 DEF Rollback, Looked, At
  <2>2. /\ proc' \in [Processes -> Proc] /\ Others(p)
        /\ proc'[p].pc = "rollback-stop" /\ proc'[p].op = proc[p].op /\ proc'[p].seen = proc[p].seen
    BY <1>1, <2>1, Going DEF ControlPoint
  <2>3. Target(p)'
    BY <2>1, <2>2 DEF Target, Shows, Fingerprint
  <2>4. QED
    BY <1>1, <2>1, <2>2, <2>3, GoesKeepInv
<1>7. QED
  BY <1>2, <1>3, <1>4, <1>5, <1>6 DEF Ensure

LEMMA ProveOrExecuteKeepsInv ==
  ASSUME LimaInv, NEW p \in Processes, ProveOrExecute(p)
  PROVE  LimaInv'
<1>1. vm \in Instance \cup {None} /\ proc \in [Processes -> Proc]
  BY DEF LimaInv, TypeOK
<1>2. CASE ReadMarker(p) \/ Command(p) \/ (DiscoverToProve(p) /\ Is("stopped"))
  BY <1>2, EndingKeepsInv DEF Ending
<1>3. CASE DiscoverToProve(p) /\ ~Is("stopped")
  <2>1. /\ ~At(p, "idle") /\ UNCHANGED <<vm, lock, proof, meddled, refused>> /\ stale' = stale \ {p}
        /\ vm # None
        /\ proc' = [proc EXCEPT ![p].pc = "read-marker", ![p].seen = Fingerprint(vm)]
    BY <1>3 DEF DiscoverToProve, Looked, At, Digest
  <2>2. Fingerprint(vm) \in Fingerprints
    BY <1>1, <2>1, MachineTypes
  <2> HIDE DEF Fingerprint
  <2>3. /\ proc' \in [Processes -> Proc] /\ Others(p)
        /\ proc'[p].pc = "read-marker" /\ proc'[p].op = proc[p].op
    BY <1>1, <2>1, <2>2, GoingWithSight DEF ControlPoint
  <2>4. Target(p)'
    BY <2>3 DEF Target
  <2>5. QED
    BY <1>1, <2>1, <2>3, <2>4, GoesKeepInv
<1>4. CASE DiscoverToExecute(p)
  <2>1. /\ ~At(p, "idle") /\ UNCHANGED <<vm, lock, proof, meddled, refused>> /\ stale' = stale \ {p}
        /\ Goto(p, "read-marker")
    BY <1>4 DEF DiscoverToExecute, Looked, At
  <2>2. QED
    BY <1>1, <2>1, LooksKeepInv DEF ControlPoint, Commanding
<1>5. CASE ReadMarkerToExecute(p)
  <2>1. /\ ~At(p, "idle") /\ UNCHANGED <<vm, lock, proof, meddled, refused>> /\ stale' = stale \ {p}
        /\ Goto(p, "command") /\ vm # None /\ vm.marker = "own"
    BY <1>5 DEF ReadMarkerToExecute, MarkerAllows, Looked, At, Is
  <2>2. /\ proc' \in [Processes -> Proc] /\ Others(p)
        /\ proc'[p].pc = "command" /\ proc'[p].op = proc[p].op
    BY <1>1, <2>1, Going DEF ControlPoint
  <2>3. Target(p)'
    BY <2>1, <2>2 DEF Target
  <2>4. QED
    BY <1>1, <2>1, <2>2, <2>3, GoesKeepInv
<1>6. QED
  BY <1>2, <1>3, <1>4, <1>5 DEF ProveOrExecute

LEMMA DeleteExactKeepsInv ==
  ASSUME LimaInv, NEW p \in Processes, DeleteExact(p)
  PROVE  LimaInv'
<1>1. vm \in Instance \cup {None} /\ proc \in [Processes -> Proc]
  BY DEF LimaInv, TypeOK
<1>2. CASE StopFails(p) \/ Delete(p)
  BY <1>2, EndingKeepsInv DEF Ending
<1>3. CASE Check(p)
  <2>1. /\ ~At(p, "idle") /\ UNCHANGED <<vm, lock, proof, meddled, refused>> /\ stale' = stale \ {p}
        /\ Shows(proc[p].seen)
        /\ \E point \in {"stop", "check-delete", "delete"} : Goto(p, point)
    BY <1>3 DEF Check, Looked, At
  <2>2. PICK point \in {"stop", "check-delete", "delete"} : Goto(p, point)
    BY <2>1
  <2>3. /\ proc' \in [Processes -> Proc] /\ Others(p)
        /\ proc'[p].pc = point /\ proc'[p].op = proc[p].op /\ proc'[p].seen = proc[p].seen
    BY <1>1, <2>2, Going DEF ControlPoint
  <2>4. Target(p)'
    BY <2>1, <2>3 DEF Target, Shows, Fingerprint
  <2>5. QED
    BY <1>1, <2>1, <2>3, <2>4, GoesKeepInv
<1>4. CASE Stop(p)
  <2>1. /\ ~At(p, "idle") /\ UNCHANGED <<lock, proof, meddled, refused, stale>>
        /\ Goto(p, "check-stopped")
    BY <1>4 DEF Stop, At
  <2>2. vm' \in Instance \cup {None}
    BY <1>1, <1>4, MachineTypes DEF Stop
  <2>3. QED
    BY <2>1, <2>2, LooksKeepInv DEF ControlPoint, Commanding
<1>5. QED
  BY <1>2, <1>3, <1>4 DEF DeleteExact

\* Lima stops the machine, which it stays; or somebody replaces it, after which
\* nobody has looked.
LEMMA EnvironmentKeepsInv ==
  ASSUME LimaInv, VmStops \/ Meddle
  PROVE  LimaInv'
<1>1. /\ UNCHANGED <<lock, proc, proof, refused>>
      /\ vm' \in Instance \cup {None} /\ meddled' \in BOOLEAN /\ stale' \subseteq Processes
  BY MachineTypes DEF LimaInv, TypeOK, VmStops, Meddle, Is
<1>2. TypeOK'
  BY <1>1 DEF LimaInv, TypeOK
<1>3. LocksAreHeld' /\ DeletionsFollowTheLatestProof' /\ RefusedHaveNoProof'
  BY <1>1 DEF LimaInv, LocksAreHeld, DeletionsFollowTheLatestProof, RefusedHaveNoProof, At
<1>4. CommandsReachWhatWasVerified'
  <2>1. CASE Meddle
    BY <2>1 DEF Meddle, CommandsReachWhatWasVerified
  <2>2. CASE VmStops
    <3>1. /\ vm \in Instance /\ vm # None /\ vm' = [vm EXCEPT !.status = "stopped"] /\ stale' = stale
      BY <2>2 DEF LimaInv, TypeOK, VmStops, Is
    <3>2. vm' # None /\ vm'.digest = vm.digest /\ vm'.data = vm.data /\ vm'.marker = vm.marker
      BY <3>1, LimaAssumption, MachineTypes DEF Instance
    <3> SUFFICES ASSUME NEW p \in Processes, Target(p) PROVE Target(p)'
      BY <3>1 DEF LimaInv, CommandsReachWhatWasVerified
    <3>3. CASE proc[p].pc \in {"stop", "delete", "rollback-stop"}
      BY <1>1, <3>2, <3>3 DEF Target, Shows, Fingerprint
    <3>4. CASE proc[p].pc = "command"
      BY <1>1, <3>2, <3>4 DEF Target
    <3>5. CASE proc[p].pc = "write-marker"
      BY <1>1, <3>1, <3>2, <3>5 DEF Target, Digest
    <3>6. CASE proc[p].pc \notin Commanding
      BY <1>1, <3>6 DEF Target, Commanding
    <3>7. QED
      BY <3>3, <3>4, <3>5, <3>6 DEF Commanding
  <2>3. QED
    BY <2>1, <2>2
<1>5. QED
  BY <1>2, <1>3, <1>4 DEF LimaInv

LEMMA StepKeepsInv == LimaInv /\ [Next]_vars => LimaInv'
<1> SUFFICES ASSUME LimaInv, [Next]_vars PROVE LimaInv'
  OBVIOUS
<1>1. CASE UNCHANGED vars
  BY <1>1 DEF vars, LimaInv, TypeOK, LocksAreHeld, RefusedHaveNoProof, DeletionsFollowTheLatestProof,
              CommandsReachWhatWasVerified, Target, Shows, Fingerprint, Digest, At
<1>2. ASSUME NEW p \in Processes,
             \/ BeginDelete(p) \/ \E op \in Operations : Begin(p, op)
             \/ Ensure(p) \/ ProveOrExecute(p) \/ DeleteExact(p)
             \/ LookRefuses(p) \/ Die(p)
      PROVE  LimaInv'
  BY <1>2, BeginsKeepInv, EnsureKeepsInv, ProveOrExecuteKeepsInv, DeleteExactKeepsInv, EndingKeepsInv
     DEF Ending
<1>3. CASE VmStops \/ Meddle
  BY <1>3, EnvironmentKeepsInv
<1>4. QED
  BY <1>1, <1>2, <1>3 DEF Next

LEMMA InitInv == Init => LimaInv
<1> SUFFICES ASSUME Init PROVE LimaInv
  OBVIOUS
<1>1. /\ vm \in Instance \cup {None} /\ lock = None /\ proc = [p \in Processes |-> Idle]
      /\ proof = [p \in Processes |-> None] /\ meddled = FALSE /\ stale = {} /\ refused = {}
  BY DEF Init
<1>2. TypeOK
  BY <1>1, IdleType DEF TypeOK
<1>3. \A p \in Processes : proc[p] = Idle
  BY <1>1
<1>4. LocksAreHeld /\ RefusedHaveNoProof /\ DeletionsFollowTheLatestProof
  BY <1>1, <1>3, IdleType DEF LocksAreHeld, RefusedHaveNoProof, DeletionsFollowTheLatestProof, At
<1>5. CommandsReachWhatWasVerified
  BY <1>3, IdleType DEF CommandsReachWhatWasVerified, Target
<1>6. QED
  BY <1>2, <1>4, <1>5 DEF LimaInv

-----------------------------------------------------------------------------
(* What an operation knows of a machine that nobody else replaced          *)

Points(op) ==
  CASE op = "ensure" -> {"discover", "start", "write-marker", "verify-created", "read-marker",
                         "restart", "verify-restarted", "rollback", "rollback-stop"}
    [] op \in Proofs -> {"discover", "read-marker"}
    [] op = "execute" -> {"discover", "read-marker", "command"}
    [] op = "delete" -> {"check-stop", "stop", "check-stopped", "check-delete", "delete"}
    [] OTHER -> {"idle"}

\* The machine may have been stopped or started since, not marked.
Kin(v) == IF v \in {"running", "stopped"} THEN {"running", "stopped"} ELSE {"bare", "bare-stopped"}

EnsureKnows(p) ==
  proc[p].op = "ensure" =>
    /\ State \in OrHalted(EnsureRemains(proc[p].before))
    /\ At(p, "discover") => State \in {proc[p].before, Halted(proc[p].before)}
    /\ proc[p].pc \in {"start", "write-marker", "verify-created"} => proc[p].before = "absent"
    /\ At(p, "start") => State = "absent"
    /\ At(p, "write-marker") => State \in {"bare", "bare-stopped"}
    /\ At(p, "verify-created") => State \in {"running", "stopped"}
    /\ At(p, "read-marker") => Digest("own")
    /\ proc[p].pc \in {"restart", "verify-restarted", "rollback", "rollback-stop"} =>
         /\ proc[p].before \in {"running", "stopped", "bare", "bare-stopped"}
         /\ State \in Kin(proc[p].before)
    /\ At(p, "verify-restarted") => State \in {"running", "stopped"}

ProofKnows(p) == proc[p].op \in Proofs /\ At(p, "read-marker") => Digest("own")
DeleteKnows(p) == proc[p].op = "delete" => State \in DeleteRemains(proc[p].before)

Knows(p) == EnsureKnows(p) /\ ProofKnows(p) /\ DeleteKnows(p)

ContractInv ==
  /\ \A p \in Processes : proc[p].pc \in Points(proc[p].op)
  /\ ~meddled => /\ Digest("own") => vm.marker # "other"
                 /\ \A p \in Processes : Knows(p)

LEMMA StateFacts ==
  ASSUME vm \in Instance \cup {None}
  PROVE  /\ State = "absent" <=> vm = None
         /\ State \in {"running", "stopped"} <=> (Digest("own") /\ vm.marker = "own")
         /\ State \in {"bare", "bare-stopped"} <=> (Digest("own") /\ vm.marker = "absent")
         /\ State \in {"running", "bare"} => Is("running")
         /\ State \in {"stopped", "bare-stopped"} => Is("stopped")
         /\ State \in VmState \cup {"foreign"}
BY LimaAssumption DEF State, VmState, Instance, Digest, Is

LEMMA StatusChanges ==
  ASSUME vm \in Instance, NEW s \in {"running", "stopped"}, vm' = [vm EXCEPT !.status = s]
  PROVE  /\ vm' \in Instance /\ vm' # None /\ vm'.digest = vm.digest /\ vm'.marker = vm.marker
         /\ s = "stopped" => State' = Halted(State)
         /\ s = "running" => /\ State \in {"running", "stopped"} => State' = "running"
                             /\ State \in {"bare", "bare-stopped"} => State' = "bare"
<1>1. /\ vm' \in Instance /\ vm' # None /\ vm # None
      /\ vm'.digest = vm.digest /\ vm'.marker = vm.marker /\ vm'.status = s
  BY LimaAssumption DEF Instance
<1>2. vm.status \in {"running", "stopped"}
  BY DEF Instance
<1>3. CASE vm.digest # "own" \/ vm.marker = "other"
  BY <1>1, <1>2, <1>3 DEF State, Halted
<1>4. CASE vm.digest = "own" /\ vm.marker = "own"
  BY <1>1, <1>2, <1>4 DEF State, Halted
<1>5. CASE vm.digest = "own" /\ vm.marker \notin {"own", "other"}
  BY <1>1, <1>2, <1>5 DEF State, Halted
<1>6. QED
  BY <1>1, <1>3, <1>4, <1>5

LEMMA HaltedFacts ==
  /\ \A v : Halted(Halted(v)) = Halted(v)
  /\ \A v : v \in OrHalted(EnsureRemains(v)) /\ Halted(v) \in OrHalted(EnsureRemains(v))
  /\ \A v, w : v \in OrHalted(EnsureRemains(w)) => Halted(v) \in OrHalted(EnsureRemains(w))
  /\ \A v, w : v \in DeleteRemains(w) => Halted(v) \in DeleteRemains(w)
  /\ \A v : v \in {"running", "stopped", "bare", "bare-stopped"} =>
       v \in Kin(v) /\ Kin(v) \subseteq OrHalted(EnsureRemains(v)) /\ Halted(v) \in Kin(v)
  /\ \A v, w : v \in Kin(w) => Halted(v) \in Kin(w)
<1>1. \A v : Halted(Halted(v)) = Halted(v)
  BY DEF Halted
<1>2. \A S, v : v \in OrHalted(S) => Halted(v) \in OrHalted(S)
  BY <1>1 DEF OrHalted
<1>3. \A v : v \in EnsureRemains(v)
  BY DEF EnsureRemains
<1>4. \A S, v : v \in S => v \in OrHalted(S)
  BY DEF OrHalted
<1>5. \A v, w : v \in DeleteRemains(w) => Halted(v) \in DeleteRemains(w)
  <2>1. Halted("absent") = "absent"
    BY DEF Halted
  <2>2. QED
    BY <1>1, <2>1 DEF DeleteRemains
<1>6. \A v, w : v \in Kin(w) => Halted(v) \in Kin(w)
  BY DEF Kin, Halted
<1>7. \A v : v \in {"running", "stopped", "bare", "bare-stopped"} =>
       v \in Kin(v) /\ Kin(v) \subseteq OrHalted(EnsureRemains(v)) /\ Halted(v) \in Kin(v)
  BY DEF Kin, Halted, OrHalted, EnsureRemains
<1>8. QED
  BY <1>1, <1>2, <1>3, <1>4, <1>5, <1>6, <1>7

LEMMA PointsFacts ==
  ASSUME NEW op \in Operations \cup {None}, NEW pc \in Points(op)
  PROVE  /\ pc \in {"start", "write-marker", "verify-created", "restart", "verify-restarted",
                    "rollback", "rollback-stop"} => op = "ensure"
         /\ pc \in {"check-stop", "stop", "check-stopped", "check-delete", "delete"} => op = "delete"
         /\ pc = "command" => op = "execute"
         /\ pc = "idle" <=> op = None
<1>1. CASE op = "ensure"
  BY <1>1, LimaAssumption DEF Points, Operations, Proofs
<1>2. CASE op \in Proofs
  BY <1>2, LimaAssumption DEF Points, Operations, Proofs
<1>3. CASE op = "execute"
  BY <1>3, LimaAssumption DEF Points, Operations, Proofs
<1>4. CASE op = "delete"
  BY <1>4, LimaAssumption DEF Points, Operations, Proofs
<1>5. CASE op = None
  BY <1>5, LimaAssumption DEF Points, Operations, Proofs
<1>6. QED
  BY <1>1, <1>2, <1>3, <1>4, <1>5 DEF Operations, Proofs

\* What a step leaves is what its operation may leave.
Kept(p) ==
  /\ proc[p].op = "ensure" => State' \in OrHalted(EnsureRemains(proc[p].before))
  /\ proc[p].op = "delete" => State' \in DeleteRemains(proc[p].before)

MarkersAreOwn == Digest("own") => vm.marker # "other"

Stopped == vm # None /\ vm' = [vm EXCEPT !.status = "stopped"]

LEMMA OperationFacts ==
  ASSUME LimaInv, ContractInv, NEW p \in Processes
  PROVE  /\ vm \in Instance \cup {None} /\ proc \in [Processes -> Proc]
         /\ proc[p].op \in Operations \cup {None} /\ proc[p].pc \in Points(proc[p].op)
         /\ ~meddled => MarkersAreOwn /\ Knows(p)
BY DEF LimaInv, TypeOK, Proc, ContractInv, MarkersAreOwn

LEMMA StandingKeeps ==
  ASSUME LimaInv, ContractInv, ~meddled, vm' = vm, NEW p \in Processes
  PROVE  State' = State /\ Kept(p) /\ MarkersAreOwn'
<1>1. State' = State /\ MarkersAreOwn'
  BY OperationFacts DEF State, MarkersAreOwn, Digest
<1>2. Kept(p)
  BY <1>1, OperationFacts DEF Knows, EnsureKnows, DeleteKnows, Kept
<1>3. QED
  BY <1>1, <1>2

LEMMA StoppingKeeps ==
  ASSUME LimaInv, ContractInv, ~meddled, Stopped, NEW p \in Processes
  PROVE  /\ State' = Halted(State) /\ Kept(p) /\ MarkersAreOwn'
         /\ vm' \in Instance /\ (Digest("own") <=> Digest("own")')
<1>1. /\ vm' \in Instance /\ vm' # None /\ vm'.digest = vm.digest /\ vm'.marker = vm.marker
      /\ State' = Halted(State)
  BY OperationFacts, StatusChanges DEF Stopped
<1>2. MarkersAreOwn' /\ (Digest("own") <=> Digest("own")')
  BY <1>1, OperationFacts DEF MarkersAreOwn, Digest, Stopped
<1>3. Kept(p)
  BY <1>1, OperationFacts, HaltedFacts DEF Knows, EnsureKnows, DeleteKnows, Kept
<1>4. QED
  BY <1>1, <1>2, <1>3

LEMMA CreatingKeeps ==
  ASSUME LimaInv, ContractInv, ~meddled, NEW p \in Processes, At(p, "start"),
         NEW s \in {"running", "stopped"}, vm' = New(s)
  PROVE  proc[p].op = "ensure" /\ Kept(p) /\ MarkersAreOwn' /\ State' \in {"bare", "bare-stopped"}
<1>1. proc[p].op = "ensure" /\ proc[p].before = "absent"
  BY OperationFacts, PointsFacts DEF Knows, EnsureKnows, At
<1>2. vm' # None /\ vm'.digest = "own" /\ vm'.marker = "absent" /\ vm'.status = s
  BY MachineTypes, OperationFacts, LimaAssumption DEF New
<1>3. State' \in {"bare", "bare-stopped"} /\ MarkersAreOwn'
  BY <1>2 DEF State, MarkersAreOwn
<1>4. {"bare", "bare-stopped"} \subseteq OrHalted(EnsureRemains("absent"))
  BY DEF OrHalted, EnsureRemains
<1>5. QED
  BY <1>1, <1>3, <1>4 DEF Kept

LEMMA MarkingKeeps ==
  ASSUME LimaInv, ContractInv, ~meddled, NEW p \in Processes, At(p, "write-marker"),
         Is("running"), vm' = Marked
  PROVE  Kept(p) /\ MarkersAreOwn' /\ State' \in {"running", "stopped"}
<1>1. /\ proc[p].op = "ensure" /\ proc[p].before = "absent"
      /\ State \in {"bare", "bare-stopped"}
  BY OperationFacts, PointsFacts DEF Knows, EnsureKnows, At
<1>2. vm \in Instance /\ vm # None /\ vm.digest = "own"
  BY <1>1, OperationFacts, StateFacts DEF Digest
<1>3. /\ vm' # None /\ vm'.digest = "own" /\ vm'.marker = "own"
      /\ vm'.status \in {"running", "stopped"}
  BY <1>2, MachineTypes, LimaAssumption DEF Marked, Instance
<1>4. State' \in {"running", "stopped"} /\ MarkersAreOwn'
  BY <1>3 DEF State, MarkersAreOwn
<1>5. {"running", "stopped"} \subseteq OrHalted(EnsureRemains("absent"))
  BY DEF OrHalted, EnsureRemains, Halted
<1>6. QED
  BY <1>1, <1>4, <1>5 DEF Kept

LEMMA StartingKeeps ==
  ASSUME LimaInv, ContractInv, ~meddled, NEW p \in Processes, At(p, "restart"),
         vm # None, vm' = Started(vm)
  PROVE  /\ proc[p].op = "ensure" /\ Kept(p) /\ MarkersAreOwn'
         /\ State' \in Kin(proc[p].before)
         /\ vm.marker = "own" => State' \in {"running", "stopped"}
<1>1. /\ proc[p].op = "ensure"
      /\ proc[p].before \in {"running", "stopped", "bare", "bare-stopped"}
      /\ State \in Kin(proc[p].before)
  BY OperationFacts, PointsFacts DEF Knows, EnsureKnows, At
<1>2. vm \in Instance
  BY OperationFacts
<1>3. /\ vm' # None /\ vm'.digest = vm.digest /\ vm'.marker = vm.marker
      /\ State \in {"running", "stopped"} => State' = "running"
      /\ State \in {"bare", "bare-stopped"} => State' = "bare"
  BY <1>2, StatusChanges DEF Started
<1>4. State' \in Kin(proc[p].before)
  BY <1>1, <1>3 DEF Kin
<1>5. Kept(p)
  <2>1. Kin(proc[p].before) \subseteq OrHalted(EnsureRemains(proc[p].before))
    BY <1>1, HaltedFacts
  <2>2. QED
    BY <1>1, <1>4, <2>1 DEF Kept
<1>6. MarkersAreOwn'
  BY <1>3, OperationFacts DEF MarkersAreOwn, Digest
<1>7. vm.marker = "own" => State' \in {"running", "stopped"}
  <2>1. State \in {"running", "stopped", "bare", "bare-stopped"}
    BY <1>1 DEF Kin
  <2>2. vm.marker = "own" => State \in {"running", "stopped"}
    BY <1>2, <2>1, StateFacts
  <2>3. QED
    BY <1>3, <2>2
<1>8. QED
  BY <1>1, <1>4, <1>5, <1>6, <1>7

\* Leaving is always allowed a deletion.
LEMMA RemovingKeeps ==
  ASSUME LimaInv, ContractInv, NEW p \in Processes, At(p, "delete"), vm' = None
  PROVE  Kept(p) /\ MarkersAreOwn'
<1>1. proc[p].op = "delete" /\ State' = "absent"
  BY OperationFacts, PointsFacts DEF At, State
<1>2. QED
  BY <1>1 DEF Kept, DeleteRemains, MarkersAreOwn, Digest

-----------------------------------------------------------------------------
(* The steps keep the contract                                             *)

Keeps(p) == EnsureKeepsContract(p) /\ ProofKeepsContract(p) /\ DeleteKeepsContract(p)

\* The other processes are idle and know nothing.
LEMMA OneStepKeepsContract ==
  ASSUME LimaInv, ContractInv, NEW p \in Processes, lock = None \/ ~At(p, "idle"), Others(p),
         proc'[p].pc \in Points(proc'[p].op),
         ~meddled' => MarkersAreOwn' /\ Knows(p)' /\ Keeps(p)
  PROVE  ContractInv' /\ (~meddled' => \A q \in Processes : Keeps(q))
<1>1. \A q \in Processes \ {p} : proc[q] = Idle /\ proc'[q] = Idle
  BY OthersAreIdle DEF Others
<1>2. \A op \in Operations : op # None
  BY LimaAssumption
<1>3. ASSUME NEW q \in Processes \ {p}
      PROVE  proc'[q].pc \in Points(proc'[q].op) /\ Knows(q)' /\ Keeps(q)
  <2>1. proc[q].op = None /\ proc'[q].op = None /\ proc'[q].pc = "idle"
    BY <1>1, IdleType
  <2>2. proc'[q].pc \in Points(proc'[q].op)
    BY <1>2, <2>1 DEF Points, Operations, Proofs
  <2>3. Knows(q)'
    BY <1>2, <2>1 DEF Knows, EnsureKnows, ProofKnows, DeleteKnows, Operations, Proofs
  <2>4. Keeps(q)
    <3>1. ~EnsureRestarted(q)
      BY <1>1, IdleType DEF EnsureRestarted, At
    <3>2. QED
      BY <1>2, <2>1, <3>1
         DEF Keeps, EnsureKeepsContract, ProofKeepsContract, DeleteKeepsContract, Ends, Operations, Proofs
  <2>5. QED
    BY <2>2, <2>3, <2>4
<1>4. ContractInv'
  BY <1>3 DEF ContractInv, MarkersAreOwn
<1>5. QED
  BY <1>3, <1>4

LEMMA IdleKnows ==
  ASSUME NEW p \in Processes, proc'[p] = Idle
  PROVE  proc'[p].pc \in Points(proc'[p].op) /\ Knows(p)'
<1>1. proc'[p].op = None /\ proc'[p].pc = "idle"
  BY IdleType
<1>2. \A op \in Operations : op # None
  BY LimaAssumption
<1>3. QED
  BY <1>1, <1>2 DEF Points, Knows, EnsureKnows, ProofKnows, DeleteKnows, Operations, Proofs

\* An ensure that succeeds has the machine running.
LEMMA ResultsHold ==
  ASSUME LimaInv, ContractInv, ~meddled, NEW p \in Processes,
         EnsureRestarted(p) \/ (proc[p].op = "ensure" /\ ReadMarker(p))
  PROVE  State' = "running"
<1>1. vm' = vm /\ Is("running")
  BY DEF EnsureRestarted, ReadMarker, MarkerAllows
<1>2. Digest("own") /\ vm.marker = "own"
  <2>1. CASE EnsureRestarted(p)
    <3>1. proc[p].op = "ensure" /\ State \in {"running", "stopped"}
      BY <2>1, OperationFacts, PointsFacts DEF EnsureRestarted, Knows, EnsureKnows, At
    <3>2. QED
      BY <3>1, OperationFacts, StateFacts
  <2>2. CASE proc[p].op = "ensure" /\ ReadMarker(p)
    <3>1. Digest("own")
      BY <2>2, OperationFacts DEF ReadMarker, Knows, EnsureKnows, At
    <3>2. vm.marker = "own"
      BY <2>2 DEF ReadMarker, MarkerAllows
    <3>3. QED
      BY <3>1, <3>2
  <2>3. QED
    BY <2>1, <2>2
<1>3. State = "running"
  BY <1>1, <1>2 DEF State, Is, Digest
<1>4. QED
  BY <1>1, <1>3, StandingKeeps

LEMMA KeptKeeps ==
  ASSUME LimaInv, ContractInv, ~meddled, NEW p \in Processes, Kept(p)
  PROVE  EnsureKeepsContract(p) /\ DeleteKeepsContract(p)
BY ResultsHold DEF Kept, EnsureKeepsContract, DeleteKeepsContract, Ends

LEMMA GoesKeepsContract ==
  ASSUME LimaInv, ContractInv, NEW p \in Processes, ~At(p, "idle"), Others(p),
         meddled' = meddled, proof' = proof,
         proc'[p].pc \in Points(proc'[p].op),
         ~meddled => Kept(p) /\ MarkersAreOwn' /\ Knows(p)'
  PROVE  ContractInv' /\ (~meddled' => \A q \in Processes : Keeps(q))
<1>1. ~meddled' => Keeps(p)
  BY KeptKeeps DEF Keeps, ProofKeepsContract
<1>2. QED
  BY <1>1, OneStepKeepsContract

LEMMA BeginsKeepContract ==
  ASSUME LimaInv, ContractInv, NEW p \in Processes, BeginDelete(p) \/ \E op \in Operations : Begin(p, op)
  PROVE  ContractInv' /\ (~meddled' => \A q \in Processes : Keeps(q))
<1>1. /\ lock = None /\ proc[p] = Idle /\ vm' = vm /\ meddled' = meddled
      /\ \E op \in Operations, seen \in Fingerprints \cup {None} :
           proc' = [proc EXCEPT ![p] = [pc |-> IF op = "delete" THEN "check-stop" ELSE "discover",
                                        op |-> op, seen |-> seen, before |-> State]]
  BY DEF BeginDelete, Begin, LimaInv, TypeOK, LocksAreHeld, Operations
<1>2. PICK op \in Operations, seen \in Fingerprints \cup {None} :
           proc' = [proc EXCEPT ![p] = [pc |-> IF op = "delete" THEN "check-stop" ELSE "discover",
                                        op |-> op, seen |-> seen, before |-> State]]
  BY <1>1
<1>3. State \in VmState \cup {"foreign"}
  BY OperationFacts, MachineTypes
<1> HIDE DEF State
<1>4. /\ Others(p)
      /\ proc'[p].pc = (IF op = "delete" THEN "check-stop" ELSE "discover")
      /\ proc'[p].op = op /\ proc'[p].before = State
  BY <1>2, OperationFacts DEF Others
<1>5. proc'[p].pc \in Points(proc'[p].op)
  BY <1>2, <1>4 DEF Points, Operations, Proofs
<1>6. ASSUME ~meddled PROVE MarkersAreOwn' /\ Knows(p)'
  <2>1. State' = State /\ MarkersAreOwn'
    BY <1>1, <1>6, StandingKeeps
  <2>2. State \in OrHalted(EnsureRemains(State)) /\ State \in DeleteRemains(State)
    BY HaltedFacts DEF DeleteRemains
  <2>3. EnsureKnows(p)'
    BY <1>2, <1>4, <2>1, <2>2 DEF EnsureKnows, At
  <2>4. ProofKnows(p)'
    BY <1>2, <1>4 DEF ProofKnows, At, Proofs
  <2>5. DeleteKnows(p)'
    BY <1>4, <2>1, <2>2 DEF DeleteKnows
  <2>6. QED
    BY <2>1, <2>3, <2>4, <2>5 DEF Knows
<1>7. Keeps(p)
  <2>1. proc[p].op = None /\ proc[p].pc = "idle" /\ None \notin Operations
    BY <1>1, IdleType, LimaAssumption
  <2>2. ~EnsureRestarted(p)
    BY <2>1 DEF EnsureRestarted, At
  <2>3. QED
    BY <2>1, <2>2
       DEF Keeps, EnsureKeepsContract, ProofKeepsContract, DeleteKeepsContract, Ends, Operations, Proofs
<1>8. QED
  BY <1>1, <1>4, <1>5, <1>6, <1>7, OneStepKeepsContract

LEMMA EndingKeepsContract ==
  ASSUME LimaInv, ContractInv, NEW p \in Processes, Ending(p)
  PROVE  ContractInv' /\ (~meddled' => \A q \in Processes : Keeps(q))
<1>1. ~At(p, "idle") /\ Return(p) /\ meddled' = meddled
  BY DEF Ending, StartFails, WriteMarkerFails, EnsureRestarted, RollbackStop, ReadMarker, Command,
         StopFails, Delete, LookRefuses, Die, DiscoverToProve, At, Looking, Is, Idle,
         LimaInv, LocksAreHeld
<1>2. proc'[p] = Idle /\ Others(p)
  BY <1>1, Returning, OperationFacts
<1>3. proc'[p].pc \in Points(proc'[p].op) /\ Knows(p)'
  BY <1>2, IdleKnows
<1>4. ASSUME ~meddled PROVE Kept(p) /\ MarkersAreOwn'
  <2>1. CASE vm' = vm
    BY <1>4, <2>1, StandingKeeps
  <2>2. CASE Stopped
    BY <1>4, <2>2, StoppingKeeps
  <2>3. CASE At(p, "start") /\ vm' \in {New("running"), New("stopped")}
    BY <1>4, <2>3, CreatingKeeps
  <2>4. CASE At(p, "write-marker") /\ Is("running") /\ vm' = Marked
    BY <1>4, <2>4, MarkingKeeps
  <2>5. CASE At(p, "delete") /\ vm' = None
    BY <2>5, RemovingKeeps
  <2>6. QED
    BY <2>1, <2>2, <2>3, <2>4, <2>5
       DEF Ending, StartFails, WriteMarkerFails, EnsureRestarted, RollbackStop, ReadMarker, Command,
           StopFails, Delete, LookRefuses, Die, DiscoverToProve, Stopped
<1>5. ASSUME ~meddled PROVE ProofKeepsContract(p)
  <2> SUFFICES ASSUME NEW op \in Proofs, proc[p].op = op, proof'[p] \notin {proof[p], None}
               PROVE  State' \in OrHalted(Provable(op = "break-glass"))
    BY DEF ProofKeepsContract
  <2>1. proof \in [Processes -> Fingerprints \cup {None}]
    BY DEF LimaInv, TypeOK
  <2>2. ReadMarker(p) \/ (DiscoverToProve(p) /\ Is("stopped"))
    BY <2>1 DEF Ending, StartFails, WriteMarkerFails, EnsureRestarted, RollbackStop, Command,
                StopFails, Delete, LookRefuses, Die
  <2>3. vm' = vm /\ State' = State
    BY <1>5, <2>2, StandingKeeps DEF ReadMarker, DiscoverToProve
  <2>4. CASE ReadMarker(p)
    <3>1. Digest("own") /\ Is("running")
      BY <1>5, <2>4, OperationFacts DEF ReadMarker, MarkerAllows, Knows, ProofKnows, At
    <3>2. vm.marker = "own" \/ (vm.marker = "absent" /\ op = "break-glass")
      BY <2>4 DEF ReadMarker, MarkerAllows
    <3>3. State = "running" \/ (State = "bare" /\ op = "break-glass")
      BY <3>1, <3>2 DEF State, Digest, Is
    <3>4. QED
      BY <2>3, <3>3 DEF OrHalted, Provable
  <2>5. CASE DiscoverToProve(p) /\ Is("stopped")
    <3>1. Digest("own") /\ vm.marker # "other"
      BY <1>5, <2>5, OperationFacts DEF DiscoverToProve, MarkersAreOwn
    <3>2. State \in {"stopped", "bare-stopped"}
      BY <2>5, <3>1 DEF State, Digest, Is
    <3>3. QED
      BY <2>3, <3>2 DEF OrHalted, Provable
  <2>6. QED
    BY <2>2, <2>4, <2>5
<1>6. ~meddled' => MarkersAreOwn' /\ Knows(p)' /\ Keeps(p)
  BY <1>1, <1>3, <1>4, <1>5, KeptKeeps DEF Keeps
<1>7. QED
  BY <1>1, <1>2, <1>3, <1>6, OneStepKeepsContract

\* The discovery of an ensure: absent, running, or stopped and to be restarted.
LEMMA DiscoverToEnsureKeepsContract ==
  ASSUME LimaInv, ContractInv, NEW p \in Processes, DiscoverToEnsure(p)
  PROVE  ContractInv' /\ (~meddled' => \A q \in Processes : Keeps(q))
<1>1. /\ At(p, "discover") /\ ~At(p, "idle") /\ proc[p].op = "ensure"
      /\ vm' = vm /\ meddled' = meddled /\ proof' = proof
  BY DEF DiscoverToEnsure, At
<1>2. /\ Others(p) /\ proc'[p].op = "ensure" /\ proc'[p].before = proc[p].before
      /\ \/ proc'[p].pc = "start" /\ vm = None
         \/ proc'[p].pc = "read-marker" /\ Digest("own")
         \/ proc'[p].pc = "restart" /\ Digest("own") /\ Is("stopped")
  <2>1. CASE vm = None /\ Goto(p, "start")
    BY <1>1, <2>1, Going, OperationFacts DEF ControlPoint
  <2>2. CASE Is("running") /\ Digest("own") /\ Goto(p, "read-marker")
    BY <1>1, <2>2, Going, OperationFacts DEF ControlPoint
  <2>3. CASE /\ Is("stopped") /\ Digest("own")
             /\ proc' = [proc EXCEPT ![p].pc = "restart", ![p].seen = Fingerprint(vm)]
    <3>1. Fingerprint(vm) \in Fingerprints
      BY <2>3, MachineTypes, OperationFacts DEF Is
    <3> HIDE DEF Fingerprint
    <3>2. QED
      BY <1>1, <2>3, <3>1, GoingWithSight, OperationFacts DEF ControlPoint
  <2>4. QED
    BY <2>1, <2>2, <2>3 DEF DiscoverToEnsure
<1>3. proc'[p].pc \in Points(proc'[p].op)
  BY <1>2 DEF Points, Proofs
<1>4. ASSUME ~meddled PROVE Kept(p) /\ MarkersAreOwn' /\ Knows(p)'
  <2>1. State' = State /\ Kept(p) /\ MarkersAreOwn'
    BY <1>1, <1>4, StandingKeeps
  <2>2. State \in {proc[p].before, Halted(proc[p].before)} /\ MarkersAreOwn
    BY <1>1, <1>4, OperationFacts DEF Knows, EnsureKnows
  <2>3. State' \in OrHalted(EnsureRemains(proc'[p].before))
    BY <1>1, <1>2, <2>1 DEF Kept
  <2>4. CASE proc'[p].pc = "start" /\ vm = None
    <3>1. State = "absent"
      BY <2>4 DEF State
    <3>2. proc[p].before = "absent"
      BY <2>2, <3>1 DEF Halted
    <3>3. QED
      BY <1>2, <2>1, <2>3, <2>4, <3>1, <3>2
         DEF Knows, EnsureKnows, ProofKnows, DeleteKnows, At, Proofs
  <2>5. CASE proc'[p].pc = "read-marker" /\ Digest("own")
    <3>1. Digest("own")'
      BY <1>1, <2>5 DEF Digest
    <3>2. QED
      BY <1>2, <2>1, <2>3, <2>5, <3>1
         DEF Knows, EnsureKnows, ProofKnows, DeleteKnows, At, Proofs
  <2>6. CASE proc'[p].pc = "restart" /\ Digest("own") /\ Is("stopped")
    <3>1. State \in {"stopped", "bare-stopped"}
      BY <2>2, <2>6 DEF State, MarkersAreOwn, Digest, Is
    <3>2. /\ proc[p].before \in {"running", "stopped", "bare", "bare-stopped"}
          /\ State \in Kin(proc[p].before)
      BY <2>2, <3>1 DEF Halted, Kin
    <3>3. QED
      BY <1>2, <2>1, <2>3, <2>6, <3>2
         DEF Knows, EnsureKnows, ProofKnows, DeleteKnows, At, Proofs
  <2>7. QED
    BY <1>2, <2>1, <2>4, <2>5, <2>6
<1>5. QED
  BY <1>1, <1>2, <1>3, <1>4, GoesKeepsContract

LEMMA EnsureKeepsItsContract ==
  ASSUME LimaInv, ContractInv, NEW p \in Processes, Ensure(p)
  PROVE  ContractInv' /\ (~meddled' => \A q \in Processes : Keeps(q))
<1>1. CASE StartFails(p) \/ WriteMarkerFails(p) \/ EnsureRestarted(p) \/ RollbackStop(p)
  BY <1>1, EndingKeepsContract DEF Ending
<1>2. CASE DiscoverToEnsure(p)
  BY <1>2, DiscoverToEnsureKeepsContract
<1>3. CASE \/ Start(p) \/ WriteMarker(p) \/ VerifyCreated(p) \/ Restart(p)
           \/ RestartFails(p) \/ RestartRefuted(p) \/ Rollback(p)
  <2>1. /\ ~At(p, "idle") /\ proc[p].op = "ensure" /\ meddled' = meddled /\ proof' = proof
    BY <1>3, OperationFacts, PointsFacts
       DEF Start, WriteMarker, VerifyCreated, Restart, RestartFails, RestartRefuted, Rollback, At
  <2> DEFINE points == {"write-marker", "verify-created", "read-marker", "verify-restarted",
                        "rollback", "rollback-stop"}
  <2>2. PICK point \in points : Goto(p, point)
    BY <1>3 DEF Start, WriteMarker, VerifyCreated, Restart, RestartFails, RestartRefuted, Rollback
  <2>3. /\ Others(p) /\ proc'[p].pc = point /\ proc'[p].op = "ensure"
        /\ proc'[p].before = proc[p].before
    BY <2>1, <2>2, Going, OperationFacts DEF ControlPoint
  <2>4. proc'[p].pc \in Points(proc'[p].op)
    BY <2>3 DEF Points, Proofs
  <2>5. \A to \in ControlPoint : Goto(p, to) => to = point
    BY <2>3, Going, OperationFacts
  <2>6. ASSUME ~meddled PROVE Kept(p) /\ MarkersAreOwn' /\ EnsureKnows(p)'
    <3>1. EnsureKnows(p)
      BY <2>6, OperationFacts DEF Knows
    <3>2. CASE Start(p)
      <4>1. Kept(p) /\ MarkersAreOwn' /\ State' \in {"bare", "bare-stopped"}
        BY <2>6, <3>2, CreatingKeeps DEF Start
      <4>2. point = "write-marker" /\ proc[p].before = "absent"
        BY <2>1, <2>5, <3>1, <3>2 DEF Start, ControlPoint, EnsureKnows, At
      <4>3. QED
        BY <2>1, <2>3, <4>1, <4>2 DEF EnsureKnows, Kept, At
    <3>3. CASE WriteMarker(p)
      <4>1. Kept(p) /\ MarkersAreOwn' /\ State' \in {"running", "stopped"}
        BY <2>6, <3>3, MarkingKeeps DEF WriteMarker
      <4>2. point = "verify-created" /\ proc[p].before = "absent"
        BY <2>1, <2>5, <3>1, <3>3 DEF WriteMarker, ControlPoint, EnsureKnows, At
      <4>3. QED
        BY <2>1, <2>3, <4>1, <4>2 DEF EnsureKnows, Kept, At
    <3>4. CASE VerifyCreated(p)
      <4>1. Kept(p) /\ MarkersAreOwn' /\ vm' = vm
        BY <2>6, <3>4, StandingKeeps DEF VerifyCreated
      <4>2. point = "read-marker" /\ Digest("own")'
        BY <2>5, <3>4 DEF VerifyCreated, ControlPoint, Digest
      <4>3. QED
        BY <2>1, <2>3, <4>1, <4>2 DEF EnsureKnows, Kept, At
    <3>5. CASE Restart(p)
      <4>1. /\ Kept(p) /\ MarkersAreOwn' /\ State' \in Kin(proc[p].before)
            /\ vm.marker = "own" => State' \in {"running", "stopped"}
        BY <2>6, <3>5, StartingKeeps DEF Restart
      <4>2. point = IF vm.marker = "own" THEN "verify-restarted" ELSE "rollback"
        BY <2>5, <3>5 DEF Restart, ControlPoint
      <4>3. proc[p].before \in {"running", "stopped", "bare", "bare-stopped"}
        BY <2>1, <3>1, <3>5 DEF Restart, EnsureKnows, At
      <4>4. QED
        BY <2>1, <2>3, <4>1, <4>2, <4>3 DEF EnsureKnows, Kept, At
    <3>6. CASE RestartFails(p)
      <4>1. proc[p].before \in {"running", "stopped", "bare", "bare-stopped"}
            /\ State \in Kin(proc[p].before)
        BY <2>1, <3>1, <3>6 DEF RestartFails, EnsureKnows, At
      <4>2. Kept(p) /\ MarkersAreOwn' /\ State' \in Kin(proc[p].before)
        BY <2>6, <3>6, <4>1, StandingKeeps, StartingKeeps DEF RestartFails
      <4>3. point = "rollback"
        BY <2>5, <3>6 DEF RestartFails, ControlPoint
      <4>4. QED
        BY <2>1, <2>3, <4>1, <4>2, <4>3 DEF EnsureKnows, Kept, At
    <3>7. CASE RestartRefuted(p) \/ Rollback(p)
      <4>1. proc[p].before \in {"running", "stopped", "bare", "bare-stopped"}
            /\ State \in Kin(proc[p].before)
        BY <2>1, <3>1, <3>7 DEF RestartRefuted, Rollback, EnsureKnows, At
      <4>2. Kept(p) /\ MarkersAreOwn' /\ State' = State
        BY <2>6, <3>7, StandingKeeps DEF RestartRefuted, Rollback
      <4>3. point \in {"rollback", "rollback-stop"}
        BY <2>5, <3>7 DEF RestartRefuted, Rollback, ControlPoint
      <4>4. QED
        BY <2>1, <2>3, <4>1, <4>2, <4>3 DEF EnsureKnows, Kept, At
    <3>8. QED
      BY <1>3, <3>2, <3>3, <3>4, <3>5, <3>6, <3>7
  <2>7. ProofKnows(p)' /\ DeleteKnows(p)'
    BY <2>3 DEF ProofKnows, DeleteKnows, Proofs
  <2>8. QED
    BY <2>1, <2>3, <2>4, <2>6, <2>7, GoesKeepsContract DEF Knows
<1>4. QED
  BY <1>1, <1>2, <1>3 DEF Ensure

LEMMA ProveOrExecuteKeepsContract ==
  ASSUME LimaInv, ContractInv, NEW p \in Processes, ProveOrExecute(p)
  PROVE  ContractInv' /\ (~meddled' => \A q \in Processes : Keeps(q))
<1>1. CASE ReadMarker(p) \/ Command(p) \/ (DiscoverToProve(p) /\ Is("stopped"))
  BY <1>1, EndingKeepsContract DEF Ending
<1>2. CASE \/ (DiscoverToProve(p) /\ ~Is("stopped"))
           \/ DiscoverToExecute(p) \/ ReadMarkerToExecute(p)
  <2>1. /\ ~At(p, "idle") /\ vm' = vm /\ meddled' = meddled /\ proof' = proof
        /\ proc[p].op \in Proofs \cup {"execute"}
        /\ proc[p].op \in Proofs => Digest("own")
    BY <1>2 DEF DiscoverToProve, DiscoverToExecute, ReadMarkerToExecute, At, Proofs
  <2>2. /\ Others(p) /\ proc'[p].op = proc[p].op
        /\ proc'[p].pc = "read-marker" \/ (proc'[p].pc = "command" /\ proc[p].op = "execute")
    <3>1. CASE DiscoverToProve(p) /\ ~Is("stopped")
      <4>1. vm # None /\ proc' = [proc EXCEPT ![p].pc = "read-marker", ![p].seen = Fingerprint(vm)]
        BY <3>1 DEF DiscoverToProve, Digest
      <4>2. Fingerprint(vm) \in Fingerprints
        BY <4>1, MachineTypes, OperationFacts
      <4> HIDE DEF Fingerprint
      <4>3. QED
        BY <4>1, <4>2, GoingWithSight, OperationFacts DEF ControlPoint
    <3>2. CASE DiscoverToExecute(p)
      BY <3>2, Going, OperationFacts DEF DiscoverToExecute, ControlPoint
    <3>3. CASE ReadMarkerToExecute(p)
      BY <3>3, Going, OperationFacts DEF ReadMarkerToExecute, ControlPoint
    <3>4. QED
      BY <1>2, <3>1, <3>2, <3>3
  <2>3. proc'[p].pc \in Points(proc'[p].op)
    BY <2>1, <2>2 DEF Points, Proofs
  <2>4. ASSUME ~meddled PROVE Kept(p) /\ MarkersAreOwn' /\ Knows(p)'
    <3>1. Kept(p) /\ MarkersAreOwn'
      BY <2>1, <2>4, StandingKeeps
    <3>2. proc[p].op \in Proofs => Digest("own")'
      BY <2>1 DEF Digest
    <3>3. QED
      BY <2>1, <2>2, <3>1, <3>2 DEF Knows, EnsureKnows, ProofKnows, DeleteKnows, Proofs
  <2>5. QED
    BY <2>1, <2>2, <2>3, <2>4, GoesKeepsContract
<1>3. QED
  BY <1>1, <1>2 DEF ProveOrExecute

LEMMA DeleteExactKeepsContract ==
  ASSUME LimaInv, ContractInv, NEW p \in Processes, DeleteExact(p)
  PROVE  ContractInv' /\ (~meddled' => \A q \in Processes : Keeps(q))
<1>1. CASE StopFails(p) \/ Delete(p)
  BY <1>1, EndingKeepsContract DEF Ending
<1>2. CASE Check(p) \/ Stop(p)
  <2>1. /\ ~At(p, "idle") /\ proc[p].op = "delete" /\ meddled' = meddled /\ proof' = proof
        /\ vm' = vm \/ Stopped
    BY <1>2, OperationFacts, PointsFacts DEF Check, Stop, Stopped, At
  <2>2. PICK point \in {"stop", "check-stopped", "check-delete", "delete"} : Goto(p, point)
    BY <1>2 DEF Check, Stop
  <2>3. /\ Others(p) /\ proc'[p].pc = point /\ proc'[p].op = "delete"
        /\ proc'[p].before = proc[p].before
    BY <2>1, <2>2, Going, OperationFacts DEF ControlPoint
  <2>4. proc'[p].pc \in Points(proc'[p].op)
    BY <2>3 DEF Points, Proofs
  <2>5. ASSUME ~meddled PROVE Kept(p) /\ MarkersAreOwn' /\ Knows(p)'
    <3>1. Kept(p) /\ MarkersAreOwn'
      BY <2>1, <2>5, StandingKeeps, StoppingKeeps
    <3>2. QED
      BY <2>1, <2>3, <3>1 DEF Knows, EnsureKnows, ProofKnows, DeleteKnows, Kept, Proofs
  <2>6. QED
    BY <2>1, <2>3, <2>4, <2>5, GoesKeepsContract
<1>3. QED
  BY <1>1, <1>2 DEF DeleteExact

LEMMA EnvironmentKeepsContract ==
  ASSUME LimaInv, ContractInv, VmStops \/ Meddle
  PROVE  ContractInv' /\ (~meddled' => \A q \in Processes : Keeps(q))
<1>1. proc' = proc /\ proof' = proof
  BY DEF VmStops, Meddle
<1>2. \A p \in Processes : proc'[p].pc \in Points(proc'[p].op)
  BY <1>1 DEF ContractInv
<1>3. CASE Meddle
  <2>1. meddled' = TRUE
    BY <1>3 DEF Meddle
  <2>2. QED
    BY <1>2, <2>1 DEF ContractInv
<1>4. CASE VmStops
  <2>1. Stopped /\ meddled' = meddled
    BY <1>4 DEF VmStops, Stopped, Is
  <2>2. ASSUME ~meddled, NEW p \in Processes PROVE MarkersAreOwn' /\ Knows(p)' /\ Keeps(p)
    <3>1. /\ State' = Halted(State) /\ Kept(p) /\ MarkersAreOwn'
          /\ Digest("own") <=> Digest("own")'
      BY <2>1, <2>2, StoppingKeeps
    <3>2. Knows(p)
      BY <2>2, OperationFacts
    <3>3. EnsureKnows(p)'
      <4>1. SUFFICES ASSUME proc[p].op = "ensure" PROVE EnsureKnows(p)'
        BY <1>1 DEF EnsureKnows
      <4>2. State' \in OrHalted(EnsureRemains(proc[p].before))
        BY <3>1, <4>1 DEF Kept
      <4>3. At(p, "discover") => State' \in {proc[p].before, Halted(proc[p].before)}
        BY <3>1, <3>2, <4>1, HaltedFacts DEF Knows, EnsureKnows
      <4>4. /\ At(p, "start") => State' = "absent"
            /\ At(p, "write-marker") => State' \in {"bare", "bare-stopped"}
            /\ proc[p].pc \in {"verify-created", "verify-restarted"} => State' \in {"running", "stopped"}
        BY <3>1, <3>2, <4>1 DEF Knows, EnsureKnows, Halted, At
      <4>5. proc[p].pc \in {"restart", "verify-restarted", "rollback", "rollback-stop"} =>
              State' \in Kin(proc[p].before)
        BY <3>1, <3>2, <4>1, HaltedFacts DEF Knows, EnsureKnows
      <4>6. QED
        BY <1>1, <3>1, <3>2, <4>1, <4>2, <4>3, <4>4, <4>5 DEF Knows, EnsureKnows, At
    <3>4. ProofKnows(p)'
      BY <1>1, <3>1, <3>2 DEF Knows, ProofKnows, At
    <3>5. DeleteKnows(p)'
      BY <1>1, <3>1 DEF DeleteKnows, Kept
    <3>6. Keeps(p)
      BY <1>1, <2>2, <3>1, KeptKeeps DEF Keeps, ProofKeepsContract
    <3>7. QED
      BY <3>1, <3>3, <3>4, <3>5, <3>6 DEF Knows
  <2>3. ASSUME ~meddled PROVE MarkersAreOwn'
    BY <2>1, <2>3, OperationFacts, StatusChanges DEF ContractInv, MarkersAreOwn, Digest, Stopped,
       LimaInv, TypeOK
  <2>4. QED
    BY <1>2, <2>1, <2>2, <2>3 DEF ContractInv, MarkersAreOwn
<1>5. QED
  BY <1>3, <1>4

LEMMA StepKeepsContract ==
  LimaInv /\ ContractInv /\ Next =>
    ContractInv' /\ (~meddled' => \A q \in Processes : Keeps(q))
<1> SUFFICES ASSUME LimaInv, ContractInv, Next
             PROVE  ContractInv' /\ (~meddled' => \A q \in Processes : Keeps(q))
  OBVIOUS
<1>1. ASSUME NEW p \in Processes,
             \/ BeginDelete(p) \/ \E op \in Operations : Begin(p, op)
             \/ Ensure(p) \/ ProveOrExecute(p) \/ DeleteExact(p)
             \/ LookRefuses(p) \/ Die(p)
      PROVE  ContractInv' /\ (~meddled' => \A q \in Processes : Keeps(q))
  BY <1>1, BeginsKeepContract, EnsureKeepsItsContract, ProveOrExecuteKeepsContract,
     DeleteExactKeepsContract, EndingKeepsContract DEF Ending
<1>2. CASE VmStops \/ Meddle
  BY <1>2, EnvironmentKeepsContract
<1>3. QED
  BY <1>1, <1>2 DEF Next

LEMMA InitContract == Init => ContractInv
<1> SUFFICES ASSUME Init PROVE ContractInv
  OBVIOUS
<1>1. /\ vm = None \/ (vm.digest = "own" => vm.marker # "other")
      /\ \A p \in Processes : proc[p] = Idle
  BY DEF Init
<1>2. \A p \in Processes : proc[p].op = None /\ proc[p].pc = "idle"
  BY <1>1, IdleType
<1>3. \A op \in Operations : op # None
  BY LimaAssumption
<1>4. \A p \in Processes : proc[p].pc \in Points(proc[p].op) /\ Knows(p)
  BY <1>2, <1>3 DEF Points, Knows, EnsureKnows, ProofKnows, DeleteKnows, Operations, Proofs
<1>5. QED
  BY <1>1, <1>4 DEF ContractInv, Digest

-----------------------------------------------------------------------------
(* The theorems                                                            *)

\* The invariant of the lock, the looks and the proofs, whoever meddles.
THEOREM LimaInvariance == Spec => []LimaInv
BY InitInv, StepKeepsInv, PTL DEF Spec

\* Instance, lock, operations and proofs have their types.
THEOREM LimaTypeCorrect == Spec => []TypeOK
<1>1. LimaInv => TypeOK
  BY DEF LimaInv
<1>2. QED
  BY <1>1, LimaInvariance, PTL

\* A stop, deletion, marker or guest command reaches the machine that was proved
\* or verified, unless somebody replaced it after the very last look.
THEOREM LimaReachesWhatWasVerified == Spec => []CommandsReachWhatWasVerified
<1>1. LimaInv => CommandsReachWhatWasVerified
  BY DEF LimaInv
<1>2. QED
  BY <1>1, LimaInvariance, PTL

\* No deletion is carried by a proof that a later attempt did not confirm:
\* prove_ownership forgets before it looks.
THEOREM LimaDeletesOnTheLatestProof == Spec => []DeletionsFollowTheLatestProof
<1>1. LimaInv => DeletionsFollowTheLatestProof
  BY DEF LimaInv
<1>2. QED
  BY <1>1, LimaInvariance, PTL

\* As long as only the program and Lima act on a machine, its operations keep
\* LimaContract, on which FullLab is built.
THEOREM LimaKeepsContract == Spec => ProviderKeepsContract
<1>1. LimaInv /\ ContractInv /\ [Next]_vars => ContractInv'
  <2>1. CASE Next
    BY <2>1, StepKeepsContract
  <2>2. ASSUME ContractInv, UNCHANGED vars PROVE ContractInv'
    BY <2>2 DEF vars, ContractInv, Knows, EnsureKnows, ProofKnows, DeleteKnows, State, Digest, At
  <2>3. QED
    BY <2>1, <2>2
<1>2. LimaInv /\ ContractInv /\ [Next]_vars =>
        [~meddled' => \A p \in Processes :
           EnsureKeepsContract(p) /\ ProofKeepsContract(p) /\ DeleteKeepsContract(p)]_vars
  BY StepKeepsContract DEF Keeps
<1>3. QED
  BY <1>1, <1>2, InitContract, LimaInvariance, PTL DEF Spec, ProviderKeepsContract

=============================================================================
