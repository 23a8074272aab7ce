------------------------------- MODULE LabLock -------------------------------
(***************************************************************************)
(* The lock that every mutating command of the full tier holds, and the    *)
(* writes it makes under it: LabMutatorLock, the directory chain and the   *)
(* atomic creation and replacement of a record (src/cks_simulator/         *)
(* state.py).                                                              *)
(*                                                                         *)
(* The lock is two advisory locks, on the state root directory and on a    *)
(* file below it; a record lies in a directory of the same root.  Locks    *)
(* and records belong to file system objects, commands find them by name,  *)
(* and somebody else may move what a name refers to at any moment          *)
(* (MoveAway, MoveLab).  A process runs one command.  The namespace level  *)
(* between the root and a lab behaves like the level above it and is left  *)
(* out.                                                                    *)
(***************************************************************************)
EXTENDS Naturals

CONSTANTS
  Processes,
  Labs,
  Impatient,     \* the processes that ask for the lock with blocking=False
  MaxObjects,    \* bound: the directories and lock files ever made
  MaxMoves,      \* bound: how often somebody else moves one
  None, Unsafe   \* no entry; an entry that is a symbolic link, a FIFO and so on

ASSUME LabLockAssumption ==
  /\ Impatient \subseteq Processes
  /\ MaxObjects \in Nat /\ MaxMoves \in Nat
  /\ None # Unsafe /\ {None, Unsafe} \cap (0 .. MaxObjects) = {}
  /\ None \notin Labs \cup Processes /\ {"root", "locks"} \cap Labs = {}

VARIABLES
  at,          \* what each name in each directory refers to
  made,        \* the objects made so far are 1 .. made
  moves,       \* the moves made so far
  record,      \* the lab whose record a directory holds
  holder,      \* the process that has locked an object
  proc,        \* each process: its control point and what it has opened
  overlapped   \* history: pairs of processes that were inside at the same time

vars == <<at, made, moves, record, holder, proc, overlapped>>

Top == 0                           \* the directory that contains the root
Objects == 0 .. MaxObjects
Names == {"root", "locks"} \cup Labs

Working == {"inside", "verify-record", "commit", "verify-written", "raise"}
ControlPoint ==
  {"start", "lock-root", "open-locks", "open-file", "lock-file", "verify", "ok", "failed"}
    \cup Working

Proc == [pc : ControlPoint, lab : Labs \cup {None}, root : Objects, locks : Objects,
         file : Objects, dir : Objects, claims : BOOLEAN]

Inside(p) == proc[p].pc \in Working

-----------------------------------------------------------------------------
(* Directories                                                             *)

\* Bug: a directory that was just made is not opened.
OpenedBefore(d, n) == at[d][n]

\* _open_directory with O_NOFOLLOW, _open_or_create_directory.
Opened(d, n) == IF at[d][n] = None THEN made + 1 ELSE at[d][n]

CanOpenOrCreate(d, n) ==
  /\ at[d][n] # Unsafe
  /\ at[d][n] = None => made < MaxObjects

OpenOrCreate(d, n) ==
  /\ CanOpenOrCreate(d, n)
  /\ at' = [at EXCEPT ![d][n] = Opened(d, n)]
  /\ made' = IF at[d][n] = None THEN made + 1 ELSE made

\* _StateDirectoryChain.verify and _verify_lock_file: every name still refers
\* to the object that was opened.
RootNamed(p) == at[Top]["root"] = proc[p].root
LocksNamed(p) == at[proc[p].root]["locks"] = proc[p].locks
LockVerifies(p) ==
  RootNamed(p) /\ LocksNamed(p) /\ at[proc[p].locks][proc[p].lab] = proc[p].file

\* The chain of a record is opened anew by every operation.
RecordVerifies(p) ==
  /\ at[Top]["root"] \in Objects
  /\ at[at[Top]["root"]][proc[p].lab] = proc[p].dir

-----------------------------------------------------------------------------
(* LabMutatorLock.__enter__                                                *)

Goto(p, point) == proc' = [proc EXCEPT ![p].pc = point]

\* What the process locked is unlocked and closed.
Released(p) == [o \in Objects |-> IF holder[o] = p THEN None ELSE holder[o]]

OpenRoot(p, lab) ==
  /\ proc[p].pc = "start"
  /\ OpenOrCreate(Top, "root")
  /\ proc' = [proc EXCEPT ![p].pc = "lock-root", ![p].lab = lab,
                          ![p].root = Opened(Top, "root")]
  /\ UNCHANGED <<moves, record, holder, overlapped>>

\* Bug: the root is opened but not locked.
LockRootShared(p) ==
  /\ proc[p].pc = "lock-root"
  /\ Goto(p, "open-locks")
  /\ UNCHANGED <<at, made, moves, record, holder, overlapped>>

LockRoot(p) ==
  /\ proc[p].pc = "lock-root"
  /\ holder[proc[p].root] = None
  /\ holder' = [holder EXCEPT ![proc[p].root] = p]
  /\ Goto(p, "open-locks")
  /\ UNCHANGED <<at, made, moves, record, overlapped>>

OpenLocks(p) ==
  /\ proc[p].pc = "open-locks"
  /\ RootNamed(p)
  /\ OpenOrCreate(proc[p].root, "locks")
  /\ proc' = [proc EXCEPT ![p].pc = "open-file",
                          ![p].locks = Opened(proc[p].root, "locks")]
  /\ UNCHANGED <<moves, record, holder, overlapped>>

OpenFile(p) ==
  /\ proc[p].pc = "open-file"
  /\ OpenOrCreate(proc[p].locks, proc[p].lab)
  /\ proc' = [proc EXCEPT ![p].pc = "lock-file",
                          ![p].file = Opened(proc[p].locks, proc[p].lab)]
  /\ UNCHANGED <<moves, record, holder, overlapped>>

LockFile(p) ==
  /\ proc[p].pc = "lock-file"
  /\ holder[proc[p].file] = None
  /\ holder' = [holder EXCEPT ![proc[p].file] = p]
  /\ Goto(p, "verify")
  /\ UNCHANGED <<at, made, moves, record, overlapped>>

Enter(p) ==
  /\ proc[p].pc = "verify"
  /\ LockVerifies(p)
  /\ Goto(p, "inside")
  /\ overlapped' = overlapped \cup {{p, q} : q \in {other \in Processes : Inside(other)}}
  /\ UNCHANGED <<at, made, moves, record, holder>>

\* The errors of an acquisition: an entry that is unsafe or cannot be opened, a
\* replaced name, or a lock that an impatient process finds taken.
Refused(p) ==
  \/ proc[p].pc \in {"start", "open-locks", "open-file"}
  \/ proc[p].pc = "verify" /\ ~LockVerifies(p)
  \/ p \in Impatient /\ proc[p].pc = "lock-root" /\ holder[proc[p].root] # None
  \/ p \in Impatient /\ proc[p].pc = "lock-file" /\ holder[proc[p].file] # None

\* Bug: the error path forgets the lock on the root.
AbandonKeepingRoot(p) ==
  /\ Refused(p)
  /\ Goto(p, "failed")
  /\ UNCHANGED <<at, made, moves, record, holder, overlapped>>

Abandon(p) ==
  /\ Refused(p)
  /\ Goto(p, "failed")
  /\ holder' = Released(p)
  /\ UNCHANGED <<at, made, moves, record, overlapped>>

-----------------------------------------------------------------------------
(* The operations of a store under the lock                                *)

\* LabStateStore.claim opens the chain and creates what is missing of it, the
\* root too.
BeginClaim(p) ==
  /\ proc[p].pc = "inside"
  /\ IF at[Top]["root"] = None
       THEN OpenOrCreate(Top, "root") /\ UNCHANGED proc
       ELSE /\ at[Top]["root"] # Unsafe
            /\ OpenOrCreate(at[Top]["root"], proc[p].lab)
            /\ proc' = [proc EXCEPT ![p].pc = "verify-record", ![p].claims = TRUE,
                                    ![p].dir = Opened(at[Top]["root"], proc[p].lab)]
  /\ UNCHANGED <<moves, record, holder, overlapped>>

RecordIn(p) ==
  LET root == at[Top]["root"]
  IN IF root \in Objects THEN at[root][proc[p].lab] ELSE None

\* Every other operation loads the record of its lab before it writes.
Load(p) ==
  /\ proc[p].pc = "inside"
  /\ RecordIn(p) \in Objects
  /\ record[RecordIn(p)] = proc[p].lab
  /\ proc' = [proc EXCEPT ![p].pc = "verify-record", ![p].claims = FALSE, ![p].dir = RecordIn(p)]
  /\ UNCHANGED <<at, made, moves, record, holder, overlapped>>

\* A missing or unsafe directory, the record of another lab, or any other error
\* of the command.
OperationFails(p) ==
  /\ proc[p].pc = "inside"
  /\ Goto(p, "raise")
  /\ UNCHANGED <<at, made, moves, record, holder, overlapped>>

\* The chain is verified before and after the commit.
VerifyRecord(p) ==
  /\ proc[p].pc \in {"verify-record", "verify-written"}
  /\ Goto(p, IF ~RecordVerifies(p) THEN "raise"
             ELSE IF proc[p].pc = "verify-record" THEN "commit" ELSE "inside")
  /\ UNCHANGED <<at, made, moves, record, holder, overlapped>>

\* Bug: a claim replaces the file instead of linking it.
CommitClobbering(p) ==
  /\ proc[p].pc = "commit"
  /\ record' = [record EXCEPT ![proc[p].dir] = proc[p].lab]
  /\ Goto(p, "verify-written")
  /\ UNCHANGED <<at, made, moves, holder, overlapped>>

\* os.link refuses an existing record, os.replace does not.  Both act on the
\* descriptor of the directory, wherever its name points to by now.
Commit(p) ==
  /\ proc[p].pc = "commit"
  /\ IF proc[p].claims /\ record[proc[p].dir] # None
       THEN Goto(p, "raise") /\ UNCHANGED record
       ELSE /\ record' = [record EXCEPT ![proc[p].dir] = proc[p].lab]
            /\ Goto(p, "verify-written")
  /\ UNCHANGED <<at, made, moves, holder, overlapped>>

-----------------------------------------------------------------------------
(* LabMutatorLock.__exit__                                                 *)

\* Bug: the lock is not verified on the way out.
LeaveUnverified(p) ==
  /\ proc[p].pc \in {"inside", "raise"}
  /\ Goto(p, IF proc[p].pc = "inside" THEN "ok" ELSE "failed")
  /\ holder' = Released(p)
  /\ UNCHANGED <<at, made, moves, record, overlapped>>

\* Bug: an error of the command leaves its locks behind.
LeaveKeepingLocks(p) ==
  /\ proc[p].pc \in {"inside", "raise"}
  /\ Goto(p, IF proc[p].pc = "inside" /\ LockVerifies(p) THEN "ok" ELSE "failed")
  /\ holder' = IF proc[p].pc = "inside" THEN Released(p) ELSE holder
  /\ UNCHANGED <<at, made, moves, record, overlapped>>

Leave(p) ==
  /\ proc[p].pc \in {"inside", "raise"}
  /\ Goto(p, IF proc[p].pc = "inside" /\ LockVerifies(p) THEN "ok" ELSE "failed")
  /\ holder' = Released(p)
  /\ UNCHANGED <<at, made, moves, record, overlapped>>

\* The process dies; the kernel drops its locks.
Die(p) ==
  /\ proc[p].pc \notin {"start", "ok", "failed"}
  /\ Goto(p, "failed")
  /\ holder' = Released(p)
  /\ UNCHANGED <<at, made, moves, record, overlapped>>

-----------------------------------------------------------------------------
(* Somebody else in the file system                                        *)

\* A directory or lock file is moved away or deleted, and perhaps a link left
\* in its place; what was moved away does not come back.
MoveAway(d, n) ==
  /\ at[d][n] # None
  /\ moves < MaxMoves /\ moves' = moves + 1
  /\ at' = [at EXCEPT ![d][n] = None] \/ at' = [at EXCEPT ![d][n] = Unsafe]
  /\ at' # at
  /\ UNCHANGED <<made, record, holder, proc, overlapped>>

\* The directory of one lab is renamed to the name of another.
MoveLab(d, from, to) ==
  /\ from # to /\ at[d][from] # None
  /\ moves < MaxMoves /\ moves' = moves + 1
  /\ at' = [at EXCEPT ![d][from] = None, ![d][to] = at[d][from]]
  /\ UNCHANGED <<made, record, holder, proc, overlapped>>

-----------------------------------------------------------------------------

Init ==
  /\ at = [d \in Objects |-> [n \in Names |-> None]]
  /\ made = 0 /\ moves = 0
  /\ record = [d \in Objects |-> None]
  /\ holder = [o \in Objects |-> None]
  /\ proc = [p \in Processes |->
               [pc |-> "start", lab |-> None, root |-> Top, locks |-> Top,
                file |-> Top, dir |-> Top, claims |-> FALSE]]
  /\ overlapped = {}

Acquire(p) ==
  \/ \E lab \in Labs : OpenRoot(p, lab)
  \/ LockRoot(p) \/ OpenLocks(p) \/ OpenFile(p) \/ LockFile(p) \/ Enter(p)
  \/ Abandon(p)

Operate(p) ==
  BeginClaim(p) \/ Load(p) \/ OperationFails(p) \/ VerifyRecord(p) \/ Commit(p)

Finished == (\A p \in Processes : proc[p].pc \in {"ok", "failed"}) /\ UNCHANGED vars

Next ==
  \/ \E p \in Processes : Acquire(p) \/ Operate(p) \/ Leave(p) \/ Die(p)
  \/ \E d \in Objects, n \in Names : MoveAway(d, n)
  \/ \E d \in Objects, from, to \in Labs : MoveLab(d, from, to)
  \/ Finished

Spec == Init /\ [][Next]_vars

\* A running command goes on and ends; a waiter obtains a lock that is released
\* again and again.
Fairness ==
  \A p \in Processes :
    /\ SF_vars(LockRoot(p)) /\ SF_vars(LockFile(p)) /\ SF_vars(Leave(p))
    /\ WF_vars(OpenLocks(p)) /\ WF_vars(OpenFile(p)) /\ WF_vars(Enter(p))
    /\ WF_vars(Abandon(p)) /\ WF_vars(Operate(p))

FairSpec == Spec /\ Fairness

-----------------------------------------------------------------------------

TypeOK ==
  /\ at \in [Objects -> [Names -> Objects \cup {None, Unsafe}]]
  /\ made \in 0 .. MaxObjects /\ moves \in 0 .. MaxMoves
  /\ record \in [Objects -> Labs \cup {None}]
  /\ holder \in [Objects -> Processes \cup {None}]
  /\ proc \in [Processes -> Proc]
  /\ overlapped \subseteq SUBSET Processes

\* Whatever is moved below a root, at most one command works on the labs of that
\* root: a lock file or lock directory that was replaced admits nobody else
\* (test_swapped_lock_namespace_cannot_admit_a_concurrent_mutator).
OneMutatorPerRoot ==
  \A p, q \in Processes :
    p # q /\ Inside(p) /\ Inside(q) => proc[p].root # proc[q].root

\* When the root itself is replaced two commands can be inside; then at most one
\* of them reports success.
SilentCommandsAreSerial ==
  \A p, q \in Processes :
    p # q /\ {p, q} \in overlapped => ~(proc[p].pc = "ok" /\ proc[q].pc = "ok")

\* The control points of a process that has locked its root, and its file too.
Holding == {"open-locks", "open-file", "lock-file", "verify"} \cup Working
FileHolding == {"verify"} \cup Working

WaitsFor(p, q) ==
  \/ proc[p].pc = "lock-root" /\ holder[proc[p].root] = q
  \/ proc[p].pc = "lock-file" /\ holder[proc[p].file] = q

\* LabMutatorLock takes the lock on the root before the one on the file and gives
\* both back on every way out.  So whoever is waited for is past the lock on its
\* root, and whoever is waited for with a root in hand has both locks: no circle
\* of waiting commands, none that waits for itself or for one that has ended,
\* also when names are moved between the two locks.
WaitsAreShort ==
  \A p, q \in Processes : WaitsFor(p, q) =>
    /\ proc[q].pc \in Holding
    /\ proc[p].pc = "lock-file" => proc[q].pc \in FileHolding

\* The record of a lab is never overwritten by a command on another lab, also
\* when its directory is put where the other one's was
\* (test_replace_commit_cannot_write_to_swapped_other_lab).
RecordsKeepTheirLab ==
  [][\A d \in Objects : record[d] # None => record'[d] = record[d]]_vars

\* Whoever asks for the lock gets in or is refused: no error path, dead holder or
\* second lock leaves the others waiting.
AcquisitionsEnd ==
  \A p \in Processes :
    proc[p].pc \in {"lock-root", "lock-file"} ~> proc[p].pc \in Working \cup {"ok", "failed"}

=============================================================================
