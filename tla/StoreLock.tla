------------------------------ MODULE StoreLock ------------------------------
(***************************************************************************)
(* The files two Nova processes share, and the lock file that guards each: *)
(* withJobs of job-store.ts ("jobs") and saveSession of session.ts         *)
(* ("session").  Every system call is a step of its own; a process may     *)
(* crash between any two, or be slow enough that its lock looks abandoned. *)
(*                                                                         *)
(* A file is a revision and the updates it shows.  A job store call reads, *)
(* applies one update and writes; a session is saved from the process's    *)
(* own copy, and only if the file still has the revision of that copy.     *)
(***************************************************************************)
EXTENDS Naturals, FiniteSets

CONSTANTS
  Process, NoProcess,
  Kinds,          \* which of the two stores the file may be
  Attempts,       \* tries before a call reports that the file is busy
  MaxUpdates,     \* bound on the updates of a process
  MaxCrashes

ASSUME StoreAssumption ==
  /\ Kinds \subseteq {"jobs", "session"}
  /\ NoProcess \notin Process
  /\ Attempts \in Nat \ {0} /\ MaxUpdates \in Nat /\ MaxCrashes \in Nat

VARIABLES
  kind,
  lock,           \* the lock file: does it exist, whose is it, is it old
  file,
  pc, tries, seen,
  copy,           \* the session record a process holds in memory
  made,           \* how many updates a process made
  acknowledged,   \* the updates whose caller was told of success
  crashes,
  clash           \* history: the lock of a living process was removed by another

vars == <<kind, lock, file, pc, tries, seen, copy, made, acknowledged, crashes, clash>>

Update == Process \X (1..MaxUpdates)
Content == [revision : Nat, shows : SUBSET Update]
Empty == [revision |-> 0, shows |-> {}]

(* A lock whose maker crashed has no owner.                                *)
NoLock == [exists |-> FALSE, owner |-> NoProcess, old |-> FALSE]
LockOf(p) == [exists |-> TRUE, owner |-> p, old |-> FALSE]

Inside == {"locked", "read", "written", "renamed", "throwing"}

Init ==
  /\ kind \in Kinds
  /\ lock = NoLock /\ file = Empty
  /\ pc = [p \in Process |-> "idle"] /\ tries = [p \in Process |-> 0]
  /\ seen = [p \in Process |-> Empty] /\ copy = [p \in Process |-> Empty]
  /\ made = [p \in Process |-> 0] /\ acknowledged = {}
  /\ crashes = 0 /\ clash = FALSE

Goto(p, to) == pc' = [pc EXCEPT ![p] = to]
-----------------------------------------------------------------------------
(* acquireLock, acquireSessionLock.                                        *)

Begin(p) ==
  /\ pc[p] = "idle" /\ made[p] < MaxUpdates
  /\ Goto(p, "trying") /\ tries' = [tries EXCEPT ![p] = 0]
  /\ UNCHANGED <<kind, lock, file, seen, copy, made, acknowledged, crashes, clash>>

CreatableAnyway == TRUE                                          \* a mutant
Creatable == ~lock.exists

TriesOnceMore(p) == tries[p] <= Attempts                         \* a mutant
MayTry(p) == tries[p] < Attempts

CreatesLock(p) ==
  /\ pc[p] = "trying" /\ MayTry(p) /\ Creatable
  /\ lock' = LockOf(p)
  /\ Goto(p, "locked")
  /\ UNCHANGED <<kind, file, tries, seen, copy, made, acknowledged, crashes, clash>>

FindsLock(p) ==
  /\ pc[p] = "trying" /\ MayTry(p) /\ lock.exists
  /\ Goto(p, "stat") /\ tries' = [tries EXCEPT ![p] = @ + 1]
  /\ UNCHANGED <<kind, lock, file, seen, copy, made, acknowledged, crashes, clash>>

NeverStale == FALSE                                              \* a mutant
Stale == lock.exists /\ lock.old

Stats(p) ==
  /\ pc[p] = "stat"
  /\ Goto(p, IF Stale THEN "unlinking" ELSE "trying")
  /\ UNCHANGED <<kind, lock, file, tries, seen, copy, made, acknowledged, crashes, clash>>

(* unlink removes whatever lock file there is by now.                      *)
Unlinks(p) ==
  /\ lock' = NoLock
  /\ clash' = (clash \/ lock.owner \notin {p, NoProcess})

UnlinksStale(p) ==
  /\ pc[p] = "unlinking"
  /\ Unlinks(p)
  /\ Goto(p, "trying")
  /\ UNCHANGED <<kind, file, tries, seen, copy, made, acknowledged, crashes>>

ReportsBusy(p) ==
  /\ pc[p] = "trying" /\ ~MayTry(p)
  /\ Goto(p, "idle")
  /\ UNCHANGED <<kind, lock, file, tries, seen, copy, made, acknowledged, crashes, clash>>
-----------------------------------------------------------------------------
(* withJobs, saveSession.                                                  *)

Unconflicted(p) == FALSE                                         \* a mutant
Conflicts(p) == kind = "session" /\ file.revision # copy[p].revision

Reads(p) ==
  /\ pc[p] = "locked"
  /\ seen' = [seen EXCEPT ![p] = file]
  /\ Goto(p, IF Conflicts(p) THEN "throwing" ELSE "read")
  /\ UNCHANGED <<kind, lock, file, tries, copy, made, acknowledged, crashes, clash>>

(* The temporary file has a name of its own, so writing it is one step.    *)
Writes(p) ==
  /\ pc[p] = "read"
  /\ Goto(p, "written")
  /\ UNCHANGED <<kind, lock, file, tries, seen, copy, made, acknowledged, crashes, clash>>

BaseFromMemory(p) == copy[p]                                     \* a mutant
Base(p) == IF kind = "session" THEN copy[p] ELSE seen[p]
Mine(p) == <<p, made[p] + 1>>
Next1(p) == [revision |-> Base(p).revision + 1, shows |-> Base(p).shows \cup {Mine(p)}]

Renames(p) ==
  /\ pc[p] = "written"
  /\ file' = Next1(p)
  /\ copy' = [copy EXCEPT ![p] = Next1(p)]
  /\ made' = [made EXCEPT ![p] = @ + 1]
  /\ Goto(p, "renamed")
  /\ UNCHANGED <<kind, lock, tries, seen, acknowledged, crashes, clash>>

Releases(p) ==
  /\ pc[p] \in {"renamed", "throwing"}
  /\ Unlinks(p)
  /\ acknowledged' = IF pc[p] = "renamed" THEN acknowledged \cup {<<p, made[p]>>} ELSE acknowledged
  /\ Goto(p, "idle")
  /\ UNCHANGED <<kind, file, tries, seen, copy, made, crashes>>

(* loadSession takes no lock.                                              *)
Loads(p) ==
  /\ pc[p] = "idle" /\ kind = "session" /\ copy[p] # file
  /\ copy' = [copy EXCEPT ![p] = file]
  /\ UNCHANGED <<kind, lock, file, pc, tries, seen, made, acknowledged, crashes, clash>>
-----------------------------------------------------------------------------
(* A restarted process loads its session again.                            *)
Crashes(p) ==
  /\ pc[p] # "idle" /\ crashes < MaxCrashes
  /\ crashes' = crashes + 1
  /\ Goto(p, "idle")
  /\ lock' = IF lock.owner = p THEN [lock EXCEPT !.owner = NoProcess] ELSE lock
  /\ copy' = [copy EXCEPT ![p] = file]
  /\ UNCHANGED <<kind, file, tries, seen, made, acknowledged, clash>>

(* Nobody renews a lock: it is old after ten seconds (thirty for a session)*)
(* also if its owner is only slow or asleep.                               *)
LockAges ==
  /\ lock.exists /\ ~lock.old
  /\ lock' = [lock EXCEPT !.old = TRUE]
  /\ UNCHANGED <<kind, file, pc, tries, seen, copy, made, acknowledged, crashes, clash>>

Continues(p) ==
  \/ CreatesLock(p) \/ FindsLock(p) \/ Stats(p) \/ UnlinksStale(p) \/ ReportsBusy(p)
  \/ Reads(p) \/ Writes(p) \/ Renames(p) \/ Releases(p)

Next == LockAges \/ \E p \in Process : Begin(p) \/ Continues(p) \/ Loads(p) \/ Crashes(p)

(* A call that was begun goes on, callers call again (the worker's         *)
(* heartbeat and poll timers, the next turn), and time passes.             *)
Fairness == /\ WF_vars(LockAges)
            /\ \A p \in Process : WF_vars(Begin(p)) /\ WF_vars(Continues(p))

Spec == Init /\ [][Next]_vars
FairSpec == Spec /\ Fairness
-----------------------------------------------------------------------------
(* Properties.                                                             *)

(* Every variable has its type, and no call tries more often than it may.  *)
TypeOK ==
  /\ kind \in {"jobs", "session"}
  /\ lock \in [exists : BOOLEAN, owner : Process \cup {NoProcess}, old : BOOLEAN]
  /\ file \in Content
  /\ pc \in [Process -> {"idle", "trying", "stat", "unlinking"} \cup Inside]
  /\ tries \in [Process -> 0..Attempts]
  /\ seen \in [Process -> Content] /\ copy \in [Process -> Content]
  /\ made \in [Process -> 0..MaxUpdates]
  /\ acknowledged \subseteq Update
  /\ crashes \in 0..MaxCrashes /\ clash \in BOOLEAN

(* As long as no process removed the lock of a living one, whoever reads   *)
(* and writes the file owns the lock: crashes, and the removal of the      *)
(* locks they leave, never let two processes in.  Of acquireLock and the   *)
(* unlink that releases it.                                                *)
HoldersOwnTheLock == ~clash => \A p \in Process : pc[p] \in Inside => lock.exists /\ lock.owner = p

(* Under the same condition no update whose caller was told of success is  *)
(* ever missing from the file, whoever saves a session from an older copy. *)
NothingLost == ~clash => acknowledged \subseteq file.shows

(* The lock is the holder's, and what it protects is in the file.          *)
StoreIsSafe == TypeOK /\ HoldersOwnTheLock /\ NothingLost

(* Under the same condition every step of withJobs and saveSession is one  *)
(* atomic update of the file, one answer, or nothing.                      *)
Store == INSTANCE AtomicStore WITH content <- file.shows
ImplementsAtomicStore == Store!Init /\ [][clash' \/ Store!Next \/ UNCHANGED Store!vars]_vars

(* The lock of a crashed process wedges nobody: as long as anybody calls,  *)
(* it is removed.                                                          *)
Abandoned == lock.exists /\ lock.owner = NoProcess
DeadLockIsCleared == Abandoned ~> (~Abandoned \/ \A p \in Process : made[p] = MaxUpdates)

(* Two processes "must never ... clobber each other's write".              *)
NeverClobbered == acknowledged \subseteq file.shows
=============================================================================
