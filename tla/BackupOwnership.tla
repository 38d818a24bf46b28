-------------------------- MODULE BackupOwnership --------------------------
(***************************************************************************)
(* Who owns a backup destination: backup_ownership.go with the kernel lock *)
(* of backup_ownership_other.go (flock) or backup_ownership_windows.go     *)
(* (LockFileEx).  The lock belongs to the file a process has opened, while *)
(* processes find each other through the path; Release unlocks, closes and *)
(* then removes the path, in three calls.                                  *)
(*                                                                         *)
(* On Windows a file that another process has open cannot be removed,      *)
(* because os.OpenFile does not share it for deletion.                     *)
(***************************************************************************)
EXTENDS Integers, FiniteSets

CONSTANTS
  Procs,       \* gosync watch executions for the same destination
  Inodes,      \* files that have or had the name of the lock path
  None,
  Platform,    \* "unix" or "windows"
  Stoppable    \* executions may be stopped through WatchLoopOptions.Stop

ASSUME OwnershipAssumption ==
  /\ None \notin Procs /\ None \notin Inodes
  /\ Platform \in {"unix", "windows"} /\ Stoppable \in BOOLEAN

VARIABLES
  path,      \* the file the lock path names, or None
  handle,    \* the file each execution has open
  lock,      \* the execution that holds the kernel lock of each file
  pc         \* absent, opened, owner, unlocked, closed

vars == <<path, handle, lock, pc>>

TypeOK ==
  /\ path \in Inodes \cup {None}
  /\ handle \in [Procs -> Inodes \cup {None}]
  /\ lock \in [Inodes -> Procs \cup {None}]
  /\ pc \in [Procs -> {"absent", "opened", "owner", "unlocked", "closed"}]

Init ==
  /\ path = None
  /\ handle = [p \in Procs |-> None]
  /\ lock = [i \in Inodes |-> None]
  /\ pc = [p \in Procs |-> "absent"]

(* OpenFile with O_CREATE: the file at the path, or a new one. *)
Open(p) ==
  /\ pc[p] = "absent"
  /\ \/ path # None /\ path' = path
     \/ path = None /\ path' \in {i \in Inodes : \A q \in Procs : handle[q] # i}
  /\ handle' = [handle EXCEPT ![p] = path']
  /\ pc' = [pc EXCEPT ![p] = "opened"]
  /\ UNCHANGED lock

Acquire(p) ==
  /\ pc[p] = "opened" /\ lock[handle[p]] = None
  /\ lock' = [lock EXCEPT ![handle[p]] = p]
  /\ pc' = [pc EXCEPT ![p] = "owner"]
  /\ UNCHANGED <<path, handle>>

(* Mutant: the rejected execution goes on waiting, in a state of its own. *)
RejectAndWait(p) ==
  /\ pc[p] = "opened" /\ lock[handle[p]] # None
  /\ pc' = [pc EXCEPT ![p] = "waiting"]
  /\ UNCHANGED <<path, handle, lock>>

(* The lock is not waited for: the execution ends and leaves the file. *)
Reject(p) ==
  /\ pc[p] = "opened" /\ lock[handle[p]] # None
  /\ handle' = [handle EXCEPT ![p] = None]
  /\ pc' = [pc EXCEPT ![p] = "absent"]
  /\ UNCHANGED <<path, lock>>

(* Release, called once by runBackupWatchLoop when its loop has ended. *)
Unlock(p) ==
  /\ Stoppable /\ pc[p] = "owner"
  /\ lock' = [lock EXCEPT ![handle[p]] = None]
  /\ pc' = [pc EXCEPT ![p] = "unlocked"]
  /\ UNCHANGED <<path, handle>>

Close(p) ==
  /\ pc[p] = "unlocked"
  /\ handle' = [handle EXCEPT ![p] = None]
  /\ pc' = [pc EXCEPT ![p] = "closed"]
  /\ UNCHANGED <<path, lock>>

(* Mutant: the path is removed although another execution has the file open. *)
RemoveOpenPath(p) ==
  /\ pc[p] = "closed"
  /\ path' = None
  /\ pc' = [pc EXCEPT ![p] = "absent"]
  /\ UNCHANGED <<handle, lock>>

RemovePath(p) ==
  /\ pc[p] = "closed"
  /\ path' = IF Platform = "windows" /\ \E q \in Procs : handle[q] # None /\ handle[q] = path
             THEN path ELSE None
  /\ pc' = [pc EXCEPT ![p] = "absent"]
  /\ UNCHANGED <<handle, lock>>

(* Mutant: ownership is a mark that only Release removes. *)
DieLeavingLock(p) ==
  /\ pc[p] # "absent"
  /\ handle' = [handle EXCEPT ![p] = None]
  /\ pc' = [pc EXCEPT ![p] = "absent"]
  /\ UNCHANGED <<path, lock>>

(* The process dies: the kernel closes its files and drops its locks. *)
Die(p) ==
  /\ pc[p] # "absent"
  /\ handle' = [handle EXCEPT ![p] = None]
  /\ lock' = [i \in Inodes |-> IF lock[i] = p THEN None ELSE lock[i]]
  /\ pc' = [pc EXCEPT ![p] = "absent"]
  /\ UNCHANGED path

Next ==
  \E p \in Procs :
    \/ Open(p) \/ Acquire(p) \/ Reject(p)
    \/ Unlock(p) \/ Close(p) \/ RemovePath(p) \/ Die(p)

Spec == Init /\ [][Next]_vars

-----------------------------------------------------------------------------

(* RF-13: "While one BACKUP process owns a destination, the system shall    *)
(* reject any other BACKUP process" (specs/004-compressed-backup/spec.md:33;*)
(* backup_ownership.go:17).                                                 *)
MutualExclusion ==
  \A p, q \in Procs : pc[p] = "owner" /\ pc[q] = "owner" => p = q

(* The file an owner has locked is the one every newcomer will find, so a   *)
(* newcomer cannot miss the lock (backup_ownership.go:24, 44).              *)
OwnerVisible == \A p \in Procs : pc[p] = "owner" => path = handle[p]

(* An execution is turned away only by a live owner: whatever died before   *)
(* left no stale ownership behind (plan.md:205; backup_ownership.go:28).    *)
RejectedOnlyByOwner ==
  [][\A p \in Procs : Reject(p) => \E q \in Procs \ {p} : pc[q] = "owner"]_vars
=============================================================================
