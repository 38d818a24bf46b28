----------------------- MODULE BackupOwnershipProofs -----------------------
(***************************************************************************)
(* Proofs about BackupOwnership: when the lock path cannot be removed      *)
(* under an owner, at most one execution owns the destination, and a       *)
(* rejected execution always met a live owner.                             *)
(***************************************************************************)
EXTENDS BackupOwnership, TLAPS

(* The kernel's side: an owner has its file open and locked, and whoever    *)
(* holds a lock is an owner.                                                *)
LockHeld ==
  /\ \A p \in Procs : pc[p] = "owner" =>
        handle[p] \in Inodes /\ lock[handle[p]] = p
  /\ \A i \in Inodes : lock[i] # None =>
        pc[lock[i]] = "owner" /\ handle[lock[i]] = i
  /\ \A p \in Procs : pc[p] = "opened" => handle[p] \in Inodes

(* Every value keeps its type, whatever the platform and however executions *)
(* end.                                                                     *)
THEOREM TypeCorrect == Spec => []TypeOK
<1>1. Init => TypeOK
  BY OwnershipAssumption DEF Init, TypeOK
<1>2. TypeOK /\ [Next]_vars => TypeOK'
  <2>1. SUFFICES ASSUME TypeOK, [Next]_vars PROVE TypeOK'
    OBVIOUS
  <2>2. CASE UNCHANGED vars
    BY <2>1, <2>2 DEF TypeOK, vars
  <2>3. ASSUME NEW p \in Procs, Open(p) PROVE TypeOK'
    BY <2>1, <2>3 DEF TypeOK, Open
  <2>4. ASSUME NEW p \in Procs, Acquire(p) PROVE TypeOK'
    BY <2>1, <2>4 DEF TypeOK, Acquire
  <2>5. ASSUME NEW p \in Procs, Reject(p) PROVE TypeOK'
    BY <2>1, <2>5 DEF TypeOK, Reject
  <2>6. ASSUME NEW p \in Procs, Unlock(p) PROVE TypeOK'
    BY <2>1, <2>6 DEF TypeOK, Unlock
  <2>7. ASSUME NEW p \in Procs, Close(p) PROVE TypeOK'
    BY <2>1, <2>7 DEF TypeOK, Close
  <2>8. ASSUME NEW p \in Procs, RemovePath(p) PROVE TypeOK'
    BY <2>1, <2>8 DEF TypeOK, RemovePath
  <2>9. ASSUME NEW p \in Procs, Die(p) PROVE TypeOK'
    BY <2>1, <2>9 DEF TypeOK, Die
  <2>10. QED
    BY <2>1, <2>2, <2>3, <2>4, <2>5, <2>6, <2>7, <2>8, <2>9 DEF Next
<1>3. QED
  BY <1>1, <1>2, PTL DEF Spec

LEMMA LockHeldInductive == TypeOK /\ LockHeld /\ [Next]_vars => LockHeld'
<1>1. SUFFICES ASSUME TypeOK, LockHeld, [Next]_vars PROVE LockHeld'
  OBVIOUS
<1> USE OwnershipAssumption
<1>2. CASE UNCHANGED vars
  BY <1>1, <1>2 DEF LockHeld, vars
<1>3. ASSUME NEW p \in Procs, Open(p) PROVE LockHeld'
  BY <1>1, <1>3 DEF TypeOK, LockHeld, Open
<1>4. ASSUME NEW p \in Procs, Acquire(p) PROVE LockHeld'
  BY <1>1, <1>4 DEF TypeOK, LockHeld, Acquire
<1>5. ASSUME NEW p \in Procs, Reject(p) PROVE LockHeld'
  BY <1>1, <1>5 DEF TypeOK, LockHeld, Reject
<1>6. ASSUME NEW p \in Procs, Unlock(p) PROVE LockHeld'
  BY <1>1, <1>6 DEF TypeOK, LockHeld, Unlock
<1>7. ASSUME NEW p \in Procs, Close(p) PROVE LockHeld'
  BY <1>1, <1>7 DEF TypeOK, LockHeld, Close
<1>8. ASSUME NEW p \in Procs, RemovePath(p) PROVE LockHeld'
  BY <1>1, <1>8 DEF TypeOK, LockHeld, RemovePath
<1>9. ASSUME NEW p \in Procs, Die(p) PROVE LockHeld'
  BY <1>1, <1>9 DEF TypeOK, LockHeld, Die
<1>10. QED
  BY <1>1, <1>2, <1>3, <1>4, <1>5, <1>6, <1>7, <1>8, <1>9 DEF Next

THEOREM LockHeldInvariant == Spec => [](TypeOK /\ LockHeld)
<1>1. Init => LockHeld
  BY OwnershipAssumption DEF Init, LockHeld
<1>2. QED
  BY <1>1, LockHeldInductive, TypeCorrect, PTL DEF Spec
-----------------------------------------------------------------------------

(* plan.md:205, RF-13: an execution is rejected only while another one owns *)
(* the destination, on every platform: a death leaves no stale ownership.   *)
THEOREM RejectionJustified == Spec => RejectedOnlyByOwner
<1>1. TypeOK /\ LockHeld /\ [Next]_vars =>
        [\A p \in Procs : Reject(p) => \E q \in Procs \ {p} : pc[q] = "owner"]_vars
  <2>1. SUFFICES ASSUME TypeOK, LockHeld, NEW p \in Procs, Reject(p)
                 PROVE  \E q \in Procs \ {p} : pc[q] = "owner"
    OBVIOUS
  <2>2. handle[p] \in Inodes /\ lock[handle[p]] \in Procs
    BY <2>1 DEF TypeOK, LockHeld, Reject
  <2>3. pc[lock[handle[p]]] = "owner" /\ pc[p] = "opened"
    BY <2>1, <2>2, OwnershipAssumption DEF LockHeld, Reject
  <2>4. QED
    BY <2>2, <2>3
<1>2. QED
  BY <1>1, LockHeldInvariant, PTL DEF Spec, RejectedOnlyByOwner

(* Where no owner's path is removed: Windows refuses the removal, and an    *)
(* execution that is never stopped does not attempt one.                    *)
PathStays == Platform = "windows" \/ ~Stoppable

(* Without Stop nobody is past the owner's state. *)
NeverStopped ==
  ~Stoppable => \A p \in Procs : pc[p] \notin {"unlocked", "closed"}

(* Then whoever has opened the lock file still finds it under the path. *)
HandleVisible ==
  \A p \in Procs : pc[p] \in {"opened", "owner"} => path = handle[p]

OwnershipInv == TypeOK /\ LockHeld /\ NeverStopped /\ HandleVisible

LEMMA NeverStoppedInductive ==
  TypeOK /\ NeverStopped /\ [Next]_vars => NeverStopped'
BY DEF TypeOK, NeverStopped, Next, vars, Open, Acquire, Reject, Unlock, Close,
       RemovePath, Die

(* The opened file stays the one the path names.                            *)
LEMMA HandleVisibleInductive ==
  ASSUME PathStays
  PROVE  OwnershipInv /\ [Next]_vars => HandleVisible'
<1>1. SUFFICES ASSUME OwnershipInv, [Next]_vars PROVE HandleVisible'
  OBVIOUS
<1> USE OwnershipAssumption
<1>2. CASE UNCHANGED vars
  BY <1>1, <1>2 DEF OwnershipInv, HandleVisible, vars
<1>3. ASSUME NEW p \in Procs, Open(p) PROVE HandleVisible'
  BY <1>1, <1>3 DEF OwnershipInv, TypeOK, LockHeld, HandleVisible, Open
<1>4. ASSUME NEW p \in Procs, Acquire(p) PROVE HandleVisible'
  BY <1>1, <1>4 DEF OwnershipInv, TypeOK, HandleVisible, Acquire
<1>5. ASSUME NEW p \in Procs, Reject(p) PROVE HandleVisible'
  BY <1>1, <1>5 DEF OwnershipInv, TypeOK, HandleVisible, Reject
<1>6. ASSUME NEW p \in Procs, Unlock(p) PROVE HandleVisible'
  BY <1>1, <1>6 DEF OwnershipInv, TypeOK, HandleVisible, Unlock
<1>7. ASSUME NEW p \in Procs, Close(p) PROVE HandleVisible'
  BY <1>1, <1>7 DEF OwnershipInv, TypeOK, HandleVisible, Close
<1>8. ASSUME NEW p \in Procs, RemovePath(p) PROVE HandleVisible'
  <2>1. Platform = "windows"
    BY <1>1, <1>8, PathStays DEF OwnershipInv, NeverStopped, RemovePath, PathStays
  <2>2. QED
    BY <1>1, <1>8, <2>1 DEF OwnershipInv, TypeOK, LockHeld, HandleVisible, RemovePath
<1>9. ASSUME NEW p \in Procs, Die(p) PROVE HandleVisible'
  BY <1>1, <1>9 DEF OwnershipInv, TypeOK, HandleVisible, Die
<1>10. QED
  BY <1>1, <1>2, <1>3, <1>4, <1>5, <1>6, <1>7, <1>8, <1>9 DEF Next

THEOREM OwnershipInvariant ==
  ASSUME PathStays
  PROVE  Spec => []OwnershipInv
<1>1. Init => NeverStopped /\ HandleVisible
  BY DEF Init, NeverStopped, HandleVisible
<1>2. OwnershipInv /\ [Next]_vars => NeverStopped' /\ HandleVisible'
  BY HandleVisibleInductive, NeverStoppedInductive, PathStays DEF OwnershipInv
<1>3. QED
  BY <1>1, <1>2, LockHeldInvariant, PTL DEF Spec, OwnershipInv

LEMMA VisibleOwnersAreOne ==
  OwnershipInv => OwnerVisible /\ MutualExclusion
BY DEF OwnershipInv, LockHeld, HandleVisible, OwnerVisible, MutualExclusion

(* RF-13 on Windows, and on Unix for executions that end only with their    *)
(* process, as those of main.go do: at most one owner.                      *)
THEOREM OneOwner ==
  ASSUME PathStays
  PROVE  Spec => []MutualExclusion
BY OwnershipInvariant, VisibleOwnersAreOne, PTL

(* Under the same condition an owner's locked file is the one newcomers     *)
(* find at the lock path (backup_ownership.go:24).                          *)
THEOREM OwnerFound ==
  ASSUME PathStays
  PROVE  Spec => []OwnerVisible
BY OwnershipInvariant, VisibleOwnersAreOne, PTL
=============================================================================
