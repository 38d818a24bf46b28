------------------------- MODULE BackupWatchProofs -------------------------
(***************************************************************************)
(* Proofs about BackupWatch, for any number of executions: a backup watch   *)
(* implements the protocol of BackupOwnership, so what is proved of that    *)
(* protocol holds of it; and cycles exclude each other.                     *)
(***************************************************************************)
EXTENDS BackupWatch, BackupOwnershipProofs

(* Whoever is in its loop owns the destination, and the error that is kept  *)
(* tells whether a cycle has failed.                                        *)
WatchInv ==
  /\ WatchTypeOK
  /\ \A p \in Procs : /\ stage[p] \in {"first", "cycle", "waiting", "due"} => pc[p] = "owner"
                      /\ failed[p] = troubled[p]

(* Every step of a watch is a step of the protocol, or none. *)
LEMMA WatchStepsAreSteps == [WatchNext]_watchVars => [Next]_vars
<1>1. ASSUME NEW p \in Procs, WatchStep(p) \/ Start(p) \/ CloseStop(p) \/ Kill(p)
      PROVE  [Next]_vars
  BY <1>1 DEF WatchStep, Start, CloseStop, Kill, OpenLock, AcquireFails, AcquireLock, RejectLock,
    BeginCycle, FinishCycle, IntervalPasses, LeaveLoop, CloseLock, RemoveLock, Next
<1> QED
  BY <1>1 DEF WatchNext, watchVars

(* A backup watch implements the ownership protocol                         *)
(* (watch_command.go:113, backup_watch.go:18).                              *)
THEOREM WatchKeepsProtocol == WatchSpec => Spec
<1>1. WatchInit => Init
  BY DEF WatchInit
<1> QED
  BY <1>1, WatchStepsAreSteps, PTL DEF WatchSpec, Spec

(* Every rejection of a watch is by a live owner: no crash leaves a stale   *)
(* ownership behind (backup_ownership.go:28).                               *)
THEOREM WatchRejectionJustified == WatchSpec => RejectedOnlyByOwner
  BY WatchKeepsProtocol, RejectionJustified, PTL

-----------------------------------------------------------------------------
LEMMA WatchInitInv == WatchInit => WatchInv
<1> SUFFICES ASSUME WatchInit PROVE WatchInv
  OBVIOUS
<1>1. TypeOK
  BY OwnershipAssumption DEF WatchInit, Init, TypeOK
<1> QED
  BY <1>1 DEF WatchInit, WatchInv, WatchTypeOK, Stages

(* Every step of an execution keeps the types of the protocol's variables.  *)
LEMMA StepKeepsTypeOK ==
  ASSUME TypeOK, [Next]_vars
  PROVE  TypeOK'
  BY OwnershipAssumption DEF TypeOK, Next, vars, Open, Acquire, Reject, Unlock, Close, RemovePath, Die

LEMMA OutcomeKept ==
  ASSUME WatchInv, NEW p \in Procs, CycleFails(p) \/ CycleGoesOn(p)
  PROVE  /\ failed' \in [Procs -> BOOLEAN] /\ troubled' \in [Procs -> BOOLEAN]
         /\ \A q \in Procs : failed'[q] = troubled'[q]
<1>1. CASE CycleGoesOn(p)
  BY <1>1 DEF CycleGoesOn, WatchInv, WatchTypeOK
<1>2. CASE CycleFails(p)
  <2>1. failed' \in [Procs -> BOOLEAN] /\ troubled' \in [Procs -> BOOLEAN]
    BY <1>2 DEF CycleFails, WatchInv, WatchTypeOK
  <2>2. failed'[p] = TRUE /\ troubled'[p] = TRUE
    BY <1>2 DEF CycleFails, WatchInv, WatchTypeOK
  <2>3. \A q \in Procs \ {p} : failed'[q] = failed[q] /\ troubled'[q] = troubled[q]
    BY <1>2 DEF CycleFails, WatchInv, WatchTypeOK
  <2> QED
    BY <2>1, <2>2, <2>3 DEF WatchInv
<1> QED
  BY <1>1, <1>2

LEMMA WatchStepInv ==
  ASSUME WatchInv, [WatchNext]_watchVars
  PROVE  WatchInv'
<1>1. TypeOK'
  BY WatchStepsAreSteps, StepKeepsTypeOK DEF WatchInv, WatchTypeOK
<1> DEFINE Rest == /\ stage' \in [Procs -> Stages] /\ available' \in [Procs -> SUBSET Destinations]
                   /\ stop' \in [Procs -> BOOLEAN] /\ failed' \in [Procs -> BOOLEAN]
                   /\ result' \in [Procs -> SUBSET Errors] /\ troubled' \in [Procs -> BOOLEAN]
                   /\ \A q \in Procs :
                        /\ stage'[q] \in {"first", "cycle", "waiting", "due"} => pc'[q] = "owner"
                        /\ failed'[q] = troubled'[q]
<1> USE DEF WatchInv, WatchTypeOK, TypeOK, Stages, Errors
<1>2. CASE UNCHANGED watchVars
  BY <1>1, <1>2 DEF watchVars, watch, vars
<1>3. ASSUME NEW p \in Procs, Start(p)
      PROVE  Rest
  <2>1. PICK usable \in SUBSET Destinations :
          /\ available' = [available EXCEPT ![p] = usable]
          /\ IF usable = {} THEN End(p, {"logging"})
             ELSE Enter(p, "starting") /\ result' = [result EXCEPT ![p] = {}]
    BY <1>3 DEF Start
  <2>2. stage' \in [Procs -> Stages] /\ result' \in [Procs -> SUBSET Errors]
        /\ stage'[p] \in {"off", "starting"} /\ \A q \in Procs \ {p} : stage'[q] = stage[q]
    BY <2>1 DEF End, Enter
  <2>3. available' \in [Procs -> SUBSET Destinations]
    BY <2>1
  <2>4. /\ stop' \in [Procs -> BOOLEAN] /\ failed' \in [Procs -> BOOLEAN]
        /\ troubled' \in [Procs -> BOOLEAN] /\ \A q \in Procs : failed'[q] = troubled'[q]
        /\ pc' = pc
    BY <1>3 DEF Start, vars
  <2> QED
    BY <2>2, <2>3, <2>4
<1>4. ASSUME NEW p \in Procs, OpenLock(p)
      PROVE  Rest
  BY <1>4 DEF OpenLock, Open, watch
<1>5. ASSUME NEW p \in Procs, AcquireFails(p)
      PROVE  Rest
  BY <1>5 DEF AcquireFails, Die, Log, End, Enter, vars
<1>6. ASSUME NEW p \in Procs, AcquireLock(p)
      PROVE  Rest
  BY <1>6 DEF AcquireLock, Acquire, Enter
<1>7. ASSUME NEW p \in Procs, RejectLock(p)
      PROVE  Rest
  BY <1>7 DEF RejectLock, Reject, Log, End, Enter
<1>8. ASSUME NEW p \in Procs, BeginCycle(p)
      PROVE  Rest
  <2>1. available' \in [Procs -> SUBSET Destinations] /\ pc' = pc /\ pc[p] = "owner"
    BY <1>8 DEF BeginCycle, Log, vars
  <2>2. CycleFails(p) \/ CycleGoesOn(p)
    BY <1>8 DEF BeginCycle
  <2>3. /\ failed' \in [Procs -> BOOLEAN] /\ troubled' \in [Procs -> BOOLEAN]
        /\ \A q \in Procs : failed'[q] = troubled'[q]
    BY <2>2, OutcomeKept
  <2>4. /\ stage' \in [Procs -> Stages] /\ stop' = stop /\ result' = result
        /\ \A q \in Procs \ {p} : stage'[q] = stage[q]
    BY <1>8 DEF BeginCycle, Enter
  <2> QED
    BY <2>1, <2>3, <2>4
<1>9. ASSUME NEW p \in Procs, FinishCycle(p)
      PROVE  Rest
  <2>1. available' \in [Procs -> SUBSET Destinations] /\ pc' = pc /\ pc[p] = "owner"
    BY <1>9 DEF FinishCycle, Log, vars
  <2>2. CycleFails(p) \/ CycleGoesOn(p)
    BY <1>9 DEF FinishCycle
  <2>3. /\ failed' \in [Procs -> BOOLEAN] /\ troubled' \in [Procs -> BOOLEAN]
        /\ \A q \in Procs : failed'[q] = troubled'[q]
    BY <2>2, OutcomeKept
  <2>4. /\ stage' \in [Procs -> Stages] /\ stop' = stop /\ result' = result
        /\ \A q \in Procs \ {p} : stage'[q] = stage[q]
    BY <1>9 DEF FinishCycle, Enter
  <2> QED
    BY <2>1, <2>3, <2>4
<1>10. ASSUME NEW p \in Procs, IntervalPasses(p)
       PROVE  Rest
  BY <1>10 DEF IntervalPasses, Enter, vars
<1>11. ASSUME NEW p \in Procs, LeaveLoop(p)
       PROVE  Rest
  BY <1>11 DEF LeaveLoop, Unlock, Enter
<1>12. ASSUME NEW p \in Procs, CloseLock(p)
       PROVE  Rest
  BY <1>12 DEF CloseLock, Close, watch
<1>13. ASSUME NEW p \in Procs, RemoveLock(p)
       PROVE  Rest
  BY <1>13 DEF RemoveLock, RemovePath, End, Enter
<1>14. ASSUME NEW p \in Procs, CloseStop(p)
       PROVE  Rest
  BY <1>14 DEF CloseStop, vars
<1>15. ASSUME NEW p \in Procs, Kill(p)
       PROVE  Rest
  BY <1>15 DEF Kill, Die, Enter, vars
<1> QED
  BY <1>1, <1>2, <1>3, <1>4, <1>5, <1>6, <1>7, <1>8, <1>9, <1>10, <1>11, <1>12, <1>13, <1>14, <1>15
    DEF WatchNext, WatchStep

(* The types, and that whoever is in its loop owns the destination          *)
(* (watch_command.go:113).                                                  *)
THEOREM WatchInvariant == WatchSpec => []WatchInv
  BY WatchInitInv, WatchStepInv, PTL DEF WatchSpec

(* Every variable of the executions and of the protocol keeps its type       *)
(* (backup_watch.go:12, backup_ownership.go:28).                            *)
THEOREM WatchTypeCorrect == WatchSpec => []WatchTypeOK
<1>1. WatchInv => WatchTypeOK
  BY DEF WatchInv
<1> QED
  BY <1>1, WatchInvariant, PTL

(* RF-13 of spec 004: cycles for one destination exclude each other, for    *)
(* any number of executions, where the path stays under an open file or     *)
(* executions end only with their process (watch_command.go:113).           *)
THEOREM CyclesAreExclusive ==
  ASSUME PathStays
  PROVE  WatchSpec => []CyclesExclusive
<1>1. WatchInv /\ MutualExclusion => CyclesExclusive
  BY DEF WatchInv, MutualExclusion, CyclesExclusive
<1> QED
  BY <1>1, WatchInvariant, WatchKeepsProtocol, OneOwner, PTL

(* A watch that ends by Stop reports an error of its cycles exactly if one  *)
(* of them has failed (backup_watch.go:12).                                 *)
THEOREM FailuresAreReported == WatchSpec => FailuresReported
<1>1. WatchInv /\ [WatchNext]_watchVars =>
        [\A p \in Procs : RemoveLock(p) => ("cycle" \in result'[p] <=> troubled[p])]_watchVars
  BY DEF WatchInv, WatchTypeOK, RemoveLock, End
<1> QED
  BY <1>1, WatchInvariant, PTL DEF WatchSpec, FailuresReported
=============================================================================
