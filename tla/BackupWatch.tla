---------------------------- MODULE BackupWatch ----------------------------
(***************************************************************************)
(* The life of a backup watch: the backup branch of runWatchCommand, the    *)
(* loop of runBackupWatchLoop and runWatchLoop, and the log destinations    *)
(* they report to, on top of the ownership of BackupOwnership.  A cycle is  *)
(* a stage here; BackupSet has what happens in it.                          *)
(***************************************************************************)
EXTENDS BackupOwnership

CONSTANTS
  Destinations   \* log destinations: the console and the log file

VARIABLES
  stage,      \* off, starting, first, cycle, waiting, due, ending
  available,  \* the log destinations each execution still uses
  stop,       \* WatchLoopOptions.Stop has been closed
  failed,     \* runBackupWatchLoop has an error of a cycle
  result,     \* what the errors were that an execution ended with
  troubled    \* history: a cycle of the execution has failed

watch     == <<stage, available, stop, failed, result, troubled>>
watchVars == <<vars, watch>>

Stages   == {"off", "starting", "first", "cycle", "waiting", "due", "ending"}
Errors   == {"logging", "ownership", "rejected", "cycle", "release"}

WatchInit ==
  /\ Init
  /\ stage = [p \in Procs |-> "off"] /\ available = [p \in Procs |-> {}]
  /\ stop = [p \in Procs |-> FALSE] /\ failed = [p \in Procs |-> FALSE]
  /\ result = [p \in Procs |-> {}] /\ troubled = [p \in Procs |-> FALSE]

Enter(p, s) == stage' = [stage EXCEPT ![p] = s]
End(p, errors) == Enter(p, "off") /\ result' = [result EXCEPT ![p] = errors]

(* initializeLoggingCoordinator: without a destination no watch starts. *)
Start(p) ==
  /\ stage[p] = "off"
  /\ \E usable \in SUBSET Destinations :
       /\ available' = [available EXCEPT ![p] = usable]
       /\ IF usable = {} THEN End(p, {"logging"})
          ELSE Enter(p, "starting") /\ result' = [result EXCEPT ![p] = {}]
  /\ stop' = [stop EXCEPT ![p] = FALSE] /\ failed' = [failed EXCEPT ![p] = FALSE]
  /\ troubled' = [troubled EXCEPT ![p] = FALSE]
  /\ UNCHANGED vars

(* LoggingCoordinator.Log: what cannot be written is not used again. *)
Log(p) == \E left \in SUBSET available[p] : available' = [available EXCEPT ![p] = left]

OpenLock(p) ==
  /\ stage[p] = "starting" /\ Open(p)
  /\ UNCHANGED watch

(* The directory, the file or the lock cannot be had for another reason. *)
AcquireFails(p) ==
  /\ stage[p] = "starting"
  /\ \/ pc[p] = "absent" /\ UNCHANGED vars
     \/ pc[p] = "opened" /\ Die(p)
  /\ Log(p)
  /\ End(p, {"ownership"} \cup IF available'[p] = {} THEN {"logging"} ELSE {})
  /\ UNCHANGED <<stop, failed, troubled>>

AcquireLock(p) ==
  /\ stage[p] = "starting" /\ Acquire(p) /\ Enter(p, "first")
  /\ UNCHANGED <<available, stop, failed, result, troubled>>

RejectLock(p) ==
  /\ stage[p] = "starting" /\ Reject(p) /\ Log(p)
  /\ End(p, {"rejected"} \cup IF available'[p] = {} THEN {"logging"} ELSE {})
  /\ UNCHANGED <<stop, failed, troubled>>

-----------------------------------------------------------------------------
(* The loop *)

(* The function that runs a cycle keeps the first error and returns none. *)
CycleFails(p) ==
  /\ failed' = [failed EXCEPT ![p] = TRUE] /\ troubled' = [troubled EXCEPT ![p] = TRUE]
CycleGoesOn(p) == UNCHANGED <<failed, troubled>>

(* Mutant: what is kept is the error of the last cycle. *)
KeepLastError(p) ==
  /\ stage[p] = "cycle"
  /\ Log(p)
  /\ \E ok \in BOOLEAN :
       /\ ok => available'[p] # {}
       /\ failed' = [failed EXCEPT ![p] = ~ok]
       /\ troubled' = [troubled EXCEPT ![p] = @ \/ ~ok]
  /\ Enter(p, "waiting")
  /\ UNCHANGED <<vars, stop, result>>

(* A cycle begins with a log entry, and ends there if it cannot be written. *)
(* The first cycle does not look at Stop.                                   *)
BeginCycle(p) ==
  /\ stage[p] = "first" \/ (stage[p] = "due" /\ ~stop[p])
  /\ Log(p)
  /\ IF available'[p] = {} THEN CycleFails(p) /\ Enter(p, "waiting")
     ELSE CycleGoesOn(p) /\ Enter(p, "cycle")
  /\ UNCHANGED <<vars, stop, result>>

(* A cycle ends: some call of it has failed, or an entry could not be       *)
(* written, or the version is confirmed.                                    *)
FinishCycle(p) ==
  /\ stage[p] = "cycle"
  /\ Log(p)
  /\ CycleFails(p) \/ (available'[p] # {} /\ CycleGoesOn(p))
  /\ Enter(p, "waiting")
  /\ UNCHANGED <<vars, stop, result>>

IntervalPasses(p) ==
  /\ stage[p] = "waiting" /\ Enter(p, "due")
  /\ UNCHANGED <<vars, available, stop, failed, result, troubled>>

(* Mutant: a loop that is stopped returns without releasing. *)
ForgetRelease(p) ==
  /\ stage[p] \in {"waiting", "due"} /\ stop[p]
  /\ End(p, IF failed[p] THEN {"cycle"} ELSE {})
  /\ UNCHANGED <<vars, available, stop, failed, troubled>>

(* Stop is seen before the timer is set, while it runs and after it fired;  *)
(* Release begins.                                                          *)
LeaveLoop(p) ==
  /\ stage[p] \in {"waiting", "due"} /\ stop[p] /\ Unlock(p) /\ Enter(p, "ending")
  /\ UNCHANGED <<available, stop, failed, result, troubled>>

CloseLock(p) == stage[p] = "ending" /\ Close(p) /\ UNCHANGED watch

(* The watch returns the first error of its cycles and those of Release.    *)
(* The path may be gone already, or be one that cannot be removed.          *)
RemoveLock(p) ==
  /\ stage[p] = "ending" /\ RemovePath(p)
  /\ End(p, (IF failed[p] THEN {"cycle"} ELSE {})
              \cup IF path = None \/ path' # None THEN {"release"} ELSE {})
  /\ UNCHANGED <<available, stop, failed, troubled>>

-----------------------------------------------------------------------------
(* The embedding program closes Stop. *)
CloseStop(p) ==
  /\ Stoppable /\ stage[p] # "off" /\ ~stop[p]
  /\ stop' = [stop EXCEPT ![p] = TRUE]
  /\ UNCHANGED <<vars, stage, available, failed, result, troubled>>

(* The process dies at any point; a watch that has not opened the lock yet  *)
(* has nothing the kernel would drop.                                       *)
Kill(p) ==
  /\ stage[p] # "off" /\ Enter(p, "off")
  /\ IF pc[p] = "absent" THEN UNCHANGED vars ELSE Die(p)
  /\ UNCHANGED <<available, stop, failed, result, troubled>>

WatchStep(p) ==
  \/ OpenLock(p) \/ AcquireFails(p) \/ AcquireLock(p) \/ RejectLock(p)
  \/ BeginCycle(p) \/ FinishCycle(p) \/ IntervalPasses(p)
  \/ LeaveLoop(p) \/ CloseLock(p) \/ RemoveLock(p)

WatchNext == \E p \in Procs : Start(p) \/ WatchStep(p) \/ CloseStop(p) \/ Kill(p)

WatchSpec == WatchInit /\ [][WatchNext]_watchVars

(* An execution goes on: its calls return and its timer fires. *)
FairWatchSpec == WatchSpec /\ \A p \in Procs : WF_watchVars(WatchStep(p))

-----------------------------------------------------------------------------
(* Properties *)

WatchTypeOK ==
  /\ TypeOK
  /\ stage \in [Procs -> Stages] /\ available \in [Procs -> SUBSET Destinations]
  /\ stop \in [Procs -> BOOLEAN] /\ failed \in [Procs -> BOOLEAN]
  /\ result \in [Procs -> SUBSET Errors] /\ troubled \in [Procs -> BOOLEAN]

(* RF-13: at no time are two executions in a cycle for one destination, so  *)
(* that publication and retention of one never meet those of another        *)
(* (specs/004-compressed-backup/spec.md:33; watch_command.go:113).          *)
CyclesExclusive ==
  \A p, q \in Procs : stage[p] = "cycle" /\ stage[q] = "cycle" => p = q

(* An execution whose Stop is closed gives its destination up, whatever its *)
(* cycles and its log destinations do (watch_loop.go:27; backup_watch.go:18).*)
StopReleases ==
  \A p \in Procs : stop[p] /\ stage[p] # "off" ~> pc[p] = "absent" /\ stage[p] = "off"

(* A watch that ends by Stop reports an error of its cycles exactly if one  *)
(* of them has failed, although the loop went on (backup_watch.go:12).      *)
FailuresReported ==
  [][\A p \in Procs : RemoveLock(p) => ("cycle" \in result'[p] <=> troubled[p])]_watchVars

=============================================================================
