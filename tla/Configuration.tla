--------------------------- MODULE Configuration ---------------------------
(***************************************************************************)
(* The global configuration: several executions of `gosync configure` and  *)
(* `gosync watch` (config_service.go, config_store.go, config_ownership.go,*)
(* watch_command.go) around one config.json and its lock file.             *)
(***************************************************************************)
EXTENDS FiniteSets

CONSTANTS
  Processes,    \* executions of the program
  Values,       \* complete valid configurations
  Missing, Invalid, Unsupported,  \* what else may be at the path of config.json
  NoOne,
  Faults        \* what may happen besides, a subset of FaultKinds

(* Calls on files fail, renaming over what is at the path, removing the       *)
(* temporary file, removing the lock, logging; processes end; users write the *)
(* file.                                                                      *)
FaultKinds == {"io", "replace", "remove", "release", "log", "crash", "edit"}
NotValues  == {Missing, Invalid, Unsupported}

ASSUME ConfigurationAssumption ==
  /\ NoOne \notin Processes /\ Values \cap NotValues = {} /\ Missing \notin {Invalid, Unsupported}
  /\ Faults \subseteq FaultKinds

VARIABLES
  file,       \* what is at the path of config.json
  lock,       \* whose lock file exists
  pc,         \* where each execution is
  watching,   \* the execution is a watch
  snapshot,   \* the configuration it has read or asked for
  candidate,  \* the temporary file it has created last, if any, exists
  failed,     \* its configuration ends with an error
  confirmed,  \* history: configurations a user has confirmed, or written himself
  saved,      \* history: the configuration the program has put in the file last
  stale       \* history: whoever made the lock was interrupted, or could not remove it

history == <<confirmed, saved, stale>>
vars == <<file, lock, pc, watching, snapshot, candidate, failed, history>>

Labels == {"down", "load", "acquire", "inspect", "ask", "candidate", "replace", "unlink",
           "again", "log", "release", "running"}
Section == {"inspect", "ask", "candidate", "replace", "unlink", "again", "log", "release"}

Init ==
  /\ file \in {Missing} \cup Values
  /\ lock = NoOne
  /\ pc = [p \in Processes |-> "down"]
  /\ watching = [p \in Processes |-> FALSE]
  /\ snapshot = [p \in Processes |-> Missing]
  /\ candidate = [p \in Processes |-> FALSE]
  /\ failed = [p \in Processes |-> FALSE]
  /\ confirmed = {file} \cap Values /\ saved = Missing /\ stale = FALSE

At(p, label)   == pc[p] = label
Goto(p, label) == pc' = [pc EXCEPT ![p] = label]

(* An entry that cannot be logged ends the operation as well. *)
Outcome(p, fails) == failed' = [failed EXCEPT ![p] = fails]

Candidate(p, exists) == candidate' = [candidate EXCEPT ![p] = exists]

(* The operation has failed and returns; what was deferred is still done. *)
Fails(p) == Outcome(p, TRUE) /\ Goto(p, "release")

End(p) ==
  /\ Goto(p, "down") /\ snapshot' = [snapshot EXCEPT ![p] = Missing]
  /\ watching' = [watching EXCEPT ![p] = FALSE] /\ Outcome(p, FALSE)

(* A new execution, with no temporary file of its own. *)
Start(p) ==
  /\ At(p, "down") /\ Candidate(p, FALSE)
  /\ \/ Goto(p, "acquire") /\ UNCHANGED watching
     \/ Goto(p, "load") /\ watching' = [watching EXCEPT ![p] = TRUE]
  /\ UNCHANGED <<file, lock, snapshot, failed, history>>

(* Load of runWatchCommand: only a missing configuration is asked for. *)
WatchLoads(p) ==
  /\ At(p, "load")
  /\ \/ /\ file = Missing /\ Goto(p, "acquire") /\ UNCHANGED <<watching, snapshot, failed>>
     \/ /\ file \in Values /\ Goto(p, "running")
        /\ snapshot' = [snapshot EXCEPT ![p] = file] /\ UNCHANGED <<watching, failed>>
     \/ /\ file \in {Invalid, Unsupported} \/ "io" \in Faults
        /\ End(p)
  /\ UNCHANGED <<file, lock, candidate, history>>

(* Mutant: an existing lock file is opened as well. *)
AcquireShared(p) ==
  /\ At(p, "acquire")
  /\ lock' = p /\ Goto(p, "inspect") /\ UNCHANGED <<watching, snapshot, failed>>
  /\ UNCHANGED <<file, candidate, history>>

(* acquireConfigurationOwnership creates the lock file or fails; before it  *)
(* the start is logged.                                                     *)
Acquire(p) ==
  /\ At(p, "acquire")
  /\ \/ /\ lock = NoOne /\ lock' = p
        /\ Goto(p, "inspect") /\ UNCHANGED <<watching, snapshot, failed>>
     \/ /\ lock # NoOne \/ {"io", "log"} \cap Faults # {}
        /\ End(p) /\ UNCHANGED lock
  /\ UNCHANGED <<file, candidate, history>>

(* Mutant: what an invalid configuration contains is taken over. *)
InspectAndKeep(p) ==
  /\ At(p, "inspect")
  /\ \/ file # Unsupported /\ Goto(p, "ask") /\ snapshot' = [snapshot EXCEPT ![p] = file] /\ UNCHANGED failed
     \/ (file = Unsupported \/ "io" \in Faults) /\ Fails(p) /\ UNCHANGED snapshot
  /\ UNCHANGED <<file, lock, watching, candidate, history>>

(* Load under the lock: an invalid configuration may be replaced. *)
Inspect(p) ==
  /\ At(p, "inspect")
  /\ \/ file # Unsupported /\ Goto(p, "ask") /\ UNCHANGED failed
     \/ (file = Unsupported \/ "io" \in Faults) /\ Fails(p)
  /\ UNCHANGED <<file, lock, watching, snapshot, candidate, history>>

(* runInteractiveConfiguration: values are asked for until they are valid   *)
(* and confirmed; the user may cancel, or the input end.                    *)
Confirm(p, v) ==
  /\ At(p, "ask")
  /\ snapshot' = [snapshot EXCEPT ![p] = v] /\ confirmed' = confirmed \cup {v}
  /\ Goto(p, "candidate")
  /\ UNCHANGED <<file, lock, watching, candidate, failed, saved, stale>>

Cancel(p) ==
  /\ At(p, "ask") /\ Fails(p)
  /\ UNCHANGED <<file, lock, watching, snapshot, candidate, history>>

(* The temporary file is removed; nobody looks at the error. *)
RemoveCandidate(p) == Candidate(p, FALSE) \/ ("remove" \in Faults /\ Candidate(p, TRUE))

(* WriteCandidate; when it fails it removes its temporary file. *)
WriteCandidate(p) ==
  /\ At(p, "candidate")
  /\ \/ Goto(p, "replace") /\ Candidate(p, TRUE) /\ UNCHANGED failed
     \/ "io" \in Faults /\ Fails(p) /\ RemoveCandidate(p)
  /\ UNCHANGED <<file, lock, watching, snapshot, history>>

(* Save ends: the rename has taken the candidate along, or it is removed. *)
SaveEnds(p, label) ==
  /\ IF label = "failed" THEN Fails(p) /\ RemoveCandidate(p) /\ UNCHANGED saved
     ELSE Goto(p, label) /\ Candidate(p, FALSE) /\ saved' = snapshot[p] /\ UNCHANGED failed
  /\ UNCHANGED <<lock, watching, snapshot, confirmed, stale>>

(* Mutant: the configuration is copied into the place of the old one. *)
ReplaceInPlace(p) ==
  /\ At(p, "replace")
  /\ IF file \in Values THEN file' = Invalid /\ Goto(p, "again") ELSE file' = snapshot[p] /\ Goto(p, "log")
  /\ UNCHANGED <<lock, watching, snapshot, candidate, failed, history>>

(* ReplaceCandidate: the rename; *)
Replace(p) ==
  /\ At(p, "replace")
  /\ \/ file' = snapshot[p] /\ SaveEnds(p, "log")
     \/ "replace" \in Faults /\ file = Missing /\ SaveEnds(p, "failed") /\ UNCHANGED file
     \/ /\ "replace" \in Faults /\ file # Missing /\ Goto(p, "unlink")
        /\ UNCHANGED <<file, lock, watching, snapshot, candidate, failed, history>>

(* when it fails the old configuration is removed, *)
Unlink(p) ==
  /\ At(p, "unlink")
  /\ \/ /\ file' = Missing /\ Goto(p, "again")
        /\ UNCHANGED <<lock, watching, snapshot, candidate, failed, history>>
     \/ SaveEnds(p, "failed") /\ UNCHANGED file

(* and the rename is tried once more. *)
ReplaceAgain(p) ==
  /\ At(p, "again")
  /\ \/ file' = snapshot[p] /\ SaveEnds(p, "log")
     \/ SaveEnds(p, "failed") /\ UNCHANGED file

(* The success is logged; if it cannot be, an error is returned all the same. *)
LogSuccess(p) ==
  /\ At(p, "log")
  /\ Goto(p, "release")
  /\ Outcome(p, FALSE) \/ ("log" \in Faults /\ Outcome(p, TRUE))
  /\ UNCHANGED <<file, lock, watching, snapshot, candidate, history>>

(* Mutant: a watch goes on after a configuration that failed. *)
ReleaseAndRun(p) ==
  /\ At(p, "release") /\ lock' = NoOne
  /\ IF watching[p]
     THEN Goto(p, "running") /\ UNCHANGED <<snapshot, watching, failed>> ELSE End(p)
  /\ UNCHANGED <<file, candidate, history>>

(* Mutant: the lock is removed after a success only. *)
ReleaseOnSuccess(p) ==
  /\ At(p, "release")
  /\ lock' = (IF failed[p] THEN lock ELSE NoOne)
  /\ IF watching[p] /\ ~failed[p]
     THEN Goto(p, "running") /\ UNCHANGED <<snapshot, watching, failed>> ELSE End(p)
  /\ UNCHANGED <<file, candidate, history>>

(* The deferred Release, whose error nobody looks at; a watch goes on with    *)
(* what has been saved.                                                       *)
Release(p) ==
  /\ At(p, "release")
  /\ \/ lock' = NoOne /\ UNCHANGED stale
     \/ "release" \in Faults /\ stale' = TRUE /\ UNCHANGED lock
  /\ IF watching[p] /\ ~failed[p]
     THEN Goto(p, "running") /\ UNCHANGED <<snapshot, watching, failed>> ELSE End(p)
  /\ UNCHANGED <<file, candidate, confirmed, saved>>

(* The watch is stopped, or a cycle fails. *)
StopWatch(p) ==
  /\ At(p, "running") /\ End(p)
  /\ UNCHANGED <<file, lock, candidate, history>>

(* The process ends: its lock file stays, and its temporary file, also one it *)
(* was writing, which no later execution looks at.                            *)
Crash(p) ==
  /\ "crash" \in Faults /\ ~At(p, "down") /\ End(p)
  /\ UNCHANGED candidate \/ (At(p, "candidate") /\ Candidate(p, TRUE))
  /\ stale' = (stale \/ lock = p)
  /\ UNCHANGED <<file, lock, confirmed, saved>>

(* A user removes a lock file whose process does not change the configuration. *)
CleanUp(p) ==
  /\ lock = p /\ pc[p] \notin Section /\ lock' = NoOne /\ stale' = FALSE
  /\ UNCHANGED <<file, pc, watching, snapshot, candidate, failed, confirmed, saved>>

(* A user writes the file by hand. *)
EditFile ==
  /\ "edit" \in Faults /\ file' \in Values \cup NotValues
  /\ confirmed' = confirmed \cup ({file'} \cap Values)
  /\ UNCHANGED <<lock, pc, watching, snapshot, candidate, failed, saved, stale>>

Step(p) ==
  \/ Acquire(p) \/ Inspect(p) \/ WriteCandidate(p) \/ Replace(p) \/ Unlink(p)
  \/ ReplaceAgain(p) \/ LogSuccess(p) \/ Release(p)

Next ==
  \/ \E p \in Processes :
       \/ Start(p) \/ WatchLoads(p) \/ Step(p) \/ Cancel(p) \/ \E v \in Values : Confirm(p, v)
       \/ StopWatch(p) \/ Crash(p) \/ CleanUp(p)
  \/ EditFile

Spec == Init /\ [][Next]_vars

(* Each execution is sequential code that goes on; only a user's answer may   *)
(* never come.                                                                *)
FairSpec == Spec /\ \A p \in Processes : WF_vars(Step(p))

-----------------------------------------------------------------------------
(* Properties *)

TypeOK ==
  /\ file \in Values \cup NotValues /\ lock \in Processes \cup {NoOne}
  /\ pc \in [Processes -> Labels]
  /\ watching \in [Processes -> BOOLEAN] /\ candidate \in [Processes -> BOOLEAN]
  /\ failed \in [Processes -> BOOLEAN]
  /\ snapshot \in [Processes -> Values \cup {Missing}]
  /\ confirmed \subseteq Values /\ saved \in Values \cup {Missing} /\ stale \in BOOLEAN

(* At most one execution changes the configuration: RF-28                     *)
(* (config_ownership.go:17).                                                  *)
OneEditor == \A p, q \in Processes : pc[p] \in Section /\ pc[q] \in Section => p = q

(* Whatever fails or is interrupted, a step of the program leaves the file as *)
(* it is, puts a whole configuration there that a user has confirmed, or      *)
(* removes it for good after a failed rename: RF-20 and RF-21                 *)
(* (config_store.go:62).                                                      *)
ConfigurationKept ==
  [][pc' # pc =>
       (\/ file' = file \/ file' \in confirmed
        \/ file' = Missing /\ \E p \in Processes : At(p, "unlink"))]_vars

(* A watch never runs with values nobody confirmed: RF-22, RF-24 and RF-25    *)
(* (watch_command.go:84).                                                     *)
WatchesConfirmed == \A p \in Processes : At(p, "running") => snapshot[p] \in confirmed

(* A watch that has configured itself runs with what has just been saved,     *)
(* whoever else configures: RF-24 (watch_command.go:97).                      *)
WatchesSaved ==
  [][\A p \in Processes :
       (At(p, "release") /\ pc'[p] = "running") => snapshot[p] = saved]_vars

(* A configuration that was saved leaves no candidate behind, whatever fails; *)
(* one that was not leaves none unless it is interrupted or the temporary     *)
(* file cannot be removed (config_store.go:43, config_store.go:85).           *)
CandidatesRemoved ==
  \A p \in Processes :
    /\ pc[p] \in {"log", "running"} => ~candidate[p]
    /\ {"crash", "remove"} \cap Faults = {} /\ candidate[p] => pc[p] \in Section

(* Once its user has answered, a configuration gives its lock up so that      *)
(* others can enter, whatever fails, the fallback of the replacement          *)
(* included; only an execution that is interrupted, or cannot remove the lock *)
(* file, leaves a lock behind (config_service.go:44).                         *)
LockGivenUp ==
  \A p \in Processes : At(p, "candidate") ~> (lock # p \/ stale)
=============================================================================
