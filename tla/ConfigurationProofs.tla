------------------------- MODULE ConfigurationProofs -------------------------
(***************************************************************************)
(* Proofs about Configuration, for every set of executions, configurations *)
(* and faults.                                                             *)
(***************************************************************************)
EXTENDS Configuration, TLAPS

(* The labels between the answer of the user and the end of Save. *)
InSave == {"candidate", "replace", "unlink", "again"}

(* The lock is held by whoever is in the section. *)
Holds == \A p \in Processes : pc[p] \in Section => lock = p

(* What is saved, and what a watch runs with, has been confirmed. *)
Confirmed ==
  /\ file \in Values => file \in confirmed
  /\ \A p \in Processes :
       pc[p] \in InSave \cup {"log", "running"} \/ (pc[p] = "release" /\ ~failed[p])
         => snapshot[p] \in confirmed

(* A candidate exists only between its creation and the end of Save, and after *)
(* a Save that failed or was interrupted.                                      *)
Candidates ==
  \A p \in Processes :
    /\ \/ pc[p] \in {"load", "acquire", "inspect", "ask", "candidate", "log", "running"}
       \/ pc[p] = "release" /\ ~failed[p]
       => ~candidate[p]
    /\ {"crash", "remove"} \cap Faults = {} /\ candidate[p]
         => pc[p] \in {"replace", "unlink", "again"}

(* Until the lock is given up, what has been saved is what was saved last. *)
Saved ==
  \A p \in Processes :
    pc[p] = "log" \/ (pc[p] = "release" /\ ~failed[p]) => snapshot[p] = saved

(* Only a failed replacement gets to the removal of the configuration. *)
Replacing ==
  "replace" \notin Faults => \A p \in Processes : pc[p] \notin {"unlink", "again"}

IInv == TypeOK /\ Holds /\ Confirmed /\ Candidates /\ Saved /\ Replacing

(* An execution that ends keeps the types. *)
LEMMA EndTypes ==
  ASSUME TypeOK, NEW p \in Processes, End(p)
  PROVE  /\ pc' \in [Processes -> Labels] /\ watching' \in [Processes -> BOOLEAN]
         /\ failed' \in [Processes -> BOOLEAN] /\ snapshot' \in [Processes -> Values \cup {Missing}]
BY DEF TypeOK, End, Goto, Outcome, Labels

(* Every variable keeps its type (config_service.go:32). *)
LEMMA TypeStep == TypeOK /\ [Next]_vars => TypeOK'
<1> SUFFICES ASSUME TypeOK, [Next]_vars PROVE TypeOK'
  OBVIOUS
<1> USE ConfigurationAssumption DEF TypeOK, Labels, NotValues, At, Goto, Outcome, Candidate, RemoveCandidate, history
<1>1. ASSUME NEW p \in Processes, Start(p) PROVE TypeOK'
  BY <1>1 DEF Start
<1>2. ASSUME NEW p \in Processes, WatchLoads(p) PROVE TypeOK'
  <2>1. UNCHANGED <<file, lock, candidate, history>>
    BY <1>2 DEF WatchLoads
  <2>2. CASE End(p)
    BY <2>1, <2>2, EndTypes
  <2>3. CASE Goto(p, "acquire") /\ UNCHANGED <<watching, snapshot, failed>>
    BY <2>1, <2>3
  <2>4. CASE /\ file \in Values /\ Goto(p, "running")
             /\ snapshot' = [snapshot EXCEPT ![p] = file] /\ UNCHANGED <<watching, failed>>
    BY <2>1, <2>4
  <2> QED BY <1>2, <2>2, <2>3, <2>4 DEF WatchLoads
<1>3. ASSUME NEW p \in Processes, Acquire(p) PROVE TypeOK'
  BY <1>3, EndTypes DEF Acquire
<1>4. ASSUME NEW p \in Processes, Inspect(p) PROVE TypeOK'
  BY <1>4 DEF Inspect, Fails
<1>5. ASSUME NEW p \in Processes, WriteCandidate(p) PROVE TypeOK'
  BY <1>5 DEF WriteCandidate, Fails
<1>6. ASSUME NEW p \in Processes, NEW label \in {"log", "failed"}, SaveEnds(p, label),
             file' \in Values \cup NotValues
      PROVE  TypeOK'
  BY <1>6 DEF SaveEnds, Fails
<1>7. ASSUME NEW p \in Processes, Replace(p) PROVE TypeOK'
  BY <1>6, <1>7 DEF Replace
<1>8. ASSUME NEW p \in Processes, Unlink(p) PROVE TypeOK'
  BY <1>6, <1>8 DEF Unlink
<1>9. ASSUME NEW p \in Processes, ReplaceAgain(p) PROVE TypeOK'
  BY <1>6, <1>9 DEF ReplaceAgain
<1>10. ASSUME NEW p \in Processes, LogSuccess(p) PROVE TypeOK'
  BY <1>10 DEF LogSuccess
<1>11. ASSUME NEW p \in Processes, Release(p) PROVE TypeOK'
  BY <1>11, EndTypes DEF Release
<1>12. ASSUME NEW p \in Processes, Cancel(p) PROVE TypeOK'
  BY <1>12 DEF Cancel, Fails
<1>13. ASSUME NEW p \in Processes, NEW v \in Values, Confirm(p, v) PROVE TypeOK'
  BY <1>13 DEF Confirm
<1>14. ASSUME NEW p \in Processes, StopWatch(p) \/ Crash(p) PROVE TypeOK'
  BY <1>14, EndTypes DEF StopWatch, Crash
<1>15. ASSUME NEW p \in Processes, CleanUp(p) PROVE TypeOK'
  BY <1>15 DEF CleanUp
<1>16. CASE EditFile
  BY <1>16 DEF EditFile
<1>17. CASE UNCHANGED vars
  BY <1>17 DEF vars, history
<1> QED
  BY <1>1, <1>2, <1>3, <1>4, <1>5, <1>7, <1>8, <1>9, <1>10, <1>11, <1>12, <1>13, <1>14,
     <1>15, <1>16, <1>17 DEF Next, Step

(* Whoever enters the section has made the lock file, and nobody else         *)
(* removes it (config_ownership.go:23).                                       *)
LEMMA HoldsStep == TypeOK /\ Holds /\ [Next]_vars => Holds'
<1> SUFFICES ASSUME TypeOK, Holds, [Next]_vars PROVE Holds'
  OBVIOUS
<1> USE ConfigurationAssumption DEF TypeOK, Holds, Section, At, Goto, Outcome, Candidate, RemoveCandidate, history
<1>1. ASSUME NEW p \in Processes, Start(p) PROVE Holds'
  BY <1>1 DEF Start
<1>2. ASSUME NEW p \in Processes, WatchLoads(p) PROVE Holds'
  BY <1>2 DEF WatchLoads, End
<1>3. ASSUME NEW p \in Processes, Acquire(p) PROVE Holds'
  BY <1>3 DEF Acquire, End
<1>4. ASSUME NEW p \in Processes, Inspect(p) \/ Cancel(p) PROVE Holds'
  BY <1>4 DEF Inspect, Cancel, Fails
<1>5. ASSUME NEW p \in Processes, WriteCandidate(p) PROVE Holds'
  BY <1>5 DEF WriteCandidate, Fails
<1>6. ASSUME NEW p \in Processes, pc[p] \in Section,
             SaveEnds(p, "log") \/ SaveEnds(p, "failed")
      PROVE  Holds'
  BY <1>6 DEF SaveEnds, Fails
<1>7. ASSUME NEW p \in Processes, Replace(p) \/ Unlink(p) \/ ReplaceAgain(p) PROVE Holds'
  BY <1>6, <1>7 DEF Replace, Unlink, ReplaceAgain
<1>8. ASSUME NEW p \in Processes, LogSuccess(p) PROVE Holds'
  BY <1>8 DEF LogSuccess
<1>9. ASSUME NEW p \in Processes, Release(p) PROVE Holds'
  BY <1>9 DEF Release, End
<1>10. ASSUME NEW p \in Processes, NEW v \in Values, Confirm(p, v) PROVE Holds'
  BY <1>10 DEF Confirm
<1>11. ASSUME NEW p \in Processes, StopWatch(p) \/ Crash(p) PROVE Holds'
  BY <1>11 DEF StopWatch, Crash, End
<1>12. ASSUME NEW p \in Processes, CleanUp(p) PROVE Holds'
  BY <1>12 DEF CleanUp
<1>13. CASE EditFile
  BY <1>13 DEF EditFile
<1>14. CASE UNCHANGED vars
  BY <1>14 DEF vars, history
<1> QED
  BY <1>1, <1>2, <1>3, <1>4, <1>5, <1>7, <1>8, <1>9, <1>10, <1>11, <1>12, <1>13, <1>14
  DEF Next, Step
(* What is read is a valid configuration, and what is saved was confirmed      *)
(* (config_interactive.go:194).                                               *)
LEMMA ConfirmedStep == TypeOK /\ Confirmed /\ [Next]_vars => Confirmed'
<1> SUFFICES ASSUME TypeOK, Confirmed, [Next]_vars PROVE Confirmed'
  OBVIOUS
<1> USE ConfigurationAssumption DEF TypeOK, Confirmed, InSave, NotValues, At, Goto, Outcome, Candidate, RemoveCandidate, history
<1>1. ASSUME NEW p \in Processes, Start(p) PROVE Confirmed'
  BY <1>1 DEF Start
<1>2. ASSUME NEW p \in Processes, WatchLoads(p) PROVE Confirmed'
  BY <1>2 DEF WatchLoads, End
<1>3. ASSUME NEW p \in Processes, Acquire(p) PROVE Confirmed'
  BY <1>3 DEF Acquire, End
<1>4. ASSUME NEW p \in Processes, Inspect(p) \/ Cancel(p) PROVE Confirmed'
  BY <1>4 DEF Inspect, Cancel, Fails
<1>5. ASSUME NEW p \in Processes, WriteCandidate(p) PROVE Confirmed'
  BY <1>5 DEF WriteCandidate, Fails
<1>6. ASSUME NEW p \in Processes, Replace(p) PROVE Confirmed'
  BY <1>6 DEF Replace, SaveEnds, Fails
<1>7. ASSUME NEW p \in Processes, Unlink(p) PROVE Confirmed'
  BY <1>7 DEF Unlink, SaveEnds, Fails
<1>8. ASSUME NEW p \in Processes, ReplaceAgain(p) PROVE Confirmed'
  BY <1>8 DEF ReplaceAgain, SaveEnds, Fails
<1>9. ASSUME NEW p \in Processes, LogSuccess(p) PROVE Confirmed'
  BY <1>9 DEF LogSuccess
<1>10. ASSUME NEW p \in Processes, Release(p) PROVE Confirmed'
  BY <1>10 DEF Release, End
<1>11. ASSUME NEW p \in Processes, NEW v \in Values, Confirm(p, v) PROVE Confirmed'
  BY <1>11 DEF Confirm
<1>12. ASSUME NEW p \in Processes, StopWatch(p) \/ Crash(p) PROVE Confirmed'
  BY <1>12 DEF StopWatch, Crash, End
<1>13. ASSUME NEW p \in Processes, CleanUp(p) PROVE Confirmed'
  BY <1>13 DEF CleanUp
<1>14. CASE EditFile
  BY <1>14 DEF EditFile
<1>15. CASE UNCHANGED vars
  BY <1>15 DEF vars, history
<1> QED
  BY <1>1, <1>2, <1>3, <1>4, <1>5, <1>6, <1>7, <1>8, <1>9, <1>10, <1>11, <1>12, <1>13,
     <1>14, <1>15 DEF Next, Step

(* A rename takes the candidate along, and every other way out of Save removes *)
(* it if it can (config_store.go:85).                                          *)
LEMMA CandidatesStep == TypeOK /\ Candidates /\ [Next]_vars => Candidates'
<1> SUFFICES ASSUME TypeOK, Candidates, [Next]_vars PROVE Candidates'
  OBVIOUS
<1> USE ConfigurationAssumption DEF TypeOK, Candidates, At, Goto, Outcome, Candidate, RemoveCandidate, history
<1>1. ASSUME NEW p \in Processes, Start(p) PROVE Candidates'
  BY <1>1 DEF Start
<1>2. ASSUME NEW p \in Processes, WatchLoads(p) PROVE Candidates'
  BY <1>2 DEF WatchLoads, End
<1>3. ASSUME NEW p \in Processes, Acquire(p) PROVE Candidates'
  BY <1>3 DEF Acquire, End
<1>4. ASSUME NEW p \in Processes, Inspect(p) \/ Cancel(p) PROVE Candidates'
  BY <1>4 DEF Inspect, Cancel, Fails
<1>5. ASSUME NEW p \in Processes, WriteCandidate(p) PROVE Candidates'
  BY <1>5 DEF WriteCandidate, Fails
<1>6. ASSUME NEW p \in Processes, Replace(p) PROVE Candidates'
  BY <1>6 DEF Replace, SaveEnds, Fails
<1>7. ASSUME NEW p \in Processes, Unlink(p) PROVE Candidates'
  BY <1>7 DEF Unlink, SaveEnds, Fails
<1>8. ASSUME NEW p \in Processes, ReplaceAgain(p) PROVE Candidates'
  BY <1>8 DEF ReplaceAgain, SaveEnds, Fails
<1>9. ASSUME NEW p \in Processes, LogSuccess(p) PROVE Candidates'
  BY <1>9 DEF LogSuccess
<1>10. ASSUME NEW p \in Processes, Release(p) PROVE Candidates'
  BY <1>10 DEF Release, End
<1>11. ASSUME NEW p \in Processes, NEW v \in Values, Confirm(p, v) PROVE Candidates'
  BY <1>11 DEF Confirm
<1>12. ASSUME NEW p \in Processes, StopWatch(p) \/ Crash(p) PROVE Candidates'
  BY <1>12 DEF StopWatch, Crash, End
<1>13. ASSUME NEW p \in Processes, CleanUp(p) PROVE Candidates'
  BY <1>13 DEF CleanUp
<1>14. CASE EditFile
  BY <1>14 DEF EditFile
<1>15. CASE UNCHANGED vars
  BY <1>15 DEF vars, history
<1> QED
  BY <1>1, <1>2, <1>3, <1>4, <1>5, <1>6, <1>7, <1>8, <1>9, <1>10, <1>11, <1>12, <1>13,
     <1>14, <1>15 DEF Next, Step

(* The holder of the lock is the only one to change the configuration         *)
(* (config_service.go:40).                                                    *)
LEMMA SavedStep == TypeOK /\ Holds /\ Replacing /\ Saved /\ [Next]_vars => Saved'
<1> SUFFICES ASSUME TypeOK, Holds, Replacing, Saved, [Next]_vars PROVE Saved'
  OBVIOUS
<1> USE ConfigurationAssumption DEF TypeOK, Holds, Section, Replacing, Saved, At, Goto, Outcome, Candidate, RemoveCandidate, history
<1>1. ASSUME NEW p \in Processes, Start(p) PROVE Saved'
  BY <1>1 DEF Start
<1>2. ASSUME NEW p \in Processes, WatchLoads(p) PROVE Saved'
  BY <1>2 DEF WatchLoads, End
<1>3. ASSUME NEW p \in Processes, Acquire(p) PROVE Saved'
  BY <1>3 DEF Acquire, End
<1>4. ASSUME NEW p \in Processes, Inspect(p) \/ Cancel(p) PROVE Saved'
  BY <1>4 DEF Inspect, Cancel, Fails
<1>5. ASSUME NEW p \in Processes, WriteCandidate(p) PROVE Saved'
  BY <1>5 DEF WriteCandidate, Fails
<1>6. ASSUME NEW p \in Processes, Replace(p) PROVE Saved'
  BY <1>6 DEF Replace, SaveEnds, Fails
<1>7. ASSUME NEW p \in Processes, Unlink(p) PROVE Saved'
  BY <1>7 DEF Unlink, SaveEnds, Fails
<1>8. ASSUME NEW p \in Processes, ReplaceAgain(p) PROVE Saved'
  BY <1>8 DEF ReplaceAgain, SaveEnds, Fails
<1>9. ASSUME NEW p \in Processes, LogSuccess(p) PROVE Saved'
  BY <1>9 DEF LogSuccess
<1>10. ASSUME NEW p \in Processes, Release(p) PROVE Saved'
  BY <1>10 DEF Release, End
<1>11. ASSUME NEW p \in Processes, NEW v \in Values, Confirm(p, v) PROVE Saved'
  BY <1>11 DEF Confirm
<1>12. ASSUME NEW p \in Processes, StopWatch(p) \/ Crash(p) PROVE Saved'
  BY <1>12 DEF StopWatch, Crash, End
<1>13. ASSUME NEW p \in Processes, CleanUp(p) PROVE Saved'
  BY <1>13 DEF CleanUp
<1>14. CASE EditFile
  BY <1>14 DEF EditFile
<1>15. CASE UNCHANGED vars
  BY <1>15 DEF vars, history
<1> QED
  BY <1>1, <1>2, <1>3, <1>4, <1>5, <1>6, <1>7, <1>8, <1>9, <1>10, <1>11, <1>12, <1>13,
     <1>14, <1>15 DEF Next, Step

(* The fallback follows a failed rename (config_store.go:66). *)
LEMMA ReplacingStep == TypeOK /\ Replacing /\ [Next]_vars => Replacing'
<1> SUFFICES ASSUME TypeOK, Replacing, [Next]_vars PROVE Replacing'
  OBVIOUS
<1> USE ConfigurationAssumption DEF TypeOK, Replacing, At, Goto, Outcome, Candidate, RemoveCandidate, history
<1>1. ASSUME NEW p \in Processes, Start(p) PROVE Replacing'
  BY <1>1 DEF Start
<1>2. ASSUME NEW p \in Processes, WatchLoads(p) PROVE Replacing'
  BY <1>2 DEF WatchLoads, End
<1>3. ASSUME NEW p \in Processes, Acquire(p) PROVE Replacing'
  BY <1>3 DEF Acquire, End
<1>4. ASSUME NEW p \in Processes, Inspect(p) \/ Cancel(p) PROVE Replacing'
  BY <1>4 DEF Inspect, Cancel, Fails
<1>5. ASSUME NEW p \in Processes, WriteCandidate(p) PROVE Replacing'
  BY <1>5 DEF WriteCandidate, Fails
<1>6. ASSUME NEW p \in Processes, Replace(p) PROVE Replacing'
  BY <1>6 DEF Replace, SaveEnds, Fails
<1>7. ASSUME NEW p \in Processes, Unlink(p) PROVE Replacing'
  BY <1>7 DEF Unlink, SaveEnds, Fails
<1>8. ASSUME NEW p \in Processes, ReplaceAgain(p) PROVE Replacing'
  BY <1>8 DEF ReplaceAgain, SaveEnds, Fails
<1>9. ASSUME NEW p \in Processes, LogSuccess(p) PROVE Replacing'
  BY <1>9 DEF LogSuccess
<1>10. ASSUME NEW p \in Processes, Release(p) PROVE Replacing'
  BY <1>10 DEF Release, End
<1>11. ASSUME NEW p \in Processes, NEW v \in Values, Confirm(p, v) PROVE Replacing'
  BY <1>11 DEF Confirm
<1>12. ASSUME NEW p \in Processes, StopWatch(p) \/ Crash(p) PROVE Replacing'
  BY <1>12 DEF StopWatch, Crash, End
<1>13. ASSUME NEW p \in Processes, CleanUp(p) PROVE Replacing'
  BY <1>13 DEF CleanUp
<1>14. CASE EditFile
  BY <1>14 DEF EditFile
<1>15. CASE UNCHANGED vars
  BY <1>15 DEF vars, history
<1> QED
  BY <1>1, <1>2, <1>3, <1>4, <1>5, <1>6, <1>7, <1>8, <1>9, <1>10, <1>11, <1>12, <1>13,
     <1>14, <1>15 DEF Next, Step

(* The invariant holds in every reachable state.                              *)
THEOREM ConfigurationInvariant == Spec => []IInv
<1>1. Init => IInv
  BY ConfigurationAssumption
  DEF Init, IInv, TypeOK, Labels, NotValues, Holds, Section, Confirmed, InSave, Candidates, Saved, Replacing
<1>2. IInv /\ [Next]_vars => IInv'
  BY TypeStep, HoldsStep, ConfirmedStep, CandidatesStep, SavedStep, ReplacingStep DEF IInv
<1> QED
  BY <1>1, <1>2, PTL DEF Spec

(* Every variable keeps its type: what is saved, and what a watch runs with,  *)
(* is a valid configuration (config_service.go:32, watch_command.go:84).      *)
THEOREM TypeCorrect == Spec => []TypeOK
<1>1. IInv => TypeOK
  BY DEF IInv
<1> QED
  BY <1>1, ConfigurationInvariant, PTL

(* At most one execution changes the configuration: RF-28                     *)
(* (config_ownership.go:17).                                                  *)
THEOREM SingleEditor == Spec => []OneEditor
<1>1. IInv => OneEditor
  BY DEF IInv, Holds, OneEditor
<1> QED
  BY <1>1, ConfigurationInvariant, PTL

(* A watch runs only with confirmed values: RF-22, RF-24, RF-25               *)
(* (watch_command.go:84).                                                     *)
THEOREM WatchesRunConfirmed == Spec => []WatchesConfirmed
<1>1. IInv => WatchesConfirmed
  BY DEF IInv, Confirmed, WatchesConfirmed, At
<1> QED
  BY <1>1, ConfigurationInvariant, PTL

(* A configuration that was saved leaves no candidate, whatever fails, and one *)
(* that was not leaves none unless it is interrupted or the file cannot be     *)
(* removed (config_store.go:85).                                               *)
THEOREM CandidatesGo == Spec => []CandidatesRemoved
<1>1. IInv => CandidatesRemoved
  BY DEF IInv, Candidates, CandidatesRemoved, Section
<1> QED
  BY <1>1, ConfigurationInvariant, PTL

(* A watch that has configured itself starts with what was saved last: RF-24  *)
(* (watch_command.go:97).                                                     *)
THEOREM WatchesRunSaved == Spec => WatchesSaved
<1>1. IInv /\ [Next]_vars =>
       (\A p \in Processes : (At(p, "release") /\ pc'[p] = "running") => snapshot[p] = saved)
  <2> SUFFICES ASSUME IInv, [Next]_vars, NEW p \in Processes,
                      pc[p] = "release", pc'[p] = "running"
               PROVE  snapshot[p] = saved
    BY DEF At
  <2>1. ~failed[p]
    <3> USE DEF IInv, TypeOK, At, Goto
    <3>1. ASSUME NEW q \in Processes, Release(q) PROVE ~failed[p]
      BY <3>1 DEF Release, End
    <3>2. ASSUME NEW q \in Processes,
                 Start(q) \/ WatchLoads(q) \/ Acquire(q) \/ Inspect(q) \/ Cancel(q)
                   \/ (\E v \in Values : Confirm(q, v)) \/ WriteCandidate(q) \/ LogSuccess(q)
          PROVE  FALSE
      BY <3>2 DEF Start, WatchLoads, Acquire, Inspect, Cancel, Confirm, WriteCandidate,
         LogSuccess, End, Fails
    <3>3. ASSUME NEW q \in Processes,
                 Replace(q) \/ Unlink(q) \/ ReplaceAgain(q) \/ StopWatch(q) \/ Crash(q) \/ CleanUp(q)
          PROVE  FALSE
      BY <3>3 DEF Replace, Unlink, ReplaceAgain, SaveEnds, StopWatch, Crash, CleanUp, End, Fails
    <3>4. CASE EditFile \/ UNCHANGED vars
      BY <3>4 DEF EditFile, vars, history
    <3> QED BY <3>1, <3>2, <3>3, <3>4 DEF Next, Step
  <2> QED BY <2>1 DEF IInv, Saved
<1> QED
  BY <1>1, ConfigurationInvariant, PTL DEF Spec, WatchesSaved

(* The program leaves the file as it is, puts a confirmed configuration there, *)
(* or removes it after a failed rename: RF-20, RF-21 (config_store.go:62).    *)
THEOREM ConfigurationStays == Spec => ConfigurationKept
<1> DEFINE Kept == \/ file' = file \/ file' \in confirmed
                   \/ file' = Missing /\ \E p \in Processes : At(p, "unlink")
<1>1. IInv /\ [Next]_vars => (pc' # pc => Kept)
  <2> SUFFICES ASSUME IInv, [Next]_vars, pc' # pc PROVE Kept
    OBVIOUS
  <2>1. ASSUME NEW p \in Processes, Replace(p) \/ Unlink(p) \/ ReplaceAgain(p) PROVE Kept
    BY <2>1 DEF IInv, Confirmed, InSave, Replace, Unlink, ReplaceAgain, At
  <2>2. ASSUME NEW p \in Processes,
               Start(p) \/ WatchLoads(p) \/ Acquire(p) \/ Inspect(p) \/ Cancel(p)
                 \/ (\E v \in Values : Confirm(p, v)) \/ WriteCandidate(p) \/ LogSuccess(p)
                 \/ Release(p) \/ StopWatch(p) \/ Crash(p) \/ CleanUp(p)
        PROVE  file' = file
    BY <2>2 DEF Start, WatchLoads, Acquire, Inspect, Cancel, Confirm, WriteCandidate,
       LogSuccess, Release, StopWatch, Crash, CleanUp
  <2>3. CASE EditFile \/ UNCHANGED vars
    BY <2>3 DEF EditFile, vars, history
  <2> HIDE DEF Kept
  <2>4. CASE file' = file
    BY <2>4 DEF Kept
  <2> QED BY <2>1, <2>2, <2>3, <2>4 DEF Next, Step
<1> QED
  BY <1>1, ConfigurationInvariant, PTL DEF Spec, ConfigurationKept

(* While renaming does not fail, a valid configuration gives way only to a    *)
(* confirmed one: the removal follows only a failed rename                    *)
(* (config_store.go:66).                                                      *)
NeverLost == [][(file \in Values /\ pc' # pc) => (file' \in confirmed)]_vars

THEOREM ConfigurationSurvives ==
  ASSUME "replace" \notin Faults PROVE Spec => NeverLost
<1> DEFINE Kept == \/ file' = file \/ file' \in confirmed
                   \/ file' = Missing /\ \E p \in Processes : At(p, "unlink")
<1>1. IInv /\ (pc' # pc => Kept) => ((file \in Values /\ pc' # pc) => (file' \in confirmed))
  BY DEF IInv, Confirmed, Replacing, At
<1>2. Spec => [][pc' # pc => Kept]_vars
  BY ConfigurationStays DEF ConfigurationKept
<1> HIDE DEF Kept
<1> QED
  BY <1>1, <1>2, ConfigurationInvariant, PTL DEF Spec, NeverLost
=============================================================================
