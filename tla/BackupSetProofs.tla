--------------------------- MODULE BackupSetProofs ---------------------------
(***************************************************************************)
(* Proofs about BackupSet, for any sources, inventories, identifiers and   *)
(* retention bound and for every set of disturbances: the inductive        *)
(* invariant of a backup cycle, and from it the safety properties that TLC *)
(* checks on small instances.                                              *)
(***************************************************************************)
EXTENDS BackupSet, FiniteSetTheorems, TLAPS

(* The candidate of this cycle has an identifier of its own.                *)
CandidateNamed ==
  /\ pc \in Producing => arch \in Ids
  /\ pc \in Producing => \A r \in disk.archives : r.id # arch

TypeInv == TypeOK /\ CandidateNamed

LEMMA EmptyStateType == EmptyState \in BackupSetState
BY DEF EmptyState, BackupSetState

LEMMA InitTypeInv == Init => TypeInv
BY EmptyStateType
DEF Init, TypeInv, TypeOK, CandidateNamed, Labels, Producing

LEMMA MarkedType ==
  ASSUME NEW st \in BackupSetState, NEW r \in st.archives
  PROVE  Marked(st, r) \in BackupSetState
<1>1. [r EXCEPT !.life = "pending"] \in Record
  BY DEF BackupSetState, Record
<1>2. QED
  BY <1>1 DEF Marked, BackupSetState, Record

LEMMA ForgottenType ==
  ASSUME NEW st \in BackupSetState
  PROVE  Forgotten(st) \in BackupSetState
BY DEF Forgotten, BackupSetState

LEMMA ExtendedType ==
  ASSUME TypeOK, NEW st \in BackupSetState, NEW d \in Contents \cup {Garbled},
         arch \in Ids
  PROVE  Extended(st, d) \in BackupSetState
<1>1. NewRecord(st, d) \in Record
  BY DEF TypeOK, NewRecord, Record, BackupSetState
<1>2. QED
  BY <1>1 DEF TypeOK, Extended, BackupSetState

LEMMA TypeInvInductive == TypeInv /\ [Next]_vars => TypeInv'
<1>1. SUFFICES ASSUME TypeInv, [Next]_vars PROVE TypeInv'
  OBVIOUS
<1> USE EmptyStateType
<1>2. CASE UNCHANGED vars
  BY <1>1, <1>2 DEF TypeInv, TypeOK, CandidateNamed, vars, source, destination, policy, locals
<1>3. CASE Start
  BY <1>1, <1>3 DEF Start, TypeInv, TypeOK, CandidateNamed, Labels, Producing, At, Goto, Fail,
      source, destination, policy, locals, ResetLocals
<1>4. CASE Stop
  BY <1>1, <1>4 DEF Stop, TypeInv, TypeOK, CandidateNamed, Labels, Producing, At, Goto, Fail,
      source, destination, policy, locals
<1>5. CASE Crash
  BY <1>1, <1>5 DEF Crash, TypeInv, TypeOK, CandidateNamed, Labels, Producing, At, Goto, Fail,
      source, destination, policy, locals, ResetLocals
<1>6. CASE BeginCycle
  BY <1>1, <1>6 DEF BeginCycle, TypeInv, TypeOK, CandidateNamed, Labels, Producing, At, Goto, Fail,
      source, destination, policy, locals
<1>7. CASE OpenRoots
  BY <1>1, <1>7 DEF OpenRoots, TypeInv, TypeOK, CandidateNamed, Labels, Producing, At, Goto, Fail,
      source, destination, policy, locals
<1>8. CASE Inspect
  BY <1>1, <1>8 DEF Inspect, TypeInv, TypeOK, CandidateNamed, Labels, Producing, At, Goto, Fail,
      source, destination, policy, locals
<1>9. CASE Recover
  BY <1>1, <1>9 DEF Recover, TypeInv, TypeOK, CandidateNamed, Labels, Producing, At, Goto, Fail,
      source, destination, policy, locals, Unrecorded, OwnedCandidate
<1>10. CASE SweepCandidate
  BY <1>1, <1>10 DEF SweepCandidate, TypeInv, TypeOK, CandidateNamed, Labels, Producing, At, Goto, Fail,
      source, destination, policy, locals
<1>11. CASE LoadState
  BY <1>1, <1>11 DEF LoadState, TypeInv, TypeOK, CandidateNamed, Labels, Producing, At, Goto, Fail,
      source, destination, policy, locals
<1>12. CASE MarkExpired
  <2>1. PICK r \in Expired(mem, ret) : Save(Marked(mem, r), "unlink")
    BY <1>12 DEF MarkExpired
  <2>2. r \in mem.archives
    BY DEF Expired, ConfirmedIn
  <2>3. Marked(mem, r) \in BackupSetState
    BY <1>1, <2>2, MarkedType DEF TypeInv, TypeOK
  <2>4. QED
    BY <1>1, <1>12, <2>1, <2>3 DEF MarkExpired, Save, TypeInv, TypeOK, CandidateNamed, Labels, Producing, At, Goto, Fail,
      source, destination, policy, locals
<1>13. CASE UnlinkPending
  BY <1>1, <1>13 DEF UnlinkPending, TypeInv, TypeOK, CandidateNamed, Labels, Producing, At, Goto, Fail,
      source, destination, policy, locals
<1>14. CASE ForgetPending
  <2>1. Forgotten(mem) \in BackupSetState
    BY <1>1, ForgottenType DEF TypeInv, TypeOK
  <2>2. QED
    BY <1>1, <1>14, <2>1 DEF ForgetPending, Save, TypeInv, TypeOK, CandidateNamed, Labels, Producing, At, Goto, Fail,
      source, destination, policy, locals
<1>15. CASE RetentionDone
  BY <1>1, <1>15 DEF RetentionDone, TypeInv, TypeOK, CandidateNamed, Labels, Producing, At, Goto, Fail,
      source, destination, policy, locals
<1>16. CASE CreateCandidate
  <2>1. PICK id \in Ids \ UsedIds :
          /\ arch' = id
          /\ files' = files \cup {[kind |-> "tmp", id |-> id, source |-> src,
                                   order |-> mem.next, inv |-> content[src],
                                   body |-> Garbled]}
    BY <1>16 DEF CreateCandidate
  <2>2. files' \subseteq File
    BY <1>1, <2>1 DEF TypeInv, TypeOK, File, BackupSetState
  <2>3. \A r \in disk.archives : r.id # id
    BY <2>1 DEF UsedIds
  <2>4. QED
    BY <1>1, <1>16, <2>1, <2>2, <2>3 DEF CreateCandidate, TypeInv, TypeOK, CandidateNamed, Labels, Producing, At, Goto, Fail,
      source, destination, policy, locals
<1>17. CASE WriteCandidate
  BY <1>1, <1>17 DEF WriteCandidate, TypeInv, TypeOK, CandidateNamed, Labels, Producing, At, Goto, Fail,
      source, destination, policy, locals, TmpOf, File
<1>18. CASE VerifyCandidate
  BY <1>1, <1>18 DEF VerifyCandidate, TypeInv, TypeOK, CandidateNamed, Labels, Producing, At, Goto, Fail,
      source, destination, policy, locals
<1>19. CASE PublishArchive
  BY <1>1, <1>19 DEF PublishArchive, TypeInv, TypeOK, CandidateNamed, Labels, Producing, At, Goto, Fail,
      source, destination, policy, locals, TmpOf, File
<1>20. CASE ConfirmArchive
  <2>1. PICK f \in ZipOf(arch) :
           Save(Extended(mem, f.body), IF logging THEN "retain" ELSE "fail")
    BY <1>20 DEF ConfirmArchive
  <2>2. f.body \in Contents \cup {Garbled}
    BY <1>1 DEF TypeInv, TypeOK, ZipOf, File
  <2>3. arch \in Ids
    BY <1>1, <1>20 DEF TypeInv, CandidateNamed, Producing, ConfirmArchive, At
  <2>4. Extended(mem, f.body) \in BackupSetState
    BY <1>1, <2>2, <2>3, ExtendedType DEF TypeInv, TypeOK
  <2>5. QED
    BY <1>1, <1>20, <2>1, <2>4 DEF ConfirmArchive, Save, TypeInv, TypeOK, CandidateNamed, Labels, Producing, At, Goto, Fail,
      source, destination, policy, locals
<1>21. CASE FinishCycle
  BY <1>1, <1>21 DEF FinishCycle, TypeInv, TypeOK, CandidateNamed, Labels, Producing, At, Goto, Fail,
      source, destination, policy, locals, ResetLocals
<1>22. CASE StepFails
  BY <1>1, <1>22 DEF StepFails, TypeInv, TypeOK, CandidateNamed, Labels, Producing, At, Goto, Fail,
      source, destination, policy, locals
<1>23. CASE ReplaceFails
  BY <1>1, <1>23 DEF ReplaceFails, TypeInv, TypeOK, CandidateNamed, Labels, Producing, At, Goto, Fail,
      source, destination, policy, locals
<1>24. CASE RollbackCandidate
  BY <1>1, <1>24 DEF RollbackCandidate, TypeInv, TypeOK, CandidateNamed, Labels, Producing, At, Goto, Fail,
      source, destination, policy, locals, ResetLocals
<1>25. CASE RollbackDestination
  BY <1>1, <1>25 DEF RollbackDestination, TypeInv, TypeOK, CandidateNamed, Labels, Producing, At, Goto, Fail,
      source, destination, policy, locals, ResetLocals
<1>26. CASE EditSource
  BY <1>1, <1>26 DEF EditSource, TypeInv, TypeOK, CandidateNamed, Labels, Producing, At, Goto, Fail,
      source, destination, policy, locals
<1>27. CASE AddForeign
  BY <1>1, <1>27 DEF AddForeign, TypeInv, TypeOK, CandidateNamed, Labels, Producing, At, Goto, Fail,
      source, destination, policy, locals, ForeignFile, File
<1>28. CASE RemoveForeign
  BY <1>1, <1>28 DEF RemoveForeign, TypeInv, TypeOK, CandidateNamed, Labels, Producing, At, Goto, Fail,
      source, destination, policy, locals
<1>29. CASE TamperArchive
  BY <1>1, <1>29 DEF TamperArchive, TypeInv, TypeOK, CandidateNamed, Labels, Producing, At, Goto, Fail,
      source, destination, policy, locals, ZipOf, File
<1>30. CASE LoseLogging
  <2>1. logging' \in BOOLEAN
    BY <1>30 DEF LoseLogging
  <2>2. QED
    BY <1>1, <1>30, <2>1 DEF LoseLogging, TypeInv, TypeOK, CandidateNamed, Labels, Producing, At, Goto, Fail,
      source, destination, policy, locals
<1>31. QED
  BY <1>1, <1>2, <1>3, <1>4, <1>5, <1>6, <1>7, <1>8, <1>9, <1>10, <1>11, <1>12, <1>13, <1>14, <1>15, <1>16, <1>17, <1>18, <1>19, <1>20, <1>21, <1>22, <1>23, <1>24, <1>25, <1>26, <1>27, <1>28, <1>29, <1>30 DEF Next, CycleStep, Environment

(* Every variable keeps its type under every disturbance.                   *)
THEOREM TypeCorrect == Spec => []TypeOK
<1>1. TypeInv => TypeOK
  BY DEF TypeInv
<1>2. QED
  BY <1>1, InitTypeInv, TypeInvInductive, PTL DEF Spec

-----------------------------------------------------------------------------
(* The inductive invariant *)

(* The document is absent or satisfies validateBackupSetState. *)
DocumentValid == disk = EmptyState \/ ValidState(disk)

(* A cycle that may save has seen that the document is of its source. *)
DocumentBound == pc \in Saving => disk.source \in {src, NoSource}

(* What the recovery removes is unrecorded and attributed to the source. *)
DoomedOwned ==
  /\ doomed # {} => pc \in {"sweep", "fail", "rmdir"}
  /\ \A f \in doomed : OwnedCandidate(f) /\ \A r \in disk.archives : f.id # r.id

(* Retention unlinks and forgets only what is recorded as pending. *)
PendingNamed == pc \in {"unlink", "forget"} => mem.pending # NoId

(* The identity in the candidate is the one its record will have, and from  *)
(* the verification on its payload is the initial inventory.                *)
Identified(f) == f.source = src /\ f.order = mem.next /\ f.inv = initial

CandidateMade ==
  /\ pc \in Producing => initial \in Contents
  /\ pc \in {"write", "verify", "publish"} => \A f \in TmpOf(arch) : Identified(f)
  /\ pc = "publish" => \A f \in TmpOf(arch) : f.body = initial
  /\ pc = "confirm" => \A f \in ZipOf(arch) : Identified(f) /\ f.body = initial

SetInv ==
  /\ TypeInv
  /\ DocumentValid /\ SavesStartFromDisk /\ DocumentBound
  /\ DoomedOwned /\ PendingNamed /\ CandidateMade

LEMMA InitSetInv == Init => SetInv
BY InitTypeInv
DEF Init, SetInv, DocumentValid, SavesStartFromDisk, DocumentBound, DoomedOwned,
    PendingNamed, CandidateMade, Saving, Producing

LEMMA MarkedFacts ==
  ASSUME NEW st \in BackupSetState, NEW r \in st.archives
  PROVE  /\ Marked(st, r).source = st.source
         /\ Marked(st, r).next = st.next
         /\ Marked(st, r).pending = r.id
         /\ r.id \in Ids
         /\ Marked(st, r).archives =
              (st.archives \ {r}) \cup {[r EXCEPT !.life = "pending"]}
BY DEF Marked, BackupSetState, Record

LEMMA ForgottenFacts ==
  ASSUME NEW st \in BackupSetState
  PROVE  /\ Forgotten(st).source = st.source
         /\ Forgotten(st).next = st.next
         /\ Forgotten(st).pending = NoId
         /\ Forgotten(st).archives = {r \in st.archives : r.id # st.pending}
BY DEF Forgotten, BackupSetState

LEMMA SetInvInductive == SetInv /\ [Next]_vars => SetInv'
<1>1. SUFFICES ASSUME SetInv, [Next]_vars PROVE SetInv'
  OBVIOUS
<1>2. TypeInv /\ TypeInv'
  BY <1>1, TypeInvInductive DEF SetInv
<1> USE SentinelAssumption
<1>3. CASE UNCHANGED vars
  BY <1>1, <1>2, <1>3 DEF SetInv, ValidState, PendingIn, vars, DocumentValid, SavesStartFromDisk, DocumentBound, DoomedOwned,
      PendingNamed, CandidateMade, Identified, OwnedCandidate, ZipOf, TmpOf, Saving,
      Producing, At, Goto, Fail, source, destination, policy, locals
<1>4. CASE Start
  BY <1>1, <1>2, <1>4 DEF Start, SetInv, DocumentValid, SavesStartFromDisk, DocumentBound, DoomedOwned,
      PendingNamed, CandidateMade, Identified, OwnedCandidate, ZipOf, TmpOf, Saving,
      Producing, At, Goto, Fail, source, destination, policy, locals
<1>5. CASE Stop
  BY <1>1, <1>2, <1>5 DEF Stop, SetInv, DocumentValid, SavesStartFromDisk, DocumentBound, DoomedOwned,
      PendingNamed, CandidateMade, Identified, OwnedCandidate, ZipOf, TmpOf, Saving,
      Producing, At, Goto, Fail, source, destination, policy, locals
<1>6. CASE Crash
  BY <1>1, <1>2, <1>6 DEF Crash, SetInv, DocumentValid, SavesStartFromDisk, DocumentBound, DoomedOwned,
      PendingNamed, CandidateMade, Identified, OwnedCandidate, ZipOf, TmpOf, Saving,
      Producing, At, Goto, Fail, source, destination, policy, locals, ResetLocals
<1>7. CASE BeginCycle
  BY <1>1, <1>2, <1>7 DEF BeginCycle, SetInv, DocumentValid, SavesStartFromDisk, DocumentBound, DoomedOwned,
      PendingNamed, CandidateMade, Identified, OwnedCandidate, ZipOf, TmpOf, Saving,
      Producing, At, Goto, Fail, source, destination, policy, locals
<1>8. CASE OpenRoots
  BY <1>1, <1>2, <1>8 DEF OpenRoots, SetInv, DocumentValid, SavesStartFromDisk, DocumentBound, DoomedOwned,
      PendingNamed, CandidateMade, Identified, OwnedCandidate, ZipOf, TmpOf, Saving,
      Producing, At, Goto, Fail, source, destination, policy, locals
<1>9. CASE Inspect
  BY <1>1, <1>2, <1>9 DEF Inspect, SetInv, DocumentValid, SavesStartFromDisk, DocumentBound, DoomedOwned,
      PendingNamed, CandidateMade, Identified, OwnedCandidate, ZipOf, TmpOf, Saving,
      Producing, At, Goto, Fail, source, destination, policy, locals
<1>10. CASE Recover
  BY <1>1, <1>2, <1>10 DEF Recover, SetInv, DocumentValid, SavesStartFromDisk, DocumentBound, DoomedOwned,
      PendingNamed, CandidateMade, Identified, OwnedCandidate, ZipOf, TmpOf, Saving,
      Producing, At, Goto, Fail, source, destination, policy, locals, Unrecorded
<1>11. CASE SweepCandidate
  BY <1>1, <1>2, <1>11 DEF SweepCandidate, SetInv, DocumentValid, SavesStartFromDisk, DocumentBound, DoomedOwned,
      PendingNamed, CandidateMade, Identified, OwnedCandidate, ZipOf, TmpOf, Saving,
      Producing, At, Goto, Fail, source, destination, policy, locals
<1>12. CASE LoadState
  BY <1>1, <1>2, <1>12 DEF LoadState, SetInv, DocumentValid, SavesStartFromDisk, DocumentBound, DoomedOwned,
      PendingNamed, CandidateMade, Identified, OwnedCandidate, ZipOf, TmpOf, Saving,
      Producing, At, Goto, Fail, source, destination, policy, locals
<1>13. CASE MarkExpired
  <2>1. PICK r \in Expired(mem, ret) : Save(Marked(mem, r), "unlink")
    BY <1>13 DEF MarkExpired
  <2>2. mem \in BackupSetState /\ r \in mem.archives
    BY <1>2 DEF TypeInv, TypeOK, Expired, ConfirmedIn
  <2>3. mem = disk /\ doomed = {} /\ disk.source \in {src, NoSource}
    BY <1>1, <1>13 DEF MarkExpired, At, SetInv, SavesStartFromDisk, DoomedOwned, DocumentBound, Saving
  <2>4. mem'.source = mem.source /\ mem'.pending # NoId
    BY <2>1, <2>2, MarkedFacts DEF Save
  <2>5. DocumentValid' /\ SavesStartFromDisk' /\ PendingNamed'
    BY <2>1, <2>4 DEF Save, DocumentValid, SavesStartFromDisk, PendingNamed, ValidState, PendingIn
  <2>6. DocumentBound' /\ DoomedOwned' /\ CandidateMade'
    BY <1>1, <1>13, <2>1, <2>3, <2>4 DEF MarkExpired, Save, DocumentBound, DoomedOwned, CandidateMade, Producing, Goto, policy
  <2>7. QED
    BY <1>2, <2>5, <2>6 DEF SetInv
<1>14. CASE UnlinkPending
  BY <1>1, <1>2, <1>14 DEF UnlinkPending, SetInv, DocumentValid, SavesStartFromDisk, DocumentBound, DoomedOwned,
      PendingNamed, CandidateMade, Identified, OwnedCandidate, ZipOf, TmpOf, Saving,
      Producing, At, Goto, Fail, source, destination, policy, locals
<1>15. CASE ForgetPending
  <2>1. Save(Forgotten(mem), "retain")
    BY <1>15 DEF ForgetPending
  <2>2. mem \in BackupSetState
    BY <1>2 DEF TypeInv, TypeOK
  <2>3. mem = disk /\ doomed = {} /\ disk.source \in {src, NoSource}
    BY <1>1, <1>15 DEF ForgetPending, At, SetInv, SavesStartFromDisk, DoomedOwned, DocumentBound, Saving
  <2>4. mem'.source = mem.source
    BY <2>1, <2>2, ForgottenFacts DEF Save
  <2>5. DocumentValid' /\ SavesStartFromDisk' /\ PendingNamed'
    BY <2>1 DEF Save, DocumentValid, SavesStartFromDisk, PendingNamed, ValidState, PendingIn, Goto
  <2>6. DocumentBound' /\ DoomedOwned' /\ CandidateMade'
    BY <1>1, <1>15, <2>1, <2>3, <2>4 DEF ForgetPending, Save, DocumentBound, DoomedOwned, CandidateMade, Producing, Goto, policy
  <2>7. QED
    BY <1>2, <2>5, <2>6 DEF SetInv
<1>16. CASE RetentionDone
  <2>1. resume \in {"create", "finish"}
    BY <1>2 DEF TypeInv, TypeOK
  <2>2. QED
    BY <1>1, <1>2, <1>16, <2>1 DEF RetentionDone, SetInv, DocumentValid, SavesStartFromDisk, DocumentBound, DoomedOwned,
      PendingNamed, CandidateMade, Identified, OwnedCandidate, ZipOf, TmpOf, Saving,
      Producing, At, Goto, Fail, source, destination, policy, locals
<1>17. CASE CreateCandidate
  <2>1. PICK id \in Ids \ UsedIds :
          /\ arch' = id
          /\ files' = files \cup {[kind |-> "tmp", id |-> id, source |-> src,
                                   order |-> mem.next, inv |-> content[src],
                                   body |-> Garbled]}
    BY <1>17 DEF CreateCandidate
  <2>2. \A f \in files : f.id # id
    BY <2>1 DEF UsedIds
  <2>3. content[src] \in Contents
    BY <1>2 DEF TypeInv, TypeOK
  <2>4. CandidateMade'
    BY <1>17, <2>1, <2>2, <2>3 DEF CreateCandidate, Goto, CandidateMade, Identified, TmpOf, Producing, policy
  <2>5. DocumentValid' /\ SavesStartFromDisk' /\ DocumentBound' /\ DoomedOwned' /\ PendingNamed'
    BY <1>1, <1>17 DEF CreateCandidate, SetInv, ValidState, PendingIn, DocumentValid, SavesStartFromDisk, DocumentBound, DoomedOwned,
      PendingNamed, CandidateMade, Identified, OwnedCandidate, ZipOf, TmpOf, Saving,
      Producing, At, Goto, Fail, source, destination, policy, locals
  <2>6. QED
    BY <1>2, <2>4, <2>5 DEF SetInv
<1>18. CASE WriteCandidate
  <2>1. DocumentValid' /\ SavesStartFromDisk' /\ DocumentBound' /\ DoomedOwned' /\ PendingNamed'
    BY <1>1, <1>18 DEF WriteCandidate, SetInv, ValidState, PendingIn, DocumentValid, SavesStartFromDisk, DocumentBound, DoomedOwned,
      PendingNamed, CandidateMade, Identified, OwnedCandidate, ZipOf, TmpOf, Saving,
      Producing, At, Goto, Fail, source, destination, policy, locals
  <2>2. pc = "write" /\ pc' \in {"verify", "fail"} /\ UNCHANGED <<arch, src, mem, initial>>
    BY <1>18 DEF WriteCandidate, At, Goto, Fail, policy, locals
  <2>3. ASSUME NEW g \in TmpOf(arch)', pc' = "verify" PROVE Identified(g)'
    <3>1. PICK f \in TmpOf(arch) : \E b : files' = (files \ {f}) \cup {[f EXCEPT !.body = b]}
      BY <1>18, <2>3 DEF WriteCandidate, Fail, Goto
    <3>2. PICK b : files' = (files \ {f}) \cup {[f EXCEPT !.body = b]}
      BY <3>1
    <3>3. f \in File /\ Identified(f)
      BY <1>1, <1>2, <2>2 DEF SetInv, CandidateMade, TypeInv, TypeOK, TmpOf
    <3>4. CASE g = [f EXCEPT !.body = b]
      BY <2>2, <3>3, <3>4 DEF File, Identified
    <3>5. CASE g \in files
      BY <1>1, <2>2, <2>3, <3>5 DEF SetInv, CandidateMade, TmpOf, Identified
    <3>6. QED
      BY <2>3, <3>2, <3>4, <3>5 DEF TmpOf
  <2>4. CandidateMade'
    BY <1>1, <2>2, <2>3 DEF SetInv, CandidateMade, Producing
  <2>5. QED
    BY <1>2, <2>1, <2>4 DEF SetInv
<1>19. CASE VerifyCandidate
  BY <1>1, <1>2, <1>19 DEF VerifyCandidate, SetInv, DocumentValid, SavesStartFromDisk, DocumentBound, DoomedOwned,
      PendingNamed, CandidateMade, Identified, OwnedCandidate, ZipOf, TmpOf, Saving,
      Producing, At, Goto, Fail, source, destination, policy, locals
<1>20. CASE PublishArchive
  <2>1. DocumentValid' /\ SavesStartFromDisk' /\ DocumentBound' /\ DoomedOwned' /\ PendingNamed'
    BY <1>1, <1>20 DEF PublishArchive, SetInv, ValidState, PendingIn, DocumentValid, SavesStartFromDisk, DocumentBound, DoomedOwned,
      PendingNamed, CandidateMade, Identified, OwnedCandidate, ZipOf, TmpOf, Saving,
      Producing, At, Goto, Fail, source, destination, policy, locals
  <2>2. pc = "publish" /\ pc' = "confirm" /\ UNCHANGED <<arch, src, mem, initial>>
    BY <1>20 DEF PublishArchive, At, Goto, policy, locals
  <2>3. PICK f \in TmpOf(arch) : files' = (files \ {f}) \cup {[f EXCEPT !.kind = "zip"]}
    BY <1>20 DEF PublishArchive
  <2>4. f \in File /\ Identified(f) /\ f.body = initial
    BY <1>1, <1>2, <2>2 DEF SetInv, CandidateMade, TypeInv, TypeOK, TmpOf
  <2>5. ASSUME NEW g \in ZipOf(arch)' PROVE Identified(g)' /\ g.body = initial
    <3>1. g \in files' /\ g.kind = "zip" /\ g.id = arch
      BY <2>2, <2>5 DEF ZipOf
    <3>2. g \notin files
      BY <1>20, <3>1 DEF PublishArchive, ZipOf
    <3>3. g = [f EXCEPT !.kind = "zip"]
      BY <2>3, <3>1, <3>2
    <3>4. QED
      BY <2>2, <2>4, <3>3 DEF File, Identified
  <2>6. CandidateMade'
    BY <1>1, <2>2, <2>5 DEF SetInv, CandidateMade, Producing
  <2>7. QED
    BY <1>2, <2>1, <2>6 DEF SetInv
<1>21. CASE ConfirmArchive
  <2>1. PICK f \in ZipOf(arch) :
           Save(Extended(mem, f.body), IF logging THEN "retain" ELSE "fail")
    BY <1>21 DEF ConfirmArchive
  <2>2. mem'.source = src /\ doomed = {} /\ pc' \in {"retain", "fail"}
    BY <1>1, <1>21, <2>1 DEF ConfirmArchive, At, Save, Goto, Extended, SetInv, DoomedOwned
  <2>3. DocumentValid' /\ SavesStartFromDisk' /\ PendingNamed'
    BY <2>1, <2>2 DEF Save, DocumentValid, SavesStartFromDisk, PendingNamed, ValidState, PendingIn
  <2>4. DocumentBound' /\ DoomedOwned' /\ CandidateMade'
    BY <1>21, <2>1, <2>2 DEF ConfirmArchive, Save, DocumentBound, DoomedOwned, CandidateMade, Producing, policy
  <2>5. QED
    BY <1>2, <2>3, <2>4 DEF SetInv
<1>22. CASE FinishCycle
  BY <1>1, <1>2, <1>22 DEF FinishCycle, SetInv, DocumentValid, SavesStartFromDisk, DocumentBound, DoomedOwned,
      PendingNamed, CandidateMade, Identified, OwnedCandidate, ZipOf, TmpOf, Saving,
      Producing, At, Goto, Fail, source, destination, policy, locals, ResetLocals
<1>23. CASE StepFails
  BY <1>1, <1>2, <1>23 DEF StepFails, SetInv, DocumentValid, SavesStartFromDisk, DocumentBound, DoomedOwned,
      PendingNamed, CandidateMade, Identified, OwnedCandidate, ZipOf, TmpOf, Saving,
      Producing, At, Goto, Fail, source, destination, policy, locals
<1>24. CASE ReplaceFails
  BY <1>1, <1>2, <1>24 DEF ReplaceFails, SetInv, DocumentValid, SavesStartFromDisk, DocumentBound, DoomedOwned,
      PendingNamed, CandidateMade, Identified, OwnedCandidate, ZipOf, TmpOf, Saving,
      Producing, At, Goto, Fail, source, destination, policy, locals, EmptyState
<1>25. CASE RollbackCandidate
  BY <1>1, <1>2, <1>25 DEF RollbackCandidate, SetInv, DocumentValid, SavesStartFromDisk, DocumentBound, DoomedOwned,
      PendingNamed, CandidateMade, Identified, OwnedCandidate, ZipOf, TmpOf, Saving,
      Producing, At, Goto, Fail, source, destination, policy, locals, ResetLocals
<1>26. CASE RollbackDestination
  BY <1>1, <1>2, <1>26 DEF RollbackDestination, SetInv, DocumentValid, SavesStartFromDisk, DocumentBound, DoomedOwned,
      PendingNamed, CandidateMade, Identified, OwnedCandidate, ZipOf, TmpOf, Saving,
      Producing, At, Goto, Fail, source, destination, policy, locals, ResetLocals
<1>27. CASE EditSource
  BY <1>1, <1>2, <1>27 DEF EditSource, SetInv, DocumentValid, SavesStartFromDisk, DocumentBound, DoomedOwned,
      PendingNamed, CandidateMade, Identified, OwnedCandidate, ZipOf, TmpOf, Saving,
      Producing, At, Goto, Fail, source, destination, policy, locals
<1>28. CASE AddForeign
  BY <1>1, <1>2, <1>28 DEF AddForeign, SetInv, DocumentValid, SavesStartFromDisk, DocumentBound, DoomedOwned,
      PendingNamed, CandidateMade, Identified, OwnedCandidate, ZipOf, TmpOf, Saving,
      Producing, At, Goto, Fail, source, destination, policy, locals, ForeignFile
<1>29. CASE RemoveForeign
  BY <1>1, <1>2, <1>29 DEF RemoveForeign, SetInv, DocumentValid, SavesStartFromDisk, DocumentBound, DoomedOwned,
      PendingNamed, CandidateMade, Identified, OwnedCandidate, ZipOf, TmpOf, Saving,
      Producing, At, Goto, Fail, source, destination, policy, locals, ForeignFile
<1>30. CASE TamperArchive
  <2>1. DocumentValid' /\ SavesStartFromDisk' /\ DocumentBound' /\ DoomedOwned' /\ PendingNamed'
    BY <1>1, <1>30 DEF TamperArchive, SetInv, ValidState, PendingIn, DocumentValid, SavesStartFromDisk, DocumentBound, DoomedOwned,
      PendingNamed, CandidateMade, Identified, OwnedCandidate, ZipOf, TmpOf, Saving,
      Producing, At, Goto, Fail, source, destination, policy, locals
  <2>2. UNCHANGED <<pc, arch, src, mem, initial, disk>>
    BY <1>30 DEF TamperArchive, policy, locals
  <2>3. PICK r \in disk.archives : \E f \in ZipOf(r.id) :
           \/ files' = files \ {f}
           \/ files' = (files \ {f}) \cup {[f EXCEPT !.body = Garbled]}
    BY <1>30 DEF TamperArchive
  <2>4. PICK f \in ZipOf(r.id) : files' \subseteq files \cup {[f EXCEPT !.body = Garbled]}
    BY <2>3
  <2>5. f \in File /\ f.kind = "zip" /\ f.id = r.id
    BY <1>2 DEF TypeInv, TypeOK, ZipOf
  <2>6. pc \in Producing => TmpOf(arch)' \subseteq TmpOf(arch) /\ ZipOf(arch)' \subseteq ZipOf(arch)
    BY <1>2, <2>2, <2>4, <2>5 DEF TypeInv, CandidateNamed, TmpOf, ZipOf, File
  <2>7. CandidateMade'
    BY <1>1, <2>2, <2>6 DEF SetInv, CandidateMade, Producing, Identified
  <2>8. QED
    BY <1>2, <2>1, <2>7 DEF SetInv
<1>31. CASE LoseLogging
  BY <1>1, <1>2, <1>31 DEF LoseLogging, SetInv, DocumentValid, SavesStartFromDisk, DocumentBound, DoomedOwned,
      PendingNamed, CandidateMade, Identified, OwnedCandidate, ZipOf, TmpOf, Saving,
      Producing, At, Goto, Fail, source, destination, policy, locals
<1>32. QED
  BY <1>1, <1>3, <1>4, <1>5, <1>6, <1>7, <1>8, <1>9, <1>10, <1>11, <1>12, <1>13, <1>14, <1>15, <1>16, <1>17, <1>18, <1>19, <1>20, <1>21, <1>22, <1>23, <1>24, <1>25, <1>26, <1>27, <1>28, <1>29, <1>30, <1>31 DEF Next, CycleStep, Environment

THEOREM SetInvariant == Spec => []SetInv
BY InitSetInv, SetInvInductive, PTL DEF Spec

-----------------------------------------------------------------------------
(* Confirmed versions stay restorable *)

(* A step that keeps the archives of the records it keeps, and confirms     *)
(* nothing new, keeps the history intact.                                   *)
LEMMA ArchivesKept ==
  ASSUME HistoryIntact,
         tampered' = tampered,
         disk'.source = disk.source,
         ConfirmedIn(disk') \subseteq ConfirmedIn(disk),
         \A r \in ConfirmedIn(disk'), f \in files :
            f.kind = "zip" /\ f.id = r.id => f \in files'
  PROVE  HistoryIntact'
BY DEF HistoryIntact, Restorable, RecordValid, ZipOf

LEMMA HistoryInductive == SetInv /\ HistoryIntact /\ [Next]_vars => HistoryIntact'
<1>1. SUFFICES ASSUME SetInv, HistoryIntact, [Next]_vars PROVE HistoryIntact'
  OBVIOUS
<1> USE SentinelAssumption
<1>2. disk \in BackupSetState /\ mem \in BackupSetState /\ files \subseteq File
  BY <1>1 DEF SetInv, TypeInv, TypeOK
<1>3. \A r \in ConfirmedIn(disk) : r \in disk.archives /\ r.id \in Ids
  BY <1>2 DEF ConfirmedIn, BackupSetState, Record
<1>4. ASSUME UNCHANGED <<files, disk, tampered>> PROVE HistoryIntact'
  BY <1>1, <1>4 DEF HistoryIntact, Restorable, RecordValid, ZipOf
<1>5. CASE UNCHANGED vars
  BY <1>4, <1>5 DEF vars, destination
<1>6. CASE Start \/ Stop \/ Crash \/ BeginCycle \/ EditSource \/ LoseLogging
  BY <1>4, <1>6 DEF Start, Stop, Crash, BeginCycle, EditSource, LoseLogging, destination
<1>7. CASE OpenRoots \/ Inspect \/ Recover \/ LoadState \/ RetentionDone
           \/ VerifyCandidate \/ FinishCycle \/ StepFails \/ RollbackDestination
  BY <1>4, <1>7 DEF OpenRoots, Inspect, Recover, LoadState, RetentionDone, VerifyCandidate,
     FinishCycle, StepFails, RollbackDestination, destination
<1>8. CASE SweepCandidate
  <2>1. PICK f \in doomed : files' = files \ {f}
    BY <1>8 DEF SweepCandidate
  <2>2. \A r \in disk.archives : f.id # r.id
    BY <1>1 DEF SetInv, DoomedOwned
  <2>3. QED
    BY <1>1, <1>3, <1>8, <2>1, <2>2, ArchivesKept DEF SweepCandidate
<1>9. CASE MarkExpired
  <2>1. PICK r \in Expired(mem, ret) : Save(Marked(mem, r), "unlink")
    BY <1>9 DEF MarkExpired
  <2>2. r \in mem.archives /\ mem = disk
    BY <1>1, <1>9 DEF MarkExpired, At, SetInv, SavesStartFromDisk, Saving, Expired, ConfirmedIn
  <2>3. disk'.source = disk.source /\ ConfirmedIn(disk') \subseteq ConfirmedIn(disk)
    <3>1. disk' = Marked(disk, r)
      BY <2>1, <2>2 DEF Save
    <3> DEFINE q == [r EXCEPT !.life = "pending"]
    <3>2. q.life # "confirmed"
      BY <1>2, <2>2 DEF BackupSetState, Record
    <3>3. disk'.source = disk.source /\ disk'.archives = (disk.archives \ {r}) \cup {q}
      BY <1>2, <2>2, <3>1, MarkedFacts
    <3> HIDE DEF q
    <3>4. QED
      BY <3>2, <3>3 DEF ConfirmedIn
  <2>4. QED
    BY <1>1, <1>9, <2>3, ArchivesKept DEF MarkExpired, destination
<1>10. CASE UnlinkPending
  <2>1. mem = disk
    BY <1>1, <1>10 DEF UnlinkPending, At, SetInv, SavesStartFromDisk, Saving
  <2>2. \A r \in ConfirmedIn(disk) : r.id # mem.pending
    <3>1. CASE disk = EmptyState
      BY <3>1 DEF EmptyState, ConfirmedIn
    <3>2. CASE ValidState(disk)
      BY <1>3, <2>1, <3>2 DEF ValidState, ConfirmedIn, PendingIn
    <3>3. QED
      BY <1>1, <3>1, <3>2 DEF SetInv, DocumentValid
  <2>3. QED
    BY <1>1, <1>10, <2>2, ArchivesKept DEF UnlinkPending, ZipOf
<1>11. CASE ForgetPending
  <2>1. mem = disk /\ disk' = Forgotten(mem)
    BY <1>1, <1>11 DEF ForgetPending, Save, At, SetInv, SavesStartFromDisk, Saving
  <2>2. disk'.source = disk.source /\ ConfirmedIn(disk') \subseteq ConfirmedIn(disk)
    BY <1>2, <2>1, ForgottenFacts DEF ConfirmedIn
  <2>3. QED
    BY <1>1, <1>11, <2>2, ArchivesKept DEF ForgetPending, destination
<1>12. CASE CreateCandidate \/ AddForeign
  BY <1>1, <1>12, ArchivesKept DEF CreateCandidate, AddForeign
<1>13. CASE WriteCandidate \/ PublishArchive
  <2>1. \E f \in TmpOf(arch) : files \ {f} \subseteq files'
    BY <1>13 DEF WriteCandidate, PublishArchive
  <2>2. QED
    BY <1>1, <1>13, <2>1, ArchivesKept DEF WriteCandidate, PublishArchive, TmpOf
<1>14. CASE RollbackCandidate \/ RemoveForeign
  BY <1>1, <1>14, ArchivesKept DEF RollbackCandidate, RemoveForeign, TmpOf, ForeignFile
<1>15. CASE ConfirmArchive
  <2>1. PICK f \in ZipOf(arch) :
           Save(Extended(mem, f.body), IF logging THEN "retain" ELSE "fail")
    BY <1>15 DEF ConfirmArchive
  <2>2. pc = "confirm" /\ UNCHANGED <<files, tampered>>
    BY <1>15 DEF ConfirmArchive, At, destination
  <2>3. /\ mem = disk /\ disk.source \in {src, NoSource}
        /\ initial \in Contents /\ Identified(f) /\ f.body = initial
    BY <1>1, <2>2 DEF SetInv, SavesStartFromDisk, DocumentBound, CandidateMade, Saving, Producing
  <2>4. disk'.source = src /\ disk'.archives = disk.archives \cup {NewRecord(mem, f.body)}
    BY <2>1, <2>3 DEF Save, Extended
  <2>5. CASE tampered
    BY <2>2, <2>5 DEF HistoryIntact
  <2>6. CASE ~tampered
    <3>1. SUFFICES ASSUME NEW r \in ConfirmedIn(disk') PROVE Restorable(r)'
      BY DEF HistoryIntact
    <3>2. CASE r = NewRecord(mem, f.body)
      BY <2>1, <2>2, <2>3, <2>4, <3>2 DEF Restorable, RecordValid, Attests, NewRecord, Identified, ZipOf
    <3>3. CASE r \in ConfirmedIn(disk)
      <4>1. disk.source = src
        BY <1>1, <2>3, <3>3 DEF SetInv, DocumentValid, EmptyState, ConfirmedIn, ValidState
      <4>2. Restorable(r)
        BY <1>1, <2>6, <3>3 DEF HistoryIntact
      <4>3. QED
        BY <2>2, <2>4, <4>1, <4>2 DEF Restorable, RecordValid, ZipOf
    <3>4. QED
      BY <2>4, <3>1, <3>2, <3>3 DEF ConfirmedIn
  <2>7. QED
    BY <2>5, <2>6
<1>16. CASE ReplaceFails
  BY <1>16 DEF ReplaceFails, EmptyState, HistoryIntact, ConfirmedIn
<1>17. CASE TamperArchive
  BY <1>17 DEF TamperArchive, HistoryIntact
<1>18. QED
  BY <1>1, <1>5, <1>6, <1>7, <1>8, <1>9, <1>10, <1>11, <1>12, <1>13, <1>14, <1>15,
     <1>16, <1>17 DEF Next, CycleStep, Environment

(* RF-24: until a user damages the set, every confirmed version has an      *)
(* archive in the destination that passes inspection and holds the          *)
(* inventory it was made for, under every crash, failure and edit.          *)
THEOREM HistoryStaysIntact == Spec => []HistoryIntact
<1>1. Init => HistoryIntact
  BY DEF Init, HistoryIntact, ConfirmedIn, EmptyState
<1>2. QED
  BY <1>1, HistoryInductive, SetInvariant, PTL DEF Spec

-----------------------------------------------------------------------------
(* What the cycle saves *)

LEMMA MarkedIsValid ==
  ASSUME NEW st \in BackupSetState, ValidState(st), st.pending = NoId,
         NEW r \in ConfirmedIn(st)
  PROVE  ValidState(Marked(st, r))
<1> DEFINE q == [r EXCEPT !.life = "pending"]
           new == Marked(st, r)
<1>1. r \in st.archives /\ r \in Record
  BY DEF ConfirmedIn, BackupSetState
<1>2. q.id = r.id /\ q.order = r.order /\ q.life = "pending"
  BY <1>1 DEF Record
<1>3. /\ new.source = st.source /\ new.next = st.next /\ new.pending = r.id
      /\ new.archives = (st.archives \ {r}) \cup {q}
  BY <1>1, MarkedFacts
<1>4. PendingIn(st) = {}
  BY SentinelAssumption DEF ValidState, PendingIn, BackupSetState, Record
<1> HIDE DEF q, new
<1>5. ValidState(new)
  BY <1>1, <1>2, <1>3, <1>4 DEF ValidState, PendingIn
<1>6. QED
  BY <1>5 DEF new

LEMMA ForgottenIsValid ==
  ASSUME NEW st \in BackupSetState, ValidState(st), st.pending # NoId
  PROVE  ValidState(Forgotten(st))
<1> DEFINE new == Forgotten(st)
<1>1. /\ new.source = st.source /\ new.next = st.next /\ new.pending = NoId
      /\ new.archives = {r \in st.archives : r.id # st.pending}
  BY ForgottenFacts
<1> HIDE DEF new
<1>2. ValidState(new)
  BY <1>1 DEF ValidState, PendingIn
<1>3. QED
  BY <1>2 DEF new

LEMMA ExtendedIsValid ==
  ASSUME NEW st \in BackupSetState, st = EmptyState \/ ValidState(st),
         src \in Sources, \A r \in st.archives : r.id # arch, NEW d
  PROVE  ValidState(Extended(st, d))
<1> DEFINE new == Extended(st, d)
           n == NewRecord(st, d)
<1>1. /\ new.source = src /\ new.next = st.next + 1 /\ new.pending = st.pending
      /\ new.archives = st.archives \cup {n}
  BY DEF Extended
<1>2. n.id = arch /\ n.order = st.next /\ n.life = "confirmed"
  BY DEF NewRecord
<1>3. /\ st.next \in Nat /\ 0 < st.next
      /\ \A r \in st.archives : r.order \in Nat /\ 0 < r.order /\ r.order < st.next
  BY DEF BackupSetState, Record, EmptyState, ValidState
<1>4. /\ \A r, q \in st.archives : r.id = q.id \/ r.order = q.order => r = q
      /\ \A r \in PendingIn(st) : st.pending = r.id
      /\ st.pending # NoId => \E r \in PendingIn(st) : r.id = st.pending
  BY DEF EmptyState, ValidState, PendingIn
<1>5. PendingIn(new) = PendingIn(st)
  BY <1>1, <1>2 DEF PendingIn
<1> HIDE DEF new, n
<1>6. src # NoSource
  BY SentinelAssumption
<1>7. \A r \in new.archives : 0 < r.order /\ r.order < new.next
  BY <1>1, <1>2, <1>3
<1>8. \A r, q \in new.archives : r.id = q.id \/ r.order = q.order => r = q
  <2>1. \A r \in st.archives : r.id # n.id /\ r.order # n.order
    BY <1>2, <1>3
  <2>2. QED
    BY <1>1, <1>4, <2>1
<1>9. ValidState(new)
  BY <1>1, <1>3, <1>4, <1>5, <1>6, <1>7, <1>8 DEF ValidState
<1>10. QED
  BY <1>9 DEF new

(* backup_set_state.go:502 never refuses a document of the cycle, so no     *)
(* removal is left recorded because its completion could not be written.    *)
THEOREM SavesAreAccepted == Spec => []NextSaveIsValid
<1>1. ASSUME SetInv PROVE NextSaveIsValid
  <2>1. mem \in BackupSetState /\ src \in Sources
    BY <1>1 DEF SetInv, TypeInv, TypeOK
  <2>2. pc \in Saving => mem = disk /\ (mem = EmptyState \/ ValidState(mem))
    BY <1>1 DEF SetInv, SavesStartFromDisk, DocumentValid
  <2>3. ASSUME At("confirm"), NEW f \in ZipOf(arch) PROVE ValidState(Extended(mem, f.body))
    BY <1>1, <2>1, <2>2, <2>3, ExtendedIsValid
    DEF SetInv, TypeInv, CandidateNamed, At, Saving, Producing
  <2>4. ASSUME At("retain"), mem.pending = NoId, NEW r \in Expired(mem, ret)
        PROVE  ValidState(Marked(mem, r))
    <3>1. r \in ConfirmedIn(mem) /\ mem # EmptyState
      BY <2>4 DEF Expired, ConfirmedIn, EmptyState
    <3>2. QED
      BY <2>1, <2>2, <2>4, <3>1, MarkedIsValid DEF At, Saving
  <2>5. ASSUME At("forget") PROVE ValidState(Forgotten(mem))
    <3>1. mem.pending # NoId /\ mem # EmptyState
      BY <1>1, <2>5 DEF SetInv, PendingNamed, At, EmptyState
    <3>2. QED
      BY <2>1, <2>2, <2>5, <3>1, ForgottenIsValid DEF At, Saving
  <2>6. QED
    BY <2>3, <2>4, <2>5 DEF NextSaveIsValid
<1>2. QED
  BY <1>1, SetInvariant, PTL

(* No save of a cycle undoes an earlier one. *)
THEOREM MemoryFollowsDocument == Spec => []SavesStartFromDisk
<1>1. SetInv => SavesStartFromDisk
  BY DEF SetInv
<1>2. QED
  BY <1>1, SetInvariant, PTL

-----------------------------------------------------------------------------
(* What a step may never do *)

(* Only a save and a broken replacement change the document. *)
LEMMA DocumentSteps ==
  ASSUME [Next]_vars
  PROVE  UNCHANGED disk \/ MarkExpired \/ ForgetPending \/ ConfirmArchive \/ ReplaceFails
BY DEF Next, CycleStep, Environment, vars, Start, Stop, Crash, BeginCycle, OpenRoots,
       Inspect, Recover, SweepCandidate, LoadState, UnlinkPending, RetentionDone,
       CreateCandidate, WriteCandidate, VerifyCandidate, PublishArchive, FinishCycle,
       StepFails, RollbackCandidate, RollbackDestination, EditSource, AddForeign,
       RemoveForeign, TamperArchive, LoseLogging

(* RF-15: a cycle removes only unrecorded archives of its own source, its   *)
(* own temporary file and the archive recorded as pending removal.          *)
THEOREM RemovesOnlyItsOwn == Spec => OnlyOwnFilesRemoved
<1> DEFINE Allowed(f) == \/ f.kind = "tmp" /\ f.id = arch
                         \/ f.kind = "zip" /\ f.source = src /\ f \in Unrecorded
                         \/ f.kind = "zip" /\ f.id = disk.pending
<1>1. ASSUME SetInv, CycleStep, NEW f \in RemovedByCycle PROVE Allowed(f)
  <2>1. f \in files /\ f \notin files'
    BY <1>1 DEF RemovedByCycle
  <2>2. CASE SweepCandidate
    <3>1. f \in doomed
      BY <2>1, <2>2 DEF SweepCandidate
    <3>2. QED
      BY <1>1, <2>1, <3>1 DEF SetInv, DoomedOwned, OwnedCandidate, Unrecorded, ZipOf
  <2>3. CASE UnlinkPending
    BY <1>1, <2>1, <2>3 DEF UnlinkPending, At, SetInv, SavesStartFromDisk, Saving, ZipOf
  <2>4. CASE WriteCandidate \/ PublishArchive \/ RollbackCandidate
    BY <2>1, <2>4 DEF WriteCandidate, PublishArchive, RollbackCandidate, TmpOf
  <2>5. CASE OpenRoots \/ Inspect \/ Recover \/ LoadState \/ MarkExpired \/ ForgetPending
             \/ RetentionDone \/ CreateCandidate \/ VerifyCandidate \/ ConfirmArchive
             \/ FinishCycle \/ StepFails \/ ReplaceFails \/ RollbackDestination
    BY <2>1, <2>5 DEF OpenRoots, Inspect, Recover, LoadState, MarkExpired, ForgetPending,
       RetentionDone, CreateCandidate, VerifyCandidate, ConfirmArchive, FinishCycle,
       StepFails, ReplaceFails, RollbackDestination, destination
  <2>6. QED
    BY <1>1, <2>2, <2>3, <2>4, <2>5 DEF CycleStep
<1>2. SetInv /\ [Next]_vars => [CycleStep => \A f \in RemovedByCycle : Allowed(f)]_vars
  BY <1>1
<1>3. QED
  BY <1>2, SetInvariant, PTL DEF Spec, OnlyOwnFilesRemoved

(* RF-14: while the document can be replaced, a destination stays bound.    *)
THEOREM BindingHolds ==
  ASSUME "replace" \notin Faults
  PROVE  Spec => BindingStable
<1>1. ASSUME SetInv, [Next]_vars PROVE Missing(disk) \/ disk'.source = disk.source
  <2>1. mem \in BackupSetState /\ (pc \in Saving => mem = disk /\ disk.source \in {src, NoSource})
    BY <1>1 DEF SetInv, TypeInv, TypeOK, SavesStartFromDisk, DocumentBound
  <2>2. CASE UNCHANGED disk
    BY <2>2
  <2>3. CASE MarkExpired
    <3>1. PICK r \in Expired(mem, ret) : Save(Marked(mem, r), "unlink")
      BY <2>3 DEF MarkExpired
    <3>2. r \in mem.archives
      BY DEF Expired, ConfirmedIn
    <3>3. QED
      BY <2>1, <2>3, <3>1, <3>2, MarkedFacts DEF MarkExpired, At, Save, Saving
  <2>4. CASE ForgetPending
    BY <2>1, <2>4, ForgottenFacts DEF ForgetPending, At, Save, Saving
  <2>5. CASE ConfirmArchive
    BY <2>1, <2>5 DEF ConfirmArchive, At, Save, Saving, Extended, Missing
  <2>6. QED
    <3>1. ~ReplaceFails
      BY DEF ReplaceFails
    <3>2. QED
      BY <1>1, <2>2, <2>3, <2>4, <2>5, <3>1, DocumentSteps
<1>2. SetInv /\ [Next]_vars => [Missing(disk) \/ disk'.source = disk.source]_vars
  BY <1>1
<1>3. QED
  BY <1>2, SetInvariant, PTL DEF Spec, BindingStable

-----------------------------------------------------------------------------
(* The history of versions                                                  *)

(* The document lists finitely many versions. *)
FiniteInv == IsFiniteSet(disk.archives)

LEMMA MarkedFinite ==
  ASSUME NEW st \in BackupSetState, IsFiniteSet(st.archives), NEW r \in st.archives
  PROVE  IsFiniteSet(Marked(st, r).archives)
<1>1. IsFiniteSet(st.archives \ {r})
  BY FS_RemoveElement
<1>2. IsFiniteSet((st.archives \ {r}) \cup {[r EXCEPT !.life = "pending"]})
  BY <1>1, FS_AddElement
<1>3. QED
  BY <1>2, MarkedFacts

LEMMA ForgottenFinite ==
  ASSUME NEW st \in BackupSetState, IsFiniteSet(st.archives)
  PROVE  IsFiniteSet(Forgotten(st).archives)
<1>1. Forgotten(st).archives \in SUBSET st.archives
  BY ForgottenFacts
<1>2. QED
  BY <1>1, FS_Subset

LEMMA ExtendedFinite ==
  ASSUME NEW st, IsFiniteSet(st.archives), NEW d
  PROVE  IsFiniteSet(Extended(st, d).archives)
<1>1. IsFiniteSet(st.archives \cup {NewRecord(st, d)})
  BY FS_AddElement
<1>2. QED
  BY <1>1 DEF Extended

LEMMA FiniteInductive == SetInv /\ FiniteInv /\ [Next]_vars => FiniteInv'
<1>1. SUFFICES ASSUME SetInv, FiniteInv, [Next]_vars PROVE FiniteInv'
  OBVIOUS
<1>2. disk \in BackupSetState /\ (pc \in Saving => mem = disk)
  BY <1>1 DEF SetInv, TypeInv, TypeOK, SavesStartFromDisk
<1>3. CASE UNCHANGED disk
  BY <1>1, <1>3 DEF FiniteInv
<1>4. CASE MarkExpired
  <2>1. PICK r \in Expired(mem, ret) : Save(Marked(mem, r), "unlink")
    BY <1>4 DEF MarkExpired
  <2>2. mem = disk /\ r \in disk.archives /\ disk' = Marked(disk, r)
    BY <1>2, <1>4, <2>1 DEF MarkExpired, At, Saving, Save, Expired, ConfirmedIn
  <2>3. QED
    BY <1>1, <1>2, <2>2, MarkedFinite DEF FiniteInv
<1>5. CASE ForgetPending
  <2>1. disk' = Forgotten(disk)
    BY <1>2, <1>5 DEF ForgetPending, At, Saving, Save
  <2>2. QED
    BY <1>1, <1>2, <2>1, ForgottenFinite DEF FiniteInv
<1>6. CASE ConfirmArchive
  <2>1. \E f \in ZipOf(arch) : disk' = Extended(disk, f.body)
    BY <1>2, <1>6 DEF ConfirmArchive, At, Saving, Save
  <2>2. QED
    BY <1>1, <2>1, ExtendedFinite DEF FiniteInv
<1>7. CASE ReplaceFails
  BY <1>7, FS_EmptySet DEF ReplaceFails, EmptyState, FiniteInv
<1>8. QED
  BY <1>1, <1>3, <1>4, <1>5, <1>6, <1>7, DocumentSteps

(* An expired version of least order is the oldest confirmed version. *)
LEMMA OldestExpires ==
  ASSUME NEW st \in BackupSetState, IsFiniteSet(st.archives), NEW n \in Nat,
         NEW r \in Expired(st, n), \A q \in Expired(st, n) : r.order <= q.order,
         NEW w \in ConfirmedIn(st)
  PROVE  r.order <= w.order
<1> DEFINE Newer(v) == {q \in ConfirmedIn(st) : q.order > v.order}
<1>1. r \in ConfirmedIn(st) /\ Cardinality(Newer(r)) >= n
  BY DEF Expired
<1>2. r.order \in Nat /\ \A q \in ConfirmedIn(st) : q.order \in Nat
  BY <1>1 DEF ConfirmedIn, BackupSetState, Record
<1>3. SUFFICES ASSUME w.order < r.order PROVE w \in Expired(st, n)
  BY <1>2
<1>4. Newer(r) \in SUBSET Newer(w)
  BY <1>2, <1>3
<1>5. IsFiniteSet(Newer(w))
  <2>1. Newer(w) \in SUBSET st.archives
    BY DEF ConfirmedIn
  <2>2. QED
    BY <2>1, FS_Subset
<1>6. /\ Cardinality(Newer(r)) <= Cardinality(Newer(w)) /\ IsFiniteSet(Newer(r))
  BY <1>4, <1>5, FS_Subset
<1>7. Cardinality(Newer(r)) \in Nat /\ Cardinality(Newer(w)) \in Nat
  BY <1>5, <1>6, FS_CardinalityType
<1>8. Cardinality(Newer(w)) >= n
  BY <1>1, <1>6, <1>7
<1>9. QED
  BY <1>8 DEF Expired

(* What the three saves do to the confirmed versions. *)
LEMMA MarkedConfirmed ==
  ASSUME NEW st \in BackupSetState, NEW r \in ConfirmedIn(st)
  PROVE  ConfirmedIn(Marked(st, r)) = ConfirmedIn(st) \ {r}
<1> DEFINE q == [r EXCEPT !.life = "pending"]
<1>1. r \in st.archives /\ q.life # "confirmed"
  BY DEF ConfirmedIn, BackupSetState, Record
<1>2. Marked(st, r).archives = (st.archives \ {r}) \cup {q}
  BY <1>1, MarkedFacts
<1> HIDE DEF q
<1>3. QED
  BY <1>1, <1>2 DEF ConfirmedIn

LEMMA ForgottenConfirmed ==
  ASSUME NEW st \in BackupSetState, ValidState(st), st.pending # NoId
  PROVE  ConfirmedIn(Forgotten(st)) = ConfirmedIn(st)
<1>1. \A r \in ConfirmedIn(st) : r.id # st.pending
  BY DEF ValidState, ConfirmedIn, PendingIn
<1>2. Forgotten(st).archives = {r \in st.archives : r.id # st.pending}
  BY ForgottenFacts
<1>3. QED
  BY <1>1, <1>2 DEF ConfirmedIn

LEMMA ExtendedConfirmed ==
  ASSUME NEW st, NEW d
  PROVE  ConfirmedIn(Extended(st, d)) = ConfirmedIn(st) \cup {NewRecord(st, d)}
BY DEF Extended, NewRecord, ConfirmedIn

(* The abstract module counts with the same Cardinality. *)
LEMMA HistoryCounts == \A S : History!Cardinality(S) = Cardinality(S)
BY DEF History!Cardinality, Cardinality

(* RF-28 to RF-30: as long as the replacement of the document works, every  *)
(* step of a cycle, of a user and of a crash is a step of the history that  *)
(* only grows above its newest version and only loses its oldest.           *)
THEOREM HistoryIsRefined ==
  ASSUME "replace" \notin Faults
  PROVE  Spec => HistoryRefined
<1>1. Init => History!Init
  BY DEF Init, History!Init, EmptyState, ConfirmedIn
<1>2. ASSUME SetInv, FiniteInv, [Next]_vars PROVE [History!Next]_(History!vars)
  <2>1. /\ disk \in BackupSetState /\ ret \in Nat
        /\ (pc \in Saving => mem = disk)
        /\ (disk = EmptyState \/ ValidState(disk))
    BY <1>2, BoundAssumption DEF SetInv, TypeInv, TypeOK, SavesStartFromDisk, DocumentValid
  <2>2. CASE UNCHANGED <<disk, ret>>
    BY <2>2 DEF History!vars
  <2>3. CASE Start
    BY <2>3 DEF Start, History!Next, History!Reconfigure
  <2>4. CASE MarkExpired
    <3>1. PICK r \in Expired(mem, ret) :
             /\ \A q \in Expired(mem, ret) : r.order <= q.order
             /\ Save(Marked(mem, r), "unlink")
      BY <2>4 DEF MarkExpired
    <3>2. mem = disk /\ ret' = ret
      BY <2>1, <2>4 DEF MarkExpired, At, Saving, policy
    <3>3. /\ r \in ConfirmedIn(disk)
          /\ Cardinality({q \in ConfirmedIn(disk) : q.order > r.order}) >= ret
      BY <3>1, <3>2 DEF Expired
    <3>4. \A w \in ConfirmedIn(disk) : r.order <= w.order
      BY <1>2, <2>1, <3>1, <3>2, OldestExpires DEF FiniteInv
    <3>5. ConfirmedIn(disk)' = ConfirmedIn(disk) \ {r} /\ disk'.next = disk.next
      <4>1. disk' = Marked(disk, r) /\ r \in disk.archives
        BY <3>1, <3>2, <3>3 DEF Save, ConfirmedIn
      <4>2. QED
        BY <2>1, <3>3, <4>1, MarkedConfirmed, MarkedFacts
    <3>6. History!Expire
      <4>1. History!Cardinality(History!Newer(r)) >= ret
        BY <3>3, HistoryCounts DEF History!Newer
      <4> HIDE DEF History!Newer
      <4>2. QED
        BY <3>2, <3>3, <3>4, <3>5, <4>1 DEF History!Expire
    <3>7. QED
      BY <3>6 DEF History!Next
  <2>5. CASE ForgetPending
    <3>1. mem = disk /\ ret' = ret /\ disk' = Forgotten(disk) /\ disk.pending # NoId
      BY <1>2, <2>1, <2>5 DEF ForgetPending, At, Saving, Save, policy, SetInv, PendingNamed
    <3>2. ValidState(disk)
      BY <2>1, <3>1 DEF EmptyState
    <3>3. ConfirmedIn(disk)' = ConfirmedIn(disk) /\ disk'.next = disk.next
      BY <2>1, <3>1, <3>2, ForgottenConfirmed, ForgottenFacts
    <3>4. QED
      BY <3>1, <3>3 DEF History!vars
  <2>6. CASE ConfirmArchive
    <3>1. PICK f \in ZipOf(arch) :
             Save(Extended(mem, f.body), IF logging THEN "retain" ELSE "fail")
      BY <2>6 DEF ConfirmArchive
    <3>2. mem = disk /\ ret' = ret /\ disk' = Extended(disk, f.body)
      BY <2>1, <2>6, <3>1 DEF ConfirmArchive, At, Saving, Save, policy
    <3>3. /\ ConfirmedIn(disk)' = ConfirmedIn(disk) \cup {NewRecord(disk, f.body)}
          /\ disk'.next = disk.next + 1
      BY <3>2, ExtendedConfirmed DEF Extended
    <3>4. NewRecord(disk, f.body).order = disk.next
      BY DEF NewRecord
    <3>5. History!Confirm
      BY <3>2, <3>3, <3>4 DEF History!Confirm
    <3>6. QED
      BY <3>5 DEF History!Next
  <2>7. [Next]_vars => UNCHANGED ret \/ Start
    BY DEF Next, CycleStep, Environment, vars, policy, Stop, Crash, BeginCycle, OpenRoots,
       Inspect, Recover, SweepCandidate, LoadState, MarkExpired, UnlinkPending,
       ForgetPending, RetentionDone, CreateCandidate, WriteCandidate, VerifyCandidate,
       PublishArchive, ConfirmArchive, FinishCycle, StepFails, ReplaceFails,
       RollbackCandidate, RollbackDestination, EditSource, AddForeign, RemoveForeign,
       TamperArchive, LoseLogging
  <2>8. ~ReplaceFails
    BY DEF ReplaceFails
  <2>9. QED
    BY <1>2, <2>2, <2>3, <2>4, <2>5, <2>6, <2>7, <2>8, DocumentSteps
<1>3. Init => FiniteInv
  BY FS_EmptySet DEF Init, FiniteInv, EmptyState
<1>4. Spec => []FiniteInv
  BY <1>3, FiniteInductive, SetInvariant, PTL DEF Spec
<1>5. QED
  BY <1>1, <1>2, <1>4, SetInvariant, PTL DEF Spec, HistoryRefined, History!Spec

-----------------------------------------------------------------------------
(* The space a cycle takes *)

(* A nonempty set of natural numbers has a least element. *)
LEMMA LeastNatural ==
  ASSUME NEW T \in SUBSET Nat, T # {}
  PROVE  \E n \in T : \A m \in T : n <= m
<1> DEFINE Less == {p \in Nat \X Nat : p[1] < p[2]}
<1>1. IsWellFoundedOn(Less, Nat)
  BY NatLessThanWellFounded DEF OpToRel
<1> HIDE DEF Less
<1>2. PICK n \in T : \A m \in T : ~(<<m, n>> \in Less)
  BY <1>1, WFMin
<1>3. \A m \in T : ~(m < n)
  BY <1>2 DEF Less
<1>4. QED
  BY <1>3

(* A document with a confirmed version has an oldest one. *)
LEMMA OldestConfirmed ==
  ASSUME NEW st \in BackupSetState, ConfirmedIn(st) # {}
  PROVE  \E r \in ConfirmedIn(st) : \A q \in ConfirmedIn(st) : r.order <= q.order
<1> DEFINE T == {q.order : q \in ConfirmedIn(st)}
<1>1. T \in SUBSET Nat /\ T # {}
  BY DEF ConfirmedIn, BackupSetState, Record
<1>2. PICK n \in T : \A m \in T : n <= m
  BY <1>1, LeastNatural
<1>3. PICK r \in ConfirmedIn(st) : n = r.order
  BY <1>2
<1>4. QED
  BY <1>2, <1>3

(* With nothing expired, at most the retention count is confirmed. *)
LEMMA NothingExpired ==
  ASSUME NEW st \in BackupSetState, IsFiniteSet(st.archives),
         st = EmptyState \/ ValidState(st), st.pending = NoId,
         NEW n \in Nat, Expired(st, n) = {}
  PROVE  Cardinality(st.archives) <= n
<1>1. st.archives = ConfirmedIn(st)
  BY SentinelAssumption
  DEF EmptyState, ValidState, PendingIn, ConfirmedIn, BackupSetState, Record
<1>2. CASE st.archives = {}
  BY <1>2, FS_EmptySet
<1>3. CASE st.archives # {}
  <2>1. PICK r \in ConfirmedIn(st) : \A q \in ConfirmedIn(st) : r.order <= q.order
    BY <1>1, <1>3, OldestConfirmed
  <2> DEFINE Newer == {q \in ConfirmedIn(st) : q.order > r.order}
  <2>2. Newer = st.archives \ {r}
    <3>1. \A q \in st.archives : q.order \in Nat
      BY DEF BackupSetState, Record
    <3>2. \A q \in st.archives : q.order = r.order => q = r
      BY <1>1, <1>3 DEF EmptyState, ValidState
    <3>3. QED
      BY <1>1, <2>1, <3>1, <3>2
  <2>3. /\ IsFiniteSet(Newer) /\ Cardinality(Newer) = Cardinality(st.archives) - 1
        /\ Cardinality(st.archives) \in Nat
    BY <1>1, <2>1, <2>2, FS_RemoveElement, FS_CardinalityType
  <2>4. ~(Cardinality(Newer) >= n)
    BY <2>1 DEF Expired
  <2>5. Cardinality(Newer) \in Int
    BY <2>3
  <2> HIDE DEF Newer
  <2>6. QED
    BY <2>3, <2>4, <2>5
<1>4. QED
  BY <1>2, <1>3

(* Files that GoSync did not make; its own are temporary files and archives. *)
Foreign(f) == f.kind = "foreign"

(* A cycle that found the destination empty can meet users' files only. *)
StillForeign ==
  pc = "recover" /\ tolerant => disk = EmptyState /\ \A f \in files : Foreign(f)
(* After the recovery every unrecorded file is a user's, still to be removed, *)
(* or the candidate of this cycle.                                          *)
Swept ==
  /\ pc = "sweep" => \A f \in Unrecorded : Foreign(f) \/ f \in doomed
  /\ pc \in {"retain", "unlink", "forget", "create"} /\ resume = "create" =>
       \A f \in Unrecorded : Foreign(f)
  /\ pc \in Producing => \A f \in Unrecorded : Foreign(f) \/ f.id = arch
(* A removal is forgotten only when its archive is gone. *)
Unlinked == pc = "forget" => ZipOf(mem.pending) = {}
(* The second retention never leads back to a new version. *)
Returning ==
  resume = "finish" => pc \in {"retain", "unlink", "forget", "finish", "fail", "rmdir"}
(* Old versions have been trimmed before the new one is made. *)
Room == pc \in {"create"} \cup Producing => Cardinality(disk.archives) <= ret

SpaceInv == StillForeign /\ Swept /\ Unlinked /\ Returning /\ Room

(* Users' files and files already there leave nothing else unrecorded. *)
LEMMA UnrecordedFew ==
  ASSUME disk' = disk,
         \A f \in files' : Foreign(f) \/ f \in files
  PROVE  \A f \in Unrecorded' : Foreign(f) \/ f \in Unrecorded
BY DEF Unrecorded, ZipOf

LEMMA SpaceInductive == SetInv /\ FiniteInv /\ SpaceInv /\ [Next]_vars => SpaceInv'
<1>1. SUFFICES ASSUME SetInv, FiniteInv, SpaceInv, [Next]_vars PROVE SpaceInv'
  OBVIOUS
<1> USE SentinelAssumption
<1>2. /\ disk \in BackupSetState /\ ret \in Nat
      /\ (pc \in Saving => mem = disk)
      /\ (disk = EmptyState \/ ValidState(disk))
      /\ (doomed # {} => pc \in {"sweep", "fail", "rmdir"})
  BY <1>1, BoundAssumption
  DEF SetInv, TypeInv, TypeOK, SavesStartFromDisk, DocumentValid, DoomedOwned
<1>3. CASE UNCHANGED <<files, disk, pc, arch, doomed, mem, resume, tolerant, ret>>
  BY <1>1, <1>3 DEF SpaceInv, StillForeign, Swept, Unlinked, Returning, Room, Unrecorded, ZipOf
<1>4. CASE UNCHANGED vars \/ EditSource \/ LoseLogging
  BY <1>3, <1>4 DEF vars, destination, policy, locals, EditSource, LoseLogging
<1>5. CASE Start \/ Stop \/ Crash \/ BeginCycle \/ OpenRoots \/ FinishCycle
  BY <1>1, <1>5 DEF Start, Stop, Crash, BeginCycle, OpenRoots, FinishCycle,
     SpaceInv, StillForeign, Swept, Unlinked, Returning, Room, Producing, At, Goto, Fail,
     ResetLocals, locals
<1>6. CASE Inspect
  <2>1. tolerant' => disk = EmptyState /\ files = {}
    BY <1>2, <1>6 DEF Inspect, Inspection, Missing, ValidState
  <2>2. QED
    BY <1>1, <1>6, <2>1 DEF Inspect, SpaceInv, StillForeign, Swept, Unlinked, Returning, Room,
       Producing, At, Goto, Fail, destination
<1>7. CASE Recover
  <2>1. ASSUME pc' = "sweep", NEW f \in Unrecorded PROVE Foreign(f) \/ f \in doomed'
    <3>1. CASE tolerant
      BY <1>1, <1>7, <3>1 DEF Recover, At, SpaceInv, StillForeign, Unrecorded
    <3>2. CASE ~tolerant
      <4>1. ~Rejected /\ doomed' = {g \in Unrecorded : OwnedCandidate(g)}
        BY <1>7, <2>1, <3>2 DEF Recover, At, Goto, Fail
      <4>2. OwnedCandidate(f)
        BY <4>1 DEF Rejected, Inspection, Unrecorded
      <4>3. QED
        BY <4>1, <4>2
    <3>3. QED
      BY <3>1, <3>2
  <2>2. Unrecorded' = Unrecorded /\ UNCHANGED resume /\ pc = "recover" /\ pc' \in {"sweep", "fail"}
    BY <1>7 DEF Recover, At, Goto, Fail, Unrecorded, ZipOf, destination
  <2>3. resume # "finish"
    BY <1>1, <2>2 DEF SpaceInv, Returning
  <2>4. QED
    BY <2>1, <2>2, <2>3 DEF SpaceInv, StillForeign, Swept, Unlinked, Returning, Room, Producing
<1>8. CASE SweepCandidate
  <2>1. PICK g \in doomed : files' = files \ {g} /\ doomed' = doomed \ {g}
    BY <1>8 DEF SweepCandidate
  <2>2. pc = "sweep" /\ pc' = "sweep" /\ UNCHANGED <<disk, resume>>
    BY <1>8 DEF SweepCandidate, At
  <2>3. \A f \in Unrecorded' : f \in Unrecorded /\ f # g
    BY <2>1, <2>2 DEF Unrecorded, ZipOf
  <2>4. QED
    BY <1>1, <2>1, <2>2, <2>3 DEF SpaceInv, StillForeign, Swept, Unlinked, Returning, Room, Producing
<1>9. CASE LoadState
  <2>1. /\ pc = "sweep" /\ doomed = {} /\ pc' \in {"fail", "retain", "create"}
        /\ UNCHANGED <<files, disk, ret, resume>>
    BY <1>9 DEF LoadState, At, Goto, Fail, destination, policy
  <2>2. \A f \in Unrecorded' : Foreign(f)
    BY <1>1, <2>1 DEF SpaceInv, Swept, Unrecorded, ZipOf
  <2>3. Room'
    <3>1. Cardinality(disk.archives) \in Nat
      BY <1>1, FS_CardinalityType DEF FiniteInv
    <3>2. pc' = "create" => ~(Cardinality(disk.archives) > ret)
      BY <1>9 DEF LoadState, Goto, Fail
    <3>3. QED
      BY <1>2, <2>1, <3>1, <3>2 DEF Room, Producing
  <2>4. resume = "finish" => FALSE
    BY <1>1, <2>1 DEF SpaceInv, Returning
  <2>5. QED
    BY <2>1, <2>2, <2>3, <2>4 DEF SpaceInv, StillForeign, Swept, Unlinked, Returning, Producing
<1>10. CASE MarkExpired
  <2>1. PICK r \in Expired(mem, ret) : Save(Marked(mem, r), "unlink")
    BY <1>10 DEF MarkExpired
  <2>2. /\ pc = "retain" /\ pc' = "unlink" /\ mem = disk /\ r \in disk.archives
        /\ UNCHANGED <<files, resume>> /\ disk' = Marked(disk, r)
    BY <1>2, <1>10, <2>1 DEF MarkExpired, At, Goto, Save, Saving, Expired, ConfirmedIn, destination
  <2>3. \A q \in disk.archives : \E p \in disk'.archives : p.id = q.id
    <3> DEFINE n == [r EXCEPT !.life = "pending"]
    <3>1. n.id = r.id /\ disk'.archives = (disk.archives \ {r}) \cup {n}
      BY <1>2, <2>2, MarkedFacts DEF BackupSetState, Record
    <3> HIDE DEF n
    <3>2. QED
      BY <3>1
  <2>4. Unrecorded' \subseteq Unrecorded
    BY <2>2, <2>3 DEF Unrecorded, ZipOf
  <2>5. QED
    BY <1>1, <2>2, <2>4 DEF SpaceInv, StillForeign, Swept, Unlinked, Returning, Room, Producing
<1>11. CASE UnlinkPending
  <2>1. /\ pc \in {"unlink", "retain"} /\ pc' = "forget" /\ UNCHANGED <<disk, mem, resume>>
        /\ files' = files \ ZipOf(mem.pending)
    BY <1>11 DEF UnlinkPending, At, Goto, locals
  <2>2. Unrecorded' \subseteq Unrecorded /\ ZipOf(mem.pending)' = {}
    BY <2>1 DEF Unrecorded, ZipOf
  <2>3. QED
    BY <1>1, <2>1, <2>2 DEF SpaceInv, StillForeign, Swept, Unlinked, Returning, Room, Producing
<1>12. CASE ForgetPending
  <2>1. /\ pc = "forget" /\ pc' = "retain" /\ mem = disk /\ UNCHANGED <<files, resume>>
        /\ disk' = Forgotten(disk)
    BY <1>2, <1>12 DEF ForgetPending, At, Goto, Save, Saving, destination
  <2>2. disk'.archives = {r \in disk.archives : r.id # disk.pending}
    BY <1>2, <2>1, ForgottenFacts
  <2>3. \A f \in files : f.kind = "zip" => f.id # disk.pending
    BY <1>1, <2>1 DEF SpaceInv, Unlinked, ZipOf
  <2>4. Unrecorded' \subseteq Unrecorded
    BY <2>1, <2>2, <2>3 DEF Unrecorded, ZipOf
  <2>5. QED
    BY <1>1, <2>1, <2>4 DEF SpaceInv, StillForeign, Swept, Unlinked, Returning, Room, Producing
<1>13. CASE RetentionDone
  <2>1. /\ pc = "retain" /\ pc' = resume /\ UNCHANGED <<files, disk, resume, ret>>
        /\ mem = disk /\ mem.pending = NoId /\ Expired(mem, ret) = {}
    BY <1>2, <1>13 DEF RetentionDone, At, Goto, Saving, destination, policy
  <2>2. Cardinality(disk.archives) <= ret
    BY <1>1, <1>2, <2>1, NothingExpired DEF FiniteInv
  <2>3. Unrecorded' = Unrecorded /\ resume \in {"create", "finish"}
    BY <1>1, <2>1 DEF Unrecorded, ZipOf, SetInv, TypeInv, TypeOK
  <2>4. QED
    BY <1>1, <2>1, <2>2, <2>3 DEF SpaceInv, StillForeign, Swept, Unlinked, Returning, Room, Producing
<1>14. CASE CreateCandidate
  <2>1. PICK id \in Ids : /\ arch' = id
                          /\ \A f \in files' : f \in files \/ f.id = id
    BY <1>14 DEF CreateCandidate
  <2>2. pc = "create" /\ pc' = "write" /\ UNCHANGED <<disk, resume, ret>>
    BY <1>14 DEF CreateCandidate, At, Goto, policy
  <2>3. resume = "create"
    BY <1>1, <2>2 DEF SetInv, TypeInv, TypeOK, SpaceInv, Returning
  <2>4. \A f \in Unrecorded' : f \in Unrecorded \/ f.id = arch'
    BY <2>1, <2>2 DEF Unrecorded, ZipOf
  <2>5. QED
    BY <1>1, <2>2, <2>3, <2>4 DEF SpaceInv, StillForeign, Swept, Unlinked, Returning, Room, Producing
<1>15. CASE WriteCandidate \/ PublishArchive
  <2>1. \A f \in files' : f \in files \/ f.id = arch
    BY <1>1, <1>15 DEF WriteCandidate, PublishArchive, TmpOf, SetInv, TypeInv, TypeOK, File
  <2>2. /\ pc \in {"write", "publish"} /\ pc' \in {"verify", "confirm", "fail"}
        /\ UNCHANGED <<disk, resume, ret, arch>>
    BY <1>15 DEF WriteCandidate, PublishArchive, At, Goto, Fail, policy, locals
  <2>3. resume = "create"
    BY <1>1, <2>2 DEF SetInv, TypeInv, TypeOK, SpaceInv, Returning
  <2>4. \A f \in Unrecorded' : f \in Unrecorded \/ f.id = arch'
    BY <2>1, <2>2 DEF Unrecorded, ZipOf
  <2>5. QED
    BY <1>1, <2>2, <2>3, <2>4 DEF SpaceInv, StillForeign, Swept, Unlinked, Returning, Room, Producing
<1>16. CASE VerifyCandidate
  BY <1>1, <1>16 DEF VerifyCandidate, At, Goto, Fail, destination, policy, locals,
     SpaceInv, StillForeign, Swept, Unlinked, Returning, Room, Producing, Unrecorded, ZipOf
<1>17. CASE ConfirmArchive
  BY <1>17 DEF ConfirmArchive, Save, At, Goto, SpaceInv, StillForeign, Swept, Unlinked, Returning, Room, Producing
<1>18. CASE StepFails
  <2>1. CASE pc' = "fail"
    BY <1>18, <2>1 DEF StepFails, SpaceInv, StillForeign, Swept, Unlinked, Returning, Room, Producing
  <2>2. CASE pc' # "fail"
    <3>1. /\ pc = "recover" /\ tolerant /\ pc' = "sweep"
          /\ UNCHANGED <<files, disk, resume, doomed>>
      BY <1>18, <2>2 DEF StepFails, At, Goto, Fail, destination, locals
    <3>2. \A f \in Unrecorded' : Foreign(f)
      BY <1>1, <3>1 DEF SpaceInv, StillForeign, Unrecorded
    <3>3. QED
      BY <1>1, <3>1, <3>2 DEF SpaceInv, StillForeign, Swept, Unlinked, Returning, Room, Producing
  <2>3. QED
    BY <2>1, <2>2
<1>19. CASE ReplaceFails \/ RollbackCandidate \/ RollbackDestination
  BY <1>1, <1>19 DEF ReplaceFails, RollbackCandidate, RollbackDestination, ResetLocals, locals,
     At, Goto, Fail, SpaceInv, StillForeign, Swept, Unlinked, Returning, Room, Producing
<1>20. CASE AddForeign \/ RemoveForeign
  <2>1. \A f \in files' : Foreign(f) \/ f \in files
    BY <1>20 DEF AddForeign, RemoveForeign, ForeignFile, Foreign
  <2>2. UNCHANGED <<disk, pc, arch, doomed, mem, resume, tolerant, ret>>
    BY <1>20 DEF AddForeign, RemoveForeign, policy, locals
  <2>3. \A f \in Unrecorded' : Foreign(f) \/ f \in Unrecorded
    BY <2>1, <2>2, UnrecordedFew
  <2>4. Unlinked'
    BY <1>1, <2>1, <2>2 DEF SpaceInv, Unlinked, ZipOf, Foreign
  <2>5. QED
    BY <1>1, <2>1, <2>2, <2>3, <2>4 DEF SpaceInv, StillForeign, Swept, Returning, Room
<1>21. CASE TamperArchive
  <2>0. PICK r \in disk.archives :
          \E f \in ZipOf(r.id) : \/ files' = files \ {f}
                                  \/ files' = (files \ {f}) \cup {[f EXCEPT !.body = Garbled]}
    BY <1>21 DEF TamperArchive
  <2>1. PICK g \in ZipOf(r.id) :
          \/ files' = files \ {g}
          \/ files' = (files \ {g}) \cup {[g EXCEPT !.body = Garbled]}
    BY <2>0
  <2>2. UNCHANGED <<disk, pc, arch, doomed, mem, resume, tolerant, ret>>
    BY <1>21 DEF TamperArchive, policy, locals
  <2> DEFINE h == [g EXCEPT !.body = Garbled]
  <2>3. h.kind = "zip" /\ h.id = r.id
    BY <1>1 DEF ZipOf, SetInv, TypeInv, TypeOK, File
  <2>4. files' \subseteq files \cup {h}
    BY <2>1
  <2> HIDE DEF h
  <2>5. Unrecorded' \subseteq Unrecorded
    BY <2>2, <2>3, <2>4 DEF Unrecorded, ZipOf
  <2>6. Unlinked' /\ StillForeign'
    <3>1. g \in files /\ g.kind = "zip" /\ g.id = r.id
      BY DEF ZipOf
    <3>2. ASSUME pc' = "forget", NEW f \in ZipOf(mem.pending)' PROVE FALSE
      <4>1. ZipOf(mem.pending) = {}
        BY <1>1, <2>2, <3>2 DEF SpaceInv, Unlinked
      <4>2. QED
        BY <2>2, <2>3, <2>4, <3>1, <3>2, <4>1 DEF ZipOf
    <3>3. StillForeign'
      BY <1>1, <2>2 DEF SpaceInv, StillForeign, EmptyState
    <3>4. QED
      BY <3>2, <3>3 DEF Unlinked
  <2>7. QED
    BY <1>1, <2>2, <2>5, <2>6 DEF SpaceInv, Swept, Returning, Room
<1>22. QED
  BY <1>1, <1>4, <1>5, <1>6, <1>7, <1>8, <1>9, <1>10, <1>11, <1>12, <1>13, <1>14, <1>15,
     <1>16, <1>17, <1>18, <1>19, <1>20, <1>21 DEF Next, CycleStep, Environment

(* RF-29 and RF-30: from the creation of a new archive to its confirmation  *)
(* the destination holds at most the retention count of old ones, and the   *)
(* new one is the only unrecorded file of GoSync, whatever failed before.   *)
THEOREM SpaceStaysBounded == Spec => []SpaceBounded
<1>1. Init => FiniteInv /\ SpaceInv
  BY FS_EmptySet DEF Init, FiniteInv, EmptyState, SpaceInv, StillForeign, Swept, Unlinked,
     Returning, Room, Producing
<1>2. SpaceInv => SpaceBounded
  BY DEF SpaceInv, Room, Swept, SpaceBounded, Foreign
<1>3. QED
  BY <1>1, <1>2, FiniteInductive, SpaceInductive, SetInvariant, PTL DEF Spec
=============================================================================
