----------------------------- MODULE BackupSet -----------------------------
(***************************************************************************)
(* The BACKUP mode of gosync over one destination: the cycle of            *)
(* backup_cycle.go, the recovery, publication, confirmation and retention  *)
(* it calls (backup_recovery_retention.go) and the persisted state         *)
(* (backup_set_state.go).  One process at a time owns the destination (see *)
(* BackupOwnership); it may crash at any point and be started again with   *)
(* another source or another retention count, while users edit the source  *)
(* and the destination.                                                    *)
(*                                                                         *)
(* One action per persistent effect.  A system call that fails ends the    *)
(* cycle through the deferred function of runBackupCycle.                  *)
(***************************************************************************)
EXTENDS Integers, FiniteSets

CONSTANTS
  Sources,        \* canonical source roots a user may start BACKUP with
  Contents,       \* logical inventories a source tree may have
  Ids,            \* archive identifiers
  MaxRetention,   \* bound: largest backupRetentionCount (100 in the code)
  MaxOrder,       \* bound: a cycle begins only up to this confirmation order
  NoSource, NoId, Garbled,
  Faults          \* which disturbances the environment may cause

FaultKinds == {"io", "crash", "edit", "log", "foreign", "tamper", "replace"}

ASSUME SentinelAssumption ==
  NoSource \notin Sources /\ NoId \notin Ids /\ Garbled \notin Contents
ASSUME BoundAssumption ==
  MaxRetention \in Nat \ {0} /\ MaxOrder \in Nat
ASSUME FaultAssumption == Faults \subseteq FaultKinds

VARIABLES
  content,      \* the logical state of every source tree
  destExists,   \* the destination is a directory
  files,        \* the entries of the destination
  disk,         \* the persisted backup-set document
  pc,           \* where the owning process is
  src, ret,     \* its policy: source and retention count
  logging,      \* its logging coordinator has a destination left
  created,      \* destinationCreated: this cycle made the destination
  found,        \* ownedCandidateFound
  tolerant,     \* the first inspection returned Empty
  doomed,       \* owned candidates the recovery still has to remove
  mem,          \* the in-memory BackupSetState
  initial,      \* the initial inventory
  arch,         \* archiveID of the version being created
  confirmed,    \* this cycle confirmed its version
  resume,       \* where retention returns to: before or after the new version
  tampered      \* history: a user has damaged an archive of the set

source      == <<content>>
destination == <<destExists, files>>
policy      == <<src, ret>>
locals      == <<created, found, tolerant, doomed, mem, initial, arch,
                 confirmed, resume>>
vars == <<source, destination, disk, pc, policy, logging, locals, tampered>>

-----------------------------------------------------------------------------
(* Data *)

(* An archive carries an identity (source, order, inventory digest) in its *)
(* ZIP comment and a payload; a foreign entry carries nothing of ours.     *)
File == [kind: {"tmp", "zip", "foreign"}, id: Ids \cup {NoId},
         source: Sources \cup {NoSource}, order: Nat,
         inv: Contents \cup {Garbled}, body: Contents \cup {Garbled}]

ForeignFile == [kind |-> "foreign", id |-> NoId, source |-> NoSource,
                order |-> 0, inv |-> Garbled, body |-> Garbled]

Record == [id: Ids, order: Nat, inv: Contents \cup {Garbled},
           digest: Contents \cup {Garbled}, life: {"confirmed", "pending"}]

BackupSetState == [source: Sources \cup {NoSource}, next: Nat,
                   archives: SUBSET Record, pending: Ids \cup {NoId}]

(* The state runBackupCycle starts from when Load reports Missing.  A saved *)
(* document always has a source, so this value also stands for "no file".   *)
EmptyState == [source |-> NoSource, next |-> 1, archives |-> {}, pending |-> NoId]

Missing(st) == st.source = NoSource

ConfirmedIn(st) == {r \in st.archives : r.life = "confirmed"}
PendingIn(st)   == {r \in st.archives : r.life = "pending"}

(* validateBackupSetState.  The list of the document is sorted by order, so *)
(* it is modelled as a set in which orders and identifiers do not repeat.   *)
ValidState(st) ==
  /\ st.source # NoSource /\ 0 < st.next
  /\ \A r \in st.archives : 0 < r.order /\ r.order < st.next
  /\ \A r, q \in st.archives : r.id = q.id \/ r.order = q.order => r = q
  /\ \A r \in PendingIn(st) : st.pending = r.id
  /\ st.pending # NoId => \E r \in PendingIn(st) : r.id = st.pending

ZipOf(id) == {f \in files : f.kind = "zip" /\ f.id = id}
TmpOf(id) == {f \in files : f.kind = "tmp" /\ f.id = id}
UsedIds   == {f.id : f \in files} \cup {r.id : r \in disk.archives}

(* validateBackupArchiveRecord: whole-archive digest, then the identity. *)
Attests(f, r, s) ==
  /\ f.body = r.digest
  /\ f.source = s /\ f.order = r.order /\ f.inv = r.inv

RecordValid(r) == \E f \in ZipOf(r.id) : Attests(f, r, disk.source)

(* Entries whose name is not one of the names in the document. *)
Unrecorded == {f \in files : ~ \E r \in disk.archives : f \in ZipOf(r.id)}

(* Mutant: any archive is taken for one of this source. *)
AnyArchive(f) == f.kind = "zip"

(* isOwnedBackupCandidate: a .zip whose identity names this source; neither *)
(* its payload nor the order in its identity is looked at.                  *)
OwnedCandidate(f) == f.kind = "zip" /\ f.source = src

(* inspectBackupSetDestination *)
Inspection ==
  IF Missing(disk) /\ files = {} THEN "empty"
  ELSE IF ~Missing(disk) /\ (disk.source # src \/ \E r \in disk.archives : ~RecordValid(r))
  THEN "damaged"
  ELSE IF \E f \in Unrecorded : ~OwnedCandidate(f) THEN "foreign" ELSE "bound"

Rejected == Inspection \in {"damaged", "foreign"}

(* Mutant: one version too few is kept. *)
ExpiredEarly(st, n) ==
  {r \in ConfirmedIn(st) :
     Cardinality({q \in ConfirmedIn(st) : q.order > r.order}) >= n - 1}

(* planBackupRetention: all but the retentionCount newest confirmed records. *)
Expired(st, n) ==
  {r \in ConfirmedIn(st) :
     Cardinality({q \in ConfirmedIn(st) : q.order > r.order}) >= n}

-----------------------------------------------------------------------------
(* Steps of the owning process *)

Init ==
  /\ content \in [Sources -> Contents]
  /\ destExists \in BOOLEAN
  /\ files = {}
  /\ disk = EmptyState
  /\ pc = "down"
  /\ src \in Sources /\ ret \in 1..MaxRetention
  /\ logging = TRUE
  /\ created = FALSE /\ found = FALSE /\ tolerant = FALSE /\ doomed = {}
  /\ mem = EmptyState
  /\ initial = Garbled /\ arch = NoId
  /\ confirmed = FALSE /\ resume = "create"
  /\ tampered = FALSE

At(label)   == pc = label
Goto(label) == pc' = label
Fail        == Goto("fail")

(* The variables of one call of runBackupCycle, as the next call finds them. *)
ResetLocals ==
  /\ created' = FALSE /\ found' = FALSE /\ tolerant' = FALSE /\ doomed' = {}
  /\ mem' = EmptyState
  /\ initial' = Garbled /\ arch' = NoId
  /\ confirmed' = FALSE /\ resume' = "create"

(* Mutant: a retention count of zero is accepted. *)
StartUnchecked ==
  /\ At("down")
  /\ src' \in Sources /\ ret' \in 0..MaxRetention
  /\ logging' = TRUE
  /\ Goto("idle")
  /\ UNCHANGED <<source, destination, disk, locals, tampered>>

(* gosync watch with a BACKUP configuration: the policy is a snapshot.  The *)
(* logging coordinator starts with its destinations available.              *)
Start ==
  /\ At("down")
  /\ src' \in Sources /\ ret' \in 1..MaxRetention
  /\ logging' = TRUE
  /\ Goto("idle")
  /\ UNCHANGED <<source, destination, disk, locals, tampered>>

(* The watch loop looks at Stop between cycles only. *)
Stop ==
  /\ At("idle")
  /\ Goto("down")
  /\ UNCHANGED <<source, destination, disk, policy, logging, locals, tampered>>

(* The process dies; what it kept in memory is gone, what it wrote stays. *)
Crash ==
  /\ "crash" \in Faults
  /\ pc \notin {"down", "idle"}
  /\ Goto("down")
  /\ ResetLocals
  /\ UNCHANGED <<source, destination, disk, policy, logging, tampered>>

(* Without a log destination runBackupCycle returns before it does anything, *)
(* and runBackupWatchLoop calls it again after the interval.                 *)
BeginCycle ==
  /\ At("idle")
  /\ logging
  /\ disk.next <= MaxOrder
  /\ Goto("open")
  /\ UNCHANGED <<source, destination, disk, policy, logging, locals, tampered>>

(* validateBackupSource, inspectBackupDestination, MkdirAll *)
OpenRoots ==
  /\ At("open")
  /\ destExists' = TRUE
  /\ created' = ~destExists
  /\ Goto("inspect")
  /\ UNCHANGED <<source, files, disk, policy, logging, tampered,
                 found, tolerant, doomed, mem, initial, arch, confirmed, resume>>

Inspect ==
  /\ At("inspect")
  /\ found' = (~Rejected /\ \E f \in Unrecorded : OwnedCandidate(f))
  /\ tolerant' = (Inspection = "empty")
  /\ IF Rejected THEN Fail ELSE Goto("recover")
  /\ UNCHANGED <<source, destination, disk, policy, logging, tampered,
                 created, doomed, mem, initial, arch, confirmed, resume>>

(* recoverOwnedBackupCandidates inspects again.  runBackupCycle ignores its *)
(* error when the first inspection found nothing.                           *)
Recover ==
  /\ At("recover")
  /\ IF Rejected
     THEN /\ doomed' = {}
          /\ IF tolerant THEN Goto("sweep") ELSE Fail
     ELSE /\ doomed' = {f \in Unrecorded : OwnedCandidate(f)}
          /\ Goto("sweep")
  /\ UNCHANGED <<source, destination, disk, policy, logging, tampered,
                 created, found, tolerant, mem, initial, arch, confirmed, resume>>

SweepCandidate ==
  /\ At("sweep")
  /\ \E f \in doomed : /\ files' = files \ {f}
                       /\ doomed' = doomed \ {f}
  /\ UNCHANGED <<source, destExists, disk, pc, policy, logging, tampered,
                 created, found, tolerant, mem, initial, arch, confirmed, resume>>

(* Mutant: only a pending removal sends the cycle to retention first. *)
LoadStateLate ==
  /\ At("sweep") /\ doomed = {}
  /\ IF (found /\ ~logging) \/ disk.source \notin {src, NoSource}
     THEN Fail /\ UNCHANGED mem
     ELSE mem' = disk /\ Goto(IF disk.pending # NoId THEN "retain" ELSE "create")
  /\ UNCHANGED <<source, destination, disk, policy, logging, tampered,
                 created, found, tolerant, doomed, initial, arch, confirmed, resume>>

(* The recovery is logged, the document loaded and its binding checked; a   *)
(* pending removal or too many records send the cycle to retention first.   *)
LoadState ==
  /\ At("sweep") /\ doomed = {}
  /\ IF (found /\ ~logging) \/ disk.source \notin {src, NoSource}
     THEN Fail /\ UNCHANGED mem
     ELSE /\ mem' = disk
          /\ IF disk.pending # NoId \/ Cardinality(disk.archives) > ret
             THEN Goto("retain") ELSE Goto("create")
  /\ UNCHANGED <<source, destination, disk, policy, logging, tampered,
                 created, found, tolerant, doomed, initial, arch, confirmed, resume>>

(* BackupSetStore.Save: a candidate document renamed over the state file.   *)
(* An invalid document is refused.                                          *)
Save(st, label) ==
  /\ ValidState(st)
  /\ disk' = st /\ mem' = st
  /\ Goto(label)

(* The documents the cycle saves. *)
Marked(st, r) ==
  [st EXCEPT !.archives = (@ \ {r}) \cup {[r EXCEPT !.life = "pending"]},
             !.pending = r.id]

Forgotten(st) ==
  [st EXCEPT !.archives = {r \in @ : r.id # st.pending}, !.pending = NoId]

NewRecord(st, digest) ==
  [id |-> arch, order |-> st.next, inv |-> initial, digest |-> digest,
   life |-> "confirmed"]

(* Mutant: the next confirmation order is not advanced. *)
ExtendedSameOrder(st, digest) ==
  [source |-> src, next |-> st.next,
   archives |-> st.archives \cup {NewRecord(st, digest)}, pending |-> st.pending]

Extended(st, digest) ==
  [source |-> src, next |-> st.next + 1,
   archives |-> st.archives \cup {NewRecord(st, digest)}, pending |-> st.pending]

(* executeBackupRetention, one expired record at a time, oldest first:      *)
(* mark (save), unlink the archive, forget the record (save).               *)
MarkExpired ==
  /\ At("retain") /\ mem.pending = NoId
  /\ \E r \in Expired(mem, ret) :
       /\ \A q \in Expired(mem, ret) : r.order <= q.order
       /\ Save(Marked(mem, r), "unlink")
  /\ UNCHANGED <<source, destination, policy, logging, tampered,
                 created, found, tolerant, doomed, initial, arch, confirmed, resume>>

(* Mutant: the removal is not followed by a save. *)
UnlinkOnly ==
  /\ At("unlink") \/ (At("retain") /\ mem.pending # NoId)
  /\ files' = files \ ZipOf(mem.pending)
  /\ Goto("finish")
  /\ UNCHANGED <<source, destExists, disk, policy, logging, locals, tampered>>

UnlinkPending ==
  /\ At("unlink") \/ (At("retain") /\ mem.pending # NoId)
  /\ files' = files \ ZipOf(mem.pending)
  /\ Goto("forget")
  /\ UNCHANGED <<source, destExists, disk, policy, logging, locals, tampered>>

(* Mutant: retention goes on with the removal it has just completed. *)
ForgetAndRepeat ==
  /\ At("forget")
  /\ Save(Forgotten(mem), "unlink")
  /\ UNCHANGED <<source, destination, policy, logging, tampered,
                 created, found, tolerant, doomed, initial, arch, confirmed, resume>>

ForgetPending ==
  /\ At("forget")
  /\ Save(Forgotten(mem), "retain")
  /\ UNCHANGED <<source, destination, policy, logging, tampered,
                 created, found, tolerant, doomed, initial, arch, confirmed, resume>>

(* Nothing is left to remove.  Before the new version the state is loaded   *)
(* again; after it the outcome is logged and the cycle returns.             *)
RetentionDone ==
  /\ At("retain") /\ mem.pending = NoId /\ Expired(mem, ret) = {}
  /\ Goto(resume)
  /\ mem' = IF resume = "create" THEN disk ELSE mem
  /\ UNCHANGED <<source, destination, disk, policy, logging, tampered,
                 created, found, tolerant, doomed, initial, arch, confirmed, resume>>

(* The initial inventory, the identity and an empty temporary file.  Random *)
(* 128-bit identifiers are taken not to repeat one that is in use.          *)
CreateCandidate ==
  /\ At("create")
  /\ initial' = content[src]
  /\ \E id \in Ids \ UsedIds :
       /\ arch' = id
       /\ files' = files \cup {[kind |-> "tmp", id |-> id, source |-> src,
                                order |-> mem.next, inv |-> content[src],
                                body |-> Garbled]}
  /\ Goto("write")
  /\ UNCHANGED <<source, destExists, disk, policy, logging, tampered,
                 created, found, tolerant, doomed, mem, confirmed, resume>>

(* writeBackupArchive reads the source again.  Edits made meanwhile may give *)
(* a payload that is no state of the source; a failure removes the file.     *)
WriteCandidate ==
  /\ At("write")
  /\ \E f \in TmpOf(arch) :
       \/ /\ \E b \in {content[src]} \cup (IF "edit" \in Faults THEN {Garbled} ELSE {}) :
               files' = (files \ {f}) \cup {[f EXCEPT !.body = b]}
          /\ Goto("verify")
       \/ "io" \in Faults /\ files' = files \ {f} /\ Fail
  /\ UNCHANGED <<source, destExists, disk, policy, logging, locals, tampered>>

(* Mutant: the archive is not compared with the initial inventory. *)
VerifySourceOnly ==
  /\ At("verify")
  /\ IF logging /\ content[src] = initial THEN Goto("publish") ELSE Fail
  /\ UNCHANGED <<source, destination, disk, policy, logging, locals, tampered>>

(* verifyBackupArchive against the initial inventory, the log entry, the    *)
(* final inventory and verifyBackupSourceStability.                         *)
VerifyCandidate ==
  /\ At("verify")
  /\ IF /\ \A f \in TmpOf(arch) : f.body = initial
        /\ logging
        /\ content[src] = initial
     THEN Goto("publish") ELSE Fail
  /\ UNCHANGED <<source, destination, disk, policy, logging, locals, tampered>>

(* publishBackupArchive: rename to the final name, which must be free. *)
PublishArchive ==
  /\ At("publish")
  /\ ZipOf(arch) = {}
  /\ \E f \in TmpOf(arch) :
       files' = (files \ {f}) \cup {[f EXCEPT !.kind = "zip"]}
  /\ Goto("confirm")
  /\ UNCHANGED <<source, destExists, disk, policy, logging, locals, tampered>>

(* calculateBackupArchiveDigest, confirmBackupArchive and the log entry.  A  *)
(* state bound to another source, or that has the archive, is refused; the   *)
(* order the archive was made with is still the next one of mem.             *)
ConfirmArchive ==
  /\ At("confirm")
  /\ mem.source \in {NoSource, src}
  /\ \A r \in mem.archives : r.id # arch
  /\ \E f \in ZipOf(arch) :
       Save(Extended(mem, f.body), IF logging THEN "retain" ELSE "fail")
  /\ confirmed' = TRUE
  /\ resume' = "finish"
  /\ UNCHANGED <<source, destination, policy, logging, tampered,
                 created, found, tolerant, doomed, initial, arch>>

FinishCycle ==
  /\ At("finish")
  /\ IF logging THEN Goto("idle") /\ ResetLocals ELSE Fail /\ UNCHANGED locals
  /\ UNCHANGED <<source, destination, disk, policy, logging, tampered>>

(* Any call of a step may return an error that ends the cycle. *)
StepFails ==
  /\ "io" \in Faults
  /\ pc \in {"open", "inspect", "recover", "sweep", "retain", "unlink", "forget",
             "create", "write", "verify", "publish", "confirm"}
  /\ At("retain") /\ resume = "finish" => mem.pending # NoId \/ Expired(mem, ret) # {}
  /\ IF At("recover") /\ tolerant THEN Goto("sweep") ELSE Fail
  /\ UNCHANGED <<source, destination, disk, policy, logging, locals, tampered>>

(* ReplaceCandidate after a failed rename: the existing document is removed  *)
(* and the second rename fails too (or the process dies before it); the      *)
(* deferred Remove then deletes the candidate document as well.              *)
ReplaceFails ==
  /\ "replace" \in Faults
  /\ pc \in {"retain", "forget", "confirm"} /\ ~Missing(disk)
  /\ At("retain") => mem.pending = NoId /\ Expired(mem, ret) # {}
  /\ disk' = EmptyState
  /\ Fail
  /\ UNCHANGED <<source, destination, policy, logging, locals, tampered>>

(* Mutant: a first cycle that fails forgets the set, also a confirmed one. *)
RollbackAndForget ==
  /\ At("fail")
  /\ IF created
     THEN /\ files' = files \ TmpOf(arch) /\ disk' = EmptyState
          /\ Goto("rmdir") /\ UNCHANGED locals
     ELSE Goto("idle") /\ ResetLocals /\ UNCHANGED <<files, disk>>
  /\ UNCHANGED <<source, destExists, policy, logging, tampered>>

(* The deferred function: only a cycle that created the destination and has *)
(* not confirmed rolls back, each removal possibly failing.                 *)
RollbackCandidate ==
  /\ At("fail")
  /\ IF created /\ ~confirmed
     THEN /\ \/ files' = files \ TmpOf(arch)
             \/ "io" \in Faults /\ UNCHANGED files
          /\ Goto("rmdir") /\ UNCHANGED locals
     ELSE Goto("idle") /\ ResetLocals /\ UNCHANGED files
  /\ UNCHANGED <<source, destExists, disk, policy, logging, tampered>>

RollbackDestination ==
  /\ At("rmdir")
  /\ \/ destExists' = (files # {})
     \/ "io" \in Faults /\ UNCHANGED destExists
  /\ Goto("idle") /\ ResetLocals
  /\ UNCHANGED <<source, files, disk, policy, logging, tampered>>

CycleStep ==
  \/ OpenRoots \/ Inspect \/ Recover \/ SweepCandidate \/ LoadState
  \/ MarkExpired \/ UnlinkPending \/ ForgetPending \/ RetentionDone
  \/ CreateCandidate \/ WriteCandidate \/ VerifyCandidate
  \/ PublishArchive \/ ConfirmArchive \/ FinishCycle
  \/ StepFails \/ ReplaceFails \/ RollbackCandidate \/ RollbackDestination

-----------------------------------------------------------------------------
(* The environment *)

EditSource ==
  /\ "edit" \in Faults
  /\ \E s \in Sources : \E c \in Contents \ {content[s]} :
       content' = [content EXCEPT ![s] = c]
  /\ UNCHANGED <<destination, disk, pc, policy, logging, locals, tampered>>

(* A user drops a file of his own into the destination, or takes it away. *)
AddForeign ==
  /\ "foreign" \in Faults /\ destExists /\ ForeignFile \notin files
  /\ files' = files \cup {ForeignFile}
  /\ UNCHANGED <<source, destExists, disk, pc, policy, logging, locals, tampered>>

RemoveForeign ==
  /\ ForeignFile \in files
  /\ files' = files \ {ForeignFile}
  /\ UNCHANGED <<source, destExists, disk, pc, policy, logging, locals, tampered>>

(* A user deletes or alters an archive of the set. *)
TamperArchive ==
  /\ "tamper" \in Faults
  /\ \E r \in disk.archives : \E f \in ZipOf(r.id) :
       \/ files' = files \ {f}
       \/ files' = (files \ {f}) \cup {[f EXCEPT !.body = Garbled]}
  /\ tampered' = TRUE
  /\ UNCHANGED <<source, destExists, disk, pc, policy, logging, locals>>

(* The last log destination of this execution fails, for good. *)
LoseLogging ==
  /\ "log" \in Faults /\ logging /\ pc # "down"
  /\ logging' = FALSE
  /\ UNCHANGED <<source, destination, disk, pc, policy, locals, tampered>>

Environment == EditSource \/ AddForeign \/ RemoveForeign \/ TamperArchive \/ LoseLogging

Next == Start \/ Stop \/ Crash \/ BeginCycle \/ CycleStep \/ Environment

Spec == Init /\ [][Next]_vars

(* Inside a cycle the process is ordinary sequential code that keeps running; *)
(* nothing is assumed of users, of crashes, or of when a cycle begins.        *)
FairSpec == Spec /\ WF_vars(CycleStep)

-----------------------------------------------------------------------------
(* Properties *)

Labels == {"down", "idle", "open", "inspect", "recover", "sweep", "retain",
           "unlink", "forget", "create", "write", "verify", "publish",
           "confirm", "finish", "fail", "rmdir"}

(* Every variable holds a value of its kind, and the confirmation orders    *)
(* stay within the bound.                                                   *)
TypeOK ==
  /\ content \in [Sources -> Contents]
  /\ destExists \in BOOLEAN /\ files \subseteq File
  /\ disk \in BackupSetState /\ mem \in BackupSetState
  /\ pc \in Labels
  /\ src \in Sources /\ ret \in 1..MaxRetention
  /\ logging \in BOOLEAN
  /\ created \in BOOLEAN /\ found \in BOOLEAN /\ tolerant \in BOOLEAN
  /\ doomed \subseteq File
  /\ initial \in Contents \cup {Garbled}
  /\ arch \in Ids \cup {NoId}
  /\ confirmed \in BOOLEAN /\ resume \in {"create", "finish"}
  /\ tampered \in BOOLEAN

(* RF-24 of spec 004: as long as no user touches the set, every version the *)
(* document calls confirmed is in the destination as an archive whose       *)
(* identity and digest pass inspection and whose payload is the inventory   *)
(* the version was made for, whatever crashes, failures and edits happened  *)
(* (backup_recovery_retention.go:265, 366; backup_cycle.go:131).            *)
Restorable(r) ==
  /\ RecordValid(r)
  /\ r.digest = r.inv /\ r.inv \in Contents

HistoryIntact == tampered \/ \A r \in ConfirmedIn(disk) : Restorable(r)

(* The store never refuses a document the cycle asks it to save             *)
(* (backup_set_state.go:502): a refusal after the unlink would leave a      *)
(* record without its archive.                                              *)
NextSaveIsValid ==
  /\ At("confirm") => \A f \in ZipOf(arch) : ValidState(Extended(mem, f.body))
  /\ At("retain") /\ mem.pending = NoId =>
        \A r \in Expired(mem, ret) : ValidState(Marked(mem, r))
  /\ At("forget") => ValidState(Forgotten(mem))

(* What the cycle carries in memory while it may still save is what the     *)
(* document holds, so no save undoes an earlier one (backup_cycle.go:83-166,*)
(* backup_recovery_retention.go:388-410).                                   *)
Saving == {"retain", "unlink", "forget", "create", "write", "verify",
           "publish", "confirm"}
SavesStartFromDisk == pc \in Saving => mem = disk

(* RF-29 and RF-30: from the moment a cycle makes a new archive until it    *)
(* confirms it, the destination holds at most the retention count of old    *)
(* archives, and the new one is the only file that is not recorded          *)
(* (backup_cycle.go:100-118).                                               *)
Producing == {"write", "verify", "publish", "confirm"}
SpaceBounded ==
  pc \in Producing =>
    /\ Cardinality(disk.archives) <= ret
    /\ \A f \in Unrecorded : f.kind = "foreign" \/ f.id = arch

(* RF-15: a step of GoSync removes from the destination only an unrecorded  *)
(* archive of its own source, its own temporary file, or the archive whose  *)
(* removal is recorded as pending (backup_recovery_retention.go:216-223,    *)
(* 307-311, 370-371).                                                       *)
RemovedByCycle == files \ files'
OnlyOwnFilesRemoved ==
  [][CycleStep => \A f \in RemovedByCycle :
        \/ f.kind = "tmp" /\ f.id = arch
        \/ f.kind = "zip" /\ f.source = src /\ f \in Unrecorded
        \/ f.kind = "zip" /\ f.id = disk.pending]_vars

(* RF-14: once bound, a destination stays bound to its source               *)
(* (backup_recovery_retention.go:182-209).                                  *)
BindingStable == [][Missing(disk) \/ disk'.source = disk.source]_vars

(* RF-28 to RF-30: the confirmed versions form a history that loses only    *)
(* its oldest member and only beyond the retention count, whatever the      *)
(* environment does short of breaking the replacement of the document.      *)
History == INSTANCE BackupHistory
             WITH kept <- ConfirmedIn(disk), next <- disk.next, limit <- ret
HistoryRefined == History!Spec

(* A cycle comes to its end, retention included, unless the process dies    *)
(* (backup_cycle.go:22; watch_loop.go:16 waits for it).                     *)
CycleEnds == (pc \notin {"down", "idle"}) ~> (pc \in {"down", "idle"})

(* A cycle that has recorded a removal as pending, or found one recorded, and *)
(* goes on to it completes it, unless a call fails, the log is lost or the    *)
(* process dies (backup_recovery_retention.go:366-386).                       *)
PendingResolved ==
  (At("unlink") \/ (At("retain") /\ mem.pending # NoId))
    ~> (disk.pending = NoId \/ pc \in {"fail", "down"})

-----------------------------------------------------------------------------
(* Statements of the repository that the code does not keep *)

(* specs/004-compressed-backup/spec.md:59 (RF-26): an interrupted version   *)
(* "shall remain unconfirmed and shall be removed under RF-16 during the    *)
(* next cycle".  So an inspection reports foreign entries only when there   *)
(* is an entry that GoSync did not make for this source.                    *)
ForeignIsForeign ==
  At("inspect") /\ Inspection = "foreign" =>
    \E f \in files : f.kind = "foreign" \/ f.source # src

(* specs/004-compressed-backup/plan.md:393: "Interruption at every          *)
(* pending-removal transition resumes safely and never misclassifies an     *)
(* intentional deletion as corruption".  So an inspection for the bound     *)
(* source reports damage only when a user damaged the set.                  *)
DamagedIsDamaged ==
  At("inspect") /\ disk.source = src /\ Inspection = "damaged" => tampered
=============================================================================
