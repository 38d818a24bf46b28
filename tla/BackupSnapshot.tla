--------------------------- MODULE BackupSnapshot ---------------------------
(***************************************************************************)
(* How one backup cycle reads its source while users change it: the walk   *)
(* of buildBackupLogicalInventory, the copy of writeBackupArchive, the     *)
(* check of verifyBackupArchive, a second walk, and                        *)
(* verifyBackupSourceStability.  BackupSet has the cycle around it.        *)
(*                                                                         *)
(* Every directory that is listed, every entry whose information is taken  *)
(* and every file that is read is a step, and users act between any two.   *)
(***************************************************************************)
EXTENDS Trees

CONSTANTS
  Contents,   \* contents of files
  Absent,     \* the value of a path with no entry
  Folder,     \* the value of a path with a directory
  MaxEdits,   \* bound: changes users make
  Faults      \* {"io"} if calls may fail

Values == Contents \cup {Absent, Folder}
Walks  == {"first", "last"}

ASSUME SnapshotAssumption ==
  /\ Absent \notin Contents /\ Folder \notin Contents /\ Absent # Folder
  /\ MaxEdits \in Nat /\ Faults \subseteq {"io"}
  /\ \A p \in Paths : p \in Tops \/ \E a \in Tops : p \in Inside[a]
  /\ \A p \in Paths : \A q \in Inside[p] :
        q \in Children(p) \/ \E c \in Children(p) : q \in Inside[c]

(* An entry exists only in a directory.  A symbolic link to a file has the  *)
(* content os.Open would read through it.                                   *)
Grounded(t) == \A p \in Paths : t[p] # Absent => \A a \in Ancestors(p) : t[a] = Folder

(* What is still to be visited: an entry that was listed with its type, a   *)
(* file that is to be read, or a directory that is to be listed.            *)
Task == [do: {"stat", "read", "list"}, path: Paths, type: {"dir", "file", "link"}]

VARIABLES
  src,        \* the source: the value of each path
  links,      \* the paths whose entry is a symbolic link
  pc,         \* idle, first, copy, verified, last, confirmed, failed
  todo,       \* the entries still to be visited
  inv,        \* the inventories of the two walks
  archive,    \* what the archive holds
  edits,      \* bound: changes made so far
  seen,       \* history: the values each path has had during each reading
  moment,     \* history: the source as the first walk ended, and as the last began
  returned,   \* history: a path got a value back that it had before in the cycle
  lasting,    \* history: the paths that have been links ever since the cycle began
  disturbed   \* history: a user, or a call that failed, disturbed the cycle

result  == <<inv, archive>>
history == <<seen, moment, returned, lasting, disturbed>>
vars == <<src, links, pc, todo, result, edits, history>>

Nothing   == [p \in Paths |-> Absent]
Now       == [p \in Paths |-> {src[p]}]
NotSeen   == [p \in Paths |-> {}]
Phases    == {"first", "copy", "last"}
At(label) == pc = label

Init ==
  /\ src \in {t \in [Paths -> Values] : Grounded(t)}
  /\ links \in SUBSET {p \in Paths : src[p] \in Contents}
  /\ pc = "idle" /\ todo = {}
  /\ inv = [w \in Walks |-> Nothing] /\ archive = Nothing
  /\ edits = 0
  /\ seen = [w \in Phases |-> NotSeen] /\ moment = [w \in Walks |-> Nothing]
  /\ returned = FALSE /\ lasting = {} /\ disturbed = FALSE

Kind(p) == IF p \in links THEN "link"
           ELSE IF src[p] = Absent THEN "none" ELSE IF src[p] = Folder THEN "dir" ELSE "file"

(* Mutant: names that are gone are listed as well. *)
ListedAnyway(ps) == {[do |-> "stat", path |-> p, type |-> Kind(p)] : p \in ps}

(* The entries of a directory, as os.ReadDir lists them. *)
Listed(ps) == {[do |-> "stat", path |-> p, type |-> Kind(p)] : p \in {q \in ps : src[q] # Absent}}

(* A cycle lists the root of its source. *)
BeginFirst ==
  /\ At("idle") /\ pc' = "first" /\ todo' = Listed(Tops)
  /\ inv' = [w \in Walks |-> Nothing] /\ archive' = Nothing
  /\ seen' = [w \in Phases |-> IF w = "first" THEN Now ELSE NotSeen]
  /\ moment' = [w \in Walks |-> Nothing]
  /\ returned' = FALSE /\ lasting' = links /\ disturbed' = FALSE
  /\ UNCHANGED <<src, links, edits>>

Before(p, q) == \E i, j \in DOMAIN Listing : i < j /\ Listing[i] = p /\ Listing[j] = q

Visiting(t, do) ==
  t \in todo /\ t.do = do /\ \A u \in todo \ {t} : Before(t.path, u.path)

Fail == pc' = "failed" /\ todo' = {} /\ UNCHANGED result

Done(t)       == todo' = todo \ {t}
Follow(t, do) == todo' = (todo \ {t}) \cup {[t EXCEPT !.do = do]}
Record(p, v)  == inv' = [inv EXCEPT ![pc][p] = v] /\ UNCHANGED archive

(* Mutant: links are followed. *)
StatFollowing(t) ==
  /\ pc \in Walks /\ Visiting(t, "stat")
  /\ \E kind \in {t.type, Kind(t.path)} :
       \/ kind = "none" /\ Fail
       \/ kind \in {"file", "link"} /\ Follow(t, "read") /\ UNCHANGED <<pc, result>>
       \/ /\ kind = "dir" /\ Record(t.path, Folder) /\ UNCHANGED pc
          /\ IF t.type = "dir" THEN Follow(t, "list") ELSE Done(t)
  /\ UNCHANGED <<src, links, edits, history>>

(* A link is rejected by the type it was listed with.  Info then tells what *)
(* the entry is now or, on Windows, what it was when it was listed; but     *)
(* only what was listed as a directory is entered.                          *)
Stat(t) ==
  /\ pc \in Walks /\ Visiting(t, "stat")
  /\ IF t.type = "link" THEN Fail
     ELSE \E kind \in {t.type, Kind(t.path)} :
       \/ kind \in {"none", "link"} /\ Fail
       \/ kind = "file" /\ Follow(t, "read") /\ UNCHANGED <<pc, result>>
       \/ /\ kind = "dir" /\ Record(t.path, Folder) /\ UNCHANGED pc
          /\ IF t.type = "dir" THEN Follow(t, "list") ELSE Done(t)
  /\ UNCHANGED <<src, links, edits, history>>

(* backupFileContentDigest: os.Open follows a link and fails for what is    *)
(* not there; a directory cannot be read.                                   *)
Read(t) ==
  /\ pc \in Walks /\ Visiting(t, "read")
  /\ IF src[t.path] \notin Contents THEN Fail
     ELSE /\ Record(t.path, src[t.path]) /\ UNCHANGED pc
          /\ IF t.type = "dir" THEN Follow(t, "list") ELSE Done(t)
  /\ UNCHANGED <<src, links, edits, history>>

(* ReadDir of a directory that was stated earlier.  A link to another         *)
(* directory that has taken its place since would be followed; links to       *)
(* directories are not modelled.                                              *)
List(t) ==
  /\ pc \in Walks /\ Visiting(t, "list")
  /\ IF src[t.path] # Folder THEN Fail
     ELSE todo' = (todo \ {t}) \cup Listed(Children(t.path)) /\ UNCHANGED <<pc, result>>
  /\ UNCHANGED <<src, links, edits, history>>

(* Mutant: directories get no header, so that an empty one is lost. *)
CopyFilesOnly ==
  /\ At("first") /\ todo = {} /\ pc' = "copy"
  /\ todo' = {[do |-> "read", path |-> p, type |-> "file"] :
                p \in {q \in Paths : inv["first"][q] \in Contents}}
  /\ archive' = Nothing
  /\ seen' = [seen EXCEPT !["copy"] = Now] /\ moment' = [moment EXCEPT !["first"] = src]
  /\ UNCHANGED <<src, links, inv, edits, returned, lasting, disturbed>>

(* The archive gets a header for every directory of the first inventory and *)
(* a copy of every file of it.                                              *)
BeginCopy ==
  /\ At("first") /\ todo = {} /\ pc' = "copy"
  /\ todo' = {[do |-> "read", path |-> p, type |-> "file"] :
                p \in {q \in Paths : inv["first"][q] \in Contents}}
  /\ archive' = [p \in Paths |-> IF inv["first"][p] = Folder THEN Folder ELSE Absent]
  /\ seen' = [seen EXCEPT !["copy"] = Now] /\ moment' = [moment EXCEPT !["first"] = src]
  /\ UNCHANGED <<src, links, inv, edits, returned, lasting, disturbed>>

CopyFile(t) ==
  /\ At("copy") /\ Visiting(t, "read")
  /\ IF src[t.path] \notin Contents THEN Fail
     ELSE archive' = [archive EXCEPT ![t.path] = src[t.path]] /\ Done(t) /\ UNCHANGED <<pc, inv>>
  /\ UNCHANGED <<src, links, edits, history>>

(* Mutant: the names and types of the archive are compared, not its contents. *)
VerifyNames ==
  /\ At("copy") /\ todo = {}
  /\ IF \A p \in Paths : archive[p] = Absent <=> inv["first"][p] = Absent
     THEN pc' = "verified" /\ UNCHANGED <<todo, result>> ELSE Fail
  /\ UNCHANGED <<src, links, edits, history>>

(* verifyBackupArchive reads the archive back. *)
Verify ==
  /\ At("copy") /\ todo = {}
  /\ IF archive = inv["first"] THEN pc' = "verified" /\ UNCHANGED <<todo, result>> ELSE Fail
  /\ UNCHANGED <<src, links, edits, history>>

BeginLast ==
  /\ At("verified") /\ pc' = "last" /\ todo' = Listed(Tops)
  /\ seen' = [seen EXCEPT !["last"] = Now] /\ moment' = [moment EXCEPT !["last"] = src]
  /\ UNCHANGED <<src, links, result, edits, returned, lasting, disturbed>>

(* Mutant: the archive is compared with the first inventory once more. *)
CompareArchived ==
  /\ At("last") /\ todo = {}
  /\ IF inv["first"] = archive THEN pc' = "confirmed" /\ UNCHANGED <<todo, result>> ELSE Fail
  /\ UNCHANGED <<src, links, edits, history>>

(* verifyBackupSourceStability *)
Compare ==
  /\ At("last") /\ todo = {}
  /\ IF inv["first"] = inv["last"]
     THEN pc' = "confirmed" /\ UNCHANGED <<todo, result>> ELSE Fail
  /\ UNCHANGED <<src, links, edits, history>>

(* Any call fails, or a log entry cannot be written. *)
Running == pc \in {"first", "copy", "verified", "last"}

StepFails ==
  /\ "io" \in Faults /\ Running /\ Fail /\ disturbed' = TRUE
  /\ UNCHANGED <<src, links, edits, seen, moment, returned, lasting>>

(* The interval passes. *)
EndCycle ==
  /\ pc \in {"confirmed", "failed"} /\ pc' = "idle"
  /\ UNCHANGED <<src, links, todo, result, edits, history>>

CycleStep ==
  \/ \E t \in todo : Stat(t) \/ Read(t) \/ List(t) \/ CopyFile(t)
  \/ BeginCopy \/ Verify \/ BeginLast \/ Compare \/ StepFails

-----------------------------------------------------------------------------
(* A user writes a file, makes a directory or a link, or removes an entry   *)
(* with all that is below it.                                               *)
Phase == IF pc = "verified" THEN "copy" ELSE pc

Edit(p, v, asLink) ==
  /\ edits < MaxEdits /\ edits' = edits + 1 /\ pc \notin {"confirmed", "failed"}
  /\ \A a \in Ancestors(p) : src[a] = Folder
  /\ src[p] = Folder => v = Absent
  /\ v # src[p] \/ asLink # (p \in links)
  /\ src' = [q \in Paths |-> IF q = p THEN v ELSE IF q \in Inside[p] THEN Absent ELSE src[q]]
  /\ links' = (links \ ({p} \cup Inside[p])) \cup (IF asLink THEN {p} ELSE {})
  /\ IF Running
     THEN /\ seen' = [seen EXCEPT ![Phase] = [q \in Paths |-> @[q] \cup {src'[q]}]]
          /\ returned' = (returned \/ \E q \in Paths, w \in Phases :
                             src'[q] # src[q] /\ src'[q] \in seen[w][q])
          /\ lasting' = lasting \cap links' /\ disturbed' = TRUE
     ELSE UNCHANGED <<seen, returned, lasting, disturbed>>
  /\ UNCHANGED <<pc, todo, result, moment>>

User == \E p \in Paths, v \in Values, asLink \in BOOLEAN : (asLink => v \in Contents) /\ Edit(p, v, asLink)

Next == BeginFirst \/ CycleStep \/ EndCycle \/ User

Spec == Init /\ [][Next]_vars

-----------------------------------------------------------------------------
(* Properties *)

TypeOK ==
  /\ src \in [Paths -> Values] /\ Grounded(src)
  /\ links \subseteq {p \in Paths : src[p] \in Contents}
  /\ pc \in {"idle", "first", "copy", "verified", "last", "confirmed", "failed"}
  /\ todo \subseteq Task
  /\ inv \in [Walks -> [Paths -> Values]] /\ archive \in [Paths -> Values]
  /\ edits \in 0..MaxEdits
  /\ seen \in [Phases -> [Paths -> SUBSET Values]]
  /\ moment \in [Walks -> [Paths -> Values]]
  /\ returned \in BOOLEAN /\ disturbed \in BOOLEAN /\ lasting \subseteq Paths

(* Whatever users do meanwhile, what a confirmed version says of a path was *)
(* true of it while the source was walked the first time, and again while   *)
(* it was walked the last time (backup_cycle.go:120, 140, 155).             *)
ArchivedWasSeen ==
  At("confirmed") =>
    \A p \in Paths : archive[p] \in seen["first"][p] \cap seen["last"][p]

(* RF-23: a confirmed version never combines different states of the source *)
(* (specs/004-compressed-backup/spec.md:53).  Unless a path got a value     *)
(* back that it had before in the cycle, the version is what the source was *)
(* when the first walk had ended, and still was when the last one began     *)
(* (backup_recovery_retention.go:243).                                      *)
ConfirmedIsSnapshot ==
  At("confirmed") /\ ~returned => archive = moment["first"] /\ archive = moment["last"]

(* RF-21: no version is confirmed of a source that has had a link all along *)
(* (specs/004-compressed-backup/spec.md:49; backup_inventory.go:96).        *)
LinksRejected == At("confirmed") => lasting = {}

(* A cycle that nobody disturbed confirms a version, unless there is a link *)
(* in the source: the three readings of an unchanged source agree           *)
(* (backup_recovery_retention.go:243).                                      *)
QuietCycleConfirms == At("failed") /\ ~disturbed => lasting # {}
=============================================================================
