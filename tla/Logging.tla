------------------------------ MODULE Logging ------------------------------
(***************************************************************************)
(* The logs of GoSync: every execution has a LoggingCoordinator            *)
(* (logging_coordinator.go) that writes each entry to its console and to   *)
(* the one rotating log file of the user (rotating_file_destination.go),   *)
(* and stops using a destination that has failed.  The executions of a     *)
(* user rotate the same files.                                             *)
(***************************************************************************)
EXTENDS Integers, FiniteSets

CONSTANTS
  Writers,     \* executions that log
  Archives,    \* logMaximumArchiveCount
  Limit,       \* logMaximumActiveFileSize
  Lengths,     \* lengths of the entries; nothing bounds them
  MaxEntries,  \* bound: entries appended to the files
  Faults       \* "console", "file", "crash": what may fail

ASSUME LoggingAssumption ==
  /\ IsFiniteSet(Writers)
  /\ Archives \in Nat \ {0} /\ Limit \in Nat \ {0} /\ MaxEntries \in Nat
  /\ Lengths \subseteq Nat \ {0}
  /\ Faults \subseteq {"console", "file", "crash"}

Active      == 0
Generations == 0..Archives

VARIABLES
  file,        \* the active file and the archives: entries appended, and their size
  count,       \* entries appended so far; an entry is numbered when it is appended
  console,     \* consoleAvailable of each coordinator
  persistent,  \* persistentAvailable of each coordinator
  pc,          \* where each execution is
  len,         \* the length of the entry being written
  reporting,   \* what is being written reports the failure of the console
  gen,         \* the archive generation to shift next
  kept         \* history: the entry has reached a destination

vars == <<file, count, console, persistent, pc, len, reporting, gen, kept>>
local == <<console, persistent, len, reporting, gen, kept>>

NoFile == [entries |-> {}, size |-> 0]
Exists(f) == f.entries # {}

Labels == {"idle", "size", "oldest", "shift", "archive", "append", "return", "stopped"}

Init ==
  /\ file = [g \in Generations |-> NoFile] /\ count = 0
  /\ console = [w \in Writers |-> TRUE] /\ persistent = [w \in Writers |-> TRUE]
  /\ pc = [w \in Writers |-> "idle"]
  /\ len = [w \in Writers |-> 0] /\ reporting = [w \in Writers |-> FALSE]
  /\ gen = [w \in Writers |-> 0] /\ kept = [w \in Writers |-> TRUE]

At(w, label)   == pc[w] = label
Goto(w, label) == pc' = [pc EXCEPT ![w] = label]
Set(f, w, v)   == [f EXCEPT ![w] = v]

(* Log and Write: the console comes first; its failure is reported in the   *)
(* file, before the entry.                                                  *)
Log(w) ==
  /\ At(w, "idle") /\ count + 2 * Cardinality(Writers) <= MaxEntries
  /\ \E l \in Lengths : len' = Set(len, w, l)
  /\ \E ok \in BOOLEAN :
       /\ ok \/ "console" \in Faults
       /\ console' = Set(console, w, console[w] /\ ok)
       /\ kept' = Set(kept, w, console[w] /\ ok)
       /\ reporting' = Set(reporting, w, console[w] /\ ~ok /\ persistent[w])
  /\ Goto(w, IF persistent[w] THEN "size" ELSE "return")
  /\ UNCHANGED <<file, count, persistent, gen>>

(* Mutant: the length of the entry does not count. *)
SizeBefore(w) ==
  /\ At(w, "size")
  /\ Goto(w, IF file[Active].size > Limit THEN "oldest" ELSE "append")
  /\ UNCHANGED <<file, count, local>>

(* getActiveLogFileSize, and whether the entry still fits; to an empty file *)
(* any entry is appended.                                                   *)
Size(w) ==
  /\ At(w, "size")
  /\ Goto(w, IF file[Active].size > 0 /\ file[Active].size + len[w] > Limit
             THEN "oldest" ELSE "append")
  /\ UNCHANGED <<file, count, local>>

(* rotateActiveLogFile: the oldest archive goes, *)
RemoveOldest(w) ==
  /\ At(w, "oldest")
  /\ file' = [file EXCEPT ![Archives] = NoFile]
  /\ gen' = Set(gen, w, Archives - 1)
  /\ Goto(w, IF Archives = 1 THEN "archive" ELSE "shift")
  /\ UNCHANGED <<count, console, persistent, len, reporting, kept>>

Renamed(from, to) ==
  IF Exists(file[from]) THEN [file EXCEPT ![to] = file[from], ![from] = NoFile] ELSE file

(* Mutant: the active file is shifted like an archive. *)
ShiftTooFar(w) ==
  /\ At(w, "shift")
  /\ file' = Renamed(gen[w], gen[w] + 1)
  /\ gen' = Set(gen, w, gen[w] - 1)
  /\ Goto(w, IF gen[w] = 0 THEN "archive" ELSE "shift")
  /\ UNCHANGED <<count, console, persistent, len, reporting, kept>>

(* the others move up by one, the older ones first, *)
Shift(w) ==
  /\ At(w, "shift")
  /\ file' = Renamed(gen[w], gen[w] + 1)
  /\ gen' = Set(gen, w, gen[w] - 1)
  /\ Goto(w, IF gen[w] = 1 THEN "archive" ELSE "shift")
  /\ UNCHANGED <<count, console, persistent, len, reporting, kept>>

(* The file cannot be written: it is disabled, and the console says so.     *)
FileFails(w) ==
  /\ persistent' = Set(persistent, w, FALSE)
  /\ UNCHANGED console \/ ("console" \in Faults /\ console' = Set(console, w, FALSE))
  /\ Goto(w, "return")
  /\ UNCHANGED <<file, count, len, reporting, gen, kept>>

(* and the active file becomes the first; here a missing file is an error.  *)
ArchiveActive(w) ==
  /\ At(w, "archive")
  /\ IF Exists(file[Active])
     THEN file' = Renamed(Active, 1) /\ Goto(w, "append") /\ UNCHANGED <<count, local>>
     ELSE FileFails(w)

(* Mutant: the entry itself is forgotten after the report. *)
AppendReportOnly(w) ==
  /\ At(w, "append")
  /\ count' = count + 1
  /\ file' = [file EXCEPT ![Active] = [entries |-> @.entries \cup {count'}, size |-> @.size + len[w]]]
  /\ reporting' = Set(reporting, w, FALSE)
  /\ kept' = Set(kept, w, kept[w] \/ ~reporting[w])
  /\ Goto(w, "return")
  /\ UNCHANGED <<console, persistent, len, gen>>

(* Mutant: the active file is opened without O_APPEND. *)
AppendTruncating(w) ==
  /\ At(w, "append")
  /\ count' = count + 1
  /\ file' = [file EXCEPT ![Active] = [entries |-> {count'}, size |-> len[w]]]
  /\ reporting' = Set(reporting, w, FALSE)
  /\ kept' = Set(kept, w, kept[w] \/ ~reporting[w])
  /\ Goto(w, IF reporting[w] THEN "size" ELSE "return")
  /\ UNCHANGED <<console, persistent, len, gen>>

(* appendToActiveLogFile; after the report of a failed console the entry.   *)
Append(w) ==
  /\ At(w, "append")
  /\ count' = count + 1
  /\ file' = [file EXCEPT ![Active] = [entries |-> @.entries \cup {count'}, size |-> @.size + len[w]]]
  /\ reporting' = Set(reporting, w, FALSE)
  /\ kept' = Set(kept, w, kept[w] \/ ~reporting[w])
  /\ Goto(w, IF reporting[w] THEN "size" ELSE "return")
  /\ UNCHANGED <<console, persistent, len, gen>>

(* Any call on the files fails. *)
WriteFails(w) ==
  /\ "file" \in Faults /\ pc[w] \in {"size", "oldest", "shift", "archive", "append"}
  /\ FileFails(w)

(* Without a destination the operation that logged fails. *)
Return(w) ==
  /\ At(w, "return")
  /\ Goto(w, IF console[w] \/ persistent[w] THEN "idle" ELSE "stopped")
  /\ len' = Set(len, w, 0) /\ gen' = Set(gen, w, 0) /\ reporting' = Set(reporting, w, FALSE)
  /\ kept' = Set(kept, w, TRUE)
  /\ UNCHANGED <<file, count, console, persistent>>

(* An execution ends, with an error, by its user or in the middle of a call, *)
(* and another starts with new destinations; the file may be unusable, or   *)
(* lie below a root.                                                        *)
Restart(w) ==
  /\ pc[w] \in {"idle", "stopped"} \/ "crash" \in Faults
  /\ Goto(w, "idle")
  /\ console' = Set(console, w, TRUE)
  /\ \/ persistent' = Set(persistent, w, TRUE)
     \/ "file" \in Faults /\ persistent' = Set(persistent, w, FALSE)
  /\ len' = Set(len, w, 0) /\ gen' = Set(gen, w, 0) /\ reporting' = Set(reporting, w, FALSE)
  /\ kept' = Set(kept, w, TRUE)
  /\ UNCHANGED <<file, count>>

Next ==
  \E w \in Writers :
    \/ Log(w) \/ Size(w) \/ RemoveOldest(w) \/ Shift(w) \/ ArchiveActive(w) \/ Append(w)
    \/ WriteFails(w) \/ Return(w) \/ Restart(w)

Spec == Init /\ [][Next]_vars

-----------------------------------------------------------------------------
(* Properties *)

Retained == UNION {file[g].entries : g \in Generations}

TypeOK ==
  /\ count \in 0..MaxEntries
  /\ file \in [Generations -> [entries : SUBSET (1..MaxEntries), size : Nat]]
  /\ Retained \subseteq 1..count
  /\ console \in [Writers -> BOOLEAN] /\ persistent \in [Writers -> BOOLEAN]
  /\ pc \in [Writers -> Labels] /\ len \in [Writers -> Lengths \cup {0}]
  /\ reporting \in [Writers -> BOOLEAN] /\ kept \in [Writers -> BOOLEAN]
  /\ gen \in [Writers -> Generations]

(* A call of Log that reports success has brought its entry to a            *)
(* destination: RF-13 and RF-14 (logging_coordinator.go:142).               *)
LoggedOrStopped ==
  \A w \in Writers : At(w, "return") /\ (console[w] \/ persistent[w]) => kept[w]

(* The entry is all that the file contains. *)
Alone(f) == \E e \in f.entries : f.entries = {e}

(* No file is filled beyond the limit: only an entry that is longer than the  *)
(* limit makes a file outgrow it, and that file contains nothing else.  RF-08 *)
(* (rotating_file_destination.go:38).                                         *)
SizeBounded == \A g \in Generations : file[g].size > Limit => Alone(file[g])

(* What rotation gives up is older than everything it retains: RF-09        *)
(* (rotating_file_destination.go:83).                                       *)
OldestLostFirst ==
  \A lost \in (1..count) \ Retained : \A r \in Retained : lost < r

(* Between the steps of a rotation there is always an active file left to     *)
(* archive, so that rotation never ends the recording: RF-08                  *)
(* (rotating_file_destination.go:97).                                         *)
RotationFindsFile == \A w \in Writers : At(w, "archive") => Exists(file[Active])

(* No rename of a rotation goes over a file that exists, whatever an          *)
(* interrupted rotation left: only the removal of the oldest gives up entries *)
(* (rotating_file_destination.go:89-97).                                      *)
RenamesSpare ==
  \A w \in Writers :
    /\ At(w, "shift") => ~Exists(file[gen[w] + 1])
    /\ At(w, "archive") => ~Exists(file[1])
=============================================================================
