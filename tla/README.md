# Verification of GoSync

TLA+ models of GoSync (package `gosync`, `src/src/*.go`), the TLC runs that check
them on small instances, and TLAPS proofs of the results that matter most for
every value of the constants.  `PROJECT.json` relates every definition to the
lines it models and lists runs, mutants, hazards and theorems.

## 1. The system

`gosync watch A B` keeps two directories alike, or backs one up into the other,
in cycles at an interval until a user stops it; `gosync configure` asks for the
global configuration the watch uses.  Everything runs in one goroutine of one
process.  What makes it hard lies *between* calls and *between* processes: every
file operation can fail or be the last one of the process, users and other
programs change the same files, and several executions of the program share the
configuration, the logs, the synchronization records and the backup destinations.

| Component (files) | State | Operations | Talks to |
|---|---|---|---|
| **Backup cycle** (`backup_cycle`, `backup_recovery_retention`) | the variables of one cycle | inspect, sweep candidates, make room, create, verify, publish, confirm, expire, roll back | document, archives, log |
| **Backup document** (`backup_set_state`) | one JSON document per destination: source, next order, records, pending removal | Load, Save (candidate, verify, rename; fallback remove and rename) | backup cycle |
| **Archives, identities, inventories** (`backup_archive*`, `backup_inventory`) | files in the destination | create, inspect, digest, list a tree | backup cycle |
| **Backup ownership** (`backup_ownership*`) | a lock file and a kernel lock | acquire, release | backup watch |
| **Two-directory synchronization** (`watch_command`, `directory_inventory`, `change_classification`, `*_conflict`, `synchronization_plan`, `synchronization_executor`, `synchronization_verification`, `unidirectional_sync`, `root_creation`, `missing_state_recovery`, `locked_file*`) | two trees; inventories, plan, action under way | inventory, plan, ask, execute, retry, verify, commit | record, users, log |
| **Confirmed record** (`confirmed_state_store`) | one JSON record per pair of roots | Load, save | synchronization |
| **Configuration** (`config_*`, start of `watch_command`) | `config.json`, its lock file, a temporary file | load, ask, save, watch | log, users |
| **Logging** (`logging_coordinator`, `rotating_file_destination`) | two destinations and whether they are usable; log file and archives | Log, rotate, disable | everybody |
| **Watch loop** (`watch_loop`) | the timer | cycle, wait, stop | all watches |
| **Command line, preflight, formats, log wording** | none beyond a call | | |
| **Backup watch** (`backup_watch`, backup branch of `watch_command`) | the loop, the first error of its cycles | start, cycle, wait, stop, release | ownership, log, backup cycle |
| **Remote watch** (`remote_*`, `sftp_authentication`, `ssh_host_trust`, `watch_endpoint`) | credentials, a session, the scan of `known_hosts` | prompt, authenticate, recognize a host, resolve paths | the embedding application, which connects and synchronizes |

What makes each correct:

* *Backup*: a confirmed version stays restorable until newer ones replace it,
  whatever fails; a cycle removes only what is its own; one execution per destination.
* *Synchronization*: a commit means both trees are the merge the rules
  prescribe; nothing vanishes that nobody discarded; the newer file prevails; a
  source in one direction is never written.
* *Configuration*: one editor at a time; the file holds nothing but complete
  confirmed configurations; a watch runs with what was confirmed and saved.
* *Reading a source*: what a version confirms was in the source, and was one state of it.
* *Remote watch*: credentials reach only a server the user's file recognizes; sessions
  are closed; a call names what was asked for.
* *Logging*: what is reported as logged has reached a destination; only a single entry
  longer than the limit makes a file outgrow it; rotation loses only the oldest entries.

The hazards behind these are listed, each at its line, in `PROJECT.json`.

## 2. The modules

| Module | Models | Granularity |
|---|---|---|
| `BackupHistory` | what BACKUP promises: an ordered history that grows at its newest end and shrinks at its oldest, never below the retention count | abstract |
| `BackupSet` | `runBackupCycle` and everything it calls | one action per persistent effect |
| `BackupOwnership` | `acquireBackupOwnership`, `Release`, process death | one action per system call |
| `BackupWatch` | the backup branch of `runWatchCommand`, `runBackupWatchLoop`, `runWatchLoop`; extends `BackupOwnership` | one action per system call of the ownership, per stage of the loop |
| `Trees` | the paths of a tree, who is below whom, the order of listings | constant operators |
| `BackupSnapshot` | the three readings of the source in a backup cycle; extends `Trees` | one action per directory listed, entry examined, file read |
| `RemotePaths` | validation, decoding and resolution of remote paths | pure operators |
| `RemoteSession` | `runRemoteWatchCommand`, `authenticateSFTPSession`, `CheckHostKey`, the scoped destination; extends `RemotePaths` | one action per check, line of `known_hosts` and call |
| `DirectorySync` | `performSynchronization`, `synchronizeUnidirectional` and everything they call; extends `Trees` | one action per inventory, decision and file operation |
| `Configuration` | `Configure`, `Save`, the start of `runWatchCommand` | one action per file operation, question or log entry |
| `Logging` | `LoggingCoordinator.Write`, `rotatingFileDestination.Write` | one action per call on a file |
| `MCBackupSet`, `MCDirectorySync`, `MCBackupSnapshot`, `MCRemoteSession` | small instances for TLC (symmetry; sets of paths, trees, records and lines) | |
| `*Proofs` | theorems about the module of that name | |

`BackupSet` INSTANCEs `BackupHistory` with a refinement mapping, and `BackupWatch`
puts the loop, the log destinations and Stop on top of the actions of
`BackupOwnership`, which it implements (`WatchKeepsProtocol`).  The other modules
share no state in the program, so they stand side by side.  A backup cycle relies on
there being one process in it, which `BackupWatch` shows; what it archives is an
abstract content in `BackupSet`, and how that content is read from a source that
changes is `BackupSnapshot`.  A failed log entry appears to the others as one more
call that fails.

### BackupSet

`disk` is the document, `files` the entries of the destination, `mem` the state the
cycle carries, `pc` where it is.  `Start`, `Stop` and `Crash` are executions with
their policy (source and retention count); `BeginCycle`, `OpenRoots`, `Inspect`,
`Recover`, `SweepCandidate`, `LoadState`, `MarkExpired`, `UnlinkPending`,
`ForgetPending`, `CreateCandidate`, `WriteCandidate`, `VerifyCandidate`,
`PublishArchive`, `ConfirmArchive` and `FinishCycle` follow the code in its order;
`StepFails` is any call that fails, `ReplaceFails` the failed fallback of the
document's replacement, and `RollbackCandidate`, `RollbackDestination` the deferred
function.  An archive is an identity (source, order, inventory) and a payload, each
an abstract content, so that a digest is equality.  Not modelled: JSON, ZIP and
names.

### BackupOwnership

`path` is the file the lock path names, `handle` what each execution has open,
`lock` the kernel's lock of each file.  Release is three actions (`Unlock`, `Close`,
`RemovePath`) because it is three calls.  `Platform = "windows"` means that a file
somebody has open cannot be removed.

### BackupWatch

`stage` is where `runWatchCommand` and its loop are, `available` the log
destinations an execution still has, `failed` whether `runBackupWatchLoop` holds an
error.  The ownership's actions `Open`, `Acquire`, `Reject`, `Unlock`, `Close`,
`RemovePath` and `Die` are conjuncts of `OpenLock`, `AcquireLock`, `RejectLock`,
`LeaveLoop`, `CloseLock`, `RemoveLock` and `Kill`.  A cycle is one stage that ends
well or with an error. `CloseStop` is the embedding program.  `troubled` is history.

### BackupSnapshot

`src` maps paths to a content, a folder or nothing, `links` says which files are
links. `todo` holds the entries a walk still has to visit, in the order of
`filepath.WalkDir`: `Stat` takes the information of an entry that was listed
earlier, `Read` opens and digests it, `List` lists it.  `BeginCopy`, `CopyFile`,
`Verify`, `BeginLast` and `Compare` are the archive, its verification, the second
walk and `verifyBackupSourceStability`; `StepFails` is any call that fails.  `User`
acts between any two. `seen`, `moment`, `returned`, `lasting` and `disturbed` are
history.  A link stands for a link to a file.  One to a directory is rejected by the
same test of its listed type; what the model leaves out is one that takes the place of
a directory between its `Info` and its `ReadDir`, which the code would follow.

### RemotePaths and RemoteSession

A path is a sequence of segments; a segment is a name, a dot segment, or one of the
kinds of escapes the code tells apart, among them `Spelled`, whose escapes stand for
the ordinary name `Spelt`.  `Resolve` is `resolvePath`.  In
`RemoteSession`, `Start` and `Prompt` are `runRemoteWatchCommand` up to its loop;
`CheckRequest` to `SendCredentials` are `authenticateSFTPSession` with
`CheckHostKey` line by line on the file as it was opened (`handle`), which an append
reaches and a replacement does not (`current`); `Operate` is a call of the destination,
with all the paths it was asked for and all those it names at the server (a publication
has two), and `Return` its end.  `OpenSession` and `FinishCycle` belong to
`SynchronizeRemoteWithPolicy`, which the embedding application supplies, and are
marked external.  `AppendLine`, `ReplaceFile`, `RewriteFile` and `ChangeServerKey` are
ssh, the user and the server. `RewriteFile` writes the file in place: the check goes on
with what the scanner had buffered, perhaps a line put together of two, and the end of
the new content. `seen`, `rewritten` and `sentTo` are history.

### DirectorySync

A tree maps paths to entries (kind, content, modification time).  `BeginRun`,
`TakeInventory`, `MakePlan` (with the user's answers, or none), `NextAction`, the
file operations `RemoveChild`, `CopyEntry`, `MakeFolder`, `ReadFails`, `CreateFile`,
`FillFile`, `DeleteEntry`, then `Retry`, `VerifyFirst`, `Commit` and `EndRun` are
the run; `work` holds the file operations left of the action under way and is what
recursion in `copySynchronizationPath` becomes.  `CallFails` is any call that fails;
`WriteFile`, `MakeDirectory`, `RemoveEntry`, `RemoveRoot`, `LockFile`, `UnlockFile`
and `Crash` are the surroundings.  `Merged` states the merge rules per path without
reference to plans or actions, so that `CommitIsMerge` compares two independent
statements. `mode` is chosen when a run begins and cleared when it ends, so that
runs of both modes follow each other on the same trees. `start`, `disturbed` and
`discarded` are history variables: they are never read by an action of the program.

### Configuration

`file` is what is at the path of `config.json` (a configuration, nothing, or one of
two kinds of unusable content), `lock` whose lock file exists, `pc` where each
execution is.  Replacement is `Replace`, `Unlink`, `ReplaceAgain`, as in
`ReplaceCandidate`. `Release` may leave the lock file, and a failed save its temporary
file (`candidate`), because nobody looks at the errors of their removal. `confirmed`,
`saved` and `stale` (the lock was left by an execution that was interrupted or could
not remove it) are history.

### Logging

`file` maps the active log and the archives to their entries and size; entries are
numbered in the order they are appended.  `Log` decides what happens to the console;
`Size`, `RemoveOldest`, `Shift`, `ArchiveActive` and `Append` are the log file's
calls; `WriteFails` is any of them failing; `Return` and `Restart` close the circle.
Abstractions: one append is one step, and the report of a failed console has the
length of the entry it accompanies.  The length of an entry is not bounded: one that is
longer than the limit goes to an empty file, as in the code.

## 3. The runs

| Run | Instance | What it shows |
|---|---|---|
| `backup_set` | 2 sources, 2 contents, 3 identifiers, retention 1..2, orders to 4; failures, crashes, edits, lost logging, foreign files, damaged archives | `HistoryIntact`, `NextSaveIsValid`, `SpaceBounded`, `OnlyOwnFilesRemoved`, `BindingStable`; implements `BackupHistory` |
| `backup_cycle_ends` | 1 source, orders to 3; also the replacement that loses the document | `CycleEnds`, `PendingResolved` |
| `backup_watch` | 3 executions, 2 lock files, one log destination, Windows, Stop and kills | `CyclesExclusive`, `RejectedOnlyByOwner`, `StopReleases`, `FailuresReported` |
| `backup_snapshot` | a directory, an entry in it, one beside it; every source; 3 changes at any time; failing calls | `ArchivedWasSeen`, `ConfirmedIsSnapshot`, `LinksRejected`, `QuietCycleConfirms` |
| `sync_merge` | a directory and an entry in it, both modes, every pair of trees and every record, an edit between runs, locks, failures and crashes, Windows | `CommitIsMerge`, `MergeSurvives`, `CalmRunCommits`, `RunEnds` |
| `sync_edits` | the same paths and modes, every pair of trees of one age, 2 edits at any time, locks | `OnlyDiscardedVanish`, `NewestRetained`, `SourceUntouched` |
| `configuration` | 2 executions, 2 configurations, every fault | `OneEditor`, `WatchesSaved`, `ConfigurationKept`, `LockGivenUp` |
| `logging` | 1 execution, 3 archives, limit 3, lengths 1, 2 and 4, 12 entries | `LoggedOrStopped`, `SizeBounded`, `OldestLostFirst` |
| `remote_session` | 2 keys, 4 kinds of lines, files of up to 2 lines, 2 changes (appended, replaced, rewritten in place), a path of each kind | `CredentialsFollowTrust`, `SessionsClosedOnce`, `CallsNameWhatWasAsked` |
| `backup_interrupted_candidate`, `backup_interrupted_removal`, `sync_partial` | small | violations, section 6 |

Every module of the program has its type invariant checked in one passing run (that
of `BackupOwnership` is part of `WatchTypeOK`), and every property of a passing run
has a mutant of the code that breaks it there.

**Bounds.** `MaxRetention = 2` lets a count shrink between executions and retention
remove more than one version in a cycle; four orders suffice for that followed by
another version, three identifiers for the versions kept, the one on its way and an
orphan.  A directory with one entry is the smallest tree in which recursion, parents
and a choice between a file and a directory matter; a copy of one path never reads
another, so more paths add interleavings of independent actions.  Two edits are what
it takes to discard and to recreate, or to change both sides.  Two configuring
executions are what mutual exclusion is about. Three archives give `Shift` two
steps, and 12 entries several full rotations (the code keeps four archives of
10,000,000 bytes); the lengths are one that fits twice and more, one that fits with
another but not with its like, and one that is longer than the limit.  Three executions are an owner, one that opened the file before the owner left
and one that comes afterwards; on Windows two files of that name never exist at once
longer than one of them is open.  One log destination stands for all, since the
watch only asks whether any is left. Three changes of a source are one for each
reading; the entry beside the directory gives walks an order, the one inside it
gives changes of a parent while its entries are listed.  A file is read in one step:
blocks of one file would be further paths that exist together, and what is shown per
path would hold per block.  Of `known_hosts` two lines are what a vouching line and
one that overrides it need, and two changes let the file become good and bad again,
or the key change and the file follow.  Each kind of segment the validation tells
apart occurs in the paths asked for, and pairs of names that would meet after
decoding.  Deadlock is checked in every run.

**Fairness.** Liveness is asked only of what is sequential code: weak fairness of
the steps of a cycle (`BackupSet!CycleStep`), of a run (`DirectorySync!RunStep`) and
of each execution's own steps (`Configuration!Step`, `BackupWatch!WatchStep`: calls
return and the timer of the interval fires).  Nothing is assumed of users, crashes,
answers to questions, who starts a watch or closes Stop, or when a cycle of
`BackupSet` begins.  `RunEnds` is conditional on other programs letting go of their
files for good, since `retryLockedFile` waits for that without limit.

## 4. The proofs

The proof modules assume only what the modules' ASSUMEs say: that sentinel values are
not values, that bounds are natural numbers (`MaxClock` at least 1), that `Listing`
enumerates finitely many paths, each after those above it, that the paths above one
path form a chain, that every path is a top or below one, that a first record lists
every path with those above it, that the executions of `Logging` are finitely many and
its entries not empty, that the root of a remote destination is a valid directory, and
that what an escaped segment stands for is a name. Nothing limits the number of executions, paths, versions, edits or faults,
except where said.

**BackupSetProofs.** `TypeCorrect`: types; then `SetInvariant`. `HistoryIntact` alone
is not inductive: a step that confirms a candidate preserves it only if the candidate
on disk is what the verification has seen, and a step that removes a file only if the
file is not a record's. `SetInv` says so: the document is absent or valid
(`DocumentValid`); while a cycle may save, it is unbound or bound to the cycle's
source and equal to `mem` (`DocumentBound`, `SavesStartFromDisk`); doomed files are
unrecorded archives of this source (`DoomedOwned`); a pending removal is named while
it is carried out (`PendingNamed`); and the candidate carries the identity its record
will have (`CandidateMade`). From it follow `HistoryStaysIntact`, `SavesAreAccepted`,
`MemoryFollowsDocument`, `RemovesOnlyItsOwn` and `BindingHolds` (for sets of faults
without a failed replacement, which makes the document vanish). Under the same
condition `HistoryIsRefined` shows step by step that the set implements
`BackupHistory`: a step that confirms an archive is its `Confirm`, a step that marks
the oldest version for removal its `Expire`, the start of an execution its
`Reconfigure`, and any other step stutters; that the versions of a document can be
counted is `FiniteInv`. `SpaceInv` follows the unrecorded files through a cycle: after
the sweep they are users' (`Swept`), the second retention never leads back to a new
version (`Returning`), and there is room when one is made (`Room`); hence
`SpaceStaysBounded`.

**BackupOwnershipProofs.** `LockHeld` ties the kernel's locks to the program's labels;
it gives `RejectionJustified` on every platform. Where the path stays under an open
file, or executions end only with their process, `OwnershipInv` adds that every handle
is what the path names: two owners have locked the same file, so they are one
(`OneOwner`, `OwnerFound`).

**BackupWatchProofs.** `WatchKeepsProtocol` maps every step of the watch to a step of
`BackupOwnership` or a stutter, so what is proved of the protocol holds of the watch.
`WatchInv` ties the stages to the labels of the protocol: in a cycle, or between two,
an execution owns the lock; with `OneOwner`, `CyclesAreExclusive` follows. `failed`
and `troubled` agree while the loop runs, hence `FailuresAreReported`; the types are
`WatchTypeCorrect`. For any number of executions and files.

**BackupSnapshotProofs.** What a walk has recorded was `seen` during it, and what it
has not recorded it has still to visit or has seen absent (`WalkInv`; `Pending` are
the paths the remaining tasks cover, `StageInv` what later stages keep of it). A
confirmed version therefore agrees with something seen in the first and in the last
walk (`VersionsWereSeen`); if no value came back, a path with the same value in both
had it all the while, so it is the value at the end of the first walk and at the
beginning of the last (`MomentInv`, `VersionsAreSnapshots`). A link that lasts is
still ahead of the first walk or has failed it (`LinkInv`, `LinksAreRejected`). Of a
cycle that nobody disturbs, `QuietInv` says that what the tasks were told of an entry
is so, that each walk has seen only what the source has, and that the archive lacks
only what is still to be copied: only a link makes it fail (`QuietCyclesConfirm`). For
every tree, any number of changes.

**DirectorySyncProofs.** Invariants that build on each other, for any trees, any
number of paths, runs of both modes in any order, edits and locks, and, but where
said, failures, retries and crashes.

* `AimedInv`: in a run of the unidirectional mode every action of the plan, the one
  under way and all file operations left of it write to the side opposite to the
  source, so the program leaves the source alone (`SourceStaysUntouched`).
* `TypeInv` has the trees closed upwards (`WellFormed`) through every operation and
  edit (`TypeCorrect`). `PlanInv` adds what a plan is: in the order of the listing
  (`Place`), for each path whose inventories differ, what the rules decide, less what
  is done; and the work under way is the action itself at some stage or copies below
  it (`WorkForm`). So the file that is taken away is never the newer one
  (`NewestIsRetained`).
* `SurviveInv`: until users interfere, what no action at the path or above it is to
  change is as the run found it. The side a copy is taken from is such a place, so the
  last copy of what the merge keeps stands through failures and crashes
  (`MergeAlwaysSurvives`).
* `VanishInv`: a confirmed path that is missing on a side was discarded, or the action
  under way has taken it to put there what the other side has (`Halfway`); inventories
  lack a confirmed path only if it was discarded (`Accounted`). Hence
  `OnlyTheDiscardedVanish`, which needs `Faults` without crashes and failing calls:
  either ends an action at `Halfway` for good, and then the property is false
  (`sync_partial`).
* `MergeInv`: what the actions so far have opened and cleared stays so, nothing exists
  that the run did not find, and after the verification the two inventories are the
  trees. What is committed is then the merge (`CommitsAreMerges`).
* `CalmInv` adds that every file operation of an undisturbed run finds its source and
  the directories above its destination (`CopyForm`), and that paths already passed
  have reached the merge (`Advanced`). No operation fails, the verification finds
  equal trees, and the run commits (`CalmRunsCommit`). On Unix this is for the
  bidirectional mode only, because a mirror may fail below a file (section 6, number
  11).

**RemoteSessionProofs.** `TrustInv` (with `Scanned`): the notes are what the lines
read so far say of the presented key, those lines are the beginning of a content in
`seen`, and only an append changes what is open, until the file is rewritten in place. At
the end of the scan the verdict is therefore that of one content
(`CredentialsOnlyOnTrust`), for all keys, lines and changes but that one (section 6,
number 17). `SessionsAreClosedOnce` follows from the labels, `TypeCorrect` from
`StateInv`. A path that is accepted has no segment that `path.Join` would drop or
resolve, and `Joined` of it appends it to the root: of the prefixes where this is not
so, a shortest one would have a predecessor where it is (`LeastNatural`,
`JoinedAppends`). So accepted paths are names of different files (`OneNamePerFile`),
and a call reaches what it was asked for (`CallsAreNamed`), for paths of any length.

**ConfigurationProofs.** `IInv`: whoever is in the section holds the lock (a stale
lock only keeps others out); what is saved or run with has been confirmed; a candidate
exists inside Save and, afterwards, only where the save failed or was interrupted;
between Save and release what was saved is what was saved last. It yields
`TypeCorrect`, `SingleEditor`, `WatchesRunConfirmed`, `WatchesRunSaved`, `CandidatesGo` and `ConfigurationStays`; without failing renames, a
valid configuration is never lost (`ConfigurationSurvives`).

**LoggingProofs.** `Carried`: an available console has the entry, and so has an
available file at the end; hence `ReportedIsLogged`, with `TypeCorrect`, for any
number of executions. For one execution `FilesInv` adds that an entry is appended to an
empty file or where it fits and that a rotation has an active file and finds no file
where the next rename goes (`Prepared`), that a file larger than the limit contains a
single entry and only a missing one is empty (`Bounded`), and that what is on its way
has a length (`Measured`): `SizesStayBounded`, `RecordingGoesOn`, `RenamesLoseNothing`.
`OrderInv` adds that every archive holds only what is older than the files before it
(`Ordered`), so the archive a rotation removes is the oldest (`OldestIsLostFirst`).
For every limit and number of archives. One execution is assumed because it is not
true of two (section 6, number 13).

Some results are theorems only, because they hold for every value of the constants and
a run would repeat them: `OneOwner`, `OwnerFound`, `MemoryFollowsDocument`,
`WatchesRunConfirmed`, `CandidatesGo`, `ConfigurationSurvives`, `RecordingGoesOn`,
`RenamesLoseNothing`, `OneNamePerFile`.

**Only model-checked:** liveness, that is `CycleEnds`, `PendingResolved`, `RunEnds`,
`LockGivenUp` and `StopReleases`; it rests on ENABLED, which the prover does not
handle. Every invariant and action property of a passing run is a theorem, under the
conditions named above. Those conditions are not the prover's but the program's:
without them the property is false (section 6, numbers 3, 5, 6, 11, 13 and 17).

## 5. What is not modelled, and why

* Formats (JSON documents, ZIP, names, log wording) and the command line: pure
  functions; their outcomes are values of the models.
* How the synchronization walks a tree: one step in `DirectorySync`, so an edit in the
  middle of that walk is an edit before or after it.  (`BackupSnapshot` has the walk of the
  backup entry by entry.)
* Two watches of the same pair of roots with a record each: the second acts as a
  user who edits, but its record is not there.
* The parsing of destination URLs, the listing of a remote directory, the redaction
  of credentials in error texts, and the capabilities of a destination that nothing
  in the repository calls.  A synchronization over SFTP itself is the embedding
  application's (`SynchronizeRemoteWithPolicy`).
* Preflight, and the comparison of roots with each other: filters without state that
  end a run before it changes anything.
* The length of intervals: a timer fires at any time.

## 6. Where code and documents disagree

The first three are runs whose counterexamples TLC prints.

1. *Interrupted version* (`backup_interrupted_candidate`).  A process that ends after
   `CreateTemp` leaves a temporary file; `isOwnedBackupCandidate` accepts only `.zip`
   names (`backup_recovery_retention.go:159`), so every later cycle reports a foreign
   entry.  `specs/004-compressed-backup/spec.md:59` has it removed in the next cycle.
2. *Interrupted removal* (`backup_interrupted_removal`).  Ending between the unlink and
   the save (`backup_recovery_retention.go:370`) leaves a record without archive,
   which the next inspection calls damage before the removal can be resumed;
   `004 plan.md:393` says it never does.
3. *Partial copy* (`sync_partial`).  The destination is removed before the copy
   (`synchronization_executor.go:85`); after a crash the path is on one side and in the
   record, so the next run deletes the last copy.  `001 plan.md:56`.

The next ones are behaviours the models have too.  The properties are stated
around them, with the exception named in the property or its comment:

4. *Addition below a deletion.*  Deleting a confirmed directory takes unconfirmed
   entries below it (`synchronization_executor.go:117`), although RF-05
   (`001 spec.md:25`) has items the record does not know
   replicated; `OnlyDiscardedVanish` counts them as discarded with it.
5. *Replacement fallback.*  When the rename of a document fails, the old one is
   removed before the second attempt (`backup_set_state.go:543`, `config_store.go:70`);
   if that fails as well, the history or the configuration is gone.  `BackupSet` with
   the fault `replace` shows what later cycles do: they start a new, sound set.
6. *Release on Unix.*  `Release` unlocks, closes and removes the path; an execution
   that opened the old file before the removal locks it while a newcomer
   creates a new one, so two own the destination (`backup_ownership.go:44`).  With
   `Platform = "unix"` and `Stoppable = TRUE` TLC finds `CyclesExclusive` violated in
   `BackupWatch` with three executions.  `main.go` never passes `Stop`, so it takes a
   caller of the package.
7. *Torn copy.*  A file is written in place (`synchronization_executor.go:99`); a run
   that ends half way leaves a partial file that is newer than its source and wins
   the next comparison.
8. *Stale plan.*  What is written at a destination after the inventories is replaced by
   what the plan names; `NewestRetained` and `OnlyDiscardedVanish` therefore speak of what
   the inventories found.
9. *Chosen directory.*  After a directory is chosen over a file, its confirmed
   children are still classified as deletions and leave the chosen side
   (`synchronization_plan.go:15`); this, and merges that keep an entry of a directory
   they do not keep, is `Tangled`.
10. *Missing root.*  A root that is missing is created empty although a record
    exists; what was confirmed in the other is then deleted (`root_creation.go:10`).
11. *Mirror on Unix.*  A source file over a destination directory with entries makes a
    one-directional run fail with ENOTDIR when it deletes the former entries
    (`unidirectional_sync.go:30`): `sync_merge` is checked for Windows.
12. *Stale configuration lock.*  The lock is a file made with O_EXCL; after a crash
    every configuration is refused until a user removes it (`config_ownership.go:23`).
13. *Shared rotation.*  Two executions rotate the same files without a lock: one may
    overwrite an archive the other has just made or find no active file and stop
    writing to it (`rotating_file_destination.go:83-97`).  `Logging` with two `Writers`
    breaks `OldestLostFirst`, `SizeBounded` and `RotationFindsFile`.
14. *Backup errors.*  `runBackupWatchLoop` goes on after every failed cycle
    (`backup_watch.go:12`), also when no log destination is left, for which
    `specs/002-log-system/spec.md:35` (RF-14) wants the operation to end.
    `BackupWatch` shows the behaviour: with `available` empty, `BeginCycle` fails again and again, and only Stop
    or a kill ends the watch (`StopReleases`).
15. *Values that come back.*  The readings of a source are compared by content, so a file
    that changes and changes back between them may be confirmed next to another's
    later state; `ConfirmedIsSnapshot` names the exception (`returned`).
16. *Short-lived links.*  A link that takes a file's place after its directory was listed
    is followed, and its content archived if it is there in every reading
    (`backup_inventory.go:96`); `LinksRejected` speaks of links that last.
17. *`known_hosts` rewritten in place.*  The scanner reads the file in pieces
    (`ssh_host_trust.go:71-73`).  When an editor writes it in place meanwhile, the check
    sees the beginning of one content and the end of another, and may recognize a key
    that neither recognizes; `CredentialsFollowTrust` excepts it (`rewritten`).  Without
    the exception TLC finds a violation with `RewriteFile` in between.
18. *Temporary file that stays.*  When a save of the configuration fails and its
    temporary file cannot be removed, the error is ignored and the file stays
    (`config_store.go:43`, `config_store.go:85`); nothing removes it later.
    `CandidatesRemoved` names the case.
19. *Long log entries.*  An entry longer than the limit is appended to an empty or fresh
    file (`rotating_file_destination.go:38`), which is then larger than the 10 MB of
    RF-08.  `specs/002-log-system/plan.md:159` foresees it, since it rotates only a
    file that contains data; `SizeBounded` allows exactly that.

## 7. Plan

Done: the backup cycle with its abstract history, ownership, the backup watch
composed with ownership, the reading of a changing source, two-directory
synchronization in both modes, configuration, logging, the remote watch up to the
calls of its destination, and the proofs of their safety and action properties.  In
this order remain:

1. An abstract specification of synchronization (two replicas and a baseline) that
   `DirectorySync` implements in calm runs, and the proof that it does.
2. Two executions over the same roots, each with its own plan and the shared record
   (hazard at `confirmed_state_store.go:42`).
3. Decoding and validation of the configuration, and the parsing of destination URLs,
   against reference definitions.
