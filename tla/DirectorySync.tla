--------------------------- MODULE DirectorySync ---------------------------
(***************************************************************************)
(* Synchronization of two directory trees: performSynchronization of       *)
(* watch_command.go and synchronizeUnidirectional of unidirectional_sync.go*)
(* with the inventories, plans, execution, verification and confirmed      *)
(* record they use.                                                        *)
(*                                                                         *)
(* A tree maps each relative path to an entry; the inventories are taken   *)
(* one after the other, the plan is executed file operation by file        *)
(* operation, and users may change both trees in between.                  *)
(***************************************************************************)
EXTENDS Trees

CONSTANTS
  Contents,     \* file contents
  Torn,         \* the content of a file whose copy did not finish
  NoContent,
  Modes,        \* synchronization modes a configuration may name
  Platform,     \* "unix" or "windows"
  StartTrees,   \* trees a user may begin with
  StartRecords, \* confirmed records a first run may find
  MaxEdits,     \* bound: changes made by users
  MaxClock,     \* bound: distinct modification times
  Faults        \* which disturbances the environment may cause

FaultKinds == {"edit", "race", "crash", "io", "lock"}

ASSUME ValueAssumption ==
  /\ Torn \notin Contents /\ NoContent \notin Contents \cup {Torn}
  /\ Modes \subseteq {"bidirectional", "unidirectional"} /\ Platform \in {"unix", "windows"}
  /\ MaxEdits \in Nat /\ MaxClock \in Nat \ {0} /\ Faults \subseteq FaultKinds

Sides == {1, 2}
Other(s) == 3 - s

-----------------------------------------------------------------------------
(* Trees *)

Absent == [kind |-> "none", content |-> NoContent, mtime |-> 0]
Folder == [kind |-> "dir", content |-> NoContent, mtime |-> 0]
FileOf(c, t) == [kind |-> "file", content |-> c, mtime |-> t]

Entry == {Absent, Folder}
           \cup {FileOf(c, t) : c \in Contents \cup {Torn}, t \in 0..MaxClock}

WellFormed(t) ==
  \A p \in Paths : t[p].kind # "none" => \A a \in Ancestors(p) : t[a].kind = "dir"

(* A confirmed record lists an inventory: each path with those above it. *)
Record ==
  [found: BOOLEAN, paths: {ps \in SUBSET Paths : \A p \in ps : Ancestors(p) \subseteq ps}]

ASSUME StartAssumption ==
  /\ \A t \in StartTrees : t \in [Paths -> Entry] /\ WellFormed(t)
  /\ StartRecords \subseteq Record

NoRecord == [found |-> FALSE, paths |-> {}]
Present(t) == {p \in Paths : t[p].kind # "none"}

(* os.RemoveAll *)
Removed(t, p) == [q \in Paths |-> IF q = p \/ q \in Inside[p] THEN Absent ELSE t[q]]

(* os.MkdirAll, for a path none of whose ancestors is a file. *)
WithFolders(t, ps) ==
  [q \in Paths |-> IF q \in ps /\ t[q].kind = "none" THEN Folder ELSE t[q]]

UnderFile(t, p) == \E a \in Ancestors(p) : t[a].kind = "file"

(* synchronizationEntriesHaveEquivalentContents, and the whole inventories. *)
Alike(e, f) == e.kind = f.kind /\ e.content = f.content
Equivalent(t, u) == \A p \in Paths : Alike(t[p], u[p])

ChildrenIn(t, p) == {q \in Children(p) : t[q].kind # "none"}

-----------------------------------------------------------------------------
(* Plans *)

Action == [op: {"copy", "mkdir", "create", "fill", "unread", "delete"}, to: Sides, path: Paths,
           content: Contents \cup {Torn, NoContent}]

Do(op, s, p) == [op |-> op, to |-> s, path |-> p, content |-> NoContent]
Copy(from, p) == Do("copy", Other(from), p)

(* Mutant: any record makes a path that is on one side only a deletion. *)
OneSidedAnyRecord(s, p, rec) == IF rec.found THEN Do("delete", s, p) ELSE Copy(s, p)

(* classifyAdditionsAndDeletions *)
OneSided(s, p, rec) == IF p \in rec.paths THEN Do("delete", s, p) ELSE Copy(s, p)

Newer(e, f) == e.mtime > f.mtime

(* Mutant: the older version prevails. *)
OldestPrevails(a, b, p, choice) ==
  IF Newer(a[p], b[p]) THEN Copy(2, p)
  ELSE IF Newer(b[p], a[p]) THEN Copy(1, p) ELSE Copy(choice[p], p)

(* resolveFileContentConflict; choice is the answer of the user. *)
FileConflict(a, b, p, choice) ==
  IF Newer(a[p], b[p]) THEN Copy(1, p)
  ELSE IF Newer(b[p], a[p]) THEN Copy(2, p) ELSE Copy(choice[p], p)

(* The paths on which generateSynchronizationPlan asks the user. *)
Questions(a, b) ==
  {p \in Present(a) \cap Present(b) :
     \/ a[p].kind # b[p].kind
     \/ a[p].kind = "file" /\ a[p].content # b[p].content /\ a[p].mtime = b[p].mtime}

ActionFor(p, a, b, rec, choice) ==
  IF b[p].kind = "none" THEN OneSided(1, p, rec)
  ELSE IF a[p].kind = "none" THEN OneSided(2, p, rec)
  ELSE IF a[p].kind # b[p].kind THEN Copy(choice[p], p)
  ELSE FileConflict(a, b, p, choice)

(* Mutant: what only the other side has is copied back. *)
CopiesBack(p, a, b, side) ==
  IF (IF side = 1 THEN a[p] ELSE b[p]).kind = "none" THEN Copy(Other(side), p) ELSE Copy(side, p)

(* generateAuthoritativeSynchronizationPlan; with side 1 this is also       *)
(* generateUnidirectionalSynchronizationPlan.                               *)
AuthoritativeFor(p, a, b, side) ==
  IF (IF side = 1 THEN a[p] ELSE b[p]).kind = "none"
  THEN Do("delete", Other(side), p) ELSE Copy(side, p)

(* compareDirectoryInventories *)
Differing(a, b) == InOrder({p \in Paths : ~Alike(a[p], b[p])})

MergePlan(a, b, rec, choice) ==
  LET todo == Differing(a, b)
  IN  [i \in DOMAIN todo |-> ActionFor(todo[i], a, b, rec, choice)]

SidePlan(a, b, side) ==
  LET todo == Differing(a, b)
  IN  [i \in DOMAIN todo |-> AuthoritativeFor(todo[i], a, b, side)]

-----------------------------------------------------------------------------
VARIABLES
  tree,       \* the two directory trees
  missing,    \* the roots that do not exist
  record,     \* the confirmed synchronization record: its paths
  pc,         \* where the synchronization is
  mode,       \* the mode of the configuration the run has read
  inv,        \* the inventories it has taken
  plan,       \* the actions still to be executed
  current,    \* the action under way
  work,       \* the file operations left of it
  clock,      \* the latest modification time
  locked,     \* another program holds a file of the action under way
  edits,      \* bound: changes made so far
  start,      \* history: what the run found when it began, and the answers given
  disturbed,  \* history: what has disturbed this run
  discarded   \* history: paths a user has removed since they were confirmed

run  == <<inv, plan, current, work>>
env  == <<mode, clock, locked, edits>>
history == <<start, disturbed, discarded>>
vars == <<tree, missing, record, pc, run, env, history>>

NoTree == [p \in Paths |-> Absent]
NoAction == <<>>
NoInventories == [s \in Sides |-> NoTree]
NoStart == [tree |-> NoInventories, missing |-> {}, record |-> NoRecord,
            choice |-> [p \in Paths |-> 1], answered |-> TRUE]

Init ==
  /\ tree \in [Sides -> StartTrees] /\ missing \in SUBSET {s \in Sides : tree[s] = NoTree}
  /\ record \in StartRecords
  /\ pc = "idle" /\ mode = "none"
  /\ inv = NoInventories /\ plan = <<>> /\ current = NoAction /\ work = <<>>
  /\ clock = 1 /\ locked = FALSE /\ edits = 0
  /\ start = NoStart /\ disturbed = {}
  /\ discarded = {p \in record.paths : \E s \in Sides : tree[s][p].kind = "none"}

At(label)   == pc = label
Goto(label) == pc' = label

(* The run returns an error: the watch ends, the record stays. *)
Fail == Goto("failed") /\ UNCHANGED run

(* The configuration is read, the roots are scanned and created; a source    *)
(* that is missing is an error.                                              *)
BeginRun ==
  /\ At("idle") /\ mode' \in Modes
  /\ start' = [NoStart EXCEPT !.tree = tree, !.missing = missing, !.record = record]
  /\ IF mode' = "unidirectional" /\ 1 \in missing
     THEN Goto("failed") /\ UNCHANGED missing
     ELSE Goto("first") /\ missing' = {}
  /\ UNCHANGED <<tree, record, run, clock, locked, edits, disturbed, discarded>>

(* buildDirectoryInventory of one root, then of the other. *)
TakeInventory(s, label, next) ==
  /\ At(label)
  /\ inv' = [inv EXCEPT ![s] = tree[s]]
  /\ Goto(next)
  /\ UNCHANGED <<tree, missing, record, plan, current, work, env, history>>

(* The actions, given the inventories, the record and the user's answers.   *)
(* Without a record, a user names the side that prevails for the whole tree.*)
PlanWith(choice, side) ==
  IF mode = "unidirectional" THEN SidePlan(inv[1], inv[2], 1)
  ELSE IF record.found \/ Equivalent(inv[1], inv[2])
  THEN MergePlan(inv[1], inv[2], record, choice)
  ELSE SidePlan(inv[1], inv[2], side)

Asked ==
  /\ mode = "bidirectional"
  /\ IF record.found THEN Questions(inv[1], inv[2]) # {} ELSE ~Equivalent(inv[1], inv[2])

(* The choices that tell apart the answers to the questions asked. *)
Answers ==
  {c \in [Paths -> Sides] : \A p \in Paths \ Questions(inv[1], inv[2]) : c[p] = 1}

MakePlan ==
  /\ At("plan")
  /\ \/ \E choice \in Answers, side \in Sides :
          /\ ~record.found \/ side = 1
          /\ plan' = PlanWith(choice, side)
          /\ start' = [start EXCEPT !.choice =
                         IF record.found THEN choice ELSE [p \in Paths |-> side]]
          /\ Goto("execute") /\ UNCHANGED <<inv, current, work>>
     \/ Asked /\ Fail /\ start' = [start EXCEPT !.answered = FALSE]
  /\ UNCHANGED <<tree, missing, record, env, disturbed, discarded>>

(* Mutant: the action stays in the plan. *)
NextActionAgain ==
  /\ At("execute") /\ work = <<>> /\ plan # <<>>
  /\ current' = <<Head(plan)>> /\ work' = current'
  /\ UNCHANGED <<tree, missing, record, pc, inv, plan, env, history>>

NextAction ==
  /\ At("execute") /\ work = <<>> /\ plan # <<>>
  /\ current' = <<Head(plan)>> /\ work' = current'
  /\ plan' = Tail(plan)
  /\ UNCHANGED <<tree, missing, record, pc, inv, env, history>>

(* One file operation of copySynchronizationPath or removeSynchronizationPath: *)
(* its effect on the destination tree and the operations that remain.          *)
Doing(op) == At("execute") /\ work # <<>> /\ Head(work).op = op /\ ~locked

Effect(t, rest) ==
  /\ tree' = [tree EXCEPT ![Head(work).to] = t]
  /\ work' = rest
  /\ UNCHANGED <<missing, record, pc, inv, plan, current, env, history>>

OperationFails ==
  /\ Fail
  /\ UNCHANGED <<tree, missing, record, env, history>>

Here   == tree[Head(work).to]
There  == tree[Other(Head(work).to)]
Target == Head(work).path
Then(op, content) ==
  <<[op |-> op, to |-> Head(work).to, path |-> Target, content |-> content]>> \o Tail(work)

(* RemoveAll takes the entries below a directory one by one, leaves first. *)
RemoveChild ==
  /\ Doing("copy") \/ Doing("delete")
  /\ Doing("copy") => There[Target].kind # "none"
  /\ \E p \in Inside[Target] :
       /\ Here[p].kind # "none" /\ \A q \in Inside[p] : Here[q].kind = "none"
       /\ Effect([Here EXCEPT ![p] = Absent], work)

(* Mutant: a file is copied over whatever is at the destination. *)
CopyOver ==
  /\ Doing("copy")
  /\ IF There[Target].kind = "none" \/ UnderFile(Here, Target) THEN OperationFails
     ELSE IF There[Target].kind = "dir"
     THEN Effect(Removed(Here, Target), Then("mkdir", NoContent))
     ELSE Effect(WithFolders(Here, Ancestors(Target)), Then("create", NoContent))

(* Lstat of the source; a directory replaces whatever is at the destination, *)
(* for a file the parents are made and the old destination is removed.       *)
CopyEntry ==
  /\ Doing("copy")
  /\ IF There[Target].kind = "none" \/ UnderFile(Here, Target) THEN OperationFails
     ELSE IF There[Target].kind = "dir"
     THEN Effect(Removed(Here, Target), Then("mkdir", NoContent))
     ELSE Effect(Removed(WithFolders(Here, Ancestors(Target)), Target), Then("create", NoContent))

(* MkdirAll of the destination, ReadDir of the source, and its children. *)
MakeFolder ==
  /\ Doing("mkdir")
  /\ IF UnderFile(Here, Target) \/ Here[Target].kind = "file" THEN OperationFails
     ELSE LET children == InOrder(ChildrenIn(There, Target))
          IN  Effect(WithFolders(Here, Ancestors(Target) \cup {Target}),
                     IF There[Target].kind # "dir" THEN Then("unread", NoContent)
                     ELSE [i \in DOMAIN children |-> Do("copy", Head(work).to, children[i])]
                            \o Tail(work))

(* The source that was to be read is no longer what it was. *)
ReadFails == Doing("unread") /\ OperationFails

(* The source is opened and an empty destination file is created. *)
CreateFile ==
  /\ Doing("create")
  /\ IF \/ There[Target].kind = "none" \/ Here[Target].kind = "dir"
        \/ \E a \in Ancestors(Target) : Here[a].kind # "dir"
     THEN OperationFails
     ELSE Effect([Here EXCEPT ![Target] = FileOf(Torn, clock)],
                 IF There[Target].kind = "dir" THEN Then("unread", NoContent)
                 ELSE Then("fill", There[Target].content))

(* io.Copy and the two closes.  The file that was opened may have been        *)
(* replaced at either end meanwhile.                                          *)
FillFile ==
  /\ Doing("fill")
  /\ \E t \in clock..MaxClock, c \in {Head(work).content, There[Target].content} \ {NoContent} :
       /\ t <= clock + 1 /\ clock' = t
       /\ tree' = IF Here[Target].content = Torn
                  THEN [tree EXCEPT ![Head(work).to][Target] = FileOf(c, t)] ELSE tree
  /\ work' = Tail(work)
  /\ UNCHANGED <<missing, record, pc, inv, plan, current, mode, locked, edits, history>>

(* Mutant: what is below a directory stays. *)
DeleteAlone ==
  Doing("delete") /\ Effect([Here EXCEPT ![Target] = Absent], Tail(work))

(* RemoveAll below a file is an error on Unix and nothing on Windows. *)
DeleteEntry ==
  /\ Doing("delete")
  /\ IF UnderFile(Here, Target) /\ Platform = "unix" THEN OperationFails
     ELSE Effect(Removed(Here, Target), Tail(work))

(* A locked file makes the operation fail, and retryLockedFile starts the     *)
(* whole action again after a pause.                                          *)
Retry ==
  /\ At("execute") /\ work # <<>> /\ locked
  /\ work' = current
  /\ UNCHANGED <<tree, missing, record, pc, inv, plan, current, env, history>>

(* verifyAndCommitSynchronization: two new inventories, and the record only   *)
(* if they are equivalent.                                                    *)
VerifyFirst ==
  /\ At("execute") /\ work = <<>> /\ plan = <<>>
  /\ inv' = [inv EXCEPT ![1] = tree[1]]
  /\ Goto("verify")
  /\ UNCHANGED <<tree, missing, record, plan, current, work, env, history>>

(* Mutant: the two inventories are not compared. *)
CommitUnverified ==
  /\ At("commit")
  /\ record' = [found |-> TRUE, paths |-> Present(inv[1])]
  /\ discarded' = {p \in discarded : \E s \in Sides : tree[s][p].kind = "none"}
  /\ Goto("done") /\ UNCHANGED run
  /\ UNCHANGED <<tree, missing, env, start, disturbed>>

Commit ==
  /\ At("commit")
  /\ IF Equivalent(inv[1], inv[2])
     THEN /\ record' = [found |-> TRUE, paths |-> Present(inv[1])]
          /\ discarded' = {p \in discarded : \E s \in Sides : tree[s][p].kind = "none"}
          /\ Goto("done") /\ UNCHANGED run
     ELSE Fail /\ UNCHANGED <<record, discarded>>
  /\ UNCHANGED <<tree, missing, env, start, disturbed>>

(* The next run starts with new variables: after the interval, or because a   *)
(* user starts the program again when an error has ended it.                  *)
Clear ==
  /\ inv' = NoInventories /\ plan' = <<>> /\ current' = NoAction /\ work' = <<>>
  /\ start' = NoStart /\ disturbed' = {} /\ locked' = FALSE /\ mode' = "none"

EndRun ==
  /\ pc \in {"done", "failed"}
  /\ Goto("idle") /\ Clear
  /\ UNCHANGED <<tree, missing, record, clock, edits, discarded>>

(* Any other call of a run fails. *)
CallFails ==
  /\ "io" \in Faults /\ pc \notin {"idle", "done", "failed"}
  /\ Fail /\ disturbed' = disturbed \cup {"call"}
  /\ UNCHANGED <<tree, missing, record, env, start, discarded>>

FileOperation ==
  RemoveChild \/ CopyEntry \/ MakeFolder \/ ReadFails \/ CreateFile \/ FillFile \/ DeleteEntry

RunStep ==
  \/ TakeInventory(1, "first", "second") \/ TakeInventory(2, "second", "plan")
  \/ MakePlan \/ NextAction \/ FileOperation \/ Retry
  \/ VerifyFirst \/ TakeInventory(2, "verify", "commit") \/ Commit
  \/ EndRun \/ CallFails

-----------------------------------------------------------------------------
(* Users, other programs, and the end of the process *)

(* Users change the trees between runs, or also during one. *)
Editing ==
  /\ edits < MaxEdits /\ edits' = edits + 1
  /\ IF At("idle") THEN "edit" \in Faults ELSE "race" \in Faults
  /\ disturbed' = IF At("idle") THEN disturbed ELSE disturbed \cup {"edit"}
  /\ UNCHANGED <<record, pc, run, mode, locked, start>>

(* A root that is missing is made by the user who writes into it. *)
InRoot(s) == missing' = missing \ {s}

Reachable(s, p) == \A a \in Ancestors(p) : tree[s][a].kind = "dir"

WriteFile(s, p) ==
  /\ Editing /\ InRoot(s) /\ Reachable(s, p) /\ tree[s][p].kind # "dir"
  /\ \E c \in Contents : \E t \in clock..MaxClock :
       /\ t <= clock + 1 /\ clock' = t
       /\ tree' = [tree EXCEPT ![s][p] = FileOf(c, t)]
  /\ UNCHANGED discarded

MakeDirectory(s, p) ==
  /\ Editing /\ InRoot(s) /\ Reachable(s, p) /\ tree[s][p].kind = "none"
  /\ tree' = [tree EXCEPT ![s][p] = Folder]
  /\ UNCHANGED <<clock, discarded>>

RemoveEntry(s, p) ==
  /\ Editing /\ tree[s][p].kind # "none"
  /\ tree' = [tree EXCEPT ![s] = Removed(@, p)]
  /\ discarded' = discarded \cup {q \in {p} \cup Inside[p] : tree[s][q].kind # "none"}
  /\ UNCHANGED <<missing, clock>>

(* A whole root goes, or the volume that holds it is not there. *)
RemoveRoot(s) ==
  /\ At("idle") /\ Editing /\ s \notin missing
  /\ missing' = missing \cup {s} /\ tree' = [tree EXCEPT ![s] = NoTree]
  /\ discarded' = discarded \cup Present(tree[s])
  /\ UNCHANGED clock

LockFile ==
  /\ "lock" \in Faults /\ Platform = "windows" /\ At("execute") /\ work # <<>> /\ ~locked
  /\ locked' = TRUE
  /\ UNCHANGED <<tree, missing, record, pc, run, mode, clock, edits, history>>

UnlockFile ==
  /\ locked /\ locked' = FALSE
  /\ UNCHANGED <<tree, missing, record, pc, run, mode, clock, edits, history>>

Crash ==
  /\ "crash" \in Faults /\ ~At("idle")
  /\ Goto("idle") /\ Clear
  /\ UNCHANGED <<tree, missing, record, clock, edits, discarded>>

User ==
  \E s \in Sides : \/ RemoveRoot(s)
                   \/ \E p \in Paths : WriteFile(s, p) \/ MakeDirectory(s, p) \/ RemoveEntry(s, p)

Next == BeginRun \/ RunStep \/ User \/ LockFile \/ UnlockFile \/ Crash

Spec == Init /\ [][Next]_vars

(* The run is sequential code that goes on until it returns.                  *)
FairSpec == Spec /\ WF_vars(RunStep)

-----------------------------------------------------------------------------
(* Properties *)

TypeOK ==
  /\ tree \in [Sides -> [Paths -> Entry]] /\ \A s \in Sides : WellFormed(tree[s])
  /\ missing \subseteq {s \in Sides : tree[s] = NoTree}
  /\ record \in Record
  /\ pc \in {"idle", "first", "second", "plan", "execute", "verify", "commit", "done", "failed"}
  /\ mode \in Modes \cup {"none"} /\ inv \in [Sides -> [Paths -> Entry]]
  /\ \A seq \in {plan, current, work} : \A i \in DOMAIN seq : seq[i] \in Action
  /\ clock \in 0..MaxClock /\ locked \in BOOLEAN /\ edits \in 0..MaxEdits
  /\ disturbed \subseteq {"edit", "call"} /\ discarded \subseteq Paths

(* What RF-04 to RF-09 of spec 001, and RF-16 of spec 003, say of one path,   *)
(* given the two trees, the record and the answers: no actions are involved.  *)
Merged(p) ==
  LET a == start.tree[1][p]  b == start.tree[2][p]
      chosen == start.tree[start.choice[p]][p]
  IN  IF mode = "unidirectional" THEN a
      ELSE IF Alike(a, b) THEN a
      ELSE IF ~start.record.found THEN chosen
      ELSE IF a.kind = "none" \/ b.kind = "none"
      THEN IF p \in start.record.paths THEN Absent
           ELSE IF a.kind = "none" THEN b ELSE a
      ELSE IF a.kind # b.kind \/ a.mtime = b.mtime THEN chosen
      ELSE IF a.mtime > b.mtime THEN a ELSE b

(* A run that no user disturbed and that commits has made both trees the      *)
(* merge of what it found, and the record lists exactly what is there         *)
(* (watch_command.go:267; synchronization_plan.go:7; unidirectional_sync.go:26;*)
(* synchronization_verification.go:9).                                        *)
CommitIsMerge ==
  At("done") /\ "edit" \notin disturbed =>
    /\ \A p \in Paths, s \in Sides : Alike(tree[s][p], Merged(p))
    /\ record.paths = {p \in Paths : Merged(p).kind # "none"}

(* At every point of a run that no user disturbed, whatever call fails, each  *)
(* file of the merge whose directory the merge keeps is still whole on one of *)
(* the two sides: the copy that is replaced goes only while the one that      *)
(* prevails stays (synchronization_executor.go:54).                           *)
MergeSurvives ==
  ~At("idle") /\ "edit" \notin disturbed =>
    \A p \in Paths :
      (Merged(p).kind = "file" /\ \A a \in Ancestors(p) : Merged(a).kind = "dir")
      => \E s \in Sides : Alike(tree[s][p], Merged(p))

(* A directory on one side stands beside a file on the other. *)
Beside(t, p) == {t[s][p].kind : s \in Sides} = {"dir", "file"}

(* The merge keeps what is below a path that it does not keep as a directory, *)
(* or the user had to choose between a directory with entries and a file.     *)
Tangled ==
  /\ mode = "bidirectional"
  /\ \/ ~WellFormed([p \in Paths |-> Merged(p)])
     \/ \E p \in Paths : Beside(start.tree, p) /\ \E q \in Inside[p], s \in Sides :
                                                start.tree[s][q].kind # "none"

(* A run that no user disturbed and no call failed in commits, from whatever  *)
(* earlier runs and crashes left, unless a question went unanswered or the    *)
(* merge is not one that can be had (in one direction: the source is missing).*)
CalmRunCommits ==
  At("failed") /\ disturbed = {} =>
    ~start.answered \/ Tangled \/ (mode = "unidirectional" /\ 1 \in start.missing)

Gone(p) == \A s \in Sides : tree[s][p].kind = "none"

(* Where a record exists, a path that a run found never vanishes from both    *)
(* sides unless a user removed it, or a directory above it, from one of them  *)
(* since it was confirmed, or a directory above it stood beside a file in the *)
(* inventories; users may change the trees meanwhile                          *)
(* (change_classification.go:3).                                              *)
OnlyDiscardedVanish ==
  [][edits' = edits =>
       \A p \in Present(inv[1]) \cup Present(inv[2]) : ~Gone(p) /\ Gone(p)' =>
         \/ mode = "unidirectional" \/ ~start.record.found
         \/ ({p} \cup Ancestors(p)) \cap discarded # {}
         \/ \E a \in Ancestors(p) : Beside(inv, a)]_vars

(* Synchronization in one direction never changes its source                  *)
(* (unidirectional_sync.go:26).                                               *)
SourceUntouched ==
  [][mode = "unidirectional" /\ edits' = edits => tree'[1] = tree[1]]_vars

(* No step of a run removes or overwrites the newer of two files that differ  *)
(* and are still as the inventories found them, while users change others:    *)
(* RF-07 of spec 001.                                                         *)
NewestRetained ==
  [][\A s \in Sides, p \in Paths :
       (/\ edits' = edits /\ mode = "bidirectional" /\ record.found /\ At("execute")
        /\ \A r \in Sides : tree[r][p].kind = "file" /\ tree[r][p] = inv[r][p]
        /\ tree[s][p].content # tree[Other(s)][p].content
        /\ tree[s][p].mtime > tree[Other(s)][p].mtime)
       => tree'[s][p] = tree[s][p]]_vars

(* While other programs eventually let go of their files for good, every run  *)
(* comes to its end (synchronization_executor.go:124).                        *)
RunEnds == <>[](~locked) => [](~At("idle") => <>At("idle"))
=============================================================================
