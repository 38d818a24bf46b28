------------------------ MODULE BackupSnapshotProofs ------------------------
(***************************************************************************)
(* Proofs about BackupSnapshot, for every set of paths and contents and any *)
(* number of changes: what a confirmed version says was true during both    *)
(* walks, it is one state of the source, it has no link in it, and a cycle  *)
(* that nobody disturbs confirms one.                                       *)
(***************************************************************************)
EXTENDS BackupSnapshot, TLAPS

(* A walk still has to visit an entry, or a directory above it. *)
Pending(q) == \E t \in todo : q = t.path \/ (q \in Inside[t.path] /\ t.type = "dir")

(* What a walk has recorded was so at some time during the walk. *)
WasSo(w) == \A q \in Paths : inv[w][q] \in seen[w][q]

(* While a walk goes on, what it has recorded was so, and what it has not   *)
(* is either still to be visited or was seen to be absent.                  *)
WalkInv ==
  pc \in Walks =>
    /\ \A q \in Paths : src[q] \in seen[pc][q]
    /\ \A t \in todo : t.type = "dir" => Folder \in seen[pc][t.path]
    /\ \A t \in todo : t.type # "dir" => \A q \in Inside[t.path] : Absent \in seen[pc][q]
    /\ \A q \in Paths : inv[pc][q] \in seen[pc][q] \/ (inv[pc][q] = Absent /\ Pending(q))

(* What the later stages of a cycle rely on. *)
StageInv ==
  /\ pc \in {"first", "copy", "verified"} => inv["last"] = Nothing
  /\ pc \in {"copy", "verified", "last", "confirmed"} => WasSo("first")
  /\ pc \in {"verified", "last", "confirmed"} => archive = inv["first"]
  /\ pc = "confirmed" => inv["first"] = inv["last"] /\ WasSo("last")

(* A path that has been a link all along is still to be visited by the      *)
(* first walk, and afterwards there is none.                                *)
LinkInv ==
  /\ pc \in {"first", "copy", "verified", "last"} => lasting \subseteq links
  /\ pc = "first" => \A q \in lasting : \E t \in todo :
                       \/ q = t.path /\ t.type = "link" /\ t.do = "stat"
                       \/ q \in Inside[t.path] /\ t.type = "dir" /\ t.do \in {"stat", "list"}
  /\ pc \in {"copy", "verified", "last", "confirmed"} => lasting = {}

(* As long as no value comes back, a value that a path has lost since the   *)
(* first walk is not seen by the last one.                                  *)
MomentInv ==
  /\ pc \in {"first", "copy", "verified"} => seen["last"] = NotSeen
  /\ pc \in {"copy", "verified", "last", "confirmed"} =>
       \A q \in Paths : /\ moment["first"][q] \in seen["first"][q]
                        /\ ~returned => \A v \in seen["first"][q] \ {moment["first"][q]} :
                                          v # src[q] /\ v \notin seen["last"][q]
  /\ pc \in {"last", "confirmed"} /\ ~returned =>
       \A q \in Paths : moment["first"][q] # moment["last"][q] =>
         moment["first"][q] # src[q] /\ moment["first"][q] \notin seen["last"][q]

-----------------------------------------------------------------------------
(* What is listed are tasks for entries of the tree as it is. *)
LEMMA ListedTasks ==
  ASSUME TypeOK, NEW ps \in SUBSET Paths
  PROVE  Listed(ps) \subseteq Task
  BY DEF Listed, Task, TypeOK, Kind

(* An edit leaves a tree, and links that are entries of it. *)
LEMMA EditKeepsTree ==
  ASSUME TypeOK, NEW p \in Paths, NEW v \in Values, NEW asLink \in BOOLEAN,
         asLink => v \in Contents, Edit(p, v, asLink)
  PROVE  /\ src' \in [Paths -> Values] /\ Grounded(src')
         /\ links' \subseteq {q \in Paths : src'[q] \in Contents}
<1>1. src' \in [Paths -> Values]
  BY DEF Edit, TypeOK, Values
<1>2. ASSUME NEW q \in Paths, src'[q] # Absent, NEW a \in Ancestors(q)
      PROVE  src'[a] = Folder
  <2>1. a \in Paths /\ q \in Inside[a]
    BY DEF Ancestors
  <2>2. CASE q = p
    <3>1. a # p /\ a \notin Inside[p]
      BY <2>1, <2>2, PathAssumption
    <3> QED
      BY <1>2, <2>1, <2>2, <3>1 DEF Edit
  <2>3. CASE q # p
    <3>1. q \notin Inside[p] /\ src[q] # Absent
      BY <1>2, <2>3 DEF Edit
    <3>2. a # p /\ a \notin Inside[p]
      BY <2>1, <3>1, PathAssumption
    <3>3. src[a] = Folder
      BY <3>1, <1>2 DEF TypeOK, Grounded
    <3> QED
      BY <2>1, <3>2, <3>3 DEF Edit
  <2> QED
    BY <2>2, <2>3
<1>3. Grounded(src')
  BY <1>2 DEF Grounded
<1>4. links' \subseteq {q \in Paths : src'[q] \in Contents}
  BY DEF Edit, TypeOK
<1> QED
  BY <1>1, <1>3, <1>4

LEMMA FailType ==
  ASSUME TypeOK, Fail
  PROVE  /\ pc' = "failed" /\ todo' = {} /\ inv' = inv /\ archive' = archive
  BY DEF Fail, result

LEMMA RecordType ==
  ASSUME TypeOK, NEW w \in Walks, NEW p \in Paths, NEW v \in Values
  PROVE  [inv EXCEPT ![w][p] = v] \in [Walks -> [Paths -> Values]]
<1>1. [inv[w] EXCEPT ![p] = v] \in [Paths -> Values]
  BY DEF TypeOK
<1> QED
  BY <1>1 DEF TypeOK

(* Every step keeps the types. *)
LEMMA StepTypeOK ==
  ASSUME TypeOK, [Next]_vars
  PROVE  TypeOK'
<1> USE SnapshotAssumption
<1> DEFINE Src == /\ src' \in [Paths -> Values] /\ Grounded(src')
                  /\ links' \subseteq {q \in Paths : src'[q] \in Contents}
<1>1. CASE UNCHANGED vars
  BY <1>1 DEF TypeOK, vars, result, history, Grounded
<1>2. CASE BeginFirst
  <2>1. todo' \subseteq Task
    BY <1>2, ListedTasks DEF BeginFirst, Tops
  <2>2. seen' \in [Phases -> [Paths -> SUBSET Values]]
    BY <1>2 DEF BeginFirst, TypeOK, Now, NotSeen
  <2>3. /\ inv' \in [Walks -> [Paths -> Values]] /\ archive' \in [Paths -> Values]
        /\ moment' \in [Walks -> [Paths -> Values]]
    BY <1>2 DEF BeginFirst, Nothing, Values
  <2> QED
    BY <1>2, <2>1, <2>2, <2>3 DEF BeginFirst, TypeOK, Grounded
<1>3. ASSUME NEW t \in todo, Stat(t)
      PROVE  TypeOK'
  <2>1. pc \in Walks /\ t \in Task /\ UNCHANGED <<src, links, edits, history>>
    BY <1>3 DEF Stat, TypeOK
  <2>2. Folder \in Values /\ [t EXCEPT !.do = "read"] \in Task /\ [t EXCEPT !.do = "list"] \in Task
    BY <2>1 DEF Values, Task
  <2>3. /\ todo' \subseteq Task /\ pc' \in {pc, "failed"} /\ archive' = archive
        /\ (inv' = inv \/ inv' = [inv EXCEPT ![pc][t.path] = Folder])
    BY <1>3, <2>2, ZenonT(40) DEF Stat, Fail, Follow, Done, Record, result, TypeOK
  <2>4. inv' \in [Walks -> [Paths -> Values]]
    <3>1. t.path \in Paths /\ pc \in Walks
      BY <2>1 DEF Task
    <3>2. [inv EXCEPT ![pc][t.path] = Folder] \in [Walks -> [Paths -> Values]]
      BY <2>2, <3>1, RecordType
    <3> QED
      BY <2>3, <3>2 DEF TypeOK
  <2> QED
    BY <2>1, <2>3, <2>4 DEF TypeOK, Grounded, history
<1>4. ASSUME NEW t \in todo, Read(t)
      PROVE  TypeOK'
  <2>1. pc \in Walks /\ t \in Task /\ UNCHANGED <<src, links, edits, history>>
    BY <1>4 DEF Read, TypeOK
  <2>2. src[t.path] \in Values /\ [t EXCEPT !.do = "list"] \in Task
    BY <2>1 DEF Values, Task, TypeOK
  <2>3. /\ todo' \subseteq Task /\ pc' \in {pc, "failed"} /\ archive' = archive
        /\ (inv' = inv \/ inv' = [inv EXCEPT ![pc][t.path] = src[t.path]])
    BY <1>4, <2>2 DEF Read, Fail, Follow, Done, Record, result, TypeOK
  <2>4. inv' \in [Walks -> [Paths -> Values]]
    <3>1. t.path \in Paths /\ pc \in Walks
      BY <2>1 DEF Task
    <3>2. [inv EXCEPT ![pc][t.path] = src[t.path]] \in [Walks -> [Paths -> Values]]
      BY <2>2, <3>1, RecordType
    <3> QED
      BY <2>3, <3>2 DEF TypeOK
  <2> QED
    BY <2>1, <2>3, <2>4 DEF TypeOK, Grounded, history
<1>5. ASSUME NEW t \in todo, List(t)
      PROVE  TypeOK'
  <2>1. Children(t.path) \subseteq Paths
    BY PathAssumption DEF Children, TypeOK, Task
  <2>2. Listed(Children(t.path)) \subseteq Task
    BY <2>1, ListedTasks
  <2> QED
    BY <1>5, <2>2 DEF List, Fail, result, TypeOK, Grounded, history
<1>6. ASSUME NEW t \in todo, CopyFile(t)
      PROVE  TypeOK'
  BY <1>6 DEF CopyFile, At, Fail, Done, result, TypeOK, Grounded, history, Task
<1>7. CASE BeginCopy
  <2>1. todo' \subseteq Task /\ archive' \in [Paths -> Values]
    BY <1>7 DEF BeginCopy, Task, Values
  <2>2. seen' \in [Phases -> [Paths -> SUBSET Values]] /\ moment' \in [Walks -> [Paths -> Values]]
    BY <1>7 DEF BeginCopy, TypeOK, Now, Phases, Walks
  <2> QED
    BY <1>7, <2>1, <2>2 DEF BeginCopy, TypeOK, Grounded
<1>8. CASE Verify
  BY <1>8 DEF Verify, Fail, result, TypeOK, Grounded, history
<1>9. CASE BeginLast
  <2>1. todo' \subseteq Task
    BY <1>9, ListedTasks DEF BeginLast, Tops
  <2>2. seen' \in [Phases -> [Paths -> SUBSET Values]] /\ moment' \in [Walks -> [Paths -> Values]]
    BY <1>9 DEF BeginLast, TypeOK, Now, Phases, Walks
  <2> QED
    BY <1>9, <2>1, <2>2 DEF BeginLast, TypeOK, Grounded, result
<1>10. CASE Compare
  BY <1>10 DEF Compare, Fail, result, TypeOK, Grounded, history
<1>11. CASE StepFails
  BY <1>11 DEF StepFails, Fail, result, TypeOK, Grounded
<1>12. CASE EndCycle
  BY <1>12 DEF EndCycle, result, TypeOK, Grounded, history
<1>13. ASSUME NEW p \in Paths, NEW v \in Values, NEW asLink \in BOOLEAN,
              asLink => v \in Contents, Edit(p, v, asLink)
       PROVE  TypeOK'
  <2>1. Src
    BY <1>13, EditKeepsTree
  <2>2. seen' \in [Phases -> [Paths -> SUBSET Values]]
    <3>1. CASE Running
      <4>1. Phase \in Phases
        BY <3>1 DEF Running, Phase, Phases
      <4>2. [q \in Paths |-> seen[Phase][q] \cup {src'[q]}] \in [Paths -> SUBSET Values]
        BY <2>1, <4>1 DEF TypeOK
      <4> QED
        BY <1>13, <3>1, <4>1, <4>2 DEF Edit, TypeOK
    <3>2. CASE ~Running
      BY <1>13, <3>2 DEF Edit, TypeOK
    <3> QED
      BY <3>1, <3>2
  <2>4. returned' \in BOOLEAN
    <3>1. CASE Running
      BY <1>13, <3>1, Zenon DEF Edit, TypeOK
    <3>2. CASE ~Running
      BY <1>13, <3>2 DEF Edit, TypeOK
    <3> QED
      BY <3>1, <3>2
  <2>5. disturbed' \in BOOLEAN /\ lasting' \subseteq Paths
    BY <1>13 DEF Edit, TypeOK
  <2>3. edits' \in 0..MaxEdits
    BY <1>13 DEF Edit, TypeOK
  <2> QED
    BY <1>13, <2>1, <2>2, <2>3, <2>4, <2>5 DEF Edit, TypeOK, result
<1> QED
  BY <1>1, <1>2, <1>3, <1>4, <1>5, <1>6, <1>7, <1>8, <1>9, <1>10, <1>11, <1>12, <1>13
    DEF Next, CycleStep, User

LEMMA InitTypeOK == Init => TypeOK
<1> SUFFICES ASSUME Init PROVE TypeOK
  OBVIOUS
<1>1. Nothing \in [Paths -> Values] /\ NotSeen \in [Paths -> SUBSET Values]
  BY DEF Nothing, NotSeen, Values
<1>2. src \in [Paths -> Values] /\ Grounded(src) /\ links \subseteq {p \in Paths : src[p] \in Contents}
  BY DEF Init
<1>3. /\ inv \in [Walks -> [Paths -> Values]] /\ moment \in [Walks -> [Paths -> Values]]
      /\ seen \in [Phases -> [Paths -> SUBSET Values]]
  BY <1>1 DEF Init
<1>4. /\ pc = "idle" /\ todo = {} /\ archive = Nothing /\ edits = 0 /\ lasting = {}
      /\ returned = FALSE /\ disturbed = FALSE
  BY DEF Init
<1>5. edits \in 0..MaxEdits
  BY <1>4, SnapshotAssumption
<1>6. archive \in [Paths -> Values] /\ todo \subseteq Task /\ lasting \subseteq Paths
  BY <1>1, <1>4
<1>7. returned \in BOOLEAN /\ disturbed \in BOOLEAN
  BY <1>4
<1>8. pc \in {"idle", "first", "copy", "verified", "last", "confirmed", "failed"}
  BY <1>4
<1> QED
  BY <1>2, <1>3, <1>5, <1>6, <1>7, <1>8, Zenon DEF TypeOK

(* The types of all variables (backup_inventory.go:80, backup_cycle.go:120). *)
THEOREM TypeCorrect == Spec => []TypeOK
<1>1. TypeOK /\ [Next]_vars => TypeOK'
  BY StepTypeOK
<1> QED
  BY InitTypeOK, <1>1, PTL DEF Spec

-----------------------------------------------------------------------------
(* What is listed *)

(* A task of a listing tells what its entry is, and nothing is below an     *)
(* entry that is no directory.                                              *)
LEMMA ListedIsSo ==
  ASSUME TypeOK, NEW ps \in SUBSET Paths, NEW t \in Listed(ps)
  PROVE  /\ t.path \in ps /\ t.do = "stat" /\ src[t.path] # Absent
         /\ t.type = "dir" <=> src[t.path] = Folder
         /\ t.type # "dir" => \A q \in Inside[t.path] : src[q] = Absent
<1>1. /\ t.path \in ps /\ t.do = "stat" /\ src[t.path] # Absent /\ t.type = Kind(t.path)
  BY DEF Listed
<1>2. t.path \in links => src[t.path] \in Contents
  BY <1>1 DEF TypeOK
<1>3. t.type = "dir" <=> src[t.path] = Folder
  BY <1>1, <1>2, SnapshotAssumption DEF Kind
<1>4. ASSUME t.type # "dir", NEW q \in Inside[t.path]
      PROVE  src[q] = Absent
  <2>1. t.path \in Ancestors(q) /\ q \in Paths
    BY <1>1, <1>4, PathAssumption DEF Ancestors
  <2> QED
    BY <1>3, <1>4, <2>1 DEF TypeOK, Grounded
<1> QED
  BY <1>1, <1>3, <1>4

(* Whatever exists among what is listed or below it is still to be visited. *)
LEMMA ListedCovers ==
  ASSUME TypeOK, NEW ps \in SUBSET Paths, NEW q \in Paths, src[q] # Absent,
         q \in ps \/ \E c \in ps : q \in Inside[c]
  PROVE  \E t \in Listed(ps) :
            \/ q = t.path /\ t.type = Kind(q)
            \/ q \in Inside[t.path] /\ t.type = "dir"
<1>1. CASE q \in ps
  <2>1. [do |-> "stat", path |-> q, type |-> Kind(q)] \in Listed(ps)
    BY <1>1 DEF Listed
  <2> QED
    BY <2>1
<1>2. ASSUME NEW c \in ps, q \in Inside[c]
      PROVE  \E t \in Listed(ps) : q \in Inside[t.path] /\ t.type = "dir"
  <2>1. src[c] = Folder
    BY <1>2 DEF TypeOK, Grounded, Ancestors
  <2>2. Kind(c) = "dir" /\ src[c] # Absent
    BY <2>1, SnapshotAssumption DEF Kind, TypeOK
  <2>3. [do |-> "stat", path |-> c, type |-> Kind(c)] \in Listed(ps)
    BY <2>2 DEF Listed
  <2> QED
    BY <1>2, <2>2, <2>3
<1> QED
  BY <1>1, <1>2

(* What is not pending in a fresh listing of the root does not exist. *)
LEMMA TopsCover ==
  ASSUME TypeOK, NEW q \in Paths, src[q] # Absent
  PROVE  \E t \in Listed(Tops) :
            \/ q = t.path /\ t.type = Kind(q)
            \/ q \in Inside[t.path] /\ t.type = "dir"
<1>1. Tops \in SUBSET Paths
  BY DEF Tops
<1>2. q \in Tops \/ \E a \in Tops : q \in Inside[a]
  BY SnapshotAssumption
<1> QED
  BY <1>1, <1>2, ListedCovers

LEMMA ChildrenCover ==
  ASSUME TypeOK, NEW p \in Paths, NEW q \in Inside[p], src[q] # Absent
  PROVE  \E t \in Listed(Children(p)) :
            \/ q = t.path /\ t.type = Kind(q)
            \/ q \in Inside[t.path] /\ t.type = "dir"
<1>1. Children(p) \in SUBSET Paths /\ q \in Paths
  BY PathAssumption DEF Children
<1>2. q \in Children(p) \/ \E c \in Children(p) : q \in Inside[c]
  BY SnapshotAssumption
<1> QED
  BY <1>1, <1>2, ListedCovers

(* A walk that begins: what has not been recorded is pending or absent. *)
LEMMA WalkBegins ==
  ASSUME TypeOK, TypeOK', NEW w \in Walks, pc' = w, todo' = Listed(Tops), src' = src,
         seen'[w] = Now, inv'[w] = Nothing
  PROVE  WalkInv'
<1>1. \A q \in Paths : src'[q] \in seen'[w][q] /\ seen'[w][q] = {src[q]}
  BY DEF Now
<1>2. ASSUME NEW t \in todo'
      PROVE  /\ t.type = "dir" => Folder \in seen'[w][t.path]
             /\ t.type # "dir" => \A q \in Inside[t.path] : Absent \in seen'[w][q]
  <2>1. Tops \in SUBSET Paths
    BY DEF Tops
  <2>2. t.path \in Paths /\ Inside[t.path] \subseteq Paths
    BY <1>2, <2>1, ListedIsSo, PathAssumption
  <2> QED
    BY <1>1, <1>2, <2>1, <2>2, ListedIsSo
<1>3. ASSUME NEW q \in Paths
      PROVE  inv'[w][q] \in seen'[w][q] \/ (inv'[w][q] = Absent /\ Pending(q)')
  <2>1. inv'[w][q] = Absent
    BY DEF Nothing
  <2>2. CASE src[q] = Absent
    BY <1>1, <2>1, <2>2
  <2>3. CASE src[q] # Absent
    <3>1. Pending(q)'
      BY <2>3, TopsCover DEF Pending
    <3> QED
      BY <2>1, <3>1
  <2> QED
    BY <2>2, <2>3
<1> QED
  BY <1>1, <1>2, <1>3 DEF WalkInv

-----------------------------------------------------------------------------
(* A walk records only what was so *)

LEMMA RecordOther ==
  ASSUME TypeOK, NEW w \in Walks, NEW p \in Paths, NEW v
  PROVE  LET i == [inv EXCEPT ![w][p] = v]
         IN  i[w][p] = v /\ \A q \in Paths \ {p} : i[w][q] = inv[w][q]
  BY DEF TypeOK

(* An entry that has been visited for good: what is recorded of it was so.  *)
LEMMA VisitedWalk ==
  ASSUME TypeOK, WalkInv, pc \in Walks, NEW t \in todo, NEW v,
         pc' = pc, src' = src, seen' = seen, v \in seen[pc][t.path],
         inv' = [inv EXCEPT ![pc][t.path] = v],
         \/ todo' = (todo \ {t}) \cup {[t EXCEPT !.do = "list"]}
         \/ t.type # "dir" /\ todo' = todo \ {t}
  PROVE  WalkInv'
<1>1. t \in Task /\ t.path \in Paths
  BY DEF TypeOK, Task
<1>2. \A u \in todo' : \E o \in todo : u.path = o.path /\ u.type = o.type
  BY <1>1 DEF Task
<1>3. ASSUME NEW q \in Paths
      PROVE  inv'[pc][q] \in seen[pc][q] \/ (inv'[pc][q] = Absent /\ Pending(q)')
  <2>1. CASE q = t.path
    BY <1>1, <2>1, RecordOther
  <2>2. CASE q # t.path
    <3>1. inv'[pc][q] = inv[pc][q]
      BY <1>1, <2>2, RecordOther
    <3>2. ASSUME Pending(q) PROVE Pending(q)'
      <4>1. PICK u \in todo : q = u.path \/ (q \in Inside[u.path] /\ u.type = "dir")
        BY <3>2 DEF Pending
      <4>2. CASE u # t
        BY <4>1, <4>2 DEF Pending
      <4>3. CASE u = t
        <5>1. t.type = "dir" /\ q \in Inside[t.path]
          BY <2>2, <4>1, <4>3
        <5>2. [t EXCEPT !.do = "list"] \in todo'
          BY <5>1
        <5>3. [t EXCEPT !.do = "list"].path = t.path /\ [t EXCEPT !.do = "list"].type = t.type
          BY <1>1 DEF Task
        <5> QED
          BY <5>1, <5>2, <5>3 DEF Pending
      <4> QED
        BY <4>2, <4>3
    <3> QED
      BY <3>1, <3>2 DEF WalkInv
  <2> QED
    BY <2>1, <2>2
<1> QED
  BY <1>2, <1>3 DEF WalkInv

(* A step that only changes what is to be done with an entry. *)
LEMMA FollowedWalk ==
  ASSUME TypeOK, WalkInv, pc \in Walks, NEW t \in todo, NEW do, Follow(t, do),
         pc' = pc, src' = src, seen' = seen, inv' = inv
  PROVE  WalkInv'
<1>1. t \in Task /\ [t EXCEPT !.do = do].path = t.path /\ [t EXCEPT !.do = do].type = t.type
  BY DEF TypeOK, Task
<1>2. \A u \in todo' : \E o \in todo : u.path = o.path /\ u.type = o.type
  BY <1>1 DEF Follow
<1>3. \A u \in todo : \E o \in todo' : u.path = o.path /\ u.type = o.type
  BY <1>1 DEF Follow
<1>4. \A q \in Paths : Pending(q) => Pending(q)'
  BY <1>3 DEF Pending
<1> QED
  BY <1>2, <1>4 DEF WalkInv

(* A directory that has been listed: its entries take its place. *)
LEMMA ListedWalk ==
  ASSUME TypeOK, WalkInv, pc \in Walks, NEW t \in todo,
         todo' = (todo \ {t}) \cup Listed(Children(t.path)), src[t.path] = Folder,
         pc' = pc, src' = src, seen' = seen, inv' = inv, inv[pc][t.path] \in seen[pc][t.path]
  PROVE  WalkInv'
<1>1. t.path \in Paths /\ Children(t.path) \in SUBSET Paths
  BY PathAssumption DEF TypeOK, Task, Children
<1>2. ASSUME NEW u \in Listed(Children(t.path))
      PROVE  /\ u.type = "dir" => Folder \in seen[pc][u.path]
             /\ u.type # "dir" => \A q \in Inside[u.path] : Absent \in seen[pc][q]
  <2>1. u.path \in Paths /\ Inside[u.path] \subseteq Paths
    BY <1>1, ListedIsSo, PathAssumption
  <2> QED
    BY <1>1, <2>1, ListedIsSo DEF WalkInv
<1>3. ASSUME NEW q \in Paths
      PROVE  inv[pc][q] \in seen[pc][q] \/ (inv[pc][q] = Absent /\ Pending(q)')
  <2>1. CASE inv[pc][q] \in seen[pc][q]
    BY <2>1
  <2>2. CASE inv[pc][q] \notin seen[pc][q]
    <3>1. inv[pc][q] = Absent /\ src[q] # Absent /\ Pending(q)
      BY <2>2 DEF WalkInv
    <3>2. PICK u \in todo : q = u.path \/ (q \in Inside[u.path] /\ u.type = "dir")
      BY <3>1 DEF Pending
    <3>3. CASE u # t
      BY <3>1, <3>2, <3>3 DEF Pending
    <3>4. CASE u = t
      <4>1. q \in Inside[t.path]
        BY <2>2, <3>2, <3>4
      <4> QED
        BY <1>1, <3>1, <4>1, ChildrenCover DEF Pending
    <3> QED
      BY <3>3, <3>4
  <2> QED
    BY <2>1, <2>2
<1> QED
  BY <1>2, <1>3 DEF WalkInv

(* What has been recorded of an entry whose directory is to be listed. *)
ListInv ==
  pc \in Walks => \A t \in todo : t.do = "list" => inv[pc][t.path] \in seen[pc][t.path]

(* An edit adds to what is seen and leaves what is recorded. *)
LEMMA EditSees ==
  ASSUME TypeOK, NEW p \in Paths, NEW v \in Values, NEW asLink \in BOOLEAN,
         asLink => v \in Contents, Edit(p, v, asLink)
  PROVE  /\ pc' = pc /\ todo' = todo /\ inv' = inv /\ archive' = archive /\ moment' = moment
         /\ ~Running => seen' = seen /\ returned' = returned /\ lasting' = lasting
         /\ Running => \A q \in Paths, w \in Phases :
              seen'[w][q] = IF w = Phase THEN seen[w][q] \cup {src'[q]} ELSE seen[w][q]
         /\ \A q \in Paths, w \in Phases : seen[w][q] \subseteq seen'[w][q]
<1>1. pc' = pc /\ todo' = todo /\ inv' = inv /\ archive' = archive /\ moment' = moment
  BY DEF Edit, result
<1>2. CASE Running
  <2>1. Phase \in Phases
    BY <1>2 DEF Running, Phase, Phases
  <2>2. seen' = [seen EXCEPT ![Phase] = [q \in Paths |-> @[q] \cup {src'[q]}]]
    BY <1>2 DEF Edit
  <2>3. ASSUME NEW q \in Paths, NEW w \in Phases
        PROVE  seen'[w][q] = IF w = Phase THEN seen[w][q] \cup {src'[q]} ELSE seen[w][q]
    BY <2>1, <2>2 DEF TypeOK
  <2> QED
    BY <1>1, <1>2, <2>3
<1>3. CASE ~Running
  BY <1>1, <1>3 DEF Edit
<1> QED
  BY <1>2, <1>3

LEMMA EditWalk ==
  ASSUME TypeOK, WalkInv, ListInv, NEW p \in Paths, NEW v \in Values, NEW asLink \in BOOLEAN,
         asLink => v \in Contents, Edit(p, v, asLink)
  PROVE  WalkInv' /\ ListInv'
<1> SUFFICES ASSUME pc \in Walks PROVE WalkInv' /\ ListInv'
  BY EditSees DEF WalkInv, ListInv
<1>1. Running /\ Phase = pc /\ pc \in Phases
  BY DEF Running, Phase, Walks, Phases
<1>2. \A q \in Paths : seen[pc][q] \subseteq seen'[pc][q] /\ src'[q] \in seen'[pc][q]
  BY <1>1, EditSees
<1>3. pc' = pc /\ todo' = todo /\ inv' = inv
  BY EditSees
<1>4. \A q \in Paths : Pending(q)' = Pending(q)
  BY <1>3 DEF Pending
<1>5. \A t \in todo : t.path \in Paths /\ Inside[t.path] \subseteq Paths
  BY PathAssumption DEF TypeOK, Task
<1> QED
  BY <1>2, <1>3, <1>4, <1>5 DEF WalkInv, ListInv

(* A directory or a file that has been visited. *)
LEMMA StatWalk ==
  ASSUME TypeOK, WalkInv, ListInv, NEW t \in todo, Stat(t)
  PROVE  WalkInv' /\ ListInv'
<1>1. /\ pc \in Walks /\ src' = src /\ seen' = seen /\ t \in Task /\ t.path \in Paths
  BY DEF Stat, TypeOK, Task, history
<1>2. CASE pc' = "failed"
  BY <1>2 DEF WalkInv, ListInv, Walks
<1>3. CASE Follow(t, "read") /\ UNCHANGED <<pc, result>>
  <2>1. WalkInv'
    BY <1>1, <1>3, FollowedWalk DEF result
  <2>2. \A u \in todo' : u.do = "list" => u \in todo
    BY <1>1, <1>3 DEF Follow, Task
  <2> QED
    BY <1>1, <1>3, <2>1, <2>2 DEF ListInv, result
<1>4. ASSUME NEW kind \in {t.type, Kind(t.path)}, kind = "dir", Record(t.path, Folder), UNCHANGED pc,
             IF t.type = "dir" THEN Follow(t, "list") ELSE Done(t)
      PROVE  WalkInv' /\ ListInv'
  <2>1. Folder \in seen[pc][t.path]
    <3>1. CASE t.type = "dir"
      BY <1>1, <3>1 DEF WalkInv
    <3>2. CASE Kind(t.path) = "dir"
      <4>1. src[t.path] = Folder
        BY <1>1, <3>2 DEF Kind
      <4> QED
        BY <1>1, <4>1 DEF WalkInv
    <3> QED
      BY <1>4, <3>1, <3>2
  <2>2. WalkInv'
    BY <1>1, <1>4, <2>1, VisitedWalk DEF Record, Follow, Done
  <2>3. \A u \in todo' : u.do = "list" => u.path = t.path \/ u \in todo
    BY <1>1, <1>4 DEF Follow, Done, Task
  <2>4. inv'[pc][t.path] = Folder /\ \A q \in Paths \ {t.path} : inv'[pc][q] = inv[pc][q]
    BY <1>1, <1>4, RecordOther DEF Record
  <2>5. \A u \in todo : u.path \in Paths
    BY DEF TypeOK, Task
  <2> QED
    BY <1>1, <1>4, <2>1, <2>2, <2>3, <2>4, <2>5 DEF ListInv
<1> QED
  BY <1>2, <1>3, <1>4 DEF Stat, Fail

LEMMA ReadWalk ==
  ASSUME TypeOK, WalkInv, ListInv, NEW t \in todo, Read(t)
  PROVE  WalkInv' /\ ListInv'
<1>1. /\ pc \in Walks /\ src' = src /\ seen' = seen /\ t \in Task /\ t.path \in Paths
  BY DEF Read, TypeOK, Task, history
<1>2. CASE pc' = "failed"
  BY <1>2 DEF WalkInv, ListInv, Walks
<1>3. CASE Record(t.path, src[t.path]) /\ UNCHANGED pc /\ (IF t.type = "dir" THEN Follow(t, "list") ELSE Done(t))
  <2>1. src[t.path] \in seen[pc][t.path]
    BY <1>1 DEF WalkInv
  <2>2. WalkInv'
    BY <1>1, <1>3, <2>1, VisitedWalk DEF Record, Follow, Done
  <2>3. \A u \in todo' : u.do = "list" => u.path = t.path \/ u \in todo
    BY <1>1, <1>3 DEF Follow, Done, Task
  <2>4. inv'[pc][t.path] = src[t.path] /\ \A q \in Paths \ {t.path} : inv'[pc][q] = inv[pc][q]
    BY <1>1, <1>3, RecordOther DEF Record
  <2>5. \A u \in todo : u.path \in Paths
    BY DEF TypeOK, Task
  <2> QED
    BY <1>1, <1>3, <2>1, <2>2, <2>3, <2>4, <2>5 DEF ListInv
<1> QED
  BY <1>2, <1>3 DEF Read, Fail

LEMMA ListStepWalk ==
  ASSUME TypeOK, WalkInv, ListInv, NEW t \in todo, List(t)
  PROVE  WalkInv' /\ ListInv'
<1>1. /\ pc \in Walks /\ src' = src /\ seen' = seen /\ t.do = "list" /\ t.path \in Paths
  BY DEF List, Visiting, TypeOK, Task, history
<1>2. CASE pc' = "failed"
  BY <1>2 DEF WalkInv, ListInv, Walks
<1>3. CASE src[t.path] = Folder /\ todo' = (todo \ {t}) \cup Listed(Children(t.path))
           /\ UNCHANGED <<pc, result>>
  <2>1. inv' = inv /\ inv[pc][t.path] \in seen[pc][t.path]
    BY <1>1, <1>3 DEF ListInv, result
  <2>2. WalkInv'
    BY <1>1, <1>3, <2>1, ListedWalk
  <2>3. \A u \in Listed(Children(t.path)) : u.do # "list"
    BY DEF Listed
  <2> QED
    BY <1>1, <1>3, <2>1, <2>2, <2>3 DEF ListInv
<1> QED
  BY <1>2, <1>3 DEF List, Fail

(* Every step keeps what a walk relies on. *)
LEMMA StepWalk ==
  ASSUME TypeOK, TypeOK', WalkInv, ListInv, StageInv, [Next]_vars
  PROVE  WalkInv' /\ ListInv'
<1>1. CASE UNCHANGED vars
  BY <1>1 DEF vars, result, history, WalkInv, ListInv, Pending
<1>2. CASE BeginFirst
  <2>1. seen'["first"] = Now /\ inv'["first"] = Nothing /\ "first" \in Walks
    BY <1>2 DEF BeginFirst, Phases, Walks
  <2>2. WalkInv'
    BY <1>2, <2>1, WalkBegins DEF BeginFirst
  <2>3. \A t \in todo' : t.do # "list"
    BY <1>2 DEF BeginFirst, Listed
  <2> QED
    BY <2>2, <2>3 DEF ListInv
<1>3. ASSUME NEW t \in todo, Stat(t) \/ Read(t) \/ List(t) \/ CopyFile(t)
      PROVE  WalkInv' /\ ListInv'
  <2>1. CASE CopyFile(t)
    BY <2>1 DEF CopyFile, At, Fail, Walks, WalkInv, ListInv
  <2> QED
    BY <1>3, <2>1, StatWalk, ReadWalk, ListStepWalk
<1>4. CASE BeginCopy \/ Verify \/ Compare \/ StepFails \/ EndCycle
  BY <1>4 DEF BeginCopy, Verify, Compare, StepFails, EndCycle, Fail, Walks, WalkInv, ListInv
<1>5. CASE BeginLast
  <2>1. seen'["last"] = Now /\ inv'["last"] = Nothing /\ "last" \in Walks
    BY <1>5 DEF BeginLast, At, Phases, Walks, TypeOK, StageInv, result
  <2>2. WalkInv'
    BY <1>5, <2>1, WalkBegins DEF BeginLast
  <2>3. \A t \in todo' : t.do # "list"
    BY <1>5 DEF BeginLast, Listed
  <2> QED
    BY <2>2, <2>3 DEF ListInv
<1>6. ASSUME NEW p \in Paths, NEW v \in Values, NEW asLink \in BOOLEAN,
             asLink => v \in Contents, Edit(p, v, asLink)
      PROVE  WalkInv' /\ ListInv'
  BY <1>6, EditWalk
<1> QED
  BY <1>1, <1>2, <1>3, <1>4, <1>5, <1>6 DEF Next, CycleStep, User

-----------------------------------------------------------------------------
(* The stages of a cycle *)

(* A walk with nothing left to visit has recorded only what was so. *)
LEMMA WalkedWasSo ==
  ASSUME WalkInv, pc \in Walks, todo = {}
  PROVE  WasSo(pc)
  BY DEF WalkInv, Pending, WasSo

LEMMA StepStage ==
  ASSUME TypeOK, WalkInv, StageInv, [Next]_vars
  PROVE  StageInv'
<1>1. CASE UNCHANGED vars
  BY <1>1 DEF vars, result, history, StageInv, WasSo
<1>2. CASE BeginFirst
  BY <1>2 DEF BeginFirst, StageInv, Walks
<1>3. ASSUME NEW t \in todo, Stat(t) \/ Read(t) \/ List(t)
      PROVE  StageInv'
  <2>1. /\ pc \in Walks /\ seen' = seen /\ pc' \in {pc, "failed"} /\ archive' = archive
        /\ \/ inv' = inv
           \/ \E p \in Paths, v \in Values : inv' = [inv EXCEPT ![pc][p] = v]
    <3>1. t.path \in Paths /\ Folder \in Values /\ src[t.path] \in Values
      BY DEF TypeOK, Task, Values
    <3> QED
      BY <1>3, <3>1 DEF Stat, Read, List, Fail, Record, result, history
  <2>2. pc = "first" => inv'["last"] = inv["last"]
    BY <2>1 DEF TypeOK, Walks
  <2>3. pc = "last" => inv'["first"] = inv["first"]
    BY <2>1 DEF TypeOK, Walks
  <2> QED
    BY <2>1, <2>2, <2>3 DEF StageInv, WasSo, Walks
<1>4. ASSUME NEW t \in todo, CopyFile(t)
      PROVE  StageInv'
  BY <1>4 DEF CopyFile, At, Fail, StageInv, WasSo, history, result
<1>5. CASE BeginCopy
  <2>1. WasSo("first")
    BY <1>5, WalkedWasSo DEF BeginCopy, At, Walks
  <2>2. seen'["first"] = seen["first"]
    BY <1>5 DEF BeginCopy, TypeOK
  <2> QED
    BY <1>5, <2>1, <2>2 DEF BeginCopy, At, StageInv, WasSo
<1>6. CASE Verify
  BY <1>6 DEF Verify, At, Fail, StageInv, WasSo, result, history
<1>7. CASE BeginLast
  <2>1. seen'["first"] = seen["first"]
    BY <1>7 DEF BeginLast, TypeOK
  <2> QED
    BY <1>7, <2>1 DEF BeginLast, At, StageInv, WasSo, result
<1>8. CASE Compare
  <2>1. WasSo("last")
    BY <1>8, WalkedWasSo DEF Compare, At, Walks
  <2> QED
    BY <1>8, <2>1 DEF Compare, At, Fail, StageInv, WasSo, result, history
<1>9. CASE StepFails \/ EndCycle
  BY <1>9 DEF StepFails, EndCycle, Fail, StageInv
<1>10. ASSUME NEW p \in Paths, NEW v \in Values, NEW asLink \in BOOLEAN,
              asLink => v \in Contents, Edit(p, v, asLink)
       PROVE  StageInv'
  <2>1. /\ pc' = pc /\ inv' = inv /\ archive' = archive
        /\ \A q \in Paths, w \in Phases : seen[w][q] \subseteq seen'[w][q]
    BY <1>10, EditSees
  <2>2. \A w \in Walks : WasSo(w) => WasSo(w)'
    BY <2>1 DEF WasSo, Walks, Phases
  <2> QED
    BY <2>1, <2>2 DEF StageInv, Walks
<1> QED
  BY <1>1, <1>2, <1>3, <1>4, <1>5, <1>6, <1>7, <1>8, <1>9, <1>10 DEF Next, CycleStep, User

LEMMA InitWalk == Init => WalkInv /\ ListInv /\ StageInv
  BY DEF Init, WalkInv, ListInv, StageInv, Walks

(* What the walks rely on holds in every state. *)
LEMMA WalksHold == Spec => [](TypeOK /\ WalkInv /\ ListInv /\ StageInv)
<1> DEFINE I == TypeOK /\ WalkInv /\ ListInv /\ StageInv
<1>1. Init => I
  BY InitTypeOK, InitWalk
<1>2. I /\ [Next]_vars => I'
  BY StepTypeOK, StepWalk, StepStage
<1> QED
  BY <1>1, <1>2, PTL DEF Spec

(* What a confirmed version says of a path was true of it during the first  *)
(* walk and again during the last, whatever users do                        *)
(* (backup_cycle.go:120, 140, 155).                                         *)
THEOREM VersionsWereSeen == Spec => []ArchivedWasSeen
<1>1. StageInv => ArchivedWasSeen
  BY DEF StageInv, ArchivedWasSeen, WasSo, At
<1> QED
  BY WalksHold, <1>1, PTL

-----------------------------------------------------------------------------
(* Links *)

(* The first walk still has a task that leads it to the path.               *)
Ahead(q) == \E t \in todo : \/ q = t.path /\ t.type = "link" /\ t.do = "stat"
                            \/ q \in Inside[t.path] /\ t.type = "dir" /\ t.do \in {"stat", "list"}

(* A link is an entry, so everything above it is a directory. *)
LEMMA LinkIsEntry ==
  ASSUME TypeOK, NEW q \in links
  PROVE  /\ q \in Paths /\ src[q] # Absent /\ Kind(q) = "link"
         /\ \A a \in Paths : q \in Inside[a] => src[a] = Folder /\ Kind(a) = "dir"
<1>1. q \in Paths /\ src[q] # Absent /\ Kind(q) = "link"
  BY SnapshotAssumption DEF TypeOK, Kind
<1>2. ASSUME NEW a \in Paths, q \in Inside[a]
      PROVE  src[a] = Folder /\ Kind(a) = "dir"
  <2>1. src[a] = Folder
    BY <1>1, <1>2 DEF TypeOK, Grounded, Ancestors
  <2>2. a \notin links
    BY <2>1, SnapshotAssumption DEF TypeOK
  <2> QED
    BY <2>1, <2>2, SnapshotAssumption DEF Kind
<1> QED
  BY <1>1, <1>2

(* The walk cannot get past such a path, or a directory above it, without   *)
(* failing or listing it.                                                   *)
LEMMA StillAhead ==
  ASSUME TypeOK, pc = "first", NEW t \in todo, Stat(t) \/ Read(t) \/ List(t),
         pc' # "failed", NEW q \in links, Ahead(q)
  PROVE  Ahead(q)'
<1>1. PICK u \in todo : \/ q = u.path /\ u.type = "link" /\ u.do = "stat"
                        \/ q \in Inside[u.path] /\ u.type = "dir" /\ u.do \in {"stat", "list"}
  BY DEF Ahead
<1>2. t \in Task /\ u \in Task /\ t.path \in Paths /\ u.path \in Paths
  BY DEF TypeOK, Task
<1>3. CASE u \in todo'
  BY <1>1, <1>3 DEF Ahead
<1>4. CASE u \notin todo'
  <2>1. u = t
    BY <1>4 DEF Stat, Read, List, Fail, Follow, Done
  <2>2. CASE Stat(t)
    <3>1. u.type = "dir" /\ q \in Inside[t.path] /\ Kind(t.path) = "dir"
      BY <1>1, <1>2, <2>1, <2>2, LinkIsEntry DEF Stat, Fail
    <3>2. Follow(t, "list")
      BY <2>1, <2>2, <3>1 DEF Stat, Fail
    <3>3. [t EXCEPT !.do = "list"] \in todo'
      BY <3>2 DEF Follow
    <3>4. LET n == [t EXCEPT !.do = "list"]
          IN  n.path = t.path /\ n.type = t.type /\ n.do = "list"
      BY <1>2 DEF Task
    <3> QED
      BY <2>1, <3>1, <3>3, <3>4 DEF Ahead
  <2>3. CASE Read(t)
    BY <1>1, <2>1, <2>3 DEF Read, Visiting
  <2>4. CASE List(t)
    <3>1. q \in Inside[t.path] /\ todo' = (todo \ {t}) \cup Listed(Children(t.path))
      BY <1>1, <2>1, <2>4 DEF List, Visiting, Fail
    <3>2. PICK n \in Listed(Children(t.path)) : \/ q = n.path /\ n.type = Kind(q)
                                                \/ q \in Inside[n.path] /\ n.type = "dir"
      BY <1>2, <3>1, LinkIsEntry, ChildrenCover
    <3>3. n.do = "stat"
      BY DEF Listed
    <3> QED
      BY <3>1, <3>2, <3>3, LinkIsEntry DEF Ahead
  <2> QED
    BY <2>2, <2>3, <2>4
<1> QED
  BY <1>3, <1>4

LEMMA StepLink ==
  ASSUME TypeOK, LinkInv, [Next]_vars
  PROVE  LinkInv'
<1>1. CASE UNCHANGED vars
  BY <1>1 DEF vars, result, history, LinkInv
<1>2. CASE BeginFirst
  <2>1. pc' = "first" /\ lasting' = links /\ links' = links /\ todo' = Listed(Tops)
    BY <1>2 DEF BeginFirst
  <2>2. ASSUME NEW q \in lasting'
        PROVE  \E t \in todo' : \/ q = t.path /\ t.type = "link" /\ t.do = "stat"
                                \/ q \in Inside[t.path] /\ t.type = "dir" /\ t.do \in {"stat", "list"}
    <3>1. q \in links
      BY <2>1
    <3>2. PICK t \in Listed(Tops) : \/ q = t.path /\ t.type = Kind(q)
                                    \/ q \in Inside[t.path] /\ t.type = "dir"
      BY <3>1, LinkIsEntry, TopsCover
    <3>3. t.do = "stat"
      BY DEF Listed
    <3> QED
      BY <2>1, <3>1, <3>2, <3>3, LinkIsEntry
  <2> QED
    BY <2>1, <2>2 DEF LinkInv
<1>3. ASSUME NEW t \in todo, Stat(t) \/ Read(t) \/ List(t)
      PROVE  LinkInv'
  <2>1. pc \in Walks /\ pc' \in {pc, "failed"} /\ lasting' = lasting /\ links' = links
    BY <1>3 DEF Stat, Read, List, Fail, history
  <2>2. ASSUME pc' = "first", NEW q \in lasting
        PROVE  Ahead(q)'
    <3>1. pc = "first" /\ q \in links /\ Ahead(q)
      BY <2>1, <2>2 DEF LinkInv, Ahead
    <3> QED
      BY <1>3, <2>2, <3>1, StillAhead
  <2> QED
    BY <2>1, <2>2 DEF LinkInv, Ahead, Walks
<1>4. ASSUME NEW t \in todo, CopyFile(t)
      PROVE  LinkInv'
  BY <1>4 DEF CopyFile, At, Fail, LinkInv, history
<1>5. CASE BeginCopy
  BY <1>5 DEF BeginCopy, At, LinkInv
<1>6. CASE Verify \/ BeginLast \/ Compare
  BY <1>6 DEF Verify, BeginLast, Compare, At, Fail, LinkInv, history
<1>7. CASE StepFails \/ EndCycle
  BY <1>7 DEF StepFails, EndCycle, Fail, LinkInv
<1>8. ASSUME NEW p \in Paths, NEW v \in Values, NEW asLink \in BOOLEAN,
             asLink => v \in Contents, Edit(p, v, asLink)
      PROVE  LinkInv'
  <2>1. pc' = pc /\ todo' = todo
    BY <1>8, EditSees
  <2>2. Running => lasting' = lasting \cap links'
    BY <1>8 DEF Edit
  <2>3. pc # "confirmed"
    BY <1>8 DEF Edit
  <2> QED
    BY <2>1, <2>2, <2>3 DEF LinkInv, Running
<1> QED
  BY <1>1, <1>2, <1>3, <1>4, <1>5, <1>6, <1>7, <1>8 DEF Next, CycleStep, User

(* No version is confirmed of a source that has had a link all along: RF-21 *)
(* of spec 004 (backup_inventory.go:96).                                    *)
THEOREM LinksAreRejected == Spec => []LinksRejected
<1>1. Init => LinkInv
  BY DEF Init, LinkInv
<1>2. TypeOK /\ LinkInv /\ [Next]_vars => LinkInv'
  BY StepLink
<1>3. LinkInv => LinksRejected
  BY DEF LinkInv, LinksRejected, At
<1> QED
  BY TypeCorrect, <1>1, <1>2, <1>3, PTL DEF Spec

-----------------------------------------------------------------------------
(* One state of the source *)

LEMMA StepMoment ==
  ASSUME TypeOK, TypeOK', WalkInv, MomentInv, [Next]_vars
  PROVE  MomentInv'
<1>1. CASE UNCHANGED vars
  BY <1>1 DEF vars, result, history, MomentInv
<1>2. CASE BeginFirst
  <2>1. pc' = "first" /\ seen'["last"] = NotSeen
    BY <1>2 DEF BeginFirst, Phases
  <2> QED
    BY <2>1 DEF MomentInv
<1>3. ASSUME NEW t \in todo, Stat(t) \/ Read(t) \/ List(t) \/ CopyFile(t)
      PROVE  MomentInv'
  <2>1. pc' \in {pc, "failed"} /\ UNCHANGED <<src, seen, moment, returned>>
    BY <1>3 DEF Stat, Read, List, CopyFile, Fail, history
  <2> QED
    BY <2>1 DEF MomentInv
<1>4. CASE BeginCopy
  <2>1. /\ pc = "first" /\ pc' = "copy" /\ moment'["first"] = src /\ src' = src
        /\ seen'["first"] = seen["first"] /\ seen'["last"] = seen["last"]
    BY <1>4 DEF BeginCopy, At, TypeOK, Walks, Phases
  <2>2. seen'["last"] = NotSeen
    BY <2>1 DEF MomentInv
  <2> QED
    BY <2>1, <2>2 DEF MomentInv, WalkInv, Walks, NotSeen
<1>5. CASE Verify
  BY <1>5 DEF Verify, At, Fail, MomentInv, history
<1>6. CASE BeginLast
  <2>1. /\ pc = "verified" /\ pc' = "last" /\ src' = src /\ returned' = returned
        /\ moment'["first"] = moment["first"] /\ moment'["last"] = src
        /\ seen'["first"] = seen["first"] /\ seen'["last"] = Now
    BY <1>6 DEF BeginLast, At, TypeOK, Walks, Phases
  <2>2. \A q \in Paths : Now[q] = {src[q]}
    BY DEF Now
  <2> QED
    BY <2>1, <2>2 DEF MomentInv
<1>7. CASE Compare
  BY <1>7 DEF Compare, At, Fail, MomentInv, history
<1>8. CASE StepFails \/ EndCycle
  BY <1>8 DEF StepFails, EndCycle, Fail, MomentInv
<1>9. ASSUME NEW p \in Paths, NEW v \in Values, NEW asLink \in BOOLEAN,
             asLink => v \in Contents, Edit(p, v, asLink)
      PROVE  MomentInv'
  <2>1. /\ pc' = pc /\ moment' = moment /\ pc # "confirmed"
        /\ Running => \A q \in Paths, w \in Phases :
              seen'[w][q] = IF w = Phase THEN seen[w][q] \cup {src'[q]} ELSE seen[w][q]
    BY <1>9, EditSees DEF Edit
  <2>2. CASE ~Running
    BY <2>1, <2>2 DEF MomentInv, Running
  <2>3. CASE Running
    <3>1. pc \in {"first", "copy", "verified"} => seen'["last"] = NotSeen
      <4> SUFFICES ASSUME pc \in {"first", "copy", "verified"} PROVE seen'["last"] = NotSeen
        OBVIOUS
      <4>1. Phase # "last" /\ seen["last"] = NotSeen
        BY DEF Phase, MomentInv
      <4>2. Phase \in Phases
        BY DEF Phase, Phases
      <4>3. seen'["last"] = seen["last"]
        BY <1>9, <2>3, <4>1, <4>2 DEF Edit, TypeOK, Phases
      <4> QED
        BY <4>1, <4>3
    <3>2. ~returned' => ~returned /\ \A q \in Paths, w \in Phases :
                          src'[q] # src[q] => src'[q] \notin seen[w][q]
      BY <1>9, <2>3 DEF Edit
    <3>3. ASSUME pc \in {"copy", "verified", "last"}, NEW q \in Paths
          PROVE  /\ moment["first"][q] \in seen'["first"][q]
                 /\ seen'["first"][q] = seen["first"][q]
                 /\ ~returned' => \A u \in seen["first"][q] \ {moment["first"][q]} :
                                      u # src'[q] /\ u \notin seen'["last"][q]
                 /\ ~returned' /\ pc = "last" /\ moment["first"][q] # moment["last"][q]
                      => moment["first"][q] # src'[q] /\ moment["first"][q] \notin seen'["last"][q]
      <4>1. seen'["first"][q] = seen["first"][q] /\ moment["first"][q] \in seen["first"][q]
        BY <2>1, <2>3, <3>3 DEF MomentInv, Phase, Phases
      <4>2. /\ seen'["last"][q] \subseteq seen["last"][q] \cup {src'[q]}
            /\ ~returned' => ~returned /\ (src'[q] # src[q] => src'[q] \notin seen["first"][q])
        BY <2>1, <2>3, <3>2 DEF Phases
      <4>3. ASSUME ~returned', NEW u \in seen["first"][q], u # src[q], u \notin seen["last"][q]
            PROVE  u # src'[q] /\ u \notin seen'["last"][q]
        BY <4>2, <4>3
      <4> QED
        BY <3>3, <4>1, <4>2, <4>3 DEF MomentInv
    <3> QED
      BY <2>1, <2>3, <3>1, <3>3 DEF MomentInv, Running
  <2> QED
    BY <2>2, <2>3
<1> QED
  BY <1>1, <1>2, <1>3, <1>4, <1>5, <1>6, <1>7, <1>8, <1>9 DEF Next, CycleStep, User

(* Unless a path got a value back that it had before in the cycle, what a   *)
(* confirmed version holds is one state of the source: RF-23 of spec 004    *)
(* (backup_recovery_retention.go:243).                                      *)
THEOREM VersionsAreSnapshots == Spec => []ConfirmedIsSnapshot
<1> DEFINE W == TypeOK /\ WalkInv /\ ListInv /\ StageInv
<1>1. Init => MomentInv
  BY DEF Init, MomentInv, Phases
<1>2. W /\ W' /\ MomentInv /\ [Next]_vars => MomentInv'
  BY StepMoment
<1>3. W /\ MomentInv => ConfirmedIsSnapshot
  <2> SUFFICES ASSUME W, MomentInv, pc = "confirmed", ~returned
               PROVE  archive = moment["first"] /\ archive = moment["last"]
    BY DEF ConfirmedIsSnapshot, At
  <2>1. \A q \in Paths : archive[q] \in seen["first"][q] /\ archive[q] \in seen["last"][q]
    BY DEF StageInv, WasSo
  <2>2. \A q \in Paths : archive[q] = moment["first"][q]
    BY <2>1 DEF MomentInv
  <2>3. \A q \in Paths : moment["first"][q] = moment["last"][q]
    BY <2>1, <2>2 DEF MomentInv
  <2>4. /\ archive \in [Paths -> Values] /\ moment["first"] \in [Paths -> Values]
        /\ moment["last"] \in [Paths -> Values]
    BY DEF TypeOK, Walks
  <2> QED
    BY <2>2, <2>3, <2>4
<1> QED
  BY WalksHold, <1>1, <1>2, <1>3, PTL DEF Spec

-----------------------------------------------------------------------------
(* Cycles that nobody disturbs *)

(* What a task of a quiet walk says of its path is so. *)
Told(t) ==
  /\ t.type = Kind(t.path) /\ src[t.path] # Absent
  /\ t.do = "read" => t.type = "file"
  /\ t.do = "list" => t.type = "dir"

(* As long as nobody disturbs the cycle, its readings agree with the source,  *)
(* and only a link makes it fail.                                             *)
QuietInv ==
  ~disturbed =>
    /\ Running => lasting = links
    /\ pc = "failed" => lasting # {}
    /\ pc \in Walks => \A t \in todo : Told(t)
    /\ pc \in Walks => \A q \in Paths : seen[pc][q] \subseteq {src[q]}
    /\ pc \in {"copy", "verified", "last"} => inv["first"] = src
    /\ pc = "copy" =>
         /\ \A t \in todo : src[t.path] \in Contents
         /\ \A q \in Paths : archive[q] = src[q] \/ \E t \in todo : t.path = q

(* What a directory is listed with is so. *)
LEMMA ListedTold ==
  ASSUME NEW ps \in SUBSET Paths, NEW t \in Listed(ps)
  PROVE  Told(t)
BY DEF Listed, Told

(* What the kind of a path says of its value. *)
LEMMA KindsOf ==
  ASSUME TypeOK, NEW p \in Paths
  PROVE  /\ Kind(p) = "link" => p \in links
         /\ Kind(p) = "file" => src[p] \in Contents
         /\ Kind(p) = "dir" => src[p] = Folder
         /\ src[p] # Absent => Kind(p) \in {"link", "file", "dir"}
BY DEF TypeOK, Kind, Values

(* A walk of a source that does not change follows what it was told. *)
LEMMA QuietVisit ==
  ASSUME TypeOK, QuietInv, ~disturbed, NEW t \in todo, Stat(t) \/ Read(t) \/ List(t)
  PROVE  QuietInv'
<1>1. /\ pc \in Walks /\ UNCHANGED <<src, links, lasting, seen, disturbed>>
      /\ pc' \in {pc, "failed"} /\ t.path \in Paths /\ t \in Task
  BY DEF Stat, Read, List, Fail, history, TypeOK, Task
<1>2. Told(t) /\ Running /\ lasting = links
  BY <1>1 DEF QuietInv, Running, Walks
<1>3. CASE pc' = "failed"
  <2>1. pc # "failed"
    BY <1>1 DEF Walks
  <2>2. CASE Stat(t)
    <3>1. t.type = "link"
      BY <1>1, <1>2, <1>3, <2>1, <2>2, KindsOf DEF Stat, Told
    <3>2. QED
      BY <1>1, <1>2, <1>3, <3>1, KindsOf DEF Told, QuietInv, Running, Walks
  <2>3. CASE Read(t)
    BY <1>1, <1>2, <1>3, <2>1, <2>3, KindsOf DEF Read, Visiting, Told
  <2>4. CASE List(t)
    BY <1>1, <1>2, <1>3, <2>1, <2>4, KindsOf DEF List, Visiting, Told
  <2>5. QED
    BY <2>2, <2>3, <2>4
<1>4. CASE pc' = pc
  <2>1. \A u \in todo' : u \in todo \/ Told(u)
    <3>1. CASE Stat(t)
      <4>1. t.type # "link" /\ t.type \in {"file", "dir"}
        BY <1>1, <1>2, <1>4, <3>1, KindsOf DEF Stat, Told, Fail, Walks
      <4>2. \A do : [t EXCEPT !.do = do] = [do |-> do, path |-> t.path, type |-> t.type]
        BY <1>1 DEF Task
      <4>3. ASSUME NEW kind \in {t.type, Kind(t.path)},
                   \/ kind = "file" /\ Follow(t, "read")
                   \/ kind = "dir" /\ IF t.type = "dir" THEN Follow(t, "list") ELSE Done(t)
            PROVE  \A u \in todo' : u \in todo \/ Told(u)
        <5> DEFINE n(do) == [do |-> do, path |-> t.path, type |-> t.type]
        <5>1. /\ kind = t.type
              /\ t.type = "file" => Told(n("read"))
              /\ t.type = "dir" => Told(n("list"))
          BY <1>2, <4>3 DEF Told
        <5>2. \A do : Follow(t, do) => todo' = (todo \ {t}) \cup {n(do)}
          BY <4>2 DEF Follow
        <5> HIDE DEF n
        <5>3. QED
          BY <4>1, <4>3, <5>1, <5>2 DEF Done
      <4>4. \E kind \in {t.type, Kind(t.path)} :
               \/ kind = "file" /\ Follow(t, "read")
               \/ kind = "dir" /\ IF t.type = "dir" THEN Follow(t, "list") ELSE Done(t)
        BY <1>1, <1>2, <1>4, <3>1, <4>1 DEF Stat, Fail, Walks, Told
      <4>5. QED
        BY <4>3, <4>4
    <3>2. CASE Read(t)
      BY <1>1, <1>2, <1>4, <3>2 DEF Read, Visiting, Told, Fail, Done, Walks
    <3>3. CASE List(t)
      <4>1. todo' = (todo \ {t}) \cup Listed(Children(t.path))
        BY <1>1, <1>4, <3>3 DEF List, Fail, Walks
      <4>2. Children(t.path) \subseteq Paths
        BY DEF Children
      <4>3. QED
        BY <4>1, <4>2, ListedTold
    <3>4. QED
      BY <3>1, <3>2, <3>3
  <2>2. \A u \in todo' : Told(u)'
    BY <1>1, <2>1 DEF QuietInv, Told, Kind
  <2>3. pc = "last" => inv'["first"] = inv["first"]
    <3>1. inv' = inv \/ \E v : inv' = [inv EXCEPT ![pc][t.path] = v]
      BY <1>1 DEF Stat, Read, List, Fail, Record, result
    <3>2. QED
      BY <3>1 DEF TypeOK, Walks
  <2>4. QED
    BY <1>1, <1>2, <1>4, <2>2, <2>3 DEF QuietInv, Walks, Running
<1>5. QED
  BY <1>1, <1>3, <1>4

LEMMA StepQuiet ==
  ASSUME TypeOK, WalkInv, StageInv, QuietInv, [Next]_vars
  PROVE  QuietInv'
<1>1. CASE UNCHANGED vars
  BY <1>1 DEF vars, result, history, QuietInv, Told, Kind, Running
<1>2. CASE BeginFirst
  <2>1. /\ pc' = "first" /\ UNCHANGED <<src, links>> /\ lasting' = links
        /\ todo' = Listed(Tops) /\ seen'["first"] = Now
    BY <1>2 DEF BeginFirst, Phases
  <2>2. \A t \in todo' : Told(t)'
    <3>1. \A t \in Listed(Tops) : Told(t)
      BY ListedTold DEF Tops
    <3>2. QED
      BY <2>1, <3>1 DEF Told, Kind
  <2>3. \A q \in Paths : seen'["first"][q] \subseteq {src'[q]}
    BY <2>1 DEF Now
  <2>4. QED
    BY <2>1, <2>2, <2>3 DEF QuietInv
<1>3. CASE disturbed'
  BY <1>3 DEF QuietInv
<1>4. ASSUME ~disturbed, NEW t \in todo, Stat(t) \/ Read(t) \/ List(t)
      PROVE  QuietInv'
  BY <1>4, QuietVisit
<1>5. ASSUME ~disturbed, NEW t \in todo, CopyFile(t)
      PROVE  QuietInv'
  <2>1. /\ pc = "copy" /\ UNCHANGED <<src, links, lasting, seen, disturbed>>
        /\ t.path \in Paths
    BY <1>5 DEF CopyFile, At, history, TypeOK, Task
  <2>2. src[t.path] \in Contents
    BY <1>5, <2>1 DEF QuietInv
  <2>3. /\ pc' = "copy" /\ todo' = todo \ {t} /\ inv' = inv
        /\ archive' = [archive EXCEPT ![t.path] = src[t.path]]
    BY <1>5, <2>1, <2>2 DEF CopyFile, Done
  <2>4. \A q \in Paths : archive'[q] = src[q] \/ \E u \in todo' : u.path = q
    BY <1>5, <2>1, <2>3 DEF QuietInv, TypeOK
  <2>5. QED
    BY <1>5, <2>1, <2>3, <2>4 DEF QuietInv, Running, Walks
<1>6. CASE BeginCopy /\ ~disturbed
  <2>1. pc = "first" /\ pc' = "copy" /\ todo = {} /\ UNCHANGED <<src, links, inv, lasting>>
    BY <1>6 DEF BeginCopy, At
  <2>2. inv["first"] = src
    <3>1. \A q \in Paths : inv["first"][q] \in seen["first"][q] /\ seen["first"][q] \subseteq {src[q]}
      BY <1>6, <2>1, WalkedWasSo DEF WasSo, QuietInv, Walks
    <3>2. inv["first"] \in [Paths -> Values] /\ src \in [Paths -> Values]
      BY DEF TypeOK, Walks
    <3>3. QED
      BY <3>1, <3>2
  <2>3. todo' = {[do |-> "read", path |-> p, type |-> "file"] : p \in {q \in Paths : src[q] \in Contents}}
    BY <1>6, <2>2 DEF BeginCopy
  <2>4. \A t \in todo' : src[t.path] \in Contents
    BY <2>3
  <2>5. archive' = [p \in Paths |-> IF src[p] = Folder THEN Folder ELSE Absent]
    BY <1>6, <2>2 DEF BeginCopy
  <2>6. ASSUME NEW q \in Paths PROVE archive'[q] = src[q] \/ \E t \in todo' : t.path = q
    <3>1. CASE src[q] \in Contents
      <4>1. [do |-> "read", path |-> q, type |-> "file"] \in todo'
        BY <2>3, <3>1
      <4>2. QED
        BY <4>1
    <3>2. CASE src[q] \in {Absent, Folder}
      BY <2>5, <3>2
    <3>3. QED
      BY <3>1, <3>2 DEF TypeOK, Values
  <2>7. QED
    BY <1>6, <2>1, <2>2, <2>4, <2>6 DEF QuietInv, Running, Walks
<1>7. CASE Verify /\ ~disturbed
  <2>1. pc = "copy" /\ todo = {} /\ UNCHANGED <<src, links, lasting, disturbed>>
    BY <1>7 DEF Verify, At, history
  <2>2. archive = inv["first"]
    <3>1. \A q \in Paths : archive[q] = src[q]
      BY <1>7, <2>1 DEF QuietInv
    <3>2. archive \in [Paths -> Values] /\ src \in [Paths -> Values] /\ inv["first"] = src
      BY <1>7, <2>1 DEF TypeOK, QuietInv
    <3>3. QED
      BY <3>1, <3>2
  <2>3. pc' = "verified" /\ UNCHANGED <<todo, inv>>
    BY <1>7, <2>2 DEF Verify, result
  <2>4. QED
    BY <1>7, <2>1, <2>3 DEF QuietInv, Running, Walks
<1>8. CASE BeginLast /\ ~disturbed
  <2>1. /\ pc = "verified" /\ pc' = "last" /\ UNCHANGED <<src, links, inv, lasting>>
        /\ todo' = Listed(Tops) /\ seen'["last"] = Now
    BY <1>8 DEF BeginLast, At, result, TypeOK, Phases
  <2>2. \A t \in todo' : Told(t)'
    <3>1. \A t \in Listed(Tops) : Told(t)
      BY ListedTold DEF Tops
    <3>2. QED
      BY <2>1, <3>1 DEF Told, Kind
  <2>3. \A q \in Paths : seen'["last"][q] \subseteq {src'[q]}
    BY <2>1 DEF Now
  <2>4. QED
    BY <1>8, <2>1, <2>2, <2>3 DEF QuietInv, Running
<1>9. CASE Compare /\ ~disturbed
  <2>1. pc = "last" /\ todo = {} /\ UNCHANGED <<src, links, lasting, disturbed>>
    BY <1>9 DEF Compare, At, history
  <2>2. inv["last"] = inv["first"]
    <3>1. \A q \in Paths : inv["last"][q] \in seen["last"][q] /\ seen["last"][q] \subseteq {src[q]}
      BY <1>9, <2>1, WalkedWasSo DEF WasSo, QuietInv, Walks
    <3>2. /\ inv["last"] \in [Paths -> Values] /\ src \in [Paths -> Values]
          /\ inv["first"] = src
      BY <1>9, <2>1 DEF TypeOK, Walks, QuietInv
    <3>3. QED
      BY <3>1, <3>2
  <2>3. pc' = "confirmed"
    BY <1>9, <2>2 DEF Compare
  <2>4. QED
    BY <2>3 DEF QuietInv, Running, Walks
<1>10. CASE EndCycle
  BY <1>10 DEF EndCycle, QuietInv, Running, Walks
<1>11. ASSUME NEW p \in Paths, NEW v \in Values, NEW asLink \in BOOLEAN, Edit(p, v, asLink),
              ~disturbed'
       PROVE  QuietInv'
  <2>1. ~Running /\ pc' = pc /\ pc # "failed"
    BY <1>11 DEF Edit
  <2>2. QED
    BY <2>1 DEF QuietInv, Running, Walks
<1>12. CASE disturbed /\ ~BeginFirst
  <2>1. disturbed'
    BY <1>12 DEF Next, CycleStep, User, Edit, Stat, Read, List, CopyFile, BeginCopy, Verify,
       BeginLast, Compare, StepFails, EndCycle, vars, history
  <2>2. QED
    BY <2>1 DEF QuietInv
<1>13. CASE StepFails
  BY <1>13 DEF StepFails, QuietInv
<1> QED
  BY <1>1, <1>2, <1>3, <1>4, <1>5, <1>6, <1>7, <1>8, <1>9, <1>10, <1>11, <1>12, <1>13
  DEF Next, CycleStep, User

(* A cycle that no user and no failed call disturbs fails only because of a *)
(* link in its source: the three readings agree for every tree and every    *)
(* order of the steps (backup_recovery_retention.go:243).                   *)
THEOREM QuietCyclesConfirm == Spec => []QuietCycleConfirms
<1>1. Init => QuietInv
  BY DEF Init, QuietInv, Running, Walks
<1>2. TypeOK /\ WalkInv /\ ListInv /\ StageInv /\ QuietInv /\ [Next]_vars => QuietInv'
  BY StepQuiet
<1>3. QuietInv => QuietCycleConfirms
  BY DEF QuietInv, QuietCycleConfirms, At
<1> QED
  BY WalksHold, <1>1, <1>2, <1>3, PTL DEF Spec
=============================================================================
