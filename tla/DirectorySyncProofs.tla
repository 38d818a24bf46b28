------------------------ MODULE DirectorySyncProofs ------------------------
(***************************************************************************)
(* Proofs about DirectorySync, for every set of paths, contents and        *)
(* disturbances but where said: one direction never changes its source;    *)
(* types; the newer file prevails; no file of the merge is lost; only what *)
(* was discarded vanishes; a commit is the merge; undisturbed runs commit. *)
(***************************************************************************)
EXTENDS DirectorySync, FiniteSetTheorems, SequenceTheorems, TLAPS

(* A sequence of actions all of which write to the second tree. *)
Aimed(q) == \E A : q \in Seq(A) /\ \A a \in A : a.to = 2

(* The inductive invariant: in one direction, and before a run has read    *)
(* which it is, whatever is still to be done aims at the destination.      *)
AimedInv ==
  /\ DOMAIN tree = Sides
  /\ edits \in Nat
  /\ mode = "unidirectional" \/ At("idle") => Aimed(plan) /\ Aimed(current) /\ Aimed(work)

-----------------------------------------------------------------------------
(* Sequences of such actions *)

LEMMA AimedEmpty == Aimed(<<>>)
<1> DEFINE A == {}
<1>1. <<>> \in Seq(A) /\ \A a \in A : a.to = 2
  OBVIOUS
<1> HIDE DEF A
<1> QED
  BY <1>1, Zenon DEF Aimed

(* A sequence given by its elements, as the planners build it. *)
LEMMA AimedMap ==
  ASSUME NEW n \in Nat, NEW e, e = [i \in 1..n |-> e[i]], \A i \in 1..n : e[i].to = 2
  PROVE  Aimed(e)
<1> DEFINE A == {e[i] : i \in 1..n}
<1>1. e \in Seq(A) /\ \A a \in A : a.to = 2
  OBVIOUS
<1> HIDE DEF A
<1> QED
  BY <1>1, Zenon DEF Aimed

(* The first action of a plan, and the rest of it. *)
LEMMA AimedHeadTail ==
  ASSUME NEW q, Aimed(q), q # <<>>
  PROVE  Head(q).to = 2 /\ Aimed(Tail(q))
<1>1. PICK A : q \in Seq(A) /\ \A a \in A : a.to = 2
  BY DEF Aimed
<1>2. Head(q) \in A /\ Tail(q) \in Seq(A)
  BY <1>1
<1> QED
  BY <1>1, <1>2 DEF Aimed

(* What a file operation leaves to be done. *)
LEMMA AimedConcat ==
  ASSUME NEW q, NEW r, Aimed(q), Aimed(r)
  PROVE  Aimed(q \o r)
<1>1. PICK A : q \in Seq(A) /\ \A a \in A : a.to = 2
  BY DEF Aimed
<1>2. PICK B : r \in Seq(B) /\ \A b \in B : b.to = 2
  BY DEF Aimed
<1>3. q \in Seq(A \cup B) /\ r \in Seq(A \cup B)
  BY <1>1, <1>2
<1>4. q \o r \in Seq(A \cup B)
  BY <1>3
<1> QED
  BY <1>1, <1>2, <1>4 DEF Aimed

LEMMA AimedOne ==
  ASSUME NEW a, a.to = 2
  PROVE  Aimed(<<a>>)
<1> DEFINE A == {a}
<1>1. <<a>> \in Seq(A) /\ \A b \in A : b.to = 2
  OBVIOUS
<1> HIDE DEF A
<1> QED
  BY <1>1, Zenon DEF Aimed

(* The listing of a set of paths is finite. *)
LEMMA ListingLength ==
  ASSUME NEW S \in SUBSET Paths
  PROVE  Cardinality(S) \in Nat /\ DOMAIN InOrder(S) = 1..Cardinality(S)
<1>1. IsFiniteSet(S)
  BY PathAssumption, FS_Subset
<1> QED
  BY <1>1, FS_CardinalityType DEF InOrder

-----------------------------------------------------------------------------
(* generateUnidirectionalSynchronizationPlan only names the second side. *)
LEMMA PlanIsAimed ==
  ASSUME NEW a, NEW b
  PROVE  Aimed(SidePlan(a, b, 1))
<1> DEFINE todo == Differing(a, b)
           n == Cardinality({p \in Paths : ~Alike(a[p], b[p])})
<1>1. n \in Nat /\ DOMAIN todo = 1..n
  BY ListingLength DEF Differing
<1>2. \A p : AuthoritativeFor(p, a, b, 1).to = 2
  BY DEF AuthoritativeFor, Do, Copy, Other
<1>3. SidePlan(a, b, 1) = [i \in 1..n |-> AuthoritativeFor(todo[i], a, b, 1)]
  BY <1>1 DEF SidePlan
<1> QED
  BY <1>1, <1>2, <1>3, AimedMap

(* The operations that follow an operation aim where it does. *)
LEMMA ThenIsAimed ==
  ASSUME Aimed(work), work # <<>>, NEW op, NEW content
  PROVE  Aimed(Then(op, content))
<1>1. Head(work).to = 2 /\ Aimed(Tail(work))
  BY AimedHeadTail
<1> QED
  BY <1>1, AimedOne, AimedConcat DEF Then

LEMMA ChildrenAreAimed ==
  ASSUME Aimed(work), work # <<>>, NEW S \in SUBSET Paths
  PROVE  Aimed([i \in DOMAIN InOrder(S) |-> Do("copy", Head(work).to, InOrder(S)[i])]
                 \o Tail(work))
<1>1. Head(work).to = 2 /\ Aimed(Tail(work))
  BY AimedHeadTail
<1> DEFINE c == [i \in DOMAIN InOrder(S) |-> Do("copy", Head(work).to, InOrder(S)[i])]
<1>2. Cardinality(S) \in Nat /\ c = [i \in 1..Cardinality(S) |-> c[i]]
  BY ListingLength
<1>3. \A i \in 1..Cardinality(S) : c[i].to = 2
  BY <1>1, ListingLength DEF Do
<1>4. Aimed(c)
  BY <1>2, <1>3, AimedMap
<1> QED
  BY <1>1, <1>4, AimedConcat

-----------------------------------------------------------------------------
(* One file operation in one direction: the source keeps its entries and   *)
(* what is left to be done aims at the destination.                        *)
LEMMA FileOperationAimed ==
  ASSUME AimedInv, mode = "unidirectional", FileOperation
  PROVE  /\ DOMAIN tree' = Sides /\ tree'[1] = tree[1] /\ edits' = edits
         /\ Aimed(plan') /\ Aimed(current') /\ Aimed(work')
<1> USE DEF AimedInv
<1> DEFINE Kept == /\ DOMAIN tree' = Sides /\ tree'[1] = tree[1] /\ edits' = edits
                   /\ Aimed(plan') /\ Aimed(current') /\ Aimed(work')
<1>1. ASSUME work # <<>>, NEW t, NEW rest, Aimed(rest), Effect(t, rest)
      PROVE  Kept
  BY <1>1, AimedHeadTail DEF Effect, Sides, env
<1>2. ASSUME OperationFails
      PROVE  Kept
  BY <1>2 DEF OperationFails, Fail, run, env
<1>3. ASSUME work # <<>>
      PROVE  Aimed(Tail(work)) /\ Head(work).to = 2
  BY <1>3, AimedHeadTail
<1>4. CASE RemoveChild
  <2>1. PICK p \in Inside[Target] : Effect([Here EXCEPT ![p] = Absent], work)
    BY <1>4 DEF RemoveChild
  <2> QED
    BY <1>1, <1>4, <2>1 DEF RemoveChild, Doing
<1>5. CASE CopyEntry
  BY <1>1, <1>2, <1>5, ThenIsAimed DEF CopyEntry, Doing
<1>6. CASE MakeFolder
  <2>1. ChildrenIn(There, Target) \in SUBSET Paths
    BY DEF ChildrenIn, Children
  <2> QED
    BY <1>1, <1>2, <1>6, <2>1, ThenIsAimed, ChildrenAreAimed DEF MakeFolder, Doing
<1>7. CASE ReadFails
  BY <1>2, <1>7 DEF ReadFails
<1>8. CASE CreateFile
  BY <1>1, <1>2, <1>8, ThenIsAimed DEF CreateFile, Doing
<1>9. CASE FillFile
  BY <1>3, <1>9 DEF FillFile, Doing, Sides
<1>10. CASE DeleteEntry
  BY <1>1, <1>2, <1>3, <1>10 DEF DeleteEntry, Doing
<1> QED
  BY <1>4, <1>5, <1>6, <1>7, <1>8, <1>9, <1>10 DEF FileOperation

(* Every other step, whoever takes it. *)
LEMMA StepAimed ==
  ASSUME AimedInv, [Next]_vars
  PROVE  AimedInv' /\ (mode = "unidirectional" /\ edits' = edits => tree'[1] = tree[1])
<1> USE DEF AimedInv
<1> DEFINE Kept == AimedInv' /\ (mode = "unidirectional" /\ edits' = edits => tree'[1] = tree[1])
<1>1. CASE FileOperation
  <2>0. ~At("idle") /\ ~At("idle")' /\ mode' = mode
    BY <1>1 DEF FileOperation, RemoveChild, CopyEntry, MakeFolder, ReadFails, CreateFile, FillFile,
      DeleteEntry, Doing, Effect, OperationFails, Fail, At, Goto, env
  <2>1. CASE mode = "unidirectional"
    BY <1>1, <2>0, <2>1, FileOperationAimed
  <2>2. CASE mode # "unidirectional"
    BY <1>1, <2>0, <2>2 DEF FileOperation, RemoveChild, CopyEntry, MakeFolder, ReadFails, CreateFile,
      FillFile, DeleteEntry, Effect, OperationFails, env, Sides
  <2> QED
    BY <2>1, <2>2
<1>2. CASE BeginRun
  BY <1>2 DEF BeginRun, run, At, Goto
<1>3. ASSUME NEW s, NEW label, NEW next \in {"second", "plan", "commit"},
             TakeInventory(s, label, next)
      PROVE  Kept
  BY <1>3 DEF TakeInventory, env, At, Goto
<1>4. CASE MakePlan
  <2>1. mode = "unidirectional" => Aimed(plan')
    BY <1>4, PlanIsAimed DEF MakePlan, PlanWith, Fail, run, env
  <2> QED
    BY <1>4, <2>1 DEF MakePlan, Fail, run, env, At, Goto
<1>5. CASE NextAction
  <2>1. mode = "unidirectional" => Aimed(plan') /\ Aimed(current') /\ Aimed(work')
    BY <1>5, AimedHeadTail, AimedOne DEF NextAction
  <2> QED
    BY <1>5, <2>1 DEF NextAction, env, At
<1>6. CASE Retry
  BY <1>6 DEF Retry, env, At
<1>7. CASE VerifyFirst
  BY <1>7 DEF VerifyFirst, env, At, Goto
<1>8. CASE Commit
  BY <1>8 DEF Commit, Fail, run, env, At, Goto
<1>9. CASE EndRun
  BY <1>9, AimedEmpty DEF EndRun, Clear, NoAction
<1>10. CASE CallFails
  BY <1>10 DEF CallFails, OperationFails, Fail, run, env, At, Goto
<1>11. CASE User
  <2>1. DOMAIN tree' = Sides /\ edits' = edits + 1 /\ UNCHANGED <<run, pc, mode>>
    BY <1>11 DEF User, RemoveRoot, WriteFile, MakeDirectory, RemoveEntry, Editing
  <2> QED
    BY <2>1 DEF run, At
<1>12. CASE LockFile
  BY <1>12 DEF LockFile, run, At
<1>13. CASE UnlockFile
  BY <1>13 DEF UnlockFile, run, At
<1>14. CASE Crash
  BY <1>14, AimedEmpty DEF Crash, Clear, NoAction
<1>15. CASE UNCHANGED vars
  BY <1>15 DEF vars, run, env, At
<1> QED
  BY <1>1, <1>2, <1>3, <1>4, <1>5, <1>6, <1>7, <1>8, <1>9, <1>10, <1>11, <1>12, <1>13, <1>14, <1>15
    DEF Next, RunStep

LEMMA InitAimed == Init => AimedInv
  BY AimedEmpty DEF Init, AimedInv, NoAction

(* In one direction whatever is still to be done aims at the destination    *)
(* (unidirectional_sync.go:26).                                             *)
THEOREM AlwaysAimed == Spec => []AimedInv
<1>1. AimedInv /\ [Next]_vars => AimedInv'
  BY StepAimed
<1> QED
  BY InitAimed, <1>1, PTL DEF Spec

(* Synchronization in one direction never changes its source: RF-14 of spec *)
(* 003 (unidirectional_sync.go:26, synchronization_executor.go:36).         *)
THEOREM SourceStaysUntouched == Spec => SourceUntouched
<1>1. AimedInv /\ [Next]_vars
        => [mode = "unidirectional" /\ edits' = edits => tree'[1] = tree[1]]_vars
  BY StepAimed
<1> QED
  BY AlwaysAimed, <1>1, PTL DEF Spec, SourceUntouched

-----------------------------------------------------------------------------
(* Listings *)

(* Where a path stands in the listing. *)
Place(p) == CHOOSE i \in DOMAIN Listing : Listing[i] = p

(* Every path has one place in the listing. *)
LEMMA PlaceIsOne ==
  /\ \A p \in Paths : Place(p) \in Nat /\ Place(p) \in DOMAIN Listing /\ Listing[Place(p)] = p
  /\ \A p, q \in Paths : Place(p) = Place(q) => p = q
  /\ \A i \in DOMAIN Listing : Listing[i] \in Paths /\ Place(Listing[i]) = i
<1> DEFINE n == Cardinality(Paths)
<1>1. n \in Nat /\ DOMAIN Listing = 1..n /\ Listing \in [1..n -> Paths]
  BY PathAssumption, FS_CardinalityType
<1>2. Listing \in Surjection(1..n, Paths)
  BY <1>1, PathAssumption DEF Surjection
<1>3. IsFiniteSet(1..n) /\ Cardinality(1..n) = n
  BY <1>1, FS_Interval
<1>4. Listing \in Injection(1..n, Paths)
  BY <1>2, <1>3, FS_SurjSameCardinalityImpliesInj
<1>5. \A i, j \in 1..n : Listing[i] = Listing[j] => i = j
  BY <1>4 DEF Injection, IsInjective
<1>6. \A p \in Paths : \E i \in DOMAIN Listing : Listing[i] = p
  BY PathAssumption
<1>7. \A p \in Paths : Place(p) \in DOMAIN Listing /\ Listing[Place(p)] = p
  BY <1>6 DEF Place
<1>8. \A i \in DOMAIN Listing : Listing[i] \in Paths
  BY PathAssumption
<1> HIDE DEF n
<1> QED
  BY <1>1, <1>5, <1>7, <1>8

(* The rank of a path in a set counts the members up to it. *)
LEMMA RankCounts ==
  ASSUME NEW S \in SUBSET Paths, NEW p \in S
  PROVE  Rank(S, p) = Cardinality({q \in S : Place(q) <= Place(p)})
<1>1. ASSUME NEW q \in S
      PROVE  (\E i, j \in DOMAIN Listing : i <= j /\ Listing[i] = q /\ Listing[j] = p)
               <=> Place(q) <= Place(p)
  BY PlaceIsOne
<1>2. {q \in S : \E i, j \in DOMAIN Listing : i <= j /\ Listing[i] = q /\ Listing[j] = p}
        = {q \in S : Place(q) <= Place(p)}
  BY <1>1
<1> QED
  BY <1>2 DEF Rank

(* Ranks number the members of a set in the order of the listing. *)
LEMMA RankOrders ==
  ASSUME NEW S \in SUBSET Paths, NEW p \in S, NEW q \in S, Place(p) < Place(q)
  PROVE  Rank(S, p) < Rank(S, q)
<1> DEFINE A == {x \in S : Place(x) <= Place(p)}
           B == {x \in S : Place(x) <= Place(q)}
<1>0. \A x \in S : Place(x) \in Nat
  BY PlaceIsOne
<1>1. IsFiniteSet(B) /\ A \in SUBSET B /\ q \in B /\ q \notin A
  <2>1. IsFiniteSet(S) /\ B \in SUBSET S
    BY PathAssumption, FS_Subset
  <2>2. IsFiniteSet(B)
    BY <2>1, FS_Subset
  <2> QED BY <1>0, <2>2
<1>2. Cardinality(A) <= Cardinality(B) /\ Cardinality(A) # Cardinality(B)
      /\ IsFiniteSet(A)
  BY <1>1, FS_Subset
<1>3. Cardinality(A) \in Nat /\ Cardinality(B) \in Nat
  BY <1>1, <1>2, FS_CardinalityType
<1>4. Rank(S, p) = Cardinality(A) /\ Rank(S, q) = Cardinality(B)
  BY RankCounts
<1> QED
  BY <1>2, <1>3, <1>4

(* A set of paths is listed without omission or repetition, a directory     *)
(* before what is in it.                                                    *)
LEMMA ListedInOrder ==
  ASSUME NEW S \in SUBSET Paths
  PROVE  /\ Cardinality(S) \in Nat /\ DOMAIN InOrder(S) = 1..Cardinality(S)
         /\ \A i \in DOMAIN InOrder(S) : InOrder(S)[i] \in S
         /\ \A p \in S : \E i \in DOMAIN InOrder(S) : InOrder(S)[i] = p
         /\ \A i, j \in DOMAIN InOrder(S) : i < j => Place(InOrder(S)[i]) < Place(InOrder(S)[j])
<1> DEFINE n == Cardinality(S)
           r == [p \in S |-> Rank(S, p)]
<1>0. IsFiniteSet(S) /\ n \in Nat /\ \A x \in S : Place(x) \in Nat
  BY PathAssumption, PlaceIsOne, FS_Subset, FS_CardinalityType
<1>1. ASSUME NEW p \in S PROVE Rank(S, p) \in 1..n
  <2> DEFINE A == {q \in S : Place(q) <= Place(p)}
  <2>1. A \in SUBSET S /\ p \in A
    BY <1>0
  <2>2. IsFiniteSet(A) /\ Cardinality(A) <= n
    BY <1>0, <2>1, FS_Subset
  <2>3. Cardinality(A) \in Nat /\ Cardinality(A) # 0
    BY <2>1, <2>2, FS_CardinalityType, FS_EmptySet
  <2> QED BY <1>0, <2>2, <2>3, RankCounts
<1>2. \A p, q \in S : Rank(S, p) = Rank(S, q) => p = q
  <2> SUFFICES ASSUME NEW p \in S, NEW q \in S, Rank(S, p) = Rank(S, q), p # q PROVE FALSE
    OBVIOUS
  <2>1. Place(p) < Place(q) \/ Place(q) < Place(p)
    BY <1>0, PlaceIsOne
  <2>2. Rank(S, p) \in Nat /\ Rank(S, q) \in Nat
    BY <1>1
  <2>3. Rank(S, p) < Rank(S, q) \/ Rank(S, q) < Rank(S, p)
    BY <2>1, RankOrders
  <2> QED BY <2>2, <2>3
<1>3. r \in Injection(S, 1..n)
  BY <1>1, <1>2 DEF Injection, IsInjective
<1>4. IsFiniteSet(1..n) /\ Cardinality(1..n) = n
  BY <1>0, FS_Interval
<1>5. r \in Surjection(S, 1..n)
  BY <1>3, <1>4, FS_Injection
<1>6. \A i \in 1..n : \E p \in S : Rank(S, p) = i
  BY <1>5 DEF Surjection
<1>7. ASSUME NEW i \in 1..n PROVE InOrder(S)[i] \in S /\ Rank(S, InOrder(S)[i]) = i
  BY <1>6 DEF InOrder
<1>8. DOMAIN InOrder(S) = 1..n
  BY DEF InOrder
<1>9. ASSUME NEW p \in S PROVE \E i \in 1..n : InOrder(S)[i] = p
  BY <1>1, <1>2, <1>7
<1>10. ASSUME NEW i \in 1..n, NEW j \in 1..n, i < j
       PROVE  Place(InOrder(S)[i]) < Place(InOrder(S)[j])
  <2> DEFINE p == InOrder(S)[i]  q == InOrder(S)[j]
  <2>1. p \in S /\ q \in S /\ Rank(S, p) = i /\ Rank(S, q) = j
    BY <1>7
  <2> HIDE DEF p, q
  <2>2. p # q
    BY <1>10, <2>1
  <2>3. ~(Place(q) < Place(p))
    BY <1>10, <2>1, RankOrders
  <2>4. Place(p) < Place(q)
    BY <1>0, <2>1, <2>2, <2>3, PlaceIsOne
  <2> QED BY <2>4 DEF p, q
<1> QED
  BY <1>0, <1>7, <1>8, <1>9, <1>10

(* A directory is listed before what is in it. *)
LEMMA AboveFirst ==
  ASSUME NEW p \in Paths, NEW a \in Ancestors(p)
  PROVE  Place(a) < Place(p)
<1>1. a \in Paths /\ p \in Inside[a] /\ a # p
  BY PathAssumption DEF Ancestors
<1>2. ~(Place(p) < Place(a))
  BY <1>1, PathAssumption, PlaceIsOne
<1> QED
  BY <1>1, <1>2, PlaceIsOne

-----------------------------------------------------------------------------
(* Entries and paths *)

(* Entries are nothing, a directory or a file with a content.               *)
LEMMA EntryKinds ==
  /\ Absent \in Entry /\ Folder \in Entry
  /\ \A c \in Contents \cup {Torn}, t \in 0..MaxClock : FileOf(c, t) \in Entry
  /\ \A e \in Entry : /\ e.kind \in {"none", "dir", "file"} /\ e.mtime \in 0..MaxClock
                      /\ e.content \in Contents \cup {Torn, NoContent}
                      /\ e.kind = "none" <=> e = Absent
                      /\ e.kind = "dir" <=> e = Folder
                      /\ e.kind = "file" <=> e.content # NoContent
<1>0. MaxClock \in Nat /\ Torn # NoContent /\ NoContent \notin Contents
  BY ValueAssumption
<1>1. /\ Absent \in Entry /\ Folder \in Entry
      /\ \A c \in Contents \cup {Torn}, t \in 0..MaxClock : FileOf(c, t) \in Entry
  BY DEF Entry
<1>2. ASSUME NEW e \in Entry
      PROVE  /\ e.kind \in {"none", "dir", "file"} /\ e.mtime \in 0..MaxClock
             /\ e.content \in Contents \cup {Torn, NoContent}
             /\ e.kind = "none" <=> e = Absent
             /\ e.kind = "dir" <=> e = Folder
             /\ e.kind = "file" <=> e.content # NoContent
  <2>1. CASE e = Absent
    BY <1>0, <2>1 DEF Absent, Folder
  <2>2. CASE e = Folder
    BY <1>0, <2>2 DEF Absent, Folder
  <2>3. CASE \E c \in Contents \cup {Torn}, t \in 0..MaxClock : e = FileOf(c, t)
    BY <1>0, <2>3 DEF Absent, Folder, FileOf
  <2> QED BY <2>1, <2>2, <2>3 DEF Entry
<1> QED BY <1>1, <1>2

(* What is above a directory is above what is in it. *)
LEMMA AboveAbove ==
  ASSUME NEW p \in Paths
  PROVE  /\ Ancestors(p) \in SUBSET Paths /\ p \notin Ancestors(p)
         /\ \A a \in Ancestors(p) : p \in Inside[a] /\ Ancestors(a) \subseteq Ancestors(p)
         /\ \A q \in Inside[p] : /\ q \in Paths /\ p \in Ancestors(q)
                                 /\ Ancestors(p) \subseteq Ancestors(q)
                                 /\ Inside[q] \subseteq Inside[p]
  BY PathAssumption DEF Ancestors

-----------------------------------------------------------------------------
(* Changes of a tree *)

IsTree(t) == t \in [Paths -> Entry] /\ WellFormed(t)

(* os.RemoveAll leaves a tree. *)
LEMMA RemovedTree ==
  ASSUME NEW t, IsTree(t), NEW p \in Paths
  PROVE  IsTree(Removed(t, p))
<1>1. Removed(t, p) \in [Paths -> Entry]
  BY EntryKinds DEF IsTree, Removed
<1>2. ASSUME NEW q \in Paths, Removed(t, p)[q].kind # "none", NEW a \in Ancestors(q)
      PROVE  Removed(t, p)[a].kind = "dir"
  <2>1. q # p /\ q \notin Inside[p] /\ t[q].kind # "none"
    BY <1>2 DEF Removed, Absent
  <2>2. a \in Paths /\ q \in Inside[a] /\ t[a].kind = "dir"
    BY <1>2, <2>1, AboveAbove DEF IsTree, WellFormed
  <2>3. a # p /\ a \notin Inside[p]
    BY <2>1, <2>2, AboveAbove
  <2> QED BY <2>2, <2>3 DEF Removed
<1> QED BY <1>1, <1>2 DEF IsTree, WellFormed

(* os.MkdirAll leaves a tree. *)
LEMMA FoldersTree ==
  ASSUME NEW t, IsTree(t), NEW ps \in SUBSET Paths, \A q \in ps : Ancestors(q) \subseteq ps,
         \A q \in ps : t[q].kind # "file"
  PROVE  /\ IsTree(WithFolders(t, ps)) /\ \A q \in ps : WithFolders(t, ps)[q].kind = "dir"
         /\ \A q \in Paths : t[q].kind # "none" => WithFolders(t, ps)[q] = t[q]
<1>1. WithFolders(t, ps) \in [Paths -> Entry]
  BY EntryKinds DEF IsTree, WithFolders
<1>2. \A q \in ps : WithFolders(t, ps)[q].kind = "dir"
  <2>1. \A q \in ps : q \in Paths /\ t[q] \in Entry
    BY DEF IsTree
  <2> QED BY <2>1, EntryKinds DEF WithFolders, Folder
<1>3. \A q \in Paths : t[q].kind # "none" => WithFolders(t, ps)[q] = t[q]
  BY DEF WithFolders
<1>4. ASSUME NEW q \in Paths, WithFolders(t, ps)[q].kind # "none", NEW a \in Ancestors(q)
      PROVE  WithFolders(t, ps)[a].kind = "dir"
  <2>1. CASE q \in ps
    BY <1>2, <2>1
  <2>2. CASE q \notin ps
    <3>1. t[q].kind # "none"
      BY <1>4, <2>2 DEF WithFolders
    <3>2. a \in Paths /\ t[a].kind = "dir"
      BY <3>1, AboveAbove DEF IsTree, WellFormed
    <3> QED BY <1>3, <3>2
  <2> QED BY <2>1, <2>2
<1> QED BY <1>1, <1>2, <1>3, <1>4 DEF IsTree, WellFormed

(* Removing a leaf leaves a tree. *)
LEMMA LeafTree ==
  ASSUME NEW t, IsTree(t), NEW p \in Paths, \A q \in Inside[p] : t[q].kind = "none"
  PROVE  IsTree([t EXCEPT ![p] = Absent])
<1> DEFINE u == [t EXCEPT ![p] = Absent]
<1>1. u \in [Paths -> Entry]
  BY EntryKinds DEF IsTree
<1>2. ASSUME NEW q \in Paths, u[q].kind # "none", NEW a \in Ancestors(q)
      PROVE  u[a].kind = "dir"
  <2>1. q # p /\ t[q].kind # "none"
    BY <1>2 DEF IsTree, Absent
  <2>2. a \in Paths /\ q \in Inside[a] /\ t[a].kind = "dir"
    BY <1>2, <2>1, AboveAbove DEF IsTree, WellFormed
  <2> QED BY <2>1, <2>2 DEF IsTree
<1> QED BY <1>1, <1>2 DEF IsTree, WellFormed

(* A new entry in a directory, where there is none or a file, leaves a tree. *)
LEMMA EntryTree ==
  ASSUME NEW t, IsTree(t), NEW p \in Paths, NEW e \in Entry, t[p].kind # "dir",
         \A a \in Ancestors(p) : t[a].kind = "dir"
  PROVE  IsTree([t EXCEPT ![p] = e])
<1> DEFINE u == [t EXCEPT ![p] = e]
<1>1. u \in [Paths -> Entry]
  BY DEF IsTree
<1>2. ASSUME NEW q \in Paths, u[q].kind # "none", NEW a \in Ancestors(q)
      PROVE  u[a].kind = "dir"
  <2>1. a \in Paths /\ a # q
    BY <1>2, AboveAbove
  <2>2. CASE q = p
    BY <2>1, <2>2 DEF IsTree
  <2>3. CASE q # p
    <3>1. t[q].kind # "none"
      BY <1>2, <2>3 DEF IsTree
    <3>2. t[a].kind = "dir"
      BY <3>1 DEF IsTree, WellFormed
    <3> QED BY <2>1, <3>2 DEF IsTree
  <2> QED BY <2>2, <2>3
<1> QED BY <1>1, <1>2 DEF IsTree, WellFormed

LEMMA EmptyTree == IsTree(NoTree)
  BY EntryKinds DEF IsTree, WellFormed, NoTree, Absent

-----------------------------------------------------------------------------
(* Types *)

(* The types, the trees that inventories and histories hold, and that a run  *)
(* has made the roots that were missing before it does anything else.        *)
TypeInv ==
  /\ TypeOK
  /\ \A s \in Sides : IsTree(inv[s])
  /\ plan \in Seq(Action) /\ current \in Seq(Action) /\ work \in Seq(Action)
  /\ pc \in {"first", "second", "plan", "execute"} => missing = {}

(* The destination of the file operation, and what it leaves to be done. *)
LEMMA OperandTypes ==
  ASSUME TypeInv, work # <<>>
  PROVE  /\ Head(work) \in Action /\ Tail(work) \in Seq(Action)
         /\ Head(work).to \in Sides /\ Other(Head(work).to) \in Sides /\ Target \in Paths
         /\ IsTree(Here) /\ IsTree(There)
         /\ \A op \in {"copy", "mkdir", "create", "fill", "unread", "delete"},
               c \in Contents \cup {Torn, NoContent} : Then(op, c) \in Seq(Action)
<1>1. Head(work) \in Action /\ Tail(work) \in Seq(Action)
  BY DEF TypeInv
<1>2. Head(work).to \in Sides /\ Target \in Paths
  BY <1>1 DEF Action, Target
<1>3. Other(Head(work).to) \in Sides
  BY <1>2 DEF Other, Sides
<1>4. \A s \in Sides : IsTree(tree[s])
  BY DEF TypeInv, TypeOK, IsTree
<1>5. IsTree(Here) /\ IsTree(There)
  BY <1>2, <1>3, <1>4 DEF Here, There
<1>6. ASSUME NEW op \in {"copy", "mkdir", "create", "fill", "unread", "delete"},
             NEW c \in Contents \cup {Torn, NoContent}
      PROVE  Then(op, c) \in Seq(Action)
  <2> DEFINE a == [op |-> op, to |-> Head(work).to, path |-> Target, content |-> c]
  <2>1. a \in Action
    BY <1>2 DEF Action
  <2> HIDE DEF a
  <2>2. <<a>> \in Seq(Action)
    BY <2>1
  <2>3. <<a>> \o Tail(work) \in Seq(Action)
    BY <1>1, <2>2
  <2> QED BY <2>3 DEF Then, a
<1> QED
  BY <1>1, <1>2, <1>3, <1>5, <1>6

(* The copies of the children of a directory. *)
LEMMA ChildrenTypes ==
  ASSUME TypeInv, work # <<>>, NEW S \in SUBSET Paths
  PROVE  [i \in DOMAIN InOrder(S) |-> Do("copy", Head(work).to, InOrder(S)[i])] \o Tail(work)
           \in Seq(Action)
<1> DEFINE c == [i \in DOMAIN InOrder(S) |-> Do("copy", Head(work).to, InOrder(S)[i])]
<1>1. Cardinality(S) \in Nat /\ DOMAIN InOrder(S) = 1..Cardinality(S)
      /\ \A i \in DOMAIN InOrder(S) : InOrder(S)[i] \in Paths
  BY ListedInOrder
<1>2. \A p \in Paths : Do("copy", Head(work).to, p) \in Action
  BY OperandTypes DEF Do, Action
<1>3. c \in [1..Cardinality(S) -> Action]
  BY <1>1, <1>2
<1>4. c \in Seq(Action)
  BY <1>1, <1>3
<1> HIDE DEF c
<1> QED
  BY <1>4, OperandTypes DEF c

(* Every file operation fails, or changes one tree and goes on. *)
LEMMA OperationTypes ==
  ASSUME TypeInv, FileOperation
  PROVE  /\ work # <<>> /\ At("execute") /\ ~locked
         /\ UNCHANGED <<missing, record, inv, plan, current, mode, locked, edits, history>>
         /\ \/ OperationFails
            \/ /\ UNCHANGED pc /\ work' \in Seq(Action)
               /\ clock' \in clock..MaxClock
               /\ \E t : tree' = [tree EXCEPT ![Head(work).to] = t] /\ IsTree(t)
<1> DEFINE Goes == /\ UNCHANGED pc /\ work' \in Seq(Action)
                   /\ clock' \in clock..MaxClock
                   /\ \E t : tree' = [tree EXCEPT ![Head(work).to] = t] /\ IsTree(t)
           Frame == UNCHANGED <<missing, record, inv, plan, current, mode, locked, edits, history>>
<1>0. clock \in clock..MaxClock /\ clock \in 0..MaxClock
  BY ValueAssumption DEF TypeInv, TypeOK
<1>1. ASSUME NEW t, IsTree(t), NEW rest \in Seq(Action), Effect(t, rest)
      PROVE  Frame /\ Goes
  BY <1>0, <1>1 DEF Effect, env
<1>2. ASSUME OperationFails PROVE Frame
  BY <1>2 DEF OperationFails, Fail, run, env
<1>3. CASE RemoveChild
  <2>1. work # <<>> /\ At("execute") /\ ~locked
    BY <1>3 DEF RemoveChild, Doing
  <2>2. PICK p \in Inside[Target] :
          /\ \A q \in Inside[p] : Here[q].kind = "none"
          /\ Effect([Here EXCEPT ![p] = Absent], work)
    BY <1>3 DEF RemoveChild
  <2>3. p \in Paths /\ IsTree(Here)
    BY <2>1, OperandTypes, AboveAbove
  <2>4. IsTree([Here EXCEPT ![p] = Absent])
    BY <2>2, <2>3, LeafTree
  <2> QED BY <1>1, <2>1, <2>2, <2>4 DEF TypeInv
<1>4. CASE CopyEntry
  <2>1. work # <<>> /\ At("execute") /\ ~locked
    BY <1>4 DEF CopyEntry, Doing
  <2>2. CASE There[Target].kind = "none" \/ UnderFile(Here, Target)
    BY <1>2, <1>4, <2>1, <2>2 DEF CopyEntry
  <2>3. CASE ~(There[Target].kind = "none" \/ UnderFile(Here, Target)) /\ There[Target].kind = "dir"
    <3>1. Effect(Removed(Here, Target), Then("mkdir", NoContent))
      BY <1>4, <2>3 DEF CopyEntry
    <3> QED BY <1>1, <2>1, <3>1, OperandTypes, RemovedTree
  <2>4. CASE ~(There[Target].kind = "none" \/ UnderFile(Here, Target)) /\ There[Target].kind # "dir"
    <3>1. Effect(Removed(WithFolders(Here, Ancestors(Target)), Target), Then("create", NoContent))
      BY <1>4, <2>4 DEF CopyEntry
    <3>2. Target \in Paths /\ IsTree(Here)
      BY <2>1, OperandTypes
    <3>3. \A q \in Ancestors(Target) : Here[q].kind # "file"
      BY <2>4 DEF UnderFile
    <3>4. IsTree(WithFolders(Here, Ancestors(Target)))
      BY <3>2, <3>3, AboveAbove, FoldersTree
    <3> QED BY <1>1, <2>1, <3>1, <3>2, <3>4, OperandTypes, RemovedTree
  <2> QED BY <2>2, <2>3, <2>4
<1>5. CASE MakeFolder
  <2>1. work # <<>> /\ At("execute") /\ ~locked
    BY <1>5 DEF MakeFolder, Doing
  <2>2. CASE UnderFile(Here, Target) \/ Here[Target].kind = "file"
    BY <1>2, <1>5, <2>1, <2>2 DEF MakeFolder
  <2>3. CASE ~(UnderFile(Here, Target) \/ Here[Target].kind = "file")
    <3>1. PICK rest : /\ Effect(WithFolders(Here, Ancestors(Target) \cup {Target}), rest)
                      /\ \/ rest = Then("unread", NoContent)
                         \/ rest = [i \in DOMAIN InOrder(ChildrenIn(There, Target)) |->
                                      Do("copy", Head(work).to, InOrder(ChildrenIn(There, Target))[i])]
                                     \o Tail(work)
      BY <1>5, <2>3 DEF MakeFolder
    <3>2. ChildrenIn(There, Target) \in SUBSET Paths
      BY DEF ChildrenIn, Children
    <3>3. rest \in Seq(Action)
      BY <2>1, <3>1, <3>2, OperandTypes, ChildrenTypes
    <3>4. Target \in Paths /\ IsTree(Here)
      BY <2>1, OperandTypes
    <3>5. \A q \in Ancestors(Target) \cup {Target} :
            /\ Here[q].kind # "file" /\ Ancestors(q) \subseteq Ancestors(Target) \cup {Target}
            /\ q \in Paths
      BY <2>3, <3>4, AboveAbove DEF UnderFile
    <3>6. IsTree(WithFolders(Here, Ancestors(Target) \cup {Target}))
      BY <3>4, <3>5, FoldersTree
    <3> QED BY <1>1, <2>1, <3>1, <3>3, <3>6
  <2> QED BY <2>2, <2>3
<1>6. CASE ReadFails
  BY <1>2, <1>6 DEF ReadFails, Doing
<1>7. CASE CreateFile
  <2>1. work # <<>> /\ At("execute") /\ ~locked
    BY <1>7 DEF CreateFile, Doing
  <2> DEFINE Cannot == \/ There[Target].kind = "none" \/ Here[Target].kind = "dir"
                       \/ \E a \in Ancestors(Target) : Here[a].kind # "dir"
  <2>2. CASE Cannot
    BY <1>2, <1>7, <2>1, <2>2 DEF CreateFile
  <2>3. CASE ~Cannot
    <3>1. PICK rest : /\ Effect([Here EXCEPT ![Target] = FileOf(Torn, clock)], rest)
                      /\ \/ rest = Then("unread", NoContent)
                         \/ rest = Then("fill", There[Target].content)
      BY <1>7, <2>3 DEF CreateFile
    <3>2. Target \in Paths /\ IsTree(Here) /\ IsTree(There)
      BY <2>1, OperandTypes
    <3>3. There[Target].content \in Contents \cup {Torn, NoContent}
      BY <3>2, EntryKinds DEF IsTree
    <3>4. rest \in Seq(Action)
      BY <2>1, <3>1, <3>3, OperandTypes
    <3>5. FileOf(Torn, clock) \in Entry
      BY <1>0, EntryKinds
    <3>6. IsTree([Here EXCEPT ![Target] = FileOf(Torn, clock)])
      BY <2>3, <3>2, <3>5, EntryTree
    <3> QED BY <1>1, <2>1, <3>1, <3>4, <3>6
  <2> QED BY <2>2, <2>3
<1>8. CASE FillFile
  <2>1. work # <<>> /\ At("execute") /\ ~locked
    BY <1>8 DEF FillFile, Doing
  <2>2. PICK t \in clock..MaxClock, c \in {Head(work).content, There[Target].content} \ {NoContent} :
          /\ clock' = t
          /\ tree' = IF Here[Target].content = Torn
                     THEN [tree EXCEPT ![Head(work).to][Target] = FileOf(c, t)] ELSE tree
    BY <1>8 DEF FillFile
  <2>3. Target \in Paths /\ IsTree(Here) /\ IsTree(There) /\ Head(work) \in Action
        /\ Head(work).to \in Sides
    BY <2>1, OperandTypes
  <2>4. c \in Contents \cup {Torn} /\ t \in 0..MaxClock
    <3>1. There[Target].content \in Contents \cup {Torn, NoContent}
      BY <2>3, EntryKinds DEF IsTree
    <3>2. Head(work).content \in Contents \cup {Torn, NoContent}
      BY <2>3 DEF Action
    <3> QED BY <1>0, <3>1, <3>2
  <2>5. FileOf(c, t) \in Entry
    BY <2>4, EntryKinds
  <2>6. \E u : tree' = [tree EXCEPT ![Head(work).to] = u] /\ IsTree(u)
    <3>1. CASE Here[Target].content = Torn
      <4>1. Here[Target].kind = "file"
        BY <2>3, <3>1, EntryKinds, ValueAssumption DEF IsTree
      <4>2. \A a \in Ancestors(Target) : Here[a].kind = "dir"
        BY <2>3, <4>1 DEF IsTree, WellFormed
      <4>3. IsTree([Here EXCEPT ![Target] = FileOf(c, t)])
        BY <2>3, <2>5, <4>1, <4>2, EntryTree
      <4> QED BY <2>2, <3>1, <4>3 DEF Here
    <3>2. CASE Here[Target].content # Torn
      <4>1. tree' = [tree EXCEPT ![Head(work).to] = Here]
        BY <2>2, <3>2 DEF Here, TypeInv, TypeOK
      <4> QED BY <2>3, <4>1
    <3> QED BY <3>1, <3>2
  <2>7. work' \in Seq(Action) /\ Frame /\ UNCHANGED pc
    BY <1>8, <2>1, OperandTypes DEF FillFile
  <2> QED BY <2>1, <2>2, <2>6, <2>7
<1>9. CASE DeleteEntry
  <2>1. work # <<>> /\ At("execute") /\ ~locked
    BY <1>9 DEF DeleteEntry, Doing
  <2>2. OperationFails \/ Effect(Removed(Here, Target), Tail(work))
    BY <1>9 DEF DeleteEntry
  <2> QED BY <1>1, <1>2, <2>1, <2>2, OperandTypes, RemovedTree
<1> QED
  BY <1>3, <1>4, <1>5, <1>6, <1>7, <1>8, <1>9 DEF FileOperation

(* One tree becomes another. *)
LEMMA TreesKept ==
  ASSUME TypeInv, NEW s \in Sides, NEW t, IsTree(t), tree' = [tree EXCEPT ![s] = t]
  PROVE  tree' \in [Sides -> [Paths -> Entry]] /\ \A r \in Sides : IsTree(tree'[r])
<1>1. tree \in [Sides -> [Paths -> Entry]] /\ t \in [Paths -> Entry]
      /\ \A r \in Sides : IsTree(tree[r])
  BY DEF TypeInv, TypeOK, IsTree
<1> QED
  BY <1>1

(* What every planner plans is one of the actions. *)
LEMMA PlanTypes ==
  ASSUME NEW a, NEW b, NEW choice \in [Paths -> Sides], NEW side \in Sides, NEW rec
  PROVE  MergePlan(a, b, rec, choice) \in Seq(Action) /\ SidePlan(a, b, side) \in Seq(Action)
<1> DEFINE S == {p \in Paths : ~Alike(a[p], b[p])}
<1>1. /\ Cardinality(S) \in Nat /\ DOMAIN Differing(a, b) = 1..Cardinality(S)
      /\ \A i \in 1..Cardinality(S) : Differing(a, b)[i] \in Paths
  BY ListedInOrder DEF Differing
<1>2. \A p \in Paths, s \in Sides : /\ Do("delete", s, p) \in Action /\ Copy(s, p) \in Action
                                    /\ Do("delete", Other(s), p) \in Action
  BY DEF Do, Copy, Action, Other, Sides
<1>3. 1 \in Sides /\ 2 \in Sides /\ \A p \in Paths : choice[p] \in Sides
  BY DEF Sides
<1>4. \A p \in Paths : ActionFor(p, a, b, rec, choice) \in Action
  BY <1>2, <1>3 DEF ActionFor, OneSided, FileConflict
<1>5. \A p \in Paths : AuthoritativeFor(p, a, b, side) \in Action
  BY <1>2, <1>3 DEF AuthoritativeFor
<1>6. MergePlan(a, b, rec, choice) \in [1..Cardinality(S) -> Action]
  BY <1>1, <1>4 DEF MergePlan
<1>7. SidePlan(a, b, side) \in [1..Cardinality(S) -> Action]
  BY <1>1, <1>5 DEF SidePlan
<1> DEFINE n == Cardinality(S)
<1>8. n \in Nat /\ MergePlan(a, b, rec, choice) \in [1..n -> Action]
      /\ SidePlan(a, b, side) \in [1..n -> Action]
  BY <1>1, <1>6, <1>7
<1> HIDE DEF n
<1>9. \A q \in [1..n -> Action] : q \in Seq(Action)
  BY <1>8
<1> QED
  BY <1>8, <1>9

LEMMA NoneEmpty == <<>> \in Seq(Action)
  OBVIOUS

(* Every step keeps the types: users and the run leave trees, in which an    *)
(* entry is in a directory, and what is to be done are actions.              *)
LEMMA TypeStep == TypeInv /\ [Next]_vars => TypeInv'
<1> SUFFICES ASSUME TypeInv, [Next]_vars PROVE TypeInv'
  OBVIOUS
<1>0. /\ clock \in 0..MaxClock /\ clock \in Nat /\ MaxClock \in Nat /\ edits \in 0..MaxEdits /\ MaxEdits \in Nat
      /\ \A s \in Sides : IsTree(tree[s])
  BY ValueAssumption DEF TypeInv, TypeOK, IsTree
<1> DEFINE Queues == /\ plan' \in Seq(Action) /\ current' \in Seq(Action) /\ work' \in Seq(Action)
           Labels == {"idle", "first", "second", "plan", "execute", "verify", "commit", "done",
                      "failed"}
           Made == pc' \in {"first", "second", "plan", "execute"} => missing' = {}
           Others == /\ record' \in Record
                     /\ pc' \in Labels /\ mode' \in Modes \cup {"none"}
                     /\ \A s \in Sides : IsTree(inv'[s])
                     /\ inv' \in [Sides -> [Paths -> Entry]]
                     /\ Queues /\ Made
                     /\ clock' \in 0..MaxClock /\ locked' \in BOOLEAN /\ edits' \in 0..MaxEdits
                     /\ disturbed' \subseteq {"edit", "call"} /\ discarded' \subseteq Paths
           Roots == /\ tree' \in [Sides -> [Paths -> Entry]] /\ \A s \in Sides : IsTree(tree'[s])
                    /\ missing' \subseteq {s \in Sides : tree'[s] = NoTree}
<1>a. ASSUME Others, Roots PROVE TypeInv'
  <2>1. \A seq \in {plan', current', work'} : \A i \in DOMAIN seq : seq[i] \in Action
    BY <1>a
  <2>2. TypeOK'
    BY <1>a, <2>1 DEF TypeOK, IsTree
  <2> QED BY <1>a, <2>2 DEF TypeInv
<1>b. ASSUME UNCHANGED tree, missing' \subseteq missing PROVE Roots
  BY <1>0, <1>b DEF TypeInv, TypeOK
<1>c. ASSUME UNCHANGED <<record, mode, inv, clock, locked, edits, disturbed, discarded>>,
             pc' \in Labels, Queues, Made
      PROVE  Others
  BY <1>c DEF TypeInv, TypeOK
<1>d. UNCHANGED run => inv' = inv /\ Queues
  BY DEF run, TypeInv
<1>1. CASE FileOperation
  <2>1. /\ work # <<>> /\ At("execute")
        /\ UNCHANGED <<missing, record, inv, plan, current, mode, locked, edits, history>>
        /\ \/ OperationFails
           \/ /\ UNCHANGED pc /\ work' \in Seq(Action) /\ clock' \in clock..MaxClock
              /\ \E t : tree' = [tree EXCEPT ![Head(work).to] = t] /\ IsTree(t)
    BY <1>1, OperationTypes
  <2>2. missing = {}
    BY <2>1 DEF TypeInv, At
  <2>3. CASE OperationFails
    <3>1. Others
      BY <2>1, <2>3, <1>c, <1>d DEF OperationFails, Fail, Goto, env, history
    <3>2. Roots
      BY <2>1, <2>3, <1>b DEF OperationFails
    <3> QED BY <1>a, <3>1, <3>2
  <2>4. CASE ~OperationFails
    <3>1. PICK t : tree' = [tree EXCEPT ![Head(work).to] = t] /\ IsTree(t)
      BY <2>1, <2>4
    <3>2. Roots
      BY <2>1, <2>2, <3>1, OperandTypes, TreesKept
    <3>3. clock' \in 0..MaxClock
      BY <1>0, <2>1, <2>4
    <3>4. Others
      BY <2>1, <2>2, <2>4, <3>3 DEF TypeInv, TypeOK, history
    <3> QED BY <1>a, <3>2, <3>4
  <2> QED BY <2>3, <2>4
<1>2. CASE BeginRun
  <2>1. Roots
    BY <1>2, <1>b DEF BeginRun
  <2>2. Others
    BY <1>2, <1>d DEF BeginRun, TypeInv, TypeOK, Goto
  <2> QED BY <1>a, <2>1, <2>2
<1>3. ASSUME NEW s \in Sides, NEW label \in {"first", "second", "verify"},
             NEW next \in {"second", "plan", "commit"}, TakeInventory(s, label, next),
             next = "commit" <=> label = "verify"
      PROVE  TypeInv'
  <2>1. Roots
    BY <1>3, <1>b DEF TakeInventory
  <2>2. inv' \in [Sides -> [Paths -> Entry]] /\ \A r \in Sides : IsTree(inv'[r])
    BY <1>0, <1>3 DEF TakeInventory, TypeInv, TypeOK, IsTree
  <2>3. Others
    BY <1>3, <2>2 DEF TakeInventory, TypeInv, TypeOK, Goto, At, env, history
  <2> QED BY <1>a, <2>1, <2>3
<1>4. CASE MakePlan
  <2>1. Roots
    BY <1>4, <1>b DEF MakePlan
  <2>2. plan' \in Seq(Action) /\ current' = current /\ work' = work /\ inv' = inv
    <3>1. CASE Asked /\ Fail
      BY <3>1 DEF Fail, run, TypeInv
    <3>2. ASSUME NEW choice \in Answers, NEW side \in Sides, plan' = PlanWith(choice, side)
          PROVE  plan' \in Seq(Action)
      BY <3>2, PlanTypes DEF PlanWith, Answers, Sides
    <3> QED BY <1>4, <3>1, <3>2 DEF MakePlan
  <2>3. pc' \in {"execute", "failed"} /\ missing = {}
    BY <1>4 DEF MakePlan, Fail, Goto, At, TypeInv
  <2>4. Others
    BY <1>4, <2>2, <2>3 DEF MakePlan, TypeInv, TypeOK, env
  <2> QED BY <1>a, <2>1, <2>4
<1>5. CASE NextAction
  <2>1. Roots
    BY <1>5, <1>b DEF NextAction
  <2>2. Head(plan) \in Action /\ Tail(plan) \in Seq(Action)
    BY <1>5 DEF NextAction, TypeInv
  <2>3. Queues
    BY <1>5, <2>2 DEF NextAction
  <2>4. Others
    BY <1>5, <1>c, <2>3 DEF NextAction, env, history, TypeInv, TypeOK
  <2> QED BY <1>a, <2>1, <2>4
<1>6. CASE Retry
  <2>1. Roots
    BY <1>6, <1>b DEF Retry
  <2>2. Queues
    BY <1>6 DEF Retry, TypeInv
  <2>3. Others
    BY <1>6, <1>c, <2>2 DEF Retry, env, history, TypeInv, TypeOK
  <2> QED BY <1>a, <2>1, <2>3
<1>7. CASE VerifyFirst
  <2>1. Roots
    BY <1>7, <1>b DEF VerifyFirst
  <2>2. inv' \in [Sides -> [Paths -> Entry]] /\ \A r \in Sides : IsTree(inv'[r])
    BY <1>0, <1>7 DEF VerifyFirst, TypeInv, TypeOK, IsTree, Sides
  <2>3. Others
    BY <1>7, <2>2 DEF VerifyFirst, TypeInv, TypeOK, Goto, env, history
  <2> QED BY <1>a, <2>1, <2>3
<1>8. CASE Commit
  <2>1. Roots
    BY <1>8, <1>b DEF Commit
  <2>2. UNCHANGED run /\ pc' \in {"done", "failed"}
        /\ record' \in Record /\ discarded' \subseteq Paths
    <3>1. CASE UNCHANGED <<record, discarded>>
      BY <1>8, <3>1 DEF Commit, Fail, Goto, TypeInv, TypeOK
    <3>2. CASE record' = [found |-> TRUE, paths |-> Present(inv[1])]
      <4>1. IsTree(inv[1])
        BY DEF TypeInv, Sides
      <4>2. \A p \in Present(inv[1]) : Ancestors(p) \subseteq Present(inv[1])
        BY <4>1 DEF IsTree, WellFormed, Present, Ancestors
      <4>3. record' \in Record
        <5>1. Present(inv[1]) \in SUBSET Paths
          BY DEF Present
        <5> QED BY <3>2, <4>2, <5>1 DEF Record
      <4> QED BY <1>8, <3>2, <4>3 DEF Commit, Fail, Goto, Present, TypeInv, TypeOK
    <3> QED BY <1>8, <3>1, <3>2 DEF Commit
  <2>3. Others
    BY <1>8, <1>d, <2>2 DEF Commit, env, TypeInv, TypeOK
  <2> QED BY <1>a, <2>1, <2>3
<1>9. ASSUME Clear, Goto("idle"), UNCHANGED <<tree, missing, record, clock, edits, discarded>>
      PROVE  TypeInv'
  <2>1. Roots
    BY <1>9, <1>b
  <2>2. inv' \in [Sides -> [Paths -> Entry]] /\ \A r \in Sides : IsTree(inv'[r])
    BY <1>9, EmptyTree DEF Clear, NoInventories, IsTree
  <2>3. Queues
    BY <1>9, NoneEmpty DEF Clear, NoAction
  <2>4. Others
    BY <1>9, <2>2, <2>3 DEF Clear, Goto, TypeInv, TypeOK
  <2> QED BY <1>a, <2>1, <2>4
<1>10. CASE CallFails
  <2>1. Roots
    BY <1>10, <1>b DEF CallFails
  <2>2. Others
    BY <1>10, <1>d DEF CallFails, Fail, Goto, env, TypeInv, TypeOK
  <2> QED BY <1>a, <2>1, <2>2
<1>11. ASSUME UNCHANGED <<tree, missing, record, pc, run, mode, clock, edits, history>>,
              locked' \in BOOLEAN
       PROVE  TypeInv'
  <2>1. Roots
    BY <1>11, <1>b
  <2>2. Others
    BY <1>11, <1>d DEF history, TypeInv, TypeOK
  <2> QED BY <1>a, <2>1, <2>2
<1>12. ASSUME Editing, NEW s \in Sides, NEW t, IsTree(t), tree' = [tree EXCEPT ![s] = t],
              clock' \in 0..MaxClock, discarded' \subseteq Paths,
              missing' \subseteq missing \cup {s}, s \in missing' => t = NoTree,
              At("idle") \/ missing' \subseteq missing
       PROVE  TypeInv'
  <2>1. edits' \in 0..MaxEdits
    BY <1>0, <1>12 DEF Editing
  <2>2. disturbed' \subseteq {"edit", "call"}
    BY <1>12 DEF Editing, TypeInv, TypeOK
  <2>3. Roots
    <3>1. tree' \in [Sides -> [Paths -> Entry]] /\ \A r \in Sides : IsTree(tree'[r])
      BY <1>12, TreesKept
    <3>2. \A r \in missing' : r \in Sides /\ tree'[r] = NoTree
      BY <1>12 DEF TypeInv, TypeOK
    <3> QED BY <3>1, <3>2
  <2>4. Made
    BY <1>12 DEF Editing, At, TypeInv
  <2>5. Others
    BY <1>12, <1>d, <2>1, <2>2, <2>4 DEF Editing, TypeInv, TypeOK
  <2> QED BY <1>a, <2>3, <2>5
<1>13. CASE User
  <2>1. PICK s \in Sides : RemoveRoot(s) \/ \E p \in Paths : WriteFile(s, p) \/ MakeDirectory(s, p) \/ RemoveEntry(s, p)
    BY <1>13 DEF User
  <2>2. CASE RemoveRoot(s)
    BY <1>0, <1>12, <2>2, EmptyTree DEF RemoveRoot, Present, TypeInv, TypeOK
  <2>3. ASSUME NEW p \in Paths, WriteFile(s, p) PROVE TypeInv'
    <3>1. PICK c \in Contents, t \in clock..MaxClock :
            clock' = t /\ tree' = [tree EXCEPT ![s][p] = FileOf(c, t)]
      BY <2>3 DEF WriteFile
    <3>2. t \in 0..MaxClock /\ FileOf(c, t) \in Entry
      BY <1>0, <3>1, EntryKinds
    <3>3. IsTree([tree[s] EXCEPT ![p] = FileOf(c, t)])
      BY <1>0, <2>3, <3>2, EntryTree DEF WriteFile, Reachable
    <3>4. tree' = [tree EXCEPT ![s] = [tree[s] EXCEPT ![p] = FileOf(c, t)]]
      BY <3>1
    <3>5. s \notin missing' /\ missing' \subseteq missing /\ discarded' = discarded
      BY <2>3 DEF WriteFile, InRoot
    <3> QED BY <1>12, <2>3, <3>1, <3>2, <3>3, <3>4, <3>5 DEF WriteFile, TypeInv, TypeOK
  <2>4. ASSUME NEW p \in Paths, MakeDirectory(s, p) PROVE TypeInv'
    <3>1. tree' = [tree EXCEPT ![s] = [tree[s] EXCEPT ![p] = Folder]]
      BY <2>4 DEF MakeDirectory
    <3>2. IsTree([tree[s] EXCEPT ![p] = Folder])
      BY <1>0, <2>4, EntryKinds, EntryTree DEF MakeDirectory, Reachable
    <3>3. s \notin missing' /\ missing' \subseteq missing /\ discarded' = discarded /\ clock' = clock
      BY <2>4 DEF MakeDirectory, InRoot
    <3> QED BY <1>0, <1>12, <2>4, <3>1, <3>2, <3>3 DEF MakeDirectory, TypeInv, TypeOK
  <2>5. ASSUME NEW p \in Paths, RemoveEntry(s, p) PROVE TypeInv'
    <3>1. tree' = [tree EXCEPT ![s] = Removed(tree[s], p)] /\ tree[s][p].kind # "none"
          /\ UNCHANGED <<missing, clock>>
      BY <2>5 DEF RemoveEntry, TypeInv, TypeOK
    <3>2. IsTree(Removed(tree[s], p))
      BY <1>0, RemovedTree
    <3>3. s \notin missing
      BY <3>1 DEF TypeInv, TypeOK, NoTree, Absent
    <3>4. discarded' \subseteq Paths
      BY <2>5, AboveAbove DEF RemoveEntry, TypeInv, TypeOK
    <3> QED BY <1>0, <1>12, <2>5, <3>1, <3>2, <3>3, <3>4 DEF RemoveEntry
  <2> QED BY <2>1, <2>2, <2>3, <2>4, <2>5
<1>14. CASE UNCHANGED vars
  BY <1>11, <1>14 DEF vars, env, TypeInv, TypeOK
<1> HIDE DEF Queues, Labels, Made, Others, Roots
<1> QED
  BY <1>1, <1>2, <1>3, <1>4, <1>5, <1>6, <1>7, <1>8, <1>9, <1>10, <1>11, <1>13, <1>14
  DEF Next, RunStep, EndRun, LockFile, UnlockFile, Crash, Sides

LEMMA InitTypes == Init => TypeInv
<1> SUFFICES ASSUME Init PROVE TypeInv
  OBVIOUS
<1>1. /\ tree \in [Sides -> [Paths -> Entry]] /\ \A s \in Sides : WellFormed(tree[s])
      /\ record \in Record
  BY StartAssumption DEF Init
<1>2. inv \in [Sides -> [Paths -> Entry]] /\ \A s \in Sides : IsTree(inv[s])
  BY EmptyTree DEF Init, NoInventories, IsTree
<1>3. plan \in Seq(Action) /\ current \in Seq(Action) /\ work \in Seq(Action)
  BY NoneEmpty DEF Init, NoAction
<1>4. \A seq \in {plan, current, work} : \A i \in DOMAIN seq : seq[i] \in Action
  BY <1>3
<1>5. 1 \in 0..MaxClock /\ 0 \in 0..MaxEdits
  BY ValueAssumption
<1>6. discarded \subseteq Paths /\ missing \subseteq {s \in Sides : tree[s] = NoTree}
  BY <1>1 DEF Init, Record
<1> QED BY <1>1, <1>2, <1>3, <1>4, <1>5, <1>6 DEF Init, TypeInv, TypeOK

(* Every variable keeps its type: whatever is interleaved, fails or crashes,  *)
(* each entry of both trees is in a directory, and a run has made the roots   *)
(* that were missing before it plans anything (root_creation.go:10;           *)
(* synchronization_executor.go:36).                                           *)
THEOREM TypeCorrect == Spec => []TypeOK
<1>1. TypeInv => TypeOK
  BY DEF TypeInv
<1> QED
  BY <1>1, InitTypes, TypeStep, PTL DEF Spec

-----------------------------------------------------------------------------
(* Plans and the action under way *)

(* What the planners decide for a path that differs, given the mode, the    *)
(* answers, two trees and the record of the run.                             *)
Decided(m, choice, a, b, rec, p) ==
  IF m = "unidirectional" THEN AuthoritativeFor(p, a, b, 1)
  ELSE IF rec.found THEN ActionFor(p, a, b, rec, choice)
  ELSE AuthoritativeFor(p, a, b, choice[p])

Differs(a, b) == {p \in Paths : ~Alike(a[p], b[p])}

(* The inventories a plan is made from, and what is planned for a path.      *)
Planned(p)  == Decided(mode, start.choice, inv[1], inv[2], record, p)
ToBePlanned == Differs(inv[1], inv[2])

(* The action under way, and what is left of it: the action itself at some   *)
(* stage, or copies of what is below a directory.                            *)
Under == current[1]

Below(p, s) == {a \in Action : a.path \in Inside[p] /\ a.to = s /\ a.op # "delete"}

WorkForm ==
  \/ work = <<>>
  \/ \E a \in Action :
       /\ work = <<a>> /\ a.path = Under.path /\ a.to = Under.to
       /\ Under.op = "delete" <=> a.op = "delete"
  \/ Under.op = "copy" /\ work \in Seq(Below(Under.path, Under.to))

(* The plan lists in order what is decided for each path that differs, and   *)
(* the paths before the action under way are done.                           *)
PlanForm ==
  /\ \A i \in DOMAIN plan : plan[i].path \in ToBePlanned /\ plan[i] = Planned(plan[i].path)
  /\ \A i, j \in DOMAIN plan : i < j => Place(plan[i].path) < Place(plan[j].path)
  /\ current = <<>> => work = <<>> /\ \A p \in ToBePlanned : \E i \in DOMAIN plan : plan[i].path = p
  /\ current # <<>> =>
       /\ current = <<Under>> /\ Under.path \in ToBePlanned /\ Under = Planned(Under.path)
       /\ \A i \in DOMAIN plan : Place(Under.path) < Place(plan[i].path)
       /\ \A p \in ToBePlanned : Place(Under.path) < Place(p) => \E i \in DOMAIN plan : plan[i].path = p
       /\ WorkForm

StartType ==
  [tree: [Sides -> [Paths -> Entry]], missing: SUBSET Sides, record: Record,
   choice: [Paths -> Sides], answered: BOOLEAN]

PlanInv ==
  /\ TypeInv
  /\ start \in StartType /\ \A s \in Sides : IsTree(start.tree[s])
  /\ pc \in {"idle", "first", "second", "plan"} => plan = <<>> /\ current = <<>> /\ work = <<>>
  /\ pc \in {"first", "second", "plan", "execute", "verify", "commit"} => start.record = record
  /\ At("execute") => PlanForm

LEMMA DecidedForm ==
  ASSUME NEW m, NEW choice \in [Paths -> Sides], NEW a, NEW b, NEW rec, NEW p \in Paths
  PROVE  LET d == Decided(m, choice, a, b, rec, p) IN
         /\ d \in Action /\ d.path = p /\ d.op \in {"copy", "delete"} /\ d.to \in Sides
         /\ d = Do(d.op, d.to, p)
<1>1. choice[p] \in Sides /\ 1 \in Sides /\ 2 \in Sides
  BY DEF Sides
<1>2. \A s \in Sides : /\ Other(s) \in Sides
                       /\ \E r \in Sides : OneSided(s, p, rec) = Do("delete", r, p)
                                             \/ OneSided(s, p, rec) = Do("copy", r, p)
                       /\ \E r \in Sides : Copy(s, p) = Do("copy", r, p)
  BY DEF OneSided, Copy, Other, Sides
<1>3. \A s \in Sides : \E r \in Sides : AuthoritativeFor(p, a, b, s) = Do("delete", r, p)
                                         \/ AuthoritativeFor(p, a, b, s) = Do("copy", r, p)
  BY <1>2 DEF AuthoritativeFor
<1>4. \E r \in Sides : ActionFor(p, a, b, rec, choice) = Do("delete", r, p)
                      \/ ActionFor(p, a, b, rec, choice) = Do("copy", r, p)
  BY <1>1, <1>2 DEF ActionFor, FileConflict
<1>5. \E r \in Sides : Decided(m, choice, a, b, rec, p) = Do("delete", r, p)
                      \/ Decided(m, choice, a, b, rec, p) = Do("copy", r, p)
  BY <1>1, <1>3, <1>4 DEF Decided
<1>6. \A r \in Sides, op \in {"copy", "delete"} :
        LET d == Do(op, r, p) IN d \in Action /\ d.path = p /\ d.op = op /\ d.to = r
  BY DEF Do, Action
<1> QED
  BY <1>5, <1>6

(* A copy comes from a side that has the path, a deletion from one that has   *)
(* it not.                                                                    *)
LEMMA DecidedSource ==
  ASSUME NEW m, NEW choice \in [Paths -> Sides], NEW t \in [Sides -> [Paths -> Entry]], NEW rec,
         NEW p \in Differs(t[1], t[2])
  PROVE  LET d == Decided(m, choice, t[1], t[2], rec, p) IN
         /\ d.op = "copy" => t[Other(d.to)][p].kind # "none"
         /\ d.op = "delete" => t[Other(d.to)][p].kind = "none" /\ t[d.to][p].kind # "none"
<1>1. /\ choice[p] \in Sides /\ 1 \in Sides /\ 2 \in Sides /\ 1 # 2 /\ p \in Paths
      /\ Other(1) = 2 /\ Other(2) = 1 /\ \A s \in Sides : s = 1 \/ s = 2
  BY DEF Sides, Other, Differs
<1>2. t[1][p] \in Entry /\ t[2][p] \in Entry /\ ~Alike(t[1][p], t[2][p])
  BY <1>1 DEF Differs
<1>3. t[1][p].kind # "none" \/ t[2][p].kind # "none"
  BY <1>2, EntryKinds DEF Alike
<1>4. \A op, s : /\ Do(op, s, p).op = op /\ Do(op, s, p).to = s
                 /\ Copy(s, p) = Do("copy", Other(s), p)
  BY DEF Do, Copy
<1> DEFINE Good(d) == /\ d.op = "copy" => t[Other(d.to)][p].kind # "none"
                      /\ d.op = "delete" => t[Other(d.to)][p].kind = "none" /\ t[d.to][p].kind # "none"
<1>5. ASSUME NEW s \in Sides, t[s][p].kind # "none" PROVE Good(Copy(s, p))
  BY <1>1, <1>4, <1>5
<1>6. ASSUME NEW s \in Sides, t[s][p].kind = "none" PROVE Good(Do("delete", Other(s), p))
  BY <1>1, <1>3, <1>4, <1>6
<1>7. \A s \in Sides : Good(AuthoritativeFor(p, t[1], t[2], s))
  BY <1>1, <1>5, <1>6 DEF AuthoritativeFor
<1>8. Good(ActionFor(p, t[1], t[2], rec, choice))
  <2>1. CASE t[2][p].kind = "none"
    BY <1>1, <1>3, <1>5, <1>6, <2>1 DEF ActionFor, OneSided
  <2>2. CASE t[2][p].kind # "none" /\ t[1][p].kind = "none"
    BY <1>1, <1>3, <1>5, <1>6, <2>2 DEF ActionFor, OneSided
  <2>3. CASE t[2][p].kind # "none" /\ t[1][p].kind # "none"
    <3>1. \A s \in Sides : t[s][p].kind # "none"
      BY <1>1, <2>3
    <3>2. \A s \in Sides : Good(Copy(s, p))
      BY <1>5, <3>1
    <3> HIDE DEF Good
    <3> QED BY <1>1, <2>3, <3>2 DEF ActionFor, FileConflict
  <2> QED BY <2>1, <2>2, <2>3
<1> HIDE DEF Good
<1>9. Good(Decided(m, choice, t[1], t[2], rec, p))
  BY <1>1, <1>7, <1>8 DEF Decided
<1> QED
  BY <1>9 DEF Good
(* What is to be done after a file operation is still part of the action     *)
(* under way: the next stage of the same path, or what is below it.          *)
LEMMA WorkStays ==
  ASSUME TypeInv, WorkForm, FileOperation, Under.op \in {"copy", "delete"}, Under.path \in Paths
  PROVE  WorkForm'
<1> DEFINE o == Under.path  s == Under.to
<1>0. /\ work # <<>> /\ current' = current
      /\ Head(work) \in Action /\ Tail(work) \in Seq(Action) /\ Target \in Paths
  BY OperationTypes, OperandTypes DEF TypeInv
<1>1. CASE work' = work
  BY <1>0, <1>1 DEF WorkForm, Under
<1>2. ASSUME NEW op \in {"copy", "mkdir", "create", "fill", "unread"},
             NEW c \in Contents \cup {Torn, NoContent}, work' = Then(op, c),
             Head(work).op # "delete"
      PROVE  WorkForm'
  <2> DEFINE n == [op |-> op, to |-> Head(work).to, path |-> Target, content |-> c]
  <2>1. n \in Action /\ work' = <<n>> \o Tail(work) /\ n.op # "delete"
    BY <1>0, <1>2 DEF Then, Action
  <2>2. ASSUME NEW a \in Action, work = <<a>>, a.path = o, a.to = s,
               Under.op = "delete" <=> a.op = "delete"
        PROVE  WorkForm'
    <3>1. Head(work) = a /\ Tail(work) = <<>>
      BY <2>2
    <3>2. n.path = o /\ n.to = s
      BY <2>2, <3>1 DEF Target
    <3> HIDE DEF n
    <3>3. work' = <<n>>
      <4>1. <<n>> \in Seq(Action)
        BY <2>1
      <4>2. <<n>> \o <<>> = <<n>>
        BY <4>1, ConcatEmptySeq
      <4> QED BY <2>1, <3>1, <4>2
    <3>4. Under.op # "delete"
      BY <1>2, <2>2, <3>1
    <3> QED BY <1>0, <2>1, <3>2, <3>3, <3>4 DEF WorkForm, Under
  <2>3. ASSUME Under.op = "copy", work \in Seq(Below(o, s))
        PROVE  WorkForm'
    <3>1. Head(work) \in Below(o, s) /\ Tail(work) \in Seq(Below(o, s))
      BY <1>0, <2>3
    <3>2. n \in Below(o, s)
      BY <2>1, <3>1 DEF Below, Target
    <3> HIDE DEF n
    <3>3. work' \in Seq(Below(o, s))
      BY <2>1, <3>1, <3>2
    <3> QED BY <1>0, <2>3, <3>3 DEF WorkForm, Under
  <2> QED BY <1>0, <2>2, <2>3 DEF WorkForm
<1>3. ASSUME NEW S \in SUBSET Inside[Target], Head(work).op # "delete",
             work' = [i \in DOMAIN InOrder(S) |-> Do("copy", Head(work).to, InOrder(S)[i])]
                       \o Tail(work)
      PROVE  WorkForm'
  <2> DEFINE q == [i \in DOMAIN InOrder(S) |-> Do("copy", Head(work).to, InOrder(S)[i])]
             n == Cardinality(S)
             B == Below(o, s)
  <2>1. S \in SUBSET Paths
    BY <1>0, PathAssumption
  <2>2. n \in Nat /\ DOMAIN InOrder(S) = 1..n /\ \A i \in 1..n : InOrder(S)[i] \in S
    BY <2>1, ListedInOrder
  <2>3. Inside[Target] \subseteq Inside[o] /\ Head(work).to = s /\ Tail(work) \in Seq(B)
        /\ Under.op = "copy"
    <3>1. ASSUME NEW a \in Action, work = <<a>>, a.path = o, a.to = s,
                 Under.op = "delete" <=> a.op = "delete"
          PROVE  /\ Inside[Target] \subseteq Inside[o] /\ Head(work).to = s /\ Tail(work) = <<>>
                 /\ Under.op = "copy"
      BY <1>3, <3>1 DEF Target
    <3>2. ASSUME Under.op = "copy", work \in Seq(B)
          PROVE  /\ Inside[Target] \subseteq Inside[o] /\ Head(work).to = s /\ Tail(work) \in Seq(B)
      <4>1. Head(work) \in B /\ Tail(work) \in Seq(B)
        BY <1>0, <3>2
      <4> QED BY <4>1, AboveAbove DEF Below, Target
    <3>3. <<>> \in Seq(B)
      OBVIOUS
    <3> HIDE DEF B
    <3> QED BY <1>0, <3>1, <3>2, <3>3 DEF WorkForm, B
  <2>4. \A p \in S : Do("copy", Head(work).to, p) \in B
    BY <1>0, <2>1, <2>3 DEF Do, Below, Action
  <2>5. q \in [1..n -> B]
    BY <2>2, <2>4
  <2> HIDE DEF q, n, B
  <2>6. q \in Seq(B)
    BY <2>2, <2>5
  <2>7. work' \in Seq(B)
    BY <1>3, <2>3, <2>6 DEF q
  <2> QED BY <1>0, <2>3, <2>7 DEF WorkForm, Under, B
<1>4. CASE work' = Tail(work)
  <2>1. ASSUME NEW a \in Action, work = <<a>> PROVE WorkForm'
    BY <1>4, <2>1 DEF WorkForm
  <2>2. ASSUME Under.op = "copy", work \in Seq(Below(o, s)) PROVE WorkForm'
    <3>1. Tail(work) \in Seq(Below(o, s))
      BY <1>0, <2>2
    <3> QED BY <1>0, <1>4, <2>2, <3>1 DEF WorkForm, Under
  <2> QED BY <1>0, <2>1, <2>2 DEF WorkForm
<1>5. ASSUME OperationFails PROVE work' = work
  BY <1>5 DEF OperationFails, Fail, run
<1>6. There[Target].content \in Contents \cup {Torn, NoContent}
  BY <1>0, OperandTypes, EntryKinds DEF IsTree
<1> USE DEF Doing, Effect
<1>7. CASE RemoveChild
  BY <1>1, <1>7 DEF RemoveChild
<1>8. CASE CopyEntry
  BY <1>1, <1>2, <1>5, <1>8 DEF CopyEntry
<1>9. CASE MakeFolder
  <2>1. ChildrenIn(There, Target) \in SUBSET Inside[Target]
    BY DEF ChildrenIn, Children
  <2>2. Head(work).op # "delete"
    BY <1>9 DEF MakeFolder
  <2>3. \/ OperationFails
        \/ work' = Then("unread", NoContent)
        \/ work' = [i \in DOMAIN InOrder(ChildrenIn(There, Target)) |->
                      Do("copy", Head(work).to, InOrder(ChildrenIn(There, Target))[i])] \o Tail(work)
    BY <1>9 DEF MakeFolder
  <2>4. CASE OperationFails
    BY <1>1, <1>5, <2>4
  <2>5. CASE work' = Then("unread", NoContent)
    BY <1>2, <2>2, <2>5
  <2> QED BY <1>3, <2>1, <2>2, <2>3, <2>4, <2>5
<1>10. CASE ReadFails
  BY <1>1, <1>5, <1>10 DEF ReadFails
<1>11. CASE CreateFile
  BY <1>1, <1>2, <1>5, <1>6, <1>11 DEF CreateFile
<1>12. CASE FillFile
  BY <1>4, <1>12 DEF FillFile
<1>13. CASE DeleteEntry
  BY <1>1, <1>4, <1>5, <1>13 DEF DeleteEntry
<1> QED
  BY <1>7, <1>8, <1>9, <1>10, <1>11, <1>12, <1>13 DEF FileOperation

(* A new plan has what is decided for each path that differs, in order. *)
LEMMA PlanMade ==
  ASSUME PlanInv, At("plan"), UNCHANGED <<inv, current, work, record, mode>>,
         NEW choice \in Answers, NEW side \in Sides, ~record.found \/ side = 1,
         plan' = PlanWith(choice, side),
         start' = [start EXCEPT !.choice = IF record.found THEN choice ELSE [p \in Paths |-> side]]
  PROVE  PlanForm' /\ start' \in StartType
<1> DEFINE S == ToBePlanned
           n == Cardinality(S)
           todo == Differing(inv[1], inv[2])
<1>1. S \in SUBSET Paths /\ todo = InOrder(S)
  BY DEF ToBePlanned, Differs, Differing
<1>2. /\ n \in Nat /\ DOMAIN todo = 1..n
      /\ \A i \in DOMAIN todo : todo[i] \in S
      /\ \A p \in S : \E i \in DOMAIN todo : todo[i] = p
      /\ \A i, j \in DOMAIN todo : i < j => Place(todo[i]) < Place(todo[j])
  BY <1>1, ListedInOrder
<1>3. start \in StartType
  BY DEF PlanInv
<1>4. /\ start' \in StartType
      /\ start'.choice = IF record.found THEN choice ELSE [p \in Paths |-> side]
  BY <1>3 DEF StartType, Answers
<1>5. S = {} <=> Equivalent(inv[1], inv[2])
  BY DEF ToBePlanned, Differs, Equivalent
<1>6. /\ inv' = inv /\ ToBePlanned' = S /\ current' = <<>> /\ work' = <<>>
  BY DEF PlanInv, At, ToBePlanned, Differs, Alike
<1>7. \A p \in S : p \in Paths
  BY <1>1
<1>8. DOMAIN plan' = DOMAIN todo
  BY DEF PlanWith, MergePlan, SidePlan
<1>9. ASSUME NEW i \in DOMAIN todo 
      PROVE  plan'[i] = Decided(mode', start'.choice, inv'[1], inv'[2], record', todo[i])
  <2> DEFINE p == todo[i]
  <2>1. p \in S /\ p \in Paths /\ S # {}
    BY <1>2, <1>7, <1>9
  <2>2. CASE mode = "unidirectional"
    BY <1>6, <1>9, <2>2 DEF PlanWith, SidePlan, Decided
  <2>3. CASE mode # "unidirectional" /\ record.found
    BY <1>4, <1>6, <1>9, <2>3 DEF PlanWith, MergePlan, Decided, ActionFor, FileConflict
  <2>4. CASE mode # "unidirectional" /\ ~record.found
    <3>1. plan' = SidePlan(inv[1], inv[2], side)
      BY <1>5, <2>1, <2>4 DEF PlanWith
    <3>2. start'.choice[p] = side
      BY <1>4, <2>1, <2>4
    <3> QED BY <1>6, <1>9, <2>4, <3>1, <3>2 DEF SidePlan, Decided
  <2> QED BY <2>2, <2>3, <2>4
<1>11. start'.choice \in [Paths -> Sides]
  BY <1>4 DEF StartType
<1>10. \A i \in DOMAIN todo : plan'[i].path = todo[i]
  BY <1>2, <1>11, <1>7, <1>9, DecidedForm
<1> HIDE DEF S, n, todo
<1>12. \A i \in DOMAIN plan' : plan'[i].path \in ToBePlanned' /\ plan'[i] = Planned(plan[i].path)'
  BY <1>2, <1>6, <1>8, <1>9, <1>10 DEF Planned
<1>13. \A i, j \in DOMAIN plan' : i < j => Place(plan'[i].path) < Place(plan'[j].path)
  BY <1>2, <1>8, <1>10
<1>14. \A p \in ToBePlanned' : \E i \in DOMAIN plan' : plan'[i].path = p
  BY <1>2, <1>6, <1>8, <1>10
<1> QED
  BY <1>4, <1>6, <1>12, <1>13, <1>14 DEF PlanForm

(* The next action of the plan is the first path that is not done. *)
LEMMA PlanAdvances ==
  ASSUME PlanInv, NextAction
  PROVE  PlanForm'
<1>1. /\ plan \in Seq(Action) /\ plan # <<>> /\ PlanForm /\ work = <<>>
      /\ plan' = Tail(plan) /\ current' = <<Head(plan)>> /\ work' = <<Head(plan)>>
      /\ UNCHANGED <<inv, mode, start, record>>
  BY DEF PlanInv, TypeInv, NextAction, env, history
<1> DEFINE h == Head(plan)
<1>2. /\ h = plan[1] /\ h \in Action /\ 1 \in DOMAIN plan
      /\ \A i \in DOMAIN Tail(plan) : i + 1 \in DOMAIN plan /\ Tail(plan)[i] = plan[i + 1]
                                      /\ i \in Nat \ {0}
      /\ \A i \in DOMAIN plan : i # 1 => i - 1 \in DOMAIN Tail(plan) /\ plan[i] = Tail(plan)[i - 1]
                                         /\ i \in Nat /\ i > 1
  BY <1>1
<1>3. /\ h.path \in ToBePlanned /\ h = Planned(h.path)
      /\ \A i \in DOMAIN plan : i # 1 => Place(h.path) < Place(plan[i].path)
  BY <1>1, <1>2 DEF PlanForm
<1>4. \A p \in ToBePlanned : Place(h.path) < Place(p) => \E i \in DOMAIN plan : plan[i].path = p
  <2>1. CASE current = <<>>
    BY <1>1, <2>1 DEF PlanForm
  <2>2. CASE current # <<>>
    <3>1. /\ Under.path \in ToBePlanned /\ Place(Under.path) < Place(h.path)
          /\ \A p \in ToBePlanned : Place(Under.path) < Place(p) => \E i \in DOMAIN plan : plan[i].path = p
      BY <1>1, <1>2, <2>2 DEF PlanForm
    <3>2. \A p \in ToBePlanned : Place(p) \in Nat
      BY PlaceIsOne DEF ToBePlanned, Differs
    <3> QED BY <1>3, <3>1, <3>2
  <2> QED BY <2>1, <2>2
<1>5. \A p \in ToBePlanned : Place(p) \in Nat
  BY PlaceIsOne DEF ToBePlanned, Differs
<1>6. \A p \in ToBePlanned : Place(h.path) < Place(p) => \E i \in DOMAIN Tail(plan) : Tail(plan)[i].path = p
  <2> SUFFICES ASSUME NEW p \in ToBePlanned, Place(h.path) < Place(p)
               PROVE  \E i \in DOMAIN Tail(plan) : Tail(plan)[i].path = p
    OBVIOUS
  <2>1. PICK i \in DOMAIN plan : plan[i].path = p
    BY <1>4
  <2>2. i # 1
    BY <1>2, <1>3, <1>5, <2>1
  <2> QED BY <1>2, <2>1, <2>2
<1>7. \A i \in DOMAIN Tail(plan) : /\ Tail(plan)[i].path \in ToBePlanned
                                   /\ Tail(plan)[i] = Planned(Tail(plan)[i].path)
                                   /\ Place(h.path) < Place(Tail(plan)[i].path)
  BY <1>1, <1>2, <1>3 DEF PlanForm
<1>8. \A i, j \in DOMAIN Tail(plan) : i < j => Place(Tail(plan)[i].path) < Place(Tail(plan)[j].path)
  BY <1>1, <1>2 DEF PlanForm
<1>9. /\ ToBePlanned' = ToBePlanned /\ \A p : Planned(p)' = Planned(p)
      /\ Under' = h /\ current' = <<h>>
  BY <1>1 DEF ToBePlanned, Differs, Alike, Planned, Under
<1>10. WorkForm'
  BY <1>1, <1>2, <1>9 DEF WorkForm
<1> HIDE DEF h
<1>11. \A i \in DOMAIN plan' : plan'[i].path \in ToBePlanned' /\ plan'[i] = Planned(plan[i].path)'
  <2>1. \A i \in DOMAIN plan' : Planned(plan[i].path)' = Planned(plan'[i].path)
    BY <1>1 DEF Planned
  <2> QED BY <1>1, <1>7, <1>9, <2>1
<1>12. Under' = Planned(Under.path)'
  <2>1. Planned(Under.path)' = Planned(Under'.path)
    BY <1>1 DEF Planned
  <2> QED BY <1>3, <1>9, <2>1
<1>13. current' # <<>> /\ current' = <<Under'>>
  BY <1>9
<1> QED
  BY <1>1, <1>3, <1>6, <1>7, <1>8, <1>9, <1>10, <1>11, <1>12, <1>13 DEF PlanForm

(* What a file operation, or starting an action again, leaves of the plan. *)
LEMMA PlanStays ==
  ASSUME PlanForm, UNCHANGED <<inv, mode, start, record, plan, current>>,
         current # <<>> => WorkForm', current = <<>> => work' = <<>>
  PROVE  PlanForm'
<1>1. /\ ToBePlanned' = ToBePlanned /\ \A p : Planned(p)' = Planned(p)
      /\ Under' = Under
  BY DEF ToBePlanned, Differs, Alike, Planned, Under
<1>2. \A i \in DOMAIN plan' : plan'[i].path \in ToBePlanned' /\ plan'[i] = Planned(plan[i].path)'
  <2>1. \A i \in DOMAIN plan' : Planned(plan[i].path)' = Planned(plan'[i].path)
    BY DEF Planned
  <2> QED BY <1>1, <2>1 DEF PlanForm
<1>3. Planned(Under.path)' = Planned(Under.path)
  BY DEF Planned, Under
<1> QED
  BY <1>1, <1>2, <1>3 DEF PlanForm

(* The action under way is a copy or a deletion of a path that differs. *)
LEMMA UnderForm ==
  ASSUME PlanInv, At("execute"), current # <<>>
  PROVE  /\ Under.path \in ToBePlanned /\ Under.path \in Paths /\ Under \in Action
         /\ Under = Planned(Under.path) /\ current = <<Under>>
         /\ Under.op \in {"copy", "delete"} /\ Under.to \in Sides
         /\ Under = Do(Under.op, Under.to, Under.path)
<1>1. Under.path \in ToBePlanned /\ Under = Planned(Under.path) /\ current = <<Under>>
  BY DEF PlanInv, PlanForm
<1>2. Under.path \in Paths
  BY <1>1 DEF ToBePlanned, Differs
<1>3. start.choice \in [Paths -> Sides]
  BY DEF PlanInv, StartType
<1> QED
  BY <1>1, <1>2, <1>3, DecidedForm DEF Planned

LEMMA PlanStep == PlanInv /\ [Next]_vars => PlanInv'
<1> SUFFICES ASSUME PlanInv, [Next]_vars PROVE PlanInv'
  OBVIOUS
<1>0. /\ TypeInv /\ TypeInv' /\ start \in StartType /\ \A s \in Sides : IsTree(start.tree[s])
      /\ \A s \in Sides : IsTree(tree[s]) /\ tree \in [Sides -> [Paths -> Entry]]
      /\ missing \in SUBSET Sides /\ record \in Record
  BY TypeStep DEF PlanInv, TypeInv, TypeOK, IsTree
<1> DEFINE Began == start' \in StartType /\ \A s \in Sides : IsTree(start'.tree[s])
           Blank == pc' \in {"idle", "first", "second", "plan"}
                      => plan' = <<>> /\ current' = <<>> /\ work' = <<>>
           Noted == pc' \in {"first", "second", "plan", "execute", "verify", "commit"}
                      => start'.record = record'
           Executes == At("execute")' => PlanForm'
<1>a. ASSUME Began, Blank, Noted, Executes PROVE PlanInv'
  BY <1>0, <1>a DEF PlanInv
<1>b. ASSUME start' = start PROVE Began
  BY <1>0, <1>b
<1>c. ASSUME start' = NoStart PROVE Began
  <2>1. NoStart \in StartType
    BY EmptyTree DEF NoStart, StartType, NoInventories, IsTree, NoRecord, Record, Sides
  <2>2. \A s \in Sides : NoStart.tree[s] = NoTree
    BY DEF NoStart, NoInventories
  <2> QED BY <1>c, <2>1, <2>2, EmptyTree
<1>1. CASE FileOperation
  <2>1. /\ At("execute") /\ work # <<>>
        /\ UNCHANGED <<record, inv, plan, current, mode, start>>
        /\ OperationFails \/ UNCHANGED pc
    BY <1>0, <1>1, OperationTypes DEF history
  <2>2. PlanForm /\ current # <<>>
    BY <2>1 DEF PlanInv, PlanForm
  <2>3. Under.op \in {"copy", "delete"} /\ Under.path \in Paths
    BY <2>1, <2>2, UnderForm
  <2>4. WorkForm'
    BY <1>0, <1>1, <2>2, <2>3, WorkStays DEF PlanForm
  <2>5. PlanForm'
    BY <2>1, <2>2, <2>4, PlanStays
  <2>6. pc' \in {"execute", "failed"}
    BY <2>1 DEF OperationFails, Fail, Goto, At
  <2>7. start.record = record
    BY <2>1 DEF PlanInv, At
  <2> QED BY <1>a, <1>b, <2>1, <2>5, <2>6, <2>7
<1>2. CASE BeginRun
  <2>1. Began
    <3>1. start' = [NoStart EXCEPT !.tree = tree, !.missing = missing, !.record = record]
      BY <1>2 DEF BeginRun
    <3>2. start'.tree = tree
      BY <3>1 DEF NoStart
    <3>3. start' \in StartType
      BY <1>0, <3>1 DEF NoStart, StartType, Sides
    <3> QED BY <1>0, <3>2, <3>3
  <2>2. Noted
    BY <1>2 DEF BeginRun, NoStart
  <2>3. Blank /\ Executes
    BY <1>2 DEF BeginRun, run, Goto, At, PlanInv
  <2> QED BY <1>a, <2>1, <2>2, <2>3
<1>3. ASSUME NEW s \in Sides, NEW label \in {"first", "second", "verify"},
             NEW next \in {"second", "plan", "commit"}, TakeInventory(s, label, next),
             next = "commit" <=> label = "verify"
      PROVE  PlanInv'
  BY <1>a, <1>b, <1>3 DEF TakeInventory, Goto, At, history, PlanInv
<1>4. CASE MakePlan
  <2>1. CASE Fail
    <3>1. start' = [start EXCEPT !.answered = FALSE] \/ At("execute")'
      BY <1>4, <2>1 DEF MakePlan, Fail, Goto, At
    <3>2. start' = [start EXCEPT !.answered = FALSE]
      BY <2>1, <3>1 DEF Fail, Goto, At
    <3>3. Began
      BY <1>0, <3>2 DEF StartType
    <3> QED BY <1>a, <2>1, <3>3 DEF Fail, Goto, At
  <2>2. CASE ~Fail
    <3>1. PICK choice \in Answers, side \in Sides :
            /\ ~record.found \/ side = 1
            /\ plan' = PlanWith(choice, side)
            /\ start' = [start EXCEPT !.choice = IF record.found THEN choice ELSE [p \in Paths |-> side]]
            /\ Goto("execute") /\ UNCHANGED <<inv, current, work>>
      BY <1>4, <2>2 DEF MakePlan
    <3>2. At("plan") /\ UNCHANGED <<record, mode>>
      BY <1>4 DEF MakePlan, env
    <3>3. PlanForm' /\ start' \in StartType
      BY <3>1, <3>2, PlanMade
    <3>4. start'.tree = start.tree /\ start'.record = start.record /\ start.record = record
      BY <1>0, <3>1, <3>2 DEF StartType, PlanInv, At
    <3> QED BY <1>0, <1>a, <3>1, <3>2, <3>3, <3>4 DEF Goto
  <2> QED BY <2>1, <2>2
<1>5. CASE NextAction
  <2>1. PlanForm'
    BY <1>5, PlanAdvances
  <2> QED BY <1>a, <1>b, <1>5, <2>1 DEF NextAction, At, history, PlanInv
<1>6. CASE Retry
  <2>1. PlanForm /\ current # <<>> /\ UNCHANGED <<inv, mode, start, record, plan, current>>
    BY <1>6 DEF Retry, PlanInv, PlanForm, env, history
  <2>2. Under \in Action /\ work' = <<Under>> /\ Under' = Under
    BY <1>6, <2>1, UnderForm DEF Retry, Under
  <2>3. WorkForm'
    BY <2>2 DEF WorkForm
  <2>4. PlanForm'
    BY <2>1, <2>3, PlanStays
  <2> QED BY <1>a, <1>b, <1>6, <2>1, <2>4 DEF Retry, At, PlanInv
<1>7. CASE VerifyFirst
  BY <1>a, <1>b, <1>7 DEF VerifyFirst, Goto, At, history, PlanInv
<1>8. CASE Commit
  BY <1>a, <1>b, <1>8 DEF Commit, Fail, Goto, At
<1>9. ASSUME Clear, Goto("idle")
      PROVE  PlanInv'
  BY <1>a, <1>c, <1>9 DEF Clear, Goto, At, NoAction
<1>10. CASE CallFails
  BY <1>a, <1>b, <1>10 DEF CallFails, Fail, Goto, At
<1>11. ASSUME UNCHANGED <<record, pc, run, mode, start>>
       PROVE  PlanInv'
  <2>1. Executes
    <3> SUFFICES ASSUME At("execute") PROVE PlanForm'
      BY <1>11 DEF At
    <3>1. PlanForm /\ (current # <<>> => WorkForm) /\ (current = <<>> => work = <<>>)
      BY DEF PlanInv, PlanForm
    <3>2. WorkForm => WorkForm'
      BY <1>11 DEF WorkForm, Under, run
    <3> QED BY <1>11, <3>1, <3>2, PlanStays DEF run
  <2> QED BY <1>a, <1>b, <1>11, <2>1 DEF run, PlanInv
<1>12. CASE User
  BY <1>11, <1>12 DEF User, RemoveRoot, WriteFile, MakeDirectory, RemoveEntry, Editing
<1>13. CASE LockFile \/ UnlockFile
  BY <1>11, <1>13 DEF LockFile, UnlockFile, history
<1>14. CASE UNCHANGED vars
  BY <1>11, <1>14 DEF vars, env, history
<1> HIDE DEF Began, Blank, Noted, Executes
<1> QED
  BY <1>1, <1>2, <1>3, <1>4, <1>5, <1>6, <1>7, <1>8, <1>9, <1>10, <1>12, <1>13, <1>14
  DEF Next, RunStep, EndRun, Crash, Sides

LEMMA PlanInit == Init => PlanInv
<1> SUFFICES ASSUME Init PROVE PlanInv
  OBVIOUS
<1>1. NoStart \in StartType /\ \A s \in Sides : NoStart.tree[s] = NoTree
  BY EmptyTree DEF NoStart, StartType, NoInventories, IsTree, NoRecord, Record, Sides
<1> QED
  BY <1>1, InitTypes, EmptyTree DEF Init, PlanInv, At, NoAction

LEMMA PlanAlways == Spec => []PlanInv
  BY PlanInit, PlanStep, PTL DEF Spec

(* Two trees that differ at a path, below it, or by directories one has more. *)
Near(t, u, p) ==
  \A q \in Paths : \/ u[q] = t[q]
                   \/ q \in {p} \cup Inside[p]
                   \/ t[q].kind = "none" /\ u[q] = Folder

(* A file operation changes its destination only, at its path and below,      *)
(* except that it makes the directories that lead there.                      *)
LEMMA EffectForm ==
  ASSUME TypeInv, FileOperation
  PROVE  /\ \A r \in Sides : r # Head(work).to => tree'[r] = tree[r]
         /\ \A r \in Sides, q \in Paths :
              \/ tree'[r][q] = tree[r][q]
              \/ r = Head(work).to /\ q \in {Target} \cup Inside[Target]
              \/ tree[r][q].kind = "none" /\ tree'[r][q] = Folder
<1> DEFINE s == Head(work).to
<1>0. /\ tree \in [Sides -> [Paths -> Entry]] /\ s \in Sides /\ Target \in Paths
      /\ Here = tree[s] /\ Here \in [Paths -> Entry]
  <2>1. work # <<>>
    BY OperationTypes
  <2> QED BY <2>1, OperandTypes DEF TypeInv, TypeOK, Here, IsTree
<1> DEFINE Goal == /\ \A r \in Sides : r # s => tree'[r] = tree[r]
                   /\ \A r \in Sides, q \in Paths :
                        \/ tree'[r][q] = tree[r][q]
                        \/ r = s /\ q \in {Target} \cup Inside[Target]
                        \/ tree[r][q].kind = "none" /\ tree'[r][q] = Folder
<1>1. ASSUME NEW t, Near(Here, t, Target), tree' = [tree EXCEPT ![s] = t] PROVE Goal
  <2>1. tree'[s] = t /\ \A r \in Sides : r # s => tree'[r] = tree[r]
    BY <1>0, <1>1
  <2> QED BY <1>0, <1>1, <2>1 DEF Near
<1>2. ASSUME tree' = tree PROVE Goal
  BY <1>2
<1>3. ASSUME OperationFails PROVE Goal
  BY <1>2, <1>3 DEF OperationFails
<1>4. ASSUME NEW ps \in SUBSET Paths PROVE Near(Here, WithFolders(Here, ps), Target)
  BY <1>0 DEF WithFolders, Near
<1>5. ASSUME NEW t, Near(Here, t, Target), t \in [Paths -> Entry] PROVE Near(Here, Removed(t, Target), Target)
  BY <1>0, <1>5 DEF Removed, Near
<1>6. \A ps \in SUBSET Paths : WithFolders(Here, ps) \in [Paths -> Entry]
  BY <1>0, EntryKinds DEF WithFolders
<1>7. Ancestors(Target) \in SUBSET Paths /\ Ancestors(Target) \cup {Target} \in SUBSET Paths
  BY <1>0 DEF Ancestors
<1>8. Near(Here, Here, Target)
  BY DEF Near
<1>9. ASSUME NEW p \in {Target} \cup Inside[Target], NEW e PROVE Near(Here, [Here EXCEPT ![p] = e], Target)
  BY <1>0, <1>9 DEF Near
<1> SUFFICES Goal
  OBVIOUS
<1> HIDE DEF Goal
<1>10. CASE RemoveChild
  <2>1. PICK p \in Inside[Target] : tree' = [tree EXCEPT ![s] = [Here EXCEPT ![p] = Absent]]
    BY <1>10 DEF RemoveChild, Effect
  <2> QED BY <1>1, <1>9, <2>1
<1>11. CASE CopyEntry
  <2>1. Near(Here, Removed(Here, Target), Target)
      /\ Near(Here, Removed(WithFolders(Here, Ancestors(Target)), Target), Target)
    BY <1>0, <1>4, <1>5, <1>6, <1>7, <1>8
  <2> QED BY <1>1, <1>3, <1>11, <2>1 DEF CopyEntry, Effect
<1>12. CASE MakeFolder
  BY <1>1, <1>3, <1>4, <1>7, <1>12 DEF MakeFolder, Effect
<1>13. CASE ReadFails
  BY <1>3, <1>13 DEF ReadFails
<1>14. CASE CreateFile
  BY <1>1, <1>3, <1>9, <1>14 DEF CreateFile, Effect
<1>15. CASE FillFile
  <2>1. PICK c, t : tree' = IF Here[Target].content = Torn
                            THEN [tree EXCEPT ![s][Target] = FileOf(c, t)] ELSE tree
    BY <1>15 DEF FillFile
  <2>2. tree' = tree \/ tree' = [tree EXCEPT ![s] = [Here EXCEPT ![Target] = FileOf(c, t)]]
    BY <1>0, <2>1
  <2> QED BY <1>1, <1>2, <1>9, <2>2
<1>16. CASE DeleteEntry
  BY <1>0, <1>1, <1>3, <1>5, <1>8, <1>16 DEF DeleteEntry, Effect
<1> QED
  BY <1>10, <1>11, <1>12, <1>13, <1>14, <1>15, <1>16 DEF FileOperation

(* A file operation is on the path of the action under way or below it, and   *)
(* on the side that the action changes.                                       *)
LEMMA OperandUnder ==
  ASSUME PlanInv, FileOperation
  PROVE  /\ At("execute") /\ work # <<>> /\ current # <<>> /\ PlanForm
         /\ Head(work) \in Action /\ Head(work).to = Under.to
         /\ Target \in Paths /\ Target \in {Under.path} \cup Inside[Under.path]
         /\ Inside[Target] \subseteq Inside[Under.path]
         /\ Head(work).op = "delete" => Under.op = "delete" /\ Target = Under.path
         /\ Under.op = "delete" => Head(work).op = "delete"
<1>1. At("execute") /\ work # <<>> /\ TypeInv
  BY OperationTypes DEF PlanInv
<1>2. PlanForm /\ current # <<>> /\ WorkForm
  BY <1>1 DEF PlanInv, PlanForm
<1>3. Under.path \in Paths /\ Under.op \in {"copy", "delete"}
  BY <1>1, <1>2, UnderForm
<1>4. Head(work) \in Action /\ Target \in Paths
  BY <1>1, OperandTypes
<1>5. CASE \E a \in Action : /\ work = <<a>> /\ a.path = Under.path /\ a.to = Under.to
                             /\ Under.op = "delete" <=> a.op = "delete"
  BY <1>1, <1>2, <1>3, <1>4, <1>5 DEF Target
<1>6. CASE Under.op = "copy" /\ work \in Seq(Below(Under.path, Under.to))
  <2>1. Head(work) \in Below(Under.path, Under.to)
    BY <1>1, <1>6
  <2> QED BY <1>1, <1>2, <1>3, <1>4, <1>6, <2>1, AboveAbove DEF Target, Below
<1> QED BY <1>1, <1>2, <1>5, <1>6 DEF WorkForm

(* Nothing that is the same below or above in both trees differs. *)
LEMMA DirectoriesAgree ==
  ASSUME NEW a, NEW b, IsTree(a), IsTree(b), NEW p \in Paths, a[p].kind # "none", b[p].kind # "none",
         NEW o \in Ancestors(p)
  PROVE  o \notin Differs(a, b)
<1>1. o \in Paths /\ a[o].kind = "dir" /\ b[o].kind = "dir" /\ a[o] \in Entry /\ b[o] \in Entry
  BY DEF IsTree, WellFormed, Ancestors
<1> QED BY <1>1, EntryKinds DEF Differs, Alike

(* A step that is not a user's changes the trees only by a file operation. *)
LEMMA TreeChanges ==
  ASSUME TypeInv, [Next]_vars, edits' = edits, ~FileOperation
  PROVE  tree' = tree
<1>1. edits \in Nat /\ edits' # edits + 1
  <2>1. edits \in Nat
    BY DEF TypeInv, TypeOK
  <2> QED BY <2>1
<1> QED
  BY <1>1 DEF Next, RunStep, User, BeginRun, TakeInventory, MakePlan, NextAction, Retry, VerifyFirst,
     Commit, EndRun, CallFails, RemoveRoot, WriteFile, MakeDirectory, RemoveEntry, Editing, LockFile,
     UnlockFile, Crash, vars

LEMMA NewestStep ==
  ASSUME PlanInv, [Next]_vars, NEW s \in Sides, NEW p \in Paths,
         edits' = edits, mode = "bidirectional", record.found, At("execute"),
         \A r \in Sides : tree[r][p].kind = "file" /\ tree[r][p] = inv[r][p],
         tree[s][p].content # tree[Other(s)][p].content,
         tree[s][p].mtime > tree[Other(s)][p].mtime
  PROVE  tree'[s][p] = tree[s][p]
<1>0. /\ TypeInv /\ IsTree(inv[1]) /\ IsTree(inv[2]) /\ tree[s] \in [Paths -> Entry]
      /\ tree[Other(s)] \in [Paths -> Entry] /\ (s = 1 \/ s = 2)
  BY DEF PlanInv, TypeInv, TypeOK, Sides, Other
<1> SUFFICES ASSUME FileOperation PROVE tree'[s][p] = tree[s][p]
  BY <1>0, TreeChanges
<1>1. Under.path \in ToBePlanned /\ Under.path \in Paths /\ Under = Planned(Under.path)
  BY OperandUnder, UnderForm
<1>2. ASSUME Head(work).to = s, p \in {Target} \cup Inside[Target] PROVE FALSE
  <2>1. p \in {Under.path} \cup Inside[Under.path] /\ Under.to = s
    BY <1>2, OperandUnder
  <2>2. p \notin Inside[Under.path]
    <3> SUFFICES ASSUME Under.path \in Ancestors(p) PROVE FALSE
      BY <1>1 DEF Ancestors
    <3>1. inv[1][p].kind # "none" /\ inv[2][p].kind # "none"
      BY DEF Sides
    <3> QED BY <1>0, <1>1, <3>1, DirectoriesAgree DEF ToBePlanned
  <2>3. Under.path = p /\ Planned(p).to = s
    BY <1>1, <2>1, <2>2
  <2>4. Planned(p) = FileConflict(inv[1], inv[2], p, start.choice)
    BY DEF Planned, Decided, ActionFor, Sides
  <2>5. inv[s][p].mtime > inv[Other(s)][p].mtime /\ inv[s][p].mtime \in Int
        /\ inv[Other(s)][p].mtime \in Int
    <3>1. \A r \in Sides : inv[r][p] \in Entry
      BY <1>0 DEF IsTree, Sides
    <3>2. \A r \in Sides : inv[r][p].mtime \in Int
      BY <3>1, EntryKinds DEF ValueAssumption
    <3>3. s \in Sides /\ Other(s) \in Sides
      BY <1>0 DEF Sides, Other
    <3> QED BY <3>2, <3>3
  <2>6. Planned(p) = Copy(s, p)
    BY <1>0, <2>4, <2>5 DEF FileConflict, Newer, Other
  <2> QED BY <1>0, <2>3, <2>6 DEF Copy, Do, Other
<1> QED
  BY <1>0, <1>2, EffectForm

(* Users may change other files, calls may fail and the run may be cut short:  *)
(* where both trees have a file whose contents differ, and both are as the     *)
(* inventories found them, no step of a run removes or overwrites the newer    *)
(* one (file_content_conflict.go:17; synchronization_executor.go:54).             *)
THEOREM NewestIsRetained == Spec => NewestRetained
<1> DEFINE Kept ==
      \A s \in Sides, p \in Paths :
       (/\ edits' = edits /\ mode = "bidirectional" /\ record.found /\ At("execute")
        /\ \A r \in Sides : tree[r][p].kind = "file" /\ tree[r][p] = inv[r][p]
        /\ tree[s][p].content # tree[Other(s)][p].content
        /\ tree[s][p].mtime > tree[Other(s)][p].mtime)
       => tree'[s][p] = tree[s][p]
<1>1. PlanInv /\ [Next]_vars => [Kept]_vars
  BY NewestStep
<1> QED
  BY <1>1, PlanAlways, PTL DEF Spec, NewestRetained

-----------------------------------------------------------------------------
(* The merge *)

(* What is decided for the trees a run found, and the paths it is decided for. *)
Deciding(p) == Decided(mode, start.choice, start.tree[1], start.tree[2], start.record, p)
Contested   == Differs(start.tree[1], start.tree[2])

(* No action is to change one side at a path or above it. *)
Spared(r, p) == \A o \in {p} \cup Ancestors(p) : o \in Contested => Deciding(o).to # r

(* Until users interfere, the plan is made from the trees the run found, and  *)
(* what no action is to change is as it was.                                  *)
SurviveInv ==
  /\ PlanInv
  /\ ~At("idle") /\ "edit" \notin disturbed =>
       /\ pc \in {"first", "second", "plan"} => \A s \in Sides : tree[s] = start.tree[s]
       /\ pc = "second" => inv[1] = start.tree[1]
       /\ pc \in {"plan", "execute"} => \A s \in Sides : inv[s] = start.tree[s]
       /\ \A r \in Sides, p \in Paths :
            start.tree[r][p].kind # "none" /\ Spared(r, p) => tree[r][p] = start.tree[r][p]

(* The merge of a path that differs is what is copied, and nothing where the  *)
(* path is deleted; a path that does not differ is its own merge.             *)
LEMMA MergedIsDecided ==
  ASSUME PlanInv, NEW p \in Paths
  PROVE  /\ p \in Contested =>
              /\ Deciding(p).op = "copy" => Merged(p) = start.tree[Other(Deciding(p).to)][p]
              /\ Deciding(p).op = "delete" => Merged(p).kind = "none"
         /\ p \notin Contested => \A s \in Sides : Alike(start.tree[s][p], Merged(p))
<1> DEFINE a == start.tree[1]  b == start.tree[2]
<1>0. /\ start.choice[p] \in Sides /\ 1 \in Sides /\ 2 \in Sides /\ Other(1) = 2 /\ Other(2) = 1
      /\ Sides = {1, 2}
      /\ a[p] \in Entry /\ b[p] \in Entry
  BY DEF PlanInv, StartType, Sides, Other, IsTree
<1>1. \A op, s : /\ Do(op, s, p).op = op /\ Do(op, s, p).to = s
                 /\ Copy(s, p).op = "copy" /\ Copy(s, p).to = Other(s)
  BY DEF Do, Copy
<1>2. \A s \in Sides : Other(Other(s)) = s
  BY <1>0
<1>3. p \in Contested <=> ~Alike(a[p], b[p])
  BY DEF Contested, Differs
<1> DEFINE Good(d) == /\ d.op = "copy" => Merged(p) = start.tree[Other(d.to)][p]
                      /\ d.op = "delete" => Merged(p).kind = "none"
<1>4. ASSUME NEW s \in Sides, Merged(p) = start.tree[s][p] PROVE Good(Copy(s, p))
  BY <1>1, <1>2, <1>4
<1>5. ASSUME NEW s, Merged(p).kind = "none" PROVE Good(Do("delete", s, p))
  BY <1>1, <1>5
<1>6. CASE p \notin Contested
  <2>1. Merged(p) = a[p]
    BY <1>3, <1>6 DEF Merged
  <2>2. \A s \in Sides : Alike(start.tree[s][p], Merged(p))
    BY <1>0, <1>3, <1>6, <2>1 DEF Alike
  <2> QED BY <1>6, <2>2
<1>7. CASE p \in Contested
  <2>1. CASE mode = "unidirectional"
    <3>1. Merged(p) = a[p]
      BY <2>1 DEF Merged
    <3>2. Good(AuthoritativeFor(p, a, b, 1))
      BY <1>0, <1>4, <1>5, <3>1 DEF AuthoritativeFor
    <3> QED BY <1>7, <2>1, <3>2 DEF Deciding, Decided
  <2>2. CASE mode # "unidirectional" /\ ~start.record.found
    <3>1. Merged(p) = start.tree[start.choice[p]][p]
      BY <1>3, <1>7, <2>2 DEF Merged
    <3>2. Good(AuthoritativeFor(p, a, b, start.choice[p]))
      BY <1>0, <1>4, <1>5, <3>1 DEF AuthoritativeFor
    <3> QED BY <1>7, <2>2, <3>2 DEF Deciding, Decided
  <2>3. CASE mode # "unidirectional" /\ start.record.found
    <3>1. Deciding(p) = ActionFor(p, a, b, start.record, start.choice)
      BY <2>3 DEF Deciding, Decided
    <3>2. CASE a[p].kind = "none" \/ b[p].kind = "none"
      <4>1. a[p].kind # "none" \/ b[p].kind # "none"
        BY <1>0, <1>3, <1>7, EntryKinds DEF Alike
      <4>2. /\ p \in start.record.paths => Merged(p).kind = "none"
            /\ p \notin start.record.paths => Merged(p) = IF a[p].kind = "none" THEN b[p] ELSE a[p]
        BY <1>3, <1>7, <2>3, <3>2 DEF Merged, Absent
      <4>3. Good(ActionFor(p, a, b, start.record, start.choice))
        BY <1>0, <1>4, <1>5, <3>2, <4>1, <4>2 DEF ActionFor, OneSided
      <4> QED BY <1>7, <3>1, <4>3
    <3>3. CASE a[p].kind # "none" /\ b[p].kind # "none"
      <4>1. a[p].mtime \in Int /\ b[p].mtime \in Int
        BY <1>0, EntryKinds DEF ValueAssumption
      <4>2. Merged(p) = IF a[p].kind # b[p].kind \/ a[p].mtime = b[p].mtime
                        THEN start.tree[start.choice[p]][p]
                        ELSE IF a[p].mtime > b[p].mtime THEN a[p] ELSE b[p]
        BY <1>3, <1>7, <2>3, <3>3 DEF Merged
      <4>3. \E s \in Sides : /\ ActionFor(p, a, b, start.record, start.choice) = Copy(s, p)
                             /\ Merged(p) = start.tree[s][p]
        BY <1>0, <3>3, <4>1, <4>2 DEF ActionFor, FileConflict, Newer
      <4> QED BY <1>4, <1>7, <3>1, <4>3
    <3> QED BY <3>2, <3>3
  <2> QED BY <2>1, <2>2, <2>3
<1> QED BY <1>6, <1>7

LEMMA SurviveStep == SurviveInv /\ [Next]_vars => SurviveInv'
<1> SUFFICES ASSUME SurviveInv, [Next]_vars, ~At("idle")', "edit" \notin disturbed' PROVE SurviveInv'
  BY PlanStep DEF SurviveInv
<1> DEFINE Taken == /\ pc' \in {"first", "second", "plan"} => \A s \in Sides : tree'[s] = start'.tree[s]
                    /\ pc' = "second" => inv'[1] = start'.tree[1]
                    /\ pc' \in {"plan", "execute"} => \A s \in Sides : inv'[s] = start'.tree[s]
           Kept == \A r \in Sides, p \in Paths :
                     start'.tree[r][p].kind # "none" /\ Spared(r, p)' => tree'[r][p] = start'.tree[r][p]
<1>0. PlanInv /\ PlanInv' /\ TypeInv
  BY PlanStep DEF SurviveInv, PlanInv
<1>a. ASSUME Taken, Kept PROVE SurviveInv'
  BY <1>0, <1>a DEF SurviveInv
<1>b. ASSUME \A s \in Sides : tree'[s] = start'.tree[s] PROVE Kept
  BY <1>b
<1>c. ASSUME UNCHANGED <<mode, start, tree>>, ~At("idle"), "edit" \notin disturbed PROVE Kept
  <2>1. \A r \in Sides, p \in Paths : Spared(r, p)' => Spared(r, p)
    BY <1>c DEF Spared, Contested, Deciding, Differs
  <2> QED BY <1>c, <2>1 DEF SurviveInv
<1>1. CASE FileOperation
  <2>1. /\ At("execute") /\ UNCHANGED <<record, inv, plan, current, mode, start, disturbed>>
        /\ pc' \in {"execute", "failed"}
    BY <1>0, <1>1, OperationTypes DEF history, At, OperationFails, Fail, Goto
  <2>2. /\ \A s \in Sides : inv[s] = start.tree[s]
        /\ \A r \in Sides, p \in Paths :
             start.tree[r][p].kind # "none" /\ Spared(r, p) => tree[r][p] = start.tree[r][p]
    BY <2>1 DEF SurviveInv, At
  <2>3. Taken
    BY <2>1, <2>2
  <2>4. /\ Under.path \in Contested /\ Under = Deciding(Under.path) /\ Under.path \in Paths
        /\ Head(work).to = Under.to
        /\ {Target} \cup Inside[Target] \subseteq {Under.path} \cup Inside[Under.path]
    <3>1. /\ Under.path \in ToBePlanned /\ Under = Planned(Under.path) /\ Under.path \in Paths
          /\ Head(work).to = Under.to /\ Target \in {Under.path} \cup Inside[Under.path]
          /\ Inside[Target] \subseteq Inside[Under.path]
      BY <1>0, <1>1, <2>1, OperandUnder, UnderForm
    <3>2. ToBePlanned = Contested /\ start.record = record
      BY <1>0, <2>1, <2>2 DEF ToBePlanned, Contested, PlanInv, At, Sides
    <3>3. \A p : Planned(p) = Deciding(p)
      BY <2>2, <3>2 DEF Planned, Deciding, Sides
    <3> QED BY <3>1, <3>2, <3>3
  <2>5. ASSUME NEW r \in Sides, NEW p \in Paths, start'.tree[r][p].kind # "none", Spared(r, p)'
        PROVE  tree'[r][p] = start'.tree[r][p]
    <3>1. Spared(r, p)
      BY <2>1, <2>5 DEF Spared, Contested, Deciding, Differs
    <3>2. tree[r][p] = start.tree[r][p] /\ tree[r][p].kind # "none"
      BY <2>1, <2>2, <2>5, <3>1
    <3>3. ~(r = Under.to /\ p \in {Under.path} \cup Inside[Under.path])
      BY <2>4, <3>1 DEF Spared, Ancestors
    <3>4. tree'[r][p] = tree[r][p]
      BY <1>0, <1>1, <2>4, <3>2, <3>3, EffectForm
    <3> QED BY <2>1, <3>2, <3>4
  <2> QED BY <1>a, <2>3, <2>5
<1>2. CASE BeginRun
  <2>1. start'.tree = tree /\ tree' = tree /\ pc' \in {"first", "failed"}
    BY <1>2 DEF BeginRun, NoStart, Goto
  <2> QED BY <1>a, <1>b, <2>1
<1>3. CASE TakeInventory(1, "first", "second")
  <2>1. Taken
    BY <1>0, <1>3 DEF TakeInventory, Goto, At, history, SurviveInv, Sides, TypeInv, TypeOK
  <2> QED BY <1>a, <1>c, <1>3, <2>1 DEF TakeInventory, At, env, history
<1>4. CASE TakeInventory(2, "second", "plan")
  <2>1. Taken
    BY <1>0, <1>4 DEF TakeInventory, Goto, At, history, SurviveInv, Sides, TypeInv, TypeOK
  <2> QED BY <1>a, <1>c, <1>4, <2>1 DEF TakeInventory, At, env, history
<1>5. CASE MakePlan
  <2>1. /\ At("plan") /\ UNCHANGED <<tree, inv, disturbed>> /\ start'.tree = start.tree
        /\ pc' \in {"execute", "failed"}
    <3>1. start \in StartType
      BY <1>0 DEF PlanInv
    <3>2. At("plan") /\ UNCHANGED <<tree, inv, disturbed>> /\ pc' \in {"execute", "failed"}
      BY <1>5 DEF MakePlan, Fail, Goto, run
    <3>3. (\E c : start' = [start EXCEPT !.choice = c]) \/ start' = [start EXCEPT !.answered = FALSE]
      BY <1>5 DEF MakePlan
    <3> QED BY <3>1, <3>2, <3>3 DEF StartType
  <2>2. \A s \in Sides : tree[s] = start.tree[s] /\ inv[s] = start.tree[s]
    BY <2>1 DEF SurviveInv, At
  <2> QED BY <1>a, <1>b, <2>1, <2>2
<1>6. CASE NextAction \/ Retry
  <2>1. At("execute") /\ UNCHANGED <<tree, inv, mode, start, disturbed, pc>>
    BY <1>6 DEF NextAction, Retry, env, history
  <2>2. Taken
    BY <2>1 DEF SurviveInv, At
  <2> QED BY <1>a, <1>c, <2>1, <2>2 DEF At
<1>7. ASSUME UNCHANGED <<tree, mode, start>>, ~At("idle"), "edit" \notin disturbed,
             pc' \in {"verify", "commit", "done", "failed"}
      PROVE  SurviveInv'
  BY <1>a, <1>c, <1>7
<1>8. CASE VerifyFirst \/ TakeInventory(2, "verify", "commit") \/ Commit \/ CallFails
  <2>1. UNCHANGED <<tree, mode, start>> /\ ~At("idle") /\ "edit" \notin disturbed
    BY <1>8 DEF VerifyFirst, TakeInventory, Commit, CallFails, At, env, history
  <2>2. pc' \in {"verify", "commit", "done", "failed"}
    BY <1>8 DEF VerifyFirst, TakeInventory, Commit, CallFails, Fail, Goto
  <2> QED BY <1>7, <2>1, <2>2
<1>9. CASE User
  BY <1>9 DEF User, RemoveRoot, WriteFile, MakeDirectory, RemoveEntry, Editing, At
<1>10. CASE LockFile \/ UnlockFile \/ UNCHANGED vars
  <2>1. UNCHANGED <<tree, inv, mode, start, disturbed, pc>>
    BY <1>10 DEF LockFile, UnlockFile, vars, run, env, history
  <2>2. Taken
    BY <2>1 DEF SurviveInv, At
  <2> QED BY <1>a, <1>c, <2>1, <2>2 DEF At
<1>11. CASE EndRun \/ Crash
  BY <1>11 DEF EndRun, Crash, Goto, At
<1> HIDE DEF Taken, Kept
<1> QED
  BY <1>1, <1>2, <1>3, <1>4, <1>5, <1>6, <1>8, <1>9, <1>10, <1>11 DEF Next, RunStep

LEMMA SurviveImplies == SurviveInv => MergeSurvives
<1> SUFFICES ASSUME SurviveInv, ~At("idle"), "edit" \notin disturbed, NEW p \in Paths,
                    Merged(p).kind = "file", \A a \in Ancestors(p) : Merged(a).kind = "dir"
             PROVE  \E s \in Sides : Alike(tree[s][p], Merged(p))
  BY DEF MergeSurvives
<1>0. /\ PlanInv /\ \A s \in Sides : IsTree(start.tree[s])
      /\ 1 \in Sides /\ 2 \in Sides /\ \A s \in Sides : Other(s) \in Sides /\ Other(s) # s
      /\ start.choice \in [Paths -> Sides] /\ start.tree \in [Sides -> [Paths -> Entry]]
  BY DEF SurviveInv, PlanInv, StartType, Sides, Other
<1>1. ASSUME NEW r \in Sides, Alike(start.tree[r][p], Merged(p)), Spared(r, p)
      PROVE  \E s \in Sides : Alike(tree[s][p], Merged(p))
  <2>1. start.tree[r][p].kind # "none"
    BY <1>1 DEF Alike
  <2>2. tree[r][p] = start.tree[r][p]
    BY <1>1, <2>1 DEF SurviveInv
  <2> QED BY <1>1, <2>2
<1>2. \A r \in Sides : start.tree[r][p].kind # "none" =>
        \A a \in Ancestors(p) : a \in Paths /\ start.tree[r][a] = Folder
  BY <1>0, EntryKinds DEF IsTree, WellFormed, Ancestors
<1>3. CASE p \notin Contested
  <2>1. \A s \in Sides : Alike(start.tree[s][p], Merged(p))
    BY <1>0, <1>3, MergedIsDecided
  <2>2. \A s \in Sides : start.tree[s][p].kind # "none"
    BY <2>1 DEF Alike
  <2>3. \A a \in Ancestors(p) : a \notin Contested
    BY <1>0, <1>2, <2>2 DEF Contested, Differs, Alike
  <2> QED BY <1>0, <1>1, <1>3, <2>1, <2>3 DEF Spared
<1>4. CASE p \in Contested
  <2> DEFINE r == Other(Deciding(p).to)
  <2>1. Deciding(p).op \in {"copy", "delete"} /\ Deciding(p).to \in Sides
    BY <1>0, DecidedForm DEF Deciding
  <2>2. Merged(p) = start.tree[r][p] /\ r \in Sides /\ Deciding(p).to # r
    BY <1>0, <1>4, <2>1, MergedIsDecided
  <2>3. ASSUME NEW o \in Ancestors(p), o \in Contested, Deciding(o).to = r PROVE FALSE
    <3>1. o \in Paths /\ Merged(o).kind = "dir" /\ start.tree[r][o] = Folder
      BY <1>2, <2>2
    <3>2. Deciding(o).op = "copy"
      <4>1. Deciding(o).op \in {"copy", "delete"}
        BY <1>0, <3>1, DecidedForm DEF Deciding
      <4> QED BY <1>0, <2>3, <3>1, <4>1, MergedIsDecided
    <3>3. Merged(o) = start.tree[Other(r)][o]
      BY <1>0, <2>3, <3>1, <3>2, MergedIsDecided
    <3>4. start.tree[Other(r)][o] = Folder
      BY <1>0, <2>2, <3>1, <3>3, EntryKinds
    <3>5. start.tree[1][o] = start.tree[2][o]
      BY <2>2, <3>1, <3>4 DEF Sides, Other
    <3> QED BY <2>3, <3>5 DEF Contested, Differs, Alike
  <2>4. Spared(r, p)
    BY <2>2, <2>3 DEF Spared
  <2>5. Alike(start.tree[r][p], Merged(p))
    BY <2>2 DEF Alike
  <2> QED BY <1>1, <2>2, <2>4, <2>5
<1> QED BY <1>3, <1>4

(* At every point of a run that no user disturbed, whatever call fails, each   *)
(* file of the merge whose directory the merge keeps is still whole on one     *)
(* side: nothing that an action changes, and nothing below it, is what         *)
(* prevails (synchronization_executor.go:54).                                  *)
THEOREM MergeAlwaysSurvives == Spec => []MergeSurvives
<1>1. Init => SurviveInv
  BY PlanInit DEF Init, At, SurviveInv
<1> QED
  BY <1>1, SurviveStep, SurviveImplies, PTL DEF Spec

-----------------------------------------------------------------------------
(* Confirmed paths *)

(* A user has removed a path or a directory above it since it was confirmed. *)
Forsaken(p) == ({p} \cup Ancestors(p)) \cap discarded # {}

(* The action under way has taken a path that both sides had from one side,   *)
(* to put there what the other has.                                           *)
Halfway(s, p) ==
  /\ At("execute") /\ current # <<>>
  /\ Under.op = "copy" /\ Under.path = p /\ Under.to = s
  /\ \E x \in Action : work = <<x>> /\ x.path = p /\ x.op \in {"copy", "mkdir", "create"}
  /\ \A r \in Sides : inv[r][p].kind # "none"

(* No action of the plan is to change one side at a path or above it. *)
Untouched(r, p) == \A o \in {p} \cup Ancestors(p) : o \in ToBePlanned => Planned(o).to # r

(* What an inventory has is there, or a user has removed it since. *)
Standing(r, p) ==
  inv[r][p].kind # "none" => tree[r][p].kind = inv[r][p].kind \/ p \in discarded

(* A confirmed path that an inventory lacks was removed by a user. *)
Accounted(r) == \A p \in record.paths : inv[r][p].kind = "none" => Forsaken(p)

VanishInv ==
  /\ PlanInv
  /\ \A s \in Sides : \A p \in record.paths :
       tree[s][p].kind = "none" => Forsaken(p) \/ Halfway(s, p)
  /\ pc \in {"second", "plan", "execute"} => Accounted(1)
  /\ pc \in {"plan", "execute"} => Accounted(2)
  /\ pc \in {"second", "plan", "verify", "commit"} => \A p \in Paths : Standing(1, p)
  /\ pc \in {"plan", "commit"} => \A p \in Paths : Standing(2, p)
  /\ At("execute") => \A r \in Sides, p \in Paths : Untouched(r, p) => Standing(r, p)

(* What a user removes is discarded. *)
LEMMA UserDiscards ==
  ASSUME TypeInv, User
  PROVE  /\ UNCHANGED <<record, pc, run, mode, start>> /\ discarded \subseteq discarded'
         /\ \A s \in Sides, p \in Paths :
              tree[s][p].kind # "none" => tree'[s][p].kind = tree[s][p].kind \/ p \in discarded'
<1>0. tree \in [Sides -> [Paths -> Entry]] /\ \A p \in Paths : Inside[p] \subseteq Paths
  BY PathAssumption DEF TypeInv, TypeOK
<1>1. PICK s \in Sides : \/ RemoveRoot(s)
                         \/ \E p \in Paths : WriteFile(s, p) \/ MakeDirectory(s, p) \/ RemoveEntry(s, p)
  BY DEF User
<1>2. UNCHANGED <<record, pc, run, mode, start>>
  BY <1>1 DEF RemoveRoot, WriteFile, MakeDirectory, RemoveEntry, Editing
<1> DEFINE Goal == /\ discarded \subseteq discarded'
                   /\ \A r \in Sides, p \in Paths :
                        tree[r][p].kind # "none" => tree'[r][p].kind = tree[r][p].kind \/ p \in discarded'
<1>3. CASE RemoveRoot(s)
  <2>1. discarded' = discarded \cup Present(tree[s]) /\ tree' = [tree EXCEPT ![s] = NoTree]
    BY <1>3 DEF RemoveRoot
  <2>2. Goal
    BY <1>0, <2>1 DEF Present
  <2> QED BY <1>2, <2>2
<1>4. ASSUME NEW p \in Paths, WriteFile(s, p) PROVE Goal
  <2>1. PICK c, t : tree' = [tree EXCEPT ![s][p] = FileOf(c, t)]
    BY <1>4 DEF WriteFile
  <2>2. tree[s][p].kind # "none" => tree[s][p].kind = "file"
    <3>1. tree[s][p] \in Entry /\ tree[s][p].kind # "dir"
      BY <1>0, <1>4 DEF WriteFile
    <3> QED BY <3>1, EntryKinds
  <2>3. discarded' = discarded
    BY <1>4 DEF WriteFile
  <2> QED BY <1>0, <2>1, <2>2, <2>3 DEF FileOf
<1>5. ASSUME NEW p \in Paths, MakeDirectory(s, p) PROVE Goal
  BY <1>0, <1>5 DEF MakeDirectory
<1>6. ASSUME NEW p \in Paths, RemoveEntry(s, p) PROVE Goal
  <2>1. /\ discarded' = discarded \cup {q \in {p} \cup Inside[p] : tree[s][q].kind # "none"}
        /\ tree' = [tree EXCEPT ![s] = Removed(tree[s], p)]
    BY <1>6 DEF RemoveEntry
  <2> QED BY <1>0, <2>1 DEF Removed
<1> QED BY <1>1, <1>2, <1>3, <1>4, <1>5, <1>6

(* An entry vanishes by a deletion, or because a copy makes room for what is  *)
(* on the other side, which is then made next.                                *)
LEMMA VanishForm ==
  ASSUME TypeInv, FileOperation, NEW s \in Sides, NEW p \in Paths,
         tree[s][p].kind # "none", tree'[s][p].kind = "none"
  PROVE  /\ s = Head(work).to /\ p \in {Target} \cup Inside[Target]
         /\ Head(work).op \in {"copy", "delete"}
         /\ Head(work).op = "copy" =>
              /\ There[Target].kind # "none"
              /\ p = Target => /\ UNCHANGED pc
                               /\ \E op \in {"mkdir", "create"} : work' = Then(op, NoContent)
<1>0. /\ tree \in [Sides -> [Paths -> Entry]] /\ Head(work).to \in Sides /\ Target \in Paths
      /\ Here = tree[Head(work).to] /\ Here \in [Paths -> Entry]
      /\ Target \notin Inside[Target] /\ tree' # tree
  <2>1. work # <<>>
    BY OperationTypes
  <2> QED BY <2>1, OperandTypes, AboveAbove, PathAssumption DEF TypeInv, TypeOK, Here, IsTree
<1>1. s = Head(work).to /\ p \in {Target} \cup Inside[Target]
  BY <1>0, EffectForm DEF Folder
<1>2. ~OperationFails
  BY <1>0 DEF OperationFails
<1>3. CASE RemoveChild
  <2>1. PICK q \in Inside[Target] : Effect([Here EXCEPT ![q] = Absent], work)
    BY <1>3 DEF RemoveChild
  <2>2. p # Target
    BY <1>0, <1>1, <2>1 DEF Effect
  <2> QED BY <1>1, <1>3, <2>2 DEF RemoveChild, Doing
<1>4. CASE CopyEntry
  BY <1>1, <1>2, <1>4 DEF CopyEntry, Doing, Effect
<1>5. CASE MakeFolder
  <2>1. PICK ps \in SUBSET Paths : \E rest : Effect(WithFolders(Here, ps), rest)
    <3>1. Ancestors(Target) \cup {Target} \in SUBSET Paths
      BY <1>0 DEF Ancestors
    <3> QED BY <1>2, <1>5, <3>1 DEF MakeFolder
  <2>2. tree'[s] = WithFolders(Here, ps)
    BY <1>0, <1>1, <2>1 DEF Effect
  <2> QED BY <1>0, <1>1, <2>2 DEF WithFolders
<1>6. CASE ReadFails
  BY <1>2, <1>6 DEF ReadFails
<1>7. CASE CreateFile
  <2>1. PICK rest : Effect([Here EXCEPT ![Target] = FileOf(Torn, clock)], rest)
    BY <1>2, <1>7 DEF CreateFile
  <2>2. tree'[s] = [Here EXCEPT ![Target] = FileOf(Torn, clock)]
    BY <1>0, <1>1, <2>1 DEF Effect
  <2> QED BY <1>0, <1>1, <2>2 DEF FileOf
<1>8. CASE FillFile
  <2>1. PICK c, t : tree' = [tree EXCEPT ![Head(work).to][Target] = FileOf(c, t)]
    BY <1>0, <1>8 DEF FillFile
  <2> QED BY <1>0, <1>1, <2>1 DEF FileOf
<1>9. CASE DeleteEntry
  BY <1>1, <1>9 DEF DeleteEntry, Doing
<1> QED
  BY <1>3, <1>4, <1>5, <1>6, <1>7, <1>8, <1>9 DEF FileOperation

(* The inventories, for what is planned. *)
LEMMA PlannedSource ==
  ASSUME PlanInv, NEW p \in ToBePlanned
  PROVE  /\ Planned(p).op = "copy" => inv[Other(Planned(p).to)][p].kind # "none"
         /\ Planned(p).op = "delete" => /\ inv[Other(Planned(p).to)][p].kind = "none"
                                       /\ inv[Planned(p).to][p].kind # "none"
<1>1. /\ start.choice \in [Paths -> Sides] /\ inv \in [Sides -> [Paths -> Entry]]
      /\ p \in Differs(inv[1], inv[2])
  BY DEF PlanInv, StartType, TypeInv, TypeOK, ToBePlanned
<1> DEFINE m == mode  c == start.choice  t == inv  r == record
<1> HIDE DEF m, c, t, r
<1>2. LET d == Decided(m, c, t[1], t[2], r, p) IN
         /\ d.op = "copy" => t[Other(d.to)][p].kind # "none"
         /\ d.op = "delete" => t[Other(d.to)][p].kind = "none" /\ t[d.to][p].kind # "none"
  <2>1. c \in [Paths -> Sides] /\ t \in [Sides -> [Paths -> Entry]] /\ p \in Differs(t[1], t[2])
    BY <1>1 DEF c, t
  <2> QED BY <2>1, DecidedSource
<1> QED
  BY <1>2 DEF Planned, m, c, t, r

(* What the action under way may take from the side it changes: in a record,  *)
(* it was removed by a user, or it is the path of a copy and on both sides.    *)
LEMMA TakenForm ==
  ASSUME VanishInv, At("execute"), current # <<>>,
         NEW p \in {Under.path} \cup Inside[Under.path], p \in record.paths
  PROVE  Forsaken(p) \/ (Under.op = "copy" /\ p = Under.path /\ \A r \in Sides : inv[r][p].kind # "none")
<1> DEFINE o == Under.path
<1>0. /\ o \in ToBePlanned /\ o \in Paths /\ Under = Planned(o) /\ Under.op \in {"copy", "delete"}
      /\ p \in Paths /\ 1 \in Sides /\ 2 \in Sides /\ \A s \in Sides : s = 1 \/ s = 2
      /\ IsTree(inv[1]) /\ IsTree(inv[2]) /\ inv \in [Sides -> [Paths -> Entry]]
      /\ Under.to \in Sides /\ Other(Under.to) \in Sides /\ PlanInv
  <2>1. PlanInv /\ record \in Record
    BY DEF VanishInv, PlanInv, TypeInv, TypeOK
  <2> QED BY <2>1, UnderForm DEF PlanInv, TypeInv, TypeOK, Record, Sides, Other
<1>1. ASSUME NEW r \in Sides, inv[r][p].kind = "none" PROVE Forsaken(p)
  BY <1>0, <1>1 DEF VanishInv, At, Accounted
<1>2. CASE p \in Inside[o]
  <2>1. o \in Ancestors(p)
    BY <1>0, <1>2 DEF Ancestors
  <2>2. inv[1][p].kind = "none" \/ inv[2][p].kind = "none"
    BY <1>0, <2>1, DirectoriesAgree DEF ToBePlanned
  <2> QED BY <1>0, <1>1, <2>2
<1>3. CASE p = o /\ Under.op = "delete"
  <2>1. inv[Other(Under.to)][p].kind = "none"
    BY <1>0, <1>3, PlannedSource
  <2> QED BY <1>0, <1>1, <2>1
<1> QED BY <1>0, <1>1, <1>2, <1>3

(* A path that both inventories have, and that differs, is changed on one side *)
(* only, and what is above it on neither.                                      *)
LEMMA AboveUntouched ==
  ASSUME PlanInv, At("execute"), current # <<>>, \A r \in Sides : inv[r][Under.path].kind # "none"
  PROVE  /\ Untouched(Other(Under.to), Under.path)
         /\ \A a \in Ancestors(Under.path), r \in Sides :
              a \in Paths /\ Untouched(r, a) /\ inv[r][a].kind = "dir"
<1> DEFINE p == Under.path
<1>0. /\ p \in Paths /\ Under = Planned(p) /\ Under.to \in Sides /\ Other(Under.to) # Under.to
      /\ IsTree(inv[1]) /\ IsTree(inv[2]) /\ 1 \in Sides /\ 2 \in Sides
      /\ \A s \in Sides : s = 1 \/ s = 2
  BY UnderForm DEF PlanInv, TypeInv, Sides, Other
<1>1. \A a \in Ancestors(p) : a \notin ToBePlanned
  BY <1>0, DirectoriesAgree DEF ToBePlanned
<1>2. \A a \in Ancestors(p) : a \in Paths /\ Ancestors(a) \subseteq Ancestors(p)
  BY <1>0, AboveAbove
<1>3. \A a \in Ancestors(p), r \in Sides : inv[r][a].kind = "dir"
  BY <1>0 DEF IsTree, WellFormed
<1> QED BY <1>0, <1>1, <1>2, <1>3 DEF Untouched

LEMMA UntouchedStays ==
  ASSUME UNCHANGED <<inv, mode, start, record>>, NEW r, NEW p
  PROVE  Untouched(r, p)' <=> Untouched(r, p)
BY DEF Untouched, ToBePlanned, Differs, Alike, Planned

(* Putting back what a copy has taken goes on, or a user removed it.          *)
LEMMA HalfwayStays ==
  ASSUME VanishInv, FileOperation, NEW s \in Sides, NEW p \in Paths, Halfway(s, p),
         tree'[s][p].kind = "none"
  PROVE  Forsaken(p) \/ Halfway(s, p)'
<1>0. /\ PlanInv /\ TypeInv /\ At("execute") /\ current # <<>> /\ Under.path = p /\ Under.to = s
      /\ UNCHANGED <<inv, current>> /\ \A r \in Sides : inv[r][p].kind # "none"
      /\ Other(s) \in Sides
  BY OperationTypes DEF VanishInv, PlanInv, Halfway, Sides, Other
<1>1. PICK x \in Action : work = <<x>> /\ x.path = p /\ x.op \in {"copy", "mkdir", "create"}
  BY DEF Halfway
<1>2. /\ Head(work) = x /\ Tail(work) = <<>> /\ Target = p /\ work # <<>>
      /\ Head(work).to = s /\ Here = tree[s] /\ There = tree[Other(s)]
  <2>1. Head(work) = x /\ Tail(work) = <<>> /\ Target = p /\ work # <<>>
    BY <1>1 DEF Target
  <2>2. Head(work).to = s
    BY <1>0, OperandUnder
  <2> QED BY <2>1, <2>2 DEF Here, There
<1>3. ASSUME There[Target].kind = "none" PROVE Forsaken(p)
  <2>1. Untouched(Other(s), p) /\ tree[Other(s)][p].kind # inv[Other(s)][p].kind
    BY <1>0, <1>2, <1>3, AboveUntouched
  <2>2. p \in discarded
    BY <1>0, <2>1 DEF VanishInv, Standing
  <2> QED BY <2>2 DEF Forsaken
<1>4. ASSUME NEW a \in Ancestors(p), Here[a].kind # "dir" PROVE Forsaken(p)
  <2>1. a \in Paths /\ Untouched(s, a) /\ inv[s][a].kind = "dir"
    BY <1>0, AboveUntouched
  <2>2. a \in discarded
    BY <1>0, <1>2, <1>4, <2>1 DEF VanishInv, Standing
  <2> QED BY <2>2 DEF Forsaken
<1>5. ASSUME UNCHANGED pc, NEW y \in Action, work' = <<y>>, y.path = p, y.op \in {"copy", "mkdir", "create"}
      PROVE  Halfway(s, p)'
  BY <1>0, <1>5 DEF Halfway, At, Under
<1>6. ASSUME NEW op \in {"mkdir", "create"}, Effect(Removed(Here, Target), Then(op, NoContent))
               \/ Effect(Removed(WithFolders(Here, Ancestors(Target)), Target), Then(op, NoContent))
      PROVE  Halfway(s, p)'
  <2> DEFINE y == [op |-> op, to |-> s, path |-> p, content |-> NoContent]
  <2>1. y \in Action /\ y.path = p /\ y.op \in {"copy", "mkdir", "create"}
    BY <1>0 DEF Action
  <2>2. work' = <<y>> \o <<>> /\ UNCHANGED pc
    BY <1>2, <1>6 DEF Effect, Then
  <2> HIDE DEF y
  <2>3. <<y>> \o <<>> = <<y>>
    <3>1. <<y>> \in Seq(Action)
      BY <2>1
    <3> QED BY <3>1, ConcatEmptySeq
  <2> QED BY <1>5, <2>1, <2>2, <2>3
<1>7. UnderFile(Here, Target) => \E a \in Ancestors(p) : Here[a].kind # "dir"
  BY <1>2 DEF UnderFile
<1>8. ASSUME NEW t, NEW rest, Effect(t, rest) PROVE tree'[s] = t
  BY <1>0, <1>2, <1>8 DEF Effect, TypeInv, TypeOK
<1>9. CASE RemoveChild
  BY <1>1, <1>5, <1>9 DEF RemoveChild, Effect
<1>10. CASE CopyEntry
  BY <1>3, <1>4, <1>6, <1>7, <1>10 DEF CopyEntry
<1>11. CASE MakeFolder
  <2>1. CASE UnderFile(Here, Target)
    BY <1>4, <1>7, <2>1
  <2>2. CASE Here[Target].kind = "file"
    <3>1. tree' = tree
      BY <1>11, <2>2 DEF MakeFolder, OperationFails
    <3> QED BY <1>2, <2>2, <3>1
  <2>3. CASE ~UnderFile(Here, Target) /\ Here[Target].kind # "file"
    <3>1. \E rest : Effect(WithFolders(Here, Ancestors(Target) \cup {Target}), rest)
      BY <1>11, <2>3 DEF MakeFolder
    <3>2. tree'[s] = WithFolders(Here, Ancestors(Target) \cup {Target})
      BY <1>8, <3>1
    <3>3. tree'[s][p].kind # "none"
      BY <1>2, <3>2 DEF WithFolders, Folder
    <3> QED BY <3>3
  <2> QED BY <2>1, <2>2, <2>3
<1>12. CASE CreateFile
  <2>1. CASE There[Target].kind = "none"
    BY <1>3, <2>1
  <2>2. CASE Here[Target].kind = "dir"
    <3>1. tree' = tree
      BY <1>12, <2>2 DEF CreateFile, OperationFails
    <3> QED BY <1>2, <2>2, <3>1
  <2>3. CASE \E a \in Ancestors(Target) : Here[a].kind # "dir"
    BY <1>2, <1>4, <2>3
  <2>4. CASE ~(\/ There[Target].kind = "none" \/ Here[Target].kind = "dir"
               \/ \E a \in Ancestors(Target) : Here[a].kind # "dir")
    <3>1. \E rest : Effect([Here EXCEPT ![Target] = FileOf(Torn, clock)], rest)
      BY <1>12, <2>4 DEF CreateFile
    <3>2. tree'[s] = [Here EXCEPT ![Target] = FileOf(Torn, clock)]
      BY <1>8, <3>1
    <3>3. tree[s] \in [Paths -> Entry]
      BY <1>0 DEF TypeInv, TypeOK
    <3> QED BY <1>2, <3>2, <3>3 DEF FileOf
  <2> QED BY <2>1, <2>2, <2>3, <2>4
<1> QED
  BY <1>1, <1>2, <1>9, <1>10, <1>11, <1>12
  DEF FileOperation, ReadFails, FillFile, DeleteEntry, Doing

(* A file operation takes only what a user removed, or what it puts back.     *)
LEMMA VanishOperation ==
  ASSUME VanishInv, FileOperation
  PROVE  VanishInv'
<1>0. /\ PlanInv /\ TypeInv /\ At("execute") /\ current # <<>> /\ work # <<>>
      /\ UNCHANGED <<inv, mode, start, record, discarded, current>>
      /\ pc' \in {"execute", "failed"}
      /\ record.paths \subseteq Paths
  <2>1. PlanInv /\ TypeInv
    BY DEF VanishInv, PlanInv
  <2> QED BY <2>1, OperationTypes, OperandUnder DEF history, At, OperationFails, Fail, Goto, TypeInv, TypeOK, Record
<1>1. PlanInv'
  BY <1>0, PlanStep DEF Next, RunStep
<1>2. /\ Under.path \in Paths /\ Head(work).to = Under.to /\ Under.to \in Sides
      /\ Target \in {Under.path} \cup Inside[Under.path]
      /\ Inside[Target] \subseteq Inside[Under.path]
      /\ Head(work).op = "delete" <=> Under.op = "delete"
      /\ Under.path \in ToBePlanned /\ Under = Planned(Under.path)
  BY <1>0, OperandUnder, UnderForm
<1>3. \A p : Forsaken(p)' <=> Forsaken(p)
  BY <1>0 DEF Forsaken
<1>4. Accounted(1)' /\ Accounted(2)'
  BY <1>0, <1>3 DEF VanishInv, Accounted, At
<1>5. ASSUME NEW r \in Sides, NEW p \in Paths, Untouched(r, p)' PROVE Standing(r, p)'
  <2>1. Untouched(r, p) /\ Standing(r, p)
    BY <1>0, <1>5, UntouchedStays DEF VanishInv
  <2>2. ~(r = Head(work).to /\ p \in {Target} \cup Inside[Target])
    BY <1>2, <2>1 DEF Untouched, Ancestors
  <2>3. tree'[r][p] = tree[r][p] \/ tree[r][p].kind = "none"
    BY <1>0, <2>2, EffectForm
  <2> QED BY <1>0, <2>1, <2>3 DEF Standing
<1>6. ASSUME NEW s \in Sides, NEW p \in record.paths, tree'[s][p].kind = "none", ~Forsaken(p)
      PROVE  Halfway(s, p)'
  <2>1. CASE tree[s][p].kind = "none"
    <3>1. Halfway(s, p)
      BY <1>6, <2>1 DEF VanishInv
    <3> QED BY <1>0, <1>6, <3>1, HalfwayStays
  <2>2. CASE tree[s][p].kind # "none"
    <3>1. /\ s = Head(work).to /\ p \in {Target} \cup Inside[Target]
          /\ Head(work).op \in {"copy", "delete"}
          /\ Head(work).op = "copy" /\ p = Target =>
               /\ UNCHANGED pc
               /\ \E op \in {"mkdir", "create"} : work' = Then(op, NoContent)
      BY <1>0, <1>6, <2>2, VanishForm
    <3>2. Under.op = "copy" /\ p = Under.path /\ \A r \in Sides : inv[r][p].kind # "none"
      BY <1>0, <1>2, <1>6, <3>1, TakenForm
    <3>3. Head(work).op = "copy" /\ p = Target
      BY <1>0, <1>2, <3>1, <3>2, PathAssumption
    <3>4. PICK op \in {"mkdir", "create"} : work' = Then(op, NoContent)
      BY <3>1, <3>3
    <3>5. Tail(work) = <<>>
      <4>1. WorkForm
        BY <1>0 DEF PlanInv, PlanForm
      <4>2. ~(work \in Seq(Below(Under.path, Under.to)))
        <5> SUFFICES ASSUME work \in Seq(Below(Under.path, Under.to)) PROVE FALSE
          OBVIOUS
        <5>1. Head(work) \in Below(Under.path, Under.to)
          BY <1>0
        <5>2. Target \in Inside[Under.path]
          BY <5>1 DEF Below, Target
        <5> QED BY <1>2, <3>2, <3>3, <5>2, AboveAbove
      <4>3. PICK a \in Action : work = <<a>>
        BY <1>0, <4>1, <4>2 DEF WorkForm
      <4> QED BY <4>3
    <3> DEFINE y == [op |-> op, to |-> Head(work).to, path |-> Target, content |-> NoContent]
    <3>6. y \in Action /\ y.path = p /\ y.op \in {"copy", "mkdir", "create"}
      BY <1>2, <3>2, <3>3 DEF Action
    <3>7. work' = <<y>> \o <<>>
      BY <3>4, <3>5 DEF Then
    <3> HIDE DEF y
    <3>8. <<y>> \o <<>> = <<y>>
      <4>1. <<y>> \in Seq(Action)
        BY <3>6
      <4> QED BY <4>1, ConcatEmptySeq
    <3> QED BY <1>0, <1>2, <3>1, <3>2, <3>3, <3>6, <3>7, <3>8 DEF Halfway, At, Under
  <2> QED BY <2>1, <2>2
<1>7. pc' \notin {"second", "plan", "verify", "commit"}
  BY <1>0
<1> QED
  BY <1>0, <1>1, <1>3, <1>4, <1>5, <1>6, <1>7 DEF VanishInv

LEMMA VanishStep ==
  ASSUME {"crash", "io"} \cap Faults = {}, VanishInv, [Next]_vars
  PROVE  VanishInv'
<1>0. PlanInv /\ TypeInv /\ PlanInv' /\ TypeInv' /\ record.paths \subseteq Paths
  BY PlanStep DEF VanishInv, PlanInv, TypeInv, TypeOK, Record
<1> DEFINE Rest == \A s \in Sides : \A p \in record'.paths :
                     tree'[s][p].kind = "none" => Forsaken(p)' \/ Halfway(s, p)'
           Taken == /\ pc' \in {"second", "plan", "execute"} => Accounted(1)'
                    /\ pc' \in {"plan", "execute"} => Accounted(2)'
                    /\ pc' \in {"second", "plan", "verify", "commit"} => \A p \in Paths : Standing(1, p)'
                    /\ pc' \in {"plan", "commit"} => \A p \in Paths : Standing(2, p)'
                    /\ pc' = "execute" => \A r \in Sides, p \in Paths : Untouched(r, p)' => Standing(r, p)'
<1>a. ASSUME Rest, Taken PROVE VanishInv'
  BY <1>0, <1>a DEF VanishInv, At
<1>b. ASSUME UNCHANGED <<tree, record, discarded>>, \A s, p : ~Halfway(s, p) PROVE Rest
  BY <1>b DEF VanishInv, Forsaken
<1>c. (~At("execute") \/ work = <<>>) => \A s, p : ~Halfway(s, p)
  BY DEF Halfway
<1>1. CASE FileOperation
  BY <1>1, VanishOperation
<1>2. CASE BeginRun
  <2>1. UNCHANGED <<tree, record, discarded>> /\ At("idle") /\ pc' \in {"first", "failed"}
    BY <1>2 DEF BeginRun, Goto
  <2> QED BY <1>a, <1>b, <1>c, <2>1 DEF At
<1>3. ASSUME NEW s \in Sides, NEW label \in {"first", "second", "verify"},
             NEW next \in {"second", "plan", "commit"}, TakeInventory(s, label, next),
             \/ s = 1 /\ label = "first" /\ next = "second"
             \/ s = 2 /\ label = "second" /\ next = "plan"
             \/ s = 2 /\ label = "verify" /\ next = "commit"
      PROVE  VanishInv'
  <2>1. /\ At(label) /\ pc' = next /\ UNCHANGED <<tree, record, discarded>>
        /\ inv' = [inv EXCEPT ![s] = tree[s]]
    BY <1>3 DEF TakeInventory, Goto, history
  <2>2. \A q, p : ~Halfway(q, p)
    BY <1>3, <1>c, <2>1 DEF At
  <2>3. /\ inv'[s] = tree[s] /\ \A r \in Sides : r # s => inv'[r] = inv[r]
        /\ 1 \in Sides /\ 2 \in Sides
    BY <1>0, <2>1 DEF TypeInv, TypeOK, Sides
  <2>4. \A p \in record.paths : tree[s][p].kind = "none" => Forsaken(p)
    BY <2>2 DEF VanishInv
  <2>5. Accounted(s)' /\ \A p \in Paths : Standing(s, p)'
    BY <2>1, <2>3, <2>4 DEF Accounted, Forsaken, Standing
  <2>6. \A r \in Sides : r # s => /\ Accounted(r) => Accounted(r)'
                                 /\ \A p \in Paths : Standing(r, p) => Standing(r, p)'
    BY <2>1, <2>3 DEF Accounted, Forsaken, Standing
  <2>7. Taken
    <3>1. CASE s = 1
      BY <1>3, <2>1, <2>5, <3>1
    <3>2. CASE s = 2
      <4>1. /\ label = "second" => Accounted(1)
            /\ \A p \in Paths : Standing(1, p)
        BY <1>3, <2>1, <3>2 DEF VanishInv, At
      <4>2. /\ label = "second" => Accounted(1)'
            /\ \A p \in Paths : Standing(1, p)'
        BY <2>3, <2>6, <3>2, <4>1
      <4> QED BY <1>3, <2>1, <2>5, <3>2, <4>2
    <3> QED BY <1>3, <3>1, <3>2
  <2> QED BY <1>a, <1>b, <2>1, <2>2, <2>7
<1>4. CASE MakePlan
  <2>1. /\ At("plan") /\ UNCHANGED <<tree, record, discarded, inv>> /\ pc' \in {"execute", "failed"}
    BY <1>4 DEF MakePlan, Fail, Goto, run
  <2>2. /\ Accounted(1) /\ Accounted(2)
        /\ \A r \in Sides, p \in Paths : Standing(r, p)
    BY <2>1 DEF VanishInv, At, Sides
  <2>3. /\ Accounted(1)' /\ Accounted(2)'
        /\ \A r \in Sides, p \in Paths : Standing(r, p)'
    BY <2>1, <2>2 DEF Accounted, Forsaken, Standing
  <2> QED BY <1>a, <1>b, <1>c, <2>1, <2>3 DEF At
<1>5. ASSUME At("execute"), UNCHANGED <<tree, record, discarded, inv, mode, start, pc>>, Rest
      PROVE  VanishInv'
  <2>0. \A p : Forsaken(p) => Forsaken(p)'
    BY <1>5 DEF Forsaken
  <2>1. Accounted(1)' /\ Accounted(2)'
    BY <1>5, <2>0 DEF VanishInv, Accounted, At
  <2>2. \A r \in Sides, p \in Paths : Untouched(r, p)' => Standing(r, p)'
    BY <1>5, UntouchedStays DEF VanishInv, Standing
  <2>3. pc' = "execute"
    BY <1>5 DEF At
  <2> QED BY <1>a, <1>5, <2>1, <2>2, <2>3
<1>6. CASE NextAction
  <2>1. At("execute") /\ UNCHANGED <<tree, record, discarded, inv, mode, start, pc>> /\ work = <<>>
    BY <1>6 DEF NextAction, env, history
  <2>2. Rest
    BY <1>b, <1>c, <2>1
  <2> QED BY <1>5, <2>1, <2>2
<1>7. CASE Retry
  <2>1. /\ At("execute") /\ UNCHANGED <<tree, record, discarded, inv, mode, start, pc, current>>
        /\ work' = current
    BY <1>7 DEF Retry, env, history
  <2>2. ASSUME NEW s \in Sides, NEW p \in Paths, Halfway(s, p) PROVE Halfway(s, p)'
    <3>1. current = <<Under>> /\ Under \in Action
      BY <1>0, <2>1, <2>2, UnderForm DEF Halfway
    <3> QED BY <2>1, <2>2, <3>1 DEF Halfway, Under, At
  <2>3. Rest
    BY <1>0, <2>1, <2>2 DEF VanishInv, Forsaken
  <2> QED BY <1>5, <2>1, <2>3
<1>8. CASE VerifyFirst
  <2>1. /\ At("execute") /\ work = <<>> /\ UNCHANGED <<tree, record, discarded>> /\ pc' = "verify"
        /\ inv' = [inv EXCEPT ![1] = tree[1]]
    BY <1>8 DEF VerifyFirst, Goto, history
  <2>2. inv'[1] = tree[1]
    BY <1>0, <2>1 DEF TypeInv, TypeOK, Sides
  <2>3. \A p \in Paths : Standing(1, p)'
    BY <2>1, <2>2 DEF Standing
  <2> QED BY <1>a, <1>b, <1>c, <2>1, <2>3
<1>9. CASE Commit
  <2>0. At("commit") /\ UNCHANGED <<tree, inv>> /\ pc' \in {"done", "failed"}
    BY <1>9 DEF Commit, Fail, Goto, run
  <2>1. CASE Equivalent(inv[1], inv[2])
    <3>1. /\ record'.paths = Present(inv[1])
          /\ discarded' = {p \in discarded : \E s \in Sides : tree[s][p].kind = "none"}
      BY <1>9, <2>1 DEF Commit
    <3>2. ASSUME NEW s \in Sides, NEW p \in record'.paths, tree'[s][p].kind = "none"
          PROVE  Forsaken(p)'
      <4>1. p \in Paths /\ inv[s][p].kind # "none" /\ Standing(s, p)
        BY <2>0, <2>1, <3>1, <3>2 DEF Present, Equivalent, Alike, VanishInv, At, Sides
      <4>2. p \in discarded'
        BY <2>0, <3>1, <3>2, <4>1 DEF Standing
      <4> QED BY <4>2 DEF Forsaken
    <3> QED BY <1>a, <2>0, <3>2
  <2>2. CASE ~Equivalent(inv[1], inv[2])
    <3>1. UNCHANGED <<record, discarded>>
      BY <1>9, <2>2 DEF Commit
    <3> QED BY <1>a, <1>b, <1>c, <2>0, <3>1 DEF At
  <2> QED BY <2>1, <2>2
<1>10. CASE EndRun
  <2>1. UNCHANGED <<tree, record, discarded>> /\ ~At("execute") /\ pc' = "idle"
    BY <1>10 DEF EndRun, Goto, At
  <2> QED BY <1>a, <1>b, <1>c, <2>1
<1>11. CASE User
  <2>1. /\ UNCHANGED <<record, pc, run, mode, start>> /\ discarded \subseteq discarded'
        /\ \A s \in Sides, p \in Paths :
             tree[s][p].kind # "none" => tree'[s][p].kind = tree[s][p].kind \/ p \in discarded'
    BY <1>0, <1>11, UserDiscards
  <2>2. \A p : Forsaken(p) => Forsaken(p)'
    BY <2>1 DEF Forsaken
  <2>3. \A p \in discarded' : Forsaken(p)'
    BY DEF Forsaken
  <2>4. \A s, p : Halfway(s, p) => Halfway(s, p)'
    BY <2>1 DEF Halfway, Under, At, run
  <2>5. Rest
    BY <1>0, <2>1, <2>2, <2>3, <2>4 DEF VanishInv
  <2>6. \A r \in Sides, p \in Paths : Standing(r, p) => Standing(r, p)'
    BY <2>1 DEF Standing, run
  <2>7. (Accounted(1) => Accounted(1)') /\ (Accounted(2) => Accounted(2)')
    BY <2>1, <2>2 DEF Accounted, run
  <2>8. \A r \in Sides, p \in Paths : Untouched(r, p)' => Untouched(r, p)
    BY <2>1, UntouchedStays DEF run
  <2>9. Taken
    BY <2>1, <2>6, <2>7, <2>8 DEF VanishInv, At, Sides
  <2> QED BY <1>a, <2>5, <2>9
<1>12. ASSUME UNCHANGED <<tree, record, pc, run, mode, start, discarded>> PROVE VanishInv'
  <2>1. /\ \A p : Forsaken(p)' <=> Forsaken(p)
        /\ \A s, p : Halfway(s, p) => Halfway(s, p)'
        /\ \A r \in Sides, p \in Paths : Standing(r, p) => Standing(r, p)'
        /\ \A r \in Sides, p \in Paths : Untouched(r, p)' => Untouched(r, p)
    BY <1>12, UntouchedStays DEF Forsaken, Halfway, Under, At, Standing, run
  <2>2. (Accounted(1) => Accounted(1)') /\ (Accounted(2) => Accounted(2)')
    BY <1>12, <2>1 DEF Accounted, run
  <2>3. Rest /\ Taken
    BY <1>0, <1>12, <2>1, <2>2 DEF VanishInv, At, Sides
  <2> QED BY <1>a, <2>3
<1>13. CASE LockFile \/ UnlockFile \/ UNCHANGED vars
  BY <1>12, <1>13 DEF LockFile, UnlockFile, vars, env, history
<1>14. ~CallFails /\ ~Crash
  BY DEF CallFails, Crash
<1> HIDE DEF Rest, Taken
<1> QED
  BY <1>1, <1>2, <1>3, <1>4, <1>6, <1>7, <1>8, <1>9, <1>10, <1>11, <1>13, <1>14
  DEF Next, RunStep, Sides

(* What was on one side only when it vanished had been removed by a user from  *)
(* the other, or was in a directory that a file stood beside.                  *)
LEMMA VanishCause ==
  ASSUME VanishInv, [Next]_vars, edits' = edits, NEW p \in Paths,
         p \in Present(inv[1]) \cup Present(inv[2]), ~Gone(p), Gone(p)',
         mode # "unidirectional", start.record.found
  PROVE  Forsaken(p) \/ \E a \in Ancestors(p) : Beside(inv, a)
<1>0. /\ PlanInv /\ TypeInv /\ tree \in [Sides -> [Paths -> Entry]]
      /\ 1 \in Sides /\ 2 \in Sides /\ \A s \in Sides : s = 1 \/ s = 2
      /\ \A s \in Sides : Other(s) \in Sides /\ Other(s) # s /\ Other(Other(s)) = s
      /\ \A s, r \in Sides : r # s => r = Other(s)
      /\ \A s \in Sides : IsTree(inv[s]) /\ inv[s][p] \in Entry
  BY DEF VanishInv, PlanInv, TypeInv, TypeOK, Sides, Other, IsTree
<1>1. FileOperation
  BY <1>0, TreeChanges DEF Gone
<1>2. /\ At("execute") /\ current # <<>> /\ Head(work).to = Under.to
      /\ Target \in {Under.path} \cup Inside[Under.path]
      /\ Inside[Target] \subseteq Inside[Under.path]
      /\ Head(work).op = "delete" <=> Under.op = "delete"
      /\ start.record = record /\ record.found
  BY <1>0, <1>1, OperandUnder DEF PlanInv, At
<1> DEFINE o == Under.path  s == Under.to  r == Other(Under.to)
<1>3. /\ o \in ToBePlanned /\ o \in Paths /\ Under = Planned(o) /\ s \in Sides /\ r \in Sides
      /\ Under.op \in {"copy", "delete"}
  BY <1>0, <1>2, UnderForm
<1>4. tree[s][p].kind # "none" /\ tree'[s][p].kind = "none" /\ tree[r][p].kind = "none"
  <2>1. PICK q \in Sides : tree[q][p].kind # "none"
    BY DEF Gone
  <2>2. tree'[q][p].kind = "none" /\ tree'[r][p].kind = "none"
    BY <1>3 DEF Gone
  <2>3. q = s
    BY <1>0, <1>1, <1>2, <2>1, <2>2, VanishForm
  <2>4. tree'[r] = tree[r]
    BY <1>0, <1>1, <1>2, <1>3, EffectForm
  <2> QED BY <2>1, <2>2, <2>3, <2>4
<1>5. /\ p \in {Target} \cup Inside[Target]
      /\ Head(work).op \in {"copy", "delete"}
      /\ Head(work).op = "copy" => There[Target].kind # "none"
  BY <1>0, <1>1, <1>3, <1>4, VanishForm
<1>6. CASE p \in record.paths
  <2>1. ~Halfway(r, p)
    BY <1>0, <1>3 DEF Halfway
  <2> QED BY <1>3, <1>4, <1>6, <2>1 DEF VanishInv
<1>7. ASSUME p \notin record.paths
      PROVE  Forsaken(p) \/ \E a \in Ancestors(p) : Beside(inv, a)
  <2>1. ASSUME NEW a \in Ancestors(p), Forsaken(a) PROVE Forsaken(p)
    BY <2>1, AboveAbove DEF Forsaken
  (* What is deleted is confirmed. *)
  <2>2. ASSUME NEW q \in ToBePlanned, Planned(q).op = "delete"
        PROVE  q \in record.paths /\ Forsaken(q)
    <3>1. q \in Paths /\ inv[1][q] \in Entry /\ inv[2][q] \in Entry
      BY <1>0, <2>2 DEF ToBePlanned, Differs, IsTree
    <3>2. q \in record.paths
      BY <1>2, <2>2 DEF Planned, Decided, ActionFor, OneSided, FileConflict, Copy, Do
    <3>3. inv[Other(Planned(q).to)][q].kind = "none" /\ Planned(q).to \in Sides
      <4>1. start.choice \in [Paths -> Sides]
        BY <1>0 DEF PlanInv, StartType
      <4> QED BY <1>0, <2>2, <3>1, <4>1, PlannedSource, DecidedForm DEF Planned
    <3> QED BY <1>0, <1>2, <3>2, <3>3 DEF VanishInv, At, Accounted
  <2>3. p # o /\ o \in Ancestors(p)
    <3>1. CASE Under.op = "delete"
      BY <1>2, <1>3, <1>5, <1>7, <2>2, <3>1 DEF Ancestors
    <3>2. CASE Under.op = "copy"
      <4>1. p # Target
        BY <1>2, <1>3, <1>4, <1>5, <3>2 DEF There
      <4> QED BY <1>2, <1>3, <1>5, <4>1, PathAssumption DEF Ancestors
    <3> QED BY <1>3, <3>1, <3>2
  <2>4. CASE Under.op = "delete"
    BY <1>3, <2>1, <2>2, <2>3, <2>4
  <2>5. CASE Under.op = "copy"
    <3>1. inv[r][o].kind # "none"
      BY <1>0, <1>3, <2>5, PlannedSource
    <3>2. ASSUME NEW a \in Ancestors(p), NEW q \in Sides, inv[q][p].kind # "none",
                 inv[Other(q)][a].kind # "none", a \in ToBePlanned
          PROVE  Beside(inv, a)
      <4>1. a \in Paths /\ inv[q][a].kind = "dir" /\ inv[q][a] \in Entry /\ inv[Other(q)][a] \in Entry
        BY <1>0, <3>2 DEF IsTree, WellFormed, Ancestors
      <4>2. inv[Other(q)][a].kind = "file"
        <5>1. inv[Other(q)][a].kind # "dir"
          BY <1>0, <3>2, <4>1, EntryKinds, SMTT(30) DEF ToBePlanned, Differs, Alike
        <5> QED BY <3>2, <4>1, <5>1, EntryKinds
      <4>3. {inv[x][a].kind : x \in Sides} = {"dir", "file"}
        BY <1>0, <4>1, <4>2
      <4> QED BY <4>3 DEF Beside
    <3>3. CASE inv[s][o].kind # "none"
      <4>1. PICK q \in Sides : inv[q][p].kind # "none"
        BY <1>0 DEF Present
      <4>2. inv[Other(q)][o].kind # "none"
        BY <1>0, <1>3, <3>1, <3>3
      <4> QED BY <1>3, <2>3, <3>2, <4>1, <4>2
    <3>4. CASE inv[s][o].kind = "none"
      <4>1. inv[s][p].kind = "none" /\ inv[r][p].kind # "none"
        <5>1. inv[s][p].kind = "none"
          BY <1>0, <1>3, <2>3, <3>4 DEF IsTree, WellFormed
        <5> QED BY <1>0, <1>3, <5>1 DEF Present
      <4>2. CASE Untouched(r, p)
        <5>1. p \in discarded
          BY <1>2, <1>3, <1>4, <4>1, <4>2 DEF VanishInv, Standing
        <5> QED BY <5>1 DEF Forsaken
      <4>3. CASE ~Untouched(r, p)
        <5>1. PICK a \in {p} \cup Ancestors(p) : a \in ToBePlanned /\ Planned(a).to = r
          BY <4>3 DEF Untouched
        <5>2. a \in Paths /\ Planned(a).op \in {"copy", "delete"}
          <6>1. start.choice \in [Paths -> Sides] /\ a \in Paths
            BY <1>0, <5>1 DEF PlanInv, StartType, ToBePlanned, Differs
          <6> QED BY <6>1, DecidedForm DEF Planned
        <5>3. CASE Planned(a).op = "delete"
          BY <1>7, <2>1, <2>2, <5>1, <5>3
        <5>4. CASE Planned(a).op = "copy"
          <6>1. inv[s][a].kind # "none"
            BY <1>0, <1>3, <5>1, <5>4, PlannedSource
          <6>2. a \in Ancestors(p)
            BY <4>1, <5>1, <6>1
          <6> QED BY <1>0, <1>3, <3>2, <4>1, <5>1, <6>1, <6>2
        <5> QED BY <5>2, <5>3, <5>4
      <4> QED BY <4>2, <4>3
    <3> QED BY <3>3, <3>4
  <2> QED BY <1>3, <2>4, <2>5
<1> QED BY <1>6, <1>7

(* Users may change both trees at any time and other programs may hold files:  *)
(* while no call fails for another reason and no run is cut short, a path that *)
(* a run found, where a record exists, vanishes from both sides only after a   *)
(* user has removed it or a directory above it, or where a directory above it  *)
(* stood beside a file (change_classification.go:3).                           *)
THEOREM OnlyTheDiscardedVanish ==
  ASSUME {"crash", "io"} \cap Faults = {}
  PROVE  Spec => OnlyDiscardedVanish
<1> DEFINE Excused ==
      edits' = edits =>
       \A p \in Present(inv[1]) \cup Present(inv[2]) : ~Gone(p) /\ Gone(p)' =>
         \/ mode = "unidirectional" \/ ~start.record.found
         \/ ({p} \cup Ancestors(p)) \cap discarded # {}
         \/ \E a \in Ancestors(p) : Beside(inv, a)
<1>1. Init => VanishInv
  <2> SUFFICES ASSUME Init PROVE VanishInv
    OBVIOUS
  <2>1. \A p \in record.paths, s \in Sides : tree[s][p].kind = "none" => Forsaken(p)
    BY DEF Init, Forsaken
  <2> QED BY <2>1, PlanInit DEF Init, VanishInv, At
<1>2. VanishInv /\ [Next]_vars => VanishInv'
  BY VanishStep
<1>3. VanishInv /\ [Next]_vars => [Excused]_vars
  <2> SUFFICES ASSUME VanishInv, [Next]_vars PROVE Excused
    OBVIOUS
  <2>1. \A p \in Present(inv[1]) \cup Present(inv[2]) : p \in Paths
    BY DEF Present
  <2> QED BY <2>1, VanishCause DEF Forsaken
<1> QED
  BY <1>1, <1>2, <1>3, PTL DEF Spec, OnlyDiscardedVanish

-----------------------------------------------------------------------------
(* What a run that commits has made *)

(* A path that the run found on one of the sides. *)
Seen(p) == \E s \in Sides : start.tree[s][p].kind # "none"

(* The side an action takes from, and one whose first step has succeeded.     *)
Source(p) == Other(Deciding(p).to)
Past(p) ==
  /\ p \in Contested /\ current # <<>>
  /\ Place(p) < Place(Under.path) \/ (p = Under.path /\ work # current)

(* What an action that began has found, and what it leaves: the source of a   *)
(* copy is as it was, and nothing is below what is no directory at the source. *)
Opened(p)  == Deciding(p).op = "copy" => Spared(Source(p), p)
Cleared(p) ==
  /\ start.tree[Source(p)][p].kind # "dir" =>
       \A q \in Inside[p] : tree[Deciding(p).to][q].kind = "none"
  /\ Deciding(p).op = "delete" => tree[Deciding(p).to][p].kind = "none"

(* A file is copied by one operation after the other on its path. *)
FileForm ==
  Under.op = "copy" /\ start.tree[Source(Under.path)][Under.path].kind = "file" =>
    \/ work = <<>>
    \/ \E x \in Action : work = <<x>> /\ x.path = Under.path /\ x.op \in {"copy", "create", "fill"}

MergeInv ==
  /\ SurviveInv
  /\ ~At("idle") /\ "edit" \notin disturbed =>
       /\ \A s \in Sides, p \in Paths : tree[s][p].kind # "none" => Seen(p)
       /\ \A i \in DOMAIN work : Seen(work[i].path)
       /\ At("execute") => /\ \A p \in Paths : Past(p) => Opened(p) /\ Cleared(p)
                           /\ current # <<>> => FileForm
       /\ pc \in {"verify", "commit"} =>
            /\ \A p \in Contested : Opened(p) /\ Cleared(p)
            /\ inv[1] = tree[1]
       /\ At("commit") => inv[2] = tree[2]
       /\ At("done") => /\ \A p \in Paths, s \in Sides : Alike(tree[s][p], Merged(p))
                        /\ record.paths = {p \in Paths : Merged(p).kind # "none"}

(* An entry that appears is on the way to the path of a copy or is that path. *)
LEMMA AppearForm ==
  ASSUME TypeInv, FileOperation, NEW s \in Sides, NEW p \in Paths,
         tree[s][p].kind = "none", tree'[s][p].kind # "none"
  PROVE  s = Head(work).to /\ p \in {Target} \cup Ancestors(Target) /\ Head(work).op # "delete"
<1>0. /\ tree \in [Sides -> [Paths -> Entry]] /\ Head(work).to \in Sides /\ Target \in Paths
      /\ Here = tree[Head(work).to] /\ Here \in [Paths -> Entry] /\ tree' # tree
      /\ Ancestors(Target) \in SUBSET Paths
  <2>1. work # <<>>
    BY OperationTypes
  <2> QED BY <2>1, OperandTypes DEF TypeInv, TypeOK, Here, IsTree, Ancestors
<1>1. s = Head(work).to
  BY <1>0, EffectForm
<1>2. ~OperationFails
  BY <1>0 DEF OperationFails
<1>3. ASSUME NEW t, NEW rest, Effect(t, rest) PROVE tree'[s] = t
  BY <1>0, <1>1, <1>3 DEF Effect
<1>4. CASE RemoveChild
  <2>1. PICK q \in Inside[Target] : Effect([Here EXCEPT ![q] = Absent], work)
    BY <1>4 DEF RemoveChild
  <2>2. tree'[s] = [Here EXCEPT ![q] = Absent]
    BY <1>3, <2>1
  <2> QED BY <1>0, <1>1, <2>2 DEF Absent
<1>5. CASE CopyEntry
  <2>1. /\ Head(work).op = "copy"
        /\ \/ tree'[s] = Removed(Here, Target)
           \/ tree'[s] = Removed(WithFolders(Here, Ancestors(Target)), Target)
    BY <1>2, <1>3, <1>5 DEF CopyEntry, Doing
  <2>2. CASE tree'[s] = Removed(Here, Target)
    BY <1>0, <1>1, <2>2 DEF Removed, Absent
  <2>3. CASE tree'[s] = Removed(WithFolders(Here, Ancestors(Target)), Target)
    <3> DEFINE Made == WithFolders(Here, Ancestors(Target))
    <3>1. p \notin Ancestors(Target) => Made[p] = Here[p]
      BY DEF WithFolders
    <3>2. tree'[s][p] = Absent \/ tree'[s][p] = Made[p]
      BY <2>3 DEF Removed
    <3> QED BY <1>0, <1>1, <2>1, <3>1, <3>2 DEF Absent
  <2> QED BY <2>1, <2>2, <2>3
<1>6. CASE MakeFolder
  <2>1. /\ Head(work).op = "mkdir"
        /\ tree'[s] = WithFolders(Here, Ancestors(Target) \cup {Target})
    BY <1>2, <1>3, <1>6 DEF MakeFolder, Doing
  <2> QED BY <1>0, <1>1, <2>1 DEF WithFolders
<1>7. CASE ReadFails
  BY <1>2, <1>7 DEF ReadFails
<1>8. CASE CreateFile
  <2>1. /\ Head(work).op = "create"
        /\ tree'[s] = [Here EXCEPT ![Target] = FileOf(Torn, clock)]
    BY <1>2, <1>3, <1>8 DEF CreateFile, Doing
  <2> QED BY <1>0, <1>1, <2>1
<1>9. CASE FillFile
  <2>1. /\ Head(work).op = "fill"
        /\ \E c, t : tree' = [tree EXCEPT ![Head(work).to][Target] = FileOf(c, t)]
    BY <1>0, <1>9 DEF FillFile, Doing
  <2> QED BY <1>0, <1>1, <2>1
<1>10. CASE DeleteEntry
  <2>1. tree'[s] = Removed(Here, Target)
    BY <1>2, <1>3, <1>10 DEF DeleteEntry
  <2> QED BY <1>0, <1>1, <2>1 DEF Removed, Absent
<1> QED
  BY <1>4, <1>5, <1>6, <1>7, <1>8, <1>9, <1>10 DEF FileOperation

(* What is still to be done after a file operation is on paths that were to   *)
(* be done, or that are at the source below the path of the operation.        *)
LEMMA WorkPaths ==
  ASSUME TypeInv, FileOperation, NEW i \in DOMAIN work'
  PROVE  \/ \E j \in DOMAIN work : work'[i].path = work[j].path
         \/ work'[i].path \in Paths /\ There[work'[i].path].kind # "none"
<1> DEFINE n == Head(work)
<1>0. /\ work # <<>> /\ work \in Seq(Action) /\ Target = work[1].path /\ 1 \in DOMAIN work
      /\ Tail(work) \in Seq(Action) /\ Target \in Paths
      /\ \A j \in DOMAIN Tail(work) : \E k \in DOMAIN work : Tail(work)[j] = work[k]
  BY OperationTypes, OperandTypes DEF TypeInv, Target
<1>1. ASSUME work' = work PROVE \E j \in DOMAIN work : work'[i].path = work[j].path
  BY <1>0, <1>1
<1>2. ASSUME OperationFails PROVE \E j \in DOMAIN work : work'[i].path = work[j].path
  BY <1>1, <1>2 DEF OperationFails, Fail, run
<1>3. ASSUME work' = Tail(work) PROVE \E j \in DOMAIN work : work'[i].path = work[j].path
  BY <1>0, <1>3
<1>4. ASSUME NEW op \in {"mkdir", "create", "fill", "unread"}, NEW c \in Contents \cup {Torn, NoContent},
             work' = Then(op, c)
      PROVE  \E j \in DOMAIN work : work'[i].path = work[j].path
  <2> DEFINE y == [op |-> op, to |-> Head(work).to, path |-> Target, content |-> c]
  <2>1. y \in Action /\ y.path = Target
    BY <1>0, OperandTypes DEF Action
  <2>2. work' = <<y>> \o Tail(work)
    BY <1>4 DEF Then
  <2> HIDE DEF y
  <2>3. (i = 1 /\ work'[i] = y) \/ (i - 1 \in DOMAIN Tail(work) /\ work'[i] = Tail(work)[i - 1])
    BY <1>0, <2>1, <2>2
  <2> QED BY <1>0, <2>1, <2>3
<1>5. ASSUME NEW S \in SUBSET Paths, \A q \in S : There[q].kind # "none",
             work' = [k \in DOMAIN InOrder(S) |-> Do("copy", Head(work).to, InOrder(S)[k])] \o Tail(work)
      PROVE  \/ \E j \in DOMAIN work : work'[i].path = work[j].path
             \/ work'[i].path \in Paths /\ There[work'[i].path].kind # "none"
  <2> DEFINE q == [k \in DOMAIN InOrder(S) |-> Do("copy", Head(work).to, InOrder(S)[k])]
             m == Cardinality(S)
  <2>1. m \in Nat /\ DOMAIN InOrder(S) = 1..m /\ \A k \in 1..m : InOrder(S)[k] \in S
    BY ListedInOrder
  <2>2. q \in [1..m -> Action] /\ \A k \in 1..m : q[k].path \in S
    BY <1>0, <2>1, OperandTypes DEF Do, Action
  <2> HIDE DEF q, m
  <2>3. q \in Seq(Action) /\ work' = q \o Tail(work) /\ Len(q) = m
    BY <1>5, <2>1, <2>2 DEF q
  <2>4. (i \in 1..m /\ work'[i] = q[i]) \/ (i - m \in DOMAIN Tail(work) /\ work'[i] = Tail(work)[i - m])
    BY <1>0, <2>1, <2>3
  <2> QED BY <1>0, <1>5, <2>2, <2>4
<1>6. There[Target].content \in Contents \cup {Torn, NoContent}
      /\ NoContent \in Contents \cup {Torn, NoContent}
  BY <1>0, OperandTypes, EntryKinds DEF IsTree
<1>7. CASE RemoveChild
  BY <1>1, <1>7 DEF RemoveChild, Effect
<1>8. CASE CopyEntry
  BY <1>2, <1>4, <1>6, <1>8 DEF CopyEntry, Effect
<1>9. CASE MakeFolder
  <2>1. ChildrenIn(There, Target) \in SUBSET Paths /\ \A q \in ChildrenIn(There, Target) : There[q].kind # "none"
    BY DEF ChildrenIn, Children
  <2>2. \/ OperationFails
        \/ work' = Then("unread", NoContent)
        \/ work' = [k \in DOMAIN InOrder(ChildrenIn(There, Target)) |->
                      Do("copy", Head(work).to, InOrder(ChildrenIn(There, Target))[k])] \o Tail(work)
    BY <1>9 DEF MakeFolder, Effect
  <2>3. CASE work' = Then("unread", NoContent)
    BY <1>4, <1>6, <2>3
  <2> QED BY <1>2, <1>5, <2>1, <2>2, <2>3
<1>10. CASE ReadFails
  BY <1>2, <1>10 DEF ReadFails
<1>11. CASE CreateFile
  <2>1. OperationFails \/ work' = Then("unread", NoContent) \/ work' = Then("fill", There[Target].content)
    BY <1>11 DEF CreateFile, Effect
  <2>2. CASE work' = Then("fill", There[Target].content)
    BY <1>4, <1>6, <2>2
  <2> QED BY <1>2, <1>4, <1>6, <2>1, <2>2
<1>12. CASE FillFile
  BY <1>3, <1>12 DEF FillFile
<1>13. CASE DeleteEntry
  BY <1>2, <1>3, <1>13 DEF DeleteEntry, Effect
<1> QED
  BY <1>7, <1>8, <1>9, <1>10, <1>11, <1>12, <1>13 DEF FileOperation

LEMMA DecidingForm ==
  ASSUME PlanInv, NEW p \in Contested
  PROVE  /\ p \in Paths /\ Seen(p)
         /\ Deciding(p).op \in {"copy", "delete"} /\ Deciding(p).to \in Sides
         /\ Source(p) \in Sides /\ Source(p) # Deciding(p).to /\ Other(Source(p)) = Deciding(p).to
         /\ Deciding(p).op = "copy" => start.tree[Source(p)][p].kind # "none"
         /\ Deciding(p).op = "delete" => start.tree[Source(p)][p].kind = "none"
<1>1. /\ start.choice \in [Paths -> Sides] /\ start.tree \in [Sides -> [Paths -> Entry]]
      /\ p \in Differs(start.tree[1], start.tree[2]) /\ p \in Paths
  BY DEF PlanInv, StartType, Contested, Differs
<1> DEFINE m == mode  c == start.choice  t == start.tree  r == start.record
<1>2. Deciding(p) = Decided(m, c, t[1], t[2], r, p)
  BY DEF Deciding
<1>3. c \in [Paths -> Sides] /\ t \in [Sides -> [Paths -> Entry]] /\ p \in Differs(t[1], t[2])
  BY <1>1
<1> HIDE DEF m, c, t, r
<1>4. LET d == Decided(m, c, t[1], t[2], r, p) IN
         /\ d.op = "copy" => t[Other(d.to)][p].kind # "none"
         /\ d.op = "delete" => t[Other(d.to)][p].kind = "none" /\ t[d.to][p].kind # "none"
  BY <1>3, DecidedSource
<1>5. LET d == Decided(m, c, t[1], t[2], r, p) IN d.op \in {"copy", "delete"} /\ d.to \in Sides
  BY <1>1, <1>3, DecidedForm
<1>6. /\ Deciding(p).op \in {"copy", "delete"} /\ Deciding(p).to \in Sides
      /\ Deciding(p).op = "copy" => start.tree[Source(p)][p].kind # "none"
      /\ Deciding(p).op = "delete" => /\ start.tree[Source(p)][p].kind = "none"
                                      /\ start.tree[Deciding(p).to][p].kind # "none"
  BY <1>2, <1>4, <1>5 DEF Source, t
<1>7. /\ Source(p) \in Sides /\ Source(p) # Deciding(p).to /\ Other(Source(p)) = Deciding(p).to
  BY <1>6 DEF Source, Sides, Other
<1> QED BY <1>1, <1>6, <1>7 DEF Seen

(* The directory above what was found was found. *)
LEMMA SeenAbove ==
  ASSUME PlanInv, NEW p \in Paths, Seen(p), NEW a \in Ancestors(p)
  PROVE  a \in Paths /\ Seen(a)
<1>1. PICK s \in Sides : start.tree[s][p].kind # "none"
  BY DEF Seen
<1>2. start.tree[s][a].kind = "dir" /\ a \in Paths
  BY <1>1 DEF PlanInv, IsTree, WellFormed, Ancestors
<1> QED BY <1>1, <1>2 DEF Seen

(* A directory is copied in the way of nothing that is copied into it.        *)
LEMMA CopiedInto ==
  ASSUME PlanInv, NEW p \in Contested, NEW o \in Contested, o \in Ancestors(p), Deciding(p).op = "copy"
  PROVE  /\ Deciding(o).to = Source(p) => start.tree[Source(o)][o].kind # "dir"
         /\ Deciding(o).to = Deciding(p).to => start.tree[Source(o)][o].kind = "dir"
<1>1. /\ start.tree[Source(p)][p].kind # "none" /\ Source(p) \in Sides /\ p \in Paths /\ o \in Paths
      /\ Source(o) \in Sides /\ Source(o) # Deciding(o).to /\ Deciding(p).to # Source(p)
      /\ Deciding(o).to \in Sides /\ Deciding(p).to \in Sides
      /\ \A s, r \in Sides : s # r => {s, r} = {1, 2}
  BY DecidingForm DEF Sides
<1>2. \A s \in Sides : IsTree(start.tree[s]) /\ start.tree[s][o] \in Entry
  BY <1>1 DEF PlanInv, IsTree
<1>3. start.tree[Source(p)][o].kind = "dir"
  BY <1>1, <1>2 DEF IsTree, WellFormed
<1>4. ASSUME Deciding(o).to = Source(p), start.tree[Source(o)][o].kind = "dir" PROVE FALSE
  <2>0. {Source(p), Source(o)} = {1, 2}
    BY <1>1, <1>4
  <2>1. start.tree[Source(p)][o] = Folder /\ start.tree[Source(o)][o] = Folder
    BY <1>1, <1>2, <1>3, <1>4, EntryKinds
  <2>2. start.tree[1][o] = Folder /\ start.tree[2][o] = Folder
    BY <2>0, <2>1
  <2> QED BY <2>2 DEF Contested, Differs, Alike
<1>5. ASSUME Deciding(o).to = Deciding(p).to PROVE start.tree[Source(o)][o].kind = "dir"
  BY <1>1, <1>3, <1>5
<1> QED BY <1>4, <1>5

(* Paths above the same path lie one in the other, in the order of the listing. *)
LEMMA InChain ==
  ASSUME NEW p \in Paths, NEW x \in {p} \cup Ancestors(p), NEW o \in {p} \cup Ancestors(p),
         Place(x) < Place(o)
  PROVE  x \in Ancestors(o) /\ x \in Paths /\ o \in Paths
<1>1. x \in Paths /\ o \in Paths
  BY DEF Ancestors
<1>2. Place(x) \in Nat /\ Place(o) \in Nat /\ x # o
  BY <1>1, PlaceIsOne
<1>3. x \in Inside[o] \/ o \in Inside[x]
  BY <1>1, <1>2, PathAssumption DEF Ancestors
<1>4. x \notin Inside[o]
  <2> SUFFICES ASSUME o \in Ancestors(x) PROVE FALSE
    BY <1>1 DEF Ancestors
  <2>1. Place(o) < Place(x)
    BY <1>1, AboveFirst
  <2> QED BY <1>2, <2>1
<1> QED BY <1>1, <1>3, <1>4 DEF Ancestors

(* The source of an action that begins is as it was: what would have taken it *)
(* is listed before.                                                          *)
LEMMA SourceSpared ==
  ASSUME PlanInv, NEW p \in Contested, Deciding(p).op = "copy", tree[Source(p)][p].kind # "none",
         \A o \in Ancestors(p) : o \in Contested => Cleared(o)
  PROVE  Spared(Source(p), p)
<1>1. Source(p) # Deciding(p).to /\ p \in Paths
  BY DecidingForm
<1>2. ASSUME NEW o \in Ancestors(p), o \in Contested, Deciding(o).to = Source(p) PROVE FALSE
  <2>1. start.tree[Source(o)][o].kind # "dir"
    BY <1>2, CopiedInto
  <2>2. p \in Inside[o]
    BY <1>2 DEF Ancestors
  <2> QED BY <1>2, <2>1, <2>2 DEF Cleared
<1> QED BY <1>1, <1>2 DEF Spared

(* Without users, what is planned is decided for the trees the run found.     *)
LEMMA PlannedIsDecided ==
  ASSUME SurviveInv, At("execute"), "edit" \notin disturbed
  PROVE  /\ ToBePlanned = Contested /\ \A p : Planned(p) = Deciding(p)
         /\ current # <<>> => /\ Under.path \in Contested /\ Under = Deciding(Under.path)
                              /\ Under.op \in {"copy", "delete"} /\ current = <<Under>>
                              /\ Under \in Action
<1>1. PlanInv /\ start.record = record /\ inv[1] = start.tree[1] /\ inv[2] = start.tree[2]
  BY DEF SurviveInv, PlanInv, At, Sides
<1>2. ToBePlanned = Contested /\ \A p : Planned(p) = Deciding(p)
  BY <1>1 DEF ToBePlanned, Contested, Planned, Deciding
<1> QED BY <1>1, <1>2, UnderForm

(* The first step of an action, as long as its work is the action itself.     *)
LEMMA FirstStep ==
  ASSUME PlanInv, FileOperation, work = current, work' # work
  PROVE  /\ Target = Under.path /\ Head(work) = Under /\ Tail(work) = <<>>
         /\ Under.op = "delete" => DeleteEntry /\ ~OperationFails
         /\ Under.op = "copy" => CopyEntry /\ ~OperationFails /\ There[Target].kind # "none"
<1>1. current = <<Under>> /\ Under.op \in {"copy", "delete"}
  BY OperandUnder, UnderForm
<1>2. Target = Under.path /\ Head(work) = Under /\ Tail(work) = <<>>
  BY <1>1 DEF Target
<1>3. ~RemoveChild /\ ~OperationFails
  BY DEF RemoveChild, Effect, OperationFails, Fail, run
<1>4. CopyEntry => There[Target].kind # "none"
  BY <1>3 DEF CopyEntry
<1>5. (CopyEntry /\ Under.op = "copy") \/ (DeleteEntry /\ Under.op = "delete")
  <2>1. /\ MakeFolder => Head(work).op = "mkdir"
        /\ ReadFails => Head(work).op = "unread"
        /\ CreateFile => Head(work).op = "create"
        /\ FillFile => Head(work).op = "fill"
        /\ CopyEntry => Head(work).op = "copy"
        /\ DeleteEntry => Head(work).op = "delete"
    BY DEF MakeFolder, ReadFails, CreateFile, FillFile, CopyEntry, DeleteEntry, Doing
  <2>2. Head(work).op \in {"copy", "delete"} /\ Head(work).op = Under.op
    BY <1>1, <1>2
  <2>3. CopyEntry \/ DeleteEntry
    BY <1>3, <2>1, <2>2 DEF FileOperation
  <2> QED BY <2>1, <2>2, <2>3
<1> QED BY <1>1, <1>2, <1>3, <1>4, <1>5

(* Nothing is made on the way to a path whose directory the source has not.   *)
LEMMA ClearedStays ==
  ASSUME MergeInv, FileOperation, "edit" \notin disturbed, NEW x \in Contested, Past(x)
  PROVE  Cleared(x)'
<1>0. /\ SurviveInv /\ PlanInv /\ TypeInv /\ At("execute") /\ ~At("idle")
      /\ current # <<>> /\ work # <<>> /\ UNCHANGED <<mode, start>>
  BY OperationTypes, OperandUnder DEF MergeInv, SurviveInv, PlanInv, At, history
<1> DEFINE o == Under.path  t == Deciding(x).to
<1>1. /\ Head(work).to = Under.to /\ Target \in Paths /\ Target \in {o} \cup Inside[o]
      /\ Under.op = "delete" => Head(work).op = "delete"
  BY <1>0, OperandUnder
<1>2. /\ o \in Contested /\ Under = Deciding(o) /\ Under.op \in {"copy", "delete"}
      /\ o \in Paths /\ x \in Paths /\ t \in Sides /\ Inside[x] \subseteq Paths
  BY <1>0, PlannedIsDecided, DecidingForm, PathAssumption
<1>3. Cleared(x) /\ (current # <<>> => FileForm)
  BY <1>0, <1>2 DEF MergeInv
<1>4. /\ Source(x)' = Source(x) /\ Deciding(x)' = Deciding(x)
  BY <1>0 DEF Source, Deciding
<1>5. x # o => Place(x) < Place(o)
  BY DEF Past
<1>6. o \in {Target} \cup Ancestors(Target)
  BY <1>1, <1>2 DEF Ancestors
<1>7. ASSUME NEW q \in Paths, tree[t][q].kind = "none", tree'[t][q].kind # "none"
      PROVE  t = Under.to /\ q \in {Target} \cup Ancestors(Target) /\ Under.op = "copy"
  BY <1>0, <1>1, <1>2, <1>7, AppearForm
<1>8. ASSUME NEW q \in Inside[x], start.tree[Source(x)][x].kind # "dir", tree[t][q].kind = "none"
      PROVE  tree'[t][q].kind = "none"
  <2> SUFFICES ASSUME tree'[t][q].kind # "none" PROVE FALSE
    OBVIOUS
  <2>1. t = Under.to /\ q \in {Target} \cup Ancestors(Target) /\ Under.op = "copy" /\ q \in Paths
    BY <1>2, <1>7, <1>8
  <2>2. x \in Ancestors(Target)
    <3>1. x \in Ancestors(q)
      BY <1>2, <1>8 DEF Ancestors
    <3> QED BY <1>1, <2>1, <3>1, AboveAbove
  <2>3. CASE x = o
    <3>1. start.tree[Source(x)][x].kind = "file"
      <4>1. start.tree[Source(x)][x] \in Entry /\ start.tree[Source(x)][x].kind # "none"
        BY <1>0, <1>2, <2>1, <2>3, DecidingForm DEF PlanInv, IsTree
      <4> QED BY <1>8, <4>1, EntryKinds
    <3>2. Target = o
      BY <1>0, <1>3, <2>1, <2>3, <3>1 DEF FileForm, Target
    <3> QED BY <1>1, <2>2, <2>3, <3>2, AboveAbove
  <2>4. CASE x # o
    <3>1. x \in Ancestors(o)
      BY <1>1, <1>5, <1>6, <2>2, <2>4, InChain
    <3>2. Deciding(x).to = Deciding(o).to /\ Deciding(o).op = "copy"
      BY <1>2, <2>1
    <3> QED BY <1>0, <1>2, <1>8, <3>1, <3>2, CopiedInto
  <2> QED BY <2>3, <2>4
<1>9. ASSUME Deciding(x).op = "delete", tree[t][x].kind = "none"
      PROVE  tree'[t][x].kind = "none"
  <2> SUFFICES ASSUME tree'[t][x].kind # "none" PROVE FALSE
    OBVIOUS
  <2>1. t = Under.to /\ x \in {Target} \cup Ancestors(Target) /\ Under.op = "copy"
    BY <1>2, <1>7, <1>9
  <2>2. x # o
    BY <1>2, <1>9, <2>1
  <2>3. x \in Ancestors(o)
    BY <1>1, <1>5, <1>6, <2>1, <2>2, InChain
  <2>4. start.tree[Source(x)][x].kind = "none" /\ start.tree[Source(x)][x].kind = "dir"
    BY <1>0, <1>2, <1>9, <2>1, <2>3, DecidingForm, CopiedInto
  <2> QED BY <2>4
<1> QED BY <1>0, <1>3, <1>4, <1>8, <1>9 DEF Cleared

(* An action that begins finds its source as it was, and clears its way.      *)
LEMMA ClearedFirst ==
  ASSUME MergeInv, FileOperation, "edit" \notin disturbed, work = current, work' # work,
         NEW o, o = Under.path
  PROVE  Opened(o) /\ Cleared(o)'
<1>0. /\ SurviveInv /\ PlanInv /\ TypeInv /\ At("execute") /\ ~At("idle")
      /\ current # <<>> /\ work # <<>> /\ UNCHANGED <<mode, start>>
  BY OperationTypes, OperandUnder DEF MergeInv, SurviveInv, PlanInv, At, history
<1>1. /\ Head(work).to = Under.to /\ Target = o /\ o \in Paths /\ Inside[o] \subseteq Paths
      /\ o \in Contested /\ Under = Deciding(o) /\ Under.op \in {"copy", "delete"}
      /\ Under.to \in Sides /\ Source(o) = Other(Under.to) /\ There = tree[Source(o)]
      /\ Here = tree[Under.to]
  <2>1. o \in Contested /\ Under = Deciding(o) /\ Under.op \in {"copy", "delete"} /\ Head(work).to = Under.to
    BY <1>0, PlannedIsDecided, OperandUnder
  <2>2. Target = o
    BY <1>0, FirstStep
  <2> QED BY <1>0, <2>1, <2>2, DecidingForm, PathAssumption DEF Source, There, Here
<1>2. \A a \in Ancestors(o) : a \in Contested => Cleared(a)
  <2>1. \A a \in Ancestors(o) : a \in Paths /\ Place(a) < Place(o)
    BY <1>1, AboveFirst DEF Ancestors
  <2> QED BY <1>0, <2>1 DEF MergeInv, Past
<1>3. Opened(o)
  BY <1>0, <1>1, <1>2, FirstStep, SourceSpared DEF Opened
<1>4. Source(o)' = Source(o) /\ Deciding(o)' = Deciding(o) /\ Deciding(o).to = Under.to
  BY <1>0, <1>1 DEF Source, Deciding
<1>5. tree \in [Sides -> [Paths -> Entry]]
  BY <1>0 DEF TypeInv, TypeOK
<1>6. CASE Under.op = "delete"
  <2>1. tree'[Under.to] = Removed(Here, o)
    BY <1>0, <1>1, <1>5, <1>6, FirstStep DEF DeleteEntry, Effect
  <2>2. \A q \in Paths : (q = o \/ q \in Inside[o]) => tree'[Under.to][q].kind = "none"
    <3>1. \A q \in Paths : (q = o \/ q \in Inside[o]) => Removed(Here, o)[q] = Absent
      BY DEF Removed
    <3> QED BY <2>1, <3>1 DEF Absent
  <2> QED BY <1>0, <1>1, <1>3, <1>4, <2>2 DEF Cleared
<1>7. CASE Under.op = "copy"
  <2>1. tree'[Under.to] = Removed(Here, o) \/ tree'[Under.to] = Removed(WithFolders(Here, Ancestors(o)), o)
    BY <1>0, <1>1, <1>5, <1>7, FirstStep DEF CopyEntry, Effect
  <2>2. \A q \in Inside[o] : tree'[Under.to][q].kind = "none"
    BY <1>1, <2>1 DEF Removed, Absent
  <2> QED BY <1>0, <1>1, <1>3, <1>4, <1>7, <2>2 DEF Cleared
<1> QED BY <1>1, <1>6, <1>7

(* A file is copied as a file. *)
LEMMA FileStays ==
  ASSUME MergeInv, FileOperation, "edit" \notin disturbed
  PROVE  FileForm'
<1>0. /\ SurviveInv /\ PlanInv /\ TypeInv /\ At("execute") /\ ~At("idle") /\ FileForm
      /\ current # <<>> /\ work # <<>> /\ UNCHANGED <<mode, start, current>>
  BY OperationTypes, OperandUnder DEF MergeInv, SurviveInv, PlanInv, At, history
<1> DEFINE o == Under.path
<1>1. Under' = Under /\ Source(Under.path)' = Source(Under.path)
  BY <1>0 DEF Source, Deciding, Under
<1>2. SUFFICES ASSUME Under.op = "copy", start.tree[Source(o)][o].kind = "file",
                      work' # <<>>, work' # work
               PROVE  \E x \in Action : work' = <<x>> /\ x.path = o /\ x.op \in {"copy", "create", "fill"}
  <2> QED BY <1>0, <1>1 DEF FileForm
<1>3. PICK x \in Action : work = <<x>> /\ x.path = o /\ x.op \in {"copy", "create", "fill"}
  BY <1>0, <1>2 DEF FileForm
<1>4. /\ Head(work) = x /\ Tail(work) = <<>> /\ Target = o
      /\ o \in Contested /\ Under = Deciding(o) /\ o \in Paths
      /\ Head(work).to = Under.to /\ There = tree[Source(o)] /\ Source(o) \in Sides
  <2>1. Head(work) = x /\ Tail(work) = <<>> /\ Target = o
    BY <1>3 DEF Target
  <2>2. o \in Contested /\ Under = Deciding(o) /\ Head(work).to = Under.to
    BY <1>0, PlannedIsDecided, OperandUnder
  <2> QED BY <1>0, <2>1, <2>2, DecidingForm DEF Source, There
<1>5. There[o].kind = "file" /\ There[o].content \in Contents \cup {Torn, NoContent}
  <2>1. Opened(o)
    <3>1. CASE work = current
      BY <1>2, <3>1, ClearedFirst
    <3>2. CASE work # current
      BY <1>0, <1>4, <3>2 DEF MergeInv, Past
    <3> QED BY <3>1, <3>2
  <2>2. There[o] = start.tree[Source(o)][o]
    BY <1>0, <1>2, <1>4, <2>1 DEF Opened, SurviveInv
  <2>3. There[o] \in Entry
    BY <1>0, <1>4 DEF TypeInv, TypeOK
  <2> QED BY <1>2, <2>2, <2>3, EntryKinds
<1>6. ASSUME NEW op \in {"create", "fill"}, NEW c \in Contents \cup {Torn, NoContent}, work' = Then(op, c)
      PROVE  \E y \in Action : work' = <<y>> /\ y.path = o /\ y.op \in {"copy", "create", "fill"}
  <2> DEFINE y == [op |-> op, to |-> Head(work).to, path |-> Target, content |-> c]
  <2>1. y \in Action /\ y.path = o /\ y.op \in {"copy", "create", "fill"}
    BY <1>0, <1>4, OperandTypes DEF Action
  <2>2. work' = <<y>> \o <<>>
    BY <1>4, <1>6 DEF Then
  <2> HIDE DEF y
  <2>3. <<y>> \o <<>> = <<y>>
    <3>1. <<y>> \in Seq(Action)
      BY <2>1
    <3> QED BY <3>1, ConcatEmptySeq
  <2> QED BY <2>1, <2>2, <2>3
<1>7. ~OperationFails /\ NoContent \in Contents \cup {Torn, NoContent}
  BY <1>2 DEF OperationFails, Fail, run
<1>8. CASE RemoveChild
  BY <1>2, <1>8 DEF RemoveChild, Effect
<1>9. CASE CopyEntry
  <2>1. work' = Then("create", NoContent)
    BY <1>4, <1>5, <1>7, <1>9 DEF CopyEntry, Effect
  <2> QED BY <1>6, <1>7, <2>1
<1>10. CASE CreateFile
  <2>1. work' = Then("fill", There[o].content)
    BY <1>4, <1>5, <1>7, <1>10 DEF CreateFile, Effect
  <2> QED BY <1>5, <1>6, <2>1
<1>11. CASE FillFile
  BY <1>2, <1>4, <1>11 DEF FillFile
<1> QED
  BY <1>3, <1>4, <1>8, <1>9, <1>10, <1>11 DEF FileOperation, MakeFolder, ReadFails, DeleteEntry, Doing

LEMMA MergeOperation ==
  ASSUME MergeInv, FileOperation, "edit" \notin disturbed
  PROVE  MergeInv'
<1>0. /\ SurviveInv /\ PlanInv /\ TypeInv /\ At("execute") /\ ~At("idle")
      /\ current # <<>> /\ work # <<>> /\ UNCHANGED <<mode, start, current, disturbed>>
      /\ pc' \in {"execute", "failed"} /\ work \in Seq(Action)
  BY OperationTypes, OperandUnder
  DEF MergeInv, SurviveInv, PlanInv, TypeInv, At, history, OperationFails, Fail, Goto
<1>1. SurviveInv'
  BY <1>0, SurviveStep DEF Next, RunStep
<1>2. /\ \A s \in Sides, p \in Paths : tree[s][p].kind # "none" => Seen(p)
      /\ \A i \in DOMAIN work : Seen(work[i].path)
      /\ \A p \in Paths : Past(p) => Opened(p) /\ Cleared(p)
      /\ FileForm
  BY <1>0 DEF MergeInv
<1>3. Target \in Paths /\ Seen(Target) /\ Other(Head(work).to) \in Sides
  BY <1>0, <1>2, OperandTypes DEF Target
<1>4. \A p : Seen(p)' <=> Seen(p)
  BY <1>0 DEF Seen
<1>5. ASSUME NEW s \in Sides, NEW p \in Paths, tree'[s][p].kind # "none" PROVE Seen(p)
  <2>1. CASE tree[s][p].kind # "none"
    BY <1>2, <2>1
  <2>2. CASE tree[s][p].kind = "none"
    BY <1>0, <1>3, <1>5, <2>2, AppearForm, SeenAbove
  <2> QED BY <2>1, <2>2
<1>6. ASSUME NEW i \in DOMAIN work' PROVE Seen(work'[i].path)
  BY <1>0, <1>2, <1>3, WorkPaths DEF There
<1>7. FileForm'
  BY <1>0, FileStays
<1>8. ASSUME NEW p \in Paths, Past(p)' PROVE Opened(p)' /\ Cleared(p)'
  <2>1. p \in Contested /\ (Place(p) < Place(Under.path) \/ (p = Under.path /\ work' # current))
    BY <1>0, <1>8 DEF Past, Contested, Differs, Alike, Under
  <2>2. Opened(p)' <=> Opened(p)
    BY <1>0 DEF Opened, Spared, Source, Deciding, Contested, Differs
  <2>3. CASE Past(p)
    BY <1>0, <1>2, <2>1, <2>2, <2>3, ClearedStays
  <2>4. CASE ~Past(p)
    <3>1. p = Under.path /\ work = current /\ work' # work
      BY <1>0, <2>1, <2>4 DEF Past
    <3> QED BY <1>0, <2>2, <3>1, ClearedFirst
  <2> QED BY <2>3, <2>4
<1>9. \A i \in DOMAIN work' : Seen(work[i].path)'
  BY <1>0, <1>6 DEF Seen
<1> QED
  BY <1>0, <1>1, <1>4, <1>5, <1>7, <1>8, <1>9 DEF MergeInv, At

LEMMA MergeCommit ==
  ASSUME MergeInv, Commit, "edit" \notin disturbed, Equivalent(inv[1], inv[2])
  PROVE  /\ \A p \in Paths, s \in Sides : Alike(tree[s][p], Merged(p))
         /\ record'.paths = {p \in Paths : Merged(p).kind # "none"}
<1>0. /\ PlanInv /\ SurviveInv /\ At("commit") /\ inv[1] = tree[1] /\ inv[2] = tree[2]
      /\ tree \in [Sides -> [Paths -> Entry]] /\ \A p \in Contested : Opened(p) /\ Cleared(p)
      /\ \A s \in Sides, p \in Paths : tree[s][p].kind # "none" => Seen(p)
      /\ 1 \in Sides /\ 2 \in Sides /\ \A s \in Sides : s = 1 \/ s = 2
      /\ record'.paths = Present(inv[1])
      /\ \A s \in Sides : IsTree(start.tree[s])
      /\ \A r \in Sides, p \in Paths :
           start.tree[r][p].kind # "none" /\ Spared(r, p) => tree[r][p] = start.tree[r][p]
  BY DEF MergeInv, SurviveInv, PlanInv, TypeInv, TypeOK, Commit, At, Sides
<1>1. \A p \in Paths, s, r \in Sides : Alike(tree[s][p], tree[r][p])
  BY <1>0 DEF Equivalent, Alike
<1>2. ASSUME NEW p \in Paths, NEW r \in Sides, Alike(tree[r][p], Merged(p))
      PROVE  \A s \in Sides : Alike(tree[s][p], Merged(p))
  BY <1>1, <1>2 DEF Alike
<1>3. ASSUME NEW p \in Paths PROVE \E r \in Sides : Alike(tree[r][p], Merged(p))
  <2>1. CASE p \notin Contested /\ Seen(p)
    <3>1. \A s \in Sides : Alike(start.tree[s][p], Merged(p))
      BY <1>0, <2>1, MergedIsDecided
    <3>2. start.tree[1][p].kind # "none" /\ start.tree[2][p].kind # "none"
      BY <1>0, <2>1, <3>1 DEF Seen, Alike
    <3>3. \A a \in Ancestors(p) : a \notin Contested
      BY <1>0, <3>2, DirectoriesAgree DEF Contested
    <3>4. Spared(1, p)
      BY <2>1, <3>3 DEF Spared
    <3> QED BY <1>0, <3>1, <3>2, <3>4
  <2>2. CASE p \notin Contested /\ ~Seen(p)
    <3>1. Alike(start.tree[1][p], Merged(p)) /\ start.tree[1][p].kind = "none" /\ tree[1][p].kind = "none"
      BY <1>0, <2>2, MergedIsDecided DEF Seen
    <3>2. start.tree[1][p] = Absent /\ tree[1][p] = Absent
      BY <1>0, <3>1, EntryKinds DEF IsTree
    <3> QED BY <1>0, <3>1, <3>2
  <2>3. CASE p \in Contested /\ Deciding(p).op = "copy"
    <3>1. /\ Source(p) \in Sides /\ start.tree[Source(p)][p].kind # "none"
          /\ Spared(Source(p), p) /\ Merged(p) = start.tree[Source(p)][p]
      BY <1>0, <2>3, DecidingForm, MergedIsDecided DEF Opened, Source
    <3>2. tree[Source(p)][p] = Merged(p)
      BY <1>0, <3>1
    <3> QED BY <3>1, <3>2 DEF Alike
  <2>4. CASE p \in Contested /\ Deciding(p).op = "delete"
    <3>1. /\ Deciding(p).to \in Sides /\ tree[Deciding(p).to][p].kind = "none"
          /\ Merged(p).kind = "none"
      BY <1>0, <2>4, DecidingForm, MergedIsDecided DEF Cleared
    <3>2. tree[Deciding(p).to][p] = Absent
      BY <1>0, <3>1, EntryKinds
    <3>3. Merged(p) \in Entry
      <4>1. \A s \in Sides : start.tree[s][p] \in Entry
        BY <1>0 DEF IsTree
      <4>2. start.choice[p] \in Sides
        BY <1>0 DEF PlanInv, StartType
      <4> QED BY <1>0, <4>1, <4>2, EntryKinds DEF Merged
    <3>4. Merged(p) = Absent
      BY <3>1, <3>3, EntryKinds
    <3> QED BY <3>1, <3>2, <3>4 DEF Alike
  <2>5. p \in Contested => Deciding(p).op \in {"copy", "delete"}
    BY <1>0, DecidingForm
  <2> QED BY <2>1, <2>2, <2>3, <2>4, <2>5
<1>4. \A p \in Paths, s \in Sides : Alike(tree[s][p], Merged(p))
  BY <1>2, <1>3
<1>5. Present(inv[1]) = {p \in Paths : Merged(p).kind # "none"}
  BY <1>0, <1>4 DEF Present, Alike
<1> QED BY <1>0, <1>4, <1>5

(* When the plan is done, every action has begun and is over. *)
LEMMA AllPast ==
  ASSUME MergeInv, VerifyFirst, "edit" \notin disturbed, NEW p \in Contested
  PROVE  Past(p)
<1>0. /\ SurviveInv /\ PlanInv /\ PlanForm /\ At("execute") /\ work = <<>> /\ plan = <<>>
  BY DEF MergeInv, SurviveInv, PlanInv, VerifyFirst, At
<1>1. ToBePlanned = Contested
  BY <1>0, PlannedIsDecided
<1>2. p \in Paths /\ p \in ToBePlanned
  BY <1>1 DEF Contested, Differs
<1>3. current # <<>>
  BY <1>0, <1>2 DEF PlanForm
<1>4. current = <<Under>> /\ Under.path \in Paths /\ ~(Place(Under.path) < Place(p))
  BY <1>0, <1>2, <1>3, UnderForm DEF PlanForm
<1>5. Place(p) < Place(Under.path) \/ p = Under.path
  BY <1>2, <1>4, PlaceIsOne
<1> QED BY <1>0, <1>2, <1>3, <1>4, <1>5 DEF Past

LEMMA MergeVerify ==
  ASSUME MergeInv, VerifyFirst, "edit" \notin disturbed
  PROVE  \A p \in Contested : Opened(p) /\ Cleared(p)
<1>1. At("execute")
  BY DEF VerifyFirst
<1> SUFFICES ASSUME NEW p \in Contested PROVE Past(p) /\ p \in Paths
  BY <1>1 DEF MergeInv, At
<1> QED BY AllPast DEF Contested, Differs

(* The next action finds every path that is listed before it done. *)
LEMMA PastBefore ==
  ASSUME MergeInv, NextAction, "edit" \notin disturbed, NEW p \in Contested,
         Place(p) < Place(plan[1].path)
  PROVE  Past(p)
<1>0. /\ SurviveInv /\ PlanInv /\ PlanForm /\ At("execute") /\ work = <<>> /\ plan # <<>>
      /\ plan \in Seq(Action)
  BY DEF MergeInv, SurviveInv, PlanInv, TypeInv, NextAction, At
<1>2. /\ 1 \in DOMAIN plan
      /\ \A i \in DOMAIN plan : i # 1 => 1 < i
  BY <1>0
<1>4. p \in ToBePlanned /\ plan[1].path \in Paths /\ p \in Paths
  BY <1>0, <1>2, PlannedIsDecided DEF PlanForm, ToBePlanned, Differs, Contested
<1>5. ~ \E i \in DOMAIN plan : plan[i].path = p
  <2> SUFFICES ASSUME NEW i \in DOMAIN plan, plan[i].path = p PROVE FALSE
    OBVIOUS
  <2>1. i # 1 => Place(plan[1].path) < Place(p)
    BY <1>0, <1>2 DEF PlanForm
  <2>2. Place(p) \in Nat /\ Place(plan[1].path) \in Nat
    BY <1>4, PlaceIsOne
  <2> QED BY <2>1, <2>2
<1>6. current # <<>> /\ ~(Place(Under.path) < Place(p))
  BY <1>0, <1>4, <1>5 DEF PlanForm
<1>7. current = <<Under>> /\ Under.path \in Paths
  BY <1>0, <1>6, UnderForm
<1>8. Place(p) < Place(Under.path) \/ p = Under.path
  BY <1>4, <1>6, <1>7, PlaceIsOne
<1> QED BY <1>0, <1>6, <1>7, <1>8 DEF Past

LEMMA MergeAdvance ==
  ASSUME MergeInv, NextAction, "edit" \notin disturbed, NEW p \in Paths, Past(p)'
  PROVE  Opened(p)' /\ Cleared(p)'
<1>0. /\ At("execute") /\ plan # <<>> /\ plan \in Seq(Action)
      /\ UNCHANGED <<tree, mode, start>> /\ current' = <<Head(plan)>> /\ work' = current'
      /\ \A q \in Paths : Past(q) => Opened(q) /\ Cleared(q)
  BY DEF MergeInv, SurviveInv, PlanInv, TypeInv, NextAction, At, env, history
<1>1. /\ Opened(p)' <=> Opened(p)
      /\ Cleared(p)' <=> Cleared(p)
  BY <1>0 DEF Opened, Cleared, Spared, Source, Deciding, Contested, Differs
<1>2. Head(plan) = plan[1]
  BY <1>0
<1>3. p \in Contested /\ Place(p) < Place(plan[1].path)
  BY <1>0, <1>2 DEF Past, Contested, Differs, Alike, Under
<1> QED BY <1>0, <1>1, <1>3, PastBefore

LEMMA MergeStep == MergeInv /\ [Next]_vars => MergeInv'
<1> SUFFICES ASSUME MergeInv, [Next]_vars, ~At("idle")', "edit" \notin disturbed' PROVE MergeInv'
  BY SurviveStep DEF MergeInv
<1>0. SurviveInv /\ PlanInv /\ TypeInv /\ SurviveInv'
  BY SurviveStep DEF MergeInv, SurviveInv, PlanInv
<1> DEFINE Found == /\ \A s \in Sides, p \in Paths : tree'[s][p].kind # "none" => Seen(p)'
                    /\ \A i \in DOMAIN work' : Seen(work[i].path)'
           Under1 == At("execute")' => /\ \A p \in Paths : Past(p)' => Opened(p)' /\ Cleared(p)'
                                       /\ current' # <<>> => FileForm'
           Over == /\ pc' \in {"verify", "commit"} =>
                        /\ \A p \in Contested' : Opened(p)' /\ Cleared(p)'
                        /\ inv'[1] = tree'[1]
                   /\ At("commit")' => inv'[2] = tree'[2]
                   /\ At("done")' => /\ \A p \in Paths, s \in Sides : Alike(tree'[s][p], Merged(p)')
                                     /\ record'.paths = {p \in Paths : Merged(p)'.kind # "none"}
<1>a. ASSUME Found, Under1, Over PROVE MergeInv'
  <2>1. (\A p \in Paths, s \in Sides : Alike(tree[s][p], Merged(p)))'
          <=> \A p \in Paths, s \in Sides : Alike(tree'[s][p], Merged(p)')
    BY DEF Alike
  <2> QED BY <1>0, <1>a, <2>1 DEF MergeInv
<1>b. ASSUME UNCHANGED <<tree, work>>, start'.tree = start.tree, ~At("idle"), "edit" \notin disturbed
      PROVE  Found
  BY <1>b DEF MergeInv, Seen
<1>1. CASE FileOperation
  <2>1. UNCHANGED disturbed
    BY <1>0, <1>1, OperationTypes DEF history
  <2> QED BY <1>1, <2>1, MergeOperation
<1>2. CASE BeginRun
  <2>1. start'.tree = tree /\ tree' = tree /\ pc' \in {"first", "failed"} /\ At("idle") /\ UNCHANGED run
    BY <1>2 DEF BeginRun, NoStart, Goto
  <2>2. work' = <<>>
    BY <1>0, <2>1 DEF run, PlanInv, At
  <2>3. Found
    BY <2>1, <2>2 DEF Seen
  <2> QED BY <1>a, <2>1, <2>3 DEF At
<1>3. CASE TakeInventory(1, "first", "second") \/ TakeInventory(2, "second", "plan")
  <2>1. /\ UNCHANGED <<tree, work, start, disturbed>> /\ ~At("idle") /\ pc' \in {"second", "plan"}
    BY <1>3 DEF TakeInventory, Goto, At, history
  <2> QED BY <1>a, <1>b, <2>1 DEF At
<1>4. CASE MakePlan
  <2>1. /\ UNCHANGED <<tree, work, current, disturbed>> /\ At("plan") /\ pc' \in {"execute", "failed"}
        /\ start'.tree = start.tree
    <3>1. start \in StartType
      BY <1>0 DEF PlanInv
    <3>2. (\E c : start' = [start EXCEPT !.choice = c]) \/ start' = [start EXCEPT !.answered = FALSE]
      BY <1>4 DEF MakePlan
    <3>3. UNCHANGED <<tree, work, current, disturbed>> /\ At("plan") /\ pc' \in {"execute", "failed"}
      BY <1>4 DEF MakePlan, Fail, Goto, run
    <3> QED BY <3>1, <3>2, <3>3 DEF StartType
  <2>2. current' = <<>>
    BY <1>0, <2>1 DEF PlanInv, At
  <2>3. Found
    BY <1>b, <2>1 DEF At
  <2>4. Under1
    BY <2>2 DEF Past
  <2> QED BY <1>a, <2>1, <2>3, <2>4 DEF At
<1>5. CASE NextAction
  <2>1. /\ UNCHANGED <<tree, start, mode, disturbed, pc>> /\ At("execute")
        /\ current' = <<Head(plan)>> /\ work' = current' /\ plan # <<>> /\ plan \in Seq(Action)
    BY <1>0, <1>5 DEF NextAction, env, history, TypeInv
  <2>2. "edit" \notin disturbed /\ ~At("idle")
    BY <2>1 DEF At
  <2>3. Head(plan) \in Action /\ Head(plan).path \in Contested /\ Head(plan).op \in {"copy", "delete"}
        /\ Head(plan) = Under' /\ work' = <<Head(plan)>>
    <3>1. Head(plan) = plan[1] /\ 1 \in DOMAIN plan /\ Head(plan) \in Action
      BY <2>1
    <3>2. plan[1].path \in ToBePlanned /\ plan[1] = Planned(plan[1].path)
      BY <1>0, <2>1, <3>1 DEF PlanInv, PlanForm
    <3>3. plan[1].path \in Contested /\ plan[1] = Deciding(plan[1].path)
      BY <1>0, <2>1, <2>2, <3>2, PlannedIsDecided
    <3>4. plan[1].op \in {"copy", "delete"}
      BY <1>0, <3>3, DecidingForm
    <3> QED BY <2>1, <3>1, <3>3, <3>4 DEF Under
  <2>4. Found
    <3>1. \A s \in Sides, p \in Paths : tree[s][p].kind # "none" => Seen(p)
      BY <2>1, <2>2 DEF MergeInv
    <3>2. Seen(Head(plan).path)
      BY <1>0, <2>3, DecidingForm
    <3>3. \A i \in DOMAIN work' : work'[i].path = Head(plan).path
      BY <2>3
    <3>4. tree' = tree /\ \A p : Seen(p)' = Seen(p)
      BY <2>1 DEF Seen
    <3> QED BY <3>1, <3>2, <3>3, <3>4
  <2>5. FileForm'
    BY <2>3 DEF FileForm
  <2>6. \A p \in Paths : Past(p)' => Opened(p)' /\ Cleared(p)'
    BY <1>5, <2>2, MergeAdvance
  <2> QED BY <1>a, <2>1, <2>4, <2>5, <2>6 DEF At
<1>6. CASE Retry
  <2>1. /\ UNCHANGED <<tree, start, mode, disturbed, pc, current>> /\ At("execute") /\ ~At("idle")
        /\ work' = current /\ work # <<>>
    BY <1>6 DEF Retry, env, history, At
  <2>2. current # <<>>
    BY <1>0, <2>1 DEF PlanInv, PlanForm
  <2>3. Under.path \in Contested /\ Under.op \in {"copy", "delete"} /\ current = <<Under>> /\ Under \in Action
    BY <1>0, <2>1, <2>2, PlannedIsDecided
  <2>4. Found
    <3>1. \A s \in Sides, p \in Paths : tree[s][p].kind # "none" => Seen(p)
      BY <2>1 DEF MergeInv
    <3>2. Seen(Under.path)
      BY <1>0, <2>3, DecidingForm
    <3> QED BY <2>1, <2>3, <3>1, <3>2 DEF Seen
  <2>5. FileForm'
    BY <2>1, <2>3 DEF FileForm, Under
  <2>6. ASSUME NEW p \in Paths, Past(p)' PROVE Opened(p)' /\ Cleared(p)'
    <3>1. Past(p)
      BY <2>1, <2>6 DEF Past, Contested, Differs, Alike, Under
    <3>2. Opened(p) /\ Cleared(p)
      BY <2>1, <3>1 DEF MergeInv
    <3> QED BY <2>1, <3>2 DEF Opened, Cleared, Spared, Source, Deciding, Contested, Differs
  <2> QED BY <1>a, <2>1, <2>4, <2>5, <2>6 DEF At
<1>7. CASE VerifyFirst \/ TakeInventory(2, "verify", "commit")
  <2>1. /\ UNCHANGED <<tree, work, start, mode, disturbed>> /\ ~At("idle") /\ pc' \in {"verify", "commit"}
    BY <1>7 DEF VerifyFirst, TakeInventory, Goto, At, env, history
  <2>2. \A p \in Contested : Opened(p) /\ Cleared(p)
    <3>1. CASE VerifyFirst
      BY <2>1, <3>1, MergeVerify
    <3>2. CASE TakeInventory(2, "verify", "commit")
      BY <2>1, <3>2 DEF MergeInv, TakeInventory, At
    <3> QED BY <1>7, <3>1, <3>2
  <2>3. \A p \in Contested' : Opened(p)' /\ Cleared(p)'
    BY <2>1, <2>2 DEF Opened, Cleared, Spared, Source, Deciding, Contested, Differs
  <2>4. inv'[1] = tree'[1] /\ (At("commit")' => inv'[2] = tree'[2])
    <3>1. inv \in [Sides -> [Paths -> Entry]] /\ 1 \in Sides /\ 2 \in Sides
      BY <1>0 DEF TypeInv, TypeOK, Sides
    <3>2. CASE VerifyFirst
      BY <3>1, <3>2 DEF VerifyFirst, Goto, At
    <3>3. CASE TakeInventory(2, "verify", "commit")
      <4>1. inv[1] = tree[1] /\ inv' = [inv EXCEPT ![2] = tree[2]]
        BY <2>1, <3>3 DEF MergeInv, TakeInventory, At
      <4> QED BY <2>1, <3>1, <4>1
    <3> QED BY <1>7, <3>2, <3>3
  <2> QED BY <1>a, <1>b, <2>1, <2>3, <2>4 DEF At
<1>8. CASE Commit
  <2>1. /\ UNCHANGED <<tree, work, start, mode, disturbed>> /\ ~At("idle") /\ pc' \in {"done", "failed"}
    BY <1>8 DEF Commit, Fail, Goto, At, run, env
  <2>2. At("done")' => Equivalent(inv[1], inv[2])
    BY <1>8 DEF Commit, Fail, Goto, At
  <2>3. \A p : Merged(p)' = Merged(p)
    BY <2>1 DEF Merged, Alike
  <2>4. Over
    BY <1>8, <2>1, <2>2, <2>3, MergeCommit DEF At
  <2> QED BY <1>a, <1>b, <2>1, <2>4 DEF At
<1>9. CASE CallFails
  <2>1. UNCHANGED <<tree, work, start>> /\ ~At("idle") /\ "edit" \notin disturbed /\ pc' = "failed"
    BY <1>9 DEF CallFails, Fail, Goto, At, run
  <2> QED BY <1>a, <1>b, <2>1 DEF At
<1>10. CASE User
  BY <1>10 DEF User, RemoveRoot, WriteFile, MakeDirectory, RemoveEntry, Editing, At
<1>11. CASE LockFile \/ UnlockFile \/ UNCHANGED vars
  <2>1. UNCHANGED <<tree, record, pc, inv, plan, current, work, mode, start, disturbed>>
    BY <1>11 DEF LockFile, UnlockFile, vars, run, env, history
  <2>2. Found
    BY <1>b, <2>1 DEF At
  <2>3. \A p : Merged(p)' = Merged(p)
    BY <2>1 DEF Merged, Alike
  <2>4. FileForm' <=> FileForm
    BY <2>1 DEF FileForm, Source, Deciding, Under
  <2>5. \A p : /\ Past(p)' => Past(p)
               /\ Opened(p) => Opened(p)'
               /\ Cleared(p) => Cleared(p)'
    BY <2>1 DEF Past, Opened, Cleared, Spared, Source, Deciding, Contested, Differs, Alike, Under
  <2>6. Contested' = Contested
    BY <2>1 DEF Contested, Differs, Alike
  <2>7. Under1
    BY <2>1, <2>4, <2>5 DEF MergeInv, At
  <2>8. Over
    BY <2>1, <2>3, <2>5, <2>6 DEF MergeInv, At
  <2> QED BY <1>a, <2>2, <2>7, <2>8
<1>12. CASE EndRun \/ Crash
  BY <1>12 DEF EndRun, Crash, Goto, At
<1> HIDE DEF Found, Under1, Over
<1> QED
  BY <1>1, <1>2, <1>3, <1>4, <1>5, <1>6, <1>7, <1>8, <1>9, <1>10, <1>11, <1>12 DEF Next, RunStep

(* A run that no user disturbed and that commits, after whatever locks and    *)
(* earlier failures, has made both trees the merge of what it found, and the   *)
(* record lists what is there: what an action takes from is as it was, what    *)
(* would have taken it fails instead of committing (watch_command.go:267;      *)
(* synchronization_plan.go:7; synchronization_verification.go:9).              *)
THEOREM CommitsAreMerges == Spec => []CommitIsMerge
<1>1. Init => MergeInv
  BY PlanInit DEF Init, At, SurviveInv, MergeInv
<1>2. MergeInv => CommitIsMerge
  BY DEF MergeInv, CommitIsMerge, At
<1> QED
  BY <1>1, <1>2, MergeStep, PTL DEF Spec

-----------------------------------------------------------------------------
(* Undisturbed runs commit *)

(* Nothing has disturbed the run, its questions were answered, and the merge   *)
(* is one that can be had.                                                     *)
Steady ==
  /\ disturbed = {} /\ start.answered /\ ~Tangled
  /\ ~(mode = "unidirectional" /\ 1 \in start.missing)

(* Each run has a mode, and a first one a single side that prevails.           *)
Settled ==
  /\ ~At("idle") => mode \in {"bidirectional", "unidirectional"}
  /\ ~start.record.found => \A p, q \in Paths : start.choice[p] = start.choice[q]

(* The destination of a path has what the merge has. *)
Reached(p) == Alike(tree[Deciding(p).to][p], Merged(p))

(* The work left can be done: the source of each operation is there, the      *)
(* directories above its destination too, and none is below an earlier one.   *)
Ready(s, p) == tree[Other(s)][p].kind # "none" /\ \A a \in Ancestors(p) : tree[s][a].kind = "dir"

HeadForm ==
  \/ Head(work).op = "copy"
  \/ Head(work).op = "mkdir" /\ There[Target].kind = "dir" /\ Here[Target].kind # "file"
  \/ Head(work).op = "create" /\ There[Target].kind = "file" /\ Here[Target].kind # "dir"
  \/ /\ Head(work).op = "fill" /\ There[Target].kind = "file"
     /\ Here[Target].kind = "file" /\ Here[Target].content = Torn
     /\ Head(work).content = There[Target].content

CopyForm ==
  /\ \A i \in DOMAIN work : /\ work[i].to = Under.to /\ Ready(Under.to, work[i].path)
                            /\ i > 1 => work[i].op = "copy"
  /\ \A i, j \in DOMAIN work : i < j => work[j].path \notin Inside[work[i].path]
  /\ work # <<>> => HeadForm

(* What has been copied is there, what was deleted stays away. *)
Half(p) == p = Under.path /\ work # <<>> /\ Head(work).path = p
Advanced ==
  \A p \in Contested :
    /\ Deciding(p).op = "copy" /\ Past(p) => Reached(p) \/ Half(p)
    /\ Deciding(p).op = "delete" => tree[Source(p)][p].kind = "none"

CalmInv ==
  /\ MergeInv /\ Settled
  /\ ~At("idle") /\ Steady =>
       /\ ~At("failed")
       /\ At("execute") => Advanced /\ (current # <<>> /\ Under.op = "copy" => CopyForm)
       /\ pc \in {"verify", "commit"} => Equivalent(tree[1], tree[2])

(* The merge that can be had keeps the directories above what it keeps. *)
LEMMA MergedAbove ==
  ASSUME PlanInv, Settled, ~At("idle"), ~Tangled,
         NEW p \in Paths, Merged(p).kind # "none", NEW a \in Ancestors(p)
  PROVE  a \in Paths /\ Merged(a).kind = "dir"
<1>1. a \in Paths /\ mode \in {"bidirectional", "unidirectional"} /\ IsTree(start.tree[1])
  BY DEF Ancestors, Settled, PlanInv, Sides
<1>2. CASE mode = "unidirectional"
  <2>1. Merged(p) = start.tree[1][p] /\ Merged(a) = start.tree[1][a]
    BY <1>2 DEF Merged
  <2> QED BY <1>1, <2>1 DEF IsTree, WellFormed
<1>3. CASE mode = "bidirectional"
  <2>1. WellFormed([q \in Paths |-> Merged(q)])
    BY <1>3 DEF Tangled
  <2> DEFINE M == [q \in Paths |-> Merged(q)]
  <2>2. M[p] = Merged(p) /\ M[a] = Merged(a)
    BY <1>1
  <2> HIDE DEF M
  <2>3. WellFormed(M)
    BY <2>1 DEF M
  <2> QED BY <1>1, <2>2, <2>3 DEF WellFormed
<1> QED BY <1>1, <1>2, <1>3

(* What such a merge copies is nowhere in the way of another copy.            *)
LEMMA SourceKept ==
  ASSUME PlanInv, Settled, ~At("idle"), ~Tangled, NEW p \in Contested, Deciding(p).op = "copy"
  PROVE  Spared(Source(p), p)
<1>1. /\ p \in Paths /\ Source(p) # Deciding(p).to /\ start.tree[Source(p)][p].kind # "none"
      /\ Merged(p) = start.tree[Source(p)][p]
  BY DecidingForm, MergedIsDecided DEF Source
<1>2. ASSUME NEW o \in Ancestors(p), o \in Contested, Deciding(o).to = Source(p) PROVE FALSE
  <2>1. o \in Paths /\ Merged(o).kind = "dir"
    BY <1>1, <1>2, MergedAbove
  <2>2. Deciding(o).op = "copy"
    BY <1>2, <2>1, DecidingForm, MergedIsDecided
  <2>3. Merged(o) = start.tree[Source(o)][o]
    BY <1>2, <2>1, <2>2, MergedIsDecided DEF Source
  <2> QED BY <1>2, <2>1, <2>3, CopiedInto
<1> QED BY <1>1, <1>2 DEF Spared

(* A directory that both trees have is not planned for, and stays.            *)
LEMMA CommonStays ==
  ASSUME SurviveInv, ~At("idle"), "edit" \notin disturbed, NEW a \in Paths, a \notin Contested,
         NEW r \in Sides, start.tree[r][a].kind # "none"
  PROVE  \A s \in Sides : tree[s][a] = start.tree[s][a]
<1>1. /\ PlanInv /\ IsTree(start.tree[1]) /\ IsTree(start.tree[2]) /\ 1 \in Sides /\ 2 \in Sides
      /\ r = 1 \/ r = 2
  BY DEF SurviveInv, PlanInv, Sides
<1>2. start.tree[1][a].kind # "none" /\ start.tree[2][a].kind # "none"
  BY <1>1 DEF Contested, Differs, Alike
<1>3. \A o \in Ancestors(a) : o \notin Contested
  BY <1>1, <1>2, DirectoriesAgree DEF Contested
<1>4. \A s \in Sides : Spared(s, a) /\ start.tree[s][a].kind # "none"
  BY <1>2, <1>3 DEF Spared, Sides
<1> QED BY <1>4 DEF SurviveInv

(* When the turn of a copy comes, its source is as it was found, and the      *)
(* directories above its destination are there.                              *)
LEMMA CopyIsReady ==
  ASSUME SurviveInv, Settled, ~At("idle"), "edit" \notin disturbed, ~Tangled,
         NEW p \in Contested, Deciding(p).op = "copy",
         \A a \in Ancestors(p) : a \in Contested /\ Deciding(a).op = "copy" => Reached(a)
  PROVE  /\ tree[Source(p)][p] = start.tree[Source(p)][p] /\ Merged(p) = tree[Source(p)][p]
         /\ Ready(Deciding(p).to, p)
<1>1. /\ PlanInv /\ p \in Paths /\ Source(p) \in Sides /\ Deciding(p).to \in Sides
      /\ start.tree[Source(p)][p].kind # "none"
      /\ Merged(p) = start.tree[Source(p)][p]
  BY DecidingForm, MergedIsDecided DEF Source, SurviveInv
<1>2. Spared(Source(p), p)
  BY <1>1, SourceKept
<1>3. tree[Source(p)][p] = start.tree[Source(p)][p]
  BY <1>1, <1>2 DEF SurviveInv
<1>4. ASSUME NEW a \in Ancestors(p) PROVE tree[Deciding(p).to][a].kind = "dir"
  <2>1. a \in Paths /\ Merged(a).kind = "dir"
    BY <1>1, MergedAbove
  <2>2. CASE a \in Contested
    <3>1. Deciding(a).op = "copy"
      BY <1>1, <2>1, <2>2, DecidingForm, MergedIsDecided
    <3>2. Deciding(a).to # Source(p) /\ Deciding(a).to \in Sides
      BY <1>1, <1>2, <2>2, DecidingForm DEF Spared
    <3>3. Deciding(a).to = Deciding(p).to
      BY <1>1, <3>2, DecidingForm DEF Sides
    <3>4. Reached(a)
      BY <2>2, <3>1
    <3> QED BY <2>1, <3>3, <3>4 DEF Reached, Alike
  <2>3. CASE a \notin Contested
    <3>1. \A s \in Sides : start.tree[s][a].kind = "dir"
      BY <1>1, <2>1, <2>3, MergedIsDecided DEF Alike
    <3>2. \A s \in Sides : tree[s][a] = start.tree[s][a]
      BY <1>1, <2>1, <2>3, <3>1, CommonStays
    <3> QED BY <1>1, <3>1, <3>2
  <2> QED BY <2>2, <2>3
<1>5. tree[Other(Deciding(p).to)][p].kind # "none"
  BY <1>1, <1>3 DEF Source
<1> QED BY <1>1, <1>3, <1>4, <1>5 DEF Ready

(* In one direction, and where a user names the side that prevails, there is   *)
(* one destination.                                                            *)
LEMMA OneDestination ==
  ASSUME PlanInv, Settled, mode = "unidirectional" \/ ~start.record.found,
         NEW p \in Contested, NEW q \in Contested
  PROVE  Deciding(p).to = Deciding(q).to
<1>1. p \in Paths /\ q \in Paths
  BY DecidingForm
<1>2. CASE mode = "unidirectional"
  BY <1>2 DEF Deciding, Decided, AuthoritativeFor, Copy, Do
<1>3. CASE mode # "unidirectional" /\ ~start.record.found
  <2>1. start.choice[p] = start.choice[q]
    BY <1>1, <1>3 DEF Settled
  <2> QED BY <1>3, <2>1 DEF Deciding, Decided, AuthoritativeFor, Copy, Do
<1> QED BY <1>2, <1>3

(* A directory that stands beside a file has no entries in a merge that can    *)
(* be had.                                                                     *)
LEMMA NothingBeside ==
  ASSUME PlanInv, ~Tangled, mode = "bidirectional", NEW p \in Paths, NEW q \in Inside[p],
         NEW s \in Sides, start.tree[s][q].kind # "none",
         NEW r \in Sides, r # s, start.tree[r][p].kind = "file"
  PROVE  FALSE
<1>1. q \in Paths /\ p \in Ancestors(q) /\ IsTree(start.tree[s]) /\ Sides = {r, s}
  BY AboveAbove DEF PlanInv, Sides
<1>2. start.tree[s][p].kind = "dir"
  BY <1>1 DEF IsTree, WellFormed
<1>3. Beside(start.tree, p)
  BY <1>1, <1>2 DEF Beside
<1> QED BY <1>1, <1>3 DEF Tangled

(* Where both directions are kept, a deletion never meets a file above it.    *)
LEMMA DeletesFind ==
  ASSUME SurviveInv, Settled, ~At("idle"), "edit" \notin disturbed, ~Tangled, mode = "bidirectional",
         NEW p \in Contested, Deciding(p).op = "delete",
         \A a \in Ancestors(p) : a \in Contested => Cleared(a)
  PROVE  ~UnderFile(tree[Deciding(p).to], p)
<1> DEFINE s == Deciding(p).to
<1>1. /\ PlanInv /\ p \in Paths /\ s \in Sides /\ Source(p) \in Sides
      /\ start.tree[Source(p)][p].kind = "none"
      /\ Seen(p) /\ Source(p) # s /\ IsTree(start.tree[s])
  BY DecidingForm DEF SurviveInv, PlanInv
<1>2. start.tree[s][p].kind # "none"
  BY <1>1 DEF Seen, Sides
<1>3. ASSUME NEW a \in Ancestors(p), tree[s][a].kind = "file" PROVE FALSE
  <2>1. a \in Paths /\ p \in Inside[a] /\ start.tree[s][a].kind = "dir"
    BY <1>1, <1>2 DEF Ancestors, IsTree, WellFormed
  <2>2. tree[s][a] # start.tree[s][a]
    BY <1>3, <2>1
  <2>3. a \in Contested
    BY <1>1, <2>1, <2>2, CommonStays
  <2>4. /\ Deciding(a).op \in {"copy", "delete"} /\ Deciding(a).to \in Sides
        /\ Source(a) \in Sides /\ Source(a) # Deciding(a).to
        /\ Deciding(a).op = "delete" => start.tree[Source(a)][a].kind = "none"
        /\ Deciding(a).op = "copy" => start.tree[Source(a)][a].kind # "none"
    BY <1>1, <2>3, DecidingForm
  <2>5. Deciding(a).to = s
    <3> SUFFICES ASSUME Deciding(a).to # s PROVE FALSE
      OBVIOUS
    <3>1. Source(a) = s
      BY <1>1, <2>4 DEF Sides
    <3>2. Deciding(a).op = "copy"
      BY <2>1, <2>4, <3>1
    <3>3. Spared(s, a)
      BY <1>1, <2>3, <3>1, <3>2, SourceKept
    <3> QED BY <1>1, <2>1, <2>2, <3>3 DEF SurviveInv
  <2>6. Deciding(a).op = "copy"
    BY <1>3, <2>3, <2>4, <2>5 DEF Cleared
  <2>7. start.tree[Source(a)][a].kind # "dir"
    <3> HIDE DEF s
    <3> SUFFICES ASSUME start.tree[Source(a)][a].kind = "dir" PROVE FALSE
      OBVIOUS
    <3>1. start.tree[Source(a)][a] \in Entry /\ start.tree[s][a] \in Entry
      BY <1>1, <2>1, <2>4 DEF PlanInv, IsTree
    <3>2. start.tree[Source(a)][a] = Folder /\ start.tree[s][a] = Folder
      BY <2>1, <3>1, EntryKinds
    <3>3. start.tree[1][a] = Folder /\ start.tree[2][a] = Folder
      BY <1>1, <2>4, <2>5, <3>2 DEF Sides
    <3> QED BY <2>3, <3>3 DEF Contested, Differs, Alike
  <2>8. start.tree[Source(a)][a].kind = "file"
    <3>1. start.tree[Source(a)][a] \in Entry
      BY <1>1, <2>1, <2>4 DEF PlanInv, IsTree
    <3> QED BY <2>4, <2>6, <2>7, <3>1, EntryKinds
  <2> HIDE DEF s
  <2> QED BY <1>1, <1>2, <2>1, <2>4, <2>5, <2>8, NothingBeside
<1> QED BY <1>3 DEF UnderFile

(* No copy brings back what a deletion is to take from the other side, or a    *)
(* directory above it, or something below it.                                 *)
LEMMA ApartFromDeleted ==
  ASSUME PlanInv, Settled, ~At("idle"), ~Tangled,
         NEW p \in Contested, Deciding(p).op = "delete",
         NEW o \in Contested, Deciding(o).op = "copy", Deciding(o).to = Source(p)
  PROVE  o # p /\ o \notin Ancestors(p) /\ p \notin Ancestors(o)
<1>1. /\ p \in Paths /\ o \in Paths /\ Source(p) # Deciding(p).to /\ Source(p) \in Sides
      /\ Deciding(p).to \in Sides /\ Source(o) # Deciding(o).to /\ Source(o) \in Sides
      /\ start.tree[Source(o)][o].kind # "none" /\ start.tree[Source(p)][p].kind = "none"
      /\ Seen(p)
  BY DecidingForm
<1>2. Source(o) = Deciding(p).to /\ start.tree[Source(o)][p].kind # "none"
  BY <1>1 DEF Sides, Seen
<1>3. Merged(o).kind # "none" /\ Merged(p).kind = "none"
  BY <1>1, MergedIsDecided DEF Source
<1>4. p \notin Ancestors(o)
  BY <1>1, <1>3, MergedAbove
<1>5. mode = "bidirectional" /\ start.record.found
  BY <1>1, OneDestination DEF Settled
<1>6. ASSUME o \in Ancestors(p) PROVE FALSE
  <2>1. p \in Inside[o]
    BY <1>6 DEF Ancestors
  <2>2. start.tree[Source(p)][o].kind # "file"
    BY <1>1, <1>2, <1>5, <2>1, NothingBeside
  <2>3. start.tree[Source(o)][o].kind = "dir"
    BY <1>1, <1>2, <1>6 DEF PlanInv, IsTree, WellFormed
  <2>4. start.tree[Source(p)][o].kind = "none"
    <3>0. start.tree[Source(p)][o] \in Entry /\ start.tree[Source(o)][o] \in Entry
      BY <1>1 DEF PlanInv, IsTree
    <3> SUFFICES ASSUME start.tree[Source(p)][o].kind = "dir" PROVE FALSE
      BY <2>2, <3>0, EntryKinds
    <3>1. start.tree[Source(p)][o] = Folder /\ start.tree[Source(o)][o] = Folder
      BY <2>3, <3>0, EntryKinds
    <3>2. start.tree[1][o] = Folder /\ start.tree[2][o] = Folder
      BY <1>1, <3>1 DEF Sides
    <3> QED BY <3>2 DEF Contested, Differs, Alike
  <2>5. o \notin start.record.paths
    <3>1. Deciding(o) = ActionFor(o, start.tree[1], start.tree[2], start.record, start.choice)
      BY <1>5 DEF Deciding, Decided
    <3>2. CASE Source(p) = 2
      <4>1. Deciding(o) = OneSided(1, o, start.record)
        BY <2>4, <3>1, <3>2 DEF ActionFor
      <4> QED BY <4>1 DEF OneSided, Do
    <3>3. CASE Source(p) = 1
      <4>1. start.tree[2][o].kind # "none"
        BY <1>1, <2>3, <3>3 DEF Sides
      <4>2. Deciding(o) = OneSided(2, o, start.record)
        BY <2>4, <3>1, <3>3, <4>1 DEF ActionFor
      <4> QED BY <4>2 DEF OneSided, Do
    <3> QED BY <1>1, <3>2, <3>3 DEF Sides
  <2>6. p \in start.record.paths
    <3>1. Deciding(p) = ActionFor(p, start.tree[1], start.tree[2], start.record, start.choice)
      BY <1>5 DEF Deciding, Decided
    <3>2. CASE Source(p) = 2
      <4>1. Deciding(p) = OneSided(1, p, start.record)
        BY <1>1, <3>1, <3>2 DEF ActionFor
      <4> QED BY <4>1 DEF OneSided, Do, Copy
    <3>3. CASE Source(p) = 1
      <4>1. start.tree[2][p].kind # "none"
        BY <1>1, <1>2, <3>3 DEF Sides
      <4>2. Deciding(p) = OneSided(2, p, start.record)
        BY <1>1, <3>1, <3>3, <4>1 DEF ActionFor
      <4> QED BY <4>2 DEF OneSided, Do, Copy
    <3> QED BY <1>1, <3>2, <3>3 DEF Sides
  <2>7. \A q \in start.record.paths : Ancestors(q) \subseteq start.record.paths
    BY DEF PlanInv, StartType, Record
  <2> QED BY <1>6, <2>5, <2>6, <2>7
<1>7. o # p
  BY <1>3
<1> QED BY <1>4, <1>6, <1>7

(* What the merge deletes stays away from the side that did not have it.      *)
LEMMA GapsStay ==
  ASSUME CalmInv, Steady, FileOperation, NEW p \in Contested, Deciding(p).op = "delete",
         tree[Source(p)][p].kind = "none"
  PROVE  tree'[Source(p)][p].kind = "none"
<1>1. /\ MergeInv /\ SurviveInv /\ PlanInv /\ TypeInv /\ Settled /\ "edit" \notin disturbed /\ ~Tangled
  BY DEF CalmInv, MergeInv, SurviveInv, PlanInv, Steady
<1>2. p \in Paths /\ Source(p) \in Sides
  BY <1>1, DecidingForm
<1>3. /\ At("execute") /\ ~At("idle") /\ Head(work).to = Under.to /\ current # <<>>
      /\ Target \in Paths /\ Target \in {Under.path} \cup Inside[Under.path]
      /\ Head(work).op # "delete" => Under.op # "delete"
  BY <1>1, OperandUnder DEF At
<1>4. Under.path \in Contested /\ Under = Deciding(Under.path) /\ Under.op \in {"copy", "delete"}
  BY <1>1, <1>3, PlannedIsDecided
<1>5. ASSUME tree'[Source(p)][p].kind # "none" PROVE FALSE
  <2>1. /\ Source(p) = Head(work).to /\ p \in {Target} \cup Ancestors(Target)
        /\ Head(work).op # "delete"
    BY <1>1, <1>2, <1>5, AppearForm
  <2>2. PICK o \in Contested : o = Under.path
    BY <1>4
  <2>3. o \in Paths /\ Deciding(o).op = "copy" /\ Deciding(o).to = Source(p)
    BY <1>1, <1>3, <1>4, <2>1, <2>2, DecidingForm
  <2>4. o # p /\ o \notin Ancestors(p) /\ p \notin Ancestors(o)
    BY <1>1, <1>3, <2>3, ApartFromDeleted
  <2>5. o \in {Target} \cup Ancestors(Target)
    BY <1>3, <2>2, <2>3 DEF Ancestors
  <2>6. o \in Inside[p] \/ p \in Inside[o]
    BY <1>2, <1>3, <2>1, <2>3, <2>4, <2>5, PathAssumption DEF Ancestors
  <2> QED BY <1>2, <2>3, <2>4, <2>6 DEF Ancestors
<1> QED BY <1>5

(* What an earlier action has copied stays. *)
LEMMA ReachedStays ==
  ASSUME MergeInv, FileOperation, NEW p \in Contested, Deciding(p).op = "copy",
         Place(p) < Place(Under.path), Reached(p)
  PROVE  Reached(p)'
<1>1. SurviveInv /\ PlanInv /\ TypeInv
  BY DEF MergeInv, SurviveInv, PlanInv
<1>2. p \in Paths /\ Deciding(p).to \in Sides /\ Merged(p).kind # "none"
  BY <1>1, DecidingForm, MergedIsDecided DEF Source
<1>3. /\ Under.path \in Paths /\ UNCHANGED <<mode, start>>
      /\ Target \in {Under.path} \cup Inside[Under.path] /\ Inside[Target] \subseteq Inside[Under.path]
  BY <1>1, OperandUnder, UnderForm, OperationTypes DEF history
<1>4. p \notin {Target} \cup Inside[Target]
  <2> SUFFICES ASSUME p \in {Target} \cup Inside[Target] PROVE FALSE
    OBVIOUS
  <2>1. Place(p) \in Nat /\ Place(Under.path) \in Nat
    BY <1>2, <1>3, PlaceIsOne
  <2>2. Under.path \in Ancestors(p)
    BY <1>2, <1>3, <2>1 DEF Ancestors
  <2>3. Place(Under.path) < Place(p)
    BY <1>2, <2>2, AboveFirst
  <2> QED BY <2>1, <2>3
<1>5. tree'[Deciding(p).to][p] = tree[Deciding(p).to][p]
  <2>1. tree[Deciding(p).to][p].kind # "none"
    BY <1>2 DEF Reached, Alike
  <2> QED BY <1>1, <1>2, <1>4, <2>1, EffectForm
<1>6. Deciding(p)' = Deciding(p) /\ Merged(p)' = Merged(p)
  BY <1>3 DEF Deciding, Merged
<1> QED BY <1>5, <1>6 DEF Reached

(* The copy under way can be done from the beginning, and begins again when   *)
(* a file of it was locked.                                                   *)
LEMMA CopyPrepared ==
  ASSUME CalmInv, Steady, At("execute"), current # <<>>, Under.op = "copy", NEW o, o = Under.path
  PROVE  /\ o \in Contested /\ o \in Paths /\ current = <<Under>> /\ Under = Deciding(o)
         /\ Under.to \in Sides /\ Source(o) = Other(Under.to) /\ Other(Under.to) \in Sides
         /\ Other(Under.to) # Under.to
         /\ Merged(o) = tree[Other(Under.to)][o] /\ Ready(Under.to, o)
<1>1. /\ MergeInv /\ SurviveInv /\ PlanInv /\ TypeInv /\ Settled /\ "edit" \notin disturbed /\ ~Tangled
      /\ ~At("idle") /\ Advanced
  BY DEF CalmInv, MergeInv, SurviveInv, PlanInv, Steady, At
<1>2. o \in Contested /\ Under = Deciding(o) /\ current = <<Under>>
  BY <1>1, PlannedIsDecided
<1>3. o \in Paths /\ Deciding(o).to \in Sides /\ Source(o) \in Sides /\ Source(o) # Deciding(o).to
  BY <1>1, <1>2, DecidingForm
<1>4. ASSUME NEW a \in Ancestors(o), a \in Contested, Deciding(a).op = "copy" PROVE Reached(a)
  <2>1. Place(a) < Place(o) /\ a \in Paths /\ a # o
    BY <1>3, <1>4, AboveFirst, AboveAbove
  <2>2. Past(a)
    BY <1>4, <2>1 DEF Past
  <2> QED BY <1>1, <1>4, <2>1, <2>2 DEF Advanced, Half
<1>5. /\ tree[Source(o)][o] = start.tree[Source(o)][o] /\ Merged(o) = tree[Source(o)][o]
      /\ Ready(Deciding(o).to, o)
  BY <1>1, <1>2, <1>4, CopyIsReady
<1> QED BY <1>2, <1>3, <1>5 DEF Source

(* A file operation leaves the rest of the work ready, and what it is part of. *)
LEMMA RestIsReady ==
  ASSUME CalmInv, Steady, FileOperation, Under.op = "copy", NEW o, o = Under.path
  PROVE  /\ work \in Seq(Action) /\ 1 \in DOMAIN work /\ Head(work) = work[1]
         /\ Head(work).to = Under.to /\ Target = work[1].path /\ Target \in Paths
         /\ There = tree[Other(Under.to)] /\ Here = tree[Under.to] /\ IsTree(Here) /\ IsTree(There)
         /\ tree'[Other(Under.to)] = There
         /\ \A a \in Ancestors(Target) : Here[a].kind = "dir"
         /\ There[Target].kind # "none"
         /\ \A i \in DOMAIN work :
              /\ work[i].path \in Paths /\ There[work[i].path].kind # "none"
              /\ \A a \in Ancestors(work[i].path) : tree'[Under.to][a].kind = "dir"
         /\ Target # o => Alike(tree'[Under.to][o], Merged(o))
<1>1. /\ MergeInv /\ SurviveInv /\ PlanInv /\ TypeInv /\ At("execute") /\ ~At("idle")
      /\ work # <<>> /\ current # <<>> /\ Head(work).to = Under.to
      /\ Target \in Paths /\ Target \in {Under.path} \cup Inside[Under.path]
  <2>1. MergeInv /\ SurviveInv /\ PlanInv /\ TypeInv
    BY DEF CalmInv, MergeInv, SurviveInv, PlanInv
  <2> QED BY <2>1, OperandUnder DEF At
<1>2. /\ o \in Contested /\ o \in Paths /\ current = <<Under>> /\ Under = Deciding(o)
      /\ Under.to \in Sides /\ Other(Under.to) \in Sides /\ Other(Under.to) # Under.to
      /\ Merged(o) = tree[Other(Under.to)][o] /\ Ready(Under.to, o)
  BY <1>1, CopyPrepared
<1>3. /\ work \in Seq(Action) /\ 1 \in DOMAIN work /\ Head(work) = work[1] /\ Target = work[1].path
      /\ \A i \in DOMAIN work : work[i].path \in Paths
  <2>1. work \in Seq(Action) /\ \A x \in Action : x.path \in Paths
    BY <1>1 DEF TypeInv, Action
  <2>2. 1 \in DOMAIN work /\ Head(work) = work[1]
    BY <1>1, <2>1
  <2> QED BY <2>1, <2>2 DEF Target
<1>4. /\ There = tree[Other(Under.to)] /\ Here = tree[Under.to] /\ IsTree(Here) /\ IsTree(There)
  BY <1>1, OperandTypes DEF Here, There
<1>5. CopyForm /\ Advanced
  BY <1>1 DEF CalmInv
<1>6. tree'[Other(Under.to)] = There
  BY <1>1, <1>2, <1>4, EffectForm
<1>7. \A i \in DOMAIN work : /\ There[work[i].path].kind # "none"
                             /\ \A a \in Ancestors(work[i].path) : Here[a].kind = "dir"
  BY <1>4, <1>5 DEF CopyForm, Ready
<1>8. ASSUME NEW i \in DOMAIN work, NEW a \in Ancestors(work[i].path)
      PROVE  tree'[Under.to][a].kind = "dir"
  <2>1. a \in Paths /\ work[i].path \in Inside[a] /\ work[i].path \in Paths
    BY <1>3 DEF Ancestors
  <2>2. a \notin {Target} \cup Inside[Target]
    <3> SUFFICES ASSUME a \in {Target} \cup Inside[Target] PROVE FALSE
      OBVIOUS
    <3>1. work[i].path \in Inside[Target]
      BY <1>1, <2>1, PathAssumption
    <3>2. CASE i = 1
      BY <1>1, <1>3, <3>1, <3>2, PathAssumption
    <3>3. CASE i # 1
      <4>1. i \in Nat /\ 1 < i
        BY <1>3, <3>3
      <4> QED BY <1>3, <1>5, <3>1, <4>1 DEF CopyForm
    <3> QED BY <3>2, <3>3
  <2>3. tree[Under.to][a].kind = "dir"
    BY <1>4, <1>7
  <2> QED BY <1>1, <1>2, <2>1, <2>2, <2>3, EffectForm
<1>9. ASSUME Target # o PROVE Alike(tree'[Under.to][o], Merged(o))
  <2>1. work # current
    BY <1>1, <1>2, <1>9 DEF Target
  <2>2. Past(o) /\ ~Half(o)
    BY <1>1, <1>2, <1>9, <2>1 DEF Past, Half, Target
  <2>3. Reached(o)
    BY <1>2, <1>5, <2>2 DEF Advanced
  <2>4. tree[Under.to][o].kind # "none"
    BY <1>2, <2>3 DEF Reached, Alike, Ready
  <2>5. o \notin {Target} \cup Inside[Target]
    <3> SUFFICES ASSUME o \in Inside[Target] PROVE FALSE
      BY <1>9
    <3>1. Target \in Inside[o]
      BY <1>1, <1>9
    <3> QED BY <1>1, <1>2, <3>1, PathAssumption
  <2>6. tree'[Under.to][o] = tree[Under.to][o]
    BY <1>1, <1>2, <2>4, <2>5, EffectForm
  <2> QED BY <1>2, <2>3, <2>6 DEF Reached
<1>10. /\ \A a \in Ancestors(Target) : Here[a].kind = "dir"
       /\ There[Target].kind # "none"
  BY <1>3, <1>7
<1> QED BY <1>1, <1>3, <1>4, <1>6, <1>7, <1>8, <1>9, <1>10

(* What comes in the place of the first operation keeps the form of the work. *)
LEMMA FrontForm ==
  ASSUME CalmInv, Steady, FileOperation, Under.op = "copy",
         NEW q \in Seq(Action), work' = q \o Tail(work),
         \A i \in DOMAIN q : /\ q[i].to = Under.to /\ q[i].path \in {Target} \cup Inside[Target]
                             /\ tree'[Other(Under.to)][q[i].path].kind # "none"
                             /\ \A a \in Ancestors(q[i].path) : tree'[Under.to][a].kind = "dir"
                             /\ i > 1 => q[i].op = "copy",
         \A i, j \in DOMAIN q : i < j => q[j].path \notin Inside[q[i].path],
         q # <<>> => HeadForm'
  PROVE  CopyForm'
<1> DEFINE o == Under.path  t == Tail(work)
<1>0. CopyForm /\ UNCHANGED current /\ TypeInv
  BY OperationTypes, OperandUnder DEF CalmInv, MergeInv, SurviveInv, PlanInv, At
<1>1. /\ work \in Seq(Action) /\ work # <<>> /\ Target = work[1].path /\ Target \in Paths
      /\ tree'[Other(Under.to)] = There
      /\ \A i \in DOMAIN work :
           /\ work[i].path \in Paths /\ There[work[i].path].kind # "none"
           /\ \A a \in Ancestors(work[i].path) : tree'[Under.to][a].kind = "dir"
  BY RestIsReady
<1>2. t \in Seq(Action) /\ Len(t) = Len(work) - 1 /\ \A i \in 1..Len(t) : t[i] = work[i + 1]
  BY <1>1, HeadTailProperties
<1>3. /\ work' \in Seq(Action) /\ Len(work') = Len(q) + Len(t)
      /\ \A i \in 1..Len(q) + Len(t) : work'[i] = IF i <= Len(q) THEN q[i] ELSE t[i - Len(q)]
  BY <1>2, ConcatProperties
<1> HIDE DEF t
<1>4. Len(q) \in Nat /\ Len(t) \in Nat /\ Len(work) \in Nat /\ DOMAIN q = 1..Len(q)
      /\ DOMAIN work = 1..Len(work) /\ DOMAIN work' = 1..Len(work')
  BY <1>1, <1>2, <1>3
<1>5. ASSUME NEW i \in DOMAIN work'
      PROVE  \/ i \in DOMAIN q /\ work'[i] = q[i]
             \/ /\ i \notin DOMAIN q /\ i - Len(q) + 1 \in DOMAIN work /\ i - Len(q) + 1 > 1
                /\ work'[i] = work[i - Len(q) + 1]
  <2>1. CASE i <= Len(q)
    BY <1>3, <1>4, <2>1
  <2>2. CASE i > Len(q)
    <3>1. i - Len(q) \in 1..Len(t) /\ work'[i] = t[i - Len(q)]
      <4>1. i \in Int /\ i <= Len(q) + Len(t) /\ i \in 1..Len(q) + Len(t)
        BY <1>3, <1>4
      <4>2. i - Len(q) \in 1..Len(t)
        BY <1>4, <2>2, <4>1
      <4>3. work'[i] = IF i <= Len(q) THEN q[i] ELSE t[i - Len(q)]
        BY <1>3, <4>1
      <4>4. ~(i <= Len(q))
        BY <1>4, <2>2, <4>1
      <4>5. work'[i] = t[i - Len(q)]
        BY <4>3, <4>4, Zenon
      <4> QED BY <4>2, <4>5
    <3>2. t[i - Len(q)] = work[i - Len(q) + 1]
      BY <1>2, <3>1
    <3>3. i - Len(q) + 1 \in DOMAIN work /\ i - Len(q) + 1 > 1 /\ i \notin DOMAIN q
      BY <1>2, <1>4, <3>1
    <3> QED BY <3>1, <3>2, <3>3
  <2> QED BY <1>4, <2>1, <2>2
<1>6. ASSUME NEW i \in DOMAIN work'
      PROVE  /\ work'[i].to = Under.to /\ tree'[Other(Under.to)][work'[i].path].kind # "none"
             /\ \A a \in Ancestors(work'[i].path) : tree'[Under.to][a].kind = "dir"
             /\ i > 1 => work'[i].op = "copy"
  <2>1. CASE i \in DOMAIN q /\ work'[i] = q[i]
    BY <2>1
  <2>2. CASE i - Len(q) + 1 \in DOMAIN work /\ i - Len(q) + 1 > 1 /\ work'[i] = work[i - Len(q) + 1]
    BY <1>0, <1>1, <2>2 DEF CopyForm
  <2> QED BY <1>5, <2>1, <2>2
<1>7. ASSUME NEW i \in DOMAIN work', NEW j \in DOMAIN work', i < j
      PROVE  work'[j].path \notin Inside[work'[i].path]
  <2>0. i \in Nat /\ j \in Nat
    BY <1>4
  <2>1. CASE i \in DOMAIN q /\ j \in DOMAIN q
    BY <1>5, <1>7, <2>1
  <2>2. CASE i \in DOMAIN q /\ j \notin DOMAIN q
    <3>1. j - Len(q) + 1 \in DOMAIN work /\ 1 < j - Len(q) + 1 /\ work'[j] = work[j - Len(q) + 1]
      BY <1>5, <2>2
    <3>2. 1 \in DOMAIN work
      BY <1>1
    <3>3. work'[j].path \notin Inside[Target]
      BY <1>0, <1>1, <3>1, <3>2 DEF CopyForm
    <3>4. work'[i].path \in {Target} \cup Inside[Target]
      <4>1. work'[i] = q[i]
        BY <1>5, <2>2
      <4> QED BY <2>2, <4>1
    <3>5. \A x \in {Target} \cup Inside[Target] : Inside[x] \subseteq Inside[Target]
      BY <1>1, PathAssumption
    <3> QED BY <3>3, <3>4, <3>5
  <2>3. CASE i \notin DOMAIN q
    <3>1. j \notin DOMAIN q
      BY <1>4, <1>7, <2>0, <2>3
    <3>2. /\ j - Len(q) + 1 \in DOMAIN work /\ work'[j] = work[j - Len(q) + 1]
          /\ i - Len(q) + 1 \in DOMAIN work /\ work'[i] = work[i - Len(q) + 1]
      BY <1>5, <2>3, <3>1
    <3>3. i - Len(q) + 1 < j - Len(q) + 1
      BY <1>4, <1>7, <2>0
    <3> QED BY <1>0, <3>2, <3>3 DEF CopyForm
  <2> QED BY <2>1, <2>2, <2>3
<1>8. work' # <<>> => HeadForm'
  <2>1. CASE q = <<>>
    <3> SUFFICES ASSUME work' # <<>> PROVE HeadForm'
      OBVIOUS
    <3>1. Len(q) = 0 /\ 1 \in DOMAIN work' /\ Head(work') = work'[1]
      BY <1>3, <2>1
    <3>2. work'[1] = work[2] /\ 2 \in DOMAIN work
      BY <1>4, <1>5, <3>1
    <3>3. work[2].op = "copy"
      BY <1>0, <3>2 DEF CopyForm
    <3> QED BY <3>1, <3>2, <3>3 DEF HeadForm
  <2> QED BY <2>1
<1>9. Under' = Under
  BY <1>0 DEF Under
<1> QED BY <1>6, <1>7, <1>8, <1>9 DEF CopyForm, Ready

(* An operation on the same path takes the place of the first one.            *)
LEMMA FrontOne ==
  ASSUME CalmInv, Steady, FileOperation, Under.op = "copy",
         NEW op \in {"mkdir", "create", "fill"}, NEW c \in Contents \cup {Torn, NoContent},
         work' = Then(op, c),
         op = "mkdir"  => There[Target].kind = "dir" /\ tree'[Under.to][Target].kind # "file",
         op = "create" => There[Target].kind = "file" /\ tree'[Under.to][Target].kind # "dir",
         op = "fill"   => /\ There[Target].kind = "file" /\ c = There[Target].content
                          /\ tree'[Under.to][Target].kind = "file"
                          /\ tree'[Under.to][Target].content = Torn
  PROVE  CopyForm' /\ work' # <<>> /\ Head(work').path = Target
<1> DEFINE x == [op |-> op, to |-> Head(work).to, path |-> Target, content |-> c]
<1> DEFINE q == <<x>>
<1>1. /\ work \in Seq(Action) /\ work # <<>> /\ Head(work).to = Under.to /\ Target \in Paths
      /\ Head(work).to \in Sides /\ Target = work[1].path /\ 1 \in DOMAIN work
      /\ There = tree[Other(Under.to)] /\ tree'[Other(Under.to)] = There
      /\ There[Target].kind # "none"
      /\ \A i \in DOMAIN work : \A a \in Ancestors(work[i].path) : tree'[Under.to][a].kind = "dir"
  <2>1. TypeInv
    BY DEF CalmInv, MergeInv, SurviveInv, PlanInv
  <2>2. work # <<>>
    BY <2>1, OperationTypes
  <2> QED BY <2>1, <2>2, RestIsReady, OperandTypes
<1>2. x \in Action /\ x.op = op /\ x.to = Under.to /\ x.path = Target /\ x.content = c
  BY <1>1 DEF Action
<1> HIDE DEF x
<1>3. q \in Seq(Action) /\ Len(q) = 1 /\ q[1] = x /\ DOMAIN q = {1} /\ q # <<>>
  BY <1>2
<1>4. work' = q \o Tail(work)
  BY DEF Then, x
<1>5. work' # <<>> /\ Head(work') = x
  <2>1. Tail(work) \in Seq(Action)
    BY <1>1
  <2> DEFINE t == Tail(work)
  <2> HIDE DEF t
  <2>2. t \in Seq(Action)
    BY <2>1 DEF t
  <2>3. <<x>> \o t # <<>> /\ Head(<<x>> \o t) = x
    BY <1>2, <2>2
  <2> QED BY <1>4, <2>3 DEF t
<1> HIDE DEF q
<1>6. HeadForm'
  <2>1. Target' = Target /\ There' = There /\ Here' = tree'[Under.to]
    BY <1>1, <1>2, <1>5 DEF Target, There, Here
  <2> QED BY <1>2, <1>5, <2>1 DEF HeadForm
<1>7. \A i \in DOMAIN q : /\ q[i].to = Under.to /\ q[i].path \in {Target} \cup Inside[Target]
                          /\ tree'[Other(Under.to)][q[i].path].kind # "none"
                          /\ \A a \in Ancestors(q[i].path) : tree'[Under.to][a].kind = "dir"
                          /\ i > 1 => q[i].op = "copy"
  BY <1>1, <1>2, <1>3
<1>8. \A i, j \in DOMAIN q : i < j => q[j].path \notin Inside[q[i].path]
  BY <1>3
<1>9. CopyForm'
  BY <1>3, <1>4, <1>6, <1>7, <1>8, FrontForm
<1> QED BY <1>2, <1>5, <1>9

(* The children of a directory are copied when it is there. *)
LEMMA FrontChildren ==
  ASSUME CalmInv, Steady, FileOperation, Under.op = "copy",
         NEW S, S = ChildrenIn(There, Target), tree'[Under.to][Target].kind = "dir",
         work' = [i \in DOMAIN InOrder(S) |-> Do("copy", Head(work).to, InOrder(S)[i])] \o Tail(work)
  PROVE  CopyForm'
<1> DEFINE q == [i \in DOMAIN InOrder(S) |-> Do("copy", Head(work).to, InOrder(S)[i])]
<1>1. /\ work \in Seq(Action) /\ work # <<>> /\ Head(work).to = Under.to /\ Target \in Paths
      /\ Head(work).to \in Sides /\ Target = work[1].path /\ 1 \in DOMAIN work
      /\ There = tree[Other(Under.to)] /\ tree'[Other(Under.to)] = There
      /\ \A i \in DOMAIN work : \A a \in Ancestors(work[i].path) : tree'[Under.to][a].kind = "dir"
  <2>1. TypeInv
    BY DEF CalmInv, MergeInv, SurviveInv, PlanInv
  <2>2. work # <<>>
    BY <2>1, OperationTypes
  <2> QED BY <2>1, <2>2, RestIsReady, OperandTypes
<1>2. S \in SUBSET Paths
  BY <1>1 DEF ChildrenIn, Children
<1>3. /\ Cardinality(S) \in Nat /\ DOMAIN InOrder(S) = 1..Cardinality(S)
      /\ \A i \in DOMAIN InOrder(S) : InOrder(S)[i] \in S
      /\ \A i, j \in DOMAIN InOrder(S) : i < j => Place(InOrder(S)[i]) < Place(InOrder(S)[j])
  BY <1>2, ListedInOrder
<1>4. q \in Seq(Action)
  <2>1. \A p \in Paths : Do("copy", Head(work).to, p) \in Action
    BY <1>1 DEF Do, Action
  <2>2. q \in [1..Cardinality(S) -> Action]
    BY <1>2, <1>3, <2>1
  <2> DEFINE n == Cardinality(S)
  <2>3. n \in Nat /\ q \in [1..n -> Action]
    BY <1>3, <2>2
  <2> HIDE DEF n, q
  <2> QED BY <2>3
<1>5. /\ DOMAIN q = DOMAIN InOrder(S)
      /\ \A i \in DOMAIN q : q[i].op = "copy" /\ q[i].to = Under.to /\ q[i].path = InOrder(S)[i]
  BY <1>1 DEF Do
<1>6. work' = q \o Tail(work)
  OBVIOUS
<1>7. \A i \in DOMAIN q : q[i].path \in S
  BY <1>3, <1>5
<1> HIDE DEF q
<1>8. ASSUME NEW p \in S
      PROVE  /\ p \in Paths /\ p \in Inside[Target] /\ There[p].kind # "none"
             /\ \A a \in Ancestors(p) : tree'[Under.to][a].kind = "dir"
             /\ \A r \in S : r \notin Inside[p]
  <2>1. p \in Inside[Target] /\ There[p].kind # "none" /\ p \in Paths
        /\ ~ \E r \in Inside[Target] : p \in Inside[r]
    BY <1>8 DEF ChildrenIn, Children
  <2>2. ASSUME NEW a \in Ancestors(p) PROVE a = Target \/ a \in Ancestors(Target)
    <3>1. a \in Paths /\ p \in Inside[a] /\ p \in Inside[a] \cap Inside[Target]
      BY <2>1 DEF Ancestors
    <3> QED BY <1>1, <2>1, <3>1, PathAssumption DEF Ancestors
  <2>3. \A r \in S : r \notin Inside[p]
    BY <2>1 DEF ChildrenIn, Children
  <2> QED BY <1>1, <2>1, <2>2, <2>3
<1>9. \A i \in DOMAIN q : /\ q[i].to = Under.to /\ q[i].path \in {Target} \cup Inside[Target]
                          /\ tree'[Other(Under.to)][q[i].path].kind # "none"
                          /\ \A a \in Ancestors(q[i].path) : tree'[Under.to][a].kind = "dir"
                          /\ i > 1 => q[i].op = "copy"
  BY <1>1, <1>5, <1>7, <1>8, ZenonT(40)
<1>10. \A i, j \in DOMAIN q : i < j => q[j].path \notin Inside[q[i].path]
  BY <1>7, <1>8
<1>11. q # <<>> => HeadForm'
  <2> SUFFICES ASSUME q # <<>> PROVE HeadForm'
    OBVIOUS
  <2> DEFINE t == Tail(work)
  <2>1. t \in Seq(Action)
    BY <1>1
  <2> HIDE DEF t
  <2>2. Head(q \o t) = q[1] /\ 1 \in DOMAIN q
    BY <1>4, <2>1
  <2>3. Head(work').op = "copy"
    BY <1>5, <1>6, <2>2 DEF t
  <2> QED BY <2>3 DEF HeadForm
<1> QED BY <1>4, <1>6, <1>9, <1>10, <1>11, FrontForm

(* A copy of an undisturbed run goes on, until the merge is there. *)
LEMMA CopyGoesOn ==
  ASSUME CalmInv, Steady, FileOperation, Under.op = "copy", NEW o, o = Under.path
  PROVE  /\ pc' = pc /\ CopyForm'
         /\ Alike(tree'[Under.to][o], Merged(o)) \/ (work' # <<>> /\ Head(work').path = o)
<1> DEFINE Done == Alike(tree'[Under.to][o], Merged(o)) \/ (work' # <<>> /\ Head(work').path = o)
<1> DEFINE Goal == pc' = pc /\ CopyForm' /\ Done
<1>1. /\ work \in Seq(Action) /\ work # <<>> /\ Head(work).to = Under.to /\ Target \in Paths
      /\ Head(work).to \in Sides /\ Target = work[1].path /\ 1 \in DOMAIN work /\ Head(work) = work[1]
      /\ There = tree[Other(Under.to)] /\ tree'[Other(Under.to)] = There /\ Here = tree[Under.to]
      /\ IsTree(Here) /\ IsTree(There) /\ Under.to \in Sides /\ DOMAIN tree = Sides
      /\ There[Target].kind # "none" /\ There[Target] \in Entry /\ Here[Target] \in Entry
      /\ \A a \in Ancestors(Target) : Here[a].kind = "dir"
      /\ \A i \in DOMAIN work :
           /\ work[i].path \in Paths /\ There[work[i].path].kind # "none"
           /\ \A a \in Ancestors(work[i].path) : tree'[Under.to][a].kind = "dir"
      /\ Target # o => Alike(tree'[Under.to][o], Merged(o))
  <2>1. TypeInv
    BY DEF CalmInv, MergeInv, SurviveInv, PlanInv
  <2>2. work # <<>> /\ DOMAIN tree = Sides
    BY <2>1, OperationTypes DEF TypeInv, TypeOK
  <2>3. /\ There = tree[Other(Under.to)] /\ tree'[Other(Under.to)] = There /\ Here = tree[Under.to]
        /\ There[Target].kind # "none"
        /\ \A a \in Ancestors(Target) : Here[a].kind = "dir"
        /\ \A i \in DOMAIN work :
           /\ work[i].path \in Paths /\ There[work[i].path].kind # "none"
           /\ \A a \in Ancestors(work[i].path) : tree'[Under.to][a].kind = "dir"
        /\ Target # o => Alike(tree'[Under.to][o], Merged(o))
    BY RestIsReady
  <2>4. /\ work \in Seq(Action) /\ 1 \in DOMAIN work /\ Head(work) = work[1]
        /\ Head(work).to = Under.to /\ Target = work[1].path /\ Target \in Paths
        /\ IsTree(Here) /\ IsTree(There)
    BY RestIsReady
  <2>5. Head(work).to \in Sides
    BY <2>1, <2>2, OperandTypes
  <2>6. There[Target] \in Entry /\ Here[Target] \in Entry
    BY <2>4 DEF IsTree
  <2> QED BY <2>2, <2>3, <2>4, <2>5, <2>6
<1>2. /\ At("execute") /\ CopyForm /\ HeadForm /\ TypeInv /\ current # <<>>
      /\ Merged(o) = There[o] /\ o \in Paths /\ UNCHANGED current
  <2>1. MergeInv /\ SurviveInv /\ PlanInv /\ TypeInv
    BY DEF CalmInv, MergeInv, SurviveInv, PlanInv
  <2>2. At("execute") /\ current # <<>>
    BY <2>1, OperandUnder
  <2>3. CopyForm
    BY <2>2 DEF CalmInv, At
  <2>4. Merged(o) = There[o] /\ o \in Paths
    BY <1>1, <2>2, CopyPrepared
  <2> QED BY <1>1, <2>1, <2>2, <2>3, <2>4, OperationTypes DEF CopyForm
<1>3. ~UnderFile(Here, Target)
  BY <1>1 DEF UnderFile
<1>4. ASSUME NEW t, NEW rest, Effect(t, rest)
      PROVE  pc' = pc /\ tree'[Under.to] = t /\ work' = rest
  BY <1>1, <1>4 DEF Effect
<1>5. ASSUME NEW op \in {"mkdir", "create", "fill"}, NEW c, work' = Then(op, c),
             Head(work').path = Target /\ work' # <<>> PROVE Done
  BY <1>1, <1>5
<1>6. CASE RemoveChild
  <2>1. Head(work).op = "copy"
    BY <1>2, <1>6 DEF RemoveChild, Doing, HeadForm
  <2>2. PICK p \in Inside[Target] : Effect([Here EXCEPT ![p] = Absent], work)
    BY <1>6 DEF RemoveChild
  <2>3. work' = work /\ pc' = pc
    BY <1>4, <2>2
  <2>4. HeadForm'
    BY <2>1, <2>3 DEF HeadForm
  <2>5. Under' = Under
    BY <1>2 DEF Under
  <2>6. CopyForm'
    BY <1>1, <1>2, <2>3, <2>4, <2>5 DEF CopyForm, Ready
  <2>7. Done
    BY <1>1, <2>3
  <2> QED BY <2>3, <2>6, <2>7
<1>7. CASE CopyEntry
  <2>1. CASE There[Target].kind = "dir"
    <3>1. Effect(Removed(Here, Target), Then("mkdir", NoContent))
      BY <1>1, <1>3, <1>7, <2>1 DEF CopyEntry
    <3>2. pc' = pc /\ tree'[Under.to][Target] = Absent /\ work' = Then("mkdir", NoContent)
      BY <1>1, <1>4, <3>1 DEF Removed
    <3>3. CopyForm' /\ work' # <<>> /\ Head(work').path = Target
      BY <2>1, <3>2, FrontOne DEF Absent
    <3> QED BY <1>5, <3>2, <3>3
  <2>2. CASE There[Target].kind = "file"
    <3>1. Effect(Removed(WithFolders(Here, Ancestors(Target)), Target), Then("create", NoContent))
      BY <1>1, <1>3, <1>7, <2>2 DEF CopyEntry
    <3>2. pc' = pc /\ tree'[Under.to][Target] = Absent /\ work' = Then("create", NoContent)
      BY <1>1, <1>4, <3>1 DEF Removed
    <3>3. CopyForm' /\ work' # <<>> /\ Head(work').path = Target
      BY <2>2, <3>2, FrontOne DEF Absent
    <3> QED BY <1>5, <3>2, <3>3
  <2> QED BY <1>1, <2>1, <2>2, EntryKinds
<1>8. CASE MakeFolder
  <2>1. There[Target].kind = "dir" /\ Here[Target].kind # "file"
    BY <1>2, <1>8 DEF MakeFolder, Doing, HeadForm
  <2>2. PICK S : S = ChildrenIn(There, Target)
    OBVIOUS
  <2>3. Effect(WithFolders(Here, Ancestors(Target) \cup {Target}),
               [i \in DOMAIN InOrder(S) |-> Do("copy", Head(work).to, InOrder(S)[i])] \o Tail(work))
    BY <1>3, <1>8, <2>1, <2>2 DEF MakeFolder
  <2>4. pc' = pc /\ tree'[Under.to][Target].kind = "dir"
        /\ work' = [i \in DOMAIN InOrder(S) |-> Do("copy", Head(work).to, InOrder(S)[i])] \o Tail(work)
    <3>1. tree'[Under.to] = WithFolders(Here, Ancestors(Target) \cup {Target})
      BY <1>4, <2>3
    <3>2. tree'[Under.to][Target] = IF Here[Target].kind = "none" THEN Folder ELSE Here[Target]
      BY <1>1, <3>1, SMTT(30) DEF WithFolders
    <3>3. tree'[Under.to][Target].kind = "dir"
      BY <1>1, <2>1, <3>2, EntryKinds DEF Folder
    <3> QED BY <1>4, <2>3, <3>3
  <2>5. CopyForm'
    BY <2>2, <2>4, FrontChildren
  <2>6. Done
    <3>1. CASE Target = o
      <4>1. tree'[Under.to][o] \in Entry
        BY <1>1, <1>4, <2>1, <2>3, <3>1, EntryKinds DEF WithFolders
      <4>2. tree'[Under.to][o] = Folder /\ Merged(o) = Folder
        BY <1>1, <1>2, <2>1, <2>4, <3>1, <4>1, EntryKinds
      <4> QED BY <4>2 DEF Alike
    <3> QED BY <1>1, <3>1
  <2> QED BY <2>4, <2>5, <2>6
<1>9. CASE ReadFails
  BY <1>2, <1>9 DEF ReadFails, Doing, HeadForm
<1>10. CASE CreateFile
  <2>1. There[Target].kind = "file" /\ Here[Target].kind # "dir"
    BY <1>2, <1>10 DEF CreateFile, Doing, HeadForm
  <2>2. Effect([Here EXCEPT ![Target] = FileOf(Torn, clock)], Then("fill", There[Target].content))
    BY <1>1, <1>10, <2>1 DEF CreateFile
  <2>3. /\ pc' = pc /\ tree'[Under.to][Target] = FileOf(Torn, clock)
        /\ work' = Then("fill", There[Target].content)
    BY <1>1, <1>4, <2>2 DEF IsTree
  <2>4. PICK c \in Contents \cup {Torn, NoContent} : c = There[Target].content
    BY <1>1, EntryKinds
  <2>5. CopyForm' /\ work' # <<>> /\ Head(work').path = Target
    <3>1. tree'[Under.to][Target].kind = "file" /\ tree'[Under.to][Target].content = Torn
      BY <2>3 DEF FileOf
    <3> HIDE DEF Goal, Done
    <3> QED BY <2>1, <2>3, <2>4, <3>1, FrontOne
  <2> QED BY <1>5, <2>3, <2>5
<1>11. CASE FillFile
  <2>1. /\ There[Target].kind = "file" /\ Here[Target].kind = "file" /\ Here[Target].content = Torn
        /\ Head(work).content = There[Target].content
    BY <1>2, <1>11 DEF FillFile, Doing, HeadForm
  <2>2. /\ pc' = pc /\ work' = Tail(work)
        /\ \E t : tree' = [tree EXCEPT ![Head(work).to][Target] = FileOf(There[Target].content, t)]
    BY <2>1, <1>11 DEF FillFile, Here
  <2>3. CopyForm'
    <3> DEFINE q == <<>>
    <3>1. q \in Seq(Action) /\ DOMAIN q = {} /\ q = <<>>
      OBVIOUS
    <3>2. work' = q \o Tail(work)
      <4> DEFINE t == Tail(work)
      <4>1. t \in Seq(Action)
        BY <1>1
      <4> HIDE DEF t
      <4>2. <<>> \o t = t
        BY <4>1
      <4> QED BY <2>2, <4>2 DEF t
    <3> HIDE DEF q
    <3> QED BY <3>1, <3>2, FrontForm
  <2>4. Done
    <3>1. CASE Target = o
      <4>1. PICK t : tree' = [tree EXCEPT ![Head(work).to][Target] = FileOf(There[Target].content, t)]
        BY <2>2
      <4>2. tree'[Under.to][o] = FileOf(There[o].content, t)
        BY <1>1, <1>2, <3>1, <4>1 DEF IsTree
      <4> QED BY <1>2, <2>1, <3>1, <4>2 DEF Alike, FileOf
    <3> QED BY <1>1, <3>1
  <2> QED BY <2>2, <2>3, <2>4
<1>12. CASE DeleteEntry
  BY <1>2, <1>12 DEF DeleteEntry, Doing, HeadForm
<1> QED
  BY <1>6, <1>7, <1>8, <1>9, <1>10, <1>11, <1>12 DEF FileOperation

(* A deletion of an undisturbed run goes on. *)
LEMMA DeleteGoesOn ==
  ASSUME CalmInv, Steady, FileOperation, Under.op = "delete",
         Platform = "windows" \/ mode = "bidirectional"
  PROVE  pc' = pc
<1>1. /\ MergeInv /\ SurviveInv /\ PlanInv /\ TypeInv /\ Settled /\ "edit" \notin disturbed /\ ~Tangled
  BY DEF CalmInv, MergeInv, SurviveInv, PlanInv, Steady
<1>2. /\ At("execute") /\ ~At("idle") /\ current # <<>> /\ Head(work).to = Under.to
      /\ Head(work).op = "delete" /\ Target = Under.path
  BY <1>1, OperandUnder DEF At
<1>3. CASE RemoveChild
  BY <1>3 DEF RemoveChild, Effect
<1>4. CASE DeleteEntry
  <2> SUFFICES ASSUME UnderFile(Here, Target), Platform = "unix" PROVE FALSE
    BY <1>4 DEF DeleteEntry, Effect
  <2>1. PICK p \in Contested : p = Under.path /\ Under = Deciding(p) /\ p \in Paths
    BY <1>1, <1>2, PlannedIsDecided, DecidingForm
  <2>2. ASSUME NEW a \in Ancestors(p), a \in Contested PROVE Cleared(a)
    <3>1. Place(a) < Place(p) /\ a \in Paths
      BY <2>1, <2>2, AboveFirst, AboveAbove
    <3>2. Past(a)
      BY <1>2, <2>1, <2>2, <3>1 DEF Past
    <3> QED BY <1>1, <1>2, <3>1, <3>2 DEF MergeInv
  <2>3. ~UnderFile(tree[Deciding(p).to], p)
    BY <1>1, <1>2, <2>1, <2>2, DeletesFind
  <2>4. Here = tree[Deciding(p).to]
    BY <1>2, <2>1 DEF Here
  <2> QED BY <1>2, <2>1, <2>3, <2>4
<1> QED
  BY <1>2, <1>3, <1>4 DEF FileOperation, CopyEntry, MakeFolder, ReadFails, CreateFile, FillFile, Doing

LEMMA CalmOperation ==
  ASSUME CalmInv, Steady, FileOperation, Platform = "windows" \/ "unidirectional" \notin Modes
  PROVE  pc' = pc /\ Advanced' /\ (Under.op = "copy" => CopyForm')
<1>1. /\ MergeInv /\ SurviveInv /\ PlanInv /\ TypeInv /\ Settled /\ "edit" \notin disturbed /\ ~Tangled
  BY DEF CalmInv, MergeInv, SurviveInv, PlanInv, Steady
<1>2. /\ At("execute") /\ ~At("idle") /\ current # <<>> /\ UNCHANGED <<current, mode, start>>
  BY <1>1, OperandUnder, OperationTypes DEF At, history
<1>3. /\ Under.path \in Contested /\ Under = Deciding(Under.path) /\ Under.op \in {"copy", "delete"}
      /\ current = <<Under>> /\ Advanced
  BY <1>1, <1>2, PlannedIsDecided DEF CalmInv, At
<1>4. Platform = "windows" \/ mode = "bidirectional"
  BY <1>1, <1>2 DEF Settled, TypeInv, TypeOK
<1>5. pc' = pc /\ (Under.op = "copy" => CopyForm')
  BY <1>3, <1>4, CopyGoesOn, DeleteGoesOn
<1>6. /\ Under' = Under /\ Contested' = Contested
      /\ \A p : Deciding(p)' = Deciding(p) /\ Merged(p)' = Merged(p) /\ Source(p)' = Source(p)
  BY <1>2 DEF Under, Contested, Differs, Alike, Deciding, Merged, Source
<1>7. ASSUME NEW p \in Contested, Deciding(p).op = "copy", Past(p)' PROVE Reached(p)' \/ Half(p)'
  <2>1. CASE p = Under.path
    <3>1. Alike(tree'[Under.to][p], Merged(p)) \/ (work' # <<>> /\ Head(work').path = p)
      BY <1>3, <1>7, <2>1, CopyGoesOn
    <3> QED BY <1>3, <1>6, <2>1, <3>1 DEF Reached, Half
  <2>2. CASE p # Under.path
    <3>1. Place(p) < Place(Under.path)
      BY <1>6, <1>7, <2>2 DEF Past
    <3>2. Past(p) /\ ~Half(p)
      BY <1>2, <2>2, <3>1 DEF Past, Half
    <3> QED BY <1>1, <1>3, <1>7, <3>1, <3>2, ReachedStays DEF Advanced
  <2> QED BY <2>1, <2>2
<1>8. ASSUME NEW p \in Contested, Deciding(p).op = "delete" PROVE tree'[Source(p)][p].kind = "none"
  BY <1>3, <1>8, GapsStay DEF Advanced
<1>9. Advanced'
  BY <1>6, <1>7, <1>8 DEF Advanced
<1> QED BY <1>5, <1>9

(* The plan begins with nothing at the source of a deletion. *)
LEMMA PlanBegins ==
  PlanInv /\ (\A s \in Sides : tree[s] = start.tree[s]) /\ current = <<>> => Advanced
<1> SUFFICES ASSUME PlanInv, \A s \in Sides : tree[s] = start.tree[s], current = <<>>
             PROVE  Advanced
  OBVIOUS
<1>1. \A p \in Contested : /\ ~Past(p) /\ p \in Paths /\ Source(p) \in Sides
                           /\ Deciding(p).op = "delete" => start.tree[Source(p)][p].kind = "none"
  BY DecidingForm DEF Past
<1> QED BY <1>1 DEF Advanced

(* When every action is over, the trees agree. *)
LEMMA CalmVerify ==
  ASSUME CalmInv, Steady, VerifyFirst
  PROVE  Equivalent(tree[1], tree[2])
<1>1. /\ MergeInv /\ SurviveInv /\ PlanInv /\ TypeInv /\ Settled /\ "edit" \notin disturbed /\ ~Tangled
      /\ At("execute") /\ ~At("idle") /\ work = <<>> /\ Advanced
  BY DEF CalmInv, MergeInv, SurviveInv, PlanInv, Steady, VerifyFirst, At
<1>2. \A p \in Contested : Past(p)
  BY <1>1, AllPast
<1>3. \A p \in Contested : Deciding(p).op = "copy" => Reached(p)
  BY <1>1, <1>2 DEF Advanced, Half
<1>4. ASSUME NEW p \in Paths, p \in Contested PROVE Alike(tree[1][p], tree[2][p])
  <2> DEFINE s == Deciding(p).to  r == Source(p)
  <2>1. s \in Sides /\ r \in Sides /\ s # r /\ Deciding(p).op \in {"copy", "delete"}
    BY <1>1, <1>4, DecidingForm
  <2>2. CASE Deciding(p).op = "copy"
    <3>1. Merged(p) = tree[r][p]
      BY <1>1, <1>3, <1>4, <2>2, CopyIsReady
    <3>2. Alike(tree[s][p], tree[r][p])
      BY <1>3, <1>4, <2>2, <3>1 DEF Reached
    <3> HIDE DEF s, r
    <3> QED BY <2>1, <3>2 DEF Alike, Sides
  <2>3. CASE Deciding(p).op = "delete"
    <3>1. tree[r][p].kind = "none"
      BY <1>1, <1>4, <2>3 DEF Advanced
    <3>2. tree[s][p].kind = "none"
      BY <1>1, <1>2, <1>4, <2>3 DEF MergeInv, Cleared
    <3>3. tree[s][p] \in Entry /\ tree[r][p] \in Entry
      BY <1>1, <2>1 DEF TypeInv, TypeOK
    <3>4. tree[s][p] = Absent /\ tree[r][p] = Absent
      BY <3>1, <3>2, <3>3, EntryKinds
    <3> HIDE DEF s, r
    <3>5. tree[1][p] = Absent /\ tree[2][p] = Absent
      BY <2>1, <3>4 DEF Sides
    <3> QED BY <3>5 DEF Alike
  <2> QED BY <2>1, <2>2, <2>3
<1>5. ASSUME NEW p \in Paths, p \notin Contested PROVE Alike(tree[1][p], tree[2][p])
  <2>0. 1 \in Sides /\ 2 \in Sides /\ Alike(start.tree[1][p], start.tree[2][p])
    BY <1>5 DEF Sides, Contested, Differs
  <2>1. CASE start.tree[1][p].kind # "none"
    <3>1. tree[1][p] = start.tree[1][p] /\ tree[2][p] = start.tree[2][p]
      BY <1>1, <1>5, <2>0, <2>1, CommonStays
    <3> QED BY <2>0, <3>1
  <2>2. CASE start.tree[1][p].kind = "none"
    <3>1. ~Seen(p)
      BY <2>0, <2>2 DEF Seen, Alike, Sides
    <3>2. tree[1][p].kind = "none" /\ tree[2][p].kind = "none"
      BY <1>1, <2>0, <3>1 DEF MergeInv
    <3>3. tree[1][p] \in Entry /\ tree[2][p] \in Entry
      BY <1>1, <2>0 DEF TypeInv, TypeOK
    <3> QED BY <3>2, <3>3, EntryKinds DEF Alike
  <2> QED BY <2>1, <2>2
<1> QED BY <1>4, <1>5 DEF Equivalent

(* An action that begins, or begins again, is ready to be carried out. *)
LEMMA BeginsReady ==
  ASSUME CalmInv, Steady, At("execute"), UNCHANGED <<tree, start, mode>>,
         NEW a \in Action, current' = <<a>>, work' = current',
         a.path \in Contested, a = Deciding(a.path),
         \A p \in Contested : Place(p) < Place(a.path) => Past(p) /\ ~Half(p)
  PROVE  Advanced' /\ (Under'.op = "copy" => CopyForm')
<1>1. /\ MergeInv /\ SurviveInv /\ PlanInv /\ TypeInv /\ Settled /\ "edit" \notin disturbed /\ ~Tangled
      /\ ~At("idle") /\ Advanced
  BY DEF CalmInv, MergeInv, SurviveInv, PlanInv, Steady, At
<1>2. /\ Under' = a /\ work' = <<a>>
      /\ Contested' = Contested
      /\ \A p : /\ Deciding(p)' = Deciding(p) /\ Merged(p)' = Merged(p)
                /\ Source(p)' = Source(p) /\ Reached(p)' = Reached(p)
  BY DEF Under, Contested, Differs, Alike, Deciding, Merged, Source, Reached
<1>3. \A p \in Contested : Place(p) < Place(a.path) /\ Deciding(p).op = "copy" => Reached(p)
  BY <1>1 DEF Advanced
<1>4. Advanced'
  <2>1. \A p \in Contested : Past(p)' => Place(p) < Place(a.path)
    BY <1>2 DEF Past
  <2> QED BY <1>1, <1>2, <1>3, <2>1 DEF Advanced
<1>5. ASSUME a.op = "copy" PROVE CopyForm'
  <2>1. PICK p \in Contested : p = a.path
    OBVIOUS
  <2>2. p \in Paths /\ Deciding(p).op = "copy" /\ Deciding(p).to = a.to
    BY <1>5, <2>1 DEF Contested, Differs
  <2>3. ASSUME NEW b \in Ancestors(p), b \in Contested /\ Deciding(b).op = "copy" PROVE Reached(b)
    <3>1. Place(b) < Place(p)
      BY <2>2, AboveFirst
    <3> QED BY <1>3, <2>1, <2>3, <3>1
  <2>4. Ready(a.to, p)
    BY <1>1, <2>2, <2>3, CopyIsReady
  <2>5. Ready(a.to, a.path)'
    BY <2>1, <2>4 DEF Ready
  <2>6. work' # <<>> /\ Head(work') = a /\ DOMAIN work' = {1} /\ work'[1] = a
    BY <1>2
  <2>7. HeadForm'
    BY <1>5, <2>6 DEF HeadForm
  <2>8. \A i \in DOMAIN work' : /\ work'[i].to = Under'.to /\ Ready(Under.to, work[i].path)'
                                /\ i > 1 => work'[i].op = "copy"
    BY <1>2, <2>5, <2>6 DEF Ready
  <2>9. \A i, j \in DOMAIN work' : i < j => work'[j].path \notin Inside[work'[i].path]
    BY <2>6
  <2> QED BY <2>7, <2>8, <2>9 DEF CopyForm
<1> QED BY <1>2, <1>4, <1>5

(* If the mirror of a directory cannot fail on what is left below a file,      *)
(* every step of an undisturbed run keeps it calm.                            *)
LEMMA CalmStep ==
  ASSUME Platform = "windows" \/ "unidirectional" \notin Modes, CalmInv, [Next]_vars
  PROVE  CalmInv'
<1>0. /\ MergeInv /\ SurviveInv /\ PlanInv /\ TypeInv /\ MergeInv' /\ PlanInv' /\ Settled
      /\ start \in StartType
  BY MergeStep DEF CalmInv, MergeInv, SurviveInv, PlanInv
<1>1. ASSUME UNCHANGED <<mode, start>>, ~At("idle") \/ At("idle")' PROVE Settled'
  BY <1>0, <1>1 DEF Settled, At
<1> DEFINE Calm == /\ ~At("failed")
                   /\ At("execute") => Advanced /\ (current # <<>> /\ Under.op = "copy" => CopyForm)
                   /\ pc \in {"verify", "commit"} => Equivalent(tree[1], tree[2])
<1>a. ASSUME Settled', ~At("idle")' /\ Steady' => Calm' PROVE CalmInv'
  BY <1>0, <1>a DEF CalmInv
<1>b. ASSUME UNCHANGED <<start, mode, disturbed>> PROVE Steady' = Steady
  BY <1>b DEF Steady, Tangled, Merged, WellFormed, Beside, Alike
<1>c. ~At("idle") /\ Steady => Calm
  BY DEF CalmInv
<1> HIDE DEF Calm
<1>2. CASE FileOperation
  <2>1. /\ UNCHANGED <<start, mode, disturbed, current>> /\ At("execute") /\ ~At("idle")
    BY <1>0, <1>2, OperationTypes DEF history, At
  <2>2. Settled'
    BY <1>1, <2>1
  <2>3. ASSUME Steady PROVE Calm'
    <3>1. pc' = pc /\ Advanced' /\ (Under.op = "copy" => CopyForm')
      BY <1>2, <2>3, CalmOperation
    <3> QED BY <2>1, <3>1 DEF Calm, At, Under
  <2> QED BY <1>a, <1>b, <2>1, <2>2, <2>3
<1>3. CASE BeginRun
  <2>1. /\ start' = [NoStart EXCEPT !.tree = tree, !.missing = missing, !.record = record]
        /\ mode' \in Modes /\ pc' \in {"first", "failed"}
        /\ pc' = "failed" => mode' = "unidirectional" /\ 1 \in missing
    BY <1>3 DEF BeginRun, Goto
  <2>2. start'.missing = missing /\ start'.choice = [p \in Paths |-> 1]
    BY <2>1 DEF NoStart
  <2>3. Settled'
    BY <2>1, <2>2, ValueAssumption DEF Settled
  <2>4. Steady' => pc' # "failed"
    BY <2>1, <2>2 DEF Steady
  <2>5. Steady' => Calm'
    BY <2>1, <2>4 DEF Calm, At
  <2> QED BY <1>a, <2>3, <2>5
<1>4. CASE TakeInventory(1, "first", "second") \/ TakeInventory(2, "second", "plan")
  <2>1. UNCHANGED <<start, mode, disturbed>> /\ ~At("idle") /\ pc' \in {"second", "plan"}
    BY <1>4 DEF TakeInventory, Goto, At, env, history
  <2> QED BY <1>1, <1>a, <2>1 DEF Calm, At
<1>5. CASE MakePlan
  <2>1. UNCHANGED <<tree, record, mode, disturbed>> /\ At("plan") /\ ~At("idle")
    BY <1>5 DEF MakePlan, env, At
  <2>2. CASE Asked /\ Fail /\ start' = [start EXCEPT !.answered = FALSE]
    <3>1. start'.choice = start.choice /\ start'.record = start.record /\ ~start'.answered
      BY <1>0, <2>2 DEF StartType
    <3>2. Settled'
      BY <1>0, <2>1, <3>1 DEF Settled, At
    <3> QED BY <1>a, <3>1, <3>2 DEF Steady
  <2>3. CASE ~(Asked /\ Fail /\ start' = [start EXCEPT !.answered = FALSE])
    <3>1. PICK choice \in Answers, side \in Sides :
             /\ start' = [start EXCEPT !.choice =
                            IF record.found THEN choice ELSE [p \in Paths |-> side]]
             /\ Goto("execute") /\ UNCHANGED <<inv, current, work>>
      BY <1>5, <2>3 DEF MakePlan
    <3>2. /\ start'.choice = IF record.found THEN choice ELSE [p \in Paths |-> side]
          /\ start'.tree = start.tree /\ start'.record = start.record /\ start.record = record
      BY <1>0, <2>1, <3>1 DEF StartType, PlanInv, At
    <3>3. Settled'
      BY <1>0, <2>1, <3>2 DEF Settled, At
    <3>4. current' = <<>>
      BY <1>0, <2>1, <3>1 DEF PlanInv, At
    <3>5. Steady' => \A s \in Sides : tree'[s] = start'.tree[s]
      BY <1>0, <2>1, <3>2 DEF Steady, SurviveInv, At
    <3>6. (PlanInv /\ (\A s \in Sides : tree[s] = start.tree[s]) /\ current = <<>> => Advanced)'
      BY PlanBegins, PTL
    <3>7. Steady' => Advanced'
      BY <1>0, <3>4, <3>5, <3>6
    <3>8. Steady' => Calm'
      BY <3>1, <3>4, <3>7 DEF Calm, Goto, At
    <3> QED BY <1>a, <3>3, <3>8
  <2> QED BY <2>2, <2>3
<1>6. CASE NextAction
  <2>1. /\ UNCHANGED <<tree, start, mode, disturbed, pc>> /\ At("execute") /\ ~At("idle")
        /\ current' = <<Head(plan)>> /\ work' = current' /\ plan # <<>> /\ work = <<>>
        /\ plan \in Seq(Action)
    BY <1>0, <1>6 DEF NextAction, env, history, TypeInv, At
  <2>2. ASSUME Steady PROVE Calm'
    <3>1. "edit" \notin disturbed
      BY <2>2 DEF Steady
    <3>2. PICK a \in Action : a = Head(plan) /\ a = plan[1] /\ 1 \in DOMAIN plan
      BY <2>1
    <3>3. a.path \in Contested /\ a = Deciding(a.path)
      <4>1. a.path \in ToBePlanned /\ a = Planned(a.path)
        BY <1>0, <2>1, <3>2 DEF PlanInv, PlanForm
      <4> QED BY <1>0, <2>1, <3>1, <4>1, PlannedIsDecided
    <3>4. ASSUME NEW p \in Contested, Place(p) < Place(a.path) PROVE Past(p) /\ ~Half(p)
      <4>1. Past(p)
        BY <1>0, <1>6, <3>1, <3>2, <3>4, PastBefore
      <4> QED BY <2>1, <4>1 DEF Half
    <3>5. Advanced' /\ (Under'.op = "copy" => CopyForm')
      BY <2>1, <2>2, <3>2, <3>3, <3>4, BeginsReady
    <3> QED BY <2>1, <3>5 DEF Calm, At
  <2> QED BY <1>1, <1>a, <1>b, <2>1, <2>2
<1>7. CASE Retry
  <2>1. /\ UNCHANGED <<tree, start, mode, disturbed, pc, current>> /\ At("execute") /\ ~At("idle")
        /\ work' = current /\ work # <<>>
    BY <1>7 DEF Retry, env, history, At
  <2>2. ASSUME Steady PROVE Calm'
    <3>1. "edit" \notin disturbed /\ current # <<>>
      BY <1>0, <2>1, <2>2 DEF Steady, PlanInv, PlanForm
    <3>2. PICK a \in Action : a = Under /\ current = <<a>> /\ a.path \in Contested /\ a = Deciding(a.path)
      BY <1>0, <2>1, <3>1, PlannedIsDecided
    <3>3. ASSUME NEW p \in Contested, Place(p) < Place(a.path) PROVE Past(p) /\ ~Half(p)
      <4>1. p \in Paths /\ Place(p) \in Nat /\ p # a.path
        BY <3>3, PlaceIsOne DEF Contested, Differs
      <4> QED BY <3>1, <3>2, <3>3, <4>1 DEF Past, Half
    <3>4. Advanced' /\ (Under'.op = "copy" => CopyForm')
      BY <2>1, <2>2, <3>2, <3>3, BeginsReady
    <3> QED BY <2>1, <3>4 DEF Calm, At
  <2> QED BY <1>1, <1>a, <1>b, <2>1, <2>2
<1>8. CASE VerifyFirst
  <2>1. UNCHANGED <<tree, start, mode, disturbed>> /\ ~At("idle") /\ pc' = "verify"
    BY <1>8 DEF VerifyFirst, Goto, At, env, history
  <2>2. Steady => Equivalent(tree[1], tree[2])
    BY <1>8, CalmVerify
  <2>3. Steady => Calm'
    BY <2>1, <2>2 DEF Calm, At, Equivalent, Alike
  <2> QED BY <1>1, <1>a, <1>b, <2>1, <2>3
<1>9. CASE TakeInventory(2, "verify", "commit")
  <2>1. UNCHANGED <<tree, start, mode, disturbed>> /\ ~At("idle") /\ pc = "verify" /\ pc' = "commit"
    BY <1>9 DEF TakeInventory, Goto, At, env, history
  <2>2. Steady => Calm'
    BY <1>c, <2>1 DEF Calm, At, Equivalent, Alike
  <2> QED BY <1>1, <1>a, <1>b, <2>1, <2>2
<1>10. CASE Commit
  <2>1. UNCHANGED <<tree, start, mode, disturbed>> /\ ~At("idle") /\ pc = "commit"
    BY <1>10 DEF Commit, At, env
  <2>2. ASSUME Steady PROVE Calm'
    <3>1. Equivalent(tree[1], tree[2])
      BY <1>c, <2>1, <2>2 DEF Calm
    <3>2. inv[1] = tree[1] /\ inv[2] = tree[2]
      BY <1>0, <2>1, <2>2 DEF MergeInv, Steady, At
    <3>3. pc' = "done"
      BY <1>10, <3>1, <3>2 DEF Commit, Goto
    <3> QED BY <3>3 DEF Calm, At
  <2> QED BY <1>1, <1>a, <1>b, <2>1, <2>2
<1>11. CASE CallFails
  <2>1. UNCHANGED <<start, mode>> /\ ~At("idle") /\ disturbed' # {}
    BY <1>11 DEF CallFails, At, env
  <2> QED BY <1>1, <1>a, <2>1 DEF Steady
<1>12. CASE User
  <2>1. UNCHANGED <<start, mode, pc>> /\ (At("idle") \/ disturbed' # {})
    BY <1>12 DEF User, RemoveRoot, WriteFile, MakeDirectory, RemoveEntry, Editing
  <2>2. Settled'
    BY <1>0, <2>1 DEF Settled, At
  <2> QED BY <1>a, <2>1, <2>2 DEF Steady, At
<1>13. CASE LockFile \/ UnlockFile \/ UNCHANGED vars
  <2>1. UNCHANGED <<tree, record, pc, inv, plan, current, work, mode, start, disturbed>>
    BY <1>13 DEF LockFile, UnlockFile, vars, run, env, history
  <2>2. Settled'
    BY <1>0, <2>1 DEF Settled, At
  <2>3. Calm' = Calm
    BY <2>1 DEF Calm, At, Advanced, CopyForm, HeadForm, Ready, Reached, Half, Past, Contested, Differs,
         Alike, Deciding, Merged, Source, Under, Equivalent, Target, Here, There
  <2>4. ~At("idle")' /\ Steady' => ~At("idle") /\ Steady
    BY <1>b, <2>1 DEF At
  <2> QED BY <1>a, <1>c, <2>2, <2>3, <2>4
<1>14. CASE EndRun \/ Crash
  <2>1. pc' = "idle" /\ start' = NoStart
    BY <1>14 DEF EndRun, Crash, Clear, Goto
  <2>2. Settled'
    BY <2>1 DEF Settled, At, NoStart
  <2> QED BY <1>a, <2>1, <2>2 DEF At
<1> QED
  BY <1>2, <1>3, <1>4, <1>5, <1>6, <1>7, <1>8, <1>9, <1>10, <1>11, <1>12, <1>13, <1>14
     DEF Next, RunStep

LEMMA CalmInit == Init => CalmInv
<1> SUFFICES ASSUME Init PROVE CalmInv
  OBVIOUS
<1>1. MergeInv
  BY PlanInit DEF Init, At, SurviveInv, MergeInv
<1>2. At("idle") /\ Settled
  BY DEF Init, At, Settled, NoStart
<1> QED BY <1>1, <1>2 DEF CalmInv

(* A run that no user disturbed and in which no call failed for another reason *)
(* than a lock commits, from whatever earlier runs and crashes left, unless a  *)
(* question went unanswered, the merge is not one that can be had, or the      *)
(* source of one direction is missing (watch_command.go:267;                   *)
(* synchronization_executor.go:54).  On Unix a mirror can fail below a file    *)
(* (unidirectional_sync.go:30).                                                *)
THEOREM CalmRunsCommit ==
  ASSUME Platform = "windows" \/ "unidirectional" \notin Modes
  PROVE  Spec => []CalmRunCommits
<1>1. CalmInv => CalmRunCommits
  BY DEF CalmInv, CalmRunCommits, Steady, At
<1>2. CalmInv /\ [Next]_vars => CalmInv'
  BY CalmStep
<1> QED
  BY <1>1, <1>2, CalmInit, PTL DEF Spec
=============================================================================
