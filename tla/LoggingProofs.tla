---------------------------- MODULE LoggingProofs ----------------------------
(***************************************************************************)
(* Proofs about Logging, for every number of archives, limit and lengths:  *)
(* with any number of executions what is reported logged is logged; with   *)
(* one execution the files stay bounded and rotations lose nothing but the *)
(* oldest.                                                                 *)
(***************************************************************************)
EXTENDS Logging, FiniteSetTheorems, TLAPS

(* The local state of every execution has its type. *)
LocalOK ==
  /\ console \in [Writers -> BOOLEAN] /\ persistent \in [Writers -> BOOLEAN]
  /\ pc \in [Writers -> Labels] /\ len \in [Writers -> Lengths \cup {0}]
  /\ reporting \in [Writers -> BOOLEAN] /\ kept \in [Writers -> BOOLEAN]

(* While an entry is written, an available console has it; when the file has  *)
(* not failed either, the file has it at the end.                             *)
Carried ==
  \A w \in Writers :
    /\ pc[w] \notin {"idle", "stopped"} /\ console[w] => kept[w]
    /\ pc[w] = "return" /\ persistent[w] => kept[w]

LEMMA CarriedStep == LocalOK /\ Carried /\ [Next]_vars => LocalOK' /\ Carried'
<1> SUFFICES ASSUME LocalOK, Carried, [Next]_vars PROVE LocalOK' /\ Carried'
  OBVIOUS
<1> USE LoggingAssumption DEF LocalOK, Carried, Labels, At, Goto, Set
<1>1. ASSUME NEW w \in Writers, Log(w) PROVE LocalOK' /\ Carried'
  BY <1>1 DEF Log
<1>2. ASSUME NEW w \in Writers, Size(w) \/ RemoveOldest(w) \/ Shift(w) PROVE LocalOK' /\ Carried'
  BY <1>2 DEF Size, RemoveOldest, Shift, local
<1>3. ASSUME NEW w \in Writers, FileFails(w), pc[w] \notin {"idle", "stopped"}
      PROVE  LocalOK' /\ Carried'
  BY <1>3, ZenonT(40) DEF FileFails
<1>4. ASSUME NEW w \in Writers, ArchiveActive(w) PROVE LocalOK' /\ Carried'
  BY <1>3, <1>4 DEF ArchiveActive, local
<1>5. ASSUME NEW w \in Writers, Append(w) PROVE LocalOK' /\ Carried'
  BY <1>5 DEF Append
<1>6. ASSUME NEW w \in Writers, WriteFails(w) PROVE LocalOK' /\ Carried'
  BY <1>3, <1>6 DEF WriteFails
<1>7. ASSUME NEW w \in Writers, Return(w) PROVE LocalOK' /\ Carried'
  BY <1>7 DEF Return
<1>8. ASSUME NEW w \in Writers, Restart(w) PROVE LocalOK' /\ Carried'
  BY <1>8 DEF Restart
<1>9. CASE UNCHANGED vars
  BY <1>9 DEF vars
<1> QED
  BY <1>1, <1>2, <1>4, <1>5, <1>6, <1>7, <1>8, <1>9 DEF Next

(* A call of Log that reports success has brought its entry to a destination, *)
(* however many executions share the files: RF-13, RF-14                      *)
(* (logging_coordinator.go:142).                                              *)
THEOREM ReportedIsLogged == Spec => []LoggedOrStopped
<1>1. Init => LocalOK /\ Carried
  BY DEF Init, LocalOK, Carried, Labels
<1>2. LocalOK /\ Carried => LoggedOrStopped
  BY DEF Carried, LoggedOrStopped, At
<1> QED
  BY <1>1, <1>2, CarriedStep, PTL DEF Spec

-----------------------------------------------------------------------------
(* Types, with any number of executions *)

(* The executions with an entry on its way to the file, and those that will *)
(* append the report of a failed console before it.                         *)
Writing == {"size", "oldest", "shift", "archive", "append"}
Carrying  == {w \in Writers : pc[w] \in Writing}
Announcing == {w \in Writers : reporting[w] /\ pc[w] \in Writing}

(* What is still to be appended is within the bound; a shift has an archive *)
(* to move, and one above it.                                               *)
TypeInv ==
  /\ TypeOK
  /\ \A w \in Writers : pc[w] = "shift" => gen[w] \in 1..(Archives - 1)
  /\ count + Cardinality(Carrying) + Cardinality(Announcing) <= MaxEntries

LEMMA Counted ==
  ASSUME NEW S \in SUBSET Writers
  PROVE  IsFiniteSet(S) /\ Cardinality(S) \in Nat /\ Cardinality(S) <= Cardinality(Writers)
BY LoggingAssumption, FS_Subset, FS_CardinalityType

(* Fewer entries are left where executions only stop writing. *)
LEMMA FewerLeft ==
  ASSUME TypeInv, TypeOK', count' = count, Carrying' \subseteq Carrying,
         Announcing' \subseteq Announcing
  PROVE  count' + Cardinality(Carrying') + Cardinality(Announcing') <= MaxEntries
<1>1. Carrying \in SUBSET Writers /\ Announcing \in SUBSET Writers
  BY DEF Carrying, Announcing
<1>2. /\ IsFiniteSet(Carrying) /\ IsFiniteSet(Announcing)
      /\ Cardinality(Carrying) \in Nat /\ Cardinality(Announcing) \in Nat
  BY <1>1, Counted
<1>3. /\ Cardinality(Carrying') \in Nat /\ Cardinality(Announcing') \in Nat
      /\ Cardinality(Carrying') <= Cardinality(Carrying)
      /\ Cardinality(Announcing') <= Cardinality(Announcing)
  BY <1>2, FS_Subset, FS_CardinalityType
<1>4. count \in Nat /\ MaxEntries \in Nat
  BY LoggingAssumption DEF TypeInv, TypeOK
<1> QED
  BY <1>2, <1>3, <1>4 DEF TypeInv

(* A rename keeps the types, and retains nothing that was not retained. *)
LEMMA RenamedTypes ==
  ASSUME TypeOK, NEW from \in Generations, NEW to \in Generations, from # to
  PROVE  LET f == Renamed(from, to) IN
         /\ f \in [Generations -> [entries : SUBSET (1..MaxEntries), size : Nat]]
         /\ UNION {f[g].entries : g \in Generations} \subseteq Retained
<1> DEFINE f == Renamed(from, to)
<1>1. f \in [Generations -> [entries : SUBSET (1..MaxEntries), size : Nat]]
  BY DEF TypeOK, Renamed, NoFile
<1>2. ASSUME NEW g \in Generations, NEW e \in f[g].entries PROVE e \in Retained
  <2>1. \E h \in Generations : e \in file[h].entries
    BY <1>2 DEF TypeOK, Renamed, NoFile
  <2> QED BY <2>1 DEF Retained
<1> QED
  BY <1>1, <1>2

LEMMA TypeInvStep == TypeInv /\ [Next]_vars => TypeInv'
<1> SUFFICES ASSUME TypeInv, [Next]_vars PROVE TypeInv'
  OBVIOUS
<1> DEFINE Shifting == \A w \in Writers : pc'[w] = "shift" => gen'[w] \in 1..(Archives - 1)
           Local == /\ console' \in [Writers -> BOOLEAN] /\ persistent' \in [Writers -> BOOLEAN]
                    /\ pc' \in [Writers -> Labels] /\ len' \in [Writers -> Lengths \cup {0}]
                    /\ reporting' \in [Writers -> BOOLEAN] /\ kept' \in [Writers -> BOOLEAN]
                    /\ gen' \in [Writers -> Generations] /\ Shifting
           Fewer == Carrying' \subseteq Carrying /\ Announcing' \subseteq Announcing
<1>0. 0 \in Generations /\ Active \in Generations /\ Archives \in Generations
      /\ Archives - 1 \in Generations
  BY LoggingAssumption DEF Generations, Active
<1>a. ASSUME Local, count' = count, Fewer,
             file' \in [Generations -> [entries : SUBSET (1..MaxEntries), size : Nat]],
             Retained' \subseteq Retained
      PROVE  TypeInv'
  <2>1. TypeOK'
    BY <1>a DEF TypeInv, TypeOK
  <2> QED
    BY <1>a, <2>1, FewerLeft DEF TypeInv
<1>b. ASSUME Local, count' = count, Fewer, file' = file
      PROVE  TypeInv'
  BY <1>a, <1>b DEF TypeInv, TypeOK, Retained
<1> USE DEF TypeInv, TypeOK, Labels, At, Goto, Set
<1>1. ASSUME NEW w \in Writers, Log(w) PROVE TypeInv'
  <2>1. Local /\ UNCHANGED <<file, count>>
    BY <1>1 DEF Log
  <2>2. TypeOK'
    BY <2>1 DEF Retained
  <2>3. Carrying' \in SUBSET Writers /\ Announcing' \in SUBSET Writers
    BY DEF Carrying, Announcing
  <2>4. /\ Cardinality(Carrying') \in Nat /\ Cardinality(Carrying') <= Cardinality(Writers)
        /\ Cardinality(Announcing') \in Nat /\ Cardinality(Announcing') <= Cardinality(Writers)
        /\ Cardinality(Writers) \in Nat
    BY <2>3, Counted
  <2>5. count + 2 * Cardinality(Writers) <= MaxEntries /\ MaxEntries \in Nat /\ count \in Nat
    BY <1>1, LoggingAssumption DEF Log
  <2>6. count + Cardinality(Carrying') + Cardinality(Announcing') <= MaxEntries
    BY <2>4, <2>5
  <2> QED BY <2>1, <2>2, <2>6
<1>2. ASSUME NEW w \in Writers, Size(w) PROVE TypeInv'
  <2>1. Local /\ Fewer /\ UNCHANGED <<file, count>>
    BY <1>2 DEF Size, local, Carrying, Announcing, Writing
  <2> QED BY <1>b, <2>1
<1>3. ASSUME NEW w \in Writers, RemoveOldest(w) PROVE TypeInv'
  <2>1. Local /\ Fewer /\ UNCHANGED count
    BY <1>0, <1>3, LoggingAssumption DEF RemoveOldest, Carrying, Announcing, Writing
  <2>2. /\ file' \in [Generations -> [entries : SUBSET (1..MaxEntries), size : Nat]]
        /\ Retained' \subseteq Retained
    BY <1>0, <1>3 DEF RemoveOldest, NoFile, Retained
  <2> QED BY <1>a, <2>1, <2>2
<1>4. ASSUME NEW w \in Writers, Shift(w) PROVE TypeInv'
  <2>1. /\ gen[w] \in Generations /\ gen[w] + 1 \in Generations /\ gen[w] # gen[w] + 1
        /\ gen[w] - 1 \in Generations /\ (gen[w] # 1 => gen[w] - 1 \in 1..(Archives - 1))
    BY <1>4, LoggingAssumption, SMTT(30) DEF Shift, Generations
  <2>2. Local /\ Fewer /\ UNCHANGED count
    BY <1>4, <2>1, LoggingAssumption DEF Shift, Carrying, Announcing, Writing
  <2>3. /\ file' \in [Generations -> [entries : SUBSET (1..MaxEntries), size : Nat]]
        /\ Retained' \subseteq Retained
    BY <1>4, <2>1, RenamedTypes DEF Shift, Retained
  <2> QED BY <1>a, <2>2, <2>3
<1>5. ASSUME NEW w \in Writers, FileFails(w), pc[w] \in Writing PROVE TypeInv'
  <2>1. Local /\ Fewer /\ UNCHANGED <<file, count>>
    BY <1>5 DEF FileFails, Carrying, Announcing, Writing
  <2> QED BY <1>b, <2>1
<1>6. ASSUME NEW w \in Writers, ArchiveActive(w) PROVE TypeInv'
  <2>1. CASE Exists(file[Active])
    <3>1. 1 \in Generations /\ Active # 1
      BY LoggingAssumption DEF Generations, Active
    <3>2. Local /\ Fewer /\ UNCHANGED count
      BY <1>6, <2>1 DEF ArchiveActive, local, Carrying, Announcing, Writing
    <3>3. /\ file' \in [Generations -> [entries : SUBSET (1..MaxEntries), size : Nat]]
          /\ Retained' \subseteq Retained
      BY <1>0, <1>6, <2>1, <3>1, RenamedTypes DEF ArchiveActive, Retained
    <3> QED BY <1>a, <3>2, <3>3
  <2>2. CASE ~Exists(file[Active])
    BY <1>5, <1>6, <2>2 DEF ArchiveActive, Writing
  <2> QED BY <2>1, <2>2
<1>7. ASSUME NEW w \in Writers, Append(w) PROVE TypeInv'
  <2>1. Local
    BY <1>7 DEF Append
  <2>2. /\ Carrying \in SUBSET Writers /\ Announcing \in SUBSET Writers /\ w \in Carrying
        /\ IF reporting[w] THEN Carrying' = Carrying /\ w \in Announcing /\ Announcing' = Announcing \ {w}
           ELSE Carrying' = Carrying \ {w} /\ Announcing' = Announcing
    BY <1>7 DEF Append, Carrying, Announcing, Writing
  <2>3. /\ IsFiniteSet(Carrying) /\ Cardinality(Carrying) \in Nat
        /\ IsFiniteSet(Announcing) /\ Cardinality(Announcing) \in Nat
    BY <2>2, Counted
  <2>4. /\ Cardinality(Carrying') + Cardinality(Announcing') + 1
             = Cardinality(Carrying) + Cardinality(Announcing)
        /\ Cardinality(Carrying') \in Nat /\ Cardinality(Announcing') \in Nat
    <3>1. CASE reporting[w]
      <4>1. Cardinality(Announcing \ {w}) = Cardinality(Announcing) - 1
            /\ IsFiniteSet(Announcing \ {w})
        BY <2>2, <2>3, <3>1, FS_RemoveElement
      <4>2. Cardinality(Announcing \ {w}) \in Nat
        BY <4>1, FS_CardinalityType
      <4>3. Carrying' = Carrying /\ Announcing' = Announcing \ {w}
        BY <2>2, <3>1
      <4> HIDE DEF TypeInv, TypeOK
      <4> QED BY <2>3, <4>1, <4>2, <4>3
    <3>2. CASE ~reporting[w]
      <4>1. Cardinality(Carrying \ {w}) = Cardinality(Carrying) - 1
            /\ IsFiniteSet(Carrying \ {w})
        BY <2>2, <2>3, FS_RemoveElement
      <4>2. Cardinality(Carrying \ {w}) \in Nat
        BY <4>1, FS_CardinalityType
      <4>3. Carrying' = Carrying \ {w} /\ Announcing' = Announcing
        BY <2>2, <3>2
      <4> HIDE DEF TypeInv, TypeOK
      <4> QED BY <2>3, <4>1, <4>2, <4>3
    <3> QED BY <3>1, <3>2
  <2>5. /\ count' = count + 1 /\ count \in Nat /\ MaxEntries \in Nat
        /\ count + Cardinality(Carrying) + Cardinality(Announcing) <= MaxEntries
    BY <1>7, LoggingAssumption DEF Append
  <2>6. /\ count' \in 0..MaxEntries /\ count' \in 1..MaxEntries
        /\ count' + Cardinality(Carrying') + Cardinality(Announcing') <= MaxEntries
    BY <2>3, <2>4, <2>5
  <2>7. file[Active].size + len[w] \in Nat
    <3>1. file[Active].size \in Nat /\ len[w] \in Lengths \cup {0}
      BY <1>0
    <3>2. \A l \in Lengths : l \in Nat
      BY LoggingAssumption
    <3> QED BY <3>1, <3>2
  <2> DEFINE new == [entries |-> file[Active].entries \cup {count'},
                     size |-> file[Active].size + len[w]]
  <2>8. file' = [file EXCEPT ![Active] = new]
    BY <1>7 DEF Append
  <2>9. new \in [entries : SUBSET (1..MaxEntries), size : Nat]
    BY <1>0, <2>6, <2>7
  <2>10. new.entries \subseteq Retained \cup {count'}
    BY <1>0 DEF Retained
  <2> HIDE DEF new
  <2>11. file' \in [Generations -> [entries : SUBSET (1..MaxEntries), size : Nat]]
    BY <2>8, <2>9
  <2>12. Retained' \subseteq Retained \cup {count'}
    BY <1>0, <2>8, <2>10 DEF Retained
  <2>13. Retained' \subseteq 1..count'
    <3>1. \A i \in 1..count : i \in 1..count'
      BY <2>5
    <3>2. count' \in 1..count'
      BY <2>5
    <3> QED BY <2>12, <3>1, <3>2
  <2> QED BY <2>1, <2>6, <2>11, <2>13
<1>8. ASSUME NEW w \in Writers, WriteFails(w) PROVE TypeInv'
  BY <1>5, <1>8 DEF WriteFails, Writing
<1>9. ASSUME NEW w \in Writers, Return(w) \/ Restart(w) PROVE TypeInv'
  <2>1. Local /\ UNCHANGED <<file, count>>
    BY <1>0, <1>9, ZenonT(40) DEF Return, Restart
  <2>2. pc'[w] \notin Writing /\ \A v \in Writers \ {w} : pc'[v] = pc[v] /\ reporting'[v] = reporting[v]
    BY <1>9 DEF Return, Restart, Writing
  <2>3. Fewer
    BY <2>2 DEF Carrying, Announcing
  <2> QED BY <1>b, <2>1, <2>3
<1>10. CASE UNCHANGED vars
  <2>1. Local /\ Fewer /\ UNCHANGED <<file, count>>
    BY <1>10 DEF vars, Carrying, Announcing, Writing
  <2> QED BY <1>b, <2>1
<1> QED
  BY <1>1, <1>2, <1>3, <1>4, <1>6, <1>7, <1>8, <1>9, <1>10 DEF Next

(* Every variable keeps its type, and what the files retain has been appended, *)
(* however many executions write (rotating_file_destination.go:34).            *)
THEOREM TypeCorrect == Spec => []TypeOK
<1>1. Init => TypeInv
  <2> SUFFICES ASSUME Init PROVE TypeInv
    OBVIOUS
  <2>1. Carrying = {} /\ Announcing = {}
    BY DEF Init, Carrying, Announcing, Writing
  <2>2. Cardinality(Carrying) = 0 /\ Cardinality(Announcing) = 0
    BY <2>1, FS_EmptySet
  <2>3. TypeOK
    BY LoggingAssumption DEF Init, TypeOK, Labels, Generations, NoFile, Retained
  <2>4. count = 0 /\ \A w \in Writers : pc[w] # "shift"
    BY DEF Init
  <2> QED
    BY <2>2, <2>3, <2>4, LoggingAssumption DEF TypeInv
<1>2. TypeInv => TypeOK
  BY DEF TypeInv
<1> QED
  BY <1>1, <1>2, TypeInvStep, PTL DEF Spec

-----------------------------------------------------------------------------
(* The files of one execution *)

(* The files have their types. *)
FilesOK ==
  /\ count \in Nat
  /\ file \in [Generations -> [entries : SUBSET Nat, size : Nat]]
  /\ gen \in [Writers -> Generations]

(* Only a missing file counts as empty, and a file larger than the limit     *)
(* contains a single entry.                                                  *)
Sized(f) == (f.size > Limit => Alone(f)) /\ (f.entries = {} <=> f.size = 0)
Bounded  == \A g \in Generations : Sized(file[g])

(* Whatever is on its way to the file has a length. *)
Measured == \A w \in Writers : pc[w] \in Writing => len[w] \in Lengths

(* What the one execution has established before each step: the entry is      *)
(* appended where it fits or to an empty file, a rotation has an active file  *)
(* to archive, and no file is where the next rename goes.                     *)
Prepared ==
  \A w \in Writers :
    /\ pc[w] = "append" => file[Active].entries = {} \/ file[Active].size + len[w] <= Limit
    /\ pc[w] \in {"oldest", "shift", "archive"} => file[Active].entries # {}
    /\ pc[w] = "shift" => gen[w] \in 1..(Archives - 1) /\ file[gen[w] + 1].entries = {}
    /\ pc[w] = "archive" => file[1].entries = {}

FilesInv == LocalOK /\ Carried /\ FilesOK /\ Measured /\ Bounded /\ Prepared

LEMMA MeasuredStep == LocalOK /\ Measured /\ [Next]_vars => Measured'
<1> SUFFICES ASSUME LocalOK, Measured, [Next]_vars PROVE Measured'
  OBVIOUS
<1> USE DEF LocalOK, Measured, Writing, At, Goto, Set
<1>1. ASSUME NEW w \in Writers, Log(w) PROVE Measured'
  BY <1>1 DEF Log
<1>2. ASSUME NEW w \in Writers, Size(w) \/ RemoveOldest(w) \/ Shift(w) PROVE Measured'
  BY <1>2 DEF Size, RemoveOldest, Shift, local
<1>3. ASSUME NEW w \in Writers, ArchiveActive(w) PROVE Measured'
  BY <1>3 DEF ArchiveActive, FileFails, local
<1>4. ASSUME NEW w \in Writers, Append(w) PROVE Measured'
  BY <1>4 DEF Append
<1>5. ASSUME NEW w \in Writers, WriteFails(w) \/ Return(w) \/ Restart(w) PROVE Measured'
  BY <1>5 DEF WriteFails, FileFails, Return, Restart
<1>6. CASE UNCHANGED vars
  BY <1>6 DEF vars
<1> QED
  BY <1>1, <1>2, <1>3, <1>4, <1>5, <1>6 DEF Next

LEMMA SizedNoFile == NoFile \in [entries : SUBSET Nat, size : Nat] /\ Sized(NoFile)
BY LoggingAssumption DEF NoFile, Sized

(* A rename moves a file of the right type and size. *)
LEMMA RenamedFiles ==
  ASSUME FilesOK, Bounded, NEW from \in Generations, NEW to \in Generations, from # to
  PROVE  LET f == Renamed(from, to) IN
         /\ f \in [Generations -> [entries : SUBSET Nat, size : Nat]]
         /\ \A g \in Generations : Sized(f[g])
         /\ \A g \in Generations \ {from, to} : f[g] = file[g]
         /\ Exists(file[from]) => f[from] = NoFile
BY SizedNoFile DEF FilesOK, Bounded, Renamed, Exists

(* Renames that spare the active file, or archive it, keep the files. *)
LEMMA RenamedInv ==
  ASSUME FilesOK, Bounded, NEW from \in Generations, NEW to \in Generations \ {Active},
         from # to, file' = Renamed(from, to), UNCHANGED count, gen' \in [Writers -> Generations]
  PROVE  /\ FilesOK' /\ Bounded'
         /\ from # Active => file'[Active] = file[Active]
         /\ from = Active /\ Exists(file[Active]) => file'[Active] = NoFile
<1>1. Active \in Generations
  BY LoggingAssumption DEF Active, Generations
<1> QED
  BY <1>1, RenamedFiles DEF FilesOK, Bounded

LEMMA FilesStep ==
  ASSUME NEW me, Writers = {me}, FilesInv, [Next]_vars
  PROVE  FilesInv'
<1>1. LocalOK' /\ Carried' /\ Measured'
  BY CarriedStep, MeasuredStep DEF FilesInv
<1>2. /\ LocalOK /\ FilesOK /\ Measured /\ Bounded /\ Prepared
      /\ Active \in Generations
  BY LoggingAssumption DEF FilesInv, Active, Generations
<1>3. /\ file[Active].size \in Nat /\ Limit \in Nat /\ len[me] \in Nat
      /\ file[Active].entries = {} <=> file[Active].size = 0
  <2>1. file[Active] \in [entries : SUBSET Nat, size : Nat]
        /\ (file[Active].entries = {} <=> file[Active].size = 0)
    BY <1>2 DEF FilesOK, Bounded, Sized
  <2>2. len[me] \in Nat
    <3>1. len[me] \in Lengths \cup {0}
      BY <1>2 DEF LocalOK
    <3>2. \A l \in Lengths : l \in Nat
      BY LoggingAssumption
    <3> QED BY <3>1, <3>2
  <2> QED BY <2>1, <2>2, LoggingAssumption
<1> DEFINE Rest == FilesOK' /\ Bounded' /\ Prepared'
<1>4. ASSUME Log(me) PROVE Rest
  BY <1>2, <1>4 DEF Log, LocalOK, FilesOK, Bounded, Prepared, Goto, Set
<1>5. ASSUME Size(me) PROVE Rest
  <2>1. FilesOK' /\ Bounded'
    BY <1>2, <1>5 DEF Size, local, FilesOK, Bounded
  <2>2. Prepared'
    <3>1. CASE pc' = [pc EXCEPT ![me] = "oldest"]
      BY <1>2, <1>3, <1>5, <3>1 DEF Size, local, LocalOK, Bounded, Prepared, Goto
    <3>2. CASE pc' = [pc EXCEPT ![me] = "append"]
      <4>1. ~(file[Active].size > 0 /\ file[Active].size + len[me] > Limit)
        BY <1>2, <1>5, <3>2 DEF Size, Goto, LocalOK
      <4>2. file[Active].entries = {} \/ file[Active].size + len[me] <= Limit
        BY <1>3, <4>1
      <4> QED BY <1>2, <1>5, <3>2, <4>2 DEF Size, local, LocalOK, Prepared
    <3> QED
      BY <1>5, <3>1, <3>2 DEF Size, Goto
  <2> QED BY <2>1, <2>2
<1>6. ASSUME RemoveOldest(me) PROVE Rest
  <2>1. /\ file' = [file EXCEPT ![Archives] = NoFile] /\ gen' = [gen EXCEPT ![me] = Archives - 1]
        /\ pc' = [pc EXCEPT ![me] = IF Archives = 1 THEN "archive" ELSE "shift"]
        /\ UNCHANGED <<count, len>> /\ file[Active].entries # {}
        /\ Archives \in Nat \ {0}
    BY <1>2, <1>6, LoggingAssumption DEF RemoveOldest, Prepared, At, Goto, Set
  <2>2. FilesOK' /\ Bounded'
    <3>1. gen' \in [Writers -> Generations]
      BY <1>2, <2>1, LoggingAssumption DEF FilesOK, Generations
    <3> QED BY <1>2, <2>1, <3>1, SizedNoFile DEF FilesOK, Bounded
  <2>3. file'[Archives].entries = {} /\ file'[Active].entries # {}
    BY <1>2, <2>1 DEF FilesOK, NoFile, Generations, Active
  <2>4. /\ pc'[me] = IF Archives = 1 THEN "archive" ELSE "shift"
        /\ gen'[me] = Archives - 1
    BY <1>2, <2>1 DEF LocalOK, FilesOK
  <2>5. Prepared'
    <3>1. CASE Archives = 1
      BY <2>3, <2>4, <3>1 DEF Prepared
    <3>2. CASE Archives # 1
      <4>1. pc'[me] = "shift" /\ gen'[me] \in 1..(Archives - 1) /\ gen'[me] + 1 = Archives
        BY <2>1, <2>4, <3>2
      <4> QED BY <2>3, <4>1 DEF Prepared
    <3> QED BY <3>1, <3>2
  <2> QED BY <2>2, <2>5
<1>7. ASSUME Shift(me) PROVE Rest
  <2>1. gen[me] \in 1..(Archives - 1)
    BY <1>2, <1>7 DEF Shift, Prepared, At
  <2>2. gen' \in [Writers -> Generations]
    BY <1>2, <1>7, <2>1, LoggingAssumption DEF Shift, Set, FilesOK, Generations
  <2>3. /\ gen[me] \in Generations \ {Active} /\ gen[me] + 1 \in Generations \ {Active}
        /\ gen[me] # gen[me] + 1
    BY <2>1, LoggingAssumption DEF Generations, Active
  <2>4. FilesOK' /\ Bounded' /\ file'[Active] = file[Active]
    BY <1>2, <1>7, <2>2, <2>3, RenamedInv DEF Shift
  <2>5. file'[gen[me]].entries = {}
    <3>1. CASE Exists(file[gen[me]])
      BY <1>2, <1>7, <2>3, <3>1, RenamedFiles DEF Shift, NoFile
    <3>2. CASE ~Exists(file[gen[me]])
      BY <1>7, <3>2 DEF Shift, Renamed, Exists
    <3> QED BY <3>1, <3>2
  <2>6. Prepared'
    <3>1. /\ file'[Active].entries # {} /\ pc' = [pc EXCEPT ![me] = IF gen[me] = 1 THEN "archive" ELSE "shift"]
          /\ gen' = [gen EXCEPT ![me] = gen[me] - 1]
      BY <1>2, <1>7, <2>4 DEF Shift, Prepared, At, Goto, Set
    <3>2. CASE gen[me] = 1
      BY <1>2, <2>5, <3>1, <3>2 DEF LocalOK, Prepared
    <3>3. CASE gen[me] # 1
      <4>1. /\ pc'[me] = "shift" /\ gen'[me] + 1 = gen[me]
            /\ gen'[me] \in 1..(Archives - 1)
        BY <1>2, <2>1, <3>1, <3>3, LoggingAssumption DEF LocalOK, FilesOK
      <4> QED BY <2>5, <3>1, <4>1 DEF Prepared
    <3> QED BY <3>2, <3>3
  <2> QED BY <2>4, <2>6
<1>8. ASSUME FileFails(me), "file" \in Faults PROVE Rest
  BY <1>2, <1>8 DEF FileFails, LocalOK, FilesOK, Bounded, Prepared, Goto
<1>9. ASSUME ArchiveActive(me) PROVE Rest
  <2>1. Exists(file[Active])
    BY <1>2, <1>9 DEF ArchiveActive, Prepared, Exists, At
  <2>2. /\ file' = Renamed(Active, 1) /\ Goto(me, "append") /\ UNCHANGED <<count, local>>
        /\ 1 \in Generations \ {Active} /\ Active # 1
    BY <1>9, <2>1, LoggingAssumption DEF ArchiveActive, Generations, Active
  <2>3. FilesOK' /\ Bounded' /\ file'[Active] = NoFile
    <3>1. UNCHANGED count /\ gen' \in [Writers -> Generations]
      BY <1>2, <2>2 DEF local, FilesOK
    <3> QED BY <1>2, <2>1, <2>2, <3>1, RenamedInv
  <2>4. Prepared'
    BY <1>2, <1>3, <2>2, <2>3 DEF LocalOK, Prepared, NoFile, Goto, local
  <2> QED BY <2>3, <2>4
<1>10. ASSUME Append(me) PROVE Rest
  <2>1. /\ file[Active].size + len[me] \in Nat /\ file[Active].size + len[me] > 0
        /\ file[Active].entries = {} \/ file[Active].size + len[me] <= Limit
        /\ file[Active].entries \in SUBSET Nat /\ count' \in Nat
    <3>1. len[me] \in Lengths
      BY <1>2, <1>10 DEF Append, At, Measured, Writing
    <3>2. len[me] \in Nat \ {0}
      BY <3>1, LoggingAssumption
    <3>3. file[Active].entries = {} \/ file[Active].size + len[me] <= Limit
      BY <1>2, <1>10 DEF Append, At, Prepared
    <3>4. file[Active].entries \in SUBSET Nat /\ count' \in Nat
      BY <1>2, <1>10 DEF Append, FilesOK
    <3> QED BY <1>3, <3>2, <3>3, <3>4
  <2>2. file' = [file EXCEPT ![Active] = [entries |-> file[Active].entries \cup {count'},
                                          size |-> file[Active].size + len[me]]]
    BY <1>10 DEF Append
  <2>3. FilesOK' /\ Bounded'
    <3> DEFINE new == [entries |-> file[Active].entries \cup {count'},
                       size |-> file[Active].size + len[me]]
    <3>1. new \in [entries : SUBSET Nat, size : Nat] /\ Sized(new)
      <4>1. file[Active].entries = {} => Alone(new)
        BY DEF Alone
      <4> QED BY <1>3, <2>1, <4>1 DEF Sized
    <3> HIDE DEF new
    <3>2. file' = [file EXCEPT ![Active] = new]
      BY <2>2 DEF new
    <3>3. FilesOK'
      BY <1>2, <1>10, <2>1, <3>1, <3>2 DEF Append, FilesOK
    <3>4. \A g \in Generations : file'[g] = new \/ file'[g] = file[g]
      BY <1>2, <3>2 DEF FilesOK
    <3> QED BY <1>2, <3>1, <3>3, <3>4 DEF Bounded
  <2>4. Prepared'
    BY <1>2, <1>10 DEF Append, LocalOK, Prepared, Goto
  <2> QED BY <2>3, <2>4
<1>11. ASSUME WriteFails(me) PROVE Rest
  BY <1>8, <1>11 DEF WriteFails
<1>12. ASSUME Return(me) \/ Restart(me) PROVE Rest
  <2>1. FilesOK' /\ Bounded'
    BY <1>2, <1>12, LoggingAssumption DEF Return, Restart, FilesOK, Bounded, Set, Generations
  <2>2. Prepared'
    BY <1>2, <1>12 DEF Return, Restart, LocalOK, Prepared, Goto, Set
  <2> QED BY <2>1, <2>2
<1>13. ASSUME UNCHANGED vars PROVE Rest
  BY <1>2, <1>13 DEF vars, FilesOK, Bounded, Prepared
<1> HIDE DEF Rest
<1>14. Rest
  BY <1>4, <1>5, <1>6, <1>7, <1>9, <1>10, <1>11, <1>12, <1>13 DEF Next
<1> QED
  BY <1>1, <1>14 DEF FilesInv, Rest

(* The files of one execution. *)
THEOREM FilesInvariant == ASSUME NEW me, Writers = {me} PROVE Spec => []FilesInv
<1>1. Init => FilesInv
  BY LoggingAssumption
  DEF Init, FilesInv, LocalOK, Carried, FilesOK, Measured, Writing, Bounded, Sized, Prepared, Labels, Generations,
      Active, NoFile
<1>2. FilesInv /\ [Next]_vars => FilesInv'
  BY FilesStep
<1> QED
  BY <1>1, <1>2, PTL DEF Spec

(* With one execution no file is filled beyond the limit: only an entry that  *)
(* is longer than the limit outgrows it, alone in its file.  RF-08            *)
(* (rotating_file_destination.go:38).                                         *)
THEOREM SizesStayBounded == ASSUME NEW me, Writers = {me} PROVE Spec => []SizeBounded
<1>1. FilesInv => SizeBounded
  BY DEF FilesInv, Bounded, Sized, SizeBounded
<1> QED
  BY <1>1, FilesInvariant, PTL

(* With one execution rotation never stops the recording: RF-08               *)
(* (rotating_file_destination.go:97).                                         *)
THEOREM RecordingGoesOn == ASSUME NEW me, Writers = {me} PROVE Spec => []RotationFindsFile
<1>1. FilesInv => RotationFindsFile
  BY DEF FilesInv, Prepared, RotationFindsFile, At, Exists
<1> QED
  BY <1>1, FilesInvariant, PTL

(* With one execution no rename overwrites a log file, also after an earlier  *)
(* rotation was interrupted (rotating_file_destination.go:89-97).             *)
THEOREM RenamesLoseNothing == ASSUME NEW me, Writers = {me} PROVE Spec => []RenamesSpare
<1>1. FilesInv => RenamesSpare
  BY DEF FilesInv, Prepared, RenamesSpare, At, Exists
<1> QED
  BY <1>1, FilesInvariant, PTL

-----------------------------------------------------------------------------
(* What rotation gives up *)

(* An archive holds only what is older than every file before it. *)
Ordered ==
  \A g, h \in Generations :
    g < h => \A x \in file[h].entries, y \in file[g].entries : x < y

OrderInv == TypeOK /\ Prepared /\ Ordered /\ OldestLostFirst

(* Moving a file up into an empty place keeps the order and what is retained. *)
LEMMA RenamedOrder ==
  ASSUME OrderInv, NEW g \in Generations, g + 1 \in Generations,
         file[g + 1].entries = {}, file' = Renamed(g, g + 1), count' = count
  PROVE  Ordered' /\ OldestLostFirst'
<1> USE DEF OrderInv
<1>0. Generations \subseteq Nat
  BY LoggingAssumption DEF Generations
<1>1. CASE ~Exists(file[g])
  BY <1>1 DEF Renamed, Ordered, OldestLostFirst, Retained
<1>2. CASE Exists(file[g])
  <2>1. /\ file' = [file EXCEPT ![g + 1] = file[g], ![g] = NoFile]
        /\ g # g + 1
    BY <1>0, <1>2 DEF Renamed
  <2>2. /\ file'[g + 1].entries = file[g].entries /\ file'[g].entries = {}
        /\ \A h \in Generations \ {g, g + 1} : file'[h] = file[h]
    BY <2>1 DEF TypeOK, NoFile
  <2>3. Ordered'
    <3> SUFFICES ASSUME NEW a \in Generations, NEW b \in Generations, a < b,
                        NEW x \in file'[b].entries, NEW y \in file'[a].entries
                 PROVE  x < y
      BY DEF Ordered
    <3>0. a \in Nat /\ b \in Nat /\ g \in Nat
      BY <1>0
    <3>1. a # g /\ b # g
      BY <2>2
    <3>2. CASE b = g + 1
      <4>1. x \in file[g].entries /\ y \in file[a].entries /\ a < g
        BY <2>2, <3>0, <3>1, <3>2
      <4> QED BY <4>1 DEF Ordered
    <3>3. CASE a = g + 1
      <4>1. x \in file[b].entries /\ y \in file[g].entries /\ g < b
        BY <2>2, <3>0, <3>1, <3>3
      <4> QED BY <4>1 DEF Ordered
    <3>4. CASE a # g + 1 /\ b # g + 1
      BY <2>2, <3>1, <3>4 DEF Ordered
    <3> QED BY <3>2, <3>3, <3>4
  <2>4. Retained' = Retained
    <3>1. ASSUME NEW e \in Retained PROVE e \in Retained'
      <4>1. PICK h \in Generations : e \in file[h].entries
        BY DEF Retained
      <4>2. CASE h = g
        BY <2>2, <4>1, <4>2 DEF Retained
      <4>3. CASE h # g
        BY <2>2, <4>1, <4>3 DEF Retained
      <4> QED BY <4>2, <4>3
    <3>2. ASSUME NEW e \in Retained' PROVE e \in Retained
      <4>1. PICK h \in Generations : e \in file'[h].entries
        BY DEF Retained
      <4>2. CASE h = g + 1
        BY <2>2, <4>1, <4>2 DEF Retained
      <4>3. CASE h # g + 1
        BY <2>2, <4>1, <4>3 DEF Retained
      <4> QED BY <4>2, <4>3
    <3> QED BY <3>1, <3>2
  <2> QED BY <2>3, <2>4 DEF OldestLostFirst
<1> QED BY <1>1, <1>2

LEMMA OrderStep ==
  ASSUME NEW me, Writers = {me}, OrderInv, TypeOK', Prepared', [Next]_vars
  PROVE  OrderInv'
<1> USE DEF OrderInv
<1>0. /\ Generations \subseteq Nat /\ Active \in Generations /\ Archives \in Generations
      /\ \A g \in Generations : g <= Archives
  BY LoggingAssumption DEF Generations, Active
<1> DEFINE Rest == Ordered' /\ OldestLostFirst'
<1>1. ASSUME UNCHANGED <<file, count>> PROVE Rest
  BY <1>1 DEF Ordered, OldestLostFirst, Retained
<1>2. ASSUME RemoveOldest(me) PROVE Rest
  <2>1. /\ file' = [file EXCEPT ![Archives] = NoFile] /\ count' = count
        /\ file'[Archives].entries = {}
        /\ \A g \in Generations \ {Archives} : file'[g] = file[g]
    BY <1>0, <1>2 DEF RemoveOldest, TypeOK, NoFile
  <2>2. Ordered'
    BY <2>1 DEF Ordered
  <2>3. OldestLostFirst'
    <3> SUFFICES ASSUME NEW lost \in (1..count) \ Retained', NEW r \in Retained'
                 PROVE  lost < r
      BY <2>1 DEF OldestLostFirst
    <3>1. PICK g \in Generations \ {Archives} : r \in file[g].entries
      BY <2>1 DEF Retained
    <3>2. CASE lost \in file[Archives].entries
      <4>1. g < Archives
        BY <1>0
      <4> QED BY <1>0, <3>1, <3>2, <4>1 DEF Ordered
    <3>3. CASE lost \notin file[Archives].entries
      <4>1. lost \notin Retained
        BY <2>1, <3>3 DEF Retained
      <4>2. r \in Retained
        BY <3>1 DEF Retained
      <4> QED BY <4>1, <4>2 DEF OldestLostFirst
    <3> QED BY <3>2, <3>3
  <2> QED BY <2>2, <2>3
<1>3. ASSUME Shift(me) PROVE Rest
  <2>1. gen[me] \in 1..(Archives - 1) /\ file[gen[me] + 1].entries = {}
    BY <1>3 DEF Shift, Prepared, At
  <2>2. gen[me] \in Generations /\ gen[me] + 1 \in Generations
    BY <2>1, LoggingAssumption DEF Generations
  <2> QED BY <1>3, <2>1, <2>2, RenamedOrder DEF Shift
<1>4. ASSUME ArchiveActive(me) PROVE Rest
  <2>1. CASE Exists(file[Active])
    <3>1. /\ Active + 1 = 1 /\ 1 \in Generations /\ file[1].entries = {}
          /\ file' = Renamed(Active, 1) /\ count' = count
      BY <1>4, <2>1, LoggingAssumption DEF ArchiveActive, Generations, Active, Prepared, At
    <3> QED BY <1>0, <3>1, RenamedOrder
  <2>2. CASE ~Exists(file[Active])
    BY <1>1, <1>4, <2>2 DEF ArchiveActive, FileFails
  <2> QED BY <2>1, <2>2
<1>5. ASSUME Append(me) PROVE Rest
  <2>1. /\ count' = count + 1 /\ count \in Nat
        /\ file'[Active].entries = file[Active].entries \cup {count'}
        /\ \A g \in Generations \ {Active} : file'[g] = file[g]
    BY <1>0, <1>5 DEF Append, TypeOK
  <2>2. \A e \in Retained : e \in Nat /\ e < count'
    <3>1. \A e \in 1..count : e \in Nat /\ e < count'
      BY <2>1
    <3> QED BY <3>1 DEF TypeOK
  <2>3. \A g \in Generations : file[g].entries \subseteq Retained
    BY DEF Retained
  <2>4. Ordered'
    <3> SUFFICES ASSUME NEW g \in Generations, NEW h \in Generations, g < h,
                        NEW x \in file'[h].entries, NEW y \in file'[g].entries
                 PROVE  x < y
      BY DEF Ordered
    <3>1. h # Active
      BY <1>0 DEF Active
    <3>2. x \in file[h].entries
      BY <2>1, <3>1
    <3>3. CASE y = count'
      BY <2>2, <2>3, <3>2, <3>3
    <3>4. CASE y # count'
      BY <2>1, <3>2, <3>4 DEF Ordered
    <3> QED BY <3>3, <3>4
  <2>5. OldestLostFirst'
    <3>1. Retained' = Retained \cup {count'}
      BY <1>0, <2>1 DEF Retained
    <3>2. ASSUME NEW lost \in (1..count') \ Retained', NEW r \in Retained'
          PROVE  lost < r
      <4>1. lost \in (1..count) \ Retained
        BY <2>1, <3>1, <3>2
      <4>2. CASE r = count'
        BY <2>1, <4>1, <4>2
      <4>3. CASE r \in Retained
        BY <4>1, <4>3 DEF OldestLostFirst
      <4> QED BY <3>1, <4>2, <4>3
    <3> QED BY <3>2 DEF OldestLostFirst
  <2> QED BY <2>4, <2>5
<1>6. ASSUME Log(me) \/ Size(me) \/ WriteFails(me) \/ Return(me) \/ Restart(me) PROVE Rest
  BY <1>1, <1>6 DEF Log, Size, WriteFails, FileFails, Return, Restart
<1>7. ASSUME UNCHANGED vars PROVE Rest
  BY <1>1, <1>7 DEF vars
<1> HIDE DEF Rest
<1>8. ASSUME Next PROVE Rest
  <2>1. \/ Log(me) \/ Size(me) \/ RemoveOldest(me) \/ Shift(me) \/ ArchiveActive(me) \/ Append(me)
        \/ WriteFails(me) \/ Return(me) \/ Restart(me)
    BY <1>8 DEF Next
  <2> QED BY <2>1, <1>2, <1>3, <1>4, <1>5, <1>6
<1> QED BY <1>7, <1>8 DEF Rest

(* With one execution what rotation gives up is older than everything it     *)
(* retains, whatever fails and wherever an earlier execution was interrupted: *)
(* RF-09 (rotating_file_destination.go:83).                                   *)
THEOREM OldestIsLostFirst == ASSUME NEW me, Writers = {me} PROVE Spec => []OldestLostFirst
<1>1. Init => OrderInv
  BY LoggingAssumption
  DEF Init, OrderInv, TypeOK, Labels, Prepared, Ordered, OldestLostFirst, Retained, Generations, NoFile
<1>2. OrderInv /\ TypeOK' /\ FilesInv' /\ [Next]_vars => OrderInv'
  BY OrderStep DEF FilesInv
<1>3. OrderInv => OldestLostFirst
  BY DEF OrderInv
<1> QED
  BY <1>1, <1>2, <1>3, TypeCorrect, FilesInvariant, PTL DEF Spec
=============================================================================
