-------------------------- MODULE MCDirectorySync --------------------------
(* DirectorySync on small sets of paths for TLC. *)
EXTENDS DirectorySync

CONSTANTS d, df, g, c1, c2

(* A directory with one entry; two paths side by side. *)
TwoPaths   == {d, df}
TwoInside  == [p \in TwoPaths |-> IF p = d THEN {df} ELSE {}]
TwoListing == <<d, df>>

FlatPaths   == {d, g}
FlatInside  == [p \in FlatPaths |-> {}]
FlatListing == <<d, g>>

NoFile   == [kind |-> "none", content |-> NoContent, mtime |-> 0]
Dir      == [kind |-> "dir", content |-> NoContent, mtime |-> 0]
Files    == [kind : {"file"}, content : Contents, mtime : {0, 1}]
(* Files as old as the clock at the start. *)
OldFiles == [kind : {"file"}, content : Contents, mtime : {1}]

(* Every tree over the paths whose entries are taken from a set. *)
TreesOf(entries) ==
  {t \in [Paths -> entries] :
     \A p \in Paths : \A q \in Inside[p] : t[q].kind # "none" => t[p].kind = "dir"}

AllTrees  == TreesOf({NoFile, Dir} \cup Files)
DirTrees  == TreesOf({NoFile, Dir} \cup OldFiles)
FileTrees == TreesOf({NoFile} \cup OldFiles)

(* The paths of a record are those of a tree. *)
AllRecords ==
  {[found |-> TRUE, paths |-> ps] : ps \in {ps \in SUBSET Paths :
                                              \A p \in Paths : p \in ps \/ Inside[p] \cap ps = {}}}
    \cup {[found |-> FALSE, paths |-> {}]}
KnownRecords == {r \in AllRecords : r.found}
=============================================================================
