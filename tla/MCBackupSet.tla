---------------------------- MODULE MCBackupSet ----------------------------
(* BackupSet on a small instance for TLC. *)
EXTENDS BackupSet, TLC

(* Identifiers, inventories and sources are compared for equality only. *)
Symmetry == Permutations(Ids) \cup Permutations(Contents) \cup Permutations(Sources)
=============================================================================
