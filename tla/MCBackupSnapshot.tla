-------------------------- MODULE MCBackupSnapshot --------------------------
(* BackupSnapshot with a directory, an entry in it and an entry beside it. *)
EXTENDS BackupSnapshot

CONSTANTS d, dx, f

SomePaths   == {d, dx, f}
SomeInside  == [p \in SomePaths |-> IF p = d THEN {dx} ELSE {}]
SomeListing == <<d, dx, f>>
=============================================================================
