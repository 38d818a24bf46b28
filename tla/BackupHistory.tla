--------------------------- MODULE BackupHistory ---------------------------
(***************************************************************************)
(* What the BACKUP mode promises about one destination, with the steps of  *)
(* a cycle left out: an ordered history of confirmed versions that grows   *)
(* at its newest end and shrinks at its oldest end, and shrinks only when  *)
(* more versions are kept than the running execution's retention count.    *)
(* BackupSet implements it.                                                *)
(***************************************************************************)
EXTENDS Integers, FiniteSets

CONSTANT MaxRetention

VARIABLES
  kept,    \* the confirmed versions, records with an "order"
  next,    \* the order of the next version to be confirmed
  limit    \* the retention count in force

vars == <<kept, next, limit>>

Newer(v) == {w \in kept : w.order > v.order}

Init ==
  /\ kept = {}
  /\ next = 1
  /\ limit \in 1..MaxRetention

(* A new version enters above every version ever confirmed. *)
Confirm ==
  /\ \E v \in kept' : kept' = kept \cup {v} /\ v.order = next
  /\ next' = next + 1
  /\ UNCHANGED limit

(* The oldest version leaves, and only if enough newer ones stay. *)
Expire ==
  /\ \E v \in kept :
        /\ \A w \in kept : v.order <= w.order
        /\ Cardinality(Newer(v)) >= limit
        /\ kept' = kept \ {v}
  /\ UNCHANGED <<next, limit>>

(* A later execution loads another retention count. *)
Reconfigure ==
  /\ limit' \in 1..MaxRetention
  /\ UNCHANGED <<kept, next>>

Next == Confirm \/ Expire \/ Reconfigure

Spec == Init /\ [][Next]_vars
=============================================================================
