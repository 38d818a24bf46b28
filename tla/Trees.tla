------------------------------- MODULE Trees -------------------------------
(* The relative paths of a directory tree and the order they are listed in. *)
EXTENDS Integers, Sequences, FiniteSets

CONSTANTS
  Paths,    \* relative paths
  Inside,   \* the paths below each path
  Listing   \* the paths as sort.Strings orders them

ASSUME PathAssumption ==
  /\ Inside \in [Paths -> SUBSET Paths]
  /\ \A p \in Paths : p \notin Inside[p] /\ \A q \in Inside[p] : Inside[q] \subseteq Inside[p]
  /\ \A p, q \in Paths : Inside[p] \cap Inside[q] # {} => p = q \/ p \in Inside[q] \/ q \in Inside[p]
  /\ \A i, j \in DOMAIN Listing : i < j => Listing[i] \notin Inside[Listing[j]]
  /\ IsFiniteSet(Paths) /\ Listing \in Seq(Paths)
  /\ {Listing[i] : i \in DOMAIN Listing} = Paths /\ Len(Listing) = Cardinality(Paths)

Ancestors(p) == {a \in Paths : p \in Inside[a]}

(* The entries of the root, and of a directory. *)
Tops == {p \in Paths : Ancestors(p) = {}}
Children(p) == {q \in Paths : q \in Inside[p] /\ ~ \E r \in Inside[p] : q \in Inside[r]}

(* A set of paths as sort.Strings and os.ReadDir list it. *)
Rank(S, p) == Cardinality({q \in S : \E i, j \in DOMAIN Listing :
                             i <= j /\ Listing[i] = q /\ Listing[j] = p})
InOrder(S) == [i \in 1..Cardinality(S) |-> CHOOSE p \in S : Rank(S, p) = i]
=============================================================================
