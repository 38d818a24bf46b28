-------------------------- MODULE MCRemoteSession --------------------------
(* RemoteSession with two keys, four lines and short paths for TLC. *)
EXTENDS RemoteSession

CONSTANTS k1, k2, a, b

TheRoot == <<a>>

LineOf(marker, negated, key) ==
  [marker |-> marker, positive |-> TRUE, negated |-> negated, key |-> key]

(* A line for one key, its revocation, a line for the other key, and one that *)
(* a negated pattern takes the host out of.                                   *)
SomeLines == {LineOf("", FALSE, k1), LineOf("@revoked", FALSE, k1), LineOf("", FALSE, k2),
              LineOf("", TRUE, k1)}

(* One path of each kind, and pairs of names that must not meet. *)
SomePaths ==
  {<<>>, <<b>>, <<b, ".">>, <<a, "..", b>>, <<"..", a>>, <<"Spelled">>, <<"Encoded", a>>, <<"Nested">>,
   <<"Literal", "Encoded">>, <<"Separator">>, <<"Odd">>, <<b, "">>}
=============================================================================
