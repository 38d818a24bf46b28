---------------------------- MODULE RemotePaths ----------------------------
(***************************************************************************)
(* The paths of a remote destination: validateRemoteDirectoryPath,         *)
(* validateRemotePathEscaping, newRemoteRelativePath and resolvePath.      *)
(*                                                                         *)
(* A path is the sequence of its segments.  Spelled is a segment whose     *)
(* percent escapes stand for a name, Encoded one whose escapes stand for   *)
(* "..", and Nested one whose escapes stand for Encoded; Separator holds   *)
(* an encoded separator, Literal a percent sign that begins no escape, Odd *)
(* a backslash, a control character or bytes that are not UTF-8.           *)
(***************************************************************************)
EXTENDS Integers, Sequences

CONSTANTS
  Names,   \* segments that are nothing but names
  Spelt,   \* the name that Spelled stands for
  Root     \* the directory the destination URL selects

Segments == Names \cup {"", ".", "..", "Spelled", "Encoded", "Nested", "Separator", "Literal", "Odd"}

Depth == 2   \* the deepest nesting of escapes among the segments

(* url.PathUnescape of one segment. *)
Decoded(s) == CASE s = "Nested" -> "Encoded" [] s = "Encoded" -> ".."
                [] s = "Spelled" -> Spelt [] s = "Separator" -> "Odd" [] OTHER -> s

(* The candidate of validateRemotePathEscaping after some rounds. *)
Candidate(p, round) ==
  [i \in DOMAIN p |-> CASE round = 0 -> p[i] [] round = 1 -> Decoded(p[i])
                        [] OTHER -> Decoded(Decoded(p[i]))]

Has(p, s) == \E i \in DOMAIN p : p[i] = s

(* validateRemoteDirectoryPath *)
ValidDirectory(p) ==
  /\ p # <<>>
  /\ \A i \in DOMAIN p : p[i] \notin {"", ".", "..", "Odd"}

(* validateRemotePathEscaping: the rounds go on while the candidate can be    *)
(* decoded.                                                                   *)
ValidEscaping(p) ==
  \A round \in 0..Depth :
    (\A earlier \in 0..round - 1 : ~Has(Candidate(p, earlier), "Literal")) =>
      /\ ~Has(Candidate(p, round), "Separator")
      /\ ~Has(Candidate(p, round), "Literal") =>
           ValidDirectory([i \in DOMAIN p |-> Decoded(Candidate(p, round)[i])])

(* Mutant: a relative path is only looked at for odd characters. *)
OddlyRelative(p) == p # <<>> /\ ~Has(p, "Odd")

(* newRemoteRelativePath *)
ValidRelative(p) == ValidDirectory(p) /\ ValidEscaping(p)

(* path.Join with an absolute directory: dot segments are resolved. *)
Joined(root, p) ==
  LET clean[n \in 0..Len(p)] ==
        IF n = 0 THEN root
        ELSE IF p[n] \in {"", "."} THEN clean[n - 1]
        ELSE IF p[n] = ".." THEN IF clean[n - 1] = <<>> THEN <<>>
                                 ELSE SubSeq(clean[n - 1], 1, Len(clean[n - 1]) - 1)
        ELSE Append(clean[n - 1], p[n])
  IN  clean[Len(p)]

Under(root, p) == Len(p) > Len(root) /\ SubSeq(p, 1, Len(root)) = root

Refused == <<"refused">>

(* resolvePath: the path an operation is asked for, or a refusal. *)
Resolve(p, allowRoot) ==
  IF p = <<>> THEN IF allowRoot THEN Root ELSE Refused
  ELSE IF ValidRelative(p) /\ Under(Root, Joined(Root, p)) THEN Joined(Root, p) ELSE Refused

ASSUME RemotePathAssumption ==
  /\ Names \cap {"", ".", "..", "Spelled", "Encoded", "Nested", "Separator", "Literal", "Odd",
                "refused"} = {}
  /\ Spelt \in Names
  /\ Root \in Seq(Segments) /\ ValidDirectory(Root) /\ ValidEscaping(Root)
=============================================================================
