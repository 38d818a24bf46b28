------------------------ MODULE RemoteSessionProofs ------------------------
(***************************************************************************)
(* Proofs about RemoteSession: credentials go only where the user's file   *)
(* says, every session is closed once, and a call names what was asked     *)
(* for, for any keys, lines, paths and number of changes.                  *)
(***************************************************************************)
EXTENDS RemoteSession, SequenceTheorems, WellFoundedInduction, TLAPS

(* What the check has read so far, of a content the user's file has had unless *)
(* it is rewritten while it is being read.                                     *)
Scanned ==
  /\ ~rewritten => handle \in seen
  /\ "trusted" \in notes => \E i \in 1..at : Vouches(handle[i], presented)
  /\ \A i \in 1..at : Revokes(handle[i], presented) => "revoked" \in notes

(* The inductive invariant: nothing has been sent while the check goes on,   *)
(* what it has noted is so, and the file is closed when it has ended.        *)
TrustInv ==
  /\ handle \in Seq(Lines) /\ at \in 0..Len(handle) /\ known.lines \in Seq(Lines)
  /\ current => pc = "scan" /\ (~rewritten => handle = known.lines)
  /\ pc = "scan" => Scanned
  /\ pc \in {"checks", "trust", "scan", "recognized"} => sentTo = NoKey
  /\ pc = "recognized" /\ ~rewritten => \E lines \in seen : Recognizes(lines, presented)
  /\ CredentialsFollowTrust

-----------------------------------------------------------------------------
(* One more line of the file. *)
LEMMA LineScanned ==
  ASSUME TrustInv, ScanLine
  PROVE  Scanned'
<1> USE DEF TrustInv, Scanned
<1>1. at < Len(handle) /\ at' = at + 1 /\ handle' = handle /\ presented' = presented
      /\ seen' = seen /\ rewritten' = rewritten /\ notes' = notes \cup Notes(handle[at + 1], presented)
      /\ at \in Nat /\ Scanned
  BY DEF ScanLine, At, history
<1>2. ASSUME "trusted" \in notes'
      PROVE  \E i \in 1..at' : Vouches(handle'[i], presented')
  <2>1. CASE "trusted" \in notes
    BY <1>1, <2>1
  <2>2. CASE "trusted" \in Notes(handle[at + 1], presented)
    <3>1. Vouches(handle[at + 1], presented)
      BY <2>2 DEF Notes
    <3> QED
      BY <1>1, <3>1
  <2> QED
    BY <1>1, <1>2, <2>1, <2>2
<1>3. ASSUME NEW i \in 1..at', Revokes(handle'[i], presented')
      PROVE  "revoked" \in notes'
  <2>1. CASE i \in 1..at
    BY <1>1, <1>3, <2>1
  <2>2. CASE i = at + 1
    BY <1>1, <1>3, <2>2 DEF Notes
  <2> QED
    BY <1>1, <2>1, <2>2
<1> QED
  BY <1>1, <1>2, <1>3

(* A file that has been read to its end and trusts the key recognizes it. *)
LEMMA ScanRecognizes ==
  ASSUME TrustInv, pc = "scan", at = Len(handle), Verdict = "recognized", ~rewritten
  PROVE  \E lines \in seen : Recognizes(lines, presented)
<1>1. "trusted" \in notes /\ "revoked" \notin notes
  BY DEF Verdict
<1>2. DOMAIN handle = 1..at
  BY DEF TrustInv
<1>3. Recognizes(handle, presented)
  BY <1>1, <1>2 DEF TrustInv, Scanned, Recognizes
<1> QED
  BY <1>3 DEF TrustInv, Scanned

(* The lines that have been read stay as they are. *)
LEMMA ReadKeepsScanned ==
  ASSUME Scanned, at \in Nat, UNCHANGED <<presented, notes, at>>,
         \A i \in 1..at : handle'[i] = handle[i], ~rewritten' => handle' \in seen'
  PROVE  Scanned'
BY DEF Scanned

LEMMA ContentsAreLines == Contents \subseteq Seq(Lines)
<1> SUFFICES ASSUME NEW n \in 0..MaxLines, NEW lines \in [1..n -> Lines] PROVE lines \in Seq(Lines)
  BY DEF Contents
<1>1. n \in Nat
  BY RemoteAssumption
<1> QED
  BY <1>1

(* The user adds a line, also while the file is being read. *)
LEMMA AppendKeepsTrust ==
  ASSUME TrustInv, AppendLine
  PROVE  TrustInv'
<1>1. PICK line \in Lines, read \in Lines :
        /\ known' = [state |-> "readable", lines |-> Append(known.lines, line)]
        /\ \/ current /\ (rewritten \/ read = line) /\ handle' = Append(handle, read)
           \/ (rewritten \/ ~current) /\ handle' = handle
  BY DEF AppendLine
<1>2. /\ seen' = IF current THEN seen \cup {known'.lines} ELSE seen
      /\ UNCHANGED <<pc, presented, notes, at, sentTo, current, rewritten>>
  BY DEF AppendLine, Inside
<1>3. known'.lines = Append(known.lines, line)
  BY <1>1
<1>4. known'.lines \in Seq(Lines)
  BY <1>3 DEF TrustInv
<1>5. handle' \in Seq(Lines) /\ Len(handle') >= Len(handle)
      /\ \A i \in 1..Len(handle) : handle'[i] = handle[i]
  <2>1. CASE handle' = Append(handle, read)
    BY <2>1 DEF TrustInv
  <2>2. CASE handle' = handle
    BY <2>2 DEF TrustInv
  <2> QED
    BY <1>1, <2>1, <2>2
<1>6. seen \subseteq seen'
  BY <1>2
<1>7. pc = "scan" => Scanned'
  <2> SUFFICES ASSUME pc = "scan" PROVE Scanned'
    OBVIOUS
  <2>1. ~rewritten' => handle' \in seen'
    BY <1>1, <1>2, <1>3, <1>6 DEF TrustInv, Scanned
  <2> QED
    BY <1>2, <1>5, <2>1, ReadKeepsScanned DEF TrustInv
<1>8. current' => pc' = "scan" /\ (~rewritten' => handle' = known'.lines)
  BY <1>1, <1>2, <1>3 DEF TrustInv
<1>9. at' \in 0..Len(handle')
  BY <1>2, <1>5 DEF TrustInv
<1> QED
  BY <1>2, <1>4, <1>5, <1>6, <1>7, <1>8, <1>9 DEF TrustInv, CredentialsFollowTrust

(* The open file is rewritten: the check keeps the lines it has buffered. *)
LEMMA RewriteKeepsTrust ==
  ASSUME TrustInv, RewriteFile
  PROVE  TrustInv'
<1>0. PICK lines \in Contents :
        /\ known' = [state |-> "readable", lines |-> lines] /\ seen' = seen \cup {lines}
        /\ \E buffered \in at..Len(handle), torn \in {<<>>} \cup {<<l>> : l \in Lines},
             from \in 1..Len(lines) + 1 :
            handle' = SubSeq(handle, 1, buffered) \o torn \o SubSeq(lines, from, Len(lines))
  BY DEF RewriteFile
<1>1. PICK buffered \in at..Len(handle), torn \in {<<>>} \cup {<<l>> : l \in Lines},
           from \in 1..Len(lines) + 1 :
        handle' = SubSeq(handle, 1, buffered) \o torn \o SubSeq(lines, from, Len(lines))
  BY <1>0
<1>2. UNCHANGED <<pc, presented, notes, at, sentTo, current>> /\ rewritten'
  BY DEF RewriteFile, Inside
<1>3. lines \in Seq(Lines)
  BY ContentsAreLines
<1>4. known'.lines \in Seq(Lines)
  BY <1>0, <1>3
<1>5. /\ handle' \in Seq(Lines) /\ Len(handle') >= at
      /\ \A i \in 1..at : handle'[i] = handle[i]
  <2> DEFINE begin == SubSeq(handle, 1, buffered)
             end   == SubSeq(lines, from, Len(lines))
  <2>1. at \in Nat /\ Len(handle) \in Nat /\ buffered \in 0..Len(handle) /\ at <= buffered
    BY DEF TrustInv
  <2>2. /\ begin \in Seq(Lines) /\ Len(begin) = buffered
        /\ \A i \in 1..buffered : begin[i] = handle[i]
    BY <2>1 DEF TrustInv
  <2>3. torn \in Seq(Lines)
    <3>1. CASE torn = <<>>
      BY <3>1, EmptySeq
    <3>2. ASSUME NEW l \in Lines, torn = <<l>> PROVE torn \in Seq(Lines)
      BY <3>2
    <3> QED BY <3>1, <3>2
  <2>4. end \in Seq(Lines)
    <3>1. from \in Nat /\ 1 <= from /\ Len(lines) \in Nat
      BY <1>3
    <3> QED
      BY <1>3, <3>1
  <2> HIDE DEF begin, end
  <2>5. handle' = begin \o torn \o end
    BY <1>1 DEF begin, end
  <2>6. /\ begin \o torn \in Seq(Lines) /\ Len(begin \o torn) >= buffered
        /\ \A i \in 1..buffered : (begin \o torn)[i] = handle[i]
    BY <2>1, <2>2, <2>3
  <2> DEFINE read == begin \o torn
  <2> HIDE DEF read
  <2>7. /\ read \o end \in Seq(Lines) /\ Len(read \o end) >= buffered
        /\ \A i \in 1..buffered : (read \o end)[i] = handle[i]
    BY <2>1, <2>4, <2>6 DEF read
  <2>8. \A i \in 1..at : i \in 1..buffered
    BY <2>1
  <2>9. handle' = read \o end
    BY <2>5 DEF read
  <2>10. Len(read \o end) >= at
    <3>1. Len(read \o end) \in Nat
      BY <2>7
    <3> QED BY <2>1, <2>7, <3>1
  <2> QED
    BY <2>7, <2>8, <2>9, <2>10
<1>6. at' \in 0..Len(handle')
  BY <1>2, <1>5 DEF TrustInv
<1>7. pc = "scan" => Scanned'
  BY <1>2, <1>5, ReadKeepsScanned DEF TrustInv
<1> QED
  BY <1>0, <1>2, <1>4, <1>5, <1>6, <1>7 DEF TrustInv, CredentialsFollowTrust

(* Another file takes its place; what has been opened stays. *)
LEMMA ReplaceKeepsTrust ==
  ASSUME TrustInv, ReplaceFile
  PROVE  TrustInv'
<1>1. UNCHANGED <<pc, presented, notes, at, sentTo, handle, rewritten, seen>> /\ current' = FALSE
  BY DEF ReplaceFile, Inside
<1>2. known'.lines \in Seq(Lines)
  <2>1. ASSUME NEW s, known' = [state |-> s, lines |-> <<>>]
        PROVE  known'.lines \in Seq(Lines)
    BY <2>1
  <2>2. ASSUME NEW lines \in Contents, known' = [state |-> "readable", lines |-> lines]
        PROVE  known'.lines \in Seq(Lines)
    BY <2>2, ContentsAreLines
  <2> QED
    BY <2>1, <2>2 DEF ReplaceFile
<1> QED
  BY <1>1, <1>2 DEF TrustInv, Scanned, CredentialsFollowTrust

LEMMA TrustInit == Init => TrustInv
<1> SUFFICES ASSUME Init PROVE TrustInv
  OBVIOUS
<1>1. known.lines = <<>> /\ handle = <<>> /\ at = 0
  BY DEF Init
<1> QED
  BY <1>1 DEF Init, TrustInv, CredentialsFollowTrust

LEMMA TrustStep ==
  ASSUME TrustInv, [Next]_vars
  PROVE  TrustInv'
<1>1. ASSUME NEW label, NEW what, NEW next \in {"password", "due"}, Prompt(label, what, next),
             label \in {"username", "password"}
      PROVE  TrustInv'
  BY <1>1 DEF TrustInv, Scanned, CredentialsFollowTrust, Prompt, End, Goto, At, scan, outside, history
<1>2. CASE Start
  BY <1>2 DEF TrustInv, Scanned, CredentialsFollowTrust, Start, End, Goto, At, scan, outside, history
<1>3. CASE IntervalPasses \/ Stop
  BY <1>3 DEF TrustInv, Scanned, CredentialsFollowTrust, IntervalPasses, Stop, End, Goto, At, scan,
    outside, history
<1>4. CASE Kill
  BY <1>4 DEF TrustInv, Scanned, CredentialsFollowTrust, Kill, End, Goto, CloseFile, outside, history
<1>5. CASE OpenSession
  BY <1>5 DEF TrustInv, Scanned, CredentialsFollowTrust, OpenSession, End, Goto, At, scan, outside
<1>6. CASE CheckRequest
  BY <1>6 DEF TrustInv, Scanned, CredentialsFollowTrust, CheckRequest, FailAuthentication, End, Goto,
    At, scan, outside, history
<1>7. CASE OpenKnownHosts
  BY <1>7 DEF TrustInv, Scanned, CredentialsFollowTrust, OpenKnownHosts, FailAuthentication, End,
    Goto, At, scan, outside
<1>8. CASE ScanLine
  <2>1. Scanned'
    BY <1>8, LineScanned
  <2>2. /\ at < Len(handle) /\ at' = at + 1 /\ pc = "scan"
        /\ UNCHANGED <<pc, handle, current, known, seen, rewritten, sentTo, presented>>
    BY <1>8 DEF ScanLine, At, outside, history
  <2> QED
    BY <2>1, <2>2 DEF TrustInv, CredentialsFollowTrust
<1>9. CASE ScanFails
  BY <1>9 DEF TrustInv, Scanned, CredentialsFollowTrust, ScanFails, FailAuthentication, CloseFile,
    End, Goto, At, outside, history
<1>10. CASE ScanEnds
  <2>1. /\ pc = "scan" /\ at = Len(handle) /\ CloseFile
        /\ UNCHANGED <<known, seen, rewritten, sentTo, presented>>
        /\ pc' = "off" \/ (pc' = "recognized" /\ Verdict = "recognized")
    BY <1>10 DEF ScanEnds, FailAuthentication, End, Goto, At, outside, history
  <2>2. pc' = "recognized" /\ ~rewritten => \E lines \in seen : Recognizes(lines, presented)
    BY <2>1, ScanRecognizes
  <2> QED
    BY <2>1, <2>2 DEF TrustInv, CredentialsFollowTrust, CloseFile
<1>11. CASE SendCredentials
  BY <1>11 DEF TrustInv, Scanned, CredentialsFollowTrust, SendCredentials, FailAuthentication, End,
    Goto, At, scan, outside
<1>12. CASE Operate \/ Return
  <2>1. UNCHANGED <<pc, presented, scan, outside, history>>
    BY <1>12 DEF Operate, Return
  <2> QED
    BY <2>1 DEF TrustInv, Scanned, CredentialsFollowTrust, scan, outside, history
<1>13. CASE FinishCycle
  BY <1>13 DEF TrustInv, Scanned, CredentialsFollowTrust, FinishCycle, End, Goto, At, scan, outside,
    history
<1>14. CASE ChangeServerKey
  BY <1>14 DEF TrustInv, Scanned, CredentialsFollowTrust, ChangeServerKey, Inside
<1>15. CASE UNCHANGED vars
  BY <1>15 DEF TrustInv, Scanned, CredentialsFollowTrust, vars, scan, outside, history
<1> QED
  BY <1>1, <1>2, <1>3, <1>4, <1>5, <1>6, <1>7, <1>8, <1>9, <1>10, <1>11, <1>12, <1>13, <1>14, <1>15,
    AppendKeepsTrust, ReplaceKeepsTrust, RewriteKeepsTrust DEF Next

(* Credentials go only to a server whose key the user's file, as it was at  *)
(* one moment of the check, vouched for and did not revoke, unless the file *)
(* is rewritten itself while it is being read: RF-08 of spec 005            *)
(* (sftp_authentication.go:55).                                             *)
THEOREM CredentialsOnlyOnTrust == Spec => []CredentialsFollowTrust
<1>1. TrustInv /\ [Next]_vars => TrustInv'
  BY TrustStep
<1>2. TrustInv => CredentialsFollowTrust
  BY DEF TrustInv
<1> QED
  BY TrustInit, <1>1, <1>2, PTL DEF Spec

-----------------------------------------------------------------------------
LEMMA SessionStep ==
  ASSUME SessionsClosedOnce, [Next]_vars
  PROVE  SessionsClosedOnce'
<1> USE DEF SessionsClosedOnce, End, Goto, At, CloseSession, FailAuthentication
<1>1. CASE Start
  BY <1>1 DEF Start
<1>2. CASE Prompt("username", "username", "password")
  BY <1>2 DEF Prompt
<1>3. CASE Prompt("password", "password", "due")
  BY <1>3 DEF Prompt
<1>4. CASE IntervalPasses \/ Stop
  BY <1>4 DEF IntervalPasses, Stop
<1>5. CASE Kill
  BY <1>5 DEF Kill
<1>6. CASE OpenSession
  BY <1>6 DEF OpenSession
<1>7. CASE CheckRequest
  BY <1>7 DEF CheckRequest
<1>8. CASE OpenKnownHosts
  BY <1>8 DEF OpenKnownHosts
<1>9. CASE ScanLine
  BY <1>9 DEF ScanLine
<1>10. CASE ScanFails \/ ScanEnds
  BY <1>10 DEF ScanFails, ScanEnds
<1>11. CASE SendCredentials
  BY <1>11 DEF SendCredentials
<1>12. CASE Operate \/ Return
  BY <1>12 DEF Operate, Return
<1>13. CASE FinishCycle
  BY <1>13 DEF FinishCycle
<1>14. CASE AppendLine \/ ReplaceFile \/ RewriteFile \/ ChangeServerKey
  BY <1>14 DEF AppendLine, ReplaceFile, RewriteFile, ChangeServerKey, Inside
<1>15. CASE UNCHANGED vars
  BY <1>15 DEF vars
<1> QED
  BY <1>1, <1>2, <1>3, <1>4, <1>5, <1>6, <1>7, <1>8, <1>9, <1>10, <1>11, <1>12, <1>13, <1>14, <1>15
    DEF Next

(* However a cycle ends, its session is closed once and not twice           *)
(* (sftp_authentication.go:74).                                             *)
THEOREM SessionsAreClosedOnce == Spec => []SessionsClosedOnce
<1>1. Init => SessionsClosedOnce
  BY DEF Init, SessionsClosedOnce
<1>2. SessionsClosedOnce /\ [Next]_vars => SessionsClosedOnce'
  BY SessionStep
<1> QED
  BY <1>1, <1>2, PTL DEF Spec

-----------------------------------------------------------------------------
(* The paths of the destination *)

(* A nonempty set of natural numbers has a least element. *)
LEMMA LeastNatural ==
  ASSUME NEW T \in SUBSET Nat, T # {}
  PROVE  \E n \in T : \A m \in T : n <= m
<1> DEFINE Less == {p \in Nat \X Nat : p[1] < p[2]}
<1>1. IsWellFoundedOn(Less, Nat)
  BY NatLessThanWellFounded DEF OpToRel
<1> HIDE DEF Less
<1>2. PICK n \in T : \A m \in T : ~(<<m, n>> \in Less)
  BY <1>1, WFMin
<1>3. \A m \in T : ~(m < n)
  BY <1>2 DEF Less
<1>4. QED
  BY <1>3

(* The equation of path.Join that the prefixes of a path satisfy. *)
Cleans(root, p, c) ==
  c = [n \in 0..Len(p) |->
         IF n = 0 THEN root
         ELSE IF p[n] \in {"", "."} THEN c[n - 1]
         ELSE IF p[n] = ".." THEN IF c[n - 1] = <<>> THEN <<>>
                                  ELSE SubSeq(c[n - 1], 1, Len(c[n - 1]) - 1)
         ELSE Append(c[n - 1], p[n])]

(* Joined takes a solution of the equation. *)
LEMMA JoinedCleans == \A root, p : Joined(root, p) = (CHOOSE c : Cleans(root, p, c))[Len(p)]
BY DEF Joined, Cleans

(* A path without segments that path.Join resolves. *)
Plain(p) == \A i \in 1..Len(p) : p[i] \notin {"", ".", ".."}

(* One more segment of a path. *)
LEMMA PrefixGrows ==
  ASSUME NEW S, NEW root \in Seq(S), NEW p \in Seq(S), NEW n \in 1..Len(p)
  PROVE  root \o SubSeq(p, 1, n) = Append(root \o SubSeq(p, 1, n - 1), p[n])
<1>1. Len(p) \in Nat
  BY LenProperties
<1>2. /\ n \in Nat /\ 1 \in 1..Len(p) /\ n - 1 \in Int /\ n - 1 < Len(p)
      /\ n \in 1..Len(p)
  BY <1>1
<1>3. p[n] \in S /\ SubSeq(p, 1, n - 1) \in Seq(S)
  <2>1. \A i \in 1..Len(p) : p[i] \in S
    BY ElementOfSeq
  <2>2. \A i \in 1..n - 1 : p[i] \in S
    BY <1>1, <1>2, <2>1
  <2>3. QED
    BY <1>2, <2>1, <2>2, SubSeqProperties
<1>4. SubSeq(p, 1, n) = SubSeq(p, 1, n - 1) \o <<p[n]>>
  BY <1>2, SubSeqRecursiveSecond
<1>5. <<p[n]>> \in Seq(S)
  BY <1>3
<1>6. root \o SubSeq(p, 1, n) = (root \o SubSeq(p, 1, n - 1)) \o <<p[n]>>
  BY <1>3, <1>4, <1>5, ConcatAssociative, SMTT(30)
<1>7. root \o SubSeq(p, 1, n - 1) \in Seq(S)
  BY <1>3, ConcatProperties
<1>8. QED
  BY <1>3, <1>6, <1>7, AppendIsConcat

(* On a path without dot segments, the prefixes are simply appended. *)
LEMMA PrefixesClean ==
  ASSUME NEW S, NEW root \in Seq(S), NEW p \in Seq(S), Plain(p)
  PROVE  Cleans(root, p, [n \in 0..Len(p) |-> root \o SubSeq(p, 1, n)])
<1> DEFINE k == Len(p)
           g == [n \in 0..k |-> root \o SubSeq(p, 1, n)]
<1>1. k \in Nat
  BY LenProperties
<1>2. root \o SubSeq(p, 1, 0) = root
  BY SubSeqEmpty, ConcatEmptySeq
<1>3. \A n \in 1..k : /\ root \o SubSeq(p, 1, n) = Append(root \o SubSeq(p, 1, n - 1), p[n])
                      /\ p[n] \notin {"", ".", ".."}
  BY PrefixGrows DEF Plain
<1> HIDE DEF k
<1>4. \A n \in 0..k : n = 0 \/ (n \in 1..k /\ n - 1 \in 0..k)
  BY <1>1
<1>5. g[0] = root
  BY <1>1, <1>2
<1>6. \A n \in 1..k : g[n] = Append(g[n - 1], p[n])
  <2>1. \A n \in 1..k : n \in 0..k /\ n - 1 \in 0..k
    BY <1>1
  <2>2. QED
    BY <1>3, <2>1
<1> HIDE DEF g
<1>7. \A n \in 0..k :
        g[n] = IF n = 0 THEN root
               ELSE IF p[n] \in {"", "."} THEN g[n - 1]
               ELSE IF p[n] = ".." THEN IF g[n - 1] = <<>> THEN <<>>
                                        ELSE SubSeq(g[n - 1], 1, Len(g[n - 1]) - 1)
               ELSE Append(g[n - 1], p[n])
  BY <1>3, <1>4, <1>5, <1>6
<1>8. g = [n \in 0..k |-> g[n]]
  BY DEF g
<1>9. g = [n \in 0..k |->
             IF n = 0 THEN root
             ELSE IF p[n] \in {"", "."} THEN g[n - 1]
             ELSE IF p[n] = ".." THEN IF g[n - 1] = <<>> THEN <<>>
                                      ELSE SubSeq(g[n - 1], 1, Len(g[n - 1]) - 1)
             ELSE Append(g[n - 1], p[n])]
  BY <1>7, <1>8
<1>10. QED
  BY <1>9 DEF Cleans, g, k

(* The equation has at most one solution: consider the least place where two differ. *)
LEMMA CleansOnce ==
  ASSUME NEW S, NEW root, NEW p \in Seq(S), NEW c, NEW d,
         Cleans(root, p, c), Cleans(root, p, d)
  PROVE  c = d
<1> DEFINE T == {n \in 0..Len(p) : c[n] # d[n]}
<1>1. SUFFICES ASSUME T # {} PROVE FALSE
  BY ZenonT(40) DEF Cleans
<1>0. Len(p) \in Nat
  BY LenProperties
<1>2. PICK n \in T : \A m \in T : n <= m
  <2>1. T \in SUBSET Nat
    BY <1>0
  <2>2. QED
    BY <1>1, <2>1, LeastNatural
<1>3. CASE n = 0
  BY <1>0, <1>2, <1>3 DEF Cleans
<1>4. CASE n # 0
  <2>1. n - 1 \in 0..Len(p) /\ n \in 0..Len(p) /\ n - 1 \notin T
    BY <1>0, <1>2, <1>4
  <2>2. c[n - 1] = d[n - 1]
    BY <2>1
  <2>3. c[n] = d[n]
    BY <1>4, <2>1, <2>2, ZenonT(40) DEF Cleans
  <2>4. QED
    BY <1>2, <2>3
<1>5. QED
  BY <1>3, <1>4

(* path.Join of a directory and a path without dot segments. *)
LEMMA JoinedAppends ==
  ASSUME NEW S, NEW root \in Seq(S), NEW p \in Seq(S),
         Plain(p)
  PROVE  Joined(root, p) = root \o p
<1> DEFINE g == [n \in 0..Len(p) |-> root \o SubSeq(p, 1, n)]
           c == CHOOSE f : Cleans(root, p, f)
<1>1. Cleans(root, p, g)
  BY PrefixesClean
<1>2. g[Len(p)] = root \o p
  <2>1. SubSeq(p, 1, Len(p)) = p /\ Len(p) \in Nat
    BY SubSeqFull, LenProperties
  <2>2. Len(p) \in 0..Len(p)
    BY <2>1
  <2>3. QED
    BY <2>1, <2>2
<1> HIDE DEF g
<1>3. Cleans(root, p, c)
  BY <1>1
<1> HIDE DEF c
<1>4. c = g
  BY <1>1, <1>3, CleansOnce
<1>5. Joined(root, p) = c[Len(p)]
  BY JoinedCleans DEF c
<1>6. QED
  BY <1>2, <1>4, <1>5

(* A request that is not refused is the selected directory or below it. *)
LEMMA ResolveAppends ==
  ASSUME NEW p \in Seq(Segments), NEW allowRoot \in BOOLEAN, Resolve(p, allowRoot) # Refused
  PROVE  Resolve(p, allowRoot) = Root \o p /\ (p = <<>> => allowRoot)
<1>1. Root \in Seq(Segments)
  BY RemotePathAssumption
<1>2. CASE p = <<>>
  BY <1>1, <1>2, ConcatEmptySeq DEF Resolve
<1>3. CASE p # <<>>
  <2>1. ValidRelative(p) /\ Resolve(p, allowRoot) = Joined(Root, p)
    BY <1>3 DEF Resolve
  <2>2. Plain(p)
    BY <2>1, LenProperties DEF ValidRelative, ValidDirectory, Plain
  <2>3. QED
    BY <1>1, <1>3, <2>1, <2>2, JoinedAppends
<1>4. QED
  BY <1>2, <1>3

(* Two requests that are not refused are two files: newRemoteRelativePath   *)
(* and resolvePath together give no file a second name                      *)
(* (remote_contract.go:259).                                                *)
THEOREM OneNamePerFile ==
  ASSUME NEW p \in Seq(Segments), NEW q \in Seq(Segments),
         Resolve(p, FALSE) # Refused, Resolve(p, FALSE) = Resolve(q, FALSE)
  PROVE  p = q
<1>1. Root \o p = Root \o q
  BY ResolveAppends
<1>2. QED
  BY <1>1, RemotePathAssumption, ConcatSimplifications

(* What Operate may leave in call. *)
CallInv ==
  /\ call.asked \in Seq(Seq(Segments)) /\ call.made \in Seq(Seq(Segments))
  /\ CallsNameWhatWasAsked

LEMMA NoCallInv == call' = NoCall => CallInv'
<1>1. NoCall.asked = <<>> /\ NoCall.made = <<>>
  BY DEF NoCall
<1>2. QED
  BY <1>1, EmptySeq DEF CallInv, CallsNameWhatWasAsked

(* An operation that is not refused asks for the root and what it was asked. *)
LEMMA AskCall ==
  ASSUME NEW op, NEW paths \in Seq(Requests), NEW allowRoot \in BOOLEAN,
         Ask(op, paths, allowRoot), allowRoot => op = "CreateDirectory"
  PROVE  CallInv'
<1> DEFINE full == [i \in DOMAIN paths |-> Resolve(paths[i], allowRoot)]
<1>1. PICK made : /\ call' = [op |-> op, asked |-> paths, made |-> made]
                  /\ \/ made = <<>>
                     \/ /\ made = full /\ \A i \in DOMAIN full : full[i] # Refused
                        /\ \A i, j \in DOMAIN full : full[i] = full[j] => i = j
  BY DEF Ask
<1>2. call'.op = op /\ call'.asked = paths /\ call'.made = made
  BY <1>1
<1>3. paths \in Seq(Seq(Segments))
  BY RemoteAssumption, SeqMonotonic
<1>4. CASE made = <<>>
  BY <1>2, <1>3, <1>4, EmptySeq DEF CallInv, CallsNameWhatWasAsked
<1>5. CASE /\ made = full /\ \A i \in DOMAIN full : full[i] # Refused
           /\ \A i, j \in DOMAIN full : full[i] = full[j] => i = j
  <2>1. \A i \in DOMAIN paths : paths[i] \in Seq(Segments)
    BY <1>3, ElementOfSeq, LenProperties
  <2>2. \A i \in DOMAIN paths : Resolve(paths[i], allowRoot) = Root \o paths[i]
                                /\ (paths[i] = <<>> => allowRoot)
    BY <1>5, <2>1, ResolveAppends
  <2>3. made = [i \in DOMAIN paths |-> Root \o paths[i]]
    BY <1>5, <2>2
  <2>4. made \in Seq(Seq(Segments))
    <3>1. \A i \in DOMAIN paths : Root \o paths[i] \in Seq(Segments)
      BY <2>1, RemotePathAssumption, ConcatProperties
    <3>2. DOMAIN paths = 1..Len(paths) /\ Len(paths) \in Nat
      BY LenProperties
    <3>3. made \in [1..Len(paths) -> Seq(Segments)]
      BY <2>3, <3>1, <3>2
    <3> QED
      BY <3>2, <3>3, SeqDef
  <2>5. \A i, j \in DOMAIN made : made[i] = made[j] => i = j
    BY <1>5
  <2> QED
    BY <1>2, <1>3, <2>2, <2>3, <2>4, <2>5 DEF CallInv, CallsNameWhatWasAsked
<1> QED
  BY <1>1, <1>4, <1>5

LEMMA OperateCall ==
  ASSUME Operate
  PROVE  CallInv'
<1>1. PICK p \in Requests :
       \/ Ask("CreateDirectory", <<p>>, TRUE)
       \/ \E op \in {"ReadFile", "WriteFile", "DeleteFile", "DeleteDirectory"} : Ask(op, <<p>>, FALSE)
       \/ \E candidate \in Requests : Ask("Publish", <<candidate, p>>, FALSE)
  BY DEF Operate
<1>2. <<p>> \in Seq(Requests) /\ \A candidate \in Requests : <<candidate, p>> \in Seq(Requests)
  OBVIOUS
<1> QED
  BY <1>1, <1>2, AskCall

LEMMA CallStep == CallInv /\ [Next]_vars => CallInv'
<1> SUFFICES ASSUME CallInv, [Next]_vars PROVE CallInv'
  OBVIOUS
<1>1. UNCHANGED call \/ call' = NoCall \/ Operate
  BY DEF Next, vars, Start, Prompt, IntervalPasses, Stop, Kill, OpenSession, CheckRequest,
     OpenKnownHosts, ScanLine, ScanFails, ScanEnds, SendCredentials, Return, FinishCycle,
     AppendLine, ReplaceFile, RewriteFile, ChangeServerKey, Inside
<1>2. CASE UNCHANGED call
  BY <1>2 DEF CallInv, CallsNameWhatWasAsked
<1>3. QED
  BY <1>1, <1>2, NoCallInv, OperateCall

LEMMA CallInit == Init => CallInv
<1>1. NoCall.asked = <<>> /\ NoCall.made = <<>>
  BY DEF NoCall
<1>2. QED
  BY <1>1, EmptySeq DEF Init, CallInv, CallsNameWhatWasAsked

(* A call that reaches the server names the selected directory followed by  *)
(* what was asked for, the candidate of a publication is not what it is     *)
(* published over, and only making a directory may name the selected one:   *)
(* RF-04 of spec 005 (remote_contract.go:259), for any paths.               *)
THEOREM CallsAreNamed == Spec => []CallsNameWhatWasAsked
<1>1. CallInv => CallsNameWhatWasAsked
  BY DEF CallInv
<1>2. QED
  BY <1>1, CallInit, CallStep, PTL DEF Spec

-----------------------------------------------------------------------------
(* The rest of the type of the state *)
StateInv ==
  /\ pc \in Labels /\ protocol \in {"ftp", "sftp"} /\ credentials \subseteq {"username", "password"}
  /\ session \in {"none", "open", "closed", "again"} /\ verifier \in {"none", "nowhere", "store"}
  /\ presented \in Keys \cup {NoKey} /\ notes \subseteq {"matched", "trusted", "revoked"}
  /\ current \in BOOLEAN
  /\ result \in {"none", "error", "stopped", "killed"}
  /\ known.state \in {"missing", "unreadable", "readable"}
  /\ serverKey \in Keys /\ changes \in 0..MaxChanges
  /\ seen \subseteq Seq(Lines) /\ rewritten \in BOOLEAN /\ sentTo \in Keys \cup {NoKey}

LEMMA StateStep == TrustInv /\ StateInv /\ [Next]_vars => StateInv'
<1> SUFFICES ASSUME TrustInv, StateInv, [Next]_vars PROVE StateInv'
  OBVIOUS
<1> USE DEF StateInv, End, Goto, At, CloseSession, FailAuthentication, CloseFile, Labels,
        scan, outside, history
<1>1. CASE Start
  BY <1>1, ZenonT(40) DEF Start
<1>2. CASE Prompt("username", "username", "password")
  <2>1. /\ UNCHANGED <<protocol, session, verifier, presented, scan, call, outside, history>>
        /\ credentials' \subseteq {"username", "password"}
        /\ pc' \in Labels /\ result' \in {"none", "error", "stopped", "killed"}
    BY <1>2, ZenonT(40) DEF Prompt
  <2>2. QED
    BY <2>1
<1>3. CASE Prompt("password", "password", "due")
  <2>1. /\ UNCHANGED <<protocol, session, verifier, presented, scan, call, outside, history>>
        /\ credentials' \subseteq {"username", "password"}
        /\ pc' \in Labels /\ result' \in {"none", "error", "stopped", "killed"}
    BY <1>3, ZenonT(40) DEF Prompt
  <2>2. QED
    BY <2>1
<1>4. CASE IntervalPasses \/ Stop \/ Kill
  BY <1>4, ZenonT(40) DEF IntervalPasses, Stop, Kill
<1>5. CASE OpenSession
  BY <1>5 DEF OpenSession
<1>6. CASE CheckRequest
  BY <1>6 DEF CheckRequest
<1>7. CASE OpenKnownHosts
  <2>1. CASE FailAuthentication /\ UNCHANGED <<scan, seen, rewritten>>
    BY <1>7, <2>1, ZenonT(40) DEF OpenKnownHosts
  <2>2. CASE /\ Goto("scan") /\ UNCHANGED <<session, result>>
             /\ handle' = known.lines /\ at' = 0 /\ notes' = {} /\ current' = TRUE
             /\ seen' = {known.lines} /\ rewritten' = FALSE
    <3>1. seen' \subseteq Seq(Lines)
      BY <2>2 DEF TrustInv
    <3>2. QED
      BY <1>7, <2>2, <3>1 DEF OpenKnownHosts
  <2>3. QED
    BY <1>7, <2>1, <2>2 DEF OpenKnownHosts
<1>8. CASE ScanLine
  <2>1. notes' \subseteq {"matched", "trusted", "revoked"}
    BY <1>8 DEF ScanLine, Notes
  <2>2. QED
    BY <1>8, <2>1 DEF ScanLine
<1>9. CASE ScanFails \/ ScanEnds
  BY <1>9 DEF ScanFails, ScanEnds
<1>10. CASE SendCredentials
  BY <1>10 DEF SendCredentials
<1>11. CASE Operate \/ Return
  <2>1. UNCHANGED <<pc, protocol, credentials, session, verifier, presented, scan, result, outside,
                    history>>
    BY <1>11 DEF Operate, Return
  <2>2. QED
    BY <2>1
<1>12. CASE FinishCycle
  BY <1>12 DEF FinishCycle
<1>13. CASE AppendLine
  <2>1. PICK line \in Lines :
          known' = [state |-> "readable", lines |-> Append(known.lines, line)]
    BY <1>13 DEF AppendLine
  <2>2. known'.state = "readable" /\ known'.lines \in Seq(Lines)
    BY <2>1 DEF TrustInv
  <2>3. seen' \subseteq Seq(Lines)
    BY <1>13, <2>2 DEF AppendLine
  <2>4. changes' \in 0..MaxChanges
    BY <1>13, RemoteAssumption DEF AppendLine, Changing
  <2>5. QED
    BY <1>13, <2>2, <2>3, <2>4 DEF AppendLine, Inside
<1>14. CASE ReplaceFile
  <2>1. known'.state \in {"missing", "unreadable", "readable"}
    BY <1>14 DEF ReplaceFile
  <2>2. changes' \in 0..MaxChanges
    BY <1>14, RemoteAssumption DEF ReplaceFile, Changing
  <2>3. current' \in BOOLEAN
    <3>1. current' = FALSE
      BY <1>14 DEF ReplaceFile
    <3>2. QED
      BY <3>1, Zenon
  <2>4. UNCHANGED <<Inside, rewritten, serverKey, seen>>
    BY <1>14 DEF ReplaceFile
  <2>5. QED
    BY <2>1, <2>2, <2>3, <2>4 DEF Inside
<1>15. CASE RewriteFile
  <2>1. PICK lines \in Contents :
          known' = [state |-> "readable", lines |-> lines] /\ seen' = seen \cup {lines}
    BY <1>15 DEF RewriteFile
  <2>2. known'.state = "readable" /\ seen' \subseteq Seq(Lines)
    BY <2>1, ContentsAreLines
  <2>3. changes' \in 0..MaxChanges
    BY <1>15, RemoteAssumption DEF RewriteFile, Changing
  <2>4. rewritten' = TRUE /\ UNCHANGED <<Inside, current, serverKey>>
    BY <1>15 DEF RewriteFile
  <2>5. QED
    BY <2>2, <2>3, <2>4 DEF Inside
<1>16. CASE ChangeServerKey
  <2>1. changes' \in 0..MaxChanges
    BY <1>16, RemoteAssumption DEF ChangeServerKey, Changing
  <2>2. QED
    BY <1>16, <2>1 DEF ChangeServerKey, Inside
<1>17. CASE UNCHANGED vars
  BY <1>17 DEF vars
<1> QED
  BY <1>1, <1>2, <1>3, <1>4, <1>5, <1>6, <1>7, <1>8, <1>9, <1>10, <1>11, <1>12, <1>13, <1>14,
     <1>15, <1>16, <1>17 DEF Next

(* Every variable keeps its type for any files, keys, paths and bounds.     *)
THEOREM TypeCorrect == Spec => []TypeOK
<1>1. Init => StateInv
  <2>1. Init => known.state \in {"missing", "unreadable", "readable"}
    BY DEF Init
  <2>2. 0 \in 0..MaxChanges
    BY RemoteAssumption
  <2>3. QED
    BY <2>1, <2>2 DEF Init, StateInv, Labels
<1>2. TrustInv /\ [Next]_vars => TrustInv'
  BY TrustStep
<1>3. TrustInv /\ StateInv /\ CallInv => TypeOK
  BY DEF TrustInv, StateInv, CallInv, TypeOK
<1>4. QED
  BY <1>1, <1>2, <1>3, TrustInit, StateStep, CallInit, CallStep, PTL DEF Spec
=============================================================================
