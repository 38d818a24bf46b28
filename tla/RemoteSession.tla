--------------------------- MODULE RemoteSession ---------------------------
(***************************************************************************)
(* A watch with a remote destination: runRemoteWatchCommand, its prompts   *)
(* and its loop, authenticateSFTPSession, SSHHostTrustStore.CheckHostKey   *)
(* and the operations of a ScopedRemoteDestination.                        *)
(*                                                                         *)
(* The program leaves the connection and the synchronization itself to the *)
(* application that embeds it (SynchronizeRemoteWithPolicy), which opens a *)
(* session, has it authenticated, uses the destination and closes it.      *)
(* The known_hosts file is the user's, who may change it at any moment.    *)
(***************************************************************************)
EXTENDS RemotePaths, FiniteSets

CONSTANTS
  Keys,       \* host keys of servers
  NoKey,
  Lines,      \* lines a known_hosts file may have
  MaxLines,   \* bound: lines of a file
  MaxChanges, \* bound: changes of the known_hosts file or the server's key
  Requests    \* relative paths the application asks for

Line == [marker : {"", "@revoked", "@cert-authority"}, positive : BOOLEAN, negated : BOOLEAN,
         key : Keys \cup {NoKey}]

ASSUME RemoteAssumption ==
  /\ NoKey \notin Keys /\ Lines \subseteq Line /\ MaxLines \in Nat /\ MaxChanges \in Nat
  /\ Requests \subseteq Seq(Segments)

-----------------------------------------------------------------------------
(* Lines of known_hosts *)

(* sshKnownHostPatternsMatch: a pattern matches and no negated one does. *)
Matches(line) == line.positive /\ ~line.negated

Vouches(line, key) == Matches(line) /\ line.marker = "" /\ line.key = key
Revokes(line, key) == Matches(line) /\ line.marker = "@revoked" /\ line.key = key

(* What CheckHostKey notes of one line. *)
Notes(line, key) ==
  (IF Matches(line) THEN {"matched"} ELSE {})
    \cup (IF Vouches(line, key) THEN {"trusted"} ELSE {})
    \cup (IF Revokes(line, key) THEN {"revoked"} ELSE {})

-----------------------------------------------------------------------------
VARIABLES
  pc,          \* where the watch is
  protocol,    \* the protocol of its destination URL
  credentials, \* what the prompts have got
  session,     \* the SFTP session: none, open, closed, again (closed twice)
  verifier,    \* what the application verifies server identities with
  presented,   \* the key the server of the session has presented
  notes,       \* what CheckHostKey has noted
  handle,      \* the lines of the file it has opened
  at,          \* how many of them it has read
  current,     \* the file it has opened is still the one at the path
  result,      \* how the watch has ended
  call,        \* the operation of the destination that goes on: the paths it was
               \* asked for, and those of the call it makes, none if it is refused
  known,       \* the known_hosts file
  serverKey,   \* the key of the server now
  changes,     \* bound: changes made so far
  seen,        \* history: contents the file has had during the check
  rewritten,   \* history: the file it reads has been rewritten during the check
  sentTo       \* history: the key of the server that has been sent credentials

scan    == <<notes, handle, at, current>>
outside == <<known, serverKey, changes>>
history == <<seen, rewritten, sentTo>>
vars    == <<pc, protocol, credentials, session, verifier, presented, scan, result, call,
             outside, history>>

Labels == {"off", "username", "password", "due", "checks", "trust", "scan", "recognized",
           "working", "waiting"}
NoCall == [op |-> "none", asked |-> <<>>, made |-> <<>>]

Init ==
  /\ pc = "off" /\ protocol = "sftp" /\ credentials = {} /\ session = "none"
  /\ verifier = "store" /\ presented = NoKey
  /\ notes = {} /\ handle = <<>> /\ at = 0 /\ current = FALSE
  /\ result = "none" /\ call = NoCall
  /\ known \in {[state |-> s, lines |-> <<>>] : s \in {"missing", "unreadable", "readable"}}
  /\ serverKey \in Keys /\ changes = 0
  /\ seen = {} /\ rewritten = FALSE /\ sentTo = NoKey

At(label)   == pc = label
Goto(label) == pc' = label

(* The watch returns: with an error, or because it was stopped. *)
End(how) == Goto("off") /\ result' = how

-----------------------------------------------------------------------------
(* The watch *)

(* Everything that is refused before the user is asked for credentials: the  *)
(* mode, the endpoint, the configuration, the source, and an application     *)
(* that has no way to synchronize.                                           *)
Start ==
  /\ At("off")
  /\ \E mode \in {"bidirectional", "unidirectional", "backup"},
        refused \in {"endpoint", "configuration", "source", "application", "nothing"} :
       IF mode = "bidirectional" \/ refused # "nothing"
       THEN End("error") /\ UNCHANGED protocol
       ELSE /\ Goto("username") /\ result' = "none"
            /\ protocol' \in {"ftp", "sftp"}
  /\ credentials' = {} /\ session' = "none"
  /\ UNCHANGED <<verifier, presented, scan, call, outside, history>>

(* What promptRemoteCredentialLine may meet: a line, or a line that is blank, *)
(* the end of the input, a line that is too long, a reader that never gets    *)
(* anywhere, an error of the reader or of the prompt.                         *)
Replies == {"line", "blank", "end", "long", "stuck", "error"}

(* Mutant: a blank line is taken for credentials. *)
PromptAny(label, what, next) ==
  /\ At(label)
  /\ \E reply \in Replies :
       IF reply \in {"line", "blank"}
       THEN credentials' = credentials \cup {IF reply = "line" THEN what ELSE reply}
            /\ Goto(next) /\ UNCHANGED result
       ELSE End("error") /\ UNCHANGED credentials
  /\ UNCHANGED <<protocol, session, verifier, presented, scan, call, outside, history>>

Prompt(label, what, next) ==
  /\ At(label)
  /\ \E reply \in Replies :
       IF reply = "line"
       THEN credentials' = credentials \cup {what} /\ Goto(next) /\ UNCHANGED result
       ELSE End("error") /\ UNCHANGED credentials
  /\ UNCHANGED <<protocol, session, verifier, presented, scan, call, outside, history>>

(* runWatchLoop: the interval passes, or Stop is closed while it does. *)
IntervalPasses ==
  /\ At("waiting") /\ Goto("due")
  /\ UNCHANGED <<protocol, credentials, session, verifier, presented, scan, result, call,
                 outside, history>>

Stop ==
  /\ At("waiting") /\ End("stopped")
  /\ UNCHANGED <<protocol, credentials, session, verifier, presented, scan, call, outside, history>>

(* The known_hosts file is closed. *)
CloseFile == notes' = {} /\ handle' = <<>> /\ at' = 0 /\ current' = FALSE

(* The process ends and the system closes what it had open. *)
Kill ==
  /\ ~At("off") /\ End("killed") /\ session' = "none" /\ call' = NoCall /\ CloseFile
  /\ UNCHANGED <<protocol, credentials, verifier, presented, outside, history>>

-----------------------------------------------------------------------------
(* The application: a cycle of the watch *)

CloseSession == session' = IF session = "open" THEN "closed" ELSE "again"

(* Connecting fails, or there is a session to authenticate. *)
OpenSession ==
  /\ At("due")
  /\ \/ End("error") /\ UNCHANGED <<session, verifier>>
     \/ /\ Goto("checks") /\ session' = "open" /\ UNCHANGED result
        /\ verifier' \in {"none", "nowhere", "store"}
  /\ presented' = NoKey /\ sentTo' = NoKey
  /\ UNCHANGED <<protocol, credentials, scan, call, outside, seen, rewritten>>

(* The work is done, or has failed; the loop goes on only without an error. *)
FinishCycle ==
  /\ At("working") /\ call = NoCall /\ CloseSession
  /\ \/ Goto("waiting") /\ UNCHANGED result
     \/ End("error")
  /\ UNCHANGED <<protocol, credentials, verifier, presented, scan, call, outside, history>>

-----------------------------------------------------------------------------
(* authenticateSFTPSession and CheckHostKey *)

(* Mutant: the error is returned at once. *)
FailAtOnce == End("error") /\ UNCHANGED session

(* failSFTPAuthentication: the session is closed, the error ends the watch. *)
FailAuthentication == CloseSession /\ End("error")

(* The protocol, the credentials, the verifier, the key of the server. *)
CheckRequest ==
  /\ At("checks")
  /\ \/ /\ protocol = "sftp" /\ credentials = {"username", "password"} /\ verifier # "none"
        /\ Goto("trust") /\ presented' = serverKey /\ UNCHANGED <<session, result>>
     \/ FailAuthentication /\ UNCHANGED presented
  /\ UNCHANGED <<protocol, credentials, verifier, scan, call, outside, history>>

(* A file that is missing is a server that is not trusted. *)
OpenKnownHosts ==
  /\ At("trust")
  /\ IF verifier = "nowhere" \/ known.state # "readable"
     THEN FailAuthentication /\ UNCHANGED <<scan, seen, rewritten>>
     ELSE /\ Goto("scan") /\ UNCHANGED <<session, result>>
          /\ handle' = known.lines /\ at' = 0 /\ notes' = {} /\ current' = TRUE
          /\ seen' = {known.lines} /\ rewritten' = FALSE
  /\ UNCHANGED <<protocol, credentials, verifier, presented, call, outside, sentTo>>

(* Mutant: what a line of the file says decides at once. *)
ScanToFirst ==
  /\ At("scan") /\ at < Len(handle)
  /\ notes' = Notes(handle[at + 1], presented)
  /\ IF "trusted" \in notes' THEN Goto("recognized") ELSE UNCHANGED pc
  /\ at' = at + 1
  /\ UNCHANGED <<protocol, credentials, session, verifier, presented, handle, current, result,
                 call, outside, history>>

ScanLine ==
  /\ At("scan") /\ at < Len(handle)
  /\ notes' = notes \cup Notes(handle[at + 1], presented)
  /\ at' = at + 1
  /\ UNCHANGED <<pc, protocol, credentials, session, verifier, presented, handle, current, result,
                 call, outside, history>>

(* The file cannot be read or closed, or a line of it is too long. *)
ScanFails ==
  /\ At("scan") /\ FailAuthentication /\ CloseFile
  /\ UNCHANGED <<protocol, credentials, verifier, presented, call, outside, history>>

Verdict ==
  IF "revoked" \in notes THEN "changed"
  ELSE IF "trusted" \in notes THEN "recognized"
  ELSE IF "matched" \in notes THEN "changed" ELSE "absent"

ScanEnds ==
  /\ At("scan") /\ at = Len(handle)
  /\ IF Verdict = "recognized" THEN Goto("recognized") /\ UNCHANGED <<session, result>>
     ELSE FailAuthentication
  /\ CloseFile
  /\ UNCHANGED <<protocol, credentials, verifier, presented, call, outside, history>>

(* session.Authenticate, which the server may refuse. *)
SendCredentials ==
  /\ At("recognized") /\ sentTo' = presented
  /\ \/ Goto("working") /\ UNCHANGED <<session, result>>
     \/ FailAuthentication
  /\ UNCHANGED <<protocol, credentials, verifier, presented, scan, call, outside, seen, rewritten>>

-----------------------------------------------------------------------------
(* The operations of ScopedRemoteDestination; one with a path that is        *)
(* refused, or with the same path twice, does not reach the server.          *)
Ask(op, paths, allowRoot) ==
  LET full    == [i \in DOMAIN paths |-> Resolve(paths[i], allowRoot)]
      refused == \/ \E i \in DOMAIN full : full[i] = Refused
                 \/ \E i, j \in DOMAIN full : i # j /\ full[i] = full[j]
  IN  call' = [op |-> op, asked |-> paths, made |-> IF refused THEN <<>> ELSE full]

Operate ==
  /\ At("working") /\ call = NoCall
  /\ \E p \in Requests :
       \/ Ask("CreateDirectory", <<p>>, TRUE)
       \/ \E op \in {"ReadFile", "WriteFile", "DeleteFile", "DeleteDirectory"} : Ask(op, <<p>>, FALSE)
       \/ \E candidate \in Requests : Ask("Publish", <<candidate, p>>, FALSE)
  /\ UNCHANGED <<pc, protocol, credentials, session, verifier, presented, scan, result,
                 outside, history>>

(* It returns, with an error of the server, of the path or without. *)
Return ==
  /\ At("working") /\ call # NoCall /\ call' = NoCall
  /\ UNCHANGED <<pc, protocol, credentials, session, verifier, presented, scan, result,
                 outside, history>>

-----------------------------------------------------------------------------
(* The user, with ssh and ssh-keygen, and the server *)

Changing == changes < MaxChanges /\ changes' = changes + 1

Inside == <<pc, protocol, credentials, session, verifier, presented, notes, at, result, call,
            sentTo>>

(* A server is accepted: a line is added to the file, or the file is made.   *)
(* Where a rewriting has left the check, it may read something else or       *)
(* nothing of it.                                                            *)
AppendLine ==
  /\ Changing /\ known.state # "unreadable" /\ Len(known.lines) < MaxLines
  /\ \E line, read \in Lines :
       /\ known' = [state |-> "readable", lines |-> Append(known.lines, line)]
       /\ \/ current /\ (rewritten \/ read = line) /\ handle' = Append(handle, read)
          \/ (rewritten \/ ~current) /\ UNCHANGED handle
  /\ seen' = IF current THEN seen \cup {known'.lines} ELSE seen
  /\ UNCHANGED <<Inside, current, rewritten, serverKey>>

Contents == UNION {[1..n -> Lines] : n \in 0..MaxLines}

(* A key is forgotten or the file is edited: another file takes its place. *)
ReplaceFile ==
  /\ Changing
  /\ \/ \E lines \in Contents \ {known.lines} : known' = [state |-> "readable", lines |-> lines]
     \/ \E s \in {"missing", "unreadable"} : known' = [state |-> s, lines |-> <<>>]
  /\ current' = FALSE
  /\ UNCHANGED <<Inside, handle, rewritten, serverKey, seen>>

(* The file that is being read is emptied or rewritten itself: the check has  *)
(* the lines it had buffered, perhaps one that is put together of two, and    *)
(* the end of the new content.                                                *)
RewriteFile ==
  /\ Changing /\ current /\ rewritten' = TRUE
  /\ \E lines \in Contents \ {known.lines} :
       /\ known' = [state |-> "readable", lines |-> lines] /\ seen' = seen \cup {lines}
       /\ \E buffered \in at..Len(handle), torn \in {<<>>} \cup {<<l>> : l \in Lines},
             from \in 1..Len(lines) + 1 :
            handle' = SubSeq(handle, 1, buffered) \o torn \o SubSeq(lines, from, Len(lines))
  /\ UNCHANGED <<Inside, current, serverKey>>

ChangeServerKey ==
  /\ Changing /\ serverKey' \in Keys \ {serverKey}
  /\ UNCHANGED <<Inside, handle, current, rewritten, known, seen>>

-----------------------------------------------------------------------------
Next ==
  \/ Start \/ Prompt("username", "username", "password") \/ Prompt("password", "password", "due")
  \/ IntervalPasses \/ Stop \/ Kill
  \/ OpenSession \/ CheckRequest \/ OpenKnownHosts \/ ScanLine \/ ScanFails \/ ScanEnds
  \/ SendCredentials \/ Operate \/ Return \/ FinishCycle
  \/ AppendLine \/ ReplaceFile \/ RewriteFile \/ ChangeServerKey

Spec == Init /\ [][Next]_vars

-----------------------------------------------------------------------------
(* Properties *)

TypeOK ==
  /\ pc \in Labels /\ protocol \in {"ftp", "sftp"} /\ credentials \subseteq {"username", "password"}
  /\ session \in {"none", "open", "closed", "again"} /\ verifier \in {"none", "nowhere", "store"}
  /\ presented \in Keys \cup {NoKey} /\ notes \subseteq {"matched", "trusted", "revoked"}
  /\ handle \in Seq(Lines) /\ at \in 0..Len(handle) /\ current \in BOOLEAN
  /\ result \in {"none", "error", "stopped", "killed"}
  /\ call.asked \in Seq(Seq(Segments)) /\ call.made \in Seq(Seq(Segments))
  /\ known.state \in {"missing", "unreadable", "readable"} /\ known.lines \in Seq(Lines)
  /\ serverKey \in Keys /\ changes \in 0..MaxChanges
  /\ seen \subseteq Seq(Lines) /\ rewritten \in BOOLEAN /\ sentTo \in Keys \cup {NoKey}

(* A file that vouches for a key and revokes it nowhere. *)
Recognizes(lines, key) ==
  /\ \E i \in DOMAIN lines : Vouches(lines[i], key)
  /\ \A i \in DOMAIN lines : ~Revokes(lines[i], key)

(* Credentials go only to a server whose key the user's file, as it was at    *)
(* one moment of the check, vouched for and did not revoke, whatever is added *)
(* to it and whatever file takes its place meanwhile: RF-08 of spec 005       *)
(* (sftp_authentication.go:55).  A file that is rewritten itself while it is  *)
(* being read is the exception: the check then reads the beginning of one     *)
(* content and the end of another (ssh_host_trust.go:71).                     *)
CredentialsFollowTrust ==
  sentTo # NoKey /\ ~rewritten => \E lines \in seen : Recognizes(lines, sentTo)

(* However a cycle ends, its session has been closed once and not twice, and  *)
(* one that was authenticated stays open for the application                  *)
(* (sftp_authentication.go:74).                                               *)
SessionsClosedOnce ==
  /\ session # "again"
  /\ session = "open" <=> pc \in {"checks", "trust", "scan", "recognized", "working"}

(* A call that reaches the server names what was asked for, below the         *)
(* selected directory, also the candidate of a publication: no two names are  *)
(* one file there, however they are escaped, a candidate is not published     *)
(* over itself, and only making a directory may name the selected one: RF-04  *)
(* of spec 005 (remote_contract.go:259).                                      *)
CallsNameWhatWasAsked ==
  call.made # <<>> =>
    /\ call.made = [i \in DOMAIN call.asked |-> Root \o call.asked[i]]
    /\ \A i, j \in DOMAIN call.made : call.made[i] = call.made[j] => i = j
    /\ (\E i \in DOMAIN call.asked : call.asked[i] = <<>>) => call.op = "CreateDirectory"
=============================================================================
