--------------------------- MODULE Connect_proofs ---------------------------
(***************************************************************************)
(* For every set of profiles, files, answers and keys: what a connect      *)
(* proves, pins, records and reports, whatever changes while it runs.      *)
(***************************************************************************)
EXTENDS Connect, TLAPS, WellFoundedInduction

----------------------------------------------------------------------------
(* Operators.                                                              *)

(* A non-empty set of positions has a first one, and it is in the set.     *)
LEMMA FirstIsIn ==
    ASSUME NEW I, I \subseteq Nat, I # {}
    PROVE  First(I) \in I
  <1> DEFINE Less == OpToRel(<, Nat)
  <1>1. IsWellFoundedOn(Less, Nat)
    BY NatLessThanWellFounded
  <1>2. \A x, y \in Nat : y < x => <<y, x>> \in Less
    <2>1. Less = {ss \in Nat \X Nat : ss[1] < ss[2]}
      BY DEF OpToRel
    <2> HIDE DEF Less
    <2> QED
      BY <2>1
  <1> HIDE DEF Less
  <1>3. PICK x \in I : \A y \in I : ~ (<<y, x>> \in Less)
    BY <1>1, WFMin
  <1>4. ASSUME NEW y \in I
        PROVE  x <= y
    <2>1. x \in Nat /\ y \in Nat /\ ~ (<<y, x>> \in Less)
      BY <1>3
    <2> QED
      BY <1>2, <2>1
  <1> QED
    BY <1>4 DEF First

Addrs == {"none", "v4a", "v4b"}

(* A lookup gives an IPv4 address, or none.                                *)
LEMMA PickIsIpv4 ==
    ASSUME NEW answer \in Answers
    PROVE  PickIpv4(answer) \in Addrs
  <1> DEFINE v4 == {i \in DOMAIN answer : answer[i] # "v6"}
  <1>1. answer \in Seq(Addresses)
    BY ConnectAssumption
  <1>2. v4 \subseteq Nat /\ \A i \in v4 : answer[i] \in Addresses \ {"v6"}
    BY <1>1
  <1>3. v4 # {} => First(v4) \in v4
    BY <1>2, FirstIsIn
  <1> QED
    BY <1>2, <1>3 DEF PickIpv4, Addrs, Addresses, NoAddr

(* What is read is a secret, and it is the right one exactly if the file   *)
(* was the right one but for one line ending.                              *)
LEMMA ReadsRight ==
    ASSUME NEW source, NEW body \in Bodies
    PROVE  /\ ReadValue(source, body) \in Bodies
           /\ FileSecretValue(body) \in Bodies
           /\ source # "env" => FileSecretValue(body) = ReadValue(source, body)
           /\ ReadValue(source, body) = Right <=>
                 body.base = "right" /\ body.eols <= (IF source = "env" THEN 0 ELSE 1)
  <1> DEFINE e == IF body.eols = 0 THEN 0 ELSE body.eols - 1
  <1>1. body.eols \in 0 .. 2 /\ body.base \in {"right", "wrong"} /\ e \in 0 .. 2
    BY DEF Bodies
  <1>2. StripOne(body) = [base |-> body.base, eols |-> e]
    BY DEF StripOne, Bodies
  <1>3. body = [base |-> body.base, eols |-> body.eols]
    BY DEF Bodies
  <1>4. StripOne(body) \in Bodies
    BY <1>1, <1>2 DEF Bodies
  <1> HIDE DEF e
  <1>5. StripOne(body) = Right <=> body.base = "right" /\ e = 0
    BY <1>2 DEF Right
  <1>6. body = Right <=> body.base = "right" /\ body.eols = 0
    BY <1>3 DEF Right
  <1>7. e = 0 <=> body.eols <= 1
    BY <1>1 DEF e
  <1>8. body.eols = 0 <=> body.eols <= 0
    BY <1>1
  <1>9. CASE source = "env"
    BY <1>4, <1>6, <1>8, <1>9 DEF ReadValue, FileSecretValue
  <1>10. CASE source # "env"
    BY <1>4, <1>5, <1>7, <1>10 DEF ReadValue, FileSecretValue
  <1> QED
    BY <1>9, <1>10

----------------------------------------------------------------------------
(* The invariant.  Each property speaks of the end of a connect; what has  *)
(* to be known meanwhile is what each phase has established by then.       *)

Profiles == {p \in Fields : p.via # "draft"}
Phases == {"idle", "gated", "dialing", "greeted", "probing", "proven", "up"}
ExitNames == {"mute", "closes", "refused", "prompt", "late", "alerts"}
ExitLists == {<<>>} \cup [1 .. 0 -> ExitNames] \cup [1 .. 1 -> ExitNames] \cup [1 .. 2 -> ExitNames]
Fates == {"open", "undecoded", "refused", "hung up"}
Attempts == [at : Phases, value : Bodies \cup {NoBody}, from : Files \cup {NoFile},
             sent : BOOLEAN, addr : Addrs, greeted : HostKeys \cup {NoKey}, fate : Fates,
             exits : ExitLists, server : 1 .. 2, pins : BOOLEAN, outside : BOOLEAN]
Tunnels == [state : {"disconnected", "connecting", "connected", "failed"},
            session : Addrs, peer : Addrs, pin : Addrs]
Lefts == [attempts : 0 .. MaxAttempts, edits : 0 .. MaxEdits]

Typed ==
    /\ client \in Clients
    /\ profile = NoProfile \/ profile \in Profiles
    /\ file \in Files
    /\ known \in [keys : SUBSET HostKeys, readable : BOOLEAN]
    /\ attempt \in Attempts
    /\ tunnel \in Tunnels
    /\ left \in Lefts

(* The profile is settled before the first attempt; the editor's was       *)
(* checked.                                                                *)
ProfileSettled ==
    /\ left.attempts = MaxAttempts =>
           attempt = Blank /\ tunnel = Down("disconnected") /\ outcome = Nothing
    /\ attempt.at # "idle" \/ attempt.sent => profile # NoProfile
    /\ profile # NoProfile /\ profile.via = "editor" => CheckProfile(profile)
    /\ attempt.at # "idle" => outcome = Nothing

(* Where the tunnel stands in each phase, and what of it is fixed.         *)
Session ==
    /\ tunnel.session = tunnel.peer
    /\ attempt.at = "idle" => tunnel \in {Down("disconnected"), Down("failed")}
    /\ attempt.at \in {"gated", "dialing", "greeted", "probing"} => tunnel.state = "connecting"
    /\ attempt.at \in {"proven", "up"} => tunnel.state = "connected"
    /\ attempt.at = "up" /\ attempt.pins => tunnel.pin = tunnel.session
    /\ Kind = "android" /\ attempt.at \in {"greeted", "proven", "up"} => attempt.outside

(* The secret of the attempt is what was read from one file, by then fit   *)
(* to be read; a proven session had the right one.                         *)
SecretKept(e) ==
    /\ e.from \in Files
    /\ e.value = ReadValue(profile.source, e.from.body)
    /\ Kind = "helper" => e.from.owner = "caller" /\ e.from.private

Secrets ==
    /\ attempt.at # "idle" \/ attempt.sent => SecretKept(attempt)
    /\ attempt.at \in {"proven", "up"} => attempt.value = Right

(* SSH: the key of a server that was greeted stands in known_hosts.        *)
SshPath ==
    /\ attempt.at \in {"dialing", "greeted"} => profile.protocol = "ssh"
    /\ attempt.at \in {"gated", "dialing", "greeted"} =>
           attempt.exits = <<>> /\ attempt.server = 1 /\ ~attempt.sent
    /\ client.policy = "verify"
           /\ (attempt.at = "greeted" \/ (attempt.sent /\ attempt.exits = <<>>))
           => attempt.greeted \in known.keys

(* Shadowsocks: the resolvers before the one being asked have not answered *)
(* in time, and only a right credential and a socket outside the VPN bring *)
(* back anything a server decrypted.                                       *)
InTime(exits, i) == exits[i] \in DOMAIN ReplyDelay /\ ReplyDelay[exits[i]] <= Share

ProbePath ==
    /\ attempt.at = "probing" =>
           /\ ~attempt.sent
           /\ attempt.exits \in [1 .. profile.servers -> ExitNames]
           /\ profile.servers > 0 => attempt.server <= profile.servers
           /\ \A i \in 1 .. profile.servers :
                 /\ i < attempt.server => ~InTime(attempt.exits, i)
                 /\ attempt.exits[i] \in {"prompt", "late", "alerts"} =>
                       /\ attempt.value = Right
                       /\ Kind = "android" => attempt.outside
    /\ attempt.at = "proven" /\ attempt.exits # <<>> => ~Unaskable

ConnectInvariant ==
    /\ Typed
    /\ ProfileSettled
    /\ Session
    /\ Secrets
    /\ SshPath
    /\ ProbePath
    /\ VerdictFits
    /\ ProbeFindsAnswering
    /\ SavedProfileRuns

----------------------------------------------------------------------------
(* Values, and steps that end a connect.                                   *)

Shaping == {"address", "auth", "cipher", "dns.servers", "dns.https"}

(* The records the model starts from have their types.                     *)
LEMMA Blanks ==
    /\ Blank \in Attempts
    /\ Blank.at = "idle" /\ ~Blank.sent /\ Blank.exits = <<>> /\ Blank.server = 1
    /\ Down("disconnected") \in Tunnels /\ Down("failed") \in Tunnels
    /\ Down("connecting") \in Tunnels
    /\ \A state : /\ Down(state).state = state
                  /\ Down(state).session = NoAddr /\ Down(state).peer = NoAddr
  <1>1. NoFile \in Files \cup {NoFile} /\ <<>> \in ExitLists /\ 1 \in 1 .. 2 /\ NoAddr \in Addrs
    BY DEF ExitLists, NoAddr, Addrs
  <1>2. Blank \in Attempts
    BY <1>1 DEF Blank, Attempts, Phases, Fates
  <1> QED
    BY <1>1, <1>2 DEF Blank, Down, Tunnels, NoProfile, NoKey

(* What has to hold of an attempt that ends with this error.               *)
LastAsked(e, exit) == /\ e.exits # <<>> /\ e.server = profile.servers
                      /\ e.exits[e.server] = exit
EndFits(e, error, about) ==
    /\ e \in Attempts
    /\ error = "auth" =>
          /\ SecretKept(e)
          /\ e.sent \/ e.fate = "undecoded"
          /\ e.value = Right => \/ e.exits = <<>> /\ e.fate = "hung up"
                               \/ LastAsked(e, "closes")
    /\ profile.via = "editor" => about \notin Shaping
    /\ e.sent =>
          /\ SecretKept(e)
          /\ client.policy = "verify" /\ e.exits = <<>> => e.greeted \in known.keys
          /\ e.value # Right => error \in {"auth", "config"} \/ LastAsked(e, "refused")
          /\ e.value = Right /\ e.exits # <<>> =>
                \A i \in DOMAIN e.exits : ~InTime(e.exits, i)

(* Whatever error a connect ends with, nothing of its session is left, and *)
(* the verdict fits.                                                       *)
LEMMA FailKeeps ==
    ASSUME ConnectInvariant, profile # NoProfile, left' \in Lefts, left'.attempts # MaxAttempts,
           NEW e, NEW error, NEW about, EndFits(e, error, about), FailAs(error, about, e)
    PROVE  ConnectInvariant'
  <1>0. /\ outcome' = [error |-> error, about |-> about]
        /\ attempt' = [e EXCEPT !.at = "idle", !.addr = NoAddr, !.pins = FALSE]
        /\ tunnel' = Down("failed")
        /\ client' = client /\ profile' = profile /\ file' = file /\ known' = known
    BY DEF FailAs
  <1>1. e \in Attempts
    BY DEF EndFits
  <1>2. /\ attempt' \in Attempts
        /\ attempt'.at = "idle" /\ attempt'.sent = e.sent /\ attempt'.value = e.value
        /\ attempt'.from = e.from /\ attempt'.exits = e.exits /\ attempt'.greeted = e.greeted
        /\ attempt'.fate = e.fate /\ attempt'.server = e.server
    BY <1>0, <1>1 DEF Attempts, Phases, Addrs, NoAddr
  <1>3. outcome'.error = error /\ outcome'.about = about
    BY <1>0
  <1>4. Typed'
    BY <1>0, <1>2, Blanks DEF ConnectInvariant, Typed
  <1>5. ProfileSettled'
    BY <1>0, <1>2 DEF ConnectInvariant, ProfileSettled, CheckProfile, Shape, DohUsable, Pairs
  <1>6. Session'
    BY <1>0, <1>2, Blanks DEF Session
  <1>7. e.sent \/ error = "auth" => SecretKept(attempt)'
    <2>1. e.sent \/ error = "auth" => SecretKept(e)
      BY DEF EndFits
    <2>2. SecretKept(e) => SecretKept(attempt)'
      BY <1>0, <1>2 DEF SecretKept, Kind, ReadValue, StripOne
    <2> QED
      BY <2>1, <2>2
  <1>8. Secrets'
    BY <1>2, <1>7 DEF Secrets
  <1>9. SshPath'
    BY <1>0, <1>2 DEF EndFits, SshPath
  <1>10. ProbePath'
    BY <1>2 DEF ProbePath
  <1>11. VerdictFits'
    <2>1. e.sent \/ error = "auth" => (RightlyKept' <=> e.value = Right)
      <3>1. e.sent \/ error = "auth" => attempt'.from.body \in Bodies
        BY <1>7, <1>2 DEF SecretKept, Files
      <3>2. e.sent \/ error = "auth" =>
               attempt'.value = ReadValue(profile'.source, attempt'.from.body)
        BY <1>7, <1>2 DEF SecretKept, ReadValue, StripOne
      <3> QED
        BY <1>2, <3>1, <3>2, ReadsRight DEF RightlyKept
    <2>2. ErrorKind(outcome)' = "auth_failed" => error = "auth"
      BY <1>3 DEF ErrorKind
    <2>3. error \in {"auth", "config"} => ErrorKind(outcome)' \in {"auth_failed", "bad_request"}
      BY <1>3 DEF ErrorKind
    <2>4. \A exit : LastAsked(e, exit) =>
             attempt'.exits # <<>> /\ LastResolver' /\ Exit' = exit
      BY <1>0, <1>2 DEF LastAsked, LastResolver, Exit
    <2>5. error = "auth" => /\ attempt'.sent \/ attempt'.fate = "undecoded"
                            /\ RightlyKept' => HungUpOn'
      BY <1>2, <2>1, <2>4 DEF EndFits, HungUpOn
    <2>6. attempt'.sent /\ ~RightlyKept' =>
             ErrorKind(outcome)' \in {"auth_failed", "bad_request"} \/ NeverReached'
      BY <1>2, <2>1, <2>3, <2>4 DEF EndFits, NeverReached
    <2>7. tunnel'.state # "connected"
      BY <1>0, Blanks
    <2> QED
      BY <2>2, <2>5, <2>6, <2>7 DEF VerdictFits
  <1>12. ProbeFindsAnswering'
    BY <1>0, <1>2 DEF EndFits, ProbeFindsAnswering, InShare, InTime, Share
  <1>13. SavedProfileRuns'
    BY <1>0, <1>2, <1>3 DEF EndFits, SavedProfileRuns, Shaping
  <1> QED
    BY <1>4, <1>5, <1>6, <1>8, <1>9, <1>10, <1>11, <1>12, <1>13 DEF ConnectInvariant

(* While a connect goes on, its verdict is still open: the three           *)
(* properties about ends follow from what its phases have established.     *)
LEMMA OngoingFits ==
    ASSUME Typed', ProfileSettled', Session', Secrets', attempt'.at # "idle"
    PROVE  VerdictFits' /\ ProbeFindsAnswering' /\ SavedProfileRuns'
  <1>1. outcome' = Nothing /\ profile' # NoProfile
    BY DEF ProfileSettled
  <1>2. outcome'.about = "none" /\ ErrorKind(outcome)' = "none"
    BY <1>1 DEF Nothing, ErrorKind
  <1>3. ProbeFindsAnswering'
    BY DEF ProbeFindsAnswering
  <1>4. SavedProfileRuns'
    BY <1>1, <1>2
       DEF ProfileSettled, SavedProfileRuns, CheckProfile, Shape, DohUsable, BuildsRequest
  <1>5. tunnel'.state = "connected" => attempt'.at \in {"proven", "up"}
    BY DEF Typed, Attempts, Phases, Session
  <1>6. tunnel'.state = "connected" => RightlyKept'
    <2>1. SecretKept(attempt)'
      BY DEF Secrets
    <2>2. attempt'.from.body \in Bodies
      BY <2>1 DEF SecretKept, Files
    <2>3. attempt'.value = ReadValue(profile'.source, attempt'.from.body)
      BY <2>1 DEF SecretKept, ReadValue, StripOne
    <2> QED
      BY <1>5, <2>2, <2>3, ReadsRight DEF Secrets, RightlyKept
  <1>7. VerdictFits'
    BY <1>2, <1>6 DEF VerdictFits
  <1> QED
    BY <1>3, <1>4, <1>7

(* A profile that comes in is the first thing that happens.                *)
LEMMA ArrivesKeeps ==
    ASSUME ConnectInvariant, NEW p \in Profiles, NEW f \in Files, Arrives(p, f),
           p.via = "editor" => CheckProfile(p)
    PROVE  ConnectInvariant'
  <1>1. /\ left.attempts = MaxAttempts /\ profile' = p /\ file' = f
        /\ UNCHANGED <<client, known, attempt, tunnel, outcome, left>>
    BY DEF Arrives
  <1>2. attempt = Blank /\ tunnel = Down("disconnected") /\ outcome = Nothing
    BY <1>1 DEF ConnectInvariant, ProfileSettled
  <1>3. attempt'.at = "idle" /\ ~attempt'.sent /\ outcome'.about = "none"
        /\ tunnel'.state = "disconnected" /\ ErrorKind(outcome)' = "none"
    BY <1>1, <1>2, Blanks DEF Nothing, ErrorKind
  <1>4. Typed'
    BY <1>1 DEF ConnectInvariant, Typed
  <1>5. ProfileSettled'
    BY <1>1, <1>2, <1>3 DEF ProfileSettled, CheckProfile, Shape, DohUsable, Pairs
  <1>6. Session' /\ Secrets' /\ SshPath' /\ ProbePath'
    BY <1>1, <1>2, <1>3, Blanks DEF Session, Secrets, SshPath, ProbePath
  <1>7. VerdictFits' /\ ProbeFindsAnswering' /\ SavedProfileRuns'
    BY <1>3 DEF VerdictFits, ProbeFindsAnswering, SavedProfileRuns
  <1> QED
    BY <1>4, <1>5, <1>6, <1>7 DEF ConnectInvariant

(* A draft under its new name is a profile, and as sound as it was.        *)
LEMMA DraftIsProfile ==
    ASSUME NEW d \in Fields, NEW via \in {"editor", "file"}
    PROVE  /\ FromDraft(d, via) \in Profiles /\ FromDraft(d, via).via = via
           /\ CheckProfile(d) => CheckProfile(FromDraft(d, via))
  <1>1. /\ FromDraft(d, via) \in Fields /\ FromDraft(d, via).via = via
        /\ FromDraft(d, via).protocol = d.protocol /\ FromDraft(d, via).auth = d.auth
        /\ FromDraft(d, via).offered = d.offered /\ FromDraft(d, via).addressed = d.addressed
        /\ FromDraft(d, via).mode = d.mode /\ FromDraft(d, via).doh = d.doh
        /\ FromDraft(d, via).servers = d.servers
    BY DEF FromDraft, Fields
  <1>2. CheckProfile(d) => CheckProfile(FromDraft(d, via))
    BY <1>1 DEF CheckProfile, Shape, DohUsable, Pairs
  <1> QED
    BY <1>1, <1>2 DEF Profiles

(* What an import writes is a file of the caller's own.                    *)
LEMMA WrittenIsFile ==
    ASSUME NEW body \in Bodies
    PROVE  Written(body) \in Files
  BY DEF Written, Files

(* A link that is imported makes a profile the editor would save.          *)
LEMMA ImportKeeps ==
    ASSUME ConnectInvariant, NEW offered \in BOOLEAN, NEW body \in Bodies,
           ImportSsUri(offered, "named", body)
    PROVE  ConnectInvariant'
  <1> DEFINE d == Linked(offered, "named")
  <1>1. offered /\ Arrives(FromDraft(d, "editor"), Written(body))
    BY DEF ImportSsUri
  <1>a. ("named" \notin {"no host", "port zero"}) = TRUE /\ offered = TRUE
    BY <1>1
  <1>b. d = [via |-> "draft", protocol |-> "shadowsocks", auth |-> "shadowsocks",
             offered |-> TRUE, addressed |-> TRUE, mode |-> "tcp", doh |-> "none",
             servers |-> 2, source |-> "file"]
    BY <1>a, Zenon DEF Linked
  <1> HIDE DEF d
  <1>2. /\ d \in Fields /\ d.addressed /\ d.servers = 2 /\ d.mode = "tcp"
        /\ d.offered /\ d.protocol = "shadowsocks" /\ d.auth = "shadowsocks"
    BY <1>b, SMT DEF Fields
  <1>3. CheckProfile(d)
    BY <1>2 DEF CheckProfile, Shape, DohUsable, Pairs
  <1>4. FromDraft(d, "editor") \in Profiles /\ CheckProfile(FromDraft(d, "editor"))
    BY <1>2, <1>3, DraftIsProfile
  <1> QED
    BY <1>1, <1>4, WrittenIsFile, ArrivesKeeps

(* However a profile comes in.                                             *)
LEMMA BringingKeeps ==
    ASSUME ConnectInvariant, Bringing
    PROVE  ConnectInvariant'
  <1>0. /\ Drafts \subseteq Fields /\ file \in Files /\ file.body \in Bodies
        /\ profile = NoProfile \/ profile \in Profiles
    BY ConnectAssumption DEF ConnectInvariant, Typed, Files
  <1>1. ASSUME NEW d \in Drafts, CheckProfile(d), Arrives(FromDraft(d, "editor"), file)
        PROVE  ConnectInvariant'
    BY <1>0, <1>1, DraftIsProfile, ArrivesKeeps
  <1>2. ASSUME NEW d \in Fields, NEW f \in Files, Arrives(FromDraft(d, "file"), f)
        PROVE  ConnectInvariant'
    <2>1. FromDraft(d, "file") \in Profiles /\ FromDraft(d, "file").via # "editor"
      BY DraftIsProfile
    <2> QED
      BY <1>2, <2>1, ArrivesKeeps
  <1>3. CASE SaveDraft
    BY <1>1, <1>3 DEF SaveDraft
  <1>4. CASE WriteByHand
    BY <1>0, <1>2, <1>4 DEF WriteByHand
  <1>5. CASE ImportPortable
    <2>1. PICK d \in Drafts, base \in {"right", "wrong"} :
               Arrives(FromDraft(d, "file"), Written([base |-> base, eols |-> 0]))
      BY <1>5 DEF ImportPortable
    <2>2. [base |-> base, eols |-> 0] \in Bodies
      BY DEF Bodies
    <2> QED
      BY <1>0, <1>2, <2>1, <2>2, WrittenIsFile
  <1>6. CASE MovePortable
    <2>1. /\ profile # NoProfile
          /\ Arrives(FromDraft(ExportPortable(profile), "file"),
                     Written(ReadValue(profile.source, file.body)))
      BY <1>6 DEF MovePortable
    <2>2. ExportPortable(profile) \in Fields
      BY <1>0, <2>1 DEF ExportPortable, Profiles, Fields
    <2>3. ReadValue(profile.source, file.body) \in Bodies
      BY <1>0, ReadsRight
    <2> QED
      BY <1>2, <2>1, <2>2, <2>3, WrittenIsFile
  <1>7. CASE PasteLink
    <2>1. PICK offered \in BOOLEAN, place \in Places, base \in {"right", "wrong"} :
               /\ SplitHostPort(place)
               /\ ImportSsUri(offered, place, [base |-> base, eols |-> 0])
      BY <1>7 DEF PasteLink
    <2>2. [base |-> base, eols |-> 0] \in Bodies /\ place = "named"
      BY <2>1 DEF Bodies, SplitHostPort
    <2> QED
      BY <2>1, <2>2, ImportKeeps
  <1>8. CASE CopyLink
    <2>1. /\ profile # NoProfile
          /\ ImportSsUri(profile.offered, "named", FileSecretValue(file.body))
      BY <1>8 DEF CopyLink
    <2>2. profile.offered \in BOOLEAN /\ FileSecretValue(file.body) \in Bodies
      BY <1>0, <2>1, ReadsRight DEF Profiles, Fields
    <2> QED
      BY <2>1, <2>2, ImportKeeps
  <1> QED
    BY <1>3, <1>4, <1>5, <1>6, <1>7, <1>8 DEF Bringing

(* What the user changes meanwhile is read only by the next attempt.       *)
LEMMA MeanwhileKeeps ==
    ASSUME ConnectInvariant, Meanwhile \/ UNCHANGED vars
    PROVE  ConnectInvariant'
  <1>1. /\ UNCHANGED <<client, profile, attempt, tunnel, outcome>>
        /\ file' \in UserFiles \cup {file}
        /\ known' \in {known, [known EXCEPT !.readable = ~@]}
        /\ left' \in {left, [left EXCEPT !.edits = @ - 1]} /\ (left' # left => left.edits > 0)
    BY DEF Meanwhile, ReplaceFile, ChangeMode, Edited, vars
  <1>2. left' \in Lefts /\ left'.attempts = left.attempts
    BY <1>1, ConnectAssumption DEF ConnectInvariant, Typed, Lefts
  <1>3. known' \in [keys : SUBSET HostKeys, readable : BOOLEAN] /\ known'.keys = known.keys
    BY <1>1 DEF ConnectInvariant, Typed
  <1>4. Typed'
    BY <1>1, <1>2, <1>3, ConnectAssumption DEF ConnectInvariant, Typed
  <1>5. ProfileSettled'
    BY <1>1, <1>2 DEF ConnectInvariant, ProfileSettled, CheckProfile, Shape, DohUsable, Pairs
  <1>6. Session' /\ Secrets'
    BY <1>1 DEF ConnectInvariant, Session, Secrets, SecretKept, Kind, ReadValue, StripOne
  <1>7. SshPath' /\ ProbePath'
    BY <1>1, <1>3 DEF ConnectInvariant, SshPath, ProbePath, InTime, Share, Kind, Unaskable
  <1>8. VerdictFits' /\ ProbeFindsAnswering' /\ SavedProfileRuns'
    <2>1. VerdictFits'
      BY <1>1 DEF ConnectInvariant, VerdictFits, RightlyKept, ErrorKind, HungUpOn, NeverReached,
                  LastResolver, Exit
    <2> QED
      BY <1>1, <2>1 DEF ConnectInvariant, ProbeFindsAnswering, InShare, Share, SavedProfileRuns,
                        BuildsRequest
  <1> QED
    BY <1>4, <1>5, <1>6, <1>7, <1>8 DEF ConnectInvariant

----------------------------------------------------------------------------
(* The gate.                                                               *)

(* Only what the gate finds wrong is held against the profile.             *)
LEMMA FirstRefused ==
    ASSUME NEW checks, DOMAIN checks \subseteq Nat, Refused(checks) # {}
    PROVE  First(Refused(checks)) \in Refused(checks)
  BY FirstIsIn DEF Refused

(* A gate that refuses never blames what the editor has checked, nor a     *)
(* credential.                                                             *)
LEMMA RefusalFits ==
    ASSUME ConnectInvariant, profile # NoProfile, NEW route, NEW checks,
           checks \in {HelperRefusals(profile, route), CliRefusals(profile, route),
                       AndroidRefusals(profile)},
           NEW i \in Refused(checks)
    PROVE  EndFits(Blank, checks[i][2], checks[i][3])
  <1>1. profile.via = "editor" =>
           profile.addressed /\ profile.servers # 0 /\ DohUsable(profile)
    <2>1. profile \in Profiles
      BY DEF ConnectInvariant, Typed
    <2> QED
      BY <2>1 DEF ConnectInvariant, ProfileSettled, CheckProfile, Shape, Profiles, Fields
  <1>2. CASE checks = HelperRefusals(profile, route)
    <2>1. i \in 1 .. 4
      BY <1>2 DEF Refused, HelperRefusals
    <2>2. checks[i][3] \in {"protocol", "route", "secret"} /\ checks[i][2] # "auth"
      BY <1>2, <2>1 DEF HelperRefusals
    <2> QED
      BY <2>2, Blanks DEF EndFits, Shaping
  <1>3. CASE checks = CliRefusals(profile, route)
    <2>1. i \in 1 .. 6 /\ checks[i][1]
      BY <1>3 DEF Refused, CliRefusals
    <2>2. profile.via = "editor" => i \in 4 .. 6
      <3>1. /\ checks[1] = <<~profile.addressed, "config", "address">>
            /\ checks[2] = <<profile.servers = 0, "config", "dns.servers">>
            /\ checks[3] = <<~DohUsable(profile), "config", "dns.https">>
        BY <1>3 DEF CliRefusals
      <3>2. /\ checks[1][1] = ~profile.addressed
            /\ checks[2][1] = (profile.servers = 0)
            /\ checks[3][1] = ~DohUsable(profile)
        BY <3>1
      <3>3. profile.via = "editor" => ~checks[1][1] /\ ~checks[2][1] /\ ~checks[3][1]
        BY <1>1, <3>2
      <3> QED
        BY <2>1, <3>3
    <2>3. i \in 4 .. 6 => checks[i][3] \in {"protocol", "route", "secret"}
      BY <1>3 DEF CliRefusals
    <2>4. checks[i][2] # "auth"
      BY <1>3, <2>1 DEF CliRefusals
    <2> QED
      BY <2>2, <2>3, <2>4, Blanks DEF EndFits, Shaping
  <1>4. CASE checks = AndroidRefusals(profile)
    <2>1. i \in 1 .. 2
      BY <1>4 DEF Refused, AndroidRefusals
    <2>2. checks[i][3] \in {"protocol", "secret"} /\ checks[i][2] # "auth"
      BY <1>4, <2>1 DEF AndroidRefusals
    <2> QED
      BY <2>2, Blanks DEF EndFits, Shaping
  <1> QED
    BY <1>2, <1>3, <1>4

(* What the gate lets through was read by one who may.                     *)
LEMMA GatedSecret ==
    ASSUME ConnectInvariant, profile # NoProfile, NEW route,
           Kind = "helper" => Refused(HelperRefusals(profile, route)) = {},
           Kind = "android" => Refused(AndroidRefusals(profile)) = {}
    PROVE  /\ Kind = "helper" => file.owner = "caller" /\ file.private
           /\ (IF Kind = "android" /\ profile.source = "file"
               THEN FileSecretValue(file.body)
               ELSE ReadValue(profile.source, file.body)) = ReadValue(profile.source, file.body)
           /\ ReadValue(profile.source, file.body) \in Bodies
           /\ file \in Files
  <1>1. file \in Files /\ file.body \in Bodies /\ profile \in Profiles
    BY DEF ConnectInvariant, Typed, Files
  <1>2. profile.source \in {"file", "env"}
    BY <1>1 DEF Profiles, Fields
  <1>3. Kind = "helper" => profile.source = "file" /\ MayRead(profile)
    <2> SUFFICES ASSUME Kind = "helper"
                 PROVE  profile.source = "file" /\ MayRead(profile)
      OBVIOUS
    <2> DEFINE checks == HelperRefusals(profile, route)
    <2>1. /\ checks[3] = <<profile.source = "env", "env_not_allowed", "secret">>
          /\ checks[4] = <<~MayRead(profile), "secret_not_permitted", "secret">>
          /\ 3 \in DOMAIN checks /\ 4 \in DOMAIN checks
      BY DEF HelperRefusals
    <2> HIDE DEF checks
    <2>2. ~checks[3][1] /\ ~checks[4][1]
      BY <2>1 DEF Refused, checks
    <2>3. checks[3][1] = (profile.source = "env") /\ checks[4][1] = ~MayRead(profile)
      BY <2>1
    <2> QED
      BY <1>2, <2>2, <2>3
  <1>4. Kind = "helper" => file.owner = "caller" /\ file.private
    BY <1>3 DEF MayRead, OwnedByCaller
  <1> QED
    BY <1>1, <1>4, ReadsRight

(* A connect begins, or is refused.                                        *)
LEMMA GateKeeps ==
    ASSUME ConnectInvariant, Gate
    PROVE  ConnectInvariant'
  <1>1. PICK route \in {"default", "test", "half", "bad"} :
           LET checks == CASE Kind = "helper" -> HelperRefusals(profile, route)
                           [] Kind = "cli"    -> CliRefusals(profile, route)
                           [] OTHER           -> AndroidRefusals(profile)
               bad == Refused(checks)
           IN  \/ bad # {} /\ FailAs(checks[First(bad)][2], checks[First(bad)][3], Blank)
               \/ /\ bad = {}
                  /\ attempt' = [Blank EXCEPT !.at = "gated",
                                   !.pins = route = "default" /\ Kind # "android",
                                   !.value = IF Kind = "android" /\ profile.source = "file"
                                             THEN FileSecretValue(file.body)
                                             ELSE ReadValue(profile.source, file.body),
                                   !.from = file]
                  /\ tunnel' = Down("connecting") /\ outcome' = Nothing
                  /\ UNCHANGED <<client, profile, file, known>>
    BY DEF Gate
  <1> DEFINE checks == CASE Kind = "helper" -> HelperRefusals(profile, route)
                         [] Kind = "cli"    -> CliRefusals(profile, route)
                         [] OTHER           -> AndroidRefusals(profile)
  <1> DEFINE bad == Refused(checks)
  <1> DEFINE value == IF Kind = "android" /\ profile.source = "file"
                      THEN FileSecretValue(file.body)
                      ELSE ReadValue(profile.source, file.body)
  <1> DEFINE pins == (route = "default" /\ Kind # "android")
  <1>2. \/ bad # {} /\ FailAs(checks[First(bad)][2], checks[First(bad)][3], Blank)
        \/ /\ bad = {}
           /\ attempt' = [Blank EXCEPT !.at = "gated", !.pins = pins, !.value = value,
                            !.from = file]
           /\ tunnel' = Down("connecting") /\ outcome' = Nothing
           /\ UNCHANGED <<client, profile, file, known>>
    BY <1>1
  <1>3. /\ Kind = "helper" => checks = HelperRefusals(profile, route)
        /\ Kind = "android" => checks = AndroidRefusals(profile)
        /\ checks \in {HelperRefusals(profile, route), CliRefusals(profile, route),
                       AndroidRefusals(profile)}
    BY DEF ConnectInvariant, Typed, Clients, Kind
  <1>4. DOMAIN checks \subseteq Nat
    BY <1>3 DEF HelperRefusals, CliRefusals, AndroidRefusals
  <1>5. /\ attempt.at = "idle" /\ profile # NoProfile /\ left.attempts > 0
        /\ left' = [left EXCEPT !.attempts = @ - 1]
    BY DEF Gate
  <1>6. left' \in Lefts /\ left'.attempts # MaxAttempts
    BY <1>5, ConnectAssumption DEF ConnectInvariant, Typed, Lefts
  <1> HIDE DEF checks
  <1>7. CASE bad # {} /\ FailAs(checks[First(bad)][2], checks[First(bad)][3], Blank)
    <2>1. First(bad) \in bad
      BY <1>4, <1>7, FirstRefused
    <2>2. EndFits(Blank, checks[First(bad)][2], checks[First(bad)][3])
      BY <1>3, <1>5, <2>1, RefusalFits
    <2> QED
      BY <1>5, <1>6, <1>7, <2>2, FailKeeps
  <1>8. CASE /\ bad = {}
             /\ attempt' = [Blank EXCEPT !.at = "gated", !.pins = pins, !.value = value,
                              !.from = file]
             /\ tunnel' = Down("connecting") /\ outcome' = Nothing
             /\ UNCHANGED <<client, profile, file, known>>
    <2>1. /\ Kind = "helper" => file.owner = "caller" /\ file.private
          /\ value = ReadValue(profile.source, file.body)
          /\ value \in Bodies /\ file \in Files
      BY <1>3, <1>5, <1>8, GatedSecret
    <2>2. pins \in BOOLEAN
      OBVIOUS
    <2> HIDE DEF value, pins, bad
    <2>3. /\ attempt' \in Attempts /\ attempt'.at = "gated" /\ attempt'.value = value
          /\ attempt'.from = file /\ ~attempt'.sent /\ attempt'.exits = <<>>
          /\ attempt'.server = 1
      BY <1>8, <2>1, <2>2, Blanks DEF Attempts, Phases
    <2>4. Typed'
      BY <1>6, <1>8, <2>1, <2>3, Blanks DEF ConnectInvariant, Typed
    <2>5. ProfileSettled'
      BY <1>5, <1>6, <1>8 DEF ConnectInvariant, ProfileSettled, CheckProfile, Shape, DohUsable,
                              Pairs
    <2>6. Session'
      BY <1>8, <2>3, Blanks DEF Session
    <2>7. SecretKept(attempt)'
      BY <1>8, <2>1, <2>3 DEF SecretKept, Kind, ReadValue, StripOne
    <2>8. Secrets' /\ SshPath' /\ ProbePath'
      BY <2>3, <2>7 DEF Secrets, SshPath, ProbePath
    <2> QED
      BY <2>3, <2>4, <2>5, <2>6, <2>8, OngoingFits DEF ConnectInvariant
  <1> QED
    BY <1>2, <1>7, <1>8

----------------------------------------------------------------------------
(* A connect that goes on.                                                 *)

(* The attempt under way has a profile, and no outcome yet.                *)
LEMMA Ongoing ==
    ASSUME ConnectInvariant, attempt.at # "idle"
    PROVE  /\ profile # NoProfile /\ profile \in Profiles
           /\ left \in Lefts /\ left.attempts # MaxAttempts
           /\ outcome = Nothing /\ SecretKept(attempt)
           /\ attempt \in Attempts /\ tunnel \in Tunnels
  <1>1. left.attempts # MaxAttempts
    BY Blanks DEF ConnectInvariant, ProfileSettled
  <1> QED
    BY <1>1 DEF ConnectInvariant, Typed, ProfileSettled, Secrets

(* What is settled stays so.                                               *)
LEMMA OngoingSettled ==
    ASSUME ConnectInvariant, attempt.at # "idle", left' = left, Held
    PROVE  ProfileSettled'
  <1>1. profile' = profile /\ outcome' = outcome
    BY DEF Held
  <1> QED
    BY <1>1, Ongoing DEF ConnectInvariant, ProfileSettled, CheckProfile, Shape, DohUsable, Pairs

(* A failure in the middle of it.                                          *)
LEMMA OngoingFails ==
    ASSUME ConnectInvariant, attempt.at # "idle", left' = left,
           NEW e, NEW error, NEW about, EndFits(e, error, about), FailAs(error, about, e)
    PROVE  ConnectInvariant'
  BY Ongoing, FailKeeps

(* Before anything was sent, any error will do that does not blame what    *)
(* the editor has checked.                                                 *)
LEMMA UnsentFails ==
    ASSUME ConnectInvariant, attempt.at # "idle", ~attempt.sent, left' = left,
           NEW error, NEW about, Fail(error, about), error # "auth",
           profile.via = "editor" => about \notin Shaping
    PROVE  ConnectInvariant'
  <1>1. EndFits(attempt, error, about)
    BY Ongoing DEF EndFits
  <1> QED
    BY <1>1, OngoingFails DEF Fail

(* A step that leaves the connect under way keeps the invariant if it      *)
(* keeps what the phases establish.                                        *)
LEMMA GoesOn ==
    ASSUME ConnectInvariant, attempt.at # "idle", left' = left, Held,
           attempt' \in Attempts, attempt'.at # "idle", tunnel' \in Tunnels,
           known' \in [keys : SUBSET HostKeys, readable : BOOLEAN],
           Session', Secrets', SshPath', ProbePath'
    PROVE  ConnectInvariant'
  <1>1. Typed'
    BY DEF Held, ConnectInvariant, Typed
  <1>2. ProfileSettled'
    BY OngoingSettled
  <1> QED
    BY <1>1, <1>2, OngoingFits DEF ConnectInvariant

----------------------------------------------------------------------------
(* SSH.                                                                    *)

(* The lookup.                                                             *)
LEMMA SshLookupKeeps ==
    ASSUME ConnectInvariant, SshLookup
    PROVE  ConnectInvariant'
  <1>1. attempt.at = "gated" /\ left' = left /\ profile.protocol = "ssh"
    BY DEF SshLookup, Going
  <1>2. ~attempt.sent /\ attempt.exits = <<>> /\ attempt.server = 1
    BY <1>1 DEF ConnectInvariant, SshPath
  <1>3. PICK answer \in Answers :
           \/ Fail("protocol", "host")
           \/ /\ attempt' = [attempt EXCEPT !.at = "dialing", !.addr = PickIpv4(answer)]
              /\ known' = known /\ tunnel' = tunnel /\ Held
    BY DEF SshLookup
  <1>4. CASE Fail("protocol", "host")
    BY <1>1, <1>2, <1>4, UnsentFails DEF Shaping
  <1>5. CASE /\ attempt' = [attempt EXCEPT !.at = "dialing", !.addr = PickIpv4(answer)]
             /\ known' = known /\ tunnel' = tunnel /\ Held
    <2>1. client' = client /\ profile' = profile /\ file' = file
      BY <1>5 DEF Held
    <2>2. attempt \in Attempts /\ PickIpv4(answer) \in Addrs
      BY <1>1, Ongoing, PickIsIpv4
    <2>3. /\ attempt' \in Attempts /\ attempt'.at = "dialing" /\ attempt'.sent = attempt.sent
          /\ attempt'.value = attempt.value /\ attempt'.from = attempt.from
          /\ attempt'.exits = attempt.exits /\ attempt'.server = attempt.server
      BY <1>5, <2>2 DEF Attempts, Phases
    <2>4. tunnel' \in Tunnels /\ known' \in [keys : SUBSET HostKeys, readable : BOOLEAN]
      BY <1>5 DEF ConnectInvariant, Typed
    <2>6. Session'
      BY <1>1, <1>5, <2>3 DEF ConnectInvariant, Session
    <2>7. SecretKept(attempt)'
      BY <1>1, <2>1, <2>3, Ongoing DEF SecretKept, Kind, ReadValue, StripOne
    <2>8. Secrets' /\ SshPath' /\ ProbePath'
      BY <1>1, <1>2, <2>1, <2>3, <2>7 DEF Secrets, SshPath, ProbePath
    <2> QED
      BY <1>1, <1>5, <2>3, <2>4, <2>6, <2>8, GoesOn
  <1> QED
    BY <1>3, <1>4, <1>5

(* The greeting: the server's key was in known_hosts, or is put there.     *)
LEMMA GreetKeeps ==
    ASSUME ConnectInvariant, Greet
    PROVE  ConnectInvariant'
  <1>1. attempt.at = "dialing" /\ left' = left
    BY DEF Greet, Going
  <1>2. /\ ~attempt.sent /\ attempt.exits = <<>> /\ attempt.server = 1
        /\ profile.protocol = "ssh"
    BY <1>1 DEF ConnectInvariant, SshPath
  <1>3. CASE \E error \in {"protocol", "host_key"} : Fail(error, "server")
    BY <1>1, <1>2, <1>3, UnsentFails DEF Shaping
  <1>4. ASSUME NEW key \in HostKeys, NEW outside \in Verdicts,
               ProtectFd(outside), Trusted(key),
               known' = IF client.policy = "verify" THEN [known EXCEPT !.keys = @ \cup {key}]
                                                    ELSE known,
               attempt' = [attempt EXCEPT !.at = "greeted", !.greeted = key,
                                           !.outside = outside],
               tunnel' = tunnel, Held
        PROVE  ConnectInvariant'
    <2>1. client' = client /\ profile' = profile
      BY <1>4 DEF Held
    <2>2. attempt \in Attempts /\ outside \in BOOLEAN
      BY <1>1, Ongoing DEF Verdicts
    <2>3. /\ attempt' \in Attempts /\ attempt'.at = "greeted" /\ attempt'.sent = attempt.sent
          /\ attempt'.value = attempt.value /\ attempt'.from = attempt.from
          /\ attempt'.exits = attempt.exits /\ attempt'.server = attempt.server
          /\ attempt'.greeted = key /\ attempt'.outside = outside
      BY <1>4, <2>2 DEF Attempts, Phases
    <2>4. /\ tunnel' \in Tunnels /\ known' \in [keys : SUBSET HostKeys, readable : BOOLEAN]
          /\ client.policy = "verify" => key \in known'.keys
      BY <1>4 DEF ConnectInvariant, Typed
    <2>5. Session'
      BY <1>1, <1>4, <2>1, <2>3 DEF ConnectInvariant, Session, ProtectFd, Kind
    <2>6. SecretKept(attempt)'
      BY <1>1, <2>1, <2>3, Ongoing DEF SecretKept, Kind, ReadValue, StripOne
    <2>7. Secrets' /\ SshPath' /\ ProbePath'
      BY <1>1, <1>2, <2>1, <2>3, <2>4, <2>6 DEF Secrets, SshPath, ProbePath
    <2> QED
      BY <1>1, <1>4, <2>3, <2>4, <2>5, <2>7, GoesOn
  <1> QED
    BY <1>3, <1>4 DEF Greet

(* The command line reads the file again when the protocol asks; whoever   *)
(* asks, the value is what one file, fit to be read, holds.                *)
LEMMA CredentialKept ==
    ASSUME ConnectInvariant, attempt.at # "idle", NEW e,
           e.value = Credential, e.from = Origin
    PROVE  SecretKept(e) /\ e.value \in Bodies /\ e.from \in Files
  <1>1. file \in Files /\ SecretKept(attempt)
    BY Ongoing DEF ConnectInvariant, Typed
  <1>2. e.from \in Files /\ e.value = ReadValue(profile.source, e.from.body)
    BY <1>1 DEF SecretKept, Credential, Origin
  <1>3. Kind = "helper" => e.from = attempt.from
    BY DEF Origin, Serves
  <1>4. e.from.body \in Bodies
    BY <1>2 DEF Files
  <1> QED
    BY <1>1, <1>2, <1>3, <1>4, ReadsRight DEF SecretKept

(* The credential goes out, after the key stood.                           *)
LEMMA AuthenticateKeeps ==
    ASSUME ConnectInvariant, Authenticate
    PROVE  ConnectInvariant'
  <1>1. attempt.at = "greeted" /\ left' = left
    BY DEF Authenticate, Going
  <1>2. /\ ~attempt.sent /\ attempt.exits = <<>> /\ attempt.server = 1
        /\ profile.protocol = "ssh"
        /\ client.policy = "verify" => attempt.greeted \in known.keys
    BY <1>1 DEF ConnectInvariant, SshPath
  <1>3. attempt \in Attempts /\ profile \in Profiles /\ profile # NoProfile
    BY <1>1, Ongoing
  <1>4. SecretKept(WithSecret) /\ WithSecret.value \in Bodies /\ WithSecret.from \in Files
    <2>1. WithSecret.value = Credential /\ WithSecret.from = Origin
      BY <1>3 DEF WithSecret, Attempts
    <2> QED
      BY <1>1, <2>1, CredentialKept
  <1>5. /\ Sent \in Attempts /\ Sent.sent /\ Sent.exits = <<>>
        /\ Sent.greeted = attempt.greeted /\ Sent.value = WithSecret.value
        /\ Sent.from = WithSecret.from /\ Sent.addr = attempt.addr /\ Sent.outside = attempt.outside
    <2>1. WithSecret = [attempt EXCEPT !.value = WithSecret.value, !.from = WithSecret.from]
      BY <1>3 DEF WithSecret, Attempts
    <2> QED
      BY <1>2, <1>3, <1>4, <2>1 DEF Sent, Attempts
  <1>6. WithSecret.value = Credential
    BY <1>3 DEF WithSecret, Attempts
  <1>7. SecretKept(Sent)
    BY <1>4, <1>5 DEF SecretKept
  <1>8. CASE ~Pairs("ssh", profile.auth) /\ Fail("unsupported", "auth")
    <2>1. profile.via # "editor"
      BY <1>2, <1>3, <1>8 DEF ConnectInvariant, ProfileSettled, CheckProfile
    <2> QED
      BY <1>1, <1>2, <1>8, <2>1, UnsentFails
  <1>9. CASE Fail("config", "secret")
    BY <1>1, <1>2, <1>9, UnsentFails DEF Shaping
  <1>10. CASE Credential = Right /\ Established
    <2>1. /\ attempt' = [Sent EXCEPT !.at = "proven"] /\ known' = known /\ Held
          /\ tunnel' = [tunnel EXCEPT !.state = "connected",
                                      !.session = attempt.addr, !.peer = attempt.addr]
      BY <1>10 DEF Established
    <2>2. client' = client /\ profile' = profile
      BY <2>1 DEF Held
    <2>3. /\ attempt' \in Attempts /\ attempt'.at = "proven" /\ attempt'.sent
          /\ attempt'.value = Right /\ attempt'.value = Sent.value /\ attempt'.from = Sent.from
          /\ attempt'.exits = <<>> /\ attempt'.greeted = attempt.greeted
          /\ attempt'.outside = attempt.outside
      BY <1>5, <1>6, <1>10, <2>1 DEF Attempts, Phases
    <2>4. tunnel \in Tunnels /\ attempt.addr \in Addrs
      BY <1>1, Ongoing DEF Attempts
    <2>5. /\ tunnel' \in Tunnels /\ tunnel'.state = "connected"
          /\ tunnel'.session = tunnel'.peer
      BY <2>1, <2>4 DEF Tunnels
    <2>6. known' \in [keys : SUBSET HostKeys, readable : BOOLEAN]
      BY <2>1 DEF ConnectInvariant, Typed
    <2>7. Session'
      BY <1>1, <2>2, <2>3, <2>5 DEF ConnectInvariant, Session, Kind
    <2>8. SecretKept(attempt)'
      BY <1>7, <2>2, <2>3 DEF SecretKept, Kind, ReadValue, StripOne
    <2>9. Secrets' /\ SshPath' /\ ProbePath'
      BY <1>2, <2>1, <2>2, <2>3, <2>8 DEF Secrets, SshPath, ProbePath
    <2> QED
      BY <1>1, <2>1, <2>3, <2>5, <2>6, <2>7, <2>9, GoesOn
  <1>11. ASSUME NEW e, NEW fate \in {"undecoded", "refused", "hung up"},
                \/ e = [Sent EXCEPT !.fate = fate]
                \/ fate = "undecoded" /\ e = [WithSecret EXCEPT !.fate = fate],
                Credential # Right \/ fate = "hung up", FailAs("auth", "credential", e)
         PROVE  ConnectInvariant'
    <2>1. /\ WithSecret \in Attempts /\ WithSecret.exits = <<>>
          /\ WithSecret.greeted = attempt.greeted
      <3>1. WithSecret = [attempt EXCEPT !.value = WithSecret.value, !.from = WithSecret.from]
        BY <1>3 DEF WithSecret, Attempts
      <3> QED
        BY <1>2, <1>3, <1>4, <3>1 DEF Attempts
    <2>2. /\ e \in Attempts /\ e.fate = fate /\ e.exits = <<>> /\ e.greeted = attempt.greeted
          /\ e.value = WithSecret.value /\ e.from = WithSecret.from
          /\ e.sent \/ fate = "undecoded"
      BY <1>5, <1>11, <2>1 DEF Attempts, Fates
    <2>3. SecretKept(e)
      BY <1>4, <2>2 DEF SecretKept
    <2>4. EndFits(e, "auth", "credential")
      BY <1>2, <1>6, <1>11, <2>2, <2>3 DEF EndFits, Shaping
    <2> QED
      BY <1>1, <1>11, <2>4, OngoingFails
  <1>12. CASE \/ /\ Credential # Right /\ profile.auth = "private_key"
                 /\ FailAs("auth", "credential", [WithSecret EXCEPT !.fate = "undecoded"])
              \/ /\ Credential # Right
                 /\ FailAs("auth", "credential", [Sent EXCEPT !.fate = "refused"])
              \/ FailAs("auth", "credential", [Sent EXCEPT !.fate = "hung up"])
    BY <1>11, <1>12
  <1> QED
    BY <1>8, <1>9, <1>10, <1>12 DEF Authenticate

----------------------------------------------------------------------------
(* Shadowsocks.                                                            *)

(* The lookup, and what the sockets of the probe may bring back.           *)
LEMMA PrepareKeeps ==
    ASSUME ConnectInvariant, Prepare
    PROVE  ConnectInvariant'
  <1>1. attempt.at = "gated" /\ left' = left /\ profile.protocol = "shadowsocks"
    BY DEF Prepare, Going
  <1>2. ~attempt.sent /\ attempt.exits = <<>> /\ attempt.server = 1
    BY <1>1 DEF ConnectInvariant, SshPath
  <1>3. attempt \in Attempts /\ profile \in Profiles /\ profile # NoProfile /\ tunnel \in Tunnels
    BY <1>1, Ongoing
  <1>4. profile.via = "editor" => profile.auth = "shadowsocks" /\ profile.offered
    BY <1>1, <1>3 DEF ConnectInvariant, ProfileSettled, CheckProfile, Pairs
  <1>5. CASE profile.auth # "shadowsocks" /\ Fail("config", "auth")
    BY <1>1, <1>2, <1>4, <1>5, UnsentFails
  <1>6. CASE ~profile.offered /\ Fail("config", "cipher")
    BY <1>1, <1>2, <1>4, <1>6, UnsentFails
  <1>7. CASE \E error, about : error \in {"config", "transport", "protocol"}
                             /\ about \in {"secret", "host"} /\ Fail(error, about)
    BY <1>1, <1>2, <1>7, UnsentFails DEF Shaping
  <1>8. ASSUME NEW answer \in Answers, NEW outside \in Verdicts,
               NEW exits \in [1 .. profile.servers -> Reached(outside)],
               attempt' = [WithSecret EXCEPT !.at = "probing", !.exits = exits,
                                        !.addr = PickIpv4(answer), !.outside = outside],
               tunnel' = [tunnel EXCEPT !.session = PickIpv4(answer),
                                        !.peer = PickIpv4(answer)],
               known' = known, Held
        PROVE  ConnectInvariant'
    <2>1. client' = client /\ profile' = profile
      BY <1>8 DEF Held
    <2>2. WithSecret.value = Credential /\ WithSecret.from = Origin
      BY <1>3 DEF WithSecret, Attempts
    <2>3. SecretKept(WithSecret) /\ WithSecret.value \in Bodies /\ WithSecret.from \in Files
      BY <1>1, <2>2, CredentialKept
    <2>4. WithSecret = [attempt EXCEPT !.value = WithSecret.value, !.from = WithSecret.from]
      BY <2>2 DEF WithSecret
    <2>5. PickIpv4(answer) \in Addrs /\ outside \in BOOLEAN
      BY PickIsIpv4 DEF Verdicts
    <2>6. /\ Reached(outside) \subseteq ExitNames
          /\ \A x \in Reached(outside) : x \in {"prompt", "late", "alerts"} =>
                 Credential = Right /\ (Kind = "android" => outside)
      BY DEF Reached, Exits, ExitNames, ProtectFd
    <2>7. exits \in [1 .. profile.servers -> ExitNames]
      BY <2>6
    <2>8. profile.servers \in 0 .. 2
      BY <1>3 DEF Profiles, Fields
    <2>9. exits \in ExitLists
      BY <2>7, <2>8 DEF ExitLists
    <2>10. /\ attempt' \in Attempts /\ attempt'.at = "probing" /\ ~attempt'.sent
           /\ attempt'.value = WithSecret.value /\ attempt'.from = WithSecret.from
           /\ attempt'.exits = exits /\ attempt'.server = 1 /\ attempt'.outside = outside
      BY <1>2, <1>3, <1>8, <2>3, <2>4, <2>5, <2>9 DEF Attempts, Phases
    <2>11. /\ tunnel' \in Tunnels /\ tunnel'.session = tunnel'.peer
           /\ tunnel'.state = tunnel.state
      BY <1>3, <1>8, <2>5 DEF Tunnels
    <2>12. known' \in [keys : SUBSET HostKeys, readable : BOOLEAN]
      BY <1>8 DEF ConnectInvariant, Typed
    <2>13. Session'
      BY <1>1, <2>10, <2>11 DEF ConnectInvariant, Session
    <2>14. SecretKept(attempt)'
      BY <2>1, <2>3, <2>10 DEF SecretKept, Kind, ReadValue, StripOne
    <2>15. Secrets' /\ SshPath'
      BY <2>10, <2>14 DEF Secrets, SshPath
    <2>16. ProbePath'
      BY <2>1, <2>2, <2>6, <2>7, <2>8, <2>10 DEF ProbePath, Kind
    <2> QED
      BY <1>1, <1>8, <2>10, <2>11, <2>12, <2>13, <2>15, <2>16, GoesOn
  <1>9. CASE profile.auth # "shadowsocks"
    BY <1>5, <1>9 DEF Prepare
  <1>10. CASE profile.auth = "shadowsocks" /\ ~profile.offered
    BY <1>6, <1>10 DEF Prepare
  <1>11. CASE profile.auth = "shadowsocks" /\ profile.offered /\ ~Resolves
    BY <1>7, <1>11 DEF Prepare
  <1>12. CASE profile.auth = "shadowsocks" /\ profile.offered /\ Resolves
    <2>1. PICK answer \in Answers :
             IF ~profile.addressed THEN Fail("transport", "host")
             ELSE IF PickIpv4(answer) = NoAddr THEN Fail("protocol", "host")
             ELSE \E outside \in Verdicts :
                  \E exits \in [1 .. profile.servers -> Reached(outside)] :
                    /\ attempt' = [WithSecret EXCEPT !.at = "probing", !.exits = exits,
                                     !.addr = PickIpv4(answer), !.outside = outside]
                    /\ tunnel' = [tunnel EXCEPT !.session = PickIpv4(answer),
                                                !.peer = PickIpv4(answer)]
                    /\ UNCHANGED known /\ Held
      BY <1>12 DEF Prepare
    <2> QED
      BY <1>7, <1>8, <2>1
  <1> QED
    BY <1>9, <1>10, <1>11, <1>12

(* A probe that can be asked has a resolver to ask.                        *)
LEMMA ProbeHasResolver ==
    ASSUME ConnectInvariant, attempt.at = "probing", ~Unaskable
    PROVE  /\ profile.servers \in 1 .. 2 /\ attempt.server \in 1 .. profile.servers
           /\ attempt.exits \in [1 .. profile.servers -> ExitNames]
           /\ attempt.exits # <<>>
  <1>1. profile \in Profiles /\ attempt \in Attempts
    BY Ongoing
  <1>2. profile.servers \in 0 .. 2 /\ profile.servers # 0
    BY <1>1 DEF Profiles, Fields, Unaskable
  <1>3. attempt.server \in 1 .. 2 /\ attempt.server <= profile.servers
    BY <1>1, <1>2 DEF Attempts, ConnectInvariant, ProbePath
  <1>4. attempt.exits \in [1 .. profile.servers -> ExitNames]
    BY DEF ConnectInvariant, ProbePath
  <1>5. 1 \in DOMAIN attempt.exits
    BY <1>2, <1>4
  <1>6. attempt.exits # <<>>
    BY <1>5
  <1> QED
    BY <1>2, <1>3, <1>4, <1>6

(* A resolver has not answered in time: the next one is asked, or that was *)
(* the last.                                                               *)
LEMMA TryNextKeeps ==
    ASSUME ConnectInvariant, Probing, ~InShare(attempt.server),
           NEW error, NEW about, TryNext(error, about),
           about \notin Shaping, error = "auth" => Exit = "closes",
           error \in {"auth", "config"} \/ Exit = "refused" \/ attempt.value = Right
    PROVE  ConnectInvariant'
  <1>1. attempt.at = "probing" /\ left' = left /\ ~Unaskable
    BY DEF Probing, Going
  <1>2. /\ profile.servers \in 1 .. 2 /\ attempt.server \in 1 .. profile.servers
        /\ attempt.exits \in [1 .. profile.servers -> ExitNames]
        /\ attempt.exits # <<>>
    BY <1>1, ProbeHasResolver
  <1>3. attempt \in Attempts /\ SecretKept(attempt)
    BY <1>1, Ongoing
  <1>4. /\ ~InTime(attempt.exits, attempt.server)
        /\ \A i \in 1 .. profile.servers : i < attempt.server => ~InTime(attempt.exits, i)
    BY <1>1 DEF InShare, InTime, ConnectInvariant, ProbePath
  <1>5. CASE LastResolver
    <2> DEFINE e == [attempt EXCEPT !.sent = TRUE]
    <2>1. /\ e \in Attempts /\ e.sent /\ e.value = attempt.value /\ e.from = attempt.from
          /\ e.exits = attempt.exits /\ e.server = attempt.server
      BY <1>3 DEF Attempts
    <2>2. FailAs(error, about, e)
      BY <1>5 DEF TryNext
    <2> HIDE DEF e
    <2>3. attempt.server = profile.servers
      BY <1>5 DEF LastResolver
    <2>4. \A i \in 1 .. profile.servers : i < attempt.server \/ i = attempt.server
      BY <1>2, <2>3
    <2>5. \A i \in DOMAIN e.exits : ~InTime(e.exits, i)
      BY <1>2, <1>4, <2>1, <2>4
    <2>6. SecretKept(e)
      BY <1>3, <2>1 DEF SecretKept
    <2>7. LastAsked(e, Exit)
      BY <1>2, <2>1, <2>3 DEF LastAsked, Exit
    <2>8. EndFits(e, error, about)
      BY <1>2, <2>1, <2>5, <2>6, <2>7 DEF EndFits
    <2> QED
      BY <1>1, <2>2, <2>8, OngoingFails
  <1>6. CASE ~LastResolver
    <2>1. /\ attempt' = [attempt EXCEPT !.server = @ + 1]
          /\ known' = known /\ tunnel' = tunnel /\ Held
      BY <1>6 DEF TryNext
    <2>2. client' = client /\ profile' = profile
      BY <2>1 DEF Held
    <2>3. attempt.server < profile.servers
      BY <1>2, <1>6 DEF LastResolver
    <2>4. /\ attempt' \in Attempts /\ attempt'.at = "probing" /\ attempt'.sent = attempt.sent
          /\ attempt'.value = attempt.value /\ attempt'.from = attempt.from
          /\ attempt'.exits = attempt.exits /\ attempt'.outside = attempt.outside
          /\ attempt'.server = attempt.server + 1
      BY <1>1, <1>2, <1>3, <2>1, <2>3 DEF Attempts
    <2>5. tunnel' \in Tunnels /\ known' \in [keys : SUBSET HostKeys, readable : BOOLEAN]
      BY <2>1 DEF ConnectInvariant, Typed
    <2>6. Session'
      BY <1>1, <2>1, <2>4 DEF ConnectInvariant, Session
    <2>7. SecretKept(attempt)'
      BY <1>3, <2>2, <2>4 DEF SecretKept, Kind, ReadValue, StripOne
    <2>8. ~attempt.sent
      BY <1>1 DEF ConnectInvariant, ProbePath
    <2>9. Secrets' /\ SshPath'
      BY <1>1, <2>4, <2>7, <2>8 DEF Secrets, SshPath
    <2>10. \A i \in 1 .. profile.servers : i < attempt.server + 1 => ~InTime(attempt.exits, i)
      BY <1>2, <1>4
    <2>11. \A i \in 1 .. profile.servers : attempt.exits[i] \in {"prompt", "late", "alerts"} =>
                 attempt.value = Right /\ (Kind = "android" => attempt.outside)
      BY <1>1 DEF ConnectInvariant, ProbePath
    <2>12. attempt.server + 1 <= profile.servers
      BY <1>2, <2>3
    <2>13. \A i \in 1 .. profile'.servers : i < attempt'.server => ~InTime(attempt.exits, i)'
      BY <2>2, <2>4, <2>10 DEF InTime, Share
    <2>14. ProbePath'
      BY <1>2, <2>2, <2>4, <2>8, <2>11, <2>12, <2>13 DEF ProbePath, Kind, InTime
    <2> QED
      BY <1>1, <2>1, <2>4, <2>5, <2>6, <2>9, <2>14, GoesOn
  <1> QED
    BY <1>5, <1>6

(* The steps of the probe.                                                 *)
LEMMA ProbeKeeps ==
    ASSUME ConnectInvariant, ProbeUnaskable \/ ProbeAnswered \/ ProbeFails \/ ProbeShareOver
    PROVE  ConnectInvariant'
  <1>1. attempt.at = "probing" /\ left' = left
    BY DEF ProbeUnaskable, ProbeAnswered, ProbeFails, ProbeShareOver, Probing, Going
  <1>2. ~attempt.sent
    BY <1>1 DEF ConnectInvariant, ProbePath
  <1>3. CASE ProbeUnaskable
    <2>1. Unaskable /\ Fail("config", UnaskableField)
      BY <1>3 DEF ProbeUnaskable
    <2>2. profile \in Profiles /\ profile # NoProfile
      BY <1>1, Ongoing
    <2>3. profile.via = "editor" =>
             profile.servers # 0 /\ (profile.mode = "https" => profile.doh # "none")
      BY <2>2 DEF ConnectInvariant, ProfileSettled, CheckProfile, Shape, DohUsable, Profiles, Fields
    <2>4. profile.via = "editor" => UnaskableField = "sni"
      BY <2>1, <2>3 DEF Unaskable, UnaskableField
    <2> QED
      BY <1>1, <1>2, <2>1, <2>4, UnsentFails DEF Shaping
  <1>4. CASE ProbeAnswered
    <2>1. /\ ~Unaskable /\ InShare(attempt.server) /\ known' = known /\ Held
          /\ attempt' = [attempt EXCEPT !.at = "proven", !.sent = TRUE]
          /\ tunnel' = [tunnel EXCEPT !.state = "connected"]
      BY <1>4 DEF ProbeAnswered, Probing
    <2>2. client' = client /\ profile' = profile
      BY <2>1 DEF Held
    <2>3. attempt \in Attempts /\ SecretKept(attempt) /\ tunnel \in Tunnels
      BY <1>1, Ongoing
    <2>4. attempt.server \in 1 .. profile.servers /\ attempt.exits # <<>>
      BY <1>1, <2>1, ProbeHasResolver
    <2>5. attempt.exits[attempt.server] \in {"prompt", "late"}
      BY <2>1, ConnectAssumption DEF InShare
    <2>6. attempt.value = Right /\ (Kind = "android" => attempt.outside)
      BY <1>1, <2>4, <2>5 DEF ConnectInvariant, ProbePath
    <2>7. /\ attempt' \in Attempts /\ attempt'.at = "proven" /\ attempt'.sent
          /\ attempt'.value = attempt.value /\ attempt'.from = attempt.from
          /\ attempt'.exits = attempt.exits /\ attempt'.outside = attempt.outside
      BY <2>1, <2>3 DEF Attempts, Phases
    <2>8. /\ tunnel' \in Tunnels /\ tunnel'.state = "connected"
          /\ tunnel'.session = tunnel.session /\ tunnel'.peer = tunnel.peer
      BY <2>1, <2>3 DEF Tunnels
    <2>9. known' \in [keys : SUBSET HostKeys, readable : BOOLEAN]
      BY <2>1 DEF ConnectInvariant, Typed
    <2>10. Session'
      BY <2>2, <2>6, <2>7, <2>8 DEF ConnectInvariant, Session, Kind
    <2>11. SecretKept(attempt)'
      BY <2>2, <2>3, <2>7 DEF SecretKept, Kind, ReadValue, StripOne
    <2>12. Secrets' /\ SshPath'
      BY <2>4, <2>6, <2>7, <2>11 DEF Secrets, SshPath
    <2>13. ProbePath'
      BY <2>1, <2>2, <2>7 DEF ProbePath, Unaskable
    <2> QED
      BY <1>1, <2>1, <2>7, <2>8, <2>9, <2>10, <2>12, <2>13, GoesOn
  <1>5. CASE ProbeFails
    <2>1. Probing
      BY <1>5 DEF ProbeFails
    <2>2. /\ Exit \in {"closes", "alerts", "refused"}
          /\ \/ Exit = "closes" /\ TryNext("auth", "credential")
             \/ Exit = "alerts" /\ TryNext("dns", "resolver")
             \/ Exit = "refused" /\ TryNext("transport", "server")
      BY <1>5 DEF ProbeFails
    <2>3. ~InShare(attempt.server)
      BY <2>2, ConnectAssumption DEF InShare, Exit
    <2>4. Exit = "alerts" => attempt.value = Right
      <3>1. attempt.server \in 1 .. profile.servers
        BY <1>1, <2>1, ProbeHasResolver DEF Probing
      <3> QED
        BY <1>1, <3>1 DEF ConnectInvariant, ProbePath, Exit
    <2> QED
      BY <2>1, <2>2, <2>3, <2>4, TryNextKeeps DEF Shaping
  <1>6. CASE ProbeShareOver
    BY <1>6, TryNextKeeps DEF ProbeShareOver, ShareDue, ProbeTimedOut, Shaping
  <1> QED
    BY <1>3, <1>4, <1>5, <1>6

----------------------------------------------------------------------------
(* From a proven session to an engine, and its end.                        *)

(* The engine starts, with the pin on the session's own peer.              *)
LEMMA StartEngineKeeps ==
    ASSUME ConnectInvariant, StartEngine
    PROVE  ConnectInvariant'
  <1>1. attempt.at = "proven" /\ left' = left
    BY DEF StartEngine, Going
  <1>2. /\ attempt \in Attempts /\ SecretKept(attempt) /\ tunnel \in Tunnels
        /\ profile \in Profiles /\ profile # NoProfile
    BY <1>1, Ongoing
  <1>3. attempt.value = Right
    BY <1>1 DEF ConnectInvariant, Secrets
  <1>4. CASE profile.mode = "https" /\ profile.doh = "none" /\ Fail("config", "dns.https")
    <2>1. profile.via # "editor"
      BY <1>2, <1>4 DEF ConnectInvariant, ProfileSettled, CheckProfile, Shape, DohUsable
    <2>2. attempt.exits = <<>>
      BY <1>1, <1>4 DEF ConnectInvariant, ProbePath, Unaskable
    <2>3. attempt.sent /\ client.policy = "verify" => attempt.greeted \in known.keys
      BY <2>2 DEF ConnectInvariant, SshPath
    <2>4. EndFits(attempt, "config", "dns.https")
      BY <1>2, <1>3, <2>1, <2>2, <2>3 DEF EndFits
    <2> QED
      BY <1>1, <1>4, <2>4, OngoingFails DEF Fail
  <1>5. ASSUME NEW answer \in Answers,
               attempt' = [attempt EXCEPT !.at = "up"],
               tunnel' = [tunnel EXCEPT !.pin = IF attempt.pins THEN RoutePin(answer) ELSE NoAddr],
               known' = known, Held
        PROVE  ConnectInvariant'
    <2>1. client' = client /\ profile' = profile
      BY <1>5 DEF Held
    <2>2. /\ attempt' \in Attempts /\ attempt'.at = "up" /\ attempt'.sent = attempt.sent
          /\ attempt'.value = attempt.value /\ attempt'.from = attempt.from
          /\ attempt'.exits = attempt.exits /\ attempt'.outside = attempt.outside
          /\ attempt'.greeted = attempt.greeted /\ attempt'.pins = attempt.pins
      BY <1>2, <1>5 DEF Attempts, Phases
    <2> DEFINE pin == IF attempt.pins THEN RoutePin(answer) ELSE NoAddr
    <2>3. pin \in Addrs /\ (attempt.pins => pin = tunnel.peer)
      BY <1>2 DEF RoutePin, NoAddr, Addrs, Tunnels
    <2>4. tunnel' = [tunnel EXCEPT !.pin = pin]
      BY <1>5
    <2> HIDE DEF pin
    <2>5. /\ tunnel' \in Tunnels /\ tunnel'.state = tunnel.state /\ tunnel'.pin = pin
          /\ tunnel'.session = tunnel.session /\ tunnel'.peer = tunnel.peer
      BY <1>2, <2>3, <2>4 DEF Tunnels
    <2>6. known' \in [keys : SUBSET HostKeys, readable : BOOLEAN]
      BY <1>5 DEF ConnectInvariant, Typed
    <2>7. Session'
      BY <1>1, <2>1, <2>2, <2>3, <2>5 DEF ConnectInvariant, Session, Kind
    <2>8. SecretKept(attempt)'
      BY <1>2, <2>1, <2>2 DEF SecretKept, Kind, ReadValue, StripOne
    <2>9. Secrets'
      BY <1>3, <2>2, <2>8 DEF Secrets
    <2>10. SshPath' /\ ProbePath'
      BY <1>1, <1>5, <2>1, <2>2 DEF ConnectInvariant, SshPath, ProbePath
    <2> QED
      BY <1>1, <1>5, <2>2, <2>5, <2>6, <2>7, <2>9, <2>10, GoesOn
  <1> QED
    BY <1>4, <1>5 DEF StartEngine

(* The user's own end of it.                                               *)
LEMMA DisconnectKeeps ==
    ASSUME ConnectInvariant, Disconnect
    PROVE  ConnectInvariant'
  <1>1. /\ attempt.at = "up" /\ left' = left /\ Held
        /\ attempt' = Blank /\ tunnel' = Down("disconnected") /\ known' = known
    BY DEF Disconnect, Going
  <1>2. UNCHANGED <<client, profile, file, outcome>> /\ outcome' = Nothing
    BY <1>1, Ongoing DEF Held
  <1>3. attempt'.at = "idle" /\ ~attempt'.sent /\ outcome'.about = "none"
        /\ tunnel'.state = "disconnected" /\ ErrorKind(outcome)' = "none"
    BY <1>1, <1>2, Blanks DEF Nothing, ErrorKind
  <1>4. Typed'
    BY <1>1, <1>2, Blanks DEF ConnectInvariant, Typed
  <1>5. ProfileSettled'
    BY <1>1, <1>2, <1>3 DEF ConnectInvariant, ProfileSettled, CheckProfile, Shape, DohUsable, Pairs
  <1>6. Session' /\ Secrets' /\ SshPath' /\ ProbePath'
    BY <1>1, <1>3, Blanks DEF Session, Secrets, SshPath, ProbePath
  <1>7. VerdictFits' /\ ProbeFindsAnswering' /\ SavedProfileRuns'
    BY <1>3 DEF VerdictFits, ProbeFindsAnswering, SavedProfileRuns
  <1> QED
    BY <1>4, <1>5, <1>6, <1>7 DEF ConnectInvariant

----------------------------------------------------------------------------
(* Theorems.                                                               *)

(* Before anything has come in.                                            *)
LEMMA ConnectInit == Init => ConnectInvariant
  <1> SUFFICES ASSUME Init PROVE ConnectInvariant
    OBVIOUS
  <1>1. /\ client \in Clients /\ profile = NoProfile /\ file \in UserFiles
        /\ known = [keys |-> {}, readable |-> TRUE] /\ attempt = Blank
        /\ tunnel = Down("disconnected") /\ outcome = Nothing
        /\ left = [attempts |-> MaxAttempts, edits |-> MaxEdits]
    BY DEF Init
  <1>2. attempt.at = "idle" /\ ~attempt.sent /\ outcome.about = "none"
        /\ tunnel.state = "disconnected" /\ ErrorKind(outcome) = "none"
    BY <1>1, Blanks DEF Nothing, ErrorKind
  <1>3. Typed
    BY <1>1, Blanks, ConnectAssumption DEF Typed, Lefts
  <1>4. ProfileSettled
    BY <1>1, <1>2 DEF ProfileSettled
  <1>5. Session /\ Secrets /\ SshPath /\ ProbePath
    BY <1>1, <1>2, Blanks DEF Session, Secrets, SshPath, ProbePath
  <1>6. VerdictFits /\ ProbeFindsAnswering /\ SavedProfileRuns
    BY <1>2 DEF VerdictFits, ProbeFindsAnswering, SavedProfileRuns
  <1> QED
    BY <1>3, <1>4, <1>5, <1>6 DEF ConnectInvariant

(* Every step keeps the invariant.                                         *)
LEMMA ConnectSteps == ConnectInvariant /\ [Next]_vars => ConnectInvariant'
  BY BringingKeeps, MeanwhileKeeps, GateKeeps, SshLookupKeeps, GreetKeeps, AuthenticateKeeps,
     PrepareKeeps, ProbeKeeps, StartEngineKeeps, DisconnectKeeps
  DEF Next, ConnectSsh, ConnectShadowsocks

(* The invariant of every behaviour.                                       *)
THEOREM ConnectIsSound == Spec => []ConnectInvariant
  BY ConnectInit, ConnectSteps, PTL DEF Spec

(* A tunnel is shown as connected exactly while a proven session stands,   *)
(* nothing of it is left after any failure, the route pin is the address   *)
(* the session reached, and on Android it is outside the VPN.              *)
THEOREM SessionAlwaysPinned == Spec => []SessionIsPinned
  <1>1. ConnectInvariant => SessionIsPinned
    <2> SUFFICES ASSUME ConnectInvariant PROVE SessionIsPinned
      OBVIOUS
    <2>1. TypeOK
      BY DEF ConnectInvariant, Typed, Attempts, Phases, Tunnels, Lefts, Profiles, TypeOK
    <2>2. attempt.at \in Phases /\ tunnel.session \in Addrs
      BY DEF ConnectInvariant, Typed, Attempts, Tunnels
    <2>3. tunnel.state = "connected" <=> attempt.at \in {"proven", "up"}
      BY <2>2, Blanks DEF ConnectInvariant, Session, Phases
    <2>4. tunnel.state \in {"disconnected", "failed"} => tunnel = Down(tunnel.state)
      BY <2>2, Blanks DEF ConnectInvariant, Session, Phases
    <2> QED
      BY <2>1, <2>2, <2>3, <2>4 DEF ConnectInvariant, Session, Addrs, SessionIsPinned
  <1> QED
    BY ConnectIsSound, <1>1, PTL

(* What the user is told about the credential fits what became of it: it   *)
(* is called rejected only once it was used, a right one only when the     *)
(* server hung up on it; a wrong one never connects, and its owner is sent *)
(* back to the profile unless the server could not be reached.             *)
THEOREM VerdictAlwaysFits == Spec => []VerdictFits
  <1>1. ConnectInvariant => VerdictFits
    BY DEF ConnectInvariant
  <1> QED
    BY ConnectIsSound, <1>1, PTL

(* The probe gives up on a right credential only after every resolver of   *)
(* the profile has missed its share of the time.                           *)
THEOREM ProbeFindsWhoAnswers == Spec => []ProbeFindsAnswering
  <1>1. ConnectInvariant => ProbeFindsAnswering
    BY DEF ConnectInvariant
  <1> QED
    BY ConnectIsSound, <1>1, PTL

(* What the editor let its user save is not refused later for its shape.   *)
THEOREM SavedProfileAlwaysRuns == Spec => []SavedProfileRuns
  <1>1. ConnectInvariant => SavedProfileRuns
    BY DEF ConnectInvariant
  <1> QED
    BY ConnectIsSound, <1>1, PTL

(* The helper sends no secret but one from a private file of its caller,   *)
(* whatever has been put in that file's place since.                       *)
THEOREM OnlyCallersSecrets == Spec => []CallersSecretsOnly
  <1>1. ConnectInvariant => CallersSecretsOnly
    BY DEF ConnectInvariant, Secrets, SecretKept, CallersSecretsOnly
  <1> QED
    BY ConnectIsSound, <1>1, PTL

(* A key is added to known_hosts only by Greet, which does so on first     *)
(* contact.                                                                *)
LEMMA KeysStand ==
    ASSUME ConnectInvariant, [Next]_vars
    PROVE  [known'.keys # known.keys => known.keys = {} /\ known.readable]_vars
  <1>0. known \in [keys : SUBSET HostKeys, readable : BOOLEAN]
    BY DEF ConnectInvariant, Typed
  <1>1. CASE Greet
    <2> SUFFICES ASSUME known'.keys # known.keys
                 PROVE  known.keys = {} /\ known.readable
      OBVIOUS
    <2>1. PICK key \in HostKeys :
             /\ Trusted(key)
             /\ known' = IF client.policy = "verify" THEN [known EXCEPT !.keys = @ \cup {key}]
                                                     ELSE known
      BY <1>1 DEF Greet, Fail, FailAs
    <2>2. client.policy = "verify" /\ key \notin known.keys
      BY <1>0, <2>1
    <2> QED
      BY <2>1, <2>2 DEF Trusted, Recorded, FirstContact
  <1>2. CASE ChangeMode
    BY <1>0, <1>2 DEF ChangeMode
  <1>3. CASE Bringing \/ ReplaceFile \/ Gate
    BY <1>3 DEF Bringing, SaveDraft, WriteByHand, ImportPortable, MovePortable, PasteLink, CopyLink,
                ImportSsUri, Arrives, ReplaceFile, Gate, FailAs
  <1>4. CASE SshLookup \/ Authenticate
    BY <1>4 DEF SshLookup, Authenticate, Established, Fail, FailAs
  <1>5. CASE Prepare
    BY <1>5 DEF Prepare, Fail, FailAs
  <1>6. CASE ProbeUnaskable \/ ProbeAnswered \/ ProbeFails \/ ProbeShareOver
    BY <1>6 DEF ProbeUnaskable, ProbeAnswered, ProbeFails, ProbeShareOver, ProbeTimedOut, TryNext,
                Fail, FailAs
  <1>7. CASE StartEngine \/ Disconnect
    BY <1>7 DEF StartEngine, Disconnect, Fail, FailAs
  <1>8. CASE UNCHANGED vars
    BY <1>8
  <1> QED
    BY <1>1, <1>2, <1>3, <1>4, <1>5, <1>6, <1>7, <1>8
    DEF Next, Meanwhile, ConnectSsh, ConnectShadowsocks

(* Host keys are learnt on first contact only, and no credential goes over *)
(* SSH to a server whose key does not stand in known_hosts.                *)
THEOREM HostKeysAlwaysHold == Spec => HostKeysHold
  <1> DEFINE Stood == attempt.sent /\ attempt.exits = <<>> /\ client.policy = "verify"
                        => attempt.greeted \in known.keys
  <1>1. ConnectInvariant => Stood
    BY DEF ConnectInvariant, SshPath
  <1>2. ConnectInvariant /\ [Next]_vars
           => [known'.keys # known.keys => known.keys = {} /\ known.readable]_vars
    BY KeysStand
  <1> QED
    BY ConnectIsSound, <1>1, <1>2, PTL DEF Spec, HostKeysHold
=============================================================================
