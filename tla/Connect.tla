------------------------------- MODULE Connect -------------------------------
(***************************************************************************)
(* A profile on its way to a connected tunnel: how it comes to be (saved   *)
(* by the app's editor, written by hand, read from a link or a portable    *)
(* file), what each of the three clients checks and reads before it dials, *)
(* and how SshTunnel and ShadowsocksTunnel prove server and credential.    *)
(* Between any two steps the user may replace the secret file, the server  *)
(* its host key, and the name may resolve to something else.               *)
(***************************************************************************)
EXTENDS Integers, Sequences, FiniteSets

CONSTANTS
    Drafts,         \* profiles somebody may try to save or connect with
    UserFiles,      \* what the secret file may be, and be replaced by
    Answers,        \* what the server's name may resolve to
    HostKeys,       \* keys a server may present: algorithm and key
    ProbeTimeout,   \* ShadowsocksTunnel::PROBE_TIMEOUT, in seconds
    ReplyDelay,     \* seconds until a resolver of each behaviour answers
    MaxAttempts,    \* connects
    MaxEdits        \* changes made by the user and the server meanwhile

Bodies == [base : {"right", "wrong"}, eols : 0 .. 2]
NoBody == [base |-> "none", eols |-> 0]
Files == [body : Bodies, owner : {"caller", "other"}, private : BOOLEAN]
NoFile == [body |-> NoBody, owner |-> "caller", private |-> TRUE]
Fields == [via : {"draft", "editor", "file"},    \* the way it came in
           protocol : {"ssh", "shadowsocks", "wireguard"},
           auth : {"password", "private_key", "preshared_key", "shadowsocks"},
           offered : BOOLEAN,       \* the cipher is one of OFFERED
           addressed : BOOLEAN,     \* host not blank, port not zero
           mode : {"tcp", "https"},
           doh : {"none", "good", "blank", "relative", "unparsable"},
           servers : 0 .. 2,
           source : {"file", "env"}]

NoAddr == "none"
Addresses == {"v4a", "v4b", "v6"}

ASSUME ConnectAssumption ==
    /\ Drafts \subseteq Fields
    /\ UserFiles \subseteq Files
    /\ Answers \subseteq Seq(Addresses)
    /\ HostKeys \subseteq [alg : STRING, id : Nat]
    /\ ProbeTimeout \in Nat \ {0} /\ MaxAttempts \in Nat /\ MaxEdits \in Nat
    /\ ReplyDelay \in [{"prompt", "late"} -> Nat]

VARIABLES
    client,    \* who connects, and its HostKeyPolicy
    profile,   \* the profile at hand, and the way it came in
    file,      \* the file its SecretRef names
    known,     \* this client's known_hosts: entries for the server, readable
    attempt,   \* the connect under way
    tunnel,    \* SshTunnel, ShadowsocksTunnel: state, session, peer; the route pin
    outcome,   \* what the last attempt ended with
    left       \* attempts and edits still to come

vars == <<client, profile, file, known, attempt, tunnel, outcome, left>>

NoKey == [alg |-> "none", id |-> 0]
Blank == [at |-> "idle", value |-> NoBody, from |-> NoFile, sent |-> FALSE,
          addr |-> NoAddr, greeted |-> NoKey, fate |-> "open", exits |-> <<>>, server |-> 1,
          pins |-> FALSE, outside |-> FALSE]
Down(state) == [state |-> state, session |-> NoAddr, peer |-> NoAddr, pin |-> NoAddr]
NoProfile == [via |-> "nobody"]
Nothing == [error |-> "none", about |-> "none"]

Clients == {[kind |-> k, policy |-> "verify"] : k \in {"helper", "cli", "android"}}
           \cup {[kind |-> "cli", policy |-> "accept_any"]}
Kind == client.kind

Init ==
    /\ client \in Clients
    /\ profile = NoProfile
    /\ file \in UserFiles
    /\ known = [keys |-> {}, readable |-> TRUE]
    /\ attempt = Blank /\ tunnel = Down("disconnected") /\ outcome = Nothing
    /\ left = [attempts |-> MaxAttempts, edits |-> MaxEdits]

First(I) == CHOOSE i \in I : \A j \in I : i <= j

----------------------------------------------------------------------------
(* The secret: a file may end in a line ending nobody meant, and exactly   *)
(* one is dropped; an environment variable is taken as it is.              *)

Right == [base |-> "right", eols |-> 0]
StripOne(body) == [body EXCEPT !.eols = IF @ = 0 THEN 0 ELSE @ - 1]
FileSecretValue_Raw(body) == body
FileSecretValue(body) == StripOne(body)

ReadValue(source, body) == IF source = "env" THEN body ELSE StripOne(body)

(* The helper reads as root on behalf of its caller; the command line asks *)
(* for a private file and no more; an app reads its own sandbox.           *)
OwnedByCaller(f) == f.private /\ f.owner = "caller"
FileSecretStoreReads(p) == p.source = "file" => file.private
MayRead(p) == CASE Kind = "helper" -> p.source = "file" => OwnedByCaller(file)
                [] Kind = "cli"    -> FileSecretStoreReads(p)
                [] OTHER           -> p.source = "file" /\ file.owner = "caller"

(* The secret is served from memory, but for the command line, which opens *)
(* the file when the protocol asks for it.                                 *)
Serves_Path == TRUE
Serves == Kind = "cli"
Credential == IF Serves THEN ReadValue(profile.source, file.body) ELSE attempt.value
Origin == IF Serves THEN file ELSE attempt.from
Resolves == Serves => FileSecretStoreReads(profile)

----------------------------------------------------------------------------
(* Where a profile comes from.                                             *)

Pairs_Any(protocol, auth) == TRUE
Pairs(protocol, auth) ==
    \/ protocol = "ssh" /\ auth \in {"password", "private_key"}
    \/ protocol = "wireguard" /\ auth = "preshared_key"
    \/ protocol = "shadowsocks" /\ auth = "shadowsocks"

DohUsable(p) == p.mode = "https" => p.doh \in {"good", "unparsable"}
Shape(p) == p.addressed /\ p.servers > 0 /\ DohUsable(p)

CheckProfile(p) ==
    Shape(p) /\ (p.auth = "shadowsocks" => p.offered) /\ Pairs(p.protocol, p.auth)

FromDraft(d, via) == [d EXCEPT !.via = via]

(* Bound: the profile is settled before the first attempt.                 *)
Arrives(p, f) ==
    /\ left.attempts = MaxAttempts
    /\ profile' = p /\ file' = f
    /\ UNCHANGED <<client, known, attempt, tunnel, outcome, left>>

SaveDraft == \E d \in Drafts : CheckProfile(d) /\ Arrives(FromDraft(d, "editor"), file)
WriteByHand == \E d \in Drafts : Kind # "android" /\ Arrives(FromDraft(d, "file"), file)

(* Both kinds of import write the credential into a file of the user's     *)
(* own, mode 0600, whatever stood in its place.                            *)
Written(body) == [body |-> body, owner |-> "caller", private |-> TRUE]

ImportPortable ==
    \E d \in Drafts, base \in {"right", "wrong"} :
        /\ Kind = "cli" /\ d.source = "file"
        /\ Arrives(FromDraft(d, "file"), Written([base |-> base, eols |-> 0]))

(* `liostunnel export` reads the secret as a connect would, a variable as  *)
(* well as a file; the profile it prints carries it, and is imported.      *)
ExportPortable(p) == [p EXCEPT !.source = "file"]
MovePortable ==
    /\ Kind = "cli" /\ profile # NoProfile /\ FileSecretStoreReads(profile)
    /\ Arrives(FromDraft(ExportPortable(profile), "file"),
               Written(ReadValue(profile.source, file.body)))

(* What a link may say of the server, and what is taken of it.             *)
Places == {"named", "ipv6", "no host", "port zero"}
SplitHostPort(place) == place = "named"

Linked(offered, place) ==
    [via |-> "draft", protocol |-> "shadowsocks", auth |-> "shadowsocks", offered |-> offered,
     addressed |-> place \notin {"no host", "port zero"}, mode |-> "tcp", doh |-> "none",
     servers |-> 2, source |-> "file"]

ImportSsUri(offered, place, body) ==
    /\ Kind # "cli" /\ offered
    /\ Arrives(FromDraft(Linked(offered, place), "editor"), Written(body))

PasteLink == \E offered \in BOOLEAN, place \in Places, base \in {"right", "wrong"} :
                /\ SplitHostPort(place)
                /\ ImportSsUri(offered, place, [base |-> base, eols |-> 0])

(* export_ss_uri writes any cipher's link; pasted back, it is imported.    *)
ExportSsUri(p) == p.auth = "shadowsocks" /\ p.protocol = "shadowsocks" /\ p.addressed
CopyLink ==
    /\ profile # NoProfile /\ profile.source = "file" /\ file.owner = "caller"
    /\ ExportSsUri(profile)
    /\ ImportSsUri(profile.offered, "named", FileSecretValue(file.body))

(* What goes on meanwhile.                                                 *)
Edited == left.edits > 0 /\ left' = [left EXCEPT !.edits = @ - 1]

ReplaceFile ==
    /\ Edited /\ file' \in UserFiles \ {file}
    /\ UNCHANGED <<client, profile, known, attempt, tunnel, outcome>>
ChangeMode ==
    /\ Edited /\ known' = [known EXCEPT !.readable = ~@]
    /\ UNCHANGED <<client, profile, file, attempt, tunnel, outcome>>

----------------------------------------------------------------------------
(* The gate each client puts before the network.                           *)

(* Every error exit leaves nothing of the session behind.                  *)
FailAs(error, about, ended) ==
    /\ outcome' = [error |-> error, about |-> about]
    /\ attempt' = [ended EXCEPT !.at = "idle", !.addr = NoAddr, !.pins = FALSE]
    /\ tunnel' = Down("failed")
    /\ UNCHANGED <<client, profile, file, known>>

Fail(error, about) == FailAs(error, about, attempt)

(* "half" stands for the two halves of the address space: both clients     *)
(* refuse the whole of it in test mode, only the helper refuses these.     *)
ParsesRouteMode(route) == route \in {"default", "test", "half"}
RouteModeOk(route) == ParsesRouteMode(route) /\ route # "half"

(* What each client finds wrong before it dials, in the order it looks.    *)
HelperRefusals(p, route) ==
    << <<p.protocol = "wireguard", "bad_profile", "protocol">>,
       <<~RouteModeOk(route), "bad_route_mode", "route">>,
       <<p.source = "env", "env_not_allowed", "secret">>,
       <<~MayRead(p), "secret_not_permitted", "secret">> >>

CliRefusals(p, route) ==
    << <<~p.addressed, "config", "address">>,
       <<p.servers = 0, "config", "dns.servers">>,
       <<~DohUsable(p), "config", "dns.https">>,
       <<~MayRead(p), "config", "secret">>,
       <<~ParsesRouteMode(route), "config", "route">>,
       <<p.protocol = "wireguard", "unsupported", "protocol">> >>

AndroidRefusals(p) ==
    << <<~MayRead(p), "config", "secret">>,
       <<p.protocol = "wireguard", "unsupported", "protocol">> >>

Refused(checks) == {i \in DOMAIN checks : checks[i][1]}

Gate ==
    /\ attempt.at = "idle" /\ profile # NoProfile /\ left.attempts > 0
    /\ left' = [left EXCEPT !.attempts = @ - 1]
    /\ \E route \in IF Kind = "android" THEN {"default"} ELSE {"default", "test", "half", "bad"} :
          LET checks == CASE Kind = "helper" -> HelperRefusals(profile, route)
                          [] Kind = "cli"    -> CliRefusals(profile, route)
                          [] OTHER           -> AndroidRefusals(profile)
              bad == Refused(checks)
          IN  \/ bad # {} /\ FailAs(checks[First(bad)][2], checks[First(bad)][3], Blank)
              \/ /\ bad = {}
                 /\ attempt' = [Blank EXCEPT !.at = "gated",
                                  !.pins = route = "default" /\ Kind # "android",
                                  !.value = IF Kind = "android" /\ profile.source = "file"
                                            THEN FileSecretValue(file.body)
                                            ELSE ReadValue(profile.source, file.body),
                                  !.from = file]
                 /\ tunnel' = Down("connecting") /\ outcome' = Nothing
                 /\ UNCHANGED <<client, profile, file, known>>

Going(at) == attempt.at = at /\ UNCHANGED left
Held == UNCHANGED <<client, profile, file, outcome>>

(* One lookup, and the first IPv4 address it gives.                        *)
PickIpv4(addrs) ==
    LET v4 == {i \in DOMAIN addrs : addrs[i] # "v6"}
    IN  IF v4 = {} THEN NoAddr ELSE addrs[First(v4)]

(* On Android a socket of the tunnel's own must stay outside the VPN, or   *)
(* it is routed into itself: VpnService.protect may throw, or decline by   *)
(* returning FALSE, and either is an error.  One verdict for each attempt. *)
Verdicts == IF Kind = "android" THEN BOOLEAN ELSE {FALSE}
ProtectFd(outside) == Kind = "android" => outside

----------------------------------------------------------------------------
(* SshTunnel::connect_inner: lookup, one protected socket, greeting, then  *)
(* the credential, whose fate is the server's to decide, or that of a key  *)
(* which does not even decode.                                             *)

SshLookup ==
    /\ Going("gated") /\ profile.protocol = "ssh"
    /\ \E answer \in Answers :
          IF ~profile.addressed \/ PickIpv4(answer) = NoAddr THEN Fail("protocol", "host")
          ELSE /\ attempt' = [attempt EXCEPT !.at = "dialing", !.addr = PickIpv4(answer)]
               /\ UNCHANGED <<known, tunnel>> /\ Held

(* check_server_key: a key of an algorithm that is not recorded is no      *)
(* first contact, nor is a store that cannot be read.                      *)
FirstContact_SameAlgorithm(key) == known.readable /\ \A k \in known.keys : k.alg # key.alg
FirstContact(key) == known.readable /\ known.keys = {}
Recorded(key) == known.readable /\ key \in known.keys
Trusted(key) == client.policy = "accept_any" \/ Recorded(key) \/ FirstContact(key)

Greet ==
    /\ Going("dialing")
    /\ \/ Fail("protocol", "server")
       \/ \E key \in HostKeys : ~Trusted(key) /\ Fail("host_key", "server")
       \/ \E key \in HostKeys, outside \in Verdicts :
             /\ ProtectFd(outside) /\ Trusted(key)
             /\ known' = IF client.policy = "verify" THEN [known EXCEPT !.keys = @ \cup {key}]
                                                     ELSE known
             /\ attempt' = [attempt EXCEPT !.at = "greeted", !.greeted = key,
                                            !.outside = outside]
             /\ UNCHANGED tunnel /\ Held

WithSecret == [attempt EXCEPT !.value = Credential, !.from = Origin]
Sent == [WithSecret EXCEPT !.sent = TRUE]

Established == /\ attempt' = [Sent EXCEPT !.at = "proven"]
               /\ tunnel' = [tunnel EXCEPT !.state = "connected",
                                           !.session = attempt.addr, !.peer = attempt.addr]
               /\ UNCHANGED known /\ Held

Authenticate ==
    /\ Going("greeted")
    /\ IF ~Pairs("ssh", profile.auth) THEN Fail("unsupported", "auth")
       ELSE IF ~Resolves THEN Fail("config", "secret")
       ELSE \/ Credential = Right /\ Established
            \/ /\ Credential # Right /\ profile.auth = "private_key"
               /\ FailAs("auth", "credential", [WithSecret EXCEPT !.fate = "undecoded"])
            \/ /\ Credential # Right
               /\ FailAs("auth", "credential", [Sent EXCEPT !.fate = "refused"])
            \/ FailAs("auth", "credential", [Sent EXCEPT !.fate = "hung up"])

----------------------------------------------------------------------------
(* ShadowsocksTunnel: prepare, then one round trip through the server for  *)
(* each resolver in turn, until one answers.                               *)

(* What may come back through the server.  A wrong credential is discarded *)
(* in silence by most servers and hung up on by some; a TLS alert is an    *)
(* answer only DNS over HTTPS can get.                                     *)
Exits(mode, value) ==
    {"mute", "closes", "refused"}
    \cup (IF value = Right THEN {"prompt", "late"} ELSE {})
    \cup (IF value = Right /\ mode = "https" THEN {"alerts"} ELSE {})

(* The hook protects each socket before it connects, or it does not.       *)
Reached(outside) == IF ProtectFd(outside) THEN Exits(profile.mode, Credential) ELSE {"refused"}

Prepare ==
    /\ Going("gated") /\ profile.protocol = "shadowsocks"
    /\ CASE profile.auth # "shadowsocks" -> Fail("config", "auth")
         [] profile.auth = "shadowsocks" /\ ~profile.offered -> Fail("config", "cipher")
         [] profile.auth = "shadowsocks" /\ profile.offered /\ ~Resolves ->
                Fail("config", "secret")
         [] OTHER ->
              \E answer \in Answers :
                IF ~profile.addressed THEN Fail("transport", "host")
                ELSE IF PickIpv4(answer) = NoAddr THEN Fail("protocol", "host")
                ELSE \E outside \in Verdicts :
                     \E exits \in [1 .. profile.servers -> Reached(outside)] :
                       /\ attempt' = [WithSecret EXCEPT !.at = "probing", !.exits = exits,
                                        !.addr = PickIpv4(answer), !.outside = outside]
                       /\ tunnel' = [tunnel EXCEPT !.session = PickIpv4(answer),
                                                   !.peer = PickIpv4(answer)]
                       /\ UNCHANGED known /\ Held

Share == ProbeTimeout \div profile.servers
InShare(i) == /\ attempt.exits[i] \in DOMAIN ReplyDelay
              /\ ReplyDelay[attempt.exits[i]] <= Share

(* What is knowable without a byte on the wire ends the loop at once.      *)
Unaskable == \/ profile.servers = 0
             \/ profile.mode = "https" /\ profile.doh \in {"none", "blank", "unparsable"}
UnaskableField == IF profile.servers = 0 THEN "dns.servers"
                  ELSE IF profile.doh = "none" THEN "dns.https" ELSE "sni"

LastResolver_First == TRUE
LastResolver == attempt.server = profile.servers

TryNext(error, about) ==
    IF LastResolver THEN FailAs(error, about, [attempt EXCEPT !.sent = TRUE])
    ELSE /\ attempt' = [attempt EXCEPT !.server = @ + 1]
         /\ UNCHANGED <<known, tunnel>> /\ Held

Probing == Going("probing") /\ ~Unaskable
Exit == attempt.exits[attempt.server]

ProbeUnaskable == Going("probing") /\ Unaskable /\ Fail("config", UnaskableField)

ProbeAnswered ==
    /\ Probing /\ InShare(attempt.server)
    /\ attempt' = [attempt EXCEPT !.at = "proven", !.sent = TRUE]
    /\ tunnel' = [tunnel EXCEPT !.state = "connected"]
    /\ UNCHANGED known /\ Held

(* An alert reached rustls, so it came through the cipher.                 *)
ProbeFails ==
    /\ Probing
    /\ CASE Exit = "closes"  -> TryNext("auth", "credential")
         [] Exit = "alerts"  -> TryNext("dns", "resolver")
         [] Exit = "refused" -> TryNext("transport", "server")
         [] OTHER                            -> FALSE

ProbeTimedOut == TryNext("config", "probe")

ShareDue_Never == FALSE
ShareDue == ~InShare(attempt.server) /\ Exit \in {"late", "mute"}
ProbeShareOver == Probing /\ ShareDue /\ ProbeTimedOut

----------------------------------------------------------------------------
(* From a proven session to an engine: the route pin names the address the *)
(* session reached; only then is the resolver built.                       *)

RoutePin_LooksUp(answer) == PickIpv4(answer)
RoutePin(answer) == tunnel.peer

(* build_doh_request, once for each query: the first to look at the path.  *)
BuildsRequest(p) == p.mode = "https" => p.doh \notin {"blank", "relative"}

StartEngine ==
    /\ Going("proven")
    /\ IF profile.mode = "https" /\ profile.doh = "none" THEN Fail("config", "dns.https")
       ELSE /\ attempt' = [attempt EXCEPT !.at = "up"]
            /\ \E answer \in Answers :
                  tunnel' = [tunnel EXCEPT !.pin =
                                IF attempt.pins THEN RoutePin(answer) ELSE NoAddr]
            /\ UNCHANGED known /\ Held

(* The user ends the tunnel: it is dropped, and its session with it.       *)
Disconnect ==
    /\ Going("up")
    /\ attempt' = Blank /\ tunnel' = Down("disconnected")
    /\ UNCHANGED known /\ Held

(* dispatch::connect_failed: the kind the app's message is chosen by.      *)
ErrorKind(o) ==
    CASE o.error \in {"bad_profile", "bad_route_mode", "env_not_allowed", "config"} -> "bad_request"
      [] o.error = "secret_not_permitted" -> "secret_not_permitted"
      [] o.error = "auth" -> "auth_failed"
      [] o.error = "none" -> "none"
      [] OTHER -> "internal"

Bringing == \/ SaveDraft \/ WriteByHand \/ ImportPortable \/ MovePortable \/ PasteLink \/ CopyLink
Meanwhile == ReplaceFile \/ ChangeMode
ConnectSsh == SshLookup \/ Greet \/ Authenticate
ConnectShadowsocks ==
    Prepare \/ ProbeUnaskable \/ ProbeAnswered \/ ProbeFails \/ ProbeShareOver

Next == \/ Bringing \/ Meanwhile \/ Gate \/ ConnectSsh \/ ConnectShadowsocks
        \/ StartEngine \/ Disconnect

Spec == Init /\ [][Next]_vars

(* A lookup returns, a connect to a Shadowsocks server is bounded, and so  *)
(* is each share of the probe.  Nothing is assumed of an SSH server.       *)
FairSpec == Spec /\ WF_vars(ConnectShadowsocks)

----------------------------------------------------------------------------
(* Properties.                                                             *)

TypeOK ==
    /\ client \in Clients
    /\ profile # NoProfile => profile \in Fields /\ profile.via # "draft"
    /\ file \in Files
    /\ known.keys \subseteq HostKeys /\ known.readable \in BOOLEAN
    /\ attempt.at \in {"idle", "gated", "dialing", "greeted", "probing", "proven", "up"}
    /\ attempt.value \in Bodies \cup {NoBody} /\ attempt.from \in Files \cup {NoFile}
    /\ attempt.server \in 1 .. 2
    /\ tunnel.state \in {"disconnected", "connecting", "connected", "failed"}
    /\ left.attempts \in 0 .. MaxAttempts /\ left.edits \in 0 .. MaxEdits

(* A tunnel says Connected exactly while it has a proven session; any      *)
(* failure, at whatever step, takes session and peer with it; and the      *)
(* route pin names the address the session itself reached, however often   *)
(* the name resolves to something else (peer_addr, connect_protocol); and  *)
(* on Android it is out of the VPN's own reach (protect_fd).               *)
SessionIsPinned ==
    /\ TypeOK
    /\ tunnel.state = "connected" <=> attempt.at \in {"proven", "up"}
    /\ tunnel.state \in {"disconnected", "failed"} => tunnel = Down(tunnel.state)
    /\ tunnel.session = tunnel.peer /\ tunnel.session # "v6"
    /\ attempt.at = "up" /\ attempt.pins => tunnel.pin = tunnel.session
    /\ tunnel.state = "connected" /\ Kind = "android" => attempt.outside

(* A key is recorded on first contact only, and a credential is sent over  *)
(* SSH only to a server whose key stood, or was put, in known_hosts before *)
(* it (check_server_key), however the server and the file change.          *)
HostKeysHold ==
    /\ [][known'.keys # known.keys => known.keys = {} /\ known.readable]_vars
    /\ [](attempt.sent /\ attempt.exits = <<>> /\ client.policy = "verify"
             => attempt.greeted \in known.keys)

(* What the user put into the secret file: one final line ending is the    *)
(* editor's, a variable has none.                                          *)
RightlyKept == /\ attempt.from.body.base = "right"
               /\ attempt.from.body.eols <= (IF profile.source = "env" THEN 0 ELSE 1)

(* What became of the credential, as the server's side knows it: hung up   *)
(* on while it was judged, or, by the last resolver's way, never reached.  *)
HungUpOn == IF attempt.exits = <<>> THEN attempt.fate = "hung up"
                                    ELSE LastResolver /\ Exit = "closes"
NeverReached == attempt.exits # <<>> /\ LastResolver /\ Exit = "refused"

(* What the user is told about the credential fits what became of it.      *)
(* "auth_failed", the server rejected the credentials, never stands for a  *)
(* failure before the credential was used (a name, a route, a host key, a  *)
(* refused connect); and who has the right one is told so only if the      *)
(* server hung up in the middle of it, which the code reports in the same  *)
(* way.  A wrong one never connects, and is never "internal", which points *)
(* at the helper's log, unless the server could not be reached.            *)
VerdictFits ==
    /\ ErrorKind(outcome) = "auth_failed" =>
           /\ attempt.sent \/ attempt.fate = "undecoded"
           /\ RightlyKept => HungUpOn
    /\ (attempt.at = "idle" /\ attempt.sent /\ ~RightlyKept) =>
           ErrorKind(outcome) \in {"auth_failed", "bad_request"} \/ NeverReached
    /\ tunnel.state = "connected" => RightlyKept

(* The probe refuses a right credential only if no resolver of the profile *)
(* answers within its share of the time: one that does is found, wherever  *)
(* it stands in the list (probe_once).                                     *)
ProbeFindsAnswering ==
    (attempt.at = "idle" /\ attempt.sent /\ attempt.exits # <<>> /\ attempt.value = Right)
        => \A i \in DOMAIN attempt.exits : ~InShare(i)

(* What check_profile lets the editor save is not refused for its shape    *)
(* later, by another process: neither helper nor tunnel finds fault with   *)
(* an address, a pairing, a cipher, a missing resolver or endpoint, and    *)
(* the resolver that it runs can build its requests.                       *)
SavedProfileRuns ==
    (profile # NoProfile /\ profile.via = "editor") =>
        /\ outcome.about \notin {"address", "auth", "cipher", "dns.servers", "dns.https"}
        /\ attempt.at = "up" => BuildsRequest(profile)

(* The helper, which could read anybody's file, sends a credential only if *)
(* the file it was read from belonged to the caller and was private, even  *)
(* if another file has taken its place by then (read_secret_owned_by).     *)
CallersSecretsOnly ==
    Kind = "helper" /\ attempt.sent =>
        attempt.from.owner = "caller" /\ attempt.from.private

(* A Shadowsocks connect ends, whatever server and resolvers do.           *)
ConnectSettles ==
    (attempt.at \in {"gated", "probing"} /\ profile.protocol = "shadowsocks")
        ~> attempt.at \notin {"gated", "probing"}
=============================================================================
