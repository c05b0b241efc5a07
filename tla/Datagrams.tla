----------------------------- MODULE Datagrams -----------------------------
(***************************************************************************)
(* The way of a DNS query (crates/liostunnel-core): read off the device,   *)
(* classified (`inspect.rs`), handed to the engine, resolved through the   *)
(* tunnel (`over_tcp.rs`, `over_https.rs`), and its answer put into a raw  *)
(* packet (`dns/mod.rs`) and written to the device (`tun.rs`,              *)
(* `android_tun.rs`).  Lengths are in bytes and fields keep their width.   *)
(* Which server is asked, and for how long, is Relay's; when the loop does *)
(* what is StackLoop's.                                                    *)
(***************************************************************************)
EXTENDS Naturals, Sequences, SequencesExt

CONSTANTS
    Apps,      \* sockets of applications
    Servers,   \* addresses they ask
    Lengths,   \* lengths of what a resolver answers
    Mtus,      \* what StackConfig::mtu may be
    UdpDepth,  \* room in the channel to the engine
    MaxSent    \* bound: packets the applications send

(* The largest length that a field of IP or UDP can say.                   *)
MaxU16 == 65535

ASSUME DatagramsAssumption == Lengths \subseteq Nat /\ UdpDepth \in Nat /\ MaxSent \in Nat
ASSUME MtusAssumption == Mtus \subseteq 40 .. MaxU16

VARIABLES
    mtu,        \* of the device, and the stack's
    mode,       \* dns.mode, of the resolver in use
    sent,       \* history: the packets the applications sent
    datagrams,  \* core.datagrams
    asked,      \* queries with the engine
    replies,    \* answers on their way back, each with its query
    tx,         \* QueuedDevice.tx
    got,        \* history: packets each application received
    lost,       \* history: queries and answers dropped, failed or refused
    stack       \* whether the stack thread runs, or a panic ended it

datagramVars == <<mtu, mode, sent, datagrams, asked, replies, tx, got, lost, stack>>

(* A packet that an application sends: bare IP, or framed by the device.   *)
Packet == [kind : {"framed", "unsound", "dns", "otherudp"}, src : Apps, dst : Servers]
Query == [id : 1 .. MaxSent, src : Apps, dst : Servers]

(* What a resolver gave for a query, and the addresses its packet gets.    *)
DnsAnswer == [query : Query, to : [src : Servers, dst : Apps], len : Nat]

(* A packet of the stack's: its true length, its two length fields, and    *)
(* what it says: the id it answers, whether all of it, and the TC bit.     *)
Reply == [src : Servers, dst : Apps, bytes : Nat, total : 0 .. MaxU16, udp : 0 .. MaxU16,
          id : 1 .. MaxSent, whole : BOOLEAN, tc : BOOLEAN]

DatagramTypeOK ==
    /\ mtu \in Mtus /\ mode \in {"tcp", "https"}
    /\ sent \in Seq(Packet) /\ Len(sent) <= MaxSent
    /\ datagrams \in Seq(Query) /\ asked \subseteq Query
    /\ replies \in Seq(DnsAnswer) /\ tx \in Seq(Reply)
    /\ got \in [Apps -> Seq(Reply)]
    /\ lost \subseteq 1 .. MaxSent
    /\ stack \in {"up", "panicked"}

DatagramInit ==
    /\ mtu \in Mtus /\ mode \in {"tcp", "https"}
    /\ sent = <<>> /\ datagrams = <<>> /\ asked = {} /\ replies = <<>> /\ tx = <<>>
    /\ got = [a \in Apps |-> <<>>]
    /\ lost = {} /\ stack = "up"

----------------------------------------------------------------------------
(* In: PacketIo::read_packet, inspect, ingest.                             *)

(* read_packet refuses a packet whose first nibble is neither 4 nor 6, and *)
(* inspect one that is not sound IPv4; of UDP, what is for port 53 becomes *)
(* a datagram, and the rest is counted and dropped.                        *)
Readable(p) == p.kind # "framed"
Inspected(p) == IF p.kind \in {"dns", "otherudp"} THEN "udp" ELSE "ignored"
Ingest(p) ==
    /\ stack = "up" /\ Len(sent) < MaxSent
    /\ sent' = Append(sent, p)
    /\ IF Readable(p) /\ Inspected(p) = "udp" /\ p.kind = "dns"
       THEN /\ datagrams' = Append(datagrams, [id |-> Len(sent'), src |-> p.src, dst |-> p.dst])
            /\ UNCHANGED lost
       ELSE /\ lost' = lost \cup {Len(sent')}
            /\ UNCHANGED datagrams
    /\ UNCHANGED <<mtu, mode, asked, replies, tx, got, stack>>

(* take_datagrams and try_send: the first that does not fit, and every one *)
(* behind it, is dropped.                                                  *)
HandOver(room) ==
    LET fits == IF room < Len(datagrams) THEN room ELSE Len(datagrams)
    IN  /\ stack = "up" /\ datagrams # <<>>
        /\ asked' = asked \cup Range(SubSeq(datagrams, 1, fits))
        /\ lost' = lost \cup {datagrams[k].id : k \in fits + 1 .. Len(datagrams)}
        /\ datagrams' = <<>>
        /\ UNCHANGED <<mtu, mode, sent, replies, tx, got, stack>>

----------------------------------------------------------------------------
(* Through: Resolver::query and resolve_one.                               *)

MaxUdpPayload == MaxU16 - 20 - 8

(* What a resolver takes for an answer: of TCP, what two bytes of length   *)
(* can say; of HTTPS, a body that collect_bounded could hold; never one    *)
(* that is empty.                                                          *)
CollectBounded(len) == len <= MaxUdpPayload
Accepted(len) == len > 0 /\ IF mode = "tcp" THEN len <= MaxU16 ELSE CollectBounded(len)

(* The reply comes from the address that was asked.                        *)
Addressed_Back(q) == [src |-> q.src, dst |-> q.dst]
Addressed(q) == [src |-> q.dst, dst |-> q.src]
Resolve(q, len) ==
    /\ q \in asked
    /\ asked' = asked \ {q}
    /\ IF Accepted(len)
       THEN replies' = Append(replies, [query |-> q, to |-> Addressed(q), len |-> len])
            /\ UNCHANGED lost
       ELSE lost' = lost \cup {q.id} /\ UNCHANGED replies
    /\ UNCHANGED <<mtu, mode, sent, datagrams, tx, got, stack>>

----------------------------------------------------------------------------
(* Out: inject_datagram, truncate_dns_reply, build_udp_packet.             *)

U16(n) == n % (MaxU16 + 1)
DnsHeader == 12
SaturatingSub(a, b) == IF a > b THEN a - b ELSE 0

(* An answer that does not fit becomes its header, with the TC bit.        *)
TooLong_Never(len) == FALSE
TooLong(len) == len > SaturatingSub(mtu, 28)
Payload(len) == IF TooLong(len) THEN [len |-> DnsHeader, whole |-> FALSE, tc |-> TRUE]
                                ELSE [len |-> len, whole |-> TRUE, tc |-> FALSE]

BuildUdpPacket(to, id, payload) ==
    [src |-> to.src, dst |-> to.dst, bytes |-> 28 + payload.len,
     total |-> U16(28 + payload.len), udp |-> U16(8 + payload.len),
     id |-> id, whole |-> payload.whole, tc |-> payload.tc]

(* A length field that wrapped would make the copy into the packet panic,  *)
(* on the one thread that every flow lives on.                             *)
Panics(packet) == packet.udp # packet.bytes - 20

Inject ==
    /\ stack = "up" /\ replies # <<>>
    /\ LET reply == Head(replies)
           payload == Payload(reply.len)
           packet == BuildUdpPacket(reply.to, reply.query.id, payload)
       IN  /\ replies' = Tail(replies)
           /\ IF payload.len > MaxUdpPayload
              THEN lost' = lost \cup {reply.query.id} /\ UNCHANGED <<tx, stack>>
              ELSE IF Panics(packet)
              THEN stack' = "panicked" /\ UNCHANGED <<tx, lost>>
              ELSE tx' = Append(tx, packet) /\ UNCHANGED <<stack, lost>>
    /\ UNCHANGED <<mtu, mode, sent, datagrams, asked, got>>

(* drain_tx and write_packet: the device takes the packet, or the error is *)
(* logged and the packet gone.                                             *)
Write ==
    /\ stack = "up" /\ tx # <<>>
    /\ tx' = Tail(tx)
    /\ \/ /\ Head(tx).bytes <= mtu
          /\ got' = [got EXCEPT ![Head(tx).dst] = Append(@, Head(tx))]
          /\ UNCHANGED lost
       \/ /\ lost' = lost \cup {Head(tx).id}
          /\ UNCHANGED got
    /\ UNCHANGED <<mtu, mode, sent, datagrams, asked, replies, stack>>

----------------------------------------------------------------------------
DatagramNext ==
    \/ \E p \in Packet : Ingest(p)
    \/ \E room \in 0 .. UdpDepth : HandOver(room)
    \/ \E q \in asked, len \in Lengths : Resolve(q, len)
    \/ Inject
    \/ Write

DatagramSpec == DatagramInit /\ [][DatagramNext]_datagramVars

----------------------------------------------------------------------------
Received == UNION {Range(got[a]) : a \in Apps}

(* Whatever a resolver answers, and however long, no packet of the stack's *)
(* is larger than the device carries, its length fields are those of the   *)
(* packet, and the thread that builds it goes on (inject_datagram,         *)
(* build_udp_packet).                                                      *)
RepliesFit ==
    /\ DatagramTypeOK
    /\ stack = "up"
    /\ \A r \in Range(tx) \cup Received :
          r.bytes <= mtu /\ r.total = r.bytes /\ r.udp + 20 = r.bytes

(* An application receives answers to its own queries only, each from the  *)
(* address it asked and at most once, whole or marked as truncated; and a  *)
(* query that left no answer is one that was lost on the way.              *)
AnsweredOnce ==
    /\ \A a \in Apps : \A k \in DOMAIN got[a] :
          /\ got[a][k].dst = a
          /\ sent[got[a][k].id] = [kind |-> "dns", src |-> a, dst |-> got[a][k].src]
          /\ got[a][k].whole <=> ~got[a][k].tc
          /\ \A j \in DOMAIN got[a] : got[a][j].id = got[a][k].id => j = k
    /\ \A i \in DOMAIN sent :
          LET under == {q.id : q \in Range(datagrams) \cup asked}
                       \cup {r.query.id : r \in Range(replies)} \cup {p.id : p \in Range(tx)}
          IN  i \in under \cup lost \cup {p.id : p \in Received}
=============================================================================
