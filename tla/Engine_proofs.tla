---------------------------- MODULE Engine_proofs ----------------------------
(***************************************************************************)
(* What Engine does with traffic.  Datagrams: any number of applications,  *)
(* servers and queries, any device and any answer: what comes back fits,   *)
(* belongs to a query, and comes once.  Relay: any number of flows,        *)
(* queries and permits: none is lost, and flows never take those of DNS.   *)
(***************************************************************************)
EXTENDS Datagrams, Relay, SequenceTheorems, FiniteSetTheorems, TLAPS

----------------------------------------------------------------------------
(* The invariant.  That an application gets an answer once depends on a    *)
(* query being in one place at a time (Apart), and that it is its own on   *)
(* every place naming the packet that was sent (Matched).                  *)

IdsOf(s) == {s[k].id : k \in DOMAIN s}
QueriesOf(s) == {s[k].query.id : k \in DOMAIN s}

DatagramIds == IdsOf(datagrams)
AskedIds == {q.id : q \in asked}
ReplyIds == QueriesOf(replies)
TxIds == IdsOf(tx)
GotIds == UNION {IdsOf(got[a]) : a \in Apps}

Once(s) == \A j, k \in DOMAIN s : s[j].id = s[k].id => j = k
OnceQueried(s) == \A j, k \in DOMAIN s : s[j].query.id = s[k].query.id => j = k

Apart ==
    /\ DatagramIds \cap (AskedIds \cup ReplyIds \cup TxIds \cup GotIds) = {}
    /\ AskedIds \cap (ReplyIds \cup TxIds \cup GotIds) = {}
    /\ ReplyIds \cap (TxIds \cup GotIds) = {}
    /\ TxIds \cap GotIds = {}
    /\ Once(datagrams) /\ OnceQueried(replies) /\ Once(tx)
    /\ \A p, q \in asked : p.id = q.id => p = q
    /\ \A a \in Apps : Once(got[a])

(* Every packet that was sent is somewhere, and nothing else is.           *)
Accounted ==
    DOMAIN sent = DatagramIds \cup AskedIds \cup ReplyIds \cup TxIds \cup GotIds \cup lost

AskedBy(id, src, dst) == sent[id] = [kind |-> "dns", src |-> src, dst |-> dst]
Answers(p) == AskedBy(p.id, p.dst, p.src) /\ p.tc = ~p.whole
Fits(p) == p.bytes <= mtu /\ p.total = p.bytes /\ p.udp + 20 = p.bytes

Matched ==
    /\ \A k \in DOMAIN datagrams : AskedBy(datagrams[k].id, datagrams[k].src, datagrams[k].dst)
    /\ \A q \in asked : AskedBy(q.id, q.src, q.dst)
    /\ \A k \in DOMAIN replies :
          AskedBy(replies[k].query.id, replies[k].to.dst, replies[k].to.src)
    /\ \A k \in DOMAIN tx : Answers(tx[k]) /\ Fits(tx[k])
    /\ \A a \in Apps : \A k \in DOMAIN got[a] :
          got[a][k].dst = a /\ Answers(got[a][k]) /\ Fits(got[a][k])

DatagramsInvariant == DatagramTypeOK /\ stack = "up" /\ Apart /\ Accounted /\ Matched

----------------------------------------------------------------------------
(* Queues.                                                                 *)

(* One more element.                                                       *)
LEMMA Appended ==
    ASSUME NEW S, NEW s \in Seq(S), NEW e \in S
    PROVE  /\ Append(s, e) \in Seq(S)
           /\ Len(s) \in Nat /\ DOMAIN s = 1 .. Len(s)
           /\ Len(Append(s, e)) = Len(s) + 1
           /\ DOMAIN Append(s, e) = DOMAIN s \cup {Len(s) + 1}
           /\ Len(s) + 1 \notin DOMAIN s
           /\ \A k \in DOMAIN s : Append(s, e)[k] = s[k]
           /\ Append(s, e)[Len(s) + 1] = e
  <1>1. Len(s) \in Nat /\ DOMAIN s = 1 .. Len(s)
    BY LenProperties
  <1>2. /\ Append(s, e) \in Seq(S) /\ Len(Append(s, e)) = Len(s) + 1
        /\ \A k \in 1 .. Len(s) : Append(s, e)[k] = s[k]
        /\ Append(s, e)[Len(s) + 1] = e
    BY AppendProperties
  <1>3. DOMAIN Append(s, e) = 1 .. Len(s) + 1
    BY <1>2, LenProperties
  <1> QED
    BY <1>1, <1>2, <1>3

(* The first element taken.                                                *)
LEMMA Removed ==
    ASSUME NEW S, NEW s \in Seq(S), s # <<>>
    PROVE  /\ Tail(s) \in Seq(S) /\ Head(s) \in S
           /\ 1 \in DOMAIN s /\ s[1] = Head(s)
           /\ \A k \in DOMAIN Tail(s) : /\ k \in Nat /\ k + 1 \in DOMAIN s /\ k + 1 # 1
                                        /\ Tail(s)[k] = s[k + 1]
           /\ \A k \in DOMAIN s : k = 1 \/ \E j \in DOMAIN Tail(s) : k = j + 1
  <1>1. Len(s) \in Nat /\ Len(s) # 0 /\ DOMAIN s = 1 .. Len(s)
    BY LenProperties, EmptySeq
  <1>2. /\ Tail(s) \in Seq(S) /\ Head(s) \in S /\ Head(s) = s[1]
        /\ Len(Tail(s)) = Len(s) - 1
        /\ \A k \in 1 .. Len(Tail(s)) : Tail(s)[k] = s[k + 1]
    BY <1>1, HeadTailProperties
  <1>3. DOMAIN Tail(s) = 1 .. Len(s) - 1
    BY <1>2, LenProperties
  <1>4. \A k \in DOMAIN Tail(s) : k \in Nat /\ k + 1 \in DOMAIN s /\ k + 1 # 1
    BY <1>1, <1>3
  <1>5. \A k \in DOMAIN s : k = 1 \/ \E j \in DOMAIN Tail(s) : k = j + 1
    <2> TAKE k \in DOMAIN s
    <2> SUFFICES ASSUME k # 1 PROVE k - 1 \in DOMAIN Tail(s) /\ k = (k - 1) + 1
      OBVIOUS
    <2> QED
      BY <1>1, <1>3
  <1> QED
    BY <1>1, <1>2, <1>3, <1>4, <1>5

(* The ids in a queue that grew.                                           *)
LEMMA OnceAppended ==
    ASSUME NEW S, NEW s \in Seq(S), NEW e \in S
    PROVE  /\ IdsOf(Append(s, e)) = IdsOf(s) \cup {e.id}
           /\ Once(s) /\ e.id \notin IdsOf(s) => Once(Append(s, e))
  <1>1. IdsOf(Append(s, e)) = IdsOf(s) \cup {e.id}
    BY Appended DEF IdsOf
  <1>2. Once(s) /\ e.id \notin IdsOf(s) => Once(Append(s, e))
    BY Appended DEF IdsOf, Once
  <1> QED
    BY <1>1, <1>2

(* The ids in a queue whose first was taken.                               *)
LEMMA OnceRemoved ==
    ASSUME NEW S, NEW s \in Seq(S), s # <<>>
    PROVE  /\ IdsOf(s) = IdsOf(Tail(s)) \cup {Head(s).id}
           /\ Once(s) => Once(Tail(s)) /\ Head(s).id \notin IdsOf(Tail(s))
  <1> DEFINE t == Tail(s)
  <1>1. /\ 1 \in DOMAIN s /\ s[1] = Head(s)
        /\ \A k \in DOMAIN t : k \in Nat /\ k + 1 \in DOMAIN s /\ k + 1 # 1 /\ t[k] = s[k + 1]
        /\ \A k \in DOMAIN s : k = 1 \/ \E j \in DOMAIN t : k = j + 1
    BY Removed
  <1> HIDE DEF t
  <1>2. IdsOf(s) = IdsOf(t) \cup {Head(s).id}
    BY <1>1 DEF IdsOf
  <1>3. ASSUME Once(s) PROVE Once(t) /\ Head(s).id \notin IdsOf(t)
    BY <1>1, <1>3 DEF Once, IdsOf
  <1> QED
    BY <1>2, <1>3 DEF t

(* The same of the answers, by the query they answer.                      *)
LEMMA OnceAnswered ==
    ASSUME NEW S, NEW s \in Seq(S), NEW e \in S
    PROVE  /\ QueriesOf(Append(s, e)) = QueriesOf(s) \cup {e.query.id}
           /\ OnceQueried(s) /\ e.query.id \notin QueriesOf(s) => OnceQueried(Append(s, e))
  <1>1. QueriesOf(Append(s, e)) = QueriesOf(s) \cup {e.query.id}
    BY Appended DEF QueriesOf
  <1>2. OnceQueried(s) /\ e.query.id \notin QueriesOf(s) => OnceQueried(Append(s, e))
    BY Appended DEF QueriesOf, OnceQueried
  <1> QED
    BY <1>1, <1>2

(* And of those the first of which was taken.                              *)
LEMMA OnceInjected ==
    ASSUME NEW S, NEW s \in Seq(S), s # <<>>
    PROVE  /\ QueriesOf(s) = QueriesOf(Tail(s)) \cup {Head(s).query.id}
           /\ OnceQueried(s) => /\ OnceQueried(Tail(s))
                               /\ Head(s).query.id \notin QueriesOf(Tail(s))
  <1> DEFINE t == Tail(s)
  <1>1. /\ 1 \in DOMAIN s /\ s[1] = Head(s)
        /\ \A k \in DOMAIN t : k \in Nat /\ k + 1 \in DOMAIN s /\ k + 1 # 1 /\ t[k] = s[k + 1]
        /\ \A k \in DOMAIN s : k = 1 \/ \E j \in DOMAIN t : k = j + 1
    BY Removed
  <1> HIDE DEF t
  <1>2. QueriesOf(s) = QueriesOf(t) \cup {Head(s).query.id}
    BY <1>1 DEF QueriesOf
  <1>3. ASSUME OnceQueried(s) PROVE OnceQueried(t) /\ Head(s).query.id \notin QueriesOf(t)
    BY <1>1, <1>3 DEF OnceQueried, QueriesOf
  <1> QED
    BY <1>2, <1>3 DEF t

----------------------------------------------------------------------------
(* In.                                                                     *)

(* A packet of an application.                                             *)
LEMMA IngestKeeps ==
    ASSUME DatagramsInvariant, NEW p \in Packet, Ingest(p)
    PROVE  DatagramsInvariant'
  <1> DEFINE n == Len(sent) + 1
  <1> DEFINE q == [id |-> n, src |-> p.src, dst |-> p.dst]
  <1>0. DatagramTypeOK /\ Matched /\ Apart /\ Accounted
    BY DEF DatagramsInvariant
  <1>a. MaxSent \in Nat /\ sent \in Seq(Packet) /\ lost \subseteq 1 .. MaxSent
        /\ datagrams \in Seq(Query)
    <2>1. MaxSent \in Nat
      BY DatagramsAssumption
    <2> QED
      BY <1>0, <2>1 DEF DatagramTypeOK
  <1>1. /\ sent' \in Seq(Packet) /\ Len(sent') = n /\ n \in 1 .. MaxSent
        /\ DOMAIN sent' = DOMAIN sent \cup {n} /\ n \notin DOMAIN sent
        /\ \A i \in DOMAIN sent : sent'[i] = sent[i]
        /\ sent'[n] = p
    <2>1. sent' = Append(sent, p) /\ Len(sent) < MaxSent
      BY DEF Ingest
    <2> QED
      BY <1>a, <2>1, Appended
  <1>2. /\ UNCHANGED <<mtu, mode, asked, replies, tx, got, stack>>
        /\ \/ /\ p.kind = "dns" /\ datagrams' = Append(datagrams, q) /\ lost' = lost
           \/ lost' = lost \cup {n} /\ datagrams' = datagrams
    BY <1>1 DEF Ingest
  <1>3. q \in Query
    BY <1>1 DEF Query, Packet
  <1>4. p.kind = "dns" => p = [kind |-> "dns", src |-> q.src, dst |-> q.dst]
    BY DEF Packet
  <1>5. n \notin DatagramIds \cup AskedIds \cup ReplyIds \cup TxIds \cup GotIds
    BY <1>0, <1>1 DEF Accounted
  <1>6. UNCHANGED <<AskedIds, ReplyIds, TxIds, GotIds>>
    BY <1>2 DEF AskedIds, ReplyIds, TxIds, GotIds
  <1>7. q.id = n
    OBVIOUS
  <1> HIDE DEF n, q
  <1>8. datagrams' \in Seq(Query) /\ lost' \subseteq 1 .. MaxSent
    <2>1. Append(datagrams, q) \in Seq(Query)
      BY <1>a, <1>3, Appended
    <2> QED
      BY <1>a, <1>1, <1>2, <2>1
  <1>9. DatagramTypeOK'
    BY <1>0, <1>1, <1>2, <1>8 DEF DatagramTypeOK
  <1>10. /\ DatagramIds' \cup lost' = DatagramIds \cup lost \cup {n}
         /\ DatagramIds' \in {DatagramIds, DatagramIds \cup {n}}
         /\ Once(datagrams)'
    <2>1. CASE datagrams' = Append(datagrams, q) /\ lost' = lost
      <3>1. datagrams \in Seq(Query) /\ Once(datagrams)
        BY <1>0 DEF DatagramTypeOK, Apart
      <3> QED
        BY <1>3, <1>5, <1>7, <2>1, <3>1, OnceAppended DEF DatagramIds
    <2>2. CASE lost' = lost \cup {n} /\ datagrams' = datagrams
      BY <1>0, <2>2 DEF DatagramIds, Apart
    <2> QED
      BY <1>2, <2>1, <2>2
  <1>11. Apart'
    BY <1>0, <1>2, <1>5, <1>6, <1>10 DEF Apart, Once, OnceQueried
  <1>12. Accounted'
    BY <1>0, <1>1, <1>6, <1>10 DEF Accounted
  <1>13. /\ \A i \in DatagramIds \cup AskedIds \cup ReplyIds \cup TxIds \cup GotIds :
              sent'[i] = sent[i]
    BY <1>0, <1>1 DEF Accounted
  <1>14. \A k \in DOMAIN datagrams' :
            sent'[datagrams'[k].id] = [kind |-> "dns", src |-> datagrams'[k].src,
                                       dst |-> datagrams'[k].dst]
    <2>0. \A k \in DOMAIN datagrams :
            sent'[datagrams[k].id] = [kind |-> "dns", src |-> datagrams[k].src,
                                      dst |-> datagrams[k].dst]
      BY <1>0, <1>13 DEF Matched, AskedBy, DatagramIds, IdsOf
    <2>1. CASE p.kind = "dns" /\ datagrams' = Append(datagrams, q)
      <3>1. datagrams \in Seq(Query)
        BY <1>0 DEF DatagramTypeOK
      <3> QED
        BY <1>1, <1>3, <1>4, <1>7, <2>0, <2>1, <3>1, Appended
    <2>2. CASE datagrams' = datagrams
      BY <2>0, <2>2
    <2> QED
      BY <1>2, <2>1, <2>2
  <1>15. \A r \in asked : sent'[r.id] = [kind |-> "dns", src |-> r.src, dst |-> r.dst]
    BY <1>0, <1>13 DEF Matched, AskedBy, AskedIds
  <1>16. \A k \in DOMAIN replies :
            sent'[replies[k].query.id] = [kind |-> "dns", src |-> replies[k].to.dst,
                                          dst |-> replies[k].to.src]
    BY <1>0, <1>13 DEF Matched, AskedBy, ReplyIds, QueriesOf
  <1>17. \A k \in DOMAIN tx :
            sent'[tx[k].id] = [kind |-> "dns", src |-> tx[k].dst, dst |-> tx[k].src]
    BY <1>0, <1>13 DEF Matched, Answers, AskedBy, TxIds, IdsOf
  <1>18. \A a \in Apps : \A k \in DOMAIN got[a] :
            sent'[got[a][k].id] = [kind |-> "dns", src |-> got[a][k].dst, dst |-> got[a][k].src]
    BY <1>0, <1>13 DEF Matched, Answers, AskedBy, GotIds, IdsOf
  <1>19. Matched'
    <2>1. \A k \in DOMAIN tx : tx[k].tc = ~tx[k].whole /\ Fits(tx[k])
      BY <1>0 DEF Matched, Answers
    <2>2. \A a \in Apps : \A k \in DOMAIN got[a] :
             got[a][k].dst = a /\ got[a][k].tc = ~got[a][k].whole /\ Fits(got[a][k])
      BY <1>0 DEF Matched, Answers
    <2>3. /\ \A k \in DOMAIN datagrams' :
               AskedBy(datagrams[k].id, datagrams[k].src, datagrams[k].dst)'
          /\ \A r \in asked' : AskedBy(r.id, r.src, r.dst)'
          /\ \A k \in DOMAIN replies' :
               AskedBy(replies[k].query.id, replies[k].to.dst, replies[k].to.src)'
      BY <1>2, <1>14, <1>15, <1>16 DEF AskedBy
    <2>4. \A k \in DOMAIN tx' : Answers(tx[k])' /\ Fits(tx[k])'
      BY <1>2, <1>17, <2>1 DEF Answers, AskedBy, Fits
    <2>5. \A a \in Apps : \A k \in DOMAIN got'[a] :
             got'[a][k].dst = a /\ Answers(got[a][k])' /\ Fits(got[a][k])'
      BY <1>2, <1>18, <2>2 DEF Answers, AskedBy, Fits
    <2> QED
      BY <2>3, <2>4, <2>5 DEF Matched
  <1> QED
    BY <1>2, <1>9, <1>11, <1>12, <1>19 DEF DatagramsInvariant

(* The queue goes to the engine, as much of it as there is room for.       *)
LEMMA HandOverKeeps ==
    ASSUME DatagramsInvariant, NEW room \in 0 .. UdpDepth, HandOver(room)
    PROVE  DatagramsInvariant'
  <1> DEFINE fits == IF room < Len(datagrams) THEN room ELSE Len(datagrams)
  <1> DEFINE taken == {datagrams[k] : k \in 1 .. fits}
  <1> DEFINE dropped == {datagrams[k].id : k \in fits + 1 .. Len(datagrams)}
  <1>0. /\ DatagramTypeOK /\ Matched /\ Apart /\ Accounted /\ datagrams \in Seq(Query)
        /\ Len(datagrams) \in Nat /\ DOMAIN datagrams = 1 .. Len(datagrams)
    BY LenProperties DEF DatagramsInvariant, DatagramTypeOK
  <1>1. fits \in 0 .. Len(datagrams)
    <2>1. UdpDepth \in Nat /\ Len(datagrams) \in Nat
      BY <1>0, DatagramsAssumption
    <2> QED
      BY <2>1
  <1>2. /\ asked' = asked \cup Range(SubSeq(datagrams, 1, fits))
        /\ lost' = lost \cup dropped /\ datagrams' = <<>>
        /\ UNCHANGED <<mtu, mode, sent, replies, tx, got, stack>>
    BY DEF HandOver
  <1>3. Range(SubSeq(datagrams, 1, fits)) = taken
    <2>1. /\ SubSeq(datagrams, 1, fits) \in Seq(Query)
          /\ Len(SubSeq(datagrams, 1, fits)) = fits
          /\ \A k \in 1 .. fits : SubSeq(datagrams, 1, fits)[k] = datagrams[k]
      BY <1>0, <1>1, SubSeqProperties
    <2>2. DOMAIN SubSeq(datagrams, 1, fits) = 1 .. fits
      BY <2>1, LenProperties
    <2> QED
      BY <2>1, <2>2 DEF Range
  <1>4. \A k \in DOMAIN datagrams : datagrams[k] \in Query
    BY <1>0, ElementOfSeq
  <1> HIDE DEF fits
  <1>5. /\ taken \subseteq Query
        /\ \A q \in taken : \E k \in DOMAIN datagrams : q = datagrams[k]
        /\ \A k \in DOMAIN datagrams : datagrams[k] \in taken \/ datagrams[k].id \in dropped
        /\ dropped \subseteq DatagramIds
    BY <1>0, <1>1, <1>4 DEF DatagramIds, IdsOf
  <1> HIDE DEF taken, dropped
  <1>6. \A q \in taken : q.id \in DatagramIds
    BY <1>5 DEF DatagramIds, IdsOf
  <1>7. DatagramIds = {q.id : q \in taken} \cup dropped
    BY <1>5, <1>6 DEF DatagramIds, IdsOf
  <1>8. DatagramIds \subseteq 1 .. MaxSent
    BY <1>4 DEF DatagramIds, IdsOf, Query
  <1>9. /\ DatagramIds' = {} /\ AskedIds' = AskedIds \cup {q.id : q \in taken}
        /\ lost' = lost \cup dropped /\ Once(datagrams)'
        /\ UNCHANGED <<ReplyIds, TxIds, GotIds>>
    BY <1>2, <1>3 DEF DatagramIds, IdsOf, AskedIds, ReplyIds, TxIds, GotIds, Once
  <1>10. \A p, q \in taken : p.id = q.id => p = q
    BY <1>0, <1>5 DEF Apart, Once
  <1>11. \A p, q \in asked' : p.id = q.id => p = q
    <2>1. \A p \in asked, q \in taken : p.id # q.id
      BY <1>0, <1>6 DEF Apart, AskedIds
    <2> QED
      BY <1>0, <1>2, <1>3, <1>10, <2>1 DEF Apart
  <1>12. \A q \in taken : sent[q.id] = [kind |-> "dns", src |-> q.src, dst |-> q.dst]
    <2> TAKE q \in taken
    <2>1. PICK k \in DOMAIN datagrams : q = datagrams[k]
      BY <1>5
    <2> QED
      BY <1>0, <2>1 DEF Matched, AskedBy
  <1>13. DatagramTypeOK'
    BY <1>0, <1>2, <1>3, <1>5, <1>8, EmptySeq DEF DatagramTypeOK
  <1>14. Apart'
    BY <1>0, <1>2, <1>7, <1>9, <1>11 DEF Apart, Once, OnceQueried
  <1>15. Accounted'
    BY <1>0, <1>2, <1>7, <1>9 DEF Accounted
  <1>16. Matched'
    BY <1>0, <1>2, <1>3, <1>12 DEF Matched, Answers, AskedBy, Fits
  <1> QED
    BY <1>2, <1>13, <1>14, <1>15, <1>16 DEF DatagramsInvariant

----------------------------------------------------------------------------
(* Through.                                                                *)

(* A query is answered, or has no answer: it is no longer asked.           *)
LEMMA ResolveKeeps ==
    ASSUME DatagramsInvariant, NEW q \in asked, NEW len \in Lengths, Resolve(q, len)
    PROVE  DatagramsInvariant'
  <1> DEFINE e == [query |-> q, to |-> Addressed(q), len |-> len]
  <1>0. DatagramTypeOK /\ Matched /\ Apart /\ Accounted
    BY DEF DatagramsInvariant
  <1>1. /\ asked' = asked \ {q}
        /\ \/ replies' = Append(replies, e) /\ lost' = lost
           \/ lost' = lost \cup {q.id} /\ replies' = replies
        /\ UNCHANGED <<mtu, mode, sent, datagrams, tx, got, stack>>
    BY DEF Resolve
  <1>2. q \in Query /\ replies \in Seq(DnsAnswer) /\ len \in Nat /\ lost \subseteq 1 .. MaxSent
    <2>1. Lengths \subseteq Nat
      BY DatagramsAssumption
    <2>2. asked \subseteq Query /\ replies \in Seq(DnsAnswer) /\ lost \subseteq 1 .. MaxSent
      BY <1>0 DEF DatagramTypeOK
    <2> QED
      BY <2>1, <2>2
  <1>3. e \in DnsAnswer /\ e.query.id = q.id /\ e.to.src = q.dst /\ e.to.dst = q.src
    <2>1. q.src \in Apps /\ q.dst \in Servers
      BY <1>2 DEF Query
    <2>2. Addressed(q) = [src |-> q.dst, dst |-> q.src]
      BY DEF Addressed
    <2>3. Addressed(q) \in [src : Servers, dst : Apps]
      BY <2>1, <2>2
    <2>4. e \in DnsAnswer
      BY <1>2, <2>3 DEF DnsAnswer
    <2> QED
      BY <2>2, <2>4
  <1> HIDE DEF e
  <1>4. /\ AskedIds = AskedIds' \cup {q.id} /\ q.id \notin AskedIds'
        /\ \A r, s \in asked' : r.id = s.id => r = s
    BY <1>0, <1>1 DEF Apart, AskedIds
  <1>5. UNCHANGED <<DatagramIds, TxIds, GotIds>>
    BY <1>1 DEF DatagramIds, TxIds, GotIds
  <1>6. /\ ReplyIds' \cup lost' = ReplyIds \cup lost \cup {q.id}
        /\ ReplyIds' \in {ReplyIds, ReplyIds \cup {q.id}}
        /\ OnceQueried(replies)'
        /\ replies' \in Seq(DnsAnswer)
    <2>1. CASE replies' = Append(replies, e) /\ lost' = lost
      <3>1. OnceQueried(replies) /\ q.id \notin ReplyIds
        BY <1>0, <1>4 DEF Apart
      <3> QED
        BY <1>2, <1>3, <2>1, <3>1, OnceAnswered, Appended DEF ReplyIds
    <2>2. CASE lost' = lost \cup {q.id} /\ replies' = replies
      BY <1>0, <1>2, <2>2 DEF ReplyIds, Apart
    <2> QED
      BY <1>1, <2>1, <2>2
  <1>7. Apart'
    BY <1>0, <1>1, <1>4, <1>5, <1>6 DEF Apart, Once, OnceQueried
  <1>8. Accounted'
    BY <1>0, <1>1, <1>4, <1>5, <1>6 DEF Accounted
  <1>9. lost' \subseteq 1 .. MaxSent
    BY <1>1, <1>2 DEF Query
  <1>10. DatagramTypeOK'
    BY <1>0, <1>1, <1>6, <1>9 DEF DatagramTypeOK
  <1>11. \A k \in DOMAIN replies' :
            sent[replies'[k].query.id]
                = [kind |-> "dns", src |-> replies'[k].to.dst, dst |-> replies'[k].to.src]
    <2>1. CASE replies' = Append(replies, e)
      <3>1. sent[q.id] = [kind |-> "dns", src |-> q.src, dst |-> q.dst]
        BY <1>0 DEF Matched, AskedBy
      <3>2. \A k \in DOMAIN replies :
              sent[replies[k].query.id]
                  = [kind |-> "dns", src |-> replies[k].to.dst, dst |-> replies[k].to.src]
        BY <1>0 DEF Matched, AskedBy
      <3>3. /\ DOMAIN replies' = DOMAIN replies \cup {Len(replies) + 1}
            /\ \A k \in DOMAIN replies : replies'[k] = replies[k]
            /\ replies'[Len(replies) + 1] = e
        BY <1>2, <1>3, <2>1, Appended
      <3>4. ASSUME NEW k \in DOMAIN replies'
            PROVE  sent[replies'[k].query.id]
                      = [kind |-> "dns", src |-> replies'[k].to.dst, dst |-> replies'[k].to.src]
        <4>1. CASE k \in DOMAIN replies
          BY <3>2, <3>3, <4>1
        <4>2. CASE k = Len(replies) + 1
          BY <1>3, <3>1, <3>3, <4>2
        <4> QED
          BY <3>3, <4>1, <4>2
      <3> QED
        BY <3>4
    <2>2. CASE replies' = replies
      BY <1>0, <2>2 DEF Matched, AskedBy
    <2> QED
      BY <1>1, <2>1, <2>2
  <1>12. Matched'
    BY <1>0, <1>1, <1>11 DEF Matched, Answers, AskedBy, Fits
  <1> QED
    BY <1>1, <1>7, <1>8, <1>10, <1>12 DEF DatagramsInvariant

----------------------------------------------------------------------------
(* Out.                                                                    *)

(* The device carries more than the headers, and no more than IP does.     *)
LEMMA MtuFits ==
    ASSUME DatagramTypeOK
    PROVE  mtu \in Nat /\ 40 <= mtu /\ mtu <= MaxU16 /\ MaxU16 \in Nat
  <1>1. mtu \in Mtus
    BY DEF DatagramTypeOK
  <1>2. mtu \in 40 .. MaxU16
    BY <1>1, MtusAssumption
  <1>3. MaxU16 \in Nat
    BY DEF MaxU16
  <1> QED
    BY <1>2, <1>3

(* Truncated or whole, what goes into a packet fits the device.            *)
LEMMA PayloadFits ==
    ASSUME mtu \in Nat, 40 <= mtu, NEW len \in Nat
    PROVE  /\ Payload(len).len \in Nat /\ Payload(len).len + 28 <= mtu
           /\ Payload(len).whole \in BOOLEAN /\ Payload(len).tc = ~Payload(len).whole
  <1>1. SaturatingSub(mtu, 28) = mtu - 28
    BY SMT DEF SaturatingSub
  <1>2. CASE TooLong(len)
    <2>1. Payload(len) = [len |-> DnsHeader, whole |-> FALSE, tc |-> TRUE]
      BY <1>2 DEF Payload
    <2>2. DnsHeader \in Nat /\ DnsHeader + 28 <= mtu
      BY SMT DEF DnsHeader
    <2>3. Payload(len).len = DnsHeader /\ Payload(len).whole = FALSE /\ Payload(len).tc = TRUE
      BY <2>1
    <2>4. Payload(len).whole \in BOOLEAN /\ Payload(len).tc = ~Payload(len).whole
      BY <2>3
    <2> QED
      BY <2>2, <2>3, <2>4
  <1>3. CASE ~TooLong(len)
    <2>1. Payload(len) = [len |-> len, whole |-> TRUE, tc |-> FALSE]
      BY <1>3 DEF Payload
    <2>2. len + 28 <= mtu
      BY <1>1, <1>3, SMT DEF TooLong
    <2>3. Payload(len).len = len /\ Payload(len).whole = TRUE /\ Payload(len).tc = FALSE
      BY <2>1
    <2>4. Payload(len).whole \in BOOLEAN /\ Payload(len).tc = ~Payload(len).whole
      BY <2>3
    <2> QED
      BY <2>2, <2>3, <2>4
  <1> QED
    BY <1>2, <1>3

(* A packet that fits says so itself: neither length field has wrapped.    *)
LEMMA PacketFits ==
    ASSUME mtu \in Nat, 40 <= mtu, mtu <= MaxU16, MaxU16 \in Nat, NEW a \in DnsAnswer
    PROVE  LET packet == BuildUdpPacket(a.to, a.query.id, Payload(a.len))
           IN  /\ packet \in Reply /\ Fits(packet) /\ ~Panics(packet)
               /\ packet.src = a.to.src /\ packet.dst = a.to.dst /\ packet.id = a.query.id
               /\ packet.tc = ~packet.whole
               /\ ~(Payload(a.len).len > MaxUdpPayload)
  <1> DEFINE n == Payload(a.len).len
  <1> DEFINE w == Payload(a.len).whole
  <1> DEFINE t == Payload(a.len).tc
  <1> DEFINE packet == BuildUdpPacket(a.to, a.query.id, Payload(a.len))
  <1>1. /\ a.to.src \in Servers /\ a.to.dst \in Apps /\ a.query.id \in 1 .. MaxSent
        /\ a.len \in Nat
    BY DEF DnsAnswer, Query
  <1>2. n \in Nat /\ n + 28 <= mtu /\ w \in BOOLEAN /\ t = ~w
    BY <1>1, PayloadFits
  <1>3. packet = [src |-> a.to.src, dst |-> a.to.dst, bytes |-> 28 + n,
                  total |-> U16(28 + n), udp |-> U16(8 + n),
                  id |-> a.query.id, whole |-> w, tc |-> t]
    BY DEF BuildUdpPacket
  <1> HIDE DEF n, w, t, packet
  <1>4. /\ U16(28 + n) = 28 + n /\ U16(8 + n) = 8 + n
        /\ 28 + n \in 0 .. MaxU16 /\ 8 + n \in 0 .. MaxU16 /\ 28 + n \in Nat
    BY <1>2, SMT DEF U16
  <1>5. packet = [src |-> a.to.src, dst |-> a.to.dst, bytes |-> 28 + n,
                  total |-> 28 + n, udp |-> 8 + n,
                  id |-> a.query.id, whole |-> w, tc |-> t]
    BY <1>3, <1>4, SMT
  <1>6. packet.bytes = 28 + n /\ packet.total = 28 + n /\ packet.udp = 8 + n
    BY <1>5, SMT
  <1>7. Fits(packet) /\ ~Panics(packet)
    BY <1>2, <1>6, SMT DEF Fits, Panics
  <1>8. ~(n > MaxUdpPayload)
    BY <1>2, SMT DEF MaxUdpPayload
  <1>9. /\ packet.src = a.to.src /\ packet.dst = a.to.dst /\ packet.id = a.query.id
        /\ packet.whole = w /\ packet.tc = t
    BY <1>5, SMT
  <1>10. t \in BOOLEAN
    BY <1>2
  <1>11. packet \in Reply
    <2>1. /\ 28 + n \in Nat /\ 28 + n \in 0 .. MaxU16 /\ 8 + n \in 0 .. MaxU16
      BY <1>4
    <2> QED
      BY <1>1, <1>2, <1>5, <1>10, <2>1, Zenon DEF Reply
  <1>12. packet.tc = ~packet.whole
    BY <1>2, <1>9
  <1> QED
    BY <1>7, <1>8, <1>9, <1>11, <1>12 DEF packet, n

(* The first answer becomes a packet.                                      *)
LEMMA InjectKeeps ==
    ASSUME DatagramsInvariant, Inject
    PROVE  DatagramsInvariant'
  <1> DEFINE reply == Head(replies)
  <1> DEFINE packet == BuildUdpPacket(reply.to, reply.query.id, Payload(reply.len))
  <1>0. DatagramTypeOK /\ Matched /\ Apart /\ Accounted
    BY DEF DatagramsInvariant
  <1>1. replies \in Seq(DnsAnswer) /\ tx \in Seq(Reply) /\ replies # <<>>
    BY <1>0 DEF DatagramTypeOK, Inject
  <1>2. reply \in DnsAnswer /\ Tail(replies) \in Seq(DnsAnswer)
    BY <1>1, Removed
  <1>3. /\ packet \in Reply /\ Fits(packet) /\ ~Panics(packet)
        /\ packet.src = reply.to.src /\ packet.dst = reply.to.dst
        /\ packet.id = reply.query.id /\ packet.tc = ~packet.whole
        /\ ~(Payload(reply.len).len > MaxUdpPayload)
    BY <1>0, <1>2, MtuFits, PacketFits
  <1>4. /\ replies' = Tail(replies)
        /\ UNCHANGED <<mtu, mode, sent, datagrams, asked, got>>
    BY DEF Inject
  <1>5. tx' = Append(tx, packet) /\ stack' = stack /\ lost' = lost
    BY <1>3 DEF Inject
  <1> HIDE DEF packet
  <1>6. /\ ReplyIds = ReplyIds' \cup {reply.query.id}
        /\ reply.query.id \notin ReplyIds' /\ OnceQueried(replies)'
    BY <1>0, <1>1, <1>4, OnceInjected DEF Apart, ReplyIds
  <1>7. /\ TxIds' = TxIds \cup {reply.query.id} /\ Once(tx)'
    <2>1. Once(tx) /\ reply.query.id \notin TxIds
      BY <1>0, <1>6 DEF Apart
    <2> QED
      BY <1>1, <1>3, <1>5, <2>1, OnceAppended DEF TxIds
  <1>8. UNCHANGED <<DatagramIds, AskedIds, GotIds>>
    BY <1>4 DEF DatagramIds, AskedIds, GotIds
  <1>9. AskedBy(reply.query.id, reply.to.dst, reply.to.src)
    BY <1>0, <1>1, Removed DEF Matched
  <1>10. Answers(packet)
    BY <1>3, <1>9 DEF Answers
  <1>11. \A k \in DOMAIN replies' : \E j \in DOMAIN replies : replies'[k] = replies[j]
    BY <1>1, <1>4, Removed
  <1>12. tx' \in Seq(Reply)
    BY <1>1, <1>3, <1>5, Appended
  <1>13. \A k \in DOMAIN tx' : tx'[k] = packet \/ \E j \in DOMAIN tx : tx'[k] = tx[j]
    BY <1>1, <1>3, <1>5, Appended
  <1> HIDE DEF reply
  <1>14. DatagramTypeOK'
    BY <1>0, <1>2, <1>4, <1>5, <1>12 DEF DatagramTypeOK
  <1>15. Apart'
    BY <1>0, <1>4, <1>6, <1>7, <1>8 DEF Apart, Once, OnceQueried
  <1>16. Accounted'
    BY <1>0, <1>4, <1>5, <1>6, <1>7, <1>8 DEF Accounted
  <1>17. \A k \in DOMAIN tx' : (Answers(tx[k]) /\ Fits(tx[k]))'
    <2>1. \A k \in DOMAIN tx' : Answers(tx'[k]) /\ Fits(tx'[k])
      BY <1>0, <1>3, <1>10, <1>13 DEF Matched
    <2> QED
      BY <1>4, <2>1 DEF Answers, AskedBy, Fits
  <1>18. \A k \in DOMAIN replies' :
            AskedBy(replies'[k].query.id, replies'[k].to.dst, replies'[k].to.src)
    BY <1>0, <1>11 DEF Matched
  <1>19. Matched'
    BY <1>0, <1>4, <1>17, <1>18 DEF Matched, Answers, AskedBy, Fits
  <1> QED
    BY <1>5, <1>14, <1>15, <1>16, <1>19 DEF DatagramsInvariant

(* The first packet goes to its application, or is lost at the device.     *)
LEMMA WriteKeeps ==
    ASSUME DatagramsInvariant, Write
    PROVE  DatagramsInvariant'
  <1> DEFINE p == Head(tx)
  <1>0. DatagramTypeOK /\ Matched /\ Apart /\ Accounted
    BY DEF DatagramsInvariant
  <1>1. /\ tx # <<>> /\ tx' = Tail(tx)
        /\ UNCHANGED <<mtu, mode, sent, datagrams, asked, replies, stack>>
        /\ \/ got' = [got EXCEPT ![p.dst] = Append(@, p)] /\ lost' = lost
           \/ lost' = lost \cup {p.id} /\ got' = got
    BY DEF Write
  <1>2. tx \in Seq(Reply) /\ got \in [Apps -> Seq(Reply)] /\ lost \subseteq 1 .. MaxSent
    BY <1>0 DEF DatagramTypeOK
  <1>3. /\ p \in Reply /\ tx' \in Seq(Reply)
        /\ \A k \in DOMAIN tx' : \E j \in DOMAIN tx : tx'[k] = tx[j]
    BY <1>1, <1>2, Removed
  <1>4. Answers(p) /\ Fits(p)
    BY <1>0, <1>1, <1>2, Removed DEF Matched
  <1>5. p.dst \in Apps /\ p.id \in 1 .. MaxSent
    BY <1>3 DEF Reply
  <1>6. /\ TxIds = TxIds' \cup {p.id} /\ p.id \notin TxIds' /\ Once(tx)'
    BY <1>0, <1>1, <1>2, OnceRemoved DEF Apart, TxIds
  <1> HIDE DEF p
  <1>7. UNCHANGED <<DatagramIds, AskedIds, ReplyIds>>
    BY <1>1 DEF DatagramIds, AskedIds, ReplyIds
  <1>8. /\ GotIds' \cup lost' = GotIds \cup lost \cup {p.id}
        /\ GotIds' \in {GotIds, GotIds \cup {p.id}}
        /\ got' \in [Apps -> Seq(Reply)] /\ lost' \subseteq 1 .. MaxSent
        /\ \A a \in Apps : Once(got'[a])
        /\ \A a \in Apps : \A k \in DOMAIN got'[a] :
              \/ a = p.dst /\ got'[a][k] = p
              \/ \E j \in DOMAIN got[a] : got'[a][k] = got[a][j]
    <2>1. CASE got' = [got EXCEPT ![p.dst] = Append(@, p)] /\ lost' = lost
      <3>1. /\ got[p.dst] \in Seq(Reply) /\ Append(got[p.dst], p) \in Seq(Reply)
            /\ \A k \in DOMAIN Append(got[p.dst], p) :
                  \/ Append(got[p.dst], p)[k] = p
                  \/ \E j \in DOMAIN got[p.dst] : Append(got[p.dst], p)[k] = got[p.dst][j]
        BY <1>2, <1>3, <1>5, Appended
      <3>2. p.id \notin IdsOf(got[p.dst])
        BY <1>0, <1>5, <1>6 DEF Apart, GotIds
      <3>3. /\ IdsOf(Append(got[p.dst], p)) = IdsOf(got[p.dst]) \cup {p.id}
            /\ Once(Append(got[p.dst], p))
        BY <1>0, <1>3, <1>5, <3>1, <3>2, OnceAppended DEF Apart
      <3>4. /\ got' \in [Apps -> Seq(Reply)]
            /\ got'[p.dst] = Append(got[p.dst], p)
            /\ \A a \in Apps \ {p.dst} : got'[a] = got[a]
        BY <1>2, <1>5, <2>1, <3>1
      <3>5. GotIds' = GotIds \cup {p.id}
        <4>1. GotIds' = UNION {IdsOf(got'[a]) : a \in Apps}
          BY DEF GotIds, IdsOf
        <4>2. \A a \in Apps \ {p.dst} : IdsOf(got'[a]) = IdsOf(got[a])
          BY <3>4
        <4>3. IdsOf(got'[p.dst]) = IdsOf(got[p.dst]) \cup {p.id}
          BY <3>3, <3>4
        <4>4. ASSUME NEW i PROVE i \in GotIds' <=> i \in GotIds \cup {p.id}
          <5>1. i \in GotIds' <=> \E a \in Apps : i \in IdsOf(got'[a])
            BY <4>1
          <5>2. i \in GotIds <=> \E a \in Apps : i \in IdsOf(got[a])
            BY DEF GotIds
          <5> QED
            BY <1>5, <4>2, <4>3, <5>1, <5>2
        <4> QED
          BY <4>4
      <3>6. \A a \in Apps : Once(got'[a])
        BY <1>0, <3>3, <3>4 DEF Apart
      <3> QED
        BY <1>2, <2>1, <3>1, <3>4, <3>5, <3>6
    <2>2. CASE lost' = lost \cup {p.id} /\ got' = got
      <3>1. GotIds' = GotIds
        BY <2>2 DEF GotIds
      <3> QED
        BY <1>0, <1>2, <1>5, <2>2, <3>1 DEF Apart
    <2> QED
      BY <1>1, <2>1, <2>2
  <1>9. DatagramTypeOK'
    BY <1>0, <1>1, <1>3, <1>8 DEF DatagramTypeOK
  <1>10. Apart'
    BY <1>0, <1>1, <1>6, <1>7, <1>8 DEF Apart, Once, OnceQueried
  <1>11. Accounted'
    BY <1>0, <1>1, <1>6, <1>7, <1>8 DEF Accounted
  <1>12. \A k \in DOMAIN tx' : Answers(tx'[k]) /\ Fits(tx'[k])
    BY <1>0, <1>3 DEF Matched
  <1>13. \A a \in Apps : \A k \in DOMAIN got'[a] :
            got'[a][k].dst = a /\ Answers(got'[a][k]) /\ Fits(got'[a][k])
    BY <1>0, <1>4, <1>8 DEF Matched
  <1>14. Matched'
    BY <1>0, <1>1, <1>12, <1>13 DEF Matched, Answers, AskedBy, Fits
  <1> QED
    BY <1>0, <1>1, <1>9, <1>10, <1>11, <1>14 DEF DatagramsInvariant

----------------------------------------------------------------------------
(* Theorems.                                                               *)

(* Nothing has been sent.                                                  *)
LEMMA DatagramsInit == DatagramInit => DatagramsInvariant
  <1> SUFFICES ASSUME DatagramInit PROVE DatagramsInvariant
    OBVIOUS
  <1>1. MaxSent \in Nat
    BY DatagramsAssumption
  <1>2. DatagramTypeOK /\ stack = "up"
    BY <1>1, EmptySeq DEF DatagramInit, DatagramTypeOK
  <1>3. /\ DatagramIds = {} /\ AskedIds = {} /\ ReplyIds = {} /\ TxIds = {} /\ GotIds = {}
        /\ lost = {} /\ DOMAIN sent = {}
    BY DEF DatagramInit, DatagramIds, AskedIds, ReplyIds, TxIds, GotIds, IdsOf, QueriesOf
  <1>4. Apart
    BY <1>3 DEF DatagramInit, Apart, Once, OnceQueried
  <1>5. Accounted /\ Matched
    BY <1>3 DEF DatagramInit, Accounted, Matched
  <1> QED
    BY <1>2, <1>4, <1>5 DEF DatagramsInvariant

(* Every step keeps the invariant.                                         *)
LEMMA DatagramsSteps == DatagramsInvariant /\ [DatagramNext]_datagramVars => DatagramsInvariant'
  <1>1. ASSUME DatagramsInvariant, UNCHANGED datagramVars PROVE DatagramsInvariant'
    <2>1. UNCHANGED <<mtu, mode, sent, datagrams, asked, replies, tx, got, lost, stack>>
      BY <1>1 DEF datagramVars
    <2>2. UNCHANGED <<DatagramIds, AskedIds, ReplyIds, TxIds, GotIds>>
      BY <2>1 DEF DatagramIds, AskedIds, ReplyIds, TxIds, GotIds
    <2>3. DatagramTypeOK'
      BY <1>1, <2>1 DEF DatagramsInvariant, DatagramTypeOK
    <2>4. Apart'
      BY <1>1, <2>1, <2>2 DEF DatagramsInvariant, Apart, Once, OnceQueried
    <2>5. Accounted'
      BY <1>1, <2>1, <2>2 DEF DatagramsInvariant, Accounted
    <2>6. Matched'
      BY <1>1, <2>1 DEF DatagramsInvariant, Matched, Answers, AskedBy, Fits
    <2> QED
      BY <1>1, <2>1, <2>3, <2>4, <2>5, <2>6 DEF DatagramsInvariant
  <1> QED
    BY <1>1, IngestKeeps, HandOverKeeps, ResolveKeeps, InjectKeeps, WriteKeeps DEF DatagramNext

(* The invariant of every behaviour.                                       *)
THEOREM DatagramsAreSound == DatagramSpec => []DatagramsInvariant
  BY DatagramsInit, DatagramsSteps, PTL DEF DatagramSpec

(* Whatever a resolver answers, no packet is larger than the device        *)
(* carries, no length field wraps, and the stack's thread goes on.         *)
THEOREM RepliesAlwaysFit == DatagramSpec => []RepliesFit
  <1>1. DatagramsInvariant => RepliesFit
    <2> SUFFICES ASSUME DatagramsInvariant PROVE RepliesFit
      OBVIOUS
    <2>1. \A r \in Range(tx) \cup Received : Fits(r)
      BY DEF DatagramsInvariant, Matched, Received, Range
    <2> QED
      BY <2>1 DEF DatagramsInvariant, RepliesFit, Fits
  <1> QED
    BY DatagramsAreSound, <1>1, PTL

(* An application receives answers to its own queries only, each from the  *)
(* address it asked and at most once, and no query is mislaid.             *)
THEOREM AnsweredOnceOnly == DatagramSpec => []AnsweredOnce
  <1>1. DatagramsInvariant => AnsweredOnce
    <2> SUFFICES ASSUME DatagramsInvariant PROVE AnsweredOnce
      OBVIOUS
    <2>1. \A a \in Apps : \A k \in DOMAIN got[a] :
            /\ got[a][k].dst = a
            /\ sent[got[a][k].id] = [kind |-> "dns", src |-> a, dst |-> got[a][k].src]
            /\ got[a][k].whole <=> ~got[a][k].tc
      <3> TAKE a \in Apps
      <3> TAKE k \in DOMAIN got[a]
      <3>1. got[a] \in Seq(Reply)
        BY DEF DatagramsInvariant, DatagramTypeOK
      <3>2. got[a][k].whole \in BOOLEAN
        <4>1. got[a][k] \in Reply
          BY <3>1, LenProperties
        <4> QED
          BY <4>1 DEF Reply
      <3>3. /\ got[a][k].dst = a /\ got[a][k].tc = ~got[a][k].whole
            /\ AskedBy(got[a][k].id, got[a][k].dst, got[a][k].src)
        BY DEF DatagramsInvariant, Matched, Answers
      <3>4. got[a][k].whole <=> ~got[a][k].tc
        BY <3>2, <3>3
      <3> QED
        BY <3>3, <3>4 DEF AskedBy
    <2>2. \A a \in Apps : \A j, k \in DOMAIN got[a] : got[a][j].id = got[a][k].id => j = k
      BY DEF DatagramsInvariant, Apart, Once
    <2>3. /\ DatagramIds \cup AskedIds = {q.id : q \in Range(datagrams) \cup asked}
          /\ ReplyIds = {r.query.id : r \in Range(replies)}
          /\ TxIds = {p.id : p \in Range(tx)}
          /\ GotIds = {p.id : p \in Received}
      BY DEF DatagramIds, AskedIds, ReplyIds, TxIds, GotIds, IdsOf, QueriesOf, Received, Range
    <2> QED
      BY <2>1, <2>2, <2>3 DEF DatagramsInvariant, Accounted, AnsweredOnce
  <1> QED
    BY DatagramsAreSound, <1>1, PTL

----------------------------------------------------------------------------
(* A queue of waiters in which nobody stands twice: who is in it after the *)
(* first one is served, a new one joins, or one gives up.                  *)

Waits(q, W) == q \in Seq(Tasks) /\ IsInjective(q) /\ Range(q) = W

(* The first one is served.                                                *)
LEMMA FirstServed ==
    ASSUME NEW q, NEW W, Waits(q, W), q # <<>>
    PROVE  Waits(Tail(q), W \ {Head(q)}) /\ Head(q) \in W
  <1>0. q \in Seq(Tasks) /\ \A j, k \in DOMAIN q : q[j] = q[k] => j = k
    BY DEF Waits, IsInjective
  <1> DEFINE t == Tail(q)
  <1>1. /\ t \in Seq(Tasks) /\ 1 \in DOMAIN q /\ q[1] = Head(q)
        /\ \A k \in DOMAIN t : k \in Nat /\ k + 1 \in DOMAIN q /\ k + 1 # 1 /\ t[k] = q[k + 1]
        /\ \A k \in DOMAIN q : k = 1 \/ \E j \in DOMAIN t : k = j + 1
    BY <1>0, Removed
  <1> HIDE DEF t
  <1>2. ASSUME NEW j \in DOMAIN t, NEW k \in DOMAIN t, t[j] = t[k] PROVE j = k
    <2>1. j + 1 = k + 1
      BY <1>0, <1>1, <1>2
    <2> QED
      BY <1>1, <2>1
  <1>3. \A k \in DOMAIN t : t[k] \in Range(q) \ {Head(q)}
    BY <1>0, <1>1 DEF Range
  <1>4. ASSUME NEW k \in DOMAIN q, q[k] # Head(q) PROVE q[k] \in Range(t)
    <2>1. PICK j \in DOMAIN t : k = j + 1
      BY <1>1, <1>4
    <2>2. t[j] = q[k]
      BY <1>1, <2>1
    <2> QED
      BY <2>2 DEF Range
  <1>5. Range(t) = Range(q) \ {Head(q)}
    BY <1>3, <1>4 DEF Range
  <1>6. IsInjective(t)
    BY <1>2 DEF IsInjective
  <1>7. Head(q) \in Range(q)
    BY <1>1 DEF Range
  <1> QED
    BY <1>1, <1>5, <1>6, <1>7 DEF Waits, t

(* A new one joins.                                                        *)
LEMMA OneJoins ==
    ASSUME NEW q, NEW W, Waits(q, W), NEW t \in Tasks, t \notin W
    PROVE  Waits(Append(q, t), W \cup {t})
  <1>0. /\ q \in Seq(Tasks) /\ \A j, k \in DOMAIN q : q[j] = q[k] => j = k
        /\ \A k \in DOMAIN q : q[k] # t
    BY DEF Waits, IsInjective, Range
  <1> DEFINE a == Append(q, t)
  <1> DEFINE n == Len(q) + 1
  <1>1. /\ a \in Seq(Tasks) /\ DOMAIN a = DOMAIN q \cup {n} /\ n \notin DOMAIN q
        /\ a[n] = t /\ \A k \in DOMAIN q : a[k] = q[k]
    BY <1>0, Appended
  <1> HIDE DEF a, n
  <1>2. \A j, k \in DOMAIN a : a[j] = a[k] => j = k
    BY <1>0, <1>1
  <1>3. Range(a) = Range(q) \cup {t}
    BY <1>1 DEF Range
  <1> QED
    BY <1>1, <1>2, <1>3 DEF Waits, IsInjective, a

(* One gives up, wherever it stands.                                       *)
LEMMA OneGivesUp ==
    ASSUME NEW q, NEW W, Waits(q, W), NEW t \in W
    PROVE  Waits(WithoutWaiter(q, t), W \ {t})
  <1>0. /\ q \in Seq(Tasks) /\ \A j, k \in DOMAIN q : q[j] = q[k] => j = k
        /\ t \in Range(q) /\ Range(q) = W
    BY DEF Waits, IsInjective
  <1> DEFINE i == CHOOSE i \in DOMAIN q : q[i] = t
  <1> DEFINE r == RemoveAt(q, i)
  <1>1. i \in DOMAIN q /\ q[i] = t
    BY <1>0 DEF Range
  <1>2. WithoutWaiter(q, t) = r
    BY DEF WithoutWaiter
  <1> HIDE DEF i
  <1>3. /\ Len(q) \in Nat /\ DOMAIN q = 1 .. Len(q) /\ i \in 1 .. Len(q)
        /\ q \in [1 .. Len(q) -> Tasks]
    BY <1>0, <1>1, LenProperties, ElementOfSeq
  <1> DEFINE n == Len(q)
  <1> DEFINE f == SubSeq(q, 1, i - 1)
  <1> DEFINE b == SubSeq(q, i + 1, n)
  <1>a. n \in Nat /\ i \in Nat /\ 1 <= i /\ i <= n
    BY <1>3
  <1>b. \A j \in 1 .. n : q[j] \in Tasks
    BY <1>3
  <1> HIDE DEF n
  <1>4. /\ f \in Seq(Tasks) /\ Len(f) = i - 1 /\ \A j \in 1 .. i - 1 : f[j] = q[j]
    <2> DEFINE m == i - 1
    <2>1. m \in Int /\ m - 1 + 1 = m /\ (1 > m => m = 0)
      BY <1>a
    <2>2. \A j \in 1 .. m : q[j] \in Tasks
      BY <1>a, <1>b
    <2> HIDE DEF m
    <2>3. /\ SubSeq(q, 1, m) \in Seq(Tasks)
          /\ Len(SubSeq(q, 1, m)) = IF 1 <= m THEN m - 1 + 1 ELSE 0
          /\ \A j \in 1 .. m - 1 + 1 : SubSeq(q, 1, m)[j] = q[1 + j - 1]
      BY <2>1, <2>2, SubSeqProperties
    <2>4. \A j \in 1 .. m : j \in 1 .. m - 1 + 1 /\ 1 + j - 1 = j
      BY <2>1
    <2>5. Len(SubSeq(q, 1, m)) = m
      BY <2>1, <2>3
    <2> QED
      BY <2>3, <2>4, <2>5 DEF m
  <1>5. /\ b \in Seq(Tasks) /\ Len(b) = n - i /\ \A j \in 1 .. n - i : b[j] = q[j + i]
    <2> DEFINE m == i + 1
    <2>1. m \in Int /\ n - m + 1 = n - i /\ (m > n => n - i = 0)
      BY <1>a
    <2>2. \A j \in m .. n : q[j] \in Tasks
      BY <1>a, <1>b
    <2>4. \A j \in 1 .. n - i : j \in 1 .. n - m + 1 /\ m + j - 1 = j + i
      BY <1>a, <2>1
    <2> HIDE DEF m
    <2>3. /\ SubSeq(q, m, n) \in Seq(Tasks)
          /\ Len(SubSeq(q, m, n)) = IF m <= n THEN n - m + 1 ELSE 0
          /\ \A j \in 1 .. n - m + 1 : SubSeq(q, m, n)[j] = q[m + j - 1]
      BY <1>a, <2>1, <2>2, SubSeqProperties
    <2>5. Len(SubSeq(q, m, n)) = n - i
      BY <1>a, <2>1, <2>3
    <2> QED
      BY <2>3, <2>4, <2>5 DEF m
  <1>6. r = f \o b
    BY DEF RemoveAt, n
  <1> HIDE DEF f, b, r
  <1>7. /\ r \in Seq(Tasks) /\ Len(r) = n - 1
        /\ \A j \in 1 .. n - 1 : r[j] = IF j < i THEN q[j] ELSE q[j + 1]
    <2>1. /\ r \in Seq(Tasks) /\ Len(r) = Len(f) + Len(b)
          /\ \A j \in 1 .. Len(f) + Len(b) : r[j] = IF j <= Len(f) THEN f[j] ELSE b[j - Len(f)]
      BY <1>4, <1>5, <1>6, ConcatProperties
    <2>2. Len(f) + Len(b) = n - 1 /\ Len(f) = i - 1
      BY <1>a, <1>4, <1>5
    <2>3. ASSUME NEW j \in 1 .. n - 1 PROVE r[j] = IF j < i THEN q[j] ELSE q[j + 1]
      <3>1. CASE j < i
        <4>1. j \in 1 .. i - 1 /\ j <= Len(f)
          BY <1>a, <2>2, <2>3, <3>1
        <4> QED
          BY <1>4, <2>1, <2>2, <3>1, <4>1
      <3>2. CASE ~(j < i)
        <4> DEFINE k == j - (i - 1)
        <4>1. k \in 1 .. n - i /\ k + i = j + 1 /\ ~(j <= Len(f))
          BY <1>a, <2>2, <2>3, <3>2
        <4>2. r[j] = b[k]
          BY <2>1, <2>2, <2>3, <4>1
        <4> HIDE DEF k
        <4> QED
          BY <1>5, <3>2, <4>1, <4>2
      <3> QED
        BY <3>1, <3>2
    <2> QED
      BY <2>1, <2>2, <2>3
  <1>8. DOMAIN r = 1 .. n - 1 /\ DOMAIN q = 1 .. n
    BY <1>3, <1>7, LenProperties DEF n
  <1> DEFINE at(j) == IF j < i THEN j ELSE j + 1
  <1>9. ASSUME NEW j \in DOMAIN r PROVE at(j) \in DOMAIN q /\ at(j) # i /\ r[j] = q[at(j)]
    BY <1>a, <1>7, <1>8
  <1>10. \A j, k \in DOMAIN r : at(j) = at(k) => j = k
    BY <1>a, <1>8
  <1>11. \A k \in DOMAIN q : k # i => \E j \in DOMAIN r : at(j) = k
    <2> TAKE k \in DOMAIN q
    <2>1. CASE k < i
      <3>1. k \in DOMAIN r /\ at(k) = k
        BY <1>a, <1>8, <2>1
      <3> QED
        BY <3>1
    <2>2. CASE k > i
      <3> DEFINE j == k - 1
      <3>1. j \in DOMAIN r /\ at(j) = k
        BY <1>a, <1>8, <2>2
      <3> HIDE DEF j
      <3> QED
        BY <3>1
    <2> QED
      BY <1>a, <1>8, <2>1, <2>2
  <1> HIDE DEF at
  <1>12. \A j, k \in DOMAIN r : r[j] = r[k] => j = k
    BY <1>0, <1>9, <1>10
  <1>13. ASSUME NEW j \in DOMAIN r PROVE r[j] \in Range(q) \ {t}
    BY <1>0, <1>1, <1>9, <1>13 DEF Range
  <1>14. ASSUME NEW k \in DOMAIN q, q[k] # t PROVE q[k] \in Range(r)
    <2>1. PICK j \in DOMAIN r : at(j) = k
      BY <1>1, <1>11, <1>14
    <2>2. r[j] = q[k]
      BY <1>9, <2>1
    <2> QED
      BY <2>2 DEF Range
  <1>15. Range(r) = Range(q) \ {t}
    BY <1>13, <1>14 DEF Range
  <1> QED
    BY <1>0, <1>2, <1>7, <1>12, <1>15 DEF Waits, IsInjective

----------------------------------------------------------------------------
(* One semaphore: W are its waiters, n the permits that are out, of b.     *)

Sound(s, W, n, b) ==
    /\ s \in [free : Nat, queue : Seq(Tasks)] /\ Waits(s.queue, W)
    /\ s.queue # <<>> => s.free = 0
    /\ n \in Nat /\ s.free + n = b

(* Somebody waits exactly if the queue is not empty.                       *)
LEMMA QueueHasWaiters ==
    ASSUME NEW q, NEW W, Waits(q, W)
    PROVE  q = <<>> <=> W = {}
  <1>1. q = <<>> => Range(q) = {}
    BY DEF Range
  <1>2. q # <<>> => W # {}
    BY FirstServed
  <1> QED
    BY <1>1, <1>2 DEF Waits

(* A permit comes back, to the pool or to the first waiter.                *)
LEMMA PermitComesBack ==
    ASSUME NEW s, NEW W, NEW n, NEW b, Sound(s, W, n, b), n # 0
    PROVE  \/ /\ Woken(s) = {} /\ W = {} /\ Sound(PermitBack(s), W, n - 1, b)
              /\ PermitBack(s).free # 0
           \/ /\ Woken(s) = {Head(s.queue)} /\ Head(s.queue) \in W
              /\ Sound(PermitBack(s), W \ {Head(s.queue)}, n, b)
              /\ PermitBack(s).free = 0
  <1>0. /\ s \in [free : Nat, queue : Seq(Tasks)] /\ Waits(s.queue, W)
        /\ s.queue # <<>> => s.free = 0
        /\ n \in Nat /\ s.free + n = b
    BY DEF Sound
  <1>1. CASE s.queue = <<>>
    <2> DEFINE p == [s EXCEPT !.free = @ + 1]
    <2>1. Woken(s) = {} /\ PermitBack(s) = p /\ W = {}
      BY <1>0, <1>1, QueueHasWaiters DEF Woken, PermitBack
    <2>2. /\ p \in [free : Nat, queue : Seq(Tasks)] /\ p.queue = s.queue
          /\ p.free = s.free + 1
      BY <1>0
    <2> HIDE DEF p
    <2>3. n - 1 \in Nat /\ p.free + (n - 1) = b /\ p.free # 0
      <3>1. s.free \in Nat
        BY <1>0
      <3> QED
        BY <1>0, <2>2, <3>1
    <2> QED
      BY <1>0, <1>1, <2>1, <2>2, <2>3 DEF Sound
  <1>2. CASE s.queue # <<>>
    <2> DEFINE p == [s EXCEPT !.queue = Tail(@)]
    <2>1. Woken(s) = {Head(s.queue)} /\ PermitBack(s) = p
      BY <1>2 DEF Woken, PermitBack
    <2>2. Waits(Tail(s.queue), W \ {Head(s.queue)}) /\ Head(s.queue) \in W
      BY <1>0, <1>2, FirstServed
    <2>3. /\ p \in [free : Nat, queue : Seq(Tasks)] /\ p.queue = Tail(s.queue)
          /\ p.free = s.free
      BY <1>0, <2>2 DEF Waits
    <2> HIDE DEF p
    <2> QED
      BY <1>0, <1>2, <2>1, <2>2, <2>3 DEF Sound
  <1> QED
    BY <1>1, <1>2

(* A task asks for a permit: it gets one, or waits.                        *)
LEMMA TaskEnters ==
    ASSUME NEW s, NEW W, NEW n, NEW b, Sound(s, W, n, b), NEW t \in Tasks, t \notin W
    PROVE  IF s.free > 0 THEN Sound(Enter(s, t), W, n + 1, b)
                         ELSE Sound(Enter(s, t), W \cup {t}, n, b)
  <1>0. /\ s \in [free : Nat, queue : Seq(Tasks)] /\ Waits(s.queue, W)
        /\ s.queue # <<>> => s.free = 0
        /\ n \in Nat /\ s.free + n = b /\ s.free \in Nat
    BY DEF Sound
  <1>1. CASE s.free > 0
    <2> DEFINE p == [s EXCEPT !.free = @ - 1]
    <2>1. Enter(s, t) = p
      BY <1>1 DEF Enter
    <2>2. s.free - 1 \in Nat /\ s.queue = <<>>
      BY <1>0, <1>1
    <2>3. /\ p \in [free : Nat, queue : Seq(Tasks)] /\ p.queue = s.queue
          /\ p.free = s.free - 1
      BY <1>0, <2>2
    <2> HIDE DEF p
    <2>4. n + 1 \in Nat /\ p.free + (n + 1) = b
      BY <1>0, <2>3
    <2> QED
      BY <1>0, <1>1, <2>1, <2>2, <2>3, <2>4 DEF Sound
  <1>2. CASE ~(s.free > 0)
    <2> DEFINE p == [s EXCEPT !.queue = Append(@, t)]
    <2>1. Enter(s, t) = p /\ s.free = 0
      BY <1>0, <1>2 DEF Enter
    <2>2. Waits(Append(s.queue, t), W \cup {t})
      BY <1>0, OneJoins
    <2>3. /\ p \in [free : Nat, queue : Seq(Tasks)] /\ p.queue = Append(s.queue, t)
          /\ p.free = s.free
      BY <1>0, <2>2 DEF Waits
    <2> HIDE DEF p
    <2> QED
      BY <1>0, <1>2, <2>1, <2>2, <2>3 DEF Sound
  <1> QED
    BY <1>1, <1>2

(* A waiter gives up.                                                      *)
LEMMA WaiterLeaves ==
    ASSUME NEW s, NEW W, NEW n, NEW b, Sound(s, W, n, b), NEW t \in W
    PROVE  /\ Sound([s EXCEPT !.queue = WithoutWaiter(@, t)], W \ {t}, n, b)
           /\ s.free = 0
  <1>0. /\ s \in [free : Nat, queue : Seq(Tasks)] /\ Waits(s.queue, W)
        /\ s.queue # <<>> => s.free = 0
        /\ n \in Nat /\ s.free + n = b
    BY DEF Sound
  <1> DEFINE p == [s EXCEPT !.queue = WithoutWaiter(@, t)]
  <1>1. Waits(WithoutWaiter(s.queue, t), W \ {t})
    BY <1>0, OneGivesUp
  <1>2. s.free = 0
    BY <1>0, QueueHasWaiters
  <1>3. /\ p \in [free : Nat, queue : Seq(Tasks)] /\ p.queue = WithoutWaiter(s.queue, t)
        /\ p.free = s.free
    BY <1>0, <1>1 DEF Waits
  <1> HIDE DEF p
  <1> QED
    BY <1>0, <1>1, <1>2, <1>3 DEF Sound, p

----------------------------------------------------------------------------
(* The invariant.  Each pool is sound: the permits that are out are those  *)
(* of the dials and streams of its tasks and, for DNS, of the DoH          *)
(* connections that outlived their query.  That a query leaves at most one *)
(* of these at each server, so that none is counted once for two permits,  *)
(* depends on a query never going back to a server (Past).                 *)

Mine(p) == {t \in Tasks : PoolOf(t) = p}
Waiting(p) == In(Mine(p), {"waiting"})
Held(p) == In(Mine(p), {"dialing", "open"})
Opened == In(Tasks, {"open"})
Lent(p, left) == IF p = "dns" THEN Cardinality(left) ELSE 0
Out(p) == Cardinality(Held(p)) + Lent(p, closing)

Past(r, server) == \/ r.stage \in {"done", "failed"}
                   \/ r.stage \in Under /\ server < r.server

TaskRec == [stage : Stages, wait : 0 .. PermitTimeout, spent : 0 .. QueryTimeout,
            server : 1 .. NServers]

RelayInvariant ==
    /\ TypeOK
    /\ \A p \in Pools : IsFiniteSet(Held(p)) /\ Sound(pool[p], Waiting(p), Out(p), Budget[p])
    /\ IsFiniteSet(closing) /\ IsFiniteSet(Opened)
    /\ active = Cardinality(Opened) + Cardinality(closing)
    /\ \A c \in closing : Past(task[c[1]], c[2])

(* What the constants are, under a name the provers need not look behind.  *)
Given ==
    /\ Flows \cap Queries = {}
    /\ NServers \in Nat \ {0} /\ MaxFlows \in Nat \ {0} /\ MaxDns \in Nat \ {0}
    /\ QueryTimeout \in Nat /\ PermitTimeout \in Nat

(* Every task draws on one of the two pools.                               *)
LEMMA PoolsOfTasks == \A t : PoolOf(t) \in Pools /\ (PoolOf(t) = "dns" <=> t \notin Flows)
  BY DEF PoolOf, Pools

(* Who waits and who holds what, at once and in the next state.            *)
LEMMA Members ==
    /\ \A p, t : t \in Waiting(p) <=> t \in Tasks /\ PoolOf(t) = p /\ task[t].stage = "waiting"
    /\ \A p, t : t \in Held(p) <=>
                    t \in Tasks /\ PoolOf(t) = p /\ task[t].stage \in {"dialing", "open"}
    /\ \A t : t \in Opened <=> t \in Tasks /\ task[t].stage = "open"
  BY DEF Waiting, Held, Opened, In, Mine

(* The same of the next state.                                             *)
LEMMA MembersNext ==
    /\ \A p, t : t \in Waiting(p)' <=>
                    t \in Tasks /\ PoolOf(t) = p /\ task'[t].stage = "waiting"
    /\ \A p, t : t \in Held(p)' <=>
                    t \in Tasks /\ PoolOf(t) = p /\ task'[t].stage \in {"dialing", "open"}
    /\ \A t : t \in Opened' <=> t \in Tasks /\ task'[t].stage = "open"
  BY DEF Waiting, Held, Opened, In, Mine

(* One entry of a function changed.                                        *)
With(f, x, v) == [f EXCEPT ![x] = v]

(* What a task that leaves may do, and what then remains.                  *)
LivesOn(t, lives) == lives \in BOOLEAN /\ (lives => t \in Queries /\ task[t].stage = "open")
Left(t, lives) == IF lives THEN closing \cup {<<t, task[t].server>>} ELSE closing
Streams(t, lives) == IF task[t].stage = "open" /\ ~lives THEN active - 1 ELSE active

(* An action moves tasks and permits of one pool only.                     *)
LEMMA OnePoolMoves ==
    ASSUME RelayInvariant, NEW p \in Pools, NEW s, pool' = With(pool, p, s),
           profile' = profile, session' = session,
           task' \in [Tasks -> TaskRec],
           \A t \in Tasks : PoolOf(t) # p => task'[t].stage = task[t].stage,
           p # "dns" => closing' = closing,
           closing' \subseteq Queries \X (1 .. NServers),
           IsFiniteSet(Held(p)'), IsFiniteSet(closing'), IsFiniteSet(Opened'),
           Sound(s, Waiting(p)', Cardinality(Held(p)') + Lent(p, closing'), Budget[p]),
           active' = Cardinality(Opened') + Cardinality(closing'),
           \A c \in closing' : Past(task'[c[1]], c[2])
    PROVE  RelayInvariant'
  <1>1. pool \in [Pools -> [free : Nat, queue : Seq(Tasks)]] /\ pool' = [pool EXCEPT ![p] = s]
    BY DEF RelayInvariant, TypeOK, With
  <1>2. pool'[p] = s /\ \A o \in Pools \ {p} : pool'[o] = pool[o]
    BY <1>1
  <1>3. s \in [free : Nat, queue : Seq(Tasks)]
    BY DEF Sound
  <1>4. pool' \in [Pools -> [free : Nat, queue : Seq(Tasks)]]
    BY <1>1, <1>3
  <1>5. Cardinality(Opened') \in Nat /\ Cardinality(closing') \in Nat
    BY FS_CardinalityType
  <1>6. active' \in Nat
    BY <1>5
  <1>7. TypeOK'
    BY <1>4, <1>6 DEF RelayInvariant, TypeOK, TaskRec
  <1>8. ASSUME NEW o \in Pools
        PROVE  IsFiniteSet(Held(o))' /\ Sound(pool[o], Waiting(o), Out(o), Budget[o])'
    <2>1. CASE o = p
      BY <1>2, <2>1 DEF Out
    <2>2. CASE o # p
      <3>0. \A t \in Tasks : PoolOf(t) = o => task'[t].stage = task[t].stage
        BY <2>2
      <3>1. Held(o)' = Held(o) /\ Waiting(o)' = Waiting(o)
        <4>1. \A t : t \in Held(o)' <=> t \in Held(o)
          BY <3>0, Members, MembersNext
        <4>2. \A t : t \in Waiting(o)' <=> t \in Waiting(o)
          BY <3>0, Members, MembersNext
        <4> QED
          BY <4>1, <4>2
      <3>2. Lent(o, closing') = Lent(o, closing)
        BY <2>2, PoolsOfTasks DEF Lent, Pools
      <3>3. IsFiniteSet(Held(o)) /\ Sound(pool[o], Waiting(o), Out(o), Budget[o])
        BY DEF RelayInvariant
      <3> QED
        BY <1>2, <2>2, <3>1, <3>2, <3>3 DEF Out
    <2> QED
      BY <2>1, <2>2
  <1> QED
    BY <1>7, <1>8 DEF RelayInvariant

(* The place of t is left: its pool is now s, those woken hold permits,    *)
(* and `left` are the DoH connections.                                     *)
PlaceLeft(t, lives, p, s, woken, left) ==
    /\ woken \subseteq Waiting(p) \ {t}
    /\ IsFiniteSet((Held(p) \ {t}) \cup woken) /\ IsFiniteSet(left)
    /\ IsFiniteSet(Opened \ {t})
    /\ Sound(s, (Waiting(p) \ {t}) \ woken,
             Cardinality((Held(p) \ {t}) \cup woken) + Lent(p, left), Budget[p])
    /\ Streams(t, lives) = Cardinality(Opened \ {t}) + Cardinality(left)
    /\ left \subseteq Queries \X (1 .. NServers)

(* A task leaves its place: a waiter its queue, a dial or a stream its     *)
(* permit, which comes back unless a DoH connection keeps it.              *)
LEMMA TaskLeaves ==
    ASSUME Given, RelayInvariant, NEW t \in Tasks, task[t].stage \in Under,
           NEW lives, LivesOn(t, lives),
           NEW p, p = PoolOf(t), NEW s, s = LeavePool(pool[p], t, lives),
           NEW woken, woken = Leaving(pool[p], t, lives), NEW left, left = Left(t, lives)
    PROVE  PlaceLeft(t, lives, p, s, woken, left)
  <1> USE DEF PlaceLeft
  <1>0. /\ lives \in BOOLEAN /\ (lives => t \in Queries /\ task[t].stage = "open")
        /\ left = IF lives THEN closing \cup {<<t, task[t].server>>} ELSE closing
        /\ Streams(t, lives) = IF task[t].stage = "open" /\ ~lives THEN active - 1 ELSE active
    BY DEF LivesOn, Left, Streams
  <1> DEFINE W == Waiting(p)
  <1> DEFINE H == Held(p)
  <1> DEFINE C == Cardinality(closing)
  <1>1. /\ p \in Pools /\ IsFiniteSet(H) /\ IsFiniteSet(closing) /\ IsFiniteSet(Opened)
        /\ Sound(pool[p], W, Cardinality(H) + Lent(p, closing), Budget[p])
        /\ active = Cardinality(Opened) + C
        /\ \A c \in closing : Past(task[c[1]], c[2])
        /\ task \in [Tasks -> TaskRec] /\ closing \subseteq Queries \X (1 .. NServers)
    BY PoolsOfTasks DEF RelayInvariant, Out, TypeOK, TaskRec
  <1>2. /\ t \in W <=> task[t].stage = "waiting"
        /\ t \in H <=> task[t].stage \in {"dialing", "open"}
        /\ t \in Opened <=> task[t].stage = "open"
        /\ W \cap H = {}
    BY Members
  <1>3. Cardinality(H) \in Nat /\ C \in Nat /\ Cardinality(Opened) \in Nat
    BY <1>1, FS_CardinalityType
  <1>4. Lent(p, closing) \in Nat
    BY <1>3 DEF Lent
  <1>5. /\ IsFiniteSet(H \ {t})
        /\ Cardinality(H \ {t}) = IF t \in H THEN Cardinality(H) - 1 ELSE Cardinality(H)
        /\ IsFiniteSet(Opened \ {t})
        /\ Cardinality(Opened \ {t}) = IF t \in Opened THEN Cardinality(Opened) - 1
                                                       ELSE Cardinality(Opened)
    BY <1>1, FS_RemoveElement
  <1>6. CASE task[t].stage = "waiting"
    <2>1. /\ s = [pool[p] EXCEPT !.queue = WithoutWaiter(@, t)] /\ woken = {} /\ ~lives
          /\ left = closing
      BY <1>0, <1>6 DEF LeavePool, Leaving
    <2>2. t \in W /\ t \notin H /\ t \notin Opened
      BY <1>2, <1>6
    <2>3. Sound(s, W \ {t}, Cardinality(H) + Lent(p, closing), Budget[p])
      BY <1>1, <2>1, <2>2, WaiterLeaves
    <2>4. (H \ {t}) \cup woken = H /\ (W \ {t}) \ woken = W \ {t} /\ Opened \ {t} = Opened
      BY <2>1, <2>2
    <2>5. Streams(t, lives) = Cardinality(Opened \ {t}) + Cardinality(left)
      BY <1>0, <1>1, <1>6, <2>1, <2>4
    <2> QED
      BY <1>1, <2>1, <2>3, <2>4, <2>5
  <1>7. CASE lives
    <2> DEFINE c == <<t, task[t].server>>
    <2>1. /\ s = pool[p] /\ woken = {} /\ left = closing \cup {c} /\ task[t].stage = "open"
          /\ t \in Queries /\ t \notin Flows
      BY <1>0, <1>7 DEF LeavePool, Leaving, Given
    <2>2. t \notin W /\ t \in H /\ t \in Opened /\ p = "dns"
      BY <1>2, <2>1, PoolsOfTasks
    <2>3. task[t].server \in 1 .. NServers
      BY <1>1 DEF TaskRec
    <2>4. c \notin closing
      <3>1. ~(task[t].server < task[t].server)
        BY <2>3
      <3> QED
        BY <1>1, <2>1, <3>1 DEF Past
    <2> HIDE DEF c
    <2>5. IsFiniteSet(left) /\ Cardinality(left) = C + 1
      <3>1. /\ IsFiniteSet(closing \cup {c})
            /\ Cardinality(closing \cup {c}) = IF c \in closing THEN C ELSE C + 1
        BY <1>1, FS_AddElement
      <3> HIDE DEF C
      <3> QED
        BY <2>1, <2>4, <3>1
    <2>6. left \subseteq Queries \X (1 .. NServers)
      BY <1>1, <2>1, <2>3 DEF c
    <2>7. (H \ {t}) \cup woken = H \ {t} /\ (W \ {t}) \ woken = W
      BY <2>1, <2>2
    <2>8. Cardinality(H \ {t}) + Lent(p, left) = Cardinality(H) + Lent(p, closing)
      BY <1>3, <1>5, <2>2, <2>5 DEF Lent
    <2>9. Streams(t, lives) = Cardinality(Opened \ {t}) + Cardinality(left)
      BY <1>0, <1>1, <1>7, <1>3, <1>5, <2>2, <2>5
    <2> HIDE DEF W, H, C
    <2> QED
      BY <1>1, <1>5, <1>7, <2>1, <2>5, <2>6, <2>7, <2>8, <2>9 DEF W, H
  <1>8. CASE task[t].stage \in {"dialing", "open"} /\ ~lives
    <2>1. s = PermitBack(pool[p]) /\ woken = Woken(pool[p]) /\ left = closing
      BY <1>0, <1>8 DEF LeavePool, Leaving
    <2>2. t \notin W /\ t \in H
      BY <1>2, <1>8
    <2> DEFINE n == Cardinality(H) + Lent(p, closing)
    <2>3. Cardinality(H) # 0
      BY <1>1, <2>2, FS_EmptySet
    <2>4. n \in Nat /\ n # 0 /\ n - 1 = Cardinality(H \ {t}) + Lent(p, left)
      <3>1. Cardinality(H \ {t}) = Cardinality(H) - 1 /\ Lent(p, left) = Lent(p, closing)
        BY <1>5, <2>1, <2>2
      <3>2. Cardinality(H) \in Nat /\ Lent(p, closing) \in Nat
        BY <1>3, <1>4
      <3> HIDE DEF H
      <3> QED
        BY <2>3, <3>1, <3>2
    <2>5. Sound(pool[p], W, n, Budget[p])
      BY <1>1
    <2>6. Streams(t, lives) = Cardinality(Opened \ {t}) + Cardinality(left)
      BY <1>0, <1>1, <1>2, <1>3, <1>5, <1>8, <2>1
    <2> HIDE DEF n
    <2> DEFINE h == Head(pool[p].queue)
    <2>a. \/ woken = {} /\ Sound(s, W, n - 1, Budget[p])
          \/ woken = {h} /\ h \in W /\ Sound(s, W \ {h}, n, Budget[p])
      <3> HIDE DEF W, H, C
      <3> DEFINE q == pool[p]
      <3> DEFINE b == Budget[p]
      <3> HIDE DEF q, b
      <3>1. Sound(q, W, n, b)
        BY <2>5 DEF q, b
      <3>2. \/ /\ Woken(q) = {} /\ W = {} /\ Sound(PermitBack(q), W, n - 1, b)
               /\ PermitBack(q).free # 0
            \/ /\ Woken(q) = {Head(q.queue)} /\ Head(q.queue) \in W
               /\ Sound(PermitBack(q), W \ {Head(q.queue)}, n, b)
               /\ PermitBack(q).free = 0
        BY <2>4, <3>1, PermitComesBack
      <3> QED
        BY <2>1, <3>2 DEF q, b
    <2> HIDE DEF h
    <2>7. CASE woken = {}
      <3>1. Sound(s, W, n - 1, Budget[p])
        BY <2>7, <2>a
      <3>2. (H \ {t}) \cup woken = H \ {t} /\ (W \ {t}) \ woken = W
        BY <2>2, <2>7
      <3> HIDE DEF W, H, C
      <3> QED
        BY <1>1, <1>5, <2>1, <2>4, <2>6, <2>7, <3>1, <3>2 DEF W, H
    <2>8. CASE woken # {}
      <3>1. woken = {h} /\ h \in W /\ Sound(s, W \ {h}, n, Budget[p])
        BY <2>8, <2>a
      <3>2. h # t /\ h \notin H \ {t}
        BY <1>2, <2>2, <3>1
      <3>3. /\ IsFiniteSet((H \ {t}) \cup {h})
            /\ Cardinality((H \ {t}) \cup {h}) = Cardinality(H \ {t}) + 1
        BY <1>5, <3>2, FS_AddElement
      <3>4. Cardinality((H \ {t}) \cup {h}) + Lent(p, left) = n
        <4>1. Cardinality(H \ {t}) = Cardinality(H) - 1 /\ Lent(p, left) = Lent(p, closing)
          BY <1>5, <2>1, <2>2
        <4>2. Cardinality(H) \in Nat /\ Lent(p, closing) \in Nat
          BY <1>3, <1>4
        <4> HIDE DEF H
        <4> QED
          BY <3>3, <4>1, <4>2 DEF n
      <3>5. (W \ {t}) \ woken = W \ {h} /\ woken \subseteq W \ {t}
        BY <2>2, <3>1, <3>2
      <3> HIDE DEF W, H, C
      <3> QED
        BY <1>1, <1>5, <2>1, <2>6, <3>1, <3>3, <3>4, <3>5 DEF W, H
    <2> QED
      BY <2>7, <2>8
  <1> QED
    BY <1>6, <1>7, <1>8 DEF Under

----------------------------------------------------------------------------
(* What becomes of the tasks when one moves and another is woken.          *)

(* Waking gives a waiter the permit, and changes nothing else.             *)
LEMMA Wakes ==
    ASSUME Given, task \in [Tasks -> TaskRec], NEW woken,
           \A u \in woken : u \in Tasks /\ task[u].stage = "waiting"
    PROVE  /\ WithWoken(woken) \in [Tasks -> TaskRec]
           /\ \A u \in woken : /\ WithWoken(woken)[u].stage = "dialing"
                               /\ WithWoken(woken)[u].server = task[u].server
           /\ \A u \in Tasks \ woken : WithWoken(woken)[u] = task[u]
           /\ \A u \in Tasks : \A k : Past(task[u], k) => Past(WithWoken(woken)[u], k)
  <1> DEFINE r(u) == [task[u] EXCEPT !.stage = "dialing", !.wait = 0]
  <1>1. ASSUME NEW u \in Tasks
        PROVE  r(u) \in TaskRec /\ r(u).stage = "dialing" /\ r(u).server = task[u].server
    <2>1. 0 \in 0 .. PermitTimeout /\ task[u] \in TaskRec
      BY DEF Given
    <2> QED
      BY <2>1 DEF TaskRec, Stages
  <1>2. \A u \in Tasks : WithWoken(woken)[u] = IF u \in woken THEN r(u) ELSE task[u]
    BY DEF WithWoken
  <1>3. WithWoken(woken) = [u \in Tasks |-> WithWoken(woken)[u]]
    BY DEF WithWoken
  <1> HIDE DEF r
  <1>4. \A u \in Tasks : WithWoken(woken)[u] \in TaskRec
    BY <1>1, <1>2
  <1>5. WithWoken(woken) \in [Tasks -> TaskRec]
    BY <1>3, <1>4
  <1>6. ASSUME NEW u \in woken, NEW k, Past(task[u], k) PROVE Past(WithWoken(woken)[u], k)
    BY <1>1, <1>2, <1>6 DEF Past, Under
  <1> QED
    BY <1>1, <1>2, <1>5, <1>6

(* Task t is now r, those woken have their permits, and nobody else moved. *)
Moved(t, p, woken, r) ==
    /\ task' \in [Tasks -> TaskRec] /\ task'[t] = r
    /\ \A u \in Tasks : PoolOf(u) # p => task'[u].stage = task[u].stage
    /\ Waiting(p)' = ((Waiting(p) \ {t}) \ woken)
                         \cup (IF r.stage = "waiting" THEN {t} ELSE {})
    /\ Held(p)' = ((Held(p) \ {t}) \cup woken)
                         \cup (IF r.stage = "dialing" THEN {t} ELSE {})
    /\ Opened' = Opened \ {t}
    /\ \A u \in Tasks \ {t} : \A k : Past(task[u], k) => Past(task'[u], k)

(* Task t becomes r, and of its pool those in `woken` are woken.           *)
LEMMA TaskMoves ==
    ASSUME Given, RelayInvariant, NEW t \in Tasks, NEW p, p = PoolOf(t),
           NEW woken, woken \subseteq Waiting(p) \ {t},
           NEW r \in TaskRec, r.stage # "open", task' = With(WithWoken(woken), t, r)
    PROVE  Moved(t, p, woken, r)
  <1>0. task \in [Tasks -> TaskRec]
    BY DEF RelayInvariant, TypeOK, TaskRec
  <1>1. \A u \in woken : u \in Tasks /\ PoolOf(u) = p /\ task[u].stage = "waiting" /\ u # t
    BY Members
  <1> DEFINE w == WithWoken(woken)
  <1>2. /\ w \in [Tasks -> TaskRec]
        /\ \A u \in woken : w[u].stage = "dialing"
        /\ \A u \in Tasks \ woken : w[u] = task[u]
        /\ \A u \in Tasks : \A k : Past(task[u], k) => Past(w[u], k)
    BY <1>0, <1>1, Wakes
  <1> HIDE DEF w
  <1>3. task' = [w EXCEPT ![t] = r]
    BY DEF w, With
  <1>4. task' \in [Tasks -> TaskRec] /\ task'[t] = r /\ \A u \in Tasks \ {t} : task'[u] = w[u]
    BY <1>2, <1>3
  <1>5. \A u \in Tasks \ {t} : IF u \in woken THEN task'[u].stage = "dialing"
                                              ELSE task'[u] = task[u]
    BY <1>2, <1>4
  <1>6. ASSUME NEW u \in Tasks, PoolOf(u) # p PROVE task'[u].stage = task[u].stage
    BY <1>1, <1>5, <1>6
  <1>7. Waiting(p)' = ((Waiting(p) \ {t}) \ woken)
                          \cup (IF r.stage = "waiting" THEN {t} ELSE {})
    <2>1. ASSUME NEW u
          PROVE  u \in Waiting(p)' <=> \/ u \in (Waiting(p) \ {t}) \ woken
                                       \/ u = t /\ r.stage = "waiting"
      <3>1. CASE u = t
        BY <1>4, <3>1, MembersNext
      <3>2. CASE u # t
        BY <1>1, <1>5, <3>2, Members, MembersNext
      <3> QED
        BY <3>1, <3>2
    <2> QED
      BY <2>1
  <1>8. Held(p)' = ((Held(p) \ {t}) \cup woken)
                       \cup (IF r.stage = "dialing" THEN {t} ELSE {})
    <2>1. ASSUME NEW u
          PROVE  u \in Held(p)' <=> \/ u \in (Held(p) \ {t}) \cup woken
                                    \/ u = t /\ r.stage = "dialing"
      <3>1. CASE u = t
        BY <1>1, <1>4, <3>1, MembersNext
      <3>2. CASE u # t
        BY <1>1, <1>5, <3>2, Members, MembersNext
      <3> QED
        BY <3>1, <3>2
    <2> QED
      BY <2>1
  <1>9. Opened' = Opened \ {t}
    <2>1. ASSUME NEW u PROVE u \in Opened' <=> u \in Opened \ {t}
      <3>1. CASE u = t
        BY <1>4, <3>1, MembersNext
      <3>2. CASE u # t
        BY <1>1, <1>5, <3>2, Members, MembersNext
      <3> QED
        BY <3>1, <3>2
    <2> QED
      BY <2>1
  <1>10. \A u \in Tasks \ {t} : \A k : Past(task[u], k) => Past(task'[u], k)
    BY <1>2, <1>4
  <1> QED
    BY <1>4, <1>6, <1>7, <1>8, <1>9, <1>10 DEF Moved

(* What was left behind before is still behind, and so is what t leaves.   *)
LEMMA LeftBehind ==
    ASSUME Given, RelayInvariant, NEW t \in Tasks, NEW lives, LivesOn(t, lives),
           task[t].stage \in Under, closing' = Left(t, lives),
           \A u \in Tasks \ {t} : \A k : Past(task[u], k) => Past(task'[u], k),
           \/ task'[t].stage \in {"done", "failed"}
           \/ task'[t].stage \in Under /\ task'[t].server = task[t].server + 1
    PROVE  \A c \in closing' : Past(task'[c[1]], c[2])
  <1>0. /\ task[t].server \in 1 .. NServers /\ closing \subseteq Queries \X (1 .. NServers)
        /\ \A c \in closing : Past(task[c[1]], c[2])
    BY DEF RelayInvariant, TypeOK
  <1>1. \A k \in 1 .. NServers : k <= task[t].server => Past(task'[t], k)
    BY <1>0 DEF Past, Given
  <1>2. ASSUME NEW c \in closing PROVE Past(task'[c[1]], c[2])
    <2>1. c[1] \in Tasks /\ c[2] \in 1 .. NServers /\ Past(task[c[1]], c[2])
      BY <1>0 DEF Tasks
    <2>2. CASE c[1] = t
      <3>1. c[2] < task[t].server
        BY <2>1, <2>2 DEF Past, Under
      <3>2. c[2] <= task[t].server
        BY <1>0, <2>1, <3>1
      <3> QED
        BY <1>1, <2>1, <2>2, <3>2
    <2>3. CASE c[1] # t
      BY <2>1, <2>3
    <2> QED
      BY <2>2, <2>3
  <1>3. Past(task'[t], task[t].server)
    BY <1>0, <1>1
  <1> QED
    BY <1>2, <1>3 DEF LivesOn, Left

(* A task ends: answered, failed, or its stream done with.                 *)
LEMMA SettleKeeps ==
    ASSUME Given, RelayInvariant, NEW t \in Tasks, task[t].stage \in Under,
           NEW outcome \in {"done", "failed"}, NEW lives, LivesOn(t, lives),
           Settle(t, outcome, lives), profile' = profile, session' = session
    PROVE  RelayInvariant'
  <1> SUFFICES ASSUME NEW p, p = PoolOf(t), NEW s, s = LeavePool(pool[p], t, lives),
                      NEW woken, woken = Leaving(pool[p], t, lives),
                      NEW left, left = Left(t, lives),
                      NEW r, r = [Idle EXCEPT !.stage = outcome]
               PROVE  RelayInvariant'
    OBVIOUS
  <1>1. p \in Pools /\ pool \in [Pools -> [free : Nat, queue : Seq(Tasks)]]
    BY PoolsOfTasks DEF RelayInvariant, TypeOK
  <1>2. /\ pool' = With(pool, p, s) /\ task' = With(WithWoken(woken), t, r)
        /\ closing' = left /\ active' = Streams(t, lives)
    BY <1>1 DEF Settle, DropStream, With, LivesOn, Left, Streams
  <1>3. r \in TaskRec /\ r.stage = outcome
    <2>1. 0 \in 0 .. PermitTimeout /\ 0 \in 0 .. QueryTimeout /\ 1 \in 1 .. NServers
      BY DEF Given
    <2> QED
      BY <2>1 DEF TaskRec, Idle, Stages
  <1>4. /\ woken \subseteq Waiting(p) \ {t}
        /\ IsFiniteSet((Held(p) \ {t}) \cup woken) /\ IsFiniteSet(left)
        /\ IsFiniteSet(Opened \ {t})
        /\ Sound(s, (Waiting(p) \ {t}) \ woken,
                 Cardinality((Held(p) \ {t}) \cup woken) + Lent(p, left), Budget[p])
        /\ Streams(t, lives) = Cardinality(Opened \ {t}) + Cardinality(left)
        /\ left \subseteq Queries \X (1 .. NServers)
    <2>1. PlaceLeft(t, lives, p, s, woken, left)
      BY TaskLeaves
    <2> QED
      BY <2>1 DEF PlaceLeft
  <1>5. /\ task' \in [Tasks -> TaskRec] /\ task'[t] = r
        /\ \A u \in Tasks : PoolOf(u) # p => task'[u].stage = task[u].stage
        /\ Waiting(p)' = (Waiting(p) \ {t}) \ woken
        /\ Held(p)' = (Held(p) \ {t}) \cup woken
        /\ Opened' = Opened \ {t}
        /\ \A u \in Tasks \ {t} : \A k : Past(task[u], k) => Past(task'[u], k)
    <2>1. r.stage # "open" /\ r.stage # "waiting" /\ r.stage # "dialing"
      BY <1>3
    <2>2. woken \subseteq Waiting(p) \ {t} /\ task' = With(WithWoken(woken), t, r)
      BY <1>2, <1>4
    <2>3. Moved(t, p, woken, r)
      BY <1>3, <2>1, <2>2, TaskMoves
    <2> QED
      BY <2>1, <2>3 DEF Moved
  <1>6. \A c \in closing' : Past(task'[c[1]], c[2])
    BY <1>2, <1>3, <1>5, LeftBehind
  <1>7. p # "dns" => closing' = closing
    <2>1. lives => p = "dns"
      BY PoolsOfTasks DEF Given, LivesOn
    <2> QED
      BY <1>2, <2>1 DEF LivesOn, Left
  <1> QED
    BY <1>1, <1>2, <1>4, <1>5, <1>6, <1>7, OnePoolMoves

(* A task asks semaphore s for a permit, having left its place, if it had  *)
(* one, to those that were woken.                                          *)
LEMMA AskKeeps ==
    ASSUME Given, RelayInvariant, NEW t \in Tasks, NEW lives, NEW p, p = PoolOf(t), NEW s,
           NEW woken, NEW left, PlaceLeft(t, lives, p, s, woken, left), NEW rec \in TaskRec,
           pool' = With(pool, p, Enter(s, t)),
           task' = With(WithWoken(woken), t, Asking(s, rec)),
           closing' = left, active' = Streams(t, lives), p # "dns" => closing' = closing,
           profile' = profile, session' = session,
           \/ task[t].stage = "idle" /\ left = closing
           \/ /\ task[t].stage \in Under /\ LivesOn(t, lives) /\ left = Left(t, lives)
              /\ rec.server = task[t].server + 1
    PROVE  RelayInvariant'
  <1> SUFFICES ASSUME NEW e, e = Enter(s, t), NEW r, r = Asking(s, rec),
                      NEW W, W = (Waiting(p) \ {t}) \ woken,
                      NEW H, H = (Held(p) \ {t}) \cup woken,
                      NEW n, n = Cardinality(H) + Lent(p, left)
               PROVE  RelayInvariant'
    OBVIOUS
  <1>1. /\ woken \subseteq Waiting(p) \ {t} /\ IsFiniteSet(H) /\ IsFiniteSet(left)
        /\ IsFiniteSet(Opened \ {t}) /\ Sound(s, W, n, Budget[p])
        /\ active' = Cardinality(Opened \ {t}) + Cardinality(left)
        /\ left \subseteq Queries \X (1 .. NServers)
    BY DEF PlaceLeft
  <1>2. p \in Pools
    BY PoolsOfTasks
  <1>3. /\ r \in TaskRec /\ r.server = rec.server
        /\ r.stage = IF s.free > 0 THEN "dialing" ELSE "waiting"
    <2>1. 0 \in 0 .. PermitTimeout
      BY DEF Given
    <2>2. (IF s.free > 0 THEN "dialing" ELSE "waiting") \in Stages
      BY DEF Stages
    <2> QED
      BY <2>1, <2>2 DEF Asking, TaskRec
  <1>4. r.stage # "open" /\ r.stage \in Under
    BY <1>3 DEF Under
  <1>5. Moved(t, p, woken, r)
    <2>1. task' = With(WithWoken(woken), t, r)
      OBVIOUS
    <2> QED
      BY <1>1, <1>3, <1>4, <2>1, TaskMoves
  <1>6. t \notin W /\ t \notin H
    BY <1>1
  <1>7. /\ task' \in [Tasks -> TaskRec] /\ task'[t] = r
        /\ \A u \in Tasks : PoolOf(u) # p => task'[u].stage = task[u].stage
        /\ Waiting(p)' = W \cup (IF r.stage = "waiting" THEN {t} ELSE {})
        /\ Held(p)' = H \cup (IF r.stage = "dialing" THEN {t} ELSE {})
        /\ Opened' = Opened \ {t}
        /\ \A u \in Tasks \ {t} : \A k : Past(task[u], k) => Past(task'[u], k)
    BY <1>5 DEF Moved
  <1>8. /\ IsFiniteSet(Held(p)')
        /\ Sound(e, Waiting(p)', Cardinality(Held(p)') + Lent(p, closing'), Budget[p])
    <2>0. /\ IF s.free > 0 THEN Sound(e, W, n + 1, Budget[p])
                           ELSE Sound(e, W \cup {t}, n, Budget[p])
          /\ Cardinality(H) \in Nat
      BY <1>1, <1>6, TaskEnters, FS_CardinalityType
    <2>1. CASE s.free > 0
      <3>1. Waiting(p)' = W /\ Held(p)' = H \cup {t}
        BY <1>3, <1>7, <2>1
      <3>2. IsFiniteSet(H \cup {t}) /\ Cardinality(H \cup {t}) = Cardinality(H) + 1
        BY <1>1, <1>6, FS_AddElement
      <3>3. Lent(p, left) \in Nat
        BY <1>1, FS_CardinalityType DEF Lent
      <3>4. Cardinality(H \cup {t}) + Lent(p, left) = n + 1
        BY <2>0, <3>2, <3>3
      <3> QED
        BY <2>0, <2>1, <3>1, <3>2, <3>4
    <2>2. CASE ~(s.free > 0)
      <3>1. Waiting(p)' = W \cup {t} /\ Held(p)' = H
        BY <1>3, <1>7, <2>2
      <3> QED
        BY <1>1, <2>0, <2>2, <3>1
    <2> QED
      BY <2>1, <2>2
  <1>9. \A c \in closing' : Past(task'[c[1]], c[2])
    <2>1. CASE task[t].stage = "idle" /\ left = closing
      <3>1. \A k : ~Past(task[t], k)
        BY <2>1 DEF Past, Under
      <3>2. \A c \in closing : c[1] \in Tasks /\ Past(task[c[1]], c[2])
        BY DEF RelayInvariant, TypeOK, Tasks
      <3> QED
        BY <1>7, <2>1, <3>1, <3>2
    <2>2. CASE /\ task[t].stage \in Under /\ LivesOn(t, lives) /\ left = Left(t, lives)
               /\ rec.server = task[t].server + 1
      <3>1. task'[t].stage \in Under /\ task'[t].server = task[t].server + 1
        BY <1>3, <1>4, <1>7, <2>2
      <3> QED
        BY <1>7, <2>2, <3>1, LeftBehind
    <2> QED
      BY <2>1, <2>2
  <1>10. /\ IsFiniteSet(closing') /\ IsFiniteSet(Opened')
         /\ closing' \subseteq Queries \X (1 .. NServers)
    BY <1>1, <1>7
  <1>11. active' = Cardinality(Opened') + Cardinality(closing')
    BY <1>1, <1>7
  <1> QED
    BY <1>2, <1>7, <1>8, <1>9, <1>10, <1>11, OnePoolMoves

(* The attempt of a query fails: it asks again for the next server, in the *)
(* same step, or is over.                                                  *)
LEMMA TryNextKeeps ==
    ASSUME Given, RelayInvariant, NEW t \in Queries, task[t].stage \in Under,
           NEW lives, LivesOn(t, lives), TryNext(t, lives), profile' = profile, session' = session
    PROVE  RelayInvariant'
  <1>0. t \in Tasks
    BY DEF Tasks
  <1>1. CASE task[t].server = NServers
    <2>1. Settle(t, "failed", lives)
      BY <1>1 DEF TryNext
    <2>2. "failed" \in {"done", "failed"}
      OBVIOUS
    <2> QED
      BY <1>0, <2>1, <2>2, SettleKeeps
  <1>2. CASE task[t].server # NServers
    <2> SUFFICES ASSUME NEW p, p = PoolOf(t), NEW s, s = LeavePool(pool[p], t, lives),
                        NEW woken, woken = Leaving(pool[p], t, lives),
                        NEW left, left = Left(t, lives),
                        NEW next, next = [Idle EXCEPT !.server = task[t].server + 1]
                 PROVE  RelayInvariant'
      OBVIOUS
    <2>1. /\ pool' = With(pool, p, Enter(s, t))
          /\ task' = With(WithWoken(woken), t, Asking(s, next))
          /\ closing' = left /\ active' = Streams(t, lives)
      <3>1. p \in Pools /\ pool \in [Pools -> [free : Nat, queue : Seq(Tasks)]]
        BY PoolsOfTasks DEF RelayInvariant, TypeOK
      <3> QED
        BY <1>2, <3>1 DEF TryNext, DropStream, With, LivesOn, Left, Streams
    <2>2. next \in TaskRec /\ next.server = task[t].server + 1
      <3>1. task[t].server \in 1 .. NServers
        BY <1>0 DEF RelayInvariant, TypeOK
      <3>2. task[t].server + 1 \in 1 .. NServers
        BY <1>2, <3>1 DEF Given
      <3>3. 0 \in 0 .. PermitTimeout /\ 0 \in 0 .. QueryTimeout
        BY DEF Given
      <3> QED
        BY <3>2, <3>3 DEF TaskRec, Idle, Stages
    <2>3. PlaceLeft(t, lives, p, s, woken, left)
      BY <1>0, TaskLeaves
    <2>4. p = "dns"
      BY PoolsOfTasks DEF Given
    <2> QED
      BY <1>0, <2>1, <2>2, <2>3, <2>4, AskKeeps
  <1> QED
    BY <1>1, <1>2

----------------------------------------------------------------------------
(* The actions.                                                            *)

(* Nothing but clocks and the session changes.                             *)
LEMMA SameStages ==
    ASSUME RelayInvariant, task' \in [Tasks -> TaskRec],
           \A t \in Tasks : task'[t].stage = task[t].stage /\ task'[t].server = task[t].server,
           profile' = profile, session' \in {"up", "dead"}, UNCHANGED <<pool, closing, active>>
    PROVE  RelayInvariant'
  <1>1. TypeOK'
    BY DEF RelayInvariant, TypeOK, TaskRec
  <1>2. \A p : Waiting(p)' = Waiting(p) /\ Held(p)' = Held(p)
    <2> TAKE p
    <2>1. \A t : t \in Waiting(p)' <=> t \in Waiting(p)
      BY Members, MembersNext
    <2>2. \A t : t \in Held(p)' <=> t \in Held(p)
      BY Members, MembersNext
    <2> QED
      BY <2>1, <2>2
  <1>3. Opened' = Opened
    <2>1. \A t : t \in Opened' <=> t \in Opened
      BY Members, MembersNext
    <2> QED
      BY <2>1
  <1>4. \A c \in closing' : Past(task'[c[1]], c[2])
    <2>1. \A c \in closing : c[1] \in Tasks /\ Past(task[c[1]], c[2])
      BY DEF RelayInvariant, TypeOK, Tasks
    <2> QED
      BY <2>1 DEF Past
  <1>5. \A p \in Pools :
           IsFiniteSet(Held(p))' /\ Sound(pool[p], Waiting(p), Out(p), Budget[p])'
    BY <1>2 DEF RelayInvariant, Out
  <1> QED
    BY <1>1, <1>3, <1>4, <1>5 DEF RelayInvariant

(* A flow or a query comes, and asks for its permit.                       *)
LEMMA ArriveKeeps ==
    ASSUME Given, RelayInvariant, NEW t \in Tasks, Arrive(t) PROVE RelayInvariant'
  <1> SUFFICES ASSUME NEW p, p = PoolOf(t), NEW s, s = pool[p] PROVE RelayInvariant'
    OBVIOUS
  <1>1. /\ p \in Pools /\ pool \in [Pools -> [free : Nat, queue : Seq(Tasks)]]
        /\ task \in [Tasks -> TaskRec] /\ closing \subseteq Queries \X (1 .. NServers)
        /\ IsFiniteSet(Held(p)) /\ IsFiniteSet(closing) /\ IsFiniteSet(Opened)
        /\ Sound(s, Waiting(p), Cardinality(Held(p)) + Lent(p, closing), Budget[p])
        /\ active = Cardinality(Opened) + Cardinality(closing)
    BY PoolsOfTasks DEF RelayInvariant, TypeOK, TaskRec, Out
  <1>2. /\ task[t].stage = "idle" /\ task' = [task EXCEPT ![t] = Asking(s, task[t])]
        /\ pool' = [pool EXCEPT ![p] = Enter(s, t)]
        /\ UNCHANGED <<profile, session, closing, active>>
    BY DEF Arrive
  <1>3. WithWoken({}) = task
    BY <1>1 DEF WithWoken
  <1>4. t \notin Waiting(p) /\ t \notin Held(p) /\ t \notin Opened
    BY <1>2, Members
  <1>5. PlaceLeft(t, FALSE, p, s, {}, closing)
    <2>1. /\ (Waiting(p) \ {t}) \ {} = Waiting(p) /\ (Held(p) \ {t}) \cup {} = Held(p)
          /\ Opened \ {t} = Opened
      BY <1>4
    <2>2. Streams(t, FALSE) = active
      BY <1>2 DEF Streams
    <2> QED
      BY <1>1, <2>1, <2>2 DEF PlaceLeft
  <1>6. /\ pool' = With(pool, p, Enter(s, t))
        /\ task' = With(WithWoken({}), t, Asking(s, task[t]))
        /\ active' = Streams(t, FALSE)
    BY <1>2, <1>3 DEF With, Streams
  <1>7. /\ task[t] \in TaskRec /\ closing' = closing
        /\ profile' = profile /\ session' = session
    BY <1>1, <1>2
  <1> SUFFICES ASSUME NEW rec \in TaskRec, rec = task[t], NEW lives, lives = FALSE,
                      NEW woken, woken = {}, NEW left, left = closing
               PROVE  RelayInvariant'
    BY <1>7
  <1>8. /\ PlaceLeft(t, lives, p, s, woken, left)
        /\ pool' = With(pool, p, Enter(s, t))
        /\ task' = With(WithWoken(woken), t, Asking(s, rec))
        /\ closing' = left /\ active' = Streams(t, lives)
    BY <1>5, <1>6, <1>7
  <1> QED
    BY <1>2, <1>7, <1>8, AskKeeps

(* The server accepts: the permit is now held by a stream.                 *)
LEMMA DialOkKeeps ==
    ASSUME Given, RelayInvariant, NEW t \in Tasks, DialOk(t) PROVE RelayInvariant'
  <1> SUFFICES ASSUME NEW p, p = PoolOf(t), NEW s, s = pool[p] PROVE RelayInvariant'
    OBVIOUS
  <1>1. /\ p \in Pools /\ pool \in [Pools -> [free : Nat, queue : Seq(Tasks)]]
        /\ task \in [Tasks -> TaskRec] /\ closing \subseteq Queries \X (1 .. NServers)
        /\ IsFiniteSet(Held(p)) /\ IsFiniteSet(closing) /\ IsFiniteSet(Opened)
        /\ Sound(s, Waiting(p), Cardinality(Held(p)) + Lent(p, closing), Budget[p])
        /\ active = Cardinality(Opened) + Cardinality(closing)
        /\ \A c \in closing : c[1] \in Tasks /\ Past(task[c[1]], c[2])
    BY PoolsOfTasks DEF RelayInvariant, TypeOK, TaskRec, Out, Tasks
  <1>2. /\ task[t].stage = "dialing"
        /\ task' = [task EXCEPT ![t] = [task[t] EXCEPT !.stage = "open", !.wait = 0]]
        /\ active' = active + 1 /\ UNCHANGED <<profile, session, pool, closing>>
    BY DEF DialOk
  <1> SUFFICES ASSUME NEW r, r = [task[t] EXCEPT !.stage = "open", !.wait = 0]
               PROVE  RelayInvariant'
    OBVIOUS
  <1>3. r \in TaskRec /\ r.stage = "open" /\ r.server = task[t].server
    <2>1. 0 \in 0 .. PermitTimeout /\ task[t] \in TaskRec
      BY <1>1 DEF Given
    <2> QED
      BY <2>1 DEF TaskRec, Stages
  <1>4. /\ task' \in [Tasks -> TaskRec] /\ task'[t] = r
        /\ \A u \in Tasks \ {t} : task'[u] = task[u]
    BY <1>1, <1>2, <1>3
  <1>5. Waiting(p)' = Waiting(p) /\ Held(p)' = Held(p) /\ Opened' = Opened \cup {t}
    <2>1. \A u : u \in Waiting(p)' <=> u \in Waiting(p)
      BY <1>2, <1>3, <1>4, Members, MembersNext
    <2>2. \A u : u \in Held(p)' <=> u \in Held(p)
      BY <1>2, <1>3, <1>4, Members, MembersNext
    <2>3. \A u : u \in Opened' <=> u \in Opened \cup {t}
      BY <1>2, <1>3, <1>4, Members, MembersNext
    <2> QED
      BY <2>1, <2>2, <2>3
  <1>6. /\ IsFiniteSet(Opened') /\ active' = Cardinality(Opened') + Cardinality(closing')
    <2>1. t \notin Opened
      BY <1>2, Members
    <2>2. /\ IsFiniteSet(Opened \cup {t}) /\ Cardinality(Opened \cup {t}) = Cardinality(Opened) + 1
          /\ Cardinality(Opened) \in Nat /\ Cardinality(closing) \in Nat
      BY <1>1, <2>1, FS_AddElement, FS_CardinalityType
    <2>3. active' = (Cardinality(Opened) + 1) + Cardinality(closing)
      BY <1>1, <1>2, <2>2
    <2> QED
      BY <1>2, <1>5, <2>2, <2>3
  <1>7. \A u \in Tasks : PoolOf(u) # p => task'[u].stage = task[u].stage
    BY <1>4
  <1>8. \A c \in closing' : Past(task'[c[1]], c[2])
    BY <1>1, <1>2, <1>3, <1>4 DEF Past, Under
  <1>9. pool' = With(pool, p, s)
    BY <1>1, <1>2 DEF With
  <1>10. /\ profile' = profile /\ session' = session /\ closing' = closing
         /\ closing' \subseteq Queries \X (1 .. NServers)
         /\ IsFiniteSet(Held(p)') /\ IsFiniteSet(closing')
         /\ Sound(s, Waiting(p)', Cardinality(Held(p)') + Lent(p, closing'), Budget[p])
    BY <1>1, <1>2, <1>5
  <1> QED
    BY <1>1, <1>4, <1>6, <1>7, <1>8, <1>9, <1>10, OnePoolMoves

(* A dial, or the wait for one, ends without a stream.                     *)
LEMMA DialEndsKeeps ==
    ASSUME Given, RelayInvariant, NEW t \in Tasks, task[t].stage \in {"waiting", "dialing"},
           DialEnds(t)
    PROVE  RelayInvariant'
  <1>1. task[t].stage \in Under /\ LivesOn(t, FALSE) /\ profile' = profile /\ session' = session
    BY DEF Under, LivesOn, DialEnds
  <1>2. CASE t \in Flows
    <2>1. Settle(t, "failed", FALSE) /\ "failed" \in {"done", "failed"}
      BY <1>2 DEF DialEnds
    <2> QED
      BY <1>1, <2>1, SettleKeeps
  <1>3. CASE t \notin Flows
    <2>1. t \in Queries /\ TryNext(t, FALSE)
      BY <1>3 DEF DialEnds, Tasks
    <2> QED
      BY <1>1, <2>1, TryNextKeeps
  <1> QED
    BY <1>2, <1>3

(* An attempt is given up, and its DoH connection may outlive it.          *)
LEMMA AttemptKeeps ==
    ASSUME Given, RelayInvariant, NEW q \in Queries, QueryTimesOut(q) \/ AttemptFails(q)
    PROVE  RelayInvariant'
  <1>1. /\ task[q].stage \in Under /\ profile' = profile /\ session' = session
        /\ \E lives \in MayLiveOn(q) : TryNext(q, lives)
    BY DEF QueryTimesOut, AttemptFails, QueryDue, Under
  <1>2. PICK lives \in MayLiveOn(q) : TryNext(q, lives)
    BY <1>1
  <1>3. LivesOn(q, lives)
    BY DEF MayLiveOn, LivesOn
  <1> QED
    BY <1>1, <1>2, <1>3, TryNextKeeps

(* An answer, or the end of a flow.                                        *)
LEMMA EndKeeps ==
    ASSUME Given, RelayInvariant, NEW t \in Tasks,
           (t \in Queries /\ Answer(t)) \/ (t \in Flows /\ FlowEnds(t))
    PROVE  RelayInvariant'
  <1>1. /\ task[t].stage = "open" /\ task[t].stage \in Under
        /\ profile' = profile /\ session' = session
    BY DEF Answer, FlowEnds, Under
  <1>2. \E lives : LivesOn(t, lives) /\ Settle(t, "done", lives)
    <2>1. CASE t \in Queries /\ Answer(t)
      <3>1. LivesOn(t, profile.mode = "https") /\ Settle(t, "done", profile.mode = "https")
        BY <1>1, <2>1 DEF LivesOn, Answer
      <3> QED
        BY <3>1
    <2>2. CASE t \in Flows /\ FlowEnds(t)
      <3>1. LivesOn(t, FALSE) /\ Settle(t, "done", FALSE)
        BY <2>2 DEF LivesOn, FlowEnds
      <3> QED
        BY <3>1
    <2> QED
      BY <2>1, <2>2
  <1>3. PICK lives : LivesOn(t, lives) /\ Settle(t, "done", lives)
    BY <1>2
  <1>4. "done" \in {"done", "failed"}
    OBVIOUS
  <1> QED
    BY <1>1, <1>3, <1>4, SettleKeeps

(* A DoH connection is over, and its permit comes back.                    *)
LEMMA ConnEndsKeeps ==
    ASSUME Given, RelayInvariant, NEW c \in closing, ConnEnds(c) PROVE RelayInvariant'
  <1> SUFFICES ASSUME NEW p, p = "dns", NEW s, s = pool[p], NEW e, e = PermitBack(s),
                      NEW woken, woken = Woken(s),
                      NEW W, W = Waiting(p), NEW H, H = Held(p),
                      NEW n, n = Cardinality(H) + Cardinality(closing)
               PROVE  RelayInvariant'
    OBVIOUS
  <1>1. /\ p \in Pools /\ pool \in [Pools -> [free : Nat, queue : Seq(Tasks)]]
        /\ task \in [Tasks -> TaskRec] /\ closing \subseteq Queries \X (1 .. NServers)
        /\ IsFiniteSet(H) /\ IsFiniteSet(closing) /\ IsFiniteSet(Opened)
        /\ active = Cardinality(Opened) + Cardinality(closing)
        /\ \A d \in closing : d[1] \in Tasks /\ Past(task[d[1]], d[2])
    BY DEF RelayInvariant, TypeOK, TaskRec, Tasks, Pools
  <1>2. Sound(s, W, n, Budget[p])
    BY <1>1 DEF RelayInvariant, Out, Lent
  <1>3. /\ closing' = closing \ {c} /\ active' = active - 1 /\ pool' = With(pool, p, e)
        /\ task' = WithWoken(woken) /\ profile' = profile /\ session' = session
    <2>1. PoolOf(c[1]) = p
      BY <1>1, PoolsOfTasks DEF Given
    <2> QED
      BY <2>1 DEF ConnEnds, With
  <1>4. /\ IsFiniteSet(closing') /\ Cardinality(closing') = Cardinality(closing) - 1
        /\ Cardinality(closing) \in Nat /\ Cardinality(closing) # 0
        /\ Cardinality(H) \in Nat /\ Cardinality(Opened) \in Nat
    BY <1>1, <1>3, FS_RemoveElement, FS_CardinalityType, FS_EmptySet
  <1>5. n \in Nat /\ n # 0 /\ n - 1 = Cardinality(H) + Cardinality(closing')
    BY <1>4
  <1>6. \/ woken = {} /\ Sound(e, W, n - 1, Budget[p])
        \/ \E h \in W : woken = {h} /\ Sound(e, W \ {h}, n, Budget[p])
    BY <1>2, <1>5, PermitComesBack
  <1>7. woken \subseteq W
    BY <1>6
  <1>8. \A u \in woken : u \in Tasks /\ PoolOf(u) = p /\ task[u].stage = "waiting"
    BY <1>7, Members
  <1>9. /\ task' \in [Tasks -> TaskRec]
        /\ \A u \in woken : task'[u].stage = "dialing"
        /\ \A u \in Tasks \ woken : task'[u] = task[u]
        /\ \A u \in Tasks : \A k : Past(task[u], k) => Past(task'[u], k)
    BY <1>1, <1>3, <1>8, Wakes
  <1>10. Waiting(p)' = W \ woken /\ Held(p)' = H \cup woken /\ Opened' = Opened
    <2>1. \A u : u \in Waiting(p)' <=> u \in W \ woken
      BY <1>8, <1>9, Members, MembersNext
    <2>2. \A u : u \in Held(p)' <=> u \in H \cup woken
      BY <1>8, <1>9, Members, MembersNext
    <2>3. \A u : u \in Opened' <=> u \in Opened
      BY <1>8, <1>9, Members, MembersNext
    <2> QED
      BY <2>1, <2>2, <2>3
  <1>11. /\ IsFiniteSet(Held(p)')
         /\ Sound(e, Waiting(p)', Cardinality(Held(p)') + Lent(p, closing'), Budget[p])
    <2>0. Lent(p, closing') = Cardinality(closing')
      BY DEF Lent
    <2>1. CASE woken = {} /\ Sound(e, W, n - 1, Budget[p])
      <3>1. Waiting(p)' = W /\ Held(p)' = H
        BY <1>10, <2>1
      <3> QED
        BY <1>1, <1>5, <2>0, <2>1, <3>1
    <2>2. CASE \E h \in W : woken = {h} /\ Sound(e, W \ {h}, n, Budget[p])
      <3>1. PICK h \in W : woken = {h} /\ Sound(e, W \ {h}, n, Budget[p])
        BY <2>2
      <3>2. h \notin H
        BY <1>8, <3>1, Members
      <3>3. IsFiniteSet(H \cup {h}) /\ Cardinality(H \cup {h}) = Cardinality(H) + 1
        BY <1>1, <3>2, FS_AddElement
      <3>4. Cardinality(H \cup {h}) + Cardinality(closing') = n
        BY <1>4, <3>3
      <3> QED
        BY <1>10, <2>0, <3>1, <3>3, <3>4
    <2> QED
      BY <1>6, <2>1, <2>2
  <1>12. active' = Cardinality(Opened') + Cardinality(closing') /\ IsFiniteSet(Opened')
    BY <1>1, <1>3, <1>4, <1>10
  <1>13. \A d \in closing' : Past(task'[d[1]], d[2])
    BY <1>1, <1>3, <1>9
  <1>14. \A u \in Tasks : PoolOf(u) # p => task'[u].stage = task[u].stage
    BY <1>8, <1>9
  <1>15. closing' \subseteq Queries \X (1 .. NServers) /\ (p # "dns" => closing' = closing)
    BY <1>1, <1>3
  <1> QED
    BY <1>1, <1>3, <1>4, <1>9, <1>11, <1>12, <1>13, <1>14, <1>15, OnePoolMoves

(* Time passes.                                                            *)
LEMMA TickKeeps == ASSUME Given, RelayInvariant, Tick PROVE RelayInvariant'
  <1>1. task \in [Tasks -> TaskRec] /\ session \in {"up", "dead"}
    BY DEF RelayInvariant, TypeOK, TaskRec
  <1> DEFINE waited(t) == IF Shadowsocks /\ task[t].stage \in {"waiting", "dialing"}
                          THEN AtMost(task[t].wait + 1, PermitTimeout) ELSE task[t].wait
  <1> DEFINE spent(t) == IF t \in Queries /\ task[t].stage \in Under
                         THEN AtMost(task[t].spent + 1, QueryTimeout) ELSE task[t].spent
  <1> DEFINE r(t) == [task[t] EXCEPT !.wait = waited(t), !.spent = spent(t)]
  <1>2. task' = [t \in Tasks |-> r(t)] /\ UNCHANGED <<profile, session, pool, closing, active>>
    BY DEF Tick
  <1>3. ASSUME NEW t \in Tasks
        PROVE  waited(t) \in 0 .. PermitTimeout /\ spent(t) \in 0 .. QueryTimeout
    <2>1. task[t].wait \in 0 .. PermitTimeout /\ task[t].spent \in 0 .. QueryTimeout
      BY <1>1 DEF TaskRec
    <2>2. AtMost(task[t].wait + 1, PermitTimeout) \in 0 .. PermitTimeout
      BY <2>1 DEF AtMost, Given
    <2>3. AtMost(task[t].spent + 1, QueryTimeout) \in 0 .. QueryTimeout
      BY <2>1 DEF AtMost, Given
    <2> QED
      BY <2>1, <2>2, <2>3
  <1> HIDE DEF waited, spent
  <1>4. ASSUME NEW t \in Tasks
        PROVE  r(t) \in TaskRec /\ r(t).stage = task[t].stage /\ r(t).server = task[t].server
    <2>1. task[t] \in TaskRec
      BY <1>1
    <2> QED
      BY <1>3, <2>1 DEF TaskRec
  <1> HIDE DEF r
  <1>5. /\ task' \in [Tasks -> TaskRec]
        /\ \A t \in Tasks : task'[t].stage = task[t].stage /\ task'[t].server = task[t].server
    BY <1>2, <1>4
  <1>6. profile' = profile /\ session' \in {"up", "dead"} /\ UNCHANGED <<pool, closing, active>>
    BY <1>1, <1>2
  <1> QED
    BY <1>5, <1>6, SameStages

(* The start.                                                              *)
LEMMA RelayStarts == ASSUME Given, Init PROVE RelayInvariant
  <1>1. Idle \in TaskRec
    <2>1. 0 \in 0 .. PermitTimeout /\ 0 \in 0 .. QueryTimeout /\ 1 \in 1 .. NServers
      BY DEF Given
    <2> QED
      BY <2>1 DEF TaskRec, Idle, Stages
  <1>2. task \in [Tasks -> TaskRec] /\ \A t \in Tasks : task[t].stage = "idle"
    BY <1>1 DEF Init, Idle
  <1>3. /\ \A p : Waiting(p) = {} /\ Held(p) = {}
        /\ Opened = {}
    BY <1>2, Members
  <1>4. closing = {} /\ active = 0 /\ IsFiniteSet({}) /\ Cardinality({}) = 0
    BY FS_EmptySet DEF Init
  <1>5. ASSUME NEW p \in Pools
        PROVE  /\ pool[p] \in [free : Nat, queue : Seq(Tasks)]
               /\ IsFiniteSet(Held(p)) /\ Sound(pool[p], Waiting(p), Out(p), Budget[p])
    <2>1. pool[p] = [free |-> Budget[p], queue |-> <<>>] /\ Budget[p] \in Nat
      BY DEF Init, Budget, Pools, Given
    <2>2. <<>> \in Seq(Tasks) /\ Waits(<<>>, {})
      BY DEF Waits, IsInjective, Range
    <2>3. Out(p) = 0
      BY <1>3, <1>4 DEF Out, Lent
    <2>4. /\ pool[p].free = Budget[p] /\ pool[p].queue = <<>>
          /\ pool[p] \in [free : Nat, queue : Seq(Tasks)]
      BY <2>1, <2>2
    <2>5. Budget[p] + 0 = Budget[p] /\ 0 \in Nat
      BY <2>1
    <2> QED
      BY <1>3, <1>4, <2>2, <2>3, <2>4, <2>5 DEF Sound
  <1>6. pool \in [Pools -> [free : Nat, queue : Seq(Tasks)]]
    BY <1>5 DEF Init
  <1>7. TypeOK
    BY <1>2, <1>4, <1>6 DEF Init, TypeOK, TaskRec
  <1> QED
    BY <1>3, <1>4, <1>5, <1>7 DEF RelayInvariant

----------------------------------------------------------------------------
(* The theorems.                                                           *)

(* The relay invariant holds of every behaviour.                           *)
LEMMA RelayIsSound == ASSUME RelayAssumption PROVE Spec => []RelayInvariant
  <1>0. Given
    BY DEF Given
  <1>1. Init => RelayInvariant
    BY <1>0, RelayStarts
  <1>2. RelayInvariant /\ [Next]_vars => RelayInvariant'
    <2> SUFFICES ASSUME RelayInvariant, [Next]_vars PROVE RelayInvariant'
      OBVIOUS
    <2>0. session \in {"up", "dead"} /\ task \in [Tasks -> TaskRec]
      BY DEF RelayInvariant, TypeOK, TaskRec
    <2>1. ASSUME NEW t \in Tasks, Arrive(t) PROVE RelayInvariant'
      BY <1>0, <2>1, ArriveKeeps
    <2>2. ASSUME NEW t \in Tasks, DialOk(t) PROVE RelayInvariant'
      BY <1>0, <2>2, DialOkKeeps
    <2>3. ASSUME NEW t \in Tasks, DialFails(t) \/ DialTimesOut(t) \/ PermitTimesOut(t)
          PROVE  RelayInvariant'
      <3>1. DialEnds(t) /\ task[t].stage \in {"waiting", "dialing"}
        BY <2>3 DEF DialFails, DialTimesOut, PermitTimesOut, ConnectDue, PermitDue
      <3> QED
        BY <1>0, <3>1, DialEndsKeeps
    <2>4. ASSUME NEW q \in Queries, QueryTimesOut(q) \/ AttemptFails(q) PROVE RelayInvariant'
      BY <1>0, <2>4, AttemptKeeps
    <2>5. ASSUME NEW q \in Queries, Answer(q) PROVE RelayInvariant'
      BY <1>0, <2>5, EndKeeps DEF Tasks
    <2>6. ASSUME NEW f \in Flows, FlowEnds(f) PROVE RelayInvariant'
      BY <1>0, <2>6, EndKeeps DEF Tasks
    <2>7. ASSUME NEW c \in closing, ConnEnds(c) PROVE RelayInvariant'
      BY <1>0, <2>7, ConnEndsKeeps
    <2>8. CASE SessionDies
      BY <2>0, <2>8, SameStages DEF SessionDies
    <2>9. CASE Tick
      BY <1>0, <2>9, TickKeeps
    <2>10. CASE UNCHANGED vars
      BY <2>0, <2>10, SameStages DEF vars
    <2> QED
      BY <2>1, <2>2, <2>3, <2>4, <2>5, <2>6, <2>7, <2>8, <2>9, <2>10 DEF Next
  <1> QED
    BY <1>1, <1>2, PTL DEF Spec

(* PermitsAccounted: however many flows and queries come, and however      *)
(* dials, answers, time-outs and the end of the session fall together,     *)
(* no permit is lost or lent twice, nobody waits beside a free permit, the *)
(* queue is those who wait, and `active` is the streams that exist.        *)
THEOREM PermitsAlwaysAddUp == ASSUME RelayAssumption PROVE Spec => []PermitsAccounted
  <1>1. RelayInvariant => PermitsAccounted
    <2> SUFFICES ASSUME RelayInvariant PROVE PermitsAccounted
      OBVIOUS
    <2>1. ASSUME NEW p \in Pools
          PROVE  /\ pool[p].free + Cardinality(Held(p))
                       + (IF p = "dns" THEN Cardinality(closing) ELSE 0) = Budget[p]
                 /\ Range(pool[p].queue) = Waiting(p)
                 /\ pool[p].queue # <<>> => pool[p].free = 0
      <3>1. /\ IsFiniteSet(Held(p)) /\ IsFiniteSet(closing)
            /\ Sound(pool[p], Waiting(p), Out(p), Budget[p])
        BY DEF RelayInvariant
      <3>2. /\ pool[p].free \in Nat /\ Range(pool[p].queue) = Waiting(p)
            /\ pool[p].queue # <<>> => pool[p].free = 0
            /\ pool[p].free + (Cardinality(Held(p)) + Lent(p, closing)) = Budget[p]
        BY <3>1 DEF Sound, Waits, Out
      <3>3. Cardinality(Held(p)) \in Nat /\ Lent(p, closing) \in Nat
        BY <3>1, FS_CardinalityType DEF Lent
      <3>4. (pool[p].free + Cardinality(Held(p))) + Lent(p, closing) = Budget[p]
        BY <3>2, <3>3
      <3> QED
        BY <3>2, <3>4 DEF Lent
    <2>2. TypeOK /\ active = Cardinality(Opened) + Cardinality(closing)
      BY DEF RelayInvariant
    <2> QED
      BY <2>1, <2>2 DEF PermitsAccounted, Held, Waiting, Mine, Opened
  <1> QED
    BY <1>1, RelayIsSound, PTL

(* DnsNotStarvedByFlows: a query waits only while the whole DNS allowance  *)
(* is out to other queries and to what they left behind, however many      *)
(* flows are held open.                                                    *)
THEOREM QueriesWaitForQueries == ASSUME RelayAssumption PROVE Spec => []DnsNotStarvedByFlows
  <1>1. RelayInvariant => DnsNotStarvedByFlows
    <2> SUFFICES ASSUME RelayInvariant, In(Queries, {"waiting"}) # {}
                 PROVE  Cardinality(In(Queries, {"dialing", "open"})) + Cardinality(closing)
                           >= MaxDns
      BY DEF DnsNotStarvedByFlows
    <2>0. Mine("dns") = Queries
      BY PoolsOfTasks DEF Mine, Tasks, RelayAssumption
    <2>1. /\ Waiting("dns") = In(Queries, {"waiting"})
          /\ Held("dns") = In(Queries, {"dialing", "open"})
      BY <2>0 DEF Waiting, Held
    <2>2. /\ Sound(pool["dns"], Waiting("dns"), Out("dns"), Budget["dns"])
          /\ IsFiniteSet(Held("dns")) /\ IsFiniteSet(closing)
      BY DEF RelayInvariant, Pools
    <2>3. pool["dns"].queue # <<>>
      BY <2>1, <2>2, QueueHasWaiters DEF Sound
    <2>4. 0 + Out("dns") = MaxDns
      BY <2>2, <2>3 DEF Sound, Budget
    <2>5. /\ Out("dns") = Cardinality(Held("dns")) + Cardinality(closing)
          /\ Cardinality(Held("dns")) \in Nat /\ Cardinality(closing) \in Nat
      BY <2>2, FS_CardinalityType DEF Out, Lent
    <2>6. Cardinality(Held("dns")) + Cardinality(closing) >= MaxDns
      BY <2>4, <2>5
    <2> QED
      BY <2>1, <2>6
  <1> QED
    BY <1>1, RelayIsSound, PTL
=============================================================================
