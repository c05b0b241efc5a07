-------------------------- MODULE StackCore_proofs --------------------------
(***************************************************************************)
(* Safety of the packet engine's core for every number of applications,    *)
(* handles, channel depth, buffer size and timeout.                        *)
(***************************************************************************)
EXTENDS StackCore, TLAPS

(* Numbers, ages and the record operators stay within their types.         *)
LEMMA NatConstants ==
  /\ ChannelDepth \in Nat /\ RxCap \in Nat /\ ChunkLen \in Nat /\ TxCap \in Nat
  /\ ShutdownTimeout \in Nat /\ MaxPending \in Nat /\ MaxSyns \in Nat
  BY StackCoreAssumption

(* The age at which a timer stops is a number, and a new timer has an age. *)
LEMMA MaxAgeIsNat == MaxAge \in Nat /\ 0 \in Age
  BY StackCoreAssumption DEF MaxAge, Age

(* A tick makes an age an age.                                             *)
LEMMA OlderType == \A a \in Age : Older(a) \in Age
  BY MaxAgeIsNat DEF Older, Age

(* The same of a timer that may not have been started.                     *)
LEMMA OlderNeverType == \A a \in Age \cup {Never} : Older(a) \in Age \cup {Never}
  BY MaxAgeIsNat DEF Older, Age, Never

(* send_slice takes no more than it is given, nor than the buffer holds.   *)
LEMMA TakenType ==
  ASSUME NEW n \in Nat, NEW s \in Socket, CanSend(s)
  PROVE  Taken(n, s) \in Nat /\ Taken(n, s) <= n /\ s.tx + Taken(n, s) \in 0 .. TxCap
  BY StackCoreAssumption DEF Taken, Lesser, CanSend, Socket

(* A handle with no socket.                                                *)
LEMMA FreeSocketType == FreeSocket \in Socket
  BY MaxAgeIsNat, StackCoreAssumption DEF FreeSocket, Socket, TcpState

(* tcp::Socket::close keeps the type of a socket.                          *)
LEMMA CloseSocketType == \A s \in Socket : CloseSocket(s) \in Socket
  BY DEF CloseSocket, Socket, TcpState

(* So does tcp::Socket::abort.                                             *)
LEMMA AbortSocketType == \A s \in Socket : AbortSocket(s) \in Socket
  BY DEF AbortSocket, Socket, TcpState

(* The flow that promote_accepted makes of a connection.                   *)
LEMMA NewFlowType == \A t \in Tuple : NewFlow(t) \in Flow
  BY MaxAgeIsNat, StackCoreAssumption DEF NewFlow, Flow

(* SocketSet::remove, of any handles.                                      *)
LEMMA RemoveSocketsType ==
  ASSUME sockets \in [Handles -> Socket], NEW S
  PROVE  RemoveSockets(S) \in [Handles -> Socket]
  BY FreeSocketType DEF RemoveSockets

(***************************************************************************)
(* The inductive invariant.  Most of it says something of one socket, or   *)
(* of one flow and its socket; SocketsOwned and ArmedIffPending relate the *)
(* maps to each other.                                                     *)
(***************************************************************************)
PendingStates == {"Listen", "SynReceived", "Established", "CloseWait", "Closed"}
FlowStates == TcpState \ {"Free", "Listen", "SynReceived"}

(* Our FIN was sent and nothing cut the connection short.                  *)
Ended(s) == s.st \in PostFin \/ (s.st = "Closed" /\ ~s.killed)

(* A connected socket knows its peer and keeps the address it listened on; *)
(* a FIN is acknowledged only behind a drained transmit buffer.            *)
SocketInv(s) ==
    /\ s.st \notin {"Free", "Listen"} => s.remote \in Tuple /\ s.remote[2] = s.dst
    /\ s.st \in {"FinWait2", "TimeWait"} \/ (s.st = "Closed" /\ ~s.killed) => s.tx = 0

(* A flow is its connection; EOF and FIN come after the data; and only a   *)
(* flow whose writer is gone is closed, deaf or winding down.              *)
FlowInv(s, f) ==
    /\ s.st \in FlowStates
    /\ f.tuple = s.remote
    /\ ~f.toStream /\ ~f.inClosed => ~MayRecv(s)
    /\ Ended(s) /\ ~f.inClosed => HandedOver(f)
    /\ s.st \in PostFin \/ f.inClosed \/ f.winding # Never => f.outClosed

HandleInv(h) ==
    /\ SocketInv(sockets[h])
    /\ h \in DOMAIN pending => sockets[h].st \in PendingStates
    /\ h \in DOMAIN flows => FlowInv(sockets[h], flows[h])

IInv ==
    /\ TypeOK
    /\ \A h \in Handles : HandleInv(h)
    /\ SocketsOwned
    /\ ArmedIffPending

-----------------------------------------------------------------------------
(* Init                                                                    *)
LEMMA InitTypeOK == Init => TypeOK
<1> SUFFICES ASSUME Init PROVE TypeOK
  OBVIOUS
<1>0. rxq \in Seq(Tuple) /\ armed \in SUBSET Tuple /\ sinceStep \in Age
  BY MaxAgeIsNat DEF Init
<1>1. sockets \in [Handles -> Socket]
  BY FreeSocketType DEF Init
<1>2. DOMAIN pending \in SUBSET Handles /\ pending \in [DOMAIN pending -> PendingRec]
  BY DEF Init
<1>3. DOMAIN flows \in SUBSET Handles /\ flows \in [DOMAIN flows -> Flow]
  BY DEF Init
<1>4. phase = "idle" /\ synDropped \in Nat /\ syns \in 0 .. MaxSyns
  BY StackCoreAssumption DEF Init
<1> QED
  BY <1>0, <1>1, <1>2, <1>3, <1>4 DEF TypeOK
-----------------------------------------------------------------------------
(* Every action preserves the types.                                       *)
LEMMA SocketStepType ==
  ASSUME TypeOK, NEW h \in Handles, NEW s \in Socket, SocketStep(h, s)
  PROVE  TypeOK'
<1>1. sockets' \in [Handles -> Socket]
  BY DEF SocketStep, TypeOK
<1> QED
  BY <1>1 DEF SocketStep, TypeOK

(* A step that changes one flow's channels.                                *)
LEMMA ChannelStepType ==
  ASSUME TypeOK, NEW h \in DOMAIN flows, NEW f \in Flow, ChannelStep(h, f)
  PROVE  TypeOK'
<1>1. DOMAIN flows' = DOMAIN flows /\ flows' \in [DOMAIN flows -> Flow]
  BY DEF ChannelStep, TypeOK
<1> QED
  BY <1>1 DEF ChannelStep, TypeOK

(* ingest, whether the SYN gets a listener, has one, or is dropped.        *)
LEMMA IngestType == TypeOK /\ Ingest => TypeOK'
<1> SUFFICES ASSUME TypeOK, NEW t \in Tuple,
                    \/ IngestRetransmit(t) \/ IngestDropped(t)
                    \/ \E h \in Handles : IngestNew(t, h)
             PROVE  TypeOK'
  BY DEF Ingest
<1> USE DEF TypeOK
<1>0. syns > 0 => syns - 1 \in 0 .. MaxSyns
  BY StackCoreAssumption
<1>a. Append(rxq, t) \in Seq(Tuple)
  OBVIOUS
<1>1. CASE IngestRetransmit(t)
  BY <1>0, <1>a, <1>1 DEF IngestRetransmit
<1>2. CASE IngestDropped(t)
  BY <1>0, <1>2 DEF IngestDropped
<1>3. ASSUME NEW h \in Handles, IngestNew(t, h) PROVE TypeOK'
  <2>1. CASE t[2] \in BadDsts
    BY <1>0, <1>a, <1>3, <2>1 DEF IngestNew
  <2>2. CASE t[2] \notin BadDsts
    <3>1. [FreeSocket EXCEPT !.st = "Listen", !.dst = t[2]] \in Socket
      BY FreeSocketType DEF Socket, TcpState, FreeSocket, Tuple
    <3>2. sockets' \in [Handles -> Socket]
      BY <1>3, <2>2, <3>1 DEF IngestNew
    <3>3. DOMAIN pending' = DOMAIN pending \cup {h}
      BY <1>3, <2>2 DEF IngestNew
    <3>4. pending' \in [DOMAIN pending' -> PendingRec]
      BY <1>3, <2>2, <3>3 DEF IngestNew, PendingRec
    <3> QED
      BY <1>0, <1>a, <1>3, <2>2, <3>2, <3>3, <3>4 DEF IngestNew
  <2> QED
    BY <2>1, <2>2
<1> QED
  BY <1>1, <1>2, <1>3

(* Time passes for every socket, listener and flow.                        *)
LEMMA TickType == TypeOK /\ Tick => TypeOK'
<1> SUFFICES ASSUME TypeOK, Tick PROVE TypeOK'
  OBVIOUS
<1> USE DEF TypeOK
<1>1. sockets' \in [Handles -> Socket]
  BY ZenonT(40), OlderType DEF Tick, Socket
<1>2. DOMAIN pending' = DOMAIN pending /\ pending' \in [DOMAIN pending -> PendingRec]
  BY OlderType DEF Tick, PendingRec
<1>3. DOMAIN flows' = DOMAIN flows /\ flows' \in [DOMAIN flows -> Flow]
  BY ZenonT(40), OlderType, OlderNeverType DEF Tick, Flow
<1> QED
  BY <1>1, <1>2, <1>3, OlderType DEF Tick

(* One turn of pump_flows for one flow.                                    *)
LEMMA PumpIterationType ==
  ASSUME TypeOK, NEW h \in Handles, PumpIteration(h)
  PROVE  TypeOK'
<1> USE DEF TypeOK
<1>1. CASE ResumeParked(h)
  <2> DEFINE n == Taken(flows[h].parked, sockets[h])
  <2>1. h \in DOMAIN flows /\ flows[h] \in Flow /\ sockets[h] \in Socket
    BY <1>1 DEF ResumeParked
  <2>2. n \in Nat /\ n <= flows[h].parked /\ sockets[h].tx + n \in 0 .. TxCap
    BY <1>1, <2>1, TakenType DEF ResumeParked, Flow
  <2> HIDE DEF n
  <2>3. flows[h].parked - n \in 0 .. ChunkLen
    <3>1. flows[h].parked \in 0 .. ChunkLen
      BY <2>1 DEF Flow
    <3> QED
      BY SMTT(30), <2>2, <3>1, NatConstants
  <2>4. sockets' \in [Handles -> Socket]
    BY <1>1, <2>1, <2>2 DEF ResumeParked, Socket, n
  <2>5. DOMAIN flows' = DOMAIN flows /\ flows' \in [DOMAIN flows -> Flow]
    BY <1>1, <2>1, <2>3, MaxAgeIsNat DEF ResumeParked, Flow, n
  <2> QED
    BY <1>1, <2>4, <2>5 DEF ResumeParked
<1>2. CASE SendChunk(h)
  <2> DEFINE n == Taken(ChunkLen, sockets[h])
  <2>1. h \in DOMAIN flows /\ flows[h] \in Flow /\ sockets[h] \in Socket
    BY <1>2 DEF SendChunk
  <2>2. n \in Nat /\ n <= ChunkLen /\ sockets[h].tx + n \in 0 .. TxCap
    BY <1>2, <2>1, TakenType, StackCoreAssumption DEF SendChunk
  <2>a. flows[h].outQ \in 0 .. ChannelDepth /\ flows[h].outQ > 0
    BY <1>2, <2>1 DEF SendChunk, Flow
  <2>b. ChunkLen - n \in 0 .. ChunkLen
    <3>1. ChunkLen \in Nat
      BY StackCoreAssumption
    <3> QED
      BY <2>2, <3>1
  <2>3. ChunkLen - n \in 0 .. ChunkLen /\ flows[h].outQ - 1 \in 0 .. ChannelDepth
    BY SMTT(30), <2>a, <2>b, NatConstants
  <2> HIDE DEF n
  <2>4. sockets' \in [Handles -> Socket]
    BY <1>2, <2>1, <2>2 DEF SendChunk, Socket, n
  <2>5. DOMAIN flows' = DOMAIN flows /\ flows' \in [DOMAIN flows -> Flow]
    BY <1>2, <2>1, <2>3, MaxAgeIsNat DEF SendChunk, Flow, n
  <2> QED
    BY <1>2, <2>4, <2>5 DEF SendChunk
<1>3. CASE SendFin(h)
  <2>1. CloseSocket(sockets[h]) \in Socket
    BY CloseSocketType
  <2>2. sockets' \in [Handles -> Socket]
    BY <1>3, <2>1 DEF SendFin
  <2> QED
    BY <1>3, <2>2 DEF SendFin
<1>4. CASE RecvChunk(h)
  <2>1. h \in DOMAIN flows /\ flows[h] \in Flow /\ sockets[h] \in Socket
    BY <1>4 DEF RecvChunk
  <2>a. sockets[h].rx \in 0 .. RxCap /\ sockets[h].rx > 0
    BY <1>4, <2>1 DEF RecvChunk, CanRecv, Socket
  <2>b. flows[h].inQ \in 0 .. ChannelDepth /\ flows[h].inQ < ChannelDepth
    BY <1>4, <2>1 DEF RecvChunk, Flow
  <2>c. sockets[h].rx - 1 \in 0 .. RxCap
    BY SMTT(30), <2>a, NatConstants
  <2>d. flows[h].inQ + 1 \in 0 .. ChannelDepth
    BY SMTT(30), <2>b, NatConstants
  <2>2. sockets[h].rx - 1 \in 0 .. RxCap /\ flows[h].inQ + 1 \in 0 .. ChannelDepth
    BY <2>c, <2>d
  <2>3. sockets' \in [Handles -> Socket]
    BY <1>4, <2>1, <2>2 DEF RecvChunk, Socket
  <2>4. DOMAIN flows' = DOMAIN flows /\ flows' \in [DOMAIN flows -> Flow]
    BY <1>4, <2>1, <2>2, MaxAgeIsNat DEF RecvChunk, Flow
  <2> QED
    BY <1>4, <2>3, <2>4 DEF RecvChunk
<1> QED
  BY <1>1, <1>2, <1>3, <1>4 DEF PumpIteration

(* The phases of a poll.                                                   *)
LEMMA StepType == TypeOK /\ (\A h \in Handles : HandleInv(h)) /\ Step => TypeOK'
<1> SUFFICES ASSUME TypeOK, \A h \in Handles : HandleInv(h), Step PROVE TypeOK'
  OBVIOUS
<1> USE DEF TypeOK
<1>1. CASE AbortExpiredFlows
  <2>1. \A h \in Handles : AbortSocket(sockets[h]) \in Socket
    BY AbortSocketType
  <2>2. sockets' \in [Handles -> Socket]
    BY <1>1, <2>1 DEF AbortExpiredFlows
  <2> QED
    BY <1>1, <2>2, MaxAgeIsNat DEF AbortExpiredFlows
<1>2. CASE \E h \in Handles : PumpIteration(h)
  BY <1>2, PumpIterationType
<1>3. CASE PumpOutboundDone
  BY <1>3 DEF PumpOutboundDone
<1>4. CASE CheckDisconnected
  <2>1. sockets' \in [Handles -> Socket]
    BY <1>4, CloseSocketType DEF CheckDisconnected
  <2>2. ASSUME NEW f \in Flow, f.outQ > 0
        PROVE  [f EXCEPT !.outQ = @ - 1, !.parked = ChunkLen] \in Flow
    <3>1. f.outQ - 1 \in 0 .. ChannelDepth /\ ChunkLen \in 0 .. ChunkLen
      BY SMTT(30), <2>2, StackCoreAssumption DEF Flow
    <3> QED
      BY <3>1 DEF Flow
  <2>3. DOMAIN flows' = DOMAIN flows /\ flows' \in [DOMAIN flows -> Flow]
    BY <1>4, <2>2 DEF CheckDisconnected
  <2> QED
    BY <1>4, <2>1, <2>3 DEF CheckDisconnected
<1>5. CASE DeliverSyn
  <2>0. rxq # <<>> /\ rxq' = Tail(rxq)
    BY <1>5 DEF DeliverSyn
  <2>1. Head(rxq) \in Tuple /\ Tail(rxq) \in Seq(Tuple)
    BY <2>0
  <2>2. ASSUME NEW h \in Handles, NEW t \in Tuple,
               sockets' = [sockets EXCEPT ![h].st = "SynReceived", ![h].remote = t,
                                          ![h].heard = 0]
        PROVE  sockets' \in [Handles -> Socket]
    <3>1. [sockets[h] EXCEPT !.st = "SynReceived", !.remote = t, !.heard = 0] \in Socket
      BY ZenonT(40), MaxAgeIsNat DEF Socket, TcpState
    <3> QED
      BY <2>2, <3>1
  <2>3. sockets' \in [Handles -> Socket]
    BY <1>5, <2>1, <2>2 DEF DeliverSyn
  <2> QED
    BY <1>5, <2>0, <2>1, <2>3 DEF DeliverSyn
<1>6. ASSUME NEW h \in Handles, TimerFires(h) PROVE TypeOK'
  <2>1. [sockets[h] EXCEPT !.st = "Closed"] \in Socket
    BY ZenonT(40) DEF Socket, TcpState
  <2>2. AbortSocket(sockets[h]) \in Socket
    BY AbortSocketType
  <2> QED
    BY <1>6, <2>1, <2>2, SocketStepType DEF TimerFires
<1>7. CASE PollDone
  BY <1>7 DEF PollDone
<1>8. CASE SweepStaleListeners
  <2>1. PICK S : /\ pending' = Without(pending, S) /\ sockets' = RemoveSockets(S)
                 /\ armed' \in SUBSET armed
    BY <1>8 DEF SweepStaleListeners
  <2>2. sockets' \in [Handles -> Socket]
    BY <2>1, RemoveSocketsType
  <2>3. DOMAIN pending' \in SUBSET Handles /\ pending' \in [DOMAIN pending' -> PendingRec]
    BY <2>1 DEF Without
  <2> QED
    BY <1>8, <2>1, <2>2, <2>3 DEF SweepStaleListeners
<1>9. CASE PromoteAccepted
  <2> DEFINE ready == {h \in DOMAIN pending : sockets[h].st \notin {"Listen", "SynReceived"}}
             alive == {h \in ready : IsActive(sockets[h])}
  <2>1. sockets' \in [Handles -> Socket]
    BY <1>9, RemoveSocketsType DEF PromoteAccepted
  <2>2. DOMAIN pending' \in SUBSET Handles /\ pending' \in [DOMAIN pending' -> PendingRec]
    BY <1>9 DEF PromoteAccepted, Without
  <2>3. flows' = [h \in DOMAIN flows \cup alive |->
                     IF h \in alive THEN NewFlow(Negotiated(h)) ELSE flows[h]]
    BY <1>9 DEF PromoteAccepted
  <2>4. ASSUME NEW h \in alive PROVE NewFlow(Negotiated(h)) \in Flow
    BY <2>4, NewFlowType DEF IsActive, HandleInv, SocketInv, Negotiated
  <2>5. DOMAIN flows' \in SUBSET Handles /\ flows' \in [DOMAIN flows' -> Flow]
    BY <2>3, <2>4
  <2> QED
    BY <1>9, <2>1, <2>2, <2>5 DEF PromoteAccepted
<1>10. CASE PumpInboundDone
  <2>1. sockets' \in [Handles -> Socket]
    BY <1>10, CloseSocketType DEF PumpInboundDone
  <2>2. ASSUME NEW f \in Flow, NEW b \in BOOLEAN PROVE [f EXCEPT !.toStream = b] \in Flow
    BY DEF Flow
  <2>3. \A h \in DOMAIN flows :
           (flows[h].toStream /\ ~ReaderGone(h) /\ MayRecv(sockets[h])) \in BOOLEAN
    OBVIOUS
  <2>4. DOMAIN flows' = DOMAIN flows /\ flows' \in [DOMAIN flows -> Flow]
    BY <1>10, <2>2, <2>3 DEF PumpInboundDone
  <2> QED
    BY <1>10, <2>1, <2>4 DEF PumpInboundDone
<1>11. CASE ObserveFlowStates
  <2>1. DOMAIN flows' = DOMAIN flows /\ flows' \in [DOMAIN flows -> Flow]
    BY ZenonT(40), <1>11, MaxAgeIsNat DEF ObserveFlowStates, Flow, Never
  <2> QED
    BY <1>11, <2>1 DEF ObserveFlowStates
<1>12. CASE ReapClosed
  <2>1. sockets' \in [Handles -> Socket]
    BY <1>12, RemoveSocketsType DEF ReapClosed
  <2>2. DOMAIN flows' \in SUBSET Handles /\ flows' \in [DOMAIN flows' -> Flow]
    BY <1>12 DEF ReapClosed, Without
  <2> QED
    BY <1>12, <2>1, <2>2 DEF ReapClosed
<1> QED
  BY <1>1, <1>2, <1>3, <1>4, <1>5, <1>6, <1>7, <1>8, <1>9, <1>10, <1>11, <1>12 DEF Step

(* What the network does to one connection.                                *)
LEMMA NetworkType ==
  ASSUME TypeOK, NEW h \in Handles, Network(h)
  PROVE  TypeOK'
<1>1. sockets[h] \in Socket
  BY DEF TypeOK
<1>2. CASE HandshakeAck(h)
  <2>1. [sockets[h] EXCEPT !.st = "Established", !.heard = 0] \in Socket
    BY <1>1, MaxAgeIsNat DEF Socket, TcpState
  <2> QED
    BY <1>2, <2>1, SocketStepType DEF HandshakeAck
<1>3. CASE PeerData(h)
  <2>1. sockets[h].rx \in 0 .. RxCap /\ sockets[h].rx < RxCap
    BY <1>1, <1>3 DEF Socket, PeerData
  <2>2. sockets[h].rx + 1 \in 0 .. RxCap
    BY <2>1, NatConstants
  <2>3. [sockets[h] EXCEPT !.rx = @ + 1] \in Socket
    BY <1>1, <2>2 DEF Socket
  <2> QED
    BY <1>3, <2>3, SocketStepType DEF PeerData
<1>4. CASE PeerAck(h)
  <2>1. sockets[h].tx \in 0 .. TxCap /\ sockets[h].tx > 0
    BY <1>1, <1>4 DEF Socket, PeerAck
  <2>2. sockets[h].tx - 1 \in 0 .. TxCap
    BY <2>1, NatConstants
  <2>3. [sockets[h] EXCEPT !.tx = @ - 1, !.heard = 0] \in Socket
    BY <1>1, <2>2, MaxAgeIsNat DEF Socket
  <2> QED
    BY <1>4, <2>3, SocketStepType DEF PeerAck
<1>5. \A st \in TcpState : /\ [sockets[h] EXCEPT !.st = st] \in Socket
                           /\ [sockets[h] EXCEPT !.st = st, !.heard = 0] \in Socket
                           /\ [sockets[h] EXCEPT !.st = st, !.remote = NoTuple] \in Socket
  BY <1>1, MaxAgeIsNat DEF Socket
<1>6. CASE PeerFin(h)
  BY <1>5, <1>6, SocketStepType DEF PeerFin, TcpState
<1>7. CASE AckOfFin(h)
  BY <1>5, <1>7, SocketStepType DEF AckOfFin, TcpState
<1>8. CASE PeerRst(h)
  BY <1>1, <1>5, <1>8, AbortSocketType, SocketStepType DEF PeerRst, TcpState
<1> QED
  BY <1>2, <1>3, <1>4, <1>6, <1>7, <1>8 DEF Network

(* What the tunnel's side of one connection does.                          *)
LEMMA TunnelType ==
  ASSUME TypeOK, NEW h \in Handles, Tunnel(h)
  PROVE  TypeOK'
<1>1. h \in DOMAIN flows /\ flows[h] \in Flow
  BY DEF Tunnel, TunnelWrite, TunnelRead, TunnelCloseOut, TunnelCloseIn, TypeOK
<1>2. CASE TunnelWrite(h)
  <2>1. flows[h].outQ \in 0 .. ChannelDepth /\ flows[h].outQ < ChannelDepth
    BY <1>1, <1>2 DEF Flow, TunnelWrite
  <2>2. flows[h].outQ + 1 \in 0 .. ChannelDepth
    BY <2>1, NatConstants
  <2>3. [flows[h] EXCEPT !.outQ = @ + 1] \in Flow
    BY <1>1, <2>2 DEF Flow
  <2> QED
    BY <1>1, <1>2, <2>3, ChannelStepType DEF TunnelWrite
<1>3. CASE TunnelRead(h)
  <2>1. flows[h].inQ \in 0 .. ChannelDepth /\ flows[h].inQ > 0
    BY <1>1, <1>3 DEF Flow, TunnelRead
  <2>2. flows[h].inQ - 1 \in 0 .. ChannelDepth
    BY <2>1, NatConstants
  <2>3. [flows[h] EXCEPT !.inQ = @ - 1] \in Flow
    BY <1>1, <2>2 DEF Flow
  <2> QED
    BY <1>1, <1>3, <2>3, ChannelStepType DEF TunnelRead
<1>4. CASE TunnelCloseOut(h)
  <2>1. [flows[h] EXCEPT !.outClosed = TRUE] \in Flow
    BY <1>1 DEF Flow
  <2> QED
    BY <1>1, <1>4, <2>1, ChannelStepType DEF TunnelCloseOut
<1>5. CASE TunnelCloseIn(h)
  <2>1. 0 \in 0 .. ChannelDepth
    BY NatConstants
  <2>2. [flows[h] EXCEPT !.inClosed = TRUE, !.inQ = 0] \in Flow
    BY <1>1, <2>1 DEF Flow
  <2> QED
    BY <1>1, <1>5, <2>2, ChannelStepType DEF TunnelCloseIn
<1> QED
  BY <1>2, <1>3, <1>4, <1>5 DEF Tunnel

(* Every step keeps the types.                                             *)
LEMMA NextTypeOK == IInv /\ [Next]_vars => TypeOK'
<1>1. BusyTasks \subseteq Handles
  BY StackCoreAssumption
<1>2. TypeOK /\ UNCHANGED vars => TypeOK'
  BY DEF TypeOK, vars
<1> QED
  BY <1>1, <1>2, IngestType, TickType, StepType, NetworkType, TunnelType DEF Next, IInv

-----------------------------------------------------------------------------
(* The rest of the invariant.                                              *)
LEMMA InitInv == Init => IInv
<1> SUFFICES ASSUME Init PROVE IInv
  OBVIOUS
<1>1. TypeOK
  BY InitTypeOK
<1>2. \A h \in Handles : HandleInv(h)
  BY DEF Init, FreeSocket, HandleInv, SocketInv
<1>3. SocketsOwned /\ ArmedIffPending
  BY DEF Init, FreeSocket, SocketsOwned, ArmedIffPending
<1> QED
  BY <1>1, <1>2, <1>3 DEF IInv

(* What an action leaves untouched: as long as the maps keep their domains *)
(* and no socket appears or disappears, only HandleInv is at stake.        *)
LEMMA OwnersKept ==
  ASSUME IInv, TypeOK',
         DOMAIN pending' = DOMAIN pending, DOMAIN flows' = DOMAIN flows, armed' = armed,
         \A h \in DOMAIN pending : pending'[h].tuple = pending[h].tuple,
         \A h \in Handles : sockets'[h].st = "Free" <=> sockets[h].st = "Free",
         \A h \in Handles : HandleInv(h)'
  PROVE  IInv'
<1>1. SocketsOwned'
  BY DEF IInv, SocketsOwned
<1>2. ArmedIffPending'
  BY DEF IInv, ArmedIffPending
<1> QED
  BY <1>1, <1>2 DEF IInv

(* A step that touches one handle is judged at that handle.                *)
LEMMA OneHandle ==
  ASSUME IInv, TypeOK', NEW h \in Handles,
         pending' = pending, armed' = armed, DOMAIN flows' = DOMAIN flows,
         \A k \in Handles \ {h} : sockets'[k] = sockets[k],
         \A k \in DOMAIN flows \ {h} : flows'[k] = flows[k],
         sockets'[h].st = "Free" <=> sockets[h].st = "Free",
         HandleInv(h)'
  PROVE  IInv'
<1>1. ASSUME NEW k \in Handles \ {h} PROVE HandleInv(k)'
  BY <1>1 DEF IInv, HandleInv
<1> QED
  BY <1>1, OwnersKept

(* A step of one socket that stays in use.                                 *)
LEMMA SocketStepInv ==
  ASSUME IInv, TypeOK', NEW h \in Handles, NEW s \in Socket, SocketStep(h, s),
         sockets[h].st # "Free", s.st # "Free", SocketInv(s),
         h \in DOMAIN pending => s.st \in PendingStates,
         h \in DOMAIN flows => FlowInv(s, flows[h])
  PROVE  IInv'
<1>1. sockets'[h] = s /\ \A k \in Handles \ {h} : sockets'[k] = sockets[k]
  BY DEF SocketStep, IInv, TypeOK
<1>2. HandleInv(h)'
  BY <1>1 DEF SocketStep, HandleInv
<1> QED
  BY <1>1, <1>2, OneHandle DEF SocketStep

(* A step of one flow's channels.                                          *)
LEMMA ChannelStepInv ==
  ASSUME IInv, TypeOK', NEW h \in DOMAIN flows, NEW f \in Flow, ChannelStep(h, f),
         FlowInv(sockets[h], f)
  PROVE  IInv'
<1>1. h \in Handles
  BY DEF IInv, TypeOK
<1>2. /\ DOMAIN flows' = DOMAIN flows /\ flows'[h] = f
      /\ \A k \in DOMAIN flows \ {h} : flows'[k] = flows[k]
  BY DEF ChannelStep, IInv, TypeOK
<1>3. HandleInv(h)'
  BY <1>1, <1>2 DEF ChannelStep, HandleInv, IInv
<1> QED
  BY <1>1, <1>2, <1>3, OneHandle DEF ChannelStep

(* The transitions of the TCP state machine out of the data states.        *)
LEMMA TransitionInv ==
  ASSUME IInv, TypeOK', NEW h \in Handles, NEW st \in TcpState, NEW a \in {0, sockets[h].heard},
         SocketStep(h, [sockets[h] EXCEPT !.st = st, !.heard = a]),
         LET s == sockets[h] IN
             \/ s.st \in {"SynReceived", "Established"} /\ st = "CloseWait"
             \/ s.st = "FinWait1" /\ st = "Closing"
             \/ s.st = "FinWait1" /\ st = "FinWait2" /\ s.tx = 0
             \/ s.st = "FinWait2" /\ st = "TimeWait"
             \/ s.st = "Closing" /\ st = "TimeWait" /\ s.tx = 0
             \/ s.st = "LastAck" /\ st = "Closed" /\ s.tx = 0
             \/ s.st = "TimeWait" /\ st = "Closed"
  PROVE  IInv'
<1> DEFINE s == sockets[h]
           n == [s EXCEPT !.st = st, !.heard = a]
<1> USE DEF HandleInv, SocketInv, FlowInv, FlowStates, PendingStates, PostFin, Ended,
            HandedOver, MayRecv, TcpState
<1>1. s \in Socket /\ HandleInv(h)
  BY DEF IInv, TypeOK
<1>2. n \in Socket
  BY <1>1, MaxAgeIsNat DEF Socket
<1>3. /\ n.st = st /\ n.rx = s.rx /\ n.tx = s.tx /\ n.killed = s.killed
      /\ n.remote = s.remote /\ n.dst = s.dst
  BY <1>1 DEF Socket
<1>4. SocketInv(n) /\ n.st # "Free" /\ s.st # "Free"
  BY <1>1, <1>3
<1>5. h \in DOMAIN pending => n.st \in PendingStates
  BY <1>1, <1>3
<1>6. h \in DOMAIN flows => FlowInv(n, flows[h])
  BY <1>1, <1>3
<1>7. SocketStep(h, n)
  OBVIOUS
<1> HIDE DEF n
<1> QED
  BY <1>1, <1>2, <1>4, <1>5, <1>6, <1>7, SocketStepInv

(* A reset leaves the socket to be found by the next poll.                 *)
LEMMA AbortInv ==
  ASSUME IInv, TypeOK', NEW h \in Handles, SocketStep(h, AbortSocket(sockets[h])),
         sockets[h].st \notin {"Free", "Listen"}
  PROVE  IInv'
<1> DEFINE s == sockets[h]
           n == AbortSocket(s)
<1>1. s \in Socket /\ n \in Socket /\ HandleInv(h)
  BY AbortSocketType DEF IInv, TypeOK
<1>2. /\ n.st = "Closed" /\ n.killed /\ n.rx = s.rx
      /\ n.remote = s.remote /\ n.dst = s.dst
  BY <1>1 DEF Socket, AbortSocket
<1>3. SocketInv(n) /\ n.st # "Free" /\ n.st \in PendingStates
  BY <1>1, <1>2 DEF HandleInv, SocketInv, PendingStates
<1>4. h \in DOMAIN flows => FlowInv(n, flows[h])
  BY <1>1, <1>2 DEF HandleInv, FlowInv, FlowStates, PostFin, Ended, MayRecv, TcpState
<1> HIDE DEF n
<1> QED
  BY <1>1, <1>3, <1>4, SocketStepInv DEF n

(* Segments that arrive and segments that are sent.                        *)
LEMMA NetworkInv ==
  ASSUME IInv, TypeOK', NEW h \in Handles, Network(h)
  PROVE  IInv'
<1> DEFINE s == sockets[h]
<1>1. s \in Socket /\ HandleInv(h)
  BY DEF IInv, TypeOK
<1>2. CASE HandshakeAck(h)
  <2> DEFINE n == [s EXCEPT !.st = "Established", !.heard = 0]
  <2>1. n \in Socket /\ n.st # "Free" /\ s.st # "Free" /\ SocketInv(n)
    BY <1>1, <1>2, MaxAgeIsNat DEF HandshakeAck, HandleInv, SocketInv, Socket, TcpState
  <2>2. h \notin DOMAIN flows /\ n.st \in PendingStates
    BY <1>1, <1>2 DEF HandshakeAck, HandleInv, FlowInv, FlowStates, PendingStates, Socket
  <2> QED
    BY <1>2, <2>1, <2>2, SocketStepInv DEF HandshakeAck
<1> USE DEF HandleInv, SocketInv, FlowInv, FlowStates, PendingStates, PostFin, Ended,
            HandedOver, MayRecv, TcpState
<1>3. CASE PeerData(h)
  <2> DEFINE n == [s EXCEPT !.rx = @ + 1]
  <2>1. s.rx \in 0 .. RxCap /\ s.rx < RxCap
    BY <1>1, <1>3 DEF Socket, PeerData
  <2>2. s.rx + 1 \in 0 .. RxCap
    BY <2>1, NatConstants
  <2>3. n \in Socket
    BY <1>1, <2>2 DEF Socket
  <2>4. /\ s.st \in {"Established", "FinWait1", "FinWait2"}
        /\ n.st = s.st /\ n.tx = s.tx /\ n.killed = s.killed
        /\ n.remote = s.remote /\ n.dst = s.dst
    BY <1>1, <1>3 DEF PeerData, Socket
  <2>5. SocketInv(n) /\ n.st # "Free" /\ s.st # "Free"
    BY <1>1, <2>4
  <2>6. h \in DOMAIN flows => FlowInv(n, flows[h])
    BY <1>1, <2>4
  <2> QED
    BY <1>1, <1>3, <2>3, <2>4, <2>5, <2>6, SocketStepInv DEF PeerData
<1>4. CASE PeerAck(h)
  <2> DEFINE n == [s EXCEPT !.tx = @ - 1, !.heard = 0]
  <2>1. s.tx \in 0 .. TxCap /\ s.tx > 0
    BY <1>1, <1>4 DEF Socket, PeerAck
  <2>2. s.tx - 1 \in 0 .. TxCap
    BY <2>1, NatConstants
  <2>3. n \in Socket
    BY <1>1, <2>2, MaxAgeIsNat DEF Socket
  <2>4. /\ s.st \in {"Established", "CloseWait", "FinWait1", "Closing", "LastAck"}
        /\ n.st = s.st /\ n.rx = s.rx /\ n.killed = s.killed
        /\ n.remote = s.remote /\ n.dst = s.dst
    BY <1>1, <1>4 DEF PeerAck, Socket
  <2>5. SocketInv(n) /\ n.st # "Free" /\ s.st # "Free"
    BY <1>1, <2>4
  <2>6. h \in DOMAIN flows => FlowInv(n, flows[h])
    BY <1>1, <2>4
  <2> QED
    BY <1>1, <1>4, <2>3, <2>4, <2>5, <2>6, SocketStepInv DEF PeerAck
<1>5. \A st \in TcpState : [s EXCEPT !.st = st] = [s EXCEPT !.st = st, !.heard = s.heard]
  BY <1>1 DEF Socket
<1>6. CASE PeerFin(h)
  BY <1>1, <1>5, <1>6, TransitionInv DEF PeerFin, Socket
<1>7. CASE AckOfFin(h)
  BY <1>1, <1>5, <1>7, TransitionInv DEF AckOfFin, Socket
<1>8. ASSUME s.st = "SynReceived", SocketStep(h, [s EXCEPT !.st = "Listen", !.remote = NoTuple])
      PROVE  IInv'
  <2> DEFINE n == [s EXCEPT !.st = "Listen", !.remote = NoTuple]
  <2>1. n \in Socket /\ n.st = "Listen"
    BY <1>1 DEF Socket
  <2>2. h \notin DOMAIN flows
    BY <1>1, <1>8
  <2> QED
    BY <1>8, <2>1, <2>2, SocketStepInv
<1>9. CASE PeerRst(h)
  BY <1>8, <1>9, AbortInv DEF PeerRst
<1> QED
  BY <1>2, <1>3, <1>4, <1>6, <1>7, <1>9 DEF Network

(* The timers of one socket.                                               *)
LEMMA TimerInv ==
  ASSUME IInv, TypeOK', NEW h \in Handles, TimerFires(h)
  PROVE  IInv'
<1>1. sockets[h] \in Socket
  BY DEF IInv, TypeOK
<1>2. CASE sockets[h].st = "TimeWait"
  <2>1. [sockets[h] EXCEPT !.st = "Closed"]
            = [sockets[h] EXCEPT !.st = "Closed", !.heard = sockets[h].heard]
    BY <1>1 DEF Socket
  <2> QED
    BY <1>2, <2>1, TransitionInv DEF TimerFires, TcpState
<1>3. CASE sockets[h].st = "SynReceived"
  BY <1>3, AbortInv DEF TimerFires
<1> QED
  BY <1>2, <1>3 DEF TimerFires, TimerDue

(* Reads, writes and ends of the tunnel's side.                            *)
LEMMA TunnelInv ==
  ASSUME IInv, TypeOK', NEW h \in Handles, Tunnel(h)
  PROVE  IInv'
<1> USE DEF FlowInv, HandedOver, Flow
<1>1. h \in DOMAIN flows /\ flows[h] \in Flow /\ FlowInv(sockets[h], flows[h])
  BY DEF Tunnel, TunnelWrite, TunnelRead, TunnelCloseOut, TunnelCloseIn, IInv, TypeOK, HandleInv
<1>2. CASE TunnelWrite(h)
  <2> DEFINE f == [flows[h] EXCEPT !.outQ = @ + 1]
  <2>1. flows[h].outQ \in 0 .. ChannelDepth /\ flows[h].outQ < ChannelDepth
    BY <1>1, <1>2 DEF TunnelWrite
  <2>2. flows[h].outQ + 1 \in 0 .. ChannelDepth
    BY <2>1, NatConstants
  <2>3. f \in Flow
    BY <1>1, <2>2
  <2>4. ~flows[h].outClosed /\ ChannelStep(h, f)
    BY <1>2 DEF TunnelWrite
  <2>5. FlowInv(sockets[h], f)
    BY <1>1, <2>4
  <2> QED
    BY <1>1, <2>3, <2>4, <2>5, ChannelStepInv
<1>3. CASE TunnelRead(h)
  <2> DEFINE f == [flows[h] EXCEPT !.inQ = @ - 1]
  <2>1. flows[h].inQ \in 0 .. ChannelDepth /\ flows[h].inQ > 0
    BY <1>1, <1>3 DEF TunnelRead
  <2>2. flows[h].inQ - 1 \in 0 .. ChannelDepth
    BY <2>1, NatConstants
  <2>3. f \in Flow
    BY <1>1, <2>2
  <2>4. FlowInv(sockets[h], f)
    BY <1>1
  <2> QED
    BY <1>1, <1>3, <2>3, <2>4, ChannelStepInv DEF TunnelRead
<1>4. CASE TunnelCloseOut(h)
  <2> DEFINE f == [flows[h] EXCEPT !.outClosed = TRUE]
  <2>1. f \in Flow /\ FlowInv(sockets[h], f)
    BY <1>1
  <2> QED
    BY <1>1, <1>4, <2>1, ChannelStepInv DEF TunnelCloseOut
<1>5. CASE TunnelCloseIn(h)
  <2> DEFINE f == [flows[h] EXCEPT !.inClosed = TRUE, !.inQ = 0]
  <2>1. 0 \in 0 .. ChannelDepth
    BY NatConstants
  <2>2. f \in Flow
    BY <1>1, <2>1
  <2>3. FlowInv(sockets[h], f)
    BY <1>1, <1>5 DEF TunnelCloseIn
  <2> QED
    BY <1>1, <1>5, <2>2, <2>3, ChannelStepInv DEF TunnelCloseIn
<1> QED
  BY <1>2, <1>3, <1>4, <1>5 DEF Tunnel

(* A SYN arms a listener of its own, under a handle of its own.            *)
LEMMA IngestInv ==
  ASSUME IInv, TypeOK', Ingest
  PROVE  IInv'
<1>0. PICK t \in Tuple : \/ IngestRetransmit(t) \/ IngestDropped(t)
                        \/ \E h \in Handles : IngestNew(t, h)
  BY DEF Ingest
<1>1. CASE UNCHANGED <<sockets, armed, pending, flows>>
  BY <1>1 DEF IInv, HandleInv, SocketsOwned, ArmedIffPending
<1>2. ASSUME NEW h \in Handles, IngestNew(t, h), t[2] \notin BadDsts
      PROVE  IInv'
  <2> DEFINE s == [FreeSocket EXCEPT !.st = "Listen", !.dst = t[2]]
  <2>1. /\ sockets[h].st = "Free" /\ t \notin armed
        /\ armed' = armed \cup {t} /\ flows' = flows
        /\ sockets' = [sockets EXCEPT ![h] = s]
        /\ pending' = [k \in DOMAIN pending \cup {h} |->
                          IF k = h THEN [tuple |-> t, injected |-> sinceStep] ELSE pending[k]]
    BY <1>2 DEF IngestNew
  <2>2. s.st = "Listen"
    BY DEF FreeSocket
  <2>3. sockets'[h] = s /\ \A k \in Handles \ {h} : sockets'[k] = sockets[k]
    BY <2>1 DEF IInv, TypeOK
  <2> HIDE DEF s
  <2>4. h \notin DOMAIN pending /\ h \notin DOMAIN flows
    BY <2>1 DEF IInv, SocketsOwned
  <2>5. ASSUME NEW k \in Handles PROVE HandleInv(k)'
    <3>1. CASE k = h
      BY <2>1, <2>2, <2>3, <2>4, <3>1 DEF HandleInv, SocketInv, PendingStates
    <3>2. CASE k # h
      BY <2>1, <2>3, <3>2 DEF IInv, HandleInv
    <3> QED
      BY <3>1, <3>2
  <2>6. SocketsOwned'
    BY <2>1, <2>2, <2>3, <2>4 DEF IInv, SocketsOwned
  <2>7. ArmedIffPending'
    <3>1. \A k \in DOMAIN pending : pending'[k].tuple = pending[k].tuple /\ pending[k].tuple # t
      BY <2>1, <2>4 DEF IInv, ArmedIffPending
    <3>2. pending'[h].tuple = t /\ DOMAIN pending' = DOMAIN pending \cup {h}
      BY <2>1
    <3> QED
      BY ZenonT(40), <2>1, <3>1, <3>2 DEF IInv, ArmedIffPending
  <2> QED
    BY <2>5, <2>6, <2>7 DEF IInv
<1> QED
  BY <1>0, <1>1, <1>2 DEF IngestRetransmit, IngestDropped, IngestNew

(* Ages say nothing of who owns what.                                      *)
LEMMA TickInv ==
  ASSUME IInv, TypeOK', Tick
  PROVE  IInv'
<1> USE DEF IInv, TypeOK
<1>1. /\ DOMAIN pending' = DOMAIN pending /\ DOMAIN flows' = DOMAIN flows /\ armed' = armed
      /\ \A h \in DOMAIN pending : pending'[h].tuple = pending[h].tuple
  BY DEF Tick, PendingRec
<1>2. ASSUME NEW h \in Handles
      PROVE  /\ sockets'[h].st = sockets[h].st /\ sockets'[h].dst = sockets[h].dst
             /\ sockets'[h].remote = sockets[h].remote /\ sockets'[h].rx = sockets[h].rx
             /\ sockets'[h].tx = sockets[h].tx /\ sockets'[h].killed = sockets[h].killed
  <2>1. PICK a : sockets'[h] = [sockets[h] EXCEPT !.heard = a]
    BY DEF Tick
  <2>2. sockets[h] \in Socket
    OBVIOUS
  <2> QED
    BY <2>1, <2>2 DEF Socket
<1>3. ASSUME NEW h \in DOMAIN flows
      PROVE  /\ flows'[h].tuple = flows[h].tuple /\ flows'[h].toStream = flows[h].toStream
             /\ flows'[h].inClosed = flows[h].inClosed /\ flows'[h].outClosed = flows[h].outClosed
             /\ flows'[h].outQ = flows[h].outQ /\ flows'[h].parked = flows[h].parked
             /\ flows[h].winding = Never => flows'[h].winding = Never
  <2>1. Older(Never) = Never
    BY MaxAgeIsNat DEF Older, Never
  <2>2. flows'[h] = [flows[h] EXCEPT !.activity = Older(@), !.winding = Older(@)]
    BY DEF Tick
  <2> QED
    BY <2>1, <2>2 DEF Flow
<1>4. ASSUME NEW h \in Handles PROVE HandleInv(h)'
  BY SMTT(30), <1>1, <1>2, <1>3 DEF HandleInv, SocketInv, FlowInv, Ended, HandedOver, MayRecv
<1> QED
  BY <1>1, <1>2, <1>4, OwnersKept

(* A socket that closes keeps its buffers and its addresses, and stays on  *)
(* the side of MayRecv it was on.                                          *)
LEMMA CloseSocketEffect ==
  ASSUME NEW s \in Socket, s.st \in FlowStates
  PROVE  LET c == CloseSocket(s) IN
           /\ c.rx = s.rx /\ c.tx = s.tx /\ c.killed = s.killed
           /\ c.remote = s.remote /\ c.dst = s.dst
           /\ c.st \in FlowStates
           /\ c.st \in PostFin \/ c.st = s.st
           /\ MayRecv(c) <=> MayRecv(s)
           /\ c.st # s.st => c.st \in {"FinWait1", "LastAck"}
  BY DEF CloseSocket, Socket, FlowStates, TcpState, PostFin, MayRecv

(* Closing a flow's socket is safe once its writer is gone and what it     *)
(* wrote is handed over, or nobody reads any more.                         *)
LEMMA CloseFlowInv ==
  ASSUME NEW s \in Socket, NEW f \in Flow, FlowInv(s, f), SocketInv(s),
         f.outClosed, f.inClosed \/ HandedOver(f)
  PROVE  FlowInv(CloseSocket(s), f) /\ SocketInv(CloseSocket(s)) /\ CloseSocket(s).st # "Free"
<1> DEFINE c == CloseSocket(s)
<1>1. s.st \in FlowStates
  BY DEF FlowInv
<1>2. /\ c.rx = s.rx /\ c.tx = s.tx /\ c.killed = s.killed
      /\ c.remote = s.remote /\ c.dst = s.dst
      /\ c.st \in FlowStates
      /\ c.st \in PostFin \/ c.st = s.st
      /\ MayRecv(c) <=> MayRecv(s)
      /\ c.st # s.st => c.st \in {"FinWait1", "LastAck"}
  BY <1>1, CloseSocketEffect
<1> HIDE DEF c
<1>3. SocketInv(c)
  BY <1>1, <1>2 DEF SocketInv, FlowStates
<1>4. FlowInv(c, f)
  BY <1>2 DEF FlowInv
<1>5. c.st # "Free"
  BY <1>2 DEF FlowStates
<1> QED
  BY <1>3, <1>4, <1>5 DEF c

(* One flow's turn in a pump: only its socket and its record change.       *)
LEMMA FlowStepInv ==
  ASSUME IInv, TypeOK', NEW h \in DOMAIN flows, NEW s, NEW f,
         sockets' = [sockets EXCEPT ![h] = s], flows' = [flows EXCEPT ![h] = f],
         pending' = pending, armed' = armed,
         s.st # "Free", SocketInv(s), FlowInv(s, f)
  PROVE  IInv'
<1>1. h \in Handles /\ h \notin DOMAIN pending /\ sockets[h].st # "Free"
  BY DEF IInv, TypeOK, SocketsOwned
<1>2. /\ sockets'[h] = s /\ \A k \in Handles \ {h} : sockets'[k] = sockets[k]
      /\ flows'[h] = f /\ \A k \in DOMAIN flows \ {h} : flows'[k] = flows[k]
      /\ DOMAIN flows' = DOMAIN flows
  BY <1>1 DEF IInv, TypeOK
<1>3. HandleInv(h)'
  BY <1>1, <1>2 DEF HandleInv
<1> QED
  BY <1>1, <1>2, <1>3, OneHandle

(* pump_flows moves data one way at a time, and ends behind it.            *)
LEMMA PumpIterationInv ==
  ASSUME IInv, TypeOK', NEW h \in Handles, PumpIteration(h)
  PROVE  IInv'
<1> DEFINE s == sockets[h]
           f == flows[h]
<1>0. /\ h \in DOMAIN flows /\ s \in Socket /\ f \in Flow
      /\ SocketInv(s) /\ FlowInv(s, f) /\ pending' = pending /\ armed' = armed
  BY DEF PumpIteration, ResumeParked, SendChunk, SendFin, RecvChunk, IInv, TypeOK, HandleInv
<1>1. ASSUME CanSend(s), NEW tx, NEW g,
             \E q, p : g = [f EXCEPT !.outQ = q, !.parked = p, !.activity = 0],
             sockets' = [sockets EXCEPT ![h] = [s EXCEPT !.tx = tx]],
             flows' = [flows EXCEPT ![h] = g]
      PROVE  IInv'
  <2> DEFINE t == [s EXCEPT !.tx = tx]
  <2>1. /\ s.st \in {"Established", "CloseWait"} /\ t.st = s.st /\ t.rx = s.rx
        /\ t.killed = s.killed /\ t.remote = s.remote /\ t.dst = s.dst
    BY <1>0, <1>1 DEF CanSend, MaySend, Socket
  <2>2. /\ g.tuple = f.tuple /\ g.toStream = f.toStream /\ g.inClosed = f.inClosed
        /\ g.outClosed = f.outClosed /\ g.winding = f.winding
    BY <1>0, <1>1 DEF Flow
  <2>3. SocketInv(t) /\ t.st # "Free"
    BY <1>0, <2>1 DEF SocketInv
  <2>4. FlowInv(t, g)
    BY <1>0, <2>1, <2>2 DEF FlowInv, Ended, PostFin, MayRecv
  <2> HIDE DEF t
  <2> QED
    BY <1>0, <1>1, <2>3, <2>4, FlowStepInv DEF t
<1>2. CASE ResumeParked(h)
  <2> DEFINE n == Taken(f.parked, s)
  <2>1. sockets' = [sockets EXCEPT ![h] = [s EXCEPT !.tx = @ + n]]
    BY <1>2 DEF ResumeParked
  <2>2. flows' = [flows EXCEPT ![h] = [f EXCEPT !.parked = @ - n, !.activity = 0]]
    BY <1>2 DEF ResumeParked
  <2>3. [f EXCEPT !.parked = @ - n, !.activity = 0]
            = [f EXCEPT !.outQ = f.outQ, !.parked = f.parked - n, !.activity = 0]
    BY <1>0 DEF Flow
  <2>4. CanSend(s)
    BY <1>2 DEF ResumeParked
  <2> QED
    BY <1>1, <2>1, <2>2, <2>3, <2>4
<1>3. CASE SendChunk(h)
  <2> DEFINE n == Taken(ChunkLen, s)
  <2>1. sockets' = [sockets EXCEPT ![h] = [s EXCEPT !.tx = @ + n]]
    BY <1>3 DEF SendChunk
  <2>2. flows' = [flows EXCEPT ![h] = [f EXCEPT !.outQ = @ - 1, !.parked = ChunkLen - n,
                                                !.activity = 0]]
    BY <1>3 DEF SendChunk
  <2>3. CanSend(s)
    BY <1>3 DEF SendChunk
  <2> QED
    BY <1>1, <2>1, <2>2, <2>3
<1>4. CASE SendFin(h)
  <2>1. /\ sockets' = [sockets EXCEPT ![h] = CloseSocket(s)]
        /\ flows' = flows /\ f.outClosed /\ f.outQ = 0 /\ f.parked = 0
    BY <1>4 DEF SendFin, Disconnected
  <2>2. flows' = [flows EXCEPT ![h] = f]
    BY <1>0, <2>1 DEF IInv, TypeOK
  <2>3. SocketInv(CloseSocket(s)) /\ CloseSocket(s).st # "Free" /\ FlowInv(CloseSocket(s), f)
    BY <1>0, <2>1, CloseFlowInv DEF HandedOver
  <2> QED
    BY <1>0, <2>1, <2>2, <2>3, FlowStepInv
<1>5. CASE RecvChunk(h)
  <2> DEFINE t == [s EXCEPT !.rx = @ - 1]
             g == [f EXCEPT !.inQ = @ + 1, !.activity = 0]
  <2>1. sockets' = [sockets EXCEPT ![h] = t] /\ flows' = [flows EXCEPT ![h] = g] /\ f.toStream
    BY <1>5 DEF RecvChunk
  <2>2. /\ t.st = s.st /\ t.tx = s.tx
        /\ t.killed = s.killed /\ t.remote = s.remote /\ t.dst = s.dst
    BY <1>0 DEF Socket
  <2>3. /\ g.tuple = f.tuple /\ g.toStream = f.toStream /\ g.inClosed = f.inClosed
        /\ g.outClosed = f.outClosed /\ g.winding = f.winding
        /\ g.outQ = f.outQ /\ g.parked = f.parked
    BY <1>0 DEF Flow
  <2>4. SocketInv(t)
    BY <1>0, <2>2 DEF SocketInv
  <2>5. t.st # "Free"
    BY <1>0, <2>2 DEF FlowInv, FlowStates
  <2>6. FlowInv(t, g)
    BY <1>0, <2>1, <2>2, <2>3 DEF FlowInv, Ended, HandedOver
  <2> HIDE DEF t, g
  <2> QED
    BY <1>0, <2>1, <2>4, <2>5, <2>6, FlowStepInv
<1> QED
  BY <1>2, <1>3, <1>4, <1>5 DEF PumpIteration

(* The phases that rewrite the sockets and flows where they are.           *)
LEMMA AbortExpiredInv == IInv /\ TypeOK' /\ AbortExpiredFlows => IInv'
<1> SUFFICES ASSUME IInv, TypeOK', AbortExpiredFlows PROVE IInv'
  OBVIOUS
<1>1. ASSUME NEW h \in Handles
      PROVE  HandleInv(h)' /\ (sockets'[h].st = "Free" <=> sockets[h].st = "Free")
  <2>1. sockets[h] \in Socket /\ HandleInv(h)
    BY DEF IInv, TypeOK
  <2>2. pending' = pending /\ flows' = flows
    BY DEF AbortExpiredFlows
  <2>3. CASE h \in DOMAIN flows /\ DeadlinePassed(flows[h])
    <3>1. sockets'[h] = AbortSocket(sockets[h])
      BY <2>3 DEF AbortExpiredFlows
    <3>2. /\ sockets'[h].st = "Closed" /\ sockets'[h].killed /\ sockets'[h].rx = sockets[h].rx
          /\ sockets'[h].remote = sockets[h].remote /\ sockets'[h].dst = sockets[h].dst
      BY <2>1, <3>1 DEF Socket, AbortSocket
    <3>3. h \notin DOMAIN pending
      BY <2>3 DEF IInv, SocketsOwned
    <3> QED
      BY <2>1, <2>2, <2>3, <3>2, <3>3 DEF HandleInv, SocketInv, FlowInv, FlowStates, TcpState,
                                         PostFin, Ended, MayRecv
  <2>4. CASE ~(h \in DOMAIN flows /\ DeadlinePassed(flows[h]))
    <3>1. sockets'[h] = sockets[h]
      BY <2>4 DEF AbortExpiredFlows
    <3> QED
      BY <2>1, <2>2, <3>1 DEF HandleInv
  <2> QED
    BY <2>3, <2>4
<1> QED
  BY <1>1, OwnersKept DEF AbortExpiredFlows

(* The disconnection check closes a socket behind all of its data.         *)
LEMMA CheckDisconnectedInv == IInv /\ TypeOK' /\ CheckDisconnected => IInv'
<1> SUFFICES ASSUME IInv, TypeOK', CheckDisconnected PROVE IInv'
  OBVIOUS
<1>0. /\ pending' = pending /\ armed' = armed /\ DOMAIN flows' = DOMAIN flows
  BY DEF CheckDisconnected
<1>1. ASSUME NEW h \in Handles
      PROVE  HandleInv(h)' /\ (sockets'[h].st = "Free" <=> sockets[h].st = "Free")
  <2>1. sockets[h] \in Socket /\ HandleInv(h)
    BY DEF IInv, TypeOK
  <2>2. CASE h \notin DOMAIN flows
    <3>1. sockets'[h] = sockets[h]
      BY <2>2 DEF CheckDisconnected
    <3> QED
      BY <1>0, <2>1, <2>2, <3>1 DEF HandleInv
  <2>3. CASE h \in DOMAIN flows
    <3> DEFINE s == sockets[h]
               f == flows[h]
    <3>0. /\ s \in Socket /\ f \in Flow /\ SocketInv(s) /\ FlowInv(s, f)
          /\ h \notin DOMAIN pending /\ s.st # "Free"
      BY <2>1, <2>3 DEF IInv, TypeOK, HandleInv, SocketsOwned
    <3>1. CASE Finished(f) /\ f.outQ = 0
      <4>1. sockets'[h] = CloseSocket(s) /\ flows'[h] = f
        <5>1. ~(f.outQ > 0)
          BY <3>1
        <5> QED
          BY <2>3, <3>1, <5>1 DEF CheckDisconnected
      <4>2. /\ FlowInv(CloseSocket(s), f) /\ SocketInv(CloseSocket(s))
            /\ CloseSocket(s).st # "Free"
        BY <3>0, <3>1, CloseFlowInv DEF Finished, HandedOver
      <4> QED
        BY <1>0, <3>0, <4>1, <4>2 DEF HandleInv
    <3>2. CASE Finished(f) /\ f.outQ > 0
      <4> DEFINE g == [f EXCEPT !.outQ = @ - 1, !.parked = ChunkLen]
      <4>0. f.outQ # 0
        BY <3>2
      <4>1. sockets'[h] = s /\ flows'[h] = g
        BY <2>3, <3>2, <4>0 DEF CheckDisconnected
      <4>2. /\ g.tuple = f.tuple /\ g.toStream = f.toStream /\ g.inClosed = f.inClosed
            /\ g.outClosed = f.outClosed /\ g.winding = f.winding
        BY <3>0 DEF Flow
      <4>3. FlowInv(s, g)
        BY <3>0, <4>0, <4>2 DEF FlowInv, HandedOver
      <4> QED
        BY <1>0, <3>0, <4>1, <4>3 DEF HandleInv
    <3>3. CASE ~Finished(f)
      <4>1. sockets'[h] = s /\ flows'[h] = f
        BY <2>3, <3>3 DEF CheckDisconnected
      <4> QED
        BY <1>0, <3>0, <4>1 DEF HandleInv
    <3>4. f.outQ = 0 \/ f.outQ > 0
      <4>1. f.outQ \in 0 .. ChannelDepth
        BY <3>0 DEF Flow
      <4> QED
        BY <4>1, NatConstants
    <3> QED
      BY <3>1, <3>2, <3>3, <3>4
  <2> QED
    BY <2>2, <2>3
<1> QED
  BY <1>0, <1>1, OwnersKept

(* A SYN takes a socket that listens on its port.                          *)
LEMMA DeliverSynInv == IInv /\ TypeOK' /\ DeliverSyn => IInv'
<1> SUFFICES ASSUME IInv, TypeOK', DeliverSyn PROVE IInv'
  OBVIOUS
<1>0. pending' = pending /\ flows' = flows /\ armed' = armed
  BY DEF DeliverSyn
<1>1. Head(rxq) \in Tuple
  <2>1. rxq # <<>> /\ rxq \in Seq(Tuple)
    BY DEF DeliverSyn, IInv, TypeOK
  <2> QED
    BY <2>1
<1>2. CASE UNCHANGED sockets
  BY <1>0, <1>2 DEF IInv, HandleInv, SocketsOwned, ArmedIffPending
<1>3. ASSUME NEW h \in Handles, sockets[h].st = "Listen", Accepts(h, Head(rxq)),
             sockets' = [sockets EXCEPT ![h].st = "SynReceived", ![h].remote = Head(rxq),
                                        ![h].heard = 0]
      PROVE  IInv'
  <2> DEFINE n == [sockets[h] EXCEPT !.st = "SynReceived", !.remote = Head(rxq), !.heard = 0]
  <2>1. /\ sockets[h] \in Socket /\ HandleInv(h)
        /\ sockets'[h] = n /\ \A k \in Handles \ {h} : sockets'[k] = sockets[k]
    BY <1>3 DEF IInv, TypeOK
  <2>2. /\ n.st = "SynReceived" /\ n.remote = Head(rxq) /\ n.dst = sockets[h].dst
    BY <2>1 DEF Socket
  <2>3. sockets[h].dst = Head(rxq)[2]
    BY <1>3 DEF Accepts, Bound
  <2>4. h \notin DOMAIN flows
    BY <1>3, <2>1 DEF HandleInv, FlowInv, FlowStates
  <2> HIDE DEF n
  <2>5. HandleInv(h)'
    BY <1>0, <1>1, <2>1, <2>2, <2>3, <2>4 DEF HandleInv, SocketInv, PendingStates
  <2> QED
    BY <1>0, <1>3, <2>1, <2>2, <2>5, OneHandle
<1> QED
  BY <1>2, <1>3 DEF DeliverSyn

(* sweep_stale_listeners takes listener, socket and NAT entry together.    *)
LEMMA SweepInv == IInv /\ TypeOK' /\ SweepStaleListeners => IInv'
<1> SUFFICES ASSUME IInv, TypeOK', SweepStaleListeners PROVE IInv'
  OBVIOUS
<1> DEFINE stale == {h \in DOMAIN pending : ListenerExpired(h)}
<1>1. /\ DOMAIN pending' = DOMAIN pending \ stale
      /\ \A h \in DOMAIN pending \ stale : pending'[h] = pending[h]
      /\ armed' = armed \ {pending[h].tuple : h \in stale}
      /\ flows' = flows
      /\ \A h \in Handles : sockets'[h] = IF h \in stale THEN FreeSocket ELSE sockets[h]
  BY DEF SweepStaleListeners, Without, RemoveSockets
<1>2. stale \subseteq DOMAIN pending
  OBVIOUS
<1> HIDE DEF stale
<1>3. \A h \in stale : h \notin DOMAIN flows
  BY <1>2 DEF IInv, SocketsOwned
<1>4. ASSUME NEW h \in Handles PROVE HandleInv(h)'
  <2>1. CASE h \in stale
    BY <1>1, <1>3, <2>1 DEF HandleInv, SocketInv, FreeSocket
  <2>2. CASE h \notin stale
    BY <1>1, <2>2 DEF IInv, HandleInv
  <2> QED
    BY <2>1, <2>2
<1>5. SocketsOwned'
  BY <1>1, <1>2, <1>3 DEF IInv, SocketsOwned, FreeSocket
<1>6. ArmedIffPending'
  BY <1>1, <1>2 DEF IInv, ArmedIffPending
<1> QED
  BY <1>4, <1>5, <1>6 DEF IInv

(* promote_accepted moves a connection from one map to the other.          *)
LEMMA PromoteInv == IInv /\ TypeOK' /\ PromoteAccepted => IInv'
<1> SUFFICES ASSUME IInv, TypeOK', PromoteAccepted PROVE IInv'
  OBVIOUS
<1> DEFINE ready == {h \in DOMAIN pending : sockets[h].st \notin {"Listen", "SynReceived"}}
           alive == {h \in ready : IsActive(sockets[h])}
<1>1. /\ DOMAIN pending' = DOMAIN pending \ ready
      /\ \A h \in DOMAIN pending \ ready : pending'[h] = pending[h]
  BY DEF PromoteAccepted, Without
<1>2. armed' = armed \ {pending[h].tuple : h \in ready}
  BY DEF PromoteAccepted, Released
<1>3. /\ DOMAIN flows' = DOMAIN flows \cup alive
      /\ \A h \in alive : flows'[h] = NewFlow(sockets[h].remote)
      /\ \A h \in DOMAIN flows \ alive : flows'[h] = flows[h]
  BY DEF PromoteAccepted, Negotiated
<1>4. \A h \in Handles : sockets'[h] = IF h \in ready \ alive THEN FreeSocket ELSE sockets[h]
  BY DEF PromoteAccepted, RemoveSockets
<1>5. ready \subseteq DOMAIN pending /\ alive \subseteq ready
  OBVIOUS
<1>6. \A h \in alive : sockets[h].st \in {"Established", "CloseWait"}
  BY DEF IInv, TypeOK, HandleInv, PendingStates, IsActive
<1> HIDE DEF ready, alive
<1>7. \A h \in DOMAIN pending : h \notin DOMAIN flows /\ sockets[h].st # "Free"
  BY DEF IInv, TypeOK, SocketsOwned
<1>8. ASSUME NEW h \in Handles PROVE HandleInv(h)'
  <2>1. HandleInv(h)
    BY DEF IInv
  <2>2. CASE h \in alive
    <3>1. FlowInv(sockets[h], NewFlow(sockets[h].remote))
      BY <1>6, <2>2 DEF FlowInv, FlowStates, TcpState, NewFlow, Ended, PostFin
    <3> QED
      BY <1>1, <1>3, <1>4, <1>5, <2>1, <2>2, <3>1 DEF HandleInv
  <2>3. CASE h \in ready \ alive
    BY <1>1, <1>3, <1>4, <1>5, <1>7, <2>3 DEF HandleInv, SocketInv, FreeSocket
  <2>4. CASE h \notin ready
    BY <1>1, <1>3, <1>4, <1>5, <2>1, <2>4 DEF HandleInv
  <2> QED
    BY <2>2, <2>3, <2>4
<1>9. SocketsOwned'
  BY <1>1, <1>3, <1>4, <1>5, <1>7 DEF IInv, SocketsOwned, FreeSocket
<1>10. ArmedIffPending'
  BY <1>1, <1>2, <1>5 DEF IInv, ArmedIffPending
<1> QED
  BY <1>8, <1>9, <1>10 DEF IInv

(* A socket whose stream reads no more is closed, and EOF comes last.      *)
LEMMA InboundDoneInv == IInv /\ TypeOK' /\ PumpInboundDone => IInv'
<1> SUFFICES ASSUME IInv, TypeOK', PumpInboundDone PROVE IInv'
  OBVIOUS
<1>0. pending' = pending /\ armed' = armed /\ DOMAIN flows' = DOMAIN flows
  BY DEF PumpInboundDone
<1>1. ASSUME NEW h \in Handles
      PROVE  HandleInv(h)' /\ (sockets'[h].st = "Free" <=> sockets[h].st = "Free")
  <2>1. sockets[h] \in Socket /\ HandleInv(h)
    BY DEF IInv, TypeOK
  <2>2. CASE h \notin DOMAIN flows
    <3>1. sockets'[h] = sockets[h]
      BY <2>2 DEF PumpInboundDone
    <3> QED
      BY <1>0, <2>1, <2>2, <3>1 DEF HandleInv
  <2>3. CASE h \in DOMAIN flows
    <3> DEFINE s == sockets[h]
               f == flows[h]
               b == f.toStream /\ ~ReaderGone(h) /\ MayRecv(s)
               g == [f EXCEPT !.toStream = b]
    <3>0. /\ s \in Socket /\ f \in Flow /\ SocketInv(s) /\ FlowInv(s, f)
          /\ h \notin DOMAIN pending /\ s.st # "Free"
      BY <2>1, <2>3 DEF IInv, TypeOK, HandleInv, SocketsOwned
    <3>1. flows'[h] = g
      BY <2>3 DEF PumpInboundDone
    <3>2. /\ g.tuple = f.tuple /\ g.toStream = b /\ g.inClosed = f.inClosed
          /\ g.outClosed = f.outClosed /\ g.winding = f.winding
          /\ g.outQ = f.outQ /\ g.parked = f.parked
      BY <3>0 DEF Flow
    <3>3. CASE ReaderGone(h)
      <4>1. sockets'[h] = CloseSocket(s)
        BY <2>3, <3>3 DEF PumpInboundDone
      <4>2. f.inClosed /\ f.outClosed
        BY <3>0, <3>3 DEF ReaderGone, FlowInv
      <4>3. /\ FlowInv(CloseSocket(s), f) /\ SocketInv(CloseSocket(s))
            /\ CloseSocket(s).st # "Free"
        BY <3>0, <4>2, CloseFlowInv
      <4>4. FlowInv(CloseSocket(s), g)
        BY <3>2, <4>2, <4>3 DEF FlowInv
      <4> QED
        BY <1>0, <3>0, <3>1, <4>1, <4>3, <4>4 DEF HandleInv
    <3>4. CASE ~ReaderGone(h)
      <4>1. sockets'[h] = s
        BY <2>3, <3>4 DEF PumpInboundDone
      <4>2. FlowInv(s, g)
        BY <3>0, <3>2, <3>4 DEF FlowInv, HandedOver
      <4> QED
        BY <1>0, <3>0, <3>1, <4>1, <4>2 DEF HandleInv
    <3> QED
      BY <3>3, <3>4
  <2> QED
    BY <2>2, <2>3
<1> QED
  BY <1>0, <1>1, OwnersKept

(* observe_flow_states looks at every flow's socket.                       *)
LEMMA ObserveInv == IInv /\ TypeOK' /\ ObserveFlowStates => IInv'
<1> SUFFICES ASSUME IInv, TypeOK', ObserveFlowStates PROVE IInv'
  OBVIOUS
<1>0. /\ pending' = pending /\ armed' = armed /\ sockets' = sockets
      /\ DOMAIN flows' = DOMAIN flows
  BY DEF ObserveFlowStates
<1>1. ASSUME NEW h \in DOMAIN flows PROVE FlowInv(sockets[h], flows'[h])
  <2> DEFINE f == flows[h]
             w == IF AwaitsPeer(sockets[h].st) \/ Orphaned(h)
                  THEN IF f.winding = Never THEN 0 ELSE f.winding
                  ELSE Never
             g == [f EXCEPT !.winding = w]
  <2>1. f \in Flow /\ FlowInv(sockets[h], f)
    BY DEF IInv, TypeOK, HandleInv
  <2>2. flows'[h] = g
    BY DEF ObserveFlowStates
  <2>3. /\ g.tuple = f.tuple /\ g.toStream = f.toStream /\ g.inClosed = f.inClosed
        /\ g.outClosed = f.outClosed /\ g.winding = w
        /\ g.outQ = f.outQ /\ g.parked = f.parked
    BY <2>1 DEF Flow
  <2>4. w # Never => f.outClosed
    BY <2>1 DEF AwaitsPeer, Orphaned, FlowInv, PostFin
  <2> HIDE DEF g, w
  <2> QED
    BY <2>1, <2>2, <2>3, <2>4 DEF FlowInv, HandedOver
<1>2. ASSUME NEW h \in Handles PROVE HandleInv(h)'
  BY <1>0, <1>1 DEF IInv, HandleInv
<1> QED
  BY <1>0, <1>2, OwnersKept

(* reap_closed removes flow and socket together.                           *)
LEMMA ReapInv == IInv /\ TypeOK' /\ ReapClosed => IInv'
<1> SUFFICES ASSUME IInv, TypeOK', ReapClosed PROVE IInv'
  OBVIOUS
<1> DEFINE dead == {h \in DOMAIN flows : sockets[h].st = "Closed"}
<1>1. /\ DOMAIN flows' = DOMAIN flows \ dead
      /\ \A h \in DOMAIN flows \ dead : flows'[h] = flows[h]
      /\ pending' = pending /\ armed' = armed
      /\ \A h \in Handles : sockets'[h] = IF h \in dead THEN FreeSocket ELSE sockets[h]
  BY DEF ReapClosed, Without, RemoveSockets
<1>2. dead \subseteq DOMAIN flows
  OBVIOUS
<1> HIDE DEF dead
<1>3. \A h \in dead : h \notin DOMAIN pending
  BY <1>2 DEF IInv, SocketsOwned
<1>4. ASSUME NEW h \in Handles PROVE HandleInv(h)'
  <2>1. CASE h \in dead
    BY <1>1, <1>3, <2>1 DEF HandleInv, SocketInv, FreeSocket
  <2>2. CASE h \notin dead
    BY <1>1, <2>2 DEF IInv, HandleInv
  <2> QED
    BY <2>1, <2>2
<1>5. SocketsOwned'
  BY <1>1, <1>2, <1>3 DEF IInv, SocketsOwned, FreeSocket
<1>6. ArmedIffPending'
  BY <1>1 DEF IInv, ArmedIffPending
<1> QED
  BY <1>4, <1>5, <1>6 DEF IInv

(* Every phase of a poll keeps the invariant.                              *)
LEMMA StepInv == IInv /\ TypeOK' /\ Step => IInv'
<1> SUFFICES ASSUME IInv, TypeOK', Step PROVE IInv'
  OBVIOUS
<1>1. CASE PumpOutboundDone \/ PollDone
  <2>1. UNCHANGED <<sockets, pending, flows, armed>>
    BY <1>1 DEF PumpOutboundDone, PollDone
  <2> QED
    BY <2>1 DEF IInv, HandleInv, SocketsOwned, ArmedIffPending
<1> QED
  BY <1>1, AbortExpiredInv, PumpIterationInv, CheckDisconnectedInv, DeliverSynInv, TimerInv,
     SweepInv, PromoteInv, InboundDoneInv, ObserveInv, ReapInv DEF Step

(* Every step keeps the invariant.                                         *)
LEMMA NextInv == IInv /\ [Next]_vars => IInv'
<1> SUFFICES ASSUME IInv, [Next]_vars PROVE IInv'
  OBVIOUS
<1>1. TypeOK'
  BY NextTypeOK
<1>2. BusyTasks \subseteq Handles
  BY StackCoreAssumption
<1>3. CASE UNCHANGED vars
  BY <1>3 DEF vars, IInv, TypeOK, HandleInv, SocketsOwned, ArmedIffPending
<1> QED
  BY <1>1, <1>2, <1>3, IngestInv, TickInv, StepInv, NetworkInv, TunnelInv DEF Next

(* The invariant holds in every reachable state.                           *)
THEOREM InductiveInvariant == Spec => []IInv
<1> QED
  BY InitInv, NextInv, PTL DEF Spec

(***************************************************************************)
(* What follows from it.                                                   *)
(***************************************************************************)
(* Every variable keeps its type: no buffer or channel overflows, no age   *)
(* leaves its range.                                                       *)
THEOREM TypeCorrect == Spec => []TypeOK
<1>1. IInv => TypeOK
  BY DEF IInv
<1> QED
  BY <1>1, InductiveInvariant, PTL

(* ingest, sweep_stale_listeners, promote_accepted and reap_closed keep    *)
(* the NAT table, the two maps and the SocketSet in agreement.             *)
THEOREM MapsAgree == Spec => []TablesAgree
<1>1. IInv => TablesAgree
  BY DEF IInv, TablesAgree
<1> QED
  BY <1>1, InductiveInvariant, PTL

(* The engine dials the destination of the connection it was handed, even  *)
(* when another connection's listener took the SYN.                        *)
THEOREM FlowsNeverCrossed == Spec => []FlowIsItsConnection
<1>1. IInv => FlowIsItsConnection
  <2> SUFFICES ASSUME IInv, NEW h \in DOMAIN flows
               PROVE  /\ flows[h].tuple = sockets[h].remote
                      /\ flows[h].tuple[2] = sockets[h].dst
    BY DEF FlowIsItsConnection
  <2>1. h \in Handles
    BY DEF IInv, TypeOK
  <2>2. FlowInv(sockets[h], flows[h]) /\ SocketInv(sockets[h])
    BY <2>1 DEF IInv, HandleInv
  <2> QED
    BY <2>2 DEF FlowInv, SocketInv, FlowStates
<1> QED
  BY <1>1, InductiveInvariant, PTL

(* Neither direction's end of stream overtakes the data before it.         *)
THEOREM EndsFollowData == Spec => []EndAfterData
<1>1. IInv => EndAfterData
  <2> SUFFICES ASSUME IInv, NEW h \in DOMAIN flows
               PROVE  /\ ~flows[h].toStream /\ ~flows[h].inClosed =>
                            /\ sockets[h].rx = 0
                            /\ sockets[h].st \notin {"Established", "FinWait1", "FinWait2"}
                      /\ sockets[h].st \in PostFin /\ ~flows[h].inClosed => HandedOver(flows[h])
    BY DEF EndAfterData, EofAfterData, FinAfterWrites
  <2>1. h \in Handles
    BY DEF IInv, TypeOK
  <2>2. FlowInv(sockets[h], flows[h])
    BY <2>1 DEF IInv, HandleInv
  <2>3. ~MayRecv(sockets[h]) =>
            /\ sockets[h].rx = 0
            /\ sockets[h].st \notin {"Established", "FinWait1", "FinWait2"}
    <3>1. sockets[h].rx \in 0 .. RxCap
      BY <2>1 DEF IInv, TypeOK, Socket
    <3>2. ~(sockets[h].rx > 0) => sockets[h].rx = 0
      BY <3>1, NatConstants
    <3> QED
      BY <3>2 DEF MayRecv
  <2> QED
    BY <2>2, <2>3 DEF FlowInv, Ended
<1> QED
  BY <1>1, InductiveInvariant, PTL

(* The stack resets a connection only when its tunnel task is done with it:*)
(* winding_down_since is set on no other flow.                             *)
THEOREM ResetsAreJustified == Spec => OnlyFinishedFlowsAborted
<1>1. ASSUME IInv, [Next]_vars, NEW h \in Handles, Aborted(h) PROVE flows[h].outClosed
  <2>1. phase = "idle" /\ h \in DOMAIN flows /\ sockets'[h].st # sockets[h].st
    BY <1>1 DEF Aborted
  <2>2. sockets[h] \in Socket /\ flows[h] \in Flow /\ FlowInv(sockets[h], flows[h])
    BY <1>1, <2>1 DEF IInv, TypeOK, HandleInv
  <2>3. CASE AbortExpiredFlows
    <3>1. DeadlinePassed(flows[h])
      BY <2>1, <2>3 DEF AbortExpiredFlows
    <3> QED
      BY <2>2, <3>1 DEF DeadlinePassed, FlowInv
  <2>4. ~Ingest
    <3>1. ASSUME NEW t \in Tuple, NEW k \in Handles, IngestNew(t, k) PROVE FALSE
      <4>1. k # h
        BY <2>1, <2>2, <3>1 DEF IngestNew, FlowInv, FlowStates
      <4>2. sockets' = sockets \/ \E s : sockets' = [sockets EXCEPT ![k] = s]
        BY <3>1 DEF IngestNew
      <4>3. sockets \in [Handles -> Socket]
        BY <1>1 DEF IInv, TypeOK
      <4> QED
        BY <2>1, <4>1, <4>2, <4>3
    <3> QED
      BY <2>1, <3>1 DEF Ingest, IngestRetransmit, IngestDropped
  <2>5. ~Tick
    <3> SUFFICES ASSUME Tick PROVE FALSE
      OBVIOUS
    <3>1. PICK a : sockets'[h] = [sockets[h] EXCEPT !.heard = a]
      BY DEF Tick
    <3>2. sockets'[h].st = sockets[h].st
      BY <2>2, <3>1 DEF Socket
    <3> QED
      BY <2>1, <3>2
  <2>6. Step => AbortExpiredFlows
    BY <2>1 DEF Step, PumpIteration, ResumeParked, SendChunk, SendFin, RecvChunk,
         PumpOutboundDone, CheckDisconnected, DeliverSyn, TimerFires, SocketStep, PollDone,
         SweepStaleListeners, PromoteAccepted, PumpInboundDone, ObserveFlowStates, ReapClosed
  <2>7. \A k \in Handles : ~Network(k)
    BY <2>1 DEF Network, HandshakeAck, PeerData, PeerAck, PeerFin, AckOfFin, PeerRst, SocketStep
  <2>8. \A k : ~Tunnel(k)
    BY <2>1 DEF Tunnel, TunnelWrite, TunnelRead, TunnelCloseOut, TunnelCloseIn, ChannelStep
  <2> QED
    BY <1>1, <2>1, <2>3, <2>4, <2>5, <2>6, <2>7, <2>8 DEF Next, vars
<1>2. IInv /\ [Next]_vars => [\A h \in Handles : Aborted(h) => flows[h].outClosed]_vars
  BY <1>1
<1> QED
  BY <1>2, InductiveInvariant, PTL DEF Spec, OnlyFinishedFlowsAborted

(* A connection that ends without a reset, and whose tunnel task read to   *)
(* the end, has delivered every byte: reap_closed discards nothing.        *)
THEOREM GracefulEndsAreClean == Spec => GracefulEndLosesNothing
<1>1. ASSUME IInv, [Next]_vars, NEW h \in DOMAIN flows \ DOMAIN flows',
             ~sockets[h].killed, ~flows[h].inClosed
      PROVE  HandedOver(flows[h]) /\ sockets[h].tx = 0
  <2>1. h \in Handles
    BY <1>1 DEF IInv, TypeOK
  <2>2. FlowInv(sockets[h], flows[h]) /\ SocketInv(sockets[h])
    BY <1>1, <2>1 DEF IInv, HandleInv
  <2>3. CASE ReapClosed
    <3>1. sockets[h].st = "Closed"
      BY <1>1, <2>3 DEF ReapClosed, Without
    <3> QED
      BY <1>1, <2>2, <3>1 DEF FlowInv, SocketInv, Ended
  <2>4. ASSUME ~ReapClosed PROVE DOMAIN flows \subseteq DOMAIN flows'
    <3>1. CASE Ingest \/ Tick \/ UNCHANGED vars
      BY <3>1 DEF Ingest, IngestRetransmit, IngestDropped, IngestNew, Tick, vars
    <3>2. CASE Step
      <4>1. ASSUME NEW k \in Handles, PumpIteration(k) PROVE DOMAIN flows' = DOMAIN flows
        BY <4>1 DEF PumpIteration, ResumeParked, SendChunk, SendFin, RecvChunk
      <4>2. CASE PromoteAccepted
        BY <4>2 DEF PromoteAccepted
      <4>3. CASE CheckDisconnected \/ PumpInboundDone \/ ObserveFlowStates
        BY <4>3 DEF CheckDisconnected, PumpInboundDone, ObserveFlowStates
      <4> QED
        BY <2>4, <3>2, <4>1, <4>2, <4>3 DEF Step, AbortExpiredFlows, PumpOutboundDone,
             DeliverSyn, TimerFires, SocketStep, PollDone, SweepStaleListeners
    <3>3. CASE \E k \in Handles : Network(k)
      BY <3>3 DEF Network, HandshakeAck, PeerData, PeerAck, PeerFin, AckOfFin, PeerRst, SocketStep
    <3>4. CASE \E k \in BusyTasks : Tunnel(k)
      BY <3>4 DEF Tunnel, TunnelWrite, TunnelRead, TunnelCloseOut, TunnelCloseIn, ChannelStep
    <3> QED
      BY <1>1, <3>1, <3>2, <3>3, <3>4 DEF Next
  <2> QED
    BY <1>1, <2>3, <2>4
<1>2. IInv /\ [Next]_vars =>
        [\A h \in DOMAIN flows \ DOMAIN flows' :
            ~sockets[h].killed /\ ~flows[h].inClosed
                => HandedOver(flows[h]) /\ sockets[h].tx = 0]_vars
  BY <1>1
<1> QED
  BY <1>2, InductiveInvariant, PTL DEF Spec, GracefulEndLosesNothing

(***************************************************************************)
(* No deadline is overdue after a step.  The clock stands still inside one *)
(* and a new timer starts at zero, so a flow is overdue only if the step   *)
(* found it so: then it was aborted first, and the last phase reaps it.    *)
(* The sweep follows the poll because an RST makes listeners of sockets    *)
(* that have long been injected; no later phase does.                      *)
(***************************************************************************)
AfterSweep == {"promote", "inbound", "observe", "reap"}
Calm(s, f) == DeadlinePassed(f) => s.st = "Closed"
OnTime ==
    /\ phase # "idle" => \A h \in DOMAIN flows : Calm(sockets[h], flows[h])
    /\ phase \in AfterSweep => \A h \in DOMAIN pending : ~ListenerExpired(h)
    /\ NoOverdueDeadline

(* A flow with a timer that starts now, or none, is not overdue.           *)
LEMMA FreshTimer ==
  ASSUME NEW f \in Flow, f.activity = 0 \/ f.winding \in {0, Never}
  PROVE  ~DeadlinePassed(f)
<1>1. f.activity \in Nat /\ f.winding \in Nat \cup {Never}
  BY MaxAgeIsNat DEF Flow, Age
<1>2. ShutdownTimeout \in Nat \ {0}
  BY StackCoreAssumption
<1> QED
  BY <1>1, <1>2 DEF DeadlinePassed, Lesser, Never

(* Within a step: sockets that were closed stay so, timers restart or are  *)
(* left alone, and no listener appears once the old ones were swept.       *)
LEMMA WithinStep ==
  ASSUME IInv, TypeOK', OnTime, phase # "idle", phase' # "idle",
         \A h \in DOMAIN flows' :
            \/ flows'[h].activity = 0 \/ flows'[h].winding \in {0, Never}
            \/ /\ h \in DOMAIN flows
               /\ flows'[h].activity = flows[h].activity
               /\ flows'[h].winding = flows[h].winding
               /\ sockets[h].st = "Closed" => sockets'[h].st = "Closed",
         phase' \in AfterSweep => phase \in AfterSweep,
         phase' \in AfterSweep =>
            \A h \in DOMAIN pending' : /\ h \in DOMAIN pending /\ pending'[h] = pending[h]
                                       /\ sockets'[h].st = "Listen" => sockets[h].st = "Listen"
  PROVE  OnTime'
<1>1. ASSUME NEW h \in DOMAIN flows' PROVE Calm(sockets'[h], flows'[h])
  <2>0. flows'[h] \in Flow
    BY DEF TypeOK
  <2>1. CASE flows'[h].activity = 0 \/ flows'[h].winding \in {0, Never}
    BY <2>0, <2>1, FreshTimer DEF Calm
  <2>2. CASE /\ h \in DOMAIN flows
             /\ flows'[h].activity = flows[h].activity
             /\ flows'[h].winding = flows[h].winding
             /\ sockets[h].st = "Closed" => sockets'[h].st = "Closed"
    BY <2>2 DEF OnTime, Calm, DeadlinePassed
  <2> QED
    BY <2>1, <2>2
<1>2. ASSUME phase' \in AfterSweep, NEW h \in DOMAIN pending' PROVE ~ListenerExpired(h)'
  BY <1>2 DEF OnTime, ListenerExpired
<1> QED
  BY <1>1, <1>2 DEF OnTime, NoOverdueDeadline

(* tcp::Socket::close never opens a closed socket, nor makes a listener.   *)
LEMMA CloseKeepsClosed ==
  ASSUME NEW s \in Socket
  PROVE  /\ s.st = "Closed" => CloseSocket(s).st = "Closed"
         /\ CloseSocket(s).st = "Listen" => s.st = "Listen"
  BY DEF CloseSocket, Socket

(* A step that changes one socket while smoltcp polls.                     *)
LEMMA PollOnTime ==
  ASSUME IInv, TypeOK', OnTime, NEW h \in Handles, NEW s, SocketStep(h, s),
         sockets[h].st # "Closed" \/ s.st = "Closed"
  PROVE  OnTime'
<1>1. /\ flows' = flows /\ phase = "poll" /\ phase' = "poll"
      /\ \A k \in Handles : sockets[k].st = "Closed" => sockets'[k].st = "Closed"
  BY DEF SocketStep, IInv, TypeOK
<1>2. DOMAIN flows \subseteq Handles
  BY DEF IInv, TypeOK
<1> QED
  BY <1>1, <1>2, WithinStep DEF AfterSweep

(* The applications' packets and smoltcp's timers reopen nothing.          *)
LEMMA NetworkOnTime ==
  ASSUME IInv, TypeOK', OnTime, NEW h \in Handles, Network(h) \/ TimerFires(h)
  PROVE  OnTime'
<1> sockets[h] \in Socket
  BY DEF IInv, TypeOK
<1>1. CASE HandshakeAck(h)
  BY <1>1, PollOnTime DEF HandshakeAck
<1>2. CASE PeerData(h)
  BY <1>2, PollOnTime DEF PeerData
<1>3. CASE PeerAck(h)
  BY <1>3, PollOnTime DEF PeerAck
<1>4. CASE PeerFin(h)
  BY <1>4, PollOnTime DEF PeerFin
<1>5. CASE AckOfFin(h)
  BY <1>5, PollOnTime DEF AckOfFin
<1>6. CASE PeerRst(h)
  BY <1>6, PollOnTime DEF PeerRst
<1>7. CASE TimerFires(h)
  BY <1>7, PollOnTime DEF TimerFires, TimerDue
<1> QED
  BY <1>1, <1>2, <1>3, <1>4, <1>5, <1>6, <1>7 DEF Network

(* The pumps move data of live flows; every move restarts a timer.         *)
LEMMA PumpOnTime ==
  ASSUME IInv, TypeOK', OnTime, NEW h \in Handles, PumpIteration(h)
  PROVE  OnTime'
<1>0. /\ DOMAIN flows \subseteq Handles /\ sockets \in [Handles -> Socket]
      /\ flows \in [DOMAIN flows -> Flow]
  BY DEF IInv, TypeOK
<1>1. /\ phase' = phase /\ phase # "idle" /\ pending' = pending /\ h \in DOMAIN flows
      /\ h \notin DOMAIN pending
  BY DEF PumpIteration, ResumeParked, SendChunk, SendFin, RecvChunk, IInv, SocketsOwned
<1>2. ASSUME NEW s, NEW f, sockets' = [sockets EXCEPT ![h] = s], flows' = [flows EXCEPT ![h] = f],
             f.activity = 0 \/ (f = flows[h] /\ sockets[h].st # "Closed")
      PROVE  OnTime'
  <2>1. DOMAIN flows' = DOMAIN flows /\ flows'[h] = f
    BY <1>0, <1>1, <1>2
  <2>2. \A k \in Handles \ {h} : sockets'[k] = sockets[k]
    BY <1>0, <1>2
  <2>3. \A k \in DOMAIN flows \ {h} : flows'[k] = flows[k]
    BY <1>0, <1>2
  <2>4. DOMAIN pending \subseteq Handles
    BY DEF IInv, TypeOK
  <2> QED
    BY <1>0, <1>1, <1>2, <2>1, <2>2, <2>3, <2>4, WithinStep
<1>3. CASE ResumeParked(h)
  <2> DEFINE n == Taken(flows[h].parked, sockets[h])
             s == [sockets[h] EXCEPT !.tx = @ + n]
             f == [flows[h] EXCEPT !.parked = @ - n, !.activity = 0]
  <2>1. sockets' = [sockets EXCEPT ![h] = s]
    BY <1>3 DEF ResumeParked
  <2>2. flows' = [flows EXCEPT ![h] = f]
    BY <1>3 DEF ResumeParked
  <2>3. f.activity = 0
    BY <1>0, <1>1 DEF Flow
  <2> HIDE DEF s, f
  <2> QED
    BY <1>2, <2>1, <2>2, <2>3
<1>4. CASE SendChunk(h)
  <2> DEFINE n == Taken(ChunkLen, sockets[h])
             s == [sockets[h] EXCEPT !.tx = @ + n]
             f == [flows[h] EXCEPT !.outQ = @ - 1, !.parked = ChunkLen - n, !.activity = 0]
  <2>1. sockets' = [sockets EXCEPT ![h] = s]
    BY <1>4 DEF SendChunk
  <2>2. flows' = [flows EXCEPT ![h] = f]
    BY <1>4 DEF SendChunk
  <2>3. f.activity = 0
    BY <1>0, <1>1 DEF Flow
  <2> HIDE DEF s, f
  <2> QED
    BY <1>2, <2>1, <2>2, <2>3
<1>5. CASE RecvChunk(h)
  <2> DEFINE s == [sockets[h] EXCEPT !.rx = @ - 1]
             f == [flows[h] EXCEPT !.inQ = @ + 1, !.activity = 0]
  <2>1. sockets' = [sockets EXCEPT ![h] = s] /\ flows' = [flows EXCEPT ![h] = f]
    BY <1>5 DEF RecvChunk
  <2>2. f.activity = 0
    BY <1>0, <1>1 DEF Flow
  <2> HIDE DEF s, f
  <2> QED
    BY <1>2, <2>1, <2>2
<1>6. CASE SendFin(h)
  <2>1. /\ sockets' = [sockets EXCEPT ![h] = CloseSocket(sockets[h])]
        /\ flows' = flows /\ sockets[h].st # "Closed"
    BY <1>6 DEF SendFin, CanSend, MaySend
  <2>2. flows' = [flows EXCEPT ![h] = flows[h]]
    BY <1>0, <2>1
  <2> QED
    BY <1>2, <2>1, <2>2
<1> QED
  BY <1>3, <1>4, <1>5, <1>6 DEF PumpIteration

(* abort_expired_flows closes what is overdue, before anything else.       *)
LEMMA AbortOnTime ==
  ASSUME IInv, TypeOK', OnTime, AbortExpiredFlows
  PROVE  OnTime'
<1>1. /\ phase' = "outbound" /\ flows' = flows /\ DOMAIN flows \subseteq Handles
      /\ sockets \in [Handles -> Socket]
  BY DEF AbortExpiredFlows, IInv, TypeOK
<1>2. ASSUME NEW h \in DOMAIN flows, DeadlinePassed(flows[h]) PROVE sockets'[h].st = "Closed"
  <2>1. sockets'[h] = AbortSocket(sockets[h]) /\ sockets[h] \in Socket
    BY <1>1, <1>2 DEF AbortExpiredFlows
  <2> QED
    BY <2>1 DEF AbortSocket, Socket
<1> QED
  BY <1>1, <1>2 DEF OnTime, AfterSweep, Calm, NoOverdueDeadline

(* The phases between the abort and the sweep.                             *)
LEMMA DisconnectOnTime ==
  ASSUME IInv, TypeOK', OnTime, CheckDisconnected
  PROVE  OnTime'
<1>0. /\ DOMAIN flows \subseteq Handles /\ sockets \in [Handles -> Socket]
      /\ flows \in [DOMAIN flows -> Flow]
  BY DEF IInv, TypeOK
<1>1. DOMAIN flows' = DOMAIN flows /\ phase = "disconnect" /\ phase' = "poll"
  BY DEF CheckDisconnected
<1>2. ASSUME NEW h \in DOMAIN flows
      PROVE  flows'[h].activity = flows[h].activity /\ flows'[h].winding = flows[h].winding
  <2>0. flows[h] \in Flow
    BY <1>0
  <2>1. CASE Finished(flows[h]) /\ flows[h].outQ > 0
    <3>1. flows'[h] = [flows[h] EXCEPT !.outQ = @ - 1, !.parked = ChunkLen]
      BY <2>1 DEF CheckDisconnected
    <3> QED
      BY <2>0, <3>1 DEF Flow
  <2>2. CASE ~(Finished(flows[h]) /\ flows[h].outQ > 0)
    <3>1. flows'[h] = flows[h]
      BY <2>2 DEF CheckDisconnected
    <3> QED
      BY <3>1
  <2> QED
    BY <2>1, <2>2
<1>3. ASSUME NEW h \in DOMAIN flows, sockets[h].st = "Closed" PROVE sockets'[h].st = "Closed"
  <2>0. h \in Handles /\ sockets[h] \in Socket
    BY <1>0
  <2>1. CASE Finished(flows[h]) /\ flows[h].outQ = 0
    <3>1. sockets'[h] = CloseSocket(sockets[h])
      BY <2>0, <2>1 DEF CheckDisconnected
    <3> QED
      BY <1>3, <2>0, <3>1, CloseKeepsClosed
  <2>2. CASE ~(Finished(flows[h]) /\ flows[h].outQ = 0)
    <3>1. sockets'[h] = sockets[h]
      BY <2>0, <2>2 DEF CheckDisconnected
    <3> QED
      BY <1>3, <3>1
  <2> QED
    BY <2>1, <2>2
<1> QED
  BY <1>1, <1>2, <1>3, WithinStep DEF AfterSweep

(* A SYN is delivered to a listener, never to a closed socket.             *)
LEMMA DeliverSynOnTime ==
  ASSUME IInv, TypeOK', OnTime, DeliverSyn
  PROVE  OnTime'
<1>1. flows' = flows /\ phase = "poll" /\ phase' = phase
  BY DEF DeliverSyn
<1>2. CASE UNCHANGED sockets
  BY <1>1, <1>2, WithinStep DEF AfterSweep
<1>3. ASSUME NEW h \in Handles, sockets[h].st = "Listen",
             sockets' = [sockets EXCEPT ![h].st = "SynReceived", ![h].remote = Head(rxq),
                                        ![h].heard = 0]
      PROVE  OnTime'
  <2>1. DOMAIN flows \subseteq Handles \ {h}
    BY <1>3 DEF IInv, TypeOK, HandleInv, FlowInv, FlowStates
  <2>2. \A k \in Handles \ {h} : sockets'[k] = sockets[k]
    BY <1>3 DEF IInv, TypeOK
  <2> QED
    BY <1>1, <2>1, <2>2, WithinStep DEF AfterSweep
<1> QED
  BY <1>2, <1>3 DEF DeliverSyn

(* The loops of the poll and of the first pump end; nothing else changes.  *)
LEMMA DoneOnTime ==
  ASSUME IInv, TypeOK', OnTime, PumpOutboundDone \/ PollDone
  PROVE  OnTime'
<1>1. /\ phase # "idle" /\ phase' \notin AfterSweep /\ phase' # "idle"
      /\ UNCHANGED <<sockets, flows>>
  BY DEF PumpOutboundDone, PollDone, AfterSweep
<1> QED
  BY <1>1, WithinStep

(* sweep_stale_listeners leaves no stale listener.                         *)
LEMMA SweepOnTime ==
  ASSUME IInv, TypeOK', OnTime, SweepStaleListeners
  PROVE  OnTime'
<1> DEFINE stale == {h \in DOMAIN pending : ListenerExpired(h)}
<1>1. /\ phase = "sweep" /\ phase' = "promote" /\ flows' = flows
      /\ pending' = Without(pending, stale) /\ sockets' = RemoveSockets(stale)
  BY DEF SweepStaleListeners
<1>2. /\ DOMAIN pending' = DOMAIN pending \ stale
      /\ \A h \in DOMAIN pending \ stale : pending'[h] = pending[h]
  BY <1>1 DEF Without
<1>3. \A h \in Handles \ stale : sockets'[h] = sockets[h]
  BY <1>1 DEF RemoveSockets
<1>4. /\ DOMAIN flows \subseteq Handles \ stale /\ DOMAIN pending \subseteq Handles
  BY DEF IInv, TypeOK, SocketsOwned
<1>5. \A h \in DOMAIN pending' : ~ListenerExpired(h)'
  <2> SUFFICES ASSUME NEW h \in DOMAIN pending' PROVE ~ListenerExpired(h)'
    OBVIOUS
  <2>1. /\ h \in DOMAIN pending /\ ~ListenerExpired(h)
        /\ pending'[h] = pending[h] /\ sockets'[h] = sockets[h]
    BY <1>2, <1>3, <1>4
  <2> QED
    BY <2>1 DEF ListenerExpired
<1>6. \A h \in DOMAIN flows' : Calm(sockets'[h], flows'[h])
  BY <1>1, <1>3, <1>4 DEF OnTime
<1> HIDE DEF stale
<1> QED
  BY <1>1, <1>5, <1>6 DEF OnTime, NoOverdueDeadline

(* The phases between the sweep and the reaping.                           *)
LEMMA AfterSweepOnTime ==
  ASSUME IInv, TypeOK', OnTime, PromoteAccepted \/ PumpInboundDone \/ ObserveFlowStates
  PROVE  OnTime'
<1>0. /\ DOMAIN flows \subseteq Handles /\ sockets \in [Handles -> Socket]
      /\ flows \in [DOMAIN flows -> Flow] /\ DOMAIN pending \subseteq Handles
      /\ DOMAIN pending \cap DOMAIN flows = {}
  BY DEF IInv, TypeOK, SocketsOwned
<1>1. phase \in AfterSweep /\ phase # "idle" /\ phase' # "idle"
  BY DEF PromoteAccepted, PumpInboundDone, ObserveFlowStates, AfterSweep
<1>2. CASE PromoteAccepted
  <2> DEFINE ready == {h \in DOMAIN pending : sockets[h].st \notin {"Listen", "SynReceived"}}
             alive == {h \in ready : IsActive(sockets[h])}
  <2>1. /\ pending' = Without(pending, ready) /\ sockets' = RemoveSockets(ready \ alive)
        /\ flows' = [h \in DOMAIN flows \cup alive |->
                        IF h \in alive THEN NewFlow(Negotiated(h)) ELSE flows[h]]
    BY <1>2 DEF PromoteAccepted
  <2>2. /\ DOMAIN pending' = DOMAIN pending \ ready
        /\ \A h \in DOMAIN pending' : pending'[h] = pending[h]
    BY <2>1 DEF Without
  <2>3. \A h \in Handles \ ready : sockets'[h] = sockets[h]
    BY <2>1 DEF RemoveSockets
  <2>4. \A h \in alive : flows'[h].winding = Never
    BY <2>1 DEF NewFlow
  <2>5. \A h \in DOMAIN flows' \ alive : h \in DOMAIN flows /\ flows'[h] = flows[h]
                                         /\ sockets'[h] = sockets[h]
    BY <1>0, <2>1, <2>3
  <2> HIDE DEF ready, alive
  <2>6. \A h \in DOMAIN flows' :
            \/ flows'[h].winding \in {0, Never}
            \/ h \in DOMAIN flows /\ flows'[h] = flows[h] /\ sockets'[h] = sockets[h]
    BY <2>4, <2>5
  <2>7. \A h \in DOMAIN pending' : /\ h \in DOMAIN pending /\ pending'[h] = pending[h]
                                   /\ sockets'[h] = sockets[h]
    BY <1>0, <2>2, <2>3
  <2> QED
    BY <1>1, <2>6, <2>7, WithinStep
<1>3. CASE PumpInboundDone
  <2>1. /\ DOMAIN flows' = DOMAIN flows
        /\ \A h \in DOMAIN flows : /\ flows'[h].activity = flows[h].activity
                                   /\ flows'[h].winding = flows[h].winding
    BY <1>0, <1>3 DEF PumpInboundDone, Flow
  <2>2. \A h \in DOMAIN flows : sockets[h].st = "Closed" => sockets'[h].st = "Closed"
    BY <1>0, <1>3, CloseKeepsClosed DEF PumpInboundDone
  <2>3. pending' = pending /\ \A h \in DOMAIN pending : sockets'[h] = sockets[h]
    BY <1>0, <1>3 DEF PumpInboundDone
  <2> QED
    BY <1>1, <2>1, <2>2, <2>3, WithinStep
<1>4. CASE ObserveFlowStates
  <2>1. pending' = pending /\ sockets' = sockets /\ DOMAIN flows' = DOMAIN flows
    BY <1>4 DEF ObserveFlowStates
  <2>2. \A h \in DOMAIN flows :
            \/ flows'[h].winding \in {0, Never}
            \/ /\ flows'[h].activity = flows[h].activity
               /\ flows'[h].winding = flows[h].winding
    BY <1>0, <1>4 DEF ObserveFlowStates, Flow
  <2> QED
    BY <1>1, <2>1, <2>2, WithinStep
<1> QED
  BY <1>2, <1>3, <1>4

(* reap_closed takes every flow that is still overdue with it.             *)
LEMMA ReapOnTime ==
  ASSUME IInv, TypeOK', OnTime, ReapClosed
  PROVE  OnTime'
<1> DEFINE dead == {h \in DOMAIN flows : sockets[h].st = "Closed"}
<1>1. /\ phase = "reap" /\ phase' = "idle" /\ pending' = pending
      /\ flows' = Without(flows, dead) /\ sockets' = RemoveSockets(dead)
  BY DEF ReapClosed
<1>2. /\ DOMAIN flows' = DOMAIN flows \ dead
      /\ \A h \in DOMAIN flows \ dead : flows'[h] = flows[h]
  BY <1>1 DEF Without
<1>3. \A h \in Handles \ dead : sockets'[h] = sockets[h]
  BY <1>1 DEF RemoveSockets
<1>4. DOMAIN pending \subseteq Handles \ dead
  BY DEF IInv, TypeOK, SocketsOwned
<1>5. \A h \in DOMAIN flows' : ~DeadlinePassed(flows'[h])
  BY <1>1, <1>2 DEF OnTime, Calm
<1>6. \A h \in DOMAIN pending' : ~ListenerExpired(h)'
  <2> SUFFICES ASSUME NEW h \in DOMAIN pending PROVE ~ListenerExpired(h)'
    BY <1>1
  <2>1. ~ListenerExpired(h) /\ sockets'[h] = sockets[h]
    BY <1>1, <1>3, <1>4 DEF OnTime, AfterSweep
  <2> QED
    BY <1>1, <2>1 DEF ListenerExpired
<1> HIDE DEF dead
<1>7. ~SweepDue'
  BY <1>5, <1>6 DEF SweepDue, ListenerExpired
<1> QED
  BY <1>1, <1>7 DEF OnTime, NoOverdueDeadline, AfterSweep

(* Between steps: a new listener is stamped with `last_step`.              *)
LEMMA IngestOnTime ==
  ASSUME IInv, TypeOK', OnTime, Ingest
  PROVE  OnTime'
<1>1. phase = "idle" /\ phase' = "idle" /\ sinceStep' = sinceStep /\ flows' = flows
  BY DEF Ingest, IngestRetransmit, IngestDropped, IngestNew
<1>2. ASSUME sinceStep = 0 PROVE ~SweepDue'
  <2>0. ~SweepDue
    BY <1>1, <1>2 DEF OnTime, NoOverdueDeadline
  <2>1. CASE sockets' = sockets /\ pending' = pending
    BY <1>1, <2>0, <2>1 DEF SweepDue
  <2>2. ASSUME NEW t \in Tuple, NEW h \in Handles, IngestNew(t, h), t[2] \notin BadDsts
        PROVE  ~SweepDue'
    <3>1. /\ pending' = [k \in DOMAIN pending \cup {h} |->
                            IF k = h THEN [tuple |-> t, injected |-> sinceStep] ELSE pending[k]]
          /\ \A k \in Handles \ {h} : sockets'[k] = sockets[k]
      BY <2>2 DEF IngestNew, IInv, TypeOK
    <3>2. pending'[h].injected = 0 /\ ~(0 >= HandshakeTimeout)
      BY <1>2, <3>1, StackCoreAssumption
    <3>3. \A k \in DOMAIN pending' \ {h} : /\ k \in DOMAIN pending /\ pending'[k] = pending[k]
                                           /\ sockets'[k] = sockets[k]
      BY <3>1 DEF IInv, TypeOK
    <3> QED
      BY <1>1, <2>0, <3>2, <3>3 DEF SweepDue
  <2>3. \/ sockets' = sockets /\ pending' = pending
        \/ \E t \in Tuple, h \in Handles : IngestNew(t, h) /\ t[2] \notin BadDsts
    <3>1. CASE \E t \in Tuple : IngestRetransmit(t) \/ IngestDropped(t)
      BY <3>1 DEF IngestRetransmit, IngestDropped
    <3>2. ASSUME NEW t \in Tuple, NEW h \in Handles, IngestNew(t, h), t[2] \in BadDsts
          PROVE  sockets' = sockets /\ pending' = pending
      BY <3>2 DEF IngestNew
    <3> QED
      BY <3>1, <3>2 DEF Ingest
  <2> QED
    BY <2>1, <2>2, <2>3
<1> QED
  BY <1>1, <1>2 DEF OnTime, NoOverdueDeadline, AfterSweep

(* Once the clock has moved, the property waits for the next step.         *)
LEMMA TickOnTime ==
  ASSUME IInv, TypeOK', OnTime, Tick
  PROVE  OnTime'
<1>1. sinceStep \in 0 .. MaxAge /\ MaxAge \in Nat /\ MaxAge # 0
  BY StackCoreAssumption DEF IInv, TypeOK, Age, MaxAge
<1>2. sinceStep' = Older(sinceStep) /\ phase = "idle" /\ phase' = phase
  BY Zenon DEF Tick
<1>3. sinceStep' # 0
  BY <1>1, <1>2 DEF Older
<1> QED
  BY <1>2, <1>3 DEF OnTime, NoOverdueDeadline, AfterSweep

(* A tunnel task touches channels, not timers.                             *)
LEMMA TunnelOnTime ==
  ASSUME IInv, TypeOK', OnTime, NEW h \in Handles, Tunnel(h)
  PROVE  OnTime'
<1>1. /\ UNCHANGED <<phase, sockets, pending, sinceStep>> /\ DOMAIN flows' = DOMAIN flows
  BY DEF Tunnel, TunnelWrite, TunnelRead, TunnelCloseOut, TunnelCloseIn, ChannelStep
<1>2. ASSUME NEW k \in DOMAIN flows
      PROVE  flows'[k].activity = flows[k].activity /\ flows'[k].winding = flows[k].winding
  <2>1. /\ flows[k] \in Flow /\ flows \in [DOMAIN flows -> Flow]
        /\ h \in DOMAIN flows
    BY DEF IInv, TypeOK, Tunnel, TunnelWrite, TunnelRead, TunnelCloseOut, TunnelCloseIn
  <2>2. CASE k # h
    BY <2>1, <2>2
       DEF Tunnel, TunnelWrite, TunnelRead, TunnelCloseOut, TunnelCloseIn, ChannelStep
  <2>3. CASE k = h
    <3>1. \/ \E q : flows'[h] = [flows[h] EXCEPT !.outQ = q]
          \/ \E q : flows'[h] = [flows[h] EXCEPT !.inQ = q]
          \/ flows'[h] = [flows[h] EXCEPT !.outClosed = TRUE]
          \/ flows'[h] = [flows[h] EXCEPT !.inClosed = TRUE, !.inQ = 0]
      <4>1. CASE TunnelWrite(h)
        BY <2>1, <4>1 DEF TunnelWrite, ChannelStep
      <4>2. CASE TunnelRead(h)
        BY <2>1, <4>2 DEF TunnelRead, ChannelStep
      <4>3. CASE TunnelCloseOut(h)
        BY <2>1, <4>3 DEF TunnelCloseOut, ChannelStep
      <4>4. CASE TunnelCloseIn(h)
        BY <2>1, <4>4 DEF TunnelCloseIn, ChannelStep
      <4> QED
        BY <4>1, <4>2, <4>3, <4>4 DEF Tunnel
    <3> QED
      BY <2>1, <2>3, <3>1 DEF Flow
  <2> QED
    BY <2>2, <2>3
<1>3. \A k \in DOMAIN flows : DeadlinePassed(flows'[k]) <=> DeadlinePassed(flows[k])
  BY <1>2 DEF DeadlinePassed
<1> QED
  BY <1>1, <1>3 DEF OnTime, Calm, NoOverdueDeadline, SweepDue, ListenerExpired

(* Right after a step poll_delay names no instant of the past: the loop    *)
(* never spins on a sweep with nothing to sweep, whatever the timeouts.    *)
THEOREM NothingOverdue == Spec => []NoOverdueDeadline
<1>1. Init => OnTime
  BY DEF Init, OnTime, NoOverdueDeadline, SweepDue, AfterSweep
<1>2. IInv /\ OnTime /\ [Next]_vars => OnTime'
  <2> SUFFICES ASSUME IInv, OnTime, [Next]_vars PROVE OnTime'
    OBVIOUS
  <2>1. TypeOK' /\ BusyTasks \subseteq Handles
    BY NextTypeOK, StackCoreAssumption
  <2>2. CASE UNCHANGED vars
    BY <2>2 DEF vars, OnTime, Calm, NoOverdueDeadline, SweepDue, ListenerExpired, DeadlinePassed
  <2>3. CASE Step
    BY <2>1, <2>3, AbortOnTime, PumpOnTime, DoneOnTime, DisconnectOnTime, DeliverSynOnTime,
       NetworkOnTime, SweepOnTime, AfterSweepOnTime, ReapOnTime DEF Step
  <2> QED
    BY <2>1, <2>2, <2>3, IngestOnTime, TickOnTime, NetworkOnTime, TunnelOnTime DEF Next
<1>3. OnTime => NoOverdueDeadline
  BY DEF OnTime
<1> QED
  BY <1>1, <1>2, <1>3, InductiveInvariant, PTL DEF Spec
=============================================================================
