------------------------------ MODULE StackCore ------------------------------
(***************************************************************************)
(* The synchronous heart of the packet engine (smoltcp_stack/core.rs): the *)
(* listeners it injects for the SYNs it sees, the flows they become, and   *)
(* the bytes it moves between a TCP socket and the channel pair whose far  *)
(* end is the LocalStream a tunnel task holds.                             *)
(*                                                                         *)
(* One thread runs `ingest` and `step`; `step` is a fixed sequence of      *)
(* phases.  The tunnel tasks run beside it and touch only the channels, so *)
(* each phase is an action of its own and the tunnel's actions interleave  *)
(* between them.  The loops of the two pumps are one action per iteration. *)
(*                                                                         *)
(* The TCP sockets are smoltcp's, an external library: they are modelled   *)
(* by the states core.rs reads and by the events that move them, without   *)
(* sequence numbers.  Time is kept as ages (how long ago), which saturate  *)
(* at MaxAge: core.rs only ever asks whether a timeout has passed.         *)
(***************************************************************************)
EXTENDS Integers, Sequences, FiniteSets

CONSTANTS
    Srcs,              \* application endpoints
    Dsts,              \* destination endpoints
    BadDsts,           \* destinations smoltcp refuses to listen on (port 0)
    Handles,           \* socket handles of the SocketSet
    MaxPending,        \* MAX_PENDING_LISTENERS
    ChannelDepth,      \* StackConfig.channel_depth, in chunks
    ChunkLen,          \* length of a chunk the tunnel writes, in units
    TxCap,             \* a socket's transmit buffer, in units
    RxCap,             \* a socket's receive buffer, in units of CHUNK
    HandshakeTimeout,  \* HANDSHAKE_TIMEOUT, in ticks
    ShutdownTimeout,   \* SHUTDOWN_TIMEOUT, in ticks
    TimeWaitTimeout,   \* smoltcp's own TIME-WAIT timer, in ticks
    MaxSyns,           \* bound: SYNs the applications send
    BusyTasks          \* bound: handles whose tunnel task does anything at all

Tuple == Srcs \X Dsts
NoTuple == <<>>

ASSUME StackCoreAssumption ==
    /\ BadDsts \subseteq Dsts
    /\ IsFiniteSet(Handles)
    /\ MaxPending \in Nat \ {0}
    /\ ChannelDepth \in Nat
    /\ ChunkLen \in Nat \ {0}
    /\ TxCap \in Nat \ {0}
    /\ RxCap \in Nat
    /\ HandshakeTimeout \in Nat \ {0}
    /\ ShutdownTimeout \in Nat \ {0}
    /\ TimeWaitTimeout \in Nat \ {0}
    /\ MaxSyns \in Nat
    /\ BusyTasks \subseteq Handles

VARIABLES
    phase,      \* where the stack thread is inside `step`, "idle" between steps
    sockets,    \* the SocketSet: handle -> socket
    armed,      \* NatTable.armed: 4-tuples with a listener injected
    pending,    \* listeners injected and not yet promoted: handle -> Pending
    flows,      \* promoted connections: handle -> Flow
    rxq,        \* SYNs queued on the device for the next poll
    sinceStep,  \* the age of `last_step`
    synDropped, \* SYNs refused because of the cap
    syns        \* bound: SYNs the applications may still send

vars == <<phase, sockets, armed, pending, flows, rxq, sinceStep, synDropped, syns>>

----------------------------------------------------------------------------
(* Ages.                                                                   *)

MaxAge ==
    LET Larger(a, b) == IF a > b THEN a ELSE b
    IN  Larger(HandshakeTimeout, Larger(ShutdownTimeout, TimeWaitTimeout))
Age == 0 .. MaxAge
Never == -1            \* an Option<Instant> that is None
Older(a) == IF a \in 0 .. MaxAge - 1 THEN a + 1 ELSE a
Lesser(a, b) == IF a < b THEN a ELSE b

(* tcp::State, and "Free" for a handle that is not in the SocketSet.       *)
TcpState == {"Free", "Listen", "SynReceived", "Established", "CloseWait", "LastAck",
             "FinWait1", "FinWait2", "Closing", "TimeWait", "Closed"}

(* heard: age of the peer's last progress (its SYN, its handshake ACK, an  *)
(*   ACK that drains the transmit buffer) or of the entry into TIME-WAIT.  *)
(* killed: history, the socket reached Closed by a reset or an abort.      *)
Socket == [st : TcpState, dst : Dsts \cup {NoTuple}, remote : Tuple \cup {NoTuple},
           rx : 0 .. RxCap, tx : 0 .. TxCap, heard : Age, killed : BOOLEAN]
FreeSocket == [st |-> "Free", dst |-> NoTuple, remote |-> NoTuple,
               rx |-> 0, tx |-> 0, heard |-> 0, killed |-> FALSE]

PendingRec == [tuple : Tuple, injected : Age]

(* toStream: the Flow still holds the sender towards the LocalStream.      *)
(* inQ, outQ: chunks in the two channels.  inClosed, outClosed: the        *)
(*   LocalStream has closed its receiver, its sender.                      *)
(* parked: units of `pending_out` not yet accepted by the socket.          *)
(* activity, winding: ages of last_activity and of winding_down_since.     *)
Flow == [tuple : Tuple, toStream : BOOLEAN,
         inQ : 0 .. ChannelDepth, outQ : 0 .. ChannelDepth,
         inClosed : BOOLEAN, outClosed : BOOLEAN,
         parked : 0 .. ChunkLen, activity : Age, winding : Age \cup {Never}]

TypeOK ==
    /\ phase \in {"idle", "outbound", "disconnect", "poll", "sweep", "promote",
                  "inbound", "observe", "reap"}
    /\ sockets \in [Handles -> Socket]
    /\ armed \in SUBSET Tuple
    /\ DOMAIN pending \in SUBSET Handles
    /\ pending \in [DOMAIN pending -> PendingRec]
    /\ DOMAIN flows \in SUBSET Handles
    /\ flows \in [DOMAIN flows -> Flow]
    /\ rxq \in Seq(Tuple)
    /\ sinceStep \in Age
    /\ synDropped \in Nat
    /\ syns \in 0 .. MaxSyns

Init ==
    /\ phase = "idle"
    /\ sockets = [h \in Handles |-> FreeSocket]
    /\ armed = {}
    /\ pending = [h \in {} |-> 0]
    /\ flows = [h \in {} |-> 0]
    /\ rxq = <<>>
    /\ sinceStep = 0
    /\ synDropped = 0
    /\ syns = MaxSyns

----------------------------------------------------------------------------
(* What core.rs asks of a smoltcp socket.                                  *)

MaySend(s) == s.st \in {"Established", "CloseWait"}
CanSend(s) == MaySend(s) /\ s.tx < TxCap
MayRecv(s) == s.st \in {"Established", "FinWait1", "FinWait2"} \/ s.rx > 0
CanRecv(s) == MayRecv(s) /\ s.rx > 0
IsActive(s) == s.st \notin {"Free", "Closed", "TimeWait", "Listen"}

(* Socket::close: the FIN follows whatever the transmit buffer holds.      *)
CloseSocket(s) ==
    CASE s.st \in {"SynReceived", "Established"} -> [s EXCEPT !.st = "FinWait1"]
      [] s.st = "CloseWait" -> [s EXCEPT !.st = "LastAck"]
      [] s.st = "Listen" -> [s EXCEPT !.st = "Closed"]
      [] OTHER -> s

(* Socket::abort: Closed, with an RST queued.                              *)
AbortSocket(s) == [s EXCEPT !.st = "Closed", !.killed = TRUE]

(* States in which only the peer can make progress (awaits_peer).          *)
AwaitsPeer_CloseWait(st) == st \in {"FinWait1", "FinWait2", "Closing", "LastAck", "CloseWait"}
AwaitsPeer(st) == st \in {"FinWait1", "FinWait2", "Closing", "LastAck"}

(* Flow::shutdown_deadline has passed: counted from the later of           *)
(* winding_down_since and last_activity, that is, from the younger age.    *)
DeadlinePassed(f) ==
    f.winding # Never /\ Lesser(f.winding, f.activity) >= ShutdownTimeout

(* The deadline of a listener no SYN has reached has passed: the predicate *)
(* of sweep_stale_listeners.                                               *)
ListenerExpired_Late(h) ==
    sockets[h].st = "Listen" /\ pending[h].injected > HandshakeTimeout
ListenerExpired(h) ==
    sockets[h].st = "Listen" /\ pending[h].injected >= HandshakeTimeout

(* next_sweep_deadline names an instant that is not in the future.         *)
SweepDue ==
    \/ \E h \in DOMAIN pending : /\ sockets[h].st = "Listen"
                                 /\ pending[h].injected >= HandshakeTimeout
    \/ \E h \in DOMAIN flows : DeadlinePassed(flows[h])

Without(f, S) == [h \in DOMAIN f \ S |-> f[h]]

(* SocketSet::remove                                                       *)
RemoveSockets(S) == [h \in Handles |-> IF h \in S THEN FreeSocket ELSE sockets[h]]

NewFlow(t) == [tuple |-> t, toStream |-> TRUE, inQ |-> 0, outQ |-> 0,
               inClosed |-> FALSE, outClosed |-> FALSE,
               parked |-> 0, activity |-> 0, winding |-> Never]

----------------------------------------------------------------------------
(* ingest: the TcpSyn arm.                                                 *)

(* A listener for this 4-tuple exists: only queue the packet.              *)
IngestRetransmit(t) ==
    /\ phase = "idle" /\ syns > 0
    /\ t \in armed
    /\ rxq' = Append(rxq, t)
    /\ syns' = syns - 1
    /\ UNCHANGED <<phase, sockets, armed, pending, flows, sinceStep, synDropped>>

Full == Cardinality(DOMAIN pending) >= MaxPending

(* The cap is reached: the SYN is dropped, not queued.                     *)
IngestDropped(t) ==
    /\ phase = "idle" /\ syns > 0
    /\ t \notin armed
    /\ Full
    /\ synDropped' = synDropped + 1
    /\ syns' = syns - 1
    /\ UNCHANGED <<phase, sockets, armed, pending, flows, rxq, sinceStep>>

(* Arm, inject a listener in a free slot and queue the SYN.  A listener    *)
(* that cannot be created is disarmed at once; the SYN is queued anyway.   *)
(* The listener is stamped with `last_step`.                               *)
IngestNew(t, h) ==
    /\ phase = "idle" /\ syns > 0
    /\ t \notin armed
    /\ ~Full
    /\ sockets[h].st = "Free"
    /\ IF t[2] \in BadDsts
       THEN UNCHANGED <<sockets, armed, pending>>
       ELSE /\ armed' = armed \cup {t}
            /\ sockets' = [sockets EXCEPT ![h] =
                              [FreeSocket EXCEPT !.st = "Listen", !.dst = t[2]]]
            /\ pending' = [k \in DOMAIN pending \cup {h} |->
                              IF k = h THEN [tuple |-> t, injected |-> sinceStep]
                                       ELSE pending[k]]
    /\ rxq' = Append(rxq, t)
    /\ syns' = syns - 1
    /\ UNCHANGED <<phase, flows, sinceStep, synDropped>>

(* A socket whose `heard` matters: one waiting for the peer's next move.   *)
Counting(s) == s.st \in {"SynReceived", "TimeWait"} \/ s.tx > 0

(* Time passes between two steps; within a step the clock stands still.    *)
Tick ==
    /\ phase = "idle"
    /\ sinceStep' = Older(sinceStep)
    /\ sockets' = [h \in Handles |-> [sockets[h] EXCEPT
                      !.heard = IF Counting(sockets[h]) THEN Older(@) ELSE @]]
    /\ pending' = [h \in DOMAIN pending |-> [pending[h] EXCEPT !.injected = Older(@)]]
    /\ flows' = [h \in DOMAIN flows |-> [flows[h] EXCEPT !.activity = Older(@),
                                                         !.winding = Older(@)]]
    /\ UNCHANGED <<phase, armed, rxq, synDropped, syns>>

----------------------------------------------------------------------------
(* step, phase by phase.                                                   *)

(* abort_expired_flows, before the poll so that the RST goes out.          *)
AbortExpiredFlows ==
    /\ phase = "idle"
    /\ phase' = "outbound"
    /\ sinceStep' = 0
    /\ sockets' = [h \in Handles |->
                      IF h \in DOMAIN flows /\ DeadlinePassed(flows[h])
                      THEN AbortSocket(sockets[h]) ELSE sockets[h]]
    /\ UNCHANGED <<armed, pending, flows, rxq, synDropped, syns>>

(* What send_slice takes of n units: as much as the buffer has room for.   *)
Taken_All(n, s) == n
Taken(n, s) == Lesser(n, TxCap - s.tx)

(* pump_outbound (a): the chunk the send buffer could not take last time.  *)
ResumeParked(h) ==
    /\ phase = "outbound" /\ h \in DOMAIN flows
    /\ flows[h].parked > 0 /\ CanSend(sockets[h])
    /\ LET n == Taken(flows[h].parked, sockets[h])
       IN  /\ sockets' = [sockets EXCEPT ![h].tx = @ + n]
           /\ flows' = [flows EXCEPT ![h].parked = @ - n, ![h].activity = 0]
    /\ UNCHANGED <<phase, armed, pending, rxq, sinceStep, synDropped, syns>>

(* pump_outbound (b), one chunk: what does not fit is parked.              *)
SendChunk(h) ==
    /\ phase = "outbound" /\ h \in DOMAIN flows
    /\ flows[h].parked = 0 /\ CanSend(sockets[h]) /\ flows[h].outQ > 0
    /\ LET n == Taken(ChunkLen, sockets[h])
       IN  /\ sockets' = [sockets EXCEPT ![h].tx = @ + n]
           /\ flows' = [flows EXCEPT ![h].outQ = @ - 1, ![h].parked = ChunkLen - n,
                                     ![h].activity = 0]
    /\ UNCHANGED <<phase, armed, pending, rxq, sinceStep, synDropped, syns>>

(* TryRecvError::Disconnected: every sender is gone and the queue is empty.*)
Disconnected_Closed(f) == f.outClosed
Disconnected(f) == f.outClosed /\ f.outQ = 0

(* pump_outbound (b), the channel is disconnected: send FIN.               *)
SendFin(h) ==
    /\ phase = "outbound" /\ h \in DOMAIN flows
    /\ flows[h].parked = 0 /\ CanSend(sockets[h]) /\ Disconnected(flows[h])
    /\ sockets' = [sockets EXCEPT ![h] = CloseSocket(@)]
    /\ UNCHANGED <<phase, armed, pending, flows, rxq, sinceStep, synDropped, syns>>

(* The loops of (a) and (b) have run dry for every flow.                   *)
PumpOutboundDone ==
    /\ phase = "outbound"
    /\ \A h \in DOMAIN flows :
          CanSend(sockets[h]) => /\ flows[h].parked = 0 /\ flows[h].outQ = 0
                                 /\ ~flows[h].outClosed
    /\ phase' = "disconnect"
    /\ UNCHANGED <<sockets, armed, pending, flows, rxq, sinceStep, synDropped, syns>>

(* pump_outbound (c): the unconditional disconnection check.               *)
Finished_IgnoresParked(f) == f.outClosed
Finished(f) == f.outClosed /\ f.parked = 0
CheckDisconnected ==
    /\ phase = "disconnect"
    /\ phase' = "poll"
    /\ flows' = [h \in DOMAIN flows |->
                    IF Finished(flows[h]) /\ flows[h].outQ > 0
                    THEN [flows[h] EXCEPT !.outQ = @ - 1, !.parked = ChunkLen]
                    ELSE flows[h]]
    /\ sockets' = [h \in Handles |->
                      IF h \in DOMAIN flows /\ Finished(flows[h]) /\ flows[h].outQ = 0
                      THEN CloseSocket(sockets[h]) ELSE sockets[h]]
    /\ UNCHANGED <<armed, pending, rxq, sinceStep, synDropped, syns>>

----------------------------------------------------------------------------
(* Interface::poll: what smoltcp does with the packets of the applications *)
(* and with its own timers.                                                *)

SocketStep(h, s) ==
    /\ phase = "poll"
    /\ sockets' = [sockets EXCEPT ![h] = s]
    /\ UNCHANGED <<phase, armed, pending, flows, rxq, sinceStep, synDropped, syns>>

Bound(h, t) == sockets[h].remote = t /\ sockets[h].st \notin {"Free", "Listen", "Closed"}
Accepts(h, t) == Bound(h, t) \/ (sockets[h].st = "Listen" /\ sockets[h].dst = t[2])

(* The SYN at the head of the queue reaches a socket that accepts it (any  *)
(* listener on its destination will do, whoever it was injected for); a    *)
(* connected one ignores it.  Without such a socket smoltcp answers RST.   *)
DeliverSyn ==
    /\ phase = "poll" /\ rxq # <<>>
    /\ LET t == Head(rxq) IN
         \/ \E h \in Handles :
               /\ sockets[h].st = "Listen" /\ Accepts(h, t)
               /\ sockets' = [sockets EXCEPT ![h].st = "SynReceived", ![h].remote = t,
                                             ![h].heard = 0]
         \/ /\ \E h \in Handles : Bound(h, t)
            /\ UNCHANGED sockets
         \/ /\ \A h \in Handles : ~Accepts(h, t)
            /\ UNCHANGED sockets
    /\ rxq' = Tail(rxq)
    /\ UNCHANGED <<phase, armed, pending, flows, sinceStep, synDropped, syns>>

HandshakeAck(h) ==
    /\ sockets[h].st = "SynReceived"
    /\ SocketStep(h, [sockets[h] EXCEPT !.st = "Established", !.heard = 0])

PeerData(h) ==
    /\ sockets[h].st \in {"Established", "FinWait1", "FinWait2"} /\ sockets[h].rx < RxCap
    /\ SocketStep(h, [sockets[h] EXCEPT !.rx = @ + 1])

PeerAck(h) ==
    /\ sockets[h].st \in {"Established", "CloseWait", "FinWait1", "Closing", "LastAck"}
    /\ sockets[h].tx > 0
    /\ SocketStep(h, [sockets[h] EXCEPT !.tx = @ - 1, !.heard = 0])

PeerFin(h) ==
    \/ /\ sockets[h].st \in {"SynReceived", "Established"}
       /\ SocketStep(h, [sockets[h] EXCEPT !.st = "CloseWait"])
    \/ /\ sockets[h].st = "FinWait1"
       /\ SocketStep(h, [sockets[h] EXCEPT !.st = "Closing"])
    \/ /\ sockets[h].st = "FinWait2"
       /\ SocketStep(h, [sockets[h] EXCEPT !.st = "TimeWait", !.heard = 0])

(* Our FIN leaves once the transmit buffer is drained, and is acknowledged.*)
AckOfFin(h) ==
    /\ sockets[h].tx = 0
    /\ \/ /\ sockets[h].st = "FinWait1"
          /\ SocketStep(h, [sockets[h] EXCEPT !.st = "FinWait2"])
       \/ /\ sockets[h].st = "Closing"
          /\ SocketStep(h, [sockets[h] EXCEPT !.st = "TimeWait", !.heard = 0])
       \/ /\ sockets[h].st = "LastAck"
          /\ SocketStep(h, [sockets[h] EXCEPT !.st = "Closed"])

(* An RST returns a half-open socket to Listen and closes any other.       *)
PeerRst(h) ==
    \/ /\ sockets[h].st = "SynReceived"
       /\ SocketStep(h, [sockets[h] EXCEPT !.st = "Listen", !.remote = NoTuple])
    \/ /\ sockets[h].st \notin {"Free", "Listen", "SynReceived", "Closed"}
       /\ SocketStep(h, AbortSocket(sockets[h]))

TimerDue(h) ==
    \/ sockets[h].st = "SynReceived" /\ sockets[h].heard >= HandshakeTimeout
    \/ sockets[h].st = "TimeWait" /\ sockets[h].heard >= TimeWaitTimeout

(* The socket timeout inject_listener sets, and TIME-WAIT's own timer.     *)
TimerFires(h) ==
    /\ TimerDue(h)
    /\ SocketStep(h, IF sockets[h].st = "TimeWait" THEN [sockets[h] EXCEPT !.st = "Closed"]
                                                   ELSE AbortSocket(sockets[h]))

PollDone ==
    /\ phase = "poll"
    /\ rxq = <<>>
    /\ \A h \in Handles : ~TimerDue(h)
    /\ phase' = "sweep"
    /\ UNCHANGED <<sockets, armed, pending, flows, rxq, sinceStep, synDropped, syns>>

----------------------------------------------------------------------------
(* The phases after the poll.                                              *)

SweepStaleListeners ==
    /\ phase = "sweep"
    /\ phase' = "promote"
    /\ LET stale == {h \in DOMAIN pending : ListenerExpired(h)} IN
         /\ pending' = Without(pending, stale)
         /\ armed' = armed \ {pending[h].tuple : h \in stale}
         /\ sockets' = RemoveSockets(stale)
    /\ UNCHANGED <<flows, rxq, sinceStep, synDropped, syns>>

(* The 4-tuple a promoted listener releases, the one it was injected for;  *)
(* and the one its flow carries, the one smoltcp negotiated.               *)
Released_Negotiated(h) == sockets[h].remote
Released(h) == pending[h].tuple
Negotiated_Injected(h) == pending[h].tuple
Negotiated(h) == sockets[h].remote

(* Every listener whose handshake is over leaves `pending`: it becomes a   *)
(* flow, under the addresses smoltcp negotiated, unless it died first.     *)
PromoteAccepted ==
    /\ phase = "promote"
    /\ phase' = "inbound"
    /\ LET ready == {h \in DOMAIN pending : sockets[h].st \notin {"Listen", "SynReceived"}}
           alive == {h \in ready : IsActive(sockets[h])}
       IN  /\ pending' = Without(pending, ready)
           /\ armed' = armed \ {Released(h) : h \in ready}
           /\ flows' = [h \in DOMAIN flows \cup alive |->
                           IF h \in alive THEN NewFlow(Negotiated(h)) ELSE flows[h]]
           /\ sockets' = RemoveSockets(ready \ alive)
    /\ UNCHANGED <<rxq, sinceStep, synDropped, syns>>

(* pump_inbound, one chunk into the channel.                               *)
RecvChunk(h) ==
    /\ phase = "inbound" /\ h \in DOMAIN flows
    /\ flows[h].toStream /\ CanRecv(sockets[h])
    /\ ~flows[h].inClosed /\ flows[h].inQ < ChannelDepth
    /\ sockets' = [sockets EXCEPT ![h].rx = @ - 1]
    /\ flows' = [flows EXCEPT ![h].inQ = @ + 1, ![h].activity = 0]
    /\ UNCHANGED <<phase, armed, pending, rxq, sinceStep, synDropped, syns>>

(* pump_inbound, after its loop: the LocalStream's receiver is gone, so    *)
(* the socket is closed; and the sender is kept only while more may come   *)
(* (dropping it is the EOF the LocalStream sees).                          *)
ReaderGone(h) == flows[h].toStream /\ CanRecv(sockets[h]) /\ flows[h].inClosed
PumpInboundDone ==
    /\ phase = "inbound"
    /\ \A h \in DOMAIN flows :
          flows[h].toStream /\ CanRecv(sockets[h]) =>
              flows[h].inClosed \/ flows[h].inQ = ChannelDepth
    /\ phase' = "observe"
    /\ sockets' = [h \in Handles |->
                      IF h \in DOMAIN flows /\ ReaderGone(h)
                      THEN CloseSocket(sockets[h]) ELSE sockets[h]]
    /\ flows' = [h \in DOMAIN flows |->
                    [flows[h] EXCEPT !.toStream =
                        @ /\ ~ReaderGone(h) /\ MayRecv(sockets[h])]]
    /\ UNCHANGED <<armed, pending, rxq, sinceStep, synDropped, syns>>

Orphaned_Never(h) == FALSE
Orphaned(h) == flows[h].outClosed /\ MaySend(sockets[h])
ObserveFlowStates ==
    /\ phase = "observe"
    /\ phase' = "reap"
    /\ flows' = [h \in DOMAIN flows |->
                    [flows[h] EXCEPT !.winding =
                        IF AwaitsPeer(sockets[h].st) \/ Orphaned(h)
                        THEN IF @ = Never THEN 0 ELSE @
                        ELSE Never]]
    /\ UNCHANGED <<sockets, armed, pending, rxq, sinceStep, synDropped, syns>>

(* reap_closed and retire_flow: dropping the Flow drops its channel ends.  *)
ReapClosed ==
    /\ phase = "reap"
    /\ phase' = "idle"
    /\ LET dead == {h \in DOMAIN flows : sockets[h].st = "Closed"} IN
         /\ flows' = Without(flows, dead)
         /\ sockets' = RemoveSockets(dead)
    /\ UNCHANGED <<armed, pending, rxq, sinceStep, synDropped, syns>>

----------------------------------------------------------------------------
(* The tunnel task's end: LocalStream.  Each touches only the channels.    *)

ChannelStep(h, f) ==
    /\ flows' = [flows EXCEPT ![h] = f]
    /\ UNCHANGED <<phase, sockets, armed, pending, rxq, sinceStep, synDropped, syns>>

TunnelWrite(h) ==
    /\ h \in DOMAIN flows /\ ~flows[h].outClosed /\ flows[h].outQ < ChannelDepth
    /\ ChannelStep(h, [flows[h] EXCEPT !.outQ = @ + 1])

TunnelRead(h) ==
    /\ h \in DOMAIN flows /\ ~flows[h].inClosed /\ flows[h].inQ > 0
    /\ ChannelStep(h, [flows[h] EXCEPT !.inQ = @ - 1])

(* poll_shutdown, and the first half of Drop.                              *)
TunnelCloseOut(h) ==
    /\ h \in DOMAIN flows /\ ~flows[h].outClosed
    /\ ChannelStep(h, [flows[h] EXCEPT !.outClosed = TRUE])

(* The second half of Drop: whatever was unread is gone with the receiver. *)
TunnelCloseIn(h) ==
    /\ h \in DOMAIN flows /\ flows[h].outClosed /\ ~flows[h].inClosed
    /\ ChannelStep(h, [flows[h] EXCEPT !.inClosed = TRUE, !.inQ = 0])

----------------------------------------------------------------------------
Ingest == \E t \in Tuple : \/ IngestRetransmit(t)
                           \/ IngestDropped(t)
                           \/ \E h \in Handles : IngestNew(t, h)

Network(h) == \/ HandshakeAck(h) \/ PeerData(h) \/ PeerAck(h) \/ PeerFin(h)
              \/ AckOfFin(h) \/ PeerRst(h)

Tunnel(h) == TunnelWrite(h) \/ TunnelRead(h) \/ TunnelCloseOut(h) \/ TunnelCloseIn(h)

PumpIteration(h) == ResumeParked(h) \/ SendChunk(h) \/ SendFin(h) \/ RecvChunk(h)

(* The moves of the stack thread inside `step`, and smoltcp's inside poll. *)
Step == \/ AbortExpiredFlows
        \/ \E h \in Handles : PumpIteration(h)
        \/ PumpOutboundDone
        \/ CheckDisconnected
        \/ DeliverSyn
        \/ \E h \in Handles : TimerFires(h)
        \/ PollDone
        \/ SweepStaleListeners
        \/ PromoteAccepted
        \/ PumpInboundDone
        \/ ObserveFlowStates
        \/ ReapClosed

Next == \/ Ingest
        \/ Tick
        \/ Step
        \/ \E h \in Handles : Network(h)
        \/ \E h \in BusyTasks : Tunnel(h)

Spec == Init /\ [][Next]_vars

(* The driving loop steps at least every MAX_IDLE, each step runs to its   *)
(* end, and the clock it reads advances from step to step.  Nothing is     *)
(* assumed of the applications or of the tunnel tasks.                     *)
Fairness == WF_vars(Step) /\ SF_vars(Tick)
FairSpec == Spec /\ Fairness

----------------------------------------------------------------------------
(* Safety.                                                                 *)

(* The NAT table and the pending map agree: a 4-tuple is armed exactly     *)
(* while one, and only one, listener is pending for it.  A tuple armed     *)
(* with no listener can never be retried; one listener too many answers    *)
(* for a tuple it no longer owns.                                          *)
ArmedIffPending ==
    /\ armed = {pending[h].tuple : h \in DOMAIN pending}
    /\ \A g, h \in DOMAIN pending : pending[g].tuple = pending[h].tuple => g = h

(* Every socket in the SocketSet is owned by exactly one of the two maps,  *)
(* and an owner never points at a free slot: no buffer pair leaks, and no  *)
(* handle is used after its socket was removed.                            *)
SocketsOwned ==
    /\ \A h \in Handles : sockets[h].st # "Free" <=> h \in DOMAIN pending \cup DOMAIN flows
    /\ DOMAIN pending \cap DOMAIN flows = {}

(* The NAT table, the two maps and the socket set tell the same story,     *)
(* however SYNs, duplicates, expiries and resets cross (inject_listener,   *)
(* promote_accepted, sweep_stale_listeners, reap_closed).                  *)
TablesAgree == TypeOK /\ ArmedIffPending /\ SocketsOwned

(* A flow carries the 4-tuple its socket negotiated, whichever listener    *)
(* took the SYN: the engine never dials one connection's destination on    *)
(* behalf of another, and the destination is the one listened on.          *)
FlowIsItsConnection ==
    \A h \in DOMAIN flows : /\ flows[h].tuple = sockets[h].remote
                            /\ flows[h].tuple[2] = sockets[h].dst

(* The LocalStream sees EOF only after the application's FIN (or a reset)  *)
(* and everything the application sent before it.                          *)
EofAfterData ==
    \A h \in DOMAIN flows :
        ~flows[h].toStream /\ ~flows[h].inClosed =>
            /\ sockets[h].rx = 0
            /\ sockets[h].st \notin {"Established", "FinWait1", "FinWait2"}

PostFin == {"FinWait1", "FinWait2", "Closing", "LastAck", "TimeWait"}
HandedOver(f) == f.outClosed /\ f.outQ = 0 /\ f.parked = 0

(* "Everything the tunnel had to say has been said" before the FIN, as     *)
(* long as the tunnel task still reads: half-closing never truncates what  *)
(* was written before it.                                                  *)
FinAfterWrites ==
    \A h \in DOMAIN flows :
        sockets[h].st \in PostFin /\ ~flows[h].inClosed => HandedOver(flows[h])

(* An end of stream never overtakes data, towards the tunnel task or       *)
(* towards the application (pump_inbound, pump_outbound).                  *)
EndAfterData == EofAfterData /\ FinAfterWrites

(* The same, however the tunnel task ended: the application never reads a  *)
(* clean end of stream in place of bytes still queued for it.              *)
FinAfterAllWrites ==
    \A h \in DOMAIN flows : sockets[h].st \in PostFin => HandedOver(flows[h])

(* Right after a step no deadline is overdue, so poll_delay never makes    *)
(* the loop spin on a sweep that has nothing to remove.                    *)
NoOverdueDeadline ==
    phase = "idle" /\ sinceStep = 0 => ~SweepDue

(* ------------------------------------------------------------------------*)
(* What a step may never do.                                               *)

Aborted(h) == phase = "idle" /\ h \in DOMAIN flows
              /\ sockets[h].st # "Closed" /\ sockets'[h].st = "Closed"

(* The stack itself resets a connection only when its local side is done:  *)
(* never one whose tunnel task may still write, however long it is quiet.  *)
OnlyFinishedFlowsAborted ==
    [][\A h \in Handles : Aborted(h) => flows[h].outClosed]_vars

(* A flow that ends without a reset or an abort, and whose tunnel task     *)
(* read to the end, has delivered everything: nothing is discarded.        *)
GracefulEndLosesNothing ==
    [][\A h \in DOMAIN flows \ DOMAIN flows' :
          ~sockets[h].killed /\ ~flows[h].inClosed
              => HandedOver(flows[h]) /\ sockets[h].tx = 0]_vars

(* ------------------------------------------------------------------------*)
(* What must eventually happen, whatever the applications do.              *)

(* A flow whose LocalStream was dropped is eventually reclaimed, even with *)
(* a full transmit buffer, a parked chunk and a peer that never answers.   *)
DroppedStreamReclaimed ==
    \A h \in Handles : (h \in DOMAIN flows /\ flows[h].inClosed) ~> (h \notin DOMAIN flows)

(* An armed 4-tuple is eventually released, so it can be tried again.      *)
ArmedReleased == \A t \in Tuple : t \in armed ~> t \notin armed

(* No flow and no listener outlives its use, so neither leaks sockets nor  *)
(* blocks its 4-tuple (observe_flow_states, sweep_stale_listeners).        *)
EverythingReclaimed == DroppedStreamReclaimed /\ ArmedReleased
=============================================================================
