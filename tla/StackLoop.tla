------------------------------ MODULE StackLoop ------------------------------
(***************************************************************************)
(* The thread that drives the packet engine (smoltcp_stack/poll.rs) and    *)
(* everything that talks to it: the TUN descriptor with its one-shot       *)
(* registration, the latched Poller::notify behind every Wakeup, the       *)
(* LocalStreams of the flow tasks, the task that bridges DNS replies, the  *)
(* ShutdownHandle, and the Engine that takes accepted flows and queries.   *)
(*                                                                         *)
(* StackCore models what a step does; here a step only reads what changed  *)
(* and hands over what it accepted.  The point is when the loop sleeps,    *)
(* what wakes it, and what is handed over, in which order.                 *)
(***************************************************************************)
EXTENDS Integers, Sequences, FiniteSets, SequencesExt

CONSTANTS
    Flows,            \* connections the applications open, once each
    Dns,              \* a DNS query read from the device
    AcceptDepth,      \* channel_depth of tcp_accept
    UdpDepth,         \* channel_depth of udp_inbound and udp_outbound
    DrainBatch,       \* DRAIN_BATCH
    MaxWaitFailures,  \* MAX_WAIT_FAILURES
    MaxQueries,       \* bound: DNS queries the applications send
    MayBreak          \* bound: the device may fail its reads, and its registration

ASSUME StackLoopAssumption ==
    /\ Dns \notin Flows
    /\ AcceptDepth \in Nat \ {0} /\ UdpDepth \in Nat \ {0} /\ DrainBatch \in Nat \ {0}
    /\ MaxWaitFailures \in Nat \ {0}
    /\ MaxQueries \in Nat
    /\ MayBreak \in BOOLEAN

Packet == Flows \cup {Dns}
ErrCap == 2      \* bound: read_errors saturates, the loop asks only for > 1
HotCap == 3      \* bound: of the history variable hot

VARIABLES
    pc,            \* where the loop is
    timer,         \* what bounds the sleep: "idle" is MAX_IDLE alone
    readErrors,    \* consecutive passes whose read failed
    waitFailures,  \* consecutive failures of Poller::wait
    ingested,      \* connections read in this pass, for the next step
    backlog,       \* accepted flows that did not fit the channel
    datagrams,     \* DNS queries read in this pass, to hand over
    dirty,         \* flows whose LocalStream changed since the last step
    notified,      \* Poller::notify raised and not yet delivered
    armed,         \* the registration of the TUN descriptor is armed
    deaf,          \* renewing it failed before this sleep: "cannot re-arm"
    device,        \* packets waiting on the TUN descriptor
    broken,        \* every read of the descriptor fails
    unsent,        \* bound: flows not yet opened, and queries left
    flag,          \* the flag of the ShutdownHandle
    closer,        \* progress of ShutdownHandle::shutdown
    task,          \* life of each flow's tunnel task
    waking,        \* LocalStreams that changed something and are about to wake
    bridge,        \* replies on the bridge's std channel
    bridging,      \* the bridge task
    udpOut,        \* replies on udp_outbound
    acceptQ,       \* flows on tcp_accept
    udpQ,          \* queries on udp_inbound
    engine,        \* Engine::run: its two "still open" flags, and its end
    resolving,     \* resolve_one tasks under way
    served,        \* history: flows the engine took, in order
    hot            \* history: consecutive passes a failing device caused

loopVars == <<pc, timer, readErrors, waitFailures, ingested, backlog, datagrams, dirty>>
devVars == <<device, broken, deaf, unsent>>
pollVars == <<notified, armed>>
closeVars == <<flag, closer>>
taskVars == <<task, waking>>
bridgeVars == <<bridge, bridging, udpOut>>
engineVars == <<acceptQ, udpQ, engine, resolving, served>>
vars == <<loopVars, devVars, pollVars, closeVars, taskVars, bridgeVars, engineVars, hot>>

TypeOK ==
    /\ pc \in {"top", "drain", "bridge", "step", "handover", "datagrams", "sleep", "wait",
               "exited"}
    /\ timer \in {"idle", "core", "retry"}
    /\ readErrors \in 0 .. ErrCap
    /\ waitFailures \in 0 .. MaxWaitFailures
    /\ waitFailures = MaxWaitFailures => pc = "exited"
    /\ ingested \in Seq(Flows) /\ backlog \in Seq(Flows) /\ device \in Seq(Packet)
    /\ datagrams \in Nat /\ bridge \in Nat /\ resolving \in Nat
    /\ dirty \in SUBSET Flows /\ waking \in SUBSET Flows
    /\ notified \in BOOLEAN /\ armed \in BOOLEAN /\ deaf \in BOOLEAN
    /\ broken \in BOOLEAN /\ flag \in BOOLEAN
    /\ unsent \in [flows : SUBSET Flows, queries : 0 .. MaxQueries]
    /\ closer \in {"idle", "stored", "done"}
    /\ task \in [Flows -> {"none", "queued", "proxying", "dropping", "done"}]
    /\ bridging \in {"recv", "wake", "gone"}
    /\ udpOut \in 0 .. UdpDepth /\ udpQ \in 0 .. UdpDepth
    /\ acceptQ \in Seq(Flows) /\ Len(acceptQ) <= AcceptDepth
    /\ engine \in [state : {"running", "finished", "aborted"},
                   tcpOpen : BOOLEAN, udpOpen : BOOLEAN]
    /\ served \in Seq(Flows)
    /\ hot \in 0 .. HotCap

Init ==
    /\ pc = "top" /\ timer = "idle" /\ readErrors = 0 /\ waitFailures = 0
    /\ ingested = <<>> /\ backlog = <<>> /\ datagrams = 0 /\ dirty = {}
    /\ device = <<>> /\ broken = FALSE
    /\ unsent = [flows |-> Flows, queries |-> MaxQueries]
    /\ notified = FALSE /\ armed = TRUE /\ deaf = FALSE
    /\ flag = FALSE /\ closer = "idle"
    /\ task = [f \in Flows |-> "none"] /\ waking = {}
    /\ bridge = 0 /\ bridging = "recv" /\ udpOut = 0
    /\ acceptQ = <<>> /\ udpQ = 0 /\ resolving = 0 /\ served = <<>>
    /\ engine = [state |-> "running", tcpOpen |-> TRUE, udpOpen |-> TRUE]
    /\ hot = 0

Running == engine.state = "running"
AtMost(n, m) == IF n <= m THEN n ELSE m

----------------------------------------------------------------------------
(* The loop, statement by statement.                                       *)

(* Leaving the loop drops the core, so the flow tasks see EOF; the backlog *)
(* and what is queued for this pass go with it.  The senders of tcp_accept *)
(* and udp_inbound are dropped with the closure.                           *)
Exit ==
    /\ pc' = "exited"
    /\ backlog' = <<>> /\ datagrams' = 0 /\ ingested' = <<>> /\ dirty' = {}
    /\ bridge' = 0
    /\ armed' = FALSE
    /\ task' = [f \in Flows |-> IF f \in ToSet(backlog) THEN "done" ELSE task[f]]
    /\ UNCHANGED <<timer, readErrors>>

CheckShutdown ==
    /\ pc = "top"
    /\ IF flag
       THEN Exit /\ UNCHANGED <<waitFailures, notified, waking, bridging, udpOut>>
       ELSE pc' = "drain" /\ UNCHANGED <<timer, readErrors, waitFailures, ingested, backlog,
                                         datagrams, dirty, pollVars, taskVars, bridgeVars>>
    /\ UNCHANGED <<devVars, closeVars, engineVars, hot>>

(* Step 1, one packet: a connection attempt is for the core's next step, a *)
(* DNS query is surfaced at once.                                          *)
BatchLeft == Len(ingested) + datagrams < DrainBatch

DrainPacket ==
    /\ pc = "drain" /\ BatchLeft
    /\ ~broken /\ device # <<>>
    /\ device' = Tail(device)
    /\ IF Head(device) \in Flows
       THEN ingested' = Append(ingested, Head(device)) /\ UNCHANGED datagrams
       ELSE datagrams' = datagrams + 1 /\ UNCHANGED ingested
    /\ UNCHANGED <<pc, timer, readErrors, waitFailures, backlog, dirty, broken, deaf, unsent,
                   pollVars, closeVars, taskVars, bridgeVars, engineVars, hot>>

(* Step 1 ends with a failed read, an empty device or DRAIN_BATCH packets. *)
DrainDone ==
    /\ pc = "drain"
    /\ pc' = "bridge"
    /\ \/ /\ BatchLeft /\ broken
          /\ readErrors' = AtMost(readErrors + 1, ErrCap)
          /\ UNCHANGED hot
       \/ /\ ~BatchLeft \/ (~broken /\ device = <<>>)
          /\ readErrors' = 0
          /\ hot' = 0
    /\ UNCHANGED <<timer, waitFailures, ingested, backlog, datagrams, dirty, devVars,
                   pollVars, closeVars, taskVars, bridgeVars, engineVars>>

DrainBridge ==
    /\ pc = "bridge"
    /\ pc' = "step"
    /\ bridge' = 0
    /\ UNCHANGED <<timer, readErrors, waitFailures, ingested, backlog, datagrams, dirty,
                   devVars, pollVars, closeVars, taskVars, bridging, udpOut, engineVars, hot>>

(* core.step and take_accepts: a step looks at every flow.                 *)
CoreStep ==
    /\ pc = "step"
    /\ pc' = "handover"
    /\ backlog' = backlog \o ingested
    /\ task' = [f \in Flows |-> IF f \in ToSet(ingested) THEN "queued" ELSE task[f]]
    /\ ingested' = <<>>
    /\ dirty' = {}
    /\ UNCHANGED <<timer, readErrors, waitFailures, datagrams, devVars, pollVars, closeVars,
                   waking, bridgeVars, engineVars, hot>>

(* One turn of the hand-over loop.  A flow that does not fit goes back to  *)
(* the front; a closed channel ends the loop, and the flow with it.        *)
HasRoom == Len(acceptQ) < AcceptDepth
Unfitting_Dropped == Tail(backlog)
Unfitting == backlog
HandOverFlow ==
    /\ pc = "handover"
    /\ backlog # <<>>
    /\ \/ /\ Running /\ HasRoom
          /\ acceptQ' = Append(acceptQ, Head(backlog))
          /\ backlog' = Tail(backlog)
          /\ UNCHANGED <<pc, timer, readErrors, waitFailures, ingested, datagrams, dirty,
                         pollVars, taskVars, bridgeVars>>
       \/ /\ Running /\ ~HasRoom
          /\ backlog' = Unfitting
          /\ pc' = "datagrams"
          /\ UNCHANGED <<timer, readErrors, waitFailures, ingested, datagrams, dirty, acceptQ,
                         pollVars, taskVars, bridgeVars>>
       \/ /\ ~Running
          /\ Exit
          /\ UNCHANGED <<waitFailures, notified, acceptQ, waking, bridging, udpOut>>
    /\ UNCHANGED <<devVars, closeVars, udpQ, engine, resolving, served, hot>>

HandOverDone ==
    /\ pc = "handover" /\ backlog = <<>>
    /\ pc' = "datagrams"
    /\ UNCHANGED <<timer, readErrors, waitFailures, ingested, backlog, datagrams, dirty,
                   devVars, pollVars, closeVars, taskVars, bridgeVars, engineVars, hot>>

(* The first query that does not fit ends the loop: the rest is dropped.   *)
HandOverDatagrams ==
    /\ pc = "datagrams"
    /\ pc' = "sleep"
    /\ datagrams' = 0
    /\ udpQ' = IF Running THEN AtMost(udpQ + datagrams, UdpDepth) ELSE udpQ
    /\ UNCHANGED <<timer, readErrors, waitFailures, ingested, backlog, dirty, devVars, pollVars,
                   closeVars, taskVars, bridgeVars, acceptQ, engine, resolving, served, hot>>

(* Step 5: the bound of the sleep, and the renewal of the registration,    *)
(* which is withheld from a device that keeps failing.  poll_delay may or  *)
(* may not name an instant.  A renewal that fails is logged, and leaves    *)
(* the loop to MAX_IDLE.                                                   *)
Retry_Never(b) == FALSE
Retry(b) == b # <<>>
Rearms_Always == TRUE
Rearms_Never == FALSE
Rearms == readErrors <= 1
PrepareSleep ==
    /\ pc = "sleep"
    /\ pc' = "wait"
    /\ \/ timer' = "core"
       \/ timer' = IF Retry(backlog) THEN "retry" ELSE "idle"
    /\ \/ deaf' = FALSE /\ armed' = (armed \/ Rearms)
       \/ MayBreak /\ Rearms /\ deaf' = TRUE /\ UNCHANGED armed
    /\ UNCHANGED <<readErrors, waitFailures, ingested, backlog, datagrams, dirty, device, broken,
                   unsent, notified, closeVars, taskVars, bridgeVars, engineVars, hot>>

Readable == device # <<>> \/ broken

Wake ==
    /\ pc = "wait"
    /\ pc' = "top"
    /\ waitFailures' = 0
    /\ UNCHANGED <<timer, readErrors, ingested, backlog, datagrams, dirty, devVars, closeVars,
                   taskVars, bridgeVars, engineVars>>

(* A notification, whether or not the device's event comes with it.        *)
WakeNotified ==
    /\ notified /\ Wake
    /\ notified' = FALSE
    /\ \/ UNCHANGED armed
       \/ armed /\ Readable /\ armed' = FALSE
    /\ UNCHANGED hot

(* The device's event disarms the one-shot registration.                   *)
WakeReadable ==
    /\ armed /\ Readable /\ Wake
    /\ armed' = FALSE
    /\ hot' = IF broken /\ readErrors > 0 THEN AtMost(hot + 1, HotCap) ELSE hot
    /\ UNCHANGED notified

(* A bound that poll_delay or BACKLOG_RETRY sets.                          *)
WakeTimer ==
    /\ timer # "idle" /\ Wake
    /\ hot' = 0
    /\ UNCHANGED pollVars

(* MAX_IDLE: nothing else bounds the sleep.                                *)
WakeIdle ==
    /\ timer = "idle" /\ Wake
    /\ hot' = 0
    /\ UNCHANGED pollVars

(* after_wait: back off and carry on, or give up.                          *)
WaitFails ==
    /\ pc = "wait"
    /\ waitFailures' = waitFailures + 1
    /\ IF waitFailures + 1 >= MaxWaitFailures
       THEN Exit /\ UNCHANGED <<notified, waking, bridging, udpOut>>
       ELSE pc' = "top" /\ UNCHANGED <<timer, readErrors, ingested, backlog, datagrams, dirty,
                                       pollVars, taskVars, bridgeVars>>
    /\ hot' = 0
    /\ UNCHANGED <<devVars, closeVars, engineVars>>

Loop == \/ CheckShutdown \/ DrainPacket \/ DrainDone \/ DrainBridge \/ CoreStep
        \/ HandOverFlow \/ HandOverDone \/ HandOverDatagrams \/ PrepareSleep
        \/ WakeNotified \/ WakeReadable \/ WakeTimer

----------------------------------------------------------------------------
(* The applications and the device.                                        *)

OpenFlow(f) ==
    /\ f \in unsent.flows
    /\ unsent' = [unsent EXCEPT !.flows = @ \ {f}]
    /\ device' = Append(device, f)
    /\ UNCHANGED <<loopVars, broken, deaf, pollVars, closeVars, taskVars, bridgeVars, engineVars,
                   hot>>

SendQuery ==
    /\ unsent.queries > 0
    /\ unsent' = [unsent EXCEPT !.queries = @ - 1]
    /\ device' = Append(device, Dns)
    /\ UNCHANGED <<loopVars, broken, deaf, pollVars, closeVars, taskVars, bridgeVars, engineVars,
                   hot>>

(* Reads start, or stop, failing.                                          *)
DeviceFlips ==
    /\ MayBreak
    /\ broken' = ~broken
    /\ UNCHANGED <<loopVars, device, deaf, unsent, pollVars, closeVars, taskVars, bridgeVars,
                   engineVars, hot>>

----------------------------------------------------------------------------
(* Everything that wakes the loop does two things: it changes what the     *)
(* loop will look at, and it wakes the loop.  The order is the code's.     *)
Change == "change"
Alert == "alert"
TwoHalves_WakeFirst == <<Alert, Change>>
TwoHalves == <<Change, Alert>>

Live == pc # "exited"

(* LocalStream: a write, a read that frees a slot, a shutdown or the drop. *)
StreamHalf(f, half) ==
    \/ /\ half = Change
       /\ dirty' = IF Live THEN dirty \cup {f} ELSE dirty
       /\ UNCHANGED notified
    \/ /\ half = Alert
       /\ notified' = TRUE
       /\ UNCHANGED dirty

StreamChange(f) ==
    /\ task[f] = "proxying" /\ f \notin waking
    /\ StreamHalf(f, TwoHalves[1])
    /\ waking' = waking \cup {f}
    /\ \/ UNCHANGED task
       \/ task' = [task EXCEPT ![f] = "dropping"]
    /\ UNCHANGED <<pc, timer, readErrors, waitFailures, ingested, backlog, datagrams,
                   devVars, armed, closeVars, bridgeVars, engineVars, hot>>

StreamWake(f) ==
    /\ f \in waking
    /\ StreamHalf(f, TwoHalves[2])
    /\ waking' = waking \ {f}
    /\ task' = [task EXCEPT ![f] = IF @ = "dropping" THEN "done" ELSE @]
    /\ UNCHANGED <<pc, timer, readErrors, waitFailures, ingested, backlog, datagrams,
                   devVars, armed, closeVars, bridgeVars, engineVars, hot>>

(* ShutdownHandle::shutdown: store the flag, then wake.                    *)
ShutdownHalf_WakeFirst(half) ==
    \/ half = Alert /\ flag' = TRUE /\ UNCHANGED notified
    \/ half = Change /\ notified' = TRUE /\ UNCHANGED flag
ShutdownHalf(half) ==
    \/ half = Change /\ flag' = TRUE /\ UNCHANGED notified
    \/ half = Alert /\ notified' = TRUE /\ UNCHANGED flag

ShutdownStore ==
    /\ closer = "idle"
    /\ closer' = "stored"
    /\ ShutdownHalf(Change)
    /\ UNCHANGED <<loopVars, devVars, armed, taskVars, bridgeVars, engineVars, hot>>

ShutdownWake ==
    /\ closer = "stored"
    /\ closer' = "done"
    /\ ShutdownHalf(Alert)
    /\ UNCHANGED <<loopVars, devVars, armed, taskVars, bridgeVars, engineVars, hot>>

(* The bridge: a reply moves to the std channel, then the loop is woken.   *)
(* It ends when the stack thread is gone, or udp_outbound has no sender.   *)
BridgeSend ==
    /\ bridging = "recv" /\ udpOut > 0
    /\ udpOut' = udpOut - 1
    /\ IF Live THEN bridge' = bridge + 1 /\ bridging' = "wake"
               ELSE bridging' = "gone" /\ UNCHANGED bridge
    /\ UNCHANGED <<pc, timer, readErrors, waitFailures, ingested, backlog, datagrams, dirty,
                   devVars, pollVars, closeVars, taskVars, engineVars, hot>>

BridgeWakes_Not(n) == n
BridgeWakes(n) == TRUE
BridgeWake ==
    /\ bridging = "wake"
    /\ bridging' = "recv"
    /\ notified' = BridgeWakes(notified)
    /\ UNCHANGED <<loopVars, devVars, armed, closeVars, taskVars, bridge, udpOut, engineVars, hot>>

----------------------------------------------------------------------------
(* Engine::run, its tasks, and the end of both.                            *)

(* The next flow off tcp_accept, or the end of the channel.                *)
TakeFlow ==
    /\ Running /\ engine.tcpOpen
    /\ \/ /\ acceptQ # <<>>
          /\ acceptQ' = Tail(acceptQ)
          /\ served' = Append(served, Head(acceptQ))
          /\ task' = [task EXCEPT ![Head(acceptQ)] = "proxying"]
          /\ UNCHANGED engine
       \/ /\ acceptQ = <<>> /\ ~Live
          /\ engine' = [engine EXCEPT !.tcpOpen = FALSE]
          /\ UNCHANGED <<acceptQ, served, task>>
    /\ UNCHANGED <<loopVars, devVars, pollVars, closeVars, waking, bridgeVars, udpQ,
                   resolving, hot>>

TakeQuery ==
    /\ Running /\ engine.udpOpen
    /\ \/ /\ udpQ > 0
          /\ udpQ' = udpQ - 1
          /\ resolving' = resolving + 1
          /\ UNCHANGED engine
       \/ /\ udpQ = 0 /\ ~Live
          /\ engine' = [engine EXCEPT !.udpOpen = FALSE]
          /\ UNCHANGED <<udpQ, resolving>>
    /\ UNCHANGED <<loopVars, devVars, pollVars, closeVars, taskVars, bridgeVars, acceptQ,
                   served, hot>>

KeepsRunning_Both(e) == e.tcpOpen /\ e.udpOpen
KeepsRunning(e) == e.tcpOpen \/ e.udpOpen
EngineFinish ==
    /\ Running /\ ~KeepsRunning(engine)
    /\ engine' = [engine EXCEPT !.state = "finished"]
    /\ UNCHANGED <<loopVars, devVars, pollVars, closeVars, taskVars, bridgeVars, acceptQ, udpQ,
                   resolving, served, hot>>

(* Tunnel's Drop aborts the task: the receivers go, and the queued flows   *)
(* with them, whose LocalStreams wake the loop.  resolve_one and proxy_one *)
(* are tasks of their own and carry on.                                    *)
EngineAbort ==
    /\ Running /\ closer = "done"
    /\ engine' = [engine EXCEPT !.state = "aborted"]
    /\ acceptQ' = <<>> /\ udpQ' = 0
    /\ task' = [f \in Flows |-> IF f \in ToSet(acceptQ) THEN "done" ELSE task[f]]
    /\ dirty' = IF Live THEN dirty \cup ToSet(acceptQ) ELSE dirty
    /\ notified' = (notified \/ acceptQ # <<>>)
    /\ UNCHANGED <<pc, timer, readErrors, waitFailures, ingested, backlog, datagrams, devVars,
                   armed, closeVars, waking, bridgeVars, resolving, served, hot>>

(* resolve_one: an answer waits for room on udp_outbound; a failure, or a  *)
(* bridge that is gone, is the end of the query.                           *)
Resolve ==
    /\ resolving > 0
    /\ resolving' = resolving - 1
    /\ \/ bridging # "gone" /\ udpOut < UdpDepth /\ udpOut' = udpOut + 1
       \/ UNCHANGED udpOut
    /\ UNCHANGED <<loopVars, devVars, pollVars, closeVars, taskVars, bridge, bridging, acceptQ,
                   udpQ, engine, served, hot>>

----------------------------------------------------------------------------
Wakers == \/ \E f \in Flows : StreamWake(f)
          \/ ShutdownWake
          \/ BridgeSend \/ BridgeWake

EngineMoves == TakeFlow \/ TakeQuery \/ EngineFinish

Next == \/ Loop \/ WakeIdle \/ WaitFails
        \/ Wakers \/ EngineMoves \/ EngineAbort \/ Resolve
        \/ \E f \in Flows : OpenFlow(f) \/ StreamChange(f)
        \/ SendQuery \/ DeviceFlips
        \/ ShutdownStore

Spec == Init /\ [][Next]_vars

(* The thread runs, tasks that have begun to wake it finish, the engine    *)
(* serves its channels.  MAX_IDLE is a backstop, not a mechanism: nothing  *)
(* may depend on it, so WakeIdle is not fair.  The one exception is a      *)
(* device whose registration is not renewed: withheld because its reads    *)
(* keep failing, or because the renewal itself failed.                     *)
Fairness ==
    /\ WF_vars(Loop)
    /\ \A f \in Flows : WF_vars(StreamWake(f))
    /\ WF_vars(ShutdownWake)
    /\ WF_vars(BridgeSend \/ BridgeWake)
    /\ WF_vars(TakeFlow) /\ WF_vars(TakeQuery) /\ WF_vars(EngineFinish)
FairSpec == Spec /\ Fairness /\ WF_vars((readErrors > 1 \/ deaf) /\ WakeIdle)
NoBackstopSpec == Spec /\ Fairness

----------------------------------------------------------------------------
(* Safety.                                                                 *)

(* No lost wakeup: whenever the loop is asleep, everything it has not seen *)
(* yet is announced by a pending notification, or by somebody who is about *)
(* to raise one, or by the descriptor it is listening to, unless listening *)
(* to it has just failed or is withheld.                                   *)
NoLostWakeup ==
    pc = "wait" =>
        /\ \A f \in dirty : notified \/ f \in waking
        /\ bridge > 0 => notified \/ bridging = "wake"
        /\ flag => notified \/ closer = "stored"
        /\ device # <<>> => armed \/ readErrors > 1 \/ deaf
        /\ backlog # <<>> => timer # "idle"

(* A device whose every read fails costs one immediate retry: it can never *)
(* make the loop spin.                                                     *)
FailingDeviceNeverSpins == hot <= 1

(* Whichever channel closes first, nothing queued on the other is lost: an *)
(* engine that ends by itself has served everything it was handed.         *)
FinishedEngineServedAll ==
    engine.state = "finished" => acceptQ = <<>> /\ udpQ = 0

(* Accepted flows reach the engine in order, each once, whatever the depth *)
(* of the channel: backlog and channel together are one FIFO queue.        *)
handOver == IF Running THEN acceptQ \o backlog ELSE <<>>
Queue == INSTANCE FlowQueue WITH
            queue <- handOver,
            putting <- Live, taking <- Running
HandOverIsFifo == Queue!Spec

(* ------------------------------------------------------------------------*)
(* Liveness.                                                               *)

(* What a tunnel task does to its LocalStream is seen by a later step.     *)
StreamChangesSeen == \A f \in Flows : f \in dirty ~> f \notin dirty

(* A shutdown ends the loop, and the loop's end, whatever it came from,    *)
(* ends the engine (Engine::run, StoppedOnDrop).                           *)
ShutdownStops == flag ~> pc = "exited"
EngineEndsWithStack == pc = "exited" ~> ~Running
AllStopTogether == ShutdownStops /\ EngineEndsWithStack

(* Packets are read, however they arrive and however many.                 *)
PacketsRead == device # <<>> ~> device = <<>> \/ broken \/ pc = "exited"

(* A flow that did not fit the channel is handed over once there is room.  *)
BacklogDrains == backlog # <<>> ~> backlog = <<>>
=============================================================================
