--------------------------- MODULE StackLoop_proofs ---------------------------
(***************************************************************************)
(* Theorems about StackLoop, for any number of flows, any channel depths,  *)
(* any batch size and any device: types, the absence of lost wakeups, the  *)
(* cost of a failing device, what a finished engine has served, and the    *)
(* refinement of FlowQueue by the hand-over of accepted flows.             *)
(***************************************************************************)
EXTENDS StackLoop, TLAPS, SequenceTheorems

(* The constants, in the form the arithmetic leaves need.                  *)
LEMMA Depths ==
    /\ AcceptDepth \in Nat /\ AcceptDepth > 0
    /\ UdpDepth \in Nat /\ UdpDepth > 0
    /\ DrainBatch \in Nat /\ DrainBatch > 0
    /\ MaxWaitFailures \in Nat /\ MaxWaitFailures > 0
    /\ MaxQueries \in Nat
  BY StackLoopAssumption

(* Leaving the loop keeps every variable it assigns in its type.           *)
LEMMA ExitType ==
    ASSUME TypeOK, Exit
    PROVE  /\ pc' = "exited" /\ backlog' \in Seq(Flows) /\ ingested' \in Seq(Flows)
           /\ datagrams' \in Nat /\ dirty' \in SUBSET Flows /\ bridge' \in Nat
           /\ armed' \in BOOLEAN /\ timer' = timer /\ readErrors' = readErrors
           /\ task' \in [Flows -> {"none", "queued", "proxying", "dropping", "done"}]
  BY EmptySeq DEF Exit, TypeOK

----------------------------------------------------------------------------
(* Types.                                                                  *)

(* The look at the shutdown flag.                                          *)
LEMMA CheckShutdownTypes == ASSUME TypeOK, CheckShutdown PROVE TypeOK'
<1>1. CASE flag
  BY SMTT(30), <1>1, ExitType DEF CheckShutdown, TypeOK, devVars, closeVars, engineVars
<1>2. CASE ~flag
  BY <1>2
  DEF CheckShutdown, TypeOK, devVars, closeVars, engineVars, pollVars, taskVars, bridgeVars
<1>. QED  BY <1>1, <1>2

(* The draining of the device and of the bridge's replies.                 *)
LEMMA DrainTypes ==
    ASSUME TypeOK, DrainPacket \/ DrainDone \/ DrainBridge
    PROVE  TypeOK'
<1>1. CASE DrainPacket
  <2>1. device \in Seq(Packet) /\ device # <<>> /\ ingested \in Seq(Flows) /\ datagrams \in Nat
    BY <1>1 DEF DrainPacket, TypeOK
  <2>2. device' \in Seq(Packet)
    BY <1>1, <2>1, HeadTailProperties DEF DrainPacket
  <2>3. ingested' \in Seq(Flows)
    <3>1. CASE Head(device) \in Flows
      <4>1. ingested' = Append(ingested, Head(device))
        BY <1>1, <3>1 DEF DrainPacket
      <4>. QED  BY <2>1, <3>1, <4>1, AppendProperties
    <3>2. CASE Head(device) \notin Flows
      BY <1>1, <2>1, <3>2 DEF DrainPacket
    <3>. QED  BY <3>1, <3>2
  <2>4. datagrams' \in Nat
    <3>1. datagrams' = datagrams \/ datagrams' = datagrams + 1
      BY <1>1 DEF DrainPacket
    <3>. QED  BY <2>1, <3>1
  <2>5. UNCHANGED <<pc, timer, readErrors, waitFailures, backlog, dirty, broken, deaf,
                    unsent, pollVars, closeVars, taskVars, bridgeVars, engineVars, hot>>
    BY <1>1 DEF DrainPacket
  <2>. QED
    BY <2>2, <2>3, <2>4, <2>5
    DEF TypeOK, pollVars, closeVars, taskVars, bridgeVars, engineVars
<1>2. CASE DrainDone
  <2>1. readErrors \in 0 .. 2 => AtMost(readErrors + 1, 2) \in 0 .. 2
    BY DEF AtMost
  <2>2. readErrors' \in 0 .. ErrCap /\ hot' \in 0 .. HotCap
    BY SMTT(30), <1>2, <2>1 DEF DrainDone, TypeOK, ErrCap, HotCap
  <2>. QED
    BY SMTT(30), <1>2, <2>2
    DEF DrainDone, TypeOK, devVars, pollVars, closeVars, taskVars, bridgeVars, engineVars
<1>3. CASE DrainBridge
  BY <1>3 DEF DrainBridge, TypeOK, devVars, pollVars, closeVars, taskVars, engineVars
<1>. QED  BY <1>1, <1>2, <1>3

(* A poll of the core.                                                     *)
LEMMA CoreStepTypes == ASSUME TypeOK, CoreStep PROVE TypeOK'
<1>1. backlog' \in Seq(Flows) /\ ingested' \in Seq(Flows)
  BY ConcatProperties, EmptySeq DEF CoreStep, TypeOK
<1>2. task' \in [Flows -> {"none", "queued", "proxying", "dropping", "done"}]
  BY DEF CoreStep, TypeOK
<1>. QED
  BY <1>1, <1>2 DEF CoreStep, TypeOK, devVars, pollVars, closeVars, bridgeVars, engineVars

(* What the loop hands to the engine, flows and then datagrams.            *)
LEMMA HandOverTypes ==
    ASSUME TypeOK, HandOverFlow \/ HandOverDone \/ HandOverDatagrams
    PROVE  TypeOK'
<1>1. CASE HandOverFlow
  <2>. backlog \in Seq(Flows) /\ backlog # <<>> /\ acceptQ \in Seq(Flows)
    BY <1>1 DEF HandOverFlow, TypeOK
  <2>. Len(acceptQ) \in Nat /\ Len(acceptQ) <= AcceptDepth
    BY LenProperties DEF TypeOK
  <2>1. CASE Running /\ HasRoom /\ acceptQ' = Append(acceptQ, Head(backlog))
             /\ backlog' = Tail(backlog)
             /\ UNCHANGED <<pc, timer, readErrors, waitFailures, ingested, datagrams, dirty,
                            pollVars, taskVars, bridgeVars>>
    <3>1. backlog' \in Seq(Flows) /\ Head(backlog) \in Flows
      BY <2>1, HeadTailProperties
    <3>2. acceptQ' \in Seq(Flows) /\ Len(acceptQ') = Len(acceptQ) + 1
      BY <2>1, <3>1, AppendProperties
    <3>3. Len(acceptQ') <= AcceptDepth
      BY <2>1, <3>2, Depths DEF HasRoom
    <3>. QED
      BY <1>1, <2>1, <3>1, <3>2, <3>3
      DEF HandOverFlow, TypeOK, devVars, closeVars, pollVars, taskVars, bridgeVars
  <2>2. CASE Running /\ ~HasRoom /\ backlog' = Unfitting /\ pc' = "datagrams"
             /\ UNCHANGED <<timer, readErrors, waitFailures, ingested, datagrams, dirty, acceptQ,
                            pollVars, taskVars, bridgeVars>>
    BY <1>1, <2>2
    DEF HandOverFlow, TypeOK, Unfitting, devVars, closeVars, pollVars, taskVars, bridgeVars
  <2>3. CASE ~Running /\ Exit /\ UNCHANGED <<waitFailures, notified, acceptQ, waking, bridging,
                                             udpOut>>
    BY SMTT(30), <1>1, <2>3, ExitType DEF HandOverFlow, TypeOK, devVars, closeVars
  <2>. QED  BY <1>1, <2>1, <2>2, <2>3 DEF HandOverFlow
<1>2. CASE HandOverDone
  BY <1>2 DEF HandOverDone, TypeOK, devVars, pollVars, closeVars, taskVars, bridgeVars, engineVars
<1>3. CASE HandOverDatagrams
  <2>1. udpQ' \in 0 .. UdpDepth
    BY <1>3, Depths DEF HandOverDatagrams, TypeOK, AtMost
  <2>. QED
    BY <1>3, <2>1
    DEF HandOverDatagrams, TypeOK, devVars, pollVars, closeVars, taskVars, bridgeVars
<1>. QED  BY <1>1, <1>2, <1>3

(* The ways into and out of the wait.                                      *)
LEMMA SleepTypes ==
    ASSUME TypeOK,
           PrepareSleep \/ WakeNotified \/ WakeReadable \/ WakeTimer \/ WakeIdle \/ WaitFails
    PROVE  TypeOK'
<1>1. CASE PrepareSleep
  <2>1. timer' \in {"idle", "core", "retry"} /\ armed' \in BOOLEAN /\ deaf' \in BOOLEAN
    BY <1>1 DEF PrepareSleep, TypeOK
  <2>. QED
    BY <1>1, <2>1 DEF PrepareSleep, TypeOK, closeVars, taskVars, bridgeVars, engineVars
<1>2. ASSUME Wake, notified' \in BOOLEAN, armed' \in BOOLEAN, hot' \in 0 .. HotCap
      PROVE  TypeOK'
  BY <1>2, Depths DEF Wake, TypeOK, devVars, closeVars, taskVars, bridgeVars, engineVars
<1>3. hot \in 0 .. HotCap => 0 \in 0 .. HotCap /\ AtMost(hot + 1, HotCap) \in 0 .. HotCap
  BY DEF AtMost, HotCap
<1>4. CASE WakeNotified
  BY <1>2, <1>4 DEF WakeNotified, TypeOK
<1>5. CASE WakeReadable
  BY <1>2, <1>3, <1>5 DEF WakeReadable, TypeOK
<1>6. CASE WakeTimer
  BY <1>2, <1>3, <1>6 DEF WakeTimer, TypeOK, pollVars
<1>7. CASE WakeIdle
  BY <1>2, <1>3, <1>7 DEF WakeIdle, TypeOK, pollVars
<1>8. CASE WaitFails
  <2>1. hot' \in 0 .. HotCap
    BY <1>3, <1>8 DEF WaitFails, TypeOK
  <2>2. waitFailures + 1 \in 0 .. MaxWaitFailures
    BY <1>8, Depths DEF WaitFails, TypeOK
  <2>3. CASE waitFailures + 1 >= MaxWaitFailures
    BY SMTT(30), <1>8, <2>1, <2>2, <2>3, ExitType, Depths
    DEF WaitFails, TypeOK, devVars, closeVars, engineVars
  <2>4. CASE ~(waitFailures + 1 >= MaxWaitFailures)
    <3>1. waitFailures + 1 # MaxWaitFailures
      BY <2>2, <2>4, Depths
    <3>. QED
      BY <1>8, <2>1, <2>2, <2>4, <3>1
      DEF WaitFails, TypeOK, devVars, closeVars, engineVars, pollVars, taskVars, bridgeVars
  <2>. QED  BY <2>3, <2>4
<1>. QED  BY <1>1, <1>4, <1>5, <1>6, <1>7, <1>8

(* Applications and the device.                                            *)
LEMMA OutsideTypes ==
    ASSUME TypeOK, (\E f \in Flows : OpenFlow(f)) \/ SendQuery \/ DeviceFlips
    PROVE  TypeOK'
<1>. Dns \in Packet /\ device \in Seq(Packet) /\ unsent \in [flows : SUBSET Flows,
                                                             queries : 0 .. MaxQueries]
  BY DEF TypeOK, Packet
<1>1. ASSUME NEW f \in Flows, OpenFlow(f)  PROVE TypeOK'
  <2>1. device' \in Seq(Packet)
    BY <1>1, AppendProperties DEF OpenFlow, Packet
  <2>2. unsent' \in [flows : SUBSET Flows, queries : 0 .. MaxQueries]
    BY <1>1 DEF OpenFlow
  <2>. QED
    BY SMTT(30), <1>1, <2>1, <2>2
    DEF OpenFlow, TypeOK, loopVars, pollVars, closeVars, taskVars, bridgeVars, engineVars
<1>2. CASE SendQuery
  <2>1. device' \in Seq(Packet)
    BY <1>2, AppendProperties DEF SendQuery
  <2>2. unsent.queries - 1 \in 0 .. MaxQueries
    BY <1>2, Depths DEF SendQuery
  <2>3. unsent' \in [flows : SUBSET Flows, queries : 0 .. MaxQueries]
    BY <1>2, <2>2 DEF SendQuery
  <2>4. UNCHANGED <<loopVars, broken, deaf, pollVars, closeVars, taskVars, bridgeVars, engineVars,
                    hot>>
    BY <1>2 DEF SendQuery
  <2>. QED
    BY <2>1, <2>3, <2>4
    DEF TypeOK, loopVars, pollVars, closeVars, taskVars, bridgeVars, engineVars
<1>3. CASE DeviceFlips
  BY <1>3
  DEF DeviceFlips, TypeOK, loopVars, pollVars, closeVars, taskVars, bridgeVars, engineVars
<1>. QED  BY <1>1, <1>2, <1>3

(* The two halves, in the code's order.                                    *)
LEMMA Halves ==
    /\ TwoHalves[1] = Change /\ TwoHalves[2] = Alert /\ Change # Alert
  BY DEF TwoHalves, Change, Alert

(* A stream or a shutdown changes something, and then wakes the loop.      *)
LEMMA WakerTypes ==
    ASSUME TypeOK,
           \/ \E f \in Flows : StreamChange(f) \/ StreamWake(f)
           \/ ShutdownStore \/ ShutdownWake
           \/ BridgeSend \/ BridgeWake
    PROVE  TypeOK'
<1>1. ASSUME NEW f \in Flows, StreamChange(f)  PROVE TypeOK'
  <2>1. dirty' \in SUBSET Flows /\ notified' = notified
    BY <1>1, Halves DEF StreamChange, StreamHalf, TypeOK
  <2>2. task' \in [Flows -> {"none", "queued", "proxying", "dropping", "done"}]
    BY <1>1 DEF StreamChange, TypeOK
  <2>. QED
    BY <1>1, <2>1, <2>2 DEF StreamChange, TypeOK, devVars, closeVars, bridgeVars, engineVars
<1>2. ASSUME NEW f \in Flows, StreamWake(f)  PROVE TypeOK'
  <2>1. dirty' = dirty /\ notified' = TRUE
    BY <1>2, Halves DEF StreamWake, StreamHalf
  <2>2. task' \in [Flows -> {"none", "queued", "proxying", "dropping", "done"}]
    BY <1>2 DEF StreamWake, TypeOK
  <2>. QED
    BY <1>2, <2>1, <2>2 DEF StreamWake, TypeOK, devVars, closeVars, bridgeVars, engineVars
<1>3. CASE ShutdownStore
  <2>1. flag' \in BOOLEAN /\ notified' \in BOOLEAN /\ closer' \in {"idle", "stored", "done"}
    BY <1>3, Halves DEF ShutdownStore, ShutdownHalf, TypeOK
  <2>. QED
    BY <1>3, <2>1
    DEF ShutdownStore, TypeOK, loopVars, devVars, taskVars, bridgeVars, engineVars
<1>4. CASE ShutdownWake
  <2>1. flag' \in BOOLEAN /\ notified' \in BOOLEAN /\ closer' \in {"idle", "stored", "done"}
    BY <1>4, Halves DEF ShutdownWake, ShutdownHalf, TypeOK
  <2>. QED
    BY <1>4, <2>1
    DEF ShutdownWake, TypeOK, loopVars, devVars, taskVars, bridgeVars, engineVars
<1>5. CASE BridgeSend
  <2>1. udpOut' \in 0 .. UdpDepth /\ bridge' \in Nat
    BY <1>5, Depths DEF BridgeSend, TypeOK
  <2>. QED
    BY <1>5, <2>1 DEF BridgeSend, TypeOK, devVars, pollVars, closeVars, taskVars, engineVars
<1>6. CASE BridgeWake
  BY <1>6
  DEF BridgeWake, BridgeWakes, TypeOK, loopVars, devVars, closeVars, taskVars, engineVars
<1>. QED  BY <1>1, <1>2, <1>3, <1>4, <1>5, <1>6

(* The engine's tasks.                                                     *)
LEMMA EngineTypes ==
    ASSUME TypeOK, TakeFlow \/ TakeQuery \/ EngineFinish \/ EngineAbort \/ Resolve
    PROVE  TypeOK'
<1>. engine \in [state : {"running", "finished", "aborted"}, tcpOpen : BOOLEAN,
                 udpOpen : BOOLEAN]
  BY DEF TypeOK
<1>1. CASE TakeFlow
  <2>1. CASE acceptQ # <<>> /\ acceptQ' = Tail(acceptQ)
             /\ served' = Append(served, Head(acceptQ))
             /\ task' = [task EXCEPT ![Head(acceptQ)] = "proxying"] /\ UNCHANGED engine
    <3>. acceptQ \in Seq(Flows) /\ acceptQ # <<>> /\ served \in Seq(Flows)
      BY <2>1 DEF TypeOK
    <3>1. acceptQ' \in Seq(Flows) /\ Len(acceptQ') = Len(acceptQ) - 1 /\ Head(acceptQ) \in Flows
      BY <2>1, HeadTailProperties
    <3>2. Len(acceptQ') <= AcceptDepth
      BY <3>1, LenProperties, Depths DEF TypeOK
    <3>3. served' \in Seq(Flows)
      BY <2>1, <3>1, AppendProperties
    <3>4. task' \in [Flows -> {"none", "queued", "proxying", "dropping", "done"}]
      BY <2>1, <3>1 DEF TypeOK
    <3>5. UNCHANGED <<engine, loopVars, devVars, pollVars, closeVars, waking, bridgeVars, udpQ,
                      resolving, hot>>
      BY <1>1, <2>1 DEF TakeFlow
    <3>. QED
      BY <3>1, <3>2, <3>3, <3>4, <3>5
      DEF TypeOK, loopVars, devVars, pollVars, closeVars, bridgeVars
  <2>2. CASE engine' = [engine EXCEPT !.tcpOpen = FALSE] /\ UNCHANGED <<acceptQ, served, task>>
    <3>1. engine' \in [state : {"running", "finished", "aborted"}, tcpOpen : BOOLEAN,
                       udpOpen : BOOLEAN]
      BY <2>2
    <3>2. UNCHANGED <<acceptQ, served, task, loopVars, devVars, pollVars, closeVars, waking,
                      bridgeVars, udpQ, resolving, hot>>
      BY <1>1, <2>2 DEF TakeFlow
    <3>. QED
      BY <3>1, <3>2 DEF TypeOK, loopVars, devVars, pollVars, closeVars, bridgeVars
  <2>. QED  BY <1>1, <2>1, <2>2 DEF TakeFlow
<1>2. CASE TakeQuery
  <2>1. udpQ' \in 0 .. UdpDepth /\ resolving' \in Nat
    <3>1. \/ udpQ > 0 /\ udpQ' = udpQ - 1 /\ resolving' = resolving + 1
          \/ udpQ' = udpQ /\ resolving' = resolving
      BY <1>2 DEF TakeQuery
    <3>. QED  BY SMTT(30), <3>1, Depths DEF TypeOK
  <2>2. engine' \in [state : {"running", "finished", "aborted"}, tcpOpen : BOOLEAN,
                     udpOpen : BOOLEAN]
    BY <1>2 DEF TakeQuery
  <2>3. UNCHANGED <<loopVars, devVars, pollVars, closeVars, taskVars, bridgeVars, acceptQ,
                    served, hot>>
    BY <1>2 DEF TakeQuery
  <2>. QED
    BY <2>1, <2>2, <2>3
    DEF TypeOK, loopVars, devVars, pollVars, closeVars, taskVars, bridgeVars
<1>3. CASE EngineFinish
  <2>1. engine' \in [state : {"running", "finished", "aborted"}, tcpOpen : BOOLEAN,
                     udpOpen : BOOLEAN]
    BY <1>3 DEF EngineFinish
  <2>2. UNCHANGED <<loopVars, devVars, pollVars, closeVars, taskVars, bridgeVars, acceptQ,
                    udpQ, resolving, served, hot>>
    BY <1>3 DEF EngineFinish
  <2>. QED
    BY <2>1, <2>2
    DEF TypeOK, loopVars, devVars, pollVars, closeVars, taskVars, bridgeVars
<1>4. CASE EngineAbort
  <2>1. engine' \in [state : {"running", "finished", "aborted"}, tcpOpen : BOOLEAN,
                     udpOpen : BOOLEAN]
    BY <1>4 DEF EngineAbort
  <2>2. ToSet(acceptQ) \in SUBSET Flows
    BY ElementOfSeq, LenProperties DEF ToSet, TypeOK
  <2>3. acceptQ' \in Seq(Flows) /\ Len(acceptQ') = 0 /\ udpQ' \in 0 .. UdpDepth
    BY <1>4, EmptySeq, Depths DEF EngineAbort
  <2>4. dirty' \in SUBSET Flows /\ notified' \in BOOLEAN
    BY <1>4, <2>2 DEF EngineAbort, TypeOK
  <2>5. task' \in [Flows -> {"none", "queued", "proxying", "dropping", "done"}]
    BY <1>4 DEF EngineAbort, TypeOK
  <2>6. UNCHANGED <<pc, timer, readErrors, waitFailures, ingested, backlog, datagrams, devVars,
                    armed, closeVars, waking, bridgeVars, resolving, served, hot>>
    BY <1>4 DEF EngineAbort
  <2>7. Len(acceptQ') <= AcceptDepth
    BY <2>3, Depths
  <2>. QED
    BY <2>1, <2>3, <2>4, <2>5, <2>6, <2>7 DEF TypeOK, devVars, closeVars, bridgeVars
<1>5. CASE Resolve
  <2>1. resolving' \in Nat /\ udpOut' \in 0 .. UdpDepth
    BY SMTT(30), <1>5, Depths DEF Resolve, TypeOK
  <2>. QED
    BY <1>5, <2>1 DEF Resolve, TypeOK, loopVars, devVars, pollVars, closeVars, taskVars
<1>. QED  BY <1>1, <1>2, <1>3, <1>4, <1>5

(* Every step keeps the types.                                             *)
LEMMA TypeStep == TypeOK /\ [Next]_vars => TypeOK'
<1>. SUFFICES ASSUME TypeOK, [Next]_vars  PROVE TypeOK'
  OBVIOUS
<1>1. CASE Next
  BY <1>1, CheckShutdownTypes, DrainTypes, CoreStepTypes, HandOverTypes, SleepTypes,
     OutsideTypes, WakerTypes, EngineTypes
  DEF Next, Loop, Wakers, EngineMoves
<1>2. CASE UNCHANGED vars
  BY <1>2 DEF TypeOK, vars, loopVars, devVars, pollVars, closeVars, taskVars, bridgeVars,
              engineVars
<1>. QED  BY <1>1, <1>2

(* Types hold from the start.                                              *)
LEMMA TypeInit == Init => TypeOK
<1>. SUFFICES ASSUME Init  PROVE TypeOK
  OBVIOUS
<1>1. /\ ingested \in Seq(Flows) /\ backlog \in Seq(Flows) /\ device \in Seq(Packet)
      /\ acceptQ \in Seq(Flows) /\ Len(acceptQ) = 0 /\ served \in Seq(Flows)
  BY EmptySeq DEF Init
<1>2. engine \in [state : {"running", "finished", "aborted"}, tcpOpen : BOOLEAN,
                  udpOpen : BOOLEAN]
  BY DEF Init
<1>3. unsent \in [flows : SUBSET Flows, queries : 0 .. MaxQueries]
  BY Depths DEF Init
<1>4. 0 \in 0 .. AcceptDepth /\ 0 \in 0 .. UdpDepth /\ 0 \in 0 .. ErrCap /\ 0 \in 0 .. HotCap
      /\ 0 \in 0 .. MaxWaitFailures /\ 0 # MaxWaitFailures /\ 0 <= AcceptDepth
  BY Depths DEF ErrCap, HotCap
<1>. QED
  BY <1>1, <1>2, <1>3, <1>4 DEF Init, TypeOK

(* TypeOK: every variable of the loop, of the channels and of the engine   *)
(* stays in its type; the channels never hold more than their depth.       *)
THEOREM LoopTypeCorrect == Spec => []TypeOK
  BY TypeInit, TypeStep, PTL DEF Spec

----------------------------------------------------------------------------
(* No lost wakeup.  It is not inductive as stated, because it speaks only  *)
(* of the moment of sleeping: what is announced must be announced from the *)
(* statement on at which the loop last looked; and the descriptor must be  *)
(* listened to even before a packet arrives on it, unless listening to it  *)
(* failed or is withheld.                                                  *)

AfterStep == {"handover", "datagrams", "sleep", "wait"}
AfterBridge == {"step"} \cup AfterStep
AfterFlag == {"drain", "bridge"} \cup AfterBridge

Announced ==
    /\ pc \in AfterStep => \A f \in dirty : notified \/ f \in waking
    /\ pc \in AfterBridge /\ bridge > 0 => notified \/ bridging = "wake"
    /\ pc \in AfterFlag /\ flag => notified \/ closer = "stored"
    /\ pc = "wait" => armed \/ readErrors > 1 \/ deaf
    /\ pc = "wait" /\ backlog # <<>> => timer # "idle"

(* Nothing has changed yet that is not announced.                          *)
LEMMA AnnouncedInit == Init => Announced
  BY DEF Init, Announced, AfterStep, AfterBridge, AfterFlag

(* The statements of the loop: each looks at its own part of the state.    *)
LEMMA AnnouncedLoop ==
    ASSUME TypeOK, Announced, Loop \/ WakeIdle \/ WaitFails
    PROVE  Announced'
<1>. USE DEF Announced, AfterStep, AfterBridge, AfterFlag
<1>1. CASE CheckShutdown
  BY <1>1 DEF CheckShutdown, Exit, loopVars, devVars, closeVars
<1>2. CASE DrainPacket
  BY <1>2 DEF DrainPacket, pollVars, closeVars, taskVars, bridgeVars
<1>3. CASE DrainDone
  BY <1>3 DEF DrainDone, devVars, pollVars, closeVars, taskVars, bridgeVars
<1>4. CASE DrainBridge
  BY <1>4 DEF DrainBridge, devVars, pollVars, closeVars, taskVars
<1>5. CASE CoreStep
  BY <1>5 DEF CoreStep, devVars, pollVars, closeVars, bridgeVars
<1>6. CASE HandOverFlow
  BY <1>6 DEF HandOverFlow, Exit, devVars, pollVars, closeVars, taskVars, bridgeVars
<1>7. CASE HandOverDone
  BY <1>7 DEF HandOverDone, devVars, pollVars, closeVars, taskVars, bridgeVars
<1>8. CASE HandOverDatagrams
  BY <1>8 DEF HandOverDatagrams, devVars, pollVars, closeVars, taskVars, bridgeVars
<1>9. CASE PrepareSleep
  <2>1. armed' \/ readErrors' > 1 \/ deaf'
    <3>1. readErrors <= 1 \/ readErrors > 1
      BY DEF TypeOK
    <3>2. Rearms => armed' \/ deaf'
      BY <1>9 DEF PrepareSleep
    <3>3. readErrors' = readErrors
      BY <1>9 DEF PrepareSleep
    <3>. QED  BY <3>1, <3>2, <3>3 DEF Rearms
  <2>2. backlog' # <<>> => timer' # "idle"
    BY <1>9 DEF PrepareSleep, Retry
  <2>3. pc = "sleep" /\ pc' = "wait"
        /\ UNCHANGED <<dirty, notified, waking, bridge, bridging, flag, closer>>
    BY <1>9 DEF PrepareSleep, closeVars, taskVars, bridgeVars
  <2>. QED  BY <2>1, <2>2, <2>3
<1>10. CASE WakeNotified \/ WakeReadable \/ WakeTimer \/ WakeIdle
  <2>1. pc' = "top"
    BY <1>10 DEF WakeNotified, WakeReadable, WakeTimer, WakeIdle, Wake
  <2>. QED  BY <2>1
<1>11. CASE WaitFails
  <2>1. pc' = "top" \/ pc' = "exited"
    BY <1>11 DEF WaitFails, Exit
  <2>. QED  BY <2>1
<1>. QED
  BY <1>1, <1>2, <1>3, <1>4, <1>5, <1>6, <1>7, <1>8, <1>9, <1>10, <1>11 DEF Loop

(* Whoever changes something for the loop to see announces it, or is about *)
(* to: this is where the order of the two halves matters.                  *)
LEMMA AnnouncedOthers ==
    ASSUME TypeOK, Announced,
           \/ Wakers \/ EngineMoves \/ EngineAbort \/ Resolve
           \/ \E f \in Flows : OpenFlow(f) \/ StreamChange(f)
           \/ SendQuery \/ DeviceFlips \/ ShutdownStore
    PROVE  Announced'
<1>. USE DEF Announced, AfterStep, AfterBridge, AfterFlag
<1>1. ASSUME NEW f \in Flows, StreamWake(f)  PROVE Announced'
  <2>1. notified' = TRUE /\ dirty' = dirty
    BY <1>1, Halves DEF StreamWake, StreamHalf
  <2>. QED  BY <1>1, <2>1 DEF StreamWake, devVars, closeVars, bridgeVars
<1>2. ASSUME NEW f \in Flows, StreamChange(f)  PROVE Announced'
  <2>1. notified' = notified /\ dirty' \in SUBSET (dirty \cup {f})
    BY <1>2, Halves DEF StreamChange, StreamHalf
  <2>2. waking' = waking \cup {f}
    BY <1>2 DEF StreamChange
  <2>3. (\A g \in dirty : notified \/ g \in waking) => \A g \in dirty' : notified' \/ g \in waking'
    BY <2>1, <2>2
  <2>. QED  BY <1>2, <2>1, <2>3 DEF StreamChange, devVars, closeVars, bridgeVars
<1>3. CASE ShutdownWake
  <2>1. notified' = TRUE /\ flag' = flag
    BY <1>3, Halves DEF ShutdownWake, ShutdownHalf
  <2>. QED  BY <1>3, <2>1 DEF ShutdownWake, loopVars, devVars, taskVars, bridgeVars
<1>4. CASE ShutdownStore
  <2>1. notified' = notified /\ closer' = "stored"
    BY <1>4, Halves DEF ShutdownStore, ShutdownHalf
  <2>. QED  BY <1>4, <2>1 DEF ShutdownStore, loopVars, devVars, taskVars, bridgeVars
<1>5. CASE BridgeSend
  <2>1. (pc = "exited" /\ UNCHANGED bridge) \/ bridging' = "wake"
    BY <1>5 DEF BridgeSend, Live
  <2>. QED  BY <1>5, <2>1 DEF BridgeSend, devVars, pollVars, closeVars, taskVars
<1>6. CASE BridgeWake
  BY <1>6 DEF BridgeWake, BridgeWakes, loopVars, devVars, closeVars, taskVars
<1>7. CASE EngineMoves
  <2>1. UNCHANGED <<loopVars, devVars, pollVars, closeVars, waking, bridgeVars>>
    BY <1>7 DEF EngineMoves, TakeFlow, TakeQuery, EngineFinish, taskVars
  <2>. QED  BY <2>1 DEF loopVars, devVars, pollVars, closeVars, bridgeVars
<1>8. CASE EngineAbort
  <2>1. ToSet(acceptQ) # {} => acceptQ # <<>>
    BY DEF ToSet
  <2>2. (\A g \in dirty : notified \/ g \in waking)
           => \A g \in dirty' : notified' \/ g \in waking'
    BY <1>8, <2>1 DEF EngineAbort
  <2>. QED  BY <1>8, <2>2 DEF EngineAbort, devVars, closeVars, bridgeVars, TypeOK
<1>9. CASE Resolve
  BY <1>9 DEF Resolve, loopVars, devVars, pollVars, closeVars, taskVars
<1>10. ASSUME NEW f \in Flows, OpenFlow(f)  PROVE Announced'
  BY <1>10 DEF OpenFlow, loopVars, pollVars, closeVars, taskVars, bridgeVars
<1>11. CASE SendQuery
  BY <1>11 DEF SendQuery, loopVars, pollVars, closeVars, taskVars, bridgeVars
<1>12. CASE DeviceFlips
  BY <1>12 DEF DeviceFlips, loopVars, pollVars, closeVars, taskVars, bridgeVars
<1>. QED
  BY <1>1, <1>2, <1>3, <1>4, <1>5, <1>6, <1>7, <1>8, <1>9, <1>10, <1>11, <1>12 DEF Wakers

(* Every step announces what it changes, or owes the wake-up.              *)
LEMMA AnnouncedStep == TypeOK /\ Announced /\ [Next]_vars => Announced'
<1>. SUFFICES ASSUME TypeOK, Announced, [Next]_vars  PROVE Announced'
  OBVIOUS
<1>1. CASE Next
  BY <1>1, AnnouncedLoop, AnnouncedOthers DEF Next
<1>2. CASE UNCHANGED vars
  BY <1>2 DEF Announced, vars, loopVars, devVars, pollVars, closeVars, taskVars, bridgeVars
<1>. QED  BY <1>1, <1>2

(* NoLostWakeup, for any number of flows and any depths: the loop never    *)
(* sleeps on something nobody is going to wake it for.                     *)
THEOREM NothingIsMissed == Spec => []NoLostWakeup
<1>1. Announced => NoLostWakeup
  BY DEF Announced, NoLostWakeup, AfterStep, AfterBridge, AfterFlag
<1>. QED
  BY <1>1, TypeInit, TypeStep, AnnouncedInit, AnnouncedStep, PTL DEF Spec

----------------------------------------------------------------------------
(* The cost of a failing device.  A pass that a failed read caused leaves  *)
(* the registration unarmed, and it stays so until a read succeeds.        *)

Deaf ==
    hot = 1 /\ pc # "exited" =>
        /\ ~armed /\ readErrors > 0
        /\ pc \notin {"top", "drain"} => readErrors > 1

Cool == hot \in {0, 1} /\ Deaf

(* Every step keeps the loop from going round for nothing.                 *)
LEMMA CoolStep == TypeOK /\ Cool /\ [Next]_vars => Cool'
<1>. SUFFICES ASSUME TypeOK, Cool, [Next]_vars  PROVE Cool'
  OBVIOUS
<1>. USE DEF Cool, Deaf
<1>a. readErrors \in 0 .. 2
  BY DEF TypeOK, ErrCap
<1>b. ASSUME UNCHANGED <<hot, readErrors, armed>>,
             pc' = pc \/ pc' = "exited" \/ (pc = "top" /\ pc' = "drain")
                \/ (pc \notin {"top", "drain", "exited"} /\ pc' # "top")
                \/ (pc = "wait" /\ pc' = "top")
      PROVE  Cool'
  <2>1. hot = 1 /\ pc # "exited" /\ pc' # "exited" =>
            ~armed' /\ readErrors' > 0 /\ (pc' \notin {"top", "drain"} => readErrors' > 1)
    BY <1>a, <1>b
  <2>. QED  BY <1>b, <2>1
<1>1. CASE CheckShutdown
  <2>1. hot' = hot /\ (pc' = "exited" \/ (pc = "top" /\ pc' = "drain"
                                           /\ UNCHANGED <<readErrors, armed>>))
    BY <1>1 DEF CheckShutdown, Exit, pollVars
  <2>. QED  BY <2>1
<1>2. CASE DrainPacket
  BY <1>2, <1>b DEF DrainPacket, pollVars
<1>3. CASE DrainDone
  <2>1. CASE readErrors' = AtMost(readErrors + 1, ErrCap) /\ UNCHANGED hot
    <3>1. readErrors > 0 => readErrors' > 1
      BY <1>a, <2>1 DEF AtMost, ErrCap
    <3>2. readErrors' > 1 => readErrors' > 0
      BY <1>a, <2>1 DEF AtMost, ErrCap
    <3>. QED  BY <1>3, <2>1, <3>1, <3>2 DEF DrainDone, pollVars
  <2>2. CASE hot' = 0
    BY <2>2
  <2>. QED  BY <1>3, <2>1, <2>2 DEF DrainDone
<1>4. CASE DrainBridge \/ CoreStep \/ HandOverDone \/ HandOverDatagrams
  BY <1>4, <1>b DEF DrainBridge, CoreStep, HandOverDone, HandOverDatagrams, pollVars
<1>5. CASE HandOverFlow
  <2>1. hot' = hot /\ (pc' = "exited" \/ (pc = "handover" /\ pc' \in {"handover", "datagrams"}
                                           /\ UNCHANGED <<readErrors, armed>>))
    BY <1>5 DEF HandOverFlow, Exit, pollVars
  <2>. QED  BY <2>1
<1>6. CASE PrepareSleep
  <2>1. readErrors > 1 => ~Rearms
    BY <1>a DEF Rearms
  <2>2. pc = "sleep" /\ pc' = "wait" /\ (armed' => armed \/ Rearms)
        /\ UNCHANGED <<hot, readErrors>>
    BY <1>6 DEF PrepareSleep
  <2>. QED  BY <2>1, <2>2
<1>7. CASE WakeNotified
  <2>1. pc = "wait" /\ pc' = "top" /\ UNCHANGED <<hot, readErrors>> /\ (armed' => armed)
    BY <1>7 DEF WakeNotified, Wake
  <2>. QED  BY <2>1
<1>8. CASE WakeReadable
  <2>1. armed /\ armed' = FALSE /\ pc = "wait" /\ pc' = "top" /\ readErrors' = readErrors
    BY <1>8 DEF WakeReadable, Wake
  <2>2. hot = 0
    BY <2>1
  <2>3. hot' = hot \/ (hot' = AtMost(hot + 1, HotCap) /\ readErrors > 0)
    BY <1>8 DEF WakeReadable
  <2>4. AtMost(0 + 1, HotCap) = 1
    BY DEF AtMost, HotCap
  <2>. QED  BY <2>1, <2>2, <2>3, <2>4
<1>9. CASE WakeTimer \/ WakeIdle \/ WaitFails
  <2>1. hot' = 0
    BY <1>9 DEF WakeTimer, WakeIdle, WaitFails
  <2>. QED  BY <2>1
<1>10. CASE Wakers \/ EngineMoves \/ EngineAbort \/ Resolve \/ SendQuery \/ DeviceFlips
            \/ ShutdownStore \/ \E f \in Flows : OpenFlow(f) \/ StreamChange(f)
  <2>1. UNCHANGED <<pc, hot, readErrors, armed>>
    BY <1>10
    DEF Wakers, EngineMoves, EngineAbort, Resolve, SendQuery, DeviceFlips, ShutdownStore,
        OpenFlow, StreamChange, StreamWake, ShutdownWake, BridgeSend, BridgeWake, TakeFlow,
        TakeQuery, EngineFinish, loopVars, pollVars
  <2>. QED  BY <1>b, <2>1
<1>11. CASE UNCHANGED vars
  BY <1>b, <1>11 DEF vars, loopVars, pollVars
<1>. QED
  BY <1>1, <1>2, <1>3, <1>4, <1>5, <1>6, <1>7, <1>8, <1>9, <1>10, <1>11 DEF Next, Loop

(* FailingDeviceNeverSpins, however reads fail and recover: between two    *)
(* passes that slept on the timer, at most one was caused by a failure.    *)
THEOREM BrokenDeviceIsSlow == Spec => []FailingDeviceNeverSpins
<1>1. Init => Cool
  BY DEF Init, Cool, Deaf
<1>2. Cool => FailingDeviceNeverSpins
  BY DEF Cool, FailingDeviceNeverSpins
<1>. QED
  BY <1>1, <1>2, CoolStep, TypeInit, TypeStep, PTL DEF Spec

----------------------------------------------------------------------------
(* What a finished engine has served.                                      *)

(* A channel the engine has seen the end of is empty, and stays so.        *)
Drained ==
    /\ ~engine.tcpOpen => acceptQ = <<>> /\ pc = "exited"
    /\ ~engine.udpOpen => udpQ = 0 /\ pc = "exited"
    /\ engine.state = "finished" => ~engine.tcpOpen /\ ~engine.udpOpen

(* Every step keeps empty the channel that was seen to end.                *)
LEMMA DrainedStep == TypeOK /\ Drained /\ [Next]_vars => Drained'
<1>. SUFFICES ASSUME TypeOK, Drained, [Next]_vars  PROVE Drained'
  OBVIOUS
<1>. USE DEF Drained
<1>. engine \in [state : {"running", "finished", "aborted"}, tcpOpen : BOOLEAN,
                 udpOpen : BOOLEAN]
  BY DEF TypeOK
<1>1. CASE pc # "exited" /\ UNCHANGED engine
  BY <1>1
<1>2. ASSUME UNCHANGED engineVars, pc = "exited" => pc' = "exited"  PROVE Drained'
  BY <1>2 DEF engineVars
<1>3. CASE Loop \/ WakeIdle \/ WaitFails
  <2>1. pc # "exited" /\ UNCHANGED engine
    BY <1>3
    DEF Loop, CheckShutdown, DrainPacket, DrainDone, DrainBridge, CoreStep, HandOverFlow,
        HandOverDone, HandOverDatagrams, PrepareSleep, WakeNotified, WakeReadable, WakeTimer,
        WakeIdle, WaitFails, Wake, engineVars
  <2>. QED  BY <1>1, <2>1
<1>4. CASE \/ Wakers \/ SendQuery \/ DeviceFlips \/ ShutdownStore
           \/ \E f \in Flows : OpenFlow(f) \/ StreamChange(f)
  <2>1. UNCHANGED engineVars /\ pc' = pc
    BY <1>4
    DEF Wakers, SendQuery, DeviceFlips, ShutdownStore, OpenFlow, StreamChange, StreamWake,
        ShutdownWake, BridgeSend, BridgeWake, loopVars
  <2>. QED  BY <1>2, <2>1
<1>5. CASE Resolve
  BY <1>5 DEF Resolve, loopVars
<1>6. CASE TakeFlow
  <2>1. CASE UNCHANGED engine /\ engine.tcpOpen
    BY <1>6, <2>1 DEF TakeFlow, loopVars
  <2>2. CASE acceptQ = <<>> /\ ~Live /\ engine' = [engine EXCEPT !.tcpOpen = FALSE]
             /\ UNCHANGED <<acceptQ, served, task>>
    <3>1. engine'.tcpOpen = FALSE /\ engine'.udpOpen = engine.udpOpen
          /\ engine'.state = engine.state
      BY <2>2
    <3>2. pc' = pc /\ pc = "exited" /\ acceptQ' = <<>> /\ udpQ' = udpQ
          /\ engine.state = "running"
      BY <1>6, <2>2 DEF TakeFlow, loopVars, Live, Running
    <3>. QED  BY <3>1, <3>2
  <2>. QED  BY <1>6, <2>1, <2>2 DEF TakeFlow
<1>7. CASE TakeQuery
  <2>1. CASE UNCHANGED engine /\ engine.udpOpen
    BY <1>7, <2>1 DEF TakeQuery, loopVars
  <2>2. CASE udpQ = 0 /\ ~Live /\ engine' = [engine EXCEPT !.udpOpen = FALSE]
             /\ UNCHANGED <<udpQ, resolving>>
    <3>1. engine'.udpOpen = FALSE /\ engine'.tcpOpen = engine.tcpOpen
          /\ engine'.state = engine.state
      BY <2>2
    <3>2. pc' = pc /\ pc = "exited" /\ acceptQ' = acceptQ /\ udpQ' = 0
          /\ engine.state = "running"
      BY <1>7, <2>2 DEF TakeQuery, loopVars, Live, Running
    <3>. QED  BY <3>1, <3>2
  <2>. QED  BY <1>7, <2>1, <2>2 DEF TakeQuery
<1>8. CASE EngineFinish
  <2>1. engine'.state = "finished" /\ engine'.tcpOpen = engine.tcpOpen
        /\ engine'.udpOpen = engine.udpOpen
    BY <1>8 DEF EngineFinish
  <2>. QED  BY <1>8, <2>1 DEF EngineFinish, KeepsRunning, loopVars
<1>9. CASE EngineAbort
  <2>1. engine'.state = "aborted" /\ engine'.tcpOpen = engine.tcpOpen
        /\ engine'.udpOpen = engine.udpOpen
    BY <1>9 DEF EngineAbort
  <2>. QED  BY <1>9, <2>1 DEF EngineAbort
<1>10. CASE UNCHANGED vars
  BY <1>2, <1>10 DEF vars, loopVars
<1>. QED
  BY <1>3, <1>4, <1>5, <1>6, <1>7, <1>8, <1>9, <1>10 DEF Next, EngineMoves

(* FinishedEngineServedAll: whichever channel closed first, an engine that *)
(* ended by itself has served everything the stack handed over.            *)
THEOREM NothingQueuedIsForgotten == Spec => []FinishedEngineServedAll
<1>1. Init => Drained
  BY DEF Init, Drained
<1>2. Drained => FinishedEngineServedAll
  BY DEF Drained, FinishedEngineServedAll
<1>. QED
  BY <1>1, <1>2, DrainedStep, TypeInit, TypeStep, PTL DEF Spec

----------------------------------------------------------------------------
(* The hand-over refines FlowQueue: backlog and channel together are one   *)
(* queue, whatever does not fit the channel.                               *)

(* A queue is a prefix of itself with something behind it.                 *)
LEMMA PrefixOfConcat ==
    ASSUME NEW S, NEW s \in Seq(S), NEW t \in Seq(S)
    PROVE  Queue!IsPrefix(s, s \o t)
  BY ConcatProperties DEF Queue!IsPrefix

(* The two ends of the queue that the loop and the engine work at.         *)
LEMMA MovingOver ==
    ASSUME NEW S, NEW s \in Seq(S), NEW t \in Seq(S), t # <<>>
    PROVE  Append(s, Head(t)) \o Tail(t) = s \o t
  BY ConcatProperties, HeadTailProperties, AppendProperties

(* Taking the first off two queues in a row takes it off the first.        *)
LEMMA TakingOff ==
    ASSUME NEW S, NEW s \in Seq(S), NEW t \in Seq(S), s # <<>>
    PROVE  /\ s \o t # <<>>
           /\ Head(s \o t) = Head(s)
           /\ Tail(s \o t) = Tail(s) \o t
  BY ConcatProperties, HeadTailProperties

(* The order of three queues does not depend on their grouping.            *)
LEMMA Regroup ==
    ASSUME acceptQ \in Seq(Flows), backlog \in Seq(Flows), NEW t \in Seq(Flows)
    PROVE  (acceptQ \o backlog) \o t = acceptQ \o (backlog \o t)
  BY ConcatAssociative

(* The four moves of the queue, as the loop and the engine make them.      *)
LEMMA QueueGrows ==
    ASSUME TypeOK, NEW t \in Seq(Flows), backlog' = backlog \o t,
           Live, Live', UNCHANGED <<acceptQ, engine, served>>
    PROVE  Queue!Next \/ UNCHANGED Queue!vars
<1>. acceptQ \in Seq(Flows) /\ backlog \in Seq(Flows)
  BY DEF TypeOK
<1>1. Running' = Running
  BY DEF Running
<1>2. CASE Running
  <2>1. handOver' = handOver \o t /\ handOver \in Seq(Flows) /\ handOver' \in Seq(Flows)
    <3>1. acceptQ \o backlog \in Seq(Flows) /\ (acceptQ \o backlog) \o t \in Seq(Flows)
      BY ConcatProperties
    <3>2. handOver = acceptQ \o backlog /\ handOver' = acceptQ \o (backlog \o t)
      BY <1>1, <1>2 DEF handOver
    <3>3. (acceptQ \o backlog) \o t = acceptQ \o (backlog \o t)
      BY Regroup
    <3>. QED  BY <3>1, <3>2, <3>3
  <2>2. Queue!IsPrefix(handOver, handOver')
    BY <2>1, PrefixOfConcat
  <2>. QED  BY <1>1, <1>2, <2>1, <2>2 DEF Queue!Next, Queue!Put
<1>3. CASE ~Running
  BY <1>1, <1>3 DEF handOver, Queue!vars
<1>. QED  BY <1>2, <1>3

(* The loop ends, and drops what it has not handed over.                   *)
LEMMA QueueCut ==
    ASSUME TypeOK, backlog' = <<>>, Live, ~Live', UNCHANGED <<acceptQ, engine, served>>
    PROVE  Queue!Next
<1>. acceptQ \in Seq(Flows) /\ backlog \in Seq(Flows) /\ <<>> \in Seq(Flows)
  BY EmptySeq DEF TypeOK
<1>1. Running' = Running
  BY DEF Running
<1>2. Queue!IsPrefix(handOver', handOver)
  <2>1. CASE Running
    <3>1. handOver' = acceptQ /\ handOver = acceptQ \o backlog
      BY <1>1, <2>1, ConcatEmptySeq DEF handOver
    <3>. QED  BY <3>1, PrefixOfConcat
  <2>2. CASE ~Running
    <3>1. handOver' = <<>> /\ handOver = <<>> \o <<>>
      BY <1>1, <2>2, ConcatEmptySeq DEF handOver
    <3>. QED  BY <3>1, PrefixOfConcat
  <2>. QED  BY <2>1, <2>2
<1>. QED  BY <1>1, <1>2 DEF Queue!Next, Queue!StopPutting

(* The engine ends, and takes no more.                                     *)
LEMMA QueueAbandoned ==
    ASSUME Running, ~Running', Live' = Live, UNCHANGED served
    PROVE  Queue!Next
  BY DEF handOver, Queue!Next, Queue!StopTaking

(* A step that touches neither end of the queue is a stutter.              *)
LEMMA QueueSame ==
    ASSUME handOver' = handOver, Live' = Live, Running' = Running, UNCHANGED served
    PROVE  UNCHANGED Queue!vars
  BY DEF Queue!vars

(* Every step of the loop is a step of the queue or a stutter.             *)
LEMMA QueueStep ==
    ASSUME TypeOK, [Next]_vars
    PROVE  Queue!Next \/ UNCHANGED Queue!vars
<1>. acceptQ \in Seq(Flows) /\ backlog \in Seq(Flows) /\ ingested \in Seq(Flows)
  BY DEF TypeOK
<1>1. ASSUME Live' = Live, UNCHANGED <<acceptQ, backlog, engine, served>>
      PROVE  UNCHANGED Queue!vars
  BY <1>1, QueueSame DEF handOver, Running
<1>2. CASE CheckShutdown
  <2>1. CASE flag
    BY <1>2, <2>1, QueueCut DEF CheckShutdown, Exit, engineVars, Live
  <2>2. CASE ~flag
    BY <1>1, <1>2, <2>2 DEF CheckShutdown, engineVars, Live
  <2>. QED  BY <2>1, <2>2
<1>3. CASE CoreStep
  BY <1>3, QueueGrows DEF CoreStep, engineVars, Live
<1>4. CASE HandOverFlow
  <2>. backlog # <<>> /\ Live /\ UNCHANGED <<engine, served>>
    BY <1>4 DEF HandOverFlow, Live
  <2>1. CASE acceptQ' = Append(acceptQ, Head(backlog)) /\ backlog' = Tail(backlog)
             /\ UNCHANGED pc
    <3>1. handOver' = handOver
      BY <2>1, MovingOver DEF handOver, Running
    <3>. QED  BY <2>1, <3>1, QueueSame DEF Live, Running
  <2>2. CASE backlog' = Unfitting /\ pc' = "datagrams" /\ UNCHANGED acceptQ
    BY <1>1, <2>2 DEF Unfitting, Live
  <2>3. CASE Exit /\ UNCHANGED acceptQ
    BY <2>3, QueueCut DEF Exit, Live
  <2>. QED  BY <1>4, <2>1, <2>2, <2>3 DEF HandOverFlow
<1>5. CASE WaitFails
  <2>1. UNCHANGED <<acceptQ, engine, served>> /\ Live
    BY <1>5 DEF WaitFails, engineVars, Live
  <2>2. CASE Exit
    BY <2>1, <2>2, QueueCut DEF Exit, Live
  <2>3. CASE pc' = "top" /\ UNCHANGED backlog
    BY <1>1, <2>1, <2>3 DEF Live
  <2>. QED  BY <1>5, <2>2, <2>3 DEF WaitFails
<1>6. CASE TakeFlow
  <2>1. Running /\ Live' = Live /\ UNCHANGED backlog
    BY <1>6 DEF TakeFlow, Live, loopVars
  <2>2. CASE acceptQ # <<>> /\ acceptQ' = Tail(acceptQ)
             /\ served' = Append(served, Head(acceptQ)) /\ UNCHANGED engine
    <3>1. Running' /\ handOver = acceptQ \o backlog /\ handOver' = Tail(acceptQ) \o backlog
      BY <2>1, <2>2 DEF handOver, Running
    <3>. QED  BY <2>1, <2>2, <3>1, TakingOff DEF Queue!Next, Queue!Take
  <2>3. CASE engine' = [engine EXCEPT !.tcpOpen = FALSE] /\ UNCHANGED <<acceptQ, served>>
    <3>1. engine'.state = engine.state
      BY <2>3 DEF TypeOK
    <3>. QED  BY <2>1, <2>3, <3>1, QueueSame DEF handOver, Running
  <2>. QED  BY <1>6, <2>2, <2>3 DEF TakeFlow
<1>7. CASE TakeQuery
  <2>1. engine'.state = engine.state
    BY <1>7 DEF TakeQuery, TypeOK
  <2>. QED  BY <1>7, <2>1, QueueSame DEF TakeQuery, handOver, Running, Live, loopVars
<1>8. CASE EngineFinish \/ EngineAbort
  <2>1. engine'.state # "running"
    BY <1>8 DEF EngineFinish, EngineAbort, TypeOK
  <2>. QED
    BY <1>8, <2>1, QueueAbandoned DEF EngineFinish, EngineAbort, Running, Live, loopVars
<1>9. CASE \/ DrainPacket \/ DrainDone \/ DrainBridge \/ HandOverDone \/ HandOverDatagrams
           \/ PrepareSleep \/ WakeNotified \/ WakeReadable \/ WakeTimer \/ WakeIdle
  BY <1>1, <1>9
  DEF DrainPacket, DrainDone, DrainBridge, HandOverDone, HandOverDatagrams, PrepareSleep,
      WakeNotified, WakeReadable, WakeTimer, WakeIdle, Wake, Live, engineVars
<1>10. CASE \/ Wakers \/ Resolve \/ SendQuery \/ DeviceFlips \/ ShutdownStore
            \/ \E f \in Flows : OpenFlow(f) \/ StreamChange(f)
  <2>1. UNCHANGED <<pc, acceptQ, backlog, engine, served>>
    BY <1>10
    DEF Wakers, Resolve, SendQuery, DeviceFlips, ShutdownStore, OpenFlow, StreamChange,
        StreamWake, ShutdownWake, BridgeSend, BridgeWake, loopVars, engineVars
  <2>. QED  BY <1>1, <2>1 DEF Live
<1>11. CASE UNCHANGED vars
  BY <1>1, <1>11 DEF vars, loopVars, engineVars, Live
<1>. QED
  BY <1>2, <1>3, <1>4, <1>5, <1>6, <1>7, <1>8, <1>9, <1>10, <1>11 DEF Next, Loop, EngineMoves

(* HandOverIsFifo: StackLoop implements FlowQueue, for any depth of the    *)
(* channel and however many flows are accepted at once.                    *)
THEOREM HandOverRefines == Spec => HandOverIsFifo
<1>1. Init => Queue!Init
  <2>1. <<>> \in Seq(Flows)
    BY EmptySeq
  <2>. QED  BY <2>1, ConcatEmptySeq DEF Init, Queue!Init, handOver, Running, Live
<1>2. TypeOK /\ [Next]_vars => [Queue!Next]_(Queue!vars)
  BY QueueStep
<1>. QED
  BY <1>1, <1>2, TypeInit, TypeStep, PTL DEF Spec, HandOverIsFifo, Queue!Spec
==============================================================================
