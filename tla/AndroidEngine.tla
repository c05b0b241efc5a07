---------------------------- MODULE AndroidEngine ----------------------------
(***************************************************************************)
(* The packet engine inside the Android app process: the Dart side stages  *)
(* a profile and asks for the service, the service's main thread owns the  *)
(* VPN interface and calls nativeStart and nativeStop, each start has a    *)
(* tokio runtime whose worker connects and then drives the engine, and the *)
(* stack has a thread of its own.  PENDING, RUNNING and STATE are the      *)
(* statics they share; RUNNING's lock is held by a start while it drops    *)
(* the runtime it replaces, which waits for that runtime's worker.         *)
(***************************************************************************)
EXTENDS Integers, Sequences, FiniteSets

CONSTANTS
    MaxTaps,     \* bound: times the user asks for a connection
    MaxRevokes   \* bound: times the system takes the permission back

ASSUME AndroidEngineAssumption ==
    MaxTaps \in Nat \ {0} /\ MaxRevokes \in Nat

Gen == 1 .. MaxTaps    \* one descriptor, runtime and stack per start
MaxCommands == MaxTaps + 1

VARIABLES
    pending,   \* PENDING: a profile is staged
    running,   \* RUNNING: whose runtime it holds, and whose shutdown handle
    state,     \* STATE
    thread,    \* the main thread: what it is doing, for which start
    worker,    \* the task of each start, on its own runtime
    stack,     \* the stack thread of each start
    iface,     \* the start whose descriptor is the established interface
    service,   \* the service: its tornDown flag, and a stopSelf under way
    commands,  \* intents on their way to onStartCommand
    asking,    \* connect calls between staging and the consent's answer
    shown,     \* the state the last poll read
    left       \* starts, taps and revocations left: the bounds

vars == <<pending, running, state, thread, worker, stack, iface, service, commands, asking,
          shown, left>>
nativeVars == <<pending, running, state, thread, worker, stack, iface>>
appVars == <<asking, shown>>

States == {"Idle", "Connecting", "Connected", "Failed"}
NoEngine == [gen |-> 0, handle |-> 0]
Free == [at |-> "idle", gen |-> 0]

TypeOK ==
    /\ pending \in BOOLEAN
    /\ running \in [gen : 0 .. MaxTaps, handle : 0 .. MaxTaps]
    /\ state \in States /\ shown \in States
    /\ thread \in [at : {"idle", "starting", "replacing", "joining"}, gen : 0 .. MaxTaps]
    /\ worker \in [Gen -> {"none", "connecting", "locking", "announcing", "running", "ended",
                           "gone"}]
    /\ stack \in [Gen -> {"none", "up", "told", "severed", "gone"}]
    /\ iface \in 0 .. MaxTaps
    /\ service \in [tornDown : BOOLEAN, stopping : BOOLEAN]
    /\ commands \in Seq({"start", "disconnect"}) /\ Len(commands) <= MaxCommands
    /\ asking \in 0 .. MaxTaps
    /\ left \in [starts : 0 .. MaxTaps, taps : 0 .. MaxTaps, revokes : 0 .. MaxRevokes]

Init ==
    /\ pending = FALSE /\ running = NoEngine /\ state = "Idle"
    /\ thread = Free
    /\ worker = [g \in Gen |-> "none"] /\ stack = [g \in Gen |-> "none"]
    /\ iface = 0
    /\ service = [tornDown |-> FALSE, stopping |-> FALSE]
    /\ commands = <<>> /\ asking = 0 /\ shown = "Idle"
    /\ left = [starts |-> MaxTaps, taps |-> MaxTaps, revokes |-> MaxRevokes]

(* Held across a blocking call only where start assigns RUNNING.           *)
LockFree_StopHolds == thread.at \notin {"replacing", "joining"}
LockFree == thread.at # "replacing"

(* A worker in the middle of a poll: past its last await, or before it.    *)
MidPoll == {"locking", "announcing"}

(* The interface goes when the descriptor that made it is closed.          *)
WithoutFd_Leaks(g) == iface
WithoutFd(g) == IF iface = g THEN 0 ELSE iface

----------------------------------------------------------------------------
(* The Dart side: AndroidTunnel, VpnPlatform and the connect button.       *)

(* Offered in every state but Connected; stage comes before everything.    *)
Tap ==
    /\ shown # "Connected" /\ left.taps > 0
    /\ pending' = TRUE /\ state' = "Idle"
    /\ asking' = asking + 1
    /\ left' = [left EXCEPT !.taps = @ - 1]
    /\ UNCHANGED <<running, thread, worker, stack, iface, service, commands, shown>>

(* The consent is there or is given, and the service is started; refused,  *)
(* nothing takes the staged profile back.                                  *)
Consent ==
    /\ asking > 0
    /\ asking' = asking - 1
    /\ commands' \in {Append(commands, "start"), commands}
    /\ UNCHANGED <<nativeVars, service, shown, left>>

TapDisconnect ==
    /\ shown = "Connected" /\ Len(commands) < MaxCommands
    /\ ~\E i \in 1 .. Len(commands) : commands[i] = "disconnect"   \* bound: one at a time
    /\ commands' = Append(commands, "disconnect")
    /\ UNCHANGED <<nativeVars, service, asking, shown, left>>

Poll ==
    /\ shown # state
    /\ shown' = state
    /\ UNCHANGED <<nativeVars, service, commands, asking, left>>

----------------------------------------------------------------------------
(* The main thread: LiosVpnService, nativeStart and nativeStop.            *)

IsNext(c) == thread.at = "idle" /\ commands # <<>> /\ Head(commands) = c

(* teardown, nativeStop and stop up to the drop of the runtime: RUNNING is *)
(* taken under the lock, and its stack is told if it has a handle.         *)
Teardown ==
    IF service.tornDown
    THEN UNCHANGED <<running, thread, stack, state>>
    ELSE /\ running' = NoEngine
         /\ stack' = [g \in Gen |-> IF g = running.handle /\ stack[g] = "up"
                                    THEN "told" ELSE stack[g]]
         /\ IF running.gen = 0
            THEN state' = "Idle" /\ UNCHANGED thread
            ELSE thread' = [at |-> "joining", gen |-> running.gen] /\ UNCHANGED state

(* establish gives a new interface, which takes the place of an older one, *)
(* and start takes the descriptor; with nothing staged it closes it.       *)
Established(g) ==
    /\ service' = [service EXCEPT !.tornDown = FALSE]
    /\ left' = [left EXCEPT !.starts = @ - 1]
    /\ UNCHANGED <<running, worker, stack>>
    /\ IF pending
       THEN /\ pending' = FALSE /\ iface' = g
            /\ state' = "Connecting" /\ thread' = [at |-> "starting", gen |-> g]
       ELSE /\ iface' = 0 /\ state' = "Failed"
            /\ UNCHANGED <<pending, thread>>

(* establish returned null: stopSelf, and onDestroy tears down.            *)
NotEstablished ==
    /\ service' = [service EXCEPT !.stopping = TRUE]
    /\ UNCHANGED <<pending, running, state, thread, worker, stack, iface, left>>

OnStart ==
    /\ IsNext("start")
    /\ commands' = Tail(commands)
    /\ Established(MaxTaps - left.starts + 1) \/ NotEstablished
    /\ UNCHANGED appVars

OnDisconnect ==
    /\ IsNext("disconnect")
    /\ commands' = Tail(commands)
    /\ Teardown
    /\ service' = [tornDown |-> TRUE, stopping |-> TRUE]
    /\ UNCHANGED <<pending, worker, iface, left, appVars>>

(* The system has taken the interface down before it tells the service.   *)
OnRevoke ==
    /\ thread.at = "idle" /\ left.revokes > 0 /\ ~service.stopping
    /\ left' = [left EXCEPT !.revokes = @ - 1]
    /\ service' = [service EXCEPT !.stopping = TRUE]
    /\ iface' = 0
    /\ UNCHANGED <<pending, running, state, thread, worker, stack, commands, appVars>>

(* A later start gets a new instance, whose flag is clear.                 *)
OnDestroy ==
    /\ thread.at = "idle" /\ service.stopping
    /\ Teardown
    /\ service' = [tornDown |-> FALSE, stopping |-> FALSE]
    /\ UNCHANGED <<pending, worker, iface, commands, left, appVars>>

(* `*RUNNING.lock() = Some(..)`: the previous value is dropped in place,   *)
(* its runtime with it, before the guard.                                  *)
AssignRunning_Detaches ==
    /\ thread.at = "starting"
    /\ running' = [gen |-> thread.gen, handle |-> 0]
    /\ worker' = [worker EXCEPT ![thread.gen] = "connecting"]
    /\ thread' = Free
    /\ UNCHANGED <<pending, state, stack, iface, service, commands, appVars, left>>
AssignRunning ==
    /\ thread.at = "starting"
    /\ IF running.gen = 0
       THEN /\ running' = [gen |-> thread.gen, handle |-> 0]
            /\ worker' = [worker EXCEPT ![thread.gen] = "connecting"]
            /\ thread' = Free
       ELSE /\ thread' = [thread EXCEPT !.at = "replacing"]
            /\ UNCHANGED <<running, worker>>
    /\ UNCHANGED <<pending, state, stack, iface, service, commands, appVars, left>>

(* What dropping the runtime of g leaves: its task is gone wherever it was *)
(* waiting, and a stack nobody told loses the other ends of its channels.  *)
Dropped(g) ==
    /\ stack' = [stack EXCEPT ![g] = IF @ = "up" THEN "severed" ELSE @]
    /\ iface' = IF worker[g] = "connecting" THEN WithoutFd(g) ELSE iface

(* A task is dropped where it waits; a poll under way is finished, and the *)
(* drop of the runtime waits for that.                                     *)
Over(w) == IF w \in MidPoll THEN w ELSE "gone"
Joinable_AtOnce(g) == TRUE
Joinable(g) == worker[g] \notin MidPoll

Replaced ==
    /\ thread.at = "replacing" /\ Joinable(running.gen)
    /\ Dropped(running.gen)
    /\ worker' = [worker EXCEPT ![running.gen] = Over(@), ![thread.gen] = "connecting"]
    /\ running' = [gen |-> thread.gen, handle |-> 0]
    /\ thread' = Free
    /\ UNCHANGED <<pending, state, service, commands, appVars, left>>

Joined ==
    /\ thread.at = "joining" /\ Joinable(thread.gen)
    /\ Dropped(thread.gen)
    /\ worker' = [worker EXCEPT ![thread.gen] = Over(@)]
    /\ thread' = Free
    /\ state' = "Idle"
    /\ UNCHANGED <<pending, running, service, commands, appVars, left>>

----------------------------------------------------------------------------
(* The worker of a start, and its stack.                                   *)

Worker(g, from, to) == worker[g] = from /\ worker' = [worker EXCEPT ![g] = to]

(* The protocol is connected and the stack's thread has the descriptor.    *)
Assembled(g) ==
    /\ Worker(g, "connecting", "locking")
    /\ stack' = [stack EXCEPT ![g] = "up"]
    /\ UNCHANGED <<pending, running, state, thread, iface, service, commands, appVars, left>>

(* Connecting fails and drops the descriptor, or the resolver cannot be    *)
(* built, which is found out with the stack already running.               *)
AssembleFails(g) ==
    /\ Worker(g, "connecting", "ended")
    /\ \/ iface' = WithoutFd(g) /\ UNCHANGED stack
       \/ stack' = [stack EXCEPT ![g] = "severed"] /\ UNCHANGED iface
    /\ state' = "Failed"
    /\ UNCHANGED <<pending, running, thread, service, commands, appVars, left>>

(* Under the lock: the handles are stored, or the start was stopped and    *)
(* drops what it assembled.                                                *)
StoreHandles(g) ==
    /\ LockFree
    /\ worker[g] = "locking"
    /\ IF running.gen = 0
       THEN /\ worker' = [worker EXCEPT ![g] = "gone"]
            /\ stack' = [stack EXCEPT ![g] = IF @ = "up" THEN "severed" ELSE @]
            /\ UNCHANGED running
       ELSE /\ worker' = [worker EXCEPT ![g] = "announcing"]
            /\ running' = [running EXCEPT !.handle = g]
            /\ UNCHANGED stack
    /\ UNCHANGED <<pending, state, thread, iface, service, commands, appVars, left>>

Announce(g) ==
    /\ Worker(g, "announcing", "running")
    /\ state' = "Connected"
    /\ UNCHANGED <<pending, running, thread, stack, iface, service, commands, appVars, left>>

(* Engine::run returns when the stack is gone.                             *)
EngineEnds(g) ==
    /\ stack[g] = "gone" /\ Worker(g, "running", "ended")
    /\ state' = "Idle"
    /\ UNCHANGED <<pending, running, thread, stack, iface, service, commands, appVars, left>>

StackExits(g) ==
    /\ stack' = [stack EXCEPT ![g] = "gone"]
    /\ iface' = WithoutFd(g)
    /\ UNCHANGED <<pending, running, state, thread, worker, service, commands, appVars, left>>

ToldStackExits(g) == stack[g] = "told" /\ StackExits(g)
(* A stack with nobody at the other end learns of it when an application   *)
(* opens a connection through it.                                          *)
SeveredStackExits(g) == stack[g] = "severed" /\ iface = g /\ StackExits(g)
(* A panic, or a poller that keeps failing.                                *)
StackDies(g) == stack[g] = "up" /\ worker[g] = "running" /\ StackExits(g)

Next ==
    \/ Tap \/ Consent \/ TapDisconnect \/ Poll
    \/ OnStart \/ OnDisconnect \/ OnRevoke \/ OnDestroy
    \/ AssignRunning \/ Replaced \/ Joined
    \/ \E g \in Gen : \/ Assembled(g) \/ AssembleFails(g) \/ StoreHandles(g) \/ Announce(g)
                      \/ EngineEnds(g) \/ ToldStackExits(g) \/ SeveredStackExits(g)
                      \/ StackDies(g)

Spec == Init /\ [][Next]_vars

(* Threads that can run do; the main thread works off its messages and the *)
(* poll timer ticks.  Nothing is assumed of the user, of the server, nor   *)
(* of a connection being opened through the tunnel.                        *)
Fairness ==
    /\ WF_vars(OnStart) /\ WF_vars(OnDisconnect) /\ WF_vars(OnDestroy)
    /\ WF_vars(AssignRunning) /\ WF_vars(Replaced) /\ WF_vars(Joined)
    /\ WF_vars(Poll)
    /\ \A g \in Gen : /\ WF_vars(StoreHandles(g)) /\ WF_vars(Announce(g))
                      /\ WF_vars(EngineEnds(g)) /\ WF_vars(ToldStackExits(g))

FairSpec == Spec /\ Fairness

----------------------------------------------------------------------------
(* Properties.                                                             *)

Active == {"connecting", "locking", "announcing", "running"}

(* Stopped means stopped: with nothing in RUNNING and the main thread back *)
(* in its loop, no late worker has put the state back to Connecting or     *)
(* Connected (stop's own set_state comes after the join).                  *)
StoppedIsNotConnected ==
    (thread.at = "idle" /\ running.gen = 0) => state \in {"Idle", "Failed"}

(* Every worker that can still connect or relay is the one RUNNING holds,  *)
(* so that a stop reaches it, or the one a stop is waiting for.            *)
OneEngine ==
    \A g \in Gen : worker[g] \in Active =>
        g = running.gen \/ thread = [at |-> "joining", gen |-> g]

(* The shutdown handle and counters in RUNNING are those of the runtime    *)
(* beside them, never of a start that was replaced or stopped.             *)
HandleIsOwn == running.handle \in {0, running.gen}

(* One engine at a time, and RUNNING's handle reaches it.                  *)
OneOwnEngine == TypeOK /\ OneEngine /\ HandleIsOwn

(* The interface that carries the device's traffic is always read by       *)
(* somebody: whoever has its descriptor has not closed it.                 *)
InterfaceHasOwner ==
    iface # 0 => \/ thread.at \in {"starting", "replacing"} /\ thread.gen = iface
                 \/ worker[iface] = "connecting"
                 \/ stack[iface] \in {"up", "told", "severed"}

(* stop returns to the main thread: the worker it waits for can always     *)
(* take the lock and finish its poll.                                      *)
StopReturns == thread.at = "joining" ~> thread.at = "idle"

(* "Returns immediately; the engine runs on its own runtime threads": so a *)
(* start gives the main thread back.                                       *)
StartReturns == thread.at = "starting" ~> thread.at = "idle"
=============================================================================
