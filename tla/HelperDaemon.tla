---------------------------- MODULE HelperDaemon ----------------------------
(***************************************************************************)
(* The privileged helper (crates/liostunnel-helper): a root daemon that    *)
(* owns at most one tunnel, serves one client at a time over a socket, and *)
(* keeps on disk a record of how to revert what it does to the machine     *)
(* (route/state.rs), so that a run killed at any point can be undone by    *)
(* the next one.                                                           *)
(*                                                                         *)
(* The daemon is one thread of control: `pc` says where it is.  Between    *)
(* any two of its steps the process may be killed, the engine may die, a   *)
(* client may come or hang up, and SIGTERM may arrive.                     *)
(***************************************************************************)
EXTENDS RouteTable, FiniteSets

CONSTANTS
    Manager,      \* platform_manager: "linux" or "macos"
    Tun,          \* the name of the daemon's TUN device
    Clients,      \* client processes of the authorized user
    Nobody,       \* no client is being served
    MaxMishaps,   \* bound: commands that fail although the machine allows
                  \* them, and records whose pid is in use again
    MaxCrashes,   \* bound: kills of the daemon
    MaxMoves,     \* bound: changes of network
    MaxSessions   \* bound: client sessions

ASSUME HelperDaemonAssumption ==
    /\ Manager \in {"linux", "macos"} /\ Interfaces = {Tun}
    /\ Nobody \notin Clients
    /\ MaxMishaps \in Nat /\ MaxCrashes \in Nat /\ MaxMoves \in Nat /\ MaxSessions \in Nat

NoPlan == [server |-> "none", mode |-> "none", interface |-> Tun]
NoRecord == NoPlan                              \* the state file does not exist
Torn == [NoPlan EXCEPT !.mode = "torn"]         \* it exists and does not parse

VARIABLES
    pc,        \* where the daemon is
    plan,      \* the plan being applied or reverted
    at,        \* how many of its commands have run
    after,     \* what follows the revert under way
    tunnel,    \* the daemon's tunnel: whether there is one, and its engine
    record,    \* the AppliedState on disk
    net,       \* the machine's routes and resolver
    lan,       \* the resolver configuration of the network it is on
    client,    \* each client's side of its connection
    session,   \* serve_one's Session
    sigterm,   \* SIGTERM has arrived
    left       \* bounds: mishaps, crashes, moves and sessions left

vars == <<pc, plan, at, after, tunnel, record, net, lan, client, session, sigterm, left>>

NoTunnel == [up |-> FALSE, alive |-> FALSE, plan |-> NoPlan]
Closed == [of |-> Nobody, greeted |-> FALSE, connected |-> FALSE]

TypeOK ==
    /\ pc \in {"down", "stopped", "boot", "accept", "select", "connect", "device", "save",
               "apply", "revert", "clear"}
    /\ plan \in RoutePlan \cup {NoPlan}
    /\ at \in Nat
    /\ after \in {"recovered", "stopped", "failed", "exit", "none"}
    /\ tunnel \in [up : BOOLEAN, alive : BOOLEAN, plan : RoutePlan \cup {NoPlan}]
    /\ record \in RoutePlan \cup {NoRecord, Torn}
    /\ net \in Net
    /\ lan \in Lans
    /\ client \in [Clients -> {"away", "waiting", "served", "gone"}]
    /\ session \in [of : Clients \cup {Nobody}, greeted : BOOLEAN, connected : BOOLEAN]
    /\ sigterm \in BOOLEAN
    /\ left \in [mishaps : 0 .. MaxMishaps, crashes : 0 .. MaxCrashes,
                 moves : 0 .. MaxMoves, sessions : 0 .. MaxSessions]

Init ==
    /\ pc = "boot" /\ plan = NoPlan /\ at = 0 /\ after = "none"
    /\ tunnel = NoTunnel /\ record = NoRecord
    /\ lan \in Lans
    /\ net = [routes |-> {}, devices |-> {}, resolv |-> lan, backup |-> NoBackup]
    /\ client = [c \in Clients |-> "away"] /\ session = Closed
    /\ sigterm = FALSE
    /\ left = [mishaps |-> MaxMishaps, crashes |-> MaxCrashes,
               moves |-> MaxMoves, sessions |-> MaxSessions]

(* Something goes wrong that the machine's state does not explain.         *)
Mishap == /\ left.mishaps > 0
          /\ left' = [left EXCEPT !.mishaps = @ - 1]

(* serve_one returns: the loop of `serve` goes on, the tunnel stays.       *)
EndSession ==
    /\ session' = Closed
    /\ client' = [client EXCEPT ![session.of] = "away"]

(* write_all fails when the client is gone, which ends serve_one.          *)
Reply(s) ==
    IF client[session.of] = "served"
    THEN pc' = "select" /\ session' = s /\ UNCHANGED client
    ELSE pc' = "accept" /\ EndSession

----------------------------------------------------------------------------
(* recover_if_stale, before anything is served.                            *)

(* The record names a process that is not alive: revert what it lists.     *)
Stale(r) == r \in RoutePlan
Recover ==
    /\ pc = "boot"
    /\ Stale(record)
    /\ pc' = "revert" /\ plan' = record /\ at' = 0 /\ after' = "recovered"
    /\ UNCHANGED <<tunnel, record, net, lan, client, session, sigterm, left>>

(* No record; one that does not load; or one whose pid is somebody's, or   *)
(* by chance this process's own.  The error is logged, and serving starts. *)
SkipRecovery ==
    /\ pc = "boot"
    /\ \/ ~Stale(record) /\ UNCHANGED left
       \/ Stale(record) /\ Mishap
    /\ pc' = "accept"
    /\ UNCHANGED <<plan, at, after, tunnel, record, net, lan, client, session, sigterm>>

----------------------------------------------------------------------------
(* serve: the outer select.                                                *)

(* Clients queue on the listening socket until serve_one returns; the new  *)
(* session adopts the tunnel there is (resume_connected).                  *)
Resumed_Not == FALSE
Resumed == tunnel.up
Accept(c) ==
    /\ pc = "accept" /\ client[c] = "waiting"
    /\ pc' = "select"
    /\ client' = [client EXCEPT ![c] = "served"]
    /\ session' = [of |-> c, greeted |-> FALSE, connected |-> Resumed]
    /\ UNCHANGED <<plan, at, after, tunnel, record, net, lan, sigterm, left>>

(* serve returns, which drops the tunnel and tears it down.                *)
ServeReturns ==
    /\ IF tunnel.up
       THEN /\ pc' = "revert" /\ plan' = tunnel.plan /\ at' = 0 /\ after' = "exit"
            /\ tunnel' = [tunnel EXCEPT !.up = FALSE]
            /\ UNCHANGED sigterm
       ELSE /\ pc' = "stopped" /\ sigterm' = FALSE
            /\ UNCHANGED <<plan, at, after, tunnel>>
    /\ UNCHANGED <<record, net, lan, client, session, left>>

(* A signal is looked at here only.                                        *)
Terminate == pc = "accept" /\ sigterm /\ ServeReturns

(* accept fails, and `?` ends serve.                                       *)
AcceptFails == pc = "accept" /\ ServeReturns

----------------------------------------------------------------------------
(* serve_one: the inner select, and Session::handle.                       *)

HangUpSeen ==
    /\ pc = "select" /\ client[session.of] = "gone"
    /\ pc' = "accept" /\ EndSession
    /\ UNCHANGED <<plan, at, after, tunnel, record, net, lan, sigterm, left>>

(* A hello with the right version.  One with a wrong version, a request    *)
(* before hello and get_status only write a reply.                         *)
Hello ==
    /\ pc = "select" /\ ~session.greeted
    /\ Reply([session EXCEPT !.greeted = TRUE])
    /\ UNCHANGED <<plan, at, after, tunnel, record, net, lan, sigterm, left>>

(* Connect, past the gate.                                                 *)
AlreadyConnected_Ignored == FALSE
AlreadyConnected == session.connected
Connect(p) ==
    /\ pc = "select" /\ session.greeted
    /\ ~AlreadyConnected
    /\ pc' = "connect" /\ plan' = p
    /\ UNCHANGED <<at, after, tunnel, record, net, lan, client, session, sigterm, left>>

(* The acknowledgement is written before the tunnel is stopped; if that    *)
(* fails, the tunnel is not stopped.                                       *)
StopTunnel(p) ==
    /\ pc' = "revert" /\ plan' = p /\ at' = 0 /\ after' = "stopped"
    /\ tunnel' = [tunnel EXCEPT !.up = FALSE]

Disconnect ==
    /\ pc = "select" /\ session.greeted /\ session.connected
    /\ IF client[session.of] = "served"
       THEN /\ StopTunnel(tunnel.plan)
            /\ session' = [session EXCEPT !.connected = FALSE]
            /\ UNCHANGED client
       ELSE /\ pc' = "accept" /\ EndSession
            /\ UNCHANGED <<plan, at, after, tunnel>>
    /\ UNCHANGED <<record, net, lan, sigterm, left>>

(* The ticker: an engine that ended by itself takes its tunnel with it.    *)
HasStopped_Never == FALSE
HasStopped == ~tunnel.alive
NoticeDeadEngine ==
    /\ pc = "select" /\ session.greeted
    /\ tunnel.up /\ HasStopped
    /\ StopTunnel(tunnel.plan)
    /\ session' = [session EXCEPT !.connected = FALSE]
    /\ UNCHANGED <<record, net, lan, client, sigterm, left>>

----------------------------------------------------------------------------
(* Tunnel::start, up to each of its awaits, errors and writes to disk.     *)

(* `?` returns the error, serve_one writes it.                             *)
StartFails ==
    /\ plan' = NoPlan /\ at' = 0 /\ after' = "none"
    /\ Reply([session EXCEPT !.connected = FALSE])

ConnectProtocol ==
    /\ pc = "connect"
    /\ \/ /\ pc' = "device"
          /\ UNCHANGED <<plan, at, after, client, session>>
       \/ StartFails
    /\ UNCHANGED <<tunnel, record, net, lan, sigterm, left>>

(* TUN device, packet stack, gateway: a failure closes the device again.   *)
OpenDevice ==
    /\ pc = "device"
    /\ \/ /\ pc' = "save"
          /\ net' = WithDevice(net, Tun)
          /\ UNCHANGED <<plan, at, after, client, session>>
       \/ StartFails /\ UNCHANGED net
    /\ UNCHANGED <<tunnel, record, lan, sigterm, left>>

(* AppliedState::save, before anything is applied.  It writes in place, so *)
(* a failure may leave a file that does not parse.                         *)
Saved_Nothing(p) == NoRecord
Saved(p) == p
SaveRecord ==
    /\ pc = "save"
    /\ \/ /\ record' = Saved(plan)
          /\ pc' = "apply" /\ at' = 0
          /\ UNCHANGED <<plan, after, net, client, session>>
       \/ /\ record' \in {record, Torn}
          /\ net' = WithoutDevice(net, Tun)
          /\ StartFails
    /\ UNCHANGED <<tunnel, lan, sigterm, left>>

(* RouteGuard::apply, one command.  There is no guard before the last one: *)
(* what a failing command leaves behind is not reverted, but the device    *)
(* goes with the stack.                                                    *)
ApplyCommand ==
    /\ pc = "apply" /\ at < Len(ApplyCommands(Manager, plan))
    /\ LET cmd == ApplyCommands(Manager, plan)[at + 1] IN
         \/ /\ CanRun(cmd, net)
            /\ net' = Ran(cmd, net)
            /\ at' = at + 1
            /\ UNCHANGED <<pc, plan, after, client, session, left>>
         \/ /\ IF CanRun(cmd, net) THEN Mishap ELSE UNCHANGED left
            /\ net' = WithoutDevice(net, Tun)
            /\ StartFails
    /\ UNCHANGED <<tunnel, record, lan, sigterm>>

(* The resolver may be misconfigured, which drops the guard; otherwise the *)
(* engine runs and the tunnel is the daemon's.                             *)
StartEngine ==
    /\ pc = "apply" /\ at = Len(ApplyCommands(Manager, plan))
    /\ \/ /\ tunnel' = [up |-> TRUE, alive |-> TRUE, plan |-> plan]
          /\ plan' = NoPlan /\ at' = 0
          /\ Reply([session EXCEPT !.connected = TRUE])
          /\ UNCHANGED after
       \/ /\ pc' = "revert" /\ at' = 0 /\ after' = "failed"
          /\ UNCHANGED <<plan, tunnel, client, session>>
    /\ UNCHANGED <<record, net, lan, sigterm, left>>

----------------------------------------------------------------------------
(* Reverting: RouteGuard::revert_now, or recover_if_stale's own loop.      *)

(* A command that fails is logged and the next one runs.                   *)
RevertCommand ==
    /\ pc = "revert" /\ at < Len(RevertCommands(Manager, plan))
    /\ LET cmd == RevertCommands(Manager, plan)[at + 1] IN
         \/ CanRun(cmd, net) /\ net' = Ran(cmd, net) /\ UNCHANGED left
         \/ /\ IF CanRun(cmd, net) THEN Mishap ELSE UNCHANGED left
            /\ UNCHANGED net
    /\ at' = at + 1
    /\ UNCHANGED <<pc, plan, after, tunnel, record, lan, client, session, sigterm>>

(* Routes first, then the stack, and the device with it; then the record,  *)
(* unless this is a start that failed.                                     *)
RevertDone ==
    /\ pc = "revert" /\ at = Len(RevertCommands(Manager, plan))
    /\ net' = WithoutDevice(net, Tun)
    /\ IF after = "failed"
       THEN StartFails
       ELSE pc' = "clear" /\ UNCHANGED <<plan, at, after, client, session>>
    /\ UNCHANGED <<tunnel, record, lan, sigterm, left>>

ClearRecord ==
    /\ pc = "clear"
    /\ record' = NoRecord
    /\ tunnel' = NoTunnel
    /\ plan' = NoPlan /\ at' = 0 /\ after' = "none"
    /\ pc' = CASE after = "recovered" -> "accept"
               [] after = "stopped" -> "select"
               [] after = "exit" -> "stopped"
    /\ sigterm' = (sigterm /\ after # "exit")
    /\ UNCHANGED <<net, lan, client, session, left>>

----------------------------------------------------------------------------
(* What happens to the daemon.                                             *)

Up == pc \notin {"down", "stopped"}

(* SIGKILL or a panic: the device goes with its last descriptor, the       *)
(* clients lose their connection, the files stay.                          *)
Crash ==
    /\ Up /\ left.crashes > 0
    /\ left' = [left EXCEPT !.crashes = @ - 1]
    /\ pc' = "down" /\ plan' = NoPlan /\ at' = 0 /\ after' = "none"
    /\ tunnel' = NoTunnel /\ session' = Closed /\ sigterm' = FALSE
    /\ client' = [c \in Clients |-> "away"]
    /\ net' = WithoutDevice(net, Tun)
    /\ \/ UNCHANGED record
       \/ pc = "save" /\ record' = Torn
    /\ UNCHANGED lan

Restart ==
    /\ ~Up
    /\ pc' = "boot"
    /\ UNCHANGED <<plan, at, after, tunnel, record, net, lan, client, session, sigterm, left>>

(* The stack thread dies or gives up: the engine ends, the device closes.  *)
EngineDies ==
    /\ tunnel.up /\ tunnel.alive
    /\ tunnel' = [tunnel EXCEPT !.alive = FALSE]
    /\ net' = WithoutDevice(net, Tun)
    /\ UNCHANGED <<pc, plan, at, after, record, lan, client, session, sigterm, left>>

Sigterm ==
    /\ Up /\ pc # "boot" /\ after # "recovered" /\ ~sigterm
    /\ sigterm' = TRUE
    /\ UNCHANGED <<pc, plan, at, after, tunnel, record, net, lan, client, session, left>>

ClientComes(c) ==
    /\ Up /\ client[c] = "away" /\ left.sessions > 0
    /\ left' = [left EXCEPT !.sessions = @ - 1]
    /\ client' = [client EXCEPT ![c] = "waiting"]
    /\ UNCHANGED <<pc, plan, at, after, tunnel, record, net, lan, session, sigterm>>

ClientHangsUp(c) ==
    /\ client[c] = "served"
    /\ client' = [client EXCEPT ![c] = "gone"]
    /\ UNCHANGED <<pc, plan, at, after, tunnel, record, net, lan, session, sigterm, left>>

(* The machine joins another network while nothing of a tunnel is in place.*)
NetworkMoves ==
    /\ pc \in {"accept", "select"} /\ net.resolv = lan /\ left.moves > 0
    /\ left' = [left EXCEPT !.moves = @ - 1]
    /\ lan' \in Lans \ {lan}
    /\ net' = [net EXCEPT !.resolv = lan']
    /\ UNCHANGED <<pc, plan, at, after, tunnel, record, client, session, sigterm>>

----------------------------------------------------------------------------
(* The daemon's own moves; a client's requests, and its environment's.     *)
Working == \/ Recover \/ SkipRecovery
           \/ ConnectProtocol \/ OpenDevice \/ SaveRecord \/ ApplyCommand \/ StartEngine
           \/ RevertCommand \/ RevertDone \/ ClearRecord

Requests == Hello \/ Disconnect \/ \E p \in RoutePlan : Connect(p)

Environment == \/ Crash \/ Restart \/ AcceptFails \/ EngineDies \/ Sigterm \/ NetworkMoves
               \/ \E c \in Clients : ClientComes(c) \/ ClientHangsUp(c)

Next == \/ Working
        \/ \E c \in Clients : Accept(c)
        \/ Terminate \/ HangUpSeen \/ NoticeDeadEngine
        \/ Requests
        \/ Environment

Spec == Init /\ [][Next]_vars

(* The daemon works, every branch of its two selects that is ready is      *)
(* taken in the end, and the service manager restarts it after a crash     *)
(* (Restart=on-failure).  Clients owe nothing.                             *)
Fairness ==
    /\ WF_vars(Working)
    /\ \A c \in Clients : SF_vars(Accept(c))
    /\ SF_vars(Terminate) /\ WF_vars(HangUpSeen) /\ WF_vars(NoticeDeadEngine)
    /\ WF_vars(pc = "down" /\ Restart)
FairSpec == Spec /\ Fairness

----------------------------------------------------------------------------
(* Safety.                                                                 *)

NoMishap == left.mishaps = MaxMishaps
Recorded == record \in RoutePlan /\ record.mode = "default"

(* Whatever would outlive the process, the pin of a server and the         *)
(* overwritten resolv.conf, is in the record at every moment, with what it *)
(* takes to undo it: a crash between any two steps can be recovered from.  *)
LeftoversRecorded ==
    NoMishap =>
        /\ \A r \in Pins(net) : Recorded /\ r = Pin(record.server)
        /\ net.resolv = TunnelDns =>
              Recorded /\ (Manager = "linux" => net.backup \in Lans)

(* With no tunnel and no start under way, nothing of a tunnel is left on   *)
(* the machine: after a disconnect, a start that failed at any step, an    *)
(* engine that died, a shutdown, or a recovery.                            *)
IdleIsClean ==
    NoMishap /\ pc \in {"stopped", "accept", "select", "connect", "device"} /\ ~tunnel.up
        => Untouched(net)

(* What of a tunnel is on the machine is the running tunnel's, or on       *)
(* record.                                                                 *)
MachineAccounted == TypeOK /\ LeftoversRecorded /\ IdleIsClean

(* A tunnel that is up has its record on disk, and its pin and resolver in *)
(* place: no later start, client or recovery takes them from under it.     *)
TunnelIsBacked ==
    tunnel.up => /\ record = tunnel.plan
                 /\ tunnel.plan.mode = "default" =>
                        Pin(tunnel.plan.server) \in net.routes /\ net.resolv = TunnelDns

(* What a session tells its client is the truth about the tunnel, for the  *)
(* client that started it and for one that finds it running.               *)
SessionMirrorsTunnel == pc = "select" => session.connected = tunnel.up

(* ------------------------------------------------------------------------*)
(* Liveness.                                                               *)

(* Whatever a killed daemon left on the machine is undone by the next run, *)
(* however often that one is killed in turn.                               *)
CrashIsUndone == pc = "down" ~> Untouched(net) \/ ~NoMishap

(* An engine that ended by itself takes the routes with it, as long as a   *)
(* client is there.                                                        *)
EngineDeathNoticed ==
    (tunnel.up /\ ~tunnel.alive /\ session.greeted)
        ~> (~tunnel.up \/ session.of = Nobody)
=============================================================================
