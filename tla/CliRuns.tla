------------------------------ MODULE CliRuns ------------------------------
(***************************************************************************)
(* Runs of `liostunnel connect` on one machine (crates/liostunnel-cli's    *)
(* `connect.rs`, with `route/state.rs`): each brings up a tunnel of its    *)
(* own, records how to undo its routes in a file they all share, and is    *)
(* stopped, killed, or ended by its engine at any step.                    *)
(***************************************************************************)
EXTENDS RouteTable, FiniteSets

CONSTANT Runs    \* processes, each with a TUN device named after it

ASSUME RunsAssumption == Runs \subseteq Interfaces

VARIABLES
    manager,      \* platform_manager
    run,          \* each run: where it is, its plan, what it has yet to do, its stack
    record,       \* applied_routes.json: the pid in it, and the plan it undoes
    net,          \* the machine's routes, devices and resolver
    overlapped,   \* history: a run looked at the record while another was past its
                  \* look and had not written its own yet
    failed        \* history: the undo commands that failed although they could run,
                  \* as long as what they should have undone is there

runVars == <<manager, run, record, net, overlapped, failed>>

Absent == [by |-> "nobody"]    \* there is no state file
Torn == [by |-> "torn"]        \* it does not parse
Looked == {"undo", "save", "writing"}
Live == {"dial", "device", "gateway", "look", "apply", "running", "stop"} \cup Looked

Shutdown == [do |-> "shutdown"]
Clear == [do |-> "clear"]
Steps == [do : {"add", "del"}, route : Routes]
         \cup {Backup, Override, Restore, EmptyDns, Shutdown, Clear}

RunTypeOK ==
    /\ manager \in {"linux", "macos"}
    /\ run \in [Runs -> [stage : Live \cup {"off", "gone"}, mode : RouteMode, server : Servers,
                         todo : Seq(Steps), stack : {"none", "up", "died", "shut"}]]
    /\ record \in {Absent, Torn} \cup [by : Runs, plan : RoutePlan]
    /\ net \in Net
    /\ overlapped \in BOOLEAN
    /\ failed \subseteq Steps

RunInit ==
    /\ manager \in {"linux", "macos"}
    /\ run \in [Runs -> [stage : {"off"}, mode : RouteMode, server : Servers,
                         todo : {<<>>}, stack : {"none"}]]
    /\ record = Absent
    /\ \E l \in Lans : net = [routes |-> {}, devices |-> {}, resolv |-> l, backup |-> NoBackup]
    /\ overlapped = FALSE
    /\ failed = {}

Plan(r) == [server |-> run[r].server, mode |-> run[r].mode, interface |-> r]

Goes(r, stage, todo) == run' = [run EXCEPT ![r].stage = stage, ![r].todo = todo]

(* The process ends, in any way: its stack and its device go with it.      *)
Gone(r) ==
    /\ run' = [run EXCEPT ![r].stage = "gone", ![r].todo = <<>>, ![r].stack = "none"]
    /\ net' = WithoutDevice(net, r)

----------------------------------------------------------------------------
(* `run`, up to each of its errors and each of its writes.                 *)

StartRun(r) ==
    /\ run[r].stage = "off"
    /\ Goes(r, "dial", <<>>)
    /\ UNCHANGED <<manager, record, net, overlapped, failed>>

(* connect_protocol.                                                       *)
Dial(r) ==
    /\ run[r].stage = "dial"
    /\ \/ Goes(r, "device", <<>>) /\ UNCHANGED net
       \/ Gone(r)
    /\ UNCHANGED <<manager, record, overlapped, failed>>

(* TunDevice::open and SmoltcpStack::start.                                *)
OpenTun(r) ==
    /\ run[r].stage = "device"
    /\ \/ /\ run' = [run EXCEPT ![r].stage = "gateway", ![r].stack = "up"]
          /\ net' = WithDevice(net, r)
       \/ Gone(r)
    /\ UNCHANGED <<manager, record, overlapped, failed>>

DetectGateway(r) ==
    /\ run[r].stage = "gateway"
    /\ \/ Goes(r, "look", <<>>) /\ UNCHANGED net
       \/ Gone(r)
    /\ UNCHANGED <<manager, record, overlapped, failed>>

(* recover_if_stale.  A record that does not parse, or whose process is    *)
(* alive, ends this run.                                                   *)
ProcessIsAlive_NotOurs(p) == FALSE
ProcessIsAlive(p) == run[p].stage \in Live
LookAtRecord(r) ==
    /\ run[r].stage = "look"
    /\ LET looking == \E q \in Runs \ {r} : run[q].stage \in Looked
       IN  \/ /\ record = Absent
              /\ Goes(r, "save", <<>>)
              /\ overlapped' = (overlapped \/ looking)
              /\ UNCHANGED net
           \/ /\ record \notin {Absent, Torn}
              /\ ~ProcessIsAlive(record.by)
              /\ Goes(r, "undo", RevertCommands(manager, record.plan) \o <<Clear>>)
              /\ overlapped' = (overlapped \/ looking)
              /\ UNCHANGED net
           \/ /\ record # Absent
              /\ record # Torn => ProcessIsAlive(record.by)
              /\ Gone(r)
              /\ UNCHANGED overlapped
    /\ UNCHANGED <<manager, record, failed>>

(* AppliedState::save: fs::write truncates, then writes; either may fail.  *)
TruncateRecord(r) ==
    /\ run[r].stage = "save"
    /\ \/ record' = Torn /\ Goes(r, "writing", <<>>) /\ UNCHANGED net
       \/ Gone(r) /\ UNCHANGED record
    /\ UNCHANGED <<manager, overlapped, failed>>

WriteRecord(r) ==
    /\ run[r].stage = "writing"
    /\ \/ /\ record' = [by |-> r, plan |-> Plan(r)]
          /\ Goes(r, "apply", ApplyCommands(manager, Plan(r)))
          /\ UNCHANGED net
       \/ Gone(r) /\ UNCHANGED record
    /\ UNCHANGED <<manager, overlapped, failed>>

(* RouteGuard::apply: a command that fails ends the run, and nothing       *)
(* reverts those before it.                                                *)
ApplyNext(r) ==
    /\ run[r].stage = "apply" /\ run[r].todo # <<>>
    /\ LET cmd == Head(run[r].todo)
       IN  \/ CanRun(cmd, net) /\ net' = Ran(cmd, net) /\ Goes(r, "apply", Tail(run[r].todo))
           \/ Gone(r)
    /\ UNCHANGED <<manager, record, overlapped, failed>>

StartForwarding(r) ==
    /\ run[r].stage = "apply" /\ run[r].todo = <<>>
    /\ Goes(r, "running", <<>>)
    /\ UNCHANGED <<manager, record, net, overlapped, failed>>

(* Ctrl-C, SIGTERM, or the engine's own end: routes first, then the stack. *)
StopSteps_ClearFirst(r) ==
    <<Clear>> \o RevertCommands(manager, Plan(r)) \o <<Shutdown>>
StopSteps(r) == RevertCommands(manager, Plan(r)) \o <<Shutdown, Clear>>
Stop(r) ==
    /\ run[r].stage = "running"
    /\ Goes(r, "stop", StopSteps(r))
    /\ UNCHANGED <<manager, record, net, overlapped, failed>>

(* The handler of SIGTERM cannot be installed: `?` drops the guard, and    *)
(* then the stack's.                                                       *)
StopUnheard(r) ==
    /\ run[r].stage = "running"
    /\ Goes(r, "stop", RevertCommands(manager, Plan(r)) \o <<Shutdown>>)
    /\ UNCHANGED <<manager, record, net, overlapped, failed>>

(* What is still there of what commands should have undone.                *)
Left(commands, n) ==
    {c \in commands : IF c.do = "del" THEN c.route \in n.routes ELSE n.resolv = TunnelDns}

(* One step of an undo or a stop.  A command that fails is logged, and the *)
(* next one follows, whether the machine refused it or it failed though it *)
(* could run (a second Ctrl-C ends it as well).  A file that cannot be     *)
(* removed stays, and nobody hears of it.                                  *)
Undoes(r) ==
    /\ run[r].stage \in {"undo", "stop"} /\ run[r].todo # <<>>
    /\ LET step == Head(run[r].todo)
       IN  /\ run' = [run EXCEPT ![r].todo = Tail(@),
                                 ![r].stack = IF step = Shutdown THEN "shut" ELSE @]
           /\ record' \in IF step = Clear THEN {Absent, record} ELSE {record}
           /\ \/ /\ net' = CASE step = Shutdown -> WithoutDevice(net, r)
                            [] step = Clear -> net
                            [] OTHER -> IF CanRun(step, net) THEN Ran(step, net) ELSE net
                 /\ failed' = Left(failed, net')
              \/ /\ step \notin {Shutdown, Clear} /\ CanRun(step, net)
                 /\ failed' = Left(failed \cup {step}, net)
                 /\ UNCHANGED net
    /\ UNCHANGED <<manager, overlapped>>

UndoDone(r) ==
    /\ run[r].todo = <<>>
    /\ \/ run[r].stage = "undo" /\ Goes(r, "save", <<>>) /\ UNCHANGED net
       \/ run[r].stage = "stop" /\ Gone(r)
    /\ UNCHANGED <<manager, record, overlapped, failed>>

(* The stack thread panics or gives up, and the device closes.             *)
StackEnds(r) ==
    /\ run[r].stack = "up"
    /\ run' = [run EXCEPT ![r].stack = "died"]
    /\ net' = WithoutDevice(net, r)
    /\ UNCHANGED <<manager, record, overlapped, failed>>

(* SIGKILL; and any signal before "running", where no handler is set.      *)
Kill(r) ==
    /\ run[r].stage \in Live
    /\ Gone(r)
    /\ UNCHANGED <<manager, record, overlapped, failed>>

RunMoves(r) ==
    \/ StartRun(r) \/ Dial(r) \/ OpenTun(r) \/ DetectGateway(r) \/ LookAtRecord(r)
    \/ TruncateRecord(r) \/ WriteRecord(r) \/ ApplyNext(r) \/ StartForwarding(r)
    \/ Stop(r) \/ StopUnheard(r) \/ Undoes(r) \/ UndoDone(r) \/ StackEnds(r) \/ Kill(r)

RunNext == \E r \in Runs : RunMoves(r)

----------------------------------------------------------------------------
(* What a run puts on the machine besides the routes through its device.   *)
InPlace(r) ==
    /\ run[r].stack = "up" =>
          \A k \in DOMAIN TunRoutes(Plan(r)) : TunRoutes(Plan(r))[k] \in net.routes
    /\ run[r].mode = "default" => Pin(run[r].server) \in net.routes /\ net.resolv = TunnelDns

(* One run at a time holds routes, under its own record, and no other run  *)
(* takes them away.  It finds none of its own refused (unless the operator *)
(* lists a prefix twice), but by a route that a command should have        *)
(* deleted and failed to.  All of this as long as no two runs come at once *)
(* to the look and the writing that recover_if_stale and save do not join  *)
(* (connect.rs, state.rs).                                                 *)
Holds(r) == run[r].stage \in {"apply", "running"} \/ (run[r].stage = "stop" /\ run[r].todo # <<>>)
InTheWay(cmd) == \E x \in net.routes : x.to = cmd.route.to /\ Del(x) \in failed
RunsKeptApart ==
    RunTypeOK /\ (~overlapped =>
        \A r \in Runs : Holds(r) =>
            /\ \A q \in Runs \ {r} : ~Holds(q)
            /\ record = [by |-> r, plan |-> Plan(r)]
            /\ run[r].stage = "running" => InPlace(r)
            /\ (/\ run[r].stage = "apply" /\ run[r].stack = "up" /\ run[r].todo # <<>>
                /\ IsInjective(Captured(Plan(r)))) =>
                    CanRun(Head(run[r].todo), net) \/ InTheWay(Head(run[r].todo)))

(* What deletes a route finds it: a stop does so while the device that     *)
(* carries the routes is there, unless the stack died by itself.           *)
FindsItsRoutes(r) ==
    /\ run[r].stage = "stop" /\ run[r].stack # "died"
    /\ run[r].todo # <<>> /\ Head(run[r].todo) \notin {Shutdown, Clear}
    => CanRun(Head(run[r].todo), net)

(* The record undoes a server's pin and the resolver.                      *)
Recorded == record \notin {Absent, Torn} /\ record.plan.mode = "default"

(* However runs fail, are stopped or killed, what outlives their processes *)
(* is in the record with what undoes it, or was left by a command of an    *)
(* undo that failed; with no record, no such failure and nobody alive the  *)
(* machine is as it was without them; and no route that a stop deletes is  *)
(* gone before it (AppliedState, RouteGuard, the order of revert_now and   *)
(* shutdown in run).                                                       *)
RunLeavesNothing ==
    ~overlapped =>
        /\ \A x \in Pins(net) :
              (Recorded /\ x = Pin(record.plan.server)) \/ Del(x) \in failed
        /\ net.resolv = TunnelDns => Recorded \/ {Restore, EmptyDns} \cap failed # {}
        /\ (/\ record = Absent /\ Left(failed, net) = {}
            /\ \A r \in Runs : run[r].stage \notin Live) => Untouched(net)
        /\ \A r \in Runs : FindsItsRoutes(r)
=============================================================================
