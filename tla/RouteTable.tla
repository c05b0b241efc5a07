----------------------------- MODULE RouteTable -----------------------------
(***************************************************************************)
(* The route and resolver commands (crates/liostunnel-core/src/route), and *)
(* what they do to the machine.  `linux.rs` and `macos.rs` build the       *)
(* lists, in order; `mod.rs` runs them one by one.  The machine itself is  *)
(* external: a set of routes, of which those through a TUN device go with  *)
(* the device, the resolver in force, and on Linux the backup of           *)
(* resolv.conf, which nothing ever removes.                                *)
(***************************************************************************)
EXTENDS Naturals, Sequences, SequencesExt

CONSTANTS
    Servers,     \* addresses a session may reach
    Interfaces,  \* TUN devices
    Halves,      \* the prefixes Default mode routes into the device, in order
    Cidrs,       \* the prefixes Test mode does
    Resolvers,   \* the resolvers it captures as well
    Covered,     \* the resolvers that a listed prefix contains
    Lans         \* resolver configurations that networks, or the user, provide

TunnelDns == "tunnel"      \* the resolver configuration liostunnel writes
Automatic == "automatic"   \* what the network provides, on macOS
NoBackup == "none"         \* there is no backup file

ASSUME RouteTableAssumption ==
    /\ \A s \in {Halves, Cidrs, Resolvers} : s \in Seq(STRING)
    /\ \A r \in Range(Resolvers) : r \in Range(Cidrs) => r \in Covered
    /\ Lans \cap {TunnelDns, Automatic, NoBackup} = {}
    /\ "gateway" \notin Interfaces
    /\ \A j, k \in DOMAIN Halves : Halves[j] = Halves[k] => j = k
    /\ Range(Halves) \cap Servers = {}

(* dns_servers_needing_host_routes: a host route beside a prefix that has  *)
(* the resolver already would be refused.                                  *)
HostRoutes == SelectSeq(Resolvers, LAMBDA r : r \notin Covered)

(* What SelectSeq makes of a sequence of strings.                          *)
ASSUME HostRoutesAssumption == HostRoutes \in Seq(STRING)

(* A route is the pin of a server, through the original gateway, or leads  *)
(* a prefix into a TUN device.                                             *)
Pin(s) == [via |-> "gateway", to |-> s]
Into(i, p) == [via |-> i, to |-> p]
Routes == {Pin(s) : s \in Servers}
          \cup {Into(i, p) : i \in Interfaces, p \in Range(Halves \o Cidrs \o HostRoutes)}

Net == [routes : SUBSET Routes, devices : SUBSET Interfaces,
        resolv : Lans \cup {TunnelDns, Automatic},
        backup : Lans \cup {TunnelDns, NoBackup}]

RouteMode == {"test", "default"}
RoutePlan == [server : Servers, mode : RouteMode, interface : Interfaces]

Add(r) == [do |-> "add", route |-> r]
Del(r) == [do |-> "del", route |-> r]
Backup == [do |-> "backup"]      \* Linux: cp resolv.conf backup
Override == [do |-> "override"]  \* Linux: dd of=resolv.conf
Restore == [do |-> "restore"]    \* Linux: cp backup resolv.conf
SetDns == [do |-> "override"]    \* macOS: networksetup -setdnsservers Wi-Fi ...
EmptyDns == [do |-> "empty"]     \* macOS: networksetup -setdnsservers Wi-Fi Empty

Captured(plan) == IF plan.mode = "test" THEN Cidrs \o HostRoutes ELSE Halves
TunRoutes(plan) == [k \in DOMAIN Captured(plan) |-> Into(plan.interface, Captured(plan)[k])]
AddTunRoutes(plan) == [k \in DOMAIN TunRoutes(plan) |-> Add(TunRoutes(plan)[k])]
DelTunRoutes(plan) == [k \in DOMAIN TunRoutes(plan) |-> Del(TunRoutes(plan)[k])]

(* The pin comes first, the resolver last.                                 *)
ApplyCommands(manager, plan) ==
    IF plan.mode = "test" THEN AddTunRoutes(plan)
    ELSE <<Add(Pin(plan.server))>> \o AddTunRoutes(plan)
         \o (IF manager = "linux" THEN <<Backup, Override>> ELSE <<SetDns>>)

RevertCommands_KeepsResolver(manager, plan) ==
    IF plan.mode = "test" THEN DelTunRoutes(plan)
    ELSE DelTunRoutes(plan) \o <<Del(Pin(plan.server))>>
RevertCommands(manager, plan) ==
    IF plan.mode = "test" THEN DelTunRoutes(plan)
    ELSE DelTunRoutes(plan) \o <<Del(Pin(plan.server))>>
         \o (IF manager = "linux" THEN <<Restore>> ELSE <<EmptyDns>>)

(* Whether a command can succeed: the kernel refuses a second route to the *)
(* same prefix, a route through a device that is not there, and the        *)
(* deletion of a route that is not there.                                  *)
CanRun(cmd, net) ==
    CASE cmd.do = "add" -> /\ \A r \in net.routes : r.to # cmd.route.to
                           /\ cmd.route.via \in net.devices \cup {"gateway"}
      [] cmd.do = "del" -> cmd.route \in net.routes
      [] cmd.do = "restore" -> net.backup # NoBackup
      [] OTHER -> TRUE

Ran(cmd, net) ==
    CASE cmd.do = "add" -> [net EXCEPT !.routes = @ \cup {cmd.route}]
      [] cmd.do = "del" -> [net EXCEPT !.routes = @ \ {cmd.route}]
      [] cmd.do = "backup" -> [net EXCEPT !.backup = net.resolv]
      [] cmd.do = "override" -> [net EXCEPT !.resolv = TunnelDns]
      [] cmd.do = "restore" -> [net EXCEPT !.resolv = net.backup]
      [] cmd.do = "empty" -> [net EXCEPT !.resolv = Automatic]

(* A TUN device appears, or goes, and the kernel removes the routes        *)
(* through it.                                                             *)
WithDevice(net, i) == [net EXCEPT !.devices = @ \cup {i}]
WithoutDevice(net, i) ==
    [net EXCEPT !.devices = @ \ {i}, !.routes = {r \in net.routes : r.via # i}]

Pins(net) == {r \in net.routes : r.via = "gateway"}

(* Nothing of a tunnel is on the machine, and its resolver is not one's.   *)
Untouched(net) == net.routes = {} /\ net.devices = {} /\ net.resolv # TunnelDns
=============================================================================
