------------------------ MODULE HelperDaemon_proofs ------------------------
(***************************************************************************)
(* Any number of clients, servers, prefixes, sessions, mishaps and kills:  *)
(* what a session says of the tunnel is true, a tunnel that is up is on    *)
(* record and in place, and what would outlive the daemon is on record or  *)
(* gone.                                                                   *)
(***************************************************************************)
EXTENDS HelperDaemon, RouteTable_proofs

----------------------------------------------------------------------------
(* The invariant, in three parts.  Control: where the daemon is says whom  *)
(* it serves, which plan it is at, and that only the two selects have a    *)
(* tunnel.  Backed: from save to clear the record is the plan's, and how   *)
(* many commands of apply have run says that the pin and the resolver are  *)
(* in place.  Left: as long as nothing went wrong that the machine's state *)
(* does not explain, what is on the machine at every place.                *)

Applied == ApplyCommands(Manager, plan)
Reverted == RevertCommands(Manager, plan)

Starting == {"connect", "device", "save", "apply"}
Undoing == {"revert", "clear"}
Idle == {"stopped", "accept", "select", "connect", "device"}

Sessions == [of : Clients \cup {Nobody}, greeted : BOOLEAN, connected : BOOLEAN]
Peers == [Clients -> {"away", "waiting", "served", "gone"}]
Tunnels == [up : BOOLEAN, alive : BOOLEAN, plan : RoutePlan \cup {NoPlan}]
Bounds == [mishaps : 0 .. MaxMishaps, crashes : 0 .. MaxCrashes,
           moves : 0 .. MaxMoves, sessions : 0 .. MaxSessions]
Places == {"down", "stopped", "boot", "accept", "select", "connect", "device", "save",
           "apply", "revert", "clear"}

Typed ==
    /\ pc \in Places /\ plan \in RoutePlan \cup {NoPlan} /\ at \in Nat
    /\ after \in {"recovered", "stopped", "failed", "exit", "none"}
    /\ tunnel \in Tunnels /\ record \in RoutePlan \cup {NoRecord, Torn} /\ lan \in Lans
    /\ client \in Peers /\ session \in Sessions /\ sigterm \in BOOLEAN /\ left \in Bounds

Control ==
    /\ Typed
    /\ tunnel.up => pc \in {"accept", "select"} /\ tunnel.plan \in RoutePlan
    /\ pc \in Starting \cup {"select"} => session.of \in Clients
    /\ pc \in Starting \cup Undoing => plan \in RoutePlan
    /\ pc \in Undoing => after \in {"recovered", "stopped", "failed", "exit"}
    /\ pc = "clear" => after # "failed"
    /\ pc \in Undoing /\ after \in {"stopped", "failed"} => session.of \in Clients
    /\ pc \in Undoing /\ after = "stopped" => ~session.connected
    /\ pc = "select" => session.connected = tunnel.up

InPlace(p) ==
    p.mode = "default" => Pin(p.server) \in net.routes /\ net.resolv = TunnelDns

Backed ==
    /\ tunnel.up => record = tunnel.plan /\ InPlace(tunnel.plan)
    /\ pc \in {"apply"} \cup Undoing => record = plan
    /\ pc = "revert" => at <= Len(Reverted)
    /\ pc = "apply" => /\ at <= Len(Applied)
                       /\ plan.mode = "default" /\ at >= 1 => Pin(plan.server) \in net.routes
                       /\ at = Len(Applied) => InPlace(plan)

(* Of a default plan the first command pins the server, those that follow  *)
(* lead the halves into the device, and the last one has the resolver.     *)
Halfway ==
    /\ Tun \in net.devices
    /\ \A r \in net.routes : \/ at >= 1 /\ r = Pin(plan.server)
                             \/ \E k \in DOMAIN Halves : k < at /\ r = Into(Tun, Halves[k])
    /\ at < Len(Applied) => net.resolv # TunnelDns
    /\ Manager = "linux" /\ at >= Len(Halves) + 2 => net.backup \in Lans

Left ==
    NoMishap =>
        /\ LeftoversRecorded
        /\ net.backup # TunnelDns
        /\ pc \in Idle \cup {"clear"} /\ ~tunnel.up => Untouched(net)
        /\ pc \in {"down", "boot"} => net.devices = {} /\ net.routes = Pins(net)
        /\ pc = "save" => /\ Tun \in net.devices /\ net.routes = {}
                          /\ net.resolv # TunnelDns
        /\ pc = "apply" /\ plan.mode = "default" => Halfway
        /\ pc = "revert" /\ plan.mode = "default" =>
              /\ at > Len(Halves) => Pins(net) = {}
              /\ at = Len(Reverted) => net.resolv # TunnelDns

DaemonInvariant == Control /\ Sound(Manager, net) /\ Backed /\ Left

----------------------------------------------------------------------------
(* The machine.                                                            *)

(* The daemon's device is the only one, and every plan is for it.          *)
LEMMA OneDevice ==
    /\ Tun # "gateway" /\ Interfaces = {Tun}
    /\ \A p \in RoutePlan : p.interface = Tun
    /\ \A r \in Routes : r.via \in {"gateway", Tun}
  <1>1. Tun # "gateway" /\ Interfaces = {Tun}
    BY HelperDaemonAssumption, RouteTableAssumption
  <1>2. \A p \in RoutePlan : p.interface = Tun
    BY <1>1 DEF RoutePlan
  <1>3. ASSUME NEW r \in Routes PROVE r.via \in {"gateway", Tun}
    <2>1. r.via \in Interfaces \cup {"gateway"}
      BY Ways
    <2> QED
      BY <1>1, <2>1
  <1> QED
    BY <1>1, <1>2, <1>3

(* It goes, and with it every route but the pins.                          *)
LEMMA TunGone ==
    ASSUME NEW n, Sound(Manager, n)
    PROVE  LET m == WithoutDevice(n, Tun)
           IN  /\ Sound(Manager, m) /\ m.devices = {} /\ m.routes = Pins(n) /\ Pins(m) = Pins(n)
               /\ m.resolv = n.resolv /\ m.backup = n.backup
  <1>1. n.routes \in SUBSET Routes /\ n.devices \in SUBSET Interfaces
    BY Changed DEF Sound
  <1>2. {r \in n.routes : r.via # Tun} = Pins(n) /\ n.devices \ {Tun} = {}
    BY <1>1, OneDevice DEF Pins
  <1> QED
    BY <1>2, OneDevice, DeviceGone

----------------------------------------------------------------------------
(* Control.                                                                *)

(* A field of the records.                                                 *)
LEMMA FieldsTyped ==
    /\ \A s \in Sessions, b \in BOOLEAN :
          /\ [s EXCEPT !.connected = b] \in Sessions /\ [s EXCEPT !.connected = b].of = s.of
          /\ [s EXCEPT !.connected = b].connected = b
          /\ [s EXCEPT !.greeted = b] \in Sessions /\ [s EXCEPT !.greeted = b].of = s.of
          /\ [s EXCEPT !.greeted = b].connected = s.connected
    /\ \A t \in Tunnels, b \in BOOLEAN :
          /\ [t EXCEPT !.up = b] \in Tunnels /\ [t EXCEPT !.up = b].up = b
          /\ [t EXCEPT !.up = b].plan = t.plan
          /\ [t EXCEPT !.alive = b] \in Tunnels /\ [t EXCEPT !.alive = b].up = t.up
          /\ [t EXCEPT !.alive = b].plan = t.plan
    /\ NoTunnel \in Tunnels /\ NoTunnel.up = FALSE
    /\ Closed \in Sessions
  <1>1. \A s \in Sessions, b \in BOOLEAN :
          /\ [s EXCEPT !.connected = b] \in Sessions /\ [s EXCEPT !.connected = b].of = s.of
          /\ [s EXCEPT !.connected = b].connected = b
          /\ [s EXCEPT !.greeted = b] \in Sessions /\ [s EXCEPT !.greeted = b].of = s.of
          /\ [s EXCEPT !.greeted = b].connected = s.connected
    BY DEF Sessions
  <1>2. \A t \in Tunnels, b \in BOOLEAN :
          /\ [t EXCEPT !.up = b] \in Tunnels /\ [t EXCEPT !.up = b].up = b
          /\ [t EXCEPT !.up = b].plan = t.plan
          /\ [t EXCEPT !.alive = b] \in Tunnels /\ [t EXCEPT !.alive = b].up = t.up
          /\ [t EXCEPT !.alive = b].plan = t.plan
    BY DEF Tunnels
  <1>3. NoTunnel \in Tunnels /\ NoTunnel.up = FALSE
    BY DEF Tunnels, NoTunnel
  <1>4. Closed \in Sessions
    BY DEF Sessions, Closed
  <1> QED
    BY <1>1, <1>2, <1>3, <1>4

(* One less of what is bounded, and the mishaps are as many.               *)
LEMMA BoundsTyped ==
    ASSUME NEW l \in Bounds
    PROVE  /\ l.crashes > 0 => /\ [l EXCEPT !.crashes = l.crashes - 1] \in Bounds
                               /\ [l EXCEPT !.crashes = l.crashes - 1].mishaps = l.mishaps
           /\ l.moves > 0 => /\ [l EXCEPT !.moves = l.moves - 1] \in Bounds
                             /\ [l EXCEPT !.moves = l.moves - 1].mishaps = l.mishaps
           /\ l.sessions > 0 => /\ [l EXCEPT !.sessions = l.sessions - 1] \in Bounds
                                /\ [l EXCEPT !.sessions = l.sessions - 1].mishaps = l.mishaps
           /\ l.mishaps > 0 => /\ [l EXCEPT !.mishaps = l.mishaps - 1] \in Bounds
                               /\ [l EXCEPT !.mishaps = l.mishaps - 1].mishaps # MaxMishaps
  <1>1. /\ MaxMishaps \in Nat /\ MaxCrashes \in Nat /\ MaxMoves \in Nat /\ MaxSessions \in Nat
    BY HelperDaemonAssumption
  <1>2. /\ l.mishaps \in 0 .. MaxMishaps /\ l.crashes \in 0 .. MaxCrashes
        /\ l.moves \in 0 .. MaxMoves /\ l.sessions \in 0 .. MaxSessions
    BY DEF Bounds
  <1>3. /\ l.crashes > 0 => l.crashes - 1 \in 0 .. MaxCrashes
        /\ l.moves > 0 => l.moves - 1 \in 0 .. MaxMoves
        /\ l.sessions > 0 => l.sessions - 1 \in 0 .. MaxSessions
        /\ l.mishaps > 0 => l.mishaps - 1 \in 0 .. MaxMishaps /\ l.mishaps - 1 # MaxMishaps
    BY <1>1, <1>2
  <1>4. /\ \A x \in 0 .. MaxCrashes : /\ [l EXCEPT !.crashes = x] \in Bounds
                                      /\ [l EXCEPT !.crashes = x].mishaps = l.mishaps
        /\ \A x \in 0 .. MaxMoves : /\ [l EXCEPT !.moves = x] \in Bounds
                                    /\ [l EXCEPT !.moves = x].mishaps = l.mishaps
        /\ \A x \in 0 .. MaxSessions : /\ [l EXCEPT !.sessions = x] \in Bounds
                                       /\ [l EXCEPT !.sessions = x].mishaps = l.mishaps
        /\ \A x \in 0 .. MaxMishaps : /\ [l EXCEPT !.mishaps = x] \in Bounds
                                      /\ [l EXCEPT !.mishaps = x].mishaps = x
    BY DEF Bounds
  <1> QED
    BY <1>3, <1>4

(* A mishap is one, for good.                                              *)
LEMMA MishapCounts ==
    ASSUME left \in Bounds, Mishap
    PROVE  left' \in Bounds /\ ~NoMishap'
  <1>1. left.mishaps > 0 /\ left' = [left EXCEPT !.mishaps = left.mishaps - 1]
    BY DEF Mishap
  <1> QED
    BY <1>1, BoundsTyped DEF NoMishap

(* Whoever is answered stays, or its session is over.                      *)
LEMMA Replied ==
    ASSUME Control, session.of \in Clients, NEW s \in Sessions, s.of = session.of, Reply(s)
    PROVE  /\ pc' \in {"select", "accept"} /\ session' \in Sessions /\ client' \in Peers
           /\ pc' = "select" => session' = s
  <1>1. client \in Peers
    BY DEF Control, Typed
  <1>2. CASE client[session.of] = "served"
    BY <1>1, <1>2 DEF Reply
  <1>3. CASE client[session.of] # "served"
    <2>1. pc' = "accept" /\ session' = Closed /\ client' = [client EXCEPT ![session.of] = "away"]
      BY <1>3 DEF Reply, EndSession
    <2>2. client' \in Peers
      BY <1>1, <2>1 DEF Peers
    <2> QED
      BY <2>1, <2>2, FieldsTyped
  <1> QED
    BY <1>2, <1>3

(* A start that fails has nothing of the tunnel left in the daemon.        *)
LEMMA Failed ==
    ASSUME Control, session.of \in Clients, StartFails
    PROVE  /\ pc' \in {"select", "accept"} /\ plan' = NoPlan /\ at' = 0 /\ after' = "none"
           /\ session' \in Sessions /\ client' \in Peers
           /\ pc' = "select" => session'.of \in Clients /\ session'.connected = FALSE
  <1> DEFINE s == [session EXCEPT !.connected = FALSE]
  <1>1. session \in Sessions
    BY DEF Control, Typed
  <1>2. s \in Sessions /\ s.of = session.of /\ s.connected = FALSE
    BY <1>1, FieldsTyped
  <1>3. plan' = NoPlan /\ at' = 0 /\ after' = "none" /\ Reply(s)
    BY DEF StartFails
  <1> HIDE DEF s
  <1> QED
    BY <1>2, <1>3, Replied

----------------------------------------------------------------------------
(* Steps that have much in common.                                         *)

(* Where nothing of a tunnel is on the machine, there is nothing to record.*)
LEMMA CleanIsLeft ==
    ASSUME NoMishap' => Untouched(net') /\ net'.backup # TunnelDns,
           pc' \in Idle \cup {"clear"}
    PROVE  Left'
  <1>1. pc' \notin {"down", "boot", "save", "apply", "revert"}
    BY DEF Idle
  <1>2. ASSUME NoMishap' PROVE /\ LeftoversRecorded' /\ net'.backup # TunnelDns
                               /\ Untouched(net')
    <2>1. Untouched(net') /\ net'.backup # TunnelDns
      BY <1>2
    <2>2. net'.routes = {} /\ net'.resolv # TunnelDns
      BY <2>1 DEF Untouched
    <2> QED
      BY <2>1, <2>2 DEF LeftoversRecorded, Pins
  <1> QED
    BY <1>1, <1>2 DEF Left

(* A step among the places where no start and no undoing is under way.     *)
LEMMA IdleMoves ==
    ASSUME Backed, Left, UNCHANGED <<net, record, tunnel>>, left'.mishaps = left.mishaps,
           pc \in Idle, pc' \in Idle
    PROVE  Backed' /\ Left'
  <1>1. pc' \notin {"down", "boot", "save", "apply", "revert", "clear"}
    BY DEF Idle
  <1>2. Backed'
    BY <1>1 DEF Backed, InPlace, Undoing
  <1>3. ASSUME NoMishap' PROVE /\ LeftoversRecorded' /\ net'.backup # TunnelDns
                               /\ ~tunnel'.up => Untouched(net')
    <2>1. NoMishap
      BY <1>3 DEF NoMishap
    <2> QED
      BY <2>1 DEF Left, LeftoversRecorded, Recorded, Pins, NoMishap
  <1> QED
    BY <1>1, <1>2, <1>3 DEF Left

(* A step that the tunnel, the plan at work and the machine know nothing   *)
(* of.                                                                     *)
LEMMA StandsStill ==
    ASSUME Backed, Left, UNCHANGED <<pc, plan, at, tunnel, record, net>>,
           left'.mishaps = left.mishaps
    PROVE  Backed' /\ Left'
  <1>1. Backed'
    BY DEF Backed, InPlace, Applied, Reverted
  <1>2. NoMishap' = NoMishap
    BY DEF NoMishap
  <1>3. LeftoversRecorded' = LeftoversRecorded /\ Halfway' = Halfway
    BY <1>2 DEF LeftoversRecorded, Recorded, Halfway, Applied
  <1>4. Left'
    BY <1>2, <1>3 DEF Left, Reverted
  <1> QED
    BY <1>1, <1>4

(* What is on record begins to be undone.                                  *)
LEMMA BeginsUndoing ==
    ASSUME Backed, Left, UNCHANGED <<net, record, left>>, record \in RoutePlan,
           pc' = "revert", plan' = record, at' = 0, tunnel'.up = FALSE
    PROVE  Backed' /\ Left'
  <1>1. Len(Reverted)' \in Nat /\ (plan'.mode = "default" => Len(Halves) \in Nat
                                   /\ Len(Reverted)' = Len(Halves) + 2)
    BY RevertShape, OneDevice DEF Reverted
  <1>2. Backed'
    BY <1>1 DEF Backed, Undoing
  <1>3. NoMishap' = NoMishap
    BY DEF NoMishap
  <1>4. ASSUME NoMishap' PROVE LeftoversRecorded' /\ net'.backup # TunnelDns
    <2>1. NoMishap
      BY <1>4 DEF NoMishap
    <2> QED
      BY <2>1 DEF Left, LeftoversRecorded, Recorded, Pins, NoMishap
  <1>5. plan'.mode = "default" => ~(at' > Len(Halves)) /\ at' # Len(Reverted)'
    BY <1>1
  <1> QED
    BY <1>2, <1>4, <1>5 DEF Left, Idle

----------------------------------------------------------------------------
(* The two selects.                                                        *)

(* The daemon comes up, and undoes what it finds.                          *)
LEMMA RecoverKeeps ==
    ASSUME DaemonInvariant, Recover
    PROVE  DaemonInvariant'
  <1>0. Control /\ Sound(Manager, net) /\ Backed /\ Left
    BY DEF DaemonInvariant
  <1>1. /\ pc = "boot" /\ record \in RoutePlan
        /\ pc' = "revert" /\ plan' = record /\ at' = 0 /\ after' = "recovered"
        /\ UNCHANGED <<tunnel, record, net, lan, client, session, sigterm, left>>
    BY DEF Recover, Stale
  <1>2. ~tunnel.up
    BY <1>0, <1>1 DEF Control
  <1>3. tunnel'.up = FALSE
    BY <1>0, <1>1, <1>2 DEF Control, Typed, Tunnels
  <1>4. Backed' /\ Left'
    BY <1>0, <1>1, <1>3, BeginsUndoing
  <1>5. Control'
    BY <1>0, <1>1, <1>2 DEF Control, Typed, Places, Starting, Undoing
  <1> QED
    BY <1>0, <1>1, <1>4, <1>5 DEF DaemonInvariant

(* It finds nothing, or does not look.                                     *)
LEMMA SkipRecoveryKeeps ==
    ASSUME DaemonInvariant, SkipRecovery
    PROVE  DaemonInvariant'
  <1>0. Control /\ Sound(Manager, net) /\ Backed /\ Left
    BY DEF DaemonInvariant
  <1>1. /\ pc = "boot" /\ pc' = "accept"
        /\ (record \notin RoutePlan /\ left' = left) \/ Mishap
        /\ UNCHANGED <<plan, at, after, tunnel, record, net, lan, client, session, sigterm>>
    BY DEF SkipRecovery, Stale
  <1>2. ~tunnel.up /\ left \in Bounds
    BY <1>0, <1>1 DEF Control, Typed
  <1>3. NoMishap' => NoMishap /\ record \notin RoutePlan
    BY <1>1, <1>2, MishapCounts DEF NoMishap
  <1>4. NoMishap' => Untouched(net') /\ net'.backup # TunnelDns
    <2> SUFFICES ASSUME NoMishap' PROVE Untouched(net) /\ net.backup # TunnelDns
      BY <1>1
    <2>1. NoMishap /\ ~Recorded
      BY <1>3 DEF Recorded
    <2>2. /\ LeftoversRecorded /\ net.devices = {} /\ net.routes = Pins(net)
          /\ net.backup # TunnelDns
      BY <1>0, <1>1, <2>1 DEF Left
    <2>3. Pins(net) = {} /\ net.resolv # TunnelDns
      BY <2>1, <2>2 DEF LeftoversRecorded
    <2> QED
      BY <2>2, <2>3 DEF Untouched
  <1>5. Left'
    BY <1>1, <1>4, CleanIsLeft DEF Idle
  <1>6. left' \in Bounds
    BY <1>1, <1>2, MishapCounts
  <1>7. Control'
    BY <1>0, <1>1, <1>2, <1>6 DEF Control, Typed, Places, Starting, Undoing
  <1>8. Backed'
    BY <1>0, <1>1, <1>2 DEF Backed, Undoing
  <1> QED
    BY <1>0, <1>1, <1>5, <1>7, <1>8 DEF DaemonInvariant

(* A client is served.                                                     *)
LEMMA AcceptKeeps ==
    ASSUME DaemonInvariant, NEW c \in Clients, Accept(c)
    PROVE  DaemonInvariant'
  <1>0. Control /\ Sound(Manager, net) /\ Backed /\ Left
    BY DEF DaemonInvariant
  <1>1. /\ pc = "accept" /\ pc' = "select"
        /\ client' = [client EXCEPT ![c] = "served"]
        /\ session' = [of |-> c, greeted |-> FALSE, connected |-> tunnel.up]
        /\ UNCHANGED <<plan, at, after, tunnel, record, net, lan, sigterm, left>>
    BY DEF Accept, Resumed
  <1>2. Backed' /\ Left'
    BY <1>0, <1>1, IdleMoves DEF Idle
  <1>3. client' \in Peers
    BY <1>0, <1>1 DEF Control, Typed, Peers
  <1>4. session' \in Sessions /\ session'.of \in Clients /\ session'.connected = tunnel'.up
    <2>1. tunnel.up \in BOOLEAN
      BY <1>0 DEF Control, Typed, Tunnels
    <2> QED
      BY <1>1, <2>1 DEF Sessions
  <1>5. Control'
    BY <1>0, <1>1, <1>3, <1>4 DEF Control, Typed, Places, Starting, Undoing
  <1> QED
    BY <1>0, <1>1, <1>2, <1>5 DEF DaemonInvariant

(* The daemon leaves, and takes its tunnel with it.                        *)
LEMMA ServeReturnsKeeps ==
    ASSUME DaemonInvariant, pc = "accept", ServeReturns
    PROVE  DaemonInvariant'
  <1>0. Control /\ Sound(Manager, net) /\ Backed /\ Left
    BY DEF DaemonInvariant
  <1>1. UNCHANGED <<record, net, lan, client, session, left>>
    BY DEF ServeReturns
  <1>2. CASE tunnel.up
    <2>1. /\ pc' = "revert" /\ plan' = tunnel.plan /\ at' = 0 /\ after' = "exit"
          /\ tunnel' = [tunnel EXCEPT !.up = FALSE] /\ UNCHANGED sigterm
      BY <1>2 DEF ServeReturns
    <2>2. tunnel.plan \in RoutePlan /\ record = tunnel.plan
      BY <1>0, <1>2 DEF Control, Backed
    <2>3. tunnel' \in Tunnels /\ tunnel'.up = FALSE
      BY <1>0, <2>1, FieldsTyped DEF Control, Typed
    <2>4. Backed' /\ Left'
      BY <1>0, <1>1, <2>1, <2>2, <2>3, BeginsUndoing
    <2>5. Control'
      BY <1>0, <1>1, <2>1, <2>2, <2>3 DEF Control, Typed, Places, Starting, Undoing
    <2> QED
      BY <1>0, <1>1, <2>4, <2>5 DEF DaemonInvariant
  <1>3. CASE ~tunnel.up
    <2>1. pc' = "stopped" /\ sigterm' = FALSE /\ UNCHANGED <<plan, at, after, tunnel>>
      BY <1>3 DEF ServeReturns
    <2>2. Backed' /\ Left'
      BY <1>0, <1>1, <2>1, IdleMoves DEF Idle
    <2>3. Control'
      BY <1>0, <1>1, <1>3, <2>1 DEF Control, Typed, Places, Starting, Undoing
    <2> QED
      BY <1>0, <1>1, <2>2, <2>3 DEF DaemonInvariant
  <1> QED
    BY <1>2, <1>3

(* A session ends.                                                         *)
LEMMA HangUpSeenKeeps ==
    ASSUME DaemonInvariant, HangUpSeen
    PROVE  DaemonInvariant'
  <1>0. Control /\ Sound(Manager, net) /\ Backed /\ Left
    BY DEF DaemonInvariant
  <1>1. /\ pc = "select" /\ pc' = "accept" /\ session' = Closed
        /\ client' = [client EXCEPT ![session.of] = "away"]
        /\ UNCHANGED <<plan, at, after, tunnel, record, net, lan, sigterm, left>>
    BY DEF HangUpSeen, EndSession
  <1>2. Backed' /\ Left'
    BY <1>0, <1>1, IdleMoves DEF Idle
  <1>3. client' \in Peers
    BY <1>0, <1>1 DEF Control, Typed, Peers
  <1>4. Control'
    BY <1>0, <1>1, <1>3, FieldsTyped DEF Control, Typed, Places, Starting, Undoing
  <1> QED
    BY <1>0, <1>1, <1>2, <1>4 DEF DaemonInvariant

(* The versions match.                                                     *)
LEMMA HelloKeeps ==
    ASSUME DaemonInvariant, Hello
    PROVE  DaemonInvariant'
  <1> DEFINE s == [session EXCEPT !.greeted = TRUE]
  <1>0. Control /\ Sound(Manager, net) /\ Backed /\ Left
    BY DEF DaemonInvariant
  <1>1. /\ pc = "select" /\ Reply(s)
        /\ UNCHANGED <<plan, at, after, tunnel, record, net, lan, sigterm, left>>
    BY DEF Hello
  <1>2. s \in Sessions /\ s.of = session.of /\ s.connected = session.connected
    BY <1>0, FieldsTyped DEF Control, Typed
  <1>3. session.of \in Clients /\ session.connected = tunnel.up
    BY <1>0, <1>1 DEF Control
  <1> HIDE DEF s
  <1>4. /\ pc' \in {"select", "accept"} /\ session' \in Sessions /\ client' \in Peers
        /\ pc' = "select" => session' = s
    BY <1>0, <1>1, <1>2, <1>3, Replied
  <1>5. Backed' /\ Left'
    BY <1>0, <1>1, <1>4, IdleMoves DEF Idle
  <1>6. Control'
    BY <1>0, <1>1, <1>2, <1>3, <1>4 DEF Control, Typed, Places, Starting, Undoing
  <1> QED
    BY <1>0, <1>1, <1>5, <1>6 DEF DaemonInvariant

(* A start begins.                                                         *)
LEMMA ConnectKeeps ==
    ASSUME DaemonInvariant, NEW p \in RoutePlan, Connect(p)
    PROVE  DaemonInvariant'
  <1>0. Control /\ Sound(Manager, net) /\ Backed /\ Left
    BY DEF DaemonInvariant
  <1>1. /\ pc = "select" /\ ~session.connected
        /\ pc' = "connect" /\ plan' = p
        /\ UNCHANGED <<at, after, tunnel, record, net, lan, client, session, sigterm, left>>
    BY DEF Connect, AlreadyConnected
  <1>2. ~tunnel.up /\ session.of \in Clients
    BY <1>0, <1>1 DEF Control
  <1>3. Backed' /\ Left'
    BY <1>0, <1>1, IdleMoves DEF Idle
  <1>4. Control'
    BY <1>0, <1>1, <1>2 DEF Control, Typed, Places, Starting, Undoing
  <1> QED
    BY <1>0, <1>1, <1>3, <1>4 DEF DaemonInvariant

(* The tunnel is stopped, for its client or because its engine ended.      *)
LEMMA StopTunnelKeeps ==
    ASSUME DaemonInvariant, pc = "select", tunnel.up, StopTunnel(tunnel.plan),
           session' = [session EXCEPT !.connected = FALSE],
           UNCHANGED <<record, net, lan, client, sigterm, left>>
    PROVE  DaemonInvariant'
  <1>0. Control /\ Sound(Manager, net) /\ Backed /\ Left
    BY DEF DaemonInvariant
  <1>1. /\ pc' = "revert" /\ plan' = tunnel.plan /\ at' = 0 /\ after' = "stopped"
        /\ tunnel' = [tunnel EXCEPT !.up = FALSE]
    BY DEF StopTunnel
  <1>2. tunnel.plan \in RoutePlan /\ record = tunnel.plan /\ session.of \in Clients
    BY <1>0 DEF Control, Backed
  <1>3. tunnel' \in Tunnels /\ tunnel'.up = FALSE
    BY <1>0, <1>1, FieldsTyped DEF Control, Typed
  <1>4. session' \in Sessions /\ session'.of = session.of /\ session'.connected = FALSE
    BY <1>0, FieldsTyped DEF Control, Typed
  <1>5. Backed' /\ Left'
    BY <1>0, <1>1, <1>2, <1>3, BeginsUndoing
  <1>6. Control'
    BY <1>0, <1>1, <1>2, <1>3, <1>4 DEF Control, Typed, Places, Starting, Undoing
  <1> QED
    BY <1>0, <1>5, <1>6 DEF DaemonInvariant

(* A client asks for it, and is still there to be told.                    *)
LEMMA DisconnectKeeps ==
    ASSUME DaemonInvariant, Disconnect
    PROVE  DaemonInvariant'
  <1>0. Control /\ Sound(Manager, net) /\ Backed /\ Left
    BY DEF DaemonInvariant
  <1>1. /\ pc = "select" /\ session.connected
        /\ UNCHANGED <<record, net, lan, sigterm, left>>
    BY DEF Disconnect
  <1>2. CASE client[session.of] = "served"
    <2>1. tunnel.up
      BY <1>0, <1>1 DEF Control
    <2>2. /\ StopTunnel(tunnel.plan) /\ session' = [session EXCEPT !.connected = FALSE]
          /\ UNCHANGED client
      BY <1>2 DEF Disconnect
    <2> QED
      BY <1>1, <2>1, <2>2, StopTunnelKeeps
  <1>3. CASE client[session.of] # "served"
    <2>1. /\ pc' = "accept" /\ session' = Closed
          /\ client' = [client EXCEPT ![session.of] = "away"]
          /\ UNCHANGED <<plan, at, after, tunnel>>
      BY <1>3 DEF Disconnect, EndSession
    <2>2. Backed' /\ Left'
      BY <1>0, <1>1, <2>1, IdleMoves DEF Idle
    <2>3. client' \in Peers
      BY <1>0, <2>1 DEF Control, Typed, Peers
    <2>4. Control'
      BY <1>0, <1>1, <2>1, <2>3, FieldsTyped DEF Control, Typed, Places, Starting, Undoing
    <2> QED
      BY <1>0, <1>1, <2>2, <2>4 DEF DaemonInvariant
  <1> QED
    BY <1>2, <1>3

(* The ticker finds the engine ended.                                      *)
LEMMA NoticeDeadEngineKeeps ==
    ASSUME DaemonInvariant, NoticeDeadEngine
    PROVE  DaemonInvariant'
  BY StopTunnelKeeps DEF NoticeDeadEngine

----------------------------------------------------------------------------
(* A start.                                                                *)

(* A start that fails leaves the daemon idle.                              *)
LEMMA FailedKeeps ==
    ASSUME DaemonInvariant, pc \in Starting \cup {"revert"}, session.of \in Clients,
           StartFails, Sound(Manager, net'), UNCHANGED <<tunnel, lan, sigterm>>,
           left' \in Bounds, record' \in RoutePlan \cup {NoRecord, Torn},
           NoMishap' => Untouched(net') /\ net'.backup # TunnelDns
    PROVE  DaemonInvariant'
  <1>0. Control
    BY DEF DaemonInvariant
  <1>1. /\ pc' \in {"select", "accept"} /\ plan' = NoPlan /\ at' = 0 /\ after' = "none"
        /\ session' \in Sessions /\ client' \in Peers
        /\ pc' = "select" => session'.of \in Clients /\ session'.connected = FALSE
    BY <1>0, Failed
  <1>2. tunnel'.up = FALSE
    BY <1>0 DEF Control, Typed, Tunnels, Starting
  <1>3. Control'
    BY <1>0, <1>1, <1>2 DEF Control, Typed, Places, Starting, Undoing
  <1>4. Backed'
    BY <1>1, <1>2 DEF Backed, Undoing
  <1>5. Left'
    BY <1>1, CleanIsLeft DEF Idle
  <1> QED
    BY <1>3, <1>4, <1>5 DEF DaemonInvariant

(* Nothing of a tunnel is on the machine when a start begins.              *)
LEMMA StartsClean ==
    ASSUME DaemonInvariant, pc \in {"connect", "device"}
    PROVE  /\ ~tunnel.up /\ session.of \in Clients /\ plan \in RoutePlan
           /\ NoMishap => Untouched(net) /\ net.backup # TunnelDns
  <1>0. Control /\ Left
    BY DEF DaemonInvariant
  <1>1. ~tunnel.up /\ session.of \in Clients /\ plan \in RoutePlan
    BY <1>0 DEF Control, Starting
  <1>2. NoMishap => Untouched(net) /\ net.backup # TunnelDns
    BY <1>0, <1>1 DEF Left, Idle
  <1> QED
    BY <1>1, <1>2

(* The protocol connects.                                                  *)
LEMMA ConnectProtocolKeeps ==
    ASSUME DaemonInvariant, ConnectProtocol
    PROVE  DaemonInvariant'
  <1>0. Control /\ Sound(Manager, net) /\ Backed /\ Left
    BY DEF DaemonInvariant
  <1>1. pc = "connect" /\ UNCHANGED <<tunnel, record, net, lan, sigterm, left>>
    BY DEF ConnectProtocol
  <1>2. /\ ~tunnel.up /\ session.of \in Clients /\ plan \in RoutePlan
        /\ NoMishap => Untouched(net) /\ net.backup # TunnelDns
    BY <1>1, StartsClean
  <1>3. CASE pc' = "device" /\ UNCHANGED <<plan, at, after, client, session>>
    <2>1. Backed' /\ Left'
      BY <1>0, <1>1, <1>3, IdleMoves DEF Idle
    <2>2. Control'
      BY <1>0, <1>1, <1>2, <1>3 DEF Control, Typed, Places, Starting, Undoing
    <2> QED
      BY <1>0, <1>1, <2>1, <2>2 DEF DaemonInvariant
  <1>4. CASE StartFails
    <2>1. NoMishap' => Untouched(net') /\ net'.backup # TunnelDns
      BY <1>1, <1>2 DEF NoMishap
    <2>2. left' \in Bounds /\ record' \in RoutePlan \cup {NoRecord, Torn} /\ Sound(Manager, net')
      BY <1>0, <1>1 DEF Control, Typed
    <2> QED
      BY <1>1, <1>2, <1>4, <2>1, <2>2, FailedKeeps DEF Starting
  <1> QED
    BY <1>3, <1>4 DEF ConnectProtocol

(* The device is opened.                                                   *)
LEMMA OpenDeviceKeeps ==
    ASSUME DaemonInvariant, OpenDevice
    PROVE  DaemonInvariant'
  <1>0. Control /\ Sound(Manager, net) /\ Backed /\ Left
    BY DEF DaemonInvariant
  <1>1. pc = "device" /\ UNCHANGED <<tunnel, record, lan, sigterm, left>>
    BY DEF OpenDevice
  <1>2. /\ ~tunnel.up /\ session.of \in Clients /\ plan \in RoutePlan
        /\ NoMishap => Untouched(net) /\ net.backup # TunnelDns
    BY <1>1, StartsClean
  <1>3. CASE /\ pc' = "save" /\ net' = WithDevice(net, Tun)
             /\ UNCHANGED <<plan, at, after, client, session>>
    <2>1. /\ Sound(Manager, net') /\ Tun \in net'.devices /\ net'.routes = net.routes
          /\ net'.resolv = net.resolv /\ net'.backup = net.backup
      BY <1>0, <1>3, DeviceThere, OneDevice
    <2>2. Control'
      BY <1>0, <1>1, <1>2, <1>3 DEF Control, Typed, Places, Starting, Undoing
    <2>3. Backed'
      BY <1>1, <1>2, <1>3 DEF Backed, Undoing
    <2>4. ASSUME NoMishap'
          PROVE  /\ LeftoversRecorded' /\ net'.backup # TunnelDns /\ net'.routes = {}
                 /\ net'.resolv # TunnelDns
      <3>1. Untouched(net) /\ net.backup # TunnelDns
        BY <1>1, <1>2, <2>4 DEF NoMishap
      <3>2. net'.routes = {} /\ net'.resolv # TunnelDns /\ net'.backup # TunnelDns
        BY <2>1, <3>1 DEF Untouched
      <3> QED
        BY <3>2 DEF LeftoversRecorded, Pins
    <2>5. Left'
      BY <1>3, <2>1, <2>4 DEF Left, Idle
    <2> QED
      BY <2>1, <2>2, <2>3, <2>5 DEF DaemonInvariant
  <1>4. CASE StartFails /\ UNCHANGED net
    <2>1. NoMishap' => Untouched(net') /\ net'.backup # TunnelDns
      BY <1>1, <1>2, <1>4 DEF NoMishap
    <2>2. left' \in Bounds /\ record' \in RoutePlan \cup {NoRecord, Torn} /\ Sound(Manager, net')
      BY <1>0, <1>1, <1>4 DEF Control, Typed
    <2> QED
      BY <1>1, <1>2, <1>4, <2>1, <2>2, FailedKeeps DEF Starting
  <1> QED
    BY <1>3, <1>4 DEF OpenDevice

(* The record is written before anything is applied.                       *)
LEMMA SaveRecordKeeps ==
    ASSUME DaemonInvariant, SaveRecord
    PROVE  DaemonInvariant'
  <1>0. Control /\ Sound(Manager, net) /\ Backed /\ Left
    BY DEF DaemonInvariant
  <1>1. pc = "save" /\ UNCHANGED <<tunnel, lan, sigterm, left>>
    BY DEF SaveRecord
  <1>2. ~tunnel.up /\ session.of \in Clients /\ plan \in RoutePlan
    BY <1>0, <1>1 DEF Control, Starting
  <1>3. NoMishap => /\ Tun \in net.devices /\ net.routes = {} /\ net.resolv # TunnelDns
                    /\ net.backup # TunnelDns
    BY <1>0, <1>1 DEF Left
  <1>4. CASE /\ record' = plan /\ pc' = "apply" /\ at' = 0
             /\ UNCHANGED <<plan, after, net, client, session>>
    <2>1. /\ Len(Applied)' \in Nat
          /\ plan'.mode = "default" => Len(Halves) \in Nat /\ Len(Applied)' >= 2
      <3>1. /\ Len(Applied)' \in Nat
            /\ plan'.mode = "default" =>
                  /\ Len(Halves) \in Nat
                  /\ Len(Applied)' = Len(Halves) + (IF Manager = "linux" THEN 3 ELSE 2)
        BY <1>2, <1>4, ApplyShape, OneDevice DEF Applied
      <3> QED
        BY <3>1
    <2>2. Control'
      BY <1>0, <1>1, <1>2, <1>4 DEF Control, Typed, Places, Starting, Undoing
    <2>3. Backed'
      <3>1. /\ 0 <= Len(Applied)' /\ ~(0 >= 1)
            /\ plan'.mode = "default" => 0 # Len(Applied)'
        BY <2>1
      <3> QED
        BY <1>1, <1>2, <1>4, <3>1 DEF Backed, Undoing, InPlace
    <2>4. ASSUME NoMishap'
          PROVE  /\ LeftoversRecorded' /\ net'.backup # TunnelDns
                 /\ plan'.mode = "default" => Halfway'
      <3>1. /\ Tun \in net'.devices /\ net'.routes = {} /\ net'.resolv # TunnelDns
            /\ net'.backup # TunnelDns
        BY <1>1, <1>3, <1>4, <2>4 DEF NoMishap
      <3>2. LeftoversRecorded'
        BY <3>1 DEF LeftoversRecorded, Pins
      <3>3. ASSUME plan'.mode = "default" PROVE Halfway'
        <4>1. ~(at' >= Len(Halves) + 2)
          BY <1>4, <2>1, <3>3
        <4> QED
          BY <3>1, <4>1 DEF Halfway
      <3> QED
        BY <3>1, <3>2, <3>3
    <2>5. Left'
      BY <1>4, <2>4 DEF Left, Idle
    <2> QED
      BY <1>0, <1>4, <2>2, <2>3, <2>5 DEF DaemonInvariant
  <1>5. CASE record' \in {record, Torn} /\ net' = WithoutDevice(net, Tun) /\ StartFails
    <2>1. /\ Sound(Manager, net') /\ net'.devices = {} /\ net'.routes = Pins(net)
          /\ net'.resolv = net.resolv /\ net'.backup = net.backup
      BY <1>0, <1>5, TunGone
    <2>2. NoMishap' => Untouched(net') /\ net'.backup # TunnelDns
      BY <1>1, <1>3, <2>1 DEF NoMishap, Untouched, Pins
    <2>3. left' \in Bounds /\ record' \in RoutePlan \cup {NoRecord, Torn}
      BY <1>0, <1>1, <1>5 DEF Control, Typed
    <2> QED
      BY <1>1, <1>2, <1>5, <2>1, <2>2, <2>3, FailedKeeps DEF Starting
  <1> QED
    BY <1>4, <1>5 DEF SaveRecord, Saved

(* As far as a start has come, what it did is on record.                   *)
LEMMA HalfwayIsRecordedNext ==
    ASSUME Halfway', Sound(Manager, net'), record' = plan', plan' \in RoutePlan,
           plan'.mode = "default", at' \in Nat, at' <= Len(Applied)'
    PROVE  LeftoversRecorded'
  <1>1. Recorded' /\ record'.server = plan'.server
    BY DEF Recorded
  <1>2. ASSUME NEW r \in Pins(net)' PROVE r = Pin(record'.server)
    BY <1>1, Ways, Leads, OneDevice DEF Pins, Halfway
  <1>3. ASSUME net'.resolv = TunnelDns, Manager = "linux" PROVE net'.backup \in Lans
    <2>1. /\ Len(Applied)' \in Nat /\ Len(Halves) \in Nat /\ Len(Applied)' = Len(Halves) + 3
      BY <1>3, ApplyShape, OneDevice DEF Applied
    <2>2. at' >= Len(Halves) + 2
      BY <1>3, <2>1 DEF Halfway
    <2> QED
      BY <1>3, <2>2 DEF Halfway
  <1> QED
    BY <1>1, <1>2, <1>3 DEF LeftoversRecorded

(* A default plan's commands can run, as long as nothing else goes wrong:  *)
(* no half is a server's address or another half.                          *)
LEMMA HalfwayGoesOn ==
    ASSUME Halfway, net \in Net, plan \in RoutePlan, plan.mode = "default", at \in Nat,
           at < Len(Applied)
    PROVE  CanRun(Applied[at + 1], net)
  <1>0. /\ Tun \in net.devices
        /\ \A r \in net.routes : \/ at >= 1 /\ r = Pin(plan.server)
                                 \/ \E k \in DOMAIN Halves : k < at /\ r = Into(Tun, Halves[k])
    BY DEF Halfway
  <1>1. /\ plan.server \in Servers
        /\ \A j, k \in DOMAIN Halves : Halves[j] = Halves[k] => j = k
        /\ \A k \in DOMAIN Halves : Halves[k] \notin Servers
    BY RoutesOf, OneDevice, RouteTableAssumption DEF Range
  <1>2. ASSUME at = 0, Applied[at + 1] = Add(Pin(plan.server))
        PROVE  CanRun(Applied[at + 1], net)
    <2>1. /\ \A k \in DOMAIN Halves : k \in Nat /\ k >= 1
      BY RouteTableAssumption, LenProperties
    <2>2. net.routes = {}
      BY <1>0, <1>2, <2>1
    <2> DEFINE x == Pin(plan.server)
    <2>3. x.via = "gateway" /\ Applied[at + 1] = Add(x)
      BY <1>2, Leads
    <2> HIDE DEF x
    <2>4. CanRun(Add(x), net)
      BY <2>2, <2>3, Effects
    <2> QED
      BY <2>3, <2>4
  <1>3. ASSUME at \in DOMAIN Halves, Applied[at + 1] = Add(Into(Tun, Halves[at]))
        PROVE  CanRun(Applied[at + 1], net)
    <2>1. ASSUME NEW r \in net.routes PROVE r.to # Halves[at]
      <3>1. CASE r = Pin(plan.server)
        BY <1>1, <1>3, <3>1, Ways, Leads, OneDevice
      <3>2. ASSUME NEW k \in DOMAIN Halves, k < at, r = Into(Tun, Halves[k])
            PROVE  r.to # Halves[at]
        <4>1. k # at
          BY <3>2
        <4> QED
          BY <1>1, <1>3, <3>2, <4>1, Ways, Leads, OneDevice
      <3> QED
        BY <1>0, <3>1, <3>2
    <2> DEFINE x == Into(Tun, Halves[at])
    <2>2. x.to = Halves[at] /\ x.via \in net.devices \cup {"gateway"}
      BY <1>0, Ways, Leads, OneDevice
    <2>3. Applied[at + 1] = Add(x)
      BY <1>3
    <2> HIDE DEF x
    <2>4. CanRun(Add(x), net)
      BY <2>1, <2>2, Effects
    <2> QED
      BY <2>3, <2>4
  <1>4. ASSUME Applied[at + 1] \in {Backup, Override} PROVE CanRun(Applied[at + 1], net)
    BY <1>4, Effects
  <1> QED
    BY <1>2, <1>3, <1>4, NextCommand, OneDevice DEF Applied

(* A command of apply has run.                                             *)
LEMMA AppliedKeeps ==
    ASSUME DaemonInvariant, pc = "apply", at < Len(Applied),
           CanRun(Applied[at + 1], net), net' = Ran(Applied[at + 1], net), at' = at + 1,
           UNCHANGED <<pc, plan, after, client, session, left, tunnel, record, lan, sigterm>>
    PROVE  DaemonInvariant'
  <1> DEFINE cmd == Applied[at + 1]
  <1>0. Control /\ Sound(Manager, net) /\ Backed /\ Left
    BY DEF DaemonInvariant
  <1>1. /\ plan \in RoutePlan /\ at \in Nat /\ ~tunnel.up /\ record = plan /\ net \in Net
        /\ session.of \in Clients
    BY <1>0 DEF Control, Typed, Starting, Backed, Sound
  <1>2. /\ Len(Applied) \in Nat /\ Applied \in Seq(Cmds(Manager)) /\ Len(Applied)' = Len(Applied)
        /\ plan.mode \in {"test", "default"}
    BY <1>1, ApplyShape, OneDevice DEF Applied, RoutePlan, RouteMode
  <1>3. cmd \in Cmds(Manager)
    <2>1. at + 1 \in 1 .. Len(Applied)
      BY <1>1, <1>2
    <2> QED
      BY <1>2, <2>1, ElementOfSeq
  <1>4. Sound(Manager, net')
    BY <1>0, <1>3, RanTyped
  <1>5. at' \in Nat /\ at' <= Len(Applied)' /\ at' >= 1
    BY <1>1, <1>2
  <1>6. Control'
    BY <1>0, <1>1, <1>5 DEF Control, Typed, Places, Starting, Undoing
  <1>7. CASE plan.mode = "test"
    <2>1. /\ Pins(net') = Pins(net) /\ net'.resolv = net.resolv /\ net'.backup = net.backup
      BY <1>1, <1>7, TestCommand, OneDevice DEF Applied
    <2>2. Backed'
      BY <1>1, <1>5, <1>7 DEF Backed, Undoing, InPlace
    <2>3. ASSUME NoMishap' PROVE LeftoversRecorded' /\ net'.backup # TunnelDns
      <3>1. NoMishap
        BY <2>3 DEF NoMishap
      <3>2. LeftoversRecorded /\ net.backup # TunnelDns
        BY <1>0, <3>1 DEF Left
      <3> QED
        BY <2>1, <3>1, <3>2 DEF LeftoversRecorded, Recorded
    <2>4. Left'
      BY <1>7, <2>3 DEF Left, Idle
    <2> QED
      BY <1>4, <1>6, <2>2, <2>4 DEF DaemonInvariant
  <1>8. CASE plan.mode = "default"
    <2> DEFINE pin == Pin(plan.server)
    <2>1. pin \in Routes
      BY <1>1, RoutesOf, OneDevice
    <2> DEFINE n == Len(Halves)
    <2>2. /\ n \in Nat
          /\ \/ at = 0 /\ at + 1 # Len(Applied) /\ cmd = Add(pin)
             \/ /\ at \in DOMAIN Halves /\ at + 1 # Len(Applied) /\ ~(at + 1 >= n + 2) /\ at >= 1
                /\ cmd = Add(Into(Tun, Halves[at]))
             \/ Manager = "linux" /\ at + 1 # Len(Applied) /\ at >= 1 /\ cmd = Backup
             \/ /\ at + 1 = Len(Applied) /\ at >= 1 /\ (Manager = "linux" => at >= n + 2)
                /\ cmd = Override
      BY <1>1, <1>8, NextCommand, OneDevice DEF Applied
    <2>3. /\ at >= 1 => pin \in net.routes
          /\ NoMishap => Halfway /\ net.backup # TunnelDns
      BY <1>0, <1>8 DEF Backed, Left
    <2> HIDE DEF pin, cmd, n
    <2> DEFINE Goal == /\ pin \in net'.routes
                       /\ at' = Len(Applied)' => net'.resolv = TunnelDns
                       /\ NoMishap' => Halfway' /\ net'.backup # TunnelDns
    <2>4. NoMishap' = NoMishap
      BY DEF NoMishap
    <2>5. ASSUME at = 0 /\ at + 1 # Len(Applied) /\ cmd = Add(pin)
          PROVE  Goal
      <3>1. /\ net'.routes = net.routes \cup {pin} /\ net'.devices = net.devices
            /\ net'.resolv = net.resolv /\ net'.backup = net.backup
        <4>1. net' = [net EXCEPT !.routes = net.routes \cup {pin}]
          BY <1>1, <2>5, Effects DEF cmd
        <4>2. net.routes \cup {pin} \in SUBSET Routes
          BY <1>1, <2>1, Changed
        <4> QED
          BY <1>1, <4>1, <4>2, Changed
      <3>2. ASSUME NoMishap' PROVE Halfway'
        <4>1. Halfway
          BY <2>3, <2>4, <3>2
        <4>2. ~(at' >= n + 2) /\ \A k \in DOMAIN Halves : k < at => k < at'
          BY <2>2, <2>5, RouteTableAssumption, LenProperties
        <4>3. \A r \in net'.routes : \/ at' >= 1 /\ r = pin
                                     \/ \E k \in DOMAIN Halves : k < at' /\ r = Into(Tun, Halves[k])
          BY <1>5, <3>1, <4>1, <4>2 DEF Halfway, pin
        <4>4. net'.resolv # TunnelDns
          BY <3>1, <4>1 DEF Halfway
        <4> QED
          BY <3>1, <4>1, <4>2, <4>3, <4>4 DEF Halfway, pin, n
      <3>3. at' # Len(Applied)' /\ pin \in net'.routes
        BY <1>2, <2>5, <3>1
      <3>4. NoMishap' => net'.backup # TunnelDns
        BY <2>3, <2>4, <3>1
      <3> QED
        BY <3>2, <3>3, <3>4
    <2>6. ASSUME /\ at \in DOMAIN Halves /\ at + 1 # Len(Applied) /\ ~(at + 1 >= n + 2) /\ at >= 1
                 /\ cmd = Add(Into(Tun, Halves[at]))
          PROVE  Goal
      <3> DEFINE x == Into(Tun, Halves[at])
      <3>1. /\ net'.routes = net.routes \cup {x} /\ net'.devices = net.devices
            /\ net'.resolv = net.resolv /\ net'.backup = net.backup
        <4>1. net' = [net EXCEPT !.routes = net.routes \cup {x}]
          BY <1>1, <2>6, Effects DEF cmd
        <4>2. x \in Routes
          BY <1>1, <1>8, <2>6, RoutesOf, OneDevice DEF Captured
        <4> HIDE DEF x
        <4>3. net.routes \cup {x} \in SUBSET Routes
          BY <1>1, <4>2, Changed
        <4> QED
          BY <1>1, <4>1, <4>3, Changed
      <3>2. ASSUME NoMishap' PROVE Halfway'
        <4>1. Halfway
          BY <2>3, <2>4, <3>2
        <4>2. /\ ~(at' >= n + 2) /\ at < at'
              /\ \A k \in DOMAIN Halves : k < at => k < at'
          BY <1>1, <2>2, <2>6, RouteTableAssumption, LenProperties
        <4>3. \A r \in net'.routes : \/ at' >= 1 /\ r = pin
                                     \/ \E k \in DOMAIN Halves : k < at' /\ r = Into(Tun, Halves[k])
          BY <1>5, <2>6, <3>1, <4>1, <4>2 DEF Halfway, pin
        <4>4. net'.resolv # TunnelDns
          BY <3>1, <4>1 DEF Halfway
        <4> QED
          BY <3>1, <4>1, <4>2, <4>3, <4>4 DEF Halfway, pin, n
      <3>3. at' # Len(Applied)' /\ pin \in net'.routes
        BY <1>2, <2>3, <2>6, <3>1
      <3>4. NoMishap' => net'.backup # TunnelDns
        BY <2>3, <2>4, <3>1
      <3> QED
        BY <3>2, <3>3, <3>4
    <2>7. ASSUME Manager = "linux" /\ at + 1 # Len(Applied) /\ at >= 1 /\ cmd = Backup
          PROVE  Goal
      <3>1. net.resolv \in Lans \cup {TunnelDns}
        BY <1>0, <1>1, <2>7, Changed DEF Sound
      <3>2. /\ net'.routes = net.routes /\ net'.devices = net.devices
            /\ net'.resolv = net.resolv /\ net'.backup = net.resolv
        <4>1. net' = [net EXCEPT !.backup = net.resolv]
          BY <1>1, <2>7, Effects DEF cmd
        <4> QED
          BY <1>1, <3>1, <4>1, Changed
      <3>3. ASSUME NoMishap' PROVE Halfway' /\ net'.backup # TunnelDns
        <4>1. Halfway
          BY <2>3, <2>4, <3>3
        <4>2. \A k \in DOMAIN Halves : k < at => k < at'
          BY <1>1, RouteTableAssumption, LenProperties
        <4>3. \A r \in net'.routes : \/ at' >= 1 /\ r = pin
                                     \/ \E k \in DOMAIN Halves : k < at' /\ r = Into(Tun, Halves[k])
          BY <1>5, <3>2, <4>1, <4>2 DEF Halfway, pin
        <4>4. net'.resolv # TunnelDns /\ net'.backup \in Lans
          BY <3>1, <3>2, <4>1 DEF Halfway
        <4> QED
          BY <3>2, <4>1, <4>3, <4>4, OwnNames DEF Halfway, pin
      <3>4. at' # Len(Applied)' /\ pin \in net'.routes
        BY <1>2, <2>3, <2>7, <3>2
      <3> QED
        BY <3>3, <3>4
    <2>8. ASSUME /\ at + 1 = Len(Applied) /\ at >= 1 /\ (Manager = "linux" => at >= n + 2)
                 /\ cmd = Override
          PROVE  Goal
      <3>1. /\ net'.routes = net.routes /\ net'.devices = net.devices
            /\ net'.resolv = TunnelDns /\ net'.backup = net.backup
        <4>1. net' = [net EXCEPT !.resolv = TunnelDns]
          BY <1>1, <2>8, Effects DEF cmd
        <4> QED
          BY <1>1, <4>1, Changed
      <3>2. ASSUME NoMishap' PROVE Halfway'
        <4>1. Halfway
          BY <2>3, <2>4, <3>2
        <4>2. \A k \in DOMAIN Halves : k < at => k < at'
          BY <1>1, RouteTableAssumption, LenProperties
        <4>3. \A r \in net'.routes : \/ at' >= 1 /\ r = pin
                                     \/ \E k \in DOMAIN Halves : k < at' /\ r = Into(Tun, Halves[k])
          BY <1>5, <3>1, <4>1, <4>2 DEF Halfway, pin
        <4>4. ~(at' < Len(Applied)')
          BY <1>2, <2>8
        <4>5. Manager = "linux" => net'.backup \in Lans
          BY <2>8, <3>1, <4>1 DEF Halfway, n
        <4> QED
          BY <3>1, <4>1, <4>3, <4>4, <4>5 DEF Halfway, pin
      <3>3. net'.resolv = TunnelDns /\ pin \in net'.routes
        BY <2>3, <2>8, <3>1
      <3>4. NoMishap' => net'.backup # TunnelDns
        BY <2>3, <2>4, <3>1
      <3> QED
        BY <3>2, <3>3, <3>4
    <2> HIDE DEF Goal
    <2>9. Goal
      BY <2>2, <2>5, <2>6, <2>7, <2>8
    <2>10. Backed'
      BY <1>1, <1>5, <2>9 DEF Backed, Undoing, InPlace, pin, Goal
    <2>11. ASSUME NoMishap' PROVE LeftoversRecorded'
      <3>1. Halfway' /\ Sound(Manager, net') /\ at' <= Len(Applied)' /\ at' \in Nat
        BY <1>4, <1>5, <2>9, <2>11 DEF Goal
      <3> QED
        BY <1>1, <1>8, <3>1, HalfwayIsRecordedNext
    <2>12. Left'
      BY <2>9, <2>11 DEF Left, Idle, Goal
    <2> QED
      BY <1>4, <1>6, <2>10, <2>12 DEF DaemonInvariant
  <1> QED
    BY <1>2, <1>7, <1>8

(* One command of apply: it runs, or the start fails.                      *)
LEMMA ApplyCommandKeeps ==
    ASSUME DaemonInvariant, ApplyCommand
    PROVE  DaemonInvariant'
  <1>0. Control /\ Sound(Manager, net) /\ Backed /\ Left
    BY DEF DaemonInvariant
  <1>1. pc = "apply" /\ at < Len(Applied) /\ UNCHANGED <<tunnel, record, lan, sigterm>>
    BY DEF ApplyCommand, Applied
  <1>2. CASE /\ CanRun(Applied[at + 1], net)
             /\ net' = Ran(Applied[at + 1], net)
             /\ at' = at + 1
             /\ UNCHANGED <<pc, plan, after, client, session, left>>
    BY <1>1, <1>2, AppliedKeeps
  <1>3. CASE /\ IF CanRun(Applied[at + 1], net) THEN Mishap ELSE UNCHANGED left
             /\ net' = WithoutDevice(net, Tun)
             /\ StartFails
    <2>1. /\ plan \in RoutePlan /\ at \in Nat /\ session.of \in Clients /\ record = plan
          /\ left \in Bounds /\ record \in RoutePlan \cup {NoRecord, Torn} /\ net \in Net
          /\ plan.mode \in {"test", "default"}
      BY <1>0, <1>1 DEF Control, Typed, Starting, Backed, RoutePlan, RouteMode, Sound
    <2>2. /\ Sound(Manager, net') /\ net'.devices = {} /\ net'.routes = Pins(net)
          /\ net'.resolv = net.resolv /\ net'.backup = net.backup
      BY <1>0, <1>3, TunGone
    <2>3. left' \in Bounds /\ (NoMishap' => NoMishap /\ ~CanRun(Applied[at + 1], net))
      BY <1>3, <2>1, MishapCounts DEF NoMishap
    <2>4. ASSUME NoMishap' PROVE Untouched(net') /\ net'.backup # TunnelDns
      <3>1. /\ LeftoversRecorded /\ net.backup # TunnelDns
            /\ plan.mode = "default" => Halfway
        BY <1>0, <1>1, <2>3, <2>4 DEF Left
      <3>2. plan.mode # "default"
        BY <1>1, <2>1, <2>3, <2>4, <3>1, HalfwayGoesOn
      <3>3. Pins(net) = {} /\ net.resolv # TunnelDns
        BY <2>1, <2>3, <2>4, <3>1, <3>2 DEF LeftoversRecorded, Recorded
      <3> QED
        BY <2>2, <3>1, <3>3 DEF Untouched
    <2> QED
      BY <1>1, <1>3, <2>1, <2>2, <2>3, <2>4, FailedKeeps DEF Starting
  <1> QED
    BY <1>2, <1>3 DEF ApplyCommand, Applied

(* Every command has run: the tunnel is the daemon's, or its guard reverts.*)
LEMMA StartEngineKeeps ==
    ASSUME DaemonInvariant, StartEngine
    PROVE  DaemonInvariant'
  <1>0. Control /\ Sound(Manager, net) /\ Backed /\ Left
    BY DEF DaemonInvariant
  <1>1. pc = "apply" /\ at = Len(Applied) /\ UNCHANGED <<record, net, lan, sigterm, left>>
    BY DEF StartEngine, Applied
  <1>2. /\ plan \in RoutePlan /\ session.of \in Clients /\ record = plan /\ ~tunnel.up
        /\ tunnel \in Tunnels /\ session \in Sessions /\ InPlace(plan)
    BY <1>0, <1>1 DEF Control, Typed, Starting, Backed
  <1>3. CASE /\ tunnel' = [up |-> TRUE, alive |-> TRUE, plan |-> plan]
             /\ plan' = NoPlan /\ at' = 0 /\ UNCHANGED after
             /\ Reply([session EXCEPT !.connected = TRUE])
    <2> DEFINE s == [session EXCEPT !.connected = TRUE]
    <2>1. s \in Sessions /\ s.of = session.of /\ s.connected = TRUE
      BY <1>2, FieldsTyped
    <2>2. tunnel' \in Tunnels /\ tunnel'.up = TRUE /\ tunnel'.plan = plan
      BY <1>2, <1>3 DEF Tunnels
    <2>3. Reply(s)
      BY <1>3
    <2> HIDE DEF s
    <2>4. /\ pc' \in {"select", "accept"} /\ session' \in Sessions /\ client' \in Peers
          /\ pc' = "select" => session' = s
      BY <1>0, <1>2, <2>1, <2>3, Replied
    <2>5. Control'
      BY <1>0, <1>1, <1>2, <1>3, <2>1, <2>2, <2>4 DEF Control, Typed, Places, Starting, Undoing
    <2>6. Backed'
      BY <1>1, <1>2, <1>3, <2>2, <2>4 DEF Backed, Undoing, InPlace
    <2>7. Left'
      <3>1. NoMishap' = NoMishap /\ LeftoversRecorded' = LeftoversRecorded
        BY <1>1 DEF NoMishap, LeftoversRecorded, Recorded
      <3> QED
        BY <1>0, <1>1, <2>2, <2>4, <3>1 DEF Left
    <2> QED
      BY <1>0, <1>1, <2>5, <2>6, <2>7 DEF DaemonInvariant
  <1>4. CASE /\ pc' = "revert" /\ at' = 0 /\ after' = "failed"
             /\ UNCHANGED <<plan, tunnel, client, session>>
    <2>1. tunnel'.up = FALSE
      BY <1>2, <1>4 DEF Tunnels
    <2>2. Backed' /\ Left'
      BY <1>0, <1>1, <1>2, <1>4, <2>1, BeginsUndoing
    <2>3. Control'
      BY <1>0, <1>1, <1>2, <1>4 DEF Control, Typed, Places, Starting, Undoing
    <2> QED
      BY <1>0, <1>1, <2>2, <2>3 DEF DaemonInvariant
  <1> QED
    BY <1>3, <1>4 DEF StartEngine

----------------------------------------------------------------------------
(* Undoing.                                                                *)

(* A command that fails is skipped.                                        *)
LEMMA RevertCommandKeeps ==
    ASSUME DaemonInvariant, RevertCommand
    PROVE  DaemonInvariant'
  <1> DEFINE cmd == Reverted[at + 1]
  <1> DEFINE n == Len(Halves)
  <1>0. Control /\ Sound(Manager, net) /\ Backed /\ Left
    BY DEF DaemonInvariant
  <1>1. /\ pc = "revert" /\ at < Len(Reverted) /\ at' = at + 1
        /\ \/ CanRun(cmd, net) /\ net' = Ran(cmd, net) /\ left' = left
           \/ /\ IF CanRun(cmd, net) THEN Mishap ELSE UNCHANGED left
              /\ net' = net
        /\ UNCHANGED <<pc, plan, after, tunnel, record, lan, client, session, sigterm>>
    BY DEF RevertCommand, Reverted
  <1>2. /\ plan \in RoutePlan /\ at \in Nat /\ ~tunnel.up /\ record = plan /\ net \in Net
        /\ left \in Bounds
    BY <1>0, <1>1 DEF Control, Typed, Undoing, Backed, Sound
  <1>3. /\ cmd \in Cmds(Manager) /\ Len(Reverted) \in Nat
        /\ (\E r \in Routes : cmd = Del(r)) \/ cmd \in {Restore, EmptyDns}
        /\ plan.mode = "default" =>
              /\ n \in Nat /\ Len(Reverted) = n + 2
              /\ at = n => cmd = Del(Pin(plan.server))
              /\ at = n + 1 => cmd = IF Manager = "linux" THEN Restore ELSE EmptyDns
    BY <1>1, <1>2, NextUndo, OneDevice DEF Reverted
  <1>4. Len(Reverted)' = Len(Reverted)
    BY <1>1 DEF Reverted
  <1> HIDE DEF cmd, n
  <1>5. Sound(Manager, net')
    BY <1>0, <1>1, <1>3, RanTyped
  <1>6. at' \in Nat /\ at' <= Len(Reverted)'
    BY <1>1, <1>2, <1>3, <1>4
  <1>7. left' \in Bounds /\ (NoMishap' => /\ NoMishap
                                          /\ IF CanRun(cmd, net) THEN net' = Ran(cmd, net)
                                             ELSE net' = net)
    BY <1>1, <1>2, MishapCounts DEF NoMishap
  <1>8. Control'
    BY <1>0, <1>1, <1>2, <1>6, <1>7 DEF Control, Typed, Places, Starting, Undoing
  <1>9. Backed'
    BY <1>1, <1>2, <1>6 DEF Backed, Undoing
  <1>10. ASSUME NoMishap'
         PROVE  /\ LeftoversRecorded' /\ net'.backup # TunnelDns
                /\ plan'.mode = "default" =>
                      /\ at' > n => Pins(net') = {}
                      /\ at' = Len(Reverted)' => net'.resolv # TunnelDns
    <2>1. /\ NoMishap /\ LeftoversRecorded /\ net.backup # TunnelDns
          /\ plan.mode = "default" => (at > n => Pins(net) = {})
      BY <1>0, <1>1, <1>7, <1>10 DEF Left, n
    <2>2. /\ Pins(net') \subseteq Pins(net) /\ net'.backup = net.backup
          /\ net'.resolv = TunnelDns => net.resolv = TunnelDns
      BY <1>2, <1>3, <1>7, <1>10, <2>1, Undone
    <2>3. LeftoversRecorded'
      BY <1>1, <2>1, <2>2 DEF LeftoversRecorded, Recorded
    <2>4. ASSUME plan.mode = "default", at' > n PROVE Pins(net') = {}
      <3>1. CASE at > n
        BY <2>1, <2>2, <2>4, <3>1
      <3>2. CASE at = n
        <4>1. cmd = Del(Pin(plan.server))
          BY <1>3, <2>4, <3>2
        <4>2. Pins(net) \subseteq {Pin(plan.server)}
          BY <1>2, <2>1 DEF LeftoversRecorded
        <4>3. Pin(plan.server) \notin Pins(net')
          <5>1. CASE CanRun(cmd, net)
            BY <1>2, <1>3, <1>7, <1>10, <2>1, <4>1, <5>1, Undone
          <5>2. CASE ~CanRun(cmd, net)
            <6>1. Pin(plan.server) \notin net.routes
              BY <1>2, <4>1, <5>2, Effects
            <6> QED
              BY <1>7, <1>10, <5>2, <6>1 DEF Pins
          <5> QED
            BY <5>1, <5>2
        <4> QED
          BY <2>2, <4>2, <4>3
      <3> QED
        BY <1>1, <1>2, <1>3, <2>4, <3>1, <3>2
    <2>5. ASSUME plan.mode = "default", at' = Len(Reverted)' PROVE net'.resolv # TunnelDns
      <3>1. at = n + 1
        BY <1>1, <1>2, <1>3, <1>4, <2>5
      <3>2. cmd = IF Manager = "linux" THEN Restore ELSE EmptyDns
        BY <1>3, <2>5, <3>1
      <3>3. CASE CanRun(cmd, net)
        BY <1>2, <1>3, <1>7, <1>10, <2>1, <3>2, <3>3, Undone
      <3>4. CASE ~CanRun(cmd, net)
        <4>1. Manager = "linux" /\ net.backup = NoBackup
          BY <1>2, <3>2, <3>4, Effects
        <4>2. net.resolv # TunnelDns
          BY <2>1, <4>1, OwnNames DEF LeftoversRecorded
        <4> QED
          BY <1>7, <1>10, <3>4, <4>2
      <3> QED
        BY <3>3, <3>4
    <2> QED
      BY <1>1, <2>1, <2>2, <2>3, <2>4, <2>5
  <1>11. Left'
    BY <1>1, <1>10 DEF Left, Idle, n
  <1> QED
    BY <1>5, <1>8, <1>9, <1>11 DEF DaemonInvariant

(* Every command has run, or been skipped: the device goes.                *)
LEMMA RevertDoneKeeps ==
    ASSUME DaemonInvariant, RevertDone
    PROVE  DaemonInvariant'
  <1>0. Control /\ Sound(Manager, net) /\ Backed /\ Left
    BY DEF DaemonInvariant
  <1>1. /\ pc = "revert" /\ at = Len(Reverted) /\ net' = WithoutDevice(net, Tun)
        /\ UNCHANGED <<tunnel, record, lan, sigterm, left>>
    BY DEF RevertDone, Reverted
  <1>2. /\ plan \in RoutePlan /\ ~tunnel.up /\ record = plan
        /\ left \in Bounds /\ record \in RoutePlan \cup {NoRecord, Torn}
        /\ after \in {"recovered", "stopped", "failed", "exit"}
        /\ after \in {"stopped", "failed"} => session.of \in Clients
    BY <1>0, <1>1 DEF Control, Typed, Undoing, Backed
  <1>3. /\ Sound(Manager, net') /\ net'.devices = {} /\ net'.routes = Pins(net)
        /\ net'.resolv = net.resolv /\ net'.backup = net.backup
    BY <1>0, <1>1, TunGone
  <1>4. ASSUME NoMishap' PROVE Untouched(net') /\ net'.backup # TunnelDns
    <2>1. /\ NoMishap /\ LeftoversRecorded /\ net.backup # TunnelDns
          /\ plan.mode = "default" => /\ at > Len(Halves) => Pins(net) = {}
                                      /\ at = Len(Reverted) => net.resolv # TunnelDns
      BY <1>0, <1>1, <1>4 DEF Left, NoMishap
    <2>2. Pins(net) = {} /\ net.resolv # TunnelDns
      <3>1. CASE plan.mode = "default"
        <4>1. at > Len(Halves)
          BY <1>1, <1>2, <3>1, RevertShape, OneDevice DEF Reverted
        <4> QED
          BY <1>1, <2>1, <3>1, <4>1
      <3>2. CASE plan.mode # "default"
        BY <1>2, <2>1, <3>2 DEF LeftoversRecorded, Recorded
      <3> QED
        BY <3>1, <3>2
    <2> QED
      BY <1>3, <2>1, <2>2 DEF Untouched
  <1>5. CASE after = "failed"
    <2>1. StartFails
      BY <1>5 DEF RevertDone
    <2> QED
      BY <1>1, <1>2, <1>3, <1>4, <1>5, <2>1, FailedKeeps
  <1>6. CASE after # "failed"
    <2>1. pc' = "clear" /\ UNCHANGED <<plan, at, after, client, session>>
      BY <1>6 DEF RevertDone
    <2>2. Control'
      BY <1>0, <1>1, <1>2, <1>6, <2>1 DEF Control, Typed, Places, Starting, Undoing
    <2>3. Backed'
      BY <1>1, <1>2, <2>1 DEF Backed, Undoing
    <2>4. Left'
      BY <1>4, <2>1, CleanIsLeft
    <2> QED
      BY <1>3, <2>2, <2>3, <2>4 DEF DaemonInvariant
  <1> QED
    BY <1>5, <1>6

(* Nothing is left to undo.                                                *)
LEMMA ClearRecordKeeps ==
    ASSUME DaemonInvariant, ClearRecord
    PROVE  DaemonInvariant'
  <1>0. Control /\ Sound(Manager, net) /\ Backed /\ Left
    BY DEF DaemonInvariant
  <1>1. /\ pc = "clear" /\ record' = NoRecord /\ tunnel' = NoTunnel
        /\ plan' = NoPlan /\ at' = 0 /\ after' = "none"
        /\ UNCHANGED <<net, lan, client, session, left>>
    BY DEF ClearRecord
  <1>2. /\ after \in {"recovered", "stopped", "exit"} /\ ~tunnel.up
        /\ after = "stopped" => session.of \in Clients /\ ~session.connected
    BY <1>0, <1>1 DEF Control, Undoing
  <1>3. /\ pc' \in {"accept", "select", "stopped"}
        /\ pc' = "select" => after = "stopped"
    BY <1>2 DEF ClearRecord
  <1>4. sigterm' \in BOOLEAN
    BY DEF ClearRecord
  <1>5. NoMishap' => Untouched(net') /\ net'.backup # TunnelDns
    BY <1>0, <1>1, <1>2 DEF Left, NoMishap
  <1>6. Left'
    BY <1>3, <1>5, CleanIsLeft DEF Idle
  <1>7. Backed'
    BY <1>1, <1>3, FieldsTyped DEF Backed, Undoing
  <1>8. session.connected \in BOOLEAN
    BY <1>0 DEF Control, Typed, Sessions
  <1>9. Control'
    BY <1>0, <1>1, <1>2, <1>3, <1>4, <1>8, FieldsTyped DEF Control, Typed, Places, Starting, Undoing
  <1> QED
    BY <1>0, <1>1, <1>6, <1>7, <1>9 DEF DaemonInvariant

----------------------------------------------------------------------------
(* What happens to the daemon.                                             *)

(* Killed anywhere, it leaves what is on record.                           *)
LEMMA CrashKeeps ==
    ASSUME DaemonInvariant, Crash
    PROVE  DaemonInvariant'
  <1>0. Control /\ Sound(Manager, net) /\ Backed /\ Left
    BY DEF DaemonInvariant
  <1>1. /\ left.crashes > 0 /\ left' = [left EXCEPT !.crashes = left.crashes - 1]
        /\ pc' = "down" /\ plan' = NoPlan /\ at' = 0 /\ after' = "none"
        /\ tunnel' = NoTunnel /\ session' = Closed /\ sigterm' = FALSE
        /\ client' = [c \in Clients |-> "away"]
        /\ net' = WithoutDevice(net, Tun) /\ UNCHANGED lan
        /\ record' = record \/ (pc = "save" /\ record' = Torn)
    BY DEF Crash
  <1>2. left \in Bounds /\ record' \in RoutePlan \cup {NoRecord, Torn}
    BY <1>0, <1>1 DEF Control, Typed
  <1>3. left' \in Bounds /\ left'.mishaps = left.mishaps
    BY <1>1, <1>2, BoundsTyped
  <1>4. /\ Sound(Manager, net') /\ net'.devices = {} /\ net'.routes = Pins(net)
        /\ Pins(net') = Pins(net)
        /\ net'.resolv = net.resolv /\ net'.backup = net.backup
    BY <1>0, <1>1, TunGone
  <1>5. client' \in Peers
    BY <1>1 DEF Peers
  <1>6. Control'
    BY <1>0, <1>1, <1>2, <1>3, <1>5, FieldsTyped DEF Control, Typed, Places, Starting, Undoing
  <1>7. Backed'
    BY <1>1, FieldsTyped DEF Backed, Undoing
  <1>8. ASSUME NoMishap' PROVE LeftoversRecorded' /\ net'.backup # TunnelDns
    <2>1. NoMishap /\ LeftoversRecorded /\ net.backup # TunnelDns
      BY <1>0, <1>3, <1>8 DEF Left, NoMishap
    <2>2. CASE record' = record
      BY <1>4, <2>1, <2>2 DEF LeftoversRecorded, Recorded
    <2>3. CASE pc = "save"
      <3>1. net.routes = {} /\ net.resolv # TunnelDns
        BY <1>0, <2>1, <2>3 DEF Left
      <3>2. Pins(net') = {}
        BY <1>4, <3>1 DEF Pins
      <3> QED
        BY <1>4, <2>1, <3>1, <3>2 DEF LeftoversRecorded
    <2> QED
      BY <1>1, <2>2, <2>3
  <1>9. Left'
    BY <1>1, <1>4, <1>8 DEF Left, Idle
  <1> QED
    BY <1>4, <1>6, <1>7, <1>9 DEF DaemonInvariant

(* It comes up again.                                                      *)
LEMMA RestartKeeps ==
    ASSUME DaemonInvariant, Restart
    PROVE  DaemonInvariant'
  <1>0. Control /\ Sound(Manager, net) /\ Backed /\ Left
    BY DEF DaemonInvariant
  <1>1. /\ pc \in {"down", "stopped"} /\ pc' = "boot"
        /\ UNCHANGED <<plan, at, after, tunnel, record, net, lan, client, session, sigterm, left>>
    BY DEF Restart, Up
  <1>2. ~tunnel.up
    BY <1>0, <1>1 DEF Control
  <1>3. Control'
    BY <1>0, <1>1, <1>2 DEF Control, Typed, Places, Starting, Undoing
  <1>4. Backed'
    BY <1>0, <1>1, <1>2 DEF Backed, Undoing
  <1>5. ASSUME NoMishap'
        PROVE  /\ LeftoversRecorded' /\ net'.backup # TunnelDns
               /\ net'.devices = {} /\ net'.routes = Pins(net')
    <2>1. /\ NoMishap /\ LeftoversRecorded /\ net.backup # TunnelDns
          /\ pc = "stopped" => Untouched(net)
          /\ pc = "down" => net.devices = {} /\ net.routes = Pins(net)
      BY <1>0, <1>1, <1>2, <1>5 DEF Left, NoMishap, Idle
    <2>2. net.devices = {} /\ net.routes = Pins(net)
      BY <1>1, <2>1 DEF Untouched, Pins
    <2>3. LeftoversRecorded'
      BY <1>1, <2>1 DEF LeftoversRecorded, Recorded
    <2> QED
      BY <1>1, <2>1, <2>2, <2>3 DEF Pins
  <1>6. Left'
    BY <1>1, <1>5 DEF Left, Idle
  <1> QED
    BY <1>0, <1>1, <1>3, <1>4, <1>6 DEF DaemonInvariant

(* The engine ends by itself: its pin and the resolver stay in place.      *)
LEMMA EngineDiesKeeps ==
    ASSUME DaemonInvariant, EngineDies
    PROVE  DaemonInvariant'
  <1>0. Control /\ Sound(Manager, net) /\ Backed /\ Left
    BY DEF DaemonInvariant
  <1>1. /\ tunnel.up /\ tunnel' = [tunnel EXCEPT !.alive = FALSE]
        /\ net' = WithoutDevice(net, Tun)
        /\ UNCHANGED <<pc, plan, at, after, record, lan, client, session, sigterm, left>>
    BY DEF EngineDies
  <1>2. tunnel' \in Tunnels /\ tunnel'.up = tunnel.up /\ tunnel'.plan = tunnel.plan
    BY <1>0, <1>1, FieldsTyped DEF Control, Typed
  <1>3. /\ Sound(Manager, net') /\ net'.devices = {} /\ net'.routes = Pins(net)
        /\ Pins(net') = Pins(net)
        /\ net'.resolv = net.resolv /\ net'.backup = net.backup
    BY <1>0, <1>1, TunGone
  <1>4. pc \in {"accept", "select"}
    BY <1>0, <1>1 DEF Control
  <1>5. Control'
    BY <1>0, <1>1, <1>2 DEF Control, Typed, Places, Starting, Undoing
  <1>6. \A s : Pin(s) \in net.routes => Pin(s) \in net'.routes
    BY <1>3, Ways, Leads, OneDevice DEF Pins
  <1>7. Backed'
    BY <1>0, <1>1, <1>2, <1>3, <1>4, <1>6 DEF Backed, Undoing, InPlace
  <1>8. ASSUME NoMishap' PROVE LeftoversRecorded' /\ net'.backup # TunnelDns
    <2>1. NoMishap /\ LeftoversRecorded /\ net.backup # TunnelDns
      BY <1>0, <1>1, <1>8 DEF Left, NoMishap
    <2> QED
      BY <1>1, <1>3, <2>1 DEF LeftoversRecorded, Recorded
  <1>9. Left'
    BY <1>1, <1>2, <1>4, <1>8 DEF Left
  <1> QED
    BY <1>3, <1>5, <1>7, <1>9 DEF DaemonInvariant

(* A signal, or a client that comes or goes.                               *)
LEMMA CallersKeep ==
    ASSUME DaemonInvariant,
           Sigterm \/ \E c \in Clients : ClientComes(c) \/ ClientHangsUp(c)
    PROVE  DaemonInvariant'
  <1>0. Control /\ Sound(Manager, net) /\ Backed /\ Left
    BY DEF DaemonInvariant
  <1>1. left \in Bounds /\ client \in Peers
    BY <1>0 DEF Control, Typed
  <1>2. /\ UNCHANGED <<pc, plan, at, after, tunnel, record, net, lan, session>>
        /\ sigterm' \in BOOLEAN /\ client' \in Peers
        /\ left' \in Bounds /\ left'.mishaps = left.mishaps
    <2>1. CASE Sigterm
      BY <1>1, <2>1 DEF Sigterm
    <2>2. ASSUME NEW c \in Clients, ClientComes(c)
          PROVE  /\ UNCHANGED <<pc, plan, at, after, tunnel, record, net, lan, session>>
                 /\ sigterm' \in BOOLEAN /\ client' \in Peers
                 /\ left' \in Bounds /\ left'.mishaps = left.mishaps
      <3>1. /\ left.sessions > 0 /\ left' = [left EXCEPT !.sessions = left.sessions - 1]
            /\ client' = [client EXCEPT ![c] = "waiting"]
            /\ UNCHANGED <<pc, plan, at, after, tunnel, record, net, lan, session, sigterm>>
        BY <2>2 DEF ClientComes
      <3>2. left' \in Bounds /\ left'.mishaps = left.mishaps
        BY <1>1, <3>1, BoundsTyped
      <3>3. client' \in Peers
        BY <1>1, <3>1 DEF Peers
      <3> QED
        BY <1>0, <3>1, <3>2, <3>3 DEF Control, Typed
    <2>3. ASSUME NEW c \in Clients, ClientHangsUp(c)
          PROVE  /\ UNCHANGED <<pc, plan, at, after, tunnel, record, net, lan, session>>
                 /\ sigterm' \in BOOLEAN /\ client' \in Peers
                 /\ left' \in Bounds /\ left'.mishaps = left.mishaps
      <3>1. /\ client' = [client EXCEPT ![c] = "gone"]
            /\ UNCHANGED <<pc, plan, at, after, tunnel, record, net, lan, session, sigterm, left>>
        BY <2>3 DEF ClientHangsUp
      <3>2. client' \in Peers
        BY <1>1, <3>1 DEF Peers
      <3> QED
        BY <1>0, <1>1, <3>1, <3>2 DEF Control, Typed
    <2> QED
      BY <2>1, <2>2, <2>3
  <1>3. Backed' /\ Left'
    BY <1>0, <1>2, StandsStill
  <1>4. Control'
    BY <1>0, <1>2 DEF Control, Typed, Places, Starting, Undoing
  <1> QED
    BY <1>0, <1>2, <1>3, <1>4 DEF DaemonInvariant

(* Another network, with another resolver, while none of liostunnel's is   *)
(* in force.                                                               *)
LEMMA NetworkMovesKeeps ==
    ASSUME DaemonInvariant, NetworkMoves
    PROVE  DaemonInvariant'
  <1>0. Control /\ Sound(Manager, net) /\ Backed /\ Left
    BY DEF DaemonInvariant
  <1>1. /\ pc \in {"accept", "select"} /\ net.resolv = lan
        /\ left.moves > 0 /\ left' = [left EXCEPT !.moves = left.moves - 1]
        /\ lan' \in Lans /\ net' = [net EXCEPT !.resolv = lan']
        /\ UNCHANGED <<pc, plan, at, after, tunnel, record, client, session, sigterm>>
    BY DEF NetworkMoves
  <1>2. left \in Bounds /\ lan \in Lans /\ net \in Net
    BY <1>0 DEF Control, Typed, Sound
  <1>3. left' \in Bounds /\ left'.mishaps = left.mishaps
    BY <1>1, <1>2, BoundsTyped
  <1>4. /\ net' \in Net /\ net'.routes = net.routes /\ net'.devices = net.devices
        /\ net'.resolv = lan' /\ net'.backup = net.backup
    BY <1>1, <1>2, Changed
  <1>5. net.resolv # TunnelDns /\ net'.resolv \notin {TunnelDns, Automatic}
    BY <1>1, <1>2, <1>4, OwnNames
  <1>6. Sound(Manager, net')
    BY <1>4, <1>5 DEF Sound
  <1>7. Control'
    BY <1>0, <1>1, <1>3 DEF Control, Typed, Places, Starting, Undoing
  <1>8. Backed'
    BY <1>0, <1>1, <1>5 DEF Backed, Undoing, InPlace
  <1>9. ASSUME NoMishap' PROVE /\ LeftoversRecorded' /\ net'.backup # TunnelDns
                               /\ ~tunnel'.up => Untouched(net')
    <2>1. /\ NoMishap /\ LeftoversRecorded /\ net.backup # TunnelDns
          /\ ~tunnel.up => Untouched(net)
      BY <1>0, <1>1, <1>3, <1>9 DEF Left, NoMishap, Idle
    <2>2. LeftoversRecorded'
      BY <1>1, <1>4, <1>5, <2>1 DEF LeftoversRecorded, Recorded, Pins
    <2> QED
      BY <1>1, <1>4, <1>5, <2>1, <2>2 DEF Untouched
  <1>10. Left'
    BY <1>1, <1>9 DEF Left
  <1> QED
    BY <1>6, <1>7, <1>8, <1>10 DEF DaemonInvariant

----------------------------------------------------------------------------
(* Theorems.                                                               *)

(* The machine as the daemon finds it first.                               *)
LEMMA DaemonInit == Init => DaemonInvariant
  <1> SUFFICES ASSUME Init PROVE DaemonInvariant
    OBVIOUS
  <1>1. /\ pc = "boot" /\ plan = NoPlan /\ at = 0 /\ after = "none"
        /\ tunnel = NoTunnel /\ record = NoRecord /\ lan \in Lans
        /\ net = [routes |-> {}, devices |-> {}, resolv |-> lan, backup |-> NoBackup]
        /\ client = [c \in Clients |-> "away"] /\ session = Closed /\ sigterm = FALSE
        /\ left = [mishaps |-> MaxMishaps, crashes |-> MaxCrashes,
                   moves |-> MaxMoves, sessions |-> MaxSessions]
    BY DEF Init
  <1>2. /\ net \in Net /\ net.routes = {} /\ net.devices = {} /\ net.resolv = lan
        /\ net.backup = NoBackup
    BY <1>1 DEF Net
  <1>3. net.resolv \notin {TunnelDns, Automatic} /\ net.backup # TunnelDns
    BY <1>1, <1>2, OwnNames
  <1>4. Sound(Manager, net)
    BY <1>2, <1>3 DEF Sound
  <1>5. client \in Peers
    BY <1>1 DEF Peers
  <1>6. left \in Bounds
    <2>1. /\ MaxMishaps \in Nat /\ MaxCrashes \in Nat /\ MaxMoves \in Nat /\ MaxSessions \in Nat
      BY HelperDaemonAssumption
    <2> QED
      BY <1>1, <2>1 DEF Bounds
  <1>7. Control
    BY <1>1, <1>5, <1>6, FieldsTyped DEF Control, Typed, Places, Starting, Undoing
  <1>8. Backed
    BY <1>1, FieldsTyped DEF Backed, Undoing
  <1>9. Pins(net) = {}
    BY <1>2 DEF Pins
  <1>10. Left
    BY <1>1, <1>2, <1>3, <1>9 DEF Left, Idle, LeftoversRecorded
  <1> QED
    BY <1>4, <1>7, <1>8, <1>10 DEF DaemonInvariant

(* Every step keeps the invariant.                                         *)
LEMMA DaemonSteps == DaemonInvariant /\ [Next]_vars => DaemonInvariant'
  <1> SUFFICES ASSUME DaemonInvariant, [Next]_vars PROVE DaemonInvariant'
    OBVIOUS
  <1>0. Control /\ Sound(Manager, net) /\ Backed /\ Left
    BY DEF DaemonInvariant
  <1>1. CASE UNCHANGED vars
    <2>1. UNCHANGED <<pc, plan, at, after, tunnel, record, net, lan, client, session,
                      sigterm, left>>
      BY <1>1 DEF vars
    <2>2. Backed' /\ Left'
      BY <1>0, <2>1, StandsStill
    <2>3. Control'
      BY <1>0, <2>1 DEF Control, Typed
    <2> QED
      BY <1>0, <2>1, <2>2, <2>3 DEF DaemonInvariant
  <1>2. CASE Working
    BY <1>2, RecoverKeeps, SkipRecoveryKeeps, ConnectProtocolKeeps, OpenDeviceKeeps,
       SaveRecordKeeps, ApplyCommandKeeps, StartEngineKeeps, RevertCommandKeeps,
       RevertDoneKeeps, ClearRecordKeeps DEF Working
  <1>3. CASE \E c \in Clients : Accept(c)
    BY <1>3, AcceptKeeps
  <1>4. CASE Terminate \/ AcceptFails
    BY <1>4, ServeReturnsKeeps DEF Terminate, AcceptFails
  <1>5. CASE HangUpSeen \/ NoticeDeadEngine
    BY <1>5, HangUpSeenKeeps, NoticeDeadEngineKeeps
  <1>6. CASE Requests
    BY <1>6, HelloKeeps, DisconnectKeeps, ConnectKeeps DEF Requests
  <1>7. CASE Environment
    BY <1>4, <1>7, CrashKeeps, RestartKeeps, EngineDiesKeeps, CallersKeep, NetworkMovesKeeps
       DEF Environment
  <1> QED
    BY <1>1, <1>2, <1>3, <1>4, <1>5, <1>6, <1>7 DEF Next

(* The invariant of every behaviour.                                       *)
THEOREM DaemonIsSound == Spec => []DaemonInvariant
  BY DaemonInit, DaemonSteps, PTL DEF Spec

(* What of a tunnel is on the machine, after any disconnect, failed start, *)
(* dead engine, shutdown or kill, is the running tunnel's or on record,    *)
(* and an idle daemon leaves nothing.                                      *)
THEOREM MachineAlwaysAccounted == Spec => []MachineAccounted
  <1>1. DaemonInvariant => MachineAccounted
    <2> SUFFICES ASSUME DaemonInvariant PROVE MachineAccounted
      OBVIOUS
    <2>0. Control /\ Sound(Manager, net) /\ Left
      BY DEF DaemonInvariant
    <2>1. TypeOK
      BY <2>0 DEF Control, Typed, Sound, TypeOK, Places, Tunnels, Peers, Sessions, Bounds
    <2>2. LeftoversRecorded
      BY <2>0 DEF Left, LeftoversRecorded
    <2>3. IdleIsClean
      BY <2>0 DEF Left, IdleIsClean, Idle
    <2> QED
      BY <2>1, <2>2, <2>3 DEF MachineAccounted
  <1> QED
    BY DaemonIsSound, <1>1, PTL

(* A tunnel that is up is on record, with its pin and its resolver in      *)
(* place, whatever was done before it and whoever comes.                   *)
THEOREM TunnelAlwaysBacked == Spec => []TunnelIsBacked
  <1>1. DaemonInvariant => TunnelIsBacked
    BY DEF DaemonInvariant, Backed, InPlace, TunnelIsBacked
  <1> QED
    BY DaemonIsSound, <1>1, PTL

(* What a session tells its client is the truth about the tunnel.          *)
THEOREM SessionsAlwaysTrue == Spec => []SessionMirrorsTunnel
  <1>1. DaemonInvariant => SessionMirrorsTunnel
    BY DEF DaemonInvariant, Control, SessionMirrorsTunnel
  <1> QED
    BY DaemonIsSound, <1>1, PTL
=============================================================================
