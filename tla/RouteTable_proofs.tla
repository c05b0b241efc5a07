------------------------- MODULE RouteTable_proofs -------------------------
(***************************************************************************)
(* What the command lists of a plan hold, in which order, and what each    *)
(* command does to the machine: the facts that the proofs about the helper *)
(* and about the command line rest on.                                     *)
(***************************************************************************)
EXTENDS RouteTable, SequenceTheorems, TLAPS

(* The commands of a platform's manager.                                   *)
Cmds(mg) == {Add(r) : r \in Routes} \cup {Del(r) : r \in Routes}
            \cup {Override}
            \cup (IF mg = "linux" THEN {Backup, Restore} ELSE {EmptyDns})

(* A machine: on Linux nothing makes its resolver what networksetup does.  *)
Sound(mg, n) == n \in Net /\ (mg = "linux" => n.resolv # Automatic)

----------------------------------------------------------------------------
(* The commands.                                                           *)

(* A function of the positions of a sequence is as long as it.             *)
LEMMA Mapped ==
    ASSUME NEW S, NEW s, NEW n \in Nat, DOMAIN s = 1 .. n, \A k \in 1 .. n : s[k] \in S,
           s = [k \in DOMAIN s |-> s[k]]
    PROVE  s \in Seq(S) /\ Len(s) = n
  <1>1. s \in [1 .. n -> S]
    OBVIOUS
  <1>2. s \in Seq(S)
    BY <1>1, SeqDef
  <1>3. Len(s) \in Nat /\ DOMAIN s = 1 .. Len(s)
    BY <1>2, LenProperties
  <1>4. Len(s) = n
    <2>1. \A i : i \in 1 .. n <=> i \in 1 .. Len(s)
      BY <1>3
    <2> QED
      BY <1>3, <2>1
  <1> QED
    BY <1>2, <1>4

(* There is a route for every server and for every prefix of a plan.       *)
LEMMA RoutesOf ==
    ASSUME NEW p \in RoutePlan
    PROVE  /\ p.interface \in Interfaces /\ p.server \in Servers /\ p.mode \in RouteMode
           /\ Pin(p.server) \in Routes
           /\ Captured(p) \in Seq(STRING)
           /\ \A k \in DOMAIN Captured(p) : Into(p.interface, Captured(p)[k]) \in Routes
  <1>1. p.interface \in Interfaces /\ p.server \in Servers /\ p.mode \in RouteMode
    BY DEF RoutePlan
  <1>2. Halves \in Seq(STRING) /\ Cidrs \in Seq(STRING) /\ HostRoutes \in Seq(STRING)
    BY RouteTableAssumption, HostRoutesAssumption
  <1> DEFINE all == Halves \o Cidrs \o HostRoutes
  <1>3. /\ Halves \o Cidrs \in Seq(STRING) /\ Len(Halves \o Cidrs) = Len(Halves) + Len(Cidrs)
        /\ \A i \in 1 .. Len(Halves) + Len(Cidrs) :
              (Halves \o Cidrs)[i] = IF i <= Len(Halves) THEN Halves[i] ELSE Cidrs[i - Len(Halves)]
    BY <1>2, ConcatProperties
  <1>4. /\ all \in Seq(STRING) /\ Len(all) = Len(Halves) + Len(Cidrs) + Len(HostRoutes)
        /\ \A i \in 1 .. Len(Halves) + Len(Cidrs) + Len(HostRoutes) :
              all[i] = IF i <= Len(Halves) + Len(Cidrs) THEN (Halves \o Cidrs)[i]
                       ELSE HostRoutes[i - (Len(Halves) + Len(Cidrs))]
    BY <1>2, <1>3, ConcatProperties
  <1>5. /\ Cidrs \o HostRoutes \in Seq(STRING)
        /\ Len(Cidrs \o HostRoutes) = Len(Cidrs) + Len(HostRoutes)
        /\ \A i \in 1 .. Len(Cidrs) + Len(HostRoutes) :
              (Cidrs \o HostRoutes)[i] = IF i <= Len(Cidrs) THEN Cidrs[i]
                                         ELSE HostRoutes[i - Len(Cidrs)]
    BY <1>2, ConcatProperties
  <1> HIDE DEF all
  <1>6. /\ Len(Halves) \in Nat /\ Len(Cidrs) \in Nat /\ Len(HostRoutes) \in Nat
        /\ DOMAIN Halves = 1 .. Len(Halves)
        /\ DOMAIN (Cidrs \o HostRoutes) = 1 .. Len(Cidrs) + Len(HostRoutes)
        /\ DOMAIN all = 1 .. Len(all)
    BY <1>2, <1>4, <1>5, LenProperties
  <1>7. \A k \in DOMAIN Halves : \E i \in DOMAIN all : all[i] = Halves[k]
    <2> TAKE k \in DOMAIN Halves
    <2>1. k \in DOMAIN all /\ k \in 1 .. Len(Halves) + Len(Cidrs) /\ k <= Len(Halves)
          /\ k \in 1 .. Len(Halves) + Len(Cidrs) + Len(HostRoutes) /\ k <= Len(Halves) + Len(Cidrs)
      BY <1>4, <1>6
    <2>2. all[k] = Halves[k]
      BY <1>3, <1>4, <2>1
    <2> QED
      BY <2>1, <2>2
  <1>8. \A k \in DOMAIN (Cidrs \o HostRoutes) :
          \E i \in DOMAIN all : all[i] = (Cidrs \o HostRoutes)[k]
    <2> TAKE k \in DOMAIN (Cidrs \o HostRoutes)
    <2> DEFINE i == k + Len(Halves)
    <2>1. /\ k \in 1 .. Len(Cidrs) + Len(HostRoutes) /\ k \in Nat
          /\ i \in DOMAIN all /\ i \in 1 .. Len(Halves) + Len(Cidrs) + Len(HostRoutes)
          /\ i - Len(Halves) = k /\ ~(i <= Len(Halves))
      BY <1>4, <1>6
    <2>2. CASE k <= Len(Cidrs)
      <3>1. i <= Len(Halves) + Len(Cidrs) /\ i \in 1 .. Len(Halves) + Len(Cidrs)
        BY <1>6, <2>1, <2>2
      <3>2. all[i] = Cidrs[k]
        BY <1>3, <1>4, <2>1, <3>1
      <3> QED
        BY <1>5, <2>1, <2>2, <3>2
    <2>3. CASE ~(k <= Len(Cidrs))
      <3>1. /\ ~(i <= Len(Halves) + Len(Cidrs))
            /\ i - (Len(Halves) + Len(Cidrs)) = k - Len(Cidrs)
        BY <1>6, <2>1, <2>3
      <3>2. all[i] = HostRoutes[k - Len(Cidrs)]
        BY <1>4, <2>1, <3>1
      <3> QED
        BY <1>5, <2>1, <2>3, <3>2
    <2> QED
      BY <2>2, <2>3
  <1>9. /\ Captured(p) \in Seq(STRING)
        /\ \A k \in DOMAIN Captured(p) : \E i \in DOMAIN all : all[i] = Captured(p)[k]
    BY <1>2, <1>5, <1>7, <1>8 DEF Captured
  <1>10. \A k \in DOMAIN Captured(p) : Into(p.interface, Captured(p)[k]) \in Routes
    <2>1. \A k \in DOMAIN Captured(p) : Captured(p)[k] \in Range(all)
      BY <1>9 DEF Range
    <2> QED
      BY <1>1, <2>1 DEF Routes, all
  <1> QED
    BY <1>1, <1>9, <1>10 DEF Routes

(* Commands that lead a plan's prefixes into the device, or out of it.     *)
LEMMA TunCommands ==
    ASSUME NEW mg, NEW p \in RoutePlan
    PROVE  /\ AddTunRoutes(p) \in Seq(Cmds(mg)) /\ Len(AddTunRoutes(p)) = Len(Captured(p))
           /\ DelTunRoutes(p) \in Seq(Cmds(mg)) /\ Len(DelTunRoutes(p)) = Len(Captured(p))
           /\ Len(Captured(p)) \in Nat /\ DOMAIN Captured(p) = 1 .. Len(Captured(p))
           /\ \A k \in DOMAIN Captured(p) :
                 /\ AddTunRoutes(p)[k] = Add(Into(p.interface, Captured(p)[k]))
                 /\ DelTunRoutes(p)[k] = Del(Into(p.interface, Captured(p)[k]))
  <1> DEFINE n == Len(Captured(p))
  <1>1. n \in Nat /\ DOMAIN Captured(p) = 1 .. n
    BY RoutesOf, LenProperties
  <1> HIDE DEF n
  <1>2. /\ DOMAIN TunRoutes(p) = 1 .. n
        /\ \A k \in 1 .. n : TunRoutes(p)[k] = Into(p.interface, Captured(p)[k])
    BY <1>1, RoutesOf DEF TunRoutes
  <1>3. /\ DOMAIN AddTunRoutes(p) = 1 .. n /\ DOMAIN DelTunRoutes(p) = 1 .. n
        /\ \A k \in 1 .. n : /\ AddTunRoutes(p)[k] = Add(Into(p.interface, Captured(p)[k]))
                             /\ DelTunRoutes(p)[k] = Del(Into(p.interface, Captured(p)[k]))
    BY <1>2 DEF AddTunRoutes, DelTunRoutes
  <1>4. \A k \in 1 .. n : Into(p.interface, Captured(p)[k]) \in Routes
    BY <1>1, RoutesOf
  <1>5. \A k \in 1 .. n : AddTunRoutes(p)[k] \in Cmds(mg) /\ DelTunRoutes(p)[k] \in Cmds(mg)
    BY <1>3, <1>4 DEF Cmds
  <1>6. /\ AddTunRoutes(p) = [k \in DOMAIN AddTunRoutes(p) |-> AddTunRoutes(p)[k]]
        /\ DelTunRoutes(p) = [k \in DOMAIN DelTunRoutes(p) |-> DelTunRoutes(p)[k]]
    BY DEF AddTunRoutes, DelTunRoutes
  <1>7. AddTunRoutes(p) \in Seq(Cmds(mg)) /\ Len(AddTunRoutes(p)) = n
    BY <1>1, <1>3, <1>5, <1>6, Mapped
  <1>8. DelTunRoutes(p) \in Seq(Cmds(mg)) /\ Len(DelTunRoutes(p)) = n
    BY <1>1, <1>3, <1>5, <1>6, Mapped
  <1> QED
    BY <1>1, <1>3, <1>7, <1>8 DEF n

(* What apply runs: only routes into the device for Test mode; for Default *)
(* mode the pin, the halves, and what overrides the resolver.              *)
LEMMA ApplyShape ==
    ASSUME NEW mg, NEW p \in RoutePlan
    PROVE  LET cmds == ApplyCommands(mg, p) IN
           /\ cmds \in Seq(Cmds(mg)) /\ Len(cmds) \in Nat
           /\ p.mode = "test" =>
                 \A k \in 1 .. Len(cmds) :
                    \E r \in Routes : cmds[k] = Add(r) /\ r.via = p.interface
           /\ p.mode = "default" =>
                 /\ Len(Halves) \in Nat /\ DOMAIN Halves = 1 .. Len(Halves)
                 /\ Len(cmds) = Len(Halves) + (IF mg = "linux" THEN 3 ELSE 2)
                 /\ cmds[1] = Add(Pin(p.server))
                 /\ \A k \in DOMAIN Halves : cmds[k + 1] = Add(Into(p.interface, Halves[k]))
                 /\ mg = "linux" => cmds[Len(Halves) + 2] = Backup
                 /\ cmds[Len(cmds)] = Override
  <1> DEFINE cmds == ApplyCommands(mg, p)
  <1> DEFINE tun == AddTunRoutes(p)
  <1> DEFINE n == Len(Captured(p))
  <1>1. /\ tun \in Seq(Cmds(mg)) /\ Len(tun) = n /\ n \in Nat /\ DOMAIN Captured(p) = 1 .. n
        /\ \A k \in 1 .. n : tun[k] = Add(Into(p.interface, Captured(p)[k]))
    BY TunCommands
  <1>2. \A k \in 1 .. n : /\ Into(p.interface, Captured(p)[k]) \in Routes
                          /\ Into(p.interface, Captured(p)[k]).via = p.interface
    BY <1>1, RoutesOf DEF Into
  <1> HIDE DEF tun, n
  <1>3. CASE p.mode = "test"
    <2>1. cmds = tun
      BY <1>3 DEF ApplyCommands, tun
    <2>2. \A k \in 1 .. Len(cmds) : \E r \in Routes : cmds[k] = Add(r) /\ r.via = p.interface
      BY <1>1, <1>2, <2>1
    <2> HIDE DEF cmds
    <2> QED
      BY <1>1, <1>3, <2>1, <2>2 DEF cmds
  <1>4. CASE p.mode # "test"
    <2> DEFINE pin == <<Add(Pin(p.server))>>
    <2> DEFINE dns == IF mg = "linux" THEN <<Backup, Override>> ELSE <<SetDns>>
    <2>1. Captured(p) = Halves /\ n = Len(Halves)
      BY <1>4 DEF Captured, n
    <2>2. cmds = pin \o tun \o dns
      BY <1>4 DEF ApplyCommands, tun
    <2>3. pin \in Seq(Cmds(mg)) /\ Len(pin) = 1 /\ pin[1] = Add(Pin(p.server))
      BY RoutesOf DEF Cmds
    <2>4. /\ dns \in Seq(Cmds(mg)) /\ Len(dns) = IF mg = "linux" THEN 2 ELSE 1
          /\ mg = "linux" => dns[1] = Backup
          /\ dns[Len(dns)] = Override
      <3>1. CASE mg = "linux"
        BY <3>1 DEF Cmds
      <3>2. CASE mg # "linux"
        BY <3>2 DEF Cmds, SetDns, Override
      <3> QED
        BY <3>1, <3>2
    <2> HIDE DEF pin, dns
    <2>5. /\ pin \o tun \in Seq(Cmds(mg)) /\ Len(pin \o tun) = n + 1
          /\ \A i \in 1 .. 1 + n : (pin \o tun)[i] = IF i <= 1 THEN pin[i] ELSE tun[i - 1]
      <3> DEFINE S == Cmds(mg)
      <3>1. pin \in Seq(S) /\ tun \in Seq(S)
        BY <1>1, <2>3
      <3> HIDE DEF S
      <3>2. /\ pin \o tun \in Seq(S) /\ Len(pin \o tun) = Len(pin) + Len(tun)
            /\ \A i \in 1 .. Len(pin) + Len(tun) :
                  (pin \o tun)[i] = IF i <= Len(pin) THEN pin[i] ELSE tun[i - Len(pin)]
        BY <3>1, ConcatProperties
      <3> QED
        BY <1>1, <2>3, <3>2 DEF S
    <2>6. /\ cmds \in Seq(Cmds(mg)) /\ Len(cmds) = n + 1 + Len(dns)
          /\ \A i \in 1 .. n + 1 + Len(dns) :
                cmds[i] = IF i <= n + 1 THEN (pin \o tun)[i] ELSE dns[i - (n + 1)]
      <3> DEFINE head == pin \o tun
      <3>1. head \in Seq(Cmds(mg)) /\ Len(head) = n + 1 /\ cmds = head \o dns
        BY <2>2, <2>5
      <3> HIDE DEF head, cmds
      <3>2. /\ head \o dns \in Seq(Cmds(mg)) /\ Len(head \o dns) = Len(head) + Len(dns)
            /\ \A i \in 1 .. Len(head) + Len(dns) :
                  (head \o dns)[i] = IF i <= Len(head) THEN head[i] ELSE dns[i - Len(head)]
        BY <2>4, <3>1, ConcatProperties
      <3>3. /\ cmds \in Seq(Cmds(mg)) /\ Len(cmds) = n + 1 + Len(dns)
            /\ \A i \in 1 .. n + 1 + Len(dns) :
                  cmds[i] = IF i <= n + 1 THEN head[i] ELSE dns[i - (n + 1)]
        BY <3>1, <3>2
      <3> QED
        BY <3>3 DEF head
    <2> HIDE DEF cmds
    <2>7. cmds[1] = Add(Pin(p.server))
      <3>1. 1 \in 1 .. n + 1 + Len(dns) /\ 1 <= n + 1 /\ 1 \in 1 .. 1 + n
        BY <1>1, <2>4
      <3> QED
        <4>1. cmds[1] = (pin \o tun)[1]
          BY <2>6, <3>1
        <4>2. (pin \o tun)[1] = pin[1]
          BY <2>5, <3>1
        <4> QED
          BY <2>3, <4>1, <4>2
    <2>8. \A k \in 1 .. n : cmds[k + 1] = Add(Into(p.interface, Halves[k]))
      <3> TAKE k \in 1 .. n
      <3>1. /\ k + 1 \in 1 .. n + 1 + Len(dns) /\ k + 1 <= n + 1 /\ k + 1 \in 1 .. 1 + n
            /\ ~(k + 1 <= 1) /\ (k + 1) - 1 = k
        BY <1>1, <2>4
      <3> QED
        BY <1>1, <2>1, <2>5, <2>6, <3>1
    <2>9. mg = "linux" => cmds[n + 2] = Backup
      <3> SUFFICES ASSUME mg = "linux" PROVE cmds[n + 2] = Backup
        OBVIOUS
      <3>1. n + 2 \in 1 .. n + 1 + Len(dns) /\ ~(n + 2 <= n + 1) /\ (n + 2) - (n + 1) = 1
        BY <1>1, <2>4
      <3> QED
        <4> DEFINE i == n + 2
        <4>1. i \in 1 .. n + 1 + Len(dns) /\ ~(i <= n + 1) /\ i - (n + 1) = 1
          BY <3>1
        <4> HIDE DEF i
        <4>2. cmds[i] = dns[i - (n + 1)]
          BY <2>6, <4>1
        <4>3. cmds[i] = Backup
          BY <2>4, <4>1, <4>2
        <4> QED
          BY <4>3 DEF i
    <2>10. cmds[Len(cmds)] = Override
      <3>1. /\ Len(cmds) \in 1 .. n + 1 + Len(dns) /\ ~(Len(cmds) <= n + 1)
            /\ Len(cmds) - (n + 1) = Len(dns)
        BY <1>1, <2>4, <2>6
      <3> QED
        BY <2>4, <2>6, <3>1
    <2>11. Len(cmds) = n + (IF mg = "linux" THEN 3 ELSE 2) /\ Len(cmds) \in Nat
      BY <1>1, <2>4, <2>6
    <2>12. DOMAIN Halves = 1 .. n
      BY <1>1, <2>1
    <2> QED
      BY <1>1, <1>4, <2>1, <2>6, <2>7, <2>8, <2>9, <2>10, <2>11, <2>12 DEF cmds
  <1> QED
    BY <1>3, <1>4

(* What revert runs: the routes go in the same order, and the resolver     *)
(* comes back last.                                                        *)
LEMMA RevertShape ==
    ASSUME NEW mg, NEW p \in RoutePlan
    PROVE  LET cmds == RevertCommands(mg, p) IN
           /\ cmds \in Seq(Cmds(mg)) /\ Len(cmds) \in Nat
           /\ p.mode = "test" =>
                 \A k \in 1 .. Len(cmds) :
                    \E r \in Routes : cmds[k] = Del(r)
           /\ p.mode = "default" =>
                 /\ Len(Halves) \in Nat /\ DOMAIN Halves = 1 .. Len(Halves)
                 /\ Len(cmds) = Len(Halves) + 2
                 /\ \A k \in DOMAIN Halves : cmds[k] = Del(Into(p.interface, Halves[k]))
                 /\ cmds[Len(Halves) + 1] = Del(Pin(p.server))
                 /\ cmds[Len(Halves) + 2] = IF mg = "linux" THEN Restore ELSE EmptyDns
  <1> DEFINE cmds == RevertCommands(mg, p)
  <1> DEFINE tun == DelTunRoutes(p)
  <1> DEFINE n == Len(Captured(p))
  <1>1. /\ tun \in Seq(Cmds(mg)) /\ Len(tun) = n /\ n \in Nat /\ DOMAIN Captured(p) = 1 .. n
        /\ \A k \in 1 .. n : tun[k] = Del(Into(p.interface, Captured(p)[k]))
    BY TunCommands
  <1>2. \A k \in 1 .. n : Into(p.interface, Captured(p)[k]) \in Routes
    BY <1>1, RoutesOf
  <1> HIDE DEF tun, n
  <1>3. CASE p.mode = "test"
    <2>1. cmds = tun
      BY <1>3 DEF RevertCommands, tun
    <2>2. \A k \in 1 .. Len(cmds) : \E r \in Routes : cmds[k] = Del(r)
      BY <1>1, <1>2, <2>1
    <2> HIDE DEF cmds
    <2> QED
      BY <1>1, <1>3, <2>1, <2>2 DEF cmds
  <1>4. CASE p.mode # "test"
    <2> DEFINE pin == <<Del(Pin(p.server))>>
    <2> DEFINE back == IF mg = "linux" THEN Restore ELSE EmptyDns
    <2> DEFINE dns == <<back>>
    <2>1. Captured(p) = Halves /\ n = Len(Halves)
      BY <1>4 DEF Captured, n
    <2>2. cmds = tun \o pin \o dns
      BY <1>4 DEF RevertCommands, tun
    <2>3. pin \in Seq(Cmds(mg)) /\ Len(pin) = 1 /\ pin[1] = Del(Pin(p.server))
      BY RoutesOf DEF Cmds
    <2>4. dns \in Seq(Cmds(mg)) /\ Len(dns) = 1 /\ dns[1] = back
      <3>1. back \in Cmds(mg)
        BY DEF Cmds
      <3> HIDE DEF back
      <3> QED
        BY <3>1
    <2> HIDE DEF pin, dns
    <2>5. /\ tun \o pin \in Seq(Cmds(mg)) /\ Len(tun \o pin) = n + 1
          /\ \A i \in 1 .. n + 1 : (tun \o pin)[i] = IF i <= n THEN tun[i] ELSE pin[i - n]
      <3> DEFINE S == Cmds(mg)
      <3>1. pin \in Seq(S) /\ tun \in Seq(S)
        BY <1>1, <2>3
      <3> HIDE DEF S
      <3>2. /\ tun \o pin \in Seq(S) /\ Len(tun \o pin) = Len(tun) + Len(pin)
            /\ \A i \in 1 .. Len(tun) + Len(pin) :
                  (tun \o pin)[i] = IF i <= Len(tun) THEN tun[i] ELSE pin[i - Len(tun)]
        BY <3>1, ConcatProperties
      <3> QED
        BY <1>1, <2>3, <3>2 DEF S
    <2>6. /\ cmds \in Seq(Cmds(mg)) /\ Len(cmds) = n + 2
          /\ \A i \in 1 .. n + 2 :
                cmds[i] = IF i <= n + 1 THEN (tun \o pin)[i] ELSE dns[i - (n + 1)]
      <3> DEFINE head == tun \o pin
      <3>1. head \in Seq(Cmds(mg)) /\ Len(head) = n + 1 /\ cmds = head \o dns
        BY <2>2, <2>5
      <3>2. Len(head) + Len(dns) = n + 2
        BY <1>1, <2>4, <3>1
      <3> HIDE DEF head, cmds
      <3>3. /\ head \o dns \in Seq(Cmds(mg)) /\ Len(head \o dns) = Len(head) + Len(dns)
            /\ \A i \in 1 .. Len(head) + Len(dns) :
                  (head \o dns)[i] = IF i <= Len(head) THEN head[i] ELSE dns[i - Len(head)]
        BY <2>4, <3>1, ConcatProperties
      <3>4. /\ cmds \in Seq(Cmds(mg)) /\ Len(cmds) = n + 2
            /\ \A i \in 1 .. n + 2 :
                  cmds[i] = IF i <= n + 1 THEN head[i] ELSE dns[i - (n + 1)]
        BY <3>1, <3>2, <3>3
      <3> QED
        BY <3>4 DEF head
    <2> HIDE DEF cmds
    <2>7. \A k \in 1 .. n : cmds[k] = Del(Into(p.interface, Halves[k]))
      <3> TAKE k \in 1 .. n
      <3>1. k \in 1 .. n + 2 /\ k <= n + 1 /\ k \in 1 .. n + 1 /\ k <= n
        BY <1>1
      <3> QED
        BY <1>1, <2>1, <2>5, <2>6, <3>1
    <2>8. cmds[n + 1] = Del(Pin(p.server))
      <3>1. n + 1 \in 1 .. n + 2 /\ n + 1 <= n + 1 /\ n + 1 \in 1 .. n + 1 /\ ~(n + 1 <= n)
            /\ (n + 1) - n = 1
        BY <1>1
      <3> QED
        <4> DEFINE i == n + 1
        <4>1. i \in 1 .. n + 2 /\ i <= n + 1 /\ i \in 1 .. n + 1 /\ ~(i <= n) /\ i - n = 1
          BY <3>1
        <4> HIDE DEF i
        <4>2. cmds[i] = (tun \o pin)[i]
          BY <2>6, <4>1
        <4>3. (tun \o pin)[i] = pin[1]
          BY <2>5, <4>1
        <4> QED
          BY <2>3, <4>2, <4>3 DEF i
    <2>9. cmds[n + 2] = back
      <3>1. n + 2 \in 1 .. n + 2 /\ ~(n + 2 <= n + 1) /\ (n + 2) - (n + 1) = 1
        BY <1>1
      <3> QED
        <4> DEFINE i == n + 2
        <4>1. i \in 1 .. n + 2 /\ ~(i <= n + 1) /\ i - (n + 1) = 1
          BY <3>1
        <4> HIDE DEF i
        <4>2. cmds[i] = dns[i - (n + 1)]
          BY <2>6, <4>1
        <4>3. cmds[i] = back
          BY <2>4, <4>1, <4>2
        <4> QED
          BY <4>3 DEF i
    <2>10. DOMAIN Halves = 1 .. n /\ Len(cmds) \in Nat
      BY <1>1, <2>1, <2>6
    <2> QED
      BY <1>1, <1>4, <2>1, <2>6, <2>7, <2>8, <2>9, <2>10 DEF cmds
  <1> QED
    BY <1>3, <1>4

(* The next command of a default plan.                                     *)
LEMMA NextCommand ==
    ASSUME NEW mg, NEW p \in RoutePlan, p.mode = "default", NEW i \in Nat,
           i < Len(ApplyCommands(mg, p))
    PROVE  LET cmds == ApplyCommands(mg, p)
               n == Len(Halves)
           IN  /\ n \in Nat /\ Len(cmds) \in Nat
               /\ \/ i = 0 /\ i + 1 # Len(cmds) /\ cmds[i + 1] = Add(Pin(p.server))
                  \/ /\ i \in DOMAIN Halves /\ i + 1 # Len(cmds) /\ ~(i + 1 >= n + 2) /\ i >= 1
                     /\ cmds[i + 1] = Add(Into(p.interface, Halves[i]))
                  \/ /\ mg = "linux" /\ i + 1 # Len(cmds) /\ i >= 1
                     /\ cmds[i + 1] = Backup
                  \/ /\ i + 1 = Len(cmds) /\ i >= 1 /\ (mg = "linux" => i >= n + 2)
                     /\ cmds[i + 1] = Override
  <1> DEFINE cmds == ApplyCommands(mg, p)
  <1> DEFINE n == Len(Halves)
  <1>1. /\ Len(cmds) \in Nat /\ n \in Nat /\ DOMAIN Halves = 1 .. n
        /\ Len(cmds) = n + (IF mg = "linux" THEN 3 ELSE 2)
        /\ cmds[1] = Add(Pin(p.server))
        /\ \A k \in DOMAIN Halves : cmds[k + 1] = Add(Into(p.interface, Halves[k]))
        /\ mg = "linux" => cmds[n + 2] = Backup
        /\ cmds[Len(cmds)] = Override
    BY ApplyShape
  <1>2. i < Len(cmds)
    OBVIOUS
  <1> HIDE DEF cmds, n
  <1>3. CASE i = 0
    <2>1. i + 1 = 1 /\ i + 1 # Len(cmds)
      BY <1>1, <1>3
    <2> QED
      BY <1>1, <1>3, <2>1 DEF cmds, n
  <1>4. CASE i \in 1 .. n
    <2>1. i \in DOMAIN Halves /\ i + 1 # Len(cmds) /\ ~(i + 1 >= n + 2) /\ i >= 1
      BY <1>1, <1>4
    <2>2. cmds[i + 1] = Add(Into(p.interface, Halves[i]))
      BY <1>1, <2>1
    <2> QED
      BY <1>1, <2>1, <2>2 DEF cmds, n
  <1>5. CASE mg = "linux" /\ i = n + 1
    <2>1. i + 1 = n + 2 /\ i + 1 # Len(cmds) /\ i >= 1
      BY <1>1, <1>5
    <2>2. cmds[i + 1] = Backup
      BY <1>1, <1>5, <2>1
    <2> QED
      BY <1>1, <1>5, <2>1, <2>2 DEF cmds, n
  <1>6. CASE i > n /\ ~(mg = "linux" /\ i = n + 1)
    <2>1. i + 1 = Len(cmds) /\ i >= 1
      BY <1>1, <1>2, <1>6
    <2>2. mg = "linux" => i >= n + 2
      BY <1>1, <1>6
    <2>3. cmds[i + 1] = Override
      BY <1>1, <2>1
    <2> QED
      BY <1>1, <2>1, <2>2, <2>3 DEF cmds, n
  <1>7. i = 0 \/ i \in 1 .. n \/ i > n
    BY <1>1
  <1> QED
    BY <1>3, <1>4, <1>5, <1>6, <1>7

(* The next command that reverts.                                          *)
LEMMA NextUndo ==
    ASSUME NEW mg, NEW p \in RoutePlan, NEW i \in Nat, i < Len(RevertCommands(mg, p))
    PROVE  LET cmds == RevertCommands(mg, p)
               n == Len(Halves)
           IN  /\ cmds[i + 1] \in Cmds(mg)
               /\ Len(cmds) \in Nat
               /\ (\E r \in Routes : cmds[i + 1] = Del(r)) \/ cmds[i + 1] \in {Restore, EmptyDns}
               /\ p.mode = "default" =>
                     /\ n \in Nat /\ Len(cmds) = n + 2
                     /\ i = n => cmds[i + 1] = Del(Pin(p.server))
                     /\ i = n + 1 => cmds[i + 1] = IF mg = "linux" THEN Restore ELSE EmptyDns
  <1> DEFINE cmds == RevertCommands(mg, p)
  <1> DEFINE n == Len(Halves)
  <1>1. /\ cmds \in Seq(Cmds(mg)) /\ Len(cmds) \in Nat
        /\ p.mode = "test" => \A k \in 1 .. Len(cmds) : \E r \in Routes : cmds[k] = Del(r)
        /\ p.mode = "default" =>
              /\ n \in Nat /\ DOMAIN Halves = 1 .. n
              /\ Len(cmds) = n + 2
              /\ \A k \in DOMAIN Halves : cmds[k] = Del(Into(p.interface, Halves[k]))
              /\ cmds[n + 1] = Del(Pin(p.server))
              /\ cmds[n + 2] = IF mg = "linux" THEN Restore ELSE EmptyDns
    BY RevertShape
  <1>2. i < Len(cmds)
    OBVIOUS
  <1> HIDE DEF cmds, n
  <1>3. i + 1 \in 1 .. Len(cmds)
    BY <1>1, <1>2
  <1>4. cmds[i + 1] \in Cmds(mg)
    BY <1>1, <1>3, ElementOfSeq
  <1>5. CASE p.mode = "test"
    <2>1. \E r \in Routes : cmds[i + 1] = Del(r)
      BY <1>1, <1>3, <1>5
    <2> QED
      BY <1>1, <1>4, <1>5, <2>1 DEF cmds, n
  <1>6. CASE p.mode = "default"
    <2>1. CASE i < n
      <3>1. i + 1 \in DOMAIN Halves /\ i # n /\ i # n + 1
        BY <1>1, <1>6, <2>1
      <3>2. cmds[i + 1] = Del(Into(p.interface, Halves[i + 1]))
        BY <1>1, <1>6, <3>1
      <3>3. Into(p.interface, Halves[i + 1]) \in Routes
        BY <1>6, <3>1, RoutesOf DEF Captured
      <3> QED
        BY <1>1, <1>4, <1>6, <3>1, <3>2, <3>3 DEF cmds, n
    <2>2. CASE i = n
      <3>1. cmds[i + 1] = Del(Pin(p.server)) /\ i # n + 1
        BY <1>1, <1>6, <2>2
      <3> QED
        BY <1>1, <1>4, <1>6, <2>2, <3>1, RoutesOf DEF cmds, n
    <2>3. CASE i = n + 1
      <3>1. cmds[i + 1] = IF mg = "linux" THEN Restore ELSE EmptyDns
        <4>1. i + 1 = n + 2
          BY <1>1, <1>6, <2>3
        <4> QED
          BY <1>1, <1>6, <4>1
      <3>2. i # n /\ cmds[i + 1] \in {Restore, EmptyDns}
        BY <1>1, <1>6, <2>3, <3>1
      <3> QED
        BY <1>1, <1>4, <1>6, <2>3, <3>1, <3>2 DEF cmds, n
    <2> QED
      BY <1>1, <1>2, <1>6, <2>1, <2>2, <2>3
  <1>7. p.mode \in {"test", "default"}
    BY DEF RoutePlan, RouteMode
  <1> QED
    BY <1>5, <1>6, <1>7

----------------------------------------------------------------------------
(* The machine.                                                            *)

(* A route leads through the gateway or into a device.                     *)
LEMMA Ways ==
    ASSUME NEW r \in Routes
    PROVE  /\ "gateway" \notin Interfaces /\ r.via \in Interfaces \cup {"gateway"}
           /\ r.via = "gateway" => \E s \in Servers : r = Pin(s)
  <1>1. "gateway" \notin Interfaces
    BY RouteTableAssumption
  <1> QED
    BY <1>1 DEF Routes, Pin, Into

(* Which way, and where to, the two kinds of route lead.                   *)
LEMMA Leads ==
    ASSUME NEW i, NEW x
    PROVE  Pin(x).via = "gateway" /\ Pin(x).to = x /\ Into(i, x).via = i /\ Into(i, x).to = x
  BY DEF Pin, Into

(* What a network provides is not liostunnel's, or a name of the model.    *)
LEMMA OwnNames ==
    /\ TunnelDns \notin Lans /\ Automatic \notin Lans /\ NoBackup \notin Lans
    /\ TunnelDns # Automatic /\ TunnelDns # NoBackup /\ Automatic # NoBackup
  <1>1. Lans \cap {TunnelDns, Automatic, NoBackup} = {}
    BY RouteTableAssumption
  <1> QED
    BY <1>1 DEF TunnelDns, Automatic, NoBackup

(* What each command needs, and does.                                      *)
LEMMA Effects ==
    ASSUME NEW n \in Net
    PROVE  /\ \A r : /\ CanRun(Add(r), n) <=> /\ \A x \in n.routes : x.to # r.to
                                              /\ r.via \in n.devices \cup {"gateway"}
                     /\ Ran(Add(r), n) = [n EXCEPT !.routes = n.routes \cup {r}]
           /\ \A r : /\ CanRun(Del(r), n) <=> r \in n.routes
                     /\ Ran(Del(r), n) = [n EXCEPT !.routes = n.routes \ {r}]
           /\ CanRun(Backup, n) /\ Ran(Backup, n) = [n EXCEPT !.backup = n.resolv]
           /\ CanRun(Override, n) /\ Ran(Override, n) = [n EXCEPT !.resolv = TunnelDns]
           /\ CanRun(Restore, n) <=> n.backup # NoBackup
           /\ Ran(Restore, n) = [n EXCEPT !.resolv = n.backup]
           /\ CanRun(EmptyDns, n) /\ Ran(EmptyDns, n) = [n EXCEPT !.resolv = Automatic]
  <1>1. ASSUME NEW r
        PROVE  /\ CanRun(Add(r), n) <=> /\ \A x \in n.routes : x.to # r.to
                                        /\ r.via \in n.devices \cup {"gateway"}
               /\ Ran(Add(r), n) = [n EXCEPT !.routes = n.routes \cup {r}]
    BY DEF Add, CanRun, Ran
  <1>2. ASSUME NEW r
        PROVE  /\ CanRun(Del(r), n) <=> r \in n.routes
               /\ Ran(Del(r), n) = [n EXCEPT !.routes = n.routes \ {r}]
    BY DEF Del, CanRun, Ran
  <1>3. CanRun(Backup, n) /\ Ran(Backup, n) = [n EXCEPT !.backup = n.resolv]
    BY DEF Backup, CanRun, Ran
  <1>4. CanRun(Override, n) /\ Ran(Override, n) = [n EXCEPT !.resolv = TunnelDns]
    BY DEF Override, CanRun, Ran
  <1>5. (CanRun(Restore, n) <=> n.backup # NoBackup)
        /\ Ran(Restore, n) = [n EXCEPT !.resolv = n.backup]
    BY DEF Restore, CanRun, Ran
  <1>6. CanRun(EmptyDns, n) /\ Ran(EmptyDns, n) = [n EXCEPT !.resolv = Automatic]
    BY DEF EmptyDns, CanRun, Ran
  <1> QED
    BY <1>1, <1>2, <1>3, <1>4, <1>5, <1>6

(* A machine with one of its fields changed.                               *)
LEMMA Changed ==
    ASSUME NEW n \in Net
    PROVE  /\ \A R \in SUBSET Routes :
                 LET m == [n EXCEPT !.routes = R]
                 IN  /\ m \in Net /\ m.routes = R
                     /\ m.devices = n.devices /\ m.resolv = n.resolv /\ m.backup = n.backup
           /\ \A x \in Lans \cup {TunnelDns, Automatic} :
                 LET m == [n EXCEPT !.resolv = x]
                 IN  /\ m \in Net /\ m.resolv = x
                     /\ m.devices = n.devices /\ m.routes = n.routes /\ m.backup = n.backup
           /\ \A x \in Lans \cup {TunnelDns, NoBackup} :
                 LET m == [n EXCEPT !.backup = x]
                 IN  /\ m \in Net /\ m.backup = x
                     /\ m.devices = n.devices /\ m.routes = n.routes /\ m.resolv = n.resolv
           /\ n.routes \in SUBSET Routes /\ n.devices \in SUBSET Interfaces
           /\ n.resolv \in Lans \cup {TunnelDns, Automatic}
           /\ n.backup \in Lans \cup {TunnelDns, NoBackup}
  BY DEF Net

(* Whatever command runs, the machine keeps its shape.                     *)
LEMMA RanTyped ==
    ASSUME NEW mg, NEW n, Sound(mg, n), NEW cmd \in Cmds(mg), CanRun(cmd, n)
    PROVE  Sound(mg, Ran(cmd, n))
  <1>0. n \in Net /\ (mg = "linux" => n.resolv # Automatic)
    BY DEF Sound
  <1>1. ASSUME NEW r \in Routes, cmd = Add(r) PROVE Sound(mg, Ran(cmd, n))
    <2> DEFINE m == [n EXCEPT !.routes = n.routes \cup {r}]
    <2>1. n.routes \cup {r} \in SUBSET Routes
      BY <1>0, Changed
    <2>2. Ran(cmd, n) = m
      BY <1>0, <1>1, Effects
    <2>3. m \in Net /\ m.resolv = n.resolv
      BY <1>0, <2>1, Changed
    <2> HIDE DEF m
    <2> QED
      BY <1>0, <2>2, <2>3 DEF Sound
  <1>2. ASSUME NEW r \in Routes, cmd = Del(r) PROVE Sound(mg, Ran(cmd, n))
    <2> DEFINE m == [n EXCEPT !.routes = n.routes \ {r}]
    <2>1. n.routes \ {r} \in SUBSET Routes
      BY <1>0, Changed
    <2>2. Ran(cmd, n) = m
      BY <1>0, <1>2, Effects
    <2>3. m \in Net /\ m.resolv = n.resolv
      BY <1>0, <2>1, Changed
    <2> HIDE DEF m
    <2> QED
      BY <1>0, <2>2, <2>3 DEF Sound
  <1>3. CASE cmd = Override
    <2> DEFINE m == [n EXCEPT !.resolv = TunnelDns]
    <2>1. TunnelDns \in Lans \cup {TunnelDns, Automatic}
      BY OwnNames
    <2>2. Ran(cmd, n) = m
      BY <1>0, <1>3, Effects
    <2>3. m \in Net /\ m.resolv = TunnelDns
      BY <1>0, <2>1, Changed
    <2> HIDE DEF m
    <2> QED
      BY <1>0, OwnNames, <2>2, <2>3 DEF Sound
  <1>4. CASE mg = "linux" /\ cmd = Backup
    <2> DEFINE m == [n EXCEPT !.backup = n.resolv]
    <2>1. n.resolv \in Lans \cup {TunnelDns, NoBackup}
      BY <1>0, <1>4, Changed
    <2>2. Ran(cmd, n) = m
      BY <1>0, <1>4, Effects
    <2>3. m \in Net /\ m.resolv = n.resolv
      BY <1>0, <2>1, Changed
    <2> HIDE DEF m
    <2> QED
      BY <1>0, <2>2, <2>3 DEF Sound
  <1>5. CASE mg = "linux" /\ cmd = Restore
    <2> DEFINE m == [n EXCEPT !.resolv = n.backup]
    <2>1. n.backup \in Lans \cup {TunnelDns, Automatic} /\ n.backup # Automatic
      BY <1>0, <1>5, Changed, Effects, OwnNames
    <2>2. Ran(cmd, n) = m
      BY <1>0, <1>5, Effects
    <2>3. m \in Net /\ m.resolv = n.backup
      BY <1>0, <2>1, Changed
    <2> HIDE DEF m
    <2> QED
      BY <1>0, <2>1, <2>2, <2>3 DEF Sound
  <1>6. CASE mg # "linux" /\ cmd = EmptyDns
    <2> DEFINE m == [n EXCEPT !.resolv = Automatic]
    <2>1. Automatic \in Lans \cup {TunnelDns, Automatic}
      BY OwnNames
    <2>2. Ran(cmd, n) = m
      BY <1>0, <1>6, Effects
    <2>3. m \in Net /\ m.resolv = Automatic
      BY <1>0, <2>1, Changed
    <2> HIDE DEF m
    <2> QED
      BY <1>0, <1>6, <2>2, <2>3 DEF Sound
  <1> QED
    BY <1>1, <1>2, <1>3, <1>4, <1>5, <1>6 DEF Cmds

(* A device goes, and with it the routes into it.                          *)
LEMMA DeviceGone ==
    ASSUME NEW mg, NEW n, Sound(mg, n), NEW i \in Interfaces
    PROVE  LET m == WithoutDevice(n, i)
           IN  /\ Sound(mg, m) /\ m.devices = n.devices \ {i}
               /\ m.routes = {r \in n.routes : r.via # i} /\ Pins(m) = Pins(n)
               /\ m.resolv = n.resolv /\ m.backup = n.backup
  <1> DEFINE R == {r \in n.routes : r.via # i}
  <1> DEFINE m == WithoutDevice(n, i)
  <1>1. n \in Net /\ R \in SUBSET Routes /\ n.devices \ {i} \in SUBSET Interfaces
    BY Changed DEF Sound
  <1>2. /\ m = [n EXCEPT !.devices = n.devices \ {i}, !.routes = R]
        /\ m.devices = n.devices \ {i} /\ m.routes = R
        /\ m.resolv = n.resolv /\ m.backup = n.backup
    BY <1>1 DEF WithoutDevice, Net
  <1>3. m \in Net
    BY <1>1, <1>2 DEF Net
  <1>4. Pins(m) = Pins(n)
    <2>1. "gateway" # i
      BY RouteTableAssumption
    <2> HIDE DEF m
    <2> QED
      BY <1>2, <2>1 DEF Pins
  <1> HIDE DEF m
  <1> QED
    BY <1>2, <1>3, <1>4 DEF m, Sound

(* A device comes.                                                         *)
LEMMA DeviceThere ==
    ASSUME NEW mg, NEW n, Sound(mg, n), NEW i \in Interfaces
    PROVE  LET m == WithDevice(n, i)
           IN  /\ Sound(mg, m) /\ m.devices = n.devices \cup {i} /\ m.routes = n.routes
               /\ m.resolv = n.resolv /\ m.backup = n.backup
  <1>1. n \in Net /\ n.devices \cup {i} \in SUBSET Interfaces
    BY Changed DEF Sound
  <1> QED
    BY <1>1 DEF WithDevice, Net, Sound

(* Of a test plan the commands touch nothing that outlives the device.     *)
LEMMA TestCommand ==
    ASSUME NEW mg, NEW p \in RoutePlan, p.mode = "test", NEW i \in Nat,
           i < Len(ApplyCommands(mg, p)), NEW n \in Net
    PROVE  LET m == Ran(ApplyCommands(mg, p)[i + 1], n)
           IN  /\ Pins(m) = Pins(n) /\ m.resolv = n.resolv /\ m.backup = n.backup
  <1> DEFINE cmds == ApplyCommands(mg, p)
  <1>1. Len(cmds) \in Nat /\ i + 1 \in 1 .. Len(cmds)
    BY ApplyShape
  <1>2. PICK r \in Routes : cmds[i + 1] = Add(r) /\ r.via = p.interface
    BY <1>1, ApplyShape
  <1> DEFINE R == n.routes \cup {r}
  <1> DEFINE m == [n EXCEPT !.routes = R]
  <1>3. Ran(cmds[i + 1], n) = m
    BY <1>2, Effects
  <1>4. R \in SUBSET Routes
    BY Changed
  <1>5. m.routes = R /\ m.resolv = n.resolv /\ m.backup = n.backup
    BY <1>4, Changed
  <1> HIDE DEF m
  <1>6. r.via # "gateway"
    BY <1>2, RoutesOf, Leads, Ways
  <1>7. Pins(m) = Pins(n)
    BY <1>5, <1>6 DEF Pins
  <1> QED
    BY <1>3, <1>5, <1>7

(* Whether it runs or not, a command of revert takes pins away only, and   *)
(* puts no resolver of liostunnel's into force.                            *)
LEMMA Undone ==
    ASSUME NEW n \in Net, n.backup # TunnelDns, NEW cmd,
           (\E r \in Routes : cmd = Del(r)) \/ cmd \in {Restore, EmptyDns}
    PROVE  CanRun(cmd, n) =>
              /\ Pins(Ran(cmd, n)) \subseteq Pins(n) /\ Ran(cmd, n).backup = n.backup
              /\ Ran(cmd, n).resolv = TunnelDns => n.resolv = TunnelDns
              /\ cmd \in {Restore, EmptyDns} => Ran(cmd, n).resolv # TunnelDns
              /\ \A s : cmd = Del(Pin(s)) => Pin(s) \notin Pins(Ran(cmd, n))
  <1>1. ASSUME NEW r \in Routes, cmd = Del(r)
        PROVE  /\ Pins(Ran(cmd, n)) \subseteq Pins(n) /\ Ran(cmd, n).backup = n.backup
               /\ Ran(cmd, n).resolv = TunnelDns => n.resolv = TunnelDns
               /\ cmd \notin {Restore, EmptyDns}
               /\ \A s : cmd = Del(Pin(s)) => Pin(s) \notin Pins(Ran(cmd, n))
    <2> DEFINE R == n.routes \ {r}
    <2> DEFINE m == [n EXCEPT !.routes = R]
    <2>1. Ran(cmd, n) = m
      BY <1>1, Effects
    <2>2. R \in SUBSET Routes
      BY Changed
    <2>3. m.routes = R /\ m.resolv = n.resolv /\ m.backup = n.backup
      BY <2>2, Changed
    <2> HIDE DEF m
    <2>4. Pins(m) \subseteq Pins(n)
      BY <2>3 DEF Pins
    <2>5. cmd \notin {Restore, EmptyDns}
      BY <1>1 DEF Del, Restore, EmptyDns
    <2>6. \A s : cmd = Del(Pin(s)) => Pin(s) = r
      BY <1>1 DEF Del
    <2>7. r \notin Pins(m)
      BY <2>3 DEF Pins
    <2> QED
      BY <2>1, <2>3, <2>4, <2>5, <2>6, <2>7
  <1>2. ASSUME cmd = Restore, CanRun(cmd, n)
        PROVE  /\ Pins(Ran(cmd, n)) = Pins(n) /\ Ran(cmd, n).backup = n.backup
               /\ Ran(cmd, n).resolv # TunnelDns
    <2> DEFINE m == [n EXCEPT !.resolv = n.backup]
    <2>1. Ran(cmd, n) = m
      BY <1>2, Effects
    <2>2. m.routes = n.routes /\ m.resolv = n.backup /\ m.backup = n.backup
      BY DEF Net
    <2> HIDE DEF m
    <2> QED
      BY <2>1, <2>2 DEF Pins
  <1>3. ASSUME cmd = EmptyDns
        PROVE  /\ Pins(Ran(cmd, n)) = Pins(n) /\ Ran(cmd, n).backup = n.backup
               /\ Ran(cmd, n).resolv # TunnelDns
    <2> DEFINE m == [n EXCEPT !.resolv = Automatic]
    <2>1. Ran(cmd, n) = m
      BY <1>3, Effects
    <2>2. m.routes = n.routes /\ m.resolv = Automatic /\ m.backup = n.backup
      BY DEF Net
    <2> HIDE DEF m
    <2> QED
      BY <2>1, <2>2, OwnNames DEF Pins
  <1>4. \A s : Del(Pin(s)) \notin {Restore, EmptyDns}
    BY DEF Del, Restore, EmptyDns
  <1> QED
    BY <1>1, <1>2, <1>3, <1>4

----------------------------------------------------------------------------
(* Lists of commands by what they hold.                                    *)

(* c is in t at its end only, or at two places.                            *)
OnlyLast(c, t) == \A j \in DOMAIN t : t[j] = c => j = Len(t)
Twice(c, t) == \E j, k \in DOMAIN t : j # k /\ t[j] = c /\ t[k] = c

(* A list loses its first command.                                         *)
LEMMA HeadGoes ==
    ASSUME NEW S, NEW t \in Seq(S), t # <<>>
    PROVE  /\ Tail(t) \in Seq(S) /\ Head(t) \in Range(t) /\ Head(t) \in S
           /\ Len(t) \in Nat /\ Len(t) >= 1 /\ Len(Tail(t)) = Len(t) - 1
           /\ DOMAIN t = 1 .. Len(t) /\ DOMAIN Tail(t) = 1 .. Len(t) - 1
           /\ Head(t) = t[1] /\ \A j \in DOMAIN Tail(t) : Tail(t)[j] = t[j + 1]
           /\ Tail(t) = <<>> <=> Len(t) = 1
  <1>1. Tail(t) \in Seq(S) /\ Len(Tail(t)) = Len(t) - 1 /\ Head(t) \in S
        /\ \A j \in 1 .. Len(Tail(t)) : Tail(t)[j] = t[j + 1]
    BY HeadTailProperties
  <1>2. Len(t) \in Nat /\ Len(t) >= 1 /\ DOMAIN t = 1 .. Len(t)
    BY EmptySeq, LenProperties
  <1>3. DOMAIN Tail(t) = 1 .. Len(t) - 1
    BY <1>1, LenProperties
  <1>4. Head(t) = t[1]
    OBVIOUS
  <1>5. Head(t) \in Range(t)
    BY <1>2, <1>4 DEF Range
  <1>6. Tail(t) = <<>> <=> Len(t) = 1
    BY <1>1, <1>2, EmptySeq
  <1> QED
    BY <1>1, <1>2, <1>3, <1>4, <1>5, <1>6

(* What it holds is its first command and what is left of it.              *)
LEMMA RangeOfTail ==
    ASSUME NEW S, NEW t \in Seq(S), t # <<>>
    PROVE  Range(t) = {Head(t)} \cup Range(Tail(t))
  <1>1. /\ Len(t) \in Nat /\ Len(t) >= 1 /\ DOMAIN t = 1 .. Len(t)
        /\ DOMAIN Tail(t) = 1 .. Len(t) - 1
        /\ Head(t) = t[1] /\ \A j \in DOMAIN Tail(t) : Tail(t)[j] = t[j + 1]
    BY HeadGoes
  <1>2. ASSUME NEW j \in DOMAIN t PROVE t[j] \in {Head(t)} \cup Range(Tail(t))
    <2>1. CASE j = 1
      BY <1>1, <2>1
    <2>2. CASE j # 1
      <3> DEFINE i == j - 1
      <3>1. i \in DOMAIN Tail(t) /\ i + 1 = j
        BY <1>1, <2>2
      <3> HIDE DEF i
      <3>2. Tail(t)[i] = t[j]
        BY <1>1, <3>1
      <3> QED
        BY <3>1, <3>2 DEF Range
    <2> QED
      BY <2>1, <2>2
  <1>3. ASSUME NEW j \in DOMAIN Tail(t) PROVE Tail(t)[j] \in Range(t)
    <2> DEFINE i == j + 1
    <2>1. i \in DOMAIN t /\ Tail(t)[j] = t[i]
      BY <1>1
    <2> HIDE DEF i
    <2> QED
      BY <2>1 DEF Range
  <1>4. Head(t) \in Range(t)
    BY HeadGoes
  <1> QED
    BY <1>2, <1>3, <1>4 DEF Range

(* A list without repetition stays so, and has its first command no more.  *)
LEMMA TailInjective ==
    ASSUME NEW S, NEW t \in Seq(S), t # <<>>, IsInjective(t)
    PROVE  IsInjective(Tail(t)) /\ Head(t) \notin Range(Tail(t))
  <1>1. /\ Len(t) \in Nat /\ Len(t) >= 1 /\ DOMAIN t = 1 .. Len(t)
        /\ DOMAIN Tail(t) = 1 .. Len(t) - 1
        /\ Head(t) = t[1] /\ \A j \in DOMAIN Tail(t) : Tail(t)[j] = t[j + 1]
    BY HeadGoes
  <1>2. \A j, k \in DOMAIN t : t[j] = t[k] => j = k
    BY DEF IsInjective
  <1>3. \A j \in DOMAIN Tail(t) : j + 1 \in DOMAIN t /\ j \in Int /\ j + 1 # 1
    BY <1>1
  <1>4. 1 \in DOMAIN t
    BY <1>1
  <1>5. ASSUME NEW j \in DOMAIN Tail(t), NEW k \in DOMAIN Tail(t), Tail(t)[j] = Tail(t)[k]
        PROVE  j = k
    <2>1. j + 1 = k + 1
      BY <1>1, <1>2, <1>3, <1>5
    <2> QED
      BY <1>3, <2>1
  <1>6. ASSUME NEW j \in DOMAIN Tail(t) PROVE Tail(t)[j] # Head(t)
    BY <1>1, <1>2, <1>3, <1>4
  <1> QED
    BY <1>5, <1>6 DEF IsInjective, Range

(* What is at the end only stays there, or was all there was.              *)
LEMMA TailOnlyLast ==
    ASSUME NEW S, NEW t \in Seq(S), t # <<>>, NEW c, OnlyLast(c, t)
    PROVE  OnlyLast(c, Tail(t)) /\ (Head(t) = c => Tail(t) = <<>>)
  <1>1. /\ Len(t) \in Nat /\ Len(t) >= 1 /\ DOMAIN t = 1 .. Len(t)
        /\ DOMAIN Tail(t) = 1 .. Len(t) - 1 /\ Len(Tail(t)) = Len(t) - 1
        /\ Head(t) = t[1] /\ \A j \in DOMAIN Tail(t) : Tail(t)[j] = t[j + 1]
        /\ Tail(t) = <<>> <=> Len(t) = 1
    BY HeadGoes
  <1>2. \A j \in DOMAIN Tail(t) : j + 1 \in DOMAIN t /\ j \in Int
    BY <1>1
  <1>3. ASSUME NEW j \in DOMAIN Tail(t), Tail(t)[j] = c PROVE j = Len(Tail(t))
    <2>1. j + 1 = Len(t)
      BY <1>1, <1>2, <1>3 DEF OnlyLast
    <2> QED
      BY <1>1, <1>2, <2>1
  <1>4. ASSUME Head(t) = c PROVE Tail(t) = <<>>
    <2>1. 1 \in DOMAIN t
      BY <1>1
    <2>2. 1 = Len(t)
      BY <1>1, <1>4, <2>1 DEF OnlyLast
    <2> QED
      BY <1>1, <2>2
  <1> QED
    BY <1>3, <1>4 DEF OnlyLast

(* What a list holds twice it still holds without its first command.       *)
LEMMA TailTwice ==
    ASSUME NEW S, NEW t \in Seq(S), t # <<>>, NEW c, Twice(c, t)
    PROVE  c \in Range(Tail(t)) /\ (Head(t) # c => Twice(c, Tail(t)))
  <1>1. /\ Len(t) \in Nat /\ Len(t) >= 1 /\ DOMAIN t = 1 .. Len(t)
        /\ DOMAIN Tail(t) = 1 .. Len(t) - 1
        /\ Head(t) = t[1] /\ \A j \in DOMAIN Tail(t) : Tail(t)[j] = t[j + 1]
    BY HeadGoes
  <1>2. PICK j, k \in DOMAIN t : j # k /\ t[j] = c /\ t[k] = c
    BY DEF Twice
  <1>3. \A x \in DOMAIN t : x # 1 => /\ x - 1 \in DOMAIN Tail(t) /\ (x - 1) + 1 = x
    BY <1>1
  <1>4. \A x \in DOMAIN t : x # 1 => Tail(t)[x - 1] = t[x]
    BY <1>1, <1>3
  <1>5. c \in Range(Tail(t))
    <2>1. PICK x \in {j, k} : x # 1
      BY <1>2
    <2> DEFINE y == x - 1
    <2>2. y \in DOMAIN Tail(t) /\ Tail(t)[y] = c
      BY <1>2, <1>3, <1>4, <2>1
    <2> HIDE DEF y
    <2> QED
      BY <2>2 DEF Range
  <1>6. ASSUME Head(t) # c PROVE Twice(c, Tail(t))
    <2>1. j # 1 /\ k # 1
      BY <1>1, <1>2, <1>6
    <2> DEFINE a == j - 1
    <2> DEFINE b == k - 1
    <2>2. /\ a \in DOMAIN Tail(t) /\ b \in DOMAIN Tail(t)
          /\ Tail(t)[a] = c /\ Tail(t)[b] = c
      BY <1>2, <1>3, <1>4, <2>1
    <2>3. a # b
      BY <1>1, <1>2
    <2> HIDE DEF a, b
    <2> QED
      BY <2>2, <2>3 DEF Twice
  <1> QED
    BY <1>5, <1>6

(* One list after another.                                                 *)
LEMMA Joined ==
    ASSUME NEW S, NEW s \in Seq(S), NEW t \in Seq(S)
    PROVE  /\ s \o t \in Seq(S)
           /\ Len(s) \in Nat /\ Len(t) \in Nat /\ Len(s \o t) = Len(s) + Len(t)
           /\ DOMAIN s = 1 .. Len(s) /\ DOMAIN t = 1 .. Len(t)
           /\ DOMAIN (s \o t) = 1 .. Len(s) + Len(t)
           /\ \A j \in DOMAIN s : j \in DOMAIN (s \o t) /\ (s \o t)[j] = s[j]
           /\ \A j \in DOMAIN t : j + Len(s) \in DOMAIN (s \o t) /\ (s \o t)[j + Len(s)] = t[j]
           /\ \A j \in DOMAIN (s \o t) :
                 j \in DOMAIN s \/ (j \notin DOMAIN s /\ \E k \in DOMAIN t : j = k + Len(s))
  <1> DEFINE st == s \o t
  <1>1. /\ st \in Seq(S) /\ Len(st) = Len(s) + Len(t)
        /\ \A i \in 1 .. Len(s) + Len(t) : st[i] = IF i <= Len(s) THEN s[i] ELSE t[i - Len(s)]
    BY ConcatProperties
  <1> HIDE DEF st
  <1>2. /\ Len(s) \in Nat /\ Len(t) \in Nat
        /\ DOMAIN s = 1 .. Len(s) /\ DOMAIN t = 1 .. Len(t)
        /\ DOMAIN st = 1 .. Len(s) + Len(t)
    BY <1>1, LenProperties
  <1>3. ASSUME NEW j \in DOMAIN s PROVE j \in DOMAIN st /\ st[j] = s[j]
    <2>1. j \in 1 .. Len(s) + Len(t) /\ j <= Len(s)
      BY <1>2
    <2> QED
      BY <1>1, <1>2, <2>1
  <1>4. ASSUME NEW j \in DOMAIN t PROVE j + Len(s) \in DOMAIN st /\ st[j + Len(s)] = t[j]
    <2> DEFINE i == j + Len(s)
    <2>1. i \in 1 .. Len(s) + Len(t) /\ ~(i <= Len(s)) /\ i - Len(s) = j
      BY <1>2
    <2> HIDE DEF i
    <2>2. i \in DOMAIN st /\ st[i] = t[j]
      BY <1>1, <1>2, <2>1
    <2> QED
      BY <2>2 DEF i
  <1>5. ASSUME NEW j \in DOMAIN st, j \notin DOMAIN s PROVE \E k \in DOMAIN t : j = k + Len(s)
    <2> DEFINE k == j - Len(s)
    <2>1. k \in DOMAIN t /\ j = k + Len(s)
      BY <1>2, <1>5
    <2> HIDE DEF k
    <2> QED
      BY <2>1
  <1> QED
    BY <1>1, <1>2, <1>3, <1>4, <1>5 DEF st

(* It holds what the two hold.                                             *)
LEMMA RangeOfJoined ==
    ASSUME NEW S, NEW s \in Seq(S), NEW t \in Seq(S)
    PROVE  Range(s \o t) = Range(s) \cup Range(t)
  <1> DEFINE st == s \o t
  <1> DEFINE n == Len(s)
  <1>1. /\ \A j \in DOMAIN s : j \in DOMAIN st /\ st[j] = s[j]
        /\ \A j \in DOMAIN t : j + n \in DOMAIN st /\ st[j + n] = t[j]
        /\ \A j \in DOMAIN st : j \in DOMAIN s \/ \E k \in DOMAIN t : j = k + n
    BY Joined
  <1> HIDE DEF st, n
  <1>2. ASSUME NEW j \in DOMAIN st PROVE st[j] \in Range(s) \cup Range(t)
    <2>1. CASE j \in DOMAIN s
      BY <1>1, <2>1 DEF Range
    <2>2. ASSUME NEW k \in DOMAIN t, j = k + n PROVE st[j] \in Range(t)
      <3>1. st[j] = t[k]
        BY <1>1, <2>2
      <3> QED
        BY <3>1 DEF Range
    <2> QED
      BY <1>1, <2>1, <2>2
  <1>3. ASSUME NEW j \in DOMAIN s PROVE s[j] \in Range(st)
    BY <1>1 DEF Range
  <1>4. ASSUME NEW j \in DOMAIN t PROVE t[j] \in Range(st)
    <2>1. j + n \in DOMAIN st /\ st[j + n] = t[j]
      BY <1>1
    <2> QED
      BY <2>1 DEF Range
  <1>5. Range(st) = Range(s) \cup Range(t)
    BY <1>2, <1>3, <1>4 DEF Range
  <1> QED
    BY <1>5 DEF st

(* Two lists that share nothing, and repeat nothing, repeat nothing.       *)
LEMMA JoinedInjective ==
    ASSUME NEW S, NEW s \in Seq(S), NEW t \in Seq(S), IsInjective(s), IsInjective(t),
           Range(s) \cap Range(t) = {}
    PROVE  IsInjective(s \o t)
  <1> DEFINE st == s \o t
  <1> DEFINE n == Len(s)
  <1>1. /\ n \in Nat /\ DOMAIN t = 1 .. Len(t)
        /\ \A j \in DOMAIN s : st[j] = s[j]
        /\ \A j \in DOMAIN t : st[j + n] = t[j]
        /\ \A j \in DOMAIN st : j \in DOMAIN s \/ \E k \in DOMAIN t : j = k + n
    BY Joined
  <1>2. /\ \A j, k \in DOMAIN s : s[j] = s[k] => j = k
        /\ \A j, k \in DOMAIN t : t[j] = t[k] => j = k
        /\ \A j \in DOMAIN s, k \in DOMAIN t : s[j] # t[k]
    BY DEF IsInjective, Range
  <1> HIDE DEF st, n
  <1>3. ASSUME NEW i \in DOMAIN st, NEW j \in DOMAIN st, st[i] = st[j] PROVE i = j
    <2>1. CASE i \in DOMAIN s /\ j \in DOMAIN s
      BY <1>1, <1>2, <1>3, <2>1
    <2>2. CASE i \in DOMAIN s /\ j \notin DOMAIN s
      <3>1. PICK k \in DOMAIN t : j = k + n
        BY <1>1, <2>2
      <3> QED
        BY <1>1, <1>2, <1>3, <2>2, <3>1
    <2>3. CASE i \notin DOMAIN s /\ j \in DOMAIN s
      <3>1. PICK k \in DOMAIN t : i = k + n
        BY <1>1, <2>3
      <3> QED
        BY <1>1, <1>2, <1>3, <2>3, <3>1
    <2>4. CASE i \notin DOMAIN s /\ j \notin DOMAIN s
      <3>1. PICK k \in DOMAIN t : i = k + n
        BY <1>1, <2>4
      <3>2. PICK l \in DOMAIN t : j = l + n
        BY <1>1, <2>4
      <3>3. t[k] = t[l]
        BY <1>1, <1>3, <3>1, <3>2
      <3> QED
        BY <1>2, <3>1, <3>2, <3>3
    <2> QED
      BY <2>1, <2>2, <2>3, <2>4
  <1> QED
    BY <1>3 DEF IsInjective, st

(* What the first list has not, and the second at its end, is at the end.  *)
LEMMA JoinedOnlyLast ==
    ASSUME NEW S, NEW s \in Seq(S), NEW t \in Seq(S), NEW c, OnlyLast(c, t), c \notin Range(s)
    PROVE  OnlyLast(c, s \o t)
  <1> DEFINE st == s \o t
  <1> DEFINE n == Len(s)
  <1>1. /\ n \in Nat /\ DOMAIN t = 1 .. Len(t) /\ Len(t) \in Nat /\ Len(st) = n + Len(t)
        /\ \A j \in DOMAIN s : st[j] = s[j]
        /\ \A j \in DOMAIN t : st[j + n] = t[j]
        /\ \A j \in DOMAIN st : j \in DOMAIN s \/ \E k \in DOMAIN t : j = k + n
    BY Joined
  <1> HIDE DEF st, n
  <1>2. ASSUME NEW j \in DOMAIN st, st[j] = c PROVE j = Len(st)
    <2>1. j \notin DOMAIN s
      BY <1>1, <1>2 DEF Range
    <2>2. PICK k \in DOMAIN t : j = k + n
      BY <1>1, <2>1
    <2>3. t[k] = c
      BY <1>1, <1>2, <2>2
    <2>4. k = Len(t)
      BY <2>3 DEF OnlyLast
    <2> QED
      BY <1>1, <2>2, <2>4
  <1> QED
    BY <1>2 DEF OnlyLast, st

(* What one list holds twice both hold.                                    *)
LEMMA JoinedTwice ==
    ASSUME NEW S, NEW s \in Seq(S), NEW t \in Seq(S), NEW c, Twice(c, s) \/ Twice(c, t)
    PROVE  Twice(c, s \o t)
  <1> DEFINE st == s \o t
  <1> DEFINE n == Len(s)
  <1>1. /\ n \in Nat /\ DOMAIN t = 1 .. Len(t)
        /\ \A j \in DOMAIN s : j \in DOMAIN st /\ st[j] = s[j]
        /\ \A j \in DOMAIN t : j + n \in DOMAIN st /\ st[j + n] = t[j]
    BY Joined
  <1> HIDE DEF st, n
  <1>2. CASE Twice(c, s)
    BY <1>1, <1>2 DEF Twice, st
  <1>3. CASE Twice(c, t)
    <2>1. PICK j, k \in DOMAIN t : j # k /\ t[j] = c /\ t[k] = c
      BY <1>3 DEF Twice
    <2> DEFINE a == j + n
    <2> DEFINE b == k + n
    <2>2. a \in DOMAIN st /\ b \in DOMAIN st /\ st[a] = c /\ st[b] = c /\ a # b
      BY <1>1, <2>1
    <2> HIDE DEF a, b
    <2> QED
      BY <2>2 DEF Twice, st
  <1> QED
    BY <1>2, <1>3

----------------------------------------------------------------------------
(* The lists of a plan by what they hold.                                  *)

(* What a plan puts on the machine, and what of it outlives the device.    *)
Outlives(p) == IF p.mode = "default" THEN {Pin(p.server)} ELSE {}
Laid(p) == {Into(p.interface, Captured(p)[k]) : k \in DOMAIN Captured(p)} \cup Outlives(p)

Resets(mg) == IF mg = "linux" THEN Restore ELSE EmptyDns
ToApply(mg, p) == {Add(x) : x \in Laid(p)}
                  \cup (IF p.mode = "test" THEN {}
                        ELSE {Override} \cup (IF mg = "linux" THEN {Backup} ELSE {}))
ToRevert(mg, p) == {Del(x) : x \in Laid(p)}
                   \cup (IF p.mode = "test" THEN {} ELSE {Resets(mg)})

(* The routes of a plan are routes, each to a prefix of its own.           *)
LEMMA LaidRoutes ==
    ASSUME NEW p \in RoutePlan
    PROVE  /\ Laid(p) \subseteq Routes
           /\ \A x \in Laid(p) : x.via = p.interface \/ x \in Outlives(p)
           /\ \A x \in Outlives(p) : x.via = "gateway"
           /\ \A x, y \in Laid(p) : x.to = y.to => x = y
  <1>1. /\ p.server \in Servers /\ Pin(p.server) \in Routes
        /\ \A k \in DOMAIN Captured(p) : Into(p.interface, Captured(p)[k]) \in Routes
    BY RoutesOf
  <1>2. \A x \in Laid(p) : \/ x \in Outlives(p)
                           \/ \E k \in DOMAIN Captured(p) : x = Into(p.interface, Captured(p)[k])
    BY DEF Laid
  <1>3. \A x \in Outlives(p) : x = Pin(p.server) /\ p.mode = "default"
    BY DEF Outlives
  <1>4. Laid(p) \subseteq Routes
    BY <1>1, <1>2, <1>3
  <1>5. \A x \in Outlives(p) : x.via = "gateway" /\ x.to = p.server
    BY <1>3, Leads
  <1>6. \A k \in DOMAIN Captured(p) : LET x == Into(p.interface, Captured(p)[k])
                                      IN  x.via = p.interface /\ x.to = Captured(p)[k]
    BY Leads
  <1>7. \A k \in DOMAIN Captured(p) : p.mode = "default" => Captured(p)[k] # p.server
    <2>1. \A k \in DOMAIN Halves : Halves[k] \notin Servers
      BY RouteTableAssumption DEF Range
    <2> QED
      BY <1>1, <2>1 DEF Captured
  <1>8. ASSUME NEW x \in Laid(p), NEW y \in Laid(p), x.to = y.to PROVE x = y
    <2>1. CASE x \in Outlives(p) /\ y \in Outlives(p)
      BY <1>3, <2>1
    <2>2. ASSUME x \in Outlives(p), NEW k \in DOMAIN Captured(p),
                 y = Into(p.interface, Captured(p)[k])
          PROVE  FALSE
      BY <1>3, <1>5, <1>6, <1>7, <1>8, <2>2
    <2>3. ASSUME y \in Outlives(p), NEW k \in DOMAIN Captured(p),
                 x = Into(p.interface, Captured(p)[k])
          PROVE  FALSE
      BY <1>3, <1>5, <1>6, <1>7, <1>8, <2>3
    <2>4. ASSUME NEW j \in DOMAIN Captured(p), x = Into(p.interface, Captured(p)[j]),
                 NEW k \in DOMAIN Captured(p), y = Into(p.interface, Captured(p)[k])
          PROVE  x = y
      BY <1>6, <1>8, <2>4
    <2> QED
      BY <1>2, <2>1, <2>2, <2>3, <2>4
  <1>9. \A x \in Laid(p) : x.via = p.interface \/ x \in Outlives(p)
    BY <1>2, <1>6
  <1> QED
    BY <1>4, <1>5, <1>8, <1>9

(* The commands are told apart, and a command says its route.              *)
LEMMA CommandsDiffer ==
    ASSUME NEW x
    PROVE  /\ Add(x) \notin {Backup, Override, Restore, EmptyDns}
           /\ Del(x) \notin {Backup, Override, Restore, EmptyDns}
           /\ \A y : /\ Add(x) # Del(y) /\ (Add(x) = Add(y) => x = y)
                     /\ Del(x) = Del(y) => x = y
           /\ Backup # Override /\ SetDns = Override
           /\ Restore \notin {Backup, Override} /\ EmptyDns \notin {Backup, Override}
  <1>1. Add(x) \notin {Backup, Override, Restore, EmptyDns}
    BY DEF Add, Backup, Override, Restore, EmptyDns
  <1>2. Del(x) \notin {Backup, Override, Restore, EmptyDns}
    BY DEF Del, Backup, Override, Restore, EmptyDns
  <1>3. ASSUME NEW y PROVE Add(x) # Del(y)
    BY DEF Add, Del
  <1>4. ASSUME NEW y, Add(x) = Add(y) PROVE x = y
    <2>1. Add(x).route = x /\ Add(y).route = y
      BY DEF Add
    <2> QED
      BY <1>4, <2>1
  <1>5. ASSUME NEW y, Del(x) = Del(y) PROVE x = y
    <2>1. Del(x).route = x /\ Del(y).route = y
      BY DEF Del
    <2> QED
      BY <1>5, <2>1
  <1>6. Backup # Override /\ SetDns = Override
        /\ Restore \notin {Backup, Override} /\ EmptyDns \notin {Backup, Override}
    BY DEF Backup, Override, SetDns, Restore, EmptyDns
  <1> QED
    BY <1>1, <1>2, <1>3, <1>4, <1>5, <1>6

(* The commands for the routes into the device.                            *)
LEMMA TunLists ==
    ASSUME NEW mg, NEW p \in RoutePlan
    PROVE  LET tun == {Into(p.interface, Captured(p)[k]) : k \in DOMAIN Captured(p)}
           IN  /\ AddTunRoutes(p) \in Seq(Cmds(mg)) /\ DelTunRoutes(p) \in Seq(Cmds(mg))
               /\ Range(AddTunRoutes(p)) = {Add(x) : x \in tun}
               /\ Range(DelTunRoutes(p)) = {Del(x) : x \in tun}
               /\ IsInjective(Captured(p)) =>
                     IsInjective(AddTunRoutes(p)) /\ IsInjective(DelTunRoutes(p))
               /\ ~IsInjective(Captured(p)) => \E x \in tun : Twice(Add(x), AddTunRoutes(p))
  <1> DEFINE D == DOMAIN Captured(p)
  <1> DEFINE X == [k \in D |-> Into(p.interface, Captured(p)[k])]
  <1> DEFINE tun == {Into(p.interface, Captured(p)[k]) : k \in D}
  <1> DEFINE a == AddTunRoutes(p)
  <1> DEFINE d == DelTunRoutes(p)
  <1>1. /\ a \in Seq(Cmds(mg)) /\ d \in Seq(Cmds(mg))
        /\ Len(a) = Len(Captured(p)) /\ Len(d) = Len(Captured(p)) /\ D = 1 .. Len(Captured(p))
        /\ \A k \in D : a[k] = Add(X[k]) /\ d[k] = Del(X[k])
    BY TunCommands
  <1>2. DOMAIN a = D /\ DOMAIN d = D
    <2> HIDE DEF a, d
    <2> QED
      BY <1>1, LenProperties
  <1>3. \A k \in D : X[k] \in tun
    OBVIOUS
  <1>4. \A x \in tun : \E k \in D : x = X[k]
    OBVIOUS
  <1>5. \A j, k \in D : X[j] = X[k] <=> Captured(p)[j] = Captured(p)[k]
    <2>1. \A k \in D : X[k] = Into(p.interface, Captured(p)[k]) /\ X[k].to = Captured(p)[k]
      BY Leads
    <2> HIDE DEF X
    <2> QED
      BY <2>1
  <1> HIDE DEF a, d, X, tun
  <1>6. Range(a) = {Add(x) : x \in tun} /\ Range(d) = {Del(x) : x \in tun}
    BY <1>1, <1>2, <1>3, <1>4 DEF Range
  <1>7. ASSUME IsInjective(Captured(p)) PROVE IsInjective(a) /\ IsInjective(d)
    <2>1. \A j, k \in D : X[j] = X[k] => j = k
      BY <1>5, <1>7 DEF IsInjective
    <2>2. ASSUME NEW j \in D, NEW k \in D, a[j] = a[k] PROVE j = k
      <3>1. X[j] = X[k]
        BY <1>1, <2>2, CommandsDiffer
      <3> QED
        BY <2>1, <3>1
    <2>3. ASSUME NEW j \in D, NEW k \in D, d[j] = d[k] PROVE j = k
      <3>1. X[j] = X[k]
        BY <1>1, <2>3, CommandsDiffer
      <3> QED
        BY <2>1, <3>1
    <2> QED
      BY <1>2, <2>2, <2>3 DEF IsInjective
  <1>8. ASSUME ~IsInjective(Captured(p)) PROVE \E x \in tun : Twice(Add(x), a)
    <2>1. PICK j, k \in D : j # k /\ Captured(p)[j] = Captured(p)[k]
      BY <1>8 DEF IsInjective
    <2>2. a[j] = Add(X[j]) /\ a[k] = Add(X[j]) /\ X[j] \in tun
      BY <1>1, <1>3, <1>5, <2>1
    <2> QED
      BY <1>2, <2>1, <2>2 DEF Twice
  <1> QED
    BY <1>1, <1>6, <1>7, <1>8 DEF a, d, tun

(* What apply runs: every route of the plan, once unless the plan has a    *)
(* prefix twice, and for Default mode the resolver, last.                  *)
LEMMA ApplyList ==
    ASSUME NEW mg, NEW p \in RoutePlan
    PROVE  LET t == ApplyCommands(mg, p)
           IN  /\ t \in Seq(Cmds(mg)) /\ Range(t) = ToApply(mg, p) /\ OnlyLast(Override, t)
               /\ IsInjective(Captured(p)) => IsInjective(t)
               /\ ~IsInjective(Captured(p)) =>
                     \E x \in Laid(p) : x.via = p.interface /\ Twice(Add(x), t)
  <1> DEFINE tun == {Into(p.interface, Captured(p)[k]) : k \in DOMAIN Captured(p)}
  <1> DEFINE a == AddTunRoutes(p)
  <1> DEFINE t == ApplyCommands(mg, p)
  <1> DEFINE S == Cmds(mg)
  <1>1. /\ a \in Seq(S) /\ Range(a) = {Add(x) : x \in tun}
        /\ IsInjective(Captured(p)) => IsInjective(a)
        /\ ~IsInjective(Captured(p)) => \E x \in tun : Twice(Add(x), a)
    BY TunLists
  <1>2. Laid(p) = tun \cup Outlives(p) /\ \A x \in tun : x.via = p.interface
    BY Leads DEF Laid
  <1>3. Override \notin Range(a) /\ Backup \notin Range(a)
    BY <1>1, CommandsDiffer
  <1> HIDE DEF tun, a, S
  <1>4. CASE p.mode = "test"
    <2>1. t = a /\ Laid(p) = tun
      BY <1>2, <1>4 DEF ApplyCommands, a, Outlives
    <2>2. Range(a) = ToApply(mg, p)
      BY <1>1, <1>4, <2>1 DEF ToApply
    <2>3. OnlyLast(Override, a)
      BY <1>3 DEF OnlyLast, Range
    <2> HIDE DEF t
    <2> QED
      BY <1>1, <1>2, <2>1, <2>2, <2>3 DEF t, S
  <1>5. CASE p.mode # "test"
    <2> DEFINE pin == <<Add(Pin(p.server))>>
    <2> DEFINE dns == IF mg = "linux" THEN <<Backup, Override>> ELSE <<SetDns>>
    <2> DEFINE Dns == {Override} \cup (IF mg = "linux" THEN {Backup} ELSE {})
    <2>1. p.mode = "default" /\ Laid(p) = tun \cup {Pin(p.server)}
      BY <1>2, <1>5 DEF RoutePlan, RouteMode, Outlives
    <2>2. t = pin \o a \o dns
      BY <1>5 DEF ApplyCommands, a
    <2>3. pin \in Seq(S) /\ Range(pin) = {Add(Pin(p.server))} /\ IsInjective(pin)
      BY RoutesOf DEF Cmds, S, Range, IsInjective
    <2>4. /\ dns \in Seq(S) /\ Range(dns) = Dns /\ IsInjective(dns) /\ OnlyLast(Override, dns)
      <3>1. CASE mg = "linux"
        <4>1. dns = <<Backup, Override>> /\ Backup \in S /\ Override \in S /\ Backup # Override
          BY <3>1, CommandsDiffer DEF Cmds, S
        <4>2. /\ dns \in Seq(S) /\ DOMAIN dns = {1, 2} /\ dns[1] = Backup /\ dns[2] = Override
              /\ Len(dns) = 2
          BY <4>1
        <4> HIDE DEF dns
        <4> QED
          BY <3>1, <4>1, <4>2 DEF Range, IsInjective, OnlyLast
      <3>2. CASE mg # "linux"
        <4>1. dns = <<Override>> /\ Override \in S
          BY <3>2, CommandsDiffer DEF Cmds, S
        <4>2. dns \in Seq(S) /\ DOMAIN dns = {1} /\ dns[1] = Override /\ Len(dns) = 1
          BY <4>1
        <4> HIDE DEF dns
        <4> QED
          BY <3>2, <4>1, <4>2 DEF Range, IsInjective, OnlyLast
      <3> QED
        BY <3>1, <3>2
    <2> HIDE DEF pin, dns, t
    <2>5. pin \o a \in Seq(S) /\ Range(pin \o a) = {Add(x) : x \in Laid(p)}
      <3>1. a \in Seq(S) /\ Range(a) = {Add(x) : x \in tun}
        BY <1>1
      <3> HIDE DEF S, a, tun
      <3>2. pin \o a \in Seq(S)
        BY <2>3, <3>1, Joined
      <3>3. Range(pin \o a) = Range(pin) \cup Range(a)
        BY <2>3, <3>1, RangeOfJoined
      <3>4. {Add(x) : x \in Laid(p)} = {Add(Pin(p.server))} \cup {Add(x) : x \in tun}
        BY <2>1
      <3> QED
        BY <2>3, <3>1, <3>2, <3>3, <3>4
    <2>6. t \in Seq(S) /\ Range(t) = ToApply(mg, p)
      <3> DEFINE front == pin \o a
      <3>1. t \in Seq(S) /\ Range(t) = {Add(x) : x \in Laid(p)} \cup Dns
        <4>1. front \in Seq(S) /\ t = front \o dns /\ Range(front) = {Add(x) : x \in Laid(p)}
          BY <2>2, <2>5
        <4> HIDE DEF front
        <4>2. front \o dns \in Seq(S) /\ Range(front \o dns) = Range(front) \cup Range(dns)
          BY <2>4, <4>1, Joined, RangeOfJoined
        <4> QED
          BY <2>4, <4>1, <4>2
      <3>2. ToApply(mg, p) = {Add(x) : x \in Laid(p)} \cup Dns
        BY <1>5 DEF ToApply
      <3> QED
        BY <3>1, <3>2
    <2>7. OnlyLast(Override, t)
      <3>1. Override \notin Range(pin \o a)
        BY <2>5, CommandsDiffer
      <3> QED
        BY <2>2, <2>4, <2>5, <3>1, JoinedOnlyLast
    <2>8. ASSUME IsInjective(Captured(p)) PROVE IsInjective(t)
      <3>1. \A x \in tun : x # Pin(p.server)
        BY <1>2, Leads, RoutesOf, RouteTableAssumption
      <3>2. Range(pin) \cap Range(a) = {}
        BY <1>1, <2>3, <3>1, CommandsDiffer
      <3>3. IsInjective(pin \o a)
        BY <1>1, <2>3, <2>8, <3>2, JoinedInjective
      <3>4. Range(pin \o a) \cap Range(dns) = {}
        BY <2>4, <2>5, CommandsDiffer
      <3> QED
        BY <2>2, <2>4, <2>5, <3>3, <3>4, JoinedInjective
    <2>9. ASSUME ~IsInjective(Captured(p))
          PROVE  \E x \in Laid(p) : x.via = p.interface /\ Twice(Add(x), t)
      <3>1. PICK x \in tun : Twice(Add(x), a)
        BY <1>1, <2>9
      <3>2. Twice(Add(x), pin \o a)
        BY <1>1, <2>3, <3>1, JoinedTwice
      <3>3. Twice(Add(x), t)
        BY <2>2, <2>4, <2>5, <3>2, JoinedTwice
      <3> QED
        BY <1>2, <3>3
    <2> QED
      BY <2>6, <2>7, <2>8, <2>9 DEF t, S
  <1> QED
    BY <1>4, <1>5

(* What revert runs: the deletion of every route of the plan, and for      *)
(* Default mode what gives the resolver back.                              *)
LEMMA RevertList ==
    ASSUME NEW mg, NEW p \in RoutePlan
    PROVE  LET t == RevertCommands(mg, p)
           IN  /\ t \in Seq(Cmds(mg)) /\ Range(t) = ToRevert(mg, p)
               /\ IsInjective(Captured(p)) => IsInjective(t)
  <1> DEFINE tun == {Into(p.interface, Captured(p)[k]) : k \in DOMAIN Captured(p)}
  <1> DEFINE d == DelTunRoutes(p)
  <1> DEFINE t == RevertCommands(mg, p)
  <1> DEFINE S == Cmds(mg)
  <1>1. /\ d \in Seq(S) /\ Range(d) = {Del(x) : x \in tun}
        /\ IsInjective(Captured(p)) => IsInjective(d)
    BY TunLists
  <1>2. Laid(p) = tun \cup Outlives(p) /\ \A x \in tun : x.via = p.interface
    BY Leads DEF Laid
  <1> HIDE DEF tun, d, S
  <1>4. CASE p.mode = "test"
    <2>1. t = d /\ Laid(p) = tun
      BY <1>2, <1>4 DEF RevertCommands, d, Outlives
    <2>2. Range(d) = ToRevert(mg, p)
      BY <1>1, <1>4, <2>1 DEF ToRevert
    <2> HIDE DEF t
    <2> QED
      BY <1>1, <1>2, <2>1, <2>2 DEF t, S
  <1>5. CASE p.mode # "test"
    <2> DEFINE pin == <<Del(Pin(p.server))>>
    <2> DEFINE dns == IF mg = "linux" THEN <<Restore>> ELSE <<EmptyDns>>
    <2>1. p.mode = "default" /\ Laid(p) = tun \cup {Pin(p.server)}
      BY <1>2, <1>5 DEF RoutePlan, RouteMode, Outlives
    <2>2. t = d \o pin \o dns
      BY <1>5 DEF RevertCommands, d
    <2>3. pin \in Seq(S) /\ Range(pin) = {Del(Pin(p.server))} /\ IsInjective(pin)
      BY RoutesOf DEF Cmds, S, Range, IsInjective
    <2>4. dns \in Seq(S) /\ Range(dns) = {Resets(mg)} /\ IsInjective(dns)
      <3>1. dns = <<Resets(mg)>> /\ Resets(mg) \in S
        BY DEF Resets, Cmds, S
      <3> HIDE DEF dns
      <3> QED
        BY <3>1 DEF Range, IsInjective
    <2> HIDE DEF pin, dns, t
    <2>5. d \o pin \in Seq(S) /\ Range(d \o pin) = {Del(x) : x \in Laid(p)}
      BY <1>1, <2>1, <2>3, Joined, RangeOfJoined
    <2>6. t \in Seq(S) /\ Range(t) = ToRevert(mg, p)
      <3> DEFINE front == d \o pin
      <3>1. t \in Seq(S) /\ Range(t) = {Del(x) : x \in Laid(p)} \cup {Resets(mg)}
        <4>1. front \in Seq(S) /\ t = front \o dns /\ Range(front) = {Del(x) : x \in Laid(p)}
          BY <2>2, <2>5
        <4> HIDE DEF front
        <4>2. front \o dns \in Seq(S) /\ Range(front \o dns) = Range(front) \cup Range(dns)
          BY <2>4, <4>1, Joined, RangeOfJoined
        <4> QED
          BY <2>4, <4>1, <4>2
      <3>2. ToRevert(mg, p) = {Del(x) : x \in Laid(p)} \cup {Resets(mg)}
        BY <1>5 DEF ToRevert
      <3> QED
        BY <3>1, <3>2
    <2>7. ASSUME IsInjective(Captured(p)) PROVE IsInjective(t)
      <3>1. \A x \in tun : x # Pin(p.server)
        BY <1>2, Leads, RoutesOf, RouteTableAssumption
      <3>2. Range(d) \cap Range(pin) = {}
        BY <1>1, <2>3, <3>1, CommandsDiffer
      <3>3. IsInjective(d \o pin)
        BY <1>1, <2>3, <2>7, <3>2, JoinedInjective
      <3>4. Resets(mg) \in {Restore, EmptyDns}
        BY DEF Resets
      <3>5. Range(d \o pin) \cap Range(dns) = {}
        BY <2>4, <2>5, <3>4, CommandsDiffer
      <3> QED
        BY <2>2, <2>4, <2>5, <3>3, <3>5, JoinedInjective
    <2> QED
      BY <2>6, <2>7 DEF t, S
  <1> QED
    BY <1>4, <1>5
=============================================================================
