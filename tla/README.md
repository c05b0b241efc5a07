# Verification of LiosTunnel

LiosTunnel turns a machine's traffic into connections through a proxy server
(SSH or Shadowsocks).  A packet engine reads IP packets from a TUN device and
terminates their TCP connections in user space; each connection becomes a stream
that a tunnel task splices onto a proxied one.  A privileged helper daemon owns
the device and the machine's routes and resolver on behalf of a desktop
application; on Android the same engine runs inside a VpnService.

This directory holds TLA+ models of the parts whose correctness depends on order,
timing and failure, TLC configurations that check them on small instances, and
TLAPS proofs that some of the results hold for every size.  `PROJECT.json` maps
each definition to the source lines it stands for, lists the runs and, for every
property, a mutant of the model: a plausible bug under which the property breaks.

## 1. Inventory

| Component | State it keeps | Operations | Interacts through |
|---|---|---|---|
| Packet core (`core/src/net/smoltcp_stack/core.rs`, `nat_table.rs`, `inspect.rs`) | smoltcp socket set, armed 4-tuples, pending listeners, flows, counters | `ingest`, `step` (abort, pump out, poll, sweep, promote, pump in, observe, reap), `poll_delay`, `inject_datagram` | called by the stack thread; channel pairs to each `LocalStream` |
| Stack loop (`poll.rs`, `local_stream.rs`, `net/mod.rs`) | backlog of accepted flows, read-error and wait-failure counts, one-shot registration of the TUN descriptor | the loop of `start`, `Wakeup::wake`, `ShutdownHandle::shutdown`, `LocalStream` read/write/shutdown/drop, the DNS bridge task | a latched `Poller::notify`, bounded channels to the engine |
| TUN devices (`net/tun.rs`, `net/android_tun.rs`) | a descriptor | `read_packet`, `write_packet` | the stack loop |
| Engine (`engine.rs`) | the receivers of two channels, counters, a "stopped" flag | `run`, `spawn_flow`, `spawn_dns_query`, `resolve_one`, `proxy_one` | tokio tasks; the protocol and the resolver |
| Protocols (`protocols/*`) | SSH session, host-key policy, permits; Shadowsocks server, permits, probe | `connect`, `dial`, `dial_dns`, `disconnect`, `peer_addr` | the proxy server |
| DNS (`dns/*`) | the list of servers | `resolve`, `query_one` | dials of the protocol; replies go back through the stack |
| Config (`config/*`, `core/src/secret.rs`) | profiles and their secrets | parsing, validation, `PortableProfile`, `ss://` links | read by the clients before they dial |
| Routes (`route/mod.rs`, `linux.rs`, `macos.rs`) | a `RouteGuard` with the plan in place | `apply`, `revert_now`, drop | external commands, `/etc/resolv.conf` and its backup, `networksetup` |
| Route state (`route/state.rs`) | a JSON record on disk | `save`, `load`, `clear`, `recover_if_stale` | the next run of the process |
| Helper daemon (`helper/src/main.rs`, `dispatch.rs`, `session.rs`) | at most one `Tunnel`; per client a `Session` | `serve`, `serve_one`, `Session::handle`, `Tunnel::start`, drop | Unix socket with JSON lines; signals |
| Helper listener and authorization (`listener.rs`, `auth.rs`) | a lock file and the socket path | `bind`, `accept`, `authorize_peer`, `read_secret_owned_by`, drop | the file system |
| Command line (`crates/liostunnel-cli`) | one tunnel for the length of a run | `connect`, `import`, `export`, `validate` | the route record, shared with every other run |
| Android engine (`platform/android/*`, `LiosVpnService.kt`) | PENDING, RUNNING and STATE statics; the VPN interface | `stage`, `start`, `stop`, `protect_fd` | JNI calls from the service's main thread |
| App bridge (`crates/liostunnel-ffi`) | - | the editor's checks, links, conversions | called from Dart |
| App services and screens (`app/lib`), packaging | pending requests, reconnection timer | - | the helper's socket; systemd and launchd |

What is hard about them:

- *Stack loop*: three kinds of parties change what the loop must look at and wake
  it with a notification that coalesces; the TUN registration is one-shot; a
  failing device must neither spin the thread nor be forgotten.
- *Packet core*: listeners are per connection attempt but smoltcp gives a SYN to
  any listener on its destination; data waits in four places (channel, parked
  chunk, socket buffer, receive buffer) and ends of stream must follow it; a peer
  that vanishes must not keep a flow for ever, and a quiet one must not be reset.
- *Protocols and DNS under load*: permits in two pools, waits with and without a
  timer, a session that dies under everything that uses it.
- *Helper daemon and command line*: both change the machine command by command and
  may be killed between any two of them; a start may fail at each step; clients
  come and go while the tunnel stays; several processes meet at one file.
- *Android engine*: the service's main thread, a runtime's workers and a stack
  thread share one lock, one state and one descriptor.
- *Connecting*: a profile is checked in one process and used in another; names,
  host keys and secret files change in between.

The properties that make each component correct are those of section 4; the
complete list of hazards, each with its line and the properties that cover it, is
`hazards` in `PROJECT.json`.

## 2. Modules

| Module | Models | Composed with |
|---|---|---|
| `StackCore` | `StackCore::ingest` and `step`, with the tunnel task's end of each channel | instances `MCStackFlow`, `MCStackListeners` |
| `StackCore_proofs` | its inductive invariant and the theorems that follow | extends `StackCore` |
| `StackLoop` | the stack thread's loop, everything that wakes it, and `Engine::run` | instance `MCStackLoop`; implements `FlowQueue` |
| `FlowQueue` | what the hand-over of accepted flows promises: one FIFO queue | |
| `StackLoop_proofs` | its inductive invariant, and that it implements `FlowQueue` | extends `StackLoop` |
| `Datagrams` | a DNS query from the device to the resolver and its answer back, byte counts included | instance `MCDatagrams` |
| `Relay` | the engine's dials and queries through the permits of both protocols | instance `MCRelay` |
| `Engine_proofs` | the invariants of `Datagrams` and `Relay` and the theorems that follow | extends `Datagrams`, `Relay` |
| `Connect` | profiles, secrets, and connecting, for all three clients | instance `MCConnect` |
| `Connect_proofs` | its inductive invariant and the theorems that follow | extends `Connect` |
| `RouteTable` | the route and resolver commands of Linux and macOS and what they do to a machine | extended by `HelperDaemon` and `CliRuns` |
| `RouteTable_proofs` | lemmas about the command lists and the commands | extends `RouteTable` |
| `HelperDaemon` | the daemon, its session, `Tunnel::start` and drop, recovery, kills | instance `MCHelperDaemon` |
| `HelperDaemon_proofs` | its inductive invariant and the theorems that follow | extends `HelperDaemon`, `RouteTable_proofs` |
| `SocketPath` | daemons that start, serve, leave and die at one socket path | `Instances` |
| `CliRuns` | runs of `liostunnel connect` over one route record | `Instances` |
| `Instances` | several processes of one program on one machine | instance `MCInstances` |
| `Instances_proofs` | the invariants of `SocketPath` and `CliRuns` and the theorems that follow | extends `Instances`, `RouteTable_proofs` |
| `AndroidEngine` | the engine in the app's process, with the service that owns the interface | instance `MCAndroidEngine` |
| `AndroidEngine_proofs` | its inductive invariant and the theorems that follow | extends `AndroidEngine` |

### StackCore

One thread runs `ingest` and `step`, so `phase` says where it is inside `step`
and each phase is an action; the loops of the two pumps are one action per
iteration, because the tunnel tasks write, read and drop their `LocalStream`
between any two `try_recv`/`try_send` calls.  `sockets` is the smoltcp socket set,
`armed` the NAT table, `pending` and `flows` the two maps.  A flow record has what
core.rs keeps plus the contents of its two channels, in chunks; `parked` is
`pending_out`.  Data is counted, not carried.

smoltcp is external.  A socket has the states core.rs asks about, the number of
units in its buffers, and moves by events: a SYN delivered, a handshake
acknowledged, data, an acknowledgement, a FIN, an RST, a timer.  The
applications behind those events owe nothing.  Instants are ages that saturate at
the largest timeout, since core.rs only compares elapsed time with timeouts;
within one step the clock stands still, as `now` does in the code.

Left out here: checksums, sequence numbers and windows, the buffers of
`device.rs`, and UDP, which touches none of this state and is `Datagrams`'s.

### StackLoop

The loop is one action per statement: check of the flag, drain (one action per
packet), bridge, step, hand-over (one action per flow), datagrams, preparation of
the sleep, wait.  `notified` is the poller's latched notification, `armed` the
one-shot registration.  Renewing the registration may fail while the device misbehaves
(`deaf`): the code logs it and sleeps on its timer alone.  Whoever wakes the loop does so in two halves, the change
and the wake, in the order of the code: `StreamChange`/`StreamWake`,
`ShutdownStore`/`ShutdownWake`, `BridgeSend`/`BridgeWake`.  The step of the packet
core is abstracted to what the loop needs: flows it read come out accepted, and it
looks at every flow.  `dirty` holds the flows whose `LocalStream` changed since
the last step; it is what "the loop has not seen yet" means.

`HandOverIsFifo` states the refinement: with `queue` mapped to the accept channel
followed by the backlog, every behaviour of the loop is one of `FlowQueue`.

### Datagrams

The path of one query: `Ingest` (read and classified, or refused), `HandOver` (what
fits the channel, the rest of the batch dropped), `Resolve` (`CollectBounded` and what
counts as an answer), `Inject` (truncation to the MTU, the three length checks, the
16-bit fields), `Write`.  Lengths are real byte counts, because every hazard here is
about one of them; contents are an id, "whole" and the TC bit.  An answer's DNS id is
not compared with the query's by the code either: each query has a stream of its own.
`Inject`'s check against the largest UDP payload cannot fire after truncation to an
MTU of 16 bits; it is there because the code has it.

### Relay

A task is a flow or a query; `task[t].stage` goes from waiting for a permit through
dialing to an open stream and an end.  A pool has free permits and a FIFO queue, as
tokio's semaphore has.  `closing` holds the connections that a DNS-over-HTTPS query
left behind when it timed out: the task that drives one has its own copy of the
stream and keeps the permit until it notices.  A tick is five seconds, the
resolvers' timeout; the connect timeout of Shadowsocks is two ticks and its permit
timeout three.  The SSH protocol has neither, and the model gives it neither.

### Connect

`profile` is the profile at hand and says how it came (`via`): through the editor's
`check_profile`, written by hand, imported from a link or a portable file, exported
and imported again.  `Gate` is what each client refuses before it dials, in its
order.  SSH is then a lookup, a protected socket, a greeting with `check_server_key`
and an authentication; Shadowsocks is `prepare` and the probe with its shares of
eight seconds.  `StartEngine` sets the route pin and asks whether a resolver can be
built.  The user replaces the secret file, the server presents any key at each
greeting, the name resolves to any of its answers each time.

`attempt.value` and `attempt.from` are history as well as state: which bytes are sent
and the file they came from, which is what the verdicts and `CallersSecretsOnly`
are about.  `attempt.fate` is history: what became of the credential in an SSH
authentication, that is still open, undecodable (a private key), refused, or hung up
on while it was judged.  Only the command line reads the file when the protocol asks for it
(`Serves`); the other two read it once, in the gate.

### RouteTable, HelperDaemon, CliRuns

`RouteTable` builds the command lists of `linux.rs` and `macos.rs` in their order
and says what each command does to a machine: a set of routes, devices, the resolver
in force, on Linux its backup file.  A command fails when the kernel would refuse it
(`CanRun`).  Addresses and prefixes are constants; IPv6 prefixes are more elements of
`Halves`.  (The code deletes the IPv6 halves before the IPv4 ones; nothing tells
that order from the one here.)

`HelperDaemon` follows the daemon's single thread of control: `pc` stands at an
`await`, an error return or a write to disk.  `Crash` can happen at every one of
them; it closes the device and leaves the files.  `record` may be torn, because
`save` writes in place.  A *mishap* is a failure the state does not explain: a
command that fails although it could run, or a record whose pid belongs to some
process again.  The code makes no promise after one, so the properties about
cleanliness hold until the first (`NoMishap`).  The protocol's dial, the device, the
stack and the gateway are steps of the start that succeed or fail; malformed requests
only write a reply.

`CliRuns` has the same commands in the order of `commands/connect.rs`: recovery, dial,
device, record, routes, the wait for a signal, and the cleanups, where routes are
undone before the device closes and the record goes last.  The runs share one
record and one machine.  An undo command may fail although it could run (a second Ctrl-C
reaches the `ip` it waits for): the code logs it, goes on and clears the record, and
`failed` is the history of such commands, each for as long as what it should have undone
is still there.  Unlike the helper's mishaps they end no promise: the properties say
what holds with them.  `overlapped` is history: it becomes true when a run looks at
the record while another one is between its look and its own writing of it.

### SocketPath and Instances

`SocketPath` has each step of `bind` (lock, look for a socket, remove it, bind, change
mode and owner) and of drop (unlink, then the lock goes with the descriptor); a kill
releases the lock and leaves the entry.  `Instances` puts several processes of one
program on one machine.  Which program is chosen at the start, since helper and
command line share neither the socket nor the record: the helper's record lies
beside its socket, the command line's in the home directory.

### AndroidEngine

`thread` is the service's main thread, which handles one callback at a time and may
stand inside `start` or `stop`; `worker[g]` is the tokio runtime of start `g`, which
assembles, stores its handles under the lock, announces its state and runs;
`stack[g]` is its stack thread, which owns a copy of the descriptor.  Dropping a
runtime waits for the poll its worker is in: that is `Replaced` and `Joined`, and the
name lookup that a blocking thread may still be in only delays them.  `fcntl` in
`AndroidTun::new` is assumed not to fail, and `Engine::run` returns no error.

## 3. Runs

| Run | Instance | What it asks |
|---|---|---|
| `flow` | one connection, payload both ways, chunks of 3 units over a transmit buffer of 2 | order of data and ends, who is reset, reclamation |
| `listeners` | three applications, two destinations (one refused), three handles, a cap of two, four SYNs, no payload | agreement of the maps, sharing of listeners, the listeners' deadlines |
| `loop` | two connections, channels of one slot, a batch of one packet | the refinement of `FlowQueue`; liveness: streams, the backlog, shutdown |
| `loop_broken` | one connection, one query, a device that breaks and heals and whose registration may fail to be renewed | lost wakeups, spinning and deafness, the end of the engine |
| `datagrams` | two applications, two servers, three packets, MTUs of 576, 1500 and 65535, answers on both sides of every limit | sizes, and that each query is accounted for |
| `relay` | three flows and two queries over one permit of each kind, two resolvers, both protocols, both resolvers' kinds | permits, starvation, every wait that has an end |
| `connect` | sound profiles and profiles with one flaw each, three clients, two attempts, one change | verdicts, pins, host keys, secrets, the probe |
| `helper` | one client at a time and three sessions, two servers, both modes, two kills, one move, one mishap | cleanliness, recovery, what sessions report |
| `instances` | three daemons and two users' connections, or three command-line runs to two servers, on both systems, with undo commands that fail | one holder at a time, and what it leaves |
| `android` | three taps, up to three starts, one revocation | one engine, an owned interface, a stop that ends |
| `flow_fin`, `android_start` | the `flow` instance; two taps | violations, section 6 |

Why the bounds are enough.  A chunk longer than the transmit buffer makes
parking happen, a channel of one slot makes it full, and a shutdown timeout of two
ticks can be missed and met.  Two listeners on one destination are needed to cross
flows and a third handle to reuse one; a cap of two is reached.  The loop's hazards
involve one sleeper and one waker; two flows and one slot make the backlog hold
one.  Two kills allow one during recovery, one move lets a resolver backup go stale.
One permit of each kind makes every third task wait, two queries make a query wait
for a query, and two resolvers make the second one's turn come.  A channel of one
datagram drops the second of a batch; three packets let an application ask twice
while another asks once.  Two resolvers divide the probe's eight seconds into shares
that an answer after five misses and an answer after one meets.  Three processes are
a holder, one that takes over and one that comes late; two servers make the pin that an
older run left another one than the next run's.  `instances` cuts off behaviours in
which two runs overlapped at the record (`NoOverlap`), about which its properties say
nothing.  `listeners` has no flow that waits for its peer, so that only the listeners'
half of `NoOverdueDeadline` is at work there; the flows' half rests on its proof
(`NothingOverdue`).  Three taps give a start, one
that replaces it and one after a stop.

For safety none of these bounds matters: the theorems of section 5 hold for any number
of connections, handles, tasks, permits, prefixes, processes, kills and taps, any buffer
and any timeout.

Deadlock checking is off where the system really stops: `loop` after a shutdown,
`datagrams` when nothing more is sent, `relay` when all tasks ended, `connect` when
the attempts are used up, `instances` when every process has run, `android` when the
taps are used up.

Bounds named in the modules: `MaxSyns`, `BusyTasks` (StackCore); `MaxQueries`,
`MayBreak`, `ErrCap`, `HotCap` (StackLoop); `MaxSent` (Datagrams); `Flows`, `Queries`
(Relay); `MaxAttempts`, `MaxEdits` (Connect, where the profile is settled before the
first attempt); `MaxMishaps`, `MaxCrashes`, `MaxMoves`, `MaxSessions`
(HelperDaemon); `Daemons`, `MaxClients`, `Runs` (each process starts once);
`MaxTaps`, `MaxRevokes` (AndroidEngine).

## 4. Properties

*StackCore.* `TablesAgree`: a 4-tuple is armed exactly while one listener is pending
for it (`ArmedIffPending`), and every socket has one owner (`SocketsOwned`).
`FlowIsItsConnection`: a flow is dialled under the
addresses its socket negotiated, whichever listener took the SYN.
`NoOverdueDeadline`: after a step no deadline `poll_delay` knows is in the past.
`EndAfterData`: an end of stream follows the data, towards the task (`EofAfterData`)
and towards the application (`FinAfterWrites`).  `OnlyFinishedFlowsAborted`: the
shutdown deadline resets only connections whose tunnel task is done (not that their peer
has finished reading: section 6).
`GracefulEndLosesNothing`: what ends without a reset was delivered.
`EverythingReclaimed`: a flow whose stream was dropped and an armed 4-tuple do go,
whatever the peer does.

*StackLoop.* `NoLostWakeup`: asleep, everything unseen is announced, or about to
be.  `FailingDeviceNeverSpins`: at most one pass in a row is caused by a failing
device.  `FinishedEngineServedAll`: an engine that ended by itself left nothing in
either channel.  `AllStopTogether`: a shutdown ends the loop, and its end the engine.
`HandOverIsFifo`, `BacklogDrains`: the hand-over.  `StreamChangesSeen`, `PacketsRead`:
what is announced is seen.

*Datagrams.* `RepliesFit`: no answer makes a packet larger than the device carries, nor
one whose length fields are not its length, nor ends the thread.  `AnsweredOnce`:
answers go to who asked, from whom they asked, at most once, whole or marked; and a
query with no answer was lost at a place the code knows of.

*Relay.* `PermitsAccounted`: permits, queue and the counter of open streams add up,
and nobody waits beside a free permit.  `DnsNotStarvedByFlows`: a query waits only for
queries.  `WaitsEnd`: every query, every Shadowsocks dial, and everything over a dead
SSH session, ends.

*Connect.* `SessionIsPinned`: Connected means a proven session; a failure leaves none;
the pin is the address the session reached; on Android its socket is outside the VPN.
`HostKeysHold`: keys are learnt on first contact only, and a credential goes only to a
recorded key.  `VerdictFits`: what the user is told about the credential fits what
became of it.  "The server rejected the credentials" is never said of a failure before
the credential was used, and of a right one only if the server hung up while it judged
it; a wrong one that was sent is named as that, unless the server could not be reached,
and never connects.  `ProbeFindsAnswering`: a resolver that answers in its share
is found.  `SavedProfileRuns`: what the editor saves is not refused for its shape
later.  `CallersSecretsOnly`: the helper sends only secrets that were its caller's.
`ConnectSettles`: a Shadowsocks connect ends.

*HelperDaemon.* `MachineAccounted`: what would outlive the process is in the record
at every moment, and with no tunnel nothing of one is on the machine.
`TunnelIsBacked`: a tunnel has its record and routes.  `SessionMirrorsTunnel`: a
session reports the truth.  `CrashIsUndone`: the next run undoes a killed one.
`EngineDeathNoticed`: a dead engine's routes are removed while a client is there.

*Instances.* `DaemonServesItsUser`: a serving daemon holds the lock and the entry with
the right owner, and reads nobody but its user.  `RunsKeptApart`: one run holds routes,
under its own record, none takes another's, and none finds its own refused but by a
route whose deletion failed.  `RunLeavesNothing`: the pins and the resolver on the machine
are in the record with what undoes them, or were left by an undo command that failed;
without a record, such a failure or a live run the machine is as it was; and what a stop
deletes is still there.

*AndroidEngine.* `StoppedIsNotConnected`: no late write revives a stopped state.
`OneOwnEngine`: one engine at most, and the handle in RUNNING is its own.
`InterfaceHasOwner`: an established interface is always read by somebody.
`StopReturns`: a stop gives the main thread back.

### Fairness

- *StackCore*: `WF(Step)`, since the thread runs and each step ends (its loops are
  bounded by the buffers), and `SF(Tick)`, since the clock advances between steps.
  Nothing is assumed of applications or tunnel tasks.
- *StackLoop*: the thread, the second half of whatever woke it, and the engine's
  tasks run.  `WakeIdle`, the bare MAX_IDLE timeout, is *not* fair, because poll.rs
  says nothing may depend on it; the exception in `FairSpec` is the case where
  the code does depend on it: a device that failed twice (section 6), or whose
  registration could not be renewed, which poll.rs says of itself.
- *Relay*: the clock runs and each timer fires, a cancelled DoH connection ends, and
  every use of a dead session fails.  No server answers, no application finishes, and
  an SSH dial that waits for a permit has no timer.
- *Connect*: a lookup returns and each share of the probe is bounded, so the steps of
  a Shadowsocks connect are fair.  Nothing is assumed of an SSH server: that connect
  has no timeout for the greeting, and `ConnectSettles` does not speak of it.
- *HelperDaemon*: the daemon's own steps, each ready branch of the two selects
  (tokio polls them in random order: strong fairness), and a restart after a kill
  (`Restart=on-failure` of the unit).  Clients owe nothing; signals, deaths of the
  engine and kills are never forced.
- *AndroidEngine*: threads that can run do, the main thread works off its messages,
  the poll timer ticks.  Nothing is assumed of the user or of the server.
- `Datagrams` and `Instances` are checked for safety only.

## 5. Proofs

Every safety property that a run checks is also a theorem, for every value of the
constants allowed by the named assumptions (one or two per module: `StackCoreAssumption`,
`StackLoopAssumption`, `DatagramsAssumption`, `MtusAssumption`, `RelayAssumption`,
`ConnectAssumption`, `RouteTableAssumption`, `HostRoutesAssumption`,
`HelperDaemonAssumption`, `SocketPathAssumption`, `RunsAssumption`,
`AndroidEngineAssumption`), all of which TLC evaluates on the instances.  They say that
sizes are numbers, that capacities that must be positive are, that "nobody" is no
process and "gateway" no device, and that sets are what they are used as.  Five say more:

- an MTU lies between 40 and 65535 (`MtusAssumption`);
- the halves of the address space are distinct and no server is one of them, as the
  constants of `route/mod.rs` are (`RouteTableAssumption`);
- a resolver that the operator's prefixes list is covered by them (the same);
- on Shadowsocks the permit timeout is longer than the connect timeout, as the two
  constants are (`RelayAssumption`);
- `HostRoutes`, a `SelectSeq`, is a sequence of strings (`HostRoutesAssumption`): this is
  induction over data, which the provers cannot do, and it is all that the proofs take
  from the filter.

No safety property is inductive as it stands; each module has an invariant that is, a
lemma per action, and a short theorem per property.

### StackCore_proofs

`InductiveInvariant` adds to type correctness and the agreement of the NAT table, the two
maps and the socket set: for each socket owned by the pending map that it is untouched
by a tunnel, and for each flow the relation between its channels, its parked chunk
and the state of its socket; and, per phase, what the earlier phases of the same
step have established (an aborted socket is a flow's, an armed deadline implies
that the local side is done).

| Theorem | Property |
|---|---|
| `TypeCorrect` | the type invariant, a part of `TablesAgree` |
| `MapsAgree` | `TablesAgree` |
| `FlowsNeverCrossed` | `FlowIsItsConnection` |
| `EndsFollowData` | `EndAfterData` |
| `ResetsAreJustified` | `OnlyFinishedFlowsAborted` |
| `GracefulEndsAreClean` | `GracefulEndLosesNothing` |
| `NothingOverdue` | `NoOverdueDeadline` |

`NothingOverdue` has an invariant of its own, `OnTime`, because the property speaks of the
end of a step only.  The clock stands still within a step, so what is overdue when the
step begins is all that can be: the abort phase, which comes first, resets the overdue
flows; sweep removes the overdue listeners; no later phase sets a deadline in the past;
and the reset flows are reaped last.  `OnTime` says what is left over between these.

### StackLoop_proofs

`NothingIsMissed` (`NoLostWakeup`) needs to know, at each statement of the loop, which
wakes may already be pending for what was changed before it and which facts the
statements after it will re-establish; `LoopTypeCorrect`, `BrokenDeviceIsSlow`
(`FailingDeviceNeverSpins`) and `NothingQueuedIsForgotten` (`FinishedEngineServedAll`)
come with it.  `HandOverRefines` (`HandOverIsFifo`) shows that initial states map to
initial states of `FlowQueue` and every step to one of its steps or a stutter.

### Engine_proofs

`DatagramsAreSound`: a query is in one place of its path at a time (`Apart`), and on
every place names the packet that was sent (`Matched`).  Without the first, an answer
could be given twice; without the second, given to somebody else.  `RepliesAlwaysFit`
(`RepliesFit`) is the arithmetic of `Inject` for every length and every MTU, with the
16-bit fields wrapping; `AnsweredOnceOnly` (`AnsweredOnce`).

`RelayIsSound`: for each pool, the free permits and those out add up to its budget, the
queue holds exactly the waiters, each once, and is empty while a permit is free.  What
is out are the dials and streams of the pool's tasks and, for DNS, the DoH connections
that outlived their query.  That each of these is counted once rests on `Past`: a
query moves to the next server and never back, so that it leaves at most one
connection at each.  `PermitsAlwaysAddUp` (`PermitsAccounted`) and
`QueriesWaitForQueries` (`DnsNotStarvedByFlows`) follow, for any number of flows,
queries, servers and permits.

### Connect_proofs

`ConnectIsSound`: at each phase of a connect, what the tunnel shows, which file the
secret came from and that it still has the value read from it, what became of the
credential so far, whose key stands in
`known_hosts`, and which resolvers have already failed to answer in their share.  The
theorems are `SessionAlwaysPinned`, `VerdictAlwaysFits`, `ProbeFindsWhoAnswers`,
`SavedProfileAlwaysRuns` and `OnlyCallersSecrets`, and the action property
`HostKeysAlwaysHold` (`HostKeysHold`).  They hold for any set of profiles, files, lookup
answers and keys, and any timing of the probe.

### RouteTable_proofs and HelperDaemon_proofs

`RouteTable_proofs` has the lemmas that both clients of the route commands need: which
commands the lists of a plan hold, in which order, and what each does to a machine.

`DaemonIsSound` has three parts.  `Control`: where the daemon is says whom it serves,
which plan it works at and that only the two selects have a tunnel.  `Backed`: from
`save` to `clear` the record is that plan, and the number of commands that have run says
whether the pin and the resolver are in place.  `Left`: as long as there was no mishap,
what is on the machine at every statement, which for a half-applied plan is a
prefix of its command list and for a half-undone one the rest of it.  `MachineAlwaysAccounted`
(`MachineAccounted`), `TunnelAlwaysBacked` (`TunnelIsBacked`) and `SessionsAlwaysTrue`
(`SessionMirrorsTunnel`) follow, for any prefixes, servers, clients, kills and mishaps,
on both systems.  The proof corrected the model once: on macOS there is no backup file,
and `LeftoversRecorded` now asks for one on Linux only.

### Instances_proofs

`UserIsServed` (`DaemonServesItsUser`).  The property says nothing of the entry between
`bind(2)` and the last change of its rights, so `PathInvariant` adds what each step of
`bind` has made of it, and that whoever is between taking the lock and the end of drop
has the lock: then no other daemon's step touches the entry (`EntryIsHolders`), and an
end of any kind frees the lock (`EndKeeps`).

`RunsAreAccounted`: `Basis` says where each run can be, with its stack and what it has yet
to do; `Apart`, as long as no two runs overlapped at the record, that one run acts at a
time, that the record covers what is on the machine, and what the run that acts has
done by now, command by command, or else a command in `failed` did not undo.  Two facts about the lists were not foreseen and had
to be added: a backup is still to come only while the override is, and what remains of an
undo only takes back.  `RunsAlwaysApart` (`RunsKeptApart`) and `RunsAlwaysUndoable`
(`RunLeavesNothing`) follow.  The proof also found that `RunsKeptApart` was too strong: a
prefix that the operator lists twice is refused by the kernel the second time, so the
part that says no command of a start fails now asks for distinct prefixes.  With undo
commands that fail, what an undone list leaves is in `failed` (`Left`), and whatever still
covers a later run's route is too (`InTheWay`).

### AndroidEngine_proofs

`EngineIsHeld` needs two things besides the properties: that every intent on its way was
a tap once, so that a start has a generation (`Budget`), and what RUNNING holds while
the main thread is inside `start` or `stop` (`HeldMeanwhile`).  `OneOwnEngineAlways`,
`StoppedStaysStopped` (`StoppedIsNotConnected`) and `InterfaceIsRead`
(`InterfaceHasOwner`) hold for any number of taps and revocations.

### Only model-checked

Liveness under fairness is beyond TLAPS: `EverythingReclaimed`, `AllStopTogether`,
`BacklogDrains`, `StreamChangesSeen`, `PacketsRead`, `WaitsEnd`, `ConnectSettles`,
`CrashIsUndone`, `EngineDeathNoticed` and `StopReturns` are checked by TLC on the
instances of section 3, and so are the two violations of section 6.

## 6. Where the code and its comments part

Two are runs expected to fail, with the shortest trace TLC finds.

- `flow_fin`: when the tunnel task has dropped its stream while the application is
  still sending, `pump_inbound` closes the socket with written chunks still queued:
  the application gets a clean, truncated stream.  `FinAfterWrites` is what does
  hold: no truncation while the task still reads.
- `android_start`: a second start replaces RUNNING under its lock, which drops the first
  runtime, which waits for a worker that waits for the lock.

The others are told by the models without a run of their own:

- *Shutdown deadline* (core.rs:489): it counts from bytes *entering* the socket, so a
  peer that is still acknowledging the last buffer is cut off.
- *Drop of a LocalStream*: it leads to a FIN; two comments in engine.rs say RST.
- *MAX_IDLE* is load-bearing after a device failed twice: under `NoBackstopSpec`,
  `PacketsRead` fails in `loop_broken`'s instance.
- *A record whose routes were never applied* is not harmless to revert: the revert
  restores a backup of the resolver configuration of an earlier session, from before
  the machine moved to another network.
- *A second client* of the helper is not answered until the first leaves
  (main.rs:95 says otherwise).
- *Two command-line runs that start together* can both pass the look at the record
  before either saves: state.rs:53-67 says why a live run is never read as dead, but
  a run that has not saved yet is not read at all.  `RunsKeptApart` and
  `RunLeavesNothing` exclude it by `overlapped`; without that conjunct TLC finds the two runs.
- *A dropped connection while authenticating* is reported as a rejected credential
  (ssh.rs:515 and 540, shadowsocks.rs:567 and 661, dispatch.rs:89), also to who has the
  right one, although dispatch.rs:82-88 wants only a real authentication failure
  reported as one.  `VerdictFits` names it as its one exception (`HungUpOn`).
- *An undo command that fails* is logged and the record is cleared all the same
  (route/mod.rs:255, state.rs:138-144, commands/connect.rs:279-284).  The pin or the
  resolver then stays with nothing to undo it, and the next run to the same server
  finds its pin refused.  `RunLeavesNothing` and `RunsKeptApart` name it as their
  exception (`failed`); in the helper it is a mishap.
- *stop* of the Android engine says "fully torn down before this returns"; the stack
  thread is told to end and not joined.
- *over_https.rs:168-172* says the connection task cannot outlive `query_one`; when
  the query times out it does, with its permit (`closing` in `Relay`).
- *config.rs*, at `import_ss_uri`, speaks of a probe that asks the first server only;
  `probe_once` asks each.

Behaviours the models reach and no property forbids, because the code promises
nothing: a route command that fails half way strands the pin of the server until the
record is recovered; a recycled pid makes recovery skip its record; SIGTERM waits for
the helper's client to leave, and the command line installs its handler only after the
routes are applied, so that an earlier signal acts like a kill; an engine that dies
with no client is noticed by the next one; a torn record makes every later
command-line run refuse to start; on macOS undoing sets the resolver to "Empty" and
so loses servers the user had entered; a refused consent or a double tap leaves a
profile staged; an SSH dial waits for a permit as long as flows hold them; the command
line accepts the two halves of the address space in test mode, which the helper
refuses; a server name for TLS that does not parse passes the editor; SSH with
`mode = "https"` and no DoH endpoint is refused by helper and app only after the
session is up; a relative DoH path written by hand lets an SSH tunnel come up in which
every query fails.

## 7. Not modelled, and the plan

Not modelled, and why:

- *App services and screens*: Dart code outside the core.  What the services send is
  what `ClientComes`, `ClientHangsUp` and the requests of `HelperDaemon`, and `Tap`,
  `Consent` and `Poll` of `AndroidEngine`, allow in any order.
- *Generated bindings* (`frb_generated.rs`), ciphers, the wire formats of SSH and
  Shadowsocks, TLS and HTTP, parsing of profiles and links: data without state over
  time, or external.  `Connect` keeps which field is wrong.
- *Installation scripts*: only the unit's `Restart=on-failure` matters, as fairness.
- *`NatTable::dns_inflight`*, which nothing outside its tests uses.
- *`Protocol::disconnect`*, which only the command line's probe calls; a tunnel ends by
  being dropped, which is `Connect`'s `Disconnect`.
- *Waiting for the TUN descriptor and opening it*, and how a peer's credentials are
  got from the kernel: I/O.

Next, in this order:

1. Abstract specifications for the two components that have none although they promise
   something simple: the permits as a bag that lends and takes back (`Relay`), and the
   helper as "at most one tunnel, on record before it exists" (`HelperDaemon`), each with
   its refinement proved from the invariants of section 5.
2. The safety half of the liveness properties as theorems: while a wait has a timer, its
   clock never passes the deadline (`WaitsEnd`), and between a kill and the next
   recovery the record is not lost (`CrashIsUndone`).
3. The drop of a runtime in `AndroidEngine` with a name lookup in a blocking thread as a
   step of its own.
