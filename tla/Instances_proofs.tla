-------------------------- MODULE Instances_proofs --------------------------
(***************************************************************************)
(* Any number of helpers may start, leave and die at one socket path: the  *)
(* one that serves is reached by its user and read by nobody else.  Any    *)
(* number of runs of the command line may share one record of routes: one  *)
(* at a time holds routes, and what outlives it is in the record, or was   *)
(* left by a command of an undo that failed.                               *)
(***************************************************************************)
EXTENDS Instances, RouteTable_proofs

----------------------------------------------------------------------------
(* The property is not inductive: it says nothing of the entry between     *)
(* bind(2) and the last change of its rights.  What makes it so is that    *)
(* whoever is between the lock and the end of drop has the lock, so that   *)
(* no other daemon touches the entry, and what each step of bind has made  *)
(* of the entry by then.                                                   *)

Holding == Binding \cup Dropping \cup {"serving"}

EntryOf(d, owner, private) == entry = [by |-> d, owner |-> owner, private |-> private]

BindProgress(d) ==
    /\ daemon[d] = "cleared" => entry = NoEntry
    /\ daemon[d] \in {"bound", "listener"} => EntryOf(d, Root, FALSE)
    /\ daemon[d] = "private" => EntryOf(d, Root, TRUE)
    /\ daemon[d] = "serving" => EntryOf(d, User, TRUE)

PathInvariant ==
    /\ SocketTypeOK
    /\ \A d \in Daemons : daemon[d] \in Holding => lock = d
    /\ \A d \in Daemons : BindProgress(d)
    /\ \A d \in Daemons : guests[d] \subseteq {User}

USE DEF Holding, Alive, Binding, Dropping

(* A path that nobody has touched.                                         *)
LEMMA PathInit == SocketInit => PathInvariant
  BY SocketPathAssumption
     DEF SocketInit, PathInvariant, SocketTypeOK, BindProgress, NoEntry, Entry, Uids

(* A daemon that moves on keeps the type.                                  *)
LEMMA MovesTyped ==
    ASSUME SocketTypeOK, NEW d \in Daemons, NEW s \in Alive \cup {"off", "gone"}, Moves(d, s)
    PROVE  /\ daemon' \in [Daemons -> Alive \cup {"off", "gone"}]
           /\ daemon'[d] = s
           /\ \A e \in Daemons \ {d} : daemon'[e] = daemon[e]
  BY DEF SocketTypeOK, Moves

(* The end of a process, whatever it leaves at the path: its lock is free. *)
LEMMA EndTyped ==
    ASSUME SocketTypeOK, NEW d \in Daemons, Ends(d), entry' \in Entry
    PROVE  /\ SocketTypeOK'
           /\ daemon'[d] = "gone"
           /\ \A e \in Daemons \ {d} : daemon'[e] = daemon[e]
           /\ guests' = guests
           /\ lock' = IF lock = d THEN Nobody ELSE lock
  BY MovesTyped DEF Ends, SocketTypeOK

(* Who has the lock is the only one whose step may touch the entry.        *)
LEMMA EntryIsHolders ==
    ASSUME PathInvariant, NEW d \in Daemons, daemon[d] \in Holding,
           daemon'[d] \in Holding \cup {"gone"},
           \A e \in Daemons \ {d} : daemon'[e] = daemon[e],
           guests' = guests,
           lock' = lock \/ (daemon'[d] = "gone" /\ lock' = Nobody),
           SocketTypeOK', BindProgress(d)'
    PROVE  PathInvariant'
  <1>1. lock = d
    BY DEF PathInvariant
  <1>2. \A e \in Daemons \ {d} : daemon'[e] = daemon[e] /\ daemon[e] \notin Holding
    BY <1>1 DEF PathInvariant
  <1>3. \A e \in Daemons : daemon'[e] \in Holding => lock' = e
    BY <1>1, <1>2
  <1>4. \A e \in Daemons : BindProgress(e)'
    BY <1>2 DEF BindProgress
  <1> QED
    BY <1>3, <1>4 DEF PathInvariant

(* An end that leaves the entry alone, of a daemon in whatever state.      *)
LEMMA EndKeeps ==
    ASSUME PathInvariant, NEW d \in Daemons, Ends(d), entry' = entry
    PROVE  PathInvariant'
  <1>1. /\ SocketTypeOK' /\ daemon'[d] = "gone" /\ guests' = guests
        /\ \A e \in Daemons \ {d} : daemon'[e] = daemon[e]
        /\ lock' = IF lock = d THEN Nobody ELSE lock
    BY EndTyped DEF PathInvariant, SocketTypeOK
  <1>2. \A e \in Daemons : daemon'[e] \in Holding => lock' = e
    BY <1>1 DEF PathInvariant
  <1>3. \A e \in Daemons : BindProgress(e)'
    BY <1>1 DEF PathInvariant, BindProgress, EntryOf
  <1> QED
    BY <1>1, <1>2, <1>3 DEF PathInvariant

----------------------------------------------------------------------------
(* The steps.                                                              *)

(* A process that starts touches nothing (main).                           *)
LEMMA StartKeeps ==
    ASSUME PathInvariant, NEW d \in Daemons, StartDaemon(d)
    PROVE  PathInvariant'
  BY MovesTyped DEF StartDaemon, PathInvariant, SocketTypeOK, BindProgress, EntryOf

(* The lock is had by nobody, so no other daemon holds anything.           *)
LEMMA AcquireKeeps ==
    ASSUME PathInvariant, NEW d \in Daemons, AcquireLock(d)
    PROVE  PathInvariant'
  <1>1. CASE Ends(d) /\ UNCHANGED entry
    BY <1>1, EndKeeps
  <1>2. CASE /\ LockFree /\ lock' = d /\ Moves(d, "locked")
             /\ UNCHANGED <<entry, caller, guests, tries>>
    <2>1. \A e \in Daemons : daemon[e] \notin Holding
      BY <1>2, SocketPathAssumption DEF LockFree, PathInvariant
    <2>2. /\ daemon' \in [Daemons -> Alive \cup {"off", "gone"}] /\ daemon'[d] = "locked"
          /\ \A e \in Daemons \ {d} : daemon'[e] = daemon[e]
      BY <1>2, MovesTyped DEF PathInvariant
    <2> QED
      BY <1>2, <2>1, <2>2 DEF PathInvariant, SocketTypeOK, BindProgress
  <1> QED
    BY <1>1, <1>2 DEF AcquireLock

(* Removing what an older daemon left is the holder's (Listener::bind).    *)
LEMMA RemoveKeeps ==
    ASSUME PathInvariant, NEW d \in Daemons, RemoveDebris(d)
    PROVE  PathInvariant'
  <1>1. CASE Ends(d) /\ UNCHANGED entry
    BY <1>1, EndKeeps
  <1>2. CASE entry' = NoEntry /\ Moves(d, "cleared") /\ UNCHANGED <<lock, caller, guests, tries>>
    <2>1. SocketTypeOK' /\ daemon'[d] = "cleared"
      BY <1>2, MovesTyped DEF PathInvariant, SocketTypeOK, NoEntry, Entry, Uids
    <2>2. BindProgress(d)'
      BY <1>2, <2>1 DEF BindProgress
    <2> QED
      BY <1>2, <2>1, <2>2, EntryIsHolders DEF RemoveDebris, BindProgress, EntryOf, Moves
  <1> QED
    BY <1>1, <1>2 DEF RemoveDebris

(* bind(2) makes an entry that root owns and everybody may see.            *)
LEMMA BindKeeps ==
    ASSUME PathInvariant, NEW d \in Daemons, BindSocket(d)
    PROVE  PathInvariant'
  <1>1. CASE Ends(d) /\ UNCHANGED entry
    BY <1>1, EndKeeps
  <1>2. CASE /\ entry' = [by |-> d, owner |-> Root, private |-> FALSE]
             /\ Moves(d, "bound") /\ UNCHANGED <<lock, caller, guests, tries>>
    <2>1. SocketTypeOK' /\ daemon'[d] = "bound"
      BY <1>2, MovesTyped DEF PathInvariant, SocketTypeOK, Entry, Uids
    <2>2. BindProgress(d)'
      BY <1>2, <2>1 DEF BindProgress, EntryOf
    <2> QED
      BY <1>2, <2>1, <2>2, EntryIsHolders DEF BindSocket, BindProgress, EntryOf, Moves
  <1> QED
    BY <1>1, <1>2 DEF BindSocket

(* A failed stat_path takes the entry away again.                          *)
LEMMA StatKeeps ==
    ASSUME PathInvariant, NEW d \in Daemons, StatSocket(d)
    PROVE  PathInvariant'
  <1>1. CASE Ends(d) /\ entry' = NoEntry
    <2>1. SocketTypeOK' /\ daemon'[d] = "gone" /\ guests' = guests /\ lock = d /\ lock' = Nobody
      BY <1>1, EndTyped DEF StatSocket, PathInvariant, NoEntry, Entry, Uids
    <2>2. BindProgress(d)'
      BY <2>1 DEF BindProgress
    <2> QED
      BY <1>1, <2>1, <2>2, EntryIsHolders DEF StatSocket, Ends, BindProgress, EntryOf, Moves
  <1>2. CASE Moves(d, "listener") /\ UNCHANGED <<lock, entry, caller, guests, tries>>
    <2>1. SocketTypeOK' /\ daemon'[d] = "listener"
      BY <1>2, MovesTyped DEF PathInvariant, SocketTypeOK
    <2>2. BindProgress(d)'
      BY <1>2, <2>1 DEF StatSocket, PathInvariant, BindProgress, EntryOf
    <2> QED
      BY <1>2, <2>1, <2>2, EntryIsHolders DEF StatSocket, BindProgress, EntryOf, Moves
  <1> QED
    BY <1>1, <1>2 DEF StatSocket

(* The change of mode, or the drop that its failure begins.                *)
LEMMA PrivateKeeps ==
    ASSUME PathInvariant, NEW d \in Daemons, MakePrivate(d)
    PROVE  PathInvariant'
  <1> PICK s \in {"private", "dropping"} :
         /\ Moves(d, s) /\ UNCHANGED <<lock, caller, guests, tries>>
         /\ entry' = IF s = "private" THEN [entry EXCEPT !.private = TRUE] ELSE entry
    BY DEF MakePrivate
  <1>1. SocketTypeOK' /\ daemon'[d] = s
    BY MovesTyped DEF PathInvariant, SocketTypeOK, Entry
  <1>2. entry = [by |-> d, owner |-> Root, private |-> FALSE]
    BY DEF MakePrivate, PathInvariant, BindProgress, EntryOf
  <1>3. s = "private" => entry' = [by |-> d, owner |-> Root, private |-> TRUE]
    BY <1>2
  <1>4. BindProgress(d)'
    BY <1>1, <1>3 DEF BindProgress, EntryOf
  <1> QED
    BY <1>1, <1>4, EntryIsHolders DEF MakePrivate, BindProgress, EntryOf, Moves

(* The change of owner, after which the daemon serves.                     *)
LEMMA GiveKeeps ==
    ASSUME PathInvariant, NEW d \in Daemons, GiveToAuthorizedUid(d)
    PROVE  PathInvariant'
  <1> PICK s \in {"serving", "dropping"} :
         /\ Moves(d, s) /\ UNCHANGED <<lock, caller, guests, tries>>
         /\ entry' = IF s = "serving" THEN [entry EXCEPT !.owner = User] ELSE entry
    BY DEF GiveToAuthorizedUid
  <1>1. SocketTypeOK' /\ daemon'[d] = s
    BY MovesTyped DEF PathInvariant, SocketTypeOK, Entry, Uids
  <1>2. entry = [by |-> d, owner |-> Root, private |-> TRUE]
    BY DEF GiveToAuthorizedUid, PathInvariant, BindProgress, EntryOf
  <1>3. s = "serving" => entry' = [by |-> d, owner |-> User, private |-> TRUE]
    BY <1>2
  <1>4. BindProgress(d)'
    BY <1>1, <1>3 DEF BindProgress, EntryOf
  <1> QED
    BY <1>1, <1>4, EntryIsHolders DEF GiveToAuthorizedUid, BindProgress, EntryOf, Moves

(* A connection waits to be accepted and changes nothing else.             *)
LEMMA ConnectsKeeps ==
    ASSUME PathInvariant, NEW u \in Uids, ClientConnects(u)
    PROVE  PathInvariant'
  <1>1. tries' \in 0 .. MaxClients
    BY SocketPathAssumption DEF ClientConnects, PathInvariant, SocketTypeOK
  <1>2. caller' \in [Daemons -> Uids \cup {Nobody}]
    BY DEF ClientConnects, PathInvariant, SocketTypeOK
  <1>3. SocketTypeOK'
    BY <1>1, <1>2 DEF ClientConnects, PathInvariant, SocketTypeOK
  <1> QED
    BY <1>3 DEF ClientConnects, PathInvariant, BindProgress, EntryOf

(* authorize_peer turns everybody else away.                               *)
LEMMA AcceptKeeps ==
    ASSUME PathInvariant, NEW d \in Daemons, AcceptPeer(d)
    PROVE  PathInvariant'
  <1>1. guests' \in [Daemons -> SUBSET Uids] /\ \A e \in Daemons : guests'[e] \subseteq {User}
    BY DEF AcceptPeer, Authorized, PathInvariant, SocketTypeOK, Uids
  <1>2. SocketTypeOK'
    BY <1>1 DEF AcceptPeer, PathInvariant, SocketTypeOK
  <1> QED
    BY <1>1, <1>2 DEF AcceptPeer, PathInvariant, BindProgress, EntryOf

(* A daemon that stops serving still has lock and entry.                   *)
LEMMA StopKeeps ==
    ASSUME PathInvariant, NEW d \in Daemons, StopServing(d)
    PROVE  PathInvariant'
  <1>1. SocketTypeOK' /\ daemon'[d] = "dropping"
    BY MovesTyped DEF StopServing, PathInvariant, SocketTypeOK
  <1>2. BindProgress(d)'
    BY <1>1 DEF BindProgress
  <1> QED
    BY <1>1, <1>2, EntryIsHolders DEF StopServing, BindProgress, EntryOf, Moves

(* Drop looks first whether the entry is its own.                          *)
LEMMA DropStatsKeeps ==
    ASSUME PathInvariant, NEW d \in Daemons, DropStats(d)
    PROVE  PathInvariant'
  <1>1. CASE Ends(d)
    BY <1>1, EndKeeps DEF DropStats
  <1>2. CASE Moves(d, "unlinking") /\ UNCHANGED <<lock, caller, guests, tries>>
    <2>1. SocketTypeOK' /\ daemon'[d] = "unlinking"
      BY <1>2, MovesTyped DEF DropStats, PathInvariant, SocketTypeOK
    <2>2. BindProgress(d)'
      BY <2>1 DEF BindProgress
    <2> QED
      BY <1>2, <2>1, <2>2, EntryIsHolders DEF DropStats, BindProgress, EntryOf, Moves
  <1> QED
    BY <1>1, <1>2 DEF DropStats

(* Drop unlinks under the lock, which goes last.                           *)
LEMMA DropUnlinksKeeps ==
    ASSUME PathInvariant, NEW d \in Daemons, DropUnlinks(d)
    PROVE  PathInvariant'
  <1>1. SocketTypeOK' /\ daemon'[d] = "gone" /\ guests' = guests /\ lock = d /\ lock' = Nobody
    BY EndTyped DEF DropUnlinks, PathInvariant, NoEntry, Entry, Uids
  <1>2. BindProgress(d)'
    BY <1>1 DEF BindProgress
  <1> QED
    BY <1>1, <1>2, EntryIsHolders DEF DropUnlinks, Ends, BindProgress, EntryOf, Moves

(* Every step of every daemon and every client keeps the invariant.        *)
LEMMA PathStep == PathInvariant /\ [SocketNext]_socketVars => PathInvariant'
  <1> SUFFICES ASSUME PathInvariant, [SocketNext]_socketVars
               PROVE  PathInvariant'
    OBVIOUS
  <1>1. CASE UNCHANGED socketVars
    BY <1>1 DEF socketVars, PathInvariant, SocketTypeOK, BindProgress, EntryOf
  <1>2. ASSUME NEW u \in Uids, ClientConnects(u)
        PROVE  PathInvariant'
    BY <1>2, ConnectsKeeps
  <1>3. ASSUME NEW d \in Daemons, DaemonMoves(d)
        PROVE  PathInvariant'
    <2>1. CASE StartDaemon(d) \/ AcquireLock(d) \/ RemoveDebris(d) \/ BindSocket(d)
      BY <2>1, StartKeeps, AcquireKeeps, RemoveKeeps, BindKeeps
    <2>2. CASE StatSocket(d) \/ MakePrivate(d) \/ GiveToAuthorizedUid(d) \/ AcceptPeer(d)
      BY <2>2, StatKeeps, PrivateKeeps, GiveKeeps, AcceptKeeps
    <2>3. CASE StopServing(d) \/ DropStats(d) \/ DropUnlinks(d)
      BY <2>3, StopKeeps, DropStatsKeeps, DropUnlinksKeeps
    <2>4. CASE KillDaemon(d)
      BY <2>4, EndKeeps DEF KillDaemon
    <2> QED
      BY <1>3, <2>1, <2>2, <2>3, <2>4 DEF DaemonMoves
  <1> QED
    BY <1>1, <1>2, <1>3 DEF SocketNext

----------------------------------------------------------------------------
(* Whatever program the machine runs, and however many processes of it, a  *)
(* daemon that serves has the entry and the lock to itself, under its      *)
(* user's name, and has read nobody else (listener.rs, authorize_peer).    *)
THEOREM UserIsServed == Spec => []DaemonServesItsUser
  <1>1. Init => PathInvariant
    BY PathInit DEF Init
  <1>2. PathInvariant /\ [Next]_vars => PathInvariant'
    <2>1. [Next]_vars => [SocketNext]_socketVars
      BY DEF Next, vars
    <2> QED
      BY <2>1, PathStep
  <1>3. PathInvariant => DaemonServesItsUser
    BY DEF PathInvariant, BindProgress, EntryOf, DaemonServesItsUser
  <1> QED
    BY <1>1, <1>2, <1>3, PTL DEF Spec
----------------------------------------------------------------------------
(* The runs of the command line.  That one at a time holds routes is not   *)
(* inductive either: it rests on where every run is between its look and   *)
(* its record, and on what the one that acts has done to the machine and   *)
(* has yet to do, command by command.                                      *)

Stages == Live \cup {"off", "gone"}
Stacks == {"none", "up", "died", "shut"}
RunStates == [Runs -> [stage : Stages, mode : RouteMode, server : Servers,
                       todo : Seq(Steps), stack : Stacks]]

Todo(r) == run[r].todo
Within(r) == run[r].stage \in {"apply", "running"}
Acts(r) == run[r].stage \in Looked \/ Holds(r)
Own(r) == [by |-> r, plan |-> Plan(r)]
OnceEach(r) == IsInjective(Captured(Plan(r)))

RunsTyped ==
    /\ RunTypeOK /\ Sound(manager, net)
    /\ \A r \in Runs : Todo(r) \in Seq(Cmds(manager) \cup {Shutdown, Clear})

(* Where a run can be with its stack as it is, and steps t yet to take.    *)
StackFits(s, t, k) ==
    /\ s \in {"off", "dial", "device", "gone"} => k = "none"
    /\ s \in Looked \cup {"gateway", "look", "apply", "running"} => k \in {"up", "died"}
    /\ s = "stop" => \/ k = "up" /\ Shutdown \in Range(t)
                     \/ k = "died"
                     \/ k = "shut" /\ Range(t) \subseteq {Clear}

Devices ==
    /\ net.devices = {r \in Runs : run[r].stack = "up"}
    /\ \A x \in net.routes : x.via \in net.devices \cup {"gateway"}
    /\ \A r \in Runs : StackFits(run[r].stage, Todo(r), run[r].stack)

ThenClear(t) == \A j, k \in DOMAIN t : t[j] = Shutdown /\ j < k => t[k] = Clear

(* The commands that take something back.                                   *)
Undoing(mg) == {Del(x) : x \in Routes} \cup {Resets(mg)}

(* The steps that a run of plan p has yet to take, by where it is.         *)
Listed(p, s, t) ==
    /\ s \notin {"apply", "stop", "undo"} => t = <<>>
    /\ s = "apply" => /\ Range(t) \subseteq ToApply(manager, p) /\ OnlyLast(Override, t)
                      /\ Backup \in Range(t) => Override \in Range(t)
                      /\ IsInjective(Captured(p)) => IsInjective(t)
    /\ s = "stop" => /\ Range(t) \subseteq ToRevert(manager, p) \cup {Shutdown, Clear}
                     /\ OnlyLast(Clear, t) /\ ThenClear(t)
                     /\ IsInjective(Captured(p)) => IsInjective(t)
    /\ s = "undo" => /\ Range(t) \subseteq Undoing(manager) \cup {Clear} /\ OnlyLast(Clear, t)
                     /\ t # <<>> => Clear \in Range(t)

Basis ==
    /\ RunsTyped /\ Devices
    /\ \A r \in Runs : Listed(Plan(r), run[r].stage, Todo(r))

(* A start that can go no further: a prefix that is there already, or      *)
(* whose device is not, is yet to be added.                                *)
Stuck(r) == \E x \in Laid(Plan(r)) :
    /\ Add(x) \in Range(Todo(r)) /\ x.via = r
    /\ Twice(Add(x), Todo(r)) \/ x \in net.routes \/ r \notin net.devices

(* The resolver's undo failed and left the tunnel's.                       *)
Tainted == Resets(manager) \in failed

Applying(r) ==
    /\ record = Own(r)
    /\ \A x \in Laid(Plan(r)) :
          /\ OnceEach(r) /\ Add(x) \in Range(Todo(r)) => x \notin net.routes \/ Del(x) \in failed
          /\ x.via \in {"gateway"} \cup net.devices =>
                x \in net.routes \/ Add(x) \in Range(Todo(r))
    /\ run[r].mode = "default" /\ Override \notin Range(Todo(r)) => net.resolv = TunnelDns
    /\ net.resolv = TunnelDns =>
          Tainted \/ (run[r].mode = "default" /\ Override \notin Range(Todo(r)))
    /\ manager = "linux" /\ run[r].mode = "default" =>
          Backup \in Range(Todo(r)) \/ net.backup # NoBackup
    /\ OnceEach(r) \/ Stuck(r)

Stopping(r) ==
    /\ record = Own(r)
    /\ OnceEach(r)
    /\ \A x \in Laid(Plan(r)) :
          /\ x \in net.routes => Del(x) \in Range(Todo(r)) \cup failed
          /\ Del(x) \in Range(Todo(r)) /\ run[r].stack # "died" => x \in net.routes
    /\ net.resolv = TunnelDns => Resets(manager) \in Range(Todo(r)) \/ Tainted
    /\ manager = "linux" /\ run[r].mode = "default" => net.backup # NoBackup

(* All that is left is what undo commands failed to take back.             *)
Bare == /\ \A x \in net.routes : Del(x) \in failed
        /\ net.resolv = TunnelDns => Tainted

UndoingOlder(r) ==
    IF Todo(r) = <<>> THEN Bare
    ELSE /\ record \notin {Absent, Torn}
         /\ \A x \in net.routes : Del(x) \in Range(Todo(r)) \cup failed
         /\ net.resolv = TunnelDns => Resets(manager) \in Range(Todo(r)) \/ Tainted

(* What the one run that acts has made of record and machine.              *)
Acted(r) ==
    /\ Within(r) => Applying(r)
    /\ run[r].stage = "stop" /\ Todo(r) # <<>> => Stopping(r)
    /\ run[r].stage = "undo" => UndoingOlder(r)
    /\ run[r].stage = "save" => Bare
    /\ run[r].stage = "writing" => record = Torn

Covers ==
    IF record \in {Absent, Torn}
    THEN (\A x \in Pins(net) : Del(x) \in failed) /\ (net.resolv = TunnelDns => Tainted)
    ELSE /\ \A x \in Pins(net) : x \in Outlives(record.plan) \/ Del(x) \in failed
         /\ net.resolv = TunnelDns => record.plan.mode = "default" \/ Tainted

BackupFits ==
    /\ net.backup = TunnelDns => manager = "linux" /\ net.resolv = TunnelDns
    /\ manager = "linux" /\ net.resolv = TunnelDns => net.backup \in Lans \/ Tainted

Apart ==
    /\ \A r, q \in Runs : Acts(r) /\ Acts(q) => r = q
    /\ \A x \in net.routes \ Pins(net) : Holds(x.via) /\ x \in Laid(Plan(x.via))
    /\ Covers /\ BackupFits
    /\ \A r \in Runs : Acted(r)

RunsInvariant == Basis /\ (~overlapped => Apart)

----------------------------------------------------------------------------
(* One run moves.                                                          *)

(* Run r is at s now, with t to do and its stack k; the others stand.      *)
Turns(r, s, t, k) ==
    /\ run' \in RunStates
    /\ run'[r].stage = s /\ run'[r].todo = t /\ run'[r].stack = k
    /\ \A q \in Runs \ {r} : run'[q] = run[q]
    /\ \A q \in Runs : Plan(q)' = Plan(q) /\ run'[q].mode = run[q].mode
    /\ manager' = manager

AllSteps == Cmds(manager) \cup {Shutdown, Clear}

(* Every command of a platform is a step.                                  *)
LEMMA StepsOf ==
    ASSUME NEW t \in Seq(AllSteps)
    PROVE  t \in Seq(Steps)
  <1>1. \A r \in Routes : Add(r) \in Steps /\ Del(r) \in Steps
    BY DEF Steps, Add, Del
  <1>2. AllSteps \subseteq Steps
    BY <1>1 DEF AllSteps, Cmds, Steps
  <1>3. t \in [1 .. Len(t) -> AllSteps] /\ Len(t) \in Nat
    BY LenProperties
  <1>4. t \in [1 .. Len(t) -> Steps]
    BY <1>2, <1>3
  <1> QED
    BY <1>3, <1>4, SeqDef

(* The plan of a run.                                                      *)
LEMMA PlanTyped ==
    ASSUME RunsTyped, NEW r \in Runs
    PROVE  Plan(r) \in RoutePlan /\ Plan(r).interface = r /\ r \in Interfaces /\ r # "gateway"
           /\ Plan(r).mode = run[r].mode /\ Plan(r).server = run[r].server
           /\ run[r].mode \in {"test", "default"} /\ run[r].stage \in Stages
           /\ run[r].stack \in Stacks
  BY RunsAssumption, RouteTableAssumption
     DEF RunsTyped, RunTypeOK, RoutePlan, Plan, RouteMode, Stages, Stacks

(* A change of some fields of one run.                                     *)
LEMMA Turned ==
    ASSUME RunsTyped, NEW r \in Runs, NEW s \in Stages, NEW t \in Seq(AllSteps), NEW k \in Stacks,
           run' = [run EXCEPT ![r] = [run[r] EXCEPT !.stage = s, !.todo = t, !.stack = k]],
           manager' = manager
    PROVE  Turns(r, s, t, k)
  <1>1. run \in RunStates
    BY DEF RunsTyped, RunTypeOK, RunStates, Stages, Stacks
  <1>2. t \in Seq(Steps)
    BY StepsOf
  <1> DEFINE m == [run[r] EXCEPT !.stage = s, !.todo = t, !.stack = k]
  <1>3. /\ m \in [stage : Stages, mode : RouteMode, server : Servers,
                  todo : Seq(Steps), stack : Stacks]
        /\ m.stage = s /\ m.todo = t /\ m.stack = k
        /\ m.mode = run[r].mode /\ m.server = run[r].server
    BY <1>1, <1>2 DEF RunStates
  <1> HIDE DEF m
  <1>4. /\ run' \in RunStates /\ run'[r] = m
        /\ \A q \in Runs \ {r} : run'[q] = run[q]
    BY <1>1, <1>3 DEF RunStates, m
  <1>5. \A q \in Runs : run'[q].mode = run[q].mode /\ run'[q].server = run[q].server
    BY <1>3, <1>4
  <1>6. \A q \in Runs : Plan(q)' = Plan(q)
    BY <1>5 DEF Plan
  <1> QED
    BY <1>3, <1>4, <1>5, <1>6 DEF Turns

(* The forms in which the actions say it.                                  *)
LEMMA GoesTurns ==
    ASSUME RunsTyped, NEW r \in Runs, NEW s \in Stages, NEW t \in Seq(AllSteps),
           Goes(r, s, t), manager' = manager
    PROVE  Turns(r, s, t, run[r].stack)
  <1> DEFINE k == run[r].stack
  <1>1. run \in RunStates
    BY DEF RunsTyped, RunTypeOK, RunStates, Stages, Stacks
  <1>2. k \in Stacks /\ run[r] = [run[r] EXCEPT !.stack = k]
    BY <1>1 DEF RunStates
  <1>3. run' = [run EXCEPT ![r] = [run[r] EXCEPT !.stage = s, !.todo = t, !.stack = k]]
    BY <1>1 DEF Goes, RunStates
  <1> HIDE DEF k
  <1>4. Turns(r, s, t, k)
    BY <1>2, <1>3, Turned
  <1> QED
    BY <1>4 DEF k

(* A run whose process ends turns so too.                                  *)
LEMMA GoneTurns ==
    ASSUME RunsTyped, NEW r \in Runs, Gone(r), manager' = manager
    PROVE  Turns(r, "gone", <<>>, "none")
  <1>1. run' = [run EXCEPT ![r] = [run[r] EXCEPT !.stage = "gone", !.todo = <<>>,
                                                 !.stack = "none"]]
    BY DEF Gone, RunsTyped, RunTypeOK
  <1>2. "gone" \in Stages /\ "none" \in Stacks /\ <<>> \in Seq(AllSteps)
    BY EmptySeq DEF Stages, Stacks
  <1> QED
    BY <1>1, <1>2, Turned
(* How the lists of steps stay what they are said to be.                   *)
LEMMA BasisKept ==
    ASSUME Basis, NEW r \in Runs, NEW s \in Stages, NEW t \in Seq(AllSteps), NEW k \in Stacks,
           Turns(r, s, t, k),
           record' \in {Absent, Torn} \cup [by : Runs, plan : RoutePlan],
           overlapped' \in BOOLEAN, failed' \subseteq Steps, Sound(manager, net'),
           net'.devices = IF k = "up" THEN net.devices \cup {r} ELSE net.devices \ {r},
           \A x \in net'.routes : x.via \in net'.devices \cup {"gateway"},
           StackFits(s, t, k), Listed(Plan(r), s, t)
    PROVE  Basis'
  <1>1. /\ manager' = manager /\ run' \in RunStates
        /\ run'[r].stage = s /\ run'[r].todo = t /\ run'[r].stack = k
        /\ \A q \in Runs \ {r} : run'[q] = run[q]
        /\ \A q \in Runs : Plan(q)' = Plan(q)
    BY DEF Turns
  <1>2. RunTypeOK'
    <2>1. manager \in {"linux", "macos"} /\ net' \in Net
      BY DEF Basis, RunsTyped, RunTypeOK, Sound
    <2> QED
      BY <1>1, <2>1 DEF RunTypeOK, RunStates, Stages, Stacks
  <1>3. \A q \in Runs : Todo(q)' \in Seq(Cmds(manager') \cup {Shutdown, Clear})
    <2>1. \A q \in Runs : Todo(q) \in Seq(AllSteps)
      BY DEF Basis, RunsTyped, AllSteps
    <2>2. \A q \in Runs : Todo(q)' \in Seq(AllSteps)
      BY <1>1, <2>1 DEF Todo
    <2> QED
      BY <1>1, <2>2 DEF AllSteps
  <1>4. Devices'
    <2>1. net.devices = {q \in Runs : run[q].stack = "up"}
      BY DEF Basis, Devices
    <2>2. net'.devices = {q \in Runs : run'[q].stack = "up"}
      BY <1>1, <2>1
    <2>3. \A q \in Runs : StackFits(run[q].stage, Todo(q), run[q].stack)
      BY DEF Basis, Devices
    <2>4. \A q \in Runs : StackFits(run'[q].stage, run'[q].todo, run'[q].stack)
      BY <1>1, <2>3 DEF Todo
    <2> QED
      BY <2>2, <2>4 DEF Devices, Todo
  <1>5. \A q \in Runs : Listed(Plan(q), run[q].stage, Todo(q))'
    <2>1. ASSUME NEW q \in Runs, q # r
          PROVE  Listed(Plan(q), run[q].stage, Todo(q))'
      <3>1. Listed(Plan(q), run[q].stage, Todo(q))
        BY DEF Basis
      <3>2. Plan(q)' = Plan(q) /\ run'[q] = run[q] /\ manager' = manager
        BY <1>1, <2>1
      <3> QED
        BY <3>1, <3>2 DEF Listed, Todo
    <2>2. Listed(Plan(r), run[r].stage, Todo(r))'
      <3>1. Plan(r)' = Plan(r) /\ run'[r].stage = s /\ run'[r].todo = t /\ manager' = manager
        BY <1>1
      <3> QED
        BY <3>1 DEF Listed, Todo
    <2> QED
      BY <2>1, <2>2
  <1>6. Sound(manager, net)'
    BY <1>1
  <1> QED
    BY <1>2, <1>3, <1>4, <1>5, <1>6 DEF Basis, RunsTyped

(* A run that takes no steps of a list.                                    *)
LEMMA NothingToDo ==
    ASSUME NEW p, NEW s, s \notin {"apply", "stop", "undo"}
    PROVE  Listed(p, s, <<>>) /\ <<>> \in Seq(AllSteps)
  BY EmptySeq DEF Listed

(* A run whose process ends.                                               *)
LEMMA BasisGone ==
    ASSUME Basis, NEW r \in Runs, Gone(r), manager' = manager, overlapped' \in BOOLEAN,
           failed' = failed, record' = record
    PROVE  /\ Turns(r, "gone", <<>>, "none") /\ Basis'
           /\ net'.devices = net.devices \ {r}
           /\ net'.routes = {x \in net.routes : x.via # r} /\ Pins(net') = Pins(net)
           /\ net'.resolv = net.resolv /\ net'.backup = net.backup
  <1>1. RunsTyped
    BY DEF Basis
  <1>2. Turns(r, "gone", <<>>, "none")
    BY <1>1, GoneTurns
  <1>3. /\ Sound(manager, net') /\ net'.devices = net.devices \ {r}
        /\ net'.routes = {x \in net.routes : x.via # r} /\ Pins(net') = Pins(net)
        /\ net'.resolv = net.resolv /\ net'.backup = net.backup
    <2>1. r \in Interfaces /\ Sound(manager, net) /\ net' = WithoutDevice(net, r)
      BY <1>1, PlanTyped DEF RunsTyped, Gone
    <2> QED
      BY <2>1, DeviceGone
  <1>4. \A x \in net'.routes : x.via \in net'.devices \cup {"gateway"}
    BY <1>3 DEF Basis, Devices
  <1>5. StackFits("gone", <<>>, "none") /\ Listed(Plan(r), "gone", <<>>)
        /\ "gone" \in Stages /\ "none" \in Stacks /\ <<>> \in Seq(AllSteps)
    BY NothingToDo DEF StackFits, Stages, Stacks, Looked
  <1>6. record' \in {Absent, Torn} \cup [by : Runs, plan : RoutePlan] /\ failed' \subseteq Steps
    BY <1>1 DEF RunsTyped, RunTypeOK
  <1>7. net'.devices = IF "none" = "up" THEN net.devices \cup {r} ELSE net.devices \ {r}
    BY <1>3
  <1>8. Basis'
    BY <1>2, <1>3, <1>4, <1>5, <1>6, <1>7, BasisKept
  <1> QED
    BY <1>2, <1>3, <1>8

(* A run that goes on with the machine as it is, or with its routes and    *)
(* resolver changed.                                                       *)
LEMMA BasisGoes ==
    ASSUME Basis, NEW r \in Runs, NEW s \in Stages, NEW t \in Seq(AllSteps),
           Goes(r, s, t), manager' = manager, overlapped' \in BOOLEAN, failed' \subseteq Steps,
           record' \in {Absent, Torn} \cup [by : Runs, plan : RoutePlan],
           Sound(manager, net'), net'.devices = net.devices,
           \A x \in net'.routes : x.via \in net.devices \cup {"gateway"},
           StackFits(s, t, run[r].stack), Listed(Plan(r), s, t)
    PROVE  Turns(r, s, t, run[r].stack) /\ Basis'
  <1>1. RunsTyped
    BY DEF Basis
  <1>2. Turns(r, s, t, run[r].stack)
    BY <1>1, GoesTurns
  <1>3. run[r].stack \in Stacks
    BY <1>1, PlanTyped
  <1>4. net'.devices = IF run[r].stack = "up" THEN net.devices \cup {r} ELSE net.devices \ {r}
    BY DEF Basis, Devices
  <1>5. \A x \in net'.routes : x.via \in net'.devices \cup {"gateway"}
    OBVIOUS
  <1>6. Basis'
    BY <1>2, <1>3, <1>4, <1>5, BasisKept
  <1> QED
    BY <1>2, <1>6

(* A run that goes on and changes nothing of the machine.                  *)
LEMMA BasisCalm ==
    ASSUME Basis, NEW r \in Runs, NEW s \in Stages, NEW t \in Seq(AllSteps),
           Goes(r, s, t), manager' = manager, overlapped' \in BOOLEAN, failed' \subseteq Steps,
           record' \in {Absent, Torn} \cup [by : Runs, plan : RoutePlan],
           net' = net, StackFits(s, t, run[r].stack), Listed(Plan(r), s, t)
    PROVE  Turns(r, s, t, run[r].stack) /\ Basis'
  <1>1. Sound(manager, net') /\ net'.devices = net.devices
        /\ \A x \in net'.routes : x.via \in net.devices \cup {"gateway"}
    BY DEF Basis, Devices, RunsTyped
  <1> QED
    BY <1>1, BasisGoes

----------------------------------------------------------------------------
(* What the runs that stand still keep.                                    *)

(* A run that does not act has nothing to answer for.                      *)
LEMMA Idle ==
    ASSUME NEW r \in Runs
    PROVE  (~Acts(r) => Acted(r)) /\ (~Acts(r)' => Acted(r)')
  BY DEF Acts, Acted, Looked, Holds, Within, Todo

(* What a run that stands still has made stays what it was, as long as the *)
(* record, the routes and the resolver do.                                 *)
LEMMA StandsBy ==
    ASSUME RunsTyped, NEW r \in Runs, NEW s, NEW t, NEW k, Turns(r, s, t, k),
           NEW q \in Runs, q # r, Acted(q), record' = record, failed' = failed,
           net'.routes = net.routes, net'.resolv = net.resolv, net'.backup = net.backup,
           q \in net'.devices <=> q \in net.devices
    PROVE  Acted(q)'
  <1>1. run'[q] = run[q] /\ Plan(q)' = Plan(q) /\ manager' = manager /\ Tainted' = Tainted
    BY DEF Turns, Tainted, Resets
  <1>2. Todo(q)' = Todo(q) /\ OnceEach(q)' = OnceEach(q) /\ Own(q)' = Own(q)
        /\ Within(q)' = Within(q)
    BY <1>1 DEF Todo, OnceEach, Own, Within
  <1>3. \A x \in Laid(Plan(q)) : x.via = q \/ x.via = "gateway"
    BY PlanTyped, LaidRoutes
  <1>4. Within(q) => Applying(q)'
    <2>1. HAVE Within(q)
    <2>2. Applying(q)
      BY <2>1 DEF Acted
    <2>3. Stuck(q) => Stuck(q)'
      BY <1>1, <1>2 DEF Stuck
    <2>4. \A x \in Laid(Plan(q)) :
             x.via \in {"gateway"} \cup net'.devices => x.via \in {"gateway"} \cup net.devices
      BY <1>3
    <2> QED
      BY <1>1, <1>2, <2>2, <2>3, <2>4 DEF Applying
  <1>5. Stopping(q) => Stopping(q)'
    BY <1>1, <1>2 DEF Stopping, Resets
  <1>6. UndoingOlder(q) => UndoingOlder(q)'
    BY <1>1, <1>2 DEF UndoingOlder, Bare, Resets
  <1>7. Bare => Bare'
    BY <1>1 DEF Bare
  <1> QED
    BY <1>1, <1>2, <1>4, <1>5, <1>6, <1>7 DEF Acted

(* Whether a run that stands still acts.                                   *)
LEMMA ActsStands ==
    ASSUME NEW r \in Runs, NEW s, NEW t, NEW k, Turns(r, s, t, k)
    PROVE  /\ \A q \in Runs \ {r} : (Acts(q)' <=> Acts(q)) /\ (Holds(q)' <=> Holds(q))
           /\ \A q \in Runs : Plan(q)' = Plan(q)
  BY DEF Turns, Acts, Holds

(* A run alone acts, and answers for everything there is.                  *)
LEMMA SoleKeeps ==
    ASSUME NEW r \in Runs, NEW s, NEW t, NEW k, Turns(r, s, t, k),
           \A q \in Runs \ {r} : ~Acts(q),
           \A x \in net'.routes \ Pins(net') : x.via = r /\ Holds(r)' /\ x \in Laid(Plan(r)),
           Covers', BackupFits', Acted(r)'
    PROVE  Apart'
  <1>1. \A q \in Runs \ {r} : ~Acts(q)'
    BY ActsStands
  <1>2. \A q \in Runs : Acted(q)'
    BY <1>1, Idle
  <1>3. Plan(r)' = Plan(r)
    BY ActsStands
  <1>4. \A x \in (net.routes \ Pins(net))' : Holds(x.via)' /\ x \in Laid(Plan(x.via)')
    BY <1>3
  <1> QED
    BY <1>1, <1>2, <1>4 DEF Apart

(* A run that no longer acts, or never did, leaves the others as they are. *)
LEMMA LeavesQuiet ==
    ASSUME Basis, Apart, Basis', NEW r \in Runs, NEW s, NEW t, NEW k, Turns(r, s, t, k),
           ~Acts(r)', record' = record, failed' = failed,
           net'.resolv = net.resolv, net'.backup = net.backup,
           net'.routes \subseteq net.routes, Pins(net') = Pins(net),
           \A x \in net.routes : x.via # r => x \in net'.routes,
           \A q \in Runs \ {r} : q \in net'.devices <=> q \in net.devices,
           ~Acts(r) \/ r \notin net'.devices
    PROVE  Apart'
  <1>1. RunsTyped /\ manager' = manager /\ r # "gateway" /\ Tainted' = Tainted
    BY PlanTyped DEF Basis, Turns, Tainted, Resets
  <1>2. \A x \in net'.routes : x.via # r
    <2>1. CASE ~Acts(r)
      <3>1. ~Holds(r)
        BY <2>1 DEF Acts
      <3>2. \A x \in net.routes : x.via = r => x \notin Pins(net)
        BY <1>1 DEF Pins
      <3> QED
        BY <3>1, <3>2 DEF Apart
    <2>2. CASE r \notin net'.devices
      BY <1>1, <2>2 DEF Basis, Devices
    <2> QED
      BY <2>1, <2>2
  <1>3. \A x \in net'.routes \ Pins(net') : Holds(x.via)' /\ x \in Laid(Plan(x.via)')
    <2>1. SUFFICES ASSUME NEW x \in net'.routes, x \notin Pins(net')
                   PROVE  Holds(x.via)' /\ x \in Laid(Plan(x.via)')
      OBVIOUS
    <2>2. x.via # r /\ x \in net.routes \ Pins(net)
      BY <1>2, <2>1
    <2>3. x.via \in Runs
      BY <2>2 DEF Basis, Devices, Pins
    <2>4. Holds(x.via) /\ x \in Laid(Plan(x.via))
      BY <2>2 DEF Apart
    <2> QED
      BY <2>2, <2>3, <2>4, ActsStands
  <1>4. \A q \in Runs : Acted(q)'
    <2>1. Acted(r)'
      BY Idle
    <2>2. ASSUME NEW q \in Runs, q # r, Acts(q)
          PROVE  Acted(q)'
      <3>1. ~Acts(r) /\ Acted(q)
        BY <2>2 DEF Apart
      <3>2. \A x \in net.routes : x.via # r
        <4>1. \A x \in net.routes : x.via = r => x \notin Pins(net)
          BY <1>1 DEF Pins
        <4> QED
          BY <3>1, <4>1 DEF Apart, Acts
      <3>3. net'.routes = net.routes
        BY <3>2
      <3> QED
        BY <1>1, <2>2, <3>1, <3>3, StandsBy
    <2> QED
      BY <2>1, <2>2, ActsStands, Idle
  <1>5. \A q, p \in Runs : Acts(q)' /\ Acts(p)' => q = p
    BY ActsStands DEF Apart
  <1>6. Covers'
    BY <1>1 DEF Apart, Covers
  <1>7. BackupFits'
    BY <1>1 DEF Apart, BackupFits
  <1> QED
    BY <1>3, <1>4, <1>5, <1>6, <1>7 DEF Apart

(* A run that ends.                                                        *)
LEMMA GoneKeeps ==
    ASSUME RunsInvariant, NEW r \in Runs, Gone(r), manager' = manager,
           overlapped' = overlapped, failed' = failed, record' = record
    PROVE  RunsInvariant'
  <1>1. Basis /\ overlapped' \in BOOLEAN
    BY DEF RunsInvariant, Basis, RunsTyped, RunTypeOK
  <1>2. /\ Turns(r, "gone", <<>>, "none") /\ Basis'
        /\ net'.devices = net.devices \ {r}
        /\ net'.routes = {x \in net.routes : x.via # r} /\ Pins(net') = Pins(net)
        /\ net'.resolv = net.resolv /\ net'.backup = net.backup
    BY <1>1, BasisGone
  <1>3. ~Acts(r)'
    BY <1>2 DEF Turns, Acts, Holds, Looked
  <1>4. ASSUME Apart
        PROVE  Apart'
    BY <1>1, <1>2, <1>3, <1>4, LeavesQuiet
  <1> QED
    BY <1>2, <1>4 DEF RunsInvariant

(* A run that goes on without acting.                                      *)
LEMMA CalmKeeps ==
    ASSUME RunsInvariant, NEW r \in Runs, NEW s \in Stages, NEW t \in Seq(AllSteps),
           Turns(r, s, t, run[r].stack), Basis', ~Acts(r), ~Acts(r)',
           overlapped' = overlapped, failed' = failed, record' = record, net' = net
    PROVE  RunsInvariant'
  BY LeavesQuiet DEF RunsInvariant

----------------------------------------------------------------------------
(* The steps of a start that record nothing.                               *)

(* What is known of a run where it is.                                     *)
LEMMA Known ==
    ASSUME Basis, NEW r \in Runs
    PROVE  /\ RunsTyped /\ overlapped \in BOOLEAN /\ failed \subseteq Steps
           /\ record \in {Absent, Torn} \cup [by : Runs, plan : RoutePlan]
           /\ StackFits(run[r].stage, Todo(r), run[r].stack)
           /\ Listed(Plan(r), run[r].stage, Todo(r))
           /\ Todo(r) \in Seq(AllSteps) /\ Todo(r) = run[r].todo
           /\ Sound(manager, net) /\ net \in Net /\ manager \in {"linux", "macos"}
           /\ (r \in net.devices <=> run[r].stack = "up")
  BY DEF Basis, Devices, RunsTyped, RunTypeOK, AllSteps, Todo

(* Where a run can be.                                                     *)
LEMMA StagesAre ==
    /\ Stages = {"off", "dial", "device", "gateway", "look", "undo", "save", "writing",
                 "apply", "running", "stop", "gone"}
    /\ Looked = {"undo", "save", "writing"}
    /\ \A s \in Stages : s \in Live <=> s \notin {"off", "gone"}
  BY DEF Stages, Live, Looked

(* A run that moves on to its next stage, neither of which acts.           *)
LEMMA MovesOn ==
    ASSUME RunsInvariant, NEW r \in Runs, NEW s \in Stages, Goes(r, s, <<>>),
           s \in {"dial", "device", "gateway", "look"}, ~Acts(r),
           StackFits(s, <<>>, run[r].stack), UNCHANGED <<manager, record, net, overlapped, failed>>
    PROVE  RunsInvariant'
  <1>1. Basis /\ Listed(Plan(r), s, <<>>) /\ <<>> \in Seq(AllSteps)
    BY NothingToDo DEF RunsInvariant
  <1>2. Turns(r, s, <<>>, run[r].stack) /\ Basis'
    BY <1>1, Known, BasisCalm
  <1>3. ~Acts(r)'
    BY <1>2 DEF Turns, Acts, Holds, Looked
  <1> QED
    BY <1>1, <1>2, <1>3, CalmKeeps

(* A process that starts touches nothing.                                  *)
LEMMA StartRunKeeps ==
    ASSUME RunsInvariant, NEW r \in Runs, StartRun(r)
    PROVE  RunsInvariant'
  <1>1. /\ run[r].stage = "off" /\ Goes(r, "dial", <<>>)
        /\ UNCHANGED <<manager, record, net, overlapped, failed>>
    BY DEF StartRun
  <1>2. ~Acts(r) /\ "dial" \in Stages
    BY <1>1, StagesAre DEF Acts, Holds, Looked
  <1>3. StackFits("dial", <<>>, run[r].stack)
    BY <1>1, Known DEF StackFits, RunsInvariant, Looked
  <1> QED
    BY <1>1, <1>2, <1>3, MovesOn

(* connect_protocol touches nothing of the machine, or ends the run.       *)
LEMMA DialKeeps ==
    ASSUME RunsInvariant, NEW r \in Runs, Dial(r)
    PROVE  RunsInvariant'
  <1>1. run[r].stage = "dial" /\ UNCHANGED <<manager, record, overlapped, failed>>
    BY DEF Dial
  <1>2. ~Acts(r) /\ "device" \in Stages
    BY <1>1, StagesAre DEF Acts, Holds, Looked
  <1>3. StackFits("device", <<>>, run[r].stack)
    BY <1>1, Known DEF StackFits, RunsInvariant, Looked
  <1>4. CASE Goes(r, "device", <<>>) /\ UNCHANGED net
    BY <1>1, <1>2, <1>3, <1>4, MovesOn
  <1>5. CASE Gone(r)
    BY <1>1, <1>5, GoneKeeps
  <1> QED
    BY <1>4, <1>5 DEF Dial

(* detect_gateway reads the machine, or ends the run.                      *)
LEMMA DetectGatewayKeeps ==
    ASSUME RunsInvariant, NEW r \in Runs, DetectGateway(r)
    PROVE  RunsInvariant'
  <1>1. run[r].stage = "gateway" /\ UNCHANGED <<manager, record, overlapped, failed>>
    BY DEF DetectGateway
  <1>2. ~Acts(r) /\ "look" \in Stages
    BY <1>1, StagesAre DEF Acts, Holds, Looked
  <1>3. StackFits("look", <<>>, run[r].stack)
    BY <1>1, Known DEF StackFits, RunsInvariant, Looked
  <1>4. CASE Goes(r, "look", <<>>) /\ UNCHANGED net
    BY <1>1, <1>2, <1>3, <1>4, MovesOn
  <1>5. CASE Gone(r)
    BY <1>1, <1>5, GoneKeeps
  <1> QED
    BY <1>4, <1>5 DEF DetectGateway

(* A device appears, with no route through it yet.                         *)
LEMMA OpenTunKeeps ==
    ASSUME RunsInvariant, NEW r \in Runs, OpenTun(r)
    PROVE  RunsInvariant'
  <1>1. /\ run[r].stage = "device" /\ UNCHANGED <<manager, record, overlapped, failed>> /\ Basis
        /\ RunsTyped
    BY DEF OpenTun, RunsInvariant, Basis
  <1>2. CASE Gone(r)
    BY <1>1, <1>2, GoneKeeps
  <1>3. CASE /\ run' = [run EXCEPT ![r].stage = "gateway", ![r].stack = "up"]
             /\ net' = WithDevice(net, r)
    <2>1. ~Acts(r) /\ "gateway" \in Stages /\ "up" \in Stacks
      BY <1>1, StagesAre DEF Acts, Holds, Looked, Stacks
    <2>2. Listed(Plan(r), "gateway", <<>>) /\ <<>> \in Seq(AllSteps)
      BY NothingToDo
    <2>3. run[r].todo = <<>>
      BY <1>1, Known DEF Listed
    <2>4. run \in RunStates
      BY <1>1 DEF RunsTyped, RunTypeOK, RunStates, Stages, Stacks
    <2>5. run' = [run EXCEPT ![r] = [run[r] EXCEPT !.stage = "gateway", !.todo = <<>>,
                                                   !.stack = "up"]]
      BY <1>3, <2>3, <2>4 DEF RunStates
    <2>6. Turns(r, "gateway", <<>>, "up")
      BY <1>1, <2>1, <2>2, <2>5, Turned
    <2>7. /\ Sound(manager, net') /\ net'.devices = net.devices \cup {r}
          /\ net'.routes = net.routes /\ net'.resolv = net.resolv /\ net'.backup = net.backup
      <3>1. r \in Interfaces /\ Sound(manager, net)
        BY <1>1, PlanTyped DEF RunsTyped
      <3> QED
        BY <1>3, <3>1, DeviceThere
    <2>8. StackFits("gateway", <<>>, "up")
      BY DEF StackFits, Looked
    <2>9. \A x \in net'.routes : x.via \in net'.devices \cup {"gateway"}
      BY <1>1, <2>7 DEF Basis, Devices
    <2>10. net'.devices = IF "up" = "up" THEN net.devices \cup {r} ELSE net.devices \ {r}
      BY <2>7
    <2>11. Basis'
      BY <1>1, <2>1, <2>2, <2>6, <2>7, <2>8, <2>9, <2>10, BasisKept, Known
    <2>12. ~Acts(r)'
      BY <2>6 DEF Turns, Acts, Holds, Looked
    <2>13. Pins(net') = Pins(net)
      BY <2>7 DEF Pins
    <2>14. Apart => Apart'
      BY <1>1, <2>1, <2>6, <2>7, <2>11, <2>12, <2>13, LeavesQuiet
    <2> QED
      BY <1>1, <2>11, <2>14 DEF RunsInvariant
  <1> QED
    BY <1>2, <1>3 DEF OpenTun

----------------------------------------------------------------------------
(* The lists of a run.                                                     *)

(* Commands are steps, and neither of a run's own two is a command.        *)
LEMMA ClearApart ==
    /\ \A x : Add(x) # Clear /\ Del(x) # Clear /\ Add(x) # Shutdown /\ Del(x) # Shutdown
    /\ \A c \in {Backup, Override, Restore, EmptyDns} : c # Clear /\ c # Shutdown
    /\ Clear # Shutdown
    /\ Clear \notin Cmds(manager) /\ Shutdown \notin Cmds(manager)
  <1>1. \A x : Add(x) # Clear /\ Del(x) # Clear /\ Add(x) # Shutdown /\ Del(x) # Shutdown
    <2> SUFFICES ASSUME NEW x
                 PROVE  Add(x) # Clear /\ Del(x) # Clear /\ Add(x) # Shutdown /\ Del(x) # Shutdown
      OBVIOUS
    <2>1. Add(x).do = "add" /\ Del(x).do = "del" /\ Clear.do = "clear"
          /\ Shutdown.do = "shutdown"
      BY DEF Clear, Shutdown, Add, Del
    <2> QED
      BY <2>1
  <1>2. \A c \in {Backup, Override, Restore, EmptyDns} : c # Clear /\ c # Shutdown
    BY DEF Clear, Shutdown, Backup, Override, Restore, EmptyDns
  <1>3. Clear # Shutdown
    BY DEF Clear, Shutdown
  <1> QED
    BY <1>1, <1>2, <1>3 DEF Cmds

(* A list of commands is a list of steps.                                  *)
LEMMA CommandsAreSteps ==
    ASSUME NEW t \in Seq(Cmds(manager))
    PROVE  t \in Seq(AllSteps) /\ Range(t) \subseteq Cmds(manager)
  <1>1. t \in [1 .. Len(t) -> Cmds(manager)] /\ Len(t) \in Nat
    BY LenProperties
  <1>2. t \in [1 .. Len(t) -> AllSteps]
    BY <1>1 DEF AllSteps
  <1> QED
    BY <1>1, <1>2, SeqDef DEF Range

(* The undoing of a plan.                                                  *)
LEMMA RevertOf ==
    ASSUME NEW p \in RoutePlan
    PROVE  LET u == RevertCommands(manager, p)
           IN  /\ u \in Seq(AllSteps) /\ u \in Seq(Cmds(manager))
               /\ Range(u) = ToRevert(manager, p) /\ Range(u) \subseteq Cmds(manager)
               /\ IsInjective(Captured(p)) => IsInjective(u)
  <1> DEFINE u == RevertCommands(manager, p)
  <1>1. u \in Seq(Cmds(manager)) /\ Range(u) = ToRevert(manager, p)
        /\ (IsInjective(Captured(p)) => IsInjective(u))
    BY RevertList
  <1> HIDE DEF u
  <1>2. u \in Seq(AllSteps) /\ Range(u) \subseteq Cmds(manager)
    BY <1>1, CommandsAreSteps
  <1>3. /\ u \in Seq(AllSteps) /\ u \in Seq(Cmds(manager))
        /\ Range(u) = ToRevert(manager, p) /\ Range(u) \subseteq Cmds(manager)
        /\ IsInjective(Captured(p)) => IsInjective(u)
    BY <1>1, <1>2
  <1> QED
    BY <1>3 DEF u

(* A list that ends by clearing the record.                                *)
LEMMA OneStep ==
    ASSUME NEW c \in AllSteps
    PROVE  /\ <<c>> \in Seq(AllSteps) /\ Range(<<c>>) = {c} /\ IsInjective(<<c>>)
           /\ DOMAIN <<c>> = {1} /\ <<c>>[1] = c /\ Len(<<c>>) = 1 /\ OnlyLast(c, <<c>>)
  BY DEF Range, IsInjective, OnlyLast

(* A list that ends by clearing the record clears it last, and once.       *)
LEMMA ThenCleared ==
    ASSUME NEW u \in Seq(AllSteps), Clear \notin Range(u)
    PROVE  LET t == u \o <<Clear>>
           IN  /\ t \in Seq(AllSteps) /\ Range(t) = Range(u) \cup {Clear}
               /\ OnlyLast(Clear, t) /\ t # <<>>
  <1> DEFINE c == <<Clear>>
             t == u \o c
  <1>1. c \in Seq(AllSteps) /\ Range(c) = {Clear} /\ OnlyLast(Clear, c)
    BY OneStep DEF AllSteps
  <1> HIDE DEF c
  <1>2. t \in Seq(AllSteps) /\ Range(t) = Range(u) \cup Range(c) /\ OnlyLast(Clear, t)
    <2>1. t \in Seq(AllSteps)
      BY <1>1, ConcatProperties
    <2>2. Range(t) = Range(u) \cup Range(c)
      BY <1>1, RangeOfJoined
    <2>3. OnlyLast(Clear, t)
      BY <1>1, JoinedOnlyLast
    <2> QED
      BY <2>1, <2>2, <2>3
  <1>3. t # <<>>
    <2>1. Clear \in Range(t)
      BY <1>1, <1>2
    <2> HIDE DEF t
    <2> QED
      BY <2>1 DEF Range
  <1>4. /\ t \in Seq(AllSteps) /\ Range(t) = Range(u) \cup {Clear}
        /\ OnlyLast(Clear, t) /\ t # <<>>
    BY <1>1, <1>2, <1>3
  <1> QED
    BY <1>4 DEF t, c

----------------------------------------------------------------------------
(* The look at the record, and the writing of it.                          *)

(* Only the run that acts has routes through its device.                   *)
LEMMA Alone ==
    ASSUME Apart, NEW r \in Runs, Acts(r)
    PROVE  /\ \A q \in Runs \ {r} : ~Acts(q)
           /\ \A x \in net.routes \ Pins(net) : Holds(x.via) /\ x \in Laid(Plan(x.via))
           /\ Basis => \A x \in net.routes \ Pins(net) :
                          x.via = r /\ Holds(r) /\ x \in Laid(Plan(r))
  <1>1. \A q \in Runs \ {r} : ~Acts(q)
    BY DEF Apart
  <1>2. \A x \in net.routes \ Pins(net) : Holds(x.via) /\ x \in Laid(Plan(x.via))
    BY DEF Apart
  <1>3. Basis => \A x \in net.routes \ Pins(net) : x.via \in Runs
    BY DEF Basis, Devices, Pins
  <1>4. Basis => \A x \in net.routes \ Pins(net) : x.via = r
    BY <1>1, <1>2, <1>3 DEF Acts
  <1> QED
    BY <1>1, <1>2, <1>4

(* A run that holds routes is alive, and the record is its own.            *)
LEMMA HolderRecorded ==
    ASSUME Apart, NEW q \in Runs, Holds(q)
    PROVE  record = Own(q) /\ record \notin {Absent, Torn} /\ ProcessIsAlive(record.by)
  <1>1. Acted(q)
    BY DEF Apart
  <1>2. record = Own(q)
    BY <1>1 DEF Acted, Within, Holds, Applying, Stopping, Todo
  <1>3. Own(q).by = q /\ Own(q) \notin {Absent, Torn}
    BY DEF Own, Absent, Torn
  <1>4. run[q].stage \in Live
    BY DEF Holds, Live
  <1> QED
    BY <1>2, <1>3, <1>4 DEF ProcessIsAlive

(* A look that finds no process to leave alone finds none that acts.       *)
LEMMA NobodyActs ==
    ASSUME Apart, NEW r \in Runs, run[r].stage = "look",
           \A q \in Runs \ {r} : run[q].stage \notin Looked,
           record = Absent \/ (record \notin {Absent, Torn} /\ ~ProcessIsAlive(record.by))
    PROVE  (\A q \in Runs : ~Acts(q)) /\ (Basis => net.routes = Pins(net))
  <1>1. \A q \in Runs : ~Holds(q)
    BY HolderRecorded
  <1>2. run[r].stage \notin Looked
    BY DEF Looked
  <1>3. \A q \in Runs : ~Acts(q)
    BY <1>1, <1>2 DEF Acts
  <1>4. Basis => \A x \in net.routes \ Pins(net) : Holds(x.via) /\ x.via \in Runs
    BY DEF Apart, Basis, Devices, Pins
  <1>5. Pins(net) \subseteq net.routes
    BY DEF Pins
  <1> QED
    BY <1>1, <1>3, <1>4, <1>5

(* recover_if_stale goes on where nobody acts, unless runs overlap.        *)
LEMMA LookKeeps ==
    ASSUME RunsInvariant, NEW r \in Runs, LookAtRecord(r)
    PROVE  RunsInvariant'
  <1> DEFINE looking == \E q \in Runs \ {r} : run[q].stage \in Looked
  <1>1. run[r].stage = "look" /\ Basis /\ RunsTyped /\ manager' = manager /\ record' = record
        /\ failed' = failed
    BY DEF LookAtRecord, RunsInvariant, Basis
  <1>2. \/ /\ record = Absent
           /\ Goes(r, "save", <<>>)
           /\ overlapped' = (overlapped \/ looking)
           /\ UNCHANGED net
        \/ /\ record \notin {Absent, Torn}
           /\ ~ProcessIsAlive(record.by)
           /\ Goes(r, "undo", RevertCommands(manager, record.plan) \o <<Clear>>)
           /\ overlapped' = (overlapped \/ looking)
           /\ UNCHANGED net
        \/ Gone(r) /\ UNCHANGED overlapped
    BY DEF LookAtRecord
  <1>3. (overlapped \/ looking) \in BOOLEAN
    BY <1>1, Known
  <1>4. ASSUME ~(overlapped \/ looking)
        PROVE  ~overlapped /\ Apart /\ \A q \in Runs \ {r} : run[q].stage \notin Looked
    BY <1>3, <1>4 DEF RunsInvariant
  <1> HIDE DEF looking
  <1>5. CASE Gone(r) /\ UNCHANGED overlapped
    BY <1>1, <1>5, GoneKeeps
  <1>6. CASE /\ record = Absent
             /\ Goes(r, "save", <<>>)
             /\ overlapped' = (overlapped \/ looking)
             /\ UNCHANGED net
    <2>1. Listed(Plan(r), "save", <<>>) /\ <<>> \in Seq(AllSteps) /\ "save" \in Stages
          /\ StackFits("save", <<>>, run[r].stack)
      BY <1>1, NothingToDo, StagesAre, Known DEF StackFits, Looked
    <2>2. Turns(r, "save", <<>>, run[r].stack) /\ Basis'
      BY <1>1, <1>3, <1>6, <2>1, BasisCalm, Known
    <2>3. ASSUME ~overlapped'
          PROVE  Apart'
      <3>1. Apart /\ (\A q \in Runs : ~Acts(q)) /\ net.routes = Pins(net)
        BY <1>1, <1>4, <1>6, <2>3, NobodyActs
      <3>2. net'.routes = Pins(net')
        BY <1>6, <3>1
      <3>3. Covers' /\ BackupFits'
        BY <1>1, <1>6, <3>1 DEF Apart, Covers, BackupFits, Tainted, Resets
      <3>4. Acted(r)'
        <4>1. Bare'
          BY <1>1, <1>6, <3>1 DEF Apart, Covers, Bare, Tainted, Resets
        <4> QED
          BY <1>1, <1>6, <2>2, <4>1 DEF Turns, Acted, Within
      <3> QED
        BY <2>2, <3>1, <3>2, <3>3, <3>4, SoleKeeps
    <2> QED
      BY <2>2, <2>3 DEF RunsInvariant
  <1>7. CASE /\ record \notin {Absent, Torn}
             /\ ~ProcessIsAlive(record.by)
             /\ Goes(r, "undo", RevertCommands(manager, record.plan) \o <<Clear>>)
             /\ overlapped' = (overlapped \/ looking)
             /\ UNCHANGED net
    <2> DEFINE p == record.plan
               u == RevertCommands(manager, p)
               t == u \o <<Clear>>
    <2>1. p \in RoutePlan
      BY <1>1, <1>7, Known
    <2>2. u \in Seq(AllSteps) /\ Range(u) = ToRevert(manager, p) /\ u \in Seq(Cmds(manager))
          /\ Range(u) \subseteq Cmds(manager)
      BY <2>1, RevertOf
    <2>3. Goes(r, "undo", t)
      BY <1>7
    <2> HIDE DEF u
    <2>4. t \in Seq(AllSteps) /\ Range(t) = Range(u) \cup {Clear} /\ OnlyLast(Clear, t)
          /\ t # <<>>
      <3>1. Clear \notin Range(u)
        BY <2>2, ClearApart
      <3> QED
        BY <2>2, <3>1, ThenCleared
    <2>5. Clear \in Range(t) /\ Range(t) \subseteq Undoing(manager) \cup {Clear}
      <3>1. ToRevert(manager, p) \subseteq Undoing(manager)
        <4>1. Laid(p) \subseteq Routes
          BY <2>1, LaidRoutes
        <4> QED
          BY <4>1 DEF ToRevert, Undoing
      <3> QED
        BY <2>2, <2>4, <3>1
    <2> HIDE DEF t
    <2>6. Listed(Plan(r), "undo", t) /\ StackFits("undo", t, run[r].stack) /\ "undo" \in Stages
      BY <1>1, <2>4, <2>5, StagesAre, Known DEF StackFits, Looked, Listed
    <2>7. Turns(r, "undo", t, run[r].stack) /\ Basis'
      BY <1>1, <1>3, <1>7, <2>3, <2>4, <2>6, BasisCalm, Known
    <2>8. ASSUME ~overlapped'
          PROVE  Apart'
      <3>1. Apart /\ (\A q \in Runs : ~Acts(q)) /\ net.routes = Pins(net)
        BY <1>1, <1>4, <1>7, <2>8, NobodyActs
      <3>2. net'.routes = Pins(net')
        BY <1>7, <3>1
      <3>3. Covers' /\ BackupFits'
        BY <1>1, <1>7, <3>1 DEF Apart, Covers, BackupFits, Tainted, Resets
      <3>4. /\ \A x \in net.routes : x \in Outlives(p) \/ Del(x) \in failed
            /\ net.resolv = TunnelDns => p.mode = "default" \/ Tainted
        BY <1>7, <3>1 DEF Apart, Covers
      <3>5. \A x \in net.routes : Del(x) \in Range(t) \cup failed
        BY <2>2, <2>4, <3>4 DEF ToRevert, Laid
      <3>6. net.resolv = TunnelDns => Resets(manager) \in Range(t) \/ Tainted
        BY <2>2, <2>4, <3>4 DEF ToRevert
      <3>7. run'[r].stage = "undo" /\ run'[r].todo = t
        BY <2>7 DEF Turns
      <3>8. UndoingOlder(r)'
        BY <1>1, <1>7, <2>4, <3>5, <3>6, <3>7 DEF UndoingOlder, Todo, Tainted, Resets
      <3>9. Acted(r)'
        BY <3>7, <3>8 DEF Acted, Within
      <3> QED
        BY <2>7, <3>1, <3>2, <3>3, <3>9, SoleKeeps
    <2> QED
      BY <2>7, <2>8 DEF RunsInvariant
  <1> QED
    BY <1>2, <1>5, <1>6, <1>7

(* The file is truncated while its writer alone acts.                      *)
LEMMA TruncateKeeps ==
    ASSUME RunsInvariant, NEW r \in Runs, TruncateRecord(r)
    PROVE  RunsInvariant'
  <1>1. run[r].stage = "save" /\ Basis /\ manager' = manager
        /\ overlapped' = overlapped /\ failed' = failed
    BY DEF TruncateRecord, RunsInvariant
  <1>2. CASE Gone(r) /\ UNCHANGED record
    BY <1>1, <1>2, GoneKeeps
  <1>3. CASE record' = Torn /\ Goes(r, "writing", <<>>) /\ UNCHANGED net
    <2>1. Listed(Plan(r), "writing", <<>>) /\ <<>> \in Seq(AllSteps) /\ "writing" \in Stages
          /\ StackFits("writing", <<>>, run[r].stack)
      BY <1>1, NothingToDo, StagesAre, Known DEF StackFits, Looked
    <2>2. Turns(r, "writing", <<>>, run[r].stack) /\ Basis'
      BY <1>1, <1>3, <2>1, BasisCalm, Known
    <2>3. ASSUME ~overlapped
          PROVE  Apart'
      <3>1. Apart /\ Acts(r) /\ ~Holds(r)
        BY <1>1, <2>3 DEF RunsInvariant, Acts, Holds, Looked
      <3>2. Bare
        BY <1>1, <3>1 DEF Apart, Acted
      <3>3. (\A q \in Runs \ {r} : ~Acts(q)) /\ net.routes \ Pins(net) = {}
        BY <1>1, <3>1, Alone
      <3>4. Covers' /\ BackupFits'
        BY <1>1, <1>3, <3>1, <3>2 DEF Apart, Covers, BackupFits, Bare, Pins, Tainted, Resets
      <3>5. Acted(r)'
        BY <1>3, <2>2 DEF Turns, Acted, Within
      <3>6. net'.routes \ Pins(net') = {}
        BY <1>3, <3>3
      <3> QED
        BY <2>2, <3>3, <3>4, <3>5, <3>6, SoleKeeps
    <2> QED
      BY <1>1, <2>2, <2>3 DEF RunsInvariant
  <1> QED
    BY <1>2, <1>3 DEF TruncateRecord

(* The record is written before anything of its plan is applied.           *)
LEMMA WriteKeeps ==
    ASSUME RunsInvariant, NEW r \in Runs, WriteRecord(r)
    PROVE  RunsInvariant'
  <1>1. run[r].stage = "writing" /\ Basis /\ manager' = manager
        /\ overlapped' = overlapped /\ failed' = failed
        /\ RunsTyped
    BY DEF WriteRecord, RunsInvariant, Basis
  <1>2. CASE Gone(r) /\ UNCHANGED record
    BY <1>1, <1>2, GoneKeeps
  <1>3. CASE /\ record' = [by |-> r, plan |-> Plan(r)]
             /\ Goes(r, "apply", ApplyCommands(manager, Plan(r)))
             /\ UNCHANGED net
    <2> DEFINE p == Plan(r)
               t == ApplyCommands(manager, p)
    <2>1. p \in RoutePlan /\ p.mode \in {"test", "default"} /\ p.interface = r
          /\ p.mode = run[r].mode
      BY <1>1, PlanTyped
    <2>2. /\ t \in Seq(Cmds(manager)) /\ Range(t) = ToApply(manager, p) /\ OnlyLast(Override, t)
          /\ IsInjective(Captured(p)) => IsInjective(t)
          /\ ~IsInjective(Captured(p)) => \E x \in Laid(p) : x.via = r /\ Twice(Add(x), t)
      <3> HIDE DEF p
      <3> QED
        BY <2>1, ApplyList
    <2>3. Goes(r, "apply", t)
      BY <1>3
    <2> HIDE DEF t
    <2>4. t \in Seq(AllSteps)
      BY <2>2, CommandsAreSteps
    <2>5. Listed(Plan(r), "apply", t) /\ StackFits("apply", t, run[r].stack)
          /\ "apply" \in Stages
      <3>1. Backup \in Range(t) => Override \in Range(t)
        BY <2>2, CommandsDiffer DEF ToApply
      <3> QED
        BY <1>1, <2>2, <3>1, StagesAre, Known DEF StackFits, Looked, Listed
    <2>6. record' \in {Absent, Torn} \cup [by : Runs, plan : RoutePlan]
      BY <1>3, <2>1
    <2>7. Turns(r, "apply", t, run[r].stack) /\ Basis'
      BY <1>1, <1>3, <2>3, <2>4, <2>5, <2>6, BasisCalm, Known
    <2>8. ASSUME ~overlapped
          PROVE  Apart'
      <3>1. Apart /\ Acts(r) /\ ~Holds(r)
        BY <1>1, <2>8 DEF RunsInvariant, Acts, Holds, Looked
      <3>2. record = Torn
        BY <1>1, <3>1 DEF Apart, Acted
      <3>3. (\A q \in Runs \ {r} : ~Acts(q)) /\ net.routes \ Pins(net) = {}
        BY <1>1, <3>1, Alone
      <3>4. (\A x \in net.routes : Del(x) \in failed) /\ (net.resolv = TunnelDns => Tainted)
        BY <3>1, <3>2, <3>3 DEF Apart, Covers
      <3>5. /\ \A x \in net'.routes : Del(x) \in failed'
            /\ net'.resolv = TunnelDns => Tainted'
            /\ net'.routes \ Pins(net') = {}
        BY <1>1, <1>3, <3>3, <3>4 DEF Tainted, Resets
      <3>6. Covers'
        BY <1>3, <3>5 DEF Covers, Pins, Absent, Torn
      <3>7. BackupFits'
        BY <1>1, <1>3, <3>1 DEF Apart, BackupFits, Tainted, Resets
      <3>8. run'[r].stage = "apply" /\ run'[r].todo = t /\ run'[r].mode = p.mode
            /\ Plan(r)' = p
        BY <2>1, <2>7 DEF Turns
      <3>9. Applying(r)'
        <4>1. record' = Own(r)' /\ Todo(r)' = t /\ OnceEach(r)' = IsInjective(Captured(p))
          BY <1>3, <3>8 DEF Own, Todo, OnceEach
        <4>2. \A x \in Laid(p) : Add(x) \in Range(t)
          BY <2>2 DEF ToApply
        <4>3. p.mode = "default" => Override \in Range(t)
          BY <2>2 DEF ToApply
        <4>4. manager' = "linux" /\ p.mode = "default" => Backup \in Range(t)
          BY <1>1, <2>2 DEF ToApply
        <4>5. OnceEach(r)' \/ Stuck(r)'
          <5>1. ASSUME NEW x \in Laid(p), x.via = r, Twice(Add(x), t)
                PROVE  Stuck(r)'
            BY <3>8, <4>1, <4>2, <5>1 DEF Stuck
          <5> QED
            BY <2>2, <4>1, <5>1
        <4> HIDE DEF p
        <4> QED
          BY <3>5, <3>8, <4>1, <4>2, <4>3, <4>4, <4>5 DEF Applying
      <3>10. Acted(r)'
        BY <3>8, <3>9 DEF Acted, Within
      <3> QED
        BY <2>7, <3>3, <3>5, <3>6, <3>7, <3>10, SoleKeeps
    <2> QED
      BY <1>1, <2>7, <2>8 DEF RunsInvariant
  <1> QED
    BY <1>2, <1>3 DEF WriteRecord

----------------------------------------------------------------------------
(* A run has one step less to take.                                        *)

(* After the shutdown only the record is left to clear.                    *)
LEMMA TailThenClear ==
    ASSUME NEW t \in Seq(AllSteps), t # <<>>, ThenClear(t)
    PROVE  ThenClear(Tail(t)) /\ (Head(t) = Shutdown => Range(Tail(t)) \subseteq {Clear})
  <1> DEFINE u == Tail(t)
  <1>1. /\ Head(t) = t[1] /\ DOMAIN t = 1 .. Len(t) /\ DOMAIN u = 1 .. Len(t) - 1
        /\ Len(t) \in Nat /\ \A j \in DOMAIN u : u[j] = t[j + 1]
    BY HeadGoes
  <1> HIDE DEF u
  <1>2. ASSUME NEW j \in DOMAIN u, NEW k \in DOMAIN u, u[j] = Shutdown, j < k
        PROVE  u[k] = Clear
    <2> DEFINE a == j + 1
               b == k + 1
    <2>1. a \in DOMAIN t /\ b \in DOMAIN t /\ a < b /\ t[a] = u[j] /\ t[b] = u[k]
      BY <1>1, <1>2
    <2> HIDE DEF a, b
    <2> QED
      BY <1>2, <2>1 DEF ThenClear
  <1>3. ASSUME NEW k \in DOMAIN u, t[1] = Shutdown
        PROVE  u[k] = Clear
    <2> DEFINE b == k + 1
    <2>1. 1 \in DOMAIN t /\ b \in DOMAIN t /\ 1 < b /\ t[b] = u[k]
      BY <1>1, <1>3
    <2> HIDE DEF b
    <2> QED
      BY <1>3, <2>1 DEF ThenClear
  <1>4. ThenClear(u)
    BY <1>2 DEF ThenClear
  <1>5. Head(t) = Shutdown => Range(u) \subseteq {Clear}
    BY <1>1, <1>3 DEF Range
  <1> QED
    BY <1>4, <1>5 DEF u

(* What is said of the steps is true of those left after one.              *)
LEMMA LessToDo ==
    ASSUME Basis, NEW r \in Runs, Todo(r) # <<>>
    PROVE  /\ Tail(Todo(r)) \in Seq(AllSteps) /\ Head(Todo(r)) \in AllSteps
           /\ Head(Todo(r)) \in Range(Todo(r))
           /\ Range(Todo(r)) = {Head(Todo(r))} \cup Range(Tail(Todo(r)))
           /\ Listed(Plan(r), run[r].stage, Tail(Todo(r)))
           /\ run[r].stage = "stop" /\ Head(Todo(r)) = Shutdown =>
                 Range(Tail(Todo(r))) \subseteq {Clear}
           /\ run[r].stage = "stop" /\ Head(Todo(r)) = Clear => Tail(Todo(r)) = <<>>
           /\ run[r].stage = "undo" =>
                 (Head(Todo(r)) = Clear <=> Tail(Todo(r)) = <<>>)
  <1> DEFINE t == Todo(r)
             u == Tail(t)
             s == run[r].stage
             p == Plan(r)
  <1>1. t \in Seq(AllSteps) /\ t # <<>> /\ Listed(p, s, t)
    BY Known
  <1> HIDE DEF t, s, p
  <1>2. /\ u \in Seq(AllSteps) /\ Head(t) \in AllSteps /\ Head(t) \in Range(t)
        /\ Range(t) = {Head(t)} \cup Range(u)
        /\ \A c : OnlyLast(c, t) => OnlyLast(c, u) /\ (Head(t) = c => u = <<>>)
        /\ IsInjective(t) => IsInjective(u)
    <2>1. u \in Seq(AllSteps) /\ Head(t) \in AllSteps /\ Head(t) \in Range(t)
      BY <1>1, HeadGoes
    <2>2. Range(t) = {Head(t)} \cup Range(u)
      BY <1>1, RangeOfTail
    <2>3. \A c : OnlyLast(c, t) => OnlyLast(c, u) /\ (Head(t) = c => u = <<>>)
      BY <1>1, TailOnlyLast
    <2>4. IsInjective(t) => IsInjective(u)
      BY <1>1, TailInjective
    <2> QED
      BY <2>1, <2>2, <2>3, <2>4
  <1>3. ThenClear(t) => ThenClear(u) /\ (Head(t) = Shutdown => Range(u) \subseteq {Clear})
    BY <1>1, TailThenClear
  <1>4. u # <<>> => Range(u) # {}
    BY <1>2, HeadGoes
  <1>5. u = <<>> => Range(u) = {}
    BY DEF Range
  <1> HIDE DEF u
  <1>6. s \in {"apply", "stop", "undo"}
    BY <1>1 DEF Listed
  <1>7. CASE s = "apply"
    <2>1. /\ Range(t) \subseteq ToApply(manager, p) /\ OnlyLast(Override, t)
          /\ Backup \in Range(t) => Override \in Range(t)
          /\ IsInjective(Captured(p)) => IsInjective(t)
      BY <1>1, <1>7 DEF Listed
    <2>2. Backup \in Range(u) => Override \in Range(u)
      BY <1>2, <1>5, <2>1
    <2> QED
      BY <1>2, <1>7, <2>1, <2>2 DEF Listed, t, u, s, p
  <1>8. CASE s = "stop"
    <2>1. /\ Range(t) \subseteq ToRevert(manager, p) \cup {Shutdown, Clear}
          /\ OnlyLast(Clear, t) /\ ThenClear(t)
          /\ IsInjective(Captured(p)) => IsInjective(t)
      BY <1>1, <1>8 DEF Listed
    <2> QED
      BY <1>2, <1>3, <1>8, <2>1 DEF Listed, t, u, s, p
  <1>9. CASE s = "undo"
    <2>1. /\ Range(t) \subseteq Undoing(manager) \cup {Clear} /\ OnlyLast(Clear, t)
          /\ Clear \in Range(t)
      BY <1>1, <1>9 DEF Listed
    <2>2. u # <<>> => Clear \in Range(u)
      BY <1>2, <2>1
    <2>3. Head(t) = Clear <=> u = <<>>
      BY <1>2, <1>5, <2>1
    <2> QED
      BY <1>2, <1>9, <2>1, <2>2, <2>3 DEF Listed, t, u, s, p
  <1> QED
    BY <1>6, <1>7, <1>8, <1>9

----------------------------------------------------------------------------
(* RouteGuard::apply.                                                      *)

(* What a start has yet to do to be stuck outlasts a command it can run.   *)
LEMMA StuckStays ==
    ASSUME Basis, NEW r \in Runs, Todo(r) # <<>>, CanRun(Head(Todo(r)), net),
           net' = Ran(Head(Todo(r)), net), Head(Todo(r)) \in ToApply(manager, Plan(r)),
           Turns(r, "apply", Tail(Todo(r)), run[r].stack), Stuck(r),
           net'.devices = net.devices
    PROVE  Stuck(r)'
  <1> DEFINE t == Todo(r)
             u == Tail(t)
  <1>1. t \in Seq(AllSteps) /\ t # <<>> /\ Todo(r)' = u /\ Plan(r)' = Plan(r)
        /\ net \in Net /\ RunsTyped
    BY Known DEF Turns, Todo
  <1>2. PICK y \in Laid(Plan(r)) :
           /\ Add(y) \in Range(t) /\ y.via = r
           /\ Twice(Add(y), t) \/ y \in net.routes \/ r \notin net.devices
    BY DEF Stuck
  <1> HIDE DEF t
  <1>3. Range(t) = {Head(t)} \cup Range(u) /\ (Twice(Add(y), t) => Add(y) \in Range(u))
        /\ (Twice(Add(y), t) /\ Head(t) # Add(y) => Twice(Add(y), u))
    BY <1>1, RangeOfTail, TailTwice
  <1> HIDE DEF u
  <1>4. r # "gateway"
    BY <1>1, PlanTyped
  <1>5. CASE Head(t) = Add(y)
    <2>1. CanRun(Add(y), net) /\ net' = Ran(Add(y), net)
      BY <1>5 DEF t
    <2>2. (\A x \in net.routes : x.to # y.to) /\ y.via \in net.devices \cup {"gateway"}
          /\ net' = [net EXCEPT !.routes = net.routes \cup {y}]
      BY <1>1, <2>1, Effects
    <2>3. y \notin net.routes /\ r \in net.devices /\ y \in net'.routes
      BY <1>1, <1>2, <1>4, <2>2 DEF Net
    <2>4. Add(y) \in Range(u)
      BY <1>2, <1>3, <2>3
    <2> QED
      BY <1>1, <1>2, <2>3, <2>4 DEF Stuck
  <1>6. CASE Head(t) # Add(y)
    <2>1. Add(y) \in Range(u) /\ (Twice(Add(y), t) => Twice(Add(y), u))
      BY <1>2, <1>3, <1>6
    <2>2. net.routes \subseteq net'.routes
      <3>1. \/ \E x : Head(t) = Add(x)
            \/ Head(t) \in {Backup, Override}
        BY DEF ToApply, t
      <3>2. ASSUME NEW x, Head(t) = Add(x)
            PROVE  net.routes \subseteq net'.routes
        <4>1. net' = [net EXCEPT !.routes = net.routes \cup {x}]
          BY <1>1, <3>2, Effects DEF t
        <4> QED
          BY <1>1, <4>1 DEF Net
      <3>3. CASE Head(t) \in {Backup, Override}
        <4>1. net' = [net EXCEPT !.backup = net.resolv]
              \/ net' = [net EXCEPT !.resolv = TunnelDns]
          BY <1>1, <3>3, Effects DEF t
        <4> QED
          BY <1>1, <4>1 DEF Net
      <3> QED
        BY <3>1, <3>2, <3>3
    <2> QED
      BY <1>1, <1>2, <2>1, <2>2 DEF Stuck
  <1> QED
    BY <1>5, <1>6

(* A command of the start that can run keeps everything accounted for.     *)
LEMMA Applies ==
    ASSUME Basis, Apart, NEW r \in Runs, run[r].stage = "apply", Todo(r) # <<>>,
           CanRun(Head(Todo(r)), net), net' = Ran(Head(Todo(r)), net),
           Turns(r, "apply", Tail(Todo(r)), run[r].stack), record' = record, failed' = failed,
           Head(Todo(r)) \in ToApply(manager, Plan(r))
    PROVE  Apart' /\ net'.devices = net.devices
           /\ \A x \in net'.routes : x \in net.routes \/ x.via \in net.devices \cup {"gateway"}
  <1> DEFINE t == Todo(r)
             u == Tail(t)
             p == Plan(r)
             c == Head(t)
  <1>1. /\ RunsTyped /\ net \in Net /\ Sound(manager, net) /\ p \in RoutePlan
        /\ p.mode = run[r].mode /\ p.mode \in {"test", "default"} /\ r # "gateway"
        /\ p.interface = r
    BY Known, PlanTyped
  <1>2. /\ Todo(r)' = u /\ Plan(r)' = p /\ manager' = manager /\ run'[r].mode = p.mode
        /\ run'[r].stage = "apply"
    BY <1>1 DEF Turns, Todo
  <1>3. /\ Range(t) = {c} \cup Range(u) /\ c \in ToApply(manager, p)
        /\ OnlyLast(Override, t) /\ (c = Override => u = <<>>)
        /\ Backup \in Range(t) => Override \in Range(t)
        /\ OnceEach(r) => c \notin Range(u)
        /\ t \in Seq(AllSteps) /\ t # <<>>
    <2>1. /\ Range(t) = {c} \cup Range(u) /\ t \in Seq(AllSteps) /\ t # <<>>
      BY LessToDo, Known
    <2>2. /\ OnlyLast(Override, t) /\ (Backup \in Range(t) => Override \in Range(t))
          /\ IsInjective(Captured(p)) => IsInjective(t)
      BY Known DEF Listed
    <2> HIDE DEF t
    <2>3. (c = Override => u = <<>>) /\ (IsInjective(t) => c \notin Range(u))
      BY <2>1, <2>2, TailOnlyLast, TailInjective
    <2> QED
      BY <2>1, <2>2, <2>3 DEF OnceEach, t
  <1>4. Acts(r) /\ Holds(r) /\ Holds(r)' /\ Within(r)'
    BY <1>2 DEF Acts, Holds, Within
  <1>5. /\ \A q \in Runs \ {r} : ~Acts(q)
        /\ \A x \in net.routes \ Pins(net) : x.via = r /\ x \in Laid(p)
        /\ Covers /\ BackupFits
    BY <1>4, Alone DEF Apart
  <1>6. Applying(r)
    BY <1>4 DEF Apart, Acted, Within
  <1>7. /\ \A x \in Laid(p) : x.via = r \/ x \in Outlives(p)
        /\ \A x \in Outlives(p) : x.via = "gateway"
        /\ Laid(p) \subseteq Routes
    <2> HIDE DEF p
    <2> QED
      BY <1>1, LaidRoutes
  <1>8. record = Own(r) /\ record \notin {Absent, Torn} /\ record.plan = p
    BY <1>6 DEF Applying, Own, Absent, Torn
  <1>9. net'.devices = net.devices => (Stuck(r) => Stuck(r)')
    BY <1>2, <1>3, StuckStays DEF Turns
  <1>10. Own(r)' = Own(r) /\ OnceEach(r)' = OnceEach(r) /\ Tainted' = Tainted
    BY <1>2 DEF Own, OnceEach, Tainted, Resets
  <1>11. c \in {Add(x) : x \in Laid(p)} \/ c = Override \/ (c = Backup /\ manager = "linux")
    BY <1>3 DEF ToApply
  <1>12. c \in {Override, Backup} => p.mode = "default"
    BY <1>1, <1>3, CommandsDiffer DEF ToApply
  <1>13. CASE c \in {Add(x) : x \in Laid(p)}
    <2>1. PICK x \in Laid(p) : c = Add(x)
      BY <1>13
    <2>2. /\ \A y \in net.routes : y.to # x.to
          /\ x.via \in net.devices \cup {"gateway"}
          /\ net' = [net EXCEPT !.routes = net.routes \cup {x}]
      BY <1>1, <2>1, Effects
    <2>3. /\ net'.routes = net.routes \cup {x} /\ net'.devices = net.devices
          /\ net'.resolv = net.resolv /\ net'.backup = net.backup
      BY <1>1, <2>2 DEF Net
    <2>4. \A y \in net'.routes \ Pins(net') : y.via = r /\ y \in Laid(p)
      BY <1>5, <1>7, <2>3 DEF Pins
    <2>5. Covers'
      <3>1. \A y \in Pins(net') : y \in Outlives(p) \/ Del(y) \in failed
        <4>1. \A y \in Pins(net) : y \in Outlives(p) \/ Del(y) \in failed
          BY <1>5, <1>8 DEF Covers
        <4> QED
          BY <1>1, <1>7, <2>3, <4>1 DEF Pins
      <3> QED
        BY <1>5, <1>8, <1>10, <2>3, <3>1 DEF Covers
    <2>6. BackupFits'
      BY <1>2, <1>5, <1>10, <2>3 DEF BackupFits
    <2>7. Applying(r)'
      <3>1. ASSUME NEW y \in Laid(p)
            PROVE  /\ OnceEach(r) /\ Add(y) \in Range(u) =>
                         y \notin net'.routes \/ Del(y) \in failed
                   /\ y.via \in {"gateway"} \cup net.devices =>
                         y \in net'.routes \/ Add(y) \in Range(u)
        BY <1>3, <1>6, <2>1, <2>3, CommandsDiffer DEF Applying
      <3>2. /\ Override \in Range(t) <=> Override \in Range(u)
            /\ Backup \in Range(t) <=> Backup \in Range(u)
        BY <1>3, <2>1, CommandsDiffer
      <3> HIDE DEF u, t, p
      <3>3. /\ p.mode = "default" /\ Override \notin Range(u) => net.resolv = TunnelDns
            /\ net.resolv = TunnelDns =>
                  Tainted \/ (p.mode = "default" /\ Override \notin Range(u))
        BY <1>1, <1>6, <3>2 DEF Applying, t
      <3>4. manager = "linux" /\ p.mode = "default" =>
               Backup \in Range(u) \/ net.backup # NoBackup
        BY <1>1, <1>6, <3>2 DEF Applying, t
      <3>5. OnceEach(r) \/ Stuck(r)'
        BY <1>6, <1>9, <2>3 DEF Applying
      <3> QED
        BY <1>2, <1>8, <1>10, <2>3, <3>1, <3>3, <3>4, <3>5 DEF Applying
    <2>8. Acted(r)'
      BY <1>2, <2>7 DEF Acted
    <2>9. Apart'
      BY <1>4, <1>5, <2>4, <2>5, <2>6, <2>8, SoleKeeps
    <2> QED
      BY <2>2, <2>3, <2>9
  <1>14. CASE c = Backup /\ manager = "linux"
    <2>1. net' = [net EXCEPT !.backup = net.resolv]
      BY <1>1, <1>14, Effects
    <2>2. /\ net'.routes = net.routes /\ net'.devices = net.devices
          /\ net'.resolv = net.resolv /\ net'.backup = net.resolv
      BY <1>1, <2>1 DEF Net
    <2>3. Override \in Range(t) /\ Override \in Range(u)
      BY <1>3, <1>14, CommandsDiffer
    <2>4. (net.resolv = TunnelDns => Tainted) /\ net.resolv # NoBackup
      <3>1. net.resolv = TunnelDns => Tainted
        BY <1>6, <2>3 DEF Applying
      <3> QED
        BY <1>1, <1>14, <3>1, OwnNames DEF Sound, Net
    <2>5. Covers' /\ BackupFits' /\ Pins(net') = Pins(net)
      BY <1>2, <1>5, <1>8, <1>10, <1>14, <2>2, <2>4 DEF Covers, BackupFits, Pins
    <2>6. Applying(r)'
      <3>1. ASSUME NEW y \in Laid(p)
            PROVE  /\ OnceEach(r) /\ Add(y) \in Range(u) =>
                         y \notin net.routes \/ Del(y) \in failed
                   /\ y.via \in {"gateway"} \cup net.devices =>
                         y \in net.routes \/ Add(y) \in Range(u)
        BY <1>3, <1>6, <1>14, CommandsDiffer DEF Applying
      <3> HIDE DEF u, t, p
      <3>2. OnceEach(r) \/ Stuck(r)'
        BY <1>6, <1>9, <2>2 DEF Applying
      <3> QED
        BY <1>2, <1>8, <1>10, <2>2, <2>3, <2>4, <3>1, <3>2 DEF Applying
    <2>7. Acted(r)'
      BY <1>2, <2>6 DEF Acted
    <2>8. Apart'
      BY <1>4, <1>5, <2>2, <2>5, <2>7, SoleKeeps
    <2> QED
      BY <2>2, <2>8
  <1>15. CASE c = Override
    <2>1. net' = [net EXCEPT !.resolv = TunnelDns]
      BY <1>1, <1>15, Effects
    <2>2. /\ net'.routes = net.routes /\ net'.devices = net.devices
          /\ net'.resolv = TunnelDns /\ net'.backup = net.backup
      BY <1>1, <2>1 DEF Net
    <2>3. Range(u) = {} /\ p.mode = "default"
      BY <1>3, <1>12, <1>15 DEF Range
    <2>4. manager = "linux" =>
             net.backup # NoBackup /\ (net.backup \in Lans \/ Tainted)
      <3>1. Backup \notin Range(t)
        BY <1>3, <1>15, <2>3, CommandsDiffer
      <3>2. manager = "linux" => net.backup # NoBackup
        BY <1>1, <1>6, <2>3, <3>1 DEF Applying
      <3>3. net.backup \in Lans \cup {TunnelDns, NoBackup}
        BY <1>1 DEF Net
      <3> QED
        BY <1>5, <3>2, <3>3 DEF BackupFits
    <2>5. Covers' /\ BackupFits' /\ Pins(net') = Pins(net)
      BY <1>2, <1>5, <1>8, <1>10, <2>2, <2>3, <2>4 DEF Covers, BackupFits, Pins
    <2>6. Applying(r)'
      <3>1. ASSUME NEW y \in Laid(p)
            PROVE  y.via \in {"gateway"} \cup net.devices => y \in net.routes
        BY <1>3, <1>6, <1>15, <2>3, CommandsDiffer DEF Applying
      <3>2. OnceEach(r) \/ Stuck(r)'
        BY <1>6, <1>9, <2>2 DEF Applying
      <3> HIDE DEF u, t, p
      <3> QED
        BY <1>2, <1>8, <1>10, <2>2, <2>3, <2>4, <3>1, <3>2 DEF Applying
    <2>7. Acted(r)'
      BY <1>2, <2>6 DEF Acted
    <2>8. Apart'
      BY <1>4, <1>5, <2>2, <2>5, <2>7, SoleKeeps
    <2> QED
      BY <2>2, <2>8
  <1> QED
    BY <1>11, <1>13, <1>14, <1>15

(* A command leaves the devices alone, and every route through one that is *)
(* there.                                                                  *)
LEMMA RanFrames ==
    ASSUME Basis, NEW c \in Cmds(manager), CanRun(c, net)
    PROVE  LET m == Ran(c, net)
           IN  /\ Sound(manager, m) /\ m.devices = net.devices
               /\ \A x \in m.routes : x.via \in net.devices \cup {"gateway"}
  <1> DEFINE m == Ran(c, net)
  <1>1. net \in Net /\ Sound(manager, net)
        /\ \A x \in net.routes : x.via \in net.devices \cup {"gateway"}
    BY Known DEF Basis, Devices, RunsTyped, Sound
  <1>2. Sound(manager, m)
    BY <1>1, RanTyped
  <1>3. \/ \E x \in Routes : c = Add(x)
        \/ \E x \in Routes : c = Del(x)
        \/ c \in {Override, Backup, Restore, EmptyDns}
    BY DEF Cmds
  <1>4. ASSUME NEW x \in Routes, c = Add(x)
        PROVE  /\ m.devices = net.devices
               /\ \A y \in m.routes : y.via \in net.devices \cup {"gateway"}
    <2>1. x.via \in net.devices \cup {"gateway"} /\ m = [net EXCEPT !.routes = net.routes \cup {x}]
      BY <1>1, <1>4, Effects
    <2>2. m.devices = net.devices /\ m.routes = net.routes \cup {x}
      BY <1>1, <2>1 DEF Net
    <2> QED
      BY <1>1, <2>1, <2>2
  <1>5. ASSUME NEW x \in Routes, c = Del(x)
        PROVE  /\ m.devices = net.devices
               /\ \A y \in m.routes : y.via \in net.devices \cup {"gateway"}
    <2>1. m = [net EXCEPT !.routes = net.routes \ {x}]
      BY <1>1, <1>5, Effects
    <2>2. m.devices = net.devices /\ m.routes = net.routes \ {x}
      BY <1>1, <2>1 DEF Net
    <2> QED
      BY <1>1, <2>2
  <1>6. ASSUME c \in {Override, Backup, Restore, EmptyDns}
        PROVE  m.devices = net.devices /\ m.routes = net.routes
    <2>1. \/ m = [net EXCEPT !.resolv = TunnelDns]
          \/ m = [net EXCEPT !.backup = net.resolv]
          \/ m = [net EXCEPT !.resolv = net.backup]
          \/ m = [net EXCEPT !.resolv = Automatic]
      BY <1>1, <1>6, Effects
    <2> QED
      BY <1>1, <2>1 DEF Net
  <1>7. /\ Sound(manager, m) /\ m.devices = net.devices
        /\ \A x \in m.routes : x.via \in net.devices \cup {"gateway"}
    BY <1>1, <1>2, <1>3, <1>4, <1>5, <1>6
  <1> QED
    BY <1>7 DEF m

(* One command of RouteGuard::apply, or the end of the run at it.          *)
LEMMA ApplyNextKeeps ==
    ASSUME RunsInvariant, NEW r \in Runs, ApplyNext(r)
    PROVE  RunsInvariant'
  <1> DEFINE t == Todo(r)
             u == Tail(t)
             c == Head(t)
  <1>1. /\ run[r].stage = "apply" /\ Todo(r) # <<>> /\ Basis /\ RunsTyped
        /\ manager' = manager /\ record' = record /\ overlapped' = overlapped /\ failed' = failed
    BY DEF ApplyNext, RunsInvariant, Basis, Todo
  <1>2. \/ CanRun(c, net) /\ net' = Ran(c, net) /\ Goes(r, "apply", u)
        \/ Gone(r)
    BY DEF ApplyNext, Todo
  <1>3. CASE Gone(r)
    BY <1>1, <1>3, GoneKeeps
  <1>4. CASE CanRun(c, net) /\ net' = Ran(c, net) /\ Goes(r, "apply", u)
    <2>1. /\ u \in Seq(AllSteps) /\ Listed(Plan(r), "apply", u)
          /\ c \in ToApply(manager, Plan(r))
      BY <1>1, LessToDo, Known DEF Listed
    <2>2. c \in Cmds(manager)
      <3>1. Laid(Plan(r)) \subseteq Routes
        BY <1>1, PlanTyped, LaidRoutes
      <3> HIDE DEF c
      <3> QED
        BY <2>1, <3>1 DEF ToApply, Cmds
    <2>3. /\ Sound(manager, net') /\ net'.devices = net.devices
          /\ \A x \in net'.routes : x.via \in net.devices \cup {"gateway"}
      <3> HIDE DEF c
      <3> QED
        BY <1>1, <1>4, <2>2, RanFrames
    <2>4. "apply" \in Stages /\ StackFits("apply", u, run[r].stack)
      BY <1>1, StagesAre, Known DEF StackFits, Looked
    <2>5. Turns(r, "apply", u, run[r].stack) /\ Basis'
      <3> HIDE DEF u
      <3> QED
        BY <1>1, <1>4, <2>1, <2>3, <2>4, BasisGoes, Known
    <2>6. Apart => Apart'
      BY <1>1, <1>4, <2>1, <2>5, Applies
    <2> QED
      BY <1>1, <2>5, <2>6 DEF RunsInvariant
  <1> QED
    BY <1>2, <1>3, <1>4

(* A start that has nothing left to apply has everything in place.         *)
LEMMA StartForwardingKeeps ==
    ASSUME RunsInvariant, NEW r \in Runs, StartForwarding(r)
    PROVE  RunsInvariant'
  <1>1. /\ run[r].stage = "apply" /\ Todo(r) = <<>> /\ Basis /\ RunsTyped
        /\ manager' = manager /\ record' = record /\ overlapped' = overlapped
        /\ failed' = failed /\ net' = net
        /\ Goes(r, "running", <<>>)
    BY DEF StartForwarding, RunsInvariant, Basis, Todo
  <1>2. "running" \in Stages /\ StackFits("running", <<>>, run[r].stack)
        /\ Listed(Plan(r), "running", <<>>) /\ <<>> \in Seq(AllSteps)
    BY <1>1, StagesAre, NothingToDo, Known DEF StackFits, Looked
  <1>3. Turns(r, "running", <<>>, run[r].stack) /\ Basis'
    BY <1>1, <1>2, BasisCalm, Known
  <1>4. ASSUME Apart
        PROVE  Apart'
    <2>1. Acts(r) /\ Holds(r) /\ Within(r) /\ Holds(r)'
      BY <1>1, <1>3 DEF Turns, Acts, Holds, Within
    <2>2. /\ \A q \in Runs \ {r} : ~Acts(q)
          /\ \A x \in net.routes \ Pins(net) : x.via = r /\ x \in Laid(Plan(r))
          /\ Applying(r)
      BY <1>1, <1>4, <2>1, Alone DEF Apart, Acted
    <2>3. /\ Todo(r)' = Todo(r) /\ Plan(r)' = Plan(r) /\ run'[r].mode = run[r].mode
          /\ run'[r].stage = "running"
      BY <1>1, <1>3 DEF Turns, Todo
    <2>4. Applying(r)'
      <3>1. Stuck(r) => Stuck(r)'
        BY <1>1, <2>3 DEF Stuck
      <3>2. Own(r)' = Own(r) /\ OnceEach(r)' = OnceEach(r) /\ Tainted' = Tainted
        BY <1>1, <2>3 DEF Own, OnceEach, Tainted, Resets
      <3> QED
        BY <1>1, <2>2, <2>3, <3>1, <3>2 DEF Applying
    <2>5. Acted(r)'
      BY <2>3, <2>4 DEF Acted
    <2>6. Covers' /\ BackupFits'
      BY <1>1, <1>4 DEF Apart, Covers, BackupFits, Tainted, Resets
    <2>7. \A x \in net'.routes \ Pins(net') : x.via = r /\ x \in Laid(Plan(r))
      BY <1>1, <2>2
    <2> QED
      BY <1>3, <2>1, <2>2, <2>5, <2>6, <2>7, SoleKeeps
  <1> QED
    BY <1>1, <1>3, <1>4 DEF RunsInvariant

----------------------------------------------------------------------------
(* A stop.                                                                 *)

(* A list of undoing, and then the shutdown and the clearing.              *)
LEMMA JoinedThenClear ==
    ASSUME NEW u \in Seq(AllSteps), NEW e \in Seq(AllSteps), Shutdown \notin Range(u), ThenClear(e)
    PROVE  ThenClear(u \o e)
  <1> DEFINE t == u \o e
  <1>1. /\ DOMAIN t = 1 .. Len(u) + Len(e) /\ Len(u) \in Nat /\ Len(e) \in Nat
        /\ DOMAIN u = 1 .. Len(u) /\ DOMAIN e = 1 .. Len(e)
        /\ \A j \in DOMAIN u : t[j] = u[j]
        /\ \A j \in DOMAIN e : t[j + Len(u)] = e[j]
        /\ \A j \in DOMAIN t :
              j \in DOMAIN u \/ (j \notin DOMAIN u /\ \E k \in DOMAIN e : j = k + Len(u))
    BY Joined
  <1> HIDE DEF t
  <1>2. ASSUME NEW j \in DOMAIN t, NEW k \in DOMAIN t, t[j] = Shutdown, j < k
        PROVE  t[k] = Clear
    <2>1. j \notin DOMAIN u
      BY <1>1, <1>2 DEF Range
    <2>2. PICK a \in DOMAIN e : j = a + Len(u)
      BY <1>1, <2>1
    <2>3. k \notin DOMAIN u
      BY <1>1, <1>2, <2>1
    <2>4. PICK b \in DOMAIN e : k = b + Len(u)
      BY <1>1, <2>3
    <2>5. a < b /\ e[a] = Shutdown /\ t[k] = e[b]
      BY <1>1, <1>2, <2>2, <2>4
    <2> QED
      BY <2>5 DEF ThenClear
  <1> QED
    BY <1>2 DEF ThenClear, t

(* The steps of a stop, with and without the clearing of the record.       *)
LEMMA StopLists ==
    ASSUME NEW r \in Runs, RunsTyped,
           NEW e \in {<<Shutdown>>, <<Shutdown, Clear>>}
    PROVE  LET t == RevertCommands(manager, Plan(r)) \o e
           IN  /\ t \in Seq(AllSteps) /\ t # <<>>
               /\ ToRevert(manager, Plan(r)) \subseteq Range(t) /\ Shutdown \in Range(t)
               /\ Listed(Plan(r), "stop", t)
  <1> DEFINE p == Plan(r)
             u == RevertCommands(manager, p)
             t == u \o e
  <1>1. p \in RoutePlan
    BY PlanTyped
  <1> HIDE DEF p
  <1>2. /\ u \in Seq(AllSteps) /\ Range(u) = ToRevert(manager, p)
        /\ Range(u) \subseteq Cmds(manager)
        /\ IsInjective(Captured(p)) => IsInjective(u)
    BY <1>1, RevertOf
  <1> HIDE DEF u
  <1>3. /\ e \in Seq(AllSteps) /\ Range(e) \subseteq {Shutdown, Clear} /\ Shutdown \in Range(e)
        /\ OnlyLast(Clear, e) /\ ThenClear(e) /\ IsInjective(e)
    <2>1. Shutdown \in AllSteps /\ Clear \in AllSteps /\ Shutdown # Clear
      BY ClearApart DEF AllSteps
    <2>2. CASE e = <<Shutdown>>
      BY <2>1, <2>2 DEF Range, OnlyLast, ThenClear, IsInjective
    <2>3. CASE e = <<Shutdown, Clear>>
      BY <2>1, <2>3 DEF Range, OnlyLast, ThenClear, IsInjective
    <2> QED
      BY <2>2, <2>3
  <1>4. Clear \notin Range(u) /\ Shutdown \notin Range(u)
    BY <1>2, ClearApart
  <1> HIDE DEF t
  <1>5. t \in Seq(AllSteps) /\ Range(t) = Range(u) \cup Range(e)
    <2>1. u \o e \in Seq(AllSteps)
      BY <1>2, <1>3, ConcatProperties
    <2> QED
      BY <1>2, <1>3, <2>1, RangeOfJoined DEF t
  <1>6. OnlyLast(Clear, t) /\ ThenClear(t) /\ (IsInjective(Captured(p)) => IsInjective(t))
    <2>1. OnlyLast(Clear, t)
      BY <1>2, <1>3, <1>4, JoinedOnlyLast DEF t
    <2>2. ThenClear(t)
      BY <1>2, <1>3, <1>4, JoinedThenClear DEF t
    <2>3. IsInjective(u) => IsInjective(t)
      BY <1>2, <1>3, <1>4, JoinedInjective DEF t
    <2> QED
      BY <1>2, <2>1, <2>2, <2>3
  <1>7. t # <<>>
    BY <1>3, <1>5 DEF Range
  <1>8. Listed(p, "stop", t)
    BY <1>2, <1>3, <1>5, <1>6 DEF Listed
  <1>9. ToRevert(manager, p) \subseteq Range(t) /\ Shutdown \in Range(t)
    BY <1>2, <1>3, <1>5
  <1> QED
    BY <1>5, <1>7, <1>8, <1>9 DEF t, u, p

(* A stop begins with everything in place, and all of it to undo.          *)
LEMMA Stops ==
    ASSUME RunsInvariant, NEW r \in Runs, run[r].stage = "running",
           NEW e \in {<<Shutdown>>, <<Shutdown, Clear>>},
           Goes(r, "stop", RevertCommands(manager, Plan(r)) \o e),
           UNCHANGED <<manager, record, net, overlapped, failed>>
    PROVE  RunsInvariant'
  <1> DEFINE t == RevertCommands(manager, Plan(r)) \o e
  <1>1. /\ Basis /\ RunsTyped
        /\ manager' = manager /\ record' = record /\ overlapped' = overlapped
        /\ failed' = failed /\ net' = net
    BY DEF RunsInvariant, Basis
  <1>2. /\ t \in Seq(AllSteps) /\ t # <<>> /\ Listed(Plan(r), "stop", t)
        /\ ToRevert(manager, Plan(r)) \subseteq Range(t) /\ Shutdown \in Range(t)
    BY <1>1, StopLists
  <1>3. Goes(r, "stop", t)
    OBVIOUS
  <1> HIDE DEF t
  <1>4. Todo(r) = <<>> /\ run[r].stack \in {"up", "died"}
        /\ (run[r].stack = "up" <=> r \in net.devices)
    BY <1>1, Known DEF Listed, StackFits
  <1>5. "stop" \in Stages /\ StackFits("stop", t, run[r].stack)
    BY <1>2, <1>4, StagesAre DEF StackFits, Looked
  <1>6. Turns(r, "stop", t, run[r].stack) /\ Basis'
    BY <1>1, <1>2, <1>3, <1>5, BasisCalm, Known
  <1>7. ASSUME Apart
        PROVE  Apart'
    <2>1. /\ Todo(r)' = t /\ Plan(r)' = Plan(r) /\ run'[r].mode = run[r].mode
          /\ run'[r].stage = "stop" /\ run'[r].stack = run[r].stack
      BY <1>6 DEF Turns, Todo
    <2>2. Acts(r) /\ Holds(r) /\ Within(r) /\ Holds(r)'
      BY <1>2, <2>1 DEF Acts, Holds, Within, Todo
    <2>3. /\ \A q \in Runs \ {r} : ~Acts(q)
          /\ \A x \in net.routes \ Pins(net) : x.via = r /\ x \in Laid(Plan(r))
          /\ Applying(r)
      BY <1>1, <1>7, <2>2, Alone DEF Apart, Acted
    <2>4. /\ Plan(r) \in RoutePlan /\ Plan(r).interface = r /\ Plan(r).mode = run[r].mode
          /\ run[r].mode \in {"test", "default"}
          /\ \A x \in Laid(Plan(r)) : x.via = r \/ x.via = "gateway"
      BY <1>1, PlanTyped, LaidRoutes
    <2>5. Range(Todo(r)) = {}
      BY <1>4 DEF Range
    <2>6. OnceEach(r)
      BY <2>3, <2>5 DEF Applying, Stuck
    <2>7. Stopping(r)'
      <3>1. Own(r)' = Own(r) /\ OnceEach(r)' = OnceEach(r) /\ Tainted' = Tainted
        BY <1>1, <2>1 DEF Own, OnceEach, Tainted, Resets
      <3>2. \A x \in Laid(Plan(r)) : Del(x) \in Range(t)
        BY <1>2 DEF ToRevert
      <3>3. \A x \in Laid(Plan(r)) : run[r].stack # "died" => x \in net.routes
        BY <1>4, <2>3, <2>4, <2>5 DEF Applying
      <3>4. net.resolv = TunnelDns => Resets(manager) \in Range(t) \/ Tainted
        BY <1>2, <2>3, <2>4 DEF Applying, ToRevert
      <3>5. manager = "linux" /\ run[r].mode = "default" => net.backup # NoBackup
        BY <2>3, <2>5 DEF Applying
      <3>6. record = Own(r)
        BY <2>3 DEF Applying
      <3> QED
        BY <1>1, <2>1, <2>6, <3>1, <3>2, <3>3, <3>4, <3>5, <3>6 DEF Stopping, Resets
    <2>8. Acted(r)'
      BY <2>1, <2>7 DEF Acted, Within
    <2>9. Covers' /\ BackupFits'
      BY <1>1, <1>7 DEF Apart, Covers, BackupFits, Tainted, Resets
    <2>10. \A x \in net'.routes \ Pins(net') : x.via = r /\ x \in Laid(Plan(r))
      BY <1>1, <2>3
    <2> QED
      BY <1>6, <2>2, <2>3, <2>8, <2>9, <2>10, SoleKeeps
  <1> QED
    BY <1>1, <1>6, <1>7 DEF RunsInvariant

(* A signal, or the engine's own end, and a handler that cannot be set.    *)
LEMMA RunStopKeeps ==
    ASSUME RunsInvariant, NEW r \in Runs, Stop(r) \/ StopUnheard(r)
    PROVE  RunsInvariant'
  <1>1. CASE Stop(r)
    BY <1>1, Stops DEF Stop, StopSteps
  <1>2. CASE StopUnheard(r)
    BY <1>2, Stops DEF StopUnheard
  <1> QED
    BY <1>1, <1>2

----------------------------------------------------------------------------
(* The steps of an undo or a stop.                                         *)

(* What stays noted of the commands that failed.                           *)
LEMMA LeftOf ==
    ASSUME NEW S, NEW n
    PROVE  /\ Left(S, n) \subseteq S
           /\ \A x : Del(x) \in Left(S, n) <=> Del(x) \in S /\ x \in n.routes
           /\ \A mg : Resets(mg) \in Left(S, n) <=> Resets(mg) \in S /\ n.resolv = TunnelDns
  <1>1. \A x : Del(x).do = "del" /\ Del(x).route = x
    BY DEF Del
  <1>2. \A mg : Resets(mg).do # "del"
    BY DEF Resets, Restore, EmptyDns
  <1> QED
    BY <1>1, <1>2 DEF Left

(* Command c takes something back, or fails and is noted.                  *)
Undid(c) ==
    \/ /\ net' = IF CanRun(c, net) THEN Ran(c, net) ELSE net
       /\ failed' = Left(failed, net')
    \/ /\ CanRun(c, net) /\ net' = net
       /\ failed' = Left(failed \cup {c}, net)

(* What is still there then is noted, if c should have taken it back.      *)
TookBack(c) ==
    /\ net'.backup = net.backup /\ net'.devices = net.devices
    /\ \A x \in net'.routes : /\ x \in net.routes
                              /\ c = Del(x) \/ Del(x) \in failed => Del(x) \in failed'
    /\ \A x \in net.routes : c # Del(x) => x \in net'.routes
    /\ net'.resolv = TunnelDns => /\ net.resolv = TunnelDns
                                  /\ c = Resets(manager) \/ Tainted => Tainted'
    /\ failed' \subseteq Steps /\ BackupFits'

(* A command that takes something back, whether it can or not.             *)
LEMMA TakesBack ==
    ASSUME Basis, BackupFits, NEW c \in Undoing(manager), Undid(c), manager' = manager
    PROVE  TookBack(c)
  <1>1. net \in Net /\ manager \in {"linux", "macos"} /\ failed \subseteq Steps
    BY Known DEF Basis, RunsTyped, RunTypeOK
  <1>2. \A x : Del(x) # Resets(manager)
    BY CommandsDiffer DEF Resets
  <1>3. c \in Steps
    BY DEF Undoing, Steps, Del, Resets
  <1>4. failed' \subseteq Steps
    BY <1>1, <1>3, LeftOf DEF Undid
  <1>5. /\ net.backup = TunnelDns => manager = "linux" /\ net.resolv = TunnelDns
        /\ manager = "linux" /\ net.resolv = TunnelDns => net.backup \in Lans \/ Tainted
    BY DEF BackupFits
  <1>6. ASSUME /\ net'.backup = net.backup /\ net'.devices = net.devices
               /\ \A x \in net'.routes : /\ x \in net.routes
                                         /\ c = Del(x) \/ Del(x) \in failed => Del(x) \in failed'
               /\ \A x \in net.routes : c # Del(x) => x \in net'.routes
               /\ net'.resolv = TunnelDns => /\ net.resolv = TunnelDns
                                             /\ c = Resets(manager) \/ Tainted => Tainted'
               /\ net.backup = TunnelDns => net'.resolv = TunnelDns
        PROVE  TookBack(c)
    <2>1. BackupFits'
      BY <1>5, <1>6 DEF BackupFits
    <2> QED
      BY <1>4, <1>6, <2>1 DEF TookBack
  <1>7. CASE CanRun(c, net) /\ net' = net /\ failed' = Left(failed \cup {c}, net)
    <2>1. \A x \in net.routes : c = Del(x) \/ Del(x) \in failed => Del(x) \in failed'
      BY <1>7, LeftOf
    <2>2. net.resolv = TunnelDns => (c = Resets(manager) \/ Tainted => Tainted')
      BY <1>7, LeftOf DEF Tainted
    <2> QED
      BY <1>5, <1>6, <1>7, <2>1, <2>2
  <1>8. CASE /\ net' = IF CanRun(c, net) THEN Ran(c, net) ELSE net
             /\ failed' = Left(failed, net')
    <2>1. \A x \in net'.routes : Del(x) \in failed => Del(x) \in failed'
      BY <1>8, LeftOf
    <2>2. net'.resolv = TunnelDns /\ Tainted => Tainted'
      BY <1>8, LeftOf DEF Tainted
    <2>3. ASSUME NEW x \in Routes, c = Del(x)
          PROVE  TookBack(c)
      <3>1. /\ CanRun(c, net) <=> x \in net.routes
            /\ CanRun(c, net) => net' = [net EXCEPT !.routes = net.routes \ {x}]
        BY <1>1, <1>8, <2>3, Effects
      <3>2. net'.routes = net.routes \ {x} /\ net'.devices = net.devices
            /\ net'.resolv = net.resolv /\ net'.backup = net.backup
        <4>1. CASE CanRun(c, net)
          BY <1>1, <3>1, <4>1 DEF Net
        <4>2. CASE ~CanRun(c, net)
          BY <1>8, <3>1, <4>2
        <4> QED
          BY <4>1, <4>2
      <3>3. \A y : c = Del(y) <=> y = x
        BY <2>3, CommandsDiffer
      <3> QED
        BY <1>2, <1>5, <1>6, <2>1, <2>2, <2>3, <3>2, <3>3
    <2>4. ASSUME c = Resets(manager), manager = "linux"
          PROVE  TookBack(c)
      <3>1. /\ c = Restore /\ (CanRun(c, net) <=> net.backup # NoBackup)
            /\ Ran(c, net) = [net EXCEPT !.resolv = net.backup]
        BY <1>1, <2>4, Effects DEF Resets
      <3>2. NoBackup \notin Lans /\ TunnelDns \notin Lans /\ NoBackup # TunnelDns
        BY OwnNames
      <3>3. \A y : c # Del(y)
        BY <1>2, <2>4
      <3>4. CASE CanRun(c, net)
        <4>1. net' = [net EXCEPT !.resolv = net.backup]
          BY <1>8, <3>1, <3>4
        <4>2. net'.routes = net.routes /\ net'.devices = net.devices
              /\ net'.backup = net.backup /\ net'.resolv = net.backup
          BY <1>1, <4>1 DEF Net
        <4> QED
          BY <1>5, <1>6, <2>1, <2>2, <3>2, <3>3, <4>2
      <3>5. CASE ~CanRun(c, net)
        <4>1. net' = net /\ net.backup = NoBackup
          BY <1>8, <3>1, <3>5
        <4> QED
          BY <1>5, <1>6, <2>1, <2>2, <2>4, <3>2, <3>3, <4>1
      <3> QED
        BY <3>4, <3>5
    <2>5. ASSUME c = Resets(manager), manager # "linux"
          PROVE  TookBack(c)
      <3>1. net' = [net EXCEPT !.resolv = Automatic]
        <4>1. c = EmptyDns /\ CanRun(c, net) /\ Ran(c, net) = [net EXCEPT !.resolv = Automatic]
          BY <1>1, <2>5, Effects DEF Resets
        <4> QED
          BY <1>8, <4>1
      <3>2. net'.routes = net.routes /\ net'.devices = net.devices
            /\ net'.backup = net.backup /\ net'.resolv = Automatic
        BY <1>1, <3>1 DEF Net
      <3>3. Automatic # TunnelDns /\ net.backup # TunnelDns /\ \A y : c # Del(y)
        BY <1>2, <1>5, <2>5, OwnNames
      <3> QED
        BY <1>6, <2>1, <3>2, <3>3
    <2> QED
      BY <2>3, <2>4, <2>5 DEF Undoing
  <1> QED
    BY <1>7, <1>8 DEF Undid

(* Undoing a plan, and the commands that a stop runs, only take back.      *)
LEMMA StepKinds ==
    ASSUME Basis, NEW r \in Runs, run[r].stage \in {"undo", "stop"}, Todo(r) # <<>>
    PROVE  LET c == Head(Todo(r))
           IN  /\ c \in Undoing(manager) \cup {Shutdown, Clear}
               /\ run[r].stage = "undo" => c # Shutdown
               /\ Undoing(manager) \subseteq Cmds(manager)
               /\ Shutdown \notin Undoing(manager) /\ Clear \notin Undoing(manager)
               /\ Shutdown # Clear
  <1> DEFINE c == Head(Todo(r))
  <1>1. Undoing(manager) \subseteq Cmds(manager)
    BY DEF Undoing, Cmds, Resets
  <1>2. Shutdown \notin Cmds(manager) /\ Clear \notin Cmds(manager) /\ Shutdown # Clear
    BY ClearApart
  <1>3. ToRevert(manager, Plan(r)) \subseteq Undoing(manager)
    <2>1. Laid(Plan(r)) \subseteq Routes
      BY Known, PlanTyped, LaidRoutes
    <2> QED
      BY <2>1 DEF ToRevert, Undoing
  <1>4. c \in Range(Todo(r)) /\ Listed(Plan(r), run[r].stage, Todo(r))
    BY Known, LessToDo
  <1> HIDE DEF c
  <1>5. /\ c \in Undoing(manager) \cup {Shutdown, Clear}
        /\ run[r].stage = "undo" => c # Shutdown
    BY <1>1, <1>2, <1>3, <1>4 DEF Listed
  <1> QED
    BY <1>1, <1>2, <1>5 DEF c

(* A step of an undo, or of a stop, that is a command.                     *)
LEMMA CommandUndoes ==
    ASSUME RunsInvariant, NEW r \in Runs, run[r].stage \in {"undo", "stop"}, Todo(r) # <<>>,
           Head(Todo(r)) \in Undoing(manager),
           run' = [run EXCEPT ![r] = [run[r] EXCEPT !.todo = Tail(Todo(r))]],
           Undid(Head(Todo(r))), UNCHANGED <<manager, record, overlapped>>
    PROVE  RunsInvariant'
  <1> DEFINE s == run[r].stage
             t == Todo(r)
             u == Tail(t)
             c == Head(t)
             p == Plan(r)
  <1>1. /\ Basis /\ RunsTyped /\ s \in {"undo", "stop"} /\ s \in Stages
        /\ manager' = manager /\ record' = record /\ overlapped' = overlapped
    BY StagesAre DEF RunsInvariant, Basis
  <1>2. /\ u \in Seq(AllSteps) /\ Range(t) = {c} \cup Range(u) /\ Listed(p, s, u)
        /\ Listed(p, s, t) /\ t \in Seq(AllSteps) /\ t # <<>>
    BY <1>1, LessToDo, Known
  <1>3. /\ c \in Undoing(manager) /\ c \in Cmds(manager) /\ c # Shutdown /\ c # Clear
    BY <1>1, StepKinds
  <1>4. StackFits(s, u, run[r].stack) /\ run[r].stack \in Stacks
    <2>1. StackFits(s, t, run[r].stack) /\ run[r].stack \in Stacks
      BY <1>1, Known, PlanTyped
    <2> HIDE DEF t, u, c, s
    <2> QED
      BY <1>1, <1>2, <1>3, <2>1 DEF StackFits, Looked
  <1>5. run \in RunStates
    BY <1>1 DEF RunsTyped, RunTypeOK, RunStates, Stages, Stacks
  <1>6. Turns(r, s, u, run[r].stack)
    <2>1. Goes(r, s, u)
      BY <1>5 DEF Goes, RunStates
    <2> HIDE DEF s, u
    <2> QED
      BY <1>1, <1>2, <2>1, GoesTurns
  <1>7. /\ Sound(manager, net') /\ net'.devices = net.devices
        /\ \A x \in net'.routes : x.via \in net.devices \cup {"gateway"}
    <2>1. CASE CanRun(c, net) /\ net' = Ran(c, net)
      <3>1. /\ Sound(manager, Ran(c, net)) /\ Ran(c, net).devices = net.devices
            /\ \A x \in Ran(c, net).routes : x.via \in net.devices \cup {"gateway"}
        <4> HIDE DEF c
        <4> QED
          BY <1>1, <1>3, <2>1, RanFrames
      <3> QED
        BY <2>1, <3>1
    <2>2. net' = net \/ (CanRun(c, net) /\ net' = Ran(c, net))
      BY DEF Undid
    <2>3. CASE net' = net
      BY <1>1, <2>3 DEF Basis, Devices, RunsTyped
    <2> QED
      BY <2>1, <2>2, <2>3
  <1>8. Basis'
    <2>1. net'.devices = IF run[r].stack = "up" THEN net.devices \cup {r}
                         ELSE net.devices \ {r}
      BY <1>1, <1>7 DEF Basis, Devices
    <2>2. failed' \subseteq Steps
      <3>1. c \in Steps /\ failed \subseteq Steps
        BY <1>1, <1>3, Known DEF Undoing, Steps, Del, Resets
      <3> QED
        BY <3>1, LeftOf DEF Undid
    <2> HIDE DEF s, u, t, c
    <2> QED
      BY <1>1, <1>2, <1>4, <1>6, <1>7, <2>1, <2>2, BasisKept, Known
  <1>9. ASSUME Apart
        PROVE  Apart'
    <2>1. /\ net'.backup = net.backup /\ net'.devices = net.devices
          /\ \A x \in net'.routes : /\ x \in net.routes
                                    /\ c = Del(x) \/ Del(x) \in failed => Del(x) \in failed'
          /\ \A x \in net.routes : c # Del(x) => x \in net'.routes
          /\ net'.resolv = TunnelDns => /\ net.resolv = TunnelDns
                                        /\ c = Resets(manager) \/ Tainted => Tainted'
          /\ BackupFits'
      <3>1. BackupFits /\ Undid(c)
        BY <1>9 DEF Apart
      <3> HIDE DEF c
      <3> QED
        BY <1>1, <1>3, <3>1, TakesBack DEF TookBack
    <2>2. /\ Todo(r)' = u /\ Plan(r)' = p /\ run'[r].mode = run[r].mode
          /\ run'[r].stage = s /\ run'[r].stack = run[r].stack
      BY <1>6 DEF Turns, Todo
    <2>3. Acts(r) /\ (Holds(r) <=> s = "stop")
      BY <1>1, <1>2 DEF Acts, Holds, Looked, Todo
    <2> HIDE DEF s, t, u, c, p
    <2>4. /\ \A q \in Runs \ {r} : ~Acts(q)
          /\ \A x \in net.routes \ Pins(net) : x.via = r /\ Holds(r) /\ x \in Laid(p)
          /\ Covers /\ BackupFits
      BY <1>1, <1>9, <2>3, Alone DEF Apart, p
    <2>5. Acted(r)
      BY <1>9 DEF Apart
    <2>6. Covers' /\ BackupFits'
      <3>1. Pins(net') \subseteq Pins(net) /\ Pins(net') \subseteq net'.routes
        BY <2>1 DEF Pins
      <3>2. \A x \in Pins(net') : Del(x) \in failed => Del(x) \in failed'
        BY <2>1, <3>1
      <3> QED
        BY <1>1, <2>1, <2>4, <3>1, <3>2 DEF Covers
    <2>7. \A x \in net'.routes \ Pins(net') : x \in net.routes \ Pins(net)
      BY <2>1 DEF Pins
    <2>8. CASE s = "undo"
      <3>1. UndoingOlder(r)
        BY <2>5, <2>8 DEF Acted, s
      <3>2. u # <<>>
        BY <1>2, <1>3, <2>8 , LessToDo, <1>1 DEF u, t, c, s
      <3>3. UndoingOlder(r)'
        <4>1. /\ record \notin {Absent, Torn}
              /\ \A x \in net.routes : Del(x) \in Range(t) \cup failed
              /\ net.resolv = TunnelDns => Resets(manager) \in Range(t) \/ Tainted
          BY <1>2, <3>1 DEF UndoingOlder, t
        <4>2. \A x \in net'.routes : Del(x) \in Range(u) \cup failed'
          BY <1>2, <2>1, <4>1
        <4>3. net'.resolv = TunnelDns => Resets(manager) \in Range(u) \/ Tainted'
          BY <1>2, <2>1, <4>1
        <4> QED
          BY <1>1, <2>2, <3>2, <4>1, <4>2, <4>3 DEF UndoingOlder, Resets
      <3>4. Acted(r)'
        BY <2>2, <2>8, <3>3 DEF Acted, Within
      <3>5. net'.routes \ Pins(net') = {}
        BY <2>3, <2>4, <2>7, <2>8
      <3> QED
        BY <1>6, <2>4, <2>6, <3>4, <3>5, SoleKeeps
    <2>9. CASE s = "stop"
      <3>1. Stopping(r)
        BY <1>2, <2>5, <2>9 DEF Acted, s, t
      <3>2. /\ record = Own(r) /\ OnceEach(r)
            /\ \A x \in Laid(p) : /\ x \in net.routes => Del(x) \in Range(t) \cup failed
                                  /\ Del(x) \in Range(t) /\ run[r].stack # "died" =>
                                        x \in net.routes
            /\ net.resolv = TunnelDns => Resets(manager) \in Range(t) \/ Tainted
            /\ manager = "linux" /\ run[r].mode = "default" => net.backup # NoBackup
        BY <3>1 DEF Stopping, p, t
      <3>3. c \notin Range(u)
        <4>1. IsInjective(t)
          BY <1>2, <2>9, <3>2 DEF Listed, OnceEach, p
        <4> QED
          BY <1>2, <4>1, TailInjective DEF u, c
      <3>4. Own(r)' = Own(r) /\ OnceEach(r)' = OnceEach(r)
        BY <2>2 DEF Own, OnceEach, p
      <3>5. Stopping(r)'
        <4>1. ASSUME NEW x \in Laid(p)
              PROVE  /\ x \in net'.routes => Del(x) \in Range(u) \cup failed'
                     /\ Del(x) \in Range(u) /\ run[r].stack # "died" => x \in net'.routes
          BY <1>2, <2>1, <3>2, <3>3
        <4>2. net'.resolv = TunnelDns => Resets(manager) \in Range(u) \/ Tainted'
          BY <1>2, <2>1, <3>2
        <4> QED
          BY <1>1, <2>1, <2>2, <3>2, <3>4, <4>1, <4>2 DEF Stopping, Resets
      <3>6. Acted(r)'
        BY <2>2, <2>9, <3>5 DEF Acted, Within
      <3>7. ASSUME NEW x \in net'.routes, x \notin Pins(net')
            PROVE  x.via = r /\ Holds(r)' /\ x \in Laid(p)
        <4>1. x.via = r /\ x \in Laid(p) /\ x \in net.routes
          BY <2>4, <2>7, <3>7
        <4>2. run[r].stack = "up"
          <5>1. r # "gateway" /\ (r \in net.devices <=> run[r].stack = "up")
            BY <1>1, PlanTyped, Known
          <5> QED
            BY <1>1, <4>1, <5>1 DEF Basis, Devices
        <4>3. Shutdown \in Range(u)
          BY <1>4, <2>9, <4>2 DEF StackFits
        <4>4. u # <<>>
          BY <4>3 DEF Range
        <4> QED
          BY <2>2, <2>9, <4>1, <4>4 DEF Holds, Todo
      <3>8. \A x \in net'.routes \ Pins(net') : x.via = r /\ Holds(r)' /\ x \in Laid(p)
        BY <3>7
      <3> QED
        BY <1>6, <2>4, <2>6, <3>6, <3>8, SoleKeeps DEF p
    <2> QED
      BY <1>1, <2>8, <2>9
  <1> QED
    BY <1>1, <1>8, <1>9 DEF RunsInvariant

(* SmoltcpStack::shutdown.                                                 *)
LEMMA ShutdownKeeps ==
    ASSUME RunsInvariant, NEW r \in Runs, run[r].stage = "stop", Todo(r) # <<>>,
           Head(Todo(r)) = Shutdown,
           run' = [run EXCEPT ![r] = [run[r] EXCEPT !.todo = Tail(Todo(r)), !.stack = "shut"]],
           net' = WithoutDevice(net, r), failed' = Left(failed, net'),
           UNCHANGED <<manager, record, overlapped>>
    PROVE  RunsInvariant'
  <1> DEFINE t == Todo(r)
             u == Tail(t)
             p == Plan(r)
  <1>1. /\ Basis /\ RunsTyped /\ "stop" \in Stages /\ "shut" \in Stacks
        /\ manager' = manager /\ record' = record /\ overlapped' = overlapped
        /\ failed' = Left(failed, net') /\ failed' \subseteq Steps
    BY StagesAre, LeftOf, Known DEF RunsInvariant, Basis, Stacks
  <1>2. /\ u \in Seq(AllSteps) /\ Range(t) = {Shutdown} \cup Range(u)
        /\ Listed(p, "stop", u) /\ Range(u) \subseteq {Clear} /\ t # <<>>
    BY <1>1, LessToDo
  <1>3. StackFits("stop", u, "shut")
    <2> HIDE DEF u
    <2> QED
      BY <1>2 DEF StackFits, Looked
  <1>4. Turns(r, "stop", u, "shut")
    <2>1. run \in RunStates
      BY <1>1 DEF RunsTyped, RunTypeOK, RunStates, Stages, Stacks
    <2>2. run' = [run EXCEPT ![r] = [run[r] EXCEPT !.stage = "stop", !.todo = u,
                                                   !.stack = "shut"]]
      BY <2>1 DEF RunStates
    <2> HIDE DEF u
    <2> QED
      BY <1>1, <1>2, <2>2, Turned
  <1>5. /\ Sound(manager, net') /\ net'.devices = net.devices \ {r}
        /\ net'.routes = {x \in net.routes : x.via # r} /\ Pins(net') = Pins(net)
        /\ net'.resolv = net.resolv /\ net'.backup = net.backup
    BY <1>1, PlanTyped, DeviceGone, Known
  <1>6. \A x \in net'.routes : x.via \in net'.devices \cup {"gateway"}
    BY <1>1, <1>5 DEF Basis, Devices
  <1>7. net'.devices = IF "shut" = "up" THEN net.devices \cup {r} ELSE net.devices \ {r}
    BY <1>5
  <1> HIDE DEF t, u
  <1>8. Basis'
    BY <1>1, <1>2, <1>3, <1>4, <1>5, <1>6, <1>7, BasisKept, Known
  <1>9. ASSUME Apart
        PROVE  Apart'
    <2>1. Acts(r) /\ Holds(r)
      BY <1>2 DEF Acts, Holds, Todo, t
    <2>2. /\ \A q \in Runs \ {r} : ~Acts(q)
          /\ \A x \in net.routes \ Pins(net) : x.via = r /\ x \in Laid(p)
          /\ Covers /\ BackupFits
      BY <1>1, <1>9, <2>1, Alone DEF Apart
    <2>3. Stopping(r)
      BY <1>2, <1>9 DEF Apart, Acted, t
    <2>4. net'.routes \ Pins(net') = {}
      BY <1>5, <2>2
    <2>5. /\ \A x \in net'.routes : Del(x) \in failed => Del(x) \in failed'
          /\ net.resolv = TunnelDns => (Tainted => Tainted')
          /\ Pins(net') \subseteq net'.routes
      BY <1>1, <1>5, LeftOf DEF Tainted, Pins
    <2>12. Covers' /\ BackupFits'
      BY <1>1, <1>5, <2>2, <2>5 DEF Covers, BackupFits
    <2>6. /\ Todo(r)' = u /\ Plan(r)' = p /\ run'[r].mode = run[r].mode
          /\ run'[r].stage = "stop" /\ run'[r].stack = "shut"
      BY <1>4 DEF Turns, Todo
    <2>7. (\A x : Del(x) \notin Range(t)) /\ Resets(manager) \notin Range(t)
          /\ (\A x : Del(x) \notin Range(u))
      BY <1>2, ClearApart DEF Resets
    <2>8. /\ net.resolv = TunnelDns => Tainted
          /\ \A x \in Laid(p) : x \in net'.routes => Del(x) \in failed
      BY <1>5, <2>3, <2>7 DEF Stopping, t
    <2>9. Own(r)' = Own(r) /\ OnceEach(r)' = OnceEach(r)
      BY <2>6 DEF Own, OnceEach
    <2>10. Stopping(r)'
      <3> HIDE DEF p
      <3>1. record = Own(r) /\ OnceEach(r)
            /\ (manager = "linux" /\ run[r].mode = "default" => net.backup # NoBackup)
        BY <2>3 DEF Stopping
      <3> QED
        BY <1>1, <1>5, <2>5, <2>6, <2>7, <2>8, <2>9, <3>1 DEF Stopping
    <2>11. Acted(r)'
      BY <2>6, <2>10 DEF Acted, Within
    <2> QED
      BY <1>4, <2>2, <2>4, <2>11, <2>12, SoleKeeps
  <1> QED
    BY <1>1, <1>8, <1>9 DEF RunsInvariant

(* AppliedState::clear.                                                    *)
LEMMA ClearKeeps ==
    ASSUME RunsInvariant, NEW r \in Runs, run[r].stage \in {"undo", "stop"}, Todo(r) # <<>>,
           Head(Todo(r)) = Clear,
           run' = [run EXCEPT ![r] = [run[r] EXCEPT !.todo = Tail(Todo(r))]],
           record' \in {Absent, record}, failed' = Left(failed, net'),
           UNCHANGED <<manager, net, overlapped>>
    PROVE  RunsInvariant'
  <1> DEFINE s == run[r].stage
             t == Todo(r)
             u == Tail(t)
             p == Plan(r)
  <1>1. /\ Basis /\ RunsTyped /\ s \in {"undo", "stop"} /\ s \in Stages
        /\ manager' = manager /\ net' = net /\ overlapped' = overlapped
        /\ failed' = Left(failed, net') /\ failed' \subseteq Steps
    BY StagesAre, LeftOf, Known DEF RunsInvariant, Basis
  <1>2. /\ u \in Seq(AllSteps) /\ Range(t) = {Clear} \cup Range(u) /\ Listed(p, s, u)
        /\ u = <<>> /\ t # <<>>
    BY <1>1, LessToDo
  <1>3. Range(t) = {Clear}
    <2> HIDE DEF t, u
    <2> QED
      BY <1>2 DEF Range
  <1>4. StackFits(s, u, run[r].stack)
    <2>1. StackFits(s, t, run[r].stack)
      BY <1>1, Known
    <2> HIDE DEF t, u, s
    <2> QED
      BY <1>1, <1>2, <1>3, <2>1, ClearApart DEF StackFits, Looked
  <1>5. Goes(r, s, u)
    <2>1. run \in RunStates
      BY <1>1 DEF RunsTyped, RunTypeOK, RunStates, Stages, Stacks
    <2> QED
      BY <2>1 DEF Goes, RunStates
  <1> HIDE DEF s, t, u, p
  <1>6. Turns(r, s, u, run[r].stack) /\ Basis'
    <2>1. record' \in {Absent, Torn} \cup [by : Runs, plan : RoutePlan]
      BY <1>1, Known
    <2> QED
      BY <1>1, <1>2, <1>4, <1>5, <2>1, BasisCalm, Known DEF p
  <1>7. ASSUME Apart
        PROVE  Apart'
    <2>1. Acts(r) /\ (Holds(r) <=> s = "stop")
      BY <1>1, <1>2 DEF Acts, Holds, Looked, Todo, s, t
    <2>2. /\ \A q \in Runs \ {r} : ~Acts(q)
          /\ \A x \in net.routes \ Pins(net) : x.via = r /\ Holds(r) /\ x \in Laid(p)
          /\ Covers /\ BackupFits /\ Acted(r)
      BY <1>1, <1>7, <2>1, Alone DEF Apart, p
    <2>3. (\A x : Del(x) # Clear) /\ Resets(manager) # Clear
      BY ClearApart DEF Resets
    <2>4. Bare
      <3>1. CASE s = "undo"
        <4>1. UndoingOlder(r)
          BY <2>2, <3>1 DEF Acted, s
        <4> QED
          BY <1>2, <1>3, <2>3, <4>1 DEF UndoingOlder, Bare, t
      <3>2. CASE s = "stop"
        <4>1. Stopping(r)
          BY <1>2, <2>2, <3>2 DEF Acted, s, t
        <4>2. /\ net.resolv = TunnelDns => Tainted
              /\ \A x \in Laid(p) : x \in net.routes => Del(x) \in failed
          BY <1>3, <2>3, <4>1 DEF Stopping, t, p
        <4>3. record \notin {Absent, Torn} /\ record.plan = p
          BY <4>1 DEF Stopping, Own, Absent, Torn, p
        <4>4. \A x \in Pins(net) : x \in Laid(p) \/ Del(x) \in failed
          BY <2>2, <4>3 DEF Covers, Laid
        <4> QED
          BY <2>2, <4>2, <4>4 DEF Bare
      <3> QED
        BY <1>1, <3>1, <3>2
    <2>9. /\ \A x \in net.routes : Del(x) \in failed => Del(x) \in failed'
          /\ net.resolv = TunnelDns => (Tainted => Tainted')
      BY <1>1, LeftOf DEF Tainted
    <2>5. Bare' /\ net'.routes \ Pins(net') = {}
      <3>1. Bare'
        BY <1>1, <2>4, <2>9 DEF Bare
      <3>2. r # "gateway" /\ (r \in net.devices <=> run[r].stack = "up")
        BY <1>1, PlanTyped, Known
      <3>3. s = "stop" => run[r].stack # "up"
        BY <1>2, <1>4 DEF StackFits, Range
      <3>4. ASSUME NEW x \in net.routes \ Pins(net)
            PROVE  FALSE
        <4>1. x.via = r /\ s = "stop"
          BY <2>1, <2>2, <3>4
        <4> QED
          BY <1>1, <3>2, <3>3, <3>4, <4>1 DEF Basis, Devices
      <3> QED
        BY <1>1, <3>1, <3>4
    <2>6. Covers' /\ BackupFits'
      <3>1. Pins(net') \subseteq net'.routes
        BY DEF Pins
      <3>2. record' = Absent => Covers'
        BY <1>1, <2>5, <3>1 DEF Covers, Bare
      <3>3. record' = record => Covers'
        BY <1>1, <2>2, <2>9, <3>1 DEF Covers
      <3>4. BackupFits'
        BY <1>1, <2>2, <2>9 DEF BackupFits
      <3> QED
        BY <3>2, <3>3, <3>4
    <2>7. run'[r].stage = s /\ Todo(r)' = <<>>
      BY <1>2, <1>6 DEF Turns, Todo
    <2>8. Acted(r)'
      BY <1>1, <2>5, <2>7 DEF Acted, Within, UndoingOlder
    <2> QED
      BY <1>6, <2>2, <2>5, <2>6, <2>8, SoleKeeps
  <1> QED
    BY <1>1, <1>6, <1>7 DEF RunsInvariant

(* One step of an undo or a stop.                                          *)
LEMMA UndoesKeeps ==
    ASSUME RunsInvariant, NEW r \in Runs, Undoes(r)
    PROVE  RunsInvariant'
  <1> DEFINE step == Head(Todo(r))
  <1>1. /\ run[r].stage \in {"undo", "stop"} /\ Todo(r) # <<>>
        /\ manager' = manager /\ overlapped' = overlapped /\ Basis
        /\ run' = [run EXCEPT ![r].todo = Tail(@),
                              ![r].stack = IF step = Shutdown THEN "shut" ELSE @]
        /\ record' \in IF step = Clear THEN {Absent, record} ELSE {record}
        /\ \/ /\ net' = CASE step = Shutdown -> WithoutDevice(net, r)
                         [] step = Clear -> net
                         [] OTHER -> IF CanRun(step, net) THEN Ran(step, net) ELSE net
              /\ failed' = Left(failed, net')
           \/ /\ step \notin {Shutdown, Clear} /\ CanRun(step, net)
              /\ failed' = Left(failed \cup {step}, net)
              /\ net' = net
    BY DEF Undoes, Todo, RunsInvariant
  <1>2. /\ step \in Undoing(manager) \cup {Shutdown, Clear}
        /\ run[r].stage = "undo" => step # Shutdown
        /\ Shutdown \notin Undoing(manager) /\ Clear \notin Undoing(manager)
        /\ Shutdown # Clear
    BY <1>1, StepKinds
  <1>3. run \in RunStates
    BY <1>1 DEF Basis, RunsTyped, RunTypeOK, RunStates, Stages, Stacks
  <1> HIDE DEF step
  <1>4. CASE step = Shutdown
    <2>1. run' = [run EXCEPT ![r] = [run[r] EXCEPT !.todo = Tail(Todo(r)), !.stack = "shut"]]
      BY <1>1, <1>3, <1>4 DEF Todo, RunStates
    <2> QED
      BY <1>1, <1>2, <1>4, <2>1, ShutdownKeeps DEF step
  <1>5. CASE step # Shutdown
    <2>1. run' = [run EXCEPT ![r] = [run[r] EXCEPT !.todo = Tail(Todo(r))]]
      BY <1>1, <1>3, <1>5 DEF Todo, RunStates
    <2>2. CASE step = Clear
      BY <1>1, <1>2, <2>1, <2>2, ClearKeeps DEF step
    <2>3. CASE step # Clear
      <3>1. Undid(step) /\ record' = record /\ step \in Undoing(manager)
        BY <1>1, <1>2, <1>5, <2>3 DEF Undid
      <3> QED
        BY <1>1, <2>1, <3>1, CommandUndoes DEF step
    <2> QED
      BY <2>2, <2>3
  <1> QED
    BY <1>4, <1>5

----------------------------------------------------------------------------
(* The ends of an undo, of a stack and of a process.                       *)

(* An undo goes on to the record, a stop ends its process.                 *)
LEMMA UndoDoneKeeps ==
    ASSUME RunsInvariant, NEW r \in Runs, UndoDone(r)
    PROVE  RunsInvariant'
  <1>1. /\ Todo(r) = <<>> /\ Basis /\ RunsTyped
        /\ manager' = manager /\ record' = record /\ overlapped' = overlapped /\ failed' = failed
    BY DEF UndoDone, RunsInvariant, Basis, Todo
  <1>2. CASE run[r].stage = "stop" /\ Gone(r)
    BY <1>1, <1>2, GoneKeeps
  <1>3. CASE run[r].stage = "undo" /\ Goes(r, "save", <<>>) /\ UNCHANGED net
    <2>1. Listed(Plan(r), "save", <<>>) /\ <<>> \in Seq(AllSteps) /\ "save" \in Stages
          /\ StackFits("save", <<>>, run[r].stack)
      BY <1>1, <1>3, NothingToDo, StagesAre, Known DEF StackFits, Looked
    <2>2. Turns(r, "save", <<>>, run[r].stack) /\ Basis'
      BY <1>1, <1>3, <2>1, BasisCalm, Known
    <2>3. ASSUME Apart
          PROVE  Apart'
      <3>1. Acts(r) /\ ~Holds(r) /\ Acted(r)
        BY <1>3, <2>3 DEF Apart, Acts, Holds, Looked
      <3>2. Bare
        BY <1>1, <1>3, <3>1 DEF Acted, UndoingOlder
      <3>3. (\A q \in Runs \ {r} : ~Acts(q)) /\ net.routes \ Pins(net) = {}
        BY <1>1, <2>3, <3>1, Alone
      <3>4. Covers' /\ BackupFits' /\ net'.routes \ Pins(net') = {}
        BY <1>1, <1>3, <2>3, <3>3 DEF Apart, Covers, BackupFits, Tainted, Resets
      <3>5. Acted(r)'
        BY <1>1, <1>3, <2>2, <3>2 DEF Turns, Acted, Within, Bare, Tainted, Resets
      <3> QED
        BY <2>2, <3>3, <3>4, <3>5, SoleKeeps
    <2> QED
      BY <1>1, <2>2, <2>3 DEF RunsInvariant
  <1> QED
    BY <1>2, <1>3 DEF UndoDone

(* A stack that dies takes its device and its routes along.                *)
LEMMA StackEndsKeeps ==
    ASSUME RunsInvariant, NEW r \in Runs, StackEnds(r)
    PROVE  RunsInvariant'
  <1> DEFINE s == run[r].stage
             t == Todo(r)
             p == Plan(r)
  <1>1. /\ run[r].stack = "up" /\ Basis /\ RunsTyped /\ net' = WithoutDevice(net, r)
        /\ manager' = manager /\ record' = record /\ overlapped' = overlapped /\ failed' = failed
    BY DEF StackEnds, RunsInvariant, Basis
  <1>2. /\ s \in Stages /\ t \in Seq(AllSteps) /\ "died" \in Stacks /\ Listed(p, s, t)
        /\ p \in RoutePlan /\ p.interface = r /\ r \in Interfaces /\ p.mode = run[r].mode
        /\ r # "gateway" /\ StackFits(s, t, "up")
    BY <1>1, Known, PlanTyped DEF Stacks
  <1>3. Turns(r, s, t, "died")
    <2>1. run \in RunStates
      BY <1>1 DEF RunsTyped, RunTypeOK, RunStates, Stages, Stacks
    <2>2. run' = [run EXCEPT ![r] = [run[r] EXCEPT !.stage = s, !.todo = t, !.stack = "died"]]
      BY <2>1 DEF StackEnds, RunStates, Todo
    <2> HIDE DEF s, t
    <2> QED
      BY <1>1, <1>2, <2>2, Turned
  <1>4. /\ Sound(manager, net') /\ net'.devices = net.devices \ {r}
        /\ net'.routes = {x \in net.routes : x.via # r} /\ Pins(net') = Pins(net)
        /\ net'.resolv = net.resolv /\ net'.backup = net.backup
    BY <1>1, <1>2, DeviceGone, Known
  <1> HIDE DEF s, t, p
  <1>5. StackFits(s, t, "died")
    BY <1>2 DEF StackFits
  <1>6. \A x \in net'.routes : x.via \in net'.devices \cup {"gateway"}
    BY <1>1, <1>4 DEF Basis, Devices
  <1>7. net'.devices = IF "died" = "up" THEN net.devices \cup {r} ELSE net.devices \ {r}
    BY <1>4
  <1>8. Basis'
    BY <1>1, <1>2, <1>3, <1>4, <1>5, <1>6, <1>7, BasisKept, Known DEF p
  <1>9. ASSUME Apart
        PROVE  Apart'
    <2>1. /\ Todo(r)' = t /\ Plan(r)' = p /\ run'[r].mode = run[r].mode
          /\ run'[r].stage = s /\ run'[r].stack = "died"
      BY <1>3 DEF Turns, Todo, p
    <2>2. CASE ~Acts(r)
      <3>1. ~Acts(r)'
        BY <2>1, <2>2 DEF Acts, Holds, Todo, s, t
      <3> QED
        BY <1>1, <1>3, <1>4, <1>8, <1>9, <2>2, <3>1, LeavesQuiet
    <2>3. CASE Acts(r)
      <3>1. /\ \A q \in Runs \ {r} : ~Acts(q)
            /\ \A x \in net.routes \ Pins(net) : x.via = r
            /\ Covers /\ BackupFits /\ Acted(r)
        BY <1>1, <1>9, <2>3, Alone DEF Apart
      <3>2. net'.routes \ Pins(net') = {}
        BY <1>4, <3>1
      <3>3. Covers' /\ BackupFits'
        BY <1>1, <1>4, <3>1 DEF Covers, BackupFits, Tainted, Resets
      <3>4. Own(r)' = Own(r) /\ OnceEach(r)' = OnceEach(r) /\ Tainted' = Tainted
        BY <1>1, <2>1 DEF Own, OnceEach, p, Tainted, Resets
      <3>5. Applying(r) => Applying(r)'
        <4>1. HAVE Applying(r)
        <4>2. \A x \in Laid(p) : x.via = r \/ x.via = "gateway"
          BY <1>2, LaidRoutes
        <4>3. \A x \in Laid(p) :
                 /\ OnceEach(r) /\ Add(x) \in Range(t) => x \notin net'.routes \/ Del(x) \in failed
                 /\ x.via \in {"gateway"} \cup net'.devices =>
                       x \in net'.routes \/ Add(x) \in Range(t)
          BY <1>2, <1>4, <4>1, <4>2 DEF Applying, p, t
        <4>4. Stuck(r) => Stuck(r)'
          BY <1>4, <2>1 DEF Stuck, p, t
        <4>5. /\ record = Own(r)
              /\ run[r].mode = "default" /\ Override \notin Range(t) => net.resolv = TunnelDns
              /\ net.resolv = TunnelDns =>
                    Tainted \/ (run[r].mode = "default" /\ Override \notin Range(t))
              /\ manager = "linux" /\ run[r].mode = "default" =>
                    Backup \in Range(t) \/ net.backup # NoBackup
              /\ OnceEach(r) \/ Stuck(r)
          BY <4>1 DEF Applying, t
        <4> QED
          BY <1>1, <1>4, <2>1, <3>4, <4>3, <4>4, <4>5 DEF Applying
      <3>6. Stopping(r) => Stopping(r)'
        <4>1. HAVE Stopping(r)
        <4>2. /\ record = Own(r) /\ OnceEach(r)
              /\ \A x \in Laid(p) : x \in net.routes => Del(x) \in Range(t) \cup failed
              /\ net.resolv = TunnelDns => Resets(manager) \in Range(t) \/ Tainted
              /\ manager = "linux" /\ run[r].mode = "default" => net.backup # NoBackup
          BY <4>1 DEF Stopping, p, t
        <4> QED
          BY <1>1, <1>4, <2>1, <3>4, <4>2 DEF Stopping, Resets
      <3>7. UndoingOlder(r) => UndoingOlder(r)'
        BY <1>1, <1>4, <2>1 DEF UndoingOlder, Bare, Tainted, Resets, t
      <3>9. Bare => Bare'
        BY <1>1, <1>4 DEF Bare, Tainted, Resets
      <3>8. Acted(r)'
        BY <1>1, <2>1, <3>1, <3>5, <3>6, <3>7, <3>9 DEF Acted, Within, s, t
      <3> QED
        BY <1>3, <3>1, <3>2, <3>3, <3>8, SoleKeeps
    <2> QED
      BY <2>2, <2>3
  <1> QED
    BY <1>1, <1>8, <1>9 DEF RunsInvariant

(* A kill, whenever it comes, is an end like the others.                   *)
LEMMA KillKeeps ==
    ASSUME RunsInvariant, NEW r \in Runs, Kill(r)
    PROVE  RunsInvariant'
  BY GoneKeeps DEF Kill

----------------------------------------------------------------------------
(* The runs, whatever they do.                                             *)

(* Nobody has run yet.                                                     *)
LEMMA RunsStart ==
    ASSUME RunInit
    PROVE  RunsInvariant
  <1>1. PICK l \in Lans :
           net = [routes |-> {}, devices |-> {}, resolv |-> l, backup |-> NoBackup]
    BY DEF RunInit
  <1>2. /\ net.routes = {} /\ net.devices = {} /\ net.resolv = l /\ net.backup = NoBackup
        /\ net \in Net
    BY <1>1 DEF Net
  <1>3. manager \in {"linux", "macos"} /\ record = Absent /\ overlapped = FALSE
        /\ failed = {}
    BY DEF RunInit
  <1>4. /\ run \in RunStates
        /\ \A r \in Runs : run[r].stage = "off" /\ run[r].todo = <<>> /\ run[r].stack = "none"
    <2>1. <<>> \in Seq(Steps)
      BY EmptySeq
    <2> QED
      BY <2>1 DEF RunInit, RunStates, Stages, Stacks
  <1>5. RunsTyped
    <2>1. Sound(manager, net)
      BY <1>2, OwnNames DEF Sound
    <2>2. RunTypeOK
      BY <1>2, <1>3, <1>4 DEF RunTypeOK, RunStates, Stages, Stacks
    <2>3. \A r \in Runs : Todo(r) \in Seq(Cmds(manager) \cup {Shutdown, Clear})
      BY <1>4, EmptySeq DEF Todo
    <2> QED
      BY <2>1, <2>2, <2>3 DEF RunsTyped
  <1>6. Devices
    BY <1>2, <1>4 DEF Devices, StackFits, Todo, Looked
  <1>7. \A r \in Runs : Listed(Plan(r), run[r].stage, Todo(r))
    BY <1>4 DEF Listed, Todo
  <1>8. \A r \in Runs : ~Acts(r)
    BY <1>4 DEF Acts, Holds, Looked
  <1>9. Covers /\ BackupFits /\ net.routes \ Pins(net) = {}
    BY <1>2, <1>3, OwnNames DEF Covers, BackupFits, Tainted, Resets, Pins
  <1>10. Apart
    BY <1>8, <1>9, Idle DEF Apart
  <1> QED
    BY <1>5, <1>6, <1>7, <1>10 DEF RunsInvariant, Basis

(* Every step of every run keeps the invariant.                            *)
LEMMA RunsStep ==
    ASSUME RunsInvariant, [RunNext]_runVars
    PROVE  RunsInvariant'
  <1>1. CASE UNCHANGED runVars
    <2>1. /\ manager' = manager /\ run' = run /\ record' = record /\ net' = net
          /\ overlapped' = overlapped /\ failed' = failed
      BY <1>1 DEF runVars
    <2>2. Basis' <=> Basis
      BY <2>1 DEF Basis, RunsTyped, RunTypeOK, Devices, Plan, Todo, Listed
    <2>3. \A r \in Runs : (Holds(r)' <=> Holds(r)) /\ (Acts(r)' <=> Acts(r)) /\ Plan(r)' = Plan(r)
      BY <2>1 DEF Holds, Acts, Plan
    <2>4. \A r \in Runs : Acted(r) => Acted(r)'
      <3>1. SUFFICES ASSUME NEW r \in Runs, Acted(r)
                     PROVE  Acted(r)'
        OBVIOUS
      <3>2. Plan(r)' = Plan(r) /\ Todo(r)' = Todo(r) /\ (Within(r)' <=> Within(r))
            /\ Own(r)' = Own(r) /\ OnceEach(r)' = OnceEach(r)
            /\ Tainted' = Tainted /\ (Bare => Bare')
        BY <2>1 DEF Plan, Todo, Within, Own, OnceEach, Tainted, Resets, Bare
      <3>3. Stuck(r)' <=> Stuck(r)
        BY <2>1, <3>2 DEF Stuck
      <3>4. Applying(r) => Applying(r)'
        BY <2>1, <3>2, <3>3 DEF Applying
      <3>5. Stopping(r) => Stopping(r)'
        BY <2>1, <3>2 DEF Stopping, Resets
      <3>6. UndoingOlder(r) => UndoingOlder(r)'
        BY <2>1, <3>2 DEF UndoingOlder, Resets
      <3> QED
        BY <2>1, <3>1, <3>2, <3>4, <3>5, <3>6 DEF Acted
    <2>5. ASSUME Basis, Apart
          PROVE  Apart'
      <3>1. \A x \in net'.routes \ Pins(net') : Holds(x.via)' /\ x \in Laid(Plan(x.via)')
        <4>1. \A x \in net.routes \ Pins(net) : x.via \in Runs
          BY <2>5 DEF Basis, Devices, Pins
        <4> QED
          BY <2>1, <2>3, <2>5, <4>1 DEF Apart
      <3>2. Covers' /\ BackupFits'
        BY <2>1, <2>5 DEF Apart, Covers, BackupFits, Tainted, Resets
      <3> QED
        BY <2>3, <2>4, <2>5, <3>1, <3>2 DEF Apart
    <2> QED
      BY <2>1, <2>2, <2>5 DEF RunsInvariant
  <1>2. ASSUME NEW r \in Runs, RunMoves(r)
        PROVE  RunsInvariant'
    <2>1. CASE StartRun(r)
      BY <2>1, StartRunKeeps
    <2>2. CASE Dial(r)
      BY <2>2, DialKeeps
    <2>3. CASE OpenTun(r)
      BY <2>3, OpenTunKeeps
    <2>4. CASE DetectGateway(r)
      BY <2>4, DetectGatewayKeeps
    <2>5. CASE LookAtRecord(r)
      BY <2>5, LookKeeps
    <2>6. CASE TruncateRecord(r)
      BY <2>6, TruncateKeeps
    <2>7. CASE WriteRecord(r)
      BY <2>7, WriteKeeps
    <2>8. CASE ApplyNext(r)
      BY <2>8, ApplyNextKeeps
    <2>9. CASE StartForwarding(r)
      BY <2>9, StartForwardingKeeps
    <2>10. CASE Stop(r) \/ StopUnheard(r)
      BY <2>10, RunStopKeeps
    <2>11. CASE Undoes(r)
      BY <2>11, UndoesKeeps
    <2>12. CASE UndoDone(r)
      BY <2>12, UndoDoneKeeps
    <2>13. CASE StackEnds(r)
      BY <2>13, StackEndsKeeps
    <2>14. CASE Kill(r)
      BY <2>14, KillKeeps
    <2> QED
      BY <1>2, <2>1, <2>2, <2>3, <2>4, <2>5, <2>6, <2>7, <2>8, <2>9, <2>10, <2>11, <2>12,
         <2>13, <2>14 DEF RunMoves
  <1> QED
    BY <1>1, <1>2 DEF RunNext

----------------------------------------------------------------------------
(* What follows for whoever runs them.                                     *)

(* No two runs hold routes, and what one holds is in place.                *)
LEMMA ApartIsKeptApart ==
    ASSUME RunsInvariant
    PROVE  RunsKeptApart
  <1>1. Basis /\ RunTypeOK
    BY DEF RunsInvariant, Basis, RunsTyped
  <1>2. ASSUME ~overlapped, NEW r \in Runs, Holds(r)
        PROVE  /\ \A q \in Runs \ {r} : ~Holds(q)
               /\ record = [by |-> r, plan |-> Plan(r)]
               /\ run[r].stage = "running" => InPlace(r)
               /\ (/\ run[r].stage = "apply" /\ run[r].stack = "up" /\ run[r].todo # <<>>
                   /\ IsInjective(Captured(Plan(r)))) =>
                       CanRun(Head(run[r].todo), net) \/ InTheWay(Head(run[r].todo))
    <2> DEFINE p == Plan(r)
               t == Todo(r)
    <2>1. Apart /\ Acts(r) /\ Acted(r)
      BY <1>2 DEF RunsInvariant, Acts, Apart
    <2>2. \A q \in Runs \ {r} : ~Holds(q)
      BY <2>1, Alone DEF Acts
    <2>3. record = Own(r) /\ record \notin {Absent, Torn} /\ record.plan = p
      BY <1>2, <2>1, HolderRecorded DEF Own
    <2>4. /\ p \in RoutePlan /\ p.interface = r /\ p.mode = run[r].mode
          /\ p.server = run[r].server
          /\ p.mode \in {"test", "default"} /\ RunsTyped /\ net \in Net
          /\ (r \in net.devices <=> run[r].stack = "up")
      BY <1>1, PlanTyped, Known
    <2>5. ASSUME run[r].stage = "running"
          PROVE  InPlace(r)
      <3>1. t = <<>> /\ Applying(r)
        BY <1>1, <2>1, <2>5, Known DEF Listed, Acted, Within
      <3>2. Range(t) = {}
        BY <3>1 DEF Range
      <3>3. \A x \in Laid(p) : x.via \in {"gateway"} \cup net.devices => x \in net.routes
        BY <3>1, <3>2 DEF Applying
      <3>4. ASSUME run[r].stack = "up", NEW k \in DOMAIN TunRoutes(p)
            PROVE  TunRoutes(p)[k] \in net.routes
        <4>1. TunRoutes(p)[k] = Into(p.interface, Captured(p)[k]) /\ k \in DOMAIN Captured(p)
          BY <3>4 DEF TunRoutes
        <4>2. TunRoutes(p)[k] \in Laid(p) /\ TunRoutes(p)[k].via = r
          BY <2>4, <4>1, Leads DEF Laid
        <4> QED
          BY <2>4, <3>3, <3>4, <4>2
      <3>5. ASSUME run[r].mode = "default"
            PROVE  Pin(run[r].server) \in net.routes /\ net.resolv = TunnelDns
        <4>1. Pin(run[r].server) \in Laid(p) /\ Pin(run[r].server).via = "gateway"
          BY <2>4, <3>5, Leads DEF Laid, Outlives
        <4>2. net.resolv = TunnelDns
          BY <3>1, <3>2, <3>5 DEF Applying
        <4> QED
          BY <3>3, <4>1, <4>2
      <3> QED
        BY <3>4, <3>5 DEF InPlace
    <2>6. ASSUME run[r].stage = "apply", run[r].stack = "up", t # <<>>, OnceEach(r)
          PROVE  CanRun(Head(t), net) \/ InTheWay(Head(t))
      <3>1. /\ Head(t) \in Range(t) /\ Range(t) \subseteq ToApply(manager, p)
        BY <1>1, <2>6, LessToDo, Known DEF Listed
      <3>2. Applying(r)
        BY <2>1, <2>6 DEF Acted, Within
      <3> HIDE DEF t, p
      <3>3. ASSUME NEW x \in Laid(p), Head(t) = Add(x)
            PROVE  CanRun(Head(t), net) \/ InTheWay(Head(t))
        <4>1. /\ x \notin net.routes \/ Del(x) \in failed
              /\ x.via \in net.devices \cup {"gateway"}
          <5>1. x.via = r \/ x.via = "gateway"
            BY <2>4, LaidRoutes
          <5> QED
            BY <2>4, <2>6, <3>1, <3>2, <3>3, <5>1 DEF Applying, t, p
        <4>2. \A y \in net.routes : y \in Laid(p) \/ Del(y) \in failed
          <5>1. \A y \in Pins(net) : y \in Outlives(p) \/ Del(y) \in failed
            BY <2>1, <2>3 DEF Apart, Covers
          <5> QED
            BY <1>1, <2>1, <5>1, Alone DEF Laid, p
        <4>3. ASSUME NEW y \in net.routes, y.to = x.to
              PROVE  InTheWay(Head(t))
          <5>1. Del(y) \in failed
            BY <2>4, <4>1, <4>2, <4>3, LaidRoutes
          <5>2. Head(t).route = x
            BY <3>3 DEF Add
          <5> QED
            BY <4>3, <5>1, <5>2 DEF InTheWay
        <4> QED
          BY <2>4, <3>3, <4>1, <4>3, Effects
      <3>4. CASE Head(t) \in {Backup, Override}
        BY <2>4, <3>4, Effects
      <3> QED
        BY <3>1, <3>3, <3>4 DEF ToApply
    <2> QED
      BY <2>2, <2>3, <2>5, <2>6 DEF Own, OnceEach, Todo
  <1> QED
    BY <1>1, <1>2 DEF RunsKeptApart

(* Whatever outlives a process is in the record.                           *)
LEMMA ApartLeavesNothing ==
    ASSUME RunsInvariant
    PROVE  RunLeavesNothing
  <1>1. SUFFICES ASSUME ~overlapped
                 PROVE  /\ \A x \in Pins(net) :
                              (Recorded /\ x = Pin(record.plan.server)) \/ Del(x) \in failed
                        /\ net.resolv = TunnelDns =>
                              Recorded \/ {Restore, EmptyDns} \cap failed # {}
                        /\ (/\ record = Absent /\ Left(failed, net) = {}
                            /\ \A r \in Runs : run[r].stage \notin Live) => Untouched(net)
                        /\ \A r \in Runs : FindsItsRoutes(r)
    BY DEF RunLeavesNothing
  <1>2. Basis /\ Apart
    BY <1>1 DEF RunsInvariant
  <1>3. \A x \in Pins(net) : (Recorded /\ x = Pin(record.plan.server)) \/ Del(x) \in failed
    BY <1>2 DEF Apart, Covers, Recorded, Outlives
  <1>6. net.resolv = TunnelDns => Recorded \/ {Restore, EmptyDns} \cap failed # {}
    BY <1>2 DEF Apart, Covers, Recorded, Tainted, Resets
  <1>4. ASSUME record = Absent, Left(failed, net) = {},
               \A r \in Runs : run[r].stage \notin Live
        PROVE  Untouched(net)
    <2>1. \A r \in Runs : ~Holds(r) /\ run[r].stack = "none"
      <3>1. \A r \in Runs : run[r].stage \in {"off", "gone"}
        BY <1>2, <1>4, Known, PlanTyped, StagesAre
      <3>2. \A r \in Runs : StackFits(run[r].stage, Todo(r), run[r].stack)
        BY <1>2, Known
      <3> QED
        BY <3>1, <3>2 DEF StackFits, Holds
    <2>2. net.devices = {}
      BY <1>2, <2>1 DEF Basis, Devices
    <2>3. net.routes = Pins(net)
      BY <1>2, <2>2 DEF Basis, Devices, Pins
    <2>4. (\A x \in net.routes : Del(x) \in failed) /\ (net.resolv = TunnelDns => Tainted)
      BY <1>2, <1>4, <2>3 DEF Apart, Covers
    <2>5. net.routes = {} /\ net.resolv # TunnelDns
      BY <1>4, <2>4, LeftOf DEF Tainted
    <2> QED
      BY <2>2, <2>5 DEF Untouched
  <1>5. ASSUME NEW r \in Runs, run[r].stage = "stop", run[r].stack # "died", Todo(r) # <<>>,
               Head(Todo(r)) \notin {Shutdown, Clear}
        PROVE  CanRun(Head(Todo(r)), net)
    <2> DEFINE p == Plan(r)
               t == Todo(r)
    <2>1. Stopping(r)
      BY <1>2, <1>5 DEF Apart, Acted, Todo
    <2>2. /\ Head(t) \in ToRevert(manager, p) /\ Head(t) \in Range(t)
          /\ p.mode = run[r].mode /\ p.mode \in {"test", "default"} /\ net \in Net
          /\ manager \in {"linux", "macos"}
      BY <1>2, <1>5, LessToDo, Known, PlanTyped DEF Listed
    <2> HIDE DEF t, p
    <2>3. ASSUME NEW x \in Laid(p), Head(t) = Del(x)
          PROVE  CanRun(Head(t), net)
      <3>1. x \in net.routes
        BY <1>5, <2>1, <2>2, <2>3 DEF Stopping, t, p
      <3> QED
        BY <2>2, <2>3, <3>1, Effects
    <2>4. ASSUME Head(t) = Resets(manager), p.mode = "default"
          PROVE  CanRun(Head(t), net)
      <3>1. CASE manager = "linux"
        <4>1. net.backup # NoBackup
          BY <2>1, <2>2, <2>4, <3>1 DEF Stopping
        <4> QED
          BY <2>2, <2>4, <3>1, <4>1, Effects DEF Resets
      <3>2. CASE manager # "linux"
        BY <2>2, <2>4, <3>2, Effects DEF Resets
      <3> QED
        BY <3>1, <3>2
    <2>5. CanRun(Head(t), net)
      BY <2>2, <2>3, <2>4 DEF ToRevert
    <2> QED
      BY <2>5 DEF t
  <1> QED
    BY <1>3, <1>4, <1>5, <1>6 DEF FindsItsRoutes, Todo

----------------------------------------------------------------------------
(* The runs of one machine, under the specification: with runs that do not *)
(* overlap between look and writing, whoever acts acts alone, and machine  *)
(* and record are what its progress says, but for what commands of an undo *)
(* failed to take back (connect.rs, route/mod.rs, route/state.rs).         *)
THEOREM RunsAreAccounted == Spec => []RunsInvariant
  <1>1. Init => RunsInvariant
    BY RunsStart DEF Init
  <1>2. RunsInvariant /\ [Next]_vars => RunsInvariant'
    <2>1. [Next]_vars => [RunNext]_runVars
      BY DEF Next, vars, runVars
    <2> QED
      BY <2>1, RunsStep
  <1> QED
    BY <1>1, <1>2, PTL DEF Spec

(* One run at a time holds routes, under its own record, with all of them  *)
(* in place while it runs; and nothing is in the way of the next command   *)
(* of a start but a route that an undo failed to delete (recover_if_stale, *)
(* RouteGuard::apply).                                                     *)
THEOREM RunsAlwaysApart == Spec => []RunsKeptApart
  <1>1. RunsInvariant => RunsKeptApart
    BY ApartIsKeptApart
  <1> QED
    BY <1>1, RunsAreAccounted, PTL

(* Wherever runs fail, stop or are killed, the record undoes whatever of   *)
(* theirs outlives them that no undo failed to take back; and with neither *)
(* a record nor such a failure the machine is as it was (AppliedState).    *)
THEOREM RunsAlwaysUndoable == Spec => []RunLeavesNothing
  <1>1. RunsInvariant => RunLeavesNothing
    BY ApartLeavesNothing
  <1> QED
    BY <1>1, RunsAreAccounted, PTL
=============================================================================
