----------------------------- MODULE SocketPath -----------------------------
(***************************************************************************)
(* Who serves the helper's socket (crates/liostunnel-helper: `listener.rs` *)
(* and the gate of `auth.rs`): daemons that start, serve, leave and are    *)
(* killed in any order, all at one path, of which the kernel's advisory    *)
(* lock lets one at a time touch the entry.                                *)
(***************************************************************************)
EXTENDS Naturals, FiniteSets

CONSTANTS
    Daemons,      \* processes of the helper, each started once
    Nobody,       \* no daemon
    User,         \* the uid the daemons are configured to serve
    OtherUser,    \* another uid
    MaxClients    \* bound: connections attempted

ASSUME SocketPathAssumption == Nobody \notin Daemons /\ MaxClients \in Nat

Root == "root"
Uids == {User, OtherUser, Root}

VARIABLES
    daemon,   \* where each daemon is in bind, serve and drop
    lock,     \* who holds the flock on the lockfile, which is never unlinked
    entry,    \* the directory entry at the path: who bound it, and its inode's rights
    caller,   \* the peer of the connection accepted and not yet authorized
    guests,   \* history: the uids each daemon read a request of
    tries     \* bound: connections left

socketVars == <<daemon, lock, entry, caller, guests, tries>>

NoEntry == [by |-> Nobody, owner |-> Root, private |-> FALSE]
Entry == [by : Daemons \cup {Nobody}, owner : Uids, private : BOOLEAN]
Binding == {"locked", "cleared", "bound", "listener", "private"}
Dropping == {"dropping", "unlinking"}
Alive == Binding \cup {"starting", "serving"} \cup Dropping

SocketTypeOK ==
    /\ daemon \in [Daemons -> Alive \cup {"off", "gone"}]
    /\ lock \in Daemons \cup {Nobody}
    /\ entry \in Entry
    /\ caller \in [Daemons -> Uids \cup {Nobody}]
    /\ guests \in [Daemons -> SUBSET Uids]
    /\ tries \in 0 .. MaxClients

SocketInit ==
    /\ daemon = [d \in Daemons |-> "off"]
    /\ lock = Nobody /\ entry = NoEntry
    /\ caller = [d \in Daemons |-> Nobody] /\ guests = [d \in Daemons |-> {}]
    /\ tries = MaxClients

Moves(d, stage) == daemon' = [daemon EXCEPT ![d] = stage]

(* The process ends: the kernel releases its lock, however it died, and    *)
(* closes what it was talking on.                                          *)
Ends(d) ==
    /\ Moves(d, "gone")
    /\ lock' = IF lock = d THEN Nobody ELSE lock
    /\ caller' = [caller EXCEPT ![d] = Nobody]
    /\ UNCHANGED <<guests, tries>>

StartDaemon(d) ==
    /\ daemon[d] = "off"
    /\ Moves(d, "starting")
    /\ UNCHANGED <<lock, entry, caller, guests, tries>>

(* PathLock::acquire.  A live helper has it: refuse to start.              *)
LockFree_Always == TRUE
LockFree == lock = Nobody
AcquireLock(d) ==
    /\ daemon[d] = "starting"
    /\ \/ LockFree /\ lock' = d /\ Moves(d, "locked") /\ UNCHANGED <<entry, caller, guests, tries>>
       \/ Ends(d) /\ UNCHANGED entry

(* Holding the lock, whatever is at the path is debris.                    *)
RemoveDebris(d) ==
    /\ daemon[d] = "locked"
    /\ \/ entry' = NoEntry /\ Moves(d, "cleared") /\ UNCHANGED <<lock, caller, guests, tries>>
       \/ Ends(d) /\ UNCHANGED entry

(* bind(2) refuses a path that has an entry.                               *)
BindSocket(d) ==
    /\ daemon[d] = "cleared"
    /\ \/ /\ entry = NoEntry
          /\ entry' = [by |-> d, owner |-> Root, private |-> FALSE]
          /\ Moves(d, "bound")
          /\ UNCHANGED <<lock, caller, guests, tries>>
       \/ Ends(d) /\ UNCHANGED entry

(* stat_path: from here the Listener owns the entry; before, the failing   *)
(* path removes it.                                                        *)
StatSocket(d) ==
    /\ daemon[d] = "bound"
    /\ \/ Moves(d, "listener") /\ UNCHANGED <<lock, entry, caller, guests, tries>>
       \/ Ends(d) /\ entry' = NoEntry

MakePrivate(d) ==
    /\ daemon[d] = "listener"
    /\ \/ Moves(d, "private") /\ entry' = [entry EXCEPT !.private = TRUE]
       \/ Moves(d, "dropping") /\ UNCHANGED entry
    /\ UNCHANGED <<lock, caller, guests, tries>>

GiveToAuthorizedUid(d) ==
    /\ daemon[d] = "private"
    /\ \/ Moves(d, "serving") /\ entry' = [entry EXCEPT !.owner = User]
       \/ Moves(d, "dropping") /\ UNCHANGED entry
    /\ UNCHANGED <<lock, caller, guests, tries>>

(* connect(2) needs write permission on the entry, and reaches whoever     *)
(* bound it; the socket listens from bind on.                              *)
MayOpen(u) == u \in {Root, entry.owner}
ClientConnects(u) ==
    /\ entry # NoEntry /\ MayOpen(u) /\ tries > 0
    /\ daemon[entry.by] \in Alive /\ caller[entry.by] = Nobody
    /\ caller' = [caller EXCEPT ![entry.by] = u]
    /\ tries' = tries - 1
    /\ UNCHANGED <<daemon, lock, entry, guests>>

(* authorize_peer: nobody but the configured uid, root included.           *)
Authorized(u) == u = User
AcceptPeer(d) ==
    /\ daemon[d] = "serving" /\ caller[d] # Nobody
    /\ caller' = [caller EXCEPT ![d] = Nobody]
    /\ guests' = IF Authorized(caller[d]) THEN [guests EXCEPT ![d] = @ \cup {caller[d]}] ELSE guests
    /\ UNCHANGED <<daemon, lock, entry, tries>>

(* serve returns, on SIGTERM or an error, and main drops the Listener.     *)
StopServing(d) ==
    /\ daemon[d] = "serving"
    /\ Moves(d, "dropping")
    /\ UNCHANGED <<lock, entry, caller, guests, tries>>

(* Drop: stat, and unlink what it is the identity of; the lock goes last.  *)
IsOurs(d) == entry.by = d
DropStats(d) ==
    /\ daemon[d] = "dropping"
    /\ \/ IsOurs(d) /\ Moves(d, "unlinking") /\ UNCHANGED <<lock, caller, guests, tries>>
       \/ ~IsOurs(d) /\ Ends(d)
    /\ UNCHANGED entry

DropUnlinks(d) ==
    /\ daemon[d] = "unlinking"
    /\ entry' = NoEntry
    /\ Ends(d)

KillDaemon(d) ==
    /\ daemon[d] \in Alive
    /\ Ends(d)
    /\ UNCHANGED entry

DaemonMoves(d) ==
    \/ StartDaemon(d) \/ AcquireLock(d) \/ RemoveDebris(d) \/ BindSocket(d) \/ StatSocket(d)
    \/ MakePrivate(d) \/ GiveToAuthorizedUid(d) \/ AcceptPeer(d) \/ StopServing(d)
    \/ DropStats(d) \/ DropUnlinks(d) \/ KillDaemon(d)

SocketNext ==
    \/ \E d \in Daemons : DaemonMoves(d)
    \/ \E u \in Uids : ClientConnects(u)

----------------------------------------------------------------------------
(* A daemon that serves is reached by its user and read by nobody else,    *)
(* and keeps the entry it bound until it leaves, whoever starts, leaves or *)
(* dies beside it; and one that may bind never finds the path taken        *)
(* (Listener::bind, PathLock, Drop, authorize_peer).                       *)
DaemonServesItsUser ==
    /\ SocketTypeOK
    /\ \A d \in Daemons :
          /\ daemon[d] = "serving" => entry = [by |-> d, owner |-> User, private |-> TRUE]
          /\ daemon[d] \in Binding \cup Dropping \cup {"serving"} => lock = d
          /\ daemon[d] = "cleared" => entry = NoEntry
          /\ guests[d] \subseteq {User}
=============================================================================
