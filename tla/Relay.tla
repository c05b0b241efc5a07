-------------------------------- MODULE Relay --------------------------------
(***************************************************************************)
(* The two protocols as Engine uses them: proxy_one asks for a stream for  *)
(* a flow, a resolver asks for one for each server it tries, and both draw *)
(* on permits: 64 for flows, 8 more for DNS.  SshTunnel opens a channel of *)
(* one session and waits for a permit without limit; ShadowsocksTunnel     *)
(* opens a socket and bounds both waits.  A stream holds its permit until  *)
(* it is dropped (CountingStream).                                         *)
(*                                                                         *)
(* A tick stands for five seconds, the resolvers' DEFAULT_TIMEOUT.         *)
(***************************************************************************)
EXTENDS Integers, Sequences, FiniteSets, SequencesExt

CONSTANTS
    Flows,            \* connections the applications open, numbered as they come
    Queries,          \* DNS queries they send, numbered as they come
    NServers,         \* resolvers of the profile
    MaxFlows,         \* MAX_CONCURRENT_FLOWS, MAX_CONCURRENT_CHANNELS
    MaxDns,           \* MAX_CONCURRENT_DNS_FLOWS, MAX_CONCURRENT_DNS_CHANNELS
    QueryTimeout,     \* DEFAULT_TIMEOUT of the resolvers, in ticks
    ConnectTimeout,   \* FLOW_CONNECT_TIMEOUT
    PermitTimeout     \* FLOW_PERMIT_TIMEOUT

ASSUME RelayAssumption ==
    /\ Flows \subseteq Nat /\ Queries \subseteq Nat /\ Flows \cap Queries = {}
    /\ NServers \in Nat \ {0} /\ MaxFlows \in Nat \ {0} /\ MaxDns \in Nat \ {0}
    /\ QueryTimeout \in Nat \ {0} /\ ConnectTimeout \in Nat \ {0}
    /\ PermitTimeout \in Nat /\ PermitTimeout > ConnectTimeout

Tasks == Flows \cup Queries
Pools == {"flow", "dns"}
Budget == [flow |-> MaxFlows, dns |-> MaxDns]

VARIABLES
    profile,   \* which protocol relays, and how its resolvers are spoken to
    session,   \* the SSH session: keepalives end it
    task,      \* proxy_one of each flow, resolve_one of each query
    pool,      \* the two semaphores: free permits, and waiters in order
    closing,   \* DoH connections whose query is over, still holding a stream
    active     \* Counters::active: the streams that exist

vars == <<profile, session, task, pool, closing, active>>

Stages == {"idle", "waiting", "dialing", "open", "done", "failed"}
Under == {"waiting", "dialing", "open"}

TypeOK ==
    /\ profile \in [kind : {"ssh", "shadowsocks"}, mode : {"tcp", "https"}]
    /\ session \in {"up", "dead"}
    /\ task \in [Tasks -> [stage : Stages,
                           wait : 0 .. PermitTimeout,   \* ticks in this stage
                           spent : 0 .. QueryTimeout,   \* ticks in this attempt
                           server : 1 .. NServers]]     \* the resolver being tried
    /\ pool \in [Pools -> [free : Nat, queue : Seq(Tasks)]]
    /\ closing \subseteq Queries \X (1 .. NServers)
    /\ active \in Nat

Idle == [stage |-> "idle", wait |-> 0, spent |-> 0, server |-> 1]

Init ==
    /\ profile \in [kind : {"ssh", "shadowsocks"}, mode : {"tcp", "https"}]
    /\ session = "up"
    /\ task = [t \in Tasks |-> Idle]
    /\ pool = [p \in Pools |-> [free |-> Budget[p], queue |-> <<>>]]
    /\ closing = {} /\ active = 0

Shadowsocks == profile.kind = "shadowsocks"

(* open_tcp_stream for flows, open_dns_stream for queries.                 *)
PoolOf_Shared(t) == "flow"
PoolOf(t) == IF t \in Flows THEN "flow" ELSE "dns"

----------------------------------------------------------------------------
(* The semaphore: fair, and a permit that comes back goes straight to the  *)
(* waiter at the front.                                                    *)

Woken_Nobody(s) == {}
Woken(s) == IF s.queue = <<>> THEN {} ELSE {Head(s.queue)}

PermitBack(s) == IF Woken(s) = {} THEN [s EXCEPT !.free = @ + 1]
                                  ELSE [s EXCEPT !.queue = Tail(@)]

Enter(s, t) == IF s.free > 0 THEN [s EXCEPT !.free = @ - 1]
                             ELSE [s EXCEPT !.queue = Append(@, t)]

(* The task once it has asked semaphore s for a permit.                    *)
Asking(s, rec) ==
    [rec EXCEPT !.stage = IF s.free > 0 THEN "dialing" ELSE "waiting",
                !.wait = 0]

(* The queue once t has given up its place in it.                          *)
WithoutWaiter(q, t) == RemoveAt(q, CHOOSE i \in DOMAIN q : q[i] = t)

(* What t's leaving does to its pool: a permit comes back, or a place in   *)
(* the queue is given up; a DoH connection that lives on keeps the permit. *)
LeavePool(s, t, lives) ==
    CASE task[t].stage = "waiting" -> [s EXCEPT !.queue = WithoutWaiter(@, t)]
      [] lives                     -> s
      [] OTHER                     -> PermitBack(s)

Leaving(s, t, lives) == IF task[t].stage = "waiting" \/ lives THEN {} ELSE Woken(s)

WithWoken(woken) ==
    [t \in Tasks |-> IF t \in woken THEN [task[t] EXCEPT !.stage = "dialing", !.wait = 0]
                                    ELSE task[t]]

(* The stream of t is dropped, or its DoH connection takes it over.        *)
DropStream(t, lives) ==
    /\ active' = IF task[t].stage = "open" /\ ~lives THEN active - 1 ELSE active
    /\ closing' = IF lives THEN closing \cup {<<t, task[t].server>>} ELSE closing

(* The task of t is over: its stage and its place in the pool.             *)
Settle(t, outcome, lives) ==
    LET p == PoolOf(t)
    IN  /\ pool' = [pool EXCEPT ![p] = LeavePool(@, t, lives)]
        /\ task' = [WithWoken(Leaving(pool[p], t, lives)) EXCEPT
                       ![t] = [Idle EXCEPT !.stage = outcome]]
        /\ DropStream(t, lives)

(* The attempt of a query fails: the next server is tried in the same      *)
(* poll, or the query fails, and nothing is sent back.                     *)
TryNext(q, lives) ==
    LET p == PoolOf(q)
        s == LeavePool(pool[p], q, lives)
        next == [Idle EXCEPT !.server = task[q].server + 1]
    IN  IF task[q].server = NServers
        THEN Settle(q, "failed", lives)
        ELSE /\ pool' = [pool EXCEPT ![p] = Enter(s, q)]
             /\ task' = [WithWoken(Leaving(pool[p], q, lives)) EXCEPT ![q] = Asking(s, next)]
             /\ DropStream(q, lives)

(* open_tcp_stream or open_dns_stream returns an error to its caller.      *)
DialEnds(t) ==
    /\ IF t \in Flows THEN Settle(t, "failed", FALSE) ELSE TryNext(t, FALSE)
    /\ UNCHANGED <<profile, session>>

(* Whether the TLS connection of q had been handed to a task of its own.   *)
MayLiveOn(q) == IF profile.mode = "https" /\ task[q].stage = "open" THEN BOOLEAN ELSE {FALSE}

----------------------------------------------------------------------------
(* One action per operation.                                               *)

Arrive(t) ==
    LET s == pool[PoolOf(t)]
    IN  /\ task[t].stage = "idle"
        /\ \A u \in Tasks : (t \in Flows <=> u \in Flows) /\ u < t => task[u].stage # "idle"
        /\ task' = [task EXCEPT ![t] = Asking(s, @)]
        /\ pool' = [pool EXCEPT ![PoolOf(t)] = Enter(s, t)]
        /\ UNCHANGED <<profile, session, closing, active>>

DialOk(t) ==
    /\ task[t].stage = "dialing" /\ session = "up"
    /\ task' = [task EXCEPT ![t].stage = "open", ![t].wait = 0]
    /\ active' = active + 1
    /\ UNCHANGED <<profile, session, pool, closing>>

(* The server refuses, or there is no session to open a channel of.        *)
DialFails(t) == task[t].stage = "dialing" /\ DialEnds(t)

ConnectDue(t) == Shadowsocks /\ task[t].stage = "dialing" /\ task[t].wait = ConnectTimeout
DialTimesOut(t) == ConnectDue(t) /\ DialEnds(t)

PermitDue(t) == Shadowsocks /\ task[t].stage = "waiting" /\ task[t].wait = PermitTimeout
PermitTimesOut(t) == PermitDue(t) /\ DialEnds(t)

(* query is bounded by a timeout around the whole of query_one.            *)
QueryDue_ReadOnly(q) == task[q].stage = "open" /\ task[q].spent = QueryTimeout
QueryDue(q) == task[q].stage \in Under /\ task[q].spent = QueryTimeout
QueryTimesOut(q) ==
    /\ QueryDue(q)
    /\ \E lives \in MayLiveOn(q) : TryNext(q, lives)
    /\ UNCHANGED <<profile, session>>

(* The answer arrives; a DoH connection ends some time later.              *)
Answer(q) ==
    /\ task[q].stage = "open" /\ session = "up"
    /\ Settle(q, "done", profile.mode = "https")
    /\ UNCHANGED <<profile, session>>

(* A short read, an empty answer, a failed handshake, an HTTP error.       *)
AttemptFails(q) ==
    /\ task[q].stage = "open"
    /\ \E lives \in MayLiveOn(q) : TryNext(q, lives)
    /\ UNCHANGED <<profile, session>>

(* copy_bidirectional ends, and proxy_one drops both streams.              *)
FlowEnds(f) ==
    /\ task[f].stage = "open"
    /\ Settle(f, "done", FALSE)
    /\ UNCHANGED <<profile, session>>

ConnEnds(c) ==
    LET s == pool[PoolOf(c[1])]
    IN  /\ c \in closing
        /\ closing' = closing \ {c}
        /\ active' = active - 1
        /\ pool' = [pool EXCEPT ![PoolOf(c[1])] = PermitBack(s)]
        /\ task' = WithWoken(Woken(s))
        /\ UNCHANGED <<profile, session>>

(* Keepalives went unanswered, or the server closed the session.           *)
SessionDies ==
    /\ ~Shadowsocks /\ session = "up"
    /\ session' = "dead"
    /\ UNCHANGED <<profile, task, pool, closing, active>>

(* Time does not pass beyond a deadline that is due.                       *)
Timed(t) == \/ Shadowsocks /\ task[t].stage \in {"waiting", "dialing"}
            \/ t \in Queries /\ task[t].stage \in Under
AtMost(n, m) == IF n <= m THEN n ELSE m    \* clocks saturate at the last deadline
Tick ==
    /\ \E t \in Tasks : Timed(t)
    /\ \A t \in Tasks : ~ConnectDue(t) /\ ~PermitDue(t)
    /\ \A q \in Queries : ~QueryDue(q)
    /\ task' = [t \in Tasks |->
          [task[t] EXCEPT
              !.wait = IF Shadowsocks /\ task[t].stage \in {"waiting", "dialing"}
                       THEN AtMost(@ + 1, PermitTimeout) ELSE @,
              !.spent = IF t \in Queries /\ task[t].stage \in Under
                        THEN AtMost(@ + 1, QueryTimeout) ELSE @]]
    /\ UNCHANGED <<profile, session, pool, closing, active>>

Next ==
    \/ \E t \in Tasks :
          Arrive(t) \/ DialOk(t) \/ DialFails(t) \/ DialTimesOut(t) \/ PermitTimesOut(t)
    \/ \E q \in Queries : QueryTimesOut(q) \/ Answer(q) \/ AttemptFails(q)
    \/ \E f \in Flows : FlowEnds(f)
    \/ \E c \in closing : ConnEnds(c)
    \/ SessionDies
    \/ Tick

Spec == Init /\ [][Next]_vars

(* Timers run and fire, a cancelled DoH connection ends, and every use of  *)
(* a dead session fails.  Nothing is assumed of servers or applications.   *)
DeadUse(t) == session = "dead" /\ (DialFails(t)
                                   \/ (t \in Queries /\ AttemptFails(t))
                                   \/ (t \in Flows /\ FlowEnds(t)))
Fairness ==
    /\ WF_vars(Tick)
    /\ \A t \in Tasks : /\ WF_vars(DialTimesOut(t)) /\ WF_vars(PermitTimesOut(t))
                        /\ WF_vars(DeadUse(t))
    /\ \A q \in Queries : WF_vars(QueryTimesOut(q))
    /\ \A c \in Queries \X (1 .. NServers) : WF_vars(ConnEnds(c))

FairSpec == Spec /\ Fairness

----------------------------------------------------------------------------
(* Properties.                                                             *)

In(S, stages) == {t \in S : task[t].stage \in stages}

(* Every permit is free or held by one dial, stream or ending DoH          *)
(* connection; nobody waits beside a free permit; the queue is exactly the *)
(* tasks that wait; and active counts the streams that exist.              *)
PermitsAccounted ==
    /\ TypeOK
    /\ \A p \in Pools :
          LET mine == {t \in Tasks : PoolOf(t) = p}
          IN  /\ pool[p].free + Cardinality(In(mine, {"dialing", "open"}))
                    + (IF p = "dns" THEN Cardinality(closing) ELSE 0) = Budget[p]
              /\ Range(pool[p].queue) = In(mine, {"waiting"})
              /\ pool[p].queue # <<>> => pool[p].free = 0
    /\ active = Cardinality(In(Tasks, {"open"})) + Cardinality(closing)

(* A query waits only for other queries: however many flows are held open, *)
(* the DNS allowance is not theirs (dns_channel_limit, dns_flow_limit).    *)
DnsNotStarvedByFlows ==
    In(Queries, {"waiting"}) # {} =>
        Cardinality(In(Queries, {"dialing", "open"})) + Cardinality(closing) >= MaxDns

(* Every query ends, whatever the servers do and however full the pools    *)
(* are, through every server of the profile.                               *)
EveryQuerySettles ==
    \A q \in Queries : task[q].stage \in Under ~> task[q].stage \in {"done", "failed"}

(* A flow over Shadowsocks is opened or refused, never parked for ever.    *)
ShadowsocksDialSettles ==
    \A f \in Flows :
        (Shadowsocks /\ task[f].stage \in {"waiting", "dialing"}) ~>
            task[f].stage \in {"open", "done", "failed"}

(* The death of the SSH session ends everything that used it, the dials    *)
(* still queued for a channel included.                                    *)
DeadSessionEndsAll ==
    \A t \in Tasks : (session = "dead" /\ task[t].stage \in Under) ~>
                        task[t].stage \in {"done", "failed"}

(* Every wait that has a timer in the code ends, whoever holds the permits *)
(* and whatever the servers do, and the end of a session ends the others.  *)
WaitsEnd == EveryQuerySettles /\ ShadowsocksDialSettles /\ DeadSessionEndsAll
=============================================================================
