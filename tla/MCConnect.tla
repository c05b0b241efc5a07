------------------------------ MODULE MCConnect ------------------------------
(* Sound profiles, and profiles with one flaw each; every order of an IPv4 *)
(* and an IPv6 address; two keys of one algorithm and one of another.      *)
EXTENDS Connect

Sound == {d \in [via : {"draft"}, protocol : {"ssh", "shadowsocks"},
                 auth : {"password", "shadowsocks"}, offered : {TRUE},
                 addressed : {TRUE}, mode : {"tcp"}, doh : {"none"},
                 servers : {1, 2}, source : {"file"}] :
             IF d.protocol = "ssh" THEN d.auth = "password" /\ d.servers = 1
                                   ELSE d.auth = "shadowsocks"}

Flawed(d) == {[d EXCEPT !.protocol = "wireguard"], [d EXCEPT !.auth = "preshared_key"],
              [d EXCEPT !.auth = "private_key"],
              [d EXCEPT !.offered = FALSE], [d EXCEPT !.addressed = FALSE],
              [d EXCEPT !.servers = 0], [d EXCEPT !.source = "env"]}
             \cup {[d EXCEPT !.mode = "https", !.doh = doh] :
                      doh \in {"none", "good", "blank", "relative", "unparsable"}}

MCDrafts ==
    Sound \cup UNION {Flawed(d) : d \in {s \in Sound : s.servers = 1}}
    \cup {[d EXCEPT !.mode = "https", !.doh = "good"] : d \in Sound}
Kept(base, eols) ==
    [body |-> [base |-> base, eols |-> eols], owner |-> "caller", private |-> TRUE]
MCUserFiles == {Kept("right", 1), Kept("right", 2),
                [Kept("right", 0) EXCEPT !.owner = "other"],
                [Kept("right", 0) EXCEPT !.private = FALSE]}

MCAnswers == {<<"v6">>, <<"v6", "v4a">>, <<"v4b", "v4a">>}
MCHostKeys == {[alg |-> "ed25519", id |-> 1], [alg |-> "ed25519", id |-> 2],
               [alg |-> "rsa", id |-> 1]}
MCReplyDelay == [b \in {"prompt", "late"} |-> IF b = "prompt" THEN 1 ELSE 5]
=============================================================================
