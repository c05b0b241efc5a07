---------------------------- MODULE MCDatagrams ----------------------------
(* Two applications, two servers, and answers on both sides of each limit. *)
EXTENDS Datagrams, TLC

CONSTANTS a1, a2, s1, s2

AnswerLengths == {0, 1, 12, 548, 549, 1472, 1473, 65507, 65508, 65535}
DeviceMtus == {576, 1500, 65535}
Symmetry == Permutations(Apps) \cup Permutations(Servers)
=============================================================================
