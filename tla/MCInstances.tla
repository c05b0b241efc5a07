---------------------------- MODULE MCInstances ----------------------------
(* Three processes of each program.  Test mode lists one prefix, which is  *)
(* the first of the two resolvers it captures.                             *)
EXTENDS Instances, TLC

OneHalf == <<"0.0.0.0/1">>
OneCidr == <<"1.1.1.1">>
TwoResolvers == <<"1.1.1.1", "9.9.9.9">>
FirstResolver == {"1.1.1.1"}

(* What is said of the runs is said as long as none have overlapped, and   *)
(* an overlap is never taken back: no state after one needs a look.        *)
NoOverlap == ~overlapped

Symmetry == Permutations(Daemons) \cup Permutations(Runs) \cup Permutations(Servers)
=============================================================================
