-------------------------- MODULE MCStackListeners --------------------------
(* Several applications opening connections to one destination, with no   *)
(* payload: the life of a listener and the sharing of the SocketSet.  Only *)
(* safety is checked, so the applications and the handles are symmetric.   *)
EXTENDS StackCore, TLC

Symmetry == Permutations(Srcs) \cup Permutations(Handles)
=============================================================================
