---------------------------- MODULE MCStackFlow ----------------------------
(* One connection, with payload in both directions: the life of a flow.   *)
EXTENDS StackCore
=============================================================================
