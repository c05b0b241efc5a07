---------------------------- MODULE MCStackLoop ----------------------------
(* Two connections and one query through channels of one slot, a batch of *)
(* one packet, a poller that may fail and a device that may break.         *)
EXTENDS StackLoop
=============================================================================
