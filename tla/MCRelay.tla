------------------------------- MODULE MCRelay -------------------------------
(* More flows and queries than permits, over both protocols and both kinds *)
(* of resolver.                                                            *)
EXTENDS Relay
=============================================================================
