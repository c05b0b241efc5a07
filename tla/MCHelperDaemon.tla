--------------------------- MODULE MCHelperDaemon ---------------------------
(* One client, two servers, both modes, one prefix routed into the device. *)
EXTENDS HelperDaemon

OneRoute == <<"0.0.0.0/1">>
Linux == "linux"
Nothing == <<>>
=============================================================================
