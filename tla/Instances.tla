----------------------------- MODULE Instances -----------------------------
(***************************************************************************)
(* The programs that hold a machine to themselves: several processes of    *)
(* the helper at one socket path, or several runs of the command line over *)
(* one record of routes.  The two share neither: a machine sees many       *)
(* processes of the one or of the other.                                   *)
(***************************************************************************)
EXTENDS SocketPath, CliRuns

VARIABLE program    \* of which program there are many processes

vars == <<program, socketVars, runVars>>

Init == program \in {"helper", "cli"} /\ SocketInit /\ RunInit

Next == \/ program = "helper" /\ SocketNext /\ UNCHANGED <<program, runVars>>
        \/ program = "cli" /\ RunNext /\ UNCHANGED <<program, socketVars>>

Spec == Init /\ [][Next]_vars
=============================================================================
