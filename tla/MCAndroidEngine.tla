--------------------------- MODULE MCAndroidEngine ---------------------------
(* Three taps of the user, up to three starts, and one revocation.         *)
EXTENDS AndroidEngine
=============================================================================
