--------------------------- MODULE MCHeartbeatWake ---------------------------
(* Small instances of HeartbeatWake for TLC.                               *)
EXTENDS HeartbeatWake
=============================================================================
