--------------------------- MODULE MCHostSessions ---------------------------
(* Two windows for TLC. *)
EXTENDS HostSessions
CONSTANTS s1, s2
=============================================================================
