----------------------------- MODULE MCHostLock -----------------------------
(* Three connector processes for TLC. *)
EXTENDS HostLock
CONSTANTS p1, p2, p3
=============================================================================
