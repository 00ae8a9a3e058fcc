----------------------------- MODULE MCServices -----------------------------
(* Instances of Services for TLC. *)
EXTENDS Services
CONSTANTS host, c1
=============================================================================
