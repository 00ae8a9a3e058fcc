---- MODULE MCHostLink ----
(* The model values of the HostLink run. *)
EXTENDS HostLink
CONSTANTS s1, s2
====
