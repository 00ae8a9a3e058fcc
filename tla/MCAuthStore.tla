----------------------------- MODULE MCAuthStore -----------------------------
(* The model values of the AuthStore run. *)
EXTENDS AuthStore, TLC
CONSTANTS h1, h2, d1, d2, d3, c1
\* Workstations and devices are alike.
Alike == Permutations({h1, h2}) \cup Permutations({d1, d2, d3})
=============================================================================
