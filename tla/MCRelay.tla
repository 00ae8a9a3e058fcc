------------------------------ MODULE MCRelay ------------------------------
(* Small instances of Relay for TLC. *)
EXTENDS Relay, TLC

CONSTANTS h1, h2, h3, c1, c2, c3, d1, d2, X, Y

OneHost == [d \in Devices |-> X]
TwoHosts == (d1 :> X) @@ (d2 :> Y)

Connections == Permutations(HostConns) \cup Permutations(WindowConns)
=============================================================================
