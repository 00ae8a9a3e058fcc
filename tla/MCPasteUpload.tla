---- MODULE MCPasteUpload ----
(* The model values and functions of the PasteUpload runs. *)
EXTENDS PasteUpload
CONSTANTS w1, a, b
OneWindow == [u \in {a, b} |-> w1]
TwoAndThree == [u \in {a, b} |-> IF u = b THEN 3 ELSE 2]
====
