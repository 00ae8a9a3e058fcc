---- MODULE MCFileTransfer ----
(* The model values of the FileTransfer runs. *)
EXTENDS FileTransfer, TLC
CONSTANTS A, B, r1, r2, r3, r4
====
