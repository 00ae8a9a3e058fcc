----------------------------- MODULE MCHostFont -----------------------------
(* The model values of the HostFont run: a font with a file and a large font,  *)
(* one that has only another large font, and one that has only a file.        *)
EXTENDS HostFont, TLC

CONSTANTS mono, serif, plain, monoFile, plainFile, monoCjk, serifCjk, rare

TheFile == mono :> monoFile @@ serif :> None @@ plain :> plainFile
TheSource == mono :> monoCjk @@ serif :> serifCjk @@ plain :> None
=============================================================================
