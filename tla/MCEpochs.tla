------------------------------ MODULE MCEpochs ------------------------------
(* Epoch blocks of one and of two PPU controllers.                             *)
EXTENDS Epochs, TLC

CONSTANTS t1, t2, a, b, c, d

\* One PPU with two LPUs.
OneThread == t1 :> <<a, b>>

\* Two PPUs, each with an LPU of its own and one whose part they share.
TwoThreads == t1 :> <<a, c>> @@ t2 :> <<b, d>>

\* Two controllers of a group, which come to the same LPU.
OneGroup == t1 :> <<a>> @@ t2 :> <<a>>

PartOfLpu == a :> 1 @@ b :> 2 @@ c :> 3 @@ d :> 3
=============================================================================
