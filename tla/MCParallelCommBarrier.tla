------------------------ MODULE MCParallelCommBarrier -------------------------
(* One PPU that only sends, one that does both and one that only receives, so  *)
(* that each barrier has a member the other has not; three buffers, so that    *)
(* the shares of two threads differ in size; two rounds.                       *)
EXTENDS ParallelCommBarrier
=============================================================================
