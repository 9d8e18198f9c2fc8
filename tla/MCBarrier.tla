----------------------------- MODULE MCBarrier ------------------------------
(* Barrier with four threads and three rounds: one thread can be inside the  *)
(* next round while two others are still on their way out of the last one,   *)
(* and the third round shows what the second reset left behind.              *)
EXTENDS Barrier
=============================================================================
