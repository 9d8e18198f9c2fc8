---------------------------- MODULE MCLpuCounter -----------------------------
(* Three PPUs and up to eight LPUs: fewer LPUs than PPUs (and none at all), as *)
(* many, a multiple, and each possible remainder.                              *)
EXTENDS LpuCounter

\* The LPU counts of one-, two- and three-dimensional LPSes.
MCCounts == UNION {[1..n -> 0..3] : n \in 1..3}
=============================================================================
