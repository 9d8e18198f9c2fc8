----------------------------- MODULE MCReduction -----------------------------
(* Two segments, one with two PPUs so that its barrier has a sleeper to wake,  *)
(* and one with a single PPU, which is its own releaser.                       *)
EXTENDS Reduction

CONSTANTS s1, s2, t1, t2, t3

\* A two-bit int.
MCINT_MIN == -2
MCINT_MAX == 1
MCBits    == {SignBit, "low"}
MCValues  == [o \in AllOps |-> CASE o = "SUM"             -> {1, 2}
                                 [] o \in {"MAX", "MIN"}  -> {-1, 1}
                                 [] o \in {"LAND", "LOR"} -> BOOLEAN
                                 [] o \in {"BAND", "BOR"} -> {MCBits, {SignBit}}]

MCSegmentOf == [t \in {t1, t2, t3} |-> IF t = t3 THEN s2 ELSE s1]
=============================================================================
