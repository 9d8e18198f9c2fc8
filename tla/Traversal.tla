------------------------------ MODULE Traversal ------------------------------
(***************************************************************************)
(* What an iterator over the points of a set promises: every step delivers *)
(* one of the points that are left, and in the end all of them are         *)
(* delivered.                                                              *)
(***************************************************************************)
EXTENDS SequencesExt

VARIABLES points,      \* the points to deliver
          delivered    \* those delivered so far, in order

vars == <<points, delivered>>

Init == delivered = <<>>

Deliver ==
  \E x \in points \ ToSet(delivered) :
    /\ delivered' = Append(delivered, x)
    /\ UNCHANGED points

Next == Deliver

Spec == Init /\ [][Next]_vars /\ WF_vars(Next)

\* All points are delivered.
Complete == <>(ToSet(delivered) = points)
=============================================================================
