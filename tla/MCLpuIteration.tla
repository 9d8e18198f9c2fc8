--------------------------- MODULE MCLpuIteration ----------------------------
(* Small tasks that between them have every kind of LPS, loops that skip one   *)
(* or two LPSes, PPUs that have no LPU under some of the parents, and machines *)
(* of which only some segments take part.                                      *)
EXTENDS LpuIteration

Lps(parent, partitions) ==
  [parent |-> parent, partitions |-> partitions, partitioned |-> TRUE, sub |-> FALSE]
UnpartitionedLps(parent) == [Lps(parent, 2) EXCEPT !.partitioned = FALSE]
Subpartition(parent)     == [Lps(parent, 1) EXCEPT !.sub = TRUE]

Task(lps, maxThreads, totalThreads, lpuCounts, code) ==
  [lps |-> lps, maxThreads |-> maxThreads, totalThreads |-> totalThreads,
   lpuCounts |-> lpuCounts, code |-> code]

\* An unpartitioned LPS, and below it two levels; a loop for each of them, and one
\* over the lowest from each of those above it.
NestedCode == << Stage(0),
                 Loop(1, 0, 15),
                   Stage(1),
                   Loop(2, 1, 10),
                     Stage(2),
                     Loop(3, 2, 9),
                       Stage(3),
                     EndLoop(6),
                   EndLoop(4),
                   Loop(3, 1, 13),
                     Stage(3),
                   EndLoop(10),
                   Stage(1),
                 EndLoop(2),
                 Loop(3, 0, 18),
                   Stage(3),
                 EndLoop(15),
                 Loop(2, 0, 21),
                   Stage(2),
                 EndLoop(18) >>
Nested(total, counts) ==
  Task(<<UnpartitionedLps(0), Lps(1, 2), Lps(2, 2)>>, 4, total, counts, NestedCode)

\* Two partitioned levels with an unpartitioned one between, and loops for the
\* first and the last of them only.
SkippingCode == << Loop(1, 0, 7),
                     Stage(1),
                     Loop(3, 1, 6),
                       Stage(3),
                     EndLoop(3),
                   EndLoop(1),
                   Loop(3, 0, 10),
                     Stage(3),
                   EndLoop(7) >>
Layered(total, counts) ==
  Task(<<Lps(0, 2), UnpartitionedLps(1), Lps(2, 2)>>, 8, total, counts, SkippingCode)

\* An LPS at the lowest level and its subpartition.
Subdivided(counts) ==
  Task(<<Lps(0, 4), Subpartition(1)>>, 4, 4, counts,
       << Loop(1, 0, 6), Loop(2, 1, 5), Stage(2), EndLoop(2), EndLoop(1),
          Loop(1, 0, 9), Stage(1), EndLoop(6) >>)

\* Two LPSes side by side, the first of them unpartitioned.
SideBySide == << Loop(1, 0, 4), Stage(1), EndLoop(1),
                 Loop(2, 0, 7), Stage(2), EndLoop(4) >>
Mixed == Task(<<UnpartitionedLps(0), Lps(0, 4)>>, 4, 3, <<<<1>>, <<7>>>>, SideBySide)

MCTasks == { Nested(4, <<<<1>>, <<3>>, <<1, 3>>>>),
             Nested(3, <<<<1>>, <<5>>, <<2, 1, 0>>>>),
             Nested(2, <<<<1>>, <<1>>, <<3>>>>),
             Layered(8, <<<<3>>, <<1>>, <<3, 1>>>>),
             Subdivided(<<<<6>>, <<2, 3>>>>),
             Mixed }


=============================================================================
