------------------------------- MODULE PpuIds --------------------------------
(***************************************************************************)
(* Which part a thread has in each LPS: the functions getPpuIdsForThread   *)
(* and adjustPpuCountsAndGroupSizes that codegen/utils/code_generator.cc   *)
(* generates for a task from the mapping of its LPSes to the levels of the *)
(* machine.                                                                *)
(*                                                                         *)
(* The threads under a PPU of an upper level are divided evenly into       *)
(* groups, one for each PPU below it; the first thread of a group is the   *)
(* PPU that executes the group's code, the others follow its LPUs only to  *)
(* find their own part of them.  The division is made for the whole        *)
(* machine and adjusted when the task runs on fewer segments.              *)
(*                                                                         *)
(* A mapping m has the sequence m.lps of the LPSes below the root in       *)
(* breadth-first order, each a record of                                   *)
(*   parent       the index of its parent in m.lps, 0 for the root,        *)
(*   partitions   the PPUs of its level below one PPU of its parent's,     *)
(*   partitioned  whether it has dimensions,                               *)
(*   sub          whether it is a subpartition,                            *)
(* and the thread counts m.maxThreads of the machine and m.totalThreads of *)
(* the segments that take part.                                            *)
(***************************************************************************)
EXTENDS LpuRanges, FiniteSets

Root == 0
LpsIds(m)  == 0..Len(m.lps)
ThreadsOf(m) == 0..(m.totalThreads - 1)
Parent(m, l) == IF l = Root THEN INVALID_ID ELSE m.lps[l].parent

\* The LPS and those above it, the root excepted.
Path(m, l) ==
  LET path[k \in LpsIds(m)] == IF k = Root THEN {} ELSE {k} \cup path[Parent(m, k)]
  IN path[l]

\* Rows of idsArray and threadIds->ppuIds.
Ids(index, id, groupId, ppuCount, groupSize) ==
  [index |-> index, id |-> id, groupId |-> groupId, ppuCount |-> ppuCount,
   groupSize |-> groupSize]

RootIds(m, threadNo) ==
  Ids(threadNo, IF threadNo = 0 THEN 0 ELSE INVALID_ID, 0, 1, m.totalThreads)

\* A subpartition is executed where its parent is.
SubpartitionIds(parent) == Ids(parent.index, 0, 0, 1, parent.groupSize)

\* An LPS without dimensions has one LPU and one group under its parent.
PartitionIds(lps, parent, threadCount) ==
  LET groupSize     == IF lps.partitioned THEN threadCount \div lps.partitions ELSE threadCount
      groupThreadId == parent.index % groupSize
      groupId       == parent.index \div groupSize
  IN Ids(groupThreadId, IF groupThreadId = 0 THEN groupId ELSE INVALID_ID,
         groupId, lps.partitions, groupSize)

\* getPpuIdsForThread
PpuIdsForThread(m, threadNo) ==
  LET ids[l \in LpsIds(m)] ==
        IF l = Root THEN RootIds(m, threadNo)
        ELSE LET lps    == m.lps[l]
                 parent == ids[lps.parent]
             IN IF lps.sub THEN SubpartitionIds(parent)
                ELSE PartitionIds(lps, parent, IF lps.parent = Root THEN m.maxThreads
                                               ELSE parent.groupSize)
  IN ids

Lesser(x, y) == IF x < y THEN x ELSE y
Span(range)  == range.endId - range.startId + 1

\* groupBegin..groupEnd once the LPSes up to l have been visited, in the order of
\* m.lps: the code keeps one range for all of them.
GroupRange(m, ids) ==
  LET range[l \in LpsIds(m)] ==
        IF l = Root THEN IdRange(0, m.totalThreads - 1)
        ELSE IF m.lps[l].sub THEN range[l - 1]
        ELSE LET groupBegin == ids[l].groupId * ids[l].groupSize
             IN IdRange(groupBegin, Lesser(groupBegin + ids[l].groupSize - 1,
                                           range[l - 1].endId))
  IN range

\* Mutant: a group that is not full is not counted.
AdjustedPpuCount_RoundsDown(threads, groupSize) == threads \div groupSize
\* The number of groups that the threads of a range fill or begin to fill.
AdjustedPpuCount(threads, groupSize) == (threads + (groupSize - 1)) \div groupSize

\* adjustPpuCountsAndGroupSizes
AdjustedIds(m, ids) ==
  LET range == GroupRange(m, ids)
  IN [l \in LpsIds(m) |->
        IF l = Root THEN ids[l]
        ELSE IF m.lps[l].sub THEN [ids[l] EXCEPT !.groupSize = Span(range[l])]
        ELSE [ids[l] EXCEPT !.groupSize = Span(range[l]),
                            !.ppuCount = AdjustedPpuCount(Span(range[l - 1]), ids[l].groupSize)]]

ThreadIds(m, threadNo) == AdjustedIds(m, PpuIdsForThread(m, threadNo))

-----------------------------------------------------------------------------
(* The mappings that these functions are made for. *)

IsMapping(m) ==
  /\ m.maxThreads \in Nat \ {0}
  /\ m.totalThreads \in 1..m.maxThreads
  /\ m.lps \in Seq([parent : Nat, partitions : Nat \ {0}, partitioned : BOOLEAN, sub : BOOLEAN])
  /\ \A l \in 1..Len(m.lps) : m.lps[l].parent < l

\* The threads in a group of each LPS, on the whole machine.
GroupSizes(m) ==
  LET size[l \in LpsIds(m)] ==
        IF l = Root THEN m.maxThreads
        ELSE IF m.lps[l].partitioned /\ ~m.lps[l].sub
               THEN size[m.lps[l].parent] \div m.lps[l].partitions
        ELSE size[m.lps[l].parent]
  IN size

\* The groups divide the threads without a remainder; a subpartition is executed
\* by single threads; the LPS visited before is its parent or divides the threads
\* as its parent does (the only range that adjustPpuCountsAndGroupSizes keeps);
\* and only groups of the uppermost level may lack threads.
WellMapped(m) ==
  /\ IsMapping(m)
  /\ LET size == GroupSizes(m)
     IN \A l \in 1..Len(m.lps) :
          LET lps == m.lps[l]
          IN /\ size[l - 1] = size[lps.parent]
             /\ lps.sub => lps.parent # Root /\ size[lps.parent] = 1
             /\ ~lps.sub =>
                  /\ lps.partitioned => size[lps.parent] = size[l] * lps.partitions
                  /\ size[lps.parent] = m.maxThreads \/ m.totalThreads % size[l] = 0
=============================================================================
