------------------------------ MODULE LpuRanges ------------------------------
(***************************************************************************)
(* The arithmetic of classes LpuCounter and MockLpuCounter of              *)
(* runtime/common/lpu_management.{h,cc}: which LPUs of an LPS a PPU group  *)
(* takes, and in which order.                                              *)
(*                                                                         *)
(* LPUs have composite ids (one number per dimension of the LPS) and, as   *)
(* the counter uses them, linear ones.                                     *)
(***************************************************************************)
EXTENDS Integers, Sequences

INVALID_ID == -1

IdRange(first, last) == [startId |-> first, endId |-> last]
NoRange == IdRange(INVALID_ID, INVALID_ID)

\* setLpuCounts: how many LPUs share the first i components of their ids.
LpusUnderDimensions(lpuCounts) ==
  LET under[i \in 1..Len(lpuCounts)] ==
        IF i = Len(lpuCounts) THEN 1 ELSE lpuCounts[i + 1] * under[i + 1]
  IN under

\* The product that setCurrentRange begins with.
TotalLpus(lpuCounts) ==
  LET total[i \in 0..Len(lpuCounts)] == IF i = 0 THEN 1 ELSE total[i - 1] * lpuCounts[i]
  IN total[Len(lpuCounts)]

\* Mutant: the remainder of the division is left to nobody.
CurrentRange_NoExtra(totalLpus, ppuCount, groupId) ==
  LET lpusPerPpu == totalLpus \div ppuCount
  IN IF ppuCount > totalLpus
     THEN IF groupId < totalLpus THEN IdRange(groupId, groupId) ELSE NoRange
     ELSE IdRange(lpusPerPpu * groupId, lpusPerPpu * groupId + lpusPerPpu - 1)

\* Mutant: every PPU takes the remainder.
CurrentRange_ExtraForAll(totalLpus, ppuCount, groupId) ==
  LET lpusPerPpu == totalLpus \div ppuCount
      first      == lpusPerPpu * groupId
  IN IF ppuCount > totalLpus
     THEN IF groupId < totalLpus THEN IdRange(groupId, groupId) ELSE NoRange
     ELSE IdRange(first, first + lpusPerPpu - 1 + (totalLpus % ppuCount))

\* setCurrentRange: one each if there are fewer LPUs than PPUs; else equal shares,
\* and the remainder to the last PPU.
CurrentRange(totalLpus, ppuCount, groupId) ==
  LET lpusPerPpu == totalLpus \div ppuCount
      extraLpus  == totalLpus % ppuCount
      first      == lpusPerPpu * groupId
      extra      == IF groupId = ppuCount - 1 THEN extraLpus ELSE 0
  IN IF ppuCount > totalLpus
     THEN IF groupId < totalLpus THEN IdRange(groupId, groupId) ELSE NoRange
     ELSE IdRange(first, first + lpusPerPpu - 1 + extra)

\* The ids in the range of a PPU.
IdsOf(totalLpus, ppuCount, groupId) ==
  LET range == CurrentRange(totalLpus, ppuCount, groupId)
  IN IF range = NoRange THEN {} ELSE range.startId..range.endId

\* Mutant: the last LPU of the range is taken for its end.
NextLpuId_Short(range, previousLpuId) ==
  IF previousLpuId = INVALID_ID THEN range.startId
  ELSE IF previousLpuId + 1 >= range.endId THEN INVALID_ID
  ELSE previousLpuId + 1

\* Mutant: after the last LPU of the range comes the first one again.
NextLpuId_Cyclic(range, previousLpuId) ==
  IF previousLpuId = INVALID_ID \/ previousLpuId + 1 > range.endId THEN range.startId
  ELSE previousLpuId + 1

\* getNextLpuId
NextLpuId(range, previousLpuId) ==
  IF previousLpuId = INVALID_ID THEN range.startId
  ELSE IF previousLpuId + 1 > range.endId THEN INVALID_ID
  ELSE previousLpuId + 1

\* MockLpuCounter::getNextLpuId, for an LPS that is not partitioned.
MockNextLpuId(groupId, previousLpuId) ==
  IF groupId = 0 /\ previousLpuId = INVALID_ID THEN 0 ELSE INVALID_ID

\* Mutant: the dimensions are weighted from the wrong end.
CompositeLpuId_Reversed(lpuCounts, linearId) ==
  [i \in 1..Len(lpuCounts) |->
     (linearId \div LpusUnderDimensions(lpuCounts)[Len(lpuCounts) + 1 - i])
       % lpuCounts[i]]

\* setCurrentCompositeLpuId
CompositeLpuId(lpuCounts, linearId) ==
  LET n     == Len(lpuCounts)
      under == LpusUnderDimensions(lpuCounts)
      remaining[i \in 1..n] == IF i = 1 THEN linearId ELSE remaining[i - 1] % under[i - 1]
  IN [i \in 1..n |-> IF i = n THEN remaining[n] ELSE remaining[i] \div under[i]]
=============================================================================
