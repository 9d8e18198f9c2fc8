----------------------------- MODULE LpuCounter ------------------------------
(***************************************************************************)
(* How the PPUs below one LPU share out the LPUs of the next lower LPS:    *)
(* class LpuCounter of runtime/common/lpu_management.{h,cc} at work.  Each *)
(* PPU controller has a counter of its own per LPS; nothing is exchanged,  *)
(* so that what one of them leaves out no other one will make up for.      *)
(***************************************************************************)
EXTENDS LpuRanges

-----------------------------------------------------------------------------
(* The counters at work: for each LPU of the parent LPS that the flow of     *)
(* control reaches, the PPUs of that LPU's group set their counters and take *)
(* their LPUs one by one, each at its own pace.                              *)

CONSTANTS PpuCount,      \* the PPUs in the group
          MaxLpus,       \* bound: the number of LPUs a parent can have
          LpuCounts      \* the LPU counts, per dimension, that LPSes can have

ASSUME LpuCounterAssumption ==
  /\ PpuCount \in Nat \ {0} /\ MaxLpus \in Nat
  /\ \A lpuCounts \in LpuCounts : lpuCounts \in Seq(Nat) /\ lpuCounts # <<>>

Groups == 0..(PpuCount - 1)

VARIABLES totalLpus,      \* the number of LPUs under the parent
          phase,          \* phase[g]: what PPU g's counter is doing
          currentRange,   \* currentRange[g]
          currentLpuId,   \* currentLpuId[g]: currentLinearLpuId
          visited         \* history: visited[g], the LPUs PPU g has had

counterVars == <<totalLpus, phase, currentRange, currentLpuId, visited>>

CounterInit == /\ totalLpus \in 0..MaxLpus
               /\ phase        = [g \in Groups |-> "idle"]
               /\ currentRange = [g \in Groups |-> NoRange]
               /\ currentLpuId = [g \in Groups |-> INVALID_ID]
               /\ visited      = [g \in Groups |-> {}]

\* The LPU with this id, if any, is the current one; otherwise resetCounter().
Take(g, id, range) ==
  IF id # INVALID_ID
    THEN /\ phase'        = [phase EXCEPT ![g] = "active"]
         /\ currentRange' = [currentRange EXCEPT ![g] = range]
         /\ currentLpuId' = [currentLpuId EXCEPT ![g] = id]
         /\ visited'      = [visited EXCEPT ![g] = @ \cup {id}]
    ELSE /\ phase'        = [phase EXCEPT ![g] = "done"]
         /\ currentRange' = [currentRange EXCEPT ![g] = NoRange]
         /\ currentLpuId' = [currentLpuId EXCEPT ![g] = INVALID_ID]
         /\ UNCHANGED visited

\* The first request for an LPU: setLpuCounts, setCurrentRange, getNextLpuId.
Start(g) == /\ phase[g] = "idle"
            /\ LET range == CurrentRange(totalLpus, PpuCount, g)
               IN Take(g, NextLpuId(range, INVALID_ID), range)
            /\ UNCHANGED totalLpus

\* A later one.
Advance(g) == /\ phase[g] = "active"
              /\ Take(g, NextLpuId(currentRange[g], currentLpuId[g]), currentRange[g])
              /\ UNCHANGED totalLpus

CounterNext == \E g \in Groups : Start(g) \/ Advance(g)

CounterSpec == /\ CounterInit /\ [][CounterNext]_counterVars
               /\ \A g \in Groups : WF_counterVars(Start(g) \/ Advance(g))

-----------------------------------------------------------------------------
Lpus == 0..(totalLpus - 1)

CounterTypeOK == /\ totalLpus \in 0..MaxLpus
                 /\ phase \in [Groups -> {"idle", "active", "done"}]
                 /\ currentRange \in [Groups -> [startId : Int, endId : Int]]
                 /\ currentLpuId \in [Groups -> Int]
                 /\ visited \in [Groups -> SUBSET Lpus]

\* No LPU is given to two PPUs of the group.
NoIdTwice == \A g, h \in Groups : g # h => visited[g] \cap visited[h] = {}

\* None is left out: when the PPUs are through, they have had all of them.
NoIdLeftOut ==
  (\A g \in Groups : phase[g] = "done") => UNION {visited[g] : g \in Groups} = Lpus

\* The counters, which never talk to one another, divide the LPUs among them.
SharedOut == NoIdTwice /\ NoIdLeftOut

\* An LPU's place in its LPS, by the ids of its dimensions in row-major order.
RowMajor(lpuCounts, c) ==
  LET place[i \in 0..Len(lpuCounts)] ==
        IF i = 0 THEN 0 ELSE place[i - 1] * lpuCounts[i] + c[i]
  IN place[Len(lpuCounts)]

\* Linear and composite ids of an LPU determine each other, and an id's component
\* stays below the LPU count of its dimension: whoever composes a part's address
\* from the composite id finds the part of this LPU and of no other.
IdsAgree ==
  \A lpuCounts \in {c \in LpuCounts : TotalLpus(c) = totalLpus} : \A id \in Lpus :
    LET c == CompositeLpuId(lpuCounts, id)
    IN /\ \A i \in 1..Len(lpuCounts) : c[i] \in 0..(lpuCounts[i] - 1)
       /\ RowMajor(lpuCounts, c) = id

\* The PPUs do come to the end of their ranges.
AllVisited == <>(\A g \in Groups : phase[g] = "done")

-----------------------------------------------------------------------------
(* The inductive invariant. *)

Share(g) == IdsOf(totalLpus, PpuCount, g)

\* What a counter has visited is its share up to where it stands.
Progress ==
  \A g \in Groups :
    /\ phase[g] = "idle"   => visited[g] = {}
    /\ phase[g] = "active" =>
         /\ currentRange[g] = CurrentRange(totalLpus, PpuCount, g)
         /\ currentLpuId[g] \in Share(g)
         /\ visited[g] = currentRange[g].startId..currentLpuId[g]
    /\ phase[g] = "done"   => visited[g] = Share(g)

CounterInv == CounterTypeOK /\ Progress
=============================================================================
