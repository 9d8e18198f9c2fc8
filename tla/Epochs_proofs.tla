---------------------------- MODULE Epochs_proofs -----------------------------
(***************************************************************************)
(* The versions of a part, for any number of lags, of threads and of LPUs  *)
(* in a pass: of a part that only one LPU has, the last epochs are all     *)
(* kept, as many as there are lags, whatever the other threads share.      *)
(*                                                                         *)
(* Seen from the head the allocation units of a part hold what was         *)
(* computed epochCount, epochCount - 1, ..., 1 epochs ago, from the pass's *)
(* advance of the head to its computation, and the units after the head do *)
(* before and afterwards.                                                  *)
(***************************************************************************)
EXTENDS Epochs, DivisionLemmas

Labels == {"advance", "store", "generate", "shift", "compute"}

TypeOK == /\ nested \in BOOLEAN
          /\ pc \in [Threads -> Labels]
          /\ at \in [Threads -> Nat]
          /\ \A t \in Threads : at[t] \in 1..Len(Visited(t)) /\ (pc[t] = "shift" => at[t] = 1)
          /\ next \in [Threads -> Versions]
          /\ epochHead \in [Parts -> Versions]
          /\ dataVersions \in [Parts -> [Versions -> Nat]]
          /\ lpu \in [Threads -> [Lpus -> [Versions -> Versions]]]
          /\ computed \in [Parts -> Nat]
          /\ scalar \in [0..ScalarLags -> Nat]
          /\ scalarComputed \in Nat

PartAt(t, i) == PartOf[Visited(t)[i]]

\* The pass of t has advanced the part of its i-th LPU, and not computed it yet.
Advanced(t, i) ==
  IF nested THEN \/ pc[t] \in {"advance", "store"} /\ i < at[t]
                 \/ pc[t] = "shift"
                 \/ pc[t] \in {"generate", "compute"} /\ at[t] <= i
            ELSE pc[t] \in {"generate", "shift", "compute"}

\* The unit j after the head - or, if not advanced, after its successor.
Unit(t, i, j) == getData(PartAt(t, i), IF Advanced(t, i) THEN j ELSE j + 1)

KeptAt(t, i) ==
  LET p == PartAt(t, i) IN
    Unshared(p) => \A j \in Versions : dataVersions[p][Unit(t, i, j)] = Ago(computed[p], epochCount - j)

HeadKnown(t) == pc[t] = "store" /\ Unshared(PartOf[Current(t)]) =>
  next[t] = getData(PartOf[Current(t)], 1)

Referred(t) ==
  /\ pc[t] = "compute" \/ (~nested /\ pc[t] = "shift")
  /\ Unshared(PartOf[Current(t)])
  => \A j \in Versions : lpu[t][Current(t)][j] = getData(PartOf[Current(t)], j)

ArrayInv == /\ TypeOK
            /\ \A t \in Threads : HeadKnown(t) /\ Referred(t)
            /\ \A t \in ValidPpus : \A i \in 1..Len(Visited(t)) : KeptAt(t, i)

-----------------------------------------------------------------------------
(* The LPUs of a pass *)

LEMMA VisitedType ==
  ASSUME NEW t \in Threads, nested \in BOOLEAN
  PROVE  /\ Len(Visited(t)) \in Nat \ {0} /\ Len(Visited(t)) <= Len(LpusOf[t])
         /\ ~nested => Len(Visited(t)) = 1
         /\ \A i \in 1..Len(Visited(t)) : /\ Visited(t)[i] = LpusOf[t][i] /\ Visited(t)[i] \in Lpus
                                          /\ PartAt(t, i) \in Parts
<1>1. LpusOf[t] \in Seq(Lpus) /\ LpusOf[t] # <<>>
  BY EpochsAssumption
<1>2. Len(LpusOf[t]) \in Nat \ {0} /\ \A i \in 1..Len(LpusOf[t]) : LpusOf[t][i] \in Lpus
  BY <1>1
<1>3. CASE nested
  BY <1>2, <1>3 DEF Visited, PartAt, Parts
<1>4. CASE ~nested
  <2>1. Visited(t) = SubSeq(LpusOf[t], 1, 1)
    BY <1>4 DEF Visited
  <2>2. Len(Visited(t)) = 1 /\ Visited(t)[1] = LpusOf[t][1]
    BY <1>1, <1>2, <2>1
  <2> QED BY <1>2, <1>4, <2>2 DEF PartAt, Parts
<1> QED BY <1>3, <1>4

LEMMA CurrentType ==
  ASSUME TypeOK, NEW t \in Threads
  PROVE  /\ at[t] \in 1..Len(Visited(t)) /\ Current(t) \in Lpus
         /\ PartOf[Current(t)] = PartAt(t, at[t]) /\ PartOf[Current(t)] \in Parts
  BY VisitedType DEF TypeOK, Current, PartAt

\* A pass through more than one LPU is one through an LPS below the block's.
LEMMA LaterNested ==
  ASSUME TypeOK, NEW t \in Threads
  PROVE  at[t] \in Nat /\ (at[t] # 1 \/ at[t] < Len(Visited(t)) => nested)
<1>1. at[t] \in 1..Len(Visited(t)) /\ at[t] \in Nat /\ nested \in BOOLEAN
  BY DEF TypeOK
<1>2. CASE ~nested
  <2>1. Len(Visited(t)) = 1
    BY <1>1, <1>2, VisitedType
  <2>2. at[t] \in 1..1
    BY <1>1, <2>1
  <2>3. at[t] = 1 /\ ~(at[t] < 1)
    BY <2>2
  <2> QED BY <1>1, <2>1, <2>3
<1> QED BY <1>1, <1>2

LEMMA PartsApart ==
  ASSUME TypeOK, NEW t \in Threads, NEW u \in Threads,
         NEW i \in 1..Len(Visited(t)), NEW k \in 1..Len(Visited(u)),
         Unshared(PartAt(t, i)), PartAt(t, i) = PartAt(u, k)
  PROVE  t = u /\ i = k
<1>1. nested \in BOOLEAN
  BY DEF TypeOK
<1>2. i \in 1..Len(LpusOf[t]) /\ k \in 1..Len(LpusOf[u])
  <2>1. /\ Len(LpusOf[t]) \in Nat /\ Len(LpusOf[u]) \in Nat
    BY EpochsAssumption
  <2> QED BY <1>1, <2>1, VisitedType
<1>3. PartOf[LpusOf[t][i]] = PartAt(t, i) /\ PartOf[LpusOf[u][k]] = PartAt(t, i)
  BY <1>1, VisitedType DEF PartAt
<1> QED BY <1>2, <1>3 DEF Unshared

LEMMA VersionsType ==
  /\ epochCount \in Nat \ {0} /\ 0 \in Versions
  /\ \A v \in Versions, j \in Versions : (v + j) % epochCount \in Versions
<1>1. Lags \in Nat \ {0}
  BY EpochsAssumption
<1> QED BY <1>1 DEF epochCount, Versions

(* Where a thread is after its LPU. *)
LEMMA NextLpuMoves ==
  ASSUME TypeOK, NEW t \in Threads, NEW again \in Labels, NEW done \in Labels,
         NextLpu(t, again, done), UNCHANGED nested
  PROVE  /\ at' \in [Threads -> Nat] /\ pc' \in [Threads -> Labels]
         /\ \A u \in Threads \ {t} : at'[u] = at[u] /\ pc'[u] = pc[u]
         /\ \/ at[t] < Len(Visited(t)) /\ at'[t] = at[t] + 1 /\ pc'[t] = again
            \/ at[t] = Len(Visited(t)) /\ at'[t] = 1 /\ pc'[t] = done
         /\ at'[t] \in 1..Len(Visited(t))
<1>1. at[t] \in 1..Len(Visited(t)) /\ Len(Visited(t)) \in Nat \ {0}
  BY VisitedType DEF TypeOK
<1>2. at \in [Threads -> Nat] /\ pc \in [Threads -> Labels]
  BY DEF TypeOK
<1>3. CASE at[t] < Len(Visited(t))
  BY <1>1, <1>2, <1>3 DEF NextLpu, Goto
<1>4. CASE ~(at[t] < Len(Visited(t)))
  BY <1>1, <1>2, <1>4 DEF NextLpu, Goto
<1> QED BY <1>3, <1>4

-----------------------------------------------------------------------------
(* Types *)

LEMMA InitType == Init => TypeOK
<1> SUFFICES ASSUME Init PROVE TypeOK
  OBVIOUS
<1>1. nested \in BOOLEAN /\ Lags \in Nat \ {0} /\ ScalarLags \in Nat \ {0}
  BY EpochsAssumption DEF Init
<1>2. ASSUME NEW t \in Threads
      PROVE  at[t] \in 1..Len(Visited(t)) /\ at[t] = 1 /\ at[t] \in Nat
  <2>1. at[t] = 1
    BY DEF Init
  <2>2. Len(Visited(t)) \in Nat \ {0}
    BY <1>1, VisitedType
  <2> QED BY <2>1, <2>2
<1>3. 0 \in Versions
  BY VersionsType
<1>4. dataVersions \in [Parts -> [Versions -> Nat]] /\ computed \in [Parts -> Nat]
  BY DEF Init, synchronizeAllVersions
<1>5. scalar \in [0..ScalarLags -> Nat] /\ scalarComputed \in Nat
  BY DEF Init
<1> QED BY <1>1, <1>2, <1>3, <1>4, <1>5 DEF Init, TypeOK, Labels

LEMMA VisitedKept ==
  ASSUME UNCHANGED nested, NEW t \in Threads
  PROVE  Visited(t)' = Visited(t) /\ \A i : PartAt(t, i)' = PartAt(t, i)
  BY DEF Visited, PartAt

LEMMA GotoType ==
  ASSUME TypeOK, NEW t \in Threads, NEW label \in Labels, Goto(t, label)
  PROVE  /\ pc' \in [Threads -> Labels] /\ pc'[t] = label
         /\ \A u \in Threads \ {t} : pc'[u] = pc[u]
  BY DEF TypeOK, Goto

LEMMA AdvanceEpochType ==
  ASSUME TypeOK, NEW t \in Threads, AdvanceEpoch(t)
  PROVE  /\ TypeOK' /\ pc[t] = "advance" /\ pc'[t] = "store"
         /\ \A u \in Threads \ {t} : pc'[u] = pc[u] /\ next'[u] = next[u]
         /\ next'[t] = getData(PartOf[Current(t)], 1)
         /\ UNCHANGED <<nested, at, epochHead, dataVersions, lpu, scalar, computed, scalarComputed>>
<1>1. /\ pc[t] = "advance" /\ Goto(t, "store") /\ "store" \in Labels
      /\ next' = [next EXCEPT ![t] = (epochHead[PartOf[Current(t)]] + 1) % epochCount]
      /\ UNCHANGED <<nested, at, epochHead, dataVersions, lpu, scalar, computed, scalarComputed>>
  BY DEF AdvanceEpoch, Labels
<1>2. (epochHead[PartOf[Current(t)]] + 1) % epochCount \in Versions
  <2>1. epochHead[PartOf[Current(t)]] \in Versions
    BY CurrentType DEF TypeOK
  <2>2. 1 \in Versions
    BY EpochsAssumption DEF Versions
  <2> QED BY <2>1, <2>2, VersionsType
<1>3. /\ next' \in [Threads -> Versions] /\ next'[t] = getData(PartOf[Current(t)], 1)
      /\ \A u \in Threads \ {t} : next'[u] = next[u]
  BY <1>1, <1>2 DEF TypeOK, getData
<1>4. /\ pc' \in [Threads -> Labels] /\ pc'[t] = "store"
      /\ \A u \in Threads \ {t} : pc'[u] = pc[u]
  BY <1>1, GotoType
<1>5. TypeOK'
  BY <1>1, <1>3, <1>4, VisitedKept DEF TypeOK
<1> QED BY <1>1, <1>3, <1>4, <1>5

LEMMA StoreHeadType ==
  ASSUME TypeOK, NEW t \in Threads, StoreHead(t)
  PROVE  /\ TypeOK' /\ pc[t] = "store"
         /\ UNCHANGED <<nested, next, dataVersions, lpu, scalar, computed, scalarComputed>>
         /\ \A u \in Threads \ {t} : at'[u] = at[u] /\ pc'[u] = pc[u]
         /\ epochHead' = [epochHead EXCEPT ![PartOf[Current(t)]] = next[t]]
         /\ IF nested THEN \/ at[t] < Len(Visited(t)) /\ at'[t] = at[t] + 1 /\ pc'[t] = "advance"
                           \/ at[t] = Len(Visited(t)) /\ at'[t] = 1 /\ pc'[t] = "shift"
                      ELSE at'[t] = at[t] /\ pc'[t] = "generate"
<1>1. /\ pc[t] = "store"
      /\ UNCHANGED <<nested, next, dataVersions, lpu, scalar, computed, scalarComputed>>
      /\ epochHead' = [epochHead EXCEPT ![PartOf[Current(t)]] = next[t]]
      /\ "advance" \in Labels /\ "shift" \in Labels /\ "generate" \in Labels
  BY DEF StoreHead, Labels
<1>2. epochHead' \in [Parts -> Versions]
  BY <1>1 DEF TypeOK
<1>3. /\ at' \in [Threads -> Nat] /\ pc' \in [Threads -> Labels]
      /\ \A u \in Threads \ {t} : at'[u] = at[u] /\ pc'[u] = pc[u]
      /\ at'[t] \in 1..Len(Visited(t)) /\ (pc'[t] = "shift" => at'[t] = 1)
      /\ IF nested THEN \/ at[t] < Len(Visited(t)) /\ at'[t] = at[t] + 1 /\ pc'[t] = "advance"
                        \/ at[t] = Len(Visited(t)) /\ at'[t] = 1 /\ pc'[t] = "shift"
                   ELSE at'[t] = at[t] /\ pc'[t] = "generate"
  <2>1. CASE nested
    <3>1. NextLpu(t, "advance", "shift")
      BY <2>1 DEF StoreHead
    <3> QED BY <1>1, <2>1, <3>1, NextLpuMoves
  <2>2. CASE ~nested
    <3>1. Goto(t, "generate") /\ UNCHANGED at
      BY <2>2 DEF StoreHead
    <3>2. /\ pc' \in [Threads -> Labels] /\ pc'[t] = "generate"
          /\ \A u \in Threads \ {t} : pc'[u] = pc[u]
      BY <1>1, <3>1, GotoType
    <3> QED BY <2>2, <3>1, <3>2 DEF TypeOK
  <2> QED BY <2>1, <2>2
<1>4. TypeOK'
  BY <1>1, <1>2, <1>3, VisitedKept DEF TypeOK
<1> QED BY <1>1, <1>3, <1>4

LEMMA GenerateLpuType ==
  ASSUME TypeOK, NEW t \in Threads, GenerateLpu(t)
  PROVE  /\ TypeOK' /\ pc[t] = "generate"
         /\ UNCHANGED <<nested, at, next, epochHead, dataVersions, scalar, computed, scalarComputed>>
         /\ \A u \in Threads \ {t} : pc'[u] = pc[u] /\ lpu'[u] = lpu[u]
         /\ pc'[t] = (IF nested THEN "compute" ELSE "shift")
         /\ \A j \in Versions : lpu'[t][Current(t)][j] = getData(PartOf[Current(t)], j)
<1> DEFINE label == IF nested THEN "compute" ELSE "shift"
           refs  == [j \in Versions |-> getData(PartOf[Current(t)], j)]
<1>1. /\ pc[t] = "generate" /\ Goto(t, label) /\ label \in Labels
      /\ lpu' = [lpu EXCEPT ![t] = [lpu[t] EXCEPT ![Current(t)] = refs]]
      /\ UNCHANGED <<nested, at, next, epochHead, dataVersions, scalar, computed, scalarComputed>>
  BY DEF GenerateLpu, Labels
<1>2. refs \in [Versions -> Versions]
  BY CurrentType, VersionsType DEF TypeOK, getData
<1>3. \A j \in Versions : refs[j] = getData(PartOf[Current(t)], j)
  OBVIOUS
<1> HIDE DEF refs
<1>4. /\ lpu' \in [Threads -> [Lpus -> [Versions -> Versions]]]
      /\ \A u \in Threads \ {t} : lpu'[u] = lpu[u]
      /\ lpu'[t][Current(t)] = refs
  BY <1>1, <1>2, CurrentType DEF TypeOK
<1>5. /\ pc' \in [Threads -> Labels] /\ pc'[t] = label
      /\ \A u \in Threads \ {t} : pc'[u] = pc[u]
  BY <1>1, GotoType
<1>6. pc'[t] = "shift" => ~nested
  BY <1>5
<1>7. ~nested => at[t] = 1
  BY CurrentType, VisitedType DEF TypeOK
<1> HIDE DEF label
<1>8. TypeOK'
  BY <1>1, <1>4, <1>5, <1>6, <1>7, VisitedKept DEF TypeOK
<1> QED BY <1>1, <1>3, <1>4, <1>5, <1>8 DEF label

LEMMA ShiftType ==
  ASSUME TypeOK, NEW t \in Threads, ShiftScalars(t)
  PROVE  /\ TypeOK' /\ pc[t] = "shift" /\ scalar' = Shifted
         /\ UNCHANGED <<nested, at, next, epochHead, dataVersions, lpu, computed, scalarComputed>>
         /\ \A u \in Threads \ {t} : pc'[u] = pc[u]
         /\ pc'[t] = (IF nested THEN "generate" ELSE "compute")
<1> DEFINE label == IF nested THEN "generate" ELSE "compute"
<1>1. /\ pc[t] = "shift" /\ Goto(t, label) /\ label \in Labels \ {"shift"} /\ scalar' = Shifted
      /\ UNCHANGED <<nested, at, next, epochHead, dataVersions, lpu, computed, scalarComputed>>
  BY DEF ShiftScalars, Labels
<1>2. scalar' \in [0..ScalarLags -> Nat]
  <2>1. ScalarLags \in Nat /\ scalar \in [0..ScalarLags -> Nat]
    BY EpochsAssumption DEF TypeOK
  <2>2. ASSUME NEW j \in 0..ScalarLags
        PROVE  (IF j = 0 THEN scalar[0] ELSE scalar[j - 1]) \in Nat
    <3>1. 0 \in 0..ScalarLags /\ (j # 0 => j - 1 \in 0..ScalarLags)
      BY <2>1
    <3> QED BY <2>1, <3>1
  <2>3. Shifted \in [0..ScalarLags -> Nat]
    BY <2>2 DEF Shifted
  <2>4. scalar' = Shifted
    BY <1>1
  <2> QED BY <2>3, <2>4, Zenon
<1> HIDE DEF label
<1>3. /\ pc' \in [Threads -> Labels] /\ pc'[t] = label
      /\ \A u \in Threads \ {t} : pc'[u] = pc[u]
  BY <1>1, GotoType
<1>4. TypeOK'
  BY <1>1, <1>2, <1>3, VisitedKept DEF TypeOK
<1> QED BY <1>1, <1>3, <1>4 DEF label

\* What a computation of part p that writes unit v does.
Computes(p, v) ==
  /\ computed' = [computed EXCEPT ![p] = computed[p] + 1]
  /\ dataVersions' = [dataVersions EXCEPT ![p] = [dataVersions[p] EXCEPT ![v] = computed[p] + 1]]

LEMMA ComputeType ==
  ASSUME TypeOK, NEW t \in Threads, Compute(t)
  PROVE  /\ TypeOK' /\ pc[t] = "compute"
         /\ UNCHANGED <<nested, next, epochHead, lpu>>
         /\ \A u \in Threads \ {t} : at'[u] = at[u] /\ pc'[u] = pc[u]
         /\ \/ at[t] < Len(Visited(t)) /\ at'[t] = at[t] + 1 /\ pc'[t] = "generate"
            \/ at[t] = Len(Visited(t)) /\ at'[t] = 1 /\ pc'[t] = "advance"
         /\ t \in ValidPpus => Computes(PartOf[Current(t)], lpu[t][Current(t)][0])
         /\ t \notin ValidPpus => UNCHANGED <<dataVersions, computed>>
<1>1. /\ pc[t] = "compute" /\ NextLpu(t, "generate", "advance")
      /\ UNCHANGED <<nested, next, epochHead, lpu>>
      /\ "generate" \in Labels \ {"shift"} /\ "advance" \in Labels \ {"shift"}
  BY DEF Compute, Labels
<1>2. /\ at' \in [Threads -> Nat] /\ pc' \in [Threads -> Labels]
      /\ \A u \in Threads \ {t} : at'[u] = at[u] /\ pc'[u] = pc[u]
      /\ \/ at[t] < Len(Visited(t)) /\ at'[t] = at[t] + 1 /\ pc'[t] = "generate"
         \/ at[t] = Len(Visited(t)) /\ at'[t] = 1 /\ pc'[t] = "advance"
      /\ at'[t] \in 1..Len(Visited(t))
  BY <1>1, NextLpuMoves
<1>3. /\ t \in ValidPpus => Computes(PartOf[Current(t)], lpu[t][Current(t)][0])
      /\ t \notin ValidPpus => UNCHANGED <<dataVersions, computed>>
  <2>1. CASE t \in ValidPpus
    <3> DEFINE p == PartOf[Current(t)]
    <3>1. /\ computed' = [computed EXCEPT ![p] = computed[p] + 1]
          /\ dataVersions' = [dataVersions EXCEPT ![p] =
                               [dataVersions[p] EXCEPT ![lpu[t][Current(t)][0]] = computed'[p]]]
      BY <2>1 DEF Compute
    <3>2. p \in Parts /\ computed \in [Parts -> Nat]
      BY CurrentType DEF TypeOK
    <3>3. computed'[p] = computed[p] + 1
      BY <3>1, <3>2
    <3> QED BY <2>1, <3>1, <3>3 DEF Computes
  <2>2. CASE t \notin ValidPpus
    BY <2>2 DEF Compute
  <2> QED BY <2>1, <2>2
<1>4. /\ dataVersions' \in [Parts -> [Versions -> Nat]] /\ computed' \in [Parts -> Nat]
  <2>1. CASE t \in ValidPpus
    <3>1. PICK p \in Parts : p = PartOf[Current(t)]
      BY CurrentType
    <3>2. dataVersions[p] \in [Versions -> Nat] /\ computed[p] + 1 \in Nat
      BY DEF TypeOK
    <3> PICK D \in [Versions -> Nat] :
          D = [dataVersions[p] EXCEPT ![lpu[t][Current(t)][0]] = computed[p] + 1]
      BY ONLY <3>2
    <3>3. dataVersions' = [dataVersions EXCEPT ![p] = D] /\ computed' = [computed EXCEPT ![p] = computed[p] + 1]
      BY <1>3, <2>1, <3>1 DEF Computes
    <3> QED BY <3>2, <3>3 DEF TypeOK
  <2>2. CASE t \notin ValidPpus
    BY <1>3, <2>2 DEF TypeOK
  <2> QED BY <2>1, <2>2
<1>5. scalar' \in [0..ScalarLags -> Nat] /\ scalarComputed' \in Nat
  <2>1. CASE t \in ValidPpus /\ EndOfPass(t)
    <3>1. /\ scalarComputed' = scalarComputed + 1
          /\ scalar' = [scalar EXCEPT ![0] = scalarComputed']
      BY <2>1, Zenon DEF Compute
    <3>2. scalar' = [scalar EXCEPT ![0] = scalarComputed + 1]
      BY <3>1, Zenon
    <3>3. scalar \in [0..ScalarLags -> Nat] /\ scalarComputed + 1 \in Nat
      BY DEF TypeOK
    <3>4. scalar' \in [0..ScalarLags -> Nat]
      BY ONLY <3>2, <3>3
    <3> QED BY <3>1, <3>3, <3>4
  <2>2. CASE ~(t \in ValidPpus /\ EndOfPass(t))
    <3>1. UNCHANGED <<scalar, scalarComputed>>
      BY <2>2 DEF Compute
    <3> QED BY <3>1 DEF TypeOK
  <2> QED BY <2>1, <2>2
<1>6. TypeOK'
  BY <1>1, <1>2, <1>4, <1>5, VisitedKept DEF TypeOK
<1> QED BY <1>1, <1>2, <1>3, <1>6

-----------------------------------------------------------------------------
(* The allocation units of a part *)

LEMMA Units ==
  ASSUME TypeOK, NEW p \in Parts
  PROVE  /\ epochHead[p] \in Versions
         /\ getData(p, 0) = epochHead[p] /\ getData(p, Lags + 1) = epochHead[p]
         /\ \A j \in 1..Lags : getData(p, j) # epochHead[p]
         /\ \A j \in Nat : getData(p, j) \in Versions
<1>1. epochCount \in Nat \ {0} /\ Lags = epochCount - 1 /\ Versions = 0..(epochCount - 1)
  BY EpochsAssumption DEF epochCount, Versions
<1>2. PICK h \in 0..(epochCount - 1) : h = epochHead[p]
  BY <1>1 DEF TypeOK
<1>3. /\ (h + 0) % epochCount = h /\ (h + epochCount) % epochCount = h
      /\ \A j \in 1..(epochCount - 1) : (h + j) % epochCount # h
  BY <1>1, Circle
<1>4. \A j \in Nat : (h + j) % epochCount \in 0..(epochCount - 1)
  BY <1>1
<1>5. Lags + 1 = epochCount
  BY <1>1
<1> QED BY <1>1, <1>2, <1>3, <1>4, <1>5 DEF getData

\* The units from the successor of the head on are those from the next head on.
LEMMA UnitsAdvanced ==
  ASSUME TypeOK, NEW p \in Parts, epochHead'[p] = getData(p, 1), NEW j \in Nat
  PROVE  getData(p, j)' = getData(p, j + 1)
<1>1. epochCount \in Nat \ {0}
  BY EpochsAssumption DEF epochCount
<1>2. PICK h \in Nat : h = epochHead[p]
  BY DEF TypeOK, Versions
<1>3. (((h + 1) % epochCount) + j) % epochCount = ((h + 1) + j) % epochCount
  <2>1. PICK a \in Nat : a = h + 1
    BY <1>2
  <2>2. ((a % epochCount) + j) % epochCount = (a + j) % epochCount
    BY <1>1, RemainderOfSum
  <2> QED BY <2>1, <2>2
<1>4. (h + 1) + j = h + (j + 1)
  OBVIOUS
<1> QED BY <1>2, <1>3, <1>4 DEF getData

\* What is k epochs ago is one epoch older once another one is computed.
LEMMA AgoNext ==
  ASSUME NEW n \in Nat
  PROVE  Ago(n + 1, 1) = n + 1 /\ \A k \in Nat \ {0} : Ago(n + 1, k + 1) = Ago(n, k)
  BY DEF Ago

LEMMA KeptStays ==
  ASSUME NEW t \in Threads, NEW i, KeptAt(t, i), UNCHANGED nested,
         Advanced(t, i)' <=> Advanced(t, i),
         NEW p, p = PartAt(t, i),
         epochHead'[p] = epochHead[p], dataVersions'[p] = dataVersions[p],
         computed'[p] = computed[p]
  PROVE  KeptAt(t, i)'
<1>1. PartAt(t, i)' = p
  BY VisitedKept
<1>2. \A j : Unit(t, i, j)' = Unit(t, i, j)
  BY <1>1 DEF Unit, getData
<1> QED BY <1>1, <1>2 DEF KeptAt, Ago

-----------------------------------------------------------------------------
(* The inductive invariant *)

\* What a thread has of a part nobody else uses stays while others move.
LEMMA OthersKept ==
  ASSUME ArrayInv, TypeOK', UNCHANGED nested, NEW t \in Threads,
         \A u \in Threads \ {t} : /\ at'[u] = at[u] /\ pc'[u] = pc[u] /\ next'[u] = next[u]
                                  /\ lpu'[u] = lpu[u],
         \A p \in Parts : p # PartOf[Current(t)] =>
           /\ epochHead'[p] = epochHead[p] /\ dataVersions'[p] = dataVersions[p]
           /\ computed'[p] = computed[p],
         HeadKnown(t)', Referred(t)',
         t \in ValidPpus => \A i \in 1..Len(Visited(t)) : KeptAt(t, i)'
  PROVE  ArrayInv'
<1>1. TypeOK
  BY DEF ArrayInv
<1>2. ASSUME NEW u \in Threads \ {t}, NEW i \in 1..Len(Visited(u)), Unshared(PartAt(u, i))
      PROVE  PartAt(u, i) \in Parts /\ PartAt(u, i) # PartOf[Current(t)]
  <2>1. /\ nested \in BOOLEAN /\ u \in Threads /\ u # t
        /\ at[t] \in 1..Len(Visited(t)) /\ PartOf[Current(t)] = PartAt(t, at[t])
    BY <1>1, CurrentType DEF TypeOK
  <2>2. PartAt(u, i) \in Parts
    BY <2>1, VisitedType
  <2>3. PartAt(u, i) # PartAt(t, at[t])
    BY <1>1, <1>2, <2>1, PartsApart
  <2> QED BY <2>1, <2>2, <2>3
<1>3. ASSUME NEW u \in Threads \ {t}
      PROVE  HeadKnown(u)' /\ Referred(u)'
  <2>1. /\ at[u] \in 1..Len(Visited(u)) /\ PartOf[Current(u)] = PartAt(u, at[u])
        /\ Current(u)' = Current(u)
    BY <1>1, CurrentType, VisitedKept DEF Current
  <2>2. ASSUME Unshared(PartOf[Current(u)])
        PROVE  \A j : getData(PartOf[Current(u)], j)' = getData(PartOf[Current(u)], j)
    BY <1>2, <2>1, <2>2 DEF getData
  <2>3. HeadKnown(u) /\ Referred(u)
    BY DEF ArrayInv
  <2> QED BY <2>1, <2>2, <2>3 DEF HeadKnown, Referred
<1>4. ASSUME NEW u \in ValidPpus, u # t, NEW i \in 1..Len(Visited(u))
      PROVE  KeptAt(u, i)'
  <2>1. u \in Threads \ {t} /\ KeptAt(u, i)
    BY <1>4, EpochsAssumption DEF ArrayInv
  <2>2. Advanced(u, i)' <=> Advanced(u, i)
    BY <2>1 DEF Advanced
  <2>3. CASE Unshared(PartAt(u, i))
    BY <1>2, <2>1, <2>2, <2>3, KeptStays
  <2>4. CASE ~Unshared(PartAt(u, i))
    <3>1. PartAt(u, i)' = PartAt(u, i)
      BY <2>1, VisitedKept
    <3> QED BY <2>4, <3>1 DEF KeptAt
  <2> QED BY <2>3, <2>4
<1>5. \A u \in Threads : Visited(u)' = Visited(u)
  BY VisitedKept
<1>6. \A u \in ValidPpus : u \in Threads
  BY EpochsAssumption
<1> QED BY <1>3, <1>4, <1>5, <1>6 DEF ArrayInv

LEMMA InitArrays == Init => ArrayInv
<1> SUFFICES ASSUME Init PROVE ArrayInv
  OBVIOUS
<1>1. TypeOK /\ \A t \in Threads : pc[t] = "advance" /\ at[t] = 1
  BY InitType DEF Init
<1>2. \A t \in Threads : HeadKnown(t) /\ Referred(t)
  BY <1>1 DEF HeadKnown, Referred
<1>3. ASSUME NEW t \in ValidPpus, NEW i \in 1..Len(Visited(t))
      PROVE  KeptAt(t, i)
  <2>1. t \in Threads /\ PartAt(t, i) \in Parts
    BY <1>1, EpochsAssumption, VisitedType DEF TypeOK
  <2> PICK p \in Parts : p = PartAt(t, i)
    BY <2>1
  <2>2. \A v \in Versions : dataVersions[p][v] = 0
    BY DEF Init, synchronizeAllVersions
  <2>3. \A j \in Versions : Ago(computed[p], epochCount - j) = 0
    <3>1. computed[p] = 0
      BY DEF Init
    <3>2. \A j \in Versions : epochCount - j \in Nat \ {0}
      BY EpochsAssumption DEF epochCount, Versions
    <3> QED BY <3>1, <3>2 DEF Ago
  <2>4. \A j \in Versions : Unit(t, i, j) \in Versions
    <3>1. \A j \in Versions : j \in Nat /\ j + 1 \in Nat
      BY DEF Versions
    <3> QED BY <1>1, <3>1, Units DEF Unit
  <2> QED BY <2>2, <2>3, <2>4 DEF KeptAt
<1> QED BY <1>1, <1>2, <1>3 DEF ArrayInv

LEMMA AdvanceArrays ==
  ASSUME ArrayInv, NEW t \in Threads, AdvanceEpoch(t)
  PROVE  ArrayInv'
<1>1. TypeOK
  BY DEF ArrayInv
<1>2. /\ TypeOK' /\ pc[t] = "advance" /\ pc'[t] = "store"
      /\ \A u \in Threads \ {t} : pc'[u] = pc[u] /\ next'[u] = next[u]
      /\ next'[t] = getData(PartOf[Current(t)], 1)
      /\ UNCHANGED <<nested, at, epochHead, dataVersions, lpu, computed>>
  BY <1>1, AdvanceEpochType
<1>3. HeadKnown(t)' /\ Referred(t)'
  BY <1>2 DEF HeadKnown, Referred, getData, Current, Visited
<1>4. ASSUME t \in ValidPpus, NEW i \in 1..Len(Visited(t))
      PROVE  KeptAt(t, i)'
  <2>1. KeptAt(t, i) /\ (Advanced(t, i)' <=> Advanced(t, i))
    BY <1>2, <1>4 DEF ArrayInv, Advanced
  <2> QED BY <1>2, <2>1, KeptStays
<1> QED BY <1>2, <1>3, <1>4, OthersKept

LEMMA StoreArrays ==
  ASSUME ArrayInv, NEW t \in Threads, StoreHead(t)
  PROVE  ArrayInv'
<1>1. TypeOK /\ HeadKnown(t)
  BY DEF ArrayInv
<1> PICK q \in Parts : q = PartOf[Current(t)]
  BY <1>1, CurrentType
<1>2. /\ TypeOK' /\ pc[t] = "store"
      /\ UNCHANGED <<nested, next, dataVersions, lpu, computed>>
      /\ \A u \in Threads \ {t} : at'[u] = at[u] /\ pc'[u] = pc[u]
      /\ epochHead' = [epochHead EXCEPT ![q] = next[t]]
      /\ IF nested THEN \/ at[t] < Len(Visited(t)) /\ at'[t] = at[t] + 1 /\ pc'[t] = "advance"
                        \/ at[t] = Len(Visited(t)) /\ at'[t] = 1 /\ pc'[t] = "shift"
                   ELSE at'[t] = at[t] /\ pc'[t] = "generate"
  BY <1>1, StoreHeadType
<1>3. /\ q \in Parts /\ q = PartAt(t, at[t]) /\ at[t] \in 1..Len(Visited(t))
      /\ Len(Visited(t)) \in Nat /\ (~nested => Len(Visited(t)) = 1)
  BY <1>1, CurrentType, VisitedType DEF TypeOK
<1>4. /\ Unshared(q) => epochHead'[q] = getData(q, 1)
      /\ \A p \in Parts : p # q => epochHead'[p] = epochHead[p]
  BY <1>1, <1>2, <1>3 DEF TypeOK, HeadKnown
<1>5. HeadKnown(t)' /\ Referred(t)'
  BY <1>2 DEF HeadKnown, Referred
<1>6. ASSUME t \in ValidPpus, NEW i \in 1..Len(Visited(t)), Unshared(PartAt(t, i))
      PROVE  KeptAt(t, i)'
  <2>1. KeptAt(t, i) /\ PartAt(t, i)' = PartAt(t, i)
    BY <1>2, <1>6, VisitedKept DEF ArrayInv
  <2>2. CASE i = at[t]
    <3>1. ~Advanced(t, i) /\ PartAt(t, i) = q
      BY <1>2, <1>3, <2>2 DEF Advanced
    <3>2. Advanced(t, i)'
      BY <1>2, <1>3, <2>2 DEF Advanced
    <3>3. \A j \in Versions : getData(q, j)' = getData(q, j + 1)
      <4>1. Versions \subseteq Nat /\ epochHead'[q] = getData(q, 1)
        BY <1>4, <1>6, <3>1 DEF Versions
      <4> QED BY <1>1, <4>1, UnitsAdvanced
    <3>4. \A j \in Versions : dataVersions[q][getData(q, j + 1)] = Ago(computed[q], epochCount - j)
      BY <1>6, <2>1, <3>1 DEF KeptAt, Unit
    <3>5. \A j \in Versions : dataVersions'[q][getData(q, j)'] = Ago(computed'[q], epochCount - j)
      BY <1>2, <3>3, <3>4
    <3>6. PartAt(t, i)' = q
      BY <2>1, <3>1
    <3> QED BY <3>2, <3>5, <3>6 DEF KeptAt, Unit, getData, Ago
  <2>3. CASE i # at[t]
    <3>1. PartAt(t, i) \in Parts /\ PartAt(t, i) # q
      BY <1>1, <1>3, <1>6, <2>3, VisitedType, PartsApart DEF TypeOK
    <3>2. epochHead'[PartAt(t, i)] = epochHead[PartAt(t, i)]
      BY <1>4, <3>1
    <3>3. Advanced(t, i)' <=> Advanced(t, i)
      <4>1. CASE nested
        <5>1. /\ pc[t] = "store" /\ nested' = nested
              /\ \/ at[t] < Len(Visited(t)) /\ at'[t] = at[t] + 1 /\ pc'[t] = "advance"
                 \/ at[t] = Len(Visited(t)) /\ pc'[t] = "shift"
          BY <1>2, <4>1
        <5>2. Advanced(t, i) <=> i < at[t]
          BY <4>1, <5>1 DEF Advanced
        <5>3. Advanced(t, i)' <=> (pc'[t] = "advance" /\ i < at'[t]) \/ pc'[t] = "shift"
          BY <4>1, <5>1 DEF Advanced
        <5>4. i \in Nat /\ at[t] \in Nat /\ Len(Visited(t)) \in Nat /\ i <= Len(Visited(t)) /\ i # at[t]
          BY <1>3, <2>3
        <5>5. CASE at[t] < Len(Visited(t)) /\ at'[t] = at[t] + 1 /\ pc'[t] = "advance"
          <6>1. i < at[t] + 1 <=> i < at[t]
            BY <5>4
          <6>2. Advanced(t, i)' <=> i < at[t] + 1
            BY <5>3, <5>5
          <6> QED BY <5>2, <6>1, <6>2
        <5>6. CASE at[t] = Len(Visited(t)) /\ pc'[t] = "shift"
          <6>1. i < at[t]
            BY <5>4, <5>6
          <6>2. Advanced(t, i)'
            BY <5>3, <5>6
          <6> QED BY <5>2, <6>1, <6>2
        <5> QED BY <5>1, <5>5, <5>6, Zenon
      <4>2. CASE ~nested
        <5>1. Len(Visited(t)) = 1 /\ i \in 1..1 /\ at[t] \in 1..1
          BY <1>3, <4>2
        <5>2. FALSE
          BY <2>3, <5>1
        <5> QED BY <5>2
      <4> QED BY <4>1, <4>2
    <3> QED BY <1>2, <2>1, <3>2, <3>3, KeptStays
  <2> QED BY <2>2, <2>3
<1>7. ASSUME t \in ValidPpus, NEW i \in 1..Len(Visited(t))
      PROVE  KeptAt(t, i)'
  <2>1. PartAt(t, i)' = PartAt(t, i)
    BY <1>2, VisitedKept
  <2>2. CASE ~Unshared(PartAt(t, i))
    BY <2>1, <2>2 DEF KeptAt
  <2> QED BY <1>6, <1>7, <2>2
<1>8. \A p \in Parts : p # PartOf[Current(t)] => epochHead'[p] = epochHead[p]
  BY <1>4
<1> QED BY <1>2, <1>5, <1>7, <1>8, OthersKept

LEMMA GenerateArrays ==
  ASSUME ArrayInv, NEW t \in Threads, GenerateLpu(t)
  PROVE  ArrayInv'
<1>1. TypeOK
  BY DEF ArrayInv
<1>2. /\ TypeOK' /\ pc[t] = "generate"
      /\ UNCHANGED <<nested, at, next, epochHead, dataVersions, computed>>
      /\ \A u \in Threads \ {t} : pc'[u] = pc[u] /\ lpu'[u] = lpu[u]
      /\ pc'[t] = (IF nested THEN "compute" ELSE "shift")
      /\ \A j \in Versions : lpu'[t][Current(t)][j] = getData(PartOf[Current(t)], j)
  BY <1>1, GenerateLpuType
<1>3. HeadKnown(t)'
  BY <1>2 DEF HeadKnown
<1>4. Referred(t)'
  BY <1>2 DEF Referred, getData, Current, Visited
<1>5. ASSUME t \in ValidPpus, NEW i \in 1..Len(Visited(t))
      PROVE  KeptAt(t, i)'
  <2>1. KeptAt(t, i) /\ (Advanced(t, i)' <=> Advanced(t, i))
    BY <1>2, <1>5 DEF ArrayInv, Advanced
  <2> QED BY <1>2, <2>1, KeptStays
<1> QED BY <1>2, <1>3, <1>4, <1>5, OthersKept

LEMMA ShiftArrays ==
  ASSUME ArrayInv, NEW t \in Threads, ShiftScalars(t)
  PROVE  ArrayInv'
<1>1. TypeOK /\ Referred(t)
  BY DEF ArrayInv
<1>2. /\ TypeOK' /\ pc[t] = "shift"
      /\ UNCHANGED <<nested, at, next, epochHead, dataVersions, lpu, computed>>
      /\ \A u \in Threads \ {t} : pc'[u] = pc[u]
      /\ pc'[t] = (IF nested THEN "generate" ELSE "compute")
  BY <1>1, ShiftType
<1>3. HeadKnown(t)'
  BY <1>2 DEF HeadKnown
<1>4. Referred(t)'
  BY <1>1, <1>2 DEF Referred, getData, Current, Visited
<1>5. ASSUME t \in ValidPpus, NEW i \in 1..Len(Visited(t))
      PROVE  KeptAt(t, i)'
  <2>1. at[t] = 1
    BY <1>1, <1>2 DEF TypeOK
  <2>2. KeptAt(t, i) /\ (Advanced(t, i)' <=> Advanced(t, i))
    BY <1>2, <1>5, <2>1 DEF ArrayInv, Advanced
  <2> QED BY <1>2, <2>2, KeptStays
<1> QED BY <1>2, <1>3, <1>4, <1>5, OthersKept

LEMMA ComputeArrays ==
  ASSUME ArrayInv, NEW t \in Threads, Compute(t)
  PROVE  ArrayInv'
<1>1. TypeOK /\ Referred(t)
  BY DEF ArrayInv
<1>2. /\ TypeOK' /\ pc[t] = "compute"
      /\ UNCHANGED <<nested, next, epochHead, lpu>>
      /\ \A u \in Threads \ {t} : at'[u] = at[u] /\ pc'[u] = pc[u]
      /\ \/ at[t] < Len(Visited(t)) /\ at'[t] = at[t] + 1 /\ pc'[t] = "generate"
         \/ at[t] = Len(Visited(t)) /\ at'[t] = 1 /\ pc'[t] = "advance"
  BY <1>1, ComputeType
<1> PICK q \in Parts : q = PartOf[Current(t)]
  BY <1>1, CurrentType
<1>3. /\ q = PartAt(t, at[t]) /\ at[t] \in 1..Len(Visited(t))
      /\ Len(Visited(t)) \in Nat /\ (~nested => Len(Visited(t)) = 1)
  BY <1>1, CurrentType, VisitedType DEF TypeOK
<1>4. /\ t \in ValidPpus => Computes(q, lpu[t][Current(t)][0])
      /\ t \notin ValidPpus => UNCHANGED <<dataVersions, computed>>
  BY <1>1, ComputeType
<1>5. \A p \in Parts : p # q => dataVersions'[p] = dataVersions[p] /\ computed'[p] = computed[p]
  <2>1. CASE t \in ValidPpus
    BY <1>1, <1>4, <2>1 DEF TypeOK, Computes
  <2>2. CASE t \notin ValidPpus
    BY <1>4, <2>2
  <2> QED BY <2>1, <2>2
<1>6. HeadKnown(t)' /\ Referred(t)'
  BY <1>2 DEF HeadKnown, Referred
<1>7. at[t] \in Nat /\ (at[t] # 1 \/ at[t] < Len(Visited(t)) => nested)
  BY <1>1, LaterNested
<1>8. ASSUME t \in ValidPpus, Unshared(q)
      PROVE  \A j \in Versions : dataVersions'[q][getData(q, j + 1)] = Ago(computed'[q], epochCount - j)
  <2>1. KeptAt(t, at[t]) /\ Advanced(t, at[t])
    <3>1. ~nested => at[t] = 1
      BY <1>7
    <3> QED BY <1>2, <1>3, <1>7, <1>8 DEF ArrayInv, Advanced
  <2>2. \A j \in Versions : dataVersions[q][getData(q, j)] = Ago(computed[q], epochCount - j)
    BY <1>3, <1>8, <2>1 DEF KeptAt, Unit
  <2>3. /\ epochHead[q] \in Versions /\ getData(q, 0) = epochHead[q] /\ getData(q, Lags + 1) = epochHead[q]
        /\ \A j \in 1..Lags : getData(q, j) # epochHead[q]
        /\ \A j \in Nat : getData(q, j) \in Versions
    BY <1>1, Units
  <2>4. lpu[t][Current(t)][0] = epochHead[q]
    BY <1>1, <1>2, <1>8, <2>3, VersionsType DEF Referred
  <2>5. dataVersions[q] \in [Versions -> Nat] /\ computed[q] \in Nat
    BY <1>1 DEF TypeOK
  <2>6. /\ dataVersions'[q] = [dataVersions[q] EXCEPT ![epochHead[q]] = computed[q] + 1]
        /\ computed'[q] = computed[q] + 1
    BY <1>1, <1>4, <1>8, <2>4 DEF Computes, TypeOK
  <2> SUFFICES ASSUME NEW j \in Versions
               PROVE  dataVersions'[q][getData(q, j + 1)] = Ago(computed'[q], epochCount - j)
    OBVIOUS
  <2>7. Lags \in Nat \ {0} /\ j \in 0..Lags /\ epochCount - j = (Lags - j) + 1
    BY EpochsAssumption DEF epochCount, Versions
  <2>8. CASE j = Lags
    <3>1. dataVersions'[q][epochHead[q]] = computed[q] + 1
      BY <2>3, <2>5, <2>6
    <3>2. Ago(computed[q] + 1, 1) = computed[q] + 1
      BY <2>5, AgoNext
    <3>3. epochCount - j = 1 /\ getData(q, j + 1) = epochHead[q]
      BY <2>3, <2>7, <2>8
    <3> QED BY <2>6, <3>1, <3>2, <3>3
  <2>9. CASE j # Lags
    <3>1. j + 1 \in 1..Lags /\ j + 1 \in Versions /\ Lags - j \in Nat \ {0} /\ epochCount - (j + 1) = Lags - j
      BY <2>7, <2>9 DEF epochCount, Versions
    <3>2. dataVersions'[q][getData(q, j + 1)] = dataVersions[q][getData(q, j + 1)]
      BY <2>3, <2>5, <2>6, <3>1
    <3>3. dataVersions[q][getData(q, j + 1)] = Ago(computed[q], Lags - j)
      BY <2>2, <3>1
    <3>4. Ago(computed[q] + 1, (Lags - j) + 1) = Ago(computed[q], Lags - j)
      BY <2>5, <3>1, AgoNext
    <3> QED BY <2>6, <2>7, <3>2, <3>3, <3>4
  <2> QED BY <2>8, <2>9
<1>9. ASSUME t \in ValidPpus, NEW i \in 1..Len(Visited(t)), Unshared(PartAt(t, i))
      PROVE  KeptAt(t, i)'
  <2>1. KeptAt(t, i) /\ PartAt(t, i)' = PartAt(t, i)
    BY <1>2, <1>9, VisitedKept DEF ArrayInv
  <2>2. /\ i \in Nat /\ at[t] \in Nat /\ Len(Visited(t)) \in Nat
        /\ 1 <= i /\ i <= Len(Visited(t))
    BY <1>3
  <2>3. CASE i = at[t]
    <3>1. PartAt(t, i)' = q /\ Unshared(q)
      BY <1>3, <1>9, <2>1, <2>3
    <3>2. ~Advanced(t, i)'
      <4>1. CASE at'[t] = at[t] + 1 /\ pc'[t] = "generate" /\ at[t] < Len(Visited(t))
        <5>1. nested
          BY <1>7, <4>1
        <5>2. Advanced(t, i)' <=> at[t] + 1 <= i
          BY <1>2, <4>1, <5>1 DEF Advanced
        <5> QED BY <2>2, <2>3, <5>2
      <4>2. CASE at'[t] = 1 /\ pc'[t] = "advance"
        <5>1. Advanced(t, i)' => i < 1
          BY <4>2 DEF Advanced
        <5> QED BY <2>2, <5>1
      <4> QED BY <1>2, <4>1, <4>2
    <3>3. \A j : getData(q, j)' = getData(q, j)
      BY <1>2 DEF getData
    <3>4. \A j \in Versions : dataVersions'[q][getData(q, j + 1)'] = Ago(computed'[q], epochCount - j)
      BY <1>8, <1>9, <3>1, <3>3
    <3> QED BY <3>1, <3>2, <3>4 DEF KeptAt, Unit, getData, Ago
  <2>4. CASE i # at[t]
    <3>1. PartAt(t, i) \in Parts /\ PartAt(t, i) # q
      BY <1>1, <1>3, <1>9, <2>4, VisitedType, PartsApart DEF TypeOK
    <3>2. /\ dataVersions'[PartAt(t, i)] = dataVersions[PartAt(t, i)]
          /\ computed'[PartAt(t, i)] = computed[PartAt(t, i)]
      BY <1>5, <3>1
    <3>3. nested
      BY <1>7, <2>2, <2>4
    <3>4. Advanced(t, i) <=> at[t] <= i
      BY <1>2, <3>3 DEF Advanced
    <3>5. Advanced(t, i)' <=> at[t] <= i
      <4>1. CASE at[t] < Len(Visited(t)) /\ at'[t] = at[t] + 1 /\ pc'[t] = "generate"
        <5>1. Advanced(t, i)' <=> at[t] + 1 <= i
          BY <1>2, <3>3, <4>1 DEF Advanced
        <5>2. at[t] + 1 <= i <=> at[t] <= i
          BY <2>2, <2>4
        <5> QED BY <5>1, <5>2
      <4>2. CASE at[t] = Len(Visited(t)) /\ at'[t] = 1 /\ pc'[t] = "advance"
        <5>1. Advanced(t, i)' <=> i < 1
          BY <1>2, <3>3, <4>2 DEF Advanced
        <5>2. ~(i < 1) /\ ~(at[t] <= i)
          BY <2>2, <2>4, <4>2
        <5> QED BY <5>1, <5>2
      <4> QED BY <1>2, <4>1, <4>2
    <3>6. Advanced(t, i)' <=> Advanced(t, i)
      BY <3>4, <3>5
    <3> QED BY <1>2, <2>1, <3>2, <3>6, KeptStays
  <2> QED BY <2>3, <2>4
<1>10. ASSUME t \in ValidPpus, NEW i \in 1..Len(Visited(t))
       PROVE  KeptAt(t, i)'
  <2>1. PartAt(t, i)' = PartAt(t, i)
    BY <1>2, VisitedKept
  <2>2. CASE ~Unshared(PartAt(t, i))
    BY <2>1, <2>2 DEF KeptAt
  <2> QED BY <1>9, <1>10, <2>2
<1>11. /\ \A p \in Parts : p # PartOf[Current(t)] =>
           /\ epochHead'[p] = epochHead[p] /\ dataVersions'[p] = dataVersions[p]
           /\ computed'[p] = computed[p]
      /\ \A u \in Threads \ {t} : /\ at'[u] = at[u] /\ pc'[u] = pc[u] /\ next'[u] = next[u]
                                  /\ lpu'[u] = lpu[u]
      /\ UNCHANGED nested
  BY <1>2, <1>5
<1> QED BY <1>2, <1>6, <1>10, <1>11, OthersKept

LEMMA StepArrays ==
  ASSUME ArrayInv, [Next]_vars
  PROVE  ArrayInv'
<1>1. CASE UNCHANGED vars
  <2>1. UNCHANGED <<nested, pc, at, next, epochHead, dataVersions, lpu, scalar, computed, scalarComputed>>
    BY <1>1 DEF vars
  <2>2. TypeOK'
    BY <2>1 DEF ArrayInv, TypeOK, Visited
  <2>3. \A t \in Threads : HeadKnown(t)' /\ Referred(t)'
    BY <2>1 DEF ArrayInv, HeadKnown, Referred, Current, Visited, getData
  <2>4. ASSUME NEW t \in ValidPpus, NEW i \in 1..Len(Visited(t))
        PROVE  KeptAt(t, i)'
    <3>1. t \in Threads /\ KeptAt(t, i) /\ (Advanced(t, i)' <=> Advanced(t, i))
      BY <2>1, EpochsAssumption DEF ArrayInv, Advanced
    <3> QED BY <2>1, <3>1, KeptStays
  <2>5. \A t \in ValidPpus : Visited(t)' = Visited(t)
    BY <2>1 DEF Visited
  <2> QED BY <2>2, <2>3, <2>4, <2>5 DEF ArrayInv
<1>2. ASSUME NEW t \in Threads, Step(t)
      PROVE  ArrayInv'
  BY <1>2, AdvanceArrays, StoreArrays, GenerateArrays, ShiftArrays, ComputeArrays DEF Step
<1> QED BY <1>1, <1>2 DEF Next

LEMMA ArrayInvImplies ==
  ASSUME ArrayInv
  PROVE  VersionsKept
<1> SUFFICES ASSUME NEW t \in ValidPpus, pc[t] = "compute",
                    NEW l, l = Current(t), NEW p, p = PartOf[l], Unshared(p)
             PROVE  {dataVersions[p][lpu[t][l][j]] : j \in 1..Lags} = {Ago(computed[p], j) : j \in 1..Lags}
  BY DEF VersionsKept
<1>1. t \in Threads /\ TypeOK /\ Referred(t) /\ Lags \in Nat
  BY EpochsAssumption DEF ArrayInv
<1>2. /\ p = PartAt(t, at[t]) /\ at[t] \in 1..Len(Visited(t))
      /\ Len(Visited(t)) \in Nat /\ (~nested => Len(Visited(t)) = 1) /\ at[t] \in Nat
  BY <1>1, CurrentType, VisitedType DEF TypeOK
<1>3. KeptAt(t, at[t]) /\ Advanced(t, at[t])
  BY <1>2 DEF ArrayInv, Advanced
<1>4. \A j \in Versions : dataVersions[p][getData(p, j)] = Ago(computed[p], epochCount - j)
  BY <1>2, <1>3 DEF KeptAt, Unit
<1>5. \A j \in Versions : lpu[t][l][j] = getData(p, j)
  BY <1>1 DEF Referred
<1>6. \A j \in 1..Lags : /\ j \in Versions /\ epochCount - j \in 1..Lags
                         /\ epochCount - (epochCount - j) = j
  BY <1>1 DEF Versions, epochCount
<1>7. \A j \in 1..Lags : dataVersions[p][lpu[t][l][j]] = Ago(computed[p], epochCount - j)
  BY <1>4, <1>5, <1>6
<1> QED BY <1>6, <1>7

(* However many lags an array has, a stage about to compute an LPU whose     *)
(* part no other LPU has finds all of the part's last epochs under them,     *)
(* each under one: however many LPUs a pass has and whichever of them are    *)
(* shared, whether the array is used in the LPS of the block or below it,    *)
(* and however the threads' passes, each through the two steps of            *)
(* advanceEpoch and the refreshing of its LPUs, interleave.                  *)
THEOREM KeepsVersions == Spec => []VersionsKept
<1>1. Init => ArrayInv
  BY InitArrays
<1>2. ArrayInv /\ [Next]_vars => ArrayInv'
  BY StepArrays
<1>3. ArrayInv => VersionsKept
  BY ArrayInvImplies
<1> QED BY <1>1, <1>2, <1>3, PTL DEF Spec
=============================================================================
