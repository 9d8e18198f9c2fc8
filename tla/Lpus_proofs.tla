----------------------------- MODULE Lpus_proofs ------------------------------
(***************************************************************************)
(* Every LPU of a task is computed exactly once, for any mapping that      *)
(* WellMapped allows, any number of threads, any number of LPUs and any    *)
(* nest of loops.                                                          *)
(*                                                                         *)
(* It is shown from below.  A counter walks through the share of its PPU   *)
(* group, and the shares divide the LPUs under one parent (CounterInv).    *)
(* The ids that a thread gets, and the adjustment to the threads there     *)
(* are, make it a member of one group of every LPS, and the PPU count the  *)
(* number of groups there are (IdsOfThread, CountsActual).  So the threads *)
(* that come to an LPU are those of one group, one of which executes its   *)
(* code (OneThreadPerLpu).                                                 *)
(*                                                                         *)
(* That each of them does come to it, and once, is the inductive invariant *)
(* Inv of LpuIteration.  NoLpuTwice alone does not carry over a step: one  *)
(* has to know that what the thread is about to execute it has not         *)
(* executed before, and when it is through that nothing was skipped.  Inv  *)
(* therefore says what exactly has been executed, as a function (Past) of  *)
(* where the thread stands: everything whose chain of ids comes before the *)
(* current one in the order of the loops.  Each action is shown to leave   *)
(* that function as it is, except ExecuteStage, which adds what it adds to *)
(* the bag.                                                                *)
(***************************************************************************)
EXTENDS LpuCounter, LpuIteration, DivisionLemmas, FiniteSetTheorems

-----------------------------------------------------------------------------
(* The shares of the PPU groups.                                             *)

(* A range in explicit form: one id each if the LPUs are fewer than the PPUs ... *)
LEMMA FewLpus ==
  ASSUME NEW total \in Nat, NEW n \in Nat \ {0}, NEW g \in 0..(n - 1), n > total
  PROVE  IdsOf(total, n, g) = IF g < total THEN {g} ELSE {}
<1>1. CASE g < total
  <2>1. CurrentRange(total, n, g) = IdRange(g, g)
    BY <1>1 DEF CurrentRange
  <2>2. IdRange(g, g) # NoRange
    BY DEF IdRange, NoRange, INVALID_ID
  <2>3. IdsOf(total, n, g) = g..g
    BY <2>1, <2>2 DEF IdsOf, IdRange
  <2> QED BY <1>1, <2>3
<1>2. CASE ~(g < total)
  <2>1. CurrentRange(total, n, g) = NoRange
    BY <1>2 DEF CurrentRange
  <2> QED BY <1>2, <2>1 DEF IdsOf
<1> QED BY <1>1, <1>2

(* ... and otherwise shares of equal length, the last one longer.             *)
LEMMA ManyLpus ==
  ASSUME NEW total \in Nat, NEW n \in Nat \ {0}, NEW g \in 0..(n - 1), n <= total
  PROVE  IdsOf(total, n, g) =
           (total \div n) * g
             ..((total \div n) * g + (total \div n) - 1
                  + (IF g = n - 1 THEN total % n ELSE 0))
<1> DEFINE q == total \div n
           e == IF g = n - 1 THEN total % n ELSE 0
<1>1. CurrentRange(total, n, g) = IdRange(q * g, q * g + q - 1 + e)
  BY DEF CurrentRange
<1>2. q * g \in Nat
  BY Division
<1>3. IdRange(q * g, q * g + q - 1 + e) # NoRange
  <2>1. q * g # INVALID_ID
    BY <1>2 DEF INVALID_ID
  <2> QED BY <2>1 DEF IdRange, NoRange
<1> QED BY <1>1, <1>3 DEF IdsOf, IdRange

(* The shares of two PPUs have no LPU in common.                              *)
LEMMA SharesDisjointOrdered ==
  ASSUME NEW total \in Nat, NEW n \in Nat \ {0},
         NEW g \in 0..(n - 1), NEW h \in 0..(n - 1), g < h
  PROVE  IdsOf(total, n, g) \cap IdsOf(total, n, h) = {}
<1>1. CASE n > total
  BY <1>1, FewLpus
<1>2. CASE n <= total
  <2> DEFINE q == total \div n
  <2>1. q \in Nat /\ q * g \in Nat /\ q * h \in Nat
    BY Division
  <2>2. q * g + q <= q * h
    BY <2>1, Monotonic
  <2>3. \A i \in IdsOf(total, n, g) : i \in Nat /\ i < q * g + q
    <3>1. g # n - 1
      OBVIOUS
    <3>2. IdsOf(total, n, g) = (q * g)..(q * g + q - 1 + 0)
      BY <1>2, <3>1, ManyLpus
    <3> QED BY <2>1, <3>2
  <2>4. \A i \in IdsOf(total, n, h) : i >= q * h
    <3> DEFINE e == IF h = n - 1 THEN total % n ELSE 0
    <3>1. IdsOf(total, n, h) = (q * h)..(q * h + q - 1 + e)
      BY <1>2, ManyLpus
    <3>2. e \in Nat
      BY Division
    <3> HIDE DEF q, e
    <3> QED BY <2>1, <3>1, <3>2
  <2>5. SUFFICES ASSUME NEW i \in IdsOf(total, n, g), i \in IdsOf(total, n, h)
                 PROVE  FALSE
    OBVIOUS
  <2>6. i \in Nat /\ i < q * g + q /\ i >= q * h
    BY <2>3, <2>4, <2>5
  <2> HIDE DEF q
  <2> QED BY <2>1, <2>2, <2>6
<1> QED BY <1>1, <1>2

LEMMA SharesDisjoint ==
  ASSUME NEW total \in Nat, NEW n \in Nat \ {0},
         NEW g \in 0..(n - 1), NEW h \in 0..(n - 1), g # h
  PROVE  IdsOf(total, n, g) \cap IdsOf(total, n, h) = {}
<1>1. CASE g < h
  BY <1>1, SharesDisjointOrdered
<1>2. CASE h < g
  BY <1>2, SharesDisjointOrdered
<1> QED BY <1>1, <1>2

(* A share consists of ids of LPUs.                                           *)
LEMMA SharesAreIds ==
  ASSUME NEW total \in Nat, NEW n \in Nat \ {0}, NEW g \in 0..(n - 1)
  PROVE  IdsOf(total, n, g) \subseteq 0..(total - 1)
<1>1. CASE n > total
  BY <1>1, FewLpus
<1>2. CASE n <= total
  <2> DEFINE q == total \div n
             r == total % n
  <2>1. q \in Nat /\ r \in 0..(n - 1) /\ total = (n * q) + r
    BY Division
  <2>2. q * g \in Nat /\ n * q \in Nat /\ n * q = q * n
    BY <2>1
  <2>3. q * g + q <= n * q
    BY <2>1, <2>2, Monotonic
  <2>4. \A i \in IdsOf(total, n, g) : i \in Nat /\ i < q * g + q + r
    <3>1. CASE g = n - 1
      <4>1. IdsOf(total, n, g) = (q * g)..(q * g + q - 1 + r)
        BY <1>2, <3>1, ManyLpus
      <4> QED BY <2>1, <2>2, <4>1
    <3>2. CASE g # n - 1
      <4>1. IdsOf(total, n, g) = (q * g)..(q * g + q - 1 + 0)
        BY <1>2, <3>2, ManyLpus
      <4> QED BY <2>1, <2>2, <4>1
    <3> QED BY <3>1, <3>2
  <2> QED BY <2>1, <2>2, <2>3, <2>4
<1> QED BY <1>1, <1>2

(* Every LPU is in some PPU's share.                                          *)
LEMMA SharesCover ==
  ASSUME NEW total \in Nat, NEW n \in Nat \ {0}, NEW i \in 0..(total - 1)
  PROVE  \E g \in 0..(n - 1) : i \in IdsOf(total, n, g)
<1>1. CASE n > total
  <2>1. i \in 0..(n - 1)
    BY <1>1
  <2> QED BY <1>1, <2>1, FewLpus
<1>2. CASE n <= total
  <2> DEFINE q == total \div n
             r == total % n
  <2>1. q \in Nat /\ r \in 0..(n - 1) /\ total = (n * q) + r
    BY Division
  <2>2. q # 0
    <3>1. SUFFICES ASSUME q = 0 PROVE FALSE
      OBVIOUS
    <3>2. n * q = 0
      BY <3>1
    <3> QED BY <1>2, <2>1, <3>2
  <2>3. CASE i >= q * (n - 1)
    <3>1. q * (n - 1) + q = n * q /\ q * (n - 1) \in Nat
      BY <2>1, LastShare
    <3>2. IdsOf(total, n, n - 1) = (q * (n - 1))..(q * (n - 1) + q - 1 + r)
      <4>1. n - 1 \in 0..(n - 1)
        OBVIOUS
      <4> QED BY <1>2, <4>1, ManyLpus
    <3>3. i \in IdsOf(total, n, n - 1)
      BY <2>1, <2>3, <3>1, <3>2
    <3> QED BY <3>3
  <2>4. CASE i < q * (n - 1)
    <3> DEFINE g == i \div q
    <3>1. /\ g \in Nat
          /\ i % q \in 0..(q - 1)
          /\ i = (q * g) + (i % q)
      <4>1. i \in Nat /\ q \in Nat \ {0}
        BY <2>1, <2>2
      <4> HIDE DEF q
      <4> QED BY <4>1, Division
    <3>2. g < n - 1
      <4>1. SUFFICES ASSUME n - 1 <= g PROVE FALSE
        BY <3>1
      <4>2. q * (n - 1) <= q * g
        <5>1. CASE n - 1 = g
          BY <5>1, <2>1
        <5>2. CASE n - 1 < g
          <6>1. q * (n - 1) + q <= q * g
            BY <5>2, <2>1, <3>1, Monotonic
          <6> QED BY <6>1, <2>1, <3>1
        <5> QED BY <4>1, <5>1, <5>2, <3>1
      <4> QED BY <2>1, <2>4, <3>1, <4>2
    <3>3. g \in 0..(n - 1) /\ g # n - 1
      BY <3>1, <3>2
    <3>4. IdsOf(total, n, g) = (q * g)..(q * g + q - 1 + 0)
      BY <1>2, <3>3, ManyLpus
    <3>5. i \in IdsOf(total, n, g)
      <4>1. q * g \in Nat
        BY <2>1, <3>1
      <4> HIDE DEF g, q
      <4> QED BY <2>1, <3>1, <3>4, <4>1
    <3> QED BY <3>3, <3>5
  <2> QED BY <2>3, <2>4, <2>1
<1> QED BY <1>1, <1>2

(* A range that is not empty begins with an id, and is what NextLpuId walks.  *)
LEMMA FirstOfIds ==
  ASSUME NEW total \in Nat, NEW n \in Nat \ {0}, NEW g \in 0..(n - 1),
         NEW r, r = CurrentRange(total, n, g)
  PROVE  /\ r \in [startId : Int, endId : Int]
         /\ r.startId = INVALID_ID => IdsOf(total, n, g) = {}
         /\ r.startId # INVALID_ID => /\ IdsOf(total, n, g) = r.startId..r.endId
                                     /\ r.startId \in IdsOf(total, n, g)
<1> DEFINE q == total \div n
           e == IF g = n - 1 THEN total % n ELSE 0
<1>2. CASE n > total /\ g < total
  <2>1. r = IdRange(g, g)
    BY <1>2 DEF CurrentRange
  <2>2. r # NoRange
    BY <2>1 DEF IdRange, NoRange, INVALID_ID
  <2> QED BY <2>1, <2>2 DEF IdsOf, IdRange, INVALID_ID
<1>3. CASE n > total /\ ~(g < total)
  <2>1. r = NoRange
    BY <1>3 DEF CurrentRange
  <2> QED BY <2>1 DEF IdsOf, IdRange, NoRange, INVALID_ID
<1>4. CASE ~(n > total)
  <2>1. r = IdRange(q * g, q * g + q - 1 + e)
    BY <1>4 DEF CurrentRange
  <2>2. q \in Nat /\ e \in Nat /\ total = (n * q) + (total % n)
        /\ total % n \in 0..(n - 1)
    <3>1. /\ q \in Nat
          /\ total % n \in 0..(n - 1)
          /\ total = (n * q) + (total % n)
      BY Division DEF q
    <3>2. e \in Nat
      BY <3>1 DEF e
    <3> QED BY <3>1, <3>2
  <2>3. q * g \in Nat
    BY <2>2
  <2>4. q # 0
    <3>1. SUFFICES ASSUME q = 0 PROVE FALSE
      OBVIOUS
    <3>2. n * q = 0
      BY <3>1
    <3> QED BY <1>4, <2>2, <3>2
  <2>5. IdsOf(total, n, g) = IF r = NoRange THEN {} ELSE r.startId..r.endId
    BY DEF IdsOf
  <2> HIDE DEF q, e
  <2>6. r.startId = q * g /\ r.endId = q * g + q - 1 + e /\ r \in [startId : Int, endId : Int]
    BY <2>1, <2>2, <2>3 DEF IdRange
  <2>7. r.startId # INVALID_ID /\ r # NoRange
    BY <2>3, <2>6 DEF INVALID_ID, NoRange, IdRange
  <2>8. r.startId \in r.startId..r.endId
    BY <2>2, <2>3, <2>4, <2>6
  <2> QED BY <2>5, <2>6, <2>7, <2>8
<1> QED BY <1>2, <1>3, <1>4

(* The walk begins with the least id of the share, if there is one,           *)
LEMMA WalkBegins ==
  ASSUME NEW total \in Nat, NEW n \in Nat \ {0}, NEW g \in 0..(n - 1),
         NEW id, id = NextLpuId(CurrentRange(total, n, g), INVALID_ID)
  PROVE  /\ id = INVALID_ID => IdsOf(total, n, g) = {}
         /\ id # INVALID_ID => id \in IdsOf(total, n, g) /\ \A k \in IdsOf(total, n, g) : id <= k
<1>1. PICK r : r = CurrentRange(total, n, g)
  OBVIOUS
<1>2. id = r.startId
  BY <1>1 DEF NextLpuId
<1>3. /\ r \in [startId : Int, endId : Int]
      /\ r.startId = INVALID_ID => IdsOf(total, n, g) = {}
      /\ r.startId # INVALID_ID => /\ IdsOf(total, n, g) = r.startId..r.endId
                                  /\ r.startId \in IdsOf(total, n, g)
  BY <1>1, FirstOfIds
<1>4. r.startId \in Int /\ r.endId \in Int
  BY <1>3
<1> QED BY <1>2, <1>3, <1>4

(* and goes from each id to the next one, up to the last.                      *)
LEMMA WalkGoesOn ==
  ASSUME NEW total \in Nat, NEW n \in Nat \ {0}, NEW g \in 0..(n - 1),
         NEW k \in IdsOf(total, n, g),
         NEW id, id = NextLpuId(CurrentRange(total, n, g), k)
  PROVE  /\ id = INVALID_ID => \A j \in IdsOf(total, n, g) : j <= k
         /\ id # INVALID_ID => id = k + 1 /\ id \in IdsOf(total, n, g)
<1>1. PICK r : r = CurrentRange(total, n, g)
  OBVIOUS
<1>2. /\ r \in [startId : Int, endId : Int]
      /\ r.startId = INVALID_ID => IdsOf(total, n, g) = {}
      /\ r.startId # INVALID_ID => /\ IdsOf(total, n, g) = r.startId..r.endId
                                  /\ r.startId \in IdsOf(total, n, g)
  BY <1>1, FirstOfIds
<1>3. r.startId \in Int /\ r.endId \in Int /\ IdsOf(total, n, g) = r.startId..r.endId
  BY <1>2
<1>4. k \in Nat
  BY SharesAreIds
<1>5. id = IF k + 1 > r.endId THEN INVALID_ID ELSE k + 1
  BY <1>1, <1>4 DEF NextLpuId, INVALID_ID
<1> QED BY <1>3, <1>4, <1>5 DEF INVALID_ID

-----------------------------------------------------------------------------
(* The counters at work.                                                      *)

LEMMA ShareIsIdsOf ==
  ASSUME NEW g \in Groups
  PROVE  Share(g) = IdsOf(totalLpus, PpuCount, g)
BY DEF Share

(* The same of a share of the LPUs under the parent.                          *)
LEMMA FirstOfShare ==
  ASSUME CounterTypeOK, NEW g \in Groups,
         NEW r, r = CurrentRange(totalLpus, PpuCount, g)
  PROVE  /\ r \in [startId : Int, endId : Int]
         /\ r.startId = INVALID_ID => Share(g) = {}
         /\ r.startId # INVALID_ID =>
              /\ Share(g) = r.startId..r.endId
              /\ r.startId \in Share(g)
<1>1. totalLpus \in Nat /\ PpuCount \in Nat \ {0} /\ g \in 0..(PpuCount - 1)
  BY LpuCounterAssumption DEF CounterTypeOK, Groups
<1> QED BY ONLY <1>1, r = CurrentRange(totalLpus, PpuCount, g), FirstOfIds DEF Share

LEMMA CounterInitInv == CounterInit => CounterInv
<1> SUFFICES ASSUME CounterInit PROVE CounterInv
  OBVIOUS
<1>1. NoRange \in [startId : Int, endId : Int] /\ INVALID_ID \in Int
  BY DEF NoRange, IdRange, INVALID_ID
<1>2. CounterTypeOK
  BY <1>1, LpuCounterAssumption DEF CounterInit, CounterTypeOK
<1>3. Progress
  BY DEF CounterInit, Progress
<1> QED BY <1>2, <1>3 DEF CounterInv

(* The state of the other PPUs' counters is not touched.                      *)
LEMMA OthersKeep ==
  ASSUME CounterInv, totalLpus' = totalLpus, NEW g \in Groups, NEW h \in Groups, g # h,
         phase'[h] = phase[h], currentRange'[h] = currentRange[h],
         currentLpuId'[h] = currentLpuId[h], visited'[h] = visited[h]
  PROVE  /\ phase'[h] = "idle"   => visited'[h] = {}
         /\ phase'[h] = "active" =>
              /\ currentRange'[h] = CurrentRange(totalLpus', PpuCount, h)
              /\ currentLpuId'[h] \in Share(h)'
              /\ visited'[h] = currentRange'[h].startId..currentLpuId'[h]
         /\ phase'[h] = "done"   => visited'[h] = Share(h)'
<1>1. Share(h)' = Share(h)
  BY DEF Share
<1> QED BY <1>1 DEF CounterInv, Progress

(* Either way a request ends, the PPU's progress is in order again.           *)
LEMMA TakeInv ==
  ASSUME CounterInv, NEW g \in Groups, NEW id, NEW r,
         Take(g, id, r), totalLpus' = totalLpus,
         r = CurrentRange(totalLpus, PpuCount, g),
         id # INVALID_ID => /\ id \in Share(g)
                            /\ visited[g] \cup {id} = r.startId..id,
         id = INVALID_ID => visited[g] = Share(g)
  PROVE  CounterInv'
<1> USE LpuCounterAssumption
<1>0. CounterTypeOK /\ Progress
  BY DEF CounterInv
<1>1. totalLpus \in Nat /\ g \in 0..(PpuCount - 1)
  BY <1>0 DEF CounterTypeOK, Groups
<1>2. Share(g)' = Share(g) /\ Share(g) \subseteq 0..(totalLpus - 1)
  <2>1. Share(g)' = Share(g)
    BY DEF Share
  <2>2. Share(g) = IdsOf(totalLpus, PpuCount, g)
    BY ShareIsIdsOf
  <2> QED BY <2>1, <2>2, <1>1, SharesAreIds
<1>3. r \in [startId : Int, endId : Int] /\ NoRange \in [startId : Int, endId : Int]
      /\ INVALID_ID \in Int
  BY <1>0, FirstOfShare DEF NoRange, IdRange, INVALID_ID
<1>4. CASE id # INVALID_ID
  <2>1. /\ phase'        = [phase EXCEPT ![g] = "active"]
        /\ currentRange' = [currentRange EXCEPT ![g] = r]
        /\ currentLpuId' = [currentLpuId EXCEPT ![g] = id]
        /\ visited'      = [visited EXCEPT ![g] = @ \cup {id}]
    BY <1>4 DEF Take
  <2>2. id \in Lpus /\ id \in Int
    BY <1>1, <1>2, <1>4 DEF Lpus
  <2>3. CounterTypeOK'
    <3>1. totalLpus' \in 0..MaxLpus
      BY <1>0 DEF CounterTypeOK
    <3>2. phase' \in [Groups -> {"idle", "active", "done"}]
      BY <1>0, <2>1 DEF CounterTypeOK
    <3>3. currentRange' \in [Groups -> [startId : Int, endId : Int]]
      BY <1>0, <1>3, <2>1 DEF CounterTypeOK
    <3>4. currentLpuId' \in [Groups -> Int]
      BY <1>0, <2>1, <2>2 DEF CounterTypeOK
    <3>5. Lpus' = Lpus
      BY DEF Lpus
    <3>6. visited' \in [Groups -> SUBSET Lpus]
      BY <1>0, <2>1, <2>2 DEF CounterTypeOK
    <3> QED BY <3>1, <3>2, <3>3, <3>4, <3>5, <3>6 DEF CounterTypeOK
  <2>4. Progress'
    <3>1. /\ phase'[g] = "active" /\ currentRange'[g] = r
          /\ currentLpuId'[g] = id /\ visited'[g] = visited[g] \cup {id}
      BY <1>0, <2>1 DEF CounterTypeOK
    <3>2. \A h \in Groups : g # h =>
            /\ phase'[h] = phase[h] /\ currentRange'[h] = currentRange[h]
            /\ currentLpuId'[h] = currentLpuId[h] /\ visited'[h] = visited[h]
      BY <1>0, <2>1 DEF CounterTypeOK
    <3> SUFFICES ASSUME NEW h \in Groups
                 PROVE  /\ phase'[h] = "idle"   => visited'[h] = {}
                        /\ phase'[h] = "active" =>
                             /\ currentRange'[h] = CurrentRange(totalLpus', PpuCount, h)
                             /\ currentLpuId'[h] \in Share(h)'
                             /\ visited'[h] = currentRange'[h].startId..currentLpuId'[h]
                        /\ phase'[h] = "done"   => visited'[h] = Share(h)'
      BY DEF Progress
    <3>3. CASE h = g
      BY <1>2, <1>4, <3>1, <3>3
    <3>4. CASE h # g
      BY <3>2, <3>4, OthersKeep
    <3> QED BY <3>3, <3>4
  <2> QED BY <2>3, <2>4 DEF CounterInv
<1>5. CASE id = INVALID_ID
  <2>1. /\ phase'        = [phase EXCEPT ![g] = "done"]
        /\ currentRange' = [currentRange EXCEPT ![g] = NoRange]
        /\ currentLpuId' = [currentLpuId EXCEPT ![g] = INVALID_ID]
        /\ visited' = visited
    BY <1>5 DEF Take
  <2>2. CounterTypeOK'
    <3>1. Lpus' = Lpus
      BY DEF Lpus
    <3> QED BY <1>0, <1>3, <2>1, <3>1 DEF CounterTypeOK
  <2>3. Progress'
    <3>1. phase'[g] = "done" /\ visited'[g] = visited[g]
      BY <1>0, <2>1 DEF CounterTypeOK
    <3>2. \A h \in Groups : g # h =>
            /\ phase'[h] = phase[h] /\ currentRange'[h] = currentRange[h]
            /\ currentLpuId'[h] = currentLpuId[h] /\ visited'[h] = visited[h]
      BY <1>0, <2>1 DEF CounterTypeOK
    <3> SUFFICES ASSUME NEW h \in Groups
                 PROVE  /\ phase'[h] = "idle"   => visited'[h] = {}
                        /\ phase'[h] = "active" =>
                             /\ currentRange'[h] = CurrentRange(totalLpus', PpuCount, h)
                             /\ currentLpuId'[h] \in Share(h)'
                             /\ visited'[h] = currentRange'[h].startId..currentLpuId'[h]
                        /\ phase'[h] = "done"   => visited'[h] = Share(h)'
      BY DEF Progress
    <3>3. CASE h = g
      BY <1>2, <1>5, <3>1, <3>3
    <3>4. CASE h # g
      BY <3>2, <3>4, OthersKeep
    <3> QED BY <3>3, <3>4
  <2> QED BY <2>2, <2>3 DEF CounterInv
<1> QED BY <1>4, <1>5

LEMMA StartInv == ASSUME CounterInv, NEW g \in Groups, Start(g) PROVE CounterInv'
<1> USE LpuCounterAssumption
<1> DEFINE r == CurrentRange(totalLpus, PpuCount, g)
           id == NextLpuId(r, INVALID_ID)
<1>1. phase[g] = "idle" /\ Take(g, id, r) /\ totalLpus' = totalLpus
  BY DEF Start
<1>2. id = r.startId
  BY DEF NextLpuId
<1>3. visited[g] = {} /\ CounterTypeOK
  BY <1>1 DEF CounterInv, Progress
<1>4. /\ r \in [startId : Int, endId : Int]
      /\ r.startId = INVALID_ID => Share(g) = {}
      /\ r.startId # INVALID_ID => r.startId \in Share(g)
  BY <1>3, FirstOfShare
<1>5. id # INVALID_ID => id \in Share(g) /\ visited[g] \cup {id} = r.startId..id
  BY <1>2, <1>3, <1>4
<1>6. id = INVALID_ID => visited[g] = Share(g)
  BY <1>2, <1>3, <1>4
<1> HIDE DEF r, id
<1>7. r = CurrentRange(totalLpus, PpuCount, g)
  BY DEF r
<1> QED BY <1>1, <1>5, <1>6, <1>7, TakeInv

LEMMA AdvanceInv == ASSUME CounterInv, NEW g \in Groups, Advance(g) PROVE CounterInv'
<1> USE LpuCounterAssumption
<1> DEFINE r == currentRange[g]
           previous == currentLpuId[g]
           id == NextLpuId(r, previous)
<1>1. phase[g] = "active" /\ Take(g, id, r) /\ totalLpus' = totalLpus
  BY DEF Advance
<1>2. /\ r = CurrentRange(totalLpus, PpuCount, g)
      /\ previous \in Share(g)
      /\ visited[g] = r.startId..previous
      /\ CounterTypeOK
  BY <1>1 DEF CounterInv, Progress
<1>3. /\ r \in [startId : Int, endId : Int]
      /\ Share(g) = r.startId..r.endId
      /\ r.startId # INVALID_ID
  BY <1>2, FirstOfShare
<1>4. previous \in Nat
  <2>1. totalLpus \in Nat /\ g \in 0..(PpuCount - 1)
    BY <1>2 DEF CounterTypeOK, Groups
  <2>2. Share(g) \subseteq 0..(totalLpus - 1)
    BY <2>1, ShareIsIdsOf, SharesAreIds
  <2> QED BY <1>2, <2>1, <2>2
<1>5. id = IF previous + 1 > r.endId THEN INVALID_ID ELSE previous + 1
  BY <1>4 DEF NextLpuId, INVALID_ID
<1> HIDE DEF r, previous, id
<1>6. id # INVALID_ID => id \in Share(g) /\ visited[g] \cup {id} = r.startId..id
  BY <1>2, <1>3, <1>4, <1>5
<1>7. id = INVALID_ID => visited[g] = Share(g)
  BY <1>2, <1>3, <1>4, <1>5 DEF INVALID_ID
<1> QED BY <1>1, <1>2, <1>6, <1>7, TakeInv

LEMMA CounterNextInv == CounterInv /\ [CounterNext]_counterVars => CounterInv'
<1> SUFFICES ASSUME CounterInv, [CounterNext]_counterVars PROVE CounterInv'
  OBVIOUS
<1>1. ASSUME NEW g \in Groups, Start(g) PROVE CounterInv'
  BY <1>1, StartInv
<1>2. ASSUME NEW g \in Groups, Advance(g) PROVE CounterInv'
  BY <1>2, AdvanceInv
<1>3. CASE UNCHANGED counterVars
  BY <1>3 DEF counterVars, CounterInv, CounterTypeOK, Progress, Share, Lpus
<1> QED BY <1>1, <1>2, <1>3 DEF CounterNext

(* Whatever the number of PPUs and of LPUs, a counter has visited its share   *)
(* up to where it stands.                                                     *)
THEOREM CounterInvariance == CounterSpec => []CounterInv
<1> QED BY CounterInitInv, CounterNextInv, PTL DEF CounterSpec

(* A PPU never visits anything but its share.                                 *)
LEMMA VisitsShare == ASSUME CounterInv, NEW g \in Groups PROVE visited[g] \subseteq Share(g)
<1>1. CounterTypeOK /\ Progress
  BY DEF CounterInv
<1>2. CASE phase[g] = "active"
  <2> DEFINE r == CurrentRange(totalLpus, PpuCount, g)
  <2>1. /\ currentLpuId[g] \in Share(g)
        /\ visited[g] = r.startId..currentLpuId[g]
    BY <1>1, <1>2 DEF Progress
  <2>2. /\ r \in [startId : Int, endId : Int]
        /\ Share(g) = r.startId..r.endId
    BY <1>1, <2>1, FirstOfShare
  <2> HIDE DEF r
  <2> QED BY <2>1, <2>2
<1>3. CASE phase[g] \in {"idle", "done"}
  BY <1>1, <1>3 DEF Progress
<1> QED BY <1>1, <1>2, <1>3 DEF CounterTypeOK

LEMMA InvDisjoint == CounterInv => NoIdTwice
<1> SUFFICES ASSUME CounterInv, NEW g \in Groups, NEW h \in Groups, g # h
             PROVE  visited[g] \cap visited[h] = {}
  BY DEF NoIdTwice
<1>1. totalLpus \in Nat /\ g \in 0..(PpuCount - 1) /\ h \in 0..(PpuCount - 1)
  BY LpuCounterAssumption DEF CounterInv, CounterTypeOK, Groups
<1>2. Share(g) \cap Share(h) = {}
  BY <1>1, ShareIsIdsOf, SharesDisjoint, LpuCounterAssumption
<1> QED BY <1>2, VisitsShare

LEMMA InvCovers == CounterInv => NoIdLeftOut
<1> SUFFICES ASSUME CounterInv, \A g \in Groups : phase[g] = "done"
             PROVE  UNION {visited[g] : g \in Groups} = Lpus
  BY DEF NoIdLeftOut
<1>1. totalLpus \in Nat /\ visited \in [Groups -> SUBSET Lpus]
  BY LpuCounterAssumption DEF CounterInv, CounterTypeOK
<1>2. ASSUME NEW i \in Lpus PROVE \E g \in Groups : i \in visited[g]
  <2>1. PICK g \in 0..(PpuCount - 1) : i \in IdsOf(totalLpus, PpuCount, g)
    BY <1>1, SharesCover, LpuCounterAssumption DEF Lpus
  <2>2. g \in Groups
    BY DEF Groups
  <2>3. visited[g] = Share(g)
    BY <2>2 DEF CounterInv, Progress
  <2> QED BY <2>1, <2>2, <2>3, ShareIsIdsOf
<1> QED BY <1>1, <1>2

(* setCurrentRange and getNextLpuId share the LPUs out: for every number of   *)
(* PPUs and of LPUs no LPU is executed by two PPU groups, and none is         *)
(* forgotten once all the counters have run out.                              *)
THEOREM LpusSharedOut == CounterSpec => []SharedOut
<1>1. CounterInv => SharedOut
  BY InvDisjoint, InvCovers DEF SharedOut
<1> QED BY <1>1, CounterInvariance, PTL

-----------------------------------------------------------------------------
(* Linear and composite ids.  The recursive definitions of LpuRanges are what  *)
(* their equations say, since a function that satisfies them exists            *)
(* (RecursionExists) and no two differ (AgreeUpTo).                            *)

\* The product that setCurrentRange begins with, a recursion over the dimensions.
LEMMA TotalIs ==
  ASSUME NEW n \in Nat, NEW c \in [1..n -> Nat]
  PROVE  \E total \in [0..n -> Nat] :
           /\ TotalLpus(c) = total[n] /\ total[0] = 1
           /\ \A i \in 1..n : total[i] = total[i - 1] * c[i]
<1> DEFINE Eqn(t) == t = [i \in 0..n |-> IF i = 0 THEN 1 ELSE t[i - 1] * c[i]]
           t == CHOOSE x : Eqn(x)
<1>3. PICK G \in [1..n -> [Nat -> Nat]] : \A i \in 1..n, v \in Nat : G[i][v] = v * c[i]
  <2> DEFINE G == [i \in 1..n |-> [v \in Nat |-> v * c[i]]]
  <2>1. G \in [1..n -> [Nat -> Nat]]
    OBVIOUS
  <2>2. \A i \in 1..n, v \in Nat : G[i][v] = v * c[i]
    OBVIOUS
  <2> HIDE DEF G
  <2> QED BY <2>1, <2>2
<1>4. PICK f \in [0..n -> Nat] : IsRecursion(f, n, 1, G)
  <2>1. 1 \in Nat
    OBVIOUS
  <2> QED BY ONLY n \in Nat, <1>3, <2>1, RecursionExists
<1>5. ASSUME NEW i \in 1..n
      PROVE  f[i] = f[i - 1] * c[i]
  <2>1. i - 1 \in 0..n
    OBVIOUS
  <2>2. f[i - 1] \in Nat
    BY ONLY <1>4, <2>1
  <2> QED BY ONLY <1>3, <1>4, <2>2, i \in 1..n DEF IsRecursion
<1>6. f[0] = 1
  BY <1>4 DEF IsRecursion
<1>7. Eqn(f)
  BY <1>4, <1>5, <1>6
<1>8. Eqn(t)
  <2> HIDE DEF Eqn
  <2> QED BY <1>7
<1>9. TotalLpus(c) = t[n]
  <2>1. Len(c) = n
    OBVIOUS
  <2> QED BY <2>1 DEF TotalLpus
<1>10. t = [i \in 0..n |-> IF i = 0 THEN 1 ELSE t[i - 1] * c[i]]
  BY <1>8
<1>11. t[n] = f[n]
  <2> HIDE DEF t
  <2>1. t[0] = f[0]
    BY <1>6, <1>10
  <2>2. ASSUME NEW i \in 1..n, t[i - 1] = f[i - 1]
        PROVE  t[i] = f[i]
    <3>1. i \in 0..n /\ i # 0
      OBVIOUS
    <3>2. t[i] = t[i - 1] * c[i]
      BY ONLY <3>1, <1>10
    <3> QED BY <1>5, <2>2, <3>2
  <2>3. AgreeStepwise(t, f, n)
    BY <2>1, <2>2 DEF AgreeStepwise
  <2>4. Agree(t, f, n)
    BY ONLY n \in Nat, <2>3, AgreeUpTo
  <2> QED BY <2>4 DEF Agree
<1> HIDE DEF Eqn, t
<1> QED BY <1>4, <1>5, <1>6, <1>9, <1>11

Pos == Nat \ {0}

LEMMA PositiveProduct ==
  ASSUME NEW a \in Pos, NEW b \in Pos
  PROVE  a * b \in Pos
  BY DEF Pos

\* LpusUnderDimensions, a recursion from the last dimension to the first.
LEMMA UnderIs ==
  ASSUME NEW n \in Nat \ {0}, NEW c \in [1..n -> Pos]
  PROVE  \E under \in [1..n -> Pos] :
           /\ LpusUnderDimensions(c) = under /\ under[n] = 1
           /\ \A i \in 1..(n - 1) : under[i] = c[i + 1] * under[i + 1]
<1> DEFINE Eqn(u) == u = [i \in 1..n |-> IF i = n THEN 1 ELSE c[i + 1] * u[i + 1]]
           u == CHOOSE x : Eqn(x)
<1>1. PICK m \in Nat : n = m + 1
  <2>1. n - 1 \in Nat /\ n = (n - 1) + 1
    OBVIOUS
  <2> QED BY <2>1
<1>2. PICK G \in [1..m -> [Pos -> Pos]] :
        \A k \in 1..m, v \in Pos : G[k][v] = c[n - k + 1] * v
  <2> DEFINE G == [k \in 1..m |-> [v \in Pos |-> c[n - k + 1] * v]]
  <2>1. ASSUME NEW k \in 1..m, NEW v \in Pos
        PROVE  c[n - k + 1] * v \in Pos
    <3>1. n - k + 1 \in 1..n
      BY <1>1
    <3>2. c[n - k + 1] \in Pos
      BY <3>1
    <3> QED BY <3>2, PositiveProduct
  <2>2. G \in [1..m -> [Pos -> Pos]]
    BY <2>1
  <2>3. \A k \in 1..m, v \in Pos : G[k][v] = c[n - k + 1] * v
    OBVIOUS
  <2> HIDE DEF G
  <2> QED BY <2>2, <2>3
<1>3. PICK f \in [0..m -> Pos] : IsRecursion(f, m, 1, G)
  <2>1. 1 \in Pos
    BY DEF Pos
  <2> QED BY ONLY <1>1, <1>2, <2>1, RecursionExists
<1> DEFINE w == [i \in 1..n |-> f[n - i]]
<1>4. ASSUME NEW i \in 1..n
      PROVE  w[i] = f[n - i] /\ w[i] \in Pos
  <2>1. n - i \in 0..m
    BY <1>1
  <2> QED BY <1>3, <2>1
<1>5. ASSUME NEW i \in 1..(n - 1)
      PROVE  w[i] = c[i + 1] * w[i + 1]
  <2>1. n - i \in 1..m /\ (n - i) - 1 \in 0..m /\ (n - i) - 1 = n - (i + 1)
    BY <1>1
  <2>2. n - (n - i) + 1 = i + 1 /\ i \in 1..n /\ i + 1 \in 1..n
    OBVIOUS
  <2>3. f[n - i] = G[n - i][f[(n - i) - 1]]
    BY ONLY <1>3, <2>1 DEF IsRecursion
  <2>4. f[(n - i) - 1] \in Pos
    BY ONLY <1>3, <2>1
  <2>5. f[n - i] = c[n - (n - i) + 1] * f[(n - i) - 1]
    BY ONLY <1>2, <2>1, <2>3, <2>4
  <2>6. f[n - i] = c[i + 1] * f[n - (i + 1)]
    BY ONLY <2>1, <2>2, <2>5
  <2> QED BY <2>2, <2>6
<1>6. w[n] = 1
  <2>1. n - n = 0 /\ n \in 1..n
    OBVIOUS
  <2> QED BY <1>3, <2>1 DEF IsRecursion
<1>7. w \in [1..n -> Pos]
  BY <1>4
<1>8. Eqn(w)
  <2> HIDE DEF w
  <2>1. \A i \in 1..n : i # n => i \in 1..(n - 1)
    OBVIOUS
  <2> QED BY <1>5, <1>6, <1>7, <2>1
<1>9. Eqn(u)
  <2> HIDE DEF Eqn, w
  <2> QED BY <1>8
<1>10. LpusUnderDimensions(c) = u
  <2>1. Len(c) = n
    OBVIOUS
  <2> QED BY <2>1 DEF LpusUnderDimensions
<1>11. u = [i \in 1..n |-> IF i = n THEN 1 ELSE c[i + 1] * u[i + 1]]
  BY <1>9
<1> HIDE DEF u, w, Eqn
<1>12. \A k \in 0..m : [j \in 0..m |-> u[n - j]][k] = [j \in 0..m |-> w[n - j]][k]
  <2> DEFINE a == [j \in 0..m |-> u[n - j]]
             b == [j \in 0..m |-> w[n - j]]
  <2>1. a[0] = b[0]
    <3>1. n - 0 = n /\ n \in 1..n /\ 0 \in 0..m
      BY <1>1
    <3> QED BY <1>6, <1>11, <3>1
  <2>2. ASSUME NEW k \in 1..m, a[k - 1] = b[k - 1]
        PROVE  a[k] = b[k]
    <3>1. /\ k \in 0..m /\ k - 1 \in 0..m
          /\ n - (k - 1) = (n - k) + 1
          /\ n - k \in 1..(n - 1) /\ n - k \in 1..n /\ n - k # n
      BY <1>1
    <3>2. u[n - k] = c[(n - k) + 1] * u[(n - k) + 1]
      BY ONLY <1>11, <3>1
    <3>3. w[n - k] = c[(n - k) + 1] * w[(n - k) + 1]
      BY ONLY <1>5, <3>1
    <3>4. u[(n - k) + 1] = w[(n - k) + 1]
      BY ONLY <2>2, <3>1
    <3> QED BY <3>1, <3>2, <3>3, <3>4
  <2> HIDE DEF a, b
  <2>3. AgreeStepwise(a, b, m)
    BY <2>1, <2>2 DEF AgreeStepwise
  <2>4. Agree(a, b, m)
    BY ONLY <1>1, <2>3, AgreeUpTo
  <2> QED BY <2>4 DEF a, b, Agree
<1>13. ASSUME NEW i \in 1..n
       PROVE  u[i] = w[i]
  <2>1. n - i \in 0..m /\ n - (n - i) = i
    BY <1>1
  <2> QED BY <1>12, <2>1
<1>14. u = w
  BY ONLY <1>7, <1>11, <1>13
<1> QED BY <1>5, <1>6, <1>7, <1>10, <1>14

\* The remainders of setCurrentCompositeLpuId, and the components they give.
IsRemaining(r, n, c, u, id) ==
  /\ r[1] = id
  /\ \A i \in 1..(n - 1) : r[i + 1] = r[i] % u[i]
  /\ CompositeLpuId(c, id) = [i \in 1..n |-> IF i = n THEN r[n] ELSE r[i] \div u[i]]

LEMMA RemainingIs ==
  ASSUME NEW n \in Nat \ {0}, NEW c \in [1..n -> Pos], NEW u \in [1..n -> Pos],
         u = LpusUnderDimensions(c), NEW id \in Nat
  PROVE  \E r \in [1..n -> Nat] : IsRemaining(r, n, c, u, id)
<1> DEFINE Eqn(r) == r = [i \in 1..n |-> IF i = 1 THEN id ELSE r[i - 1] % u[i - 1]]
           r == CHOOSE x : Eqn(x)
<1>1. PICK m \in Nat : n = m + 1
  <2>1. n - 1 \in Nat /\ n = (n - 1) + 1
    OBVIOUS
  <2> QED BY <2>1
<1>2. PICK G \in [1..m -> [Nat -> Nat]] : \A k \in 1..m, v \in Nat : G[k][v] = v % u[k]
  <2> DEFINE G == [k \in 1..m |-> [v \in Nat |-> v % u[k]]]
  <2>1. ASSUME NEW k \in 1..m, NEW v \in Nat
        PROVE  v % u[k] \in Nat
    <3>1. u[k] \in Nat \ {0}
      BY <1>1 DEF Pos
    <3> QED BY <3>1
  <2>2. G \in [1..m -> [Nat -> Nat]]
    BY <2>1
  <2>3. \A k \in 1..m, v \in Nat : G[k][v] = v % u[k]
    OBVIOUS
  <2> HIDE DEF G
  <2> QED BY <2>2, <2>3
<1>3. PICK f \in [0..m -> Nat] : IsRecursion(f, m, id, G)
  BY ONLY id \in Nat, <1>1, <1>2, RecursionExists
<1> DEFINE w == [i \in 1..n |-> f[i - 1]]
<1>4. ASSUME NEW i \in 1..n
      PROVE  w[i] = f[i - 1] /\ w[i] \in Nat
  <2>1. i - 1 \in 0..m
    BY <1>1
  <2> QED BY <1>3, <2>1
<1>5. ASSUME NEW i \in 1..m
      PROVE  w[i + 1] = w[i] % u[i]
  <2>1. i - 1 \in 0..m /\ i \in 1..n /\ i + 1 \in 1..n /\ (i + 1) - 1 = i
    BY <1>1
  <2>2. f[i] = G[i][f[i - 1]]
    BY ONLY <1>3, i \in 1..m DEF IsRecursion
  <2>3. f[i - 1] \in Nat
    BY ONLY <1>3, <2>1
  <2>4. f[i] = f[i - 1] % u[i]
    BY ONLY <1>2, <2>2, <2>3, i \in 1..m
  <2>5. w[i + 1] = f[i] /\ w[i] = f[i - 1]
    BY <2>1
  <2> HIDE DEF w
  <2> QED BY ONLY <2>4, <2>5
<1>6. w[1] = id
  <2>1. 1 \in 1..n /\ 1 - 1 = 0
    OBVIOUS
  <2> QED BY <1>3, <2>1 DEF IsRecursion
<1>7. w \in [1..n -> Nat]
  BY <1>4
<1>8. Eqn(w)
  <2> HIDE DEF w
  <2>1. ASSUME NEW i \in 1..n, i # 1
        PROVE  w[i] = w[i - 1] % u[i - 1]
    <3>1. i - 1 \in 1..m /\ (i - 1) + 1 = i
      BY <1>1, <2>1
    <3> QED BY <1>5, <3>1
  <2> QED BY <1>6, <1>7, <2>1
<1>9. Eqn(r)
  <2> HIDE DEF Eqn, w
  <2> QED BY <1>8
<1>10. CompositeLpuId(c, id) = [i \in 1..n |-> IF i = n THEN r[n] ELSE r[i] \div u[i]]
  <2>1. Len(c) = n
    OBVIOUS
  <2> QED BY <2>1 DEF CompositeLpuId
<1>11. r = [i \in 1..n |-> IF i = 1 THEN id ELSE r[i - 1] % u[i - 1]]
  BY <1>9
<1> HIDE DEF r, w, Eqn
<1>12. Agree([j \in 0..m |-> r[j + 1]], [j \in 0..m |-> w[j + 1]], m)
  <2> DEFINE a == [j \in 0..m |-> r[j + 1]]
             b == [j \in 0..m |-> w[j + 1]]
  <2>1. a[0] = b[0]
    <3>1. 0 + 1 = 1 /\ 1 \in 1..n /\ 0 \in 0..m
      BY <1>1
    <3> QED BY <1>6, <1>11, <3>1
  <2>2. ASSUME NEW k \in 1..m, a[k - 1] = b[k - 1]
        PROVE  a[k] = b[k]
    <3>1. /\ k \in 0..m /\ k - 1 \in 0..m
          /\ (k - 1) + 1 = k /\ (k + 1) - 1 = k
          /\ k + 1 \in 1..n /\ k + 1 # 1
      BY <1>1
    <3>2. r[k + 1] = r[k] % u[k]
      BY ONLY <1>11, <3>1
    <3>3. r[k] = w[k]
      BY ONLY <2>2, <3>1
    <3> QED BY <1>5, <3>1, <3>2, <3>3
  <2> HIDE DEF a, b
  <2>3. AgreeStepwise(a, b, m)
    BY <2>1, <2>2 DEF AgreeStepwise
  <2>4. Agree(a, b, m)
    BY ONLY <1>1, <2>3, AgreeUpTo
  <2> QED BY <2>4 DEF a, b
<1>13. ASSUME NEW i \in 1..n
       PROVE  r[i] = w[i]
  <2>1. i - 1 \in 0..m /\ (i - 1) + 1 = i
    BY <1>1
  <2> QED BY <1>12, <2>1 DEF Agree
<1>14. r = w
  BY ONLY <1>7, <1>11, <1>13
<1>15. \A i \in 1..(n - 1) : w[i + 1] = w[i] % u[i]
  BY <1>1, <1>5
<1> QED BY <1>6, <1>7, <1>10, <1>14, <1>15 DEF IsRemaining

\* The recursion of RowMajor.
LEMMA PlaceIs ==
  ASSUME NEW n \in Nat, NEW c \in [1..n -> Nat], NEW d \in [1..n -> Nat]
  PROVE  \E place \in [0..n -> Nat] :
           /\ RowMajor(c, d) = place[n] /\ place[0] = 0
           /\ \A i \in 1..n : place[i] = place[i - 1] * c[i] + d[i]
<1> DEFINE Eqn(t) == t = [i \in 0..n |-> IF i = 0 THEN 0 ELSE t[i - 1] * c[i] + d[i]]
           t == CHOOSE x : Eqn(x)
<1>3. PICK G \in [1..n -> [Nat -> Nat]] : \A i \in 1..n, v \in Nat : G[i][v] = v * c[i] + d[i]
  <2> DEFINE G == [i \in 1..n |-> [v \in Nat |-> v * c[i] + d[i]]]
  <2>0. ASSUME NEW i \in 1..n, NEW v \in Nat
        PROVE  v * c[i] + d[i] \in Nat
    <3>1. c[i] \in Nat /\ d[i] \in Nat
      OBVIOUS
    <3>2. v * c[i] \in Nat
      BY ONLY <3>1, v \in Nat, Product
    <3> QED BY <3>1, <3>2
  <2>1. G \in [1..n -> [Nat -> Nat]]
    BY <2>0
  <2>2. \A i \in 1..n, v \in Nat : G[i][v] = v * c[i] + d[i]
    OBVIOUS
  <2> HIDE DEF G
  <2> QED BY <2>1, <2>2
<1>4. PICK f \in [0..n -> Nat] : IsRecursion(f, n, 0, G)
  <2>1. 0 \in Nat
    OBVIOUS
  <2> QED BY ONLY n \in Nat, <1>3, <2>1, RecursionExists
<1>5. ASSUME NEW i \in 1..n
      PROVE  f[i] = f[i - 1] * c[i] + d[i]
  <2>1. i - 1 \in 0..n
    OBVIOUS
  <2>2. f[i - 1] \in Nat
    BY ONLY <1>4, <2>1
  <2> QED BY ONLY <1>3, <1>4, <2>2, i \in 1..n DEF IsRecursion
<1>6. f[0] = 0
  BY <1>4 DEF IsRecursion
<1>7. Eqn(f)
  BY <1>4, <1>5, <1>6
<1>8. Eqn(t)
  <2> HIDE DEF Eqn
  <2> QED BY <1>7
<1>9. RowMajor(c, d) = t[n]
  <2>1. Len(c) = n
    OBVIOUS
  <2> QED BY <2>1 DEF RowMajor
<1>10. t = [i \in 0..n |-> IF i = 0 THEN 0 ELSE t[i - 1] * c[i] + d[i]]
  BY <1>8
<1>11. t[n] = f[n]
  <2> HIDE DEF t
  <2>1. t[0] = f[0]
    BY <1>6, <1>10
  <2>2. ASSUME NEW i \in 1..n, t[i - 1] = f[i - 1]
        PROVE  t[i] = f[i]
    <3>1. i \in 0..n /\ i # 0
      OBVIOUS
    <3>2. t[i] = t[i - 1] * c[i] + d[i]
      BY ONLY <3>1, <1>10
    <3> QED BY <1>5, <2>2, <3>2
  <2>3. AgreeStepwise(t, f, n)
    BY <2>1, <2>2 DEF AgreeStepwise
  <2>4. Agree(t, f, n)
    BY ONLY n \in Nat, <2>3, AgreeUpTo
  <2> QED BY <2>4 DEF Agree
<1> HIDE DEF Eqn, t
<1> QED BY <1>4, <1>5, <1>6, <1>9, <1>11

\* No dimension of an LPS that has LPUs is empty.
LEMMA CountsPositive ==
  ASSUME NEW n \in Nat, NEW c \in [1..n -> Nat], TotalLpus(c) # 0
  PROVE  c \in [1..n -> Pos]
<1>1. PICK total \in [0..n -> Nat] :
        /\ TotalLpus(c) = total[n]
        /\ \A i \in 1..n : total[i] = total[i - 1] * c[i]
  BY TotalIs
<1> DEFINE S == {k \in Nat : k <= n => total[n - k] # 0}
<1>2. 0 \in S
  <2>1. n - 0 = n
    OBVIOUS
  <2> QED BY <1>1, <2>1
<1>3. ASSUME NEW k \in Nat, k \in S
      PROVE  k + 1 \in S
  <2> SUFFICES ASSUME k + 1 <= n PROVE total[n - (k + 1)] # 0
    OBVIOUS
  <2>1. n - k \in 1..n /\ (n - k) - 1 = n - (k + 1)
    OBVIOUS
  <2>2. total[n - k] = total[n - (k + 1)] * c[n - k]
    BY <1>1, <2>1
  <2>3. total[n - k] # 0
    BY <1>3
  <2>4. c[n - k] \in Nat
    BY <2>1
  <2> QED BY ONLY <2>2, <2>3, <2>4
<1>4. Nat \subseteq S
  <2> HIDE DEF S
  <2> QED BY <1>2, <1>3, Induction
<1>5. ASSUME NEW i \in 1..n
      PROVE  c[i] # 0
  <2>0. n - i \in Nat /\ n - i <= n /\ n - (n - i) = i
    OBVIOUS
  <2>1. n - i \in S
    BY <1>4, <2>0
  <2>2. total[i] # 0
    BY <2>0, <2>1
  <2>3. i - 1 \in 0..n
    OBVIOUS
  <2>4. total[i - 1] \in Nat
    BY <1>1, <2>3
  <2>5. total[i] = total[i - 1] * c[i]
    BY <1>1
  <2> QED BY ONLY <2>2, <2>4, <2>5
<1> QED BY <1>5 DEF Pos

\* An LPU is in the part of the first dimension that its first component names.
LEMMA TotalSplits ==
  ASSUME NEW n \in Nat \ {0}, NEW c \in [1..n -> Pos], NEW u \in [1..n -> Pos],
         u = LpusUnderDimensions(c)
  PROVE  TotalLpus(c) = c[1] * u[1]
<1>1. PICK m \in Nat : n = m + 1
  <2>1. n - 1 \in Nat /\ n = (n - 1) + 1
    OBVIOUS
  <2> QED BY <2>1
<1>2. c \in [1..n -> Nat] /\ n \in Nat
  BY DEF Pos
<1>3. PICK total \in [0..n -> Nat] :
        /\ TotalLpus(c) = total[n] /\ total[0] = 1
        /\ \A i \in 1..n : total[i] = total[i - 1] * c[i]
  BY <1>2, TotalIs
<1>4. u[n] = 1 /\ \A i \in 1..(n - 1) : u[i] = c[i + 1] * u[i + 1]
  BY UnderIs
<1> DEFINE a == [j \in 0..m |-> total[j + 1] * u[j + 1]]
           b == [j \in 0..m |-> c[1] * u[1]]
<1>5. a[0] = b[0]
  <2>1. 0 + 1 = 1 /\ 1 - 1 = 0 /\ 1 \in 1..n /\ 0 \in 0..m
    BY <1>1
  <2>2. total[1] = 1 * c[1] /\ c[1] \in Nat /\ u[1] \in Nat
    BY <1>2, <1>3, <2>1 DEF Pos
  <2>3. total[1] = c[1]
    BY ONLY <2>2
  <2> QED BY <2>1, <2>3
<1>6. ASSUME NEW k \in 1..m, a[k - 1] = b[k - 1]
      PROVE  a[k] = b[k]
  <2>1. /\ k \in 0..m /\ k - 1 \in 0..m /\ (k - 1) + 1 = k
        /\ k \in 1..(n - 1) /\ k \in 1..n /\ k + 1 \in 1..n /\ (k + 1) - 1 = k
        /\ k \in 0..n
    BY <1>1
  <2>2. total[k + 1] = total[k] * c[k + 1]
    BY ONLY <1>3, <2>1
  <2>3. u[k] = c[k + 1] * u[k + 1]
    BY ONLY <1>4, <2>1
  <2>4. total[k] \in Nat /\ c[k + 1] \in Nat /\ u[k + 1] \in Nat
    BY <1>2, <1>3, <2>1 DEF Pos
  <2>5. (total[k] * c[k + 1]) * u[k + 1] = total[k] * (c[k + 1] * u[k + 1])
    BY ONLY <2>4
  <2>6. total[k] * u[k] = c[1] * u[1]
    BY ONLY <1>6, <2>1
  <2> QED BY ONLY <2>1, <2>2, <2>3, <2>5, <2>6
<1> HIDE DEF a, b
<1>7. Agree(a, b, m)
  <2>1. AgreeStepwise(a, b, m)
    BY <1>5, <1>6 DEF AgreeStepwise
  <2> QED BY ONLY <1>1, <2>1, AgreeUpTo
<1>8. total[n] * u[n] = c[1] * u[1]
  <2>1. m \in 0..m
    BY <1>1
  <2>2. a[m] = b[m]
    BY <1>7, <2>1 DEF Agree
  <2> QED BY <1>1, <2>1, <2>2 DEF a, b
<1>9. total[n] \in Nat
  BY <1>3
<1> QED BY ONLY <1>3, <1>4, <1>8, <1>9

\* A remainder stays below the LPUs that share the components so far.
LEMMA RemainderBelow ==
  ASSUME NEW n \in Nat \ {0}, NEW c \in [1..n -> Pos], NEW u \in [1..n -> Pos],
         \A i \in 1..(n - 1) : u[i] = c[i + 1] * u[i + 1],
         NEW r \in [1..n -> Nat], \A i \in 1..(n - 1) : r[i + 1] = r[i] % u[i],
         r[1] < c[1] * u[1]
  PROVE  \A i \in 1..n : r[i] < c[i] * u[i]
<1>1. ASSUME NEW i \in 1..n, i # 1
      PROVE  r[i] < c[i] * u[i]
  <2>1. PICK k \in 1..(n - 1) : i = k + 1
    <3>1. i - 1 \in 1..(n - 1) /\ i = (i - 1) + 1
      BY <1>1
    <3> QED BY <3>1
  <2>2. r[i] = r[k] % u[k] /\ u[k] = c[i] * u[i]
    BY <2>1
  <2>3. k \in 1..n
    OBVIOUS
  <2>4. r[k] \in Nat /\ u[k] \in Nat \ {0}
    BY <2>3 DEF Pos
  <2>5. r[k] % u[k] < u[k]
    BY ONLY <2>4
  <2> QED BY ONLY <2>2, <2>5
<1> QED BY <1>1

\* Each component is below the LPU count of its dimension, and the quotients and the
\* remainders together are the linear id.
LEMMA IdsOfLpu ==
  ASSUME NEW n \in Nat \ {0}, NEW c \in [1..n -> Nat], NEW id \in 0..(TotalLpus(c) - 1)
  PROVE  /\ CompositeLpuId(c, id) \in [1..n -> Nat]
         /\ \A i \in 1..n : CompositeLpuId(c, id)[i] \in 0..(c[i] - 1)
         /\ RowMajor(c, CompositeLpuId(c, id)) = id
<1>1. TotalLpus(c) \in Nat
  BY TotalIs
<1>2. TotalLpus(c) # 0 /\ id \in Nat
  BY <1>1
<1>3. c \in [1..n -> Pos]
  BY <1>2, CountsPositive
<1>4. PICK u \in [1..n -> Pos] :
        /\ LpusUnderDimensions(c) = u /\ u[n] = 1
        /\ \A i \in 1..(n - 1) : u[i] = c[i + 1] * u[i + 1]
  BY <1>3, UnderIs
<1>0. PICK r \in [1..n -> Nat] : IsRemaining(r, n, c, u, id)
  <2>1. u = LpusUnderDimensions(c)
    BY <1>4
  <2> QED BY ONLY n \in Nat \ {0}, <1>2, <1>3, u \in [1..n -> Pos], <2>1, RemainingIs
<1>5. /\ r[1] = id
      /\ \A i \in 1..(n - 1) : r[i + 1] = r[i] % u[i]
      /\ CompositeLpuId(c, id) = [i \in 1..n |-> IF i = n THEN r[n] ELSE r[i] \div u[i]]
  BY <1>0 DEF IsRemaining
<1>6. PICK d : d = CompositeLpuId(c, id)
  OBVIOUS
<1>7. r[1] < c[1] * u[1]
  <2>1. TotalLpus(c) = c[1] * u[1]
    BY <1>3, <1>4, TotalSplits
  <2> QED BY <1>1, <1>5, <2>1
<1>8. ASSUME NEW i \in 1..n
      PROVE  /\ u[i] \in Nat \ {0} /\ r[i] \in Nat /\ c[i] \in Nat \ {0}
             /\ d[i] = r[i] \div u[i]
  <2>1. u[i] \in Nat \ {0} /\ r[i] \in Nat /\ c[i] \in Nat \ {0}
    BY <1>3, <1>4, <1>5 DEF Pos
  <2>2. CASE i # n
    BY <1>5, <1>6, <2>1, <2>2
  <2>3. CASE i = n
    <3>1. d[i] = r[i] /\ u[i] = 1
      BY <1>4, <1>5, <1>6, <2>3
    <3> QED BY ONLY <2>1, <3>1
  <2> QED BY <2>2, <2>3
<1>9. ASSUME NEW i \in 1..n
      PROVE  d[i] \in 0..(c[i] - 1)
  <2>1. r[i] < c[i] * u[i]
    BY <1>3, <1>4, <1>5, <1>7, RemainderBelow
  <2>2. PICK x, y, z : x = r[i] /\ y = u[i] /\ z = c[i]
    OBVIOUS
  <2>3. x \in Nat /\ y \in Nat \ {0} /\ z \in Nat \ {0} /\ x < z * y
    BY <1>8, <2>1, <2>2
  <2>4. x \div y < z /\ x \div y \in Nat
    <3>1. z * y = y * z /\ z \in Nat
      BY ONLY <2>3
    <3>2. x < y * z
      BY ONLY <2>3, <3>1
    <3>3. x \div y < z
      BY ONLY <2>3, <3>1, <3>2, QuotientBelow
    <3> QED BY ONLY <2>3, <3>3, Division
  <2> QED BY <1>8, <2>2, <2>3, <2>4
<1>10. d \in [1..n -> Nat]
  <2>1. d = [i \in 1..n |-> d[i]]
    BY <1>5, <1>6
  <2>2. \A i \in 1..n : d[i] \in Nat
    BY <1>8, <1>9
  <2> QED BY ONLY <2>1, <2>2
<1>11. PICK place \in [0..n -> Nat] :
         /\ RowMajor(c, d) = place[n] /\ place[0] = 0
         /\ \A i \in 1..n : place[i] = place[i - 1] * c[i] + d[i]
  BY <1>10, PlaceIs
<1> DEFINE S == {k \in Nat : k + 1 <= n =>
                   place[k + 1] * u[k + 1] + (r[k + 1] % u[k + 1]) = id}
<1>12. 0 \in S
  <2>1. 0 + 1 = 1 /\ 1 - 1 = 0 /\ 1 \in 1..n
    OBVIOUS
  <2>2. place[1] = 0 * c[1] + d[1]
    BY ONLY <1>11, <2>1
  <2>3. PICK x, y, z : x = r[1] /\ y = u[1] /\ z = c[1]
    OBVIOUS
  <2>4. x \in Nat /\ y \in Nat \ {0} /\ z \in Nat /\ d[1] = x \div y
    BY <1>8, <2>1, <2>3
  <2>5. place[1] = x \div y
    BY ONLY <2>2, <2>3, <2>4
  <2>6. (x \div y) * y + (x % y) = x
    BY ONLY <2>4
  <2> QED BY <1>5, <2>1, <2>3, <2>5, <2>6
<1>13. ASSUME NEW k \in Nat, k \in S
       PROVE  k + 1 \in S
  <2> SUFFICES ASSUME (k + 1) + 1 <= n
               PROVE  place[(k + 1) + 1] * u[(k + 1) + 1] + (r[(k + 1) + 1] % u[(k + 1) + 1]) = id
    OBVIOUS
  <2>1. PICK i \in 1..(n - 1) : i = k + 1
    OBVIOUS
  <2>2. i \in 1..n /\ i + 1 \in 1..n /\ (i + 1) - 1 = i
    OBVIOUS
  <2>3. place[i] * u[i] + (r[i] % u[i]) = id
    BY <1>13, <2>1
  <2>4. place[i + 1] = place[i] * c[i + 1] + d[i + 1]
    BY ONLY <1>11, <2>2
  <2>5. u[i] = c[i + 1] * u[i + 1] /\ r[i + 1] = r[i] % u[i]
    BY <1>4, <1>5
  <2>6. PICK p, x, y, z : p = place[i] /\ x = r[i + 1] /\ y = u[i + 1] /\ z = c[i + 1]
    OBVIOUS
  <2>7. /\ x \in Nat /\ y \in Nat \ {0} /\ z \in Nat /\ p \in Nat
        /\ d[i + 1] = x \div y
    BY <1>8, <1>11, <2>2, <2>6
  <2>8. p * (z * y) + x = id
    BY ONLY <2>3, <2>5, <2>6
  <2>9. x = (x \div y) * y + (x % y) /\ x \div y \in Nat /\ x % y \in Nat
    <3>1. x \div y \in Nat /\ x % y \in 0..(y - 1) /\ x = (y * (x \div y)) + (x % y)
      BY ONLY <2>7, Division
    <3>2. x % y \in Nat
      BY ONLY <2>7, <3>1
    <3>3. PICK q \in Nat : q = x \div y
      BY ONLY <3>1
    <3>4. y * q = q * y
      BY ONLY <2>7, <3>3
    <3> QED BY ONLY <3>1, <3>2, <3>3, <3>4
  <2>10. (p * z + (x \div y)) * y = p * (z * y) + (x \div y) * y
    <3>1. PICK q \in Nat : q = x \div y
      BY ONLY <2>9
    <3>2. (p * z + q) * y = (p * z) * y + q * y
      <4>1. PICK w \in Nat : w = p * z
        BY ONLY <2>7, Product
      <4>2. (w + q) * y = w * y + q * y
        BY ONLY <2>7, w \in Nat, q \in Nat
      <4> QED BY ONLY <4>1, <4>2
    <3>3. (p * z) * y = p * (z * y)
      BY ONLY <2>7
    <3> QED BY ONLY <3>1, <3>2, <3>3
  <2>11. p * (z * y) \in Nat /\ (x \div y) * y \in Nat
    BY ONLY <2>7, <2>9
  <2>12. (p * z + (x \div y)) * y + (x % y) = id
    BY ONLY <2>8, <2>9, <2>10, <2>11
  <2>13. place[i + 1] = p * z + (x \div y)
    BY ONLY <2>4, <2>6, <2>7
  <2> QED BY <2>1, <2>6, <2>12, <2>13
<1>14. place[n] * u[n] + (r[n] % u[n]) = id
  <2>1. Nat \subseteq S
    <3> HIDE DEF S
    <3> QED BY <1>12, <1>13, Induction
  <2>2. n - 1 \in Nat /\ (n - 1) + 1 = n
    OBVIOUS
  <2>3. n - 1 \in S
    BY <2>1, <2>2
  <2> QED BY <2>2, <2>3
<1>15. place[n] = id
  <2>1. place[n] \in Nat /\ r[n] \in Nat /\ u[n] = 1
    BY <1>4, <1>5, <1>11
  <2> QED BY ONLY <1>14, <2>1
<1> QED BY <1>6, <1>9, <1>10, <1>11, <1>15
\* setCurrentCompositeLpuId, for any number of dimensions and any LPU counts: the linear
\* and the composite id of an LPU determine each other, and a component stays below the
\* count of its dimension.
THEOREM IdsAgreeAlways == CounterSpec => []IdsAgree
<1>1. IdsAgree
  <2> SUFFICES ASSUME NEW c \in LpuCounts, TotalLpus(c) = totalLpus, NEW id \in Lpus
               PROVE  /\ \A i \in 1..Len(c) : CompositeLpuId(c, id)[i] \in 0..(c[i] - 1)
                      /\ RowMajor(c, CompositeLpuId(c, id)) = id
    BY DEF IdsAgree
  <2>1. c \in Seq(Nat) /\ c # <<>>
    BY LpuCounterAssumption
  <2>2. PICK n \in Nat \ {0} : n = Len(c)
    BY <2>1
  <2>3. c \in [1..n -> Nat]
    BY <2>1, <2>2
  <2>4. id \in 0..(TotalLpus(c) - 1)
    BY DEF Lpus
  <2> QED BY <2>2, <2>3, <2>4, IdsOfLpu
<1> QED BY <1>1, PTL


-----------------------------------------------------------------------------
(* The LPSes above an LPS.                                                     *)

LEMMA Mapping ==
  ASSUME NEW m, IsMapping(m)
  PROVE  /\ Len(m.lps) \in Nat /\ LpsIds(m) = 0..Len(m.lps)
         /\ \A l \in 1..Len(m.lps) : /\ m.lps[l].parent \in 0..(l - 1)
                                     /\ m.lps[l].partitions \in Nat \ {0}
                                     /\ m.lps[l].partitioned \in BOOLEAN
                                     /\ m.lps[l].sub \in BOOLEAN
                                     /\ Parent(m, l) = m.lps[l].parent
<1>1. Len(m.lps) \in Nat /\ LpsIds(m) = 0..Len(m.lps)
  BY DEF IsMapping, LpsIds
<1>2. ASSUME NEW l \in 1..Len(m.lps)
      PROVE  /\ m.lps[l].parent \in 0..(l - 1)
             /\ m.lps[l].partitions \in Nat \ {0}
             /\ m.lps[l].partitioned \in BOOLEAN
             /\ m.lps[l].sub \in BOOLEAN
             /\ Parent(m, l) = m.lps[l].parent
  <2>1. m.lps[l] \in [parent : Nat, partitions : Nat \ {0}, partitioned : BOOLEAN, sub : BOOLEAN]
    <3>1. PICK R : R = [parent : Nat, partitions : Nat \ {0}, partitioned : BOOLEAN, sub : BOOLEAN]
      OBVIOUS
    <3>2. m.lps \in Seq(R)
      BY <3>1 DEF IsMapping
    <3>3. m.lps[l] \in R
      BY ONLY <3>2, l \in 1..Len(m.lps)
    <3> QED BY <3>1, <3>3
  <2>2. m.lps[l].parent < l
    BY DEF IsMapping
  <2> QED BY <1>1, <2>1, <2>2 DEF Parent, Root
<1> QED BY <1>1, <1>2

(* The recursion of Path is well-founded, since a parent comes before its LPSes. *)
LEMMA PathIs ==
  ASSUME NEW m, IsMapping(m)
  PROVE  /\ Path(m, Root) = {}
         /\ \A l \in 1..Len(m.lps) : Path(m, l) = {l} \cup Path(m, Parent(m, l))
<1> DEFINE n == Len(m.lps)
           p(l) == Parent(m, l)
           E(l, v) == {l} \cup v
           Eqn(f, k) == f = [l \in 0..k |-> IF l = Root THEN {} ELSE E(l, f[p(l)])]
           S == {k \in Nat : k <= n => \E f : Eqn(f, k)}
           path == CHOOSE f : Eqn(f, n)
<1>1. n \in Nat /\ LpsIds(m) = 0..n /\ \A l \in 1..n : p(l) \in 0..(l - 1)
  BY Mapping
<1>2. \A l \in 0..n : Path(m, l) = path[l]
  BY <1>1 DEF Path
<1>3. 0 \in S
  <2>1. Eqn([l \in 0..0 |-> {}], 0)
    BY DEF Root
  <2> QED BY <2>1
<1> HIDE DEF E, p, n
<1>4. ASSUME NEW k \in Nat, k \in S
      PROVE  k + 1 \in S
  <2> SUFFICES ASSUME k + 1 <= n PROVE \E f : Eqn(f, k + 1)
    OBVIOUS
  <2>1. PICK f : Eqn(f, k)
    BY <1>1, <1>4
  <2> DEFINE g == [l \in 0..(k + 1) |-> IF l = k + 1 THEN E(k + 1, f[p(k + 1)]) ELSE f[l]]
  <2>2. ASSUME NEW l \in 0..(k + 1), l # Root
        PROVE  g[l] = E(l, g[p(l)])
    <3>1. p(l) \in 0..k /\ g[p(l)] = f[p(l)]
      BY <1>1, <2>2 DEF Root
    <3>2. l # k + 1 => f[l] = E(l, f[p(l)])
      <4>1. l # k + 1 => l \in 0..k
        OBVIOUS
      <4>2. \A j \in 0..k : f[j] = IF j = Root THEN {} ELSE E(j, f[p(j)])
        BY <2>1
      <4> QED BY <2>2, <4>1, <4>2
    <3> QED BY <3>1, <3>2
  <2>3. g[Root] = {}
    BY <2>1 DEF Root
  <2>4. DOMAIN g = 0..(k + 1) /\ g = [l \in 0..(k + 1) |-> g[l]]
    OBVIOUS
  <2> HIDE DEF g
  <2>5. Eqn(g, k + 1)
    BY <2>2, <2>3, <2>4
  <2> QED BY <2>5
<1>5. \E f : Eqn(f, n)
  <2> HIDE DEF S
  <2>1. n \in S
    BY <1>1, <1>3, <1>4, Induction
  <2> QED BY <1>1, <2>1 DEF S
<1>6. Eqn(path, n)
  <2> HIDE DEF Eqn
  <2> QED BY <1>5
<1>7. \A l \in 0..n : path[l] = IF l = Root THEN {} ELSE E(l, path[p(l)])
  BY <1>6
<1> HIDE DEF path
<1>8. Root \in 0..n /\ \A l \in 1..n : l \in 0..n /\ l # Root /\ p(l) \in 0..n
  BY <1>1 DEF Root
<1>9. \A l \in 1..n : Path(m, l) = E(l, Path(m, p(l)))
  BY <1>2, <1>7, <1>8
<1> QED BY <1>2, <1>7, <1>8, <1>9 DEF E, p, n

(* A path begins with the paths of the LPSes on it.                            *)
LEMMA PathsNested ==
  ASSUME NEW m, IsMapping(m), NEW l \in LpsIds(m)
  PROVE  /\ Path(m, l) \subseteq 1..l
         /\ \A b \in Path(m, l) : Path(m, b) = {x \in Path(m, l) : x <= b}
<1> DEFINE n == Len(m.lps)
           P(j) == /\ Path(m, j) \subseteq 1..j
                   /\ \A b \in Path(m, j) : Path(m, b) = {x \in Path(m, j) : x <= b}
           S == {k \in Nat : \A j \in 0..k : j <= n => P(j)}
<1>1. /\ n \in Nat /\ LpsIds(m) = 0..n
      /\ \A j \in 1..n : Parent(m, j) \in 0..(j - 1)
  BY Mapping
<1>2. Path(m, 0) = {} /\ \A j \in 1..n : Path(m, j) = {j} \cup Path(m, Parent(m, j))
  BY PathIs DEF Root
<1>3. 0 \in S
  BY <1>2
<1> HIDE DEF n
<1>4. ASSUME NEW k \in Nat, k \in S
      PROVE  k + 1 \in S
  <2> SUFFICES ASSUME k + 1 <= n PROVE P(k + 1)
    BY <1>4
  <2>1. PICK p : p = Parent(m, k + 1)
    OBVIOUS
  <2>2. p \in 0..k /\ P(p) /\ Path(m, k + 1) = {k + 1} \cup Path(m, p)
    BY <1>1, <1>2, <1>4, <2>1
  <2>3. Path(m, k + 1) \subseteq 1..(k + 1)
    BY <2>2
  <2>4. ASSUME NEW b \in Path(m, k + 1)
        PROVE  Path(m, b) = {x \in Path(m, k + 1) : x <= b}
    <3>1. CASE b = k + 1
      BY <2>3, <3>1
    <3>2. CASE b \in Path(m, p)
      <4>1. b \in 1..p /\ Path(m, b) = {x \in Path(m, p) : x <= b}
        BY <2>2, <3>2
      <4> QED BY <2>2, <4>1
    <3> QED BY <2>2, <3>1, <3>2
  <2> QED BY <2>3, <2>4
<1>5. n \in S
  <2> HIDE DEF S
  <2> QED BY <1>1, <1>3, <1>4, Induction
<1> QED BY <1>1, <1>5

(* The steps of a path: from each LPS to its parent, to none between the two.    *)
LEMMA PathSteps ==
  ASSUME NEW m, IsMapping(m), NEW l \in LpsIds(m), NEW b \in Path(m, l)
  PROVE  /\ b \in 1..l /\ b \in 1..Len(m.lps) /\ b # Root /\ b \in Path(m, b)
         /\ Parent(m, b) \in 0..(b - 1)
         /\ Parent(m, b) \in LpsIds(m)
         /\ Parent(m, b) = Root \/ Parent(m, b) \in Path(m, l)
         /\ Path(m, b) = {b} \cup Path(m, Parent(m, b))
         /\ Path(m, b) = {x \in Path(m, l) : x <= b}
         /\ Path(m, Parent(m, b)) = {x \in Path(m, l) : x < b}
<1>1. /\ Len(m.lps) \in Nat /\ LpsIds(m) = 0..Len(m.lps)
      /\ \A j \in 1..Len(m.lps) : Parent(m, j) \in 0..(j - 1)
  BY Mapping
<1>2. Path(m, l) \subseteq 1..l /\ Path(m, b) = {x \in Path(m, l) : x <= b}
  BY PathsNested
<1>3. b \in 1..l /\ b \in 1..Len(m.lps) /\ b # Root /\ b \in Path(m, b)
  BY <1>1, <1>2 DEF Root
<1>4. PICK p : p = Parent(m, b)
  OBVIOUS
<1>5. p \in 0..(b - 1) /\ p \in LpsIds(m)
  BY <1>1, <1>3, <1>4
<1>6. Path(m, b) = {b} \cup Path(m, p)
  BY <1>3, <1>4, PathIs
<1>7. Path(m, p) \subseteq 1..p
  BY <1>5, PathsNested
<1>8. Path(m, p) = {x \in Path(m, l) : x < b}
  BY <1>2, <1>3, <1>5, <1>6, <1>7
<1>9. p = Root \/ p \in Path(m, l)
  <2>1. CASE p = Root
    BY <2>1
  <2>2. CASE p # Root
    <3>1. p \in 1..Len(m.lps)
      BY <1>1, <1>5, <2>2 DEF Root
    <3>2. p \in Path(m, p)
      BY <3>1, PathIs
    <3> QED BY <1>6, <1>2, <3>2
  <2> QED BY <2>1, <2>2
<1> QED BY <1>2, <1>3, <1>4, <1>5, <1>6, <1>8, <1>9

(* An LPS above another one has one LPS below it on the way to that one.         *)
LEMMA PathDown ==
  ASSUME NEW m, IsMapping(m), NEW l \in LpsIds(m),
         NEW a \in {Root} \cup Path(m, l), a < l
  PROVE  \E b \in Path(m, l) : Parent(m, b) = a
<1> DEFINE n == Len(m.lps)
           P(j) == \A c \in {Root} \cup Path(m, j) :
                     c < j => \E b \in Path(m, j) : Parent(m, b) = c
           S == {k \in Nat : \A j \in 0..k : j <= n => P(j)}
<1>1. /\ n \in Nat /\ LpsIds(m) = 0..n
      /\ \A j \in 1..n : Parent(m, j) \in 0..(j - 1)
  BY Mapping
<1>2. Path(m, 0) = {} /\ \A j \in 1..n : Path(m, j) = {j} \cup Path(m, Parent(m, j))
  BY PathIs DEF Root
<1>3. 0 \in S
  BY <1>2 DEF Root
<1>4. \A j \in 0..n : Path(m, j) \subseteq 1..j
  BY <1>1, PathsNested
<1> HIDE DEF n
<1>5. ASSUME NEW k \in Nat, k \in S
      PROVE  k + 1 \in S
  <2> SUFFICES ASSUME k + 1 <= n,
                      NEW c \in {Root} \cup Path(m, k + 1), c < k + 1
               PROVE  \E b \in Path(m, k + 1) : Parent(m, b) = c
    BY <1>5
  <2>1. PICK p : p = Parent(m, k + 1)
    OBVIOUS
  <2>2. p \in 0..k /\ P(p) /\ Path(m, k + 1) = {k + 1} \cup Path(m, p)
    BY <1>1, <1>2, <1>5, <2>1
  <2>3. Path(m, p) \subseteq 1..p
    BY <1>1, <1>4, <2>2
  <2>4. c \in {Root} \cup Path(m, p) /\ c \in 0..p
    BY <2>2, <2>3 DEF Root
  <2>5. CASE c = p
    BY <2>1, <2>2, <2>5
  <2>6. CASE c # p
    <3>1. c < p
      BY <2>2, <2>4, <2>6
    <3>2. \E b \in Path(m, p) : Parent(m, b) = c
      BY <2>2, <2>4, <3>1
    <3> QED BY <2>2, <3>2
  <2> QED BY <2>5, <2>6
<1>6. n \in S
  <2> HIDE DEF S
  <2> QED BY <1>1, <1>3, <1>5, Induction
<1> QED BY <1>1, <1>6

(* The recursion of GroupSizes.                                                *)
LEMMA SizesAre ==
  ASSUME NEW m, IsMapping(m)
  PROVE  /\ GroupSizes(m)[Root] = m.maxThreads
         /\ \A l \in 1..Len(m.lps) :
              GroupSizes(m)[l] = IF m.lps[l].partitioned /\ ~m.lps[l].sub
                                   THEN GroupSizes(m)[m.lps[l].parent] \div m.lps[l].partitions
                                 ELSE GroupSizes(m)[m.lps[l].parent]
<1> DEFINE n == Len(m.lps)
           p(l) == m.lps[l].parent
           A == m.maxThreads
           E(l, v) == IF m.lps[l].partitioned /\ ~m.lps[l].sub THEN v \div m.lps[l].partitions ELSE v
           Eqn(f, k) == f = [l \in 0..k |-> IF l = Root THEN A ELSE E(l, f[p(l)])]
           S == {k \in Nat : k <= n => \E f : Eqn(f, k)}
           rec == CHOOSE f : Eqn(f, n)
<1>1. n \in Nat /\ LpsIds(m) = 0..n /\ \A l \in 1..n : p(l) \in 0..(l - 1)
  BY Mapping
<1>2. GroupSizes(m) = rec
  BY <1>1 DEF GroupSizes
<1>3. 0 \in S
  <2>1. Eqn([l \in 0..0 |-> A], 0)
    BY DEF Root
  <2> QED BY <2>1
<1> HIDE DEF A, E, p, n
<1>4. ASSUME NEW k \in Nat, k \in S
      PROVE  k + 1 \in S
  <2> SUFFICES ASSUME k + 1 <= n PROVE \E f : Eqn(f, k + 1)
    OBVIOUS
  <2>1. PICK f : Eqn(f, k)
    BY <1>1, <1>4
  <2> DEFINE g == [l \in 0..(k + 1) |-> IF l = k + 1 THEN E(k + 1, f[p(k + 1)]) ELSE f[l]]
  <2>2. ASSUME NEW l \in 0..(k + 1), l # Root
        PROVE  g[l] = E(l, g[p(l)])
    <3>1. p(l) \in 0..k /\ g[p(l)] = f[p(l)]
      BY <1>1, <2>2 DEF Root
    <3>2. l # k + 1 => f[l] = E(l, f[p(l)])
      <4>1. l # k + 1 => l \in 0..k
        OBVIOUS
      <4>2. \A j \in 0..k : f[j] = IF j = Root THEN A ELSE E(j, f[p(j)])
        BY <2>1
      <4> QED BY <2>2, <4>1, <4>2
    <3> QED BY <3>1, <3>2
  <2>3. g[Root] = A
    BY <2>1 DEF Root
  <2>4. DOMAIN g = 0..(k + 1) /\ g = [l \in 0..(k + 1) |-> g[l]]
    OBVIOUS
  <2> HIDE DEF g
  <2>5. Eqn(g, k + 1)
    BY <2>2, <2>3, <2>4
  <2> QED BY <2>5
<1>5. \E f : Eqn(f, n)
  <2> HIDE DEF S
  <2>1. n \in S
    BY <1>1, <1>3, <1>4, Induction
  <2> QED BY <1>1, <2>1 DEF S
<1>6. Eqn(rec, n)
  <2> HIDE DEF Eqn
  <2> QED BY <1>5
<1> HIDE DEF rec
<1>7. rec[Root] = A /\ \A l \in 1..n : rec[l] = E(l, rec[p(l)])
  <2>1. \A l \in 0..n : rec[l] = IF l = Root THEN A ELSE E(l, rec[p(l)])
    BY <1>6
  <2>2. Root \in 0..n /\ \A l \in 1..n : l \in 0..n /\ l # Root
    BY <1>1 DEF Root
  <2> QED BY <2>1, <2>2
<1> QED BY <1>2, <1>7 DEF A, E, p, n

(* The recursion of getPpuIdsForThread.                                         *)
LEMMA ThreadIdsAre ==
  ASSUME NEW m, IsMapping(m), NEW t
  PROVE  /\ PpuIdsForThread(m, t)[Root] = RootIds(m, t)
         /\ \A l \in 1..Len(m.lps) :
              LET parent == PpuIdsForThread(m, t)[m.lps[l].parent]
              IN PpuIdsForThread(m, t)[l] =
                   IF m.lps[l].sub THEN SubpartitionIds(parent)
                   ELSE PartitionIds(m.lps[l], parent, IF m.lps[l].parent = Root THEN m.maxThreads
                                                       ELSE parent.groupSize)
<1> DEFINE n == Len(m.lps)
           p(l) == m.lps[l].parent
           A == RootIds(m, t)
           E(l, v) == IF m.lps[l].sub THEN SubpartitionIds(v)
                      ELSE PartitionIds(m.lps[l], v, IF m.lps[l].parent = Root THEN m.maxThreads
                                                     ELSE v.groupSize)
           Eqn(f, k) == f = [l \in 0..k |-> IF l = Root THEN A ELSE E(l, f[p(l)])]
           S == {k \in Nat : k <= n => \E f : Eqn(f, k)}
           rec == CHOOSE f : Eqn(f, n)
<1>1. n \in Nat /\ LpsIds(m) = 0..n /\ \A l \in 1..n : p(l) \in 0..(l - 1)
  BY Mapping
<1>2. PpuIdsForThread(m, t) = rec
  BY <1>1 DEF PpuIdsForThread
<1>3. 0 \in S
  <2>1. Eqn([l \in 0..0 |-> A], 0)
    BY DEF Root
  <2> QED BY <2>1
<1> HIDE DEF A, E, p, n
<1>4. ASSUME NEW k \in Nat, k \in S
      PROVE  k + 1 \in S
  <2> SUFFICES ASSUME k + 1 <= n PROVE \E f : Eqn(f, k + 1)
    OBVIOUS
  <2>1. PICK f : Eqn(f, k)
    BY <1>1, <1>4
  <2> DEFINE g == [l \in 0..(k + 1) |-> IF l = k + 1 THEN E(k + 1, f[p(k + 1)]) ELSE f[l]]
  <2>2. ASSUME NEW l \in 0..(k + 1), l # Root
        PROVE  g[l] = E(l, g[p(l)])
    <3>1. p(l) \in 0..k /\ g[p(l)] = f[p(l)]
      BY <1>1, <2>2 DEF Root
    <3>2. l # k + 1 => f[l] = E(l, f[p(l)])
      <4>1. l # k + 1 => l \in 0..k
        OBVIOUS
      <4>2. \A j \in 0..k : f[j] = IF j = Root THEN A ELSE E(j, f[p(j)])
        BY <2>1
      <4> QED BY <2>2, <4>1, <4>2
    <3> QED BY <3>1, <3>2
  <2>3. g[Root] = A
    BY <2>1 DEF Root
  <2>4. DOMAIN g = 0..(k + 1) /\ g = [l \in 0..(k + 1) |-> g[l]]
    OBVIOUS
  <2> HIDE DEF g
  <2>5. Eqn(g, k + 1)
    BY <2>2, <2>3, <2>4
  <2> QED BY <2>5
<1>5. \E f : Eqn(f, n)
  <2> HIDE DEF S
  <2>1. n \in S
    BY <1>1, <1>3, <1>4, Induction
  <2> QED BY <1>1, <2>1 DEF S
<1>6. Eqn(rec, n)
  <2> HIDE DEF Eqn
  <2> QED BY <1>5
<1> HIDE DEF rec
<1>7. rec[Root] = A /\ \A l \in 1..n : rec[l] = E(l, rec[p(l)])
  <2>1. \A l \in 0..n : rec[l] = IF l = Root THEN A ELSE E(l, rec[p(l)])
    BY <1>6
  <2>2. Root \in 0..n /\ \A l \in 1..n : l \in 0..n /\ l # Root
    BY <1>1 DEF Root
  <2> QED BY <2>1, <2>2
<1> QED BY <1>2, <1>7 DEF A, E, p, n

(* The range that the adjustment carries from one LPS to the next.               *)
LEMMA RangesAre ==
  ASSUME NEW m, IsMapping(m), NEW ids
  PROVE  /\ GroupRange(m, ids)[Root] = IdRange(0, m.totalThreads - 1)
         /\ \A l \in 1..Len(m.lps) :
              GroupRange(m, ids)[l] =
                IF m.lps[l].sub THEN GroupRange(m, ids)[l - 1]
                ELSE LET groupBegin == ids[l].groupId * ids[l].groupSize
                     IN IdRange(groupBegin, Lesser(groupBegin + ids[l].groupSize - 1,
                                                   GroupRange(m, ids)[l - 1].endId))
<1> DEFINE n == Len(m.lps)
           p(l) == l - 1
           A == IdRange(0, m.totalThreads - 1)
           E(l, v) == IF m.lps[l].sub THEN v
                      ELSE LET groupBegin == ids[l].groupId * ids[l].groupSize
                           IN IdRange(groupBegin, Lesser(groupBegin + ids[l].groupSize - 1, v.endId))
           Eqn(f, k) == f = [l \in 0..k |-> IF l = Root THEN A ELSE E(l, f[p(l)])]
           S == {k \in Nat : k <= n => \E f : Eqn(f, k)}
           rec == CHOOSE f : Eqn(f, n)
<1>1. n \in Nat /\ LpsIds(m) = 0..n /\ \A l \in 1..n : p(l) \in 0..(l - 1)
  BY Mapping
<1>2. GroupRange(m, ids) = rec
  BY <1>1 DEF GroupRange
<1>3. 0 \in S
  <2>1. Eqn([l \in 0..0 |-> A], 0)
    BY DEF Root
  <2> QED BY <2>1
<1> HIDE DEF A, E, p, n
<1>4. ASSUME NEW k \in Nat, k \in S
      PROVE  k + 1 \in S
  <2> SUFFICES ASSUME k + 1 <= n PROVE \E f : Eqn(f, k + 1)
    OBVIOUS
  <2>1. PICK f : Eqn(f, k)
    BY <1>1, <1>4
  <2> DEFINE g == [l \in 0..(k + 1) |-> IF l = k + 1 THEN E(k + 1, f[p(k + 1)]) ELSE f[l]]
  <2>2. ASSUME NEW l \in 0..(k + 1), l # Root
        PROVE  g[l] = E(l, g[p(l)])
    <3>1. p(l) \in 0..k /\ g[p(l)] = f[p(l)]
      BY <1>1, <2>2 DEF Root
    <3>2. l # k + 1 => f[l] = E(l, f[p(l)])
      <4>1. l # k + 1 => l \in 0..k
        OBVIOUS
      <4>2. \A j \in 0..k : f[j] = IF j = Root THEN A ELSE E(j, f[p(j)])
        BY <2>1
      <4> QED BY <2>2, <4>1, <4>2
    <3> QED BY <3>1, <3>2
  <2>3. g[Root] = A
    BY <2>1 DEF Root
  <2>4. DOMAIN g = 0..(k + 1) /\ g = [l \in 0..(k + 1) |-> g[l]]
    OBVIOUS
  <2> HIDE DEF g
  <2>5. Eqn(g, k + 1)
    BY <2>2, <2>3, <2>4
  <2> QED BY <2>5
<1>5. \E f : Eqn(f, n)
  <2> HIDE DEF S
  <2>1. n \in S
    BY <1>1, <1>3, <1>4, Induction
  <2> QED BY <1>1, <2>1 DEF S
<1>6. Eqn(rec, n)
  <2> HIDE DEF Eqn
  <2> QED BY <1>5
<1> HIDE DEF rec
<1>7. rec[Root] = A /\ \A l \in 1..n : rec[l] = E(l, rec[p(l)])
  <2>1. \A l \in 0..n : rec[l] = IF l = Root THEN A ELSE E(l, rec[p(l)])
    BY <1>6
  <2>2. Root \in 0..n /\ \A l \in 1..n : l \in 0..n /\ l # Root
    BY <1>1 DEF Root
  <2> QED BY <2>1, <2>2
<1> QED BY <1>2, <1>7 DEF A, E, p, n

-----------------------------------------------------------------------------
(* The groups of threads.                                                      *)

LEMMA SizesPositive ==
  ASSUME NEW m, WellMapped(m)
  PROVE  \A l \in LpsIds(m) : /\ GroupSizes(m)[l] \in Nat \ {0}
                              /\ GroupSizes(m)[l] <= m.maxThreads
<1> DEFINE n == Len(m.lps)
           G(l) == GroupSizes(m)[l]
           P(l) == G(l) \in Nat \ {0} /\ G(l) <= m.maxThreads
           S == {k \in Nat : \A l \in 0..k : l <= n => P(l)}
<1>1. IsMapping(m) /\ m.maxThreads \in Nat \ {0}
  BY DEF WellMapped, IsMapping
<1>2. n \in Nat /\ LpsIds(m) = 0..n /\ \A l \in 1..n : /\ m.lps[l].parent \in 0..(l - 1)
                                                    /\ m.lps[l].partitions \in Nat \ {0}
  BY <1>1, Mapping
<1>3. /\ G(0) = m.maxThreads
      /\ \A l \in 1..n : G(l) = IF m.lps[l].partitioned /\ ~m.lps[l].sub
                                  THEN G(m.lps[l].parent) \div m.lps[l].partitions
                                ELSE G(m.lps[l].parent)
  BY <1>1, SizesAre DEF Root
<1>4. \A l \in 1..n : m.lps[l].partitioned /\ ~m.lps[l].sub =>
                        G(m.lps[l].parent) = G(l) * m.lps[l].partitions
  BY DEF WellMapped
<1> HIDE DEF n, G
<1>5. 0 \in S
  BY <1>1, <1>3
<1>6. ASSUME NEW k \in Nat, k \in S
      PROVE  k + 1 \in S
  <2> SUFFICES ASSUME k + 1 <= n PROVE P(k + 1)
    BY <1>6
  <2>1. PICK lps : lps = m.lps[k + 1]
    OBVIOUS
  <2>2. PICK g : g = G(lps.parent)
    OBVIOUS
  <2>3. lps.parent \in 0..k /\ lps.partitions \in Nat \ {0}
    BY <1>2, <2>1
  <2>4. g \in Nat \ {0} /\ g <= m.maxThreads
    BY <1>2, <1>6, <2>2, <2>3
  <2>5. CASE lps.partitioned /\ ~lps.sub
    <3>1. G(k + 1) = g \div lps.partitions /\ g = G(k + 1) * lps.partitions
      BY <1>3, <1>4, <2>1, <2>2, <2>5
    <3>2. G(k + 1) \in Nat
      BY <2>3, <2>4, <3>1, Division
    <3>3. PICK c \in Nat : lps.partitions = c + 1
      <4>1. lps.partitions - 1 \in Nat /\ lps.partitions = (lps.partitions - 1) + 1
        BY <2>3
      <4> QED BY <4>1
    <3>4. g = G(k + 1) * c + G(k + 1) /\ G(k + 1) * c \in Nat
      <4>1. g = G(k + 1) * (c + 1)
        BY <3>1, <3>3
      <4>2. G(k + 1) * (c + 1) = G(k + 1) * c + G(k + 1)
        BY <3>2
      <4> QED BY <3>2, <4>1, <4>2, Product
    <3>5. G(k + 1) # 0
      <4>1. SUFFICES ASSUME G(k + 1) = 0 PROVE FALSE
        OBVIOUS
      <4>2. G(k + 1) * c = 0
        BY <4>1
      <4> QED BY <2>4, <3>4, <4>1, <4>2
    <3> QED BY <1>1, <2>4, <3>2, <3>4, <3>5
  <2>6. CASE ~(lps.partitioned /\ ~lps.sub)
    <3>1. G(k + 1) = g
      BY <1>3, <2>1, <2>2, <2>6
    <3> QED BY <2>4, <3>1
  <2> QED BY <2>5, <2>6
<1>7. n \in S
  <2> HIDE DEF S
  <2> QED BY <1>2, <1>5, <1>6, Induction
<1> QED BY <1>2, <1>7 DEF G

(* How an LPS divides the groups of its parent.                                 *)
LEMMA SizesDivide ==
  ASSUME NEW m, WellMapped(m), NEW l \in 1..Len(m.lps),
         NEW g, g = GroupSizes(m)[l],
         NEW gp, gp = GroupSizes(m)[m.lps[l].parent]
  PROVE  /\ g \in Nat \ {0} /\ gp \in Nat \ {0} /\ gp <= m.maxThreads
         /\ GroupSizes(m)[l - 1] = gp
         /\ m.lps[l].sub => m.lps[l].parent # Root /\ gp = 1 /\ g = 1
         /\ ~m.lps[l].sub => gp = m.maxThreads \/ m.totalThreads % g = 0
         /\ m.lps[l].partitioned /\ ~m.lps[l].sub => gp = g * m.lps[l].partitions
         /\ ~(m.lps[l].partitioned /\ ~m.lps[l].sub) => gp = g
<1>1. IsMapping(m)
  BY DEF WellMapped
<1>2. l \in LpsIds(m) /\ m.lps[l].parent \in LpsIds(m)
  BY <1>1, Mapping
<1>3. g \in Nat \ {0} /\ gp \in Nat \ {0} /\ gp <= m.maxThreads
  BY <1>2, SizesPositive
<1>4. ~(m.lps[l].partitioned /\ ~m.lps[l].sub) => gp = g
  BY <1>1, SizesAre
<1>5. /\ GroupSizes(m)[l - 1] = gp
      /\ m.lps[l].sub => m.lps[l].parent # Root /\ gp = 1
      /\ ~m.lps[l].sub => gp = m.maxThreads \/ m.totalThreads % g = 0
      /\ m.lps[l].partitioned /\ ~m.lps[l].sub => gp = g * m.lps[l].partitions
  BY DEF WellMapped
<1> QED BY <1>3, <1>4, <1>5

(* Before the adjustment: a thread's place in its group, and the group's in that *)
(* of the parent.                                                                *)
LEMMA ThreadPlaces ==
  ASSUME NEW m, WellMapped(m), NEW t \in ThreadsOf(m)
  PROVE  \A l \in LpsIds(m) :
           /\ PpuIdsForThread(m, t)[l].index = t % GroupSizes(m)[l]
           /\ l # Root => PpuIdsForThread(m, t)[l].groupSize = GroupSizes(m)[l]
<1> DEFINE n == Len(m.lps)
           G(l) == GroupSizes(m)[l]
           v(l) == PpuIdsForThread(m, t)[l]
           P(l) == v(l).index = t % G(l) /\ (l # Root => v(l).groupSize = G(l))
           S == {k \in Nat : \A l \in 0..k : l <= n => P(l)}
<1>1. IsMapping(m) /\ m.maxThreads \in Nat \ {0} /\ m.totalThreads \in 1..m.maxThreads
  BY DEF WellMapped, IsMapping
<1>2. n \in Nat /\ LpsIds(m) = 0..n /\ \A l \in 1..n : /\ m.lps[l].parent \in 0..(l - 1)
                                                    /\ m.lps[l].partitions \in Nat \ {0}
  BY <1>1, Mapping
<1>3. t \in Nat /\ t < m.maxThreads
  BY <1>1 DEF ThreadsOf
<1>4. v(0) = RootIds(m, t)
  BY <1>1, ThreadIdsAre DEF Root
<1>5. \A l \in 1..n : v(l) = IF m.lps[l].sub THEN SubpartitionIds(v(m.lps[l].parent))
                             ELSE PartitionIds(m.lps[l], v(m.lps[l].parent),
                                               IF m.lps[l].parent = Root THEN m.maxThreads
                                               ELSE v(m.lps[l].parent).groupSize)
  BY <1>1, ThreadIdsAre
<1>6. G(0) = m.maxThreads
  BY <1>1, SizesAre DEF Root
<1>7. \A l \in 1..n : G(l) = IF m.lps[l].partitioned /\ ~m.lps[l].sub
                               THEN G(m.lps[l].parent) \div m.lps[l].partitions
                             ELSE G(m.lps[l].parent)
  BY <1>1, SizesAre
<1>8. 0 \in S
  <2>1. t % m.maxThreads = t
    <3>1. t = m.maxThreads * 0 + t
      BY <1>1, <1>3
    <3>2. t \in 0..(m.maxThreads - 1)
      BY <1>1, <1>3
    <3> QED BY <1>1, <3>1, <3>2, UniqueDivision
  <2>2. v(0).index = t
    BY <1>4 DEF RootIds, Ids
  <2> QED BY <1>6, <2>1, <2>2 DEF Root
<1>9. ASSUME NEW k \in Nat, k \in S
      PROVE  k + 1 \in S
  <2> SUFFICES ASSUME k + 1 <= n PROVE P(k + 1)
    BY <1>9
  <2> DEFINE l == k + 1
  <2>1. PICK lps : lps = m.lps[l]
    OBVIOUS
  <2>2. PICK p : p = lps.parent
    OBVIOUS
  <2>3. PICK g, gp : g = G(l) /\ gp = G(p)
    OBVIOUS
  <2>4. l \in 1..n /\ p \in 0..k /\ lps.partitions \in Nat \ {0}
    BY <1>2, <2>1, <2>2
  <2>5. /\ g \in Nat \ {0} /\ gp \in Nat \ {0}
        /\ lps.sub => p # Root /\ gp = 1 /\ g = 1
        /\ lps.partitioned /\ ~lps.sub => gp = g * lps.partitions
        /\ ~(lps.partitioned /\ ~lps.sub) => gp = g
    BY <2>1, <2>2, <2>3, <2>4, SizesDivide
  <2>6. v(p).index = t % gp /\ (p # Root => v(p).groupSize = gp)
    BY <1>2, <1>9, <2>3, <2>4
  <2>7. G(Root) = m.maxThreads
    BY <1>6 DEF Root
  <2> HIDE DEF v, G, l, n
  <2>8. CASE lps.sub
    <3>1. v(l) = SubpartitionIds(v(p))
      BY <1>5, <2>1, <2>2, <2>4, <2>8
    <3>2. v(l).index = v(p).index /\ v(l).groupSize = v(p).groupSize
      BY <3>1 DEF SubpartitionIds, Ids
    <3> QED BY <2>3, <2>5, <2>6, <2>8, <3>2 DEF l
  <2>9. CASE ~lps.sub
    <3>1. v(l) = PartitionIds(lps, v(p), gp)
      BY <1>5, <2>1, <2>2, <2>3, <2>4, <2>6, <2>7, <2>9
    <3>2. g = IF lps.partitioned THEN gp \div lps.partitions ELSE gp
      BY <1>7, <2>1, <2>2, <2>3, <2>4, <2>9
    <3>3. v(l).index = v(p).index % g /\ v(l).groupSize = g
      BY <3>1, <3>2 DEF PartitionIds, Ids
    <3>4. (t % gp) % g = t % g
      <4>1. PICK b \in Nat \ {0} : gp = g * b
        <5>1. ~lps.partitioned => gp = g * 1
          BY <2>5
        <5> QED BY <2>4, <2>5, <2>9, <5>1
      <4>2. (t % (g * b)) % g = t % g
        BY ONLY <1>3, <2>5, <4>1, NestedDivision
      <4> QED BY ONLY <4>1, <4>2
    <3> QED BY <2>3, <2>6, <3>3, <3>4 DEF l
  <2> QED BY <2>8, <2>9 DEF l
<1>10. n \in S
  <2> HIDE DEF S
  <2> QED BY <1>2, <1>8, <1>9, Induction
<1> QED BY <1>2, <1>10

\* The threads in the group, of size g, that thread t belongs to.
GroupMembers(m, g, t) == Lesser(g, m.totalThreads - g * (t \div g))

LEMMA MembersPositive ==
  ASSUME NEW m, WellMapped(m), NEW t \in ThreadsOf(m), NEW g \in Nat \ {0}
  PROVE  /\ g * (t \div g) \in Nat /\ g * (t \div g) <= t
         /\ GroupMembers(m, g, t) \in 1..g
         /\ m.totalThreads % g = 0 => GroupMembers(m, g, t) = g
<1>1. m.totalThreads \in Nat /\ t \in Nat /\ t < m.totalThreads
  BY DEF WellMapped, IsMapping, ThreadsOf
<1> DEFINE q == t \div g
           r == t % g
<1>2. q \in Nat /\ r \in 0..(g - 1) /\ t = (g * q) + r
  BY <1>1, Division
<1> HIDE DEF q, r
<1>3. g * q \in Nat
  BY <1>2, Product
<1>4. g * q <= t /\ g * q < m.totalThreads
  BY <1>1, <1>2, <1>3
<1>5. m.totalThreads % g = 0 => g * q + g <= m.totalThreads
  BY <1>1, <1>2, <1>4, FullBlock
<1>6. GroupMembers(m, g, t) = Lesser(g, m.totalThreads - g * q)
  BY DEF GroupMembers, q
<1> QED BY <1>1, <1>3, <1>4, <1>5, <1>6 DEF Lesser, q

(* Which group a thread is in, and for which of them it executes the code.       *)
LEMMA PlacesOfThread ==
  ASSUME NEW m, WellMapped(m), NEW t \in ThreadsOf(m), NEW l \in 1..Len(m.lps),
         NEW g, g = GroupSizes(m)[l],
         NEW gp, gp = GroupSizes(m)[m.lps[l].parent],
         NEW v, v = PpuIdsForThread(m, t)[l]
  PROVE  /\ v.groupId = (t % gp) \div g /\ v.groupId \in Nat
         /\ v.id # INVALID_ID <=> t % g = 0
         /\ v.groupSize = g
<1>1. IsMapping(m) /\ m.maxThreads \in Nat \ {0} /\ m.totalThreads \in 1..m.maxThreads
  BY DEF WellMapped, IsMapping
<1>2. t \in Nat
  BY <1>1 DEF ThreadsOf
<1>3. PICK lps, p : lps = m.lps[l] /\ p = lps.parent
  OBVIOUS
<1>4. l \in LpsIds(m) /\ p \in LpsIds(m) /\ l # Root /\ lps.partitions \in Nat \ {0}
  BY <1>1, <1>3, Mapping DEF Root
<1>5. /\ g \in Nat \ {0} /\ gp \in Nat \ {0}
      /\ lps.sub => p # Root /\ gp = 1 /\ g = 1
      /\ lps.partitioned /\ ~lps.sub => gp = g * lps.partitions
      /\ ~(lps.partitioned /\ ~lps.sub) => gp = g
  BY <1>3, SizesDivide
<1>6. PICK u : u = PpuIdsForThread(m, t)[p]
  OBVIOUS
<1>7. u.index = t % gp /\ (p # Root => u.groupSize = gp)
  BY <1>3, <1>4, <1>6, ThreadPlaces
<1>8. v.index = t % g /\ v.groupSize = g
  BY <1>4, ThreadPlaces
<1>9. GroupSizes(m)[Root] = m.maxThreads
  BY <1>1, SizesAre
<1>10. v = IF lps.sub THEN SubpartitionIds(u)
           ELSE PartitionIds(lps, u, IF p = Root THEN m.maxThreads ELSE u.groupSize)
  BY <1>1, <1>3, <1>6, ThreadIdsAre
<1>11. t % gp \in Nat /\ t % g \in Nat /\ (t % gp) \div g \in Nat
  <2>1. t % gp \in Nat /\ t % g \in Nat
    <3>1. t % gp \in 0..(gp - 1) /\ t % g \in 0..(g - 1)
      BY ONLY <1>2, <1>5, Division
    <3> QED BY ONLY <1>5, <3>1
  <2> QED BY <1>5, <2>1, Division
<1>12. CASE lps.sub
  <2>1. v.groupId = 0 /\ v.id = 0
    BY <1>10, <1>12 DEF SubpartitionIds, Ids
  <2>2. gp = 1 /\ g = 1
    BY <1>5, <1>12
  <2>3. t % 1 = 0
    BY <1>2, Division
  <2>4. 0 \div 1 = 0
    BY SmallRemainder
  <2> QED BY <1>8, <2>1, <2>2, <2>3, <2>4 DEF INVALID_ID
<1>13. CASE ~lps.sub
  <2>1. v = PartitionIds(lps, u, gp)
    BY <1>3, <1>7, <1>9, <1>10, <1>13
  <2>2. g = IF lps.partitioned THEN gp \div lps.partitions ELSE gp
    BY <1>1, <1>3, <1>13, SizesAre
  <2>3. /\ v.groupId = u.index \div g
        /\ v.id = IF u.index % g = 0 THEN v.groupId ELSE INVALID_ID
        /\ v.index = u.index % g
    BY <2>1, <2>2 DEF PartitionIds, Ids
  <2>4. v.groupId = (t % gp) \div g
    BY <1>7, <2>3
  <2>5. v.id # INVALID_ID <=> v.index = 0
    BY <1>11, <2>3, <2>4 DEF INVALID_ID
  <2> QED BY <1>8, <1>11, <2>4, <2>5
<1> QED BY <1>12, <1>13

(* The range that the adjustment carries is that of the thread's group, which may *)
(* lack threads at its end.  It is given relative to the parent's group, and the  *)
(* comparison with the end of the range before is right all the same: that one    *)
(* ends with the last thread there is, or else the groups are full.               *)
LEMMA RangeOfThread ==
  ASSUME NEW m, WellMapped(m), NEW t \in ThreadsOf(m)
  PROVE  \A l \in LpsIds(m) :
           LET r == GroupRange(m, PpuIdsForThread(m, t))[l]
               g == GroupSizes(m)[l]
           IN /\ Span(r) = GroupMembers(m, g, t)
              /\ r.endId \in Int /\ r.endId >= Lesser(g, m.totalThreads) - 1
              /\ g = m.maxThreads => r.endId = m.totalThreads - 1
<1> DEFINE n == Len(m.lps)
           ids == PpuIdsForThread(m, t)
           G(l) == GroupSizes(m)[l]
           r(l) == GroupRange(m, ids)[l]
           P(l) == /\ Span(r(l)) = GroupMembers(m, G(l), t)
                   /\ r(l).endId \in Int /\ r(l).endId >= Lesser(G(l), m.totalThreads) - 1
                   /\ G(l) = m.maxThreads => r(l).endId = m.totalThreads - 1
           S == {k \in Nat : k <= n => P(k)}
<1>1. PICK total, max : total = m.totalThreads /\ max = m.maxThreads
  OBVIOUS
<1>2. IsMapping(m) /\ max \in Nat \ {0} /\ total \in 1..max
  BY <1>1 DEF WellMapped, IsMapping
<1>3. t \in Nat /\ t < total
  BY <1>1, <1>2 DEF ThreadsOf
<1>4. n \in Nat /\ LpsIds(m) = 0..n
  BY <1>2, Mapping
<1>5. r(0) = IdRange(0, total - 1)
  BY <1>1, <1>2, RangesAre DEF Root
<1>6. \A l \in 1..n :
         r(l) = IF m.lps[l].sub THEN r(l - 1)
                ELSE LET groupBegin == ids[l].groupId * ids[l].groupSize
                     IN IdRange(groupBegin, Lesser(groupBegin + ids[l].groupSize - 1,
                                                   r(l - 1).endId))
  BY <1>2, RangesAre
<1>7. 0 \in S
  <2>1. G(0) = max
    BY <1>1, <1>2, SizesAre DEF Root
  <2>2. r(0).startId = 0 /\ r(0).endId = total - 1
    BY <1>5 DEF IdRange
  <2>3. Span(r(0)) = total
    BY <1>2, <2>2 DEF Span
  <2>4. t \div max = 0
    BY <1>2, <1>3, SmallRemainder
  <2>5. GroupMembers(m, max, t) = total
    BY <1>1, <1>2, <2>4 DEF GroupMembers, Lesser
  <2>6. Lesser(max, total) = total
    BY <1>2 DEF Lesser
  <2> HIDE DEF r, G
  <2> QED BY <1>1, <1>2, <2>1, <2>2, <2>3, <2>5, <2>6
<1>8. ASSUME NEW k \in Nat, k \in S
      PROVE  k + 1 \in S
  <2> SUFFICES ASSUME k + 1 <= n PROVE P(k + 1)
    BY <1>8
  <2> DEFINE l == k + 1
  <2>1. l \in 1..n /\ l - 1 = k
    BY <1>4
  <2>2. PICK g, gp : g = G(l) /\ gp = GroupSizes(m)[m.lps[l].parent]
    OBVIOUS
  <2>3. /\ g \in Nat \ {0} /\ gp \in Nat \ {0} /\ gp <= max
        /\ G(k) = gp
        /\ m.lps[l].sub => gp = g
        /\ ~m.lps[l].sub => gp = max \/ total % g = 0
        /\ m.lps[l].partitioned /\ ~m.lps[l].sub => gp = g * m.lps[l].partitions
        /\ ~(m.lps[l].partitioned /\ ~m.lps[l].sub) => gp = g
    BY <1>1, <2>1, <2>2, SizesDivide
  <2>4. PICK E : E = r(k).endId
    OBVIOUS
  <2>5. /\ E \in Int /\ E >= Lesser(gp, total) - 1
        /\ gp = max => E = total - 1
        /\ Span(r(k)) = GroupMembers(m, gp, t)
    BY <1>1, <1>4, <1>8, <2>1, <2>3, <2>4
  <2>6. PICK b \in Nat \ {0} : gp = g * b
    <3>1. m.lps[l].partitions \in Nat \ {0} /\ g = g * 1
      BY <1>2, <2>1, <2>3, Mapping
    <3> QED BY <2>3, <3>1
  <2>7. PICK j : j = ids[l].groupId
    OBVIOUS
  <2>8. j = (t % gp) \div g /\ ids[l].groupSize = g
    BY <2>1, <2>2, <2>7, PlacesOfThread
  <2>9. j \in 0..(b - 1) /\ t \div g = b * (t \div gp) + j
    <3>1. /\ (t % (g * b)) \div g \in 0..(b - 1)
          /\ t \div g = b * (t \div (g * b)) + ((t % (g * b)) \div g)
      <4>1. t \in Nat /\ g \in Nat \ {0} /\ b \in Nat \ {0}
        BY <1>3, <2>3, <2>6
      <4> QED BY ONLY <4>1, NestedDivision, Zenon
    <3> QED BY ONLY <2>6, <2>8, <3>1
  <2>10. t \div gp \in Nat /\ t \div g \in Nat /\ b * (t \div gp) \in Nat
    <3>1. t \div gp \in Nat /\ t \div g \in Nat
      BY ONLY <1>3, <2>3, Division
    <3> QED BY ONLY <2>6, <3>1, Product
  <2> HIDE DEF r, G, ids, n, l
  <2>11. CASE m.lps[l].sub
    <3>1. r(l) = r(k) /\ gp = g
      BY <1>6, <2>1, <2>3, <2>11
    <3> QED BY <1>1, <2>2, <2>3, <2>4, <2>5, <3>1 DEF l
  <2>12. CASE ~m.lps[l].sub
    <3>1. r(l) = IdRange(j * g, Lesser(j * g + g - 1, E))
      BY <1>6, <2>1, <2>4, <2>7, <2>8, <2>12
    <3>2. PICK c : c = g * j
      OBVIOUS
    <3>3. c \in Nat /\ c = j * g /\ c + g <= gp
      <4>1. c \in Nat /\ c = j * g
        BY <2>3, <2>9, <3>2, Product
      <4>2. c + g <= g * b
        BY <2>3, <2>6, <2>9, <3>2, Monotonic
      <4> QED BY <2>6, <4>1, <4>2
    <3>4. PICK e : e = Lesser(c + g - 1, E)
      OBVIOUS
    <3>5. r(l).startId = c /\ r(l).endId = e
      BY <3>1, <3>3, <3>4 DEF IdRange
    <3>6. Span(r(l)) = e - c + 1
      BY <3>5 DEF Span
    <3>7. CASE gp = max
      <4>1. t % gp = t /\ j = t \div g
        <5>1. t % gp = t
          BY <1>2, <1>3, <3>7, SmallRemainder
        <5> QED BY <2>8, <5>1
      <4>2. GroupMembers(m, g, t) = Lesser(g, total - c)
        BY <1>1, <3>2, <4>1 DEF GroupMembers
      <4>3. E = total - 1
        BY <2>5, <3>7
      <4>4. g = max => e = total - 1
        BY <1>2, <2>3, <3>3, <3>4, <4>3 DEF Lesser
      <4>5. e \in Int /\ e - c + 1 = Lesser(g, total - c) /\ e >= Lesser(g, total) - 1
        BY <1>2, <2>3, <3>3, <3>4, <4>3 DEF Lesser
      <4> QED BY <1>1, <2>2, <3>5, <3>6, <4>2, <4>4, <4>5 DEF l
    <3>8. CASE gp # max
      <4>1. total % g = 0
        BY <2>3, <2>12, <3>8
      <4>2. GroupMembers(m, g, t) = g
        BY <1>1, <2>3, <4>1, MembersPositive
      <4>3. c <= t
        <5>1. g * (t \div g) <= t /\ g * (t \div g) \in Nat
          BY <2>3, MembersPositive
        <5>2. j <= t \div g
          BY <2>9, <2>10
        <5>3. CASE j = t \div g
          BY <3>2, <5>1, <5>3
        <5>4. CASE j < t \div g
          <6>1. g * j + g <= g * (t \div g)
            BY <2>3, <2>9, <2>10, <5>4, Monotonic
          <6> QED BY <1>3, <2>3, <3>2, <3>3, <5>1, <6>1
        <5> QED BY <2>9, <2>10, <5>2, <5>3, <5>4
      <4>4. c + g <= total
        <5>1. g * j < total
          BY <1>2, <1>3, <3>2, <3>3, <4>3
        <5>2. total \in Nat /\ j \in Nat
          BY <1>2, <2>9
        <5>3. g * j + g <= total
          BY ONLY <2>3, <4>1, <5>1, <5>2, FullBlock
        <5> QED BY ONLY <3>2, <5>3
      <4>5. e = c + g - 1
        <5>1. E \in Int /\ E >= c + g - 1
          BY <1>2, <2>3, <2>5, <3>3, <4>4 DEF Lesser
        <5> QED BY <2>3, <3>3, <3>4, <5>1 DEF Lesser
      <4>6. g # max
        BY <1>2, <2>3, <3>3, <3>8
      <4>7. e \in Int /\ e - c + 1 = g /\ e >= Lesser(g, total) - 1
        BY <1>2, <2>3, <3>3, <4>5 DEF Lesser
      <4> QED BY <1>1, <2>2, <3>5, <3>6, <4>2, <4>6, <4>7 DEF l
    <3> QED BY <3>7, <3>8
  <2> QED BY <2>11, <2>12 DEF l
<1>9. Nat \subseteq S
  <2> HIDE DEF S
  <2> QED BY <1>7, <1>8, Induction
<1> QED BY <1>4, <1>9

(* The ids after the adjustment.  A group executes the code by its first thread; *)
(* the PPU count is the number of groups that the threads under the parent fill  *)
(* or begin to fill.                                                             *)
PpuCountOf(m, g, gp, t) == (GroupMembers(m, gp, t) + (g - 1)) \div g
LEMMA IdsOfThread ==
  ASSUME NEW m, WellMapped(m), NEW t \in ThreadsOf(m), NEW l \in 1..Len(m.lps),
         NEW g, g = GroupSizes(m)[l],
         NEW gp, gp = GroupSizes(m)[m.lps[l].parent],
         NEW w, w = ThreadIds(m, t)[l]
  PROVE  /\ w.groupId = (t % gp) \div g
         /\ w.id # INVALID_ID <=> t % g = 0
         /\ w.ppuCount = PpuCountOf(m, g, gp, t)
<1> DEFINE ids == PpuIdsForThread(m, t)
           r(k) == GroupRange(m, ids)[k]
<1>1. IsMapping(m)
  BY DEF WellMapped
<1>2. l \in LpsIds(m) /\ l - 1 \in LpsIds(m) /\ l # Root
  BY <1>1, Mapping DEF Root
<1>3. w = IF m.lps[l].sub THEN [ids[l] EXCEPT !.groupSize = Span(r(l))]
          ELSE [ids[l] EXCEPT !.groupSize = Span(r(l)),
                              !.ppuCount = AdjustedPpuCount(Span(r(l - 1)), ids[l].groupSize)]
  BY <1>2 DEF ThreadIds, AdjustedIds
<1>4. /\ ids[l].groupId = (t % gp) \div g
      /\ ids[l].id # INVALID_ID <=> t % g = 0
      /\ ids[l].groupSize = g
  BY PlacesOfThread
<1>5. ids[l] = IF m.lps[l].sub THEN SubpartitionIds(ids[m.lps[l].parent])
               ELSE PartitionIds(m.lps[l], ids[m.lps[l].parent],
                                 IF m.lps[l].parent = Root THEN m.maxThreads
                                 ELSE ids[m.lps[l].parent].groupSize)
  BY <1>1, ThreadIdsAre
<1>6. /\ g \in Nat \ {0} /\ gp \in Nat \ {0}
      /\ GroupSizes(m)[l - 1] = gp
      /\ m.lps[l].sub => gp = 1 /\ g = 1
  BY SizesDivide
<1>7. Span(r(l - 1)) = GroupMembers(m, gp, t)
  BY <1>2, <1>6, RangeOfThread
<1> HIDE DEF r, ids
<1>8. CASE m.lps[l].sub
  <2>1. w = [ids[l] EXCEPT !.groupSize = Span(r(l))]
    BY <1>3, <1>8
  <2>2. ids[l] = SubpartitionIds(ids[m.lps[l].parent])
    BY <1>5, <1>8
  <2>3. w.groupId = ids[l].groupId /\ w.id = ids[l].id /\ w.ppuCount = 1
    BY <2>1, <2>2 DEF SubpartitionIds, Ids
  <2>4. GroupMembers(m, 1, t) \in 1..1
    BY MembersPositive
  <2>5. PpuCountOf(m, g, gp, t) = 1
    <3>1. GroupMembers(m, gp, t) + (g - 1) = 1
      BY <1>6, <1>8, <2>4
    <3> QED BY <1>6, <1>8, <3>1 DEF PpuCountOf
  <2> QED BY <1>4, <2>3, <2>5
<1>9. CASE ~m.lps[l].sub
  <2>1. w = [ids[l] EXCEPT !.groupSize = Span(r(l)),
                           !.ppuCount = AdjustedPpuCount(Span(r(l - 1)), ids[l].groupSize)]
    BY <1>3, <1>9
  <2>2. PICK u, c : ids[l] = PartitionIds(m.lps[l], u, c)
    BY <1>5, <1>9
  <2>3. /\ w.groupId = ids[l].groupId /\ w.id = ids[l].id
        /\ w.ppuCount = AdjustedPpuCount(Span(r(l - 1)), ids[l].groupSize)
    BY <2>1, <2>2 DEF PartitionIds, Ids
  <2> QED BY <1>4, <1>7, <2>3 DEF AdjustedPpuCount, PpuCountOf
<1> QED BY <1>8, <1>9

LEMMA IdsOfRoot ==
  ASSUME NEW m, IsMapping(m), NEW t
  PROVE  /\ ThreadIds(m, t)[Root].groupId = 0
         /\ ThreadIds(m, t)[Root].ppuCount = 1
         /\ ThreadIds(m, t)[Root].id # INVALID_ID <=> t = 0
<1>1. Root \in LpsIds(m)
  BY Mapping DEF Root
<1>2. ThreadIds(m, t)[Root] = RootIds(m, t)
  BY <1>1, ThreadIdsAre DEF ThreadIds, AdjustedIds
<1> QED BY <1>2 DEF RootIds, Ids, INVALID_ID

(* The groups of an LPS that lie in one group of its parent.                     *)
FallsInto(m, gp, B, g, N) ==
  /\ N \in Nat \ {0}
  /\ \A t \in ThreadsOf(m) : t \div gp = B => (t % gp) \div g \in 0..(N - 1)
  /\ \A j \in 0..(N - 1) : \E C \in Nat :
        /\ g * C \in ThreadsOf(m)
        /\ \A t \in ThreadsOf(m) : t \div g = C <=> t \div gp = B /\ (t % gp) \div g = j
LEMMA GroupsInGroup ==
  ASSUME NEW m, WellMapped(m), NEW l \in 1..Len(m.lps),
         NEW g, g = GroupSizes(m)[l],
         NEW gp, gp = GroupSizes(m)[m.lps[l].parent],
         NEW B \in Nat, gp * B < m.totalThreads,
         NEW N, N = (Lesser(gp, m.totalThreads - gp * B) + (g - 1)) \div g
  PROVE  FallsInto(m, gp, B, g, N)
<1>1. PICK total : total = m.totalThreads
  OBVIOUS
<1>2. total \in Nat /\ ThreadsOf(m) = 0..(total - 1)
  BY <1>1 DEF WellMapped, IsMapping, ThreadsOf
<1>3. PICK b \in Nat \ {0} : g \in Nat \ {0} /\ gp \in Nat \ {0} /\ gp = g * b
  <2>1. /\ g \in Nat \ {0} /\ gp \in Nat \ {0}
        /\ m.lps[l].partitioned /\ ~m.lps[l].sub => gp = g * m.lps[l].partitions
        /\ ~(m.lps[l].partitioned /\ ~m.lps[l].sub) => gp = g
    BY SizesDivide
  <2>2. m.lps[l].partitions \in Nat \ {0} /\ g = g * 1
    BY <2>1, Mapping DEF WellMapped
  <2> QED BY <2>1, <2>2
<1>4. g \in Nat \ {0} /\ gp \in Nat \ {0} /\ b \in Nat \ {0}
  BY <1>3
<1>5. PICK c : c = gp * B
  OBVIOUS
<1>6. c \in Nat /\ c < total
  BY <1>1, <1>3, <1>5, Product
<1>7. PICK s : s = Lesser(gp, total - c)
  OBVIOUS
<1>8. s \in Nat \ {0} /\ s <= gp /\ c + s <= total /\ (s = gp \/ c + s = total)
  BY ONLY <1>2, <1>4, <1>6, <1>7 DEF Lesser
<1>9. N = (s + (g - 1)) \div g
  BY <1>1, <1>5, <1>7
<1>10. N \in Nat \ {0} /\ \A j \in Nat : j < N <=> g * j < s
  <2>1. s \in Nat \ {0} /\ g \in Nat \ {0}
    BY <1>8, <1>4
  <2>2. IsCeiling(N, s, g)
    BY ONLY <2>1, <1>9, Ceiling
  <2> QED BY ONLY <2>2 DEF IsCeiling
<1>11. ASSUME NEW t \in ThreadsOf(m)
       PROVE  /\ t \in Nat /\ t < total /\ t % gp \in Nat /\ t % gp < gp
              /\ t = (gp * (t \div gp)) + (t % gp) /\ t \div gp \in Nat
              /\ (t % gp) \div g \in 0..(b - 1)
              /\ t \div g = b * (t \div gp) + ((t % gp) \div g)
  <2>1. t \in Nat /\ t < total
    BY ONLY <1>2, t \in ThreadsOf(m)
  <2>2. t % gp \in 0..(gp - 1) /\ t = (gp * (t \div gp)) + (t % gp) /\ t \div gp \in Nat
    BY ONLY <2>1, <1>4, Division
  <2>3. /\ (t % (g * b)) \div g \in 0..(b - 1)
        /\ t \div g = b * (t \div (g * b)) + ((t % (g * b)) \div g)
    BY ONLY <2>1, <1>4, NestedDivision, Zenon
  <2>4. t % gp \in Nat /\ t % gp < gp
    BY ONLY <2>2, <1>4
  <2>5. (t % gp) \div g \in 0..(b - 1) /\ t \div g = b * (t \div gp) + ((t % gp) \div g)
    BY ONLY <1>3, <2>3
  <2> QED BY ONLY <2>1, <2>2, <2>4, <2>5
<1>12. ASSUME NEW t \in ThreadsOf(m), t \div gp = B
       PROVE  (t % gp) \div g \in 0..(N - 1)
  <2>1. PICK x, j : x = t % gp /\ j = x \div g
    OBVIOUS
  <2>2. x \in Nat /\ x < gp /\ t = c + x /\ t < total
    BY <1>5, <1>11, <1>12, <2>1
  <2>3. x < s
    BY <1>2, <1>6, <1>8, <2>2
  <2>4. j \in Nat /\ x = (g * j) + (x % g) /\ x % g \in 0..(g - 1)
    BY ONLY <1>3, <2>1, <2>2, Division
  <2>5. g * j \in Nat
    BY ONLY <1>3, <2>4, Product
  <2>6. g * j < s
    <3>1. x % g \in Nat
      BY ONLY <1>4, <2>4
    <3> QED BY ONLY <1>8, <2>2, <2>3, <2>4, <2>5, <3>1
  <2>7. j < N
    BY <1>10, <2>4, <2>6
  <2> QED BY <1>10, <2>1, <2>4, <2>7
<1>13. ASSUME NEW j \in 0..(N - 1)
       PROVE  \E C \in Nat :
               /\ g * C \in ThreadsOf(m)
               /\ \A t \in ThreadsOf(m) : t \div g = C <=> t \div gp = B /\ (t % gp) \div g = j
  <2>1. j \in Nat /\ j < N /\ g * j < s /\ g * j \in Nat
    <3>1. j \in Nat /\ j < N
      BY <1>10
    <3> QED BY <1>3, <1>10, <3>1, Product
  <2>2. j < b
    <3>1. SUFFICES ASSUME b <= j PROVE FALSE
      BY <1>3, <2>1
    <3>2. CASE b = j
      BY <1>3, <1>8, <2>1, <3>2
    <3>3. CASE b < j
      <4>1. g * b + g <= g * j
        BY <1>3, <2>1, <3>3, Monotonic
      <4>2. PICK v : v = g * j
        OBVIOUS
      <4>3. v \in Nat /\ v < s /\ gp + g <= v
        BY <1>3, <2>1, <4>1, <4>2
      <4> QED BY ONLY <1>4, <1>8, <4>3
    <3> QED BY <1>3, <2>1, <3>1, <3>2, <3>3
  <2>3. PICK C : C = b * B + j
    OBVIOUS
  <2>4. C \in Nat /\ b * B \in Nat
    <3>1. b * B \in Nat
      BY ONLY <1>3, B \in Nat, Product
    <3> QED BY <2>1, <2>3, <3>1
  <2>5. g * C = c + g * j
    <3>1. g * (b * B + j) = (g * b) * B + g * j
      BY ONLY <1>3, <2>1, <2>4, B \in Nat
    <3> QED BY ONLY <1>3, <1>5, <2>3, <3>1
  <2>6. g * C \in ThreadsOf(m)
    BY <1>2, <1>6, <1>8, <2>1, <2>5
  <2>7. ASSUME NEW t \in ThreadsOf(m)
        PROVE  t \div g = C <=> t \div gp = B /\ (t % gp) \div g = j
    <3>1. PICK y, Q, u : y = t \div g /\ Q = t \div gp /\ u = (t % gp) \div g
      OBVIOUS
    <3>2. Q \in Nat /\ u \in 0..(b - 1) /\ y = b * Q + u
      BY <1>11, <3>1
    <3>3. y \div b = Q /\ y % b = u
      BY ONLY <1>3, <3>2, UniqueDivision
    <3>4. C \div b = B /\ C % b = j
      <4>1. j \in 0..(b - 1)
        BY <1>3, <2>1, <2>2
      <4> QED BY ONLY <1>3, <2>3, <4>1, B \in Nat, UniqueDivision
    <3> QED BY ONLY <2>3, <3>1, <3>2, <3>3, <3>4
  <2> QED BY <2>4, <2>6, <2>7
<1> QED BY <1>10, <1>12, <1>13 DEF FallsInto

-----------------------------------------------------------------------------
(* Which thread has an LPU.                                                    *)

IdsKnown == task \in Tasks /\ threadIds = [t \in ThreadsOf(task) |-> ThreadIds(task, t)]

LEMMA TaskFacts ==
  ASSUME IdsKnown
  PROVE  /\ IsTask(task) /\ WellMapped(task) /\ IsMapping(task)
         /\ MostLpus \in Nat
         /\ Len(task.lps) \in Nat /\ LpsIds(task) = 0..Len(task.lps) /\ Root \in LpsIds(task)
         /\ task.maxThreads \in Nat \ {0} /\ task.totalThreads \in 1..task.maxThreads
         /\ ThreadsOf(task) = 0..(task.totalThreads - 1)
         /\ \A t \in ThreadsOf(task) : threadIds[t] = ThreadIds(task, t)
         /\ \A l \in 1..Len(task.lps) : l \in LpsIds(task) /\ l # Root
<1>1. IsTask(task) /\ MostLpus \in Nat
  BY LpuIterationAssumption DEF IdsKnown
<1>2. WellMapped(task) /\ IsMapping(task)
  BY <1>1 DEF IsTask, WellMapped
<1>3. Len(task.lps) \in Nat /\ LpsIds(task) = 0..Len(task.lps)
  BY <1>2, Mapping
<1>4. task.maxThreads \in Nat \ {0} /\ task.totalThreads \in 1..task.maxThreads
  BY <1>2 DEF IsMapping
<1>5. ThreadsOf(task) = 0..(task.totalThreads - 1)
  BY DEF ThreadsOf
<1>6. \A t \in ThreadsOf(task) : threadIds[t] = ThreadIds(task, t)
  BY DEF IdsKnown
<1>7. Root \in LpsIds(task) /\ \A l \in 1..Len(task.lps) : l \in LpsIds(task) /\ l # Root
  BY <1>3 DEF Root
<1> QED BY <1>1, <1>2, <1>3, <1>4, <1>5, <1>6, <1>7

LEMMA LpuCounted ==
  ASSUME IdsKnown, NEW l \in 1..Len(task.lps), NEW k \in Int
  PROVE  LpuCount(l, k) \in 0..MostLpus
<1>1. PICK counts : counts = task.lpuCounts[l]
  OBVIOUS
<1>2. counts \in Seq(0..MostLpus) /\ counts # <<>>
  BY <1>1, TaskFacts DEF IsTask
<1>3. Len(counts) \in Nat \ {0}
  BY <1>2
<1>4. k % Len(counts) \in 0..(Len(counts) - 1)
  BY <1>3, SMT
<1>5. 1 + (k % Len(counts)) \in 1..Len(counts)
  BY <1>3, <1>4
<1>6. LpuCount(l, k) = counts[1 + (k % Len(counts))]
  BY <1>1 DEF LpuCount
<1>7. \A i \in 1..Len(counts) : counts[i] \in 0..MostLpus
  <2>1. PICK S : S = 0..MostLpus
    OBVIOUS
  <2>2. counts \in Seq(S)
    BY <1>2, <2>1
  <2>3. \A i \in 1..Len(counts) : counts[i] \in S
    BY ONLY <2>2
  <2> QED BY <2>1, <2>3
<1> QED BY <1>5, <1>6, <1>7

(* The thread's ids, in terms of the sizes of the groups.                       *)
LEMMA ThreadGroups ==
  ASSUME IdsKnown, NEW t \in ThreadsOf(task), NEW l \in 1..Len(task.lps),
         NEW g, g = GroupSizes(task)[l],
         NEW gp, gp = GroupSizes(task)[Parent(task, l)],
         NEW B, B = t \div gp,
         NEW N, N = (Lesser(gp, task.totalThreads - gp * B) + (g - 1)) \div g,
         NEW w, w = threadIds[t][l]
  PROVE  /\ g \in Nat \ {0} /\ gp \in Nat \ {0} /\ t \in Nat /\ B \in Nat
         /\ gp * B < task.totalThreads
         /\ w.ppuCount = N /\ N \in Nat \ {0}
         /\ w.groupId = (t % gp) \div g /\ w.groupId \in 0..(N - 1)
         /\ w.id # INVALID_ID <=> t % g = 0
<1>1. /\ WellMapped(task) /\ IsMapping(task) /\ w = ThreadIds(task, t)[l]
      /\ t \in Nat /\ t < task.totalThreads /\ task.totalThreads \in Nat
  BY TaskFacts
<1>2. gp = GroupSizes(task)[task.lps[l].parent]
  BY <1>1, Mapping
<1>3. g \in Nat \ {0} /\ gp \in Nat \ {0}
  BY <1>1, <1>2, SizesDivide
<1>4. B \in Nat
  BY <1>1, <1>3, Division
<1>5. gp * B \in Nat /\ gp * B <= t
  BY <1>1, <1>3, MembersPositive
<1>6. /\ w.groupId = (t % gp) \div g
      /\ w.id # INVALID_ID <=> t % g = 0
      /\ w.ppuCount = PpuCountOf(task, g, gp, t)
  BY <1>1, <1>2, IdsOfThread
<1>7. w.ppuCount = N
  BY <1>6 DEF PpuCountOf, GroupMembers
<1>8. gp * B < task.totalThreads
  BY <1>1, <1>5
<1>9. /\ N \in Nat \ {0}
      /\ \A x \in ThreadsOf(task) : x \div gp = B => (x % gp) \div g \in 0..(N - 1)
  <2>1. FallsInto(task, gp, B, g, N)
    BY <1>1, <1>2, <1>4, <1>8, GroupsInGroup
  <2> QED BY <2>1 DEF FallsInto
<1> QED BY <1>1, <1>3, <1>4, <1>6, <1>7, <1>8, <1>9

(* The share of a thread is that of its group, and consists of LPUs.            *)
LEMMA OwnAreLpus ==
  ASSUME IdsKnown, NEW t \in ThreadsOf(task), NEW l \in 1..Len(task.lps), NEW k \in Int
  PROVE  /\ OwnLpus(t, l, k) \subseteq 0..MostLpus
         /\ OwnLpus(t, l, k) \subseteq (IF Partitioned(l) THEN 0..(LpuCount(l, k) - 1) ELSE {0})
<1>1. PICK w : w = threadIds[t][l]
  OBVIOUS
<1>2. w.ppuCount \in Nat \ {0} /\ w.groupId \in 0..(w.ppuCount - 1)
  <2>1. PICK g, gp : g = GroupSizes(task)[l] /\ gp = GroupSizes(task)[Parent(task, l)]
    OBVIOUS
  <2>2. PICK B : B = t \div gp
    OBVIOUS
  <2>3. PICK N : N = (Lesser(gp, task.totalThreads - gp * B) + (g - 1)) \div g
    OBVIOUS
  <2>4. w.ppuCount = N /\ N \in Nat \ {0} /\ w.groupId \in 0..(N - 1)
    BY ONLY IdsKnown, t \in ThreadsOf(task), l \in 1..Len(task.lps), <1>1, <2>1, <2>2, <2>3,
            ThreadGroups
  <2> QED BY <2>4
<1>3. LpuCount(l, k) \in 0..MostLpus /\ MostLpus \in Nat
  BY LpuCounted, TaskFacts
<1>4. LpuCount(l, k) \in Nat
  BY <1>3
<1>5. IdsOf(LpuCount(l, k), w.ppuCount, w.groupId) \subseteq 0..(LpuCount(l, k) - 1)
  BY ONLY <1>2, <1>4, SharesAreIds
<1>6. CASE Partitioned(l)
  <2>1. OwnLpus(t, l, k) = IdsOf(LpuCount(l, k), w.ppuCount, w.groupId)
    BY <1>1, <1>6 DEF OwnLpus
  <2> QED BY <1>3, <1>5, <1>6, <2>1
<1>7. CASE ~Partitioned(l)
  <2>1. OwnLpus(t, l, k) \subseteq {0}
    BY <1>7 DEF OwnLpus
  <2> QED BY <1>3, <1>7, <2>1
<1> QED BY <1>6, <1>7

(* An LPU of an LPS is under one of the parent's.                               *)
Upper(chain, l) == [a \in Path(task, Parent(task, l)) |-> chain[a]]
LEMMA UpperLpu ==
  ASSUME IdsKnown, NEW l \in 1..Len(task.lps), NEW chain \in AllLpus(l),
         NEW k, k = ParentLpu(l, chain),
         NEW up, up = Upper(chain, l)
  PROVE  /\ k \in Nat /\ chain[l] \in Nat
         /\ chain[l] \in (IF Partitioned(l) THEN 0..(LpuCount(l, k) - 1) ELSE {0})
         /\ up \in AllLpus(Parent(task, l))
         /\ \A t : chain \in LpusOf(t, l) <=> up \in LpusOf(t, Parent(task, l))
                                              /\ chain[l] \in OwnLpus(t, l, k)
<1>1. PICK p : p = Parent(task, l)
  OBVIOUS
<1>2. IsMapping(task) /\ l \in LpsIds(task) /\ l # Root /\ MostLpus \in Nat
  BY TaskFacts
<1>3. Path(task, l) = {l} \cup Path(task, p) /\ p \in LpsIds(task) /\ p \in 0..(l - 1)
  BY <1>1, <1>2, Mapping, PathIs
<1>4. Path(task, p) \subseteq 1..p
  BY <1>2, <1>3, PathsNested
<1>5. /\ chain \in [Path(task, l) -> 0..MostLpus]
      /\ \A a \in Path(task, l) : chain[a] \in Below(a, chain)
  BY DEF AllLpus
<1>6. \A a \in Path(task, p) : up[a] = chain[a]
  BY <1>1 DEF Upper
<1>7. ASSUME NEW a \in Path(task, p)
      PROVE  ParentLpu(a, up) = ParentLpu(a, chain) /\ Below(a, up) = Below(a, chain)
  <2>1. Parent(task, a) = Root \/ Parent(task, a) \in Path(task, p)
    BY <1>2, <1>3, PathSteps
  <2>2. ParentLpu(a, up) = ParentLpu(a, chain)
    BY <1>6, <2>1 DEF ParentLpu
  <2> QED BY <2>2 DEF Below
<1>8. up \in AllLpus(p)
  <2>1. up \in [Path(task, p) -> 0..MostLpus]
    BY <1>1, <1>3, <1>5 DEF Upper
  <2>2. \A a \in Path(task, p) : up[a] \in Below(a, up)
    BY <1>3, <1>5, <1>6, <1>7
  <2> QED BY <2>1, <2>2 DEF AllLpus
<1>9. k \in Nat /\ chain[l] \in Nat
  <2>1. chain[l] \in 0..MostLpus
    BY <1>3, <1>5
  <2>2. p = Root \/ p \in Path(task, l)
    BY <1>1, <1>2, <1>3, PathSteps
  <2>3. k = 0 \/ k \in 0..MostLpus
    BY <1>1, <1>5, <2>2 DEF ParentLpu
  <2> QED BY <1>2, <2>1, <2>3
<1>10. chain[l] \in (IF Partitioned(l) THEN 0..(LpuCount(l, k) - 1) ELSE {0})
  BY <1>3, <1>5 DEF Below
<1>11. ASSUME NEW t
       PROVE  chain \in LpusOf(t, l) <=> up \in LpusOf(t, p) /\ chain[l] \in OwnLpus(t, l, k)
  <2>1. chain \in LpusOf(t, l) <=>
          \A a \in Path(task, l) : chain[a] \in OwnLpus(t, a, ParentLpu(a, chain))
    BY DEF LpusOf
  <2>2. up \in LpusOf(t, p) <=>
          \A a \in Path(task, p) : chain[a] \in OwnLpus(t, a, ParentLpu(a, chain))
    BY <1>6, <1>7, <1>8 DEF LpusOf
  <2> QED BY <1>3, <2>1, <2>2
<1> QED BY <1>1, <1>8, <1>9, <1>10, <1>11

(* The threads that come to an LPU are those of one group of its LPS ...         *)
OneGroup(l, chain) ==
  \E B \in Nat : /\ GroupSizes(task)[l] * B \in ThreadsOf(task)
                 /\ \A t \in ThreadsOf(task) :
                      chain \in LpusOf(t, l) <=> t \div GroupSizes(task)[l] = B
LEMMA OneGroupPerLpu ==
  ASSUME IdsKnown
  PROVE  \A l \in LpsIds(task) : \A chain \in AllLpus(l) : OneGroup(l, chain)
<1> DEFINE n == Len(task.lps)
           P(l) == \A chain \in AllLpus(l) : OneGroup(l, chain)
           S == {k \in Nat : \A l \in 0..k : l <= n => P(l)}
<1>1. /\ IsMapping(task) /\ WellMapped(task) /\ n \in Nat /\ LpsIds(task) = 0..n
      /\ task.maxThreads \in Nat \ {0} /\ task.totalThreads \in 1..task.maxThreads
      /\ ThreadsOf(task) = 0..(task.totalThreads - 1)
      /\ \A l \in 1..n : Parent(task, l) \in 0..(l - 1)
  BY TaskFacts, Mapping
<1>2. 0 \in S
  <2> SUFFICES ASSUME NEW chain \in AllLpus(Root) PROVE OneGroup(Root, chain)
    BY DEF Root
  <2>1. Path(task, Root) = {} /\ GroupSizes(task)[Root] = task.maxThreads
    BY <1>1, PathIs, SizesAre
  <2>2. \A t : chain \in LpusOf(t, Root)
    BY <2>1 DEF LpusOf
  <2>3. \A t \in ThreadsOf(task) : t \div task.maxThreads = 0
    <3> SUFFICES ASSUME NEW t \in ThreadsOf(task) PROVE t \div task.maxThreads = 0
      OBVIOUS
    <3>1. t \in 0..(task.maxThreads - 1)
      BY <1>1
    <3> QED BY <1>1, <3>1, SmallRemainder
  <2>4. task.maxThreads * 0 = 0 /\ 0 \in ThreadsOf(task)
    BY <1>1
  <2>5. \A t \in ThreadsOf(task) : chain \in LpusOf(t, Root) <=> t \div GroupSizes(task)[Root] = 0
    BY <2>1, <2>2, <2>3
  <2> QED BY <2>1, <2>4, <2>5 DEF OneGroup
<1>3. ASSUME NEW k \in Nat, k \in S
      PROVE  k + 1 \in S
  <2> SUFFICES ASSUME NEW l \in 1..n, l = k + 1, NEW chain \in AllLpus(l)
               PROVE  OneGroup(l, chain)
    BY <1>1, <1>3
  <2>1. PICK p : p = Parent(task, l)
    OBVIOUS
  <2>2. PICK g, gp : g = GroupSizes(task)[l] /\ gp = GroupSizes(task)[p]
    OBVIOUS
  <2>3. PICK x, up : x = ParentLpu(l, chain) /\ up = Upper(chain, l)
    OBVIOUS
  <2>4. PICK own : own = chain[l]
    OBVIOUS
  <2>5. /\ x \in Nat /\ own \in Nat
        /\ own \in (IF Partitioned(l) THEN 0..(LpuCount(l, x) - 1) ELSE {0})
        /\ up \in AllLpus(p)
        /\ \A t : chain \in LpusOf(t, l) <=> up \in LpusOf(t, p) /\ own \in OwnLpus(t, l, x)
    BY <2>1, <2>3, <2>4, UpperLpu
  <2>6. OneGroup(p, up)
    BY <1>1, <1>3, <2>1, <2>5
  <2>7. PICK B \in Nat : /\ gp * B \in ThreadsOf(task)
                         /\ \A t \in ThreadsOf(task) : up \in LpusOf(t, p) <=> t \div gp = B
    BY <2>2, <2>6 DEF OneGroup
  <2>8. PICK N : N = (Lesser(gp, task.totalThreads - gp * B) + (g - 1)) \div g
    OBVIOUS
  <2>9. gp = GroupSizes(task)[task.lps[l].parent] /\ gp * B < task.totalThreads
    <3>1. gp * B \in Int
      BY <1>1, <2>7
    <3> QED BY <1>1, <2>1, <2>2, <2>7, <3>1, Mapping
  <2>10. /\ N \in Nat \ {0}
         /\ \A j \in 0..(N - 1) : \E C \in Nat :
              /\ g * C \in ThreadsOf(task)
              /\ \A t \in ThreadsOf(task) : t \div g = C <=> t \div gp = B /\ (t % gp) \div g = j
    <3>1. WellMapped(task) /\ l \in 1..Len(task.lps) /\ B \in Nat
      BY <1>1, <2>7
    <3>2. FallsInto(task, gp, B, g, N)
      BY ONLY <2>2, <2>8, <2>9, <3>1, GroupsInGroup
    <3> QED BY <3>2 DEF FallsInto
  <2>11. ASSUME NEW t \in ThreadsOf(task), t \div gp = B
         PROVE  /\ threadIds[t][l].ppuCount = N
                /\ threadIds[t][l].groupId = (t % gp) \div g
                /\ (t % gp) \div g \in 0..(N - 1)
    <3>1. IdsKnown /\ l \in 1..Len(task.lps)
      OBVIOUS
    <3>2. PICK w : w = threadIds[t][l]
      OBVIOUS
    <3>3. /\ w.ppuCount = N /\ w.groupId = (t % gp) \div g /\ w.groupId \in 0..(N - 1)
      BY ONLY <2>1, <2>2, <2>8, t \in ThreadsOf(task), t \div gp = B, <3>1, <3>2, ThreadGroups
    <3> QED BY <3>2, <3>3
  <2>12. \E j \in 0..(N - 1) : \A t \in ThreadsOf(task) :
            t \div gp = B => (own \in OwnLpus(t, l, x) <=> (t % gp) \div g = j)
    <3>1. CASE Partitioned(l)
      <4>1. PICK c : c = LpuCount(l, x)
        OBVIOUS
      <4>2. c \in Nat /\ own \in 0..(c - 1)
        <5>1. c \in 0..MostLpus
          BY <2>5, <4>1, LpuCounted
        <5> QED BY <2>5, <3>1, <4>1, <5>1, TaskFacts
      <4>3. PICK j \in 0..(N - 1) : own \in IdsOf(c, N, j)
        BY ONLY <2>10, <4>2, SharesCover
      <4>4. ASSUME NEW t \in ThreadsOf(task), t \div gp = B
            PROVE  own \in OwnLpus(t, l, x) <=> (t % gp) \div g = j
        <5>1. PICK i : i = (t % gp) \div g
          OBVIOUS
        <5>2. OwnLpus(t, l, x) = IdsOf(c, N, i) /\ i \in 0..(N - 1)
          BY <2>11, <3>1, <4>1, <4>4, <5>1 DEF OwnLpus
        <5>3. i # j => IdsOf(c, N, i) \cap IdsOf(c, N, j) = {}
          BY ONLY <2>10, <4>2, <4>3, <5>2, SharesDisjoint
        <5> QED BY <4>3, <5>1, <5>2, <5>3
      <4> QED BY <4>4
    <3>2. CASE ~Partitioned(l)
      <4>1. own = 0
        BY <2>5, <3>2
      <4>2. gp = g /\ g \in Nat \ {0}
        BY <1>1, <2>2, <2>9, <3>2, SizesDivide DEF Partitioned
      <4>3. ASSUME NEW t \in ThreadsOf(task), t \div gp = B
            PROVE  own \in OwnLpus(t, l, x) <=> (t % gp) \div g = 0
        <5>1. t \in Nat
          BY <1>1
        <5>2. t % g \in 0..(g - 1)
          BY <4>2, <5>1, Division
        <5>3. (t % g) \div g = 0
          BY <4>2, <5>2, SmallRemainder
        <5>4. OwnLpus(t, l, x) = {0}
          BY <2>11, <3>2, <4>2, <4>3, <5>3 DEF OwnLpus
        <5> QED BY <4>1, <4>2, <5>3, <5>4
      <4>4. 0 \in 0..(N - 1)
        BY <2>10
      <4> QED BY <4>3, <4>4
    <3> QED BY <3>1, <3>2
  <2>13. PICK j \in 0..(N - 1) : \A t \in ThreadsOf(task) :
            t \div gp = B => (own \in OwnLpus(t, l, x) <=> (t % gp) \div g = j)
    BY <2>12
  <2>14. PICK C \in Nat :
            /\ g * C \in ThreadsOf(task)
            /\ \A t \in ThreadsOf(task) : t \div g = C <=> t \div gp = B /\ (t % gp) \div g = j
    BY <2>10
  <2>15. \A t \in ThreadsOf(task) : chain \in LpusOf(t, l) <=> t \div g = C
    BY <2>5, <2>7, <2>13, <2>14
  <2> QED BY <2>2, <2>14, <2>15 DEF OneGroup
<1>4. n \in S
  <2> HIDE DEF S
  <2> QED BY <1>1, <1>2, <1>3, Induction
<1> QED BY <1>1, <1>4

(* ... and exactly one of them executes its code.                               *)
Executes(t, l) == threadIds[t][l].id # INVALID_ID
LEMMA OneThreadPerLpu ==
  ASSUME IdsKnown, NEW l \in LpsIds(task), NEW chain \in AllLpus(l)
  PROVE  \E t \in ThreadsOf(task) :
           /\ chain \in LpusOf(t, l) /\ Executes(t, l)
           /\ \A u \in ThreadsOf(task) : chain \in LpusOf(u, l) /\ Executes(u, l) => u = t
<1>1. PICK g : g = GroupSizes(task)[l]
  OBVIOUS
<1>2. /\ IsMapping(task) /\ WellMapped(task)
      /\ ThreadsOf(task) = 0..(task.totalThreads - 1)
      /\ task.maxThreads \in Nat \ {0} /\ task.totalThreads \in 1..task.maxThreads
      /\ \A t \in ThreadsOf(task) : threadIds[t] = ThreadIds(task, t)
  BY TaskFacts
<1>3. g \in Nat \ {0}
  BY <1>1, <1>2, SizesPositive
<1>4. PICK B \in Nat : /\ g * B \in ThreadsOf(task)
                       /\ \A t \in ThreadsOf(task) : chain \in LpusOf(t, l) <=> t \div g = B
  BY <1>1, OneGroupPerLpu DEF OneGroup
<1>5. ASSUME NEW t \in ThreadsOf(task)
      PROVE  Executes(t, l) <=> t % g = 0
  <2>1. CASE l = Root
    <3>1. g = task.maxThreads
      BY <1>1, <1>2, <2>1, SizesAre
    <3>2. t \in 0..(g - 1)
      BY <1>2, <3>1
    <3>3. t % g = t
      BY <1>3, <3>2, SmallRemainder
    <3> QED BY <1>2, <2>1, <3>3, IdsOfRoot DEF Executes
  <2>2. CASE l # Root
    <3>1. l \in 1..Len(task.lps)
      BY <2>2, TaskFacts DEF Root
    <3> QED BY <1>1, <3>1, ThreadGroups DEF Executes
  <2> QED BY <2>1, <2>2
<1>6. ASSUME NEW t \in ThreadsOf(task)
      PROVE  t \div g = B /\ t % g = 0 <=> t = g * B
  <2>1. t \in Nat /\ g * B \in Nat
    BY <1>2, <1>4
  <2>2. t = (g * (t \div g)) + (t % g)
    BY <1>3, <2>1, Division
  <2>3. g * B = g * B + 0 /\ 0 \in 0..(g - 1)
    BY <1>3, <2>1
  <2>4. (g * B) \div g = B /\ (g * B) % g = 0
    BY <1>3, <1>4, <2>3, UniqueDivision
  <2> QED BY <2>1, <2>2, <2>4
<1>7. \A u \in ThreadsOf(task) : chain \in LpusOf(u, l) /\ Executes(u, l) <=> u = g * B
  BY <1>4, <1>5, <1>6
<1> QED BY <1>4, <1>7

-----------------------------------------------------------------------------
(* The PPU counts.                                                             *)

(* Threads are in the same group of an LPS if they are in the same groups of it *)
(* and the LPSes above it.                                                     *)
SameGroups(t, u, l) == \A a \in Path(task, l) : threadIds[t][a].groupId = threadIds[u][a].groupId
LEMMA OneGroupPerPath ==
  ASSUME IdsKnown
  PROVE  \A l \in LpsIds(task) : \A t, u \in ThreadsOf(task) :
           SameGroups(t, u, l) <=> t \div GroupSizes(task)[l] = u \div GroupSizes(task)[l]
<1> DEFINE n == Len(task.lps)
           G(l) == GroupSizes(task)[l]
           P(l) == \A t, u \in ThreadsOf(task) : SameGroups(t, u, l) <=> t \div G(l) = u \div G(l)
           S == {k \in Nat : \A l \in 0..k : l <= n => P(l)}
<1>1. /\ IsMapping(task) /\ WellMapped(task) /\ n \in Nat /\ LpsIds(task) = 0..n
      /\ task.maxThreads \in Nat \ {0} /\ task.totalThreads \in 1..task.maxThreads
      /\ ThreadsOf(task) = 0..(task.totalThreads - 1)
      /\ \A l \in 1..n : /\ Parent(task, l) \in 0..(l - 1)
                         /\ Parent(task, l) = task.lps[l].parent
                         /\ task.lps[l].partitions \in Nat \ {0}
  BY TaskFacts, Mapping
<1>2. 0 \in S
  <2>1. Path(task, Root) = {} /\ GroupSizes(task)[Root] = task.maxThreads
    BY <1>1, PathIs, SizesAre
  <2>2. \A t \in ThreadsOf(task) : t \div task.maxThreads = 0
    <3> SUFFICES ASSUME NEW t \in ThreadsOf(task) PROVE t \div task.maxThreads = 0
      OBVIOUS
    <3>1. t \in 0..(task.maxThreads - 1)
      BY <1>1
    <3> QED BY <1>1, <3>1, SmallRemainder
  <2>3. \A t, u \in ThreadsOf(task) : SameGroups(t, u, Root)
    BY <2>1 DEF SameGroups
  <2>4. P(Root)
    BY <2>1, <2>2, <2>3
  <2> QED BY <2>4 DEF Root
<1>3. ASSUME NEW k \in Nat, k \in S
      PROVE  k + 1 \in S
  <2> SUFFICES ASSUME NEW l \in 1..n, l = k + 1,
                      NEW t \in ThreadsOf(task), NEW u \in ThreadsOf(task)
               PROVE  SameGroups(t, u, l) <=> t \div G(l) = u \div G(l)
    BY <1>1, <1>3
  <2>1. PICK p, g, gp : p = Parent(task, l) /\ g = G(l) /\ gp = G(p)
    OBVIOUS
  <2>2. SameGroups(t, u, p) <=> t \div gp = u \div gp
    <3>1. p \in 0..k /\ p <= n
      BY <1>1, <2>1
    <3> QED BY <1>3, <2>1, <3>1
  <2>3. Path(task, l) = {l} \cup Path(task, p)
    BY <1>1, <2>1, PathIs
  <2>4. /\ g \in Nat \ {0} /\ gp \in Nat \ {0}
        /\ \E b \in Nat \ {0} : gp = g * b
    <3>1. gp = GroupSizes(task)[task.lps[l].parent]
      BY <1>1, <2>1
    <3>2. /\ g \in Nat \ {0} /\ gp \in Nat \ {0}
          /\ gp = g \/ gp = g * task.lps[l].partitions
      <4>1. WellMapped(task) /\ l \in 1..Len(task.lps) /\ g = GroupSizes(task)[l]
        BY <1>1, <2>1
      <4> QED BY ONLY <3>1, <4>1, SizesDivide
    <3>3. g = g * 1 /\ 1 \in Nat \ {0}
      BY <3>2
    <3>4. task.lps[l].partitions \in Nat \ {0}
      BY <1>1
    <3> QED BY ONLY <3>2, <3>3, <3>4, Zenon
  <2>5. PICK b \in Nat \ {0} : gp = g * b
    BY <2>4
  <2> DEFINE q(x) == x \div gp
             r(x) == (x % gp) \div g
  <2>6. ASSUME NEW x \in ThreadsOf(task)
        PROVE  /\ q(x) \in Nat /\ r(x) \in 0..(b - 1) /\ x \div g = b * q(x) + r(x)
               /\ threadIds[x][l].groupId = r(x)
               /\ (x \div g) \div b = q(x) /\ (x \div g) % b = r(x)
    <3>1. x \in Nat
      BY <1>1
    <3>2. q(x) \in Nat
      BY <2>4, <3>1, Division
    <3>3. r(x) \in 0..(b - 1) /\ x \div g = b * q(x) + r(x)
      BY ONLY <2>4, <2>5, <3>1, NestedDivision
    <3>4. threadIds[x][l].groupId = r(x)
      <4>1. threadIds[x] = ThreadIds(task, x)
        BY TaskFacts
      <4>2. gp = GroupSizes(task)[task.lps[l].parent]
        BY <1>1, <2>1
      <4>3. WellMapped(task) /\ l \in 1..Len(task.lps) /\ g = GroupSizes(task)[l]
            /\ x \in ThreadsOf(task)
        BY <1>1, <2>1
      <4>4. PICK w : w = ThreadIds(task, x)[l]
        OBVIOUS
      <4>5. w.groupId = r(x)
        BY ONLY <4>2, <4>3, <4>4, IdsOfThread
      <4> QED BY <4>1, <4>4, <4>5
    <3>5. (x \div g) \div b = q(x) /\ (x \div g) % b = r(x)
      <4> HIDE DEF q, r
      <4> QED BY ONLY <2>5, <3>2, <3>3, UniqueDivision
    <3> QED BY <3>2, <3>3, <3>4, <3>5
  <2>7. t \div g = u \div g <=> q(t) = q(u) /\ r(t) = r(u)
    <3>1. /\ t \div g = b * q(t) + r(t) /\ u \div g = b * q(u) + r(u)
          /\ (t \div g) \div b = q(t) /\ (t \div g) % b = r(t)
          /\ (u \div g) \div b = q(u) /\ (u \div g) % b = r(u)
      BY <2>6
    <3> HIDE DEF q, r
    <3> QED BY ONLY <3>1, Zenon
  <2>8. SameGroups(t, u, l) <=> SameGroups(t, u, p) /\ r(t) = r(u)
    <3>1. SameGroups(t, u, l) <=> SameGroups(t, u, p)
                                  /\ threadIds[t][l].groupId = threadIds[u][l].groupId
      BY <2>3 DEF SameGroups
    <3> QED BY <2>6, <3>1
  <2> QED BY <2>1, <2>2, <2>7, <2>8
<1>4. n \in S
  <2> HIDE DEF S
  <2> QED BY <1>1, <1>2, <1>3, Induction
<1> QED BY <1>1, <1>4

LEMMA CountsActual ==
  ASSUME IdsKnown, thread \in ThreadsOf(task)
  PROVE  PpuCountsActual
<1> SUFFICES ASSUME NEW l \in LpsIds(task)
             PROVE  PpuIds(l).ppuCount =
                      Cardinality({threadIds[t][l].groupId : t \in Siblings(l)})
  BY DEF PpuCountsActual
<1>1. /\ IsMapping(task) /\ WellMapped(task)
      /\ ThreadsOf(task) = 0..(task.totalThreads - 1)
      /\ task.maxThreads \in Nat \ {0} /\ task.totalThreads \in 1..task.maxThreads
      /\ \A t \in ThreadsOf(task) : threadIds[t] = ThreadIds(task, t)
  BY TaskFacts
<1> DEFINE ids == {threadIds[t][l].groupId : t \in Siblings(l)}
<1>2. CASE l = Root
  <2>1. thread \in Siblings(Root)
    <3>1. Path(task, Root) = {}
      BY <1>1, PathIs
    <3> QED BY <3>1 DEF Siblings
  <2>2. ids = {0}
    <3>1. \A t \in Siblings(Root) : threadIds[t][Root].groupId = 0
      BY <1>1, IdsOfRoot DEF Siblings
    <3> QED BY <1>2, <2>1, <3>1
  <2>3. Cardinality({0}) = 1
    BY FS_Singleton
  <2>4. threadIds[thread][Root].ppuCount = 1
    <3>1. threadIds[thread] = ThreadIds(task, thread)
      BY <1>1
    <3> QED BY <1>1, <3>1, IdsOfRoot
  <2> QED BY <1>2, <2>2, <2>3, <2>4 DEF PpuIds
<1>3. CASE l # Root
  <2>1. l \in 1..Len(task.lps)
    BY <1>3, TaskFacts DEF Root
  <2>2. PICK p, g, gp : p = Parent(task, l) /\ g = GroupSizes(task)[l] /\ gp = GroupSizes(task)[p]
    OBVIOUS
  <2>3. PICK B : B = thread \div gp
    OBVIOUS
  <2>4. PICK N : N = (Lesser(gp, task.totalThreads - gp * B) + (g - 1)) \div g
    OBVIOUS
  <2>5. /\ g \in Nat \ {0} /\ gp \in Nat \ {0} /\ B \in Nat
        /\ gp * B < task.totalThreads
        /\ threadIds[thread][l].ppuCount = N /\ N \in Nat \ {0}
    BY <2>1, <2>2, <2>3, <2>4, ThreadGroups
  <2>6. gp = GroupSizes(task)[task.lps[l].parent]
    BY <1>1, <2>1, <2>2, Mapping
  <2>7. /\ \A t \in ThreadsOf(task) : t \div gp = B => (t % gp) \div g \in 0..(N - 1)
        /\ \A j \in 0..(N - 1) : \E C \in Nat :
             /\ g * C \in ThreadsOf(task)
             /\ \A t \in ThreadsOf(task) : t \div g = C <=> t \div gp = B /\ (t % gp) \div g = j
    <3>1. WellMapped(task) /\ B \in Nat /\ gp * B < task.totalThreads
      BY <1>1, <2>5
    <3>2. FallsInto(task, gp, B, g, N)
      BY ONLY <2>1, <2>2, <2>4, <2>6, <3>1, GroupsInGroup
    <3> QED BY <3>2 DEF FallsInto
  <2>8. \A t \in ThreadsOf(task) : threadIds[t][l].groupId = (t % gp) \div g
    BY <1>1, <2>1, <2>2, <2>6, IdsOfThread
  <2>9. Siblings(l) = {t \in ThreadsOf(task) : t \div gp = B}
    <3>1. Path(task, l) \ {l} = Path(task, p) /\ p \in LpsIds(task)
      <4>1. Path(task, l) = {l} \cup Path(task, p) /\ p \in 0..(l - 1) /\ p \in LpsIds(task)
        BY <1>1, <2>1, <2>2, PathIs, Mapping
      <4>2. Path(task, p) \subseteq 1..p
        BY <1>1, <4>1, PathsNested
      <4>3. l \notin Path(task, p)
        BY <2>1, <4>1, <4>2
      <4> QED BY <4>1, <4>3
    <3>2. Siblings(l) = {t \in ThreadsOf(task) : SameGroups(t, thread, p)}
      BY <3>1 DEF Siblings, SameGroups, PpuIds
    <3>3. \A t \in ThreadsOf(task) : SameGroups(t, thread, p) <=> t \div gp = B
      BY <2>2, <2>3, <3>1, OneGroupPerPath
    <3> QED BY <3>2, <3>3
  <2>10. ids = 0..(N - 1)
    <3>1. ids \subseteq 0..(N - 1)
      BY <2>7, <2>8, <2>9
    <3>2. ASSUME NEW j \in 0..(N - 1)
          PROVE  j \in ids
      <4>1. PICK C \in Nat :
              /\ g * C \in ThreadsOf(task)
              /\ \A t \in ThreadsOf(task) : t \div g = C <=> t \div gp = B /\ (t % gp) \div g = j
        BY <2>7
      <4>2. PICK t : t = g * C
        OBVIOUS
      <4>3. t \in Nat
        BY <1>1, <4>1, <4>2
      <4>4. t = g * C + 0 /\ 0 \in 0..(g - 1)
        BY <2>5, <4>2, <4>3
      <4>5. t \div g = C
        BY ONLY C \in Nat, <2>5, <4>4, UniqueDivision
      <4>6. t \in Siblings(l) /\ threadIds[t][l].groupId = j
        BY <2>8, <2>9, <4>1, <4>2, <4>5
      <4> QED BY <4>6
    <3> QED BY <3>1, <3>2
  <2>11. Cardinality(0..(N - 1)) = N
    <3>1. 0 \in Int /\ N - 1 \in Int /\ 0 <= N - 1
      BY <2>5
    <3>2. PICK b : b = N - 1
      OBVIOUS
    <3>3. Cardinality(0..b) = b - 0 + 1
      BY ONLY <3>1, <3>2, FS_Interval
    <3> QED BY <2>5, <3>2, <3>3
  <2> QED BY <2>5, <2>10, <2>11 DEF PpuIds
<1> QED BY <1>2, <1>3

-----------------------------------------------------------------------------
(* The loops around the instructions.                                          *)

LEMMA CodeFacts ==
  ASSUME IdsKnown
  PROVE  /\ Len(task.code) \in Nat
         /\ \A i \in 1..Len(task.code) : \/ task.code[i].op = "loop"  /\ IsLoop(task, i)
                                         \/ task.code[i].op = "stage" /\ IsStage(task, i)
                                         \/ task.code[i].op = "end"   /\ IsEnd(task, i)
  BY TaskFacts DEF IsTask

LEMMA LoopFacts ==
  ASSUME IdsKnown, NEW i \in 1..Len(task.code), task.code[i].op = "loop"
  PROVE  /\ task.code[i].lps \in 1..Len(task.lps)
         /\ task.code[i].container \in {Root} \cup Path(task, task.code[i].lps)
         /\ task.code[i].container \in LpsIds(task)
         /\ task.code[i].container < task.code[i].lps
         /\ StandsUnder(task, i, task.code[i].container)
         /\ task.code[i].target \in (i + 2)..(Len(task.code) + 1)
         /\ task.code[task.code[i].target - 1].op = "end"
         /\ task.code[task.code[i].target - 1].target = i
         /\ \A h \in Enclosing(i) : task.code[i].target < task.code[h].target
<1>1. IsLoop(task, i)
  BY CodeFacts
<1>2. /\ task.code[i].lps \in 1..Len(task.lps)
      /\ task.code[i].container \in {Root} \cup Path(task, task.code[i].lps)
      /\ task.code[i].container < task.code[i].lps
      /\ StandsUnder(task, i, task.code[i].container)
      /\ task.code[i].target \in (i + 2)..(Len(task.code) + 1)
      /\ task.code[task.code[i].target - 1] = EndLoop(i)
      /\ \A h \in Enclosing(i) : task.code[i].target < task.code[h].target
  BY <1>1 DEF IsLoop, Enclosing
<1>3. task.code[task.code[i].target - 1].op = "end" /\ task.code[task.code[i].target - 1].target = i
  BY <1>2 DEF EndLoop
<1>4. task.code[i].container \in LpsIds(task)
  <2>1. IsMapping(task) /\ task.code[i].lps \in LpsIds(task) /\ Root \in LpsIds(task)
    BY <1>2, TaskFacts
  <2>2. \A b \in Path(task, task.code[i].lps) : b \in 1..Len(task.lps)
    BY <2>1, PathSteps
  <2> QED BY <1>2, <2>1, <2>2, TaskFacts
<1> QED BY <1>2, <1>3, <1>4

LEMMA EnclosingFacts ==
  ASSUME IdsKnown, NEW i \in 1..(Len(task.code) + 1), NEW h \in Enclosing(i)
  PROVE  /\ h \in 1..Len(task.code) /\ h < i
         /\ task.code[h].op = "loop" /\ i < task.code[h].target
         /\ task.code[h].target \in (h + 2)..(Len(task.code) + 1)
<1>1. h \in 1..(i - 1) /\ task.code[h].op = "loop" /\ i < task.code[h].target
  BY DEF Enclosing, LoopsAround
<1>2. h \in 1..Len(task.code) /\ h < i
  BY <1>1, CodeFacts
<1> QED BY <1>1, <1>2, LoopFacts

LEMMA EnclosingIs ==
  ASSUME IdsKnown, NEW i \in 1..(Len(task.code) + 1), NEW h \in 1..Len(task.code), h < i,
         task.code[h].op = "loop", i < task.code[h].target
  PROVE  h \in Enclosing(i)
  BY CodeFacts DEF Enclosing, LoopsAround

(* A loop around a loop around an instruction is around it.                     *)
LEMMA EnclosingNested ==
  ASSUME IdsKnown, NEW i \in 1..(Len(task.code) + 1), NEW h \in Enclosing(i)
  PROVE  Enclosing(h) \subseteq Enclosing(i)
<1> SUFFICES ASSUME NEW k \in Enclosing(h) PROVE k \in Enclosing(i)
  OBVIOUS
<1>1. h \in 1..Len(task.code) /\ h < i /\ task.code[h].op = "loop" /\ i < task.code[h].target
  BY EnclosingFacts
<1>2. k \in 1..Len(task.code) /\ k < h /\ task.code[k].op = "loop"
  <2>1. h \in 1..(Len(task.code) + 1)
    BY <1>1, CodeFacts
  <2> QED BY <2>1, EnclosingFacts
<1>3. task.code[h].target < task.code[k].target
  BY <1>1, LoopFacts
<1>4. i < task.code[k].target
  <2>1. task.code[h].target \in Int /\ task.code[k].target \in Int
    BY <1>1, <1>2, LoopFacts
  <2> QED BY <1>1, <1>3, <2>1
<1>5. k < i
  BY <1>1, <1>2
<1> QED BY <1>2, <1>4, <1>5, EnclosingIs

LEMMA AfterStage ==
  ASSUME IdsKnown, NEW i \in 1..Len(task.code), task.code[i].op = "stage"
  PROVE  Enclosing(i + 1) = Enclosing(i)
<1>1. Len(task.code) \in Nat /\ i + 1 \in 1..(Len(task.code) + 1) /\ i \in 1..(Len(task.code) + 1)
  BY CodeFacts
<1>2. ASSUME NEW h \in Enclosing(i + 1)
      PROVE  h \in Enclosing(i)
  <2>1. /\ h \in 1..Len(task.code) /\ h < i + 1 /\ task.code[h].op = "loop"
        /\ i + 1 < task.code[h].target /\ task.code[h].target \in Int
    BY <1>1, EnclosingFacts
  <2>2. h # i
    BY <2>1
  <2> QED BY <1>1, <2>1, <2>2, EnclosingIs
<1>3. ASSUME NEW h \in Enclosing(i)
      PROVE  h \in Enclosing(i + 1)
  <2>1. /\ h \in 1..Len(task.code) /\ h < i /\ task.code[h].op = "loop"
        /\ i < task.code[h].target /\ task.code[h].target \in Int
    BY <1>1, EnclosingFacts
  <2>2. task.code[h].target # i + 1
    <3>1. SUFFICES ASSUME task.code[h].target = i + 1 PROVE FALSE
      OBVIOUS
    <3>2. task.code[task.code[h].target - 1].op = "end"
      BY <2>1, LoopFacts
    <3>3. task.code[h].target - 1 = i
      BY <3>1
    <3> QED BY <3>2, <3>3
  <2> QED BY <1>1, <2>1, <2>2, EnclosingIs
<1> QED BY <1>2, <1>3

LEMMA InLoop ==
  ASSUME IdsKnown, NEW i \in 1..Len(task.code), task.code[i].op = "loop"
  PROVE  /\ i + 1 \in 1..Len(task.code)
         /\ Enclosing(i + 1) = Enclosing(i) \cup {i}
         /\ i \notin Enclosing(i)
<1>1. Len(task.code) \in Nat /\ i + 1 \in 1..(Len(task.code) + 1) /\ i \in 1..(Len(task.code) + 1)
  BY CodeFacts
<1>2. task.code[i].target \in (i + 2)..(Len(task.code) + 1)
  BY LoopFacts
<1>3. i \notin Enclosing(i)
  BY <1>1, EnclosingFacts
<1>4. ASSUME NEW h \in Enclosing(i + 1)
      PROVE  h \in Enclosing(i) \cup {i}
  <2>1. /\ h \in 1..Len(task.code) /\ h < i + 1 /\ task.code[h].op = "loop"
        /\ i + 1 < task.code[h].target /\ task.code[h].target \in Int
    BY <1>1, EnclosingFacts
  <2>2. h # i => h < i
    BY <2>1
  <2> QED BY <1>1, <2>1, <2>2, EnclosingIs
<1>5. ASSUME NEW h \in Enclosing(i)
      PROVE  h \in Enclosing(i + 1)
  <2>1. /\ h \in 1..Len(task.code) /\ h < i /\ task.code[h].op = "loop"
        /\ i < task.code[h].target /\ task.code[h].target \in Int
    BY <1>1, EnclosingFacts
  <2>2. task.code[i].target < task.code[h].target
    BY LoopFacts
  <2> QED BY <1>1, <1>2, <2>1, <2>2, EnclosingIs
<1>6. i \in Enclosing(i + 1)
  BY <1>1, <1>2, EnclosingIs
<1> QED BY <1>1, <1>2, <1>3, <1>4, <1>5, <1>6

LEMMA AfterLoop ==
  ASSUME IdsKnown, NEW i \in 1..Len(task.code), task.code[i].op = "loop"
  PROVE  Enclosing(task.code[i].target) = Enclosing(i)
<1>1. Len(task.code) \in Nat /\ i \in 1..(Len(task.code) + 1)
  BY CodeFacts
<1>2. PICK e : e = task.code[i].target
  OBVIOUS
<1>3. e \in (i + 2)..(Len(task.code) + 1) /\ e \in 1..(Len(task.code) + 1)
  BY <1>1, <1>2, LoopFacts
<1>4. ASSUME NEW h \in Enclosing(i)
      PROVE  h \in Enclosing(e)
  <2>1. /\ h \in 1..Len(task.code) /\ h < i /\ task.code[h].op = "loop"
        /\ task.code[h].target \in Int
    BY <1>1, EnclosingFacts
  <2>2. e < task.code[h].target /\ h < e
    BY <1>1, <1>2, <1>3, <2>1, LoopFacts
  <2> QED BY <1>3, <2>1, <2>2, EnclosingIs
<1>5. ASSUME NEW h \in Enclosing(e)
      PROVE  h \in Enclosing(i)
  <2>1. /\ h \in 1..Len(task.code) /\ h < e /\ task.code[h].op = "loop"
        /\ e < task.code[h].target /\ task.code[h].target \in Int
    BY <1>3, EnclosingFacts
  <2>2. h # i
    BY <1>2, <1>3, <2>1
  <2>3. ~ i < h
    <3>1. SUFFICES ASSUME i < h PROVE FALSE
      OBVIOUS
    <3>2. i \in Enclosing(h)
      BY <1>1, <1>2, <2>1, <3>1, EnclosingIs
    <3>3. task.code[h].target < e
      BY <1>2, <2>1, <3>2, LoopFacts
    <3> QED BY <1>3, <2>1, <3>3
  <2>4. h < i /\ i < task.code[h].target
    BY <1>1, <1>3, <2>1, <2>2, <2>3
  <2> QED BY <1>1, <2>1, <2>4, EnclosingIs
<1> QED BY <1>2, <1>4, <1>5

LEMMA EndFacts ==
  ASSUME IdsKnown, NEW i \in 1..Len(task.code), task.code[i].op = "end",
         NEW h, h = task.code[i].target
  PROVE  /\ h \in 1..Len(task.code) /\ h < i
         /\ task.code[h].op = "loop" /\ task.code[h].target = i + 1
         /\ Enclosing(i) = Enclosing(h) \cup {h}
<1>1. Len(task.code) \in Nat /\ i \in 1..(Len(task.code) + 1) /\ i + 1 \in 1..(Len(task.code) + 1)
  BY CodeFacts
<1>2. h \in 1..(i - 1) /\ task.code[h].op = "loop" /\ task.code[h].target = i + 1
  BY CodeFacts DEF IsEnd
<1>3. h \in 1..Len(task.code) /\ h < i /\ h \in 1..(Len(task.code) + 1)
  BY <1>1, <1>2
<1>4. h \in Enclosing(i)
  BY <1>1, <1>2, <1>3, EnclosingIs
<1>5. Enclosing(h) \subseteq Enclosing(i)
  BY <1>1, <1>4, EnclosingNested
<1>6. ASSUME NEW k \in Enclosing(i)
      PROVE  k \in Enclosing(h) \cup {h}
  <2>1. /\ k \in 1..Len(task.code) /\ k < i /\ task.code[k].op = "loop"
        /\ i < task.code[k].target /\ task.code[k].target \in Int
    BY <1>1, EnclosingFacts
  <2>2. ~ h < k
    <3>1. SUFFICES ASSUME h < k PROVE FALSE
      OBVIOUS
    <3>2. h \in Enclosing(k)
      BY <1>1, <1>2, <1>3, <2>1, <3>1, EnclosingIs
    <3>3. task.code[k].target < task.code[h].target
      BY <2>1, <3>2, LoopFacts
    <3> QED BY <1>1, <1>2, <2>1, <3>3
  <2>3. k # h => k < h /\ h < task.code[k].target
    BY <1>3, <2>1, <2>2
  <2> QED BY <1>3, <2>1, <2>3, EnclosingIs
<1> QED BY <1>2, <1>3, <1>4, <1>5, <1>6

LEMMA NoLoopsOutside ==
  ASSUME IdsKnown
  PROVE  Enclosing(1) = {} /\ Enclosing(Len(task.code) + 1) = {}
<1>1. Len(task.code) \in Nat
  BY CodeFacts
<1>2. Enclosing(1) = {}
  BY DEF Enclosing, LoopsAround
<1>3. ASSUME NEW h \in Enclosing(Len(task.code) + 1)
      PROVE  FALSE
  BY <1>1, EnclosingFacts
<1> QED BY <1>2, <1>3

(* The LPSes of the loops around an instruction.                                *)
LEMMA PathsUnder ==
  ASSUME IdsKnown, NEW i, NEW l \in LpsIds(task), StandsUnder(task, i, l)
  PROVE  /\ PathsOf(Enclosing(i)) = Path(task, l)
         /\ \A h \in Enclosing(i) : /\ task.code[h].lps \in Path(task, l)
                                    /\ task.code[h].lps \in 1..l
                                    /\ Path(task, task.code[h].lps) \subseteq Path(task, l)
<1>1. IsMapping(task)
  BY TaskFacts
<1>2. ASSUME NEW h \in Enclosing(i)
      PROVE  /\ task.code[h].lps \in Path(task, l)
             /\ task.code[h].lps \in 1..l
             /\ Path(task, task.code[h].lps) \subseteq Path(task, l)
  <2>1. task.code[h].lps \in Path(task, l)
    BY DEF StandsUnder, Enclosing
  <2>2. PICK b : b = task.code[h].lps
    OBVIOUS
  <2>3. b \in 1..l /\ Path(task, b) = {x \in Path(task, l) : x <= b}
    <3>1. b \in Path(task, l)
      BY <2>1, <2>2
    <3> QED BY ONLY <1>1, <3>1, l \in LpsIds(task), PathSteps
  <2> QED BY <2>1, <2>2, <2>3
<1>3. PathsOf(Enclosing(i)) \subseteq Path(task, l)
  BY <1>2 DEF PathsOf
<1>4. Path(task, l) \subseteq PathsOf(Enclosing(i))
  <2>1. CASE l = Root
    <3>1. Path(task, l) = {}
      BY <1>1, <2>1, PathIs
    <3> QED BY <3>1
  <2>2. CASE l # Root
    <3>1. PICK h \in Enclosing(i) : task.code[h].lps = l
      BY <2>2 DEF StandsUnder, Enclosing
    <3> QED BY <3>1 DEF PathsOf
  <2> QED BY <2>1, <2>2
<1> QED BY <1>2, <1>3, <1>4

LEMMA LoopPaths ==
  ASSUME IdsKnown, NEW i \in 1..Len(task.code), task.code[i].op = "loop",
         NEW l, l = task.code[i].lps, NEW c, c = task.code[i].container
  PROVE  /\ l \in LpsIds(task) /\ l # Root /\ c \in LpsIds(task) /\ c < l
         /\ c = Root \/ c \in Path(task, l)
         /\ Path(task, c) = {a \in Path(task, l) : a <= c}
         /\ PathsOf(Enclosing(i)) = Path(task, c)
         /\ PathsOf(Enclosing(i + 1)) = Path(task, l)
         /\ \A h \in Enclosing(i) : task.code[h].container < c /\ c # Root
<1>1. IsMapping(task)
  BY TaskFacts
<1>2. l \in 1..Len(task.lps) /\ c \in LpsIds(task) /\ c < l /\ (c = Root \/ c \in Path(task, l))
      /\ StandsUnder(task, i, c)
  BY LoopFacts
<1>3. l \in LpsIds(task) /\ l # Root
  BY <1>2, TaskFacts
<1>4. Path(task, c) = {a \in Path(task, l) : a <= c}
  <2>1. CASE c = Root
    <3>1. Path(task, c) = {}
      BY <1>1, <2>1, PathIs
    <3>2. Path(task, l) \subseteq 1..l
      BY <1>1, <1>3, PathsNested
    <3> QED BY <2>1, <3>1, <3>2, <1>2, TaskFacts DEF Root
  <2>2. CASE c # Root
    <3>1. c \in Path(task, l)
      BY <1>2, <2>2
    <3> QED BY ONLY <1>1, <1>3, <3>1, PathSteps
  <2> QED BY <2>1, <2>2
<1>5. PathsOf(Enclosing(i)) = Path(task, c)
  BY <1>2, PathsUnder
<1>6. PathsOf(Enclosing(i + 1)) = Path(task, l)
  <2>1. PathsOf(Enclosing(i + 1)) = PathsOf(Enclosing(i)) \cup Path(task, l)
    BY InLoop DEF PathsOf
  <2> QED BY <1>4, <1>5, <2>1
<1>7. ASSUME NEW h \in Enclosing(i)
      PROVE  task.code[h].container < c /\ c # Root
  <2>1. h \in 1..Len(task.code) /\ task.code[h].op = "loop"
    BY EnclosingFacts, CodeFacts
  <2>2. task.code[h].lps \in 1..c
    BY <1>2, PathsUnder
  <2>3. task.code[h].container \in 0..Len(task.lps) /\ task.code[h].container < task.code[h].lps
    BY <2>1, LoopFacts, TaskFacts
  <2> QED BY <1>2, <2>2, <2>3, TaskFacts DEF Root
<1> QED BY <1>2, <1>3, <1>4, <1>5, <1>6, <1>7

LEMMA StagePaths ==
  ASSUME IdsKnown, NEW i \in Stages, NEW l, l = task.code[i].lps
  PROVE  /\ i \in 1..Len(task.code) /\ i \in 1..(Len(task.code) + 1) /\ i \in Nat
         /\ task.code[i].op = "stage"
         /\ l \in LpsIds(task)
         /\ PathsOf(Enclosing(i)) = Path(task, l)
         /\ \A h \in Enclosing(i) : /\ task.code[h].lps \in Path(task, l)
                                    /\ Path(task, task.code[h].lps) \subseteq Path(task, l)
<1>1. i \in 1..Len(task.code) /\ task.code[i].op = "stage" /\ Len(task.code) \in Nat
  BY CodeFacts DEF Stages
<1>2. l \in LpsIds(task) /\ StandsUnder(task, i, l)
  BY <1>1, CodeFacts DEF IsStage
<1> QED BY <1>1, <1>2, PathsUnder

-----------------------------------------------------------------------------
(* Chains of ids compared with the current ones.                               *)

LEMMA SameCurrentIds ==
  ASSUME NEW S, NEW s, NEW r, NEW chain, \A a \in S : r[a].current = s[a].current
  PROVE  /\ SameIds(r, chain, S) <=> SameIds(s, chain, S)
         /\ BeforeIds(r, chain, S) <=> BeforeIds(s, chain, S)
  BY DEF SameIds, BeforeIds

LEMMA OneLevelMore ==
  ASSUME NEW T, T \subseteq Int, NEW l \in Int, \A a \in T : a < l,
         NEW S, S = T \cup {l}, NEW s, NEW chain
  PROVE  /\ SameIds(s, chain, S) <=> SameIds(s, chain, T) /\ chain[l] = s[l].current
         /\ BeforeIds(s, chain, S) <=>
              \/ BeforeIds(s, chain, T)
              \/ SameIds(s, chain, T) /\ chain[l] < s[l].current
<1>1. {b \in S : b < l} = T
  <2>1. \A b \in S : b < l <=> b \in T
    OBVIOUS
  <2> QED BY <2>1
<1>2. \A a \in T : {b \in S : b < a} = {b \in T : b < a}
  OBVIOUS
<1>3. SameIds(s, chain, S) <=> SameIds(s, chain, T) /\ chain[l] = s[l].current
  BY DEF SameIds
<1>4. BeforeIds(s, chain, S) <=>
        \/ \E a \in T : chain[a] < s[a].current /\ SameIds(s, chain, {b \in S : b < a})
        \/ chain[l] < s[l].current /\ SameIds(s, chain, {b \in S : b < l})
  BY DEF BeforeIds
<1>5. BeforeIds(s, chain, T) <=>
        \E a \in T : chain[a] < s[a].current /\ SameIds(s, chain, {b \in S : b < a})
  BY <1>2 DEF BeforeIds
<1> QED BY <1>1, <1>3, <1>4, <1>5

(* The chain of an LPU of the thread, where it agrees with the current ids.      *)
LEMMA ChainFacts ==
  ASSUME IdsKnown, NEW t \in ThreadsOf(task), NEW l \in LpsIds(task), NEW chain \in LpusOf(t, l),
         NEW b \in Path(task, l), NEW p, p = Parent(task, b), NEW s, s[Root].lpu = 0,
         \A a \in Path(task, p) : s[a].lpu = s[a].current
  PROVE  /\ chain \in AllLpus(l) /\ chain[b] \in Nat
         /\ SameIds(s, chain, Path(task, p)) => chain[b] \in OwnLpus(t, b, s[p].lpu)
<1>1. IsMapping(task) /\ MostLpus \in Nat
  BY TaskFacts
<1>2. /\ chain \in AllLpus(l) /\ chain \in [Path(task, l) -> 0..MostLpus]
      /\ chain[b] \in OwnLpus(t, b, ParentLpu(b, chain))
  BY DEF LpusOf, AllLpus
<1>3. chain[b] \in Nat
  BY <1>1, <1>2
<1>4. ASSUME SameIds(s, chain, Path(task, p))
      PROVE  ParentLpu(b, chain) = s[p].lpu
  <2>1. CASE p = Root
    BY <2>1 DEF ParentLpu
  <2>2. CASE p # Root
    <3>1. p \in LpsIds(task) /\ p \in Path(task, l)
      BY <1>1, <2>2, PathSteps
    <3>2. p \in Path(task, p)
      BY <1>1, <3>1, PathSteps
    <3>3. chain[p] = s[p].lpu
      BY <1>4, <3>2 DEF SameIds
    <3> QED BY <2>2, <3>3 DEF ParentLpu
  <2> QED BY <2>1, <2>2
<1> QED BY <1>2, <1>3, <1>4

-----------------------------------------------------------------------------
(* The counters.                                                               *)

LEMMA ShareFacts ==
  ASSUME IdsKnown, NEW t \in ThreadsOf(task), NEW l \in 1..Len(task.lps), NEW k \in Int
  PROVE  /\ LpuCount(l, k) \in Nat
         /\ threadIds[t][l].ppuCount \in Nat \ {0}
         /\ threadIds[t][l].groupId \in 0..(threadIds[t][l].ppuCount - 1)
         /\ OwnLpus(t, l, k) \subseteq Nat /\ OwnLpus(t, l, k) \subseteq 0..MostLpus
<1>1. LpuCount(l, k) \in Nat
  <2>1. LpuCount(l, k) \in 0..MostLpus /\ MostLpus \in Nat
    BY LpuCounted, TaskFacts
  <2> QED BY <2>1
<1>2. PICK w : w = threadIds[t][l]
  OBVIOUS
<1>3. w.ppuCount \in Nat \ {0} /\ w.groupId \in 0..(w.ppuCount - 1)
  <2>1. PICK g, gp : g = GroupSizes(task)[l] /\ gp = GroupSizes(task)[Parent(task, l)]
    OBVIOUS
  <2>2. PICK B : B = t \div gp
    OBVIOUS
  <2>3. PICK N : N = (Lesser(gp, task.totalThreads - gp * B) + (g - 1)) \div g
    OBVIOUS
  <2>4. w.ppuCount = N /\ N \in Nat \ {0} /\ w.groupId \in 0..(N - 1)
    BY ONLY IdsKnown, t \in ThreadsOf(task), l \in 1..Len(task.lps), <1>2, <2>1, <2>2, <2>3,
            ThreadGroups
  <2> QED BY <2>4
<1>4. OwnLpus(t, l, k) \subseteq 0..MostLpus
  BY OwnAreLpus
<1> QED BY <1>1, <1>2, <1>3, <1>4, TaskFacts

LEMMA FirstIdFacts ==
  ASSUME IdsKnown, thread \in ThreadsOf(task), NEW l \in 1..Len(task.lps), NEW k \in Int, NEW s,
         Partitioned(l) => s[l].range = CurrentRange(LpuCount(l, k), PpuIds(l).ppuCount,
                                                     PpuIds(l).groupId),
         NEW own, own = OwnLpus(thread, l, k),
         NEW id, id = NextId(s, l, INVALID_ID)
  PROVE  /\ id = INVALID_ID => own = {}
         /\ id # INVALID_ID => id \in own /\ \A j \in own : id <= j
<1>1. PICK n, g, c : n = PpuIds(l).ppuCount /\ g = PpuIds(l).groupId /\ c = LpuCount(l, k)
  OBVIOUS
<1>2. c \in Nat /\ n \in Nat \ {0} /\ g \in 0..(n - 1)
  BY <1>1, ShareFacts DEF PpuIds
<1>3. CASE Partitioned(l)
  <2>1. own = IdsOf(c, n, g) /\ s[l].range = CurrentRange(c, n, g)
    BY <1>1, <1>3 DEF OwnLpus, PpuIds
  <2>2. id = NextLpuId(CurrentRange(c, n, g), INVALID_ID)
    BY <1>3, <2>1 DEF NextId
  <2> QED BY ONLY <1>2, <2>1, <2>2, WalkBegins
<1>4. CASE ~Partitioned(l)
  <2>1. own = IF g = 0 THEN {0} ELSE {}
    BY <1>1, <1>4 DEF OwnLpus, PpuIds
  <2>2. id = IF g = 0 THEN 0 ELSE INVALID_ID
    BY <1>1, <1>4 DEF NextId, MockNextLpuId
  <2> QED BY <2>1, <2>2 DEF INVALID_ID
<1> QED BY <1>3, <1>4

(* ... and those after it.                                                      *)
GoesOn(own, i, id) == /\ id = INVALID_ID => \A j \in own : j <= i
                      /\ id # INVALID_ID => id = i + 1 /\ id \in own
LEMMA LaterIdFacts ==
  ASSUME IdsKnown, thread \in ThreadsOf(task), NEW l \in 1..Len(task.lps), NEW k \in Int, NEW s,
         Partitioned(l) => s[l].range = CurrentRange(LpuCount(l, k), PpuIds(l).ppuCount,
                                                     PpuIds(l).groupId),
         NEW own, own = OwnLpus(thread, l, k), NEW i \in own,
         NEW id, id = NextId(s, l, i)
  PROVE  GoesOn(own, i, id)
<1>1. PICK n, g, c : n = PpuIds(l).ppuCount /\ g = PpuIds(l).groupId /\ c = LpuCount(l, k)
  OBVIOUS
<1>2. c \in Nat /\ n \in Nat \ {0} /\ g \in 0..(n - 1)
  BY <1>1, ShareFacts DEF PpuIds
<1>3. CASE Partitioned(l)
  <2>1. own = IdsOf(c, n, g) /\ s[l].range = CurrentRange(c, n, g)
    BY <1>1, <1>3 DEF OwnLpus, PpuIds
  <2>2. id = NextLpuId(CurrentRange(c, n, g), i) /\ i \in IdsOf(c, n, g)
    BY <1>3, <2>1 DEF NextId
  <2> QED BY ONLY <1>2, <2>1, <2>2, WalkGoesOn DEF GoesOn
<1>4. CASE ~Partitioned(l)
  <2>1. own = (IF g = 0 THEN {0} ELSE {})
    BY <1>1, <1>4 DEF OwnLpus, PpuIds
  <2>2. i = 0 /\ own = {0}
    BY <2>1
  <2>3. id = INVALID_ID
    BY <1>4, <2>2 DEF NextId, MockNextLpuId, INVALID_ID
  <2> QED BY <2>2, <2>3 DEF GoesOn
<1> QED BY <1>3, <1>4

-----------------------------------------------------------------------------
(* Steps of one thread.                                                        *)

LEMMA TypeFacts ==
  ASSUME TypeOK
  PROVE  /\ IdsKnown /\ thread \in ThreadsOf(task)
         /\ pc \in 1..(Len(task.code) + 1) /\ Len(task.code) \in Nat
         /\ ~Finished <=> pc \in 1..Len(task.code)
         /\ \A l \in LpsIds(task) : /\ lpsStates[l] \in [range : [startId : Int, endId : Int],
                                                         current : Int, bound : BOOLEAN, lpu : Int]
                                    /\ lpsStates[l].current \in Int /\ lpsStates[l].lpu \in Int
<1>1. IdsKnown /\ thread \in ThreadsOf(task) /\ pc \in 1..(Len(task.code) + 1)
  BY DEF TypeOK, IdsKnown
<1>2. Len(task.code) \in Nat
  BY <1>1, CodeFacts
<1>3. ~Finished <=> pc \in 1..Len(task.code)
  BY <1>1, <1>2 DEF Finished
<1>4. ASSUME NEW l \in LpsIds(task)
      PROVE  /\ lpsStates[l] \in [range : [startId : Int, endId : Int],
                                  current : Int, bound : BOOLEAN, lpu : Int]
             /\ lpsStates[l].current \in Int /\ lpsStates[l].lpu \in Int
  <2>1. lpsStates[l] \in [range : [startId : Int, endId : Int],
                          current : Int, bound : BOOLEAN, lpu : Int]
    BY DEF TypeOK
  <2> QED BY <2>1
<1> QED BY <1>1, <1>2, <1>3, <1>4

LEMMA TaskKept ==
  ASSUME UNCHANGED <<task, threadIds>>
  PROVE  /\ Stages' = Stages
         /\ IdsKnown' <=> IdsKnown
         /\ \A i : Enclosing(i)' = Enclosing(i)
         /\ \A S : PathsOf(S)' = PathsOf(S)
         /\ \A t, l, k : OwnLpus(t, l, k)' = OwnLpus(t, l, k)
         /\ \A l : AllLpus(l)' = AllLpus(l)
         /\ \A t, l : LpusOf(t, l)' = LpusOf(t, l)
<1>1. Stages' = Stages /\ (IdsKnown' <=> IdsKnown) /\ (\A i : Enclosing(i)' = Enclosing(i))
      /\ (\A S : PathsOf(S)' = PathsOf(S))
  BY DEF Stages, IdsKnown, Enclosing, PathsOf
<1>2. /\ \A l : Partitioned(l)' = Partitioned(l)
      /\ \A l, k : LpuCount(l, k)' = LpuCount(l, k)
      /\ \A l, chain : ParentLpu(l, chain)' = ParentLpu(l, chain)
  BY DEF Partitioned, LpuCount, ParentLpu
<1>3. \A t, l, k : OwnLpus(t, l, k)' = OwnLpus(t, l, k)
  BY <1>2 DEF OwnLpus
<1>4. \A l, chain : Below(l, chain)' = Below(l, chain)
  BY <1>2 DEF Below
<1>5. \A l : AllLpus(l)' = AllLpus(l)
  BY <1>4 DEF AllLpus
<1>6. \A t, l : LpusOf(t, l)' = LpusOf(t, l)
  BY <1>2, <1>3, <1>5 DEF LpusOf
<1> QED BY <1>1, <1>3, <1>5, <1>6

(* What is done stays as it is if it does for the thread's own LPUs.             *)
LEMMA PastKept ==
  ASSUME UNCHANGED <<task, threadIds, thread>>,
         \A i \in Stages : \A chain \in LpusOf(thread, task.code[i].lps) :
           Done(i, chain)' <=> Done(i, chain)
  PROVE  Past' = Past
<1>1. /\ Stages' = Stages /\ \A l : AllLpus(l)' = AllLpus(l)
      /\ \A t, l : LpusOf(t, l)' = LpusOf(t, l)
  BY TaskKept
<1>2. ASSUME NEW i \in Stages, NEW chain
      PROVE  IsDone(i, chain)' <=> IsDone(i, chain)
  BY <1>1 DEF IsDone
<1>3. \A i \in Stages : {c \in AllLpus(task.code[i].lps) : IsDone(i, c)}'
                         = {c \in AllLpus(task.code[i].lps) : IsDone(i, c)}
  BY <1>1, <1>2
<1> QED BY <1>1, <1>3 DEF Past

(* A step at the head of a loop.                                                *)
LEMMA LoopView ==
  ASSUME UNCHANGED <<task, threadIds, thread, pc, lpuIds>>, AtLoop,
         call.status # "idle", call'.status # "idle"
  PROVE  /\ AtLoop' /\ Instruction' = Instruction /\ Container' = Container
         /\ Request = call /\ Request' = call'
         /\ Current = IF IsFirst \/ call.status = "null" THEN Path(task, Container)
                      ELSE Path(task, call.lps)
         /\ Current' = IF IsFirst' \/ call'.status = "null" THEN Path(task, Container)
                       ELSE Path(task, call'.lps)
         /\ IsFirst <=> call.status = "called" /\ call.previous = INVALID_ID
         /\ IsLater <=> call.status = "called" /\ call.previous # INVALID_ID
         /\ IsFirst' <=> call'.status = "called" /\ call'.previous = INVALID_ID
         /\ IsLater' <=> call'.status = "called" /\ call'.previous # INVALID_ID
         /\ \A i : /\ pc \in Enclosing(i) => /\ Levels(i) = Current /\ Levels(i)' = Current'
                                             /\ IsPast(i) <=> IsLater \/ call.status = "null"
                                             /\ IsPast(i)' <=> IsLater' \/ call'.status = "null"
                   /\ pc \notin Enclosing(i) =>
                        /\ Levels(i) = PathsOf(Enclosing(i) \cap Enclosing(pc))
                        /\ Levels(i)' = Levels(i)
                        /\ IsPast(i)' <=> IsPast(i)
<1>1. AtLoop' /\ Instruction' = Instruction /\ Container' = Container
  BY DEF AtLoop, Finished, Instruction, Container
<1>2. Request = call /\ Request' = call'
  BY DEF Request
<1>3. /\ IsFirst <=> call.status = "called" /\ call.previous = INVALID_ID
      /\ IsLater <=> call.status = "called" /\ call.previous # INVALID_ID
      /\ IsFirst' <=> call'.status = "called" /\ call'.previous = INVALID_ID
      /\ IsLater' <=> call'.status = "called" /\ call'.previous # INVALID_ID
  BY <1>2 DEF IsFirst, IsLater
<1>4. /\ Current = IF IsFirst \/ call.status = "null" THEN Path(task, Container)
                   ELSE Path(task, call.lps)
      /\ Current' = IF IsFirst' \/ call'.status = "null" THEN Path(task, Container)
                    ELSE Path(task, call'.lps)
  BY <1>1, <1>2 DEF Current
<1>5. (\A i : Enclosing(i)' = Enclosing(i)) /\ (\A S : PathsOf(S)' = PathsOf(S))
      /\ Enclosing(pc)' = Enclosing(pc)
  <2>1. (\A i : Enclosing(i)' = Enclosing(i)) /\ (\A S : PathsOf(S)' = PathsOf(S))
    BY TaskKept
  <2>2. Enclosing(pc)' = Enclosing(pc)
    BY DEF Enclosing
  <2> QED BY <2>1, <2>2
<1>6. ASSUME NEW i
      PROVE  /\ pc \in Enclosing(i) => /\ Levels(i) = Current /\ Levels(i)' = Current'
                                       /\ IsPast(i) <=> IsLater \/ call.status = "null"
                                       /\ IsPast(i)' <=> IsLater' \/ call'.status = "null"
             /\ pc \notin Enclosing(i) =>
                  /\ Levels(i) = PathsOf(Enclosing(i) \cap Enclosing(pc))
                  /\ Levels(i)' = Levels(i)
                  /\ IsPast(i)' <=> IsPast(i)
  BY <1>1, <1>2, <1>5 DEF Levels, IsPast
<1> QED BY <1>1, <1>2, <1>3, <1>4, <1>6

LEMMA AtLoopFacts ==
  ASSUME TypeOK, AtLoop, NEW l, l = Instruction.lps, NEW c, c = Container
  PROVE  /\ pc \in 1..Len(task.code) /\ task.code[pc].op = "loop"
         /\ l = task.code[pc].lps /\ c = task.code[pc].container
         /\ l \in LpsIds(task) /\ l # Root /\ l \in Path(task, l)
         /\ c \in LpsIds(task) /\ c < l /\ (c = Root \/ c \in Path(task, l))
         /\ Path(task, c) \subseteq 1..c
         /\ Path(task, c) = {a \in Path(task, l) : a <= c}
         /\ PathsOf(Enclosing(pc)) = Path(task, c)
         /\ \A i \in Stages : pc \in Enclosing(i) =>
              Path(task, l) \subseteq Path(task, task.code[i].lps)
<1>1. pc \in 1..Len(task.code) /\ task.code[pc].op = "loop" /\ IdsKnown /\ IsMapping(task)
  BY TypeFacts, TaskFacts DEF AtLoop, Instruction
<1>2. l = task.code[pc].lps /\ c = task.code[pc].container
  BY DEF Instruction, Container
<1>3. /\ l \in LpsIds(task) /\ l # Root /\ c \in LpsIds(task) /\ c < l
      /\ c = Root \/ c \in Path(task, l)
      /\ Path(task, c) = {a \in Path(task, l) : a <= c}
      /\ PathsOf(Enclosing(pc)) = Path(task, c)
  BY <1>1, <1>2, LoopPaths
<1>4. Path(task, c) \subseteq 1..c
  BY <1>1, <1>3, PathsNested
<1>5. l \in Path(task, l)
  <2>1. l \in 1..Len(task.lps)
    BY <1>3, TaskFacts, <1>1 DEF Root
  <2> QED BY <1>1, <2>1, PathIs
<1>6. ASSUME NEW i \in Stages, pc \in Enclosing(i)
      PROVE  Path(task, l) \subseteq Path(task, task.code[i].lps)
  BY <1>1, <1>2, <1>6, StagePaths
<1> QED BY <1>1, <1>2, <1>3, <1>4, <1>5, <1>6

(* An LPS on the way from the container to the loop's, and its parent.           *)
LEMMA ParentFacts ==
  ASSUME TypeOK, AtLoop, NEW b \in Path(task, Instruction.lps), Container < b,
         NEW p, p = Parent(task, b)
  PROVE  /\ b \in 1..Len(task.lps) /\ b \in LpsIds(task) /\ b # Root
         /\ p \in LpsIds(task) /\ p < b /\ Container <= p
         /\ p = Root \/ p \in Path(task, Instruction.lps)
         /\ p # Container => p \in Path(task, Instruction.lps) /\ Container < p
         /\ Path(task, b) = Path(task, p) \cup {b}
         /\ Path(task, p) \subseteq 1..p
         /\ Path(task, Container) \subseteq Path(task, p)
<1>1. PICK l, c : l = Instruction.lps /\ c = Container
  OBVIOUS
<1>2. /\ IsMapping(task) /\ l \in LpsIds(task) /\ c \in LpsIds(task)
      /\ c = Root \/ c \in Path(task, l)
      /\ Path(task, c) = {a \in Path(task, l) : a <= c}
      /\ LpsIds(task) \subseteq Nat /\ \A a \in 1..Len(task.lps) : a \in LpsIds(task)
  BY <1>1, AtLoopFacts, TypeFacts, TaskFacts
<1>3. b \in Path(task, l)
  BY <1>1
<1>4. /\ b \in 1..Len(task.lps) /\ b # Root
      /\ p \in 0..(b - 1) /\ p \in LpsIds(task)
      /\ p = Root \/ p \in Path(task, l)
      /\ Path(task, b) = {b} \cup Path(task, p)
      /\ Path(task, p) = {x \in Path(task, l) : x < b}
  BY ONLY <1>2, <1>3, p = Parent(task, b), PathSteps
<1>5. Path(task, p) \subseteq 1..p
  BY <1>2, <1>4, PathsNested
<1>6. c <= p
  <2>1. CASE c = Root
    BY <1>4, <2>1 DEF Root
  <2>2. CASE c # Root
    <3>1. c \in Path(task, p)
      BY <1>1, <1>2, <1>4, <2>2
    <3> QED BY <1>5, <3>1
  <2> QED BY <2>1, <2>2
<1>7. p # c => p \in Path(task, l) /\ c < p
  <2>1. p # c => c < p
    BY <1>2, <1>4, <1>6
  <2>2. p # c => p # Root
    BY <1>2, <2>1, <1>4 DEF Root
  <2> QED BY <1>4, <2>1, <2>2
<1>8. Path(task, c) \subseteq Path(task, p)
  <2>1. \A a \in Path(task, l) : a \in 1..l
    BY <1>2, PathsNested
  <2>2. \A a \in Path(task, l) : a <= c => a < b
    BY <1>1, <1>2, <1>4, <2>1
  <2> QED BY <1>2, <1>4, <2>2
<1> QED BY <1>1, <1>2, <1>4, <1>5, <1>6, <1>7, <1>8

(* What a step at the head of a loop must not change in order to do nothing.     *)
LEMMA PastKeptAtLoop ==
  ASSUME TypeOK, UNCHANGED <<task, threadIds, thread, pc, lpuIds>>, AtLoop,
         call.status # "idle", call'.status # "idle",
         \A a \in LpsIds(task) : a <= Container => lpsStates'[a].current = lpsStates[a].current,
         \A i \in Stages : pc \in Enclosing(i) =>
           \A chain \in LpusOf(thread, task.code[i].lps) :
             (BeforeIds(lpsStates', chain, Current')
                \/ ((IsLater' \/ call'.status = "null") /\ SameIds(lpsStates', chain, Current')))
             <=>
             (BeforeIds(lpsStates, chain, Current)
                \/ ((IsLater \/ call.status = "null") /\ SameIds(lpsStates, chain, Current)))
  PROVE  Past' = Past
<1> SUFFICES ASSUME NEW i \in Stages, NEW chain \in LpusOf(thread, task.code[i].lps)
             PROVE  Done(i, chain)' <=> Done(i, chain)
  BY PastKept
<1> DEFINE D(s, S, past) == BeforeIds(s, chain, S) \/ (past /\ SameIds(s, chain, S))
<1>0. /\ Done(i, chain) <=> D(lpsStates, Levels(i), IsPast(i))
      /\ Done(i, chain)' <=> D(lpsStates', Levels(i)', IsPast(i)')
  BY DEF Done, BeforeIds, SameIds
<1>1. CASE pc \in Enclosing(i)
  <2>1. /\ Levels(i) = Current /\ Levels(i)' = Current'
        /\ IsPast(i) <=> IsLater \/ call.status = "null"
        /\ IsPast(i)' <=> IsLater' \/ call'.status = "null"
    BY <1>1, LoopView
  <2>2. D(lpsStates', Current', IsLater' \/ call'.status = "null")
          <=> D(lpsStates, Current, IsLater \/ call.status = "null")
    BY <1>1
  <2>3. D(lpsStates, Levels(i), IsPast(i)) <=> D(lpsStates, Current, IsLater \/ call.status = "null")
    BY <2>1
  <2>4. D(lpsStates', Levels(i)', IsPast(i)')
          <=> D(lpsStates', Current', IsLater' \/ call'.status = "null")
    BY <2>1
  <2> QED BY <1>0, <2>2, <2>3, <2>4
<1>2. CASE pc \notin Enclosing(i)
  <2>1. /\ Levels(i) = PathsOf(Enclosing(i) \cap Enclosing(pc))
        /\ Levels(i)' = Levels(i) /\ (IsPast(i)' <=> IsPast(i))
    BY <1>2, LoopView
  <2>2. Levels(i) \subseteq PathsOf(Enclosing(pc))
    BY <2>1 DEF PathsOf
  <2>3. \A a \in Levels(i) : a \in LpsIds(task) /\ a <= Container
    <3>1. /\ PathsOf(Enclosing(pc)) \subseteq 1..Container
          /\ Container \in LpsIds(task)
      BY AtLoopFacts
    <3>2. LpsIds(task) = 0..Len(task.lps) /\ Len(task.lps) \in Nat
      BY TypeFacts, TaskFacts
    <3> QED BY <2>2, <3>1, <3>2
  <2>4. /\ SameIds(lpsStates', chain, Levels(i)) <=> SameIds(lpsStates, chain, Levels(i))
        /\ BeforeIds(lpsStates', chain, Levels(i)) <=> BeforeIds(lpsStates, chain, Levels(i))
    BY <2>3, SameCurrentIds
  <2> QED BY <1>0, <2>1, <2>4
<1> QED BY <1>1, <1>2

StatesType == [range : [startId : Int, endId : Int], current : Int, bound : BOOLEAN, lpu : Int]
CallType   == [status : {"idle", "called", "found", "null"}, lps : LpsIds(task), previous : Int]

LEMMA InvKeptAtLoop ==
  ASSUME Inv, UNCHANGED <<task, threadIds, thread, pc, lpuIds, executed>>, AtLoop,
         call.status # "idle", call'.status # "idle",
         lpsStates' \in [LpsIds(task) -> StatesType], call' \in CallType,
         call'.status \in {"called", "found"} =>
           \/ call'.lps \in Path(task, Instruction.lps) /\ Container < call'.lps
           \/ call' = Found(Container),
         IsLater' => call'.previous = lpsStates'[call'.lps].current,
         lpsStates'[Root].lpu = 0,
         \A l \in Current' : StandsAt(lpsStates', l),
         \A l \in LpsIds(task) \ {Container} : lpsStates'[l].bound = lpsStates[l].bound,
         lpsStates'[Container].bound,
         Past' = Past
  PROVE  Inv'
<1>1. TypeOK /\ CallInv /\ CurrentInv /\ LocalsInv /\ BoundsInv /\ executed = SetToBag(Past)
  BY DEF Inv
<1>2. /\ AtLoop' /\ Instruction' = Instruction /\ Container' = Container
      /\ Request' = call'
      /\ IsLater' <=> call'.status = "called" /\ call'.previous # INVALID_ID
      /\ IsFirst' <=> call'.status = "called" /\ call'.previous = INVALID_ID
  BY LoopView
<1>3. /\ Enclosing(pc)' = Enclosing(pc)
      /\ pc \in 1..Len(task.code) /\ task.code[pc].op = "loop" /\ task.code[pc].container = Container
      /\ \A h \in Enclosing(pc) : /\ task.code[h].container \in LpsIds(task)
                                  /\ task.code[h].container < Container
                                  /\ Container # Root
      /\ Container \in LpsIds(task)
  <2>1. Enclosing(pc)' = Enclosing(pc)
    BY DEF Enclosing
  <2>2. /\ pc \in 1..Len(task.code) /\ pc \in 1..(Len(task.code) + 1)
        /\ task.code[pc].op = "loop" /\ task.code[pc].container = Container /\ IdsKnown
        /\ Container \in LpsIds(task)
    BY <1>1, AtLoopFacts, TypeFacts
  <2>3. \A h \in Enclosing(pc) : task.code[h].container < Container /\ Container # Root
    BY <2>2, LoopPaths
  <2>4. \A h \in Enclosing(pc) : task.code[h].container \in LpsIds(task)
    BY <2>2, EnclosingFacts, LoopFacts
  <2> QED BY <2>1, <2>2, <2>3, <2>4
<1>4. TypeOK'
  BY <1>1 DEF TypeOK, StatesType, CallType
<1>5. CallInv'
  BY <1>2 DEF CallInv, Found
<1>6. CurrentInv'
  <2>1. \A s, l : StandsAt(s, l)' <=> StandsAt(s, l)
    BY DEF StandsAt, OwnLpus, Partitioned, LpuCount, PpuIds
  <2>2. \A l \in Current' : StandsAt(lpsStates, l)'
    BY DEF StandsAt, OwnLpus, Partitioned, LpuCount, PpuIds
  <2> QED BY <2>2 DEF CurrentInv
<1>7. LocalsInv'
  BY <1>1, <1>2, <1>3 DEF LocalsInv
<1>8. BoundsInv'
  <2>1. BoundsNested'
    <3> SUFFICES ASSUME NEW l \in LpsIds(task) \ {Root}, lpsStates'[l].bound
                 PROVE  \E h \in Enclosing(pc) \cup {pc} :
                          h <= Len(task.code) /\ task.code[h].op = "loop"
                          /\ task.code[h].container = l
      BY <1>3 DEF BoundsNested
    <3>1. CASE l = Container
      <4>1. pc <= Len(task.code)
        BY <1>1, <1>3, TypeFacts
      <4> QED BY <1>3, <3>1, <4>1
    <3>2. CASE l # Container
      BY <1>1, <3>2 DEF BoundsInv, BoundsNested
    <3> QED BY <3>1, <3>2
  <2>2. \A h \in Enclosing(pc) : lpsStates'[task.code[h].container].bound
    <3>1. SUFFICES ASSUME NEW h \in Enclosing(pc) PROVE lpsStates'[task.code[h].container].bound
      OBVIOUS
    <3>2. lpsStates[task.code[h].container].bound
      BY <1>1 DEF BoundsInv
    <3>3. task.code[h].container \in LpsIds(task) \ {Container}
      <4>1. LpsIds(task) \subseteq Int
        BY <1>1, TypeFacts, TaskFacts
      <4> QED BY <1>3, <4>1
    <3> QED BY <3>2, <3>3
  <2> QED BY <1>2, <1>3, <2>1, <2>2 DEF BoundsInv
<1>9. executed' = SetToBag(Past')
  BY <1>1
<1>10. (executed = SetToBag(Past))'
  BY <1>9 DEF SetToBag
<1> QED BY <1>4, <1>5, <1>6, <1>7, <1>8, <1>10 DEF Inv

LEMMA LoopHeadKeepsInv ==
  ASSUME Inv, LoopHead
  PROVE  Inv'
<1>1. TypeOK /\ CallInv /\ CurrentInv /\ LocalsInv /\ BoundsInv /\ executed = SetToBag(Past)
  BY DEF Inv
<1>2. /\ AtLoop /\ call.status = "idle" /\ call' = Called(Instruction.lps, lpuIds[pc])
      /\ UNCHANGED <<task, threadIds, thread, pc, lpsStates, lpuIds, executed>>
  BY DEF LoopHead
<1>3. /\ AtLoop' /\ Instruction' = Instruction /\ Container' = Container
      /\ Enclosing(pc)' = Enclosing(pc)
  BY <1>2 DEF AtLoop, Finished, Instruction, Container, Enclosing
<1>4. Request' = Request /\ call'.status = "called" /\ call'.lps = Instruction.lps
      /\ call'.previous = lpuIds[pc]
  BY <1>2 DEF Request, Called
<1>5. /\ IsFirst' <=> IsFirst
      /\ IsLater' <=> IsLater
      /\ Current' = Current
  BY <1>2, <1>3, <1>4 DEF IsFirst, IsLater, Current
<1>6. \A i : Enclosing(i)' = Enclosing(i) /\ PathsOf(i)' = PathsOf(i)
  BY <1>2, TaskKept
<1>7. \A i : Levels(i)' = Levels(i) /\ (IsPast(i)' <=> IsPast(i))
  BY <1>2, <1>3, <1>4, <1>5, <1>6 DEF Levels, IsPast
<1>8. Past' = Past
  <2>1. \A i, chain : Done(i, chain)' <=> Done(i, chain)
    BY <1>2, <1>7 DEF Done, BeforeIds, SameIds
  <2> QED BY <1>2, <2>1, PastKept
<1>9. TypeOK'
  <2>1. call' \in CallType
    <3>1. Instruction.lps \in LpsIds(task) /\ lpuIds[pc] \in Int
      BY <1>1, <1>2, AtLoopFacts DEF TypeOK
    <3> QED BY <1>2, <3>1 DEF CallType, Called
  <2> QED BY <1>1, <1>2, <2>1 DEF TypeOK, CallType
<1>10. CallInv'
  BY <1>1, <1>2, <1>3, <1>4, <1>5 DEF CallInv, Found
<1>11. CurrentInv'
  BY <1>1, <1>2, <1>5 DEF CurrentInv, StandsAt, OwnLpus, Partitioned, LpuCount, PpuIds
<1>12. LocalsInv'
  BY <1>1, <1>2, <1>3 DEF LocalsInv
<1>13. BoundsInv'
  BY <1>1, <1>2, <1>3, <1>5 DEF BoundsInv, BoundsNested
<1>14. (executed = SetToBag(Past))'
  BY <1>1, <1>2, <1>8 DEF SetToBag
<1> QED BY <1>9, <1>10, <1>11, <1>12, <1>13, <1>14 DEF Inv

LEMMA FirstCallKeepsInv ==
  ASSUME Inv, FirstCall
  PROVE  Inv'
<1>1. TypeOK /\ CallInv /\ CurrentInv /\ LocalsInv /\ BoundsInv /\ executed = SetToBag(Past)
  BY DEF Inv
<1>2. PICK b, p : b = call.lps /\ p = Parent(task, b)
  OBVIOUS
<1>3. /\ call.status = "called" /\ call.previous = INVALID_ID
      /\ lpsStates' = [lpsStates EXCEPT ![Container].bound = TRUE]
      /\ call' = IF p = Container THEN Found(p) ELSE Called(p, INVALID_ID)
      /\ UNCHANGED <<task, threadIds, thread, pc, lpuIds, executed>>
  BY <1>2 DEF FirstCall
<1>4. /\ AtLoop /\ call'.status # "idle" /\ call'.status # "null" /\ call.status # "idle"
      /\ call.status # "found"
  BY <1>1, <1>3 DEF CallInv, Found, Called
<1>5. /\ Request = call /\ IsFirst
      /\ Current = Path(task, Container)
      /\ Current' = IF IsFirst' THEN Path(task, Container) ELSE Path(task, call'.lps)
      /\ IsFirst' <=> call'.status = "called" /\ call'.previous = INVALID_ID
      /\ IsLater' <=> call'.status = "called" /\ call'.previous # INVALID_ID
      /\ ~IsLater
  BY <1>3, <1>4, LoopView
<1>6. b \in Path(task, Instruction.lps) /\ Container < b
  BY <1>1, <1>2, <1>3, <1>4, <1>5 DEF CallInv, Found
<1>7. /\ p \in LpsIds(task)
      /\ p # Container => p \in Path(task, Instruction.lps) /\ Container < p
  BY <1>1, <1>2, <1>4, <1>6, ParentFacts
<1>8. Current' = Path(task, Container) /\ ~IsLater'
  <2>1. CASE p = Container
    BY <1>3, <1>5, <2>1 DEF Found
  <2>2. CASE p # Container
    BY <1>3, <1>5, <2>2 DEF Called
  <2> QED BY <2>1, <2>2
<1>9. \A l \in LpsIds(task) : /\ lpsStates'[l].current = lpsStates[l].current
                              /\ lpsStates'[l].range = lpsStates[l].range
                              /\ lpsStates'[l].lpu = lpsStates[l].lpu
                              /\ l # Container => lpsStates'[l] = lpsStates[l]
  BY <1>1, <1>3, TypeFacts DEF TypeOK
<1>10. lpsStates' \in [LpsIds(task) -> StatesType] /\ lpsStates'[Container].bound
  <2>1. Container \in LpsIds(task) /\ lpsStates \in [LpsIds(task) -> StatesType]
    BY <1>1, <1>4, AtLoopFacts DEF TypeOK, StatesType
  <2> QED BY <1>3, <2>1 DEF StatesType
<1>11. call' \in CallType
  BY <1>3, <1>7 DEF CallType, Found, Called, INVALID_ID
<1>12. call'.status \in {"called", "found"} =>
         \/ call'.lps \in Path(task, Instruction.lps) /\ Container < call'.lps
         \/ call' = Found(Container)
  BY <1>3, <1>7 DEF Found, Called
<1>13. lpsStates'[Root].lpu = 0 /\ \A l \in Current' : StandsAt(lpsStates', l)
  <2>1. lpsStates'[Root].lpu = 0
    BY <1>1, <1>9, TypeFacts, TaskFacts DEF CurrentInv
  <2>2. ASSUME NEW l \in Path(task, Container)
        PROVE  StandsAt(lpsStates', l)
    <3>1. StandsAt(lpsStates, l)
      BY <1>1, <1>5, <2>2 DEF CurrentInv
    <3>2. l \in LpsIds(task) /\ Parent(task, l) \in LpsIds(task)
      <4>1. IsMapping(task) /\ Container \in LpsIds(task) /\ IdsKnown
        BY <1>1, <1>4, AtLoopFacts, TypeFacts, TaskFacts
      <4>2. l \in 1..Len(task.lps) /\ Parent(task, l) \in LpsIds(task)
        BY <2>2, <4>1, PathSteps
      <4> QED BY <4>1, <4>2, TaskFacts
    <3> QED BY <1>9, <3>1, <3>2 DEF StandsAt
  <2> QED BY <1>8, <2>1, <2>2
<1>14. Past' = Past
  <2>1. \A a \in LpsIds(task) : a <= Container => lpsStates'[a].current = lpsStates[a].current
    BY <1>9
  <2>2. \A a \in Path(task, Container) : lpsStates'[a].current = lpsStates[a].current
    <3>1. IsMapping(task) /\ Container \in LpsIds(task) /\ IdsKnown
      BY <1>1, <1>4, AtLoopFacts, TypeFacts, TaskFacts
    <3>2. \A a \in Path(task, Container) : a \in LpsIds(task)
      BY <3>1, PathSteps, TaskFacts
    <3> QED BY <1>9, <3>2
  <2>3. \A chain : BeforeIds(lpsStates', chain, Path(task, Container))
                     <=> BeforeIds(lpsStates, chain, Path(task, Container))
    BY <2>2, SameCurrentIds
  <2> QED BY <1>1, <1>3, <1>4, <1>5, <1>8, <2>1, <2>3, PastKeptAtLoop
<1> QED BY <1>3, <1>4, <1>8, <1>9, <1>10, <1>11, <1>12, <1>13, <1>14, InvKeptAtLoop

(* Where the thread is.                                                         *)
LEMMA CurrentFacts ==
  ASSUME TypeOK, CurrentInv, NEW x \in LpsIds(task), Path(task, x) \subseteq Current,
         NEW l \in Path(task, x)
  PROVE  /\ l \in 1..Len(task.lps) /\ l \in LpsIds(task) /\ l # Root /\ l <= x
         /\ Parent(task, l) \in LpsIds(task) /\ Parent(task, l) < l
         /\ StandsAt(lpsStates, l)
         /\ lpsStates[l].lpu = lpsStates[l].current
         /\ lpsStates[l].current \in Nat /\ lpsStates[l].current # INVALID_ID
         /\ lpsStates[l].current \in OwnLpus(thread, l, lpsStates[Parent(task, l)].lpu)
<1>1. IdsKnown /\ IsMapping(task) /\ x \in Nat
  BY TypeFacts, TaskFacts
<1>2. /\ l \in 1..Len(task.lps) /\ l \in LpsIds(task) /\ l # Root /\ l <= x
      /\ Parent(task, l) \in LpsIds(task) /\ Parent(task, l) < l
  <2>1. l \in 1..x /\ l \in 1..Len(task.lps) /\ l # Root
        /\ Parent(task, l) \in 0..(l - 1) /\ Parent(task, l) \in LpsIds(task)
    BY <1>1, PathSteps
  <2> QED BY <1>1, <2>1, TaskFacts
<1>3. StandsAt(lpsStates, l)
  BY DEF CurrentInv
<1>4. /\ lpsStates[l].lpu = lpsStates[l].current
      /\ lpsStates[l].current \in OwnLpus(thread, l, lpsStates[Parent(task, l)].lpu)
  BY <1>3 DEF StandsAt
<1>5. lpsStates[Parent(task, l)].lpu \in Int
  BY <1>2, TypeFacts
<1>6. OwnLpus(thread, l, lpsStates[Parent(task, l)].lpu) \subseteq Nat
  BY <1>1, <1>2, <1>5, ShareFacts, TypeFacts
<1>7. lpsStates[l].current \in Nat /\ lpsStates[l].current # INVALID_ID
  BY <1>4, <1>6 DEF INVALID_ID
<1> QED BY <1>2, <1>3, <1>4, <1>7

LEMMA StandsElsewhere ==
  ASSUME TypeOK, CurrentInv, NEW x \in LpsIds(task), Path(task, x) \subseteq Current,
         NEW s, NEW b, x < b, b \in Int, \A a \in LpsIds(task) \ {b} : s[a] = lpsStates[a],
         NEW l \in Path(task, x)
  PROVE  StandsAt(s, l) /\ s[l].current = lpsStates[l].current
<1>1. /\ l \in LpsIds(task) /\ Parent(task, l) \in LpsIds(task) /\ l <= x /\ Parent(task, l) < l
      /\ StandsAt(lpsStates, l)
  BY CurrentFacts
<1>2. LpsIds(task) \subseteq Nat
  BY TypeFacts, TaskFacts
<1>3. l # b /\ Parent(task, l) # b
  BY <1>1, <1>2
<1> QED BY <1>1, <1>3 DEF StandsAt

(* The call for b is under way, or that for its parent has found an LPU: what     *)
(* the LPUs of a stage have to do with b.                                        *)
LEMMA ChainAt ==
  ASSUME TypeOK, CurrentInv, AtLoop, NEW b \in Path(task, Instruction.lps), Container < b,
         NEW p, p = Parent(task, b), Path(task, p) \subseteq Current,
         NEW i \in Stages, pc \in Enclosing(i), NEW chain \in LpusOf(thread, task.code[i].lps)
  PROVE  /\ chain[b] \in Nat
         /\ SameIds(lpsStates, chain, Path(task, p)) =>
              chain[b] \in OwnLpus(thread, b, lpsStates[p].lpu)
<1>1. /\ IdsKnown /\ thread \in ThreadsOf(task) /\ p \in LpsIds(task)
      /\ task.code[i].lps \in LpsIds(task)
  BY TypeFacts, ParentFacts, StagePaths
<1>2. b \in Path(task, task.code[i].lps)
  BY AtLoopFacts
<1>3. lpsStates[Root].lpu = 0 /\ \A a \in Path(task, p) : lpsStates[a].lpu = lpsStates[a].current
  BY <1>1, CurrentFacts DEF CurrentInv
<1> QED BY <1>1, <1>2, <1>3, ChainFacts

(* The two ways a call for b ends: with an LPU, or with none under the parent's.  *)
LEMMA FoundKeepsInv ==
  ASSUME Inv, AtLoop, call.status # "idle", ~IsFirst,
         UNCHANGED <<task, threadIds, thread, pc, lpuIds, executed>>,
         NEW b \in Path(task, Instruction.lps), Container < b, NEW p, p = Parent(task, b),
         Path(task, p) \subseteq Current,
         NEW here \in [LpsIds(task) -> StatesType],
         \A a \in LpsIds(task) \ {b} : here[a] = lpsStates[a],
         here[b].bound = lpsStates[b].bound,
         Partitioned(b) => here[b].range = CurrentRange(LpuCount(b, lpsStates[p].lpu),
                                                        PpuIds(b).ppuCount, PpuIds(b).groupId),
         NEW id \in OwnLpus(thread, b, lpsStates[p].lpu),
         lpsStates' = WithLpu(here, b, id), call' = Found(b),
         \A i \in Stages : pc \in Enclosing(i) =>
           \A chain \in LpusOf(thread, task.code[i].lps) :
             (BeforeIds(lpsStates, chain, Path(task, p))
                \/ (SameIds(lpsStates, chain, Path(task, p)) /\ chain[b] < id))
             <=>
             (BeforeIds(lpsStates, chain, Current)
                \/ ((IsLater \/ call.status = "null") /\ SameIds(lpsStates, chain, Current)))
  PROVE  Inv'
<1>1. TypeOK /\ CallInv /\ CurrentInv /\ LocalsInv /\ BoundsInv /\ executed = SetToBag(Past)
  BY DEF Inv
<1>2. call'.status = "found" /\ call'.lps = b /\ call'.status # "idle"
  BY DEF Found
<1>3. Current' = Path(task, b) /\ ~IsFirst' /\ ~IsLater'
  BY <1>2, LoopView
<1>4. /\ IdsKnown /\ thread \in ThreadsOf(task)
      /\ b \in 1..Len(task.lps) /\ b \in LpsIds(task) /\ b # Root
      /\ p \in LpsIds(task) /\ p < b /\ Container <= p
      /\ Path(task, b) = Path(task, p) \cup {b} /\ Path(task, p) \subseteq 1..p
      /\ LpsIds(task) \subseteq Nat /\ Container \in LpsIds(task)
  BY <1>1, ParentFacts, TypeFacts, TaskFacts, AtLoopFacts
<1>5. id \in Nat
  <2>1. lpsStates[p].lpu \in Int
    BY <1>1, <1>4, TypeFacts
  <2> QED BY <1>4, <2>1, ShareFacts
<1>6. /\ lpsStates' \in [LpsIds(task) -> StatesType]
      /\ \A a \in LpsIds(task) \ {b} : lpsStates'[a] = lpsStates[a]
      /\ lpsStates'[b].current = id /\ lpsStates'[b].lpu = id
      /\ lpsStates'[b].range = here[b].range /\ lpsStates'[b].bound = lpsStates[b].bound
  <2>1. lpsStates' = [here EXCEPT ![b].current = id, ![b].lpu = id]
    BY DEF WithLpu
  <2>3. \A a \in LpsIds(task) \ {b} : lpsStates'[a] = here[a]
    BY ONLY <1>4, <2>1, here \in [LpsIds(task) -> StatesType]
  <2>4. lpsStates'[b] = [here[b] EXCEPT !.current = id, !.lpu = id] /\ here[b] \in StatesType
    BY ONLY <1>4, <2>1, here \in [LpsIds(task) -> StatesType]
  <2>5. /\ lpsStates'[b].current = id /\ lpsStates'[b].lpu = id
        /\ lpsStates'[b].range = here[b].range /\ lpsStates'[b].bound = here[b].bound
    BY ONLY <2>4 DEF StatesType
  <2>6. lpsStates'[b] \in StatesType
    <3>1. PICK R, old, new : /\ R = [startId : Int, endId : Int]
                             /\ old = here[b] /\ new = lpsStates'[b]
      OBVIOUS
    <3>2. /\ old \in [range : R, current : Int, bound : BOOLEAN, lpu : Int] /\ id \in Int
          /\ new = [old EXCEPT !.current = id, !.lpu = id]
      BY <1>5, <2>4, <3>1 DEF StatesType
    <3>3. new \in [range : R, current : Int, bound : BOOLEAN, lpu : Int]
      BY ONLY <3>2
    <3> QED BY <3>1, <3>3 DEF StatesType
  <2>7. lpsStates' = [a \in LpsIds(task) |-> lpsStates'[a]]
    BY ONLY <2>1, here \in [LpsIds(task) -> StatesType]
  <2>8. \A a \in LpsIds(task) : lpsStates'[a] \in StatesType
    BY ONLY <2>3, <2>6, here \in [LpsIds(task) -> StatesType]
  <2>9. lpsStates' \in [LpsIds(task) -> StatesType]
    BY ONLY <2>7, <2>8
  <2> QED BY <2>3, <2>5, <2>9
<1>7. call' \in CallType
  BY <1>4 DEF CallType, Found, INVALID_ID
<1>8. lpsStates'[Root].lpu = 0
  BY <1>1, <1>4, <1>6, TaskFacts DEF CurrentInv
<1>9. ASSUME NEW l \in Path(task, b)
      PROVE  StandsAt(lpsStates', l)
  <2>1. CASE l = b
    <3>1. lpsStates'[p] = lpsStates[p]
      BY <1>4, <1>6
    <3>2. /\ lpsStates'[b].lpu = lpsStates'[b].current
          /\ lpsStates'[b].current \in OwnLpus(thread, b, lpsStates'[p].lpu)
      BY <1>6, <3>1
    <3>3. Partitioned(b) => lpsStates'[b].range = CurrentRange(LpuCount(b, lpsStates'[p].lpu),
                                                              PpuIds(b).ppuCount,
                                                              PpuIds(b).groupId)
      BY <1>6, <3>1
    <3> QED BY ONLY p = Parent(task, b), <2>1, <3>2, <3>3 DEF StandsAt
  <2>2. CASE l # b
    <3>1. l \in Path(task, p)
      BY <1>4, <2>2
    <3>2. /\ l \in LpsIds(task) /\ Parent(task, l) \in LpsIds(task)
          /\ l <= p /\ Parent(task, l) < l
          /\ StandsAt(lpsStates, l)
      BY <1>1, <1>4, <3>1, CurrentFacts
    <3>3. l \in LpsIds(task) \ {b} /\ Parent(task, l) \in LpsIds(task) \ {b}
      BY <1>4, <3>2
    <3>4. /\ lpsStates'[l] = lpsStates[l]
          /\ lpsStates'[Parent(task, l)] = lpsStates[Parent(task, l)]
      BY <1>6, <3>3
    <3> QED BY ONLY <3>2, <3>4 DEF StandsAt
  <2> QED BY <2>1, <2>2
<1>10. \A l \in LpsIds(task) : lpsStates'[l].bound = lpsStates[l].bound
  BY <1>6
<1>11. lpsStates'[Container].bound
  BY <1>1, <1>4, <1>10 DEF BoundsInv
<1>12. Past' = Past
  <2>1. \A a \in LpsIds(task) : a <= Container => lpsStates'[a].current = lpsStates[a].current
    BY <1>4, <1>6
  <2>2. ASSUME NEW i \in Stages, pc \in Enclosing(i), NEW chain \in LpusOf(thread, task.code[i].lps)
        PROVE  (BeforeIds(lpsStates', chain, Current')
                  \/ ((IsLater' \/ call'.status = "null") /\ SameIds(lpsStates', chain, Current')))
               <=>
               (BeforeIds(lpsStates, chain, Current)
                  \/ ((IsLater \/ call.status = "null") /\ SameIds(lpsStates, chain, Current)))
    <3>1. ASSUME NEW a \in Path(task, p)
          PROVE  lpsStates'[a].current = lpsStates[a].current
      <4>1. a # b /\ a \in LpsIds(task)
        BY <1>1, <1>4, CurrentFacts
      <4> QED BY <1>6, <4>1
    <3>2. /\ SameIds(lpsStates', chain, Path(task, p)) <=> SameIds(lpsStates, chain, Path(task, p))
          /\ BeforeIds(lpsStates', chain, Path(task, p)) <=> BeforeIds(lpsStates, chain, Path(task, p))
      BY <3>1, SameCurrentIds
    <3>3. Path(task, p) \subseteq Int /\ b \in Int /\ \A a \in Path(task, p) : a < b
      BY <1>4
    <3>4. BeforeIds(lpsStates', chain, Path(task, b)) <=>
            \/ BeforeIds(lpsStates', chain, Path(task, p))
            \/ SameIds(lpsStates', chain, Path(task, p)) /\ chain[b] < lpsStates'[b].current
      <4>1. PICK S, T : S = Path(task, b) /\ T = Path(task, p)
        OBVIOUS
      <4>2. /\ T \subseteq Int /\ b \in Int /\ (\A a \in T : a < b)
            /\ S = T \cup {b}
        BY <1>4, <3>3, <4>1
      <4>3. BeforeIds(lpsStates', chain, S) <=>
              \/ BeforeIds(lpsStates', chain, T)
              \/ SameIds(lpsStates', chain, T) /\ chain[b] < lpsStates'[b].current
        BY ONLY <4>2, OneLevelMore
      <4> QED BY <4>1, <4>3
    <3> QED BY <1>2, <1>3, <1>6, <2>2, <3>2, <3>4
  <2> QED BY <1>1, <1>2, <2>1, <2>2, PastKeptAtLoop
<1> QED BY <1>2, <1>3, <1>6, <1>7, <1>8, <1>9, <1>10, <1>11, <1>12, InvKeptAtLoop

LEMMA NoneKeepsInv ==
  ASSUME Inv, AtLoop, call.status # "idle", ~IsFirst,
         UNCHANGED <<task, threadIds, thread, pc, lpuIds, executed>>,
         NEW b \in Path(task, Instruction.lps), Container < b, NEW p, p = Parent(task, b),
         Path(task, p) \subseteq Current,
         lpsStates' \in [LpsIds(task) -> StatesType],
         \A a \in LpsIds(task) \ {b} : lpsStates'[a] = lpsStates[a],
         lpsStates'[b].bound = lpsStates[b].bound,
         call' = IF p = Container THEN NotFound ELSE Called(p, lpsStates[p].current),
         \A i \in Stages : pc \in Enclosing(i) =>
           \A chain \in LpusOf(thread, task.code[i].lps) :
             (BeforeIds(lpsStates, chain, Path(task, p)) \/ SameIds(lpsStates, chain, Path(task, p)))
             <=>
             (BeforeIds(lpsStates, chain, Current)
                \/ ((IsLater \/ call.status = "null") /\ SameIds(lpsStates, chain, Current)))
  PROVE  Inv'
<1>1. TypeOK /\ CallInv /\ CurrentInv /\ LocalsInv /\ BoundsInv /\ executed = SetToBag(Past)
  BY DEF Inv
<1>2. /\ IdsKnown /\ thread \in ThreadsOf(task)
      /\ b \in 1..Len(task.lps) /\ b \in LpsIds(task) /\ b # Root
      /\ p \in LpsIds(task) /\ p < b /\ Container <= p
      /\ p # Container => p \in Path(task, Instruction.lps) /\ Container < p
      /\ Path(task, b) = Path(task, p) \cup {b} /\ Path(task, p) \subseteq 1..p
      /\ LpsIds(task) \subseteq Nat /\ Container \in LpsIds(task) /\ IsMapping(task)
      /\ Instruction.lps \in LpsIds(task)
  BY <1>1, ParentFacts, TypeFacts, TaskFacts, AtLoopFacts
<1>3. call'.status # "idle" /\ call'.status # "found"
  BY DEF NotFound, Called
<1>4. p # Container => lpsStates[p].current \in Nat /\ lpsStates[p].current # INVALID_ID
  <2>1. p # Container => p \in Path(task, p)
    BY <1>2, PathSteps
  <2> QED BY <1>1, <1>2, <2>1, CurrentFacts
<1>5. Current' = Path(task, p) /\ (IsLater' \/ call'.status = "null")
  <2>1. CASE p = Container
    BY <1>3, <2>1, LoopView DEF NotFound
  <2>2. CASE p # Container
    <3>1. call'.status = "called" /\ call'.lps = p /\ call'.previous # INVALID_ID
      BY <1>4, <2>2 DEF Called
    <3> QED BY <1>3, <3>1, LoopView
  <2> QED BY <2>1, <2>2
<1>6. IsLater' => call'.previous = lpsStates'[call'.lps].current
  <2>1. IsLater' <=> call'.status = "called" /\ call'.previous # INVALID_ID
    BY <1>3, LoopView
  <2>2. lpsStates'[p] = lpsStates[p]
    BY <1>2
  <2> QED BY <2>1, <2>2 DEF NotFound, Called
<1>7. call' \in CallType
  BY <1>2, <1>4, TaskFacts DEF CallType, NotFound, Called, INVALID_ID
<1>8. call'.status \in {"called", "found"} =>
        \/ call'.lps \in Path(task, Instruction.lps) /\ Container < call'.lps
        \/ call' = Found(Container)
  BY <1>2 DEF NotFound, Called
<1>9. lpsStates'[Root].lpu = 0
  BY <1>1, <1>2, TaskFacts DEF CurrentInv
<1>10. ASSUME NEW l \in Path(task, p)
       PROVE  StandsAt(lpsStates', l)
  BY <1>1, <1>2, StandsElsewhere
<1>11. \A l \in LpsIds(task) : lpsStates'[l].bound = lpsStates[l].bound
  OBVIOUS
<1>12. lpsStates'[Container].bound
  BY <1>1, <1>2, <1>11 DEF BoundsInv
<1>13. Past' = Past
  <2>1. \A a \in LpsIds(task) : a <= Container => lpsStates'[a].current = lpsStates[a].current
    BY <1>2
  <2>2. ASSUME NEW i \in Stages, pc \in Enclosing(i), NEW chain \in LpusOf(thread, task.code[i].lps)
        PROVE  (BeforeIds(lpsStates', chain, Current')
                  \/ ((IsLater' \/ call'.status = "null") /\ SameIds(lpsStates', chain, Current')))
               <=>
               (BeforeIds(lpsStates, chain, Current)
                  \/ ((IsLater \/ call.status = "null") /\ SameIds(lpsStates, chain, Current)))
    <3>1. ASSUME NEW a \in Path(task, p)
          PROVE  lpsStates'[a].current = lpsStates[a].current
      BY <1>1, <1>2, StandsElsewhere
    <3>2. /\ SameIds(lpsStates', chain, Path(task, p)) <=> SameIds(lpsStates, chain, Path(task, p))
          /\ BeforeIds(lpsStates', chain, Path(task, p)) <=> BeforeIds(lpsStates, chain, Path(task, p))
      BY <3>1, SameCurrentIds
    <3> QED BY <1>5, <2>2, <3>2
  <2> QED BY <1>1, <1>3, <2>1, <2>2, PastKeptAtLoop
<1> QED BY <1>3, <1>5, <1>6, <1>7, <1>8, <1>9, <1>10, <1>11, <1>12, <1>13, InvKeptAtLoop

LEMMA LaterCallKeepsInv ==
  ASSUME Inv, LaterCall
  PROVE  Inv'
<1>1. TypeOK /\ CallInv /\ CurrentInv /\ LocalsInv /\ BoundsInv /\ executed = SetToBag(Past)
  BY DEF Inv
<1>2. PICK b, p, id : b = call.lps /\ p = Parent(task, b) /\ id = NextId(lpsStates, b, call.previous)
  OBVIOUS
<1>3. /\ call.status = "called" /\ call.previous # INVALID_ID
      /\ IF id # INVALID_ID
           THEN lpsStates' = WithLpu(lpsStates, b, id) /\ call' = Found(b)
           ELSE /\ lpsStates' = WithoutLpu(lpsStates, b)
                /\ call' = IF lpsStates[p].bound THEN NotFound
                           ELSE Called(p, lpsStates[p].current)
      /\ UNCHANGED <<task, threadIds, thread, pc, lpuIds, executed>>
  BY <1>2 DEF LaterCall
<1>4. /\ AtLoop /\ call'.status # "idle" /\ call.status # "idle"
      /\ call.status # "found" /\ call.status # "null"
  BY <1>1, <1>3 DEF CallInv, Found, Called, NotFound
<1>5. /\ Request = call /\ ~IsFirst /\ IsLater
      /\ Current = Path(task, b)
  BY <1>2, <1>3, <1>4, LoopView
<1>6. b \in Path(task, Instruction.lps) /\ Container < b
  BY <1>1, <1>2, <1>3, <1>4, <1>5 DEF CallInv, Found
<1>7. /\ IdsKnown /\ thread \in ThreadsOf(task)
      /\ b \in 1..Len(task.lps) /\ b \in LpsIds(task) /\ b # Root
      /\ p \in LpsIds(task) /\ p < b /\ Container <= p
      /\ p # Container => p \in Path(task, Instruction.lps) /\ Container < p
      /\ Path(task, b) = Path(task, p) \cup {b} /\ Path(task, p) \subseteq 1..p
      /\ LpsIds(task) \subseteq Nat /\ Container \in LpsIds(task)
  BY <1>1, <1>2, <1>4, <1>6, ParentFacts, TypeFacts, TaskFacts, AtLoopFacts
<1>8. PICK k, own : k = lpsStates[p].lpu /\ own = OwnLpus(thread, b, k)
  OBVIOUS
<1>9. /\ k \in Int /\ call.previous = lpsStates[b].current
      /\ call.previous \in own /\ own \subseteq Nat
      /\ Partitioned(b) => lpsStates[b].range = CurrentRange(LpuCount(b, k), PpuIds(b).ppuCount,
                                                             PpuIds(b).groupId)
  <2>1. k \in Int
    BY <1>1, <1>7, <1>8, TypeFacts
  <2>2. call.previous = lpsStates[b].current
    BY <1>1, <1>2, <1>4, <1>5 DEF CallInv
  <2>3. StandsAt(lpsStates, b)
    BY <1>1, <1>5, <1>7 DEF CurrentInv
  <2>4. own \subseteq Nat
    BY <1>7, <1>8, <2>1, ShareFacts
  <2> QED BY <1>2, <1>8, <2>1, <2>2, <2>3, <2>4 DEF StandsAt
<1>10. /\ id = INVALID_ID => \A j \in own : j <= call.previous
       /\ id # INVALID_ID => id = call.previous + 1 /\ id \in own
  <2>1. IdsKnown /\ thread \in ThreadsOf(task) /\ b \in 1..Len(task.lps)
    BY <1>7
  <2>2. PICK i : i = call.previous
    OBVIOUS
  <2>3. i \in own /\ id = NextId(lpsStates, b, i)
    BY <1>2, <1>9, <2>2
  <2>4. GoesOn(own, i, id)
    BY ONLY <1>8, <1>9, <2>1, <2>3, LaterIdFacts
  <2> QED BY <2>2, <2>4 DEF GoesOn
<1>11. /\ lpsStates \in [LpsIds(task) -> StatesType]
       /\ Path(task, p) \subseteq Current
  BY <1>1, <1>5, <1>7 DEF TypeOK, StatesType
<1>12. ASSUME NEW i \in Stages, pc \in Enclosing(i), NEW chain \in LpusOf(thread, task.code[i].lps)
       PROVE  /\ chain[b] \in Nat
              /\ SameIds(lpsStates, chain, Path(task, p)) => chain[b] \in own
              /\ (BeforeIds(lpsStates, chain, Current)
                    \/ ((IsLater \/ call.status = "null") /\ SameIds(lpsStates, chain, Current)))
                 <=>
                 (BeforeIds(lpsStates, chain, Path(task, p))
                    \/ (SameIds(lpsStates, chain, Path(task, p)) /\ chain[b] <= call.previous))
  <2>1. /\ chain[b] \in Nat
        /\ SameIds(lpsStates, chain, Path(task, p)) => chain[b] \in own
    BY <1>1, <1>2, <1>4, <1>6, <1>8, <1>11, <1>12, ChainAt
  <2>2. PICK S, T : S = Path(task, b) /\ T = Path(task, p)
    OBVIOUS
  <2>3. T \subseteq Int /\ b \in Int /\ (\A a \in T : a < b) /\ S = T \cup {b}
    BY <1>7, <2>2
  <2>4. /\ SameIds(lpsStates, chain, S) <=> SameIds(lpsStates, chain, T)
                                            /\ chain[b] = lpsStates[b].current
        /\ BeforeIds(lpsStates, chain, S) <=>
             \/ BeforeIds(lpsStates, chain, T)
             \/ SameIds(lpsStates, chain, T) /\ chain[b] < lpsStates[b].current
    BY ONLY <2>3, OneLevelMore
  <2>5. chain[b] <= call.previous <=> chain[b] < call.previous \/ chain[b] = call.previous
    <3>1. call.previous \in Nat
      BY <1>9
    <3> QED BY ONLY <2>1, <3>1
  <2> QED BY <1>5, <1>9, <2>1, <2>2, <2>4, <2>5
<1>13. CASE id # INVALID_ID
  <2>1. lpsStates' = WithLpu(lpsStates, b, id) /\ call' = Found(b)
        /\ id = call.previous + 1 /\ id \in own /\ call.previous \in Nat
    BY <1>3, <1>9, <1>10, <1>13
  <2>2. \A i \in Stages : pc \in Enclosing(i) =>
          \A chain \in LpusOf(thread, task.code[i].lps) :
            (BeforeIds(lpsStates, chain, Path(task, p))
               \/ (SameIds(lpsStates, chain, Path(task, p)) /\ chain[b] < id))
            <=>
            (BeforeIds(lpsStates, chain, Current)
               \/ ((IsLater \/ call.status = "null") /\ SameIds(lpsStates, chain, Current)))
    <3>1. \A x \in Nat : x < id <=> x <= call.previous
      BY <2>1
    <3> QED BY <1>12, <3>1
  <2> QED BY <1>2, <1>3, <1>4, <1>5, <1>6, <1>8, <1>9, <1>11, <2>1, <2>2, FoundKeepsInv
<1>14. CASE id = INVALID_ID
  <2>1. /\ lpsStates' = WithoutLpu(lpsStates, b)
        /\ call' = IF lpsStates[p].bound THEN NotFound ELSE Called(p, lpsStates[p].current)
    BY <1>3, <1>14
  <2>2. lpsStates[p].bound <=> p = Container
    <3>1. lpsStates[Container].bound
      BY <1>1, <1>4, <1>5 DEF BoundsInv
    <3>2. ASSUME lpsStates[p].bound, p # Container
          PROVE  FALSE
      <4>1. Container < p /\ p # Root
        BY <1>7, <3>2, TaskFacts DEF Root
      <4>2. PICK h \in Enclosing(pc) \cup {pc} : task.code[h].container = p
        BY <1>1, <1>7, <3>2, <4>1 DEF BoundsInv, BoundsNested
      <4>3. pc \in 1..Len(task.code) /\ task.code[pc].op = "loop" /\ task.code[pc].container = Container
        BY <1>1, <1>4, AtLoopFacts
      <4>4. h \in Enclosing(pc)
        BY <3>2, <4>2, <4>3
      <4>5. p < Container
        BY <1>7, <4>2, <4>3, <4>4, LoopPaths
      <4> QED BY <1>7, <4>1, <4>5
    <3> QED BY <3>1, <3>2
  <2>3. /\ lpsStates' \in [LpsIds(task) -> StatesType]
        /\ \A a \in LpsIds(task) \ {b} : lpsStates'[a] = lpsStates[a]
        /\ lpsStates'[b].bound = lpsStates[b].bound
    <3>1. PICK old : old = lpsStates[b]
      OBVIOUS
    <3>2. old \in StatesType
      BY <1>7, <1>11, <3>1
    <3>3. lpsStates' = [lpsStates EXCEPT ![b] = [old EXCEPT !.range = NoRange, !.current = INVALID_ID]]
      BY <2>1, <3>1 DEF WithoutLpu
    <3>4. [old EXCEPT !.range = NoRange, !.current = INVALID_ID] \in StatesType
      <4>1. PICK R, none : R = [startId : Int, endId : Int] /\ none = NoRange
        OBVIOUS
      <4>2. none \in R /\ INVALID_ID \in Int
        BY <4>1 DEF NoRange, IdRange, INVALID_ID
      <4>3. old \in [range : R, current : Int, bound : BOOLEAN, lpu : Int]
        BY <3>2, <4>1 DEF StatesType
      <4>4. [old EXCEPT !.range = none, !.current = INVALID_ID]
              \in [range : R, current : Int, bound : BOOLEAN, lpu : Int]
        BY ONLY <4>2, <4>3
      <4> QED BY <4>1, <4>4 DEF StatesType
    <3>5. [old EXCEPT !.range = NoRange, !.current = INVALID_ID].bound = old.bound
      BY <3>2 DEF StatesType
    <3> QED BY <1>7, <1>11, <3>1, <3>3, <3>4, <3>5
  <2>4. \A i \in Stages : pc \in Enclosing(i) =>
          \A chain \in LpusOf(thread, task.code[i].lps) :
            (BeforeIds(lpsStates, chain, Path(task, p)) \/ SameIds(lpsStates, chain, Path(task, p)))
            <=>
            (BeforeIds(lpsStates, chain, Current)
               \/ ((IsLater \/ call.status = "null") /\ SameIds(lpsStates, chain, Current)))
    BY <1>10, <1>12, <1>14
  <2> QED BY <1>2, <1>3, <1>4, <1>5, <1>6, <1>11, <2>1, <2>2, <2>3, <2>4, NoneKeepsInv
<1> QED BY <1>13, <1>14

LEMMA WithRangeFacts ==
  ASSUME TypeOK, NEW b \in 1..Len(task.lps), NEW p, p = Parent(task, b), p \in LpsIds(task), p # b,
         NEW k, k = lpsStates[p].lpu, NEW here, here = WithRange(lpsStates, b)
  PROVE  /\ here \in [LpsIds(task) -> StatesType]
         /\ \A a \in LpsIds(task) \ {b} : here[a] = lpsStates[a]
         /\ here[b].bound = lpsStates[b].bound
         /\ Partitioned(b) => here[b].range = CurrentRange(LpuCount(b, k), PpuIds(b).ppuCount,
                                                           PpuIds(b).groupId)
<1>1. /\ IdsKnown /\ thread \in ThreadsOf(task) /\ b \in LpsIds(task)
      /\ lpsStates \in [LpsIds(task) -> StatesType] /\ k \in Int
  BY TypeFacts, TaskFacts DEF TypeOK, StatesType
<1>2. CASE ~Partitioned(b)
  BY <1>1, <1>2 DEF WithRange
<1>3. CASE Partitioned(b)
  <2>1. PICK n, g, c : n = PpuIds(b).ppuCount /\ g = PpuIds(b).groupId /\ c = LpuCount(b, k)
    OBVIOUS
  <2>2. c \in Nat /\ n \in Nat \ {0} /\ g \in 0..(n - 1)
    BY <1>1, <2>1, ShareFacts DEF PpuIds
  <2>3. PICK r, R, old : /\ r = CurrentRange(c, n, g) /\ R = [startId : Int, endId : Int]
                         /\ old = lpsStates[b]
    OBVIOUS
  <2>4. r \in R
    BY <2>2, <2>3, FirstOfIds
  <2>5. old \in [range : R, current : Int, bound : BOOLEAN, lpu : Int]
    BY <1>1, <2>3 DEF StatesType
  <2>6. here = [lpsStates EXCEPT ![b] = [old EXCEPT !.range = r]]
    BY <1>3, <2>1, <2>3 DEF WithRange
  <2>7. [old EXCEPT !.range = r] \in [range : R, current : Int, bound : BOOLEAN, lpu : Int]
        /\ [old EXCEPT !.range = r].bound = old.bound /\ [old EXCEPT !.range = r].range = r
    BY ONLY <2>4, <2>5
  <2>8. [old EXCEPT !.range = r] \in StatesType
    BY <2>3, <2>7 DEF StatesType
  <2> QED BY <1>1, <1>3, <2>1, <2>3, <2>6, <2>7, <2>8
<1> QED BY <1>2, <1>3

LEMMA ParentFoundKeepsInv ==
  ASSUME Inv, ParentFound
  PROVE  Inv'
<1>1. TypeOK /\ CallInv /\ CurrentInv /\ LocalsInv /\ BoundsInv /\ executed = SetToBag(Past)
  BY DEF Inv
<1>2. PICK p : p = call.lps
  OBVIOUS
<1>3. call.status = "found" /\ UNCHANGED <<task, threadIds, thread, pc, lpuIds, executed>>
  BY DEF ParentFound
<1>4. PICK b \in Path(task, Instruction.lps) :
        /\ Parent(task, b) = p
        /\ LET here == WithRange(lpsStates, b)
               id   == NextId(here, b, INVALID_ID)
           IN IF id # INVALID_ID
                THEN lpsStates' = WithLpu(here, b, id) /\ call' = Found(b)
                ELSE /\ lpsStates' = here
                     /\ call' = IF p = Container THEN NotFound
                                ELSE Called(p, lpsStates[p].current)
  BY <1>2 DEF ParentFound
<1>5. PICK here, id : here = WithRange(lpsStates, b) /\ id = NextId(here, b, INVALID_ID)
  OBVIOUS
<1>6. IF id # INVALID_ID
        THEN lpsStates' = WithLpu(here, b, id) /\ call' = Found(b)
        ELSE /\ lpsStates' = here
             /\ call' = IF p = Container THEN NotFound ELSE Called(p, lpsStates[p].current)
  BY <1>4, <1>5
<1>7. AtLoop /\ call.status # "idle" /\ call.status # "null" /\ call'.status # "idle"
  BY <1>1, <1>3, <1>6 DEF CallInv, Found, NotFound, Called
<1>8. /\ Request = call /\ ~IsFirst /\ ~IsLater
      /\ Current = Path(task, p)
  BY <1>2, <1>3, <1>7, LoopView
<1>9. Container < b
  <2>1. (p \in Path(task, Instruction.lps) /\ Container < p) \/ p = Container
    BY <1>1, <1>2, <1>3, <1>7, <1>8 DEF CallInv, Found
  <2>2. /\ b \in 1..Len(task.lps) /\ p \in 0..(b - 1) /\ Container \in LpsIds(task)
        /\ LpsIds(task) \subseteq Nat
    <3>1. IsMapping(task) /\ Instruction.lps \in LpsIds(task) /\ Container \in LpsIds(task)
          /\ LpsIds(task) \subseteq Nat
      BY <1>1, <1>7, AtLoopFacts, TypeFacts, TaskFacts
    <3> QED BY <1>4, <3>1, PathSteps
  <2> QED BY <2>1, <2>2
<1>10. /\ IdsKnown /\ thread \in ThreadsOf(task)
       /\ b \in 1..Len(task.lps) /\ p \in LpsIds(task) /\ p < b /\ p # b
       /\ p = Parent(task, b)
  <2>1. IdsKnown /\ thread \in ThreadsOf(task) /\ LpsIds(task) \subseteq Nat
    BY <1>1, TypeFacts, TaskFacts
  <2>2. b \in 1..Len(task.lps) /\ p \in LpsIds(task) /\ p < b
    BY <1>1, <1>4, <1>7, <1>9, ParentFacts
  <2> QED BY <1>4, <2>1, <2>2
<1>11. PICK k, own : k = lpsStates[p].lpu /\ own = OwnLpus(thread, b, k)
  OBVIOUS
<1>12. k \in Int
  BY <1>1, <1>10, <1>11, TypeFacts
<1>13. /\ here \in [LpsIds(task) -> StatesType]
       /\ \A a \in LpsIds(task) \ {b} : here[a] = lpsStates[a]
       /\ here[b].bound = lpsStates[b].bound
       /\ Partitioned(b) => here[b].range = CurrentRange(LpuCount(b, k), PpuIds(b).ppuCount,
                                                         PpuIds(b).groupId)
  BY <1>1, <1>5, <1>10, <1>11, WithRangeFacts
<1>14. /\ id = INVALID_ID => own = {}
       /\ id # INVALID_ID => id \in own /\ \A j \in own : id <= j
  <2>1. IdsKnown /\ thread \in ThreadsOf(task) /\ b \in 1..Len(task.lps)
    BY <1>10
  <2> QED BY ONLY <1>5, <1>11, <1>12, <1>13, <2>1, FirstIdFacts
<1>15. Path(task, p) \subseteq Current
  BY <1>8
<1>16. ASSUME NEW i \in Stages, pc \in Enclosing(i), NEW chain \in LpusOf(thread, task.code[i].lps)
       PROVE  /\ chain[b] \in Nat
              /\ SameIds(lpsStates, chain, Path(task, p)) => chain[b] \in own
  BY <1>1, <1>7, <1>9, <1>10, <1>11, <1>15, <1>16, ChainAt
<1>17. CASE id # INVALID_ID
  <2>1. lpsStates' = WithLpu(here, b, id) /\ call' = Found(b) /\ id \in own
        /\ \A j \in own : id <= j
    BY <1>6, <1>14, <1>17
  <2>2. id \in Nat
    <3>1. own \subseteq Nat
      BY <1>10, <1>11, <1>12, ShareFacts
    <3> QED BY <2>1, <3>1
  <2>3. \A i \in Stages : pc \in Enclosing(i) =>
          \A chain \in LpusOf(thread, task.code[i].lps) :
            (BeforeIds(lpsStates, chain, Path(task, p))
               \/ (SameIds(lpsStates, chain, Path(task, p)) /\ chain[b] < id))
            <=>
            (BeforeIds(lpsStates, chain, Current)
               \/ ((IsLater \/ call.status = "null") /\ SameIds(lpsStates, chain, Current)))
    <3>1. ASSUME NEW i \in Stages, pc \in Enclosing(i),
                 NEW chain \in LpusOf(thread, task.code[i].lps)
          PROVE  ~ (SameIds(lpsStates, chain, Path(task, p)) /\ chain[b] < id)
      BY <1>16, <2>1, <2>2, <3>1
    <3> QED BY <1>7, <1>8, <3>1
  <2> QED BY <1>1, <1>3, <1>7, <1>8, <1>9, <1>10, <1>11, <1>13, <1>15, <2>1, <2>3, FoundKeepsInv
<1>18. CASE id = INVALID_ID
  <2>1. /\ lpsStates' = here
        /\ call' = IF p = Container THEN NotFound ELSE Called(p, lpsStates[p].current)
    BY <1>6, <1>18
  <2>2. \A i \in Stages : pc \in Enclosing(i) =>
          \A chain \in LpusOf(thread, task.code[i].lps) :
            (BeforeIds(lpsStates, chain, Path(task, p)) \/ SameIds(lpsStates, chain, Path(task, p)))
            <=>
            (BeforeIds(lpsStates, chain, Current)
               \/ ((IsLater \/ call.status = "null") /\ SameIds(lpsStates, chain, Current)))
    <3>1. ASSUME NEW i \in Stages, pc \in Enclosing(i),
                 NEW chain \in LpusOf(thread, task.code[i].lps)
          PROVE  ~ SameIds(lpsStates, chain, Path(task, p))
      BY <1>14, <1>16, <1>18, <3>1
    <3> QED BY <1>7, <1>8, <3>1
  <2> QED BY <1>1, <1>3, <1>7, <1>8, <1>9, <1>10, <1>13, <1>15, <2>1, <2>2, NoneKeepsInv
<1> QED BY <1>17, <1>18

(* Where the thread arrives, with no call of getNextLpu under way: it is in the   *)
(* current LPUs of the loops around it, and before all that is to come.          *)
Arriving == TypeOK /\ call.status = "idle" /\ (AtLoop => lpuIds[pc] = INVALID_ID)
Arrived ==
  /\ CallInv
  /\ Current = PathsOf(Enclosing(pc))
  /\ AtLoop => IsFirst
  /\ \A i \in Stages : /\ Levels(i) = PathsOf(Enclosing(i) \cap Enclosing(pc))
                       /\ IsPast(i) <=> i < pc
LEMMA ArrivingArrives == Arriving => Arrived
<1> SUFFICES ASSUME Arriving PROVE Arrived
  OBVIOUS
<1>1. TypeOK /\ call.status = "idle" /\ (AtLoop => lpuIds[pc] = INVALID_ID)
  BY DEF Arriving
<1>2. CASE ~AtLoop
  <2>1. CallInv
    BY <1>1, <1>2 DEF CallInv
  <2>2. Current = PathsOf(Enclosing(pc))
    BY <1>2 DEF Current
  <2>3. \A i : /\ Levels(i) = PathsOf(Enclosing(i) \cap Enclosing(pc))
               /\ IsPast(i) <=> i < pc
    BY <1>2 DEF Levels, IsPast
  <2> QED BY <1>2, <2>1, <2>2, <2>3 DEF Arrived
<1>3. CASE AtLoop
  <2>1. Request = Called(Instruction.lps, INVALID_ID)
    BY <1>1, <1>3 DEF Request
  <2>2. IsFirst /\ ~IsLater /\ Request.status = "called" /\ Request.lps = Instruction.lps
    BY <2>1 DEF IsFirst, IsLater, Called
  <2>3. CallInv
    BY <1>1, <1>3, <2>2, AtLoopFacts DEF CallInv
  <2>4. Current = PathsOf(Enclosing(pc))
    <3>1. Current = Path(task, Container)
      BY <1>3, <2>2 DEF Current
    <3> QED BY <1>1, <1>3, <3>1, AtLoopFacts
  <2>5. ASSUME NEW i \in Stages
        PROVE  /\ Levels(i) = PathsOf(Enclosing(i) \cap Enclosing(pc))
               /\ IsPast(i) <=> i < pc
    <3>1. CASE pc \notin Enclosing(i)
      BY <1>3, <3>1 DEF Levels, IsPast
    <3>2. CASE pc \in Enclosing(i)
      <4>1. IdsKnown /\ i \in 1..(Len(task.code) + 1) /\ pc \in Nat
        BY <1>1, TypeFacts, StagePaths
      <4>2. Enclosing(pc) \subseteq Enclosing(i) /\ pc < i /\ i \in Nat
        BY <3>2, <4>1, EnclosingNested, EnclosingFacts
      <4>3. Enclosing(i) \cap Enclosing(pc) = Enclosing(pc) /\ ~ i < pc
        BY <4>1, <4>2
      <4>4. Levels(i) = Current /\ ~IsPast(i)
        BY <1>3, <2>2, <3>2 DEF Levels, IsPast
      <4> QED BY <2>4, <4>3, <4>4
    <3> QED BY <3>1, <3>2
  <2> QED BY <2>2, <2>3, <2>4, <2>5 DEF Arrived
<1> QED BY <1>2, <1>3
LEMMA ArrivesNext == Arriving' => Arrived'
  BY ArrivingArrives, PTL

LEMMA EnterBodyKeepsInv ==
  ASSUME Inv, EnterBody
  PROVE  Inv'
<1>1. TypeOK /\ CallInv /\ CurrentInv /\ LocalsInv /\ BoundsInv /\ executed = SetToBag(Past)
  BY DEF Inv
<1>2. /\ AtLoop /\ call = Found(Instruction.lps) /\ pc' = pc + 1 /\ call' = Idle
      /\ UNCHANGED <<task, threadIds, thread, lpsStates, lpuIds, executed>>
  BY DEF EnterBody
<1>3. /\ IdsKnown /\ pc \in 1..Len(task.code) /\ task.code[pc].op = "loop"
      /\ pc + 1 \in 1..Len(task.code) /\ Len(task.code) \in Nat
      /\ Enclosing(pc + 1) = Enclosing(pc) \cup {pc}
      /\ PathsOf(Enclosing(pc + 1)) = Path(task, Instruction.lps)
      /\ Container = task.code[pc].container
  BY <1>1, <1>2, TypeFacts, AtLoopFacts, InLoop, LoopPaths
<1>4. /\ \A i : Enclosing(i)' = Enclosing(i) /\ PathsOf(i)' = PathsOf(i)
      /\ Stages' = Stages
      /\ Enclosing(pc)' = Enclosing(pc + 1)
  <2>1. Enclosing(pc)' = Enclosing(pc + 1)
    BY <1>2 DEF Enclosing
  <2> QED BY <1>2, <2>1, TaskKept
<1>5. TypeOK'
  <2>1. Idle \in CallType
    BY <1>3, TaskFacts DEF CallType, Idle, INVALID_ID
  <2>2. pc' \in 1..(Len(task.code) + 1)
    BY <1>2, <1>3
  <2> QED BY <1>1, <1>2, <2>1, <2>2 DEF TypeOK, CallType
<1>6. Arriving'
  <2>1. lpuIds[pc + 1] = INVALID_ID
    <3>1. pc + 1 \notin Enclosing(pc) /\ pc + 1 # pc
      BY <1>3, EnclosingFacts
    <3> QED BY <1>1, <1>3, <3>1 DEF LocalsInv
  <2> QED BY <1>2, <1>5, <2>1 DEF Arriving, Idle
<1>7. Arrived'
  BY <1>6, ArrivesNext
<1>8. Request = call /\ ~IsFirst /\ ~IsLater /\ call.status = "found" /\ call.lps = Instruction.lps
      /\ Current = Path(task, Instruction.lps)
  BY <1>2 DEF Request, IsFirst, IsLater, Found, Current
<1>9. Current' = Current
  BY <1>3, <1>4, <1>7, <1>8 DEF Arrived
<1>10. ASSUME NEW i \in Stages
       PROVE  Levels(i)' = Levels(i) /\ (IsPast(i)' <=> IsPast(i))
  <2>1. /\ Levels(i)' = PathsOf(Enclosing(i) \cap Enclosing(pc + 1))
        /\ IsPast(i)' <=> i < pc + 1
    BY <1>2, <1>4, <1>7 DEF Arrived
  <2>2. i \in 1..(Len(task.code) + 1) /\ i \in Nat /\ task.code[i].op = "stage" /\ pc \in Nat
    BY <1>3, StagePaths
  <2>3. CASE pc \in Enclosing(i)
    <3>1. Enclosing(pc) \subseteq Enclosing(i) /\ pc < i
      BY <1>3, <2>2, <2>3, EnclosingNested, EnclosingFacts
    <3>2. Enclosing(i) \cap Enclosing(pc + 1) = Enclosing(pc + 1) /\ ~ i < pc + 1
      BY <1>3, <2>2, <2>3, <3>1
    <3>3. Levels(i) = Current /\ ~IsPast(i)
      BY <1>2, <1>8, <2>3 DEF Levels, IsPast
    <3> QED BY <1>3, <1>8, <2>1, <3>2, <3>3
  <2>4. CASE pc \notin Enclosing(i)
    <3>1. Enclosing(i) \cap Enclosing(pc + 1) = Enclosing(i) \cap Enclosing(pc)
      BY <1>3, <2>4
    <3>2. i # pc
      BY <1>3, <2>2
    <3>3. i < pc + 1 <=> i < pc
      BY <2>2, <3>2
    <3>4. Levels(i) = PathsOf(Enclosing(i) \cap Enclosing(pc)) /\ (IsPast(i) <=> i < pc)
      BY <2>4 DEF Levels, IsPast
    <3> QED BY <2>1, <3>1, <3>3, <3>4
  <2> QED BY <2>3, <2>4
<1>11. Past' = Past
  <2>1. ASSUME NEW i \in Stages, NEW chain
        PROVE  Done(i, chain)' <=> Done(i, chain)
    BY <1>2, <1>10 DEF Done, BeforeIds, SameIds
  <2> QED BY <1>2, <2>1, PastKept
<1>12. CurrentInv'
  BY <1>1, <1>2, <1>9 DEF CurrentInv, StandsAt, OwnLpus, Partitioned, LpuCount, PpuIds
<1>13. LocalsInv'
  BY <1>1, <1>2, <1>3, <1>4 DEF LocalsInv
<1>14. BoundsInv'
  <2>1. /\ \A h \in Enclosing(pc + 1) : lpsStates[task.code[h].container].bound
        /\ AtLoop' => IsFirst'
    BY <1>1, <1>2, <1>3, <1>7, <1>8 DEF BoundsInv, Arrived
  <2>2. BoundsNested'
    BY <1>1, <1>2, <1>3, <1>4 DEF BoundsInv, BoundsNested
  <2> QED BY <1>2, <1>4, <2>1, <2>2 DEF BoundsInv
<1>15. (executed = SetToBag(Past))'
  BY <1>1, <1>2, <1>11 DEF SetToBag
<1> QED BY <1>5, <1>7, <1>12, <1>13, <1>14, <1>15 DEF Inv, Arrived

LEMMA LeaveLoopKeepsInv ==
  ASSUME Inv, LeaveLoop
  PROVE  Inv'
<1>1. TypeOK /\ CallInv /\ CurrentInv /\ LocalsInv /\ BoundsInv /\ executed = SetToBag(Past)
  BY DEF Inv
<1>2. PICK c, e : c = Container /\ e = Instruction.target
  OBVIOUS
<1>3. /\ AtLoop /\ call = NotFound /\ pc' = e /\ call' = Idle
      /\ lpsStates' = Unbound(lpsStates, c)
      /\ lpuIds' = [lpuIds EXCEPT ![pc] = INVALID_ID]
      /\ UNCHANGED <<task, threadIds, thread, executed>>
  BY <1>2 DEF LeaveLoop
<1>4. /\ IdsKnown /\ IsMapping(task) /\ pc \in 1..Len(task.code) /\ task.code[pc].op = "loop"
      /\ c = task.code[pc].container /\ e = task.code[pc].target
      /\ e \in (pc + 2)..(Len(task.code) + 1) /\ e \in 1..(Len(task.code) + 1)
      /\ Len(task.code) \in Nat
      /\ Enclosing(e) = Enclosing(pc)
      /\ c \in LpsIds(task) /\ PathsOf(Enclosing(pc)) = Path(task, c)
  <2>1. /\ IdsKnown /\ IsMapping(task) /\ pc \in 1..Len(task.code) /\ task.code[pc].op = "loop"
        /\ c = task.code[pc].container /\ e = task.code[pc].target /\ Len(task.code) \in Nat
    BY <1>1, <1>2, <1>3, TypeFacts, AtLoopFacts, TaskFacts DEF Instruction
  <2>2. e \in (pc + 2)..(Len(task.code) + 1)
    BY <2>1, LoopFacts
  <2>3. Enclosing(e) = Enclosing(pc) /\ c \in LpsIds(task) /\ PathsOf(Enclosing(pc)) = Path(task, c)
    BY <2>1, AfterLoop, LoopPaths
  <2> QED BY <2>1, <2>2, <2>3
<1>5. /\ \A i : Enclosing(i)' = Enclosing(i) /\ PathsOf(i)' = PathsOf(i)
      /\ Stages' = Stages
      /\ Enclosing(pc)' = Enclosing(e)
  <2>1. Enclosing(pc)' = Enclosing(e)
    BY <1>3 DEF Enclosing
  <2> QED BY <1>3, <2>1, TaskKept
<1>6. /\ lpsStates' \in [LpsIds(task) -> StatesType]
      /\ \A a \in LpsIds(task) : /\ lpsStates'[a].current = lpsStates[a].current
                                 /\ lpsStates'[a].range = lpsStates[a].range
                                 /\ lpsStates'[a].lpu = lpsStates[a].lpu
                                 /\ a # c => lpsStates'[a].bound = lpsStates[a].bound
      /\ c # Root => ~lpsStates'[c].bound
  <2>1. lpsStates \in [LpsIds(task) -> StatesType]
    BY <1>1 DEF TypeOK, StatesType
  <2>2. CASE c = Root
    BY <1>3, <2>1, <2>2 DEF Unbound
  <2>3. CASE c # Root
    <3>1. lpsStates' = [lpsStates EXCEPT ![c].bound = FALSE]
      BY <1>3, <2>3 DEF Unbound
    <3> QED BY <1>4, <2>1, <3>1 DEF StatesType
  <2> QED BY <2>2, <2>3
<1>7. TypeOK'
  <2>1. Idle \in CallType
    BY <1>4, TaskFacts DEF CallType, Idle, INVALID_ID
  <2>2. pc' \in 1..(Len(task.code) + 1) /\ lpuIds' \in [1..Len(task.code) -> Int]
    BY <1>1, <1>3, <1>4 DEF TypeOK, INVALID_ID
  <2> QED BY <1>1, <1>3, <1>6, <2>1, <2>2 DEF TypeOK, CallType, StatesType
<1>8. \A h \in 1..Len(task.code) : lpuIds'[h] # INVALID_ID => h \in Enclosing(pc)
  BY <1>1, <1>3, <1>4 DEF LocalsInv, TypeOK
<1>9. Arriving'
  <2>1. e \in 1..Len(task.code) => lpuIds'[e] = INVALID_ID
    <3>1. e \notin Enclosing(pc)
      BY <1>4, EnclosingFacts
    <3> QED BY <1>8, <3>1
  <2>2. AtLoop' => e \in 1..Len(task.code)
    BY <1>3, <1>4 DEF AtLoop, Finished
  <2> QED BY <1>3, <1>7, <2>1, <2>2 DEF Arriving, Idle
<1>10. Arrived'
  BY <1>9, ArrivesNext
<1>11. Request = call /\ ~IsFirst /\ ~IsLater /\ call.status = "null" /\ Request.status = "null"
       /\ Current = Path(task, c)
  BY <1>2, <1>3 DEF Request, IsFirst, IsLater, NotFound, Current
<1>12. Current' = Current
  BY <1>4, <1>5, <1>10, <1>11 DEF Arrived
<1>13. ASSUME NEW i \in Stages
       PROVE  Levels(i)' = Levels(i) /\ (IsPast(i)' <=> IsPast(i))
  <2>1. /\ Levels(i)' = PathsOf(Enclosing(i) \cap Enclosing(pc))
        /\ IsPast(i)' <=> i < e
    BY <1>3, <1>4, <1>5, <1>10 DEF Arrived
  <2>2. /\ i \in 1..Len(task.code) /\ i \in 1..(Len(task.code) + 1) /\ i \in Nat
        /\ task.code[i].op = "stage" /\ pc \in Nat /\ e \in Nat
    BY <1>4, StagePaths
  <2>3. CASE pc \in Enclosing(i)
    <3>1. Enclosing(pc) \subseteq Enclosing(i) /\ i < e
      BY <1>4, <2>2, <2>3, EnclosingNested, EnclosingFacts
    <3>2. Enclosing(i) \cap Enclosing(pc) = Enclosing(pc)
      BY <3>1
    <3>3. Levels(i) = Current /\ IsPast(i)
      BY <1>3, <1>11, <2>3 DEF Levels, IsPast
    <3> QED BY <1>4, <1>11, <2>1, <3>1, <3>2, <3>3
  <2>4. CASE pc \notin Enclosing(i)
    <3>1. i < e <=> i < pc
      <4>1. ~ (pc < i /\ i < e)
        BY <1>4, <2>2, <2>4, EnclosingIs
      <4>2. i # pc
        BY <1>4, <2>2
      <4> QED BY <1>4, <2>2, <4>1, <4>2
    <3>2. Levels(i) = PathsOf(Enclosing(i) \cap Enclosing(pc)) /\ (IsPast(i) <=> i < pc)
      BY <2>4 DEF Levels, IsPast
    <3> QED BY <2>1, <3>1, <3>2
  <2> QED BY <2>3, <2>4
<1>14. ASSUME NEW a \in Current
       PROVE  /\ a \in LpsIds(task) /\ Parent(task, a) \in LpsIds(task)
              /\ StandsAt(lpsStates, a) /\ StandsAt(lpsStates', a)
  <2>1. /\ a \in LpsIds(task) /\ Parent(task, a) \in LpsIds(task) /\ StandsAt(lpsStates, a)
    BY <1>1, <1>4, <1>11, CurrentFacts
  <2>2. StandsAt(lpsStates', a)
    BY <1>6, <2>1 DEF StandsAt
  <2> QED BY <2>1, <2>2
<1>15. Past' = Past
  <2>1. ASSUME NEW i \in Stages, NEW chain
        PROVE  Done(i, chain)' <=> Done(i, chain)
    <3>1. Levels(i) \subseteq Current
      BY <1>4, <1>11 DEF Levels, PathsOf
    <3>2. \A a \in Levels(i) : lpsStates'[a].current = lpsStates[a].current
      BY <1>6, <1>14, <3>1
    <3>3. /\ SameIds(lpsStates', chain, Levels(i)) <=> SameIds(lpsStates, chain, Levels(i))
          /\ BeforeIds(lpsStates', chain, Levels(i)) <=> BeforeIds(lpsStates, chain, Levels(i))
      BY <3>2, SameCurrentIds
    <3>4. Done(i, chain)' <=> \/ BeforeIds(lpsStates', chain, Levels(i)')
                              \/ IsPast(i)' /\ SameIds(lpsStates', chain, Levels(i)')
      BY DEF Done, BeforeIds, SameIds
    <3>5. Done(i, chain) <=> \/ BeforeIds(lpsStates, chain, Levels(i))
                             \/ IsPast(i) /\ SameIds(lpsStates, chain, Levels(i))
      BY DEF Done
    <3> QED BY <1>13, <3>3, <3>4, <3>5
  <2> QED BY <1>3, <2>1, PastKept
<1>16. CurrentInv'
  <2>1. \A a \in Current' : StandsAt(lpsStates, a)'
    BY <1>3, <1>12, <1>14 DEF StandsAt, OwnLpus, Partitioned, LpuCount, PpuIds
  <2>2. lpsStates'[Root].lpu = 0
    BY <1>1, <1>4, <1>6, TaskFacts DEF CurrentInv
  <2> QED BY <2>1, <2>2 DEF CurrentInv
<1>17. LocalsInv'
  BY <1>3, <1>4, <1>5, <1>8 DEF LocalsInv
<1>18. BoundsInv'
  <2>1. BoundsNested'
    <3> SUFFICES ASSUME NEW l \in LpsIds(task) \ {Root}, lpsStates'[l].bound
                 PROVE  \E h \in Enclosing(e) :
                          h <= Len(task.code) /\ task.code[h].op = "loop"
                          /\ task.code[h].container = l
      BY <1>3, <1>5 DEF BoundsNested
    <3>1. l # c /\ lpsStates[l].bound
      BY <1>6
    <3>2. PICK h \in Enclosing(pc) \cup {pc} :
            h <= Len(task.code) /\ task.code[h].op = "loop" /\ task.code[h].container = l
      BY <1>1, <3>1 DEF BoundsInv, BoundsNested
    <3>3. h \in Enclosing(pc)
      BY <1>4, <3>1, <3>2
    <3> QED BY <1>4, <3>2, <3>3
  <2>2. ASSUME NEW h \in Enclosing(pc)
        PROVE  lpsStates'[task.code[h].container].bound
    <3>1. lpsStates[task.code[h].container].bound
      BY <1>1 DEF BoundsInv
    <3>2. h \in 1..Len(task.code) /\ task.code[h].op = "loop"
      BY <1>4, EnclosingFacts
    <3>3. task.code[h].container \in LpsIds(task) /\ task.code[h].container < c
      BY <1>4, <3>2, LoopFacts, LoopPaths
    <3>4. task.code[h].container # c
      <4>1. LpsIds(task) \subseteq Int
        BY <1>4, TaskFacts
      <4> QED BY <1>4, <3>3, <4>1
    <3> QED BY <1>6, <3>1, <3>3, <3>4
  <2>3. AtLoop' => IsFirst'
    BY <1>10 DEF Arrived
  <2> QED BY <1>3, <1>4, <1>5, <2>1, <2>2, <2>3 DEF BoundsInv
<1>19. (executed = SetToBag(Past))'
  BY <1>1, <1>3, <1>15 DEF SetToBag
<1> QED BY <1>7, <1>10, <1>16, <1>17, <1>18, <1>19 DEF Inv, Arrived

LEMMA LoopEndKeepsInv ==
  ASSUME Inv, LoopEnd
  PROVE  Inv'
<1>1. TypeOK /\ CallInv /\ CurrentInv /\ LocalsInv /\ BoundsInv /\ executed = SetToBag(Past)
  BY DEF Inv
<1>2. PICK h, l : h = Instruction.target /\ l = task.code[h].lps
  OBVIOUS
<1>3. /\ ~Finished /\ Instruction.op = "end" /\ pc' = h
      /\ lpuIds' = [lpuIds EXCEPT ![h] = lpsStates[l].lpu]
      /\ UNCHANGED <<task, threadIds, thread, lpsStates, call, executed>>
  BY <1>2 DEF LoopEnd
<1>4. /\ IdsKnown /\ IsMapping(task) /\ thread \in ThreadsOf(task)
      /\ pc \in 1..Len(task.code) /\ pc \in 1..(Len(task.code) + 1) /\ Len(task.code) \in Nat
      /\ task.code[pc].op = "end" /\ h = task.code[pc].target
  BY <1>1, <1>2, <1>3, TypeFacts, TaskFacts DEF Instruction
<1>5. /\ h \in 1..Len(task.code) /\ h \in 1..(Len(task.code) + 1) /\ h < pc
      /\ task.code[h].op = "loop" /\ task.code[h].target = pc + 1
      /\ Enclosing(pc) = Enclosing(h) \cup {h}
  BY <1>4, EndFacts
<1>6. /\ l \in 1..Len(task.lps) /\ l \in LpsIds(task) /\ l # Root
      /\ PathsOf(Enclosing(pc)) = Path(task, l) /\ l \in Path(task, l)
  <2>1. l \in 1..Len(task.lps) /\ l \in LpsIds(task) /\ l # Root
    BY <1>2, <1>4, <1>5, LoopFacts, TaskFacts
  <2>2. PathsOf(Enclosing(h + 1)) = Path(task, l) /\ Enclosing(h + 1) = Enclosing(h) \cup {h}
    BY <1>2, <1>4, <1>5, LoopPaths, InLoop
  <2>3. l \in Path(task, l)
    BY <1>4, <2>1, PathIs
  <2> QED BY <1>5, <2>1, <2>2, <2>3
<1>7. /\ \A i : Enclosing(i)' = Enclosing(i) /\ PathsOf(i)' = PathsOf(i)
      /\ Stages' = Stages
      /\ Enclosing(pc)' = Enclosing(h)
  <2>1. Enclosing(pc)' = Enclosing(h)
    BY <1>3 DEF Enclosing
  <2> QED BY <1>3, <2>1, TaskKept
<1>8. ~AtLoop /\ call.status = "idle" /\ Current = Path(task, l)
  <2>1. ~AtLoop
    BY <1>3 DEF AtLoop
  <2>2. call.status = "idle"
    BY <1>1, <2>1 DEF CallInv
  <2> QED BY <1>6, <2>1, <2>2 DEF Current
<1>9. /\ lpsStates[l].lpu = lpsStates[l].current
      /\ lpsStates[l].current \in Nat
  BY <1>1, <1>6, <1>8, CurrentFacts
<1>10. TypeOK'
  <2>1. lpuIds' \in [1..Len(task.code) -> Int]
    <3>1. lpsStates[l].lpu \in Int
      BY <1>9
    <3> QED BY <1>1, <1>3, <3>1 DEF TypeOK
  <2> QED BY <1>1, <1>3, <1>5, <2>1 DEF TypeOK
<1>11. /\ AtLoop' /\ Instruction' = task.code[h] /\ lpuIds'[h] = lpsStates[l].current
  <2>1. lpuIds'[h] = lpsStates[l].lpu
    BY <1>1, <1>3, <1>5 DEF TypeOK
  <2>2. Instruction' = task.code[h] /\ ~Finished'
    BY <1>3, <1>5 DEF Instruction, Finished
  <2> QED BY <1>5, <1>9, <2>1, <2>2 DEF AtLoop
<1>12. /\ Request' = Called(l, lpsStates[l].current)
       /\ IsLater' /\ ~IsFirst' /\ Current' = Path(task, l)
       /\ Request.status' = "called" /\ Request.lps' = l
       /\ Request.previous' = lpsStates[l].current
  <2>1. Request' = Called(l, lpsStates[l].current)
    BY <1>2, <1>3, <1>8, <1>11 DEF Request, Called
  <2>2. /\ Request.status' = "called" /\ Request.lps' = l
        /\ Request.previous' = lpsStates[l].current
    BY <2>1 DEF Called
  <2>3. IsLater' /\ ~IsFirst'
    BY <1>9, <2>2 DEF IsLater, IsFirst, INVALID_ID
  <2>4. Current' = Path(task, l)
    BY <1>3, <1>11, <2>2, <2>3 DEF Current
  <2> QED BY <2>1, <2>2, <2>3, <2>4
<1>13. CallInv'
  <2>1. Request.lps' \in Path(task, Instruction.lps)' /\ Container' < Request.lps'
    BY <1>2, <1>3, <1>4, <1>5, <1>6, <1>11, <1>12, LoopPaths DEF Container
  <2> QED BY <1>3, <1>11, <1>12, <2>1 DEF CallInv
<1>14. ASSUME NEW i \in Stages
       PROVE  Levels(i)' = Levels(i) /\ (IsPast(i)' <=> IsPast(i))
  <2>1. /\ i \in 1..(Len(task.code) + 1) /\ i \in Nat /\ task.code[i].op = "stage"
        /\ h \in Nat /\ pc \in Nat
    BY <1>4, <1>5, StagePaths
  <2>2. Levels(i) = PathsOf(Enclosing(i) \cap Enclosing(pc)) /\ (IsPast(i) <=> i < pc)
    BY <1>8 DEF Levels, IsPast
  <2>3. CASE h \in Enclosing(i)
    <3>1. Levels(i)' = Path(task, l) /\ IsPast(i)'
      BY <1>3, <1>7, <1>11, <1>12, <2>3 DEF Levels, IsPast
    <3>2. Enclosing(h) \subseteq Enclosing(i) /\ i < pc + 1
      BY <1>4, <1>5, <2>1, <2>3, EnclosingNested, EnclosingFacts
    <3>3. Enclosing(i) \cap Enclosing(pc) = Enclosing(pc)
      BY <1>5, <2>3, <3>2
    <3>4. i < pc
      BY <1>4, <2>1, <3>2
    <3> QED BY <1>6, <2>2, <3>1, <3>3, <3>4
  <2>4. CASE h \notin Enclosing(i)
    <3>1. Levels(i)' = PathsOf(Enclosing(i) \cap Enclosing(h)) /\ (IsPast(i)' <=> i < h)
      BY <1>3, <1>7, <2>4 DEF Levels, IsPast
    <3>2. Enclosing(i) \cap Enclosing(pc) = Enclosing(i) \cap Enclosing(h)
      BY <1>5, <2>4
    <3>3. i < h <=> i < pc
      <4>1. ~ (h < i /\ i < pc + 1)
        BY <1>4, <1>5, <2>1, <2>4, EnclosingIs
      <4>2. i # h
        BY <1>5, <2>1
      <4> QED BY <1>5, <2>1, <4>1, <4>2
    <3> QED BY <2>2, <3>1, <3>2, <3>3
  <2> QED BY <2>3, <2>4
<1>15. Past' = Past
  <2>1. ASSUME NEW i \in Stages, NEW chain
        PROVE  Done(i, chain)' <=> Done(i, chain)
    BY <1>3, <1>14 DEF Done, BeforeIds, SameIds
  <2> QED BY <1>3, <2>1, PastKept
<1>16. CurrentInv'
  BY <1>1, <1>3, <1>8, <1>12 DEF CurrentInv, StandsAt, OwnLpus, Partitioned, LpuCount, PpuIds
<1>17. LocalsInv'
  BY <1>1, <1>3, <1>5, <1>7, <1>8, <1>11 DEF LocalsInv, TypeOK
<1>18. BoundsInv'
  <2>1. BoundsNested'
    <3> SUFFICES ASSUME NEW b \in LpsIds(task) \ {Root}, lpsStates[b].bound
                 PROVE  \E k \in Enclosing(h) \cup {h} :
                          k <= Len(task.code) /\ task.code[k].op = "loop"
                          /\ task.code[k].container = b
      BY <1>3, <1>7 DEF BoundsNested
    <3>1. PICK k \in Enclosing(pc) \cup {pc} :
            k <= Len(task.code) /\ task.code[k].op = "loop" /\ task.code[k].container = b
      BY <1>1 DEF BoundsInv, BoundsNested
    <3>2. k # pc
      BY <1>4, <3>1
    <3> QED BY <1>5, <3>1, <3>2
  <2>2. \A k \in Enclosing(h) \cup {h} : lpsStates[task.code[k].container].bound
    BY <1>1, <1>5 DEF BoundsInv
  <2>3. Container' = task.code[h].container
    BY <1>11 DEF Container
  <2> QED BY <1>3, <1>7, <2>1, <2>2, <2>3 DEF BoundsInv
<1>19. (executed = SetToBag(Past))'
  BY <1>1, <1>3, <1>15 DEF SetToBag
<1> QED BY <1>10, <1>13, <1>16, <1>17, <1>18, <1>19 DEF Inv

(* What is in Past, without its sets. *)
LEMMA InPast ==
  ASSUME NEW e
  PROVE  e \in Past <=> \E i \in Stages : \E chain \in AllLpus(task.code[i].lps) :
                          e = Execution(i, chain) /\ IsDone(i, chain)
  BY DEF Past

(* A bag of single elements, and one more. *)
LEMMA OneMore ==
  ASSUME NEW S, NEW e, e \notin S
  PROVE  SetToBag(S) (+) SetToBag({e}) = SetToBag(S \cup {e})
<1>1. /\ DOMAIN SetToBag(S) = S /\ DOMAIN SetToBag({e}) = {e}
      /\ DOMAIN SetToBag(S \cup {e}) = S \cup {e}
      /\ \A x \in S : SetToBag(S)[x] = 1
      /\ SetToBag({e})[e] = 1
      /\ \A x \in S \cup {e} : SetToBag(S \cup {e})[x] = 1
  BY DEF SetToBag
<1>2. SetToBag(S) (+) SetToBag({e}) =
        [x \in S \cup {e} |-> (IF x \in S THEN SetToBag(S)[x] ELSE 0)
                                + (IF x \in {e} THEN SetToBag({e})[x] ELSE 0)]
  BY <1>1 DEF (+)
<1>3. \A x \in S \cup {e} : (IF x \in S THEN SetToBag(S)[x] ELSE 0)
                              + (IF x \in {e} THEN SetToBag({e})[x] ELSE 0) = 1
  BY <1>1
<1> QED BY <1>2, <1>3 DEF SetToBag

(* Executing a stage puts it behind the thread, for the current LPU, and adds    *)
(* just that to what has been executed.                                          *)
LEMMA ExecuteStageKeepsInv ==
  ASSUME Inv, ExecuteStage
  PROVE  Inv'
<1>1. TypeOK /\ CallInv /\ CurrentInv /\ LocalsInv /\ BoundsInv /\ executed = SetToBag(Past)
  BY DEF Inv
<1>2. PICK l, own : l = Instruction.lps /\ own = LpuIdChain(l)
  OBVIOUS
<1>3. /\ ~Finished /\ Instruction.op = "stage" /\ pc' = pc + 1
      /\ executed' = IF IsValidPpu(l) THEN executed (+) SetToBag({Execution(pc, own)})
                                      ELSE executed
      /\ UNCHANGED <<task, threadIds, thread, lpsStates, lpuIds, call>>
  BY <1>2 DEF ExecuteStage
<1>4. /\ IdsKnown /\ IsMapping(task) /\ thread \in ThreadsOf(task) /\ thread \in Nat
      /\ pc \in 1..Len(task.code) /\ pc \in Nat /\ Len(task.code) \in Nat
      /\ pc + 1 \in 1..(Len(task.code) + 1)
      /\ pc \in Stages /\ l = task.code[pc].lps
  <2>1. /\ IdsKnown /\ IsMapping(task) /\ thread \in ThreadsOf(task)
        /\ pc \in 1..Len(task.code) /\ Len(task.code) \in Nat
    BY <1>1, <1>3, TypeFacts, TaskFacts
  <2>2. thread \in Nat
    BY <2>1, TaskFacts
  <2>3. pc \in Stages /\ l = task.code[pc].lps
    BY <1>2, <1>3, <2>1 DEF Stages, Instruction
  <2> QED BY <2>1, <2>2, <2>3
<1>5. /\ l \in LpsIds(task) /\ PathsOf(Enclosing(pc)) = Path(task, l)
      /\ Enclosing(pc + 1) = Enclosing(pc) /\ task.code[pc].op = "stage"
  BY <1>4, StagePaths, AfterStage
<1>6. /\ \A i : Enclosing(i)' = Enclosing(i) /\ PathsOf(i)' = PathsOf(i)
      /\ Stages' = Stages /\ \A k : AllLpus(k)' = AllLpus(k)
      /\ \A t, k : LpusOf(t, k)' = LpusOf(t, k)
      /\ Enclosing(pc)' = Enclosing(pc)
  <2>1. Enclosing(pc)' = Enclosing(pc + 1)
    BY <1>3 DEF Enclosing
  <2> QED BY <1>3, <1>5, <2>1, TaskKept
<1>7. ~AtLoop /\ call.status = "idle" /\ Current = Path(task, l)
  <2>1. ~AtLoop
    BY <1>3 DEF AtLoop
  <2>2. call.status = "idle"
    BY <1>1, <2>1 DEF CallInv
  <2> QED BY <1>5, <2>1, <2>2 DEF Current
<1>8. TypeOK'
  BY <1>1, <1>3, <1>4 DEF TypeOK
<1>9. Arriving'
  <2>1. AtLoop' => pc + 1 \in 1..Len(task.code)
    BY <1>3, <1>4 DEF AtLoop, Finished
  <2>2. pc + 1 \in 1..Len(task.code) => lpuIds[pc + 1] = INVALID_ID
    <3>1. pc + 1 \notin Enclosing(pc)
      BY <1>4, EnclosingFacts
    <3> QED BY <1>1, <1>7, <3>1 DEF LocalsInv
  <2> QED BY <1>3, <1>7, <1>8, <2>1, <2>2 DEF Arriving
<1>10. Arrived'
  BY <1>9, ArrivesNext
<1>11. Current' = Path(task, l)
  BY <1>5, <1>6, <1>10 DEF Arrived
<1>12. ASSUME NEW i \in Stages
       PROVE  /\ Levels(i)' = Levels(i)
              /\ i # pc => (IsPast(i)' <=> IsPast(i))
              /\ i = pc => Levels(i) = Path(task, l) /\ ~IsPast(i) /\ IsPast(i)'
  <2>1. i \in Nat
    BY <1>4, StagePaths
  <2>2. /\ Levels(i) = PathsOf(Enclosing(i) \cap Enclosing(pc))
        /\ IsPast(i) <=> i < pc
    BY <1>7 DEF Levels, IsPast
  <2>3. /\ Levels(i)' = PathsOf(Enclosing(i) \cap Enclosing(pc))
        /\ IsPast(i)' <=> i < pc + 1
    BY <1>3, <1>6, <1>10 DEF Arrived
  <2>4. i < pc + 1 <=> i < pc \/ i = pc
    BY <1>4, <2>1
  <2>5. CASE i = pc
    <3>1. Levels(i) = Path(task, l)
      BY <1>5, <2>2, <2>5
    <3> QED BY <1>4, <2>2, <2>3, <2>4, <2>5, <3>1
  <2>6. CASE i # pc
    BY <2>2, <2>3, <2>4, <2>6
  <2> QED BY <2>5, <2>6
<1>13. \A i \in Stages : \A chain :
         Done(i, chain)' <=> Done(i, chain) \/ (i = pc /\ SameIds(lpsStates, chain, Path(task, l)))
  <2> SUFFICES ASSUME NEW i \in Stages, NEW chain
               PROVE  Done(i, chain)' <=>
                        Done(i, chain) \/ (i = pc /\ SameIds(lpsStates, chain, Path(task, l)))
    OBVIOUS
  <2>1. Done(i, chain)' <=> \/ BeforeIds(lpsStates, chain, Levels(i)')
                            \/ IsPast(i)' /\ SameIds(lpsStates, chain, Levels(i)')
    BY <1>3 DEF Done, BeforeIds, SameIds
  <2>2. Done(i, chain) <=> \/ BeforeIds(lpsStates, chain, Levels(i))
                           \/ IsPast(i) /\ SameIds(lpsStates, chain, Levels(i))
    BY DEF Done
  <2> QED BY <1>12, <2>1, <2>2
(* The thread is at an LPU of its own.                                          *)
<1>14. own \in LpusOf(thread, l) /\ own \in AllLpus(l)
  <2>1. own = [a \in Path(task, l) |-> lpsStates[a].current]
    BY <1>2 DEF LpuIdChain
  <2>2. ASSUME NEW a \in Path(task, l)
        PROVE  /\ own[a] \in OwnLpus(thread, a, ParentLpu(a, own))
               /\ own[a] \in 0..MostLpus
               /\ own[a] \in Below(a, own)
    <3>1. PICK p, k : p = Parent(task, a) /\ k = lpsStates[p].lpu
      OBVIOUS
    <3>2. /\ a \in 1..Len(task.lps) /\ p \in LpsIds(task) /\ own[a] = lpsStates[a].current
          /\ own[a] \in OwnLpus(thread, a, k) /\ k \in Int
      BY <1>1, <1>5, <1>7, <2>1, <3>1, CurrentFacts, TypeFacts
    <3>3. ParentLpu(a, own) = k
      <4>1. CASE p = Root
        BY <1>1, <3>1, <4>1 DEF ParentLpu, CurrentInv
      <4>2. CASE p # Root
        <5>1. p \in Path(task, l)
          BY <1>4, <1>5, <3>1, <4>2, PathSteps
        <5>2. own[p] = lpsStates[p].current /\ lpsStates[p].lpu = lpsStates[p].current
          BY <1>1, <1>5, <1>7, <2>1, <5>1, CurrentFacts
        <5> QED BY <3>1, <4>2, <5>2 DEF ParentLpu
      <4> QED BY <4>1, <4>2
    <3>4. /\ OwnLpus(thread, a, k) \subseteq 0..MostLpus
          /\ OwnLpus(thread, a, k) \subseteq
               (IF Partitioned(a) THEN 0..(LpuCount(a, k) - 1) ELSE {0})
      BY <1>4, <3>2, OwnAreLpus
    <3> QED BY <3>2, <3>3, <3>4 DEF Below
  <2>3. own \in AllLpus(l)
    BY <2>1, <2>2 DEF AllLpus
  <2> QED BY <2>2, <2>3 DEF LpusOf
<1>15. \A chain \in AllLpus(l) : SameIds(lpsStates, chain, Path(task, l)) <=> chain = own
  BY <1>2 DEF AllLpus, SameIds, LpuIdChain
<1>16. IsValidPpu(l) <=> Executes(thread, l)
  BY DEF IsValidPpu, Executes, PpuIds
(* It is the only one there, and the first time.                                *)
<1>17. ASSUME IsValidPpu(l)
       PROVE  ~IsDone(pc, own)
  <2>1. ASSUME NEW t \in 0..thread, Executes(t, l), own \in LpusOf(t, l)
        PROVE  t = thread
    <3>1. t \in ThreadsOf(task)
      BY <1>4, TaskFacts
    <3>2. Executes(thread, l)
      BY <1>16, <1>17
    <3> QED BY <1>4, <1>5, <1>14, <2>1, <3>1, <3>2, OneThreadPerLpu
  <2>2. ~Done(pc, own)
    <3>1. Levels(pc) = Path(task, l) /\ ~IsPast(pc)
      BY <1>4, <1>12
    <3>2. \A a \in Path(task, l) : own[a] = lpsStates[a].current
      BY <1>2 DEF LpuIdChain
    <3>3. \A a \in Path(task, l) : lpsStates[a].current \in Int
      BY <1>1, <1>5, <1>7, CurrentFacts
    <3>4. ~BeforeIds(lpsStates, own, Path(task, l))
      <4> SUFFICES ASSUME NEW a \in Path(task, l), own[a] < lpsStates[a].current PROVE FALSE
        BY DEF BeforeIds
      <4> QED BY <3>2, <3>3
    <3> QED BY <3>1, <3>4 DEF Done
  <2> QED BY <1>4, <2>1, <2>2 DEF IsDone, Executes
<1>18. ASSUME NEW i \in Stages, NEW chain \in AllLpus(task.code[i].lps)
       PROVE  IsDone(i, chain)' <=>
                IsDone(i, chain) \/ (IsValidPpu(l) /\ i = pc /\ chain = own)
  <2>1. IsDone(i, chain)' <=>
          \E t \in 0..thread : /\ Executes(t, task.code[i].lps)
                               /\ chain \in LpusOf(t, task.code[i].lps)
                               /\ t = thread =>
                                    Done(i, chain)
                                      \/ (i = pc /\ SameIds(lpsStates, chain, Path(task, l)))
    BY <1>3, <1>6, <1>13 DEF IsDone, Executes
  <2>2. IsDone(i, chain) <=>
          \E t \in 0..thread : /\ Executes(t, task.code[i].lps)
                               /\ chain \in LpusOf(t, task.code[i].lps)
                               /\ t = thread => Done(i, chain)
    BY DEF IsDone, Executes
  <2>3. i = pc => (SameIds(lpsStates, chain, Path(task, l)) <=> chain = own)
    BY <1>4, <1>15
  <2>4. thread \in 0..thread
    BY <1>4
  <2> QED BY <1>4, <1>14, <1>16, <2>1, <2>2, <2>3, <2>4
<1>19. Past' = IF IsValidPpu(l) THEN Past \cup {Execution(pc, own)} ELSE Past
  <2>1. Past' = UNION {{Execution(i, chain) :
                          chain \in {c \in AllLpus(task.code[i].lps) : IsDone(i, c)'}} : i \in Stages}
    BY <1>3, <1>6 DEF Past, Execution
  <2>2. \A e : e \in Past' <=> \E i \in Stages : \E chain \in AllLpus(task.code[i].lps) :
                                 e = Execution(i, chain) /\ IsDone(i, chain)'
    BY <2>1
  <2>3. \A e : e \in Past' <=> e \in Past \/ (IsValidPpu(l) /\ e = Execution(pc, own))
    <3>1. ASSUME NEW e, e \in Past
          PROVE  e \in Past'
      <4>1. PICK i \in Stages : \E chain \in AllLpus(task.code[i].lps) :
              e = Execution(i, chain) /\ IsDone(i, chain)
        BY <3>1, InPast
      <4>2. PICK chain \in AllLpus(task.code[i].lps) : e = Execution(i, chain) /\ IsDone(i, chain)
        BY <4>1
      <4>3. IsDone(i, chain)'
        BY <1>18, <4>2
      <4> QED BY <2>2, <4>2, <4>3
    <3>2. ASSUME IsValidPpu(l)
          PROVE  Execution(pc, own) \in Past'
      <4>1. PICK s : s = pc
        OBVIOUS
      <4>2. s \in Stages /\ own \in AllLpus(task.code[s].lps)
        BY <1>4, <1>14, <4>1
      <4>3. IsDone(s, own)'
        BY <1>18, <3>2, <4>1, <4>2
      <4>4. Execution(s, own) \in Past'
        BY <2>2, <4>2, <4>3
      <4> QED BY <4>1, <4>4
    <3>3. ASSUME NEW e, e \in Past', e \notin Past
          PROVE  IsValidPpu(l) /\ e = Execution(pc, own)
      <4>1. PICK i \in Stages : \E chain \in AllLpus(task.code[i].lps) :
              e = Execution(i, chain) /\ IsDone(i, chain)'
        BY <2>2, <3>3
      <4>2. PICK chain \in AllLpus(task.code[i].lps) : e = Execution(i, chain) /\ IsDone(i, chain)'
        BY <4>1
      <4>3. ~IsDone(i, chain)
        BY <3>3, <4>2, InPast
      <4> QED BY <1>18, <4>2, <4>3
    <3> QED BY ONLY <3>1, <3>2, <3>3
  <2>4. CASE IsValidPpu(l)
    <3>1. \A e : e \in Past' <=> e \in Past \cup {Execution(pc, own)}
      BY ONLY <2>3, <2>4
    <3>2. Past' = Past \cup {Execution(pc, own)}
      BY ONLY <3>1
    <3> QED BY <2>4, <3>2
  <2>5. CASE ~IsValidPpu(l)
    <3>1. Past' = Past
      BY ONLY <2>3, <2>5
    <3> QED BY <2>5, <3>1
  <2> QED BY <2>4, <2>5
<1>20. IsValidPpu(l) => Execution(pc, own) \notin Past
  BY <1>17, InPast DEF Execution
<1>21. executed' = SetToBag(Past')
  <2>1. CASE ~IsValidPpu(l)
    BY <1>1, <1>3, <1>19, <2>1
  <2>2. CASE IsValidPpu(l)
    BY <1>1, <1>3, <1>19, <1>20, <2>2, OneMore
  <2> QED BY <2>1, <2>2
<1>22. CurrentInv'
  BY <1>1, <1>3, <1>7, <1>11 DEF CurrentInv, StandsAt, OwnLpus, Partitioned, LpuCount, PpuIds
<1>23. LocalsInv'
  BY <1>1, <1>3, <1>6, <1>7 DEF LocalsInv
<1>24. BoundsInv'
  <2>1. BoundsNested'
    <3> SUFFICES ASSUME NEW b \in LpsIds(task) \ {Root}, lpsStates[b].bound
                 PROVE  \E k \in Enclosing(pc) \cup {pc + 1} :
                          k <= Len(task.code) /\ task.code[k].op = "loop"
                          /\ task.code[k].container = b
      BY <1>3, <1>6 DEF BoundsNested
    <3>1. PICK k \in Enclosing(pc) \cup {pc} :
            k <= Len(task.code) /\ task.code[k].op = "loop" /\ task.code[k].container = b
      BY <1>1 DEF BoundsInv, BoundsNested
    <3>2. k # pc
      BY <1>5, <3>1
    <3> QED BY <3>1, <3>2
  <2> QED BY <1>1, <1>3, <1>6, <1>10, <2>1 DEF BoundsInv, Arrived
<1>25. (executed = SetToBag(Past))'
  BY <1>21 DEF SetToBag
<1> QED BY <1>8, <1>10, <1>22, <1>23, <1>24, <1>25 DEF Inv, Arrived

(* Where a thread begins: it has done nothing.                                  *)
Starting == /\ TypeOK /\ call.status = "idle" /\ pc = 1
            /\ \A l \in LpsIds(task) : lpsStates[l] = InitialState(l)
            /\ \A h \in 1..Len(task.code) : lpuIds[h] = INVALID_ID
Started == /\ CallInv /\ CurrentInv /\ LocalsInv /\ BoundsInv
           /\ \A i \in Stages : \A chain : ~Done(i, chain)
LEMMA StartingStarts == Starting => Started
<1> SUFFICES ASSUME Starting PROVE Started
  OBVIOUS
<1>1. /\ TypeOK /\ pc = 1 /\ IdsKnown
      /\ \A l \in LpsIds(task) : lpsStates[l] = InitialState(l)
      /\ \A h \in 1..Len(task.code) : lpuIds[h] = INVALID_ID
  BY TypeFacts DEF Starting
<1>2. Arriving
  <2>1. AtLoop => pc \in 1..Len(task.code)
    BY <1>1, TypeFacts DEF AtLoop
  <2> QED BY <1>1, <2>1 DEF Arriving, Starting
<1>3. Arrived
  BY <1>2, ArrivingArrives
<1>4. Enclosing(pc) = {} /\ PathsOf({}) = {}
  BY <1>1, NoLoopsOutside DEF PathsOf
<1>5. CurrentInv
  <2>1. lpsStates[Root].lpu = 0
    <3>1. lpsStates[Root] = InitialState(Root)
      BY <1>1, TaskFacts
    <3> QED BY <3>1 DEF InitialState
  <2>2. Current = {}
    BY <1>3, <1>4 DEF Arrived
  <2> QED BY <2>1, <2>2 DEF CurrentInv
<1>6. BoundsInv
  <2>1. \A l \in LpsIds(task) : ~lpsStates[l].bound
    <3> SUFFICES ASSUME NEW l \in LpsIds(task) PROVE lpsStates[l].bound = FALSE
      OBVIOUS
    <3>1. lpsStates[l] = InitialState(l)
      BY <1>1
    <3>2. InitialState(l).bound = FALSE
      BY DEF InitialState
    <3> QED BY <3>1, <3>2
  <2> QED BY <1>3, <1>4, <2>1 DEF BoundsInv, BoundsNested, Arrived
<1>7. LocalsInv
  BY <1>1 DEF LocalsInv
<1>8. ASSUME NEW i \in Stages, NEW chain
      PROVE  ~Done(i, chain)
  <2>1. Levels(i) = {} /\ ~IsPast(i)
    <3>1. i \in Nat \ {0}
      BY <1>1, StagePaths, CodeFacts
    <3> QED BY <1>1, <1>3, <1>4, <3>1 DEF Arrived
  <2> QED BY <2>1 DEF Done, BeforeIds
<1> QED BY <1>3, <1>5, <1>6, <1>7, <1>8 DEF Started, Arrived
LEMMA StartsNext == Starting' => Started'
  BY StartingStarts, PTL

(* The states of the LPSes when a thread begins. *)
LEMMA InitialTypes ==
  ASSUME NEW S, NEW s, s = [l \in S |-> InitialState(l)]
  PROVE  s \in [S -> StatesType] /\ \A l \in S : s[l] = InitialState(l)
<1>1. ASSUME NEW l \in S
      PROVE  InitialState(l) \in StatesType
  <2>1. NoRange \in [startId : Int, endId : Int]
    BY DEF NoRange, IdRange, INVALID_ID
  <2> QED BY <2>1 DEF InitialState, StatesType, INVALID_ID
<1> QED BY <1>1

(* All is behind a thread at its end, and all before one that begins.           *)
LEMMA NextThreadKeepsInv ==
  ASSUME Inv, NextThread
  PROVE  Inv'
<1>1. TypeOK /\ CallInv /\ CurrentInv /\ LocalsInv /\ BoundsInv /\ executed = SetToBag(Past)
  BY DEF Inv
<1>2. /\ Finished /\ thread < task.totalThreads - 1 /\ thread' = thread + 1 /\ pc' = 1
      /\ lpsStates' = [l \in LpsIds(task) |-> InitialState(l)]
      /\ lpuIds' = [i \in 1..Len(task.code) |-> INVALID_ID]
      /\ UNCHANGED <<task, threadIds, call, executed>>
  BY DEF NextThread
<1>3. /\ IdsKnown /\ thread \in Nat /\ thread + 1 \in ThreadsOf(task)
      /\ Len(task.code) \in Nat /\ pc = Len(task.code) + 1
  <2>1. /\ IdsKnown /\ thread \in ThreadsOf(task) /\ Len(task.code) \in Nat
        /\ pc \in 1..(Len(task.code) + 1)
    BY <1>1, TypeFacts
  <2> QED BY <1>2, <2>1, TaskFacts DEF Finished
<1>4. Starting'
  <2>1. /\ lpsStates' \in [LpsIds(task) -> StatesType]
        /\ \A l \in LpsIds(task) : lpsStates'[l] = InitialState(l)
    BY <1>2, InitialTypes
  <2>2. lpuIds' \in [1..Len(task.code) -> Int]
    BY <1>2 DEF INVALID_ID
  <2>3. TypeOK'
    BY <1>1, <1>2, <1>3, <2>1, <2>2 DEF TypeOK, StatesType
  <2>4. call.status = "idle"
    BY <1>1, <1>2 DEF CallInv, AtLoop
  <2> QED BY <1>2, <2>1, <2>3, <2>4 DEF Starting, InitialState
<1>5. Started'
  BY <1>4, StartsNext
<1>6. /\ Stages' = Stages
      /\ \A l : AllLpus(l)' = AllLpus(l)
      /\ \A t, l : LpusOf(t, l)' = LpusOf(t, l)
  BY <1>2, TaskKept
<1>7. ASSUME NEW i \in Stages, NEW chain
      PROVE  Done(i, chain)
  <2>1. ~AtLoop /\ Enclosing(pc) = {} /\ PathsOf({}) = {}
    BY <1>2, <1>3, NoLoopsOutside DEF AtLoop, PathsOf
  <2>2. i < pc
    BY <1>3, StagePaths
  <2>3. Levels(i) = {} /\ IsPast(i)
    BY <2>1, <2>2 DEF Levels, IsPast
  <2> QED BY <2>3 DEF Done, SameIds
<1>8. ASSUME NEW i \in Stages, NEW chain \in AllLpus(task.code[i].lps)
      PROVE  IsDone(i, chain)' <=> IsDone(i, chain)
  <2>1. IsDone(i, chain)' <=>
          \E t \in 0..(thread + 1) : /\ Executes(t, task.code[i].lps)
                                     /\ chain \in LpusOf(t, task.code[i].lps)
                                     /\ t # thread + 1
    BY <1>2, <1>5, <1>6 DEF IsDone, Executes, Started
  <2>2. IsDone(i, chain) <=>
          \E t \in 0..thread : /\ Executes(t, task.code[i].lps)
                               /\ chain \in LpusOf(t, task.code[i].lps)
    BY <1>7 DEF IsDone, Executes
  <2>3. \A t : t \in 0..(thread + 1) /\ t # thread + 1 <=> t \in 0..thread
    BY <1>3
  <2> QED BY <2>1, <2>2, <2>3
<1>9. Past' = Past
  <2>1. \A i \in Stages : {c \in AllLpus(task.code[i].lps) : IsDone(i, c)}'
                           = {c \in AllLpus(task.code[i].lps) : IsDone(i, c)}
    BY <1>2, <1>6, <1>8
  <2> QED BY <1>2, <1>6, <2>1 DEF Past
<1>10. (executed = SetToBag(Past))'
  BY <1>1, <1>2, <1>9 DEF SetToBag
<1> QED BY <1>4, <1>5, <1>10 DEF Inv, Started, Starting

LEMMA InitInv == Init => Inv
<1> SUFFICES ASSUME Init PROVE Inv
  OBVIOUS
<1>1. /\ task \in Tasks /\ threadIds = [t \in ThreadsOf(task) |-> ThreadIds(task, t)]
      /\ thread = 0 /\ pc = 1
      /\ lpsStates = [l \in LpsIds(task) |-> InitialState(l)]
      /\ lpuIds = [i \in 1..Len(task.code) |-> INVALID_ID]
      /\ call = Idle /\ executed = EmptyBag
  BY DEF Init
<1>2. /\ IdsKnown /\ Len(task.code) \in Nat /\ Root \in LpsIds(task)
      /\ 0 \in ThreadsOf(task)
  <2>1. IdsKnown
    BY <1>1 DEF IdsKnown
  <2> QED BY <2>1, CodeFacts, TaskFacts
<1>3. Starting
  <2>1. /\ lpsStates \in [LpsIds(task) -> StatesType]
        /\ \A l \in LpsIds(task) : lpsStates[l] = InitialState(l)
    BY <1>1, InitialTypes
  <2>2. lpuIds \in [1..Len(task.code) -> Int]
    BY <1>1 DEF INVALID_ID
  <2>3. call \in CallType /\ call.status = "idle"
    BY <1>1, <1>2 DEF CallType, Idle, INVALID_ID
  <2>4. TypeOK
    BY <1>1, <1>2, <2>1, <2>2, <2>3 DEF TypeOK, StatesType, CallType
  <2> QED BY <1>1, <2>1, <2>3, <2>4 DEF Starting
<1>4. Started
  BY <1>3, StartingStarts
<1>5. Past = {}
  <2>1. ASSUME NEW i \in Stages, NEW chain PROVE ~IsDone(i, chain)
    BY <1>1, <1>4 DEF IsDone, Started
  <2> QED BY <2>1 DEF Past
<1>6. executed = SetToBag(Past)
  BY <1>1, <1>5 DEF EmptyBag, SetToBag
<1> QED BY <1>3, <1>4, <1>6 DEF Inv, Started, Starting

LEMMA Stuttering ==
  ASSUME Inv, UNCHANGED vars
  PROVE  Inv'
<1>1. /\ TypeOK /\ CallInv /\ CurrentInv /\ LocalsInv /\ BoundsInv /\ executed = SetToBag(Past)
      /\ UNCHANGED <<task, threadIds, thread, pc, lpsStates, lpuIds, call, executed>>
  BY DEF Inv, vars
<1>2. TypeOK'
  BY <1>1 DEF TypeOK
<1>3. /\ AtLoop' <=> AtLoop
      /\ Instruction' = Instruction /\ Container' = Container /\ Request' = Request
      /\ IsFirst' <=> IsFirst
      /\ IsLater' <=> IsLater
      /\ Enclosing(pc)' = Enclosing(pc)
      /\ Current' = Current
  BY <1>1 DEF AtLoop, Finished, Instruction, Container, Request, IsFirst, IsLater, Enclosing,
              Current, PathsOf
<1>4. CallInv' /\ LocalsInv' /\ BoundsInv'
  BY <1>1, <1>3 DEF CallInv, LocalsInv, BoundsInv, BoundsNested
<1>5. CurrentInv'
  BY <1>1, <1>3 DEF CurrentInv, StandsAt, OwnLpus, Partitioned, LpuCount, PpuIds
<1>6. Past' = Past
  <2> SUFFICES ASSUME NEW i \in Stages, NEW chain PROVE Done(i, chain)' <=> Done(i, chain)
    BY <1>1, PastKept
  <2>1. Levels(i)' = Levels(i) /\ (IsPast(i)' <=> IsPast(i))
    BY <1>1, <1>3 DEF Levels, IsPast, PathsOf, Enclosing
  <2> QED BY <1>1, <2>1 DEF Done, BeforeIds, SameIds
<1>7. (executed = SetToBag(Past))'
  BY <1>1, <1>6 DEF SetToBag
<1> QED BY <1>2, <1>4, <1>5, <1>7 DEF Inv

-----------------------------------------------------------------------------
(* The loops around getNextLpu take every thread through its LPUs in order: at   *)
(* each point of the generated code, the stages that have been executed are those *)
(* on the LPUs that lie behind where the thread stands, and each of them once.   *)
THEOREM Invariance == Spec => []Inv
<1>1. Inv /\ [Next]_vars => Inv'
  <2> SUFFICES ASSUME Inv, [Next]_vars PROVE Inv'
    OBVIOUS
  <2>1. CASE LoopHead
    BY <2>1, LoopHeadKeepsInv
  <2>2. CASE FirstCall
    BY <2>2, FirstCallKeepsInv
  <2>3. CASE LaterCall
    BY <2>3, LaterCallKeepsInv
  <2>4. CASE ParentFound
    BY <2>4, ParentFoundKeepsInv
  <2>5. CASE EnterBody
    BY <2>5, EnterBodyKeepsInv
  <2>6. CASE LeaveLoop
    BY <2>6, LeaveLoopKeepsInv
  <2>7. CASE LoopEnd
    BY <2>7, LoopEndKeepsInv
  <2>8. CASE ExecuteStage
    BY <2>8, ExecuteStageKeepsInv
  <2>9. CASE NextThread
    BY <2>9, NextThreadKeepsInv
  <2>10. CASE UNCHANGED vars
    BY <2>10, Stuttering
  <2> QED BY <2>1, <2>2, <2>3, <2>4, <2>5, <2>6, <2>7, <2>8, <2>9, <2>10 DEF Next
<1> QED BY InitInv, <1>1, PTL DEF Spec

(* No stage is executed twice on an LPU, by one thread that comes to the LPU     *)
(* again or by two threads of its group, and none on an LPU that does not exist. *)
THEOREM EachLpuOnce == Spec => []NoLpuTwice
<1>1. Inv => NoLpuTwice
  <2> SUFFICES ASSUME Inv PROVE NoLpuTwice
    OBVIOUS
  <2>1. executed = SetToBag(Past)
    BY DEF Inv
  <2>2. DOMAIN executed = Past /\ \A e \in Past : executed[e] = 1
    BY <2>1 DEF SetToBag
  <2>3. Past \subseteq AllExecutions
    BY DEF Past, AllExecutions
  <2> QED BY <2>2, <2>3 DEF NoLpuTwice, BagToSet
<1> QED BY Invariance, <1>1, PTL

(* When the last thread has come to the end of the code, every stage has been    *)
(* executed on every LPU of its LPS: getNextLpu goes on to the parent's next LPU *)
(* where a thread has none under the current one, and stops only at the loop's   *)
(* container.                                                                    *)
THEOREM EveryLpu == Spec => []NoLpuLeftOut
<1>1. Inv => NoLpuLeftOut
  <2> SUFFICES ASSUME Inv, AllFinished, NEW e \in AllExecutions PROVE e \in BagToSet(executed)
    BY DEF NoLpuLeftOut
  <2>1. executed = SetToBag(Past) /\ TypeOK
    BY DEF Inv
  <2>2. BagToSet(executed) = Past
    BY <2>1 DEF SetToBag, BagToSet
  <2>3. PICK i \in Stages : \E chain \in AllLpus(task.code[i].lps) : e = Execution(i, chain)
    BY DEF AllExecutions
  <2>4. PICK chain \in AllLpus(task.code[i].lps) : e = Execution(i, chain)
    BY <2>3
  <2>5. PICK l : l = task.code[i].lps
    OBVIOUS
  <2>6. IdsKnown /\ thread = task.totalThreads - 1 /\ Finished
    BY <2>1, TypeFacts DEF AllFinished
  <2>7. l \in LpsIds(task) /\ i \in 1..Len(task.code)
    BY <2>5, <2>6, StagePaths
  <2>8. PICK t \in ThreadsOf(task) : chain \in LpusOf(t, l) /\ Executes(t, l)
    BY <2>4, <2>5, <2>6, <2>7, OneThreadPerLpu
  <2>9. t \in 0..thread
    BY <2>6, <2>8, TaskFacts
  <2>10. Done(i, chain)
    <3>1. pc = Len(task.code) + 1 /\ Len(task.code) \in Nat
      BY <2>1, <2>6, TypeFacts DEF Finished
    <3>2. ~AtLoop /\ Enclosing(pc) = {} /\ PathsOf({}) = {}
      BY <2>6, <3>1, NoLoopsOutside DEF AtLoop, PathsOf
    <3>3. Levels(i) = {} /\ IsPast(i)
      <4>1. i < pc
        BY <2>7, <3>1
      <4> QED BY <3>2, <4>1 DEF Levels, IsPast
    <3> QED BY <3>3 DEF Done, SameIds
  <2>11. IsDone(i, chain)
    BY <2>5, <2>8, <2>9, <2>10 DEF IsDone, Executes
  <2> QED BY <2>2, <2>4, <2>11, InPast
<1> QED BY Invariance, <1>1, PTL

(* The bounds that getNextLpu sets are taken back when the loop ends: an LPS     *)
(* bounds the recursion only as long as it is the container of a loop under way. *)
THEOREM BoundsAreNested == Spec => []BoundsNested
<1>1. Inv => BoundsNested
  BY DEF Inv, BoundsInv
<1> QED BY Invariance, <1>1, PTL

(* After adjustPpuCountsAndGroupSizes the PPU count of an LPS is, for any        *)
(* mapping and any number of threads, the number of groups that the threads      *)
(* under the same PPU of the LPS above do form.                                  *)
THEOREM PpuCountsAreActual == Spec => []PpuCountsActual
<1>1. Inv => PpuCountsActual
  <2> SUFFICES ASSUME Inv PROVE PpuCountsActual
    OBVIOUS
  <2>1. IdsKnown /\ thread \in ThreadsOf(task)
    BY TypeFacts DEF Inv
  <2> QED BY <2>1, CountsActual
<1> QED BY Invariance, <1>1, PTL
=============================================================================
