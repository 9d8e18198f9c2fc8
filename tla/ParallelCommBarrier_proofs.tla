---------------------- MODULE ParallelCommBarrier_proofs ----------------------
(***************************************************************************)
(* The PPUs of a segment resolve a dependency together, for any number of  *)
(* them, any number of rounds and every kind of communicator: those that a *)
(* barrier lets pass are in the same phase, nobody returns from a receive  *)
(* before all have come to it, and nobody updates what another still uses. *)
(*                                                                         *)
(* Each barrier goes through five phases.  That a PPU's own decision about *)
(* the transfer agrees with that of the others, rests on both: while some  *)
(* are still to decide, the last one may have cleared _activeSignals only  *)
(* after it has decided against the transfer itself, and the other barrier *)
(* cannot advance iterationNo, since there is a PPU that belongs to both.  *)
(*                                                                         *)
(* What they do together in a round follows, in the second half: the last  *)
(* of them transfers alone, with each buffer filled once; data is used     *)
(* when it has been written back; and each round is resolved once.  That   *)
(* rests on the order of the PPUs, by which they divide the buffers among  *)
(* them, on the buffers, and on iterationNo.                               *)
(***************************************************************************)
EXTENDS ParallelCommBarrier, DivisionLemmas, FiniteSetTheorems, TLAPS

Stages == {"rearm", "update", "send", "receive", "use"}
Labels == {"call", "unlock", "tally", "tallied", "decide", "before", "ready", "transfer",
           "transferred", "after", "reset", "finished", "release", "return"}

\* Where a member of barrier s is in this round.
Before(t, s) == \/ stage[t] = "update"
                \/ stage[t] = s /\ pc[t] = "call"
                \/ s = "receive" /\ stage[t] = "send"
Inside(t, s) == stage[t] = s /\ pc[t] # "call"
Past(t, s)   == \/ stage[t] \in {"use", "rearm"}
                \/ s = "send" /\ stage[t] = "receive"

InsideSet(s)      == {t \in Members(s) : Inside(t, s)}
AllAt(s, labels)  == \A t \in Members(s) : stage[t] = s /\ pc[t] \in labels
Waiting(s, label) == gate[s] \subseteq {t \in Members(s) : stage[t] = s /\ pc[t] = label}
HasLast(s)        == \E t \in InsideSet(s) : Last(t)

\* The members come; the last one to come is number 0.
Gathering(s) ==
  /\ \A t \in Members(s) : Before(t, s) \/ (stage[t] = s /\ pc[t] \in {"unlock", "tally", "tallied"})
  /\ count[s] = Size(s) - Cardinality(InsideSet(s))
  /\ count[s] = 0 => HasLast(s)
  /\ Waiting(s, "tallied")

\* They decide, and nobody has decided against the transfer.
Deciding(s) ==
  /\ AllAt(s, {"decide", "before", "ready"})
  /\ (\E t \in Members(s) : pc[t] # "decide") => \A t \in Members(s) : ShouldPerformTransfer(t, s)
  /\ HasLast(s)
  /\ Waiting(s, "ready")

Transferring(s) ==
  /\ AllAt(s, {"transfer", "transferred"})
  /\ HasLast(s)
  /\ Waiting(s, "transferred")

\* After the transfer, or after a decision against it, in which those that have not
\* decided will join.
Finishing(s) ==
  /\ \/ AllAt(s, {"after", "reset", "finished"})
     \/ /\ AllAt(s, {"decide", "reset", "finished"})
        /\ \A t \in Members(s) : ~ShouldPerformTransfer(t, s)
  /\ \A t \in Members(s) : Last(t) /\ pc[t] = "finished" => count[s] = Size(s)
  /\ HasLast(s)
  /\ Waiting(s, "finished")

\* They leave, and wait for each other at the reverse barrier.
Leaving(s) ==
  /\ \A t \in Members(s) : Past(t, s) \/ (stage[t] = s /\ pc[t] \in {"release", "return"})
  /\ count[s] = Size(s)
  /\ gate[s] = {}

BarrierInv(s) == Gathering(s) \/ Deciding(s) \/ Transferring(s) \/ Finishing(s) \/ Leaving(s)

TypeOK == /\ stage \in [Threads -> Stages]
          /\ pc \in [Threads -> Labels]
          /\ commCounter \in [Threads -> Nat]
          /\ order \in [Threads -> Int]
          /\ count \in [Sides -> Int]
          /\ gate \in [Sides -> SUBSET Threads]
          /\ activeSignals \in [Sides -> Int] /\ signals \in [Sides -> Int]
          /\ rearmed \subseteq {t \in Threads : stage[t] = "rearm"}
          /\ \A t \in Threads : /\ stage[t] \notin Sides => pc[t] = "call"
                                /\ stage[t] \in {"update", "send"} => t \in Senders
                                /\ stage[t] \in {"receive", "use"} => t \in Receivers

\* All PPUs are in the m-th round, or done with it.
Round(m) == \A t \in Threads : IF stage[t] \in {"use", "rearm"} THEN commCounter[t] = m
                                                                ELSE commCounter[t] + 1 = m
InRound == \E m \in Nat : Round(m)

Inv == TypeOK /\ InRound /\ \A s \in Sides : BarrierInv(s)

-----------------------------------------------------------------------------
(* Members *)

LEMMA MembersType ==
  ASSUME NEW s \in Sides
  PROVE  /\ IsFiniteSet(Members(s)) /\ Members(s) \subseteq Threads /\ Members(s) # {}
         /\ Size(s) \in Nat \ {0}
<1>1. /\ IsFiniteSet(Members(s)) /\ Members(s) # {}
      /\ Members(s) \subseteq Threads
  BY ParallelCommBarrierAssumption DEF Members, Threads, Sides
<1> QED BY <1>1, FS_CardinalityType, FS_EmptySet DEF Size

LEMMA SubsetType ==
  ASSUME NEW s \in Sides, NEW S \in SUBSET Members(s)
  PROVE  /\ IsFiniteSet(S)
         /\ Cardinality(S) \in 0..Size(s)
         /\ Cardinality(S) = Size(s) => S = Members(s)
         /\ Cardinality(S) = 0 => S = {}
  BY MembersType, FS_Subset, FS_CardinalityType, FS_EmptySet DEF Size

LEMMA MemberOf ==
  ASSUME TypeOK, NEW t \in Threads, NEW s \in Sides, stage[t] = s
  PROVE  t \in Members(s)
  BY DEF TypeOK, Members, Sides

(* A barrier of which nobody inside moves keeps its phase. *)
LEMMA Frame ==
  ASSUME NEW o \in Sides, BarrierInv(o),
         count'[o] = count[o], gate'[o] = gate[o], activeSignals'[o] = activeSignals[o],
         iterationNo' = iterationNo \/ o = "send" \/ (\E u \in Members(o) : ~Inside(u, o)),
         \A u \in Members(o) :
           \/ Before(u, o) /\ Before(u, o)'
           \/ Past(u, o) /\ Past(u, o)'
           \/ /\ stage'[u] = stage[u] /\ pc'[u] = pc[u]
              /\ order'[u] = order[u] /\ commCounter'[u] = commCounter[u]
  PROVE  BarrierInv(o)'
<1>1. Members(o)' = Members(o) /\ Size(o)' = Size(o)
  BY DEF Members, Size
<1>2. \A u \in Members(o) : Inside(u, o) => /\ stage'[u] = stage[u] /\ pc'[u] = pc[u]
                                            /\ order'[u] = order[u]
                                            /\ commCounter'[u] = commCounter[u]
  BY DEF Inside, Before, Past, Sides
<1>3. \A u \in Members(o) : /\ Inside(u, o)' <=> Inside(u, o)
                            /\ Inside(u, o) => (Last(u)' <=> Last(u))
  BY <1>2 DEF Inside, Before, Past, Sides, Last
<1>4. InsideSet(o)' = InsideSet(o) /\ (HasLast(o) => HasLast(o)')
  BY <1>1, <1>3 DEF InsideSet, HasLast
<1>5. ASSUME NEW label \in Labels \ {"call"}, Waiting(o, label)
      PROVE  Waiting(o, label)'
  BY <1>1, <1>2, <1>5 DEF Waiting, Inside
<1>6. ASSUME NEW labels \in SUBSET (Labels \ {"call"}), AllAt(o, labels)
      PROVE  /\ AllAt(o, labels)'
             /\ \A u \in Members(o) : /\ Inside(u, o) /\ pc'[u] = pc[u]
                                      /\ Last(u)' <=> Last(u)
             /\ \A u \in Members(o) : ShouldPerformTransfer(u, o)' <=> ShouldPerformTransfer(u, o)
  <2>1. \A u \in Members(o) : Inside(u, o)
    BY <1>6 DEF AllAt, Inside
  <2>2. \A u \in Members(o) : /\ stage'[u] = stage[u] /\ pc'[u] = pc[u]
                              /\ commCounter'[u] = commCounter[u]
    BY <1>2, <2>1
  <2>3. AllAt(o, labels)'
    BY <1>1, <1>6, <2>2 DEF AllAt
  <2>4. \A u \in Members(o) : ShouldPerformTransfer(u, o)' <=> ShouldPerformTransfer(u, o)
    BY <2>1, <2>2 DEF ShouldPerformTransfer
  <2> QED BY <1>3, <2>1, <2>2, <2>3, <2>4
<1>7. CASE Gathering(o)
  <2>1. \A u \in Members(o) :
           Before(u, o)' \/ (stage'[u] = o /\ pc'[u] \in {"unlock", "tally", "tallied"})
    BY <1>7 DEF Gathering, Before, Past, Sides
  <2>2. Waiting(o, "tallied")'
    BY <1>5, <1>7 DEF Gathering, Labels
  <2>3. /\ count'[o] = Size(o)' - Cardinality(InsideSet(o)')
        /\ count'[o] = 0 => HasLast(o)'
    BY <1>1, <1>4, <1>7 DEF Gathering
  <2> QED BY <1>1, <2>1, <2>2, <2>3 DEF Gathering, BarrierInv
<1>8. CASE Deciding(o)
  <2>1. AllAt(o, {"decide", "before", "ready"}) /\ {"decide", "before", "ready"} \in SUBSET (Labels \ {"call"})
    BY <1>8 DEF Deciding, Labels
  <2>2. Waiting(o, "ready")' /\ HasLast(o)'
    BY <1>4, <1>5, <1>8 DEF Deciding, Labels
  <2>3. (\E u \in Members(o)' : pc'[u] # "decide")
          => \A u \in Members(o)' : ShouldPerformTransfer(u, o)'
    BY <1>1, <1>6, <1>8, <2>1 DEF Deciding
  <2> QED BY <1>6, <2>1, <2>2, <2>3 DEF Deciding, BarrierInv
<1>9. CASE Transferring(o)
  <2>1. /\ AllAt(o, {"transfer", "transferred"})
        /\ {"transfer", "transferred"} \in SUBSET (Labels \ {"call"})
    BY <1>9 DEF Transferring, Labels
  <2>2. Waiting(o, "transferred")' /\ HasLast(o)'
    BY <1>4, <1>5, <1>9 DEF Transferring, Labels
  <2> QED BY <1>6, <2>1, <2>2 DEF Transferring, BarrierInv
<1>10. CASE Finishing(o)
  <2>1. PICK labels \in SUBSET (Labels \ {"call"}) :
          /\ AllAt(o, labels)
          /\ \/ labels = {"after", "reset", "finished"}
             \/ /\ labels = {"decide", "reset", "finished"}
                /\ \A u \in Members(o) : ~ShouldPerformTransfer(u, o)
    <3>1. /\ {"after", "reset", "finished"} \in SUBSET (Labels \ {"call"})
          /\ {"decide", "reset", "finished"} \in SUBSET (Labels \ {"call"})
      BY DEF Labels
    <3> QED BY <1>10, <3>1 DEF Finishing
  <2>2. Waiting(o, "finished")' /\ HasLast(o)'
    BY <1>4, <1>5, <1>10 DEF Finishing, Labels
  <2>3. \A u \in Members(o)' : Last(u)' /\ pc'[u] = "finished" => count'[o] = Size(o)'
    BY <1>1, <1>6, <1>10, <2>1 DEF Finishing
  <2>4. \/ AllAt(o, {"after", "reset", "finished"})'
        \/ /\ AllAt(o, {"decide", "reset", "finished"})'
           /\ \A u \in Members(o)' : ~ShouldPerformTransfer(u, o)'
    BY <1>1, <1>6, <2>1
  <2> QED BY <2>2, <2>3, <2>4 DEF Finishing, BarrierInv
<1>11. CASE Leaving(o)
  <2>1. \A u \in Members(o) :
           Past(u, o)' \/ (stage'[u] = o /\ pc'[u] \in {"release", "return"})
    BY <1>11 DEF Leaving, Before, Past, Sides
  <2> QED BY <1>1, <1>11, <2>1 DEF Leaving, BarrierInv
<1> QED BY <1>7, <1>8, <1>9, <1>10, <1>11 DEF BarrierInv

(* Who is inside a barrier is not inside the other, and a PPU that belongs to both keeps
   the other one from being used by all. *)
LEMMA Common ==
  ASSUME NEW s \in Sides, NEW o \in Sides, o # s,
         \A u \in Members(s) : stage[u] = s
  PROVE  \E u \in Members(o) : ~Inside(u, o)
<1>1. PICK u : u \in Senders \cap Receivers
  BY ParallelCommBarrierAssumption
<1> QED BY <1>1 DEF Members, Sides, Inside

LEMMA InRoundKept ==
  ASSUME InRound, stage' = stage, commCounter' = commCounter
  PROVE  InRound'
<1>1. PICK m \in Nat : Round(m)
  BY DEF InRound
<1>2. Round(m)'
  BY <1>1 DEF Round
<1> QED BY <1>2 DEF InRound

(* What the steps of wait() have in common: they leave the other barrier alone. *)
LEMMA StepInv ==
  ASSUME Inv, NEW t \in Threads, NEW s \in Sides, stage[t] = s,
         TypeOK', InRound', BarrierInv(s)',
         \A u \in Threads \ {t} : /\ stage'[u] = stage[u] /\ order'[u] = order[u]
                                  /\ commCounter'[u] = commCounter[u]
                                  /\ pc'[u] = pc[u] \/ stage[u] = s,
         stage'[t] = s \/ (stage'[t] = StageAfter(t, s) /\ pc'[t] = "call"),
         \A o \in Sides \ {s} : /\ count'[o] = count[o] /\ gate'[o] = gate[o]
                                /\ activeSignals'[o] = activeSignals[o],
         iterationNo' = iterationNo \/ (\A u \in Members(s) : stage[u] = s)
  PROVE  Inv'
<1>1. ASSUME NEW o \in Sides, o # s
      PROVE  BarrierInv(o)'
  <2>1. ASSUME NEW u \in Members(o)
        PROVE  \/ Before(u, o) /\ Before(u, o)'
               \/ Past(u, o) /\ Past(u, o)'
               \/ /\ stage'[u] = stage[u] /\ pc'[u] = pc[u]
                  /\ order'[u] = order[u] /\ commCounter'[u] = commCounter[u]
    <3>1. u \in Threads
      BY DEF Members, Threads
    <3>2. CASE u # t
      BY <1>1, <3>1, <3>2 DEF Before, Past, Sides
    <3>3. CASE u = t /\ s = "send"
      <4>1. o = "receive" /\ u \in Receivers
        BY <1>1, <3>3 DEF Sides, Members
      <4>2. Before(u, o)
        BY <3>3, <4>1 DEF Before
      <4>3. stage'[u] = "send" \/ (stage'[u] = "receive" /\ pc'[u] = "call")
        BY <3>3, <4>1 DEF StageAfter
      <4> QED BY <4>1, <4>2, <4>3 DEF Before
    <3>4. CASE u = t /\ s = "receive"
      <4>1. o = "send"
        BY <1>1, <3>4 DEF Sides
      <4>2. stage'[u] = "receive" \/ stage'[u] = "use"
        BY <3>4 DEF StageAfter
      <4> QED BY <3>4, <4>1, <4>2 DEF Past
    <3> QED BY <3>2, <3>3, <3>4 DEF Sides
  <2>2. iterationNo' = iterationNo \/ \E u \in Members(o) : ~Inside(u, o)
    BY <1>1, Common
  <2> QED BY <1>1, <2>1, <2>2, Frame DEF Inv
<1> QED BY <1>1 DEF Inv

-----------------------------------------------------------------------------
(* One lemma per action *)

LEMMA InitInv == Init => Inv
<1> SUFFICES ASSUME Init PROVE Inv
  OBVIOUS
<1>1. \A s \in Sides : Size(s) \in Nat
  BY MembersType
<1>2. TypeOK
  BY <1>1 DEF Init, TypeOK, Stages, Labels, Sides
<1>3. Round(0)
  BY DEF Init, Round
<1>4. ASSUME NEW s \in Sides
      PROVE  Leaving(s)
  <2>1. Members(s) \subseteq Threads
    BY MembersType
  <2> QED BY <2>1 DEF Init, Leaving, Past
<1> QED BY <1>2, <1>3, <1>4 DEF Inv, InRound, BarrierInv

LEMMA EnterInv ==
  ASSUME Inv, NEW t \in Threads, NEW s \in Sides, Enter(t, s)
  PROVE  Inv'
<1> DEFINE label == IF count[s] = 1 THEN "tally" ELSE "unlock"
<1>1. /\ stage[t] = s /\ pc[t] = "call" /\ t \in Members(s)
      /\ pc' = [pc EXCEPT ![t] = label] /\ order' = [order EXCEPT ![t] = count[s] - 1]
      /\ count' = [count EXCEPT ![s] = count[s] - 1]
      /\ UNCHANGED <<stage, commCounter, executed, rearmed, activeSignals, gate, iterationNo>>
  BY MemberOf DEF Enter, Goto, loopVars, dataVars, Inv
<1>2. /\ pc \in [Threads -> Labels] /\ order \in [Threads -> Int]
      /\ count \in [Sides -> Int] /\ signals \in [Sides -> Int]
  BY DEF Inv, TypeOK
<1>3. TypeOK'
  <2>1. signals' \in [Sides -> Int]
    BY <1>2 DEF Enter
  <2>2. label \in Labels
    BY DEF Labels
  <2>3. pc' \in [Threads -> Labels] /\ order' \in [Threads -> Int] /\ count' \in [Sides -> Int]
    BY <1>1, <1>2, <2>2
  <2> HIDE DEF label
  <2> QED BY <1>1, <1>2, <2>1, <2>3 DEF Inv, TypeOK
<1>4. Gathering(s)
  BY <1>1 DEF Inv, BarrierInv, Deciding, Transferring, Finishing, Leaving, AllAt, Past, Sides
<1>5. /\ InsideSet(s)' = InsideSet(s) \cup {t} /\ t \notin InsideSet(s)
      /\ pc'[t] \in {"tally", "unlock"} /\ \A u \in Threads \ {t} : pc'[u] = pc[u]
      /\ order'[t] = count[s] - 1 /\ count'[s] = count[s] - 1
  BY <1>1, <1>2 DEF InsideSet, Inside, Members, Threads
<1>6. Cardinality(InsideSet(s)') = Cardinality(InsideSet(s)) + 1
  <2>1. IsFiniteSet(InsideSet(s))
    BY SubsetType DEF InsideSet
  <2> QED BY <1>5, <2>1, FS_AddElement
<1>7. count'[s] = Size(s) - Cardinality(InsideSet(s)')
  <2>1. Cardinality(InsideSet(s)) \in Nat /\ Size(s) \in Nat
    BY SubsetType, MembersType DEF InsideSet
  <2> QED BY <1>4, <1>5, <1>6, <2>1 DEF Gathering
<1>8. count'[s] = 0 => HasLast(s)'
  BY <1>5 DEF HasLast, Last
<1>9. \A u \in Members(s) :
         Before(u, s)' \/ (stage'[u] = s /\ pc'[u] \in {"unlock", "tally", "tallied"})
  <2>1. Members(s) \subseteq Threads
    BY MembersType
  <2>2. CASE count[s] = 1
    BY <1>1, <1>4, <1>5, <2>1 DEF Gathering, Before
  <2> QED BY <1>1, <1>4, <1>5, <2>1 DEF Gathering, Before
<1>10. Waiting(s, "tallied")'
  BY <1>1, <1>4, <1>5 DEF Gathering, Waiting, Members, Threads
<1>11. BarrierInv(s)'
  BY <1>7, <1>8, <1>9, <1>10 DEF BarrierInv, Gathering, Members, Size
<1>12. InRound'
  BY <1>1, InRoundKept DEF Inv
<1>13. \A o \in Sides \ {s} : count'[o] = count[o]
  BY <1>1, <1>2
<1>14. \A u \in Threads \ {t} : order'[u] = order[u]
  BY <1>1, <1>2
<1> HIDE DEF label
<1> QED BY <1>1, <1>3, <1>5, <1>11, <1>12, <1>13, <1>14, StepInv

(* Steps of one thread within its phase, which change neither counts nor gates. *)
LEMMA MoveType ==
  ASSUME Inv, NEW t \in Threads, NEW s \in Sides, stage[t] = s, NEW label \in Labels,
         Goto(t, label), UNCHANGED <<stage, commCounter, rearmed, order>>,
         count' \in [Sides -> Int], gate' \in [Sides -> SUBSET Threads],
         activeSignals' \in [Sides -> Int], signals' \in [Sides -> Int]
  PROVE  /\ TypeOK' /\ InRound'
         /\ t \in Members(s) /\ pc'[t] = label
         /\ \A u \in Threads \ {t} : pc'[u] = pc[u]
<1>1. pc \in [Threads -> Labels] /\ pc' = [pc EXCEPT ![t] = label]
  BY DEF Inv, TypeOK, Goto
<1>2. pc' \in [Threads -> Labels]
  BY <1>1
<1>3. TypeOK'
  BY <1>1, <1>2 DEF Inv, TypeOK
<1> QED BY <1>1, <1>3, InRoundKept, MemberOf DEF Inv

LEMMA UnlockInv ==
  ASSUME Inv, NEW t \in Threads, NEW s \in Sides, Unlock(t, s) \/ Tally(t, s)
  PROVE  Inv'
<1>1. /\ stage[t] = s /\ pc[t] \in {"unlock", "tally"} /\ Goto(t, "tallied")
      /\ UNCHANGED <<stage, commCounter, rearmed, order, count, gate, signals, iterationNo>>
  BY DEF Unlock, Tally, loopVars, dataVars
<1>2. activeSignals' \in [Sides -> Int] /\ \A o \in Sides \ {s} : activeSignals'[o] = activeSignals[o]
  BY DEF Inv, TypeOK, Unlock, Tally
<1>3. /\ TypeOK' /\ InRound' /\ t \in Members(s) /\ pc'[t] = "tallied"
      /\ \A u \in Threads \ {t} : pc'[u] = pc[u]
  <2>1. "tallied" \in Labels
    BY DEF Labels
  <2>2. /\ count' \in [Sides -> Int] /\ gate' \in [Sides -> SUBSET Threads]
        /\ signals' \in [Sides -> Int]
    BY <1>1 DEF Inv, TypeOK
  <2> QED BY <1>1, <1>2, <2>1, <2>2, MoveType
<1>4. Gathering(s)
  BY <1>1, <1>3 DEF Inv, BarrierInv, Deciding, Transferring, Finishing, Leaving, AllAt, Past, Sides
<1>5. Members(s) \subseteq Threads
  BY MembersType
<1>6. \A u \in Members(s) : Inside(u, s)' <=> Inside(u, s)
  BY <1>1, <1>3, <1>5 DEF Inside
<1>7. InsideSet(s)' = InsideSet(s) /\ (HasLast(s) => HasLast(s)')
  BY <1>1, <1>6 DEF InsideSet, HasLast, Last, Members
<1>8. \A u \in Members(s) :
         Before(u, s)' \/ (stage'[u] = s /\ pc'[u] \in {"unlock", "tally", "tallied"})
  BY <1>1, <1>3, <1>4, <1>5 DEF Gathering, Before
<1>9. Waiting(s, "tallied")'
  BY <1>1, <1>3, <1>4, <1>5 DEF Gathering, Waiting, Members
<1>10. BarrierInv(s)'
  BY <1>1, <1>4, <1>7, <1>8, <1>9 DEF BarrierInv, Gathering, Members, Size
<1> QED BY <1>1, <1>2, <1>3, <1>10, StepInv

(* The pthread barrier lets all members pass, from the same place. *)
LEMMA GateOpens ==
  ASSUME Inv, NEW t \in Threads, NEW s \in Sides, stage[t] = s, pc[t] \in Gated,
         Cardinality(gate[s] \cup {t}) = Size(s)
  PROVE  /\ gate[s] \cup {t} = Members(s)
         /\ \A u \in Members(s) : stage[u] = s /\ pc[u] = pc[t]
<1>1. t \in Members(s)
  BY MemberOf DEF Inv
<1>2. /\ \A u \in gate[s] : u \in Members(s) /\ stage[u] = s /\ pc[u] = pc[t]
  <2>1. BarrierInv(s)
    BY DEF Inv
  <2>2. CASE Gathering(s)
    BY <1>1, <2>2 DEF Gathering, Waiting, Gated, Before, Sides
  <2>3. CASE Deciding(s)
    BY <1>1, <2>3 DEF Deciding, Waiting, Gated, AllAt
  <2>4. CASE Transferring(s)
    BY <1>1, <2>4 DEF Transferring, Waiting, Gated, AllAt
  <2>5. CASE Finishing(s)
    BY <1>1, <2>5 DEF Finishing, Waiting, Gated, AllAt
  <2>6. CASE Leaving(s)
    BY <1>1, <2>6 DEF Leaving
  <2> QED BY <2>1, <2>2, <2>3, <2>4, <2>5, <2>6 DEF BarrierInv
<1>3. gate[s] \cup {t} \in SUBSET Members(s)
  BY <1>1, <1>2
<1>4. gate[s] \cup {t} = Members(s)
  BY <1>3, SubsetType
<1> QED BY <1>2, <1>4

(* One more waits at the gate. *)
LEMMA ComeToGate ==
  ASSUME Inv, NEW t \in Threads, NEW s \in Sides, stage[t] = s, pc[t] \in Gated,
         gate' = [gate EXCEPT ![s] = gate[s] \cup {t}],
         UNCHANGED <<stage, pc, commCounter, order, rearmed, count, signals, activeSignals,
                     iterationNo>>
  PROVE  Inv'
<1>1. t \in Members(s) /\ Members(s) \subseteq Threads
  BY MemberOf, MembersType DEF Inv
<1>2. gate \in [Sides -> SUBSET Threads]
  BY DEF Inv, TypeOK
<1>3. gate'[s] = gate[s] \cup {t} /\ \A o \in Sides \ {s} : gate'[o] = gate[o]
  BY <1>2
<1>4. TypeOK'
  BY <1>2 DEF Inv, TypeOK
<1>5. InRound'
  BY InRoundKept DEF Inv
<1>6. BarrierInv(s)'
  <2>1. BarrierInv(s)
    BY DEF Inv
  <2>2. InsideSet(s)' = InsideSet(s) /\ (HasLast(s) => HasLast(s)')
    BY DEF InsideSet, HasLast, Inside, Last, Members
  <2>3. CASE Gathering(s)
    <3>1. pc[t] = "tallied"
      BY <1>1, <2>3 DEF Gathering, Gated, Before, Sides
    <3>2. Waiting(s, "tallied")'
      BY <1>1, <1>3, <2>3, <3>1 DEF Gathering, Waiting, Members
    <3>3. \A u \in Members(s) :
             Before(u, s)' \/ (stage'[u] = s /\ pc'[u] \in {"unlock", "tally", "tallied"})
      BY <2>3 DEF Gathering, Before
    <3> QED BY <2>2, <2>3, <3>2, <3>3 DEF Gathering, BarrierInv, Members, Size
  <2>4. CASE Deciding(s)
    <3>1. pc[t] = "ready"
      BY <1>1, <2>4 DEF Deciding, Gated, AllAt
    <3>2. Waiting(s, "ready")'
      BY <1>1, <1>3, <2>4, <3>1 DEF Deciding, Waiting, Members
    <3> QED BY <2>2, <2>4, <3>2 DEF Deciding, BarrierInv, Members, AllAt, ShouldPerformTransfer
  <2>5. CASE Transferring(s)
    <3>1. pc[t] = "transferred"
      BY <1>1, <2>5 DEF Transferring, Gated, AllAt
    <3>2. Waiting(s, "transferred")'
      BY <1>1, <1>3, <2>5, <3>1 DEF Transferring, Waiting, Members
    <3> QED BY <2>2, <2>5, <3>2 DEF Transferring, BarrierInv, Members, AllAt
  <2>6. CASE Finishing(s)
    <3>1. pc[t] = "finished"
      BY <1>1, <2>6 DEF Finishing, Gated, AllAt
    <3>2. Waiting(s, "finished")'
      BY <1>1, <1>3, <2>6, <3>1 DEF Finishing, Waiting, Members
    <3> QED BY <2>2, <2>6, <3>2 DEF Finishing, BarrierInv, Members, Size, Last, AllAt,
               ShouldPerformTransfer
  <2>7. CASE Leaving(s)
    BY <1>1, <2>7 DEF Leaving, Gated, Past, Sides
  <2> QED BY <2>1, <2>3, <2>4, <2>5, <2>6, <2>7 DEF BarrierInv
<1> QED BY <1>3, <1>4, <1>5, <1>6, StepInv

LEMMA PassGate ==
  ASSUME Inv, NEW t \in Threads, NEW s \in Sides, stage[t] = s, pc[t] \in Gated,
         Cardinality(gate[s] \cup {t}) = Size(s),
         gate' = [gate EXCEPT ![s] = {}],
         pc' = [u \in Threads |-> IF u \in gate[s] \cup {t} THEN PastGate(u) ELSE pc[u]],
         UNCHANGED <<stage, commCounter, order, rearmed, count, signals, activeSignals,
                     iterationNo>>
  PROVE  Inv'
<1>1. /\ t \in Members(s) /\ Members(s) \subseteq Threads
      /\ \A u \in Members(s) : stage[u] = s /\ pc[u] = pc[t] /\ pc'[u] = PastGate(u)
      /\ \A u \in Threads \ Members(s) : pc'[u] = pc[u]
  BY MemberOf, MembersType, GateOpens DEF Inv
<1>2. gate \in [Sides -> SUBSET Threads] /\ pc \in [Threads -> Labels]
  BY DEF Inv, TypeOK
<1>3. gate'[s] = {} /\ \A o \in Sides \ {s} : gate'[o] = gate[o]
  BY <1>2
<1>4. \A u \in Members(s) : PastGate(u) \in Labels \ {"call"}
  BY <1>1 DEF PastGate, Gated, Labels
<1>5. TypeOK'
  <2>1. pc' \in [Threads -> Labels]
    BY <1>1, <1>2, <1>4, GateOpens
  <2>2. \A u \in Threads : stage[u] \notin Sides => pc'[u] = "call"
    BY <1>1 DEF Inv, TypeOK
  <2>3. gate' \in [Sides -> SUBSET Threads]
    BY <1>2
  <2> QED BY <2>1, <2>2, <2>3 DEF Inv, TypeOK
<1>6. InRound'
  BY InRoundKept DEF Inv
<1>7. BarrierInv(s) /\ Members(s)' = Members(s) /\ Size(s)' = Size(s)
  BY DEF Inv, Members, Size
<1>8. Waiting(s, "ready")' /\ Waiting(s, "transferred")' /\ Waiting(s, "finished")'
  BY <1>3 DEF Waiting
<1>9. HasLast(s) => HasLast(s)'
  BY <1>1, <1>4, <1>7 DEF HasLast, InsideSet, Inside, Last
<1>10. BarrierInv(s)'
  <2>1. CASE pc[t] = "tallied"
    <3>1. Gathering(s)
      BY <1>1, <1>7, <2>1 DEF BarrierInv, Deciding, Transferring, Finishing, Leaving, AllAt, Past,
         Sides
    <3>2. InsideSet(s) = Members(s)
      BY <1>1, <2>1 DEF InsideSet, Inside
    <3>3. count[s] = 0
      BY <3>1, <3>2, MembersType DEF Gathering, Size
    <3>4. HasLast(s)'
      BY <1>9, <3>1, <3>3 DEF Gathering
    <3>5. \A u \in Members(s) : pc'[u] = "decide" /\ stage'[u] = s
      BY <1>1, <2>1 DEF PastGate
    <3> QED BY <1>7, <1>8, <3>4, <3>5 DEF BarrierInv, Deciding, AllAt
  <2>2. CASE pc[t] = "ready"
    <3>1. Deciding(s)
      BY <1>1, <1>7, <2>2 DEF BarrierInv, Gathering, Transferring, Finishing, Leaving, AllAt, Past,
         Before, Sides
    <3>2. \A u \in Members(s) : pc'[u] \in {"transfer", "transferred"} /\ stage'[u] = s
      BY <1>1, <2>2 DEF PastGate
    <3> QED BY <1>7, <1>8, <1>9, <3>1, <3>2 DEF BarrierInv, Deciding, Transferring, AllAt
  <2>3. CASE pc[t] = "transferred"
    <3>1. Transferring(s)
      BY <1>1, <1>7, <2>3 DEF BarrierInv, Gathering, Deciding, Finishing, Leaving, AllAt, Past,
         Before, Sides
    <3>2. \A u \in Members(s) : pc'[u] = "after" /\ stage'[u] = s
      BY <1>1, <2>3 DEF PastGate
    <3> QED BY <1>7, <1>8, <1>9, <3>1, <3>2 DEF BarrierInv, Transferring, Finishing, AllAt
  <2>4. CASE pc[t] = "finished"
    <3>1. Finishing(s)
      BY <1>1, <1>7, <2>4 DEF BarrierInv, Gathering, Deciding, Transferring, Leaving, AllAt, Past,
         Before, Sides
    <3>2. \A u \in Members(s) : pc'[u] \in {"release", "return"} /\ stage'[u] = s
      BY <1>1, <2>4 DEF PastGate
    <3>3. count[s] = Size(s)
      BY <1>1, <2>4, <3>1 DEF Finishing, HasLast, InsideSet
    <3> QED BY <1>3, <1>7, <3>2, <3>3 DEF BarrierInv, Leaving
  <2> QED BY <2>1, <2>2, <2>3, <2>4 DEF Gated
<1>11. \A u \in Threads \ {t} : pc'[u] = pc[u] \/ stage[u] = s
  BY <1>1
<1> QED BY <1>3, <1>5, <1>6, <1>10, <1>11, StepInv

LEMMA WaitAtGateInv ==
  ASSUME Inv, NEW t \in Threads, NEW s \in Sides, WaitAtGate(t, s)
  PROVE  Inv'
<1>1. /\ stage[t] = s /\ pc[t] \in Gated
      /\ UNCHANGED <<stage, commCounter, order, rearmed, count, signals, activeSignals, iterationNo>>
  BY DEF WaitAtGate, loopVars, dataVars
<1>2. CASE Cardinality(gate[s] \cup {t}) = Size(s)
  BY <1>1, <1>2, PassGate DEF WaitAtGate
<1>3. CASE Cardinality(gate[s] \cup {t}) # Size(s)
  BY <1>1, <1>3, ComeToGate DEF WaitAtGate
<1> QED BY <1>2, <1>3

(* All that are inside a barrier have called it for the same round, so that whether a
   transfer is due is the same for all. *)
LEMMA SameDecision ==
  ASSUME Inv, NEW s \in Sides, \A u \in Members(s) : stage[u] = s,
         NEW t \in Members(s), NEW u \in Members(s)
  PROVE  ShouldPerformTransfer(t, s) <=> ShouldPerformTransfer(u, s)
<1>1. PICK m \in Nat : Round(m)
  BY DEF Inv, InRound
<1>2. t \in Threads /\ u \in Threads /\ commCounter \in [Threads -> Nat]
  BY MembersType DEF Inv, TypeOK
<1>3. commCounter[t] + 1 = m /\ commCounter[u] + 1 = m
  BY <1>1, <1>2 DEF Round, Sides
<1>4. commCounter[t] = commCounter[u]
  BY <1>2, <1>3
<1> QED BY <1>4 DEF ShouldPerformTransfer

(* A step of one thread within its barrier, once all members are inside. *)
LEMMA InnerStep ==
  ASSUME Inv, NEW t \in Threads, NEW s \in Sides, stage[t] = s, NEW label \in Labels \ {"call"},
         Goto(t, label), UNCHANGED <<stage, commCounter, rearmed, order, gate>>,
         pc[t] \notin Gated
  PROVE  /\ t \in Members(s) /\ Members(s) \subseteq Threads /\ pc'[t] = label
         /\ \A u \in Threads \ {t} : pc'[u] = pc[u]
         /\ \A u \in Threads : Last(u)' <=> Last(u)
         /\ HasLast(s) => HasLast(s)'
         /\ \A l \in Gated : Waiting(s, l) => Waiting(s, l)'
<1>1. pc \in [Threads -> Labels] /\ pc' = [pc EXCEPT ![t] = label]
  BY DEF Inv, TypeOK, Goto
<1>2. t \in Members(s) /\ Members(s) \subseteq Threads
  BY MemberOf, MembersType DEF Inv
<1>3. HasLast(s) => HasLast(s)'
  BY <1>1, <1>2 DEF HasLast, InsideSet, Inside, Last, Members
<1>4. \A l \in Gated : Waiting(s, l) => Waiting(s, l)'
  BY <1>1, <1>2 DEF Waiting, Members
<1> QED BY <1>1, <1>2, <1>3, <1>4 DEF Last

LEMMA DecideInv ==
  ASSUME Inv, NEW t \in Threads, NEW s \in Sides, Decide(t, s)
  PROVE  Inv'
<1> DEFINE label == IF ShouldPerformTransfer(t, s) THEN "before"
                    ELSE IF Last(t) THEN "reset" ELSE "finished"
<1>1. /\ stage[t] = s /\ pc[t] = "decide" /\ Goto(t, label)
      /\ UNCHANGED <<stage, commCounter, rearmed, order, count, gate, activeSignals, signals,
                     iterationNo>>
      /\ label \in Labels \ {"call"}
  BY DEF Decide, loopVars, barrierVars, dataVars, Labels
<1>2. label = "before" \/ (label = "reset" /\ Last(t)) \/ (label = "finished" /\ ~Last(t))
  OBVIOUS
<1>3. label = "before" <=> ShouldPerformTransfer(t, s)
  OBVIOUS
<1> HIDE DEF label
<1>4. /\ TypeOK' /\ InRound' /\ t \in Members(s) /\ Members(s) \subseteq Threads /\ pc'[t] = label
      /\ \A u \in Threads \ {t} : pc'[u] = pc[u]
  <2>1. /\ count' \in [Sides -> Int] /\ gate' \in [Sides -> SUBSET Threads]
        /\ activeSignals' \in [Sides -> Int] /\ signals' \in [Sides -> Int]
    BY <1>1 DEF Inv, TypeOK
  <2> QED BY <1>1, <2>1, MoveType, MembersType
<1>5. /\ \A u \in Threads : Last(u)' <=> Last(u)
      /\ HasLast(s) => HasLast(s)'
      /\ \A l \in Gated : Waiting(s, l) => Waiting(s, l)'
  <2>1. pc[t] \notin Gated
    BY <1>1 DEF Gated
  <2> QED BY <1>1, <2>1, InnerStep
<1>6. \A u \in Members(s) : ShouldPerformTransfer(u, s)' <=> ShouldPerformTransfer(u, s)
  BY <1>1 DEF ShouldPerformTransfer
<1>7. BarrierInv(s) /\ Members(s)' = Members(s) /\ Size(s)' = Size(s)
  BY DEF Inv, Members, Size
<1>8. BarrierInv(s)'
  <2>1. CASE Deciding(s) /\ label = "before"
    <3>1. \A u \in Members(s) : ShouldPerformTransfer(u, s)'
      BY <1>3, <1>4, <1>6, <2>1, SameDecision DEF Deciding, AllAt
    <3>2. AllAt(s, {"decide", "before", "ready"})'
      BY <1>1, <1>4, <1>7, <2>1 DEF Deciding, AllAt
    <3>3. Waiting(s, "ready")' /\ HasLast(s)'
      BY <1>5, <2>1 DEF Deciding, Gated
    <3> QED BY <1>7, <3>1, <3>2, <3>3 DEF BarrierInv, Deciding
  <2>2. CASE Deciding(s) /\ label # "before"
    <3>1. \A u \in Members(s) : pc[u] = "decide" /\ stage[u] = s
      BY <1>3, <1>4, <2>2 DEF Deciding, AllAt
    <3>2. \A u \in Members(s) : ~ShouldPerformTransfer(u, s)'
      BY <1>3, <1>4, <1>6, <2>2, <3>1, SameDecision
    <3>3. AllAt(s, {"decide", "reset", "finished"})'
      BY <1>1, <1>2, <1>4, <1>7, <2>2, <3>1 DEF AllAt
    <3>4. gate'[s] = {}
      BY <1>1, <2>2, <3>1 DEF Deciding, Waiting
    <3>5. Waiting(s, "finished")' /\ HasLast(s)'
      BY <1>5, <2>2, <3>4 DEF Deciding, Waiting
    <3>6. \A u \in Members(s) : ~(Last(u)' /\ pc'[u] = "finished")
      BY <1>2, <1>4, <1>5, <3>1
    <3> QED BY <1>7, <3>2, <3>3, <3>5, <3>6 DEF BarrierInv, Finishing
  <2>3. CASE Finishing(s)
    <3>1. /\ AllAt(s, {"decide", "reset", "finished"})
          /\ \A u \in Members(s) : ~ShouldPerformTransfer(u, s)
      BY <1>1, <1>4, <2>3 DEF Finishing, AllAt
    <3>2. \A u \in Members(s) : ~ShouldPerformTransfer(u, s)'
      BY <1>6, <3>1
    <3>3. AllAt(s, {"decide", "reset", "finished"})'
      BY <1>1, <1>2, <1>3, <1>4, <1>7, <3>1 DEF AllAt
    <3>4. Waiting(s, "finished")' /\ HasLast(s)'
      BY <1>5, <2>3 DEF Finishing, Gated
    <3>5. \A u \in Members(s) : Last(u)' /\ pc'[u] = "finished" => count'[s] = Size(s)
      BY <1>1, <1>2, <1>4, <1>5, <2>3 DEF Finishing
    <3> QED BY <1>7, <3>2, <3>3, <3>4, <3>5 DEF BarrierInv, Finishing
  <2>4. Deciding(s) \/ Finishing(s)
    BY <1>1, <1>4, <1>7 DEF BarrierInv, Gathering, Transferring, Leaving, AllAt, Before, Past, Sides
  <2> QED BY <2>1, <2>2, <2>3, <2>4
<1> QED BY <1>1, <1>4, <1>8, StepInv

LEMMA BeforeTransferInv ==
  ASSUME Inv, NEW t \in Threads, NEW s \in Sides, BeforeTransfer(t, s)
  PROVE  Inv'
<1>1. /\ stage[t] = s /\ pc[t] = "before" /\ Goto(t, "ready")
      /\ UNCHANGED <<stage, commCounter, rearmed, order, count, gate, activeSignals, signals,
                     iterationNo>>
      /\ "ready" \in Labels \ {"call"} /\ pc[t] \notin Gated
  BY DEF BeforeTransfer, loopVars, barrierVars, dataVars, Labels, Gated
<1>2. TypeOK' /\ InRound' /\ Members(s)' = Members(s)
  <2>1. /\ count' \in [Sides -> Int] /\ gate' \in [Sides -> SUBSET Threads]
        /\ activeSignals' \in [Sides -> Int] /\ signals' \in [Sides -> Int]
    BY <1>1 DEF Inv, TypeOK
  <2> QED BY <1>1, <2>1, MoveType DEF Members
<1>3. /\ t \in Members(s) /\ Members(s) \subseteq Threads /\ pc'[t] = "ready"
      /\ \A u \in Threads \ {t} : pc'[u] = pc[u]
      /\ HasLast(s) => HasLast(s)'
      /\ \A l \in Gated : Waiting(s, l) => Waiting(s, l)'
  BY <1>1, InnerStep
<1>4. Deciding(s)
  BY <1>1, <1>3 DEF Inv, BarrierInv, Gathering, Transferring, Finishing, Leaving, AllAt, Before,
     Past, Sides
<1>5. BarrierInv(s)'
  <2>1. AllAt(s, {"decide", "before", "ready"})'
    BY <1>1, <1>2, <1>3, <1>4 DEF Deciding, AllAt
  <2>2. \A u \in Members(s) : ShouldPerformTransfer(u, s)'
    BY <1>1, <1>3, <1>4 DEF Deciding, ShouldPerformTransfer
  <2>3. Waiting(s, "ready")' /\ HasLast(s)'
    BY <1>3, <1>4 DEF Deciding, Gated
  <2> QED BY <1>2, <2>1, <2>2, <2>3 DEF BarrierInv, Deciding
<1> QED BY <1>1, <1>2, <1>3, <1>5, StepInv

LEMMA TransferFunctionInv ==
  ASSUME Inv, NEW t \in Threads, NEW s \in Sides, TransferFunction(t, s)
  PROVE  Inv'
<1>1. /\ stage[t] = s /\ pc[t] = "transfer" /\ Goto(t, "transferred")
      /\ UNCHANGED <<stage, commCounter, rearmed, order, count, gate, activeSignals, signals>>
      /\ "transferred" \in Labels \ {"call"} /\ pc[t] \notin Gated
  BY DEF TransferFunction, loopVars, barrierVars, Labels, Gated
<1>2. TypeOK' /\ InRound' /\ Members(s)' = Members(s)
  <2>1. /\ count' \in [Sides -> Int] /\ gate' \in [Sides -> SUBSET Threads]
        /\ activeSignals' \in [Sides -> Int] /\ signals' \in [Sides -> Int]
    BY <1>1 DEF Inv, TypeOK
  <2> QED BY <1>1, <2>1, MoveType DEF Members
<1>3. /\ t \in Members(s) /\ Members(s) \subseteq Threads /\ pc'[t] = "transferred"
      /\ \A u \in Threads \ {t} : pc'[u] = pc[u]
      /\ HasLast(s) => HasLast(s)'
      /\ \A l \in Gated : Waiting(s, l) => Waiting(s, l)'
  BY <1>1, InnerStep
<1>4. Transferring(s)
  BY <1>1, <1>3 DEF Inv, BarrierInv, Gathering, Deciding, Finishing, Leaving, AllAt, Before,
     Past, Sides
<1>5. BarrierInv(s)'
  <2>1. AllAt(s, {"transfer", "transferred"})'
    BY <1>1, <1>2, <1>3, <1>4 DEF Transferring, AllAt
  <2>2. Waiting(s, "transferred")' /\ HasLast(s)'
    BY <1>3, <1>4 DEF Transferring, Gated
  <2> QED BY <2>1, <2>2 DEF BarrierInv, Transferring
<1>6. \A u \in Members(s) : stage[u] = s
  BY <1>4 DEF Transferring, AllAt
<1> QED BY <1>1, <1>2, <1>3, <1>5, <1>6, StepInv

LEMMA FinishInv ==
  ASSUME Inv, NEW t \in Threads, NEW s \in Sides, AfterTransfer(t, s) \/ Reset(t, s)
  PROVE  Inv'
<1>1. PICK label \in {"reset", "finished"} :
        /\ stage[t] = s /\ pc[t] \in {"after", "reset"} /\ Goto(t, label)
        /\ label = "finished" => \/ pc[t] = "after" /\ ~Last(t)
                                 \/ pc[t] = "reset" /\ count'[s] = Size(s)
        /\ pc[t] = "reset" => activeSignals'[s] = 0
        /\ pc[t] = "after" => UNCHANGED activeSignals
        /\ count'[s] = count[s] \/ count'[s] = Size(s)
  BY DEF AfterTransfer, Reset, Inv, TypeOK, barrierVars
<1>2. /\ UNCHANGED <<stage, commCounter, rearmed, order, gate, iterationNo>>
      /\ label \in Labels \ {"call"} /\ pc[t] \notin Gated
  BY <1>1 DEF AfterTransfer, Reset, loopVars, barrierVars, dataVars, Labels, Gated
<1>3. /\ count' \in [Sides -> Int] /\ gate' \in [Sides -> SUBSET Threads]
      /\ activeSignals' \in [Sides -> Int] /\ signals' \in [Sides -> Int]
      /\ \A o \in Sides \ {s} : count'[o] = count[o] /\ activeSignals'[o] = activeSignals[o]
  BY MembersType DEF AfterTransfer, Reset, barrierVars, Inv, TypeOK
<1>4. TypeOK' /\ InRound' /\ Members(s)' = Members(s) /\ Size(s)' = Size(s)
  BY <1>1, <1>2, <1>3, MoveType DEF Members, Size
<1>5. /\ t \in Members(s) /\ Members(s) \subseteq Threads /\ pc'[t] = label
      /\ \A u \in Threads \ {t} : pc'[u] = pc[u]
      /\ \A u \in Threads : Last(u)' <=> Last(u)
      /\ HasLast(s) => HasLast(s)'
      /\ \A l \in Gated : Waiting(s, l) => Waiting(s, l)'
  BY <1>1, <1>2, InnerStep
<1>6. Finishing(s)
  BY <1>1, <1>5 DEF Inv, BarrierInv, Gathering, Deciding, Transferring, Leaving, AllAt, Before,
     Past, Sides
<1>7. BarrierInv(s)'
  <2>1. CASE AllAt(s, {"after", "reset", "finished"})
    <3>1. AllAt(s, {"after", "reset", "finished"})'
      BY <1>1, <1>2, <1>4, <1>5, <2>1 DEF AllAt
    <3>2. Waiting(s, "finished")' /\ HasLast(s)'
      BY <1>5, <1>6 DEF Finishing, Gated
    <3>3. \A u \in Members(s) : Last(u)' /\ pc'[u] = "finished" => count'[s] = Size(s)
      BY <1>1, <1>5, <1>6 DEF Finishing
    <3> QED BY <1>4, <3>1, <3>2, <3>3 DEF BarrierInv, Finishing
  <2>2. CASE /\ AllAt(s, {"decide", "reset", "finished"})
             /\ \A u \in Members(s) : ~ShouldPerformTransfer(u, s)
    <3>1. AllAt(s, {"decide", "reset", "finished"})'
      BY <1>1, <1>2, <1>4, <1>5, <2>2 DEF AllAt
    <3>2. Waiting(s, "finished")' /\ HasLast(s)'
      BY <1>5, <1>6 DEF Finishing, Gated
    <3>3. \A u \in Members(s) : Last(u)' /\ pc'[u] = "finished" => count'[s] = Size(s)
      BY <1>1, <1>5, <1>6 DEF Finishing
    <3>4. activeSignals'[s] = 0
      BY <1>1, <1>5, <2>2 DEF AllAt
    <3>5. \A u \in Members(s) : ~ShouldPerformTransfer(u, s)'
      BY <3>4 DEF ShouldPerformTransfer
    <3> QED BY <1>4, <3>1, <3>2, <3>3, <3>5 DEF BarrierInv, Finishing
  <2> QED BY <1>6, <2>1, <2>2 DEF Finishing
<1> QED BY <1>1, <1>2, <1>3, <1>4, <1>5, <1>7, StepInv

LEMMA ReleaseInv ==
  ASSUME Inv, NEW t \in Threads, NEW s \in Sides, Release(t, s)
  PROVE  Inv'
<1>1. /\ stage[t] = s /\ pc[t] = "release" /\ Goto(t, "return")
      /\ UNCHANGED <<stage, commCounter, rearmed, order, count, gate, activeSignals, signals,
                     iterationNo>>
      /\ "return" \in Labels \ {"call"} /\ pc[t] \notin Gated
  BY DEF Release, loopVars, dataVars, Labels, Gated
<1>2. TypeOK' /\ InRound' /\ Members(s)' = Members(s) /\ Size(s)' = Size(s)
  <2>1. /\ count' \in [Sides -> Int] /\ gate' \in [Sides -> SUBSET Threads]
        /\ activeSignals' \in [Sides -> Int] /\ signals' \in [Sides -> Int]
    BY <1>1 DEF Inv, TypeOK
  <2> QED BY <1>1, <2>1, MoveType DEF Members, Size
<1>3. /\ t \in Members(s) /\ Members(s) \subseteq Threads /\ pc'[t] = "return"
      /\ \A u \in Threads \ {t} : pc'[u] = pc[u]
  BY <1>1, InnerStep
<1>4. Leaving(s)
  BY <1>1, <1>3 DEF Inv, BarrierInv, Gathering, Deciding, Transferring, Finishing, AllAt, Before,
     Sides
<1>5. \A u \in Members(s) : Past(u, s)' \/ (stage'[u] = s /\ pc'[u] \in {"release", "return"})
  BY <1>1, <1>3, <1>4 DEF Leaving, Past
<1>6. BarrierInv(s)'
  BY <1>1, <1>2, <1>4, <1>5 DEF BarrierInv, Leaving
<1> QED BY <1>1, <1>2, <1>3, <1>6, StepInv

(* The loop around the barriers takes a PPU of round m through its stages. *)
LEMMA AdvanceType ==
  ASSUME TypeOK, NEW t \in Threads, stage[t] # "rearm", Advance(t), UNCHANGED <<order, rearmed>>,
         UNCHANGED <<count, gate, activeSignals, signals>>,
         pc' \in [Threads -> Labels], pc'[t] = "call", \A u \in Threads \ {t} : pc'[u] = pc[u],
         commCounter' \in [Threads -> Nat]
  PROVE  /\ TypeOK' /\ stage'[t] = StageAfter(t, stage[t])
         /\ \A u \in Threads \ {t} : stage'[u] = stage[u]
<1>1. stage \in [Threads -> Stages] /\ stage' = [stage EXCEPT ![t] = StageAfter(t, stage[t])]
  BY DEF TypeOK, Advance
<1>2. /\ StageAfter(t, stage[t]) \in Stages
      /\ StageAfter(t, stage[t]) \notin {"update"}
      /\ StageAfter(t, stage[t]) = "send" => t \in Senders
      /\ StageAfter(t, stage[t]) \in {"receive", "use"} => t \in Receivers
  BY <1>1 DEF StageAfter, Stages, TypeOK
<1>3. stage' \in [Threads -> Stages] /\ stage'[t] = StageAfter(t, stage[t])
  BY <1>1, <1>2
<1>4. rearmed' \subseteq {u \in Threads : stage'[u] = "rearm"}
  BY <1>1 DEF TypeOK
<1>5. \A u \in Threads : /\ stage'[u] \notin Sides => pc'[u] = "call"
                         /\ stage'[u] \in {"update", "send"} => u \in Senders
                         /\ stage'[u] \in {"receive", "use"} => u \in Receivers
  BY <1>1, <1>2, <1>3 DEF TypeOK
<1> QED BY <1>1, <1>3, <1>4, <1>5 DEF TypeOK

LEMMA ReturnInv ==
  ASSUME Inv, NEW t \in Threads, NEW s \in Sides, Return(t, s)
  PROVE  Inv'
<1> DEFINE more == IF s = "receive" \/ t \notin Receivers THEN 1 ELSE 0
<1>1. /\ stage[t] = s /\ pc[t] = "return" /\ Goto(t, "call") /\ Advance(t)
      /\ commCounter' = [commCounter EXCEPT ![t] = commCounter[t] + more]
      /\ UNCHANGED <<rearmed, order, count, gate, activeSignals, signals, iterationNo>>
  BY DEF Return, barrierVars, dataVars
<1>2. /\ pc \in [Threads -> Labels] /\ commCounter \in [Threads -> Nat] /\ more \in Nat
      /\ stage[t] # "rearm" /\ "call" \in Labels /\ t \in Members(s)
  BY <1>1, MemberOf DEF Inv, TypeOK, Sides, Labels
<1>3. /\ pc' \in [Threads -> Labels] /\ pc'[t] = "call" /\ \A u \in Threads \ {t} : pc'[u] = pc[u]
      /\ commCounter' \in [Threads -> Nat] /\ commCounter'[t] = commCounter[t] + more
      /\ \A u \in Threads \ {t} : commCounter'[u] = commCounter[u]
  BY <1>1, <1>2 DEF Goto
<1>4. /\ TypeOK' /\ stage'[t] = StageAfter(t, s)
      /\ \A u \in Threads \ {t} : stage'[u] = stage[u]
  BY <1>1, <1>2, <1>3, AdvanceType DEF Inv
<1>5. Leaving(s)
  BY <1>1, <1>2 DEF Inv, BarrierInv, Gathering, Deciding, Transferring, Finishing, AllAt, Before,
     Sides
<1>6. BarrierInv(s)'
  <2>1. Members(s)' = Members(s) /\ Size(s)' = Size(s) /\ Members(s) \subseteq Threads
    BY MembersType DEF Members, Size
  <2>2. Past(t, s)'
    <3>1. StageAfter(t, s) \in {"use", "rearm"} \/ (s = "send" /\ StageAfter(t, s) = "receive")
      BY DEF StageAfter, Sides
    <3> QED BY <1>4, <3>1 DEF Past
  <2>3. \A u \in Members(s) : Past(u, s)' \/ (stage'[u] = s /\ pc'[u] \in {"release", "return"})
    BY <1>3, <1>4, <1>5, <2>1, <2>2 DEF Leaving, Past
  <2> QED BY <1>1, <1>5, <2>1, <2>3 DEF BarrierInv, Leaving
<1>7. InRound'
  <2>1. PICK m \in Nat : Round(m)
    BY DEF Inv, InRound
  <2>2. commCounter[t] + 1 = m
    BY <1>1, <2>1 DEF Round, Sides
  <2>3. IF stage'[t] \in {"use", "rearm"} THEN commCounter'[t] = m ELSE commCounter'[t] + 1 = m
    <3>1. CASE s = "receive"
      BY <1>2, <1>3, <1>4, <2>2, <3>1 DEF StageAfter
    <3>2. CASE s = "send" /\ t \in Receivers
      BY <1>2, <1>3, <1>4, <2>2, <3>2 DEF StageAfter
    <3>3. CASE s = "send" /\ t \notin Receivers
      BY <1>2, <1>3, <1>4, <2>2, <3>3 DEF StageAfter
    <3> QED BY <3>1, <3>2, <3>3 DEF Sides
  <2>4. Round(m)'
    BY <1>3, <1>4, <2>1, <2>3 DEF Round
  <2> QED BY <2>4 DEF InRound
<1> HIDE DEF more
<1> QED BY <1>1, <1>3, <1>4, <1>6, <1>7, StepInv

LEMMA StageInv ==
  ASSUME Inv, NEW t \in Threads, Update(t) \/ Use(t)
  PROVE  Inv'
<1>1. /\ stage[t] \in {"update", "use"} /\ Advance(t)
      /\ UNCHANGED <<pc, commCounter, rearmed, order, count, gate, activeSignals, signals,
                     iterationNo>>
  BY DEF Update, Use, barrierVars, dataVars
<1>2. pc \in [Threads -> Labels] /\ pc[t] = "call" /\ commCounter \in [Threads -> Nat]
  BY <1>1 DEF Inv, TypeOK, Sides
<1>3. /\ TypeOK' /\ stage'[t] = StageAfter(t, stage[t])
      /\ \A u \in Threads \ {t} : stage'[u] = stage[u]
  BY <1>1, <1>2, AdvanceType DEF Inv
<1>4. \/ stage[t] = "update" /\ stage'[t] = "send"
      \/ stage[t] = "use" /\ stage'[t] = "rearm"
  BY <1>1, <1>3 DEF StageAfter
<1>5. ASSUME NEW o \in Sides
      PROVE  BarrierInv(o)'
  <2>1. ASSUME NEW u \in Members(o)
        PROVE  \/ Before(u, o) /\ Before(u, o)'
               \/ Past(u, o) /\ Past(u, o)'
               \/ /\ stage'[u] = stage[u] /\ pc'[u] = pc[u]
                  /\ order'[u] = order[u] /\ commCounter'[u] = commCounter[u]
    <3>1. u \in Threads
      BY DEF Members, Threads
    <3>2. CASE u # t
      BY <1>1, <1>3, <3>1, <3>2
    <3>3. CASE u = t /\ stage[t] = "update"
      BY <1>1, <1>2, <1>4, <3>3 DEF Before, Sides
    <3>4. CASE u = t /\ stage[t] = "use"
      BY <1>4, <3>4 DEF Past
    <3> QED BY <1>1, <3>2, <3>3, <3>4
  <2> QED BY <1>1, <2>1, Frame DEF Inv
<1>6. InRound'
  <2>1. PICK m \in Nat : Round(m)
    BY DEF Inv, InRound
  <2>2. Round(m)'
    BY <1>1, <1>3, <1>4, <2>1 DEF Round
  <2> QED BY <2>2 DEF InRound
<1> QED BY <1>3, <1>5, <1>6 DEF Inv

(* The next round begins when all are done with the last one. *)
LEMMA RearmInv ==
  ASSUME Inv, NEW t \in Threads, Rearm(t)
  PROVE  Inv'
<1>1. /\ stage[t] = "rearm"
      /\ UNCHANGED <<pc, commCounter, order, count, gate, activeSignals, signals, iterationNo>>
  BY DEF Rearm, barrierVars, dataVars
<1>2. CASE rearmed \cup {t} # Threads
  <2>1. rearmed' = rearmed \cup {t} /\ stage' = stage
    BY <1>2 DEF Rearm
  <2>2. TypeOK'
    BY <1>1, <2>1 DEF Inv, TypeOK
  <2>3. InRound'
    BY <1>1, <2>1, InRoundKept DEF Inv
  <2>4. \A o \in Sides : BarrierInv(o)'
    BY <1>1, <2>1, Frame DEF Inv
  <2> QED BY <2>2, <2>3, <2>4 DEF Inv
<1>3. CASE rearmed \cup {t} = Threads
  <2>1. /\ rearmed' = {} /\ stage' = [u \in Threads |-> StageAfter(u, "rearm")]
        /\ \A u \in Threads : stage[u] = "rearm" /\ pc[u] = "call" /\ pc'[u] = "call"
    BY <1>1, <1>3 DEF Rearm, Inv, TypeOK, Sides
  <2>2. \A u \in Threads : \/ stage'[u] = "update" /\ u \in Senders
                           \/ stage'[u] = "receive" /\ u \in Receivers
    BY <2>1 DEF StageAfter, Threads
  <2>3. TypeOK'
    BY <1>1, <2>1, <2>2 DEF Inv, TypeOK, Stages
  <2>4. InRound'
    <3>1. PICK m \in Nat : Round(m)
      BY DEF Inv, InRound
    <3>2. \A u \in Threads : commCounter[u] = m
      BY <2>1, <3>1 DEF Round
    <3>3. \A u \in Threads : commCounter'[u] + 1 = m + 1
      BY <1>1, <3>2
    <3>4. Round(m + 1)'
      BY <2>2, <3>3 DEF Round
    <3> QED BY <3>1, <3>4 DEF InRound
  <2>5. ASSUME NEW o \in Sides
        PROVE  Gathering(o)'
    <3>1. Members(o) \subseteq Threads /\ Members(o) # {} /\ Size(o) \in Nat \ {0}
      BY MembersType
    <3>2. Leaving(o)
      BY <2>1, <3>1 DEF Inv, BarrierInv, Gathering, Deciding, Transferring, Finishing, AllAt,
         Before, Sides
    <3>3. \A u \in Members(o) : Before(u, o)' /\ ~Inside(u, o)'
      <4> SUFFICES ASSUME NEW u \in Members(o) PROVE Before(u, o)' /\ ~Inside(u, o)'
        OBVIOUS
      <4>1. pc'[u] = "call" /\ (stage'[u] = "update" \/ stage'[u] = "receive")
        BY <2>1, <2>2, <3>1
      <4>2. o = "send" => stage'[u] = "update"
        <5>1. u \in Senders /\ o = "send" => stage'[u] = "update"
          BY <2>1, <3>1 DEF StageAfter
        <5> QED BY <5>1 DEF Members
      <4> QED BY <4>1, <4>2 DEF Before, Inside, Sides
    <3>4. InsideSet(o)' = {}
      BY <3>3 DEF InsideSet, Members
    <3>5. count'[o] = Size(o)' - Cardinality(InsideSet(o)') /\ count'[o] # 0
      BY <1>1, <3>1, <3>2, <3>4, FS_EmptySet DEF Leaving, Size, Members
    <3>6. Waiting(o, "tallied")'
      BY <1>1, <3>2 DEF Leaving, Waiting
    <3> QED BY <3>3, <3>5, <3>6 DEF Gathering, Members
  <2> QED BY <2>3, <2>4, <2>5 DEF Inv, BarrierInv
<1> QED BY <1>2, <1>3

-----------------------------------------------------------------------------
\* Inv is an invariant, for any number of senders and receivers of which some PPU is
\* both: the members of each barrier are in the same phase of the same round.
THEOREM Invariance == Spec => []Inv
<1>1. Inv /\ [Next]_vars => Inv'
  <2> SUFFICES ASSUME Inv, [Next]_vars PROVE Inv'
    OBVIOUS
  <2>1. CASE UNCHANGED vars
    <3>1. UNCHANGED <<stage, pc, commCounter, rearmed, order, count, gate, activeSignals, signals,
                      iterationNo>>
      BY <2>1 DEF vars, loopVars, barrierVars, dataVars
    <3>2. TypeOK'
      BY <3>1 DEF Inv, TypeOK
    <3>3. \A o \in Sides : BarrierInv(o)'
      BY <3>1, Frame DEF Inv
    <3> QED BY <3>1, <3>2, <3>3, InRoundKept DEF Inv
  <2>2. ASSUME NEW t \in Threads, NEW s \in Sides, Wait(t, s)
        PROVE  Inv'
    BY <2>2, EnterInv, UnlockInv, WaitAtGateInv, DecideInv, BeforeTransferInv,
       TransferFunctionInv, FinishInv, ReleaseInv, ReturnInv DEF Wait
  <2> QED BY <2>1, <2>2, StageInv, RearmInv DEF Next, Step
<1> QED BY <1>1, InitInv, PTL DEF Spec

\* The threads that pthread_barrier_wait lets pass are in the same phase, each of them
\* having decided for itself whether there is a transfer.
THEOREM PhasesAgree == Spec => SamePhase
<1> DEFINE Passes == \A s \in Sides : gate[s] # {} /\ gate'[s] = {} =>
                       \A t, u \in Members(s) : stage[t] = s /\ pc[t] = pc[u]
<1>1. Inv /\ [Next]_vars => [Passes]_vars
  <2> SUFFICES ASSUME Inv, Next, NEW s \in Sides, gate[s] # {}, gate'[s] = {}
               PROVE  \A t, u \in Members(s) : stage[t] = s /\ pc[t] = pc[u]
    OBVIOUS
  <2>1. PICK t \in Threads : Step(t)
    BY DEF Next
  <2>2. PICK o \in Sides : WaitAtGate(t, o)
    <3>1. ~Rearm(t) /\ ~Update(t) /\ ~Use(t)
      BY DEF Rearm, Update, Use, barrierVars
    <3>2. ASSUME NEW o \in Sides, Wait(t, o), ~WaitAtGate(t, o)
          PROVE  FALSE
      BY <3>2 DEF Wait, Enter, Unlock, Tally, Decide, BeforeTransfer, TransferFunction,
         AfterTransfer, Reset, Release, Return, barrierVars
    <3> QED BY <2>1, <3>1, <3>2 DEF Step
  <2>3. /\ o = s /\ stage[t] = s /\ pc[t] \in Gated
        /\ Cardinality(gate[s] \cup {t}) = Size(s)
    <3>1. gate \in [Sides -> SUBSET Threads]
      BY DEF Inv, TypeOK
    <3>2. gate'[o] = {}
      <4>1. CASE gate' = [gate EXCEPT ![o] = gate[o] \cup {t}]
        BY <3>1, <4>1
      <4>2. CASE gate' = [gate EXCEPT ![o] = {}]
        BY <3>1, <4>2
      <4> QED BY <2>2, <4>1, <4>2 DEF WaitAtGate
    <3>3. gate' # [gate EXCEPT ![o] = gate[o] \cup {t}]
      BY <3>1, <3>2
    <3>4. gate' = [gate EXCEPT ![o] = {}] /\ Cardinality(gate[o] \cup {t}) = Size(o)
      BY <2>2, <3>3 DEF WaitAtGate
    <3>5. o = s
      BY <3>1, <3>4
    <3> QED BY <2>2, <3>4, <3>5 DEF WaitAtGate
  <2>4. \A u \in Members(s) : stage[u] = s /\ pc[u] = pc[t]
    BY <2>3, GateOpens
  <2> QED BY <2>4
<1> QED BY <1>1, Invariance, PTL DEF Spec, SamePhase

\* No PPU runs the updating stage while another one runs the stage that uses the data.
THEOREM ReadsBeforeWrites == Spec => []WriteAfterRead
<1>1. Inv => WriteAfterRead
  <2> SUFFICES ASSUME Inv, NEW w \in Threads, NEW r \in Threads,
                      stage[w] = "update", stage[r] = "use"
               PROVE  FALSE
    BY DEF WriteAfterRead
  <2>1. w \in Members("send") /\ r \in Members("receive")
    BY DEF Inv, TypeOK, Members
  <2>2. PICK c : c \in Members("send") /\ c \in Members("receive")
    BY ParallelCommBarrierAssumption DEF Members
  <2>3. Leaving("receive")
    BY <2>1 DEF Inv, BarrierInv, Gathering, Deciding, Transferring, Finishing, AllAt, Before, Sides
  <2>4. stage[c] \in {"receive", "use", "rearm"}
    BY <2>2, <2>3 DEF Leaving, Past
  <2>5. Leaving("send")
    BY <2>2, <2>4 DEF Inv, BarrierInv, Gathering, Deciding, Transferring, Finishing, AllAt, Before,
       Sides
  <2> QED BY <2>1, <2>5 DEF Leaving, Past
<1> QED BY <1>1, Invariance, PTL

-----------------------------------------------------------------------------
(* The rendezvous *)

LEMMA CallsKept ==
  ASSUME UNCHANGED commCounter,
         \A u \in Receivers : (stage'[u] = "receive" /\ pc'[u] # "call")
                                <=> (stage[u] = "receive" /\ pc[u] # "call")
  PROVE  UNCHANGED Abstract!rvars
<1>1. \A u \in Receivers : ReceiveCalls(u)' = ReceiveCalls(u)
  BY DEF ReceiveCalls
<1> QED BY <1>1 DEF Abstract!rvars

LEMMA InnerStutters ==
  ASSUME Inv, NEW t \in Threads, NEW s \in Sides, stage[t] = s, pc[t] # "call",
         UNCHANGED <<stage, commCounter>>, NEW label \in Labels \ {"call"}, Goto(t, label)
  PROVE  UNCHANGED Abstract!rvars
<1>1. \A u \in Receivers : (stage'[u] = "receive" /\ pc'[u] # "call")
                             <=> (stage[u] = "receive" /\ pc[u] # "call")
  BY DEF Inv, TypeOK, Goto, Threads
<1> QED BY <1>1, CallsKept

\* The receive barrier implements the rendezvous of the receiving PPUs: a call returns to
\* none of them before all have made it.
THEOREM Refinement == Spec => ReceivesTogether
<1>1. Init => Abstract!Init
  BY DEF Init, Abstract!Init, ReceiveCalls, Threads
<1>2. Inv /\ [Next]_vars => [Abstract!Next]_(Abstract!rvars)
  <2> SUFFICES ASSUME Inv, [Next]_vars PROVE [Abstract!Next]_(Abstract!rvars)
    OBVIOUS
  <2>1. CASE UNCHANGED vars
    BY <2>1, CallsKept DEF vars, loopVars
  <2>2. ASSUME NEW t \in Threads, Rearm(t) \/ Update(t) \/ Use(t)
        PROVE  UNCHANGED Abstract!rvars
    <3>1. UNCHANGED <<pc, commCounter>>
      BY <2>2 DEF Rearm, Update, Use
    <3>2. \A u \in Threads : stage'[u] # stage[u] => pc[u] = "call"
      <4>1. CASE Rearm(t)
        BY <4>1 DEF Rearm, Inv, TypeOK, Sides
      <4>2. CASE Update(t) \/ Use(t)
        BY <4>2 DEF Update, Use, Advance, Inv, TypeOK, Sides
      <4> QED BY <2>2, <4>1, <4>2
    <3> QED BY <3>1, <3>2, CallsKept DEF Threads
  <2>3. ASSUME NEW t \in Threads, NEW s \in Sides, Enter(t, s)
        PROVE  [Abstract!Next]_(Abstract!rvars)
    <3>1. PICK label \in Labels \ {"call"} :
            /\ stage[t] = s /\ pc[t] = "call" /\ Goto(t, label) /\ UNCHANGED <<stage, commCounter>>
      BY <2>3 DEF Enter, loopVars, Labels
    <3>2. pc \in [Threads -> Labels] /\ commCounter \in [Threads -> Nat] /\ Receivers \subseteq Threads
      BY DEF Inv, TypeOK, Threads
    <3>3. CASE s = "send"
      <4>1. \A u \in Receivers : (stage'[u] = "receive" /\ pc'[u] # "call")
                                   <=> (stage[u] = "receive" /\ pc[u] # "call")
        BY <3>1, <3>2, <3>3 DEF Goto
      <4> QED BY <3>1, <4>1, CallsKept
    <3>4. CASE s = "receive"
      <4>1. t \in Receivers
        BY <3>1, <3>4 DEF Inv, TypeOK
      <4>2. ReceiveCalls(t) = commCounter[t] /\ ReceiveCalls(t)' = commCounter[t] + 1
        BY <3>1, <3>2, <3>4 DEF ReceiveCalls, Goto
      <4>3. \A u \in Receivers \ {t} : ReceiveCalls(u)' = ReceiveCalls(u)
        BY <3>1, <3>2 DEF ReceiveCalls, Goto
      <4>4. Abstract!Arrive(t)
        BY <3>1, <4>1, <4>2, <4>3 DEF Abstract!Arrive
      <4> QED BY <4>1, <4>4 DEF Abstract!Next
    <3> QED BY <3>3, <3>4 DEF Sides
  <2>4. ASSUME NEW t \in Threads, NEW s \in Sides, WaitAtGate(t, s)
        PROVE  UNCHANGED Abstract!rvars
    <3>1. /\ stage[t] = s /\ pc[t] \in Gated /\ UNCHANGED <<stage, commCounter>>
      BY <2>4 DEF WaitAtGate, loopVars
    <3>2. CASE pc' = pc
      BY <3>1, <3>2, CallsKept
    <3>3. CASE /\ Cardinality(gate[s] \cup {t}) = Size(s)
               /\ pc' = [u \in Threads |-> IF u \in gate[s] \cup {t} THEN PastGate(u) ELSE pc[u]]
      <4>1. /\ gate[s] \cup {t} = Members(s)
            /\ \A u \in Members(s) : stage[u] = s /\ pc[u] = pc[t]
        BY <3>1, <3>3, GateOpens
      <4>2. \A u \in Threads : pc'[u] = "call" <=> pc[u] = "call"
        BY <3>1, <3>3, <4>1 DEF PastGate, Gated
      <4> QED BY <3>1, <4>2, CallsKept DEF Threads
    <3> QED BY <2>4, <3>2, <3>3 DEF WaitAtGate
  <2>5. ASSUME NEW t \in Threads, NEW s \in Sides,
               \/ Unlock(t, s) \/ Tally(t, s) \/ Decide(t, s) \/ BeforeTransfer(t, s)
               \/ TransferFunction(t, s) \/ AfterTransfer(t, s) \/ Reset(t, s) \/ Release(t, s)
        PROVE  UNCHANGED Abstract!rvars
    <3>1. PICK label \in Labels \ {"call"} :
            /\ stage[t] = s /\ pc[t] # "call" /\ Goto(t, label) /\ UNCHANGED <<stage, commCounter>>
      <4>1. CASE Unlock(t, s) \/ Tally(t, s) \/ Decide(t, s) \/ BeforeTransfer(t, s)
        BY <4>1 DEF Unlock, Tally, Decide, BeforeTransfer, loopVars, Labels
      <4>2. CASE TransferFunction(t, s) \/ AfterTransfer(t, s) \/ Reset(t, s) \/ Release(t, s)
        BY <4>2 DEF TransferFunction, AfterTransfer, Reset, Release, loopVars, Labels
      <4> QED BY <2>5, <4>1, <4>2
    <3> QED BY <3>1, InnerStutters
  <2>6. ASSUME NEW t \in Threads, NEW s \in Sides, Return(t, s)
        PROVE  [Abstract!Next]_(Abstract!rvars)
    <3>1. /\ stage[t] = s /\ pc[t] = "return" /\ Goto(t, "call")
          /\ stage' = [stage EXCEPT ![t] = StageAfter(t, stage[t])]
          /\ commCounter' = [commCounter EXCEPT
               ![t] = commCounter[t] + (IF s = "receive" \/ t \notin Receivers THEN 1 ELSE 0)]
      BY <2>6 DEF Return, Advance
    <3>2. /\ pc \in [Threads -> Labels] /\ stage \in [Threads -> Stages]
          /\ commCounter \in [Threads -> Nat] /\ Receivers \subseteq Threads
      BY DEF Inv, TypeOK, Threads
    <3>3. \A u \in Threads \ {t} :
            stage'[u] = stage[u] /\ pc'[u] = pc[u] /\ commCounter'[u] = commCounter[u]
      BY <3>1, <3>2 DEF Goto
    <3>4. pc'[t] = "call"
      BY <3>1, <3>2 DEF Goto
    <3>5. CASE s = "send"
      <4>1. \A u \in Receivers : commCounter'[u] = commCounter[u]
        BY <3>1, <3>2, <3>5
      <4>2. \A u \in Receivers : ReceiveCalls(u)' = ReceiveCalls(u)
        BY <3>1, <3>2, <3>3, <3>4, <3>5, <4>1 DEF ReceiveCalls
      <4> QED BY <4>1, <4>2 DEF Abstract!rvars
    <3>6. CASE s = "receive"
      <4>1. t \in Receivers /\ t \in Members(s)
        BY <3>1, <3>6 DEF Inv, TypeOK, Members
      <4>2. commCounter'[t] = commCounter[t] + 1
        BY <3>1, <3>2, <3>6
      <4>3. ReceiveCalls(t) = commCounter[t] + 1 /\ ReceiveCalls(t)' = commCounter[t] + 1
        <5>1. pc[t] # "call" /\ stage[t] = "receive" /\ pc'[t] = "call"
          BY <3>1, <3>4, <3>6
        <5> QED BY <3>2, <4>2, <5>1 DEF ReceiveCalls
      <4>4. \A u \in Receivers : ReceiveCalls(u)' = ReceiveCalls(u)
        BY <3>2, <3>3, <4>3 DEF ReceiveCalls
      <4>5. Leaving(s)
        BY <3>1, <4>1 DEF Inv, BarrierInv, Gathering, Deciding, Transferring, Finishing, AllAt,
           Before, Sides
      <4>6. \A u \in Receivers : ReceiveCalls(t) <= ReceiveCalls(u)
        <5> SUFFICES ASSUME NEW u \in Receivers PROVE ReceiveCalls(t) <= ReceiveCalls(u)
          OBVIOUS
        <5>1. PICK m \in Nat : Round(m)
          BY DEF Inv, InRound
        <5>2. commCounter[t] + 1 = m
          BY <3>1, <5>1 DEF Round, Sides
        <5>3. \/ stage[u] \in {"use", "rearm"} /\ commCounter[u] = m
              \/ stage[u] = "receive" /\ pc[u] # "call" /\ commCounter[u] + 1 = m
          BY <3>2, <3>6, <4>5, <5>1 DEF Leaving, Past, Members, Round
        <5>4. ReceiveCalls(u) = m
          BY <3>2, <5>3 DEF ReceiveCalls
        <5> QED BY <3>2, <4>3, <5>2, <5>4
      <4>7. [u \in Receivers |-> commCounter[u]]'
              = [[u \in Receivers |-> commCounter[u]] EXCEPT ![t] = @ + 1]
        BY <3>2, <3>3, <4>1, <4>2
      <4>8. Abstract!Depart(t)
        BY <3>2, <4>1, <4>3, <4>4, <4>6, <4>7 DEF Abstract!Depart
      <4> QED BY <4>1, <4>8 DEF Abstract!Next
    <3> QED BY <3>5, <3>6 DEF Sides
  <2>7. ASSUME NEW t \in Threads, NEW s \in Sides, Wait(t, s)
        PROVE  [Abstract!Next]_(Abstract!rvars)
    BY <2>3, <2>4, <2>5, <2>6, <2>7 DEF Wait
  <2> QED BY <2>1, <2>2, <2>7 DEF Next, Step
<1> QED BY <1>1, <1>2, Invariance, PTL DEF Spec, ReceivesTogether, Abstract!Spec

-----------------------------------------------------------------------------
(* The transfer.                                                             *)

\* In a round, the members get the numbers below _size, downwards.
NumberedFrom(s, low) ==
  /\ \A t, u \in InsideSet(s) : order[t] = order[u] => t = u
  /\ \A t \in InsideSet(s) : low <= order[t]
  /\ \A k \in low..(Size(s) - 1) : \E t \in InsideSet(s) : order[t] = k
Low(s) == IF InsideSet(s) = Members(s) THEN 0 ELSE count[s]
Numbered(s) == (\A t \in Members(s) : ~Past(t, s)) => NumberedFrom(s, Low(s))

OrderInv == /\ \A s \in Sides : Numbered(s)
            /\ \A t \in Threads : /\ pc[t] = "transfer" => Last(t)
                                  /\ pc[t] = "unlock" => ~Last(t)

\* A buffer is filled when the PPU that has it in its share is ready, and until the
\* last one has sent it.
Fills(t, b) == stage[t] = "send" /\ (pc[t] = "transfer" \/ (pc[t] = "ready" /\ b \in Share(t, "send")))
PreparedInv ==
  prepared = [b \in Buffers |->
               IF kind # "Scalar" /\ \E t \in Senders : Fills(t, b) THEN 1 ELSE 0]

\* What has come in is written back by somebody who is about to do so.
WillWrite(t, s, b) == /\ stage[t] = s /\ pc[t] \in {"transferred", "after"}
                      /\ b \in ToWriteBack(t, s)
UnreadInv ==
  \A b \in Buffers : unread[b] => \E s \in Sides : \E t \in Members(s) : WillWrite(t, s, b)

\* The data of round k has gone out or come in.
Resolved(k) == k \in received \/ (AdvancesOnSend /\ k \in sent)

\* A sender before the transfer; a receiver that is past it, or has decided against it.
Unsent(t)   == \/ Before(t, "send")
               \/ stage[t] = "send" /\ pc[t] \in {"unlock", "tally", "tallied", "decide", "before",
                                                   "ready", "transfer"}
HasData(t)  == \/ Past(t, "receive")
               \/ stage[t] = "receive" /\ pc[t] \in {"after", "reset", "finished", "release", "return"}

\* Rounds are resolved one after the other, and iterationNo counts them.
Resolving(m) ==
  /\ sent \subseteq 0..(m - 1) /\ received \subseteq 0..(m - 1)
  /\ \A k \in 0..(m - 2) : Resolved(k)
  /\ AdvancesOnSend => sent \cap received = {}
  /\ iterationNo = IF m = 0 \/ Resolved(m - 1) THEN m ELSE m - 1
  /\ (\E t \in Senders : Unsent(t)) => m - 1 \notin sent /\ m - 1 \notin received
  /\ (\E t \in Receivers : stage[t] = "receive" /\ pc[t] = "transfer") => ~Resolved(m - 1)
  /\ \/ \E t \in Receivers : HasData(t)
     \/ AllAt("receive", {"transferred"})
     => m = 0 \/ Resolved(m - 1)

\* Every receiver requests the data, so that the barrier never finds no active signal.
SignalInv ==
  /\ signals \in [Sides -> Nat]
  /\ \A t \in Receivers : stage[t] = "receive" =>
       /\ pc[t] = "tally" => signals["receive"] >= 1
       /\ pc[t] = "tallied" /\ Last(t) => activeSignals["receive"] >= 1
  /\ AllAt("receive", {"decide"}) => activeSignals["receive"] >= 1

ResolveInv == \E m \in Nat : Round(m) /\ Resolving(m)

-----------------------------------------------------------------------------
(* The numbers of the PPUs inside a barrier *)

(* wait() between the number a PPU takes and its return. *)
InnerWait(t, s) == \/ Unlock(t, s) \/ Tally(t, s) \/ WaitAtGate(t, s)
                   \/ Decide(t, s) \/ BeforeTransfer(t, s) \/ TransferFunction(t, s)
                   \/ AfterTransfer(t, s) \/ Reset(t, s) \/ Release(t, s)

LEMMA InnerWaitMoves ==
  ASSUME Inv, NEW t \in Threads, NEW s \in Sides, InnerWait(t, s)
  PROVE  /\ stage[t] = s /\ pc[t] # "call" /\ t \in Members(s)
         /\ UNCHANGED <<kind, stage, commCounter, order>>
         /\ \A u \in Threads : pc'[u] = "call" <=> pc[u] = "call"
         /\ \A u \in Threads : u = t \/ stage[u] = s \/ pc'[u] = pc[u]
<1>1. pc \in [Threads -> Labels]
  BY DEF Inv, TypeOK
<1>2. CASE WaitAtGate(t, s)
  <2>1. stage[t] = s /\ pc[t] \in Gated /\ UNCHANGED <<kind, stage, commCounter, order>>
    BY <1>2 DEF WaitAtGate, loopVars
  <2>2. CASE pc' = pc
    BY <2>1, <2>2, MemberOf DEF Gated, Inv
  <2>3. CASE /\ Cardinality(gate[s] \cup {t}) = Size(s)
             /\ pc' = [u \in Threads |-> IF u \in gate[s] \cup {t} THEN PastGate(u) ELSE pc[u]]
    <3>1. /\ gate[s] \cup {t} = Members(s)
          /\ \A u \in Members(s) : stage[u] = s /\ pc[u] = pc[t]
      BY <2>1, <2>3, GateOpens
    <3>2. \A u \in Members(s) : PastGate(u) # "call"
      BY <2>1, <3>1 DEF PastGate, Gated
    <3> QED BY <2>1, <2>3, <3>1, <3>2 DEF Gated
  <2> QED BY <1>2, <2>2, <2>3 DEF WaitAtGate
<1>3. CASE ~WaitAtGate(t, s)
  <2>1. PICK label \in Labels \ {"call"} :
          /\ stage[t] = s /\ pc[t] # "call" /\ Goto(t, label)
          /\ UNCHANGED <<kind, stage, commCounter, order>>
    <3>1. CASE Unlock(t, s) \/ Tally(t, s) \/ Decide(t, s) \/ BeforeTransfer(t, s)
      BY <3>1 DEF Unlock, Tally, Decide, BeforeTransfer, loopVars, Labels
    <3>2. CASE TransferFunction(t, s) \/ AfterTransfer(t, s) \/ Reset(t, s) \/ Release(t, s)
      BY <3>2 DEF TransferFunction, AfterTransfer, Reset, Release, loopVars, Labels
    <3> QED BY <1>3, <3>1, <3>2 DEF InnerWait
  <2> QED BY <1>1, <2>1, MemberOf DEF Goto, Inv
<1> QED BY <1>2, <1>3

(* The numbers stay while the same members are inside. *)
LEMMA NumberedKept ==
  ASSUME NEW s \in Sides, Numbered(s), InsideSet(s)' = InsideSet(s),
         \A u \in InsideSet(s) : order'[u] = order[u],
         \A u \in Members(s) : Past(u, s) => Past(u, s)',
         InsideSet(s) = Members(s) \/ count'[s] = count[s]
  PROVE  Numbered(s)'
<1>1. Members(s)' = Members(s) /\ Size(s)' = Size(s) /\ Low(s)' = Low(s)
  BY DEF Members, Size, Low
<1>2. NumberedFrom(s, Low(s)) => NumberedFrom(s, Low(s))'
  BY <1>1 DEF NumberedFrom
<1> QED BY <1>1, <1>2 DEF Numbered

LEMMA EnterOrder ==
  ASSUME Inv, NEW t \in Threads, NEW s \in Sides, Enter(t, s), Numbered(s)
  PROVE  Numbered(s)'
<1>1. /\ stage[t] = s /\ pc[t] = "call" /\ t \in Members(s) /\ Members(s) \subseteq Threads
      /\ UNCHANGED stage
      /\ \A u \in Threads \ {t} : pc'[u] = pc[u] /\ order'[u] = order[u]
      /\ pc'[t] # "call" /\ order'[t] = count[s] - 1 /\ count'[s] = count[s] - 1
  BY MemberOf, MembersType DEF Enter, Goto, loopVars, Inv, TypeOK
<1>2. Gathering(s)
  BY <1>1 DEF Inv, BarrierInv, Deciding, Transferring, Finishing, Leaving, AllAt, Past, Sides
<1>3. InsideSet(s)' = InsideSet(s) \cup {t} /\ t \notin InsideSet(s)
  BY <1>1 DEF InsideSet, Inside, Members
<1>4. InsideSet(s) # Members(s) /\ Low(s) = count[s]
  BY <1>1, <1>3 DEF Low
<1>5. NumberedFrom(s, count[s])
  BY <1>2, <1>4 DEF Numbered, Gathering, Before, Past, Sides
<1>6. Low(s)' = count[s] - 1
  <2>1. CASE InsideSet(s)' = Members(s)
    <3>1. Cardinality(Members(s)) = Cardinality(InsideSet(s)) + 1
      <4>1. IsFiniteSet(InsideSet(s))
        BY SubsetType DEF InsideSet
      <4> QED BY <1>3, <2>1, <4>1, FS_AddElement
    <3>2. Cardinality(InsideSet(s)) \in Nat /\ count[s] = Size(s) - Cardinality(InsideSet(s))
      BY <1>2, SubsetType DEF Gathering, InsideSet
    <3>3. count[s] = 1
      BY <3>1, <3>2 DEF Size
    <3> QED BY <2>1, <3>3 DEF Low, Members
  <2>2. CASE InsideSet(s)' # Members(s)
    BY <1>1, <2>2 DEF Low, Members
  <2> QED BY <2>1, <2>2
<1>7. count[s] \in Int /\ Size(s) \in Nat /\ \A u \in InsideSet(s) : order[u] \in Int
  BY MembersType DEF Inv, TypeOK, InsideSet, Members, Threads
<1>8. \A u \in InsideSet(s) : order'[u] = order[u]
  BY <1>1, <1>3 DEF InsideSet
<1>9. \A u, v \in InsideSet(s)' : order'[u] = order'[v] => u = v
  BY <1>1, <1>3, <1>5, <1>7, <1>8 DEF NumberedFrom
<1>10. \A u \in InsideSet(s)' : count[s] - 1 <= order'[u]
  BY <1>1, <1>3, <1>5, <1>7, <1>8 DEF NumberedFrom
<1>11. ASSUME NEW k \in (count[s] - 1)..(Size(s) - 1)
       PROVE  \E u \in InsideSet(s)' : order'[u] = k
  <2>1. CASE k = count[s] - 1
    BY <1>1, <1>3, <2>1
  <2>2. CASE k # count[s] - 1
    <3>1. k \in count[s]..(Size(s) - 1)
      BY <1>7, <2>2
    <3> QED BY <1>3, <1>5, <1>8, <3>1 DEF NumberedFrom
  <2> QED BY <2>1, <2>2
<1>12. Size(s)' = Size(s)
  BY DEF Size, Members
<1> QED BY <1>6, <1>9, <1>10, <1>11, <1>12 DEF Numbered, NumberedFrom

\* Where a thread past the gate may go: to the transfer only as the last one.
LEMMA InnerWaitLabels ==
  ASSUME Inv, NEW t \in Threads, NEW s \in Sides, InnerWait(t, s), NEW u \in Threads
  PROVE  /\ pc'[u] = "transfer" => Last(u) \/ pc[u] = "transfer"
         /\ pc'[u] = "unlock" => pc[u] = "unlock"
<1>1. pc \in [Threads -> Labels]
  BY DEF Inv, TypeOK
<1>2. CASE WaitAtGate(t, s)
  <2>1. CASE pc' = pc
    BY <2>1
  <2>2. CASE pc' = [v \in Threads |-> IF v \in gate[s] \cup {t} THEN PastGate(v) ELSE pc[v]]
    <3>1. \/ pc'[u] = pc[u]
          \/ pc[u] \in Gated /\ pc'[u] = PastGate(u)
      <4>1. CASE Cardinality(gate[s] \cup {t}) = Size(s)
        BY <1>2, <2>2, <4>1, GateOpens DEF WaitAtGate
      <4>2. CASE Cardinality(gate[s] \cup {t}) # Size(s)
        BY <1>2, <4>2 DEF WaitAtGate
      <4> QED BY <4>1, <4>2
    <3> QED BY <3>1 DEF PastGate, Gated
  <2> QED BY <1>2, <2>1, <2>2 DEF WaitAtGate
<1>3. CASE Unlock(t, s) \/ Tally(t, s) \/ Decide(t, s) \/ BeforeTransfer(t, s)
  BY <1>1, <1>3 DEF Unlock, Tally, Decide, BeforeTransfer, Goto
<1>4. CASE TransferFunction(t, s) \/ AfterTransfer(t, s) \/ Reset(t, s) \/ Release(t, s)
  BY <1>1, <1>4 DEF TransferFunction, AfterTransfer, Reset, Release, Goto
<1> QED BY <1>2, <1>3, <1>4 DEF InnerWait

LEMMA InnerWaitCounts ==
  ASSUME Inv, NEW t \in Threads, NEW s \in Sides, InnerWait(t, s), NEW o \in Sides
  PROVE  InsideSet(o) = Members(o) \/ count'[o] = count[o]
<1>1. CASE ~Reset(t, s)
  BY <1>1 DEF InnerWait, Unlock, Tally, WaitAtGate, Decide, BeforeTransfer, TransferFunction,
     AfterTransfer, Release, barrierVars
<1>2. CASE Reset(t, s)
  <2>1. count' = [count EXCEPT ![s] = Size(s)] /\ stage[t] = s /\ pc[t] = "reset" /\ t \in Members(s)
    BY <1>2, MemberOf DEF Reset, Inv
  <2>2. CASE o = s
    <3>1. Finishing(s)
      BY <2>1 DEF Inv, BarrierInv, Gathering, Deciding, Transferring, Leaving, AllAt, Before, Past,
         Sides
    <3>2. \A u \in Members(s) : stage[u] = s /\ pc[u] # "call"
      BY <3>1 DEF Finishing, AllAt
    <3> QED BY <2>2, <3>2 DEF InsideSet, Inside
  <2>3. CASE o # s
    BY <2>1, <2>3 DEF Inv, TypeOK
  <2> QED BY <2>2, <2>3
<1> QED BY <1>1, <1>2

LEMMA OrderInit == Init => OrderInv
<1> SUFFICES ASSUME Init PROVE OrderInv
  OBVIOUS
<1>1. \A t \in Threads : stage[t] = "rearm" /\ pc[t] = "call"
  BY DEF Init
<1>2. ASSUME NEW s \in Sides PROVE Numbered(s)
  BY <1>1, MembersType DEF Numbered, Past
<1> QED BY <1>1, <1>2 DEF OrderInv

LEMMA OrderStep == Inv /\ OrderInv /\ [Next]_vars => OrderInv'
<1> SUFFICES ASSUME Inv, OrderInv, [Next]_vars PROVE OrderInv'
  OBVIOUS
<1> USE DEF OrderInv
<1>1. CASE UNCHANGED vars
  <2>1. UNCHANGED <<stage, pc, order, count>>
    BY <1>1 DEF vars, loopVars, barrierVars
  <2>2. ASSUME NEW s \in Sides PROVE Numbered(s)'
    <3>1. InsideSet(s)' = InsideSet(s) /\ \A u \in Members(s) : Past(u, s) => Past(u, s)'
      BY <2>1 DEF InsideSet, Inside, Members, Past
    <3> QED BY <2>1, <3>1, NumberedKept
  <2> QED BY <2>1, <2>2 DEF Last
<1>2. ASSUME NEW t \in Threads, Update(t) \/ Use(t)
      PROVE  OrderInv'
  <2>1. /\ stage[t] \in {"update", "use"} /\ pc[t] = "call"
        /\ UNCHANGED <<pc, order, count>> /\ stage' = [stage EXCEPT ![t] = StageAfter(t, stage[t])]
    BY <1>2 DEF Update, Use, Advance, barrierVars, Inv, TypeOK, Sides
  <2>2. ASSUME NEW s \in Sides PROVE Numbered(s)'
    <3>1. InsideSet(s)' = InsideSet(s)
      BY <2>1 DEF InsideSet, Inside, Members, Threads, Inv, TypeOK
    <3>2. \A u \in Members(s) : Past(u, s) => Past(u, s)'
      BY <2>1 DEF Past, StageAfter, Members, Threads, Inv, TypeOK, Sides
    <3> QED BY <2>1, <3>1, <3>2, NumberedKept
  <2> QED BY <2>1, <2>2 DEF Last
<1>3. ASSUME NEW t \in Threads, Rearm(t)
      PROVE  OrderInv'
  <2>1. stage[t] = "rearm" /\ UNCHANGED <<pc, order, count>>
    BY <1>3 DEF Rearm, barrierVars
  <2>2. ASSUME NEW s \in Sides PROVE Numbered(s)'
    <3>1. CASE UNCHANGED stage
      <4>1. InsideSet(s)' = InsideSet(s) /\ \A u \in Members(s) : Past(u, s) => Past(u, s)'
        BY <2>1, <3>1 DEF InsideSet, Inside, Members, Past
      <4> QED BY <2>1, <4>1, NumberedKept
    <3>2. CASE rearmed \cup {t} = Threads
      <4>1. \A u \in Threads : stage[u] = "rearm" /\ pc[u] = "call"
        BY <2>1, <3>2 DEF Inv, TypeOK, Sides
      <4>2. Leaving(s)
        BY <4>1, MembersType DEF Inv, BarrierInv, Gathering, Deciding, Transferring, Finishing,
           AllAt, Before, Sides
      <4>3. InsideSet(s)' = {} /\ Members(s)' # {} /\ Size(s)' = Size(s)
        BY <2>1, <4>1, MembersType DEF InsideSet, Inside, Members, Size
      <4>4. Low(s)' = Size(s)
        BY <2>1, <4>2, <4>3 DEF Low, Leaving
      <4> QED BY <4>3, <4>4, MembersType DEF Numbered, NumberedFrom
    <3> QED BY <1>3, <3>1, <3>2 DEF Rearm
  <2> QED BY <2>1, <2>2 DEF Last
<1>4. ASSUME NEW t \in Threads, NEW s \in Sides, Enter(t, s)
      PROVE  OrderInv'
  <2>1. /\ stage[t] = s /\ pc[t] = "call" /\ t \in Members(s) /\ UNCHANGED stage
        /\ \A u \in Threads \ {t} : pc'[u] = pc[u] /\ order'[u] = order[u]
        /\ pc'[t] = (IF count[s] = 1 THEN "tally" ELSE "unlock") /\ order'[t] = count[s] - 1
        /\ \A o \in Sides \ {s} : count'[o] = count[o]
        /\ count[s] \in Int
    BY <1>4, MemberOf DEF Enter, Goto, loopVars, Inv, TypeOK
  <2>2. ASSUME NEW o \in Sides PROVE Numbered(o)'
    <3>1. CASE o = s
      BY <1>4, <3>1, EnterOrder
    <3>2. CASE o # s
      <4>1. \A u \in Members(o) : stage[u] = o => u # t /\ u \in Threads
        BY <2>1, <3>2, MembersType
      <4>2. InsideSet(o)' = InsideSet(o) /\ \A u \in Members(o) : Past(u, o) => Past(u, o)'
        BY <2>1, <4>1 DEF InsideSet, Inside, Members, Past
      <4>3. \A u \in InsideSet(o) : order'[u] = order[u]
        BY <2>1, <4>1 DEF InsideSet, Inside
      <4> QED BY <2>1, <3>2, <4>2, <4>3, NumberedKept
    <3> QED BY <3>1, <3>2
  <2> QED BY <2>1, <2>2 DEF Last
<1>5. ASSUME NEW t \in Threads, NEW s \in Sides, InnerWait(t, s)
      PROVE  OrderInv'
  <2>1. /\ UNCHANGED <<stage, order>>
        /\ \A u \in Threads : pc'[u] = "call" <=> pc[u] = "call"
    BY <1>5, InnerWaitMoves
  <2>2. ASSUME NEW o \in Sides PROVE Numbered(o)'
    <3>1. InsideSet(o)' = InsideSet(o) /\ \A u \in Members(o) : Past(u, o) => Past(u, o)'
      BY <2>1 DEF InsideSet, Inside, Members, Threads, Past
    <3> QED BY <1>5, <2>1, <3>1, NumberedKept, InnerWaitCounts
  <2> QED BY <1>5, <2>1, <2>2, InnerWaitLabels DEF Last
<1>6. ASSUME NEW t \in Threads, NEW s \in Sides, Return(t, s)
      PROVE  OrderInv'
  <2>1. /\ stage[t] = s /\ pc[t] = "return" /\ t \in Members(s) /\ UNCHANGED <<order, count>>
        /\ pc'[t] = "call" /\ stage'[t] = StageAfter(t, s)
        /\ \A u \in Threads \ {t} : pc'[u] = pc[u] /\ stage'[u] = stage[u]
    BY <1>6, MemberOf DEF Return, Goto, Advance, barrierVars, Inv, TypeOK
  <2>2. ASSUME NEW o \in Sides PROVE Numbered(o)'
    <3>1. CASE o = s
      <4>1. Past(t, s)'
        BY <2>1 DEF Past, StageAfter, Sides
      <4> QED BY <2>1, <3>1, <4>1 DEF Numbered, Members
    <3>2. CASE o # s
      <4>1. InsideSet(o)' = InsideSet(o)
        BY <2>1, <3>2 DEF InsideSet, Inside, Members, Threads
      <4>2. \A u \in Members(o) : Past(u, o) => Past(u, o)'
        BY <2>1, <3>2 DEF Past, StageAfter, Members, Threads, Sides
      <4> QED BY <2>1, <4>1, <4>2, NumberedKept
    <3> QED BY <3>1, <3>2
  <2> QED BY <2>1, <2>2 DEF Last
<1>7. ASSUME NEW t \in Threads, NEW s \in Sides, Wait(t, s)
      PROVE  OrderInv'
  BY <1>4, <1>5, <1>6, <1>7 DEF Wait, InnerWait
<1> QED BY <1>1, <1>2, <1>3, <1>7 DEF Next, Step

-----------------------------------------------------------------------------
(* The buffers to send *)

(* Once all are inside, each number below _size has one thread, and each buffer is in the
   share of one. *)
LEMMA AllNumbered ==
  ASSUME OrderInv, NEW s \in Sides, \A u \in Members(s) : stage[u] = s /\ pc[u] # "call"
  PROVE  /\ \A t, u \in Members(s) : order[t] = order[u] => t = u
         /\ \A k \in 0..(Size(s) - 1) : \E t \in Members(s) : order[t] = k
<1>1. InsideSet(s) = Members(s)
  BY DEF InsideSet, Inside
<1>2. \A u \in Members(s) : ~Past(u, s)
  BY DEF Past, Sides
<1>3. NumberedFrom(s, 0)
  BY <1>1, <1>2 DEF OrderInv, Numbered, Low
<1> QED BY <1>1, <1>3 DEF NumberedFrom

LEMMA SharesCover ==
  ASSUME OrderInv, NEW s \in Sides, \A u \in Members(s) : stage[u] = s /\ pc[u] # "call",
         NEW b \in Buffers
  PROVE  /\ \E t \in Members(s) : b \in Share(t, s)
         /\ \A t, u \in Members(s) : b \in Share(t, s) /\ b \in Share(u, s) => t = u
<1>1. b \in Nat /\ Size(s) \in Nat \ {0}
  BY MembersType, ParallelCommBarrierAssumption DEF Buffers
<1>2. b % Size(s) \in 0..(Size(s) - 1)
  BY <1>1, Division
<1> QED BY <1>2, AllNumbered DEF Share

LEMMA PreparedKept ==
  ASSUME PreparedInv, UNCHANGED <<kind, prepared>>,
         \A b \in Buffers : (\E t \in Senders : Fills(t, b))' <=> (\E t \in Senders : Fills(t, b))
  PROVE  PreparedInv'
  BY DEF PreparedInv

(* A thread that is not about to transfer in the send barrier fills nothing. *)
LEMMA FillsKept ==
  ASSUME PreparedInv, UNCHANGED <<kind, prepared>>,
         \A u \in Senders :
           \/ stage'[u] = stage[u] /\ pc'[u] = pc[u] /\ order'[u] = order[u]
           \/ /\ ~(stage[u] = "send" /\ pc[u] \in {"ready", "transfer"})
              /\ ~(stage'[u] = "send" /\ pc'[u] \in {"ready", "transfer"})
  PROVE  PreparedInv'
<1>1. ASSUME NEW u \in Senders, NEW b \in Buffers
      PROVE  Fills(u, b)' <=> Fills(u, b)
  <2>1. CASE stage'[u] = stage[u] /\ pc'[u] = pc[u] /\ order'[u] = order[u]
    BY <2>1 DEF Fills, Share, Size, Members
  <2>2. CASE /\ ~(stage[u] = "send" /\ pc[u] \in {"ready", "transfer"})
             /\ ~(stage'[u] = "send" /\ pc'[u] \in {"ready", "transfer"})
    BY <2>2 DEF Fills
  <2> QED BY <2>1, <2>2
<1> QED BY <1>1, PreparedKept

LEMMA GatePrepared ==
  ASSUME Inv, OrderInv, PreparedInv, NEW t \in Threads, NEW s \in Sides, WaitAtGate(t, s)
  PROVE  PreparedInv'
<1>1. /\ stage[t] = s /\ pc[t] \in Gated
      /\ UNCHANGED <<kind, stage, order, prepared>>
  BY DEF WaitAtGate, loopVars, dataVars
<1>2. CASE pc' = pc
  BY <1>1, <1>2, FillsKept
<1>3. CASE /\ Cardinality(gate[s] \cup {t}) = Size(s)
           /\ pc' = [u \in Threads |-> IF u \in gate[s] \cup {t} THEN PastGate(u) ELSE pc[u]]
  <2>1. /\ gate[s] \cup {t} = Members(s) /\ Members(s) \subseteq Threads /\ t \in Members(s)
        /\ \A u \in Members(s) : stage[u] = s /\ pc[u] = pc[t]
    BY <1>1, <1>3, GateOpens, MembersType, MemberOf DEF Inv
  <2>2. \A u \in Threads : pc'[u] = IF u \in Members(s) THEN PastGate(u) ELSE pc[u]
    BY <1>3, <2>1
  <2>3. CASE s = "send" /\ pc[t] = "ready"
    <3>1. \A u \in Senders : stage[u] = "send" /\ pc[u] = "ready"
      BY <2>1, <2>3 DEF Members
    <3>2. \A u \in Members(s) : stage[u] = s /\ pc[u] # "call"
      BY <2>1, <2>3
    <3>3. \A b \in Buffers : \E u \in Senders : Fills(u, b)
      BY <2>3, <3>1, <3>2, SharesCover DEF Fills, Members
    <3>4. Size(s) \in Nat \ {0}
      BY MembersType
    <3>5. PICK l \in Members(s) : order[l] = 0
      BY <3>2, <3>4, AllNumbered
    <3>6. pc'[l] = "transfer" /\ stage'[l] = "send" /\ l \in Senders
      BY <1>1, <2>1, <2>2, <2>3, <3>5 DEF PastGate, Last, Members
    <3>7. \A b \in Buffers : (\E u \in Senders : Fills(u, b))'
      BY <3>6 DEF Fills
    <3> QED BY <1>1, <3>3, <3>7, PreparedKept
  <2>4. CASE s = "receive"
    <3>1. \A u \in Senders : pc'[u] = pc[u] \/ stage[u] = "receive"
      BY <2>1, <2>2, <2>4 DEF Threads
    <3> QED BY <1>1, <3>1, FillsKept
  <2>5. CASE s = "send" /\ pc[t] # "ready"
    <3>1. \A u \in Senders : pc[u] \in Gated \ {"ready"} /\ pc'[u] = PastGate(u)
      BY <1>1, <2>1, <2>2, <2>5 DEF Members
    <3>2. \A u \in Senders : pc[u] \notin {"ready", "transfer"} /\ pc'[u] \notin {"ready", "transfer"}
      BY <3>1 DEF PastGate, Gated
    <3> QED BY <1>1, <3>2, FillsKept
  <2> QED BY <2>3, <2>4, <2>5 DEF Sides
<1> QED BY <1>2, <1>3 DEF WaitAtGate

LEMMA BeforeTransferPrepared ==
  ASSUME Inv, OrderInv, PreparedInv, NEW t \in Threads, NEW s \in Sides, BeforeTransfer(t, s)
  PROVE  PreparedInv'
<1>1. /\ stage[t] = s /\ pc[t] = "before" /\ t \in Members(s)
      /\ UNCHANGED <<kind, stage, order>> /\ Prepare(t, s)
      /\ pc'[t] = "ready" /\ \A u \in Threads \ {t} : pc'[u] = pc[u]
  BY MemberOf DEF BeforeTransfer, loopVars, Goto, Inv, TypeOK
<1>2. prepared \in [Buffers -> {0, 1}]
  BY DEF PreparedInv
<1>3. CASE s = "receive"
  <2>1. prepared' = prepared
    BY <1>1, <1>2, <1>3 DEF Prepare, ToPrepare
  <2>2. \A u \in Senders : pc'[u] = pc[u] \/ stage[u] = "receive"
    BY <1>1, <1>3 DEF Threads
  <2> QED BY <1>1, <2>1, <2>2, FillsKept
<1>4. CASE s = "send" /\ kind = "Scalar"
  <2>1. prepared' = prepared
    BY <1>1, <1>2, <1>4 DEF Prepare, ToPrepare
  <2> QED BY <1>1, <1>4, <2>1 DEF PreparedInv
<1>5. CASE s = "send" /\ kind # "Scalar"
  <2>1. AllAt(s, {"decide", "before", "ready"})
    BY <1>1 DEF Inv, BarrierInv, Gathering, Deciding, Transferring, Finishing, Leaving, AllAt,
       Before, Past, Sides
  <2>2. \A u \in Members(s) : stage[u] = s /\ pc[u] # "call" /\ pc[u] # "transfer"
    BY <2>1 DEF AllAt
  <2>3. ASSUME NEW b \in Buffers
        PROVE  prepared'[b] = IF \E u \in Senders : Fills(u, b)' THEN 1 ELSE 0
    <3>1. prepared'[b] = prepared[b] + (IF b \in Share(t, s) THEN 1 ELSE 0)
      BY <1>1, <1>5 DEF Prepare, ToPrepare
    <3>2. prepared[b] = IF \E u \in Senders : Fills(u, b) THEN 1 ELSE 0
      BY <1>5 DEF PreparedInv
    <3>3. \A u \in Senders : Share(u, s)' = Share(u, s)
      BY <1>1 DEF Share, Size, Members
    <3>4. \A u \in Senders \ {t} : Fills(u, b)' <=> Fills(u, b)
      BY <1>1, <1>5, <3>3 DEF Fills, Threads
    <3>5. ~Fills(t, b) /\ (Fills(t, b)' <=> b \in Share(t, s)) /\ t \in Senders
      BY <1>1, <1>5, <3>3 DEF Fills, Members
    <3>6. b \in Share(t, s) => \A u \in Senders \ {t} : ~Fills(u, b)
      BY <1>1, <1>5, <2>2, SharesCover DEF Fills, Members
    <3> QED BY <3>1, <3>2, <3>4, <3>5, <3>6
  <2>4. prepared' = [b \in Buffers |-> prepared'[b]]
    BY <1>1 DEF Prepare
  <2>5. prepared' = [b \in Buffers |-> IF \E u \in Senders : Fills(u, b)' THEN 1 ELSE 0]
    BY <2>3, <2>4
  <2> QED BY <1>1, <1>5, <2>5 DEF PreparedInv, Buffers
<1> QED BY <1>3, <1>4, <1>5 DEF Sides

LEMMA TransferPrepared ==
  ASSUME Inv, OrderInv, PreparedInv, NEW t \in Threads, NEW s \in Sides, TransferFunction(t, s)
  PROVE  PreparedInv'
<1>1. /\ stage[t] = s /\ pc[t] = "transfer" /\ t \in Members(s)
      /\ UNCHANGED <<kind, stage, order>>
      /\ pc'[t] = "transferred" /\ \A u \in Threads \ {t} : pc'[u] = pc[u]
  BY MemberOf DEF TransferFunction, loopVars, Goto, Inv, TypeOK
<1>2. CASE s = "receive"
  <2>1. prepared' = prepared
    BY <1>1, <1>2 DEF TransferFunction, ReceiveData
  <2>2. \A u \in Senders : pc'[u] = pc[u] \/ stage[u] = "receive"
    BY <1>1, <1>2 DEF Threads
  <2> QED BY <1>1, <2>1, <2>2, FillsKept
<1>3. CASE s = "send"
  <2>1. AllAt(s, {"transfer", "transferred"})
    BY <1>1 DEF Inv, BarrierInv, Gathering, Deciding, Transferring, Finishing, Leaving, AllAt,
       Before, Past, Sides
  <2>2. \A u \in Members(s) : stage[u] = s /\ pc[u] # "call"
    BY <2>1 DEF AllAt
  <2>3. \A u \in Senders : pc'[u] = "transferred"
    <3>1. \A u \in Senders : u \in Members(s) /\ u \in Threads
      BY <1>3 DEF Members, Threads
    <3>2. \A u \in Senders : pc[u] = "transfer" => u = t
      BY <1>1, <2>2, <3>1, AllNumbered DEF OrderInv, Last
    <3> QED BY <1>1, <2>1, <3>1, <3>2 DEF AllAt
  <2>4. \A b \in Buffers : ~\E u \in Senders : Fills(u, b)'
    BY <2>3 DEF Fills
  <2>5. prepared' = [b \in Buffers |-> 0]
    BY <1>3 DEF TransferFunction, SendData
  <2> QED BY <2>4, <2>5 DEF PreparedInv, Buffers
<1> QED BY <1>2, <1>3 DEF Sides

LEMMA OtherPrepared ==
  ASSUME Inv, PreparedInv, NEW t \in Threads, NEW s \in Sides,
         \/ Enter(t, s) \/ Unlock(t, s) \/ Tally(t, s) \/ Decide(t, s)
         \/ AfterTransfer(t, s) \/ Reset(t, s) \/ Release(t, s) \/ Return(t, s)
  PROVE  PreparedInv'
<1>1. /\ UNCHANGED <<kind, prepared>>
      /\ \A u \in Threads \ {t} : stage'[u] = stage[u] /\ pc'[u] = pc[u] /\ order'[u] = order[u]
      /\ pc[t] \notin {"ready", "transfer"} /\ pc'[t] \notin {"ready", "transfer"}
  <2>1. CASE Enter(t, s)
    BY <2>1 DEF Enter, Goto, loopVars, dataVars, Inv, TypeOK
  <2>2. CASE Unlock(t, s) \/ Tally(t, s) \/ Decide(t, s)
    BY <2>2 DEF Unlock, Tally, Decide, Goto, loopVars, dataVars, Inv, TypeOK
  <2>3. CASE AfterTransfer(t, s)
    BY <2>3 DEF AfterTransfer, Goto, loopVars, Inv, TypeOK
  <2>4. CASE Reset(t, s) \/ Release(t, s)
    BY <2>4 DEF Reset, Release, Goto, loopVars, dataVars, Inv, TypeOK
  <2>5. CASE Return(t, s)
    BY <2>5 DEF Return, Advance, Goto, dataVars, Inv, TypeOK
  <2> QED BY <2>1, <2>2, <2>3, <2>4, <2>5
<1>2. Senders \subseteq Threads
  BY DEF Threads
<1> QED BY <1>1, <1>2, FillsKept

(* Steps outside the barriers leave all PPUs that are inside where they are. *)
LEMMA OutsideMoves ==
  ASSUME Inv, NEW t \in Threads, Rearm(t) \/ Update(t) \/ Use(t)
  PROVE  /\ UNCHANGED <<kind, pc, commCounter, barrierVars, order, dataVars>>
         /\ \A u \in Threads : stage'[u] # stage[u] => pc[u] = "call"
<1>1. CASE Rearm(t)
  BY <1>1 DEF Rearm, Inv, TypeOK, Sides
<1>2. CASE Update(t) \/ Use(t)
  BY <1>2 DEF Update, Use, Advance, Inv, TypeOK, Sides
<1> QED BY <1>1, <1>2

LEMMA PreparedStep == Inv /\ OrderInv /\ PreparedInv /\ [Next]_vars => PreparedInv'
<1> SUFFICES ASSUME Inv, OrderInv, PreparedInv, [Next]_vars PROVE PreparedInv'
  OBVIOUS
<1>1. CASE UNCHANGED vars
  BY <1>1, FillsKept DEF vars, loopVars, dataVars
<1>2. ASSUME NEW t \in Threads, Rearm(t) \/ Update(t) \/ Use(t)
      PROVE  PreparedInv'
  <2>1. Senders \subseteq Threads
    BY DEF Threads
  <2> QED BY <1>2, <2>1, OutsideMoves, FillsKept DEF dataVars
<1>3. ASSUME NEW t \in Threads, NEW s \in Sides, Wait(t, s)
      PROVE  PreparedInv'
  BY <1>3, GatePrepared, BeforeTransferPrepared, TransferPrepared, OtherPrepared DEF Wait
<1> QED BY <1>1, <1>2, <1>3 DEF Next, Step

LEMMA PreparedInit == Init => PreparedInv
<1>1. Init => \A t \in Senders : pc[t] = "call"
  BY DEF Init, Threads
<1> QED BY <1>1 DEF Init, PreparedInv, Fills

\* The data goes out when each buffer has been filled exactly once, and while one PPU
\* transfers, no other fills buffers, empties them or transfers, in either barrier.
THEOREM TransfersAlone == Spec => []TransferAlone
<1>1. Inv /\ OrderInv /\ PreparedInv => TransferAlone
  <2> SUFFICES ASSUME Inv, OrderInv, PreparedInv, NEW t \in Threads, pc[t] = "transfer"
               PROVE  /\ stage[t] = "send" =>
                           \A b \in Buffers : prepared[b] = (IF kind = "Scalar" THEN 0 ELSE 1)
                      /\ \A u \in Threads : u # t => ~(stage[u] \in Sides
                                                        /\ pc[u] \in {"before", "transfer", "after"})
    BY DEF TransferAlone
  <2>1. PICK s \in Sides : stage[t] = s /\ t \in Members(s)
    BY MemberOf DEF Inv, TypeOK
  <2>2. AllAt(s, {"transfer", "transferred"})
    BY <2>1 DEF Inv, BarrierInv, Gathering, Deciding, Transferring, Finishing, Leaving, AllAt,
       Before, Past, Sides
  <2>3. ASSUME stage[t] = "send", NEW b \in Buffers
        PROVE  prepared[b] = IF kind = "Scalar" THEN 0 ELSE 1
    <3>1. t \in Senders /\ Fills(t, b)
      BY <2>1, <2>3 DEF Fills, Members
    <3> QED BY <3>1 DEF PreparedInv
  <2>4. ASSUME NEW u \in Threads, u # t, stage[u] \in Sides, pc[u] \in {"before", "transfer", "after"}
        PROVE  FALSE
    <3>1. CASE stage[u] = s
      <4>1. u \in Members(s)
        BY <3>1, MemberOf DEF Inv
      <4>2. pc[u] = "transfer" /\ \A v \in Members(s) : stage[v] = s /\ pc[v] # "call"
        BY <2>2, <2>4, <4>1 DEF AllAt
      <4> QED BY <2>1, <2>4, <4>1, <4>2, AllNumbered DEF OrderInv, Last
    <3>2. CASE stage[u] # s
      <4>1. PICK o \in Sides : o # s /\ stage[u] = o /\ u \in Members(o)
        BY <2>4, <3>2, MemberOf DEF Inv
      <4>2. \A v \in Members(o) : stage[v] = o /\ pc[v] # "call"
        BY <2>4, <4>1 DEF Inv, BarrierInv, Gathering, Deciding, Transferring, Finishing, Leaving,
           AllAt, Before, Past, Sides
      <4>3. \A v \in Members(s) : stage[v] = s
        BY <2>2 DEF AllAt
      <4>4. \A v \in Members(o) : Inside(v, o)
        BY <4>2 DEF Inside
      <4> QED BY <4>1, <4>3, <4>4, Common
    <3> QED BY <3>1, <3>2
  <2> QED BY <2>3, <2>4
<1> QED BY <1>1, Invariance, OrderInit, OrderStep, PreparedInit, PreparedStep, PTL DEF Spec

-----------------------------------------------------------------------------
(* The buffers received *)

LEMMA UnreadKept ==
  ASSUME UnreadInv, UNCHANGED kind, \A b \in Buffers : unread'[b] => unread[b],
         \A u \in Threads : stage[u] \in Sides /\ pc[u] \in {"transferred", "after"} =>
           /\ stage'[u] = stage[u] /\ pc'[u] \in {"transferred", "after"}
           /\ order'[u] = order[u]
  PROVE  UnreadInv'
<1> SUFFICES ASSUME NEW b \in Buffers, unread'[b]
             PROVE  \E s \in Sides : \E t \in Members(s) : WillWrite(t, s, b)'
  BY DEF UnreadInv, Buffers, Members
<1>1. PICK s \in Sides : \E t \in Members(s) : WillWrite(t, s, b)
  BY DEF UnreadInv
<1>2. PICK t \in Members(s) : WillWrite(t, s, b)
  BY <1>1
<1>3. t \in Threads /\ stage'[t] = s /\ pc'[t] \in {"transferred", "after"} /\ order'[t] = order[t]
  BY <1>2, MembersType DEF WillWrite
<1>4. ToWriteBack(t, s)' = ToWriteBack(t, s)
  BY <1>3 DEF ToWriteBack, FillsOnSend, FillsOnReceive, Last, Share, Size, Members, Buffers
<1> QED BY <1>2, <1>3, <1>4 DEF WillWrite

LEMMA GateUnread ==
  ASSUME Inv, UnreadInv, NEW t \in Threads, NEW s \in Sides, WaitAtGate(t, s)
  PROVE  UnreadInv'
<1>1. /\ stage[t] = s /\ pc[t] \in Gated /\ UNCHANGED <<kind, stage, order, unread>>
  BY DEF WaitAtGate, loopVars, dataVars
<1>2. CASE pc' = pc
  BY <1>1, <1>2, UnreadKept
<1>3. CASE /\ Cardinality(gate[s] \cup {t}) = Size(s)
           /\ pc' = [u \in Threads |-> IF u \in gate[s] \cup {t} THEN PastGate(u) ELSE pc[u]]
  <2>1. /\ gate[s] \cup {t} = Members(s) /\ \A u \in Members(s) : pc[u] = pc[t]
    BY <1>1, <1>3, GateOpens
  <2>2. \A u \in Threads : \/ pc'[u] = pc[u]
                           \/ pc[u] \in Gated /\ pc'[u] = PastGate(u)
    BY <1>1, <1>3, <2>1
  <2>3. \A u \in Threads : pc[u] \in {"transferred", "after"} => pc'[u] \in {"transferred", "after"}
    BY <2>2 DEF PastGate, Gated
  <2> QED BY <1>1, <2>3, UnreadKept
<1> QED BY <1>2, <1>3 DEF WaitAtGate

(* Right after the transfer everybody is still to write back, and together they write
   back all that the transfer has brought. *)
LEMMA TransferUnread ==
  ASSUME Inv, OrderInv, UnreadInv, NEW t \in Threads, NEW s \in Sides, TransferFunction(t, s)
  PROVE  UnreadInv'
<1>1. /\ stage[t] = s /\ pc[t] = "transfer" /\ t \in Members(s)
      /\ UNCHANGED <<kind, stage, order>>
      /\ pc'[t] = "transferred" /\ \A u \in Threads \ {t} : pc'[u] = pc[u]
  BY MemberOf DEF TransferFunction, loopVars, Goto, Inv, TypeOK
<1>2. AllAt(s, {"transfer", "transferred"})
  BY <1>1 DEF Inv, BarrierInv, Gathering, Deciding, Transferring, Finishing, Leaving, AllAt,
     Before, Past, Sides
<1>3. \A u \in Members(s) : stage[u] = s /\ pc[u] # "call"
  BY <1>2 DEF AllAt
<1>4. ASSUME NEW u \in Members(s)
      PROVE  stage'[u] = s /\ pc'[u] = "transferred" /\ (order[u] = 0 => u = t)
  <2>1. u \in Threads /\ Last(t)
    BY <1>1, MembersType DEF OrderInv
  <2>2. order[u] = 0 => u = t
    BY <1>1, <1>3, <2>1, AllNumbered DEF Last
  <2>3. pc[u] = "transfer" => u = t
    BY <2>1, <2>2 DEF OrderInv, Last
  <2> QED BY <1>1, <1>2, <2>1, <2>2, <2>3 DEF AllAt
<1>5. \A u \in Members(s) : ToWriteBack(u, s)' = ToWriteBack(u, s)
  BY <1>1 DEF ToWriteBack, FillsOnSend, FillsOnReceive, Last, Share, Size, Members, Buffers
<1>6. CASE IF s = "send" THEN FillsOnSend ELSE FillsOnReceive
  <2>1. ASSUME NEW b \in Buffers
        PROVE  \E u \in Members(s) : b \in ToWriteBack(u, s)
    <3>1. CASE s = "send" /\ kind = "Down"
      BY <1>1, <3>1 DEF ToWriteBack, OrderInv
    <3>2. CASE ~(s = "send" /\ kind = "Down")
      BY <1>3, <1>6, <3>2, SharesCover DEF ToWriteBack, Sides
    <3> QED BY <3>1, <3>2
  <2>2. \A b \in Buffers : \E u \in Members(s) : WillWrite(u, s, b)'
    BY <1>4, <1>5, <2>1 DEF WillWrite
  <2> QED BY <2>2 DEF UnreadInv, Buffers, Members
<1>7. CASE ~(IF s = "send" THEN FillsOnSend ELSE FillsOnReceive)
  <2>1. \A b \in Buffers : unread'[b] => unread[b]
    BY <1>7 DEF TransferFunction, SendData, ReceiveData
  <2> QED BY <1>1, <2>1, UnreadKept
<1> QED BY <1>6, <1>7

LEMMA AfterTransferUnread ==
  ASSUME Inv, UnreadInv, NEW t \in Threads, NEW s \in Sides, AfterTransfer(t, s)
  PROVE  UnreadInv'
<1>1. /\ stage[t] = s /\ UNCHANGED <<kind, stage, order>> /\ WriteBack(t, s)
      /\ \A u \in Threads \ {t} : pc'[u] = pc[u]
  BY DEF AfterTransfer, loopVars, Goto, Inv, TypeOK
<1> SUFFICES ASSUME NEW b \in Buffers, unread'[b]
             PROVE  \E o \in Sides : \E u \in Members(o) : WillWrite(u, o, b)'
  BY DEF UnreadInv, Buffers, Members
<1>2. unread[b] /\ b \notin ToWriteBack(t, s)
  BY <1>1 DEF WriteBack
<1>3. PICK o \in Sides : \E u \in Members(o) : WillWrite(u, o, b)
  BY <1>2 DEF UnreadInv
<1>4. PICK u \in Members(o) : WillWrite(u, o, b)
  BY <1>3
<1>5. u \in Threads /\ u # t
  BY <1>1, <1>2, <1>4, MembersType DEF WillWrite
<1>6. ToWriteBack(u, o)' = ToWriteBack(u, o)
  BY <1>1 DEF ToWriteBack, FillsOnSend, FillsOnReceive, Last, Share, Size, Members, Buffers
<1>7. WillWrite(u, o, b)'
  BY <1>1, <1>4, <1>5, <1>6 DEF WillWrite
<1> QED BY <1>4, <1>7 DEF Members

LEMMA OtherUnread ==
  ASSUME Inv, UnreadInv, NEW t \in Threads, NEW s \in Sides,
         \/ Enter(t, s) \/ Unlock(t, s) \/ Tally(t, s) \/ Decide(t, s)
         \/ BeforeTransfer(t, s) \/ Reset(t, s) \/ Release(t, s) \/ Return(t, s)
  PROVE  UnreadInv'
<1>1. /\ UNCHANGED <<kind, unread>>
      /\ \A u \in Threads \ {t} : stage'[u] = stage[u] /\ pc'[u] = pc[u] /\ order'[u] = order[u]
      /\ pc[t] \notin {"transferred", "after"}
  <2>1. CASE Enter(t, s)
    BY <2>1 DEF Enter, Goto, loopVars, dataVars, Inv, TypeOK
  <2>2. CASE Unlock(t, s) \/ Tally(t, s) \/ Decide(t, s)
    BY <2>2 DEF Unlock, Tally, Decide, Goto, loopVars, dataVars, Inv, TypeOK
  <2>3. CASE BeforeTransfer(t, s)
    BY <2>3 DEF BeforeTransfer, Goto, loopVars, Inv, TypeOK
  <2>4. CASE Reset(t, s) \/ Release(t, s)
    BY <2>4 DEF Reset, Release, Goto, loopVars, dataVars, Inv, TypeOK
  <2>5. CASE Return(t, s)
    BY <2>5 DEF Return, Advance, Goto, dataVars, Inv, TypeOK
  <2> QED BY <2>1, <2>2, <2>3, <2>4, <2>5
<1> QED BY <1>1, UnreadKept

LEMMA UnreadStep == Inv /\ OrderInv /\ UnreadInv /\ [Next]_vars => UnreadInv'
<1> SUFFICES ASSUME Inv, OrderInv, UnreadInv, [Next]_vars PROVE UnreadInv'
  OBVIOUS
<1>1. CASE UNCHANGED vars
  BY <1>1, UnreadKept DEF vars, loopVars, dataVars
<1>2. ASSUME NEW t \in Threads, Rearm(t) \/ Update(t) \/ Use(t)
      PROVE  UnreadInv'
  <2>1. \A u \in Threads : stage'[u] # stage[u] => pc[u] = "call"
    BY <1>2, OutsideMoves
  <2> QED BY <1>2, <2>1, OutsideMoves, UnreadKept DEF dataVars
<1>3. ASSUME NEW t \in Threads, NEW s \in Sides, Wait(t, s)
      PROVE  UnreadInv'
  BY <1>3, GateUnread, TransferUnread, AfterTransferUnread, OtherUnread DEF Wait
<1> QED BY <1>1, <1>2, <1>3 DEF Next, Step

(* While a PPU uses the data, both barriers are through with the round. *)
LEMMA UseAlone ==
  ASSUME Inv, NEW t \in Threads, stage[t] = "use"
  PROVE  Leaving("send") /\ Leaving("receive")
<1>1. t \in Members("receive")
  BY DEF Inv, TypeOK, Members
<1>2. PICK c : c \in Members("send") /\ c \in Members("receive")
  BY ParallelCommBarrierAssumption DEF Members
<1>3. Leaving("receive")
  BY <1>1 DEF Inv, BarrierInv, Gathering, Deciding, Transferring, Finishing, AllAt, Before, Sides
<1>4. stage[c] \in {"receive", "use", "rearm"}
  BY <1>2, <1>3 DEF Leaving, Past
<1> QED BY <1>2, <1>3, <1>4 DEF Inv, BarrierInv, Gathering, Deciding, Transferring, Finishing,
           AllAt, Before, Sides

\* Whoever uses the data finds all of what was received written back, by whichever PPUs
\* and in whichever of the two barriers it has to be.
THEOREM UsesComplete == Spec => []UsedWhenComplete
<1>1. Init => UnreadInv
  BY DEF Init, UnreadInv
<1>2. Inv /\ UnreadInv => UsedWhenComplete
  <2> SUFFICES ASSUME Inv, UnreadInv, NEW t \in Threads, stage[t] = "use", NEW b \in Buffers, unread[b]
               PROVE  FALSE
    BY DEF UsedWhenComplete
  <2>1. Leaving("send") /\ Leaving("receive")
    BY UseAlone
  <2>2. \A s \in Sides : \A u \in Members(s) : ~WillWrite(u, s, b)
    BY <2>1 DEF Leaving, Past, WillWrite, Sides
  <2> QED BY <2>2 DEF UnreadInv
<1> QED BY <1>1, <1>2, Invariance, OrderInit, OrderStep, UnreadStep, PTL DEF Spec

-----------------------------------------------------------------------------
(* The signals of the receivers *)

LEMMA SignalKept ==
  ASSUME SignalInv, signals' \in [Sides -> Nat],
         signals'["receive"] = signals["receive"],
         activeSignals'["receive"] = activeSignals["receive"],
         \A u \in Receivers : stage'[u] = "receive" /\ pc'[u] \in {"tally", "tallied", "decide"} =>
           stage[u] = "receive" /\ pc[u] = pc'[u] /\ order'[u] = order[u]
  PROVE  SignalInv'
<1>1. AllAt("receive", {"decide"})' => AllAt("receive", {"decide"})
  BY DEF AllAt, Members
<1> QED BY <1>1 DEF SignalInv, Last

LEMMA SignalInit == Init => SignalInv
<1>1. Init => \A t \in Receivers : stage[t] = "rearm"
  BY DEF Init, Threads
<1>2. Receivers # {}
  BY ParallelCommBarrierAssumption
<1> QED BY <1>1, <1>2 DEF Init, SignalInv, AllAt, Members

LEMMA EnterSignal ==
  ASSUME Inv, SignalInv, NEW t \in Threads, NEW s \in Sides, Enter(t, s)
  PROVE  SignalInv'
<1>1. /\ stage[t] = s /\ pc[t] = "call" /\ t \in Members(s) /\ UNCHANGED <<stage, activeSignals>>
      /\ \A u \in Threads \ {t} : pc'[u] = pc[u] /\ order'[u] = order[u]
      /\ pc'[t] \in {"tally", "unlock"}
      /\ signals' = [signals EXCEPT ![s] = signals[s] + (IF Requests(t) THEN 1 ELSE 0)]
  BY MemberOf DEF Enter, Goto, loopVars, Inv, TypeOK
<1>2. signals \in [Sides -> Nat] /\ signals' \in [Sides -> Nat]
  BY <1>1 DEF SignalInv
<1>3. CASE s = "send"
  <2>1. signals'["receive"] = signals["receive"]
    BY <1>1, <1>2, <1>3 DEF Sides
  <2>2. \A u \in Receivers : stage[u] = "receive" => u # t /\ u \in Threads
    BY <1>1, <1>3 DEF Threads
  <2> QED BY <1>1, <1>2, <2>1, <2>2, SignalKept
<1>4. CASE s = "receive"
  <2>1. signals'["receive"] >= 1
    BY <1>1, <1>2, <1>4 DEF Requests
  <2>2. ~AllAt("receive", {"decide"})'
    BY <1>1, <1>4 DEF AllAt, Members
  <2>3. \A u \in Receivers : stage'[u] = "receive" /\ pc'[u] = "tallied" /\ Last(u)' =>
           activeSignals'["receive"] >= 1
    BY <1>1 DEF SignalInv, Last, Threads
  <2> QED BY <1>2, <2>1, <2>2, <2>3 DEF SignalInv
<1> QED BY <1>3, <1>4 DEF Sides

LEMMA TallySignal ==
  ASSUME Inv, OrderInv, SignalInv, NEW t \in Threads, NEW s \in Sides, Unlock(t, s) \/ Tally(t, s)
  PROVE  SignalInv'
<1>1. /\ stage[t] = s /\ pc[t] \in {"unlock", "tally"} /\ t \in Members(s)
      /\ UNCHANGED <<stage, signals, order>>
      /\ \A u \in Threads \ {t} : pc'[u] = pc[u]
      /\ pc'[t] = "tallied"
      /\ pc[t] = "unlock" => UNCHANGED activeSignals
      /\ pc[t] = "tally" => activeSignals' = [activeSignals EXCEPT ![s] = signals[s]]
      /\ signals' \in [Sides -> Nat]
  BY MemberOf DEF Unlock, Tally, Goto, loopVars, Inv, TypeOK, SignalInv
<1>2. CASE s = "send"
  <2>1. activeSignals'["receive"] = activeSignals["receive"]
    BY <1>1, <1>2 DEF Inv, TypeOK, Sides
  <2>2. \A u \in Receivers : stage[u] = "receive" => u # t /\ u \in Threads
    BY <1>1, <1>2 DEF Threads
  <2> QED BY <1>1, <2>1, <2>2, SignalKept
<1>3. CASE s = "receive"
  <2>1. ~AllAt("receive", {"decide"})'
    BY <1>1, <1>3 DEF AllAt, Members
  <2>2. CASE pc[t] = "tally"
    <3>1. activeSignals'["receive"] >= 1
      BY <1>1, <1>3, <2>2 DEF SignalInv, Inv, TypeOK, Members
    <3> QED BY <1>1, <2>1, <3>1 DEF SignalInv, Threads
  <2>3. CASE pc[t] = "unlock"
    <3>1. ~Last(t)' /\ activeSignals'["receive"] = activeSignals["receive"]
      BY <1>1, <2>3 DEF OrderInv, Last
    <3> QED BY <1>1, <2>1, <3>1 DEF SignalInv, Threads, Last
  <2> QED BY <1>1, <2>2, <2>3
<1> QED BY <1>2, <1>3 DEF Sides

LEMMA GateSignal ==
  ASSUME Inv, SignalInv, NEW t \in Threads, NEW s \in Sides, WaitAtGate(t, s)
  PROVE  SignalInv'
<1>1. /\ stage[t] = s /\ pc[t] \in Gated
      /\ UNCHANGED <<stage, order, signals, activeSignals>> /\ signals' \in [Sides -> Nat]
  BY DEF WaitAtGate, loopVars, SignalInv
<1>2. CASE pc' = pc
  BY <1>1, <1>2, SignalKept
<1>3. CASE /\ Cardinality(gate[s] \cup {t}) = Size(s)
           /\ pc' = [u \in Threads |-> IF u \in gate[s] \cup {t} THEN PastGate(u) ELSE pc[u]]
  <2>1. /\ gate[s] \cup {t} = Members(s) /\ Members(s) \subseteq Threads /\ t \in Members(s)
        /\ \A u \in Members(s) : stage[u] = s /\ pc[u] = pc[t]
    BY <1>1, <1>3, GateOpens, MembersType, MemberOf DEF Inv
  <2>2. \A u \in Threads : pc'[u] = IF u \in Members(s) THEN PastGate(u) ELSE pc[u]
    BY <1>3, <2>1
  <2>3. CASE s = "receive" /\ pc[t] = "tallied"
    <3>1. \A u \in Receivers : pc'[u] = "decide"
      BY <2>1, <2>2, <2>3 DEF PastGate, Members, Threads
    <3>2. Gathering(s)
      BY <1>1, <2>1, <2>3 DEF Inv, BarrierInv, Deciding, Transferring, Finishing, Leaving, AllAt,
         Past, Sides
    <3>3. HasLast(s)
      <4>1. InsideSet(s) = Members(s)
        BY <2>1, <2>3 DEF InsideSet, Inside
      <4> QED BY <3>2, <4>1, MembersType DEF Gathering, Size
    <3>4. activeSignals["receive"] >= 1
      BY <2>1, <2>3, <3>3 DEF HasLast, InsideSet, SignalInv, Members
    <3> QED BY <1>1, <3>1, <3>4 DEF SignalInv
  <2>4. CASE s = "send"
    <3>1. \A u \in Receivers : stage[u] = "receive" => pc'[u] = pc[u]
      BY <2>1, <2>2, <2>4 DEF Threads
    <3> QED BY <1>1, <3>1, SignalKept
  <2>5. CASE s = "receive" /\ pc[t] # "tallied"
    <3>1. \A u \in Receivers : pc'[u] = PastGate(u) /\ pc[u] \in Gated \ {"tallied"}
      BY <1>1, <2>1, <2>2, <2>5 DEF Members
    <3>2. \A u \in Receivers : pc'[u] \notin {"tally", "tallied", "decide"}
      BY <3>1 DEF PastGate, Gated
    <3> QED BY <1>1, <3>2, SignalKept
  <2> QED BY <2>3, <2>4, <2>5 DEF Sides
<1> QED BY <1>2, <1>3 DEF WaitAtGate

LEMMA ResetSignal ==
  ASSUME Inv, SignalInv, NEW t \in Threads, NEW s \in Sides, Reset(t, s)
  PROVE  SignalInv'
<1>1. /\ stage[t] = s /\ pc[t] = "reset" /\ t \in Members(s) /\ UNCHANGED <<stage, order>>
      /\ \A u \in Threads \ {t} : pc'[u] = pc[u]
      /\ pc'[t] = "finished"
      /\ \A o \in Sides \ {s} : signals'[o] = signals[o] /\ activeSignals'[o] = activeSignals[o]
  BY MemberOf DEF Reset, Goto, loopVars, Inv, TypeOK
<1>2. signals' \in [Sides -> Nat]
  BY DEF Reset, SignalInv
<1>3. CASE s = "send"
  <2>1. \A u \in Receivers : stage[u] = "receive" => u # t /\ u \in Threads
    BY <1>1, <1>3 DEF Threads
  <2> QED BY <1>1, <1>2, <1>3, <2>1, SignalKept DEF Sides
<1>4. CASE s = "receive"
  <2>1. \A u \in Receivers : pc[u] \in {"after", "decide", "reset", "finished"}
    BY <1>1, <1>4 DEF Inv, BarrierInv, Gathering, Deciding, Transferring, Finishing, Leaving, AllAt,
       Before, Past, Sides, Members
  <2>2. \A u \in Receivers : pc'[u] \notin {"tally", "tallied"}
    BY <1>1, <2>1 DEF Threads
  <2>3. ~AllAt("receive", {"decide"})'
    BY <1>1, <1>4 DEF AllAt, Members
  <2> QED BY <1>2, <2>2, <2>3 DEF SignalInv
<1> QED BY <1>3, <1>4 DEF Sides

LEMMA OtherSignal ==
  ASSUME Inv, SignalInv, NEW t \in Threads, NEW s \in Sides,
         \/ Decide(t, s) \/ BeforeTransfer(t, s) \/ TransferFunction(t, s)
         \/ AfterTransfer(t, s) \/ Release(t, s) \/ Return(t, s)
  PROVE  SignalInv'
<1>1. /\ UNCHANGED <<signals, activeSignals, order>>
      /\ \A u \in Threads \ {t} : stage'[u] = stage[u] /\ pc'[u] = pc[u]
      /\ pc'[t] \notin {"tally", "tallied", "decide"}
  <2>1. CASE Decide(t, s) \/ BeforeTransfer(t, s) \/ TransferFunction(t, s)
    BY <2>1 DEF Decide, BeforeTransfer, TransferFunction, Goto, loopVars, barrierVars, Inv, TypeOK
  <2>2. CASE AfterTransfer(t, s) \/ Release(t, s)
    BY <2>2 DEF AfterTransfer, Release, Goto, loopVars, barrierVars, Inv, TypeOK
  <2>3. CASE Return(t, s)
    BY <2>3 DEF Return, Advance, Goto, barrierVars, Inv, TypeOK
  <2> QED BY <2>1, <2>2, <2>3
<1>2. signals' \in [Sides -> Nat] /\ Receivers \subseteq Threads
  BY <1>1 DEF SignalInv, Threads
<1> QED BY <1>1, <1>2, SignalKept

LEMMA SignalStep == Inv /\ OrderInv /\ SignalInv /\ [Next]_vars => SignalInv'
<1> SUFFICES ASSUME Inv, OrderInv, SignalInv, [Next]_vars PROVE SignalInv'
  OBVIOUS
<1>1. CASE UNCHANGED vars
  BY <1>1, SignalKept DEF vars, loopVars, barrierVars, SignalInv
<1>2. ASSUME NEW t \in Threads, Rearm(t) \/ Update(t) \/ Use(t)
      PROVE  SignalInv'
  <2>1. /\ UNCHANGED <<pc, signals, activeSignals, order>>
        /\ \A u \in Receivers : stage'[u] # stage[u] => pc[u] = "call"
    BY <1>2, OutsideMoves DEF barrierVars, Threads
  <2> QED BY <2>1, SignalKept DEF SignalInv
<1>3. ASSUME NEW t \in Threads, NEW s \in Sides, Wait(t, s)
      PROVE  SignalInv'
  BY <1>3, EnterSignal, TallySignal, GateSignal, ResetSignal, OtherSignal DEF Wait
<1> QED BY <1>1, <1>2, <1>3 DEF Next, Step

-----------------------------------------------------------------------------
(* The rounds *)

\* What a step of round m must see to, if it leaves the data alone.
LEMMA ResolvingKept ==
  ASSUME NEW m \in Nat, Resolving(m), UNCHANGED <<kind, sent, received, iterationNo>>,
         \A u \in Senders : Unsent(u)' => Unsent(u),
         (\E u \in Receivers : stage'[u] = "receive" /\ pc'[u] = "transfer") => ~Resolved(m - 1),
         \/ \E u \in Receivers : HasData(u)'
         \/ AllAt("receive", {"transferred"})'
         => m = 0 \/ Resolved(m - 1)
  PROVE  Resolving(m)'
<1>1. \A k \in Int : Resolved(k)' <=> Resolved(k)
  BY DEF Resolved, AdvancesOnSend
<1>2. m - 1 \in Int /\ \A k \in 0..(m - 2) : k \in Int
  OBVIOUS
<1> QED BY <1>1, <1>2 DEF Resolving, AdvancesOnSend

\* What holds of the receivers in a state of Resolving(m).
LEMMA ResolvingHas ==
  ASSUME NEW m \in Nat, Resolving(m)
  PROVE  /\ (\E u \in Receivers : stage[u] = "receive" /\ pc[u] = "transfer") => ~Resolved(m - 1)
         /\ (\E u \in Receivers : HasData(u)) => m = 0 \/ Resolved(m - 1)
         /\ AllAt("receive", {"transferred"}) => m = 0 \/ Resolved(m - 1)
  BY DEF Resolving

LEMMA PlainKept ==
  ASSUME NEW m \in Nat, Resolving(m), UNCHANGED <<kind, sent, received, iterationNo>>,
         NEW t \in Threads,
         \A u \in Threads \ {t} : stage'[u] = stage[u] /\ pc'[u] = pc[u],
         Unsent(t)' => Unsent(t), t \in Receivers /\ HasData(t)' => HasData(t),
         stage'[t] = "receive" => pc'[t] \notin {"transfer", "transferred"}
  PROVE  Resolving(m)'
<1>1. \A u \in Threads \ {t} : (Unsent(u)' => Unsent(u)) /\ (HasData(u)' => HasData(u))
  BY DEF Unsent, HasData, Before, Past
<1>2. \A u \in Senders : Unsent(u)' => Unsent(u)
  BY <1>1 DEF Threads
<1>3. \A u \in Receivers : HasData(u)' => HasData(u)
  BY <1>1 DEF Threads
<1>4. \A u \in Receivers : stage'[u] = "receive" /\ pc'[u] = "transfer" =>
                             stage[u] = "receive" /\ pc[u] = "transfer"
  BY DEF Threads
<1>5. AllAt("receive", {"transferred"})' => AllAt("receive", {"transferred"})
  <2>1. \A u \in Receivers : stage'[u] = "receive" /\ pc'[u] = "transferred" =>
                               stage[u] = "receive" /\ pc[u] = "transferred"
    BY DEF Threads
  <2> QED BY <2>1 DEF AllAt, Members
<1> QED BY <1>2, <1>3, <1>4, <1>5, ResolvingKept, ResolvingHas

LEMMA EnterResolving ==
  ASSUME Inv, NEW m \in Nat, Resolving(m), NEW t \in Threads, NEW s \in Sides,
         \/ Enter(t, s) \/ Unlock(t, s) \/ Tally(t, s) \/ BeforeTransfer(t, s)
         \/ AfterTransfer(t, s) \/ Reset(t, s) \/ Release(t, s) \/ (Decide(t, s) /\ s = "send")
  PROVE  Resolving(m)'
<1>1. /\ UNCHANGED <<kind, stage, sent, received, iterationNo>> /\ stage[t] = s
      /\ \A u \in Threads \ {t} : pc'[u] = pc[u]
      /\ \/ pc[t] = "call" /\ pc'[t] \in {"unlock", "tally"}
         \/ pc[t] \in {"unlock", "tally"} /\ pc'[t] = "tallied"
         \/ pc[t] = "before" /\ pc'[t] = "ready"
         \/ pc[t] = "after" /\ pc'[t] \in {"reset", "finished"}
         \/ pc[t] = "reset" /\ pc'[t] = "finished"
         \/ pc[t] = "release" /\ pc'[t] = "return"
         \/ s = "send" /\ pc[t] = "decide" /\ pc'[t] \in {"before", "reset", "finished"}
  <2>1. CASE Enter(t, s) \/ Unlock(t, s) \/ Tally(t, s)
    BY <2>1 DEF Enter, Unlock, Tally, Goto, loopVars, dataVars, Inv, TypeOK
  <2>2. CASE BeforeTransfer(t, s) \/ AfterTransfer(t, s)
    BY <2>2 DEF BeforeTransfer, AfterTransfer, Goto, loopVars, Inv, TypeOK
  <2>3. CASE Reset(t, s) \/ Release(t, s)
    BY <2>3 DEF Reset, Release, Goto, loopVars, dataVars, Inv, TypeOK
  <2>4. CASE Decide(t, s) /\ s = "send"
    BY <2>4 DEF Decide, Goto, loopVars, dataVars, Inv, TypeOK
  <2> QED BY <2>1, <2>2, <2>3, <2>4
<1>2. Unsent(t)' => Unsent(t)
  BY <1>1 DEF Unsent, Before
<1>3. HasData(t)' => HasData(t)
  BY <1>1 DEF HasData, Past
<1> QED BY <1>1, <1>2, <1>3, PlainKept

LEMMA LoopResolving ==
  ASSUME Inv, NEW m \in Nat, Resolving(m), NEW t \in Threads,
         Update(t) \/ Use(t) \/ \E s \in Sides : Return(t, s)
  PROVE  Resolving(m)'
<1>1. /\ UNCHANGED <<kind, sent, received, iterationNo>> /\ pc'[t] = "call"
      /\ \A u \in Threads \ {t} : stage'[u] = stage[u] /\ pc'[u] = pc[u]
      /\ stage'[t] = StageAfter(t, stage[t])
      /\ \/ stage[t] \in {"update", "use"} /\ pc[t] = "call"
         \/ stage[t] \in Sides /\ pc[t] = "return"
  <2>1. CASE Update(t) \/ Use(t)
    BY <2>1 DEF Update, Use, Advance, dataVars, Inv, TypeOK, Sides
  <2>2. CASE \E s \in Sides : Return(t, s)
    BY <2>2 DEF Return, Advance, Goto, dataVars, Inv, TypeOK
  <2> QED BY <2>1, <2>2
<1>2. Unsent(t)' => Unsent(t)
  BY <1>1 DEF Unsent, Before, StageAfter, Sides
<1>3. t \in Receivers /\ HasData(t)' => HasData(t)
  BY <1>1 DEF HasData, Past, StageAfter, Sides
<1> QED BY <1>1, <1>2, <1>3, PlainKept

(* Who decides against receiving knows that the data is there: either another one has
   decided so, or iterationNo says it. *)
LEMMA DecideResolving ==
  ASSUME Inv, SignalInv, NEW m \in Nat, Round(m), Resolving(m), NEW t \in Threads,
         Decide(t, "receive")
  PROVE  Resolving(m)'
<1>1. /\ UNCHANGED <<kind, stage, sent, received, iterationNo>>
      /\ stage[t] = "receive" /\ pc[t] = "decide" /\ t \in Members("receive")
      /\ \A u \in Threads \ {t} : pc'[u] = pc[u]
      /\ ShouldPerformTransfer(t, "receive") => pc'[t] = "before"
      /\ pc'[t] \in {"before", "reset", "finished"}
  BY MemberOf DEF Decide, Goto, loopVars, dataVars, Inv, TypeOK, Sides
<1>2. CASE ShouldPerformTransfer(t, "receive")
  <2>1. (Unsent(t)' => Unsent(t)) /\ (HasData(t)' => HasData(t))
    BY <1>1, <1>2 DEF Unsent, HasData, Before, Past
  <2> QED BY <1>1, <1>2, <2>1, PlainKept
<1>3. CASE ~ShouldPerformTransfer(t, "receive")
  <2>1. Deciding("receive") \/ Finishing("receive")
    BY <1>1 DEF Inv, BarrierInv, Gathering, Transferring, Leaving, AllAt, Before, Past, Sides
  <2>2. m = 0 \/ Resolved(m - 1)
    <3>1. CASE AllAt("receive", {"decide"})
      <4>1. activeSignals["receive"] >= 1
        BY <3>1 DEF SignalInv
      <4>2. commCounter[t] # iterationNo
        BY <1>3, <4>1 DEF ShouldPerformTransfer, Inv, TypeOK, Sides
      <4>3. commCounter[t] + 1 = m /\ commCounter[t] \in Nat
        BY <1>1 DEF Round, Inv, TypeOK
      <4> QED BY <4>2, <4>3 DEF Resolving
    <3>2. CASE ~AllAt("receive", {"decide"})
      <4>1. Finishing("receive")
        BY <1>1, <1>3, <2>1, <3>2 DEF Deciding, AllAt
      <4>2. AllAt("receive", {"decide", "reset", "finished"})
        BY <1>1, <4>1 DEF Finishing, AllAt
      <4>3. PICK u \in Receivers : stage[u] = "receive" /\ pc[u] \in {"reset", "finished"}
        BY <3>2, <4>2 DEF AllAt, Members
      <4> QED BY <4>3, ResolvingHas DEF HasData
    <3> QED BY <3>1, <3>2
  <2>3. \A u \in Receivers : ~(stage'[u] = "receive" /\ pc'[u] = "transfer")
    <3>1. \A u \in Receivers : pc[u] # "transfer"
      BY <2>1 DEF Deciding, Finishing, AllAt, Members
    <3> QED BY <1>1, <3>1 DEF Threads
  <2>4. \A u \in Senders : Unsent(u)' => Unsent(u)
    BY <1>1 DEF Unsent, Before, Threads
  <2> QED BY <1>1, <2>2, <2>3, <2>4, ResolvingKept
<1> QED BY <1>2, <1>3

LEMMA GateResolving ==
  ASSUME Inv, OrderInv, NEW m \in Nat, Round(m), Resolving(m),
         NEW t \in Threads, NEW s \in Sides, WaitAtGate(t, s)
  PROVE  Resolving(m)'
<1>1. /\ stage[t] = s /\ pc[t] \in Gated
      /\ UNCHANGED <<kind, stage, order, sent, received, iterationNo>>
  BY DEF WaitAtGate, loopVars, dataVars
<1>2. CASE pc' = pc
  <2>1. /\ \A u \in Senders : Unsent(u)' => Unsent(u)
        /\ \A u \in Receivers : HasData(u)' => HasData(u)
        /\ AllAt("receive", {"transferred"})' => AllAt("receive", {"transferred"})
    BY <1>1, <1>2 DEF Unsent, HasData, Before, Past, AllAt, Members
  <2> QED BY <1>1, <1>2, <2>1, ResolvingKept, ResolvingHas
<1>3. CASE /\ Cardinality(gate[s] \cup {t}) = Size(s)
           /\ pc' = [u \in Threads |-> IF u \in gate[s] \cup {t} THEN PastGate(u) ELSE pc[u]]
  <2>1. /\ gate[s] \cup {t} = Members(s) /\ Members(s) \subseteq Threads /\ t \in Members(s)
        /\ \A u \in Members(s) : stage[u] = s /\ pc[u] = pc[t]
    BY <1>1, <1>3, GateOpens, MembersType, MemberOf DEF Inv
  <2>2. \A u \in Threads : pc'[u] = IF u \in Members(s) THEN PastGate(u) ELSE pc[u]
    BY <1>3, <2>1
  <2>3. CASE s = "send"
    <3>1. ASSUME NEW u \in Senders
          PROVE  Unsent(u)' => Unsent(u)
      <4>1. stage[u] = "send" /\ pc[u] = pc[t] /\ pc'[u] = PastGate(u) /\ stage'[u] = "send"
        BY <1>1, <2>1, <2>2, <2>3 DEF Members
      <4> QED BY <1>1, <4>1 DEF Unsent, Before, PastGate, Gated
    <3>2. \A u \in Receivers : stage[u] = "receive" => pc'[u] = pc[u]
      BY <2>1, <2>2, <2>3 DEF Threads
    <3>3. /\ \A u \in Receivers : HasData(u)' => HasData(u)
          /\ AllAt("receive", {"transferred"})' => AllAt("receive", {"transferred"})
      BY <1>1, <3>2 DEF HasData, Past, AllAt, Members
    <3> QED BY <1>1, <3>1, <3>2, <3>3, ResolvingKept, ResolvingHas
  <2>4. CASE s = "receive"
    <3>1. \A u \in Receivers : /\ stage[u] = "receive" /\ stage'[u] = "receive" /\ pc[u] = pc[t]
                               /\ pc'[u] = PastGate(u)
      BY <1>1, <2>1, <2>2, <2>4 DEF Members
    <3>2. \A u \in Senders : Unsent(u)' => Unsent(u)
      <4>1. \A u \in Senders : stage[u] # "receive" => pc'[u] = pc[u]
        BY <2>1, <2>2, <2>4 DEF Threads
      <4> QED BY <1>1, <4>1 DEF Unsent, Before
    <3>3. CASE pc[t] = "ready"
      <4>1. Deciding(s)
        BY <1>1, <2>1, <3>3 DEF Inv, BarrierInv, Gathering, Transferring, Finishing, Leaving, AllAt,
           Before, Past, Sides
      <4>2. commCounter[t] = iterationNo
        BY <2>1, <2>4, <3>3, <4>1 DEF Deciding, ShouldPerformTransfer
      <4>3. commCounter[t] + 1 = m /\ commCounter[t] \in Nat
        BY <1>1, <2>4 DEF Round, Inv, TypeOK
      <4>4. ~Resolved(m - 1)
        BY <4>2, <4>3 DEF Resolving
      <4>5. PICK l \in Receivers : Last(l)
        BY <2>4, <4>1 DEF Deciding, HasLast, InsideSet, Members
      <4>6. pc'[l] = "transfer"
        BY <3>1, <3>3, <4>5 DEF PastGate
      <4>7. ~AllAt("receive", {"transferred"})'
        BY <4>6 DEF AllAt, Members
      <4>8. \A u \in Receivers : ~HasData(u)'
        BY <3>1, <3>3 DEF PastGate, HasData, Past
      <4> QED BY <1>1, <3>2, <4>4, <4>7, <4>8, ResolvingKept
    <3>4. CASE pc[t] = "transferred"
      <4>1. AllAt("receive", {"transferred"})
        BY <3>1, <3>4 DEF AllAt, Members
      <4>2. \A u \in Receivers : pc'[u] # "transfer"
        BY <3>1, <3>4 DEF PastGate
      <4> QED BY <1>1, <3>2, <4>1, <4>2, ResolvingKept, ResolvingHas
    <3>5. CASE pc[t] \in {"tallied", "finished"}
      <4>1. \A u \in Receivers : pc'[u] \notin {"transfer", "transferred"}
        BY <3>1, <3>5 DEF PastGate
      <4>2. ASSUME NEW u \in Receivers
            PROVE  HasData(u)' => HasData(u)
        BY <3>1, <3>5 DEF PastGate, HasData, Past
      <4>3. ~AllAt("receive", {"transferred"})'
        <5>1. t \in Receivers
          BY <2>1, <2>4 DEF Members
        <5> QED BY <4>1, <5>1 DEF AllAt, Members
      <4> QED BY <1>1, <3>2, <4>1, <4>2, <4>3, ResolvingKept, ResolvingHas
    <3> QED BY <1>1, <3>3, <3>4, <3>5 DEF Gated
  <2> QED BY <2>3, <2>4 DEF Sides
<1> QED BY <1>2, <1>3 DEF WaitAtGate

(* The transfer of round m adds m - 1 to what has been sent or received. *)
LEMMA TransferResolving ==
  ASSUME Inv, OrderInv, NEW m \in Nat, Round(m), Resolving(m),
         NEW t \in Threads, NEW s \in Sides, TransferFunction(t, s)
  PROVE  Resolving(m)'
<1>1. /\ stage[t] = s /\ pc[t] = "transfer" /\ t \in Members(s) /\ UNCHANGED <<kind, stage, order>>
      /\ pc'[t] = "transferred" /\ \A u \in Threads \ {t} : pc'[u] = pc[u]
      /\ AfterData(s)
  BY MemberOf DEF TransferFunction, loopVars, Goto, Inv, TypeOK
<1>2. commCounter[t] + 1 = m /\ commCounter[t] \in Nat
  BY <1>1 DEF Round, Inv, TypeOK, Sides
<1>3. m \in Nat \ {0} /\ commCounter[t] = m - 1 /\ m - 1 \in Nat
  BY <1>2
<1>4. AllAt(s, {"transfer", "transferred"})
  BY <1>1 DEF Inv, BarrierInv, Gathering, Deciding, Transferring, Finishing, Leaving, AllAt,
     Before, Past, Sides
<1>5. \A u \in Members(s) : stage[u] = s /\ pc[u] # "call"
  BY <1>4 DEF AllAt
<1>6. \A u \in Members(s) : pc'[u] = "transferred" /\ stage'[u] = s
  <2>1. \A u \in Members(s) : u \in Threads
    BY MembersType
  <2>2. \A u \in Members(s) : pc[u] = "transfer" => u = t
    BY <1>1, <1>5, <2>1, AllNumbered DEF OrderInv, Last
  <2> QED BY <1>1, <1>4, <2>1, <2>2 DEF AllAt
<1>7. CASE s = "send"
  <2>1. Unsent(t) /\ t \in Senders
    BY <1>1, <1>7 DEF Unsent, Members
  <2>2. m - 1 \notin sent /\ m - 1 \notin received
    BY <2>1 DEF Resolving
  <2>3. sent' = sent \cup {m - 1} /\ received' = received
    BY <1>3, <1>7 DEF TransferFunction, SendData
  <2>4. \A u \in Senders : ~Unsent(u)'
    BY <1>6, <1>7 DEF Unsent, Before, Members
  <2>5. \A u \in Receivers : ~(stage[u] = "receive" /\ pc[u] = "transfer")
    <3>1. PICK c : c \in Senders /\ c \in Receivers
      BY ParallelCommBarrierAssumption
    <3>2. stage[c] = "send"
      BY <1>5, <1>7, <3>1 DEF Members
    <3>3. ASSUME NEW u \in Receivers, stage[u] = "receive", pc[u] = "transfer"
          PROVE  stage[c] = "receive"
      BY <3>1, <3>3 DEF Inv, BarrierInv, Gathering, Deciding, Transferring, Finishing, Leaving, AllAt,
         Before, Past, Sides, Members
    <3> QED BY <3>2, <3>3
  <2>6. \A u \in Receivers : ~(stage'[u] = "receive" /\ pc'[u] = "transfer")
    BY <1>1, <1>7, <2>5 DEF Threads
  <2>7. /\ \A u \in Receivers : HasData(u)' => HasData(u)
        /\ AllAt("receive", {"transferred"})' => AllAt("receive", {"transferred"})
    <3>1. \A u \in Receivers : u # t => pc'[u] = pc[u]
      BY <1>1 DEF Threads
    <3>2. stage[t] # "receive"
      BY <1>1, <1>7
    <3> QED BY <1>1, <1>7, <3>1, <3>2 DEF HasData, Past, AllAt, Members
  <2>8. \A k \in Int : Resolved(k) => Resolved(k)'
    BY <1>1, <2>3 DEF Resolved, AdvancesOnSend
  <2>9. (AdvancesOnSend => Resolved(m - 1)') /\ (~AdvancesOnSend => ~Resolved(m - 1)') /\ ~Resolved(m - 1)
    BY <1>1, <2>2, <2>3 DEF Resolved, AdvancesOnSend
  <2>10. iterationNo' = IF Resolved(m - 1)' THEN m ELSE m - 1
    <3>1. iterationNo = m - 1
      BY <1>3, <2>9 DEF Resolving
    <3>2. iterationNo' = IF AdvancesOnSend THEN iterationNo + 1 ELSE iterationNo
      BY <1>1, <1>7 DEF AfterData
    <3> QED BY <1>3, <2>9, <3>1, <3>2
  <2>11. sent' \subseteq 0..(m - 1) /\ received' \subseteq 0..(m - 1)
    BY <1>3, <2>3 DEF Resolving
  <2>12. \A k \in 0..(m - 2) : Resolved(k)'
    BY <2>8 DEF Resolving
  <2>13. AdvancesOnSend' => sent' \cap received' = {}
    BY <1>1, <2>2, <2>3 DEF Resolving, AdvancesOnSend
  <2>14. (\E u \in Receivers : HasData(u)') \/ AllAt("receive", {"transferred"})' => Resolved(m - 1)'
    BY <1>3, <2>7, <2>8, ResolvingHas
  <2> QED BY <1>3, <2>4, <2>6, <2>10, <2>11, <2>12, <2>13, <2>14 DEF Resolving
<1>8. CASE s = "receive"
  <2>1. ~Resolved(m - 1)
    BY <1>1, <1>8, ResolvingHas DEF Members
  <2>2. received' = received \cup {m - 1} /\ sent' = sent
    BY <1>3, <1>8 DEF TransferFunction, ReceiveData
  <2>3. \A u \in Senders : ~Unsent(u)'
    <3>1. PICK c : c \in Senders /\ c \in Receivers
      BY ParallelCommBarrierAssumption
    <3>2. stage[c] = "receive"
      BY <1>5, <1>8, <3>1 DEF Members
    <3>3. Leaving("send")
      BY <3>1, <3>2 DEF Inv, BarrierInv, Gathering, Deciding, Transferring, Finishing, AllAt,
         Before, Sides, Members
    <3>4. \A u \in Senders : Past(u, "send") \/ (stage[u] = "send" /\ pc[u] \in {"release", "return"})
      BY <3>3 DEF Leaving, Members
    <3>5. \A u \in Senders : stage[u] = "send" => pc'[u] = pc[u]
      BY <1>1, <1>8 DEF Threads
    <3> QED BY <1>1, <3>4, <3>5 DEF Unsent, Before, Past
  <2>4. \A u \in Receivers : pc'[u] # "transfer"
    BY <1>6, <1>8 DEF Members
  <2>5. \A k \in Int : Resolved(k) => Resolved(k)'
    BY <1>1, <2>2 DEF Resolved, AdvancesOnSend
  <2>6. Resolved(m - 1)'
    BY <2>2 DEF Resolved
  <2>7. iterationNo' = m
    <3>1. iterationNo = m - 1
      BY <1>3, <2>1 DEF Resolving
    <3> QED BY <1>1, <1>3, <1>8, <3>1 DEF AfterData
  <2>8. sent' \subseteq 0..(m - 1) /\ received' \subseteq 0..(m - 1)
    <3>1. m - 1 \in 0..(m - 1)
      BY <1>3
    <3>2. sent \subseteq 0..(m - 1) /\ received \subseteq 0..(m - 1)
      BY DEF Resolving
    <3> QED BY <2>2, <3>1, <3>2
  <2>9. \A k \in 0..(m - 2) : Resolved(k)'
    BY <2>5 DEF Resolving
  <2>10. AdvancesOnSend' => sent' \cap received' = {}
    BY <1>1, <2>1, <2>2 DEF Resolving, AdvancesOnSend, Resolved
  <2> QED BY <1>3, <2>3, <2>4, <2>6, <2>7, <2>8, <2>9, <2>10 DEF Resolving
<1> QED BY <1>7, <1>8 DEF Sides

LEMMA RearmResolving ==
  ASSUME Inv, Inv', ResolveInv, NEW t \in Threads, Rearm(t)
  PROVE  ResolveInv'
<1>1. PICK m \in Nat : Round(m) /\ Resolving(m)
  BY DEF ResolveInv
<1>2. stage[t] = "rearm" /\ UNCHANGED <<kind, pc, commCounter, order, sent, received, iterationNo>>
  BY DEF Rearm, dataVars
<1>3. CASE UNCHANGED stage
  <2>1. /\ \A u \in Senders : Unsent(u)' => Unsent(u)
        /\ \A u \in Receivers : HasData(u)' => HasData(u)
        /\ AllAt("receive", {"transferred"})' => AllAt("receive", {"transferred"})
    BY <1>2, <1>3 DEF Unsent, HasData, Before, Past, AllAt, Members
  <2>2. Resolving(m)'
    BY <1>1, <1>2, <1>3, <2>1, ResolvingKept, ResolvingHas
  <2>3. Round(m)'
    BY <1>1, <1>2, <1>3 DEF Round
  <2> QED BY <2>2, <2>3 DEF ResolveInv
<1>4. CASE /\ rearmed \cup {t} = Threads
           /\ stage' = [u \in Threads |-> StageAfter(u, "rearm")]
  <2>1. \A u \in Threads : stage[u] = "rearm" /\ pc[u] = "call" /\ commCounter[u] = m
    BY <1>1, <1>2, <1>4 DEF Inv, TypeOK, Sides, Round
  <2>2. \A u \in Threads : stage'[u] \in {"update", "receive"} /\ pc'[u] = "call"
    BY <1>2, <1>4, <2>1 DEF StageAfter
  <2>3. Round(m + 1)'
    BY <1>1, <1>2, <2>1, <2>2 DEF Round
  <2>4. PICK c : c \in Receivers /\ c \in Threads
    BY ParallelCommBarrierAssumption DEF Threads
  <2>5. m = 0 \/ Resolved(m - 1)
    BY <1>1, <2>1, <2>4, ResolvingHas DEF HasData, Past
  <2>6. iterationNo = m
    BY <1>1, <2>5 DEF Resolving
  <2>7. sent \subseteq 0..(m - 1) /\ received \subseteq 0..(m - 1)
    BY <1>1 DEF Resolving
  <2>8. m \notin sent /\ m \notin received /\ sent \subseteq 0..m /\ received \subseteq 0..m
    BY <1>1, <2>7
  <2>9. \A k \in 0..(m - 1) : Resolved(k)
    <3>1. \A k \in 0..(m - 2) : Resolved(k)
      BY <1>1 DEF Resolving
    <3> QED BY <1>1, <2>5, <3>1
  <2>10. AdvancesOnSend => sent \cap received = {}
    BY <1>1 DEF Resolving
  <2>11. \A k \in Int : Resolved(k)' <=> Resolved(k)
    BY <1>2 DEF Resolved, AdvancesOnSend
  <2>12. ~Resolved(m)'
    BY <1>2, <2>8 DEF Resolved
  <2>13. \A u \in Receivers : ~HasData(u)' /\ ~(pc'[u] \in {"transfer", "transferred"})
    BY <2>2 DEF HasData, Past, Threads
  <2>14. ~AllAt("receive", {"transferred"})'
    BY <2>4, <2>13 DEF AllAt, Members
  <2>15. (m + 1) - 1 = m /\ (m + 1) - 2 = m - 1 /\ m + 1 \in Nat /\ m + 1 # 0
    BY <1>1
  <2>16. /\ sent' \subseteq 0..((m + 1) - 1) /\ received' \subseteq 0..((m + 1) - 1)
         /\ \A k \in 0..((m + 1) - 2) : Resolved(k)'
         /\ AdvancesOnSend' => sent' \cap received' = {}
    BY <1>2, <2>8, <2>9, <2>10, <2>11, <2>15 DEF AdvancesOnSend
  <2>17. iterationNo' = IF m + 1 = 0 \/ Resolved((m + 1) - 1)' THEN m + 1 ELSE (m + 1) - 1
    BY <1>2, <2>6, <2>12, <2>15
  <2>18. /\ (m + 1) - 1 \notin sent' /\ (m + 1) - 1 \notin received' /\ ~Resolved((m + 1) - 1)'
    BY <1>2, <2>8, <2>12, <2>15
  <2>19. Resolving(m + 1)'
    BY <2>13, <2>14, <2>16, <2>17, <2>18 DEF Resolving
  <2> QED BY <2>3, <2>15, <2>19 DEF ResolveInv
<1> QED BY <1>3, <1>4 DEF Rearm

(* All other steps are steps of the round. *)
LEMMA RoundKept ==
  ASSUME Inv, Inv', NEW m \in Nat, Round(m), NEW t \in Threads,
         Update(t) \/ Use(t) \/ \E s \in Sides : Wait(t, s)
  PROVE  Round(m)'
<1>1. CASE UNCHANGED <<stage, commCounter>>
  BY <1>1 DEF Round
<1>2. CASE Update(t) \/ Use(t) \/ \E s \in Sides : Return(t, s)
  <2>1. PICK n \in Nat : Round(n)'
    BY DEF Inv, InRound
  <2>2. CASE Update(t) \/ Use(t)
    <3>1. /\ stage[t] \in {"update", "use"} /\ UNCHANGED commCounter
          /\ stage'[t] = StageAfter(t, stage[t])
      BY <2>2 DEF Update, Use, Advance, Inv, TypeOK
    <3>2. \/ stage[t] = "update" /\ stage'[t] = "send"
          \/ stage[t] = "use" /\ stage'[t] = "rearm"
      BY <3>1 DEF StageAfter
    <3>3. commCounter[t] \in Nat
      BY DEF Inv, TypeOK
    <3>4. n = m
      BY <2>1, <3>1, <3>2, <3>3 DEF Round
    <3> QED BY <2>1, <3>4
  <2>3. ASSUME NEW s \in Sides, Return(t, s)
        PROVE  Round(m)'
    <3>1. /\ stage[t] = s /\ stage'[t] = StageAfter(t, s) /\ commCounter[t] \in Nat
          /\ commCounter'[t] = commCounter[t] + (IF s = "receive" \/ t \notin Receivers THEN 1 ELSE 0)
      BY <2>3 DEF Return, Advance, Inv, TypeOK
    <3>2. \/ /\ s = "send" /\ t \in Receivers /\ stage'[t] = "receive"
             /\ commCounter'[t] = commCounter[t]
          \/ /\ ~(s = "send" /\ t \in Receivers) /\ stage'[t] \in {"use", "rearm"}
             /\ commCounter'[t] = commCounter[t] + 1
      BY <3>1 DEF StageAfter, Sides
    <3>3. commCounter[t] + 1 = m
      BY <3>1 DEF Round, Sides
    <3>4. n = m
      BY <2>1, <3>1, <3>2, <3>3 DEF Round
    <3> QED BY <2>1, <3>4
  <2> QED BY <1>2, <2>2, <2>3
<1>3. ASSUME NEW s \in Sides, Wait(t, s), ~Return(t, s)
      PROVE  UNCHANGED <<stage, commCounter>>
  BY <1>3 DEF Wait, Enter, Unlock, Tally, WaitAtGate, Decide, BeforeTransfer, TransferFunction,
     AfterTransfer, Reset, Release, loopVars
<1> QED BY <1>1, <1>2, <1>3

LEMMA ResolveStep ==
  Inv /\ Inv' /\ OrderInv /\ SignalInv /\ ResolveInv /\ [Next]_vars => ResolveInv'
<1> SUFFICES ASSUME Inv, Inv', OrderInv, SignalInv, ResolveInv, [Next]_vars PROVE ResolveInv'
  OBVIOUS
<1>1. PICK m \in Nat : Round(m) /\ Resolving(m)
  BY DEF ResolveInv
<1>2. CASE UNCHANGED vars
  <2>1. UNCHANGED <<kind, stage, pc, commCounter, sent, received, iterationNo>>
    BY <1>2 DEF vars, loopVars, dataVars
  <2>2. /\ \A u \in Senders : Unsent(u)' => Unsent(u)
        /\ \A u \in Receivers : HasData(u)' => HasData(u)
        /\ AllAt("receive", {"transferred"})' => AllAt("receive", {"transferred"})
    BY <2>1 DEF Unsent, HasData, Before, Past, AllAt, Members
  <2>3. Resolving(m)'
    BY <1>1, <2>1, <2>2, ResolvingKept, ResolvingHas
  <2>4. Round(m)'
    BY <1>1, <2>1 DEF Round
  <2> QED BY <2>3, <2>4 DEF ResolveInv
<1>3. ASSUME NEW t \in Threads, Update(t) \/ Use(t)
      PROVE  ResolveInv'
  BY <1>1, <1>3, RoundKept, LoopResolving DEF ResolveInv
<1>4. ASSUME NEW t \in Threads, NEW s \in Sides, Wait(t, s)
      PROVE  ResolveInv'
  <2>1. Round(m)'
    BY <1>1, <1>4, RoundKept
  <2>2. Resolving(m)'
    <3>1. CASE Decide(t, s)
      BY <1>1, <3>1, EnterResolving, DecideResolving DEF Sides
    <3>2. CASE ~Decide(t, s)
      BY <1>1, <1>4, <3>2, EnterResolving, LoopResolving, GateResolving, TransferResolving DEF Wait
    <3> QED BY <3>1, <3>2
  <2> QED BY <2>1, <2>2 DEF ResolveInv
<1> QED BY <1>2, <1>3, <1>4, RearmResolving DEF Next, Step

LEMMA ResolveInit == Init => ResolveInv
<1> SUFFICES ASSUME Init PROVE ResolveInv
  OBVIOUS
<1>1. \A t \in Threads : stage[t] = "rearm" /\ pc[t] = "call" /\ commCounter[t] = 0
  BY DEF Init
<1>2. Round(0)
  BY <1>1 DEF Round
<1>3. \A t \in Senders : ~Unsent(t)
  BY <1>1 DEF Unsent, Before, Threads
<1>4. \A t \in Receivers : stage[t] # "receive"
  BY <1>1 DEF Threads
<1>5. sent = {} /\ received = {} /\ iterationNo = 0 /\ \A k \in 0..(0 - 2) : Resolved(k)
  BY DEF Init
<1>6. Resolving(0)
  BY <1>3, <1>4, <1>5 DEF Resolving
<1> QED BY <1>2, <1>6 DEF ResolveInv

\* When a receiving PPU is done with round k, the data of round k has come in or gone out,
\* and not both unless a gathering wants both: every decision not to receive was right.
THEOREM ResolvesOnce == Spec => []ResolvedOnce
<1>1. Inv /\ ResolveInv => ResolvedOnce
  <2> SUFFICES ASSUME Inv, ResolveInv PROVE ResolvedOnce
    OBVIOUS
  <2>1. PICK m \in Nat : Round(m) /\ Resolving(m)
    BY DEF ResolveInv
  <2>2. ASSUME NEW t \in Receivers, NEW k \in Rounds, k < commCounter[t]
        PROVE  Resolved(k)
    <3>1. t \in Threads /\ commCounter[t] \in Nat /\ k \in Nat
      BY ParallelCommBarrierAssumption DEF Threads, Inv, TypeOK, Rounds
    <3>2. k \in 0..(m - 2) => Resolved(k)
      BY <2>1 DEF Resolving
    <3>3. CASE stage[t] \in {"use", "rearm"}
      <4>1. commCounter[t] = m
        BY <2>1, <3>1, <3>3 DEF Round
      <4>2. m = 0 \/ Resolved(m - 1)
        BY <2>1, <3>3, ResolvingHas DEF HasData, Past
      <4>3. k = m - 1 \/ k \in 0..(m - 2)
        BY <2>2, <3>1, <4>1
      <4> QED BY <2>2, <3>1, <3>2, <4>1, <4>2, <4>3
    <3>4. CASE stage[t] \notin {"use", "rearm"}
      <4>1. commCounter[t] + 1 = m
        BY <2>1, <3>1, <3>4 DEF Round
      <4>2. k \in 0..(m - 2)
        BY <2>2, <3>1, <4>1
      <4> QED BY <3>2, <4>2
    <3> QED BY <3>3, <3>4
  <2>3. AdvancesOnSend => sent \cap received = {}
    BY <2>1 DEF Resolving
  <2> QED BY <2>2, <2>3 DEF ResolvedOnce, Resolved
<1> QED BY <1>1, Invariance, OrderInit, OrderStep, SignalInit, SignalStep, ResolveInit, ResolveStep,
           PTL DEF Spec
=============================================================================
