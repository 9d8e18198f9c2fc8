------------------------------- MODULE Epochs -------------------------------
(***************************************************************************)
(* The versions of epoch-dependent data.  A stage that runs inside an      *)
(* epoch block may read a variable `at (current - j)': the value it had j  *)
(* epochs ago.  A part of an array keeps its versions in a circular array  *)
(* of allocation units (DataPart, memory-management/allocation.{h,cc}), of *)
(* which the LPU holds references; a scalar keeps them in TaskGlobals,     *)
(* which the threads of a segment share.                                   *)
(*                                                                         *)
(* The code generated for an epoch block (EpochBoundaryBlock, epoch_       *)
(* boundary_impl.cc) advances the versions of the parts, refreshes the     *)
(* LPU, shifts the scalars and then runs the nested stages.  All PPU       *)
(* controllers of the group that holds the LPU pass through it; the stages *)
(* are executed only by those that are a valid PPU of the LPS.             *)
(*                                                                         *)
(* Of the data only its age is told apart: an allocation unit holds the    *)
(* number of the computation that wrote it, 0 from the beginning.          *)
(***************************************************************************)
EXTENDS Integers, Sequences

CONSTANTS Threads,      \* the PPU controllers of a segment that run the epoch block
          ValidPpus,    \* those that execute the stage inside
          LpusOf,       \* LpusOf[t]: the LPUs t iterates over, in their order
          PartOf,       \* PartOf[l]: the part of the array that LPU l computes on
          Lags,         \* the version count of the array ...
          ScalarLags,   \* ... and that of the scalar
          MaxEpochs     \* bound: passes through the epoch block

Lpus  == DOMAIN PartOf
Parts == {PartOf[l] : l \in Lpus}

ASSUME EpochsAssumption ==
  /\ ValidPpus \subseteq Threads
  /\ \A t \in Threads : LpusOf[t] \in Seq(Lpus) \ {<<>>}
  /\ Lags \in Nat \ {0} /\ ScalarLags \in Nat \ {0}
  /\ MaxEpochs \in Nat

epochCount == Lags + 1
Versions   == 0..Lags

VARIABLES
  nested,         \* the array is used in an LPS below that of the block
  pc, at,         \* where thread t stands, and at which of its LPUs
  epochs,         \* epochs[t]: passes of t
  next,           \* next[t]: the head t has computed but not stored
  epochHead,      \* of each part
  dataVersions,   \* of each part: what its allocation units hold
  lpu,            \* lpu[t][l][j]: the allocation unit t's LPU l finds at lag j
  scalar,         \* scalar[j]: the task global and its copies at lag j
  computed,       \* of each part: how often it was computed ...
  scalarComputed  \* ... and the scalar

vars == <<nested, pc, at, epochs, next, epochHead, dataVersions, lpu, scalar,
          computed, scalarComputed>>

\* All versions of a part that is loaded have the same content.
synchronizeAllVersions(v) == [j \in Versions |-> v]

Init == /\ nested \in BOOLEAN
        /\ pc        = [t \in Threads |-> "advance"]
        /\ at        = [t \in Threads |-> 1]
        /\ epochs    = [t \in Threads |-> 0]
        /\ next      = [t \in Threads |-> 0]
        /\ epochHead = [p \in Parts |-> 0]
        /\ lpu       = [t \in Threads |-> [l \in Lpus |-> [j \in Versions |-> j]]]
        /\ dataVersions = [p \in Parts |-> synchronizeAllVersions(0)]
        /\ computed     = [p \in Parts |-> 0]
        /\ scalar       = [j \in 0..ScalarLags |-> 0]
        /\ scalarComputed = 0

-----------------------------------------------------------------------------
\* The LPUs of one pass: those of the LPS below, or just the current one.
Visited(t) == IF nested THEN LpusOf[t] ELSE SubSeq(LpusOf[t], 1, 1)
Current(t) == Visited(t)[at[t]]
Goto(t, label) == pc' = [pc EXCEPT ![t] = label]

\* On to the next LPU at pc `again', or, after the last one, to pc `done'.
NextLpu(t, again, done) == IF at[t] < Len(Visited(t))
                             THEN /\ at' = [at EXCEPT ![t] = @ + 1]
                                  /\ Goto(t, again)
                             ELSE /\ at' = [at EXCEPT ![t] = 1]
                                  /\ Goto(t, done)

\* dataPart->advanceEpoch(), which is not atomic: reading the head ...
AdvanceEpoch(t) ==
  /\ pc[t] = "advance"
  /\ epochs[t] < MaxEpochs
  /\ next' = [next EXCEPT ![t] = (epochHead[PartOf[Current(t)]] + 1) % epochCount]
  /\ Goto(t, "store")
  /\ UNCHANGED <<nested, at, epochs, epochHead, dataVersions, lpu, scalar, computed,
                 scalarComputed>>

\* ... and storing it.
StoreHead(t) ==
  /\ pc[t] = "store"
  /\ epochHead' = [epochHead EXCEPT ![PartOf[Current(t)]] = next[t]]
  /\ IF nested THEN NextLpu(t, "advance", "shift")
               ELSE /\ Goto(t, "generate")
                    /\ UNCHANGED at
  /\ UNCHANGED <<nested, epochs, next, dataVersions, lpu, scalar, computed,
                 scalarComputed>>

\* DataPart::getData: the allocation unit of version j.
getData(p, j) == (epochHead[p] + j) % epochCount

\* Mutant: the current LPU keeps the references it has.
GenerateLpu_Stale(t) ==
  /\ pc[t] = "generate"
  /\ LET l == Current(t) IN
       lpu' = IF nested THEN [lpu EXCEPT ![t][l] = [j \in Versions |-> getData(PartOf[l], j)]]
                        ELSE lpu
  /\ Goto(t, IF nested THEN "compute" ELSE "shift")
  /\ UNCHANGED <<nested, at, epochs, next, epochHead, dataVersions, scalar, computed,
                 scalarComputed>>
\* generateSpace<A>Lpu: right after the advance if the LPU is the current one,
\* otherwise when the loop inside the block comes to it.
GenerateLpu(t) ==
  /\ pc[t] = "generate"
  /\ LET l == Current(t) IN
       lpu' = [lpu EXCEPT ![t][l] = [j \in Versions |-> getData(PartOf[l], j)]]
  /\ Goto(t, IF nested THEN "compute" ELSE "shift")
  /\ UNCHANGED <<nested, at, epochs, next, epochHead, dataVersions, scalar, computed,
                 scalarComputed>>

\* Mutant: shifted from the near end.
Shifted_Forward == [j \in 0..ScalarLags |-> scalar[0]]
\* x_lag_v = x_lag_(v - 1), beginning with the oldest; x itself stays.
Shifted == [j \in 0..ScalarLags |-> IF j = 0 THEN scalar[0] ELSE scalar[j - 1]]

ShiftScalars(t) ==
  /\ pc[t] = "shift"
  /\ scalar' = Shifted
  /\ Goto(t, IF nested THEN "generate" ELSE "compute")
  /\ UNCHANGED <<nested, at, epochs, next, epochHead, dataVersions, lpu, computed,
                 scalarComputed>>

EndOfPass(t) == pc'[t] = "advance"

\* The stage computes the current versions of the LPU's part and, with the last
\* LPU of the pass, of the scalar; a thread that is no PPU of the LPS skips it.
Compute(t) ==
  /\ pc[t] = "compute"
  /\ NextLpu(t, "generate", "advance")
  /\ IF t \in ValidPpus
       THEN LET l == Current(t)
                p == PartOf[l] IN
              /\ computed' = [computed EXCEPT ![p] = @ + 1]
              /\ dataVersions' = [dataVersions EXCEPT ![p][lpu[t][l][0]] = computed'[p]]
       ELSE UNCHANGED <<dataVersions, computed>>
  /\ IF t \in ValidPpus /\ EndOfPass(t)
       THEN /\ scalarComputed' = scalarComputed + 1
            /\ scalar' = [scalar EXCEPT ![0] = scalarComputed']
       ELSE UNCHANGED <<scalar, scalarComputed>>
  /\ epochs' = [epochs EXCEPT ![t] = IF EndOfPass(t) THEN @ + 1 ELSE @]
  /\ UNCHANGED <<nested, next, epochHead, lpu>>

Step(t) == AdvanceEpoch(t) \/ StoreHead(t) \/ GenerateLpu(t) \/ ShiftScalars(t)
           \/ Compute(t)

Next == \E t \in Threads : Step(t)

Spec == Init /\ [][Next]_vars

-----------------------------------------------------------------------------
\* What was computed j epochs before the one that is about to compute, n
\* computations having been made: the n-th is that of 1 epoch ago; 0 is the data
\* from the beginning.
Ago(n, j) == IF j <= n THEN n + 1 - j ELSE 0

\* Only one LPU of one thread has part p in its passes.
Unshared(p) ==
  \A t, u \in Threads : \A i \in 1..Len(LpusOf[t]), k \in 1..Len(LpusOf[u]) :
    PartOf[LpusOf[t][i]] = p /\ PartOf[LpusOf[u][k]] = p => t = u /\ i = k

\* A stage about to compute an LPU finds, under the lags of an array, the last
\* epochs of the LPU's part, as many as there are lags and none of them lost or
\* found twice: although a part's head is moved in two steps while other threads
\* advance theirs, in whatever LPS the array is used, and however the threads are
\* ahead of each other.  For a part that one LPU only has; which lag finds which
\* of these epochs is what ArrayVersions says.
VersionsKept ==
  \A t \in ValidPpus :
    LET l == Current(t)
        p == PartOf[l]
    IN pc[t] = "compute" /\ Unshared(p) =>
         {dataVersions[p][lpu[t][l][j]] : j \in 1..Lags} = {Ago(computed[p], j) : j \in 1..Lags}

\* A stage that reads an array at (current - j) finds what the LPU's part held j
\* epochs ago, for any number of lags and whoever else has the part.
ArrayVersions ==
  \A t \in ValidPpus : pc[t] = "compute" =>
    LET l == Current(t)
        p == PartOf[l]
    IN \A j \in 1..Lags : dataVersions[p][lpu[t][l][j]] = Ago(computed[p], j)

ScalarsLag == \A j \in 1..ScalarLags : scalar[j] = Ago(scalarComputed, j)

\* The thread has shifted the scalar, in this pass or before.
HasShifted(t) == epochs[t] > 0 \/ pc[t] = "compute" \/ (nested /\ pc[t] = "generate")

\* A stage that reads a scalar at (current - j) finds the value of j epochs ago, as long as no
\* other controller of the segment has come to shift it.
ScalarsKept ==
  \A t \in ValidPpus :
    pc[t] = "compute" /\ (\A u \in Threads \ {t} : ~HasShifted(u)) => ScalarsLag

\* A stage that reads a scalar at (current - j) finds the value of j epochs ago, whoever else
\* runs in the segment.
ScalarVersions == \A t \in ValidPpus : pc[t] = "compute" => ScalarsLag
=============================================================================
