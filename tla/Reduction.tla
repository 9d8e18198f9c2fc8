------------------------------ MODULE Reduction ------------------------------
(***************************************************************************)
(* A parallel reduction: runtime/reduction/ together with the code that    *)
(* reduction_primitive_mgmt.cc, reduction_boundary_impl.cc and             *)
(* lps_tran_block_impl.cc generate around it.                              *)
(*                                                                         *)
(* In each round every PPU controller resets its partial result, folds the *)
(* values of its own LPUs into it and calls reduce() on the primitive its  *)
(* segment shares.  The primitive is a semaphore barrier (as Barrier) that *)
(* accumulates on entry; its releaser combines the segments' results with  *)
(* MPI_Allreduce, delivers the outcome and wakes the others.               *)
(*                                                                         *)
(* A task-global reduction delivers to one variable per segment.  A        *)
(* reduction that is not task-global delivers to a variable of each thread *)
(* and keeps the outcome with the LPU, from where the threads take it when *)
(* they come to that LPU again.                                            *)
(***************************************************************************)
EXTENDS Integers, FiniteSets

CONSTANTS Segments,     \* the MPI processes of the segment group
          Ppus,         \* the PPU controllers with a valid id in the executing LPS
          SegmentOf,    \* SegmentOf[t]: the segment PPU t is in
          Kinds,        \* the kinds of reduction to consider ...
          Ops,          \* ... and the operators
          INT_MIN, INT_MAX,
          Bits,         \* the bits of an int
          Values,       \* Values[op]: what a PPU's LPUs may have to contribute
          MaxRounds     \* bound: how many times the reduction is executed

AllKinds == {"TaskGlobal", "NonTaskGlobal"}
AllOps   == {"SUM", "MAX", "MIN", "LAND", "LOR", "BAND", "BOR"}

Members(s) == {t \in Ppus : SegmentOf[t] = s}
Size(s)    == Cardinality(Members(s))
Rounds     == 1..MaxRounds

ASSUME ReductionAssumption ==
  /\ IsFiniteSet(Segments) /\ IsFiniteSet(Ppus)
  /\ SegmentOf \in [Ppus -> Segments]
  /\ \A s \in Segments : Members(s) # {}
  /\ Kinds \subseteq AllKinds /\ Ops \subseteq AllOps
  /\ MaxRounds \in Nat

-----------------------------------------------------------------------------
(* Operators and values.  For the bitwise operators an int is the set of its *)
(* bits that are 1.                                                          *)

SignBit == "sign"
Operands(op) == CASE op = "SUM"             -> Int
                  [] op \in {"MAX", "MIN"}  -> INT_MIN..INT_MAX
                  [] op \in {"LAND", "LOR"} -> BOOLEAN
                  [] op \in {"BAND", "BOR"} -> SUBSET Bits

ASSUME ValueAssumption ==
  /\ INT_MIN \in Int /\ INT_MAX \in Int /\ INT_MIN <= INT_MAX
  /\ SignBit \in Bits
  /\ \A o \in Ops : Values[o] \subseteq Operands(o)

Combine(op, x, y) == CASE op = "SUM"  -> x + y
                       [] op = "MAX"  -> IF x < y THEN y ELSE x
                       [] op = "MIN"  -> IF x > y THEN y ELSE x
                       [] op = "LAND" -> x /\ y
                       [] op = "LOR"  -> x \/ y
                       [] op = "BAND" -> x \cap y
                       [] op = "BOR"  -> x \cup y

\* resetPartialResult; for BAND the code assigns INT_MAX.
ResetValue(op) == CASE op = "SUM"  -> 0
                    [] op = "MAX"  -> INT_MIN
                    [] op = "MIN"  -> INT_MAX
                    [] op = "LAND" -> TRUE
                    [] op = "LOR"  -> FALSE
                    [] op = "BAND" -> Bits \ {SignBit}
                    [] op = "BOR"  -> {}

\* The mathematical neutral element: the reduction of nothing.
Neutral(op) == CASE op = "SUM"  -> 0
                 [] op = "MAX"  -> INT_MIN
                 [] op = "MIN"  -> INT_MAX
                 [] op = "LAND" -> TRUE
                 [] op = "LOR"  -> FALSE
                 [] op = "BAND" -> Bits
                 [] op = "BOR"  -> {}

-----------------------------------------------------------------------------
VARIABLES
  kind, op,       \* the reduction's metadata
  pc,             \* pc[t]: where PPU t stands in its loop and in reduce()
  rounds,         \* rounds[t]: calls of reduce() that have returned to t
  partial,        \* partial[t]: the PPU's reduction::Result
  property,       \* the program's result variable: per segment or per PPU
  count, mutex, throttle, waitq, woken,    \* per segment, as in Barrier
  intermediate,   \* intermediate[s]: *intermediateResult of segment s
  localTargets,   \* localTargets[s]: the PPUs whose variable is to be updated
  inAllreduce,    \* the segments blocked in MPI_Allreduce
  combined,       \* what MPI_Allreduce has received from them, combined
  expected        \* history: expected[k], the reduction of round k's values

semaphores == <<mutex, throttle, waitq>>
vars == <<kind, op, pc, rounds, partial, property, count, woken, semaphores,
          intermediate, localTargets, inAllreduce, combined, expected>>

Init == /\ kind \in Kinds /\ op \in Ops
        /\ pc           = [t \in Ppus |-> "top"]
        /\ rounds       = [t \in Ppus |-> 0]
        /\ partial      = [t \in Ppus |-> ResetValue(op)]
        /\ property     = [v \in Ppus \cup Segments |-> ResetValue(op)]
        /\ count        = [s \in Segments |-> Size(s)]
        /\ mutex        = [s \in Segments |-> 1]
        /\ throttle     = [s \in Segments |-> 0]
        /\ waitq        = [s \in Segments |-> 0]
        /\ woken        = [s \in Segments |-> 1]
        /\ intermediate = [s \in Segments |-> ResetValue(op)]
        /\ localTargets = [s \in Segments |-> {}]
        /\ inAllreduce  = {}
        /\ combined     = ResetValue(op)
        /\ expected     = [k \in Rounds |-> Neutral(op)]

Goto(t, label) == pc' = [pc EXCEPT ![t] = label]

\* The variable in which PPU t finds the outcome: task globals are shared by the
\* threads of a segment, thread locals are not.
PropertyOf(t) == IF kind = "TaskGlobal" THEN SegmentOf[t] ELSE t

-----------------------------------------------------------------------------
(* The generated code. *)

\* A thread comes to the LPU: if the result is not task-global, what was stored
\* for the LPU becomes the value of the thread's variable.
Prepare(t) ==
  /\ pc[t] = "top"
  /\ rounds[t] < MaxRounds
  /\ property' = IF kind = "TaskGlobal" THEN property
                 ELSE [property EXCEPT ![t] = intermediate[SegmentOf[t]]]
  /\ Goto(t, "use")
  /\ UNCHANGED <<kind, op, rounds, partial, count, woken, semaphores,
                 intermediate, localTargets, inAllreduce, combined, expected>>

\* Mutant: the partial result of the last round is not reset.
Compute_NoReset(t) ==
  /\ pc[t] = "use"
  /\ \E v \in Values[op] :
       /\ partial' = [partial EXCEPT ![t] = Combine(op, @, v)]
       /\ expected' = [expected EXCEPT ![rounds[t] + 1] = Combine(op, @, v)]
  /\ Goto(t, "reduce")
  /\ UNCHANGED <<kind, op, rounds, property, count, woken, semaphores,
                 intermediate, localTargets, inAllreduce, combined>>
\* resetPartialResult(), then the reduction stage over the LPUs, if there are any.
Compute(t) ==
  /\ pc[t] = "use"
  /\ \/ /\ partial' = [partial EXCEPT ![t] = ResetValue(op)]
        /\ UNCHANGED expected
     \/ \E v \in Values[op] :
          /\ partial' = [partial EXCEPT ![t] = Combine(op, ResetValue(op), v)]
          /\ expected' = [expected EXCEPT ![rounds[t] + 1] = Combine(op, @, v)]
  /\ Goto(t, "reduce")
  /\ UNCHANGED <<kind, op, rounds, property, count, woken, semaphores,
                 intermediate, localTargets, inAllreduce, combined>>

-----------------------------------------------------------------------------
(* TaskGlobalReductionBarrier::reduce, NonTaskGlobalReductionBarrier::reduce *)

\* initFunction for the first thread of a round, entryFunction for the others.
Accumulate(t, s) == IF count[s] = Size(s) THEN partial[t]
                    ELSE Combine(op, intermediate[s], partial[t])

\* Mutant: the releaser is picked one arrival too early.
Last_Early(s) == count[s] <= 2
\* _count-- leaves nobody missing.
Last(s) == count[s] = 1

Enter(t, s) ==
  /\ pc[t] = "reduce"
  /\ mutex[s] > 0
  /\ mutex' = [mutex EXCEPT ![s] = @ - 1]
  /\ intermediate' = [intermediate EXCEPT ![s] = Accumulate(t, s)]
  /\ count' = [count EXCEPT ![s] = @ - 1]
  /\ localTargets' = [localTargets EXCEPT
                        ![s] = IF kind = "TaskGlobal" THEN @ ELSE @ \cup {t}]
  /\ woken' = [woken EXCEPT ![s] = 1]
  /\ Goto(t, IF ~Last(s) THEN "unlock"
             ELSE IF Cardinality(Segments) > 1 THEN "allreduce" ELSE "deliver")
  /\ UNCHANGED <<kind, op, rounds, partial, property, throttle, waitq,
                 inAllreduce, combined, expected>>

Unlock(t, s) ==
  /\ pc[t] = "unlock"
  /\ mutex' = [mutex EXCEPT ![s] = @ + 1]
  /\ Goto(t, "sleep")
  /\ UNCHANGED <<kind, op, rounds, partial, property, count, woken, throttle,
                 waitq, intermediate, localTargets, inAllreduce, combined, expected>>

\* performCrossSegmentReduction: MPI_Allreduce returns to no caller before all
\* segments have called it, and gives the same value to all of them.
Releaser(s) == CHOOSE r \in Members(s) : pc[r] = "allreduce"
CombinedWith(s) == IF inAllreduce = {} THEN intermediate[s]
                   ELSE Combine(op, combined, intermediate[s])

Allreduce(t, s) ==
  /\ pc[t] = "allreduce"
  /\ s \notin inAllreduce
  /\ combined' = CombinedWith(s)
  /\ IF inAllreduce \cup {s} = Segments
       THEN /\ inAllreduce' = {}
            /\ intermediate' = [u \in Segments |-> combined']
            /\ pc' = [u \in Ppus |-> IF \E r \in Segments : u = Releaser(r)
                                     THEN "deliver" ELSE pc[u]]
       ELSE /\ inAllreduce' = inAllreduce \cup {s}
            /\ UNCHANGED <<intermediate, pc>>
  /\ UNCHANGED <<kind, op, rounds, partial, property, count, woken, semaphores,
                 localTargets, expected>>

\* The variables the outcome goes to.
Targets(t, s) == IF kind = "TaskGlobal" THEN {s} ELSE localTargets[s]

\* releaseFunction's last part; executeFinalStepOfReduction.
Deliver(t, s) ==
  /\ pc[t] = "deliver"
  /\ property' = [v \in DOMAIN property |-> IF v \in Targets(t, s) THEN intermediate[s]
                                            ELSE property[v]]
  /\ localTargets' = [localTargets EXCEPT ![s] = {}]
  /\ Goto(t, "release")
  /\ UNCHANGED <<kind, op, rounds, partial, count, woken, semaphores,
                 intermediate, inAllreduce, combined, expected>>

Return(t) == /\ Goto(t, "top")
             /\ rounds' = [rounds EXCEPT ![t] = @ + 1]

WakeUp(t, s) ==
  /\ pc[t] = "sleep"
  /\ waitq[s] > 0
  /\ waitq' = [waitq EXCEPT ![s] = @ - 1]
  /\ Goto(t, "answer")
  /\ UNCHANGED <<kind, op, rounds, partial, property, count, woken, mutex,
                 throttle, intermediate, localTargets, inAllreduce, combined, expected>>

Answer(t, s) ==
  /\ pc[t] = "answer"
  /\ throttle' = [throttle EXCEPT ![s] = @ + 1]
  /\ Return(t)
  /\ UNCHANGED <<kind, op, partial, property, count, woken, mutex, waitq,
                 intermediate, localTargets, inAllreduce, combined, expected>>

AllAwake(s) == woken[s] >= Size(s)

PostWaitq(t, s) ==
  /\ pc[t] = "release"
  /\ ~AllAwake(s)
  /\ waitq' = [waitq EXCEPT ![s] = @ + 1]
  /\ Goto(t, "throttled")
  /\ UNCHANGED <<kind, op, rounds, partial, property, count, woken, mutex,
                 throttle, intermediate, localTargets, inAllreduce, combined, expected>>

AwaitAnswer(t, s) ==
  /\ pc[t] = "throttled"
  /\ throttle[s] > 0
  /\ throttle' = [throttle EXCEPT ![s] = @ - 1]
  /\ woken' = [woken EXCEPT ![s] = @ + 1]
  /\ Goto(t, "release")
  /\ UNCHANGED <<kind, op, rounds, partial, property, count, mutex, waitq,
                 intermediate, localTargets, inAllreduce, combined, expected>>

\* Mutant: the next round would not find itself at its beginning.
Reset_KeepsCount(t, s) ==
  /\ pc[t] = "release"
  /\ AllAwake(s)
  /\ mutex' = [mutex EXCEPT ![s] = @ + 1]
  /\ Return(t)
  /\ UNCHANGED <<kind, op, partial, property, count, woken, throttle, waitq,
                 intermediate, localTargets, inAllreduce, combined, expected>>
Reset(t, s) ==
  /\ pc[t] = "release"
  /\ AllAwake(s)
  /\ count' = [count EXCEPT ![s] = Size(s)]
  /\ mutex' = [mutex EXCEPT ![s] = @ + 1]
  /\ Return(t)
  /\ UNCHANGED <<kind, op, partial, property, woken, throttle, waitq,
                 intermediate, localTargets, inAllreduce, combined, expected>>

Reduce(t, s) == \/ Enter(t, s) \/ Unlock(t, s) \/ Allreduce(t, s) \/ Deliver(t, s)
                \/ WakeUp(t, s) \/ Answer(t, s) \/ PostWaitq(t, s)
                \/ AwaitAnswer(t, s) \/ Reset(t, s)

Step(t) == Prepare(t) \/ Compute(t) \/ Reduce(t, SegmentOf[t])

Next == \E t \in Ppus : Step(t)

Spec == Init /\ [][Next]_vars

\* PPU controllers are pthreads; each one that can go on eventually does.
FairSpec == Spec /\ \A t \in Ppus : WF_vars(Step(t))

-----------------------------------------------------------------------------
\* What a BAND reduction cannot lose to the INT_MAX it starts from.
Kept(o, v) == IF o = "BAND" THEN v \ {SignBit} ELSE v
Outcome(t) == rounds[t] > 0 =>
  Kept(op, property[PropertyOf(t)]) = Kept(op, expected[rounds[t]])

\* Every PPU of every segment returns from reduce() with the reduction of just
\* the values of this round: none missing, none counted twice, none of an earlier
\* or a later round; PPUs without a value of their own change nothing.
ReturnsOutcome == \A t \in Ppus : pc[t] = "top" => Outcome(t)

\* No PPU of any segment returns from a round before all PPUs of all segments
\* have handed in their partial results.
Calls(t) == rounds[t] + (IF pc[t] \in {"top", "use", "reduce"} THEN 0 ELSE 1)
Abstract == INSTANCE Rendezvous WITH Threads <- Ppus, departed <- rounds,
                                     arrived <- [t \in Ppus |-> Calls(t)]
ReducesTogether == Abstract!Spec

\* Nobody waits forever, neither for a thread nor for a segment.
AllRoundsComplete == <>[](\A t \in Ppus : pc[t] = "top" /\ rounds[t] = MaxRounds)
=============================================================================
