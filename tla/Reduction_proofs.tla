--------------------------- MODULE Reduction_proofs ---------------------------
(***************************************************************************)
(* A reduction brings the PPUs of all segments together, for any number of *)
(* segments, PPUs per segment and rounds, and gives each of them what the  *)
(* values of the round come to, for any operator and any values.           *)
(*                                                                         *)
(* That nobody returns from reduce() before everybody has called it:       *)
(* within a segment the argument is that of Barrier_proofs; between the    *)
(* segments it is that a segment passes MPI_Allreduce only with all the    *)
(* others, and that by then all of its own PPUs are inside.                *)
(*                                                                         *)
(* That the outcome is the round's: FoldsTo relates a set of PPUs to what  *)
(* their partial results come to, in whatever order they are combined; the *)
(* accumulators of the segments, MPI_Allreduce and the history of what is  *)
(* expected are such reductions, of the PPUs that have got that far.       *)
(***************************************************************************)
EXTENDS Reduction, FiniteSetTheorems, TLAPS

Labels == {"top", "use", "reduce", "unlock", "allreduce", "deliver", "release",
           "throttled", "sleep", "answer"}

Outside(t) == pc[t] \in {"top", "use", "reduce"}
\* Between sem_wait and sem_post on the mutex.
Holds(t)   == pc[t] \in {"unlock", "allreduce", "deliver", "release", "throttled"}
\* The last arrival of its segment, until it leaves.
Leads(t)   == pc[t] \in {"allreduce", "deliver", "release", "throttled"}
\* ... when all segments have arrived.
Through(t) == pc[t] \in {"deliver", "release", "throttled"}

InsideSet(s) == {t \in Members(s) : ~Outside(t)}
Sleepers(s)  == {t \in Members(s) : pc[t] = "sleep"}

TypeOK == /\ pc \in [Ppus -> Labels]
          /\ rounds \in [Ppus -> Nat]
          /\ count \in [Segments -> Nat]
          /\ mutex \in [Segments -> {0, 1}]
          /\ throttle \in [Segments -> {0, 1}]
          /\ waitq \in [Segments -> {0, 1}]
          /\ woken \in [Segments -> Nat]
          /\ inAllreduce \in SUBSET Segments

\* The mutex of a segment is down exactly while one of its PPUs holds it.
MutexHeld(s) == /\ \A t, u \in Members(s) : Holds(t) /\ Holds(u) => t = u
                /\ mutex[s] = 0 <=> \E t \in Members(s) : Holds(t)

\* While a segment gathers, _count is what the arrivals left of _size, and no wake-up
\* is under way.
Gathering(s) ==
  (\A t \in Members(s) : ~Leads(t)) =>
    /\ count[s] = Size(s) - Cardinality(InsideSet(s))
    /\ count[s] >= 1
    /\ waitq[s] = 0 /\ throttle[s] = 0
    /\ \A t \in Members(s) : pc[t] # "answer"

\* When it has gathered, what is left to wake is what still sleeps ...
Gathered(s) ==
  \A r \in Members(s) : pc[r] \in {"allreduce", "deliver", "release"} =>
    /\ count[s] = 0
    /\ waitq[s] = 0 /\ throttle[s] = 0
    /\ \A t \in Members(s) : pc[t] # "answer"
    /\ Cardinality(Sleepers(s)) = Size(s) - woken[s]

\* ... and nobody leaves before the outcome is there.
Complete(s) ==
  \A r \in Members(s) : pc[r] \in {"allreduce", "deliver"} =>
    /\ woken[s] = 1
    /\ \A t \in Members(s) : ~Outside(t)

\* A post, the PPU it woke, or its answer.
Throttled(s) ==
  \A r \in Members(s) : pc[r] = "throttled" =>
    /\ count[s] = 0
    /\ woken[s] < Size(s)
    /\ \A t, u \in Members(s) : pc[t] = "answer" /\ pc[u] = "answer" => t = u
    /\ \/ /\ waitq[s] = 1 /\ throttle[s] = 0
          /\ \A t \in Members(s) : pc[t] # "answer"
          /\ Cardinality(Sleepers(s)) = Size(s) - woken[s]
       \/ /\ waitq[s] = 0 /\ throttle[s] = 0
          /\ \E t \in Members(s) : pc[t] = "answer"
          /\ Cardinality(Sleepers(s)) = Size(s) - woken[s] - 1
       \/ /\ waitq[s] = 0 /\ throttle[s] = 1
          /\ \A t \in Members(s) : pc[t] # "answer"
          /\ Cardinality(Sleepers(s)) = Size(s) - woken[s] - 1

SegmentInv(s) == MutexHeld(s) /\ Gathering(s) /\ Gathered(s) /\ Complete(s) /\ Throttled(s)

\* A segment is in MPI_Allreduce through the PPU that arrived last.
InAllreduce == \A s \in inAllreduce : \E t \in Members(s) : pc[t] = "allreduce"

\* All PPUs of segments that are through the round have made k calls; the others have
\* returned from k calls.
At(k) == \A t \in Ppus :
           IF \E r \in Members(SegmentOf[t]) : Through(r) THEN Calls(t) = k ELSE rounds[t] = k
Together == \E k \in Nat : At(k)

Inv == TypeOK /\ (\A s \in Segments : SegmentInv(s)) /\ InAllreduce /\ Together

-----------------------------------------------------------------------------
(* Segments *)

LEMMA SegmentType ==
  ASSUME NEW s \in Segments
  PROVE  /\ IsFiniteSet(Members(s)) /\ Members(s) # {} /\ Members(s) \subseteq Ppus
         /\ Size(s) \in Nat \ {0}
<1>1. /\ Members(s) \in SUBSET Ppus /\ Members(s) # {}
      /\ IsFiniteSet(Ppus)
  BY ReductionAssumption DEF Members
<1>2. IsFiniteSet(Members(s))
  BY <1>1, FS_Subset
<1> QED BY <1>1, <1>2, FS_CardinalityType, FS_EmptySet DEF Size

(* Every set of PPUs of a segment is finite and no larger than _size. *)
LEMMA SubsetType ==
  ASSUME NEW s \in Segments, NEW S \in SUBSET Members(s)
  PROVE  /\ IsFiniteSet(S)
         /\ Cardinality(S) \in 0..Size(s)
         /\ Cardinality(S) = Size(s) => S = Members(s)
         /\ Cardinality(S) = 0 => S = {}
  BY SegmentType, FS_Subset, FS_CardinalityType, FS_EmptySet DEF Size

LEMMA SegmentOfType ==
  ASSUME NEW t \in Ppus
  PROVE  SegmentOf[t] \in Segments /\ t \in Members(SegmentOf[t])
  BY ReductionAssumption DEF Members

(* A segment in which nothing happens keeps its invariant, whatever its PPUs do outside
   reduce(). *)
LEMMA Frame ==
  ASSUME NEW s \in Segments, SegmentInv(s),
         \A t \in Members(s) : pc'[t] = pc[t] \/ (Outside(t) /\ Outside(t)'),
         count'[s] = count[s], mutex'[s] = mutex[s], throttle'[s] = throttle[s],
         waitq'[s] = waitq[s], woken'[s] = woken[s]
  PROVE  SegmentInv(s)'
<1>1. /\ \A t \in Members(s) : (Holds(t)' <=> Holds(t)) /\ (Leads(t)' <=> Leads(t))
                                /\ (Outside(t)' <=> Outside(t))
      /\ \A t \in Members(s), l \in {"allreduce", "deliver", "release", "throttled",
                                     "sleep", "answer"} : pc'[t] = l <=> pc[t] = l
      /\ Members(s)' = Members(s) /\ Size(s)' = Size(s)
  BY DEF Holds, Leads, Outside, Members, Size
<1>2. InsideSet(s)' = InsideSet(s) /\ Sleepers(s)' = Sleepers(s)
  BY <1>1 DEF InsideSet, Sleepers
<1>3. MutexHeld(s)' /\ Complete(s)'
  BY <1>1 DEF SegmentInv, MutexHeld, Complete
<1>4. Gathering(s)'
  BY <1>1, <1>2 DEF SegmentInv, Gathering
<1>5. Gathered(s)'
  BY <1>1, <1>2 DEF SegmentInv, Gathered
<1>6. Throttled(s)'
  BY <1>1, <1>2 DEF SegmentInv, Throttled
<1> QED BY <1>3, <1>4, <1>5, <1>6 DEF SegmentInv

(* What t does, in its own segment alone, keeps the invariant of the others. *)
LEMMA Elsewhere ==
  ASSUME TypeOK, NEW t \in Ppus, NEW label, Goto(t, label),
         \A u \in Segments : SegmentInv(u),
         \A u \in Segments \ {SegmentOf[t]} :
           /\ count'[u] = count[u] /\ mutex'[u] = mutex[u]
           /\ throttle'[u] = throttle[u] /\ waitq'[u] = waitq[u] /\ woken'[u] = woken[u]
  PROVE  \A u \in Segments \ {SegmentOf[t]} : SegmentInv(u)'
<1> SUFFICES ASSUME NEW u \in Segments \ {SegmentOf[t]} PROVE SegmentInv(u)'
  OBVIOUS
<1>1. \A r \in Members(u) : pc'[r] = pc[r]
  BY DEF TypeOK, Goto, Members
<1> QED BY <1>1, Frame

-----------------------------------------------------------------------------
(* Rounds *)

(* Who is through, and how often everybody has called, stays the same. *)
LEMMA AtKept ==
  ASSUME NEW k \in Nat, At(k),
         \A u \in Segments :
           (\E r \in Members(u) : Through(r)') <=> (\E r \in Members(u) : Through(r)),
         \A t \in Ppus : IF \E r \in Members(SegmentOf[t]) : Through(r)
                        THEN Calls(t)' = Calls(t) ELSE rounds'[t] = rounds[t]
  PROVE  At(k)'
<1> SUFFICES ASSUME NEW t \in Ppus
             PROVE  IF \E r \in Members(SegmentOf[t]) : Through(r)'
                    THEN Calls(t)' = k ELSE rounds'[t] = k
  BY DEF At, Members
<1>1. SegmentOf[t] \in Segments
  BY SegmentOfType
<1> QED BY <1>1 DEF At

LEMMA TogetherKept ==
  ASSUME Together,
         \A u \in Segments :
           (\E r \in Members(u) : Through(r)') <=> (\E r \in Members(u) : Through(r)),
         \A t \in Ppus : IF \E r \in Members(SegmentOf[t]) : Through(r)
                        THEN Calls(t)' = Calls(t) ELSE rounds'[t] = rounds[t]
  PROVE  Together'
  BY AtKept DEF Together

(* All segments go through the round at once. *)
LEMMA AllThrough ==
  ASSUME TypeOK, Together,
         \A t \in Ppus : ~Through(t),
         rounds' = rounds,
         \A u \in Segments : \E r \in Members(u) : Through(r)',
         \A t \in Ppus : ~Outside(t)'
  PROVE  Together'
<1>1. PICK k \in Nat : At(k)
  BY DEF Together
<1>2. \A t \in Ppus : rounds[t] = k
  BY <1>1, SegmentOfType DEF At, Members
<1>3. \A t \in Ppus : Calls(t)' = k + 1
  BY <1>2 DEF Calls, Outside
<1>4. At(k + 1)'
  BY <1>3, SegmentOfType DEF At, Members
<1> QED BY <1>4 DEF Together

LEMMA InitInv == Init => Inv
<1> SUFFICES ASSUME Init PROVE Inv
  OBVIOUS
<1>1. TypeOK
  BY SegmentType DEF Init, TypeOK, Labels
<1>2. ASSUME NEW s \in Segments
      PROVE  SegmentInv(s)
  <2>1. \A t \in Members(s) : pc[t] = "top"
    BY DEF Init, Members
  <2>2. InsideSet(s) = {}
    BY <2>1 DEF InsideSet, Outside
  <2>3. /\ count[s] = Size(s) /\ mutex[s] = 1 /\ throttle[s] = 0
        /\ waitq[s] = 0 /\ woken[s] = 1
    BY DEF Init
  <2>4. Gathering(s)
    BY <2>1, <2>2, <2>3, SegmentType, FS_EmptySet DEF Gathering
  <2>5. MutexHeld(s)
    BY <2>1, <2>3 DEF MutexHeld, Holds
  <2>6. Gathered(s) /\ Complete(s) /\ Throttled(s)
    BY <2>1 DEF Gathered, Complete, Throttled
  <2> QED BY <2>4, <2>5, <2>6 DEF SegmentInv
<1>3. InAllreduce
  BY DEF Init, InAllreduce
<1>4. At(0)
  BY DEF Init, At, Through, Members
<1> QED BY <1>1, <1>2, <1>3, <1>4 DEF Inv, Together

-----------------------------------------------------------------------------
(* What the steps have in common *)

LEMMA AllreduceKept ==
  ASSUME TypeOK, InAllreduce, NEW t \in Ppus, NEW label, Goto(t, label),
         pc[t] # "allreduce", inAllreduce' = inAllreduce
  PROVE  InAllreduce'
<1> SUFFICES ASSUME NEW s \in inAllreduce
             PROVE  \E r \in Members(s) : pc'[r] = "allreduce"
  BY DEF InAllreduce, Members
<1>1. PICK r \in Members(s) : pc[r] = "allreduce"
  BY DEF InAllreduce
<1>2. pc'[r] = pc[r]
  BY <1>1 DEF TypeOK, Goto, Members
<1> QED BY <1>1, <1>2

(* Nobody goes through, and calls neither begin nor end in a segment that is through. *)
LEMMA InsideMove ==
  ASSUME TypeOK, Together, NEW t \in Ppus, NEW label \in Labels, Goto(t, label),
         rounds' = rounds,
         Through(t)' <=> Through(t),
         (Outside(t)' <=> Outside(t))
           \/ ~\E r \in Members(SegmentOf[t]) : Through(r)
  PROVE  Together'
<1>1. \A r \in Ppus : r # t => pc'[r] = pc[r]
  BY DEF TypeOK, Goto
<1>2. \A u \in Segments :
        (\E r \in Members(u) : Through(r)') <=> (\E r \in Members(u) : Through(r))
  BY <1>1 DEF Members, Through
<1>3. ASSUME NEW r \in Ppus
      PROVE  IF \E q \in Members(SegmentOf[r]) : Through(q)
             THEN Calls(r)' = Calls(r) ELSE rounds'[r] = rounds[r]
  <2>1. CASE r = t /\ \E q \in Members(SegmentOf[t]) : Through(q)
    BY <2>1 DEF Calls, Outside
  <2>2. CASE r # t
    BY <1>1, <2>2 DEF Calls
  <2> QED BY <2>1, <2>2
<1> QED BY <1>2, <1>3, TogetherKept

LEMMA StepInv ==
  ASSUME Inv, NEW t \in Ppus, NEW label, Goto(t, label),
         \A u \in Segments \ {SegmentOf[t]} :
           /\ count'[u] = count[u] /\ mutex'[u] = mutex[u]
           /\ throttle'[u] = throttle[u] /\ waitq'[u] = waitq[u] /\ woken'[u] = woken[u],
         TypeOK', SegmentInv(SegmentOf[t])', InAllreduce', Together'
  PROVE  Inv'
<1>1. \A u \in Segments \ {SegmentOf[t]} : SegmentInv(u)'
  BY Elsewhere DEF Inv
<1>2. \A u \in Segments : SegmentInv(u)'
  BY <1>1
<1> QED BY <1>2 DEF Inv

-----------------------------------------------------------------------------
(* One lemma per action *)

LEMMA OutsideInv ==
  ASSUME Inv, NEW t \in Ppus, Prepare(t) \/ Compute(t)
  PROVE  Inv'
<1>1. PICK label \in {"use", "reduce"} : Goto(t, label) /\ pc[t] \in {"top", "use"}
  BY DEF Prepare, Compute
<1>2. UNCHANGED <<rounds, count, woken, mutex, throttle, waitq, inAllreduce>>
  BY DEF Prepare, Compute, semaphores
<1>3. pc \in [Ppus -> Labels] /\ pc' = [pc EXCEPT ![t] = label]
  BY <1>1 DEF Inv, TypeOK, Goto
<1>4. TypeOK'
  BY <1>1, <1>2, <1>3 DEF Inv, TypeOK, Labels
<1>5. \A u \in Segments : SegmentInv(u)'
  <2> SUFFICES ASSUME NEW u \in Segments PROVE SegmentInv(u)'
    OBVIOUS
  <2>1. \A r \in Members(u) : pc'[r] = pc[r] \/ (Outside(r) /\ Outside(r)')
    BY <1>1, <1>3 DEF Members, Outside
  <2> QED BY <1>2, <2>1, Frame DEF Inv
<1>6. InAllreduce'
  BY <1>1, <1>2, AllreduceKept DEF Inv
<1>7. Together'
  <2>1. (Through(t)' <=> Through(t)) /\ (Outside(t)' <=> Outside(t))
    BY <1>1, <1>3 DEF Through, Outside
  <2> QED BY <1>1, <1>2, <2>1, InsideMove DEF Inv, Labels
<1> QED BY <1>4, <1>5, <1>6, <1>7 DEF Inv

LEMMA UnlockInv ==
  ASSUME Inv, NEW t \in Ppus, NEW s, s = SegmentOf[t], Unlock(t, s)
  PROVE  Inv'
<1>0. s \in Segments /\ t \in Members(s)
  BY SegmentOfType
<1>1. /\ pc[t] = "unlock" /\ pc \in [Ppus -> Labels]
      /\ pc' = [pc EXCEPT ![t] = "sleep"] /\ Goto(t, "sleep")
      /\ mutex' = [mutex EXCEPT ![s] = mutex[s] + 1]
      /\ UNCHANGED <<count, throttle, waitq, woken, rounds, inAllreduce>>
  BY DEF Inv, TypeOK, Unlock, Goto
<1>2. /\ mutex[s] = 0
      /\ \A r \in Members(s) \ {t} : ~Holds(r)
  BY <1>0, <1>1 DEF Inv, SegmentInv, MutexHeld, Holds
<1>3. /\ mutex \in [Segments -> {0, 1}] /\ mutex'[s] = 1
      /\ \A u \in Segments \ {s} : mutex'[u] = mutex[u]
  BY <1>0, <1>1, <1>2 DEF Inv, TypeOK
<1>4. TypeOK'
  BY <1>0, <1>1, <1>2, <1>3 DEF Inv, TypeOK, Labels
<1>5. /\ InsideSet(s)' = InsideSet(s)
      /\ \A r \in Members(s) : ~Leads(r) /\ ~Leads(r)' /\ ~Holds(r)'
      /\ Members(s)' = Members(s) /\ Size(s)' = Size(s)
  BY <1>0, <1>1, <1>2 DEF InsideSet, Outside, Leads, Holds, Members, Size
<1>6. SegmentInv(s)'
  <2>1. MutexHeld(s)'
    BY <1>3, <1>5 DEF MutexHeld
  <2>2. Gathering(s)'
    <3>1. \A r \in Members(s) : pc[r] # "answer" => pc'[r] # "answer"
      BY <1>1 DEF Members
    <3> QED BY <1>0, <1>1, <1>5, <3>1 DEF Inv, SegmentInv, Gathering
  <2>3. Gathered(s)' /\ Complete(s)' /\ Throttled(s)'
    BY <1>5 DEF Gathered, Complete, Throttled, Leads
  <2> QED BY <2>1, <2>2, <2>3 DEF SegmentInv
<1>7. InAllreduce'
  BY <1>1, AllreduceKept DEF Inv
<1>8. Together'
  <2>1. (Through(t)' <=> Through(t)) /\ (Outside(t)' <=> Outside(t))
    BY <1>1 DEF Through, Outside
  <2> QED BY <1>1, <2>1, InsideMove DEF Inv, Labels
<1> QED BY <1>1, <1>3, <1>4, <1>6, <1>7, <1>8, StepInv

LEMMA DeliverInv ==
  ASSUME Inv, NEW t \in Ppus, NEW s, s = SegmentOf[t], Deliver(t, s)
  PROVE  Inv'
<1>0. s \in Segments /\ t \in Members(s)
  BY SegmentOfType
<1>1. /\ pc[t] = "deliver" /\ pc \in [Ppus -> Labels]
      /\ pc' = [pc EXCEPT ![t] = "release"] /\ Goto(t, "release")
      /\ UNCHANGED <<count, mutex, throttle, waitq, woken, rounds, inAllreduce>>
  BY DEF Inv, TypeOK, Deliver, Goto, semaphores
<1>2. TypeOK'
  BY <1>1 DEF Inv, TypeOK, Labels
<1>3. /\ count[s] = 0 /\ waitq[s] = 0 /\ throttle[s] = 0
      /\ \A r \in Members(s) : pc[r] # "answer"
      /\ Cardinality(Sleepers(s)) = Size(s) - woken[s]
      /\ \A r \in Members(s) \ {t} : ~Holds(r)
  BY <1>0, <1>1 DEF Inv, SegmentInv, Gathered, MutexHeld, Holds
<1>4. /\ Sleepers(s)' = Sleepers(s) /\ Members(s)' = Members(s) /\ Size(s)' = Size(s)
      /\ \A r \in Members(s) : (Holds(r)' <=> Holds(r)) /\ (Leads(r)' <=> Leads(r))
      /\ \A r \in Members(s) : pc'[r] # "answer" /\ (r # t => pc'[r] = pc[r])
  BY <1>0, <1>1, <1>3 DEF Sleepers, Members, Size, Holds, Leads
<1>5. SegmentInv(s)'
  <2>1. MutexHeld(s)'
    BY <1>0, <1>1, <1>4 DEF Inv, SegmentInv, MutexHeld
  <2>2. Gathering(s)'
    BY <1>0, <1>1, <1>4 DEF Gathering, Leads
  <2>3. Gathered(s)'
    BY <1>1, <1>3, <1>4 DEF Gathered
  <2>4. Complete(s)' /\ Throttled(s)'
    BY <1>0, <1>1, <1>3, <1>4 DEF Complete, Throttled, Holds
  <2> QED BY <2>1, <2>2, <2>3, <2>4 DEF SegmentInv
<1>6. InAllreduce'
  BY <1>1, AllreduceKept DEF Inv
<1>7. Together'
  <2>1. (Through(t)' <=> Through(t)) /\ (Outside(t)' <=> Outside(t))
    BY <1>1 DEF Through, Outside
  <2> QED BY <1>1, <2>1, InsideMove DEF Inv, Labels
<1> QED BY <1>1, <1>2, <1>5, <1>6, <1>7, StepInv

LEMMA PostWaitqInv ==
  ASSUME Inv, NEW t \in Ppus, NEW s, s = SegmentOf[t], PostWaitq(t, s)
  PROVE  Inv'
<1>0. s \in Segments /\ t \in Members(s)
  BY SegmentOfType
<1>1. /\ pc[t] = "release" /\ pc \in [Ppus -> Labels]
      /\ pc' = [pc EXCEPT ![t] = "throttled"] /\ Goto(t, "throttled")
      /\ ~(woken[s] >= Size(s)) /\ woken[s] \in Nat
      /\ waitq' = [waitq EXCEPT ![s] = waitq[s] + 1] /\ waitq \in [Segments -> {0, 1}]
      /\ UNCHANGED <<count, mutex, throttle, woken, rounds, inAllreduce>>
  BY <1>0 DEF Inv, TypeOK, PostWaitq, AllAwake, Goto
<1>2. /\ count[s] = 0 /\ waitq[s] = 0 /\ throttle[s] = 0
      /\ \A r \in Members(s) : pc[r] # "answer"
      /\ Cardinality(Sleepers(s)) = Size(s) - woken[s]
      /\ \A r \in Members(s) \ {t} : ~Holds(r)
  BY <1>0, <1>1 DEF Inv, SegmentInv, Gathered, MutexHeld, Holds
<1>3. waitq'[s] = 1 /\ \A u \in Segments \ {s} : waitq'[u] = waitq[u]
  BY <1>0, <1>1, <1>2
<1>4. TypeOK'
  BY <1>0, <1>1, <1>2 DEF Inv, TypeOK, Labels
<1>5. /\ Sleepers(s)' = Sleepers(s) /\ Members(s)' = Members(s) /\ Size(s)' = Size(s)
      /\ \A r \in Members(s) : (Holds(r)' <=> Holds(r)) /\ (Leads(r)' <=> Leads(r))
      /\ \A r \in Members(s) : pc'[r] # "answer" /\ (r # t => pc'[r] = pc[r])
  BY <1>0, <1>1, <1>2 DEF Sleepers, Members, Size, Holds, Leads
<1>6. SegmentInv(s)'
  <2>1. MutexHeld(s)'
    BY <1>0, <1>1, <1>5 DEF Inv, SegmentInv, MutexHeld
  <2>2. Gathering(s)'
    BY <1>0, <1>1, <1>5 DEF Gathering, Leads
  <2>3. Gathered(s)' /\ Complete(s)'
    BY <1>0, <1>1, <1>2, <1>5 DEF Gathered, Complete, Holds
  <2>4. Throttled(s)'
    BY <1>1, <1>2, <1>3, <1>5, SegmentType, <1>0 DEF Throttled
  <2> QED BY <2>1, <2>2, <2>3, <2>4 DEF SegmentInv
<1>7. InAllreduce'
  BY <1>1, AllreduceKept DEF Inv
<1>8. Together'
  <2>1. (Through(t)' <=> Through(t)) /\ (Outside(t)' <=> Outside(t))
    BY <1>1 DEF Through, Outside
  <2> QED BY <1>1, <2>1, InsideMove DEF Inv, Labels
<1> QED BY <1>1, <1>3, <1>4, <1>6, <1>7, <1>8, StepInv

(* Someone awake, or awakened, means that someone waits for the answer. *)
LEMMA AwakeThrottled ==
  ASSUME Inv, NEW s \in Segments,
         waitq[s] = 1 \/ throttle[s] = 1 \/ \E t \in Members(s) : pc[t] = "answer"
  PROVE  \E r \in Members(s) : pc[r] = "throttled"
<1>1. PICK r \in Members(s) : Leads(r)
  BY DEF Inv, SegmentInv, Gathering
<1>2. pc[r] \notin {"allreduce", "deliver", "release"}
  BY DEF Inv, SegmentInv, Gathered
<1> QED BY <1>1, <1>2 DEF Leads

LEMMA WakeUpInv ==
  ASSUME Inv, NEW t \in Ppus, NEW s, s = SegmentOf[t], WakeUp(t, s)
  PROVE  Inv'
<1>0. s \in Segments /\ t \in Members(s)
  BY SegmentOfType
<1>1. /\ pc[t] = "sleep" /\ pc \in [Ppus -> Labels]
      /\ pc' = [pc EXCEPT ![t] = "answer"] /\ Goto(t, "answer")
      /\ waitq \in [Segments -> {0, 1}] /\ waitq[s] = 1
      /\ waitq' = [waitq EXCEPT ![s] = waitq[s] - 1]
      /\ UNCHANGED <<count, mutex, throttle, woken, rounds, inAllreduce>>
  BY <1>0 DEF Inv, TypeOK, WakeUp, Goto
<1>2. waitq'[s] = 0 /\ \A u \in Segments \ {s} : waitq'[u] = waitq[u]
  BY <1>0, <1>1
<1>3. TypeOK'
  BY <1>0, <1>1 DEF Inv, TypeOK, Labels
<1>4. PICK r \in Members(s) : pc[r] = "throttled"
  BY <1>0, <1>1, AwakeThrottled
<1>5. /\ count[s] = 0 /\ throttle[s] = 0 /\ woken[s] < Size(s)
      /\ \A q \in Members(s) : pc[q] # "answer"
      /\ Cardinality(Sleepers(s)) = Size(s) - woken[s]
      /\ \A q \in Members(s) \ {r} : ~Holds(q)
  BY <1>0, <1>1, <1>4 DEF Inv, SegmentInv, Throttled, MutexHeld, Holds
<1>6. /\ Members(s)' = Members(s) /\ Size(s)' = Size(s)
      /\ \A q \in Members(s) : (Holds(q)' <=> Holds(q)) /\ (Leads(q)' <=> Leads(q))
      /\ \A q \in Members(s) : pc'[q] = "answer" <=> q = t
      /\ pc'[r] = "throttled"
  BY <1>0, <1>1, <1>4, <1>5 DEF Members, Size, Holds, Leads
<1>7. Cardinality(Sleepers(s)') = Cardinality(Sleepers(s)) - 1
  <2>1. Sleepers(s)' = Sleepers(s) \ {t} /\ t \in Sleepers(s)
    BY <1>0, <1>1 DEF Sleepers, Members
  <2>2. IsFiniteSet(Sleepers(s))
    BY <1>0, SubsetType DEF Sleepers
  <2> QED BY <2>1, <2>2, FS_RemoveElement
<1>8. SegmentInv(s)'
  <2>1. MutexHeld(s)'
    BY <1>0, <1>1, <1>6 DEF Inv, SegmentInv, MutexHeld
  <2>2. Gathering(s)'
    BY <1>6 DEF Gathering, Leads
  <2>3. Gathered(s)' /\ Complete(s)'
    BY <1>4, <1>5, <1>6 DEF Gathered, Complete, Holds
  <2>4. Throttled(s)'
    <3>1. Cardinality(Sleepers(s))' = Size(s)' - woken'[s] - 1
      BY <1>1, <1>5, <1>6, <1>7
    <3> QED BY <1>0, <1>1, <1>2, <1>5, <1>6, <3>1 DEF Throttled
  <2> QED BY <2>1, <2>2, <2>3, <2>4 DEF SegmentInv
<1>9. InAllreduce'
  BY <1>1, AllreduceKept DEF Inv
<1>10. Together'
  <2>1. (Through(t)' <=> Through(t)) /\ (Outside(t)' <=> Outside(t))
    BY <1>1 DEF Through, Outside
  <2> QED BY <1>1, <2>1, InsideMove DEF Inv, Labels
<1> QED BY <1>1, <1>2, <1>3, <1>8, <1>9, <1>10, StepInv

LEMMA AwaitAnswerInv ==
  ASSUME Inv, NEW t \in Ppus, NEW s, s = SegmentOf[t], AwaitAnswer(t, s)
  PROVE  Inv'
<1>0. s \in Segments /\ t \in Members(s)
  BY SegmentOfType
<1>1. /\ pc[t] = "throttled" /\ pc \in [Ppus -> Labels]
      /\ pc' = [pc EXCEPT ![t] = "release"] /\ Goto(t, "release")
      /\ throttle \in [Segments -> {0, 1}] /\ throttle[s] = 1
      /\ throttle' = [throttle EXCEPT ![s] = throttle[s] - 1]
      /\ woken \in [Segments -> Nat] /\ woken' = [woken EXCEPT ![s] = woken[s] + 1]
      /\ UNCHANGED <<count, mutex, waitq, rounds, inAllreduce>>
  BY <1>0 DEF Inv, TypeOK, AwaitAnswer, Goto
<1>2. /\ throttle'[s] = 0 /\ woken'[s] = woken[s] + 1 /\ woken[s] \in Nat
      /\ \A u \in Segments \ {s} : throttle'[u] = throttle[u] /\ woken'[u] = woken[u]
  BY <1>0, <1>1
<1>3. TypeOK'
  BY <1>0, <1>1 DEF Inv, TypeOK, Labels
<1>4. /\ count[s] = 0 /\ waitq[s] = 0
      /\ \A q \in Members(s) : pc[q] # "answer"
      /\ Cardinality(Sleepers(s)) = Size(s) - woken[s] - 1
      /\ \A q \in Members(s) \ {t} : ~Holds(q)
  BY <1>0, <1>1 DEF Inv, SegmentInv, Throttled, MutexHeld, Holds
<1>5. /\ Sleepers(s)' = Sleepers(s) /\ Members(s)' = Members(s) /\ Size(s)' = Size(s)
      /\ \A r \in Members(s) : (Holds(r)' <=> Holds(r)) /\ (Leads(r)' <=> Leads(r))
      /\ \A r \in Members(s) : pc'[r] # "answer" /\ (r # t => pc'[r] = pc[r])
  BY <1>0, <1>1, <1>4 DEF Sleepers, Members, Size, Holds, Leads
<1>6. SegmentInv(s)'
  <2>1. MutexHeld(s)'
    BY <1>0, <1>1, <1>5 DEF Inv, SegmentInv, MutexHeld
  <2>2. Gathering(s)'
    BY <1>0, <1>1, <1>5 DEF Gathering, Leads
  <2>3. Gathered(s)'
    <3>1. Cardinality(Sleepers(s))' = Size(s)' - woken'[s]
      BY <1>0, <1>2, <1>4, <1>5, SegmentType
    <3> QED BY <1>1, <1>2, <1>4, <1>5, <3>1 DEF Gathered
  <2>4. Complete(s)' /\ Throttled(s)'
    BY <1>0, <1>1, <1>4, <1>5 DEF Complete, Throttled, Holds
  <2> QED BY <2>1, <2>2, <2>3, <2>4 DEF SegmentInv
<1>7. InAllreduce'
  BY <1>1, AllreduceKept DEF Inv
<1>8. Together'
  <2>1. (Through(t)' <=> Through(t)) /\ (Outside(t)' <=> Outside(t))
    BY <1>1 DEF Through, Outside
  <2> QED BY <1>1, <2>1, InsideMove DEF Inv, Labels
<1> QED BY <1>1, <1>2, <1>3, <1>6, <1>7, <1>8, StepInv

(* A return from reduce() of a segment that is through changes no number of calls. *)
LEMMA ReturnCalls ==
  ASSUME TypeOK, NEW t \in Ppus, ~Outside(t), Return(t)
  PROVE  \A r \in Ppus : Calls(r)' = Calls(r)
  BY DEF TypeOK, Return, Goto, Calls, Outside

LEMMA AnswerInv ==
  ASSUME Inv, NEW t \in Ppus, NEW s, s = SegmentOf[t], Answer(t, s)
  PROVE  Inv'
<1>0. s \in Segments /\ t \in Members(s)
  BY SegmentOfType
<1>1. /\ pc[t] = "answer" /\ pc \in [Ppus -> Labels]
      /\ pc' = [pc EXCEPT ![t] = "top"] /\ Goto(t, "top") /\ Return(t)
      /\ rounds \in [Ppus -> Nat] /\ rounds' = [rounds EXCEPT ![t] = rounds[t] + 1]
      /\ throttle \in [Segments -> {0, 1}]
      /\ throttle' = [throttle EXCEPT ![s] = throttle[s] + 1]
      /\ UNCHANGED <<count, mutex, waitq, woken, inAllreduce>>
  BY DEF Inv, TypeOK, Answer, Return, Goto
<1>2. PICK r \in Members(s) : pc[r] = "throttled"
  BY <1>0, <1>1, AwakeThrottled
<1>3. /\ count[s] = 0 /\ waitq[s] = 0 /\ throttle[s] = 0 /\ woken[s] < Size(s)
      /\ \A q \in Members(s) : pc[q] = "answer" => q = t
      /\ Cardinality(Sleepers(s)) = Size(s) - woken[s] - 1
      /\ \A q \in Members(s) \ {r} : ~Holds(q)
  BY <1>0, <1>1, <1>2 DEF Inv, SegmentInv, Throttled, MutexHeld, Holds
<1>4. throttle'[s] = 1 /\ \A u \in Segments \ {s} : throttle'[u] = throttle[u]
  BY <1>0, <1>1, <1>3
<1>5. TypeOK'
  BY <1>0, <1>1, <1>3 DEF Inv, TypeOK, Labels
<1>6. /\ Members(s)' = Members(s) /\ Size(s)' = Size(s) /\ Sleepers(s)' = Sleepers(s)
      /\ \A q \in Members(s) : (Holds(q)' <=> Holds(q)) /\ (Leads(q)' <=> Leads(q))
      /\ \A q \in Members(s) : pc'[q] # "answer"
      /\ pc'[r] = "throttled"
  BY <1>0, <1>1, <1>2, <1>3 DEF Members, Size, Sleepers, Holds, Leads
<1>7. SegmentInv(s)'
  <2>1. MutexHeld(s)'
    BY <1>0, <1>1, <1>6 DEF Inv, SegmentInv, MutexHeld
  <2>2. Gathering(s)'
    BY <1>6 DEF Gathering, Leads
  <2>3. Gathered(s)' /\ Complete(s)'
    BY <1>2, <1>3, <1>6 DEF Gathered, Complete, Holds
  <2>4. Throttled(s)'
    BY <1>1, <1>3, <1>4, <1>6 DEF Throttled
  <2> QED BY <2>1, <2>2, <2>3, <2>4 DEF SegmentInv
<1>8. InAllreduce'
  BY <1>1, AllreduceKept DEF Inv
<1>9. Together'
  <2>1. \A q \in Ppus : Through(q)' <=> Through(q)
    BY <1>1 DEF Through
  <2>2. \A u \in Segments :
          (\E q \in Members(u) : Through(q)') <=> (\E q \in Members(u) : Through(q))
    BY <2>1 DEF Members
  <2>3. \A q \in Ppus : Calls(q)' = Calls(q)
    BY <1>1, ReturnCalls DEF Inv, Outside
  <2>4. \A q \in Ppus : ~(\E u \in Members(SegmentOf[q]) : Through(u)) => rounds'[q] = rounds[q]
    <3>1. \E u \in Members(SegmentOf[t]) : Through(u)
      BY <1>2 DEF Through
    <3> QED BY <1>1, <3>1
  <2> QED BY <2>2, <2>3, <2>4, TogetherKept DEF Inv
<1> QED BY <1>1, <1>4, <1>5, <1>7, <1>8, <1>9, StepInv

LEMMA ResetInv ==
  ASSUME Inv, NEW t \in Ppus, NEW s, s = SegmentOf[t], Reset(t, s)
  PROVE  Inv'
<1>0. s \in Segments /\ t \in Members(s) /\ Size(s) \in Nat \ {0}
  BY SegmentOfType, SegmentType
<1>1. /\ pc[t] = "release" /\ pc \in [Ppus -> Labels]
      /\ pc' = [pc EXCEPT ![t] = "top"] /\ Goto(t, "top") /\ Return(t)
      /\ rounds \in [Ppus -> Nat] /\ rounds' = [rounds EXCEPT ![t] = rounds[t] + 1]
      /\ woken[s] >= Size(s) /\ woken[s] \in Nat
      /\ count' = [count EXCEPT ![s] = Size(s)]
      /\ mutex' = [mutex EXCEPT ![s] = mutex[s] + 1]
      /\ UNCHANGED <<throttle, waitq, woken, inAllreduce>>
  BY <1>0 DEF Inv, TypeOK, Reset, AllAwake, Return, Goto
<1>2. /\ waitq[s] = 0 /\ throttle[s] = 0
      /\ \A q \in Members(s) : pc[q] # "answer"
      /\ Cardinality(Sleepers(s)) = Size(s) - woken[s]
      /\ mutex[s] = 0
      /\ \A q \in Members(s) \ {t} : ~Holds(q)
  BY <1>0, <1>1 DEF Inv, SegmentInv, Gathered, MutexHeld, Holds
<1>3. /\ mutex \in [Segments -> {0, 1}] /\ mutex'[s] = 1
      /\ count \in [Segments -> Nat] /\ count'[s] = Size(s)
      /\ \A u \in Segments \ {s} : mutex'[u] = mutex[u] /\ count'[u] = count[u]
  BY <1>0, <1>1, <1>2 DEF Inv, TypeOK
<1>4. TypeOK'
  BY <1>0, <1>1, <1>2, <1>3 DEF Inv, TypeOK, Labels
<1>5. \A q \in Members(s) \ {t} : Outside(q)
  <2>1. Sleepers(s) = {}
    <3>1. Sleepers(s) \in SUBSET Members(s)
      BY DEF Sleepers
    <3>2. Cardinality(Sleepers(s)) = 0
      BY <1>0, <1>1, <1>2, <3>1, SubsetType
    <3> QED BY <1>0, <3>1, <3>2, SubsetType
  <2>2. \A q \in Members(s) : pc[q] \in Labels /\ pc[q] # "sleep"
    BY <1>1, <2>1 DEF Sleepers, Members
  <2> QED BY <1>2, <2>2 DEF Outside, Holds, Labels
<1>6. /\ \A q \in Members(s) : Outside(q)' /\ ~Holds(q)' /\ ~Leads(q)' /\ pc'[q] # "answer"
      /\ \A q \in Members(s) : ~Through(q)'
      /\ Members(s)' = Members(s) /\ Size(s)' = Size(s)
  BY <1>0, <1>1, <1>5 DEF Members, Size, Outside, Holds, Leads, Through
<1>7. SegmentInv(s)'
  <2>1. MutexHeld(s)'
    BY <1>3, <1>6 DEF MutexHeld
  <2>2. InsideSet(s)' = {}
    BY <1>6 DEF InsideSet
  <2>3. Gathering(s)'
    BY <1>0, <1>1, <1>2, <1>3, <1>6, <2>2, FS_EmptySet DEF Gathering
  <2>4. Gathered(s)' /\ Complete(s)' /\ Throttled(s)'
    BY <1>6 DEF Gathered, Complete, Throttled, Leads
  <2> QED BY <2>1, <2>3, <2>4 DEF SegmentInv
<1>8. InAllreduce'
  BY <1>1, AllreduceKept DEF Inv
<1>9. Together'
  <2>1. PICK k \in Nat : At(k)
    BY DEF Inv, Together
  <2>2. \A q \in Ppus : Calls(q)' = Calls(q)
    BY <1>1, ReturnCalls DEF Inv, Outside
  <2>3. \A q \in Members(s) : Calls(q) = k
    BY <1>0, <1>1, <2>1 DEF At, Members, Through
  <2>4. \A q \in Members(s) : rounds'[q] = k
    <3>1. \A q \in Members(s) : rounds'[q] = Calls(q)'
      BY <1>1, <1>4, <1>6 DEF Calls, Outside, TypeOK, Members
    <3> QED BY <2>2, <2>3, <3>1 DEF Members
  <2>5. \A q \in Ppus \ Members(s) : pc'[q] = pc[q] /\ rounds'[q] = rounds[q]
    BY <1>0, <1>1
  <2>6. At(k)'
    <3> SUFFICES ASSUME NEW q \in Ppus
                 PROVE  IF \E r \in Members(SegmentOf[q]) : Through(r)'
                        THEN Calls(q)' = k ELSE rounds'[q] = k
      BY DEF At, Members
    <3>1. CASE SegmentOf[q] = s
      <4>1. q \in Members(s)
        BY <3>1 DEF Members
      <4> QED BY <1>6, <2>4, <3>1, <4>1
    <3>2. CASE SegmentOf[q] # s
      <4>1. \A r \in Members(SegmentOf[q]) : Through(r)' <=> Through(r)
        BY <2>5, <3>2 DEF Members, Through
      <4>2. q \in Ppus \ Members(s)
        BY <3>2 DEF Members
      <4> QED BY <2>1, <2>2, <2>5, <4>1, <4>2 DEF At
    <3> QED BY <3>1, <3>2
  <2> QED BY <2>6 DEF Together
<1> QED BY <1>1, <1>3, <1>4, <1>7, <1>8, <1>9, StepInv

LEMMA EnterInv ==
  ASSUME Inv, NEW t \in Ppus, NEW s, s = SegmentOf[t], Enter(t, s)
  PROVE  Inv'
<1> DEFINE label == IF count[s] # 1 THEN "unlock"
                    ELSE IF Cardinality(Segments) > 1 THEN "allreduce" ELSE "deliver"
<1>0. s \in Segments /\ t \in Members(s) /\ Size(s) \in Nat \ {0}
  BY SegmentOfType, SegmentType
<1>1. /\ pc[t] = "reduce" /\ pc \in [Ppus -> Labels]
      /\ pc' = [pc EXCEPT ![t] = label] /\ Goto(t, label)
      /\ mutex \in [Segments -> {0, 1}] /\ mutex[s] > 0
      /\ mutex' = [mutex EXCEPT ![s] = mutex[s] - 1]
      /\ count \in [Segments -> Nat] /\ count' = [count EXCEPT ![s] = count[s] - 1]
      /\ woken \in [Segments -> Nat] /\ woken' = [woken EXCEPT ![s] = 1]
      /\ UNCHANGED <<throttle, waitq, rounds, inAllreduce>>
  BY DEF Inv, TypeOK, Enter, Last, Goto
<1>2. /\ label \in Labels
      /\ count[s] # 1 => label = "unlock"
      /\ count[s] = 1 => label \in {"allreduce", "deliver"}
  BY DEF Labels
<1>3. mutex[s] = 1 /\ \A q \in Members(s) : ~Holds(q)
  BY <1>0, <1>1 DEF Inv, SegmentInv, MutexHeld
<1> HIDE DEF label
<1>4. /\ count[s] = Size(s) - Cardinality(InsideSet(s)) /\ count[s] >= 1 /\ count[s] \in Nat
      /\ waitq[s] = 0 /\ throttle[s] = 0
      /\ \A q \in Members(s) : pc[q] # "answer"
  BY <1>0, <1>1, <1>3 DEF Inv, SegmentInv, Gathering, Holds, Leads
<1>5. /\ mutex'[s] = 0 /\ count'[s] = count[s] - 1 /\ woken'[s] = 1
      /\ \A u \in Segments \ {s} : mutex'[u] = mutex[u] /\ count'[u] = count[u]
                                     /\ woken'[u] = woken[u]
  BY <1>0, <1>1, <1>3
<1>6. TypeOK'
  BY <1>0, <1>1, <1>2, <1>3, <1>4 DEF Inv, TypeOK
<1>7. /\ Members(s)' = Members(s) /\ Size(s)' = Size(s)
      /\ pc'[t] = label
      /\ \A q \in Members(s) : q # t => pc'[q] = pc[q]
      /\ \A q \in Members(s) : pc'[q] # "answer"
      /\ \A q \in Members(s) : Holds(q)' <=> q = t
  BY <1>0, <1>1, <1>2, <1>3, <1>4 DEF Members, Size, Holds
<1>8. /\ InsideSet(s)' = InsideSet(s) \cup {t}
      /\ Cardinality(InsideSet(s)') = Cardinality(InsideSet(s)) + 1
      /\ Cardinality(InsideSet(s)) \in Nat
  <2>1. InsideSet(s)' = InsideSet(s) \cup {t} /\ t \notin InsideSet(s)
    BY <1>0, <1>1, <1>2, <1>7 DEF InsideSet, Outside
  <2>2. IsFiniteSet(InsideSet(s)) /\ Cardinality(InsideSet(s)) \in Nat
    BY <1>0, SubsetType DEF InsideSet
  <2> QED BY <2>1, <2>2, FS_AddElement
<1>9. MutexHeld(s)'
  BY <1>0, <1>5, <1>7 DEF MutexHeld
<1>10. CASE count[s] = 1
  <2>1. InsideSet(s)' = Members(s)
    <3>1. Cardinality(InsideSet(s)') = Size(s)
      BY <1>0, <1>4, <1>8, <1>10
    <3>2. InsideSet(s)' \in SUBSET Members(s)
      BY <1>7 DEF InsideSet
    <3> QED BY <1>0, <3>1, <3>2, SubsetType
  <2>2. \A q \in Members(s) : ~Outside(q)'
    BY <1>7, <2>1 DEF InsideSet
  <2>3. Sleepers(s)' = Members(s) \ {t}
    <3>1. \A q \in Members(s) \ {t} : pc'[q] = "sleep"
      BY <1>1, <1>3, <1>4, <1>7, <2>2 DEF Labels, Members, Holds, Outside
    <3>2. pc'[t] # "sleep"
      BY <1>2, <1>7, <1>10
    <3> QED BY <1>7, <3>1, <3>2 DEF Sleepers
  <2>4. Cardinality(Sleepers(s)') = Size(s) - 1
    BY <1>0, <2>3, SegmentType, FS_RemoveElement DEF Size
  <2>5. \A q \in Members(s) : pc'[q] \in {"allreduce", "deliver", "release", "throttled"}
                               <=> q = t
    BY <1>2, <1>7, <1>10 DEF Holds
  <2>6. Gathered(s)' /\ Complete(s)'
    <3>1. Cardinality(Sleepers(s))' = Size(s)' - woken'[s]
      BY <1>5, <1>7, <2>4
    <3>2. count'[s] = 0
      BY <1>5, <1>10
    <3> QED BY <1>1, <1>4, <1>5, <1>7, <2>2, <3>1, <3>2 DEF Gathered, Complete
  <2>7. Gathering(s)' /\ Throttled(s)'
    BY <1>0, <1>2, <1>7, <1>10, <2>5 DEF Gathering, Throttled, Leads
  <2>8. SegmentInv(s)'
    BY <1>9, <2>6, <2>7 DEF SegmentInv
  <2>9. InAllreduce'
    BY <1>1, AllreduceKept DEF Inv
  <2>10. Together'
    <3>1. CASE label = "allreduce"
      <4>1. (Through(t)' <=> Through(t)) /\ ~\E q \in Members(SegmentOf[t]) : Through(q)
        BY <1>1, <1>3, <1>7, <3>1 DEF Through, Holds
      <4> QED BY <1>1, <1>2, <4>1, InsideMove DEF Inv
    <3>2. CASE label = "deliver"
      <4>1. Segments = {s}
        <5>1. IsFiniteSet(Segments) /\ ~(Cardinality(Segments) > 1)
          BY <1>10, <3>2, ReductionAssumption DEF label
        <5>2. IsFiniteSet(Segments \ {s})
              /\ Cardinality(Segments \ {s}) = Cardinality(Segments) - 1
          BY <1>0, <5>1, FS_RemoveElement
        <5>3. Cardinality(Segments \ {s}) \in Nat /\ Cardinality(Segments) \in Nat
          BY <5>1, <5>2, FS_CardinalityType
        <5>4. Cardinality(Segments \ {s}) = 0
          BY <5>1, <5>2, <5>3
        <5>5. Segments \ {s} = {}
          BY <5>2, <5>4, FS_EmptySet
        <5> QED BY <1>0, <5>5
      <4>2. Members(s) = Ppus
        BY <4>1, ReductionAssumption DEF Members
      <4>3. \A q \in Ppus : ~Through(q) /\ ~Outside(q)'
        BY <1>3, <2>2, <4>2 DEF Through, Holds
      <4>4. \A u \in Segments : \E q \in Members(u) : Through(q)'
        BY <1>0, <1>7, <3>2, <4>1 DEF Through
      <4> QED BY <1>1, <4>3, <4>4, AllThrough DEF Inv
    <3> QED BY <1>2, <1>10, <3>1, <3>2
  <2> QED BY <1>1, <1>5, <1>6, <2>8, <2>9, <2>10, StepInv
<1>11. CASE count[s] # 1
  <2>1. \A q \in Members(s) :
          pc'[q] \notin {"allreduce", "deliver", "release", "throttled"}
    BY <1>2, <1>3, <1>7, <1>11 DEF Holds
  <2>2. Gathering(s)'
    <3>1. count'[s] = Size(s) - Cardinality(InsideSet(s)') /\ count'[s] >= 1
      BY <1>0, <1>4, <1>5, <1>8, <1>11
    <3> QED BY <1>1, <1>4, <1>7, <3>1 DEF Gathering
  <2>3. Gathered(s)' /\ Complete(s)' /\ Throttled(s)'
    BY <1>7, <2>1 DEF Gathered, Complete, Throttled
  <2>4. SegmentInv(s)'
    BY <1>9, <2>2, <2>3 DEF SegmentInv
  <2>5. InAllreduce'
    BY <1>1, AllreduceKept DEF Inv
  <2>6. Together'
    <3>1. (Through(t)' <=> Through(t)) /\ ~\E q \in Members(SegmentOf[t]) : Through(q)
      BY <1>1, <1>2, <1>3, <1>7, <1>11 DEF Through, Holds
    <3> QED BY <1>1, <1>2, <3>1, InsideMove DEF Inv
  <2> QED BY <1>1, <1>5, <1>6, <2>4, <2>5, <2>6, StepInv
<1> QED BY <1>10, <1>11

(* When a segment passes MPI_Allreduce its last arrival begins to deliver. *)
LEMMA PassInv ==
  ASSUME NEW s \in Segments, SegmentInv(s), NEW r \in Members(s), pc[r] = "allreduce",
         pc'[r] = "deliver", \A q \in Members(s) \ {r} : pc'[q] = pc[q],
         UNCHANGED <<count, mutex, throttle, waitq, woken>>
  PROVE  SegmentInv(s)'
<1>1. /\ count[s] = 0 /\ waitq[s] = 0 /\ throttle[s] = 0 /\ woken[s] = 1
      /\ \A q \in Members(s) : pc[q] # "answer" /\ ~Outside(q)
      /\ Cardinality(Sleepers(s)) = Size(s) - woken[s]
      /\ \A q \in Members(s) \ {r} : ~Holds(q)
  BY DEF SegmentInv, Gathered, Complete, MutexHeld, Holds
<1>2. /\ Members(s)' = Members(s) /\ Size(s)' = Size(s)
      /\ \A q \in Members(s) : (Holds(q)' <=> Holds(q)) /\ (Leads(q)' <=> Leads(q))
      /\ \A q \in Members(s) : pc'[q] # "answer" /\ ~Outside(q)'
      /\ \A q \in Members(s) : pc'[q] # "throttled"
  BY <1>1 DEF Members, Size, Holds, Leads, Outside
<1>3. Sleepers(s)' = Sleepers(s)
  BY <1>2 DEF Sleepers
<1>4. MutexHeld(s)'
  BY <1>2 DEF SegmentInv, MutexHeld
<1>5. Gathering(s)'
  BY <1>2 DEF Gathering, Leads
<1>6. Gathered(s)' /\ Complete(s)' /\ Throttled(s)'
  BY <1>1, <1>2, <1>3 DEF Gathered, Complete, Throttled
<1> QED BY <1>4, <1>5, <1>6 DEF SegmentInv

LEMMA AllreduceInv ==
  ASSUME Inv, NEW t \in Ppus, NEW s, s = SegmentOf[t], Allreduce(t, s)
  PROVE  Inv'
<1>0. s \in Segments /\ t \in Members(s)
  BY SegmentOfType
<1>1. /\ pc[t] = "allreduce" /\ pc \in [Ppus -> Labels]
      /\ UNCHANGED <<count, mutex, throttle, waitq, woken, rounds>>
      /\ inAllreduce \in SUBSET Segments
  BY DEF Inv, TypeOK, Allreduce, semaphores
<1>2. CASE inAllreduce \cup {s} # Segments
  <2>1. inAllreduce' = inAllreduce \cup {s} /\ pc' = pc
    BY <1>2 DEF Allreduce
  <2>2. TypeOK'
    BY <1>0, <1>1, <2>1 DEF Inv, TypeOK
  <2>3. \A u \in Segments : SegmentInv(u)'
    BY <1>1, <2>1, Frame DEF Inv
  <2>4. InAllreduce'
    BY <1>0, <1>1, <2>1 DEF Inv, InAllreduce, Members
  <2>5. Together'
    <3>1. \A q \in Ppus : Calls(q)' = Calls(q) /\ (Through(q)' <=> Through(q))
      BY <1>1, <2>1 DEF Calls, Through
    <3>2. \A u \in Segments :
            (\E q \in Members(u) : Through(q)') <=> (\E q \in Members(u) : Through(q))
      BY <3>1 DEF Members
    <3> QED BY <1>1, <3>1, <3>2, TogetherKept DEF Inv
  <2> QED BY <2>2, <2>3, <2>4, <2>5 DEF Inv
<1>3. CASE inAllreduce \cup {s} = Segments
  <2>1. /\ inAllreduce' = {}
        /\ pc' = [q \in Ppus |-> IF \E u \in Segments : q = Releaser(u)
                                 THEN "deliver" ELSE pc[q]]
    BY <1>3 DEF Allreduce
  <2>2. \A u \in Segments : Releaser(u) \in Members(u) /\ pc[Releaser(u)] = "allreduce"
    <3>1. \A u \in Segments : \E r \in Members(u) : pc[r] = "allreduce"
      BY <1>0, <1>1, <1>3 DEF Inv, InAllreduce
    <3> QED BY <3>1 DEF Releaser
  <2>3. \A u \in Segments : \A q \in Members(u) \ {Releaser(u)} : ~Holds(q)
    BY <2>2 DEF Inv, SegmentInv, MutexHeld, Holds
  <2>4. \A u \in Segments : pc'[Releaser(u)] = "deliver"
    BY <2>1, <2>2 DEF Members
  <2>5. \A u \in Segments : \A q \in Members(u) \ {Releaser(u)} : pc'[q] = pc[q]
    <3> SUFFICES ASSUME NEW u \in Segments, NEW q \in Members(u) \ {Releaser(u)}
                 PROVE  pc'[q] = pc[q]
      OBVIOUS
    <3>1. \A v \in Segments : q # Releaser(v)
      BY <2>2 DEF Members
    <3> QED BY <2>1, <3>1 DEF Members
  <2>6. TypeOK'
    <3>1. pc' \in [Ppus -> Labels]
      BY <1>1, <2>1 DEF Labels
    <3> QED BY <1>1, <2>1, <3>1 DEF Inv, TypeOK
  <2>7. \A u \in Segments : SegmentInv(u)'
    <3> SUFFICES ASSUME NEW u \in Segments PROVE SegmentInv(u)'
      OBVIOUS
    <3>1. SegmentInv(u)
      BY DEF Inv
    <3> QED BY <1>1, <2>2, <2>4, <2>5, <3>1, PassInv
  <2>8. InAllreduce'
    BY <2>1 DEF InAllreduce
  <2>9. Together'
    <3>1. \A q \in Ppus : ~Through(q)
      BY <2>2, <2>3, SegmentOfType DEF Through, Holds
    <3>2. \A q \in Ppus : ~Outside(q)
      BY <2>2, SegmentOfType DEF Inv, SegmentInv, Complete
    <3>3. \A q \in Ppus : ~Outside(q)'
      BY <2>1, <3>2 DEF Outside
    <3>4. \A u \in Segments : \E r \in Members(u) : Through(r)'
      BY <2>2, <2>4 DEF Through
    <3> QED BY <1>1, <3>1, <3>3, <3>4, AllThrough DEF Inv
  <2> QED BY <2>6, <2>7, <2>8, <2>9 DEF Inv
<1> QED BY <1>2, <1>3

-----------------------------------------------------------------------------
\* Inv is an invariant of the reduction, whatever the numbers of segments, PPUs and
\* rounds: in every segment the semaphores and _count agree with where the PPUs are,
\* and the segments are in the same round.
THEOREM Invariance == Spec => []Inv
<1>1. Init => Inv
  BY InitInv
<1>2. Inv /\ [Next]_vars => Inv'
  <2> SUFFICES ASSUME Inv, [Next]_vars PROVE Inv'
    OBVIOUS
  <2>1. CASE UNCHANGED vars
    <3>1. UNCHANGED <<pc, rounds, count, woken, mutex, throttle, waitq, inAllreduce>>
      BY <2>1 DEF vars, semaphores
    <3>2. TypeOK'
      BY <3>1 DEF Inv, TypeOK
    <3>3. \A u \in Segments : SegmentInv(u)'
      BY <3>1, Frame DEF Inv
    <3>4. InAllreduce'
      BY <3>1 DEF Inv, InAllreduce, Members
    <3>5. Together'
      <4>1. \A q \in Ppus : Calls(q)' = Calls(q) /\ (Through(q)' <=> Through(q))
        BY <3>1 DEF Calls, Through
      <4>2. \A u \in Segments :
              (\E q \in Members(u) : Through(q)') <=> (\E q \in Members(u) : Through(q))
        BY <4>1 DEF Members
      <4> QED BY <3>1, <4>1, <4>2, TogetherKept DEF Inv
    <3> QED BY <3>2, <3>3, <3>4, <3>5 DEF Inv
  <2>2. CASE Next
    <3>1. PICK t \in Ppus : Step(t)
      BY <2>2 DEF Next
    <3>2. CASE Prepare(t) \/ Compute(t)
      BY <3>2, OutsideInv
    <3>3. CASE Reduce(t, SegmentOf[t])
      BY <3>3, EnterInv, UnlockInv, AllreduceInv, DeliverInv, WakeUpInv, AnswerInv,
         PostWaitqInv, AwaitAnswerInv, ResetInv DEF Reduce
    <3> QED BY <3>1, <3>2, <3>3 DEF Step
  <2> QED BY <2>1, <2>2
<1> QED BY <1>1, <1>2, PTL DEF Spec

-----------------------------------------------------------------------------
(* The rendezvous *)

\* A return from reduce() is a departure: everybody has called as often.
LEMMA ReturnDeparts ==
  ASSUME Inv, NEW t \in Ppus, ~Outside(t), Return(t),
         \E r \in Members(SegmentOf[t]) : Through(r)
  PROVE  Abstract!Depart(t)
<1> DEFINE arr == [q \in Ppus |-> Calls(q)]
<1>1. PICK k \in Nat : At(k)
  BY DEF Inv, Together
<1>2. /\ pc \in [Ppus -> Labels] /\ rounds \in [Ppus -> Nat]
      /\ rounds' = [rounds EXCEPT ![t] = @ + 1]
  BY DEF Inv, TypeOK, Return
<1>3. rounds[t] < arr[t]
  BY <1>2 DEF Calls, Outside
<1>4. \A q \in Ppus : arr[t] <= arr[q]
  <2>1. Calls(t) = k
    BY <1>1 DEF At
  <2>2. \A q \in Ppus : k <= Calls(q)
    <3> SUFFICES ASSUME NEW q \in Ppus PROVE k <= Calls(q)
      OBVIOUS
    <3>1. Calls(q) = k \/ rounds[q] = k
      BY <1>1 DEF At
    <3> QED BY <1>2, <3>1 DEF Calls
  <2> QED BY <2>1, <2>2
<1>5. arr' = arr
  BY ReturnCalls DEF Inv
<1> QED BY <1>2, <1>3, <1>4, <1>5 DEF Abstract!Depart

\* Steps before and within reduce() change nothing a caller can see.
LEMMA Stutters ==
  ASSUME \A q \in Ppus : Calls(q)' = Calls(q), UNCHANGED rounds
  PROVE  UNCHANGED Abstract!rvars
  BY DEF Abstract!rvars

LEMMA MoveCalls ==
  ASSUME TypeOK, NEW t \in Ppus, NEW label, Goto(t, label), UNCHANGED rounds,
         Outside(t)' <=> Outside(t)
  PROVE  \A q \in Ppus : Calls(q)' = Calls(q)
  BY DEF TypeOK, Goto, Calls, Outside

\* The reduction barriers of all segments together implement the rendezvous of all
\* PPUs: reduce() returns to nobody before everybody has called it.
THEOREM Refinement == Spec => ReducesTogether
<1>1. Init => Abstract!Init
  BY DEF Init, Abstract!Init, Calls
<1>2. Inv /\ [Next]_vars => [Abstract!Next]_(Abstract!rvars)
  <2> SUFFICES ASSUME Inv, [Next]_vars PROVE [Abstract!Next]_(Abstract!rvars)
    OBVIOUS
  <2>0. TypeOK
    BY DEF Inv
  <2>1. CASE UNCHANGED vars
    <3>1. (\A q \in Ppus : Calls(q)' = Calls(q)) /\ UNCHANGED rounds
      BY <2>1 DEF vars, Calls
    <3> QED BY <3>1, Stutters
  <2>2. ASSUME NEW t \in Ppus, Step(t)
        PROVE  [Abstract!Next]_(Abstract!rvars)
    <3> DEFINE s == SegmentOf[t]
    <3>0. pc \in [Ppus -> Labels] /\ rounds \in [Ppus -> Nat]
          /\ s \in Segments /\ t \in Members(s)
      BY <2>0, SegmentOfType DEF TypeOK
    <3> HIDE DEF s
    <3>1. CASE Enter(t, s)
      <4>1. PICK label \in {"unlock", "allreduce", "deliver"} :
              /\ pc[t] = "reduce" /\ rounds' = rounds
              /\ pc' = [pc EXCEPT ![t] = label]
        BY <3>1 DEF Enter, Goto
      <4>2. Calls(t) = rounds[t] /\ Calls(t)' = rounds[t] + 1
        BY <3>0, <4>1 DEF Calls
      <4>3. \A q \in Ppus \ {t} : Calls(q)' = Calls(q)
        BY <3>0, <4>1 DEF Calls
      <4>4. Abstract!Arrive(t)
        BY <4>1, <4>2, <4>3 DEF Abstract!Arrive
      <4> QED BY <4>4 DEF Abstract!Next
    <3>2. CASE \/ Prepare(t) \/ Compute(t) \/ Unlock(t, s) \/ Deliver(t, s)
               \/ WakeUp(t, s) \/ PostWaitq(t, s) \/ AwaitAnswer(t, s)
      <4>1. /\ rounds' = rounds
            /\ \E label \in Labels : Goto(t, label) /\ (Outside(t)' <=> Outside(t))
        <5>1. CASE Prepare(t) \/ Compute(t)
          BY <3>0, <5>1 DEF Prepare, Compute, Goto, Outside, Labels
        <5>2. CASE Unlock(t, s) \/ Deliver(t, s) \/ WakeUp(t, s)
          BY <3>0, <5>2 DEF Unlock, Deliver, WakeUp, Goto, Outside, Labels
        <5>3. CASE PostWaitq(t, s) \/ AwaitAnswer(t, s)
          BY <3>0, <5>3 DEF PostWaitq, AwaitAnswer, Goto, Outside, Labels
        <5> QED BY <3>2, <5>1, <5>2, <5>3
      <4> QED BY <2>0, <4>1, MoveCalls, Stutters
    <3>3. CASE Allreduce(t, s)
      <4>1. rounds' = rounds
        BY <3>3 DEF Allreduce
      <4>2. \A q \in Ppus : Outside(q)' <=> Outside(q)
        <5>1. CASE pc' = pc
          BY <5>1 DEF Outside
        <5>2. CASE inAllreduce \cup {s} = Segments
          <6>1. pc' = [q \in Ppus |-> IF \E u \in Segments : q = Releaser(u)
                                      THEN "deliver" ELSE pc[q]]
            BY <3>3, <5>2 DEF Allreduce
          <6>2. \A u \in Segments : pc[Releaser(u)] = "allreduce"
            <7>1. \A u \in Segments : \E r \in Members(u) : pc[r] = "allreduce"
              BY <3>0, <3>3, <5>2 DEF Inv, InAllreduce, Allreduce
            <7> QED BY <7>1 DEF Releaser
          <6> QED BY <6>1, <6>2 DEF Outside
        <5> QED BY <3>3, <5>1, <5>2 DEF Allreduce
      <4>3. \A q \in Ppus : Calls(q)' = Calls(q)
        BY <4>1, <4>2 DEF Calls, Outside
      <4> QED BY <4>1, <4>3, Stutters
    <3>4. CASE Answer(t, s) \/ Reset(t, s)
      <4>1. ~Outside(t) /\ Return(t)
        BY <3>4 DEF Answer, Reset, Outside
      <4>2. \E r \in Members(s) : Through(r)
        <5>1. CASE Answer(t, s)
          BY <3>0, <5>1, AwakeThrottled DEF Answer, Through
        <5>2. CASE Reset(t, s)
          BY <3>0, <5>2 DEF Reset, Through
        <5> QED BY <3>4, <5>1, <5>2
      <4>3. Abstract!Depart(t)
        BY <4>1, <4>2, ReturnDeparts DEF s
      <4> QED BY <4>3 DEF Abstract!Next
    <3> QED BY <2>2, <3>1, <3>2, <3>3, <3>4 DEF Step, Reduce, s
  <2> QED BY <2>1, <2>2 DEF Next
<1> QED BY <1>1, <1>2, Invariance, PTL DEF Spec, ReducesTogether, Abstract!Spec
-----------------------------------------------------------------------------
(* Reductions of sets of values *)

\* What counts of an operand: all of it, but for the sign bit that BAND may lose.
Domain(o)  == IF o = "BAND" THEN SUBSET (Bits \ {SignBit}) ELSE Operands(o)

\* FoldsTo(o, f, S, v): combining the values f[t] of the PPUs t of S, in some order,
\* gives v.
Pairs(o) == (SUBSET Ppus) \X Domain(o)
Closed(o, f, R) ==
  /\ <<{}, ResetValue(o)>> \in R
  /\ \A S \in SUBSET Ppus, v \in Domain(o), t \in Ppus :
       <<S, v>> \in R /\ t \notin S => <<S \cup {t}, Combine(o, v, f[t])>> \in R
FoldsTo(o, f, S, v) == \A R \in SUBSET Pairs(o) : Closed(o, f, R) => <<S, v>> \in R
\* ... with the value of t combined last.
EndsWith(o, f, S, v, t) ==
  \E w \in Domain(o) : FoldsTo(o, f, S \ {t}, w) /\ v = Combine(o, w, f[t])

(* The operators are commutative and associative, and a partial result starts from
   their neutral element. *)
LEMMA Algebra ==
  ASSUME NEW o \in Ops, NEW x \in Domain(o), NEW y \in Domain(o), NEW z \in Domain(o)
  PROVE  /\ Combine(o, x, y) \in Domain(o)
         /\ Combine(o, x, y) = Combine(o, y, x)
         /\ Combine(o, Combine(o, x, y), z) = Combine(o, x, Combine(o, y, z))
         /\ ResetValue(o) \in Domain(o)
         /\ Combine(o, x, ResetValue(o)) = x
<1>1. CASE o = "SUM"
  <2>1. Domain(o) = Int /\ ResetValue(o) = 0
    BY <1>1 DEF Domain, Operands, ResetValue
  <2>2. \A a, b : Combine(o, a, b) = a + b
    BY <1>1 DEF Combine
  <2> QED BY <2>1, <2>2
<1>2. CASE o = "MAX"
  <2>1. Domain(o) = INT_MIN..INT_MAX /\ ResetValue(o) = INT_MIN
    BY <1>2 DEF Domain, Operands, ResetValue
  <2>2. \A a, b : Combine(o, a, b) = IF a < b THEN b ELSE a
    BY <1>2 DEF Combine
  <2>3. /\ x \in INT_MIN..INT_MAX /\ y \in INT_MIN..INT_MAX /\ z \in INT_MIN..INT_MAX
        /\ INT_MIN \in Int /\ INT_MAX \in Int /\ INT_MIN <= INT_MAX
    BY <2>1, ValueAssumption
  <2> QED BY <2>1, <2>2, <2>3
<1>3. CASE o = "MIN"
  <2>1. Domain(o) = INT_MIN..INT_MAX /\ ResetValue(o) = INT_MAX
    BY <1>3 DEF Domain, Operands, ResetValue
  <2>2. \A a, b : Combine(o, a, b) = IF a > b THEN b ELSE a
    BY <1>3 DEF Combine
  <2>3. /\ x \in INT_MIN..INT_MAX /\ y \in INT_MIN..INT_MAX /\ z \in INT_MIN..INT_MAX
        /\ INT_MIN \in Int /\ INT_MAX \in Int /\ INT_MIN <= INT_MAX
    BY <2>1, ValueAssumption
  <2> QED BY <2>1, <2>2, <2>3
<1>4. CASE o = "LAND"
  <2>1. /\ x \in BOOLEAN /\ y \in BOOLEAN /\ z \in BOOLEAN
        /\ Domain(o) = BOOLEAN /\ ResetValue(o) = TRUE
    BY <1>4 DEF Domain, Operands, ResetValue
  <2>2. \A a, b : Combine(o, a, b) = (a /\ b)
    BY <1>4 DEF Combine
  <2> QED BY <2>1, <2>2
<1>5. CASE o = "LOR"
  <2>1. /\ x \in BOOLEAN /\ y \in BOOLEAN /\ z \in BOOLEAN
        /\ Domain(o) = BOOLEAN /\ ResetValue(o) = FALSE
    BY <1>5 DEF Domain, Operands, ResetValue
  <2>2. \A a, b : Combine(o, a, b) = (a \/ b)
    BY <1>5 DEF Combine
  <2> QED BY <2>1, <2>2
<1>6. CASE o = "BAND"
  <2>1. /\ Domain(o) = SUBSET (Bits \ {SignBit})
        /\ ResetValue(o) = Bits \ {SignBit}
    BY <1>6 DEF Domain, ResetValue
  <2>2. \A a, b : Combine(o, a, b) = a \cap b
    BY <1>6 DEF Combine
  <2>3. /\ x \cap y \in SUBSET (Bits \ {SignBit}) /\ x \cap y = y \cap x
        /\ (x \cap y) \cap z = x \cap (y \cap z)
        /\ x \cap (Bits \ {SignBit}) = x
    BY <2>1
  <2>4. /\ Combine(o, x, y) = x \cap y /\ Combine(o, y, x) = y \cap x
        /\ Combine(o, Combine(o, x, y), z) = (x \cap y) \cap z
        /\ Combine(o, x, Combine(o, y, z)) = x \cap (y \cap z)
        /\ Combine(o, x, ResetValue(o)) = x
    BY <2>1, <2>2, <2>3, Zenon
  <2>5. Combine(o, x, y) \in Domain(o) /\ ResetValue(o) \in Domain(o)
    BY <2>1, <2>3, <2>4
  <2> QED BY <2>3, <2>4, <2>5, Zenon
<1>7. CASE o = "BOR"
  <2>1. Domain(o) = SUBSET Bits /\ ResetValue(o) = {}
    BY <1>7 DEF Domain, Operands, ResetValue
  <2>2. \A a, b : Combine(o, a, b) = a \cup b
    BY <1>7 DEF Combine
  <2>3. /\ x \cup y \in SUBSET Bits /\ x \cup y = y \cup x
        /\ (x \cup y) \cup z = x \cup (y \cup z) /\ x \cup {} = x
    BY <2>1
  <2>4. /\ Combine(o, x, y) = x \cup y /\ Combine(o, y, x) = y \cup x
        /\ Combine(o, Combine(o, x, y), z) = (x \cup y) \cup z
        /\ Combine(o, x, Combine(o, y, z)) = x \cup (y \cup z)
        /\ Combine(o, x, ResetValue(o)) = x
    BY <2>1, <2>2, <2>3, Zenon
  <2>5. Combine(o, x, y) \in Domain(o) /\ ResetValue(o) \in Domain(o)
    BY <2>1, <2>3, <2>4
  <2> QED BY <2>3, <2>4, <2>5, Zenon
<1> QED BY <1>1, <1>2, <1>3, <1>4, <1>5, <1>6, <1>7, ReductionAssumption DEF AllOps

(* What counts of a combination is the combination of what counts. *)
LEMMA Counts ==
  ASSUME NEW o \in Ops, NEW x \in Operands(o), NEW y \in Operands(o)
  PROVE  /\ Combine(o, x, y) \in Operands(o)
         /\ Kept(o, x) \in Domain(o)
         /\ Kept(o, Combine(o, x, y)) = Combine(o, Kept(o, x), Kept(o, y))
<1>1. CASE o = "SUM"
  <2>1. Domain(o) = Int /\ Operands(o) = Int /\ \A a : Kept(o, a) = a
    BY <1>1 DEF Domain, Operands, Kept
  <2>2. \A a, b : Combine(o, a, b) = a + b
    BY <1>1 DEF Combine
  <2> QED BY <2>1, <2>2
<1>2. CASE o = "MAX"
  <2>1. /\ Domain(o) = INT_MIN..INT_MAX /\ Operands(o) = INT_MIN..INT_MAX
        /\ \A a : Kept(o, a) = a
    BY <1>2 DEF Domain, Operands, Kept
  <2>2. \A a, b : Combine(o, a, b) = IF a < b THEN b ELSE a
    BY <1>2 DEF Combine
  <2> QED BY <2>1, <2>2
<1>3. CASE o = "MIN"
  <2>1. /\ Domain(o) = INT_MIN..INT_MAX /\ Operands(o) = INT_MIN..INT_MAX
        /\ \A a : Kept(o, a) = a
    BY <1>3 DEF Domain, Operands, Kept
  <2>2. \A a, b : Combine(o, a, b) = IF a > b THEN b ELSE a
    BY <1>3 DEF Combine
  <2> QED BY <2>1, <2>2
<1>4. CASE o = "LAND"
  BY <1>4 DEF Combine, Domain, Operands, Kept
<1>5. CASE o = "LOR"
  BY <1>5 DEF Combine, Domain, Operands, Kept
<1>6. CASE o = "BAND"
  <2>1. /\ Domain(o) = SUBSET (Bits \ {SignBit}) /\ Operands(o) = SUBSET Bits
        /\ \A a : Kept(o, a) = a \ {SignBit}
        /\ \A a, b : Combine(o, a, b) = a \cap b
    BY <1>6 DEF Domain, Operands, Kept, Combine
  <2>2. (x \cap y) \ {SignBit} = (x \ {SignBit}) \cap (y \ {SignBit})
    OBVIOUS
  <2>3. x \cap y \in SUBSET Bits /\ x \ {SignBit} \in SUBSET (Bits \ {SignBit})
    BY <2>1
  <2> QED BY <2>1, <2>2, <2>3
<1>7. CASE o = "BOR"
  BY <1>7 DEF Combine, Domain, Operands, Kept
<1> QED BY <1>1, <1>2, <1>3, <1>4, <1>5, <1>6, <1>7, ReductionAssumption DEF AllOps

LEMMA Neutrals ==
  ASSUME NEW o \in Ops
  PROVE  /\ ResetValue(o) \in Operands(o) /\ Neutral(o) \in Operands(o)
         /\ ResetValue(o) \in Domain(o)
         /\ Kept(o, ResetValue(o)) = ResetValue(o)
         /\ Kept(o, Neutral(o)) = ResetValue(o)
<1>1. CASE o \in {"SUM", "LAND", "LOR", "BOR"}
  <2>1. Domain(o) = Operands(o) /\ Neutral(o) = ResetValue(o) /\ \A a : Kept(o, a) = a
    BY <1>1 DEF Neutral, Domain, Kept, ResetValue
  <2>2. ResetValue(o) \in Operands(o)
    <3>1. CASE o = "SUM"
      BY <3>1 DEF Operands, ResetValue
    <3>2. CASE o \in {"LAND", "LOR"}
      BY <3>2 DEF Operands, ResetValue
    <3>3. CASE o = "BOR"
      BY <3>3 DEF Operands, ResetValue
    <3> QED BY <1>1, <3>1, <3>2, <3>3
  <2> QED BY <2>1, <2>2
<1>2. CASE o \in {"MAX", "MIN"}
  <2>1. Domain(o) = INT_MIN..INT_MAX /\ Operands(o) = INT_MIN..INT_MAX
        /\ Neutral(o) = ResetValue(o) /\ ResetValue(o) \in {INT_MIN, INT_MAX}
        /\ \A a : Kept(o, a) = a
    BY <1>2 DEF Neutral, Domain, Operands, Kept, ResetValue
  <2> QED BY <2>1, ValueAssumption
<1>3. CASE o = "BAND"
  <2>1. /\ Domain(o) = SUBSET (Bits \ {SignBit}) /\ Operands(o) = SUBSET Bits
        /\ ResetValue(o) = Bits \ {SignBit} /\ Neutral(o) = Bits
        /\ \A a : Kept(o, a) = a \ {SignBit}
    BY <1>3 DEF Domain, Operands, Kept, ResetValue, Neutral
  <2>2. (Bits \ {SignBit}) \ {SignBit} = Bits \ {SignBit}
    OBVIOUS
  <2> QED BY <2>1, <2>2
<1> QED BY <1>1, <1>2, <1>3, ReductionAssumption DEF AllOps

(* The reduction of nothing, and of one PPU more. *)
LEMMA FoldBasics ==
  ASSUME NEW o \in Ops, NEW f \in [Ppus -> Domain(o)]
  PROVE  /\ FoldsTo(o, f, {}, ResetValue(o))
         /\ \A S, v : FoldsTo(o, f, S, v) => S \in SUBSET Ppus /\ v \in Domain(o)
         /\ \A S, v, t : FoldsTo(o, f, S, v) /\ t \in Ppus /\ t \notin S
                           => FoldsTo(o, f, S \cup {t}, Combine(o, v, f[t]))
<1>1. Closed(o, f, Pairs(o))
  BY Algebra, Neutrals DEF Closed, Pairs
<1>2. ASSUME NEW S, NEW v, FoldsTo(o, f, S, v)
      PROVE  S \in SUBSET Ppus /\ v \in Domain(o)
  <2>1. <<S, v>> \in Pairs(o)
    BY <1>1, <1>2 DEF FoldsTo
  <2> QED BY <2>1 DEF Pairs
<1>3. FoldsTo(o, f, {}, ResetValue(o))
  BY DEF FoldsTo, Closed
<1>4. ASSUME NEW S, NEW v, NEW t, FoldsTo(o, f, S, v), t \in Ppus, t \notin S
      PROVE  FoldsTo(o, f, S \cup {t}, Combine(o, v, f[t]))
  <2>1. S \in SUBSET Ppus /\ v \in Domain(o)
    BY <1>2, <1>4
  <2> QED BY <1>4, <2>1 DEF FoldsTo, Closed
<1> QED BY <1>2, <1>3, <1>4

(* The reduction of a set is that of one PPU less, and its value. *)
LEMMA FoldRemove ==
  ASSUME NEW o \in Ops, NEW f \in [Ppus -> Domain(o)], NEW S, NEW v, NEW t \in S,
         FoldsTo(o, f, S, v)
  PROVE  EndsWith(o, f, S, v, t)
<1> DEFINE R == {p \in Pairs(o) :
                   /\ FoldsTo(o, f, p[1], p[2])
                   /\ \A u \in p[1] : EndsWith(o, f, p[1], p[2], u)}
<1>1. <<{}, ResetValue(o)>> \in R
  BY FoldBasics, Neutrals DEF Pairs
<1>2. ASSUME NEW T \in SUBSET Ppus, NEW x \in Domain(o), NEW q \in Ppus,
             <<T, x>> \in R, q \notin T
      PROVE  <<T \cup {q}, Combine(o, x, f[q])>> \in R
  <2>0. f[q] \in Domain(o)
    OBVIOUS
  <2>1. FoldsTo(o, f, T, x)
    BY <1>2
  <2>2. FoldsTo(o, f, T \cup {q}, Combine(o, x, f[q])) /\ Combine(o, x, f[q]) \in Domain(o)
    BY <1>2, <2>0, <2>1, FoldBasics, Algebra
  <2>3. ASSUME NEW u \in T \cup {q}
        PROVE  EndsWith(o, f, T \cup {q}, Combine(o, x, f[q]), u)
    <3>1. CASE u = q
      <4>1. (T \cup {q}) \ {u} = T
        BY <1>2, <3>1
      <4> QED BY <2>1, <3>1, <4>1 DEF EndsWith
    <3>2. CASE u \in T
      <4>1. PICK w \in Domain(o) : FoldsTo(o, f, T \ {u}, w) /\ x = Combine(o, w, f[u])
        BY <1>2, <3>2 DEF EndsWith
      <4>2. (T \cup {q}) \ {u} = (T \ {u}) \cup {q} /\ q \notin T \ {u}
        BY <1>2, <3>2
      <4>3. FoldsTo(o, f, (T \cup {q}) \ {u}, Combine(o, w, f[q]))
        <5>1. FoldsTo(o, f, (T \ {u}) \cup {q}, Combine(o, w, f[q]))
          BY <4>1, <4>2, FoldBasics
        <5> QED BY <4>2, <5>1
      <4>4. /\ Combine(o, w, f[q]) \in Domain(o)
            /\ Combine(o, x, f[q]) = Combine(o, Combine(o, w, f[q]), f[u])
        <5>1. u \in Ppus /\ f[u] \in Domain(o)
          BY <3>2
        <5>2. Combine(o, x, f[q]) = Combine(o, w, Combine(o, f[u], f[q]))
          BY <2>0, <4>1, <5>1, Algebra
        <5>3. Combine(o, f[u], f[q]) = Combine(o, f[q], f[u])
          BY <2>0, <5>1, Algebra
        <5>4. Combine(o, w, Combine(o, f[q], f[u])) = Combine(o, Combine(o, w, f[q]), f[u])
          BY <2>0, <4>1, <5>1, Algebra
        <5> QED BY <2>0, <5>2, <5>3, <5>4, Algebra
      <4> QED BY <4>3, <4>4 DEF EndsWith
    <3> QED BY <3>1, <3>2
  <2> QED BY <2>2, <2>3 DEF Pairs
<1>3. R \in SUBSET Pairs(o)
  OBVIOUS
<1> HIDE DEF R
<1>4. <<S, v>> \in R
  BY <1>1, <1>2, <1>3 DEF FoldsTo, Closed
<1> QED BY <1>4 DEF R

(* A set of PPUs has one reduction, however its values are combined. *)
LEMMA FoldUnique ==
  ASSUME NEW o \in Ops, NEW f \in [Ppus -> Domain(o)], NEW S, NEW v, NEW w,
         FoldsTo(o, f, S, v), FoldsTo(o, f, S, w)
  PROVE  v = w
<1>1. ASSUME NEW x, FoldsTo(o, f, {}, x) PROVE x = ResetValue(o)
  <2> DEFINE Q == {p \in Pairs(o) : p[1] = {} => p[2] = ResetValue(o)}
  <2>1. <<{}, ResetValue(o)>> \in Q
    BY Neutrals DEF Pairs
  <2>2. \A T \in SUBSET Ppus, y \in Domain(o), q \in Ppus :
          <<T \cup {q}, Combine(o, y, f[q])>> \in Q
    BY Algebra DEF Pairs
  <2>3. Q \in SUBSET Pairs(o)
    OBVIOUS
  <2> HIDE DEF Q
  <2>4. <<{}, x>> \in Q
    BY <1>1, <2>1, <2>2, <2>3 DEF FoldsTo, Closed
  <2> QED BY <2>4 DEF Q
<1> DEFINE R == {p \in Pairs(o) : /\ FoldsTo(o, f, p[1], p[2])
                                  /\ \A x : FoldsTo(o, f, p[1], x) => x = p[2]}
<1>2. <<{}, ResetValue(o)>> \in R
  BY <1>1, FoldBasics, Neutrals DEF Pairs
<1>3. ASSUME NEW T \in SUBSET Ppus, NEW x \in Domain(o), NEW q \in Ppus,
             <<T, x>> \in R, q \notin T
      PROVE  <<T \cup {q}, Combine(o, x, f[q])>> \in R
  <2>1. FoldsTo(o, f, T, x) /\ \A y : FoldsTo(o, f, T, y) => y = x
    BY <1>3
  <2>2. FoldsTo(o, f, T \cup {q}, Combine(o, x, f[q]))
    BY <1>3, <2>1, FoldBasics
  <2>3. Combine(o, x, f[q]) \in Domain(o)
    BY <2>2, FoldBasics
  <2>4. ASSUME NEW y, FoldsTo(o, f, T \cup {q}, y) PROVE y = Combine(o, x, f[q])
    <3>1. PICK U : U = T \cup {q}
      OBVIOUS
    <3>2. q \in U /\ FoldsTo(o, f, U, y) /\ U \ {q} = T
      BY <1>3, <2>4, <3>1
    <3>3. PICK z \in Domain(o) : FoldsTo(o, f, U \ {q}, z) /\ y = Combine(o, z, f[q])
      <4>1. EndsWith(o, f, U, y, q)
        BY <3>2, FoldRemove
      <4> QED BY <4>1 DEF EndsWith
    <3> QED BY <2>1, <3>2, <3>3
  <2> QED BY <2>2, <2>3, <2>4 DEF Pairs
<1>4. R \in SUBSET Pairs(o)
  OBVIOUS
<1> HIDE DEF R
<1>5. <<S, v>> \in R
  BY <1>2, <1>3, <1>4 DEF FoldsTo, Closed
<1> QED BY <1>5 DEF R

(* The reduction of two sets with no PPU in common. *)
LEMMA FoldUnion ==
  ASSUME NEW o \in Ops, NEW f \in [Ppus -> Domain(o)], NEW S, NEW v, NEW T, NEW w,
         FoldsTo(o, f, S, v), FoldsTo(o, f, T, w), S \cap T = {}
  PROVE  FoldsTo(o, f, S \cup T, Combine(o, v, w))
<1>0. S \in SUBSET Ppus /\ v \in Domain(o)
  BY FoldBasics
<1> DEFINE R == {p \in Pairs(o) :
                   S \cap p[1] = {} => FoldsTo(o, f, S \cup p[1], Combine(o, v, p[2]))}
<1>1. <<{}, ResetValue(o)>> \in R
  <2>1. S \cup {} = S /\ Combine(o, v, ResetValue(o)) = v
    BY <1>0, Algebra
  <2> QED BY <2>1, Neutrals DEF Pairs
<1>2. ASSUME NEW U \in SUBSET Ppus, NEW x \in Domain(o), NEW q \in Ppus,
             <<U, x>> \in R, q \notin U
      PROVE  <<U \cup {q}, Combine(o, x, f[q])>> \in R
  <2>1. Combine(o, x, f[q]) \in Domain(o) /\ f[q] \in Domain(o)
    BY Algebra
  <2>2. ASSUME S \cap (U \cup {q}) = {}
        PROVE  FoldsTo(o, f, S \cup (U \cup {q}), Combine(o, v, Combine(o, x, f[q])))
    <3>1. S \cap U = {} /\ q \notin S \cup U
      BY <1>2, <2>2
    <3>2. FoldsTo(o, f, S \cup U, Combine(o, v, x))
      BY <1>2, <3>1
    <3>3. FoldsTo(o, f, (S \cup U) \cup {q}, Combine(o, Combine(o, v, x), f[q]))
      BY <3>1, <3>2, FoldBasics
    <3>4. (S \cup U) \cup {q} = S \cup (U \cup {q})
      OBVIOUS
    <3>5. Combine(o, Combine(o, v, x), f[q]) = Combine(o, v, Combine(o, x, f[q]))
      BY <1>0, <2>1, Algebra
    <3> QED BY <3>3, <3>4, <3>5
  <2> QED BY <2>1, <2>2 DEF Pairs
<1>3. R \in SUBSET Pairs(o)
  OBVIOUS
<1> HIDE DEF R
<1>4. <<T, w>> \in R
  BY <1>1, <1>2, <1>3 DEF FoldsTo, Closed
<1> QED BY <1>4 DEF R

(* The reduction depends on the values of its PPUs only. *)
LEMMA FoldFrame ==
  ASSUME NEW o \in Ops, NEW f \in [Ppus -> Domain(o)], NEW g \in [Ppus -> Domain(o)],
         NEW S, NEW v, FoldsTo(o, f, S, v), \A t \in S : f[t] = g[t]
  PROVE  FoldsTo(o, g, S, v)
<1> DEFINE R == {p \in Pairs(o) : (\A t \in p[1] : f[t] = g[t]) => FoldsTo(o, g, p[1], p[2])}
<1>1. <<{}, ResetValue(o)>> \in R
  BY FoldBasics, Neutrals DEF Pairs
<1>2. ASSUME NEW U \in SUBSET Ppus, NEW x \in Domain(o), NEW q \in Ppus,
             <<U, x>> \in R, q \notin U
      PROVE  <<U \cup {q}, Combine(o, x, f[q])>> \in R
  <2>1. Combine(o, x, f[q]) \in Domain(o)
    BY Algebra
  <2>2. ASSUME \A t \in U \cup {q} : f[t] = g[t]
        PROVE  FoldsTo(o, g, U \cup {q}, Combine(o, x, f[q]))
    <3>1. FoldsTo(o, g, U, x) /\ f[q] = g[q]
      BY <1>2, <2>2
    <3> QED BY <1>2, <3>1, FoldBasics
  <2> QED BY <2>1, <2>2 DEF Pairs
<1>3. R \in SUBSET Pairs(o)
  OBVIOUS
<1> HIDE DEF R
<1>4. <<S, v>> \in R
  BY <1>1, <1>2, <1>3 DEF FoldsTo, Closed
<1> QED BY <1>4 DEF R

-----------------------------------------------------------------------------
(* The outcome *)

SegThrough(s) == \E r \in Members(s) : Through(r)
\* The outcome has been delivered, and the segment's PPUs are on their way out.
Released(s)   == \E r \in Members(s) : pc[r] \in {"release", "throttled"}

\* What counts of the partial results, and the PPUs that have theirs for the round
\* after the k-th.
KeptPartial     == [t \in Ppus |-> Kept(op, partial[t])]
Contributors(k) == {t \in Ppus : rounds[t] = k /\ pc[t] \notin {"top", "use"}}
InAllreduceSet  == {t \in Ppus : SegmentOf[t] \in inAllreduce}

DataTypeOK == /\ op \in Ops /\ kind \in Kinds
              /\ partial \in [Ppus -> Operands(op)]
              /\ property \in [Ppus \cup Segments -> Operands(op)]
              /\ intermediate \in [Segments -> Operands(op)]
              /\ localTargets \in [Segments -> SUBSET Ppus]
              /\ combined \in Operands(op)
              /\ expected \in [Rounds -> Operands(op)]

InBounds == \A t \in Ppus : /\ rounds[t] <= MaxRounds
                            /\ pc[t] # "top" => rounds[t] < MaxRounds

\* What is expected of a round is the reduction of what its PPUs have so far.
RoundGathers(k) == k + 1 \in Rounds =>
  FoldsTo(op, KeptPartial, Contributors(k), Kept(op, expected[k + 1]))
RoundsAhead(k) ==
  \A j \in Rounds : j > k + 1 => Kept(op, expected[j]) = ResetValue(op)

\* *intermediateResult is the reduction of the partial results of the PPUs inside ...
SegmentGathers(s) == ~SegThrough(s) /\ InsideSet(s) # {} =>
  FoldsTo(op, KeptPartial, InsideSet(s), Kept(op, intermediate[s]))
\* ... and MPI_Allreduce has that of the segments that have called it.
AllreduceGathers == inAllreduce # {} =>
  FoldsTo(op, KeptPartial, InAllreduceSet, Kept(op, combined))

OutcomeKnown(k) == \A s \in Segments :
  SegThrough(s) => Kept(op, intermediate[s]) = Kept(op, expected[k])

\* The outcome will go to all PPUs inside, and to no PPU of another segment.
TargetsKnown == \A s \in Segments :
  /\ localTargets[s] \subseteq Members(s)
  /\ kind # "TaskGlobal" /\ ~Released(s) => InsideSet(s) \subseteq localTargets[s]

\* PPUs on their way out, and those that have returned, have it.
Has(t) == \/ pc[t] = "top" /\ rounds[t] > 0
          \/ ~Outside(t) /\ Released(SegmentOf[t])
Delivered(k) == \A t \in Ppus : Has(t) =>
  k > 0 /\ Kept(op, property[PropertyOf(t)]) = Kept(op, expected[k])

DataInv(k) == /\ DataTypeOK /\ InBounds
              /\ RoundGathers(k) /\ RoundsAhead(k)
              /\ \A s \in Segments : SegmentGathers(s)
              /\ AllreduceGathers /\ OutcomeKnown(k) /\ TargetsKnown /\ Delivered(k)
FullInv == Inv /\ \E k \in Nat : At(k) /\ DataInv(k)

(* What counts of the partial results are operands. *)
LEMMA KeptType ==
  ASSUME DataTypeOK
  PROVE  /\ KeptPartial \in [Ppus -> Domain(op)]
         /\ \A t \in Ppus : KeptPartial[t] = Kept(op, partial[t])
BY Counts DEF DataTypeOK, KeptPartial

(* The round is the acting PPU's. *)
LEMMA SameRound ==
  ASSUME NEW k \in Nat, Together', NEW t \in Ppus,
         IF SegThrough(SegmentOf[t])' THEN Calls(t)' = k ELSE rounds'[t] = k
  PROVE  At(k)'
<1>1. PICK l \in Nat : At(l)'
  BY DEF Together
<1>2. IF SegThrough(SegmentOf[t])' THEN Calls(t)' = l ELSE rounds'[t] = l
  BY <1>1 DEF At, SegThrough
<1> QED BY <1>1, <1>2

(* A step that changes no value, lets no segment through and sends nobody in. *)
LEMMA GatherFrame ==
  ASSUME NEW k \in Nat, DataInv(k),
         UNCHANGED <<op, partial, intermediate, inAllreduce, combined, expected>>,
         Contributors(k)' = Contributors(k),
         \A s \in Segments : SegThrough(s)' => SegThrough(s),
         \A s \in Segments : ~SegThrough(s)' /\ InsideSet(s)' # {}
                                => ~SegThrough(s) /\ InsideSet(s)' = InsideSet(s)
  PROVE  /\ RoundGathers(k)' /\ RoundsAhead(k)'
         /\ \A s \in Segments : SegmentGathers(s)'
         /\ AllreduceGathers' /\ OutcomeKnown(k)'
<1>1. KeptPartial' = KeptPartial /\ InAllreduceSet' = InAllreduceSet
  BY DEF KeptPartial, InAllreduceSet
<1>2. RoundGathers(k)'
  BY <1>1 DEF DataInv, RoundGathers
<1>3. RoundsAhead(k)'
  BY DEF DataInv, RoundsAhead
<1>4. \A s \in Segments : SegmentGathers(s)'
  BY <1>1 DEF DataInv, SegmentGathers
<1>5. AllreduceGathers'
  BY <1>1 DEF DataInv, AllreduceGathers
<1>6. OutcomeKnown(k)'
  BY DEF DataInv, OutcomeKnown
<1> QED BY <1>2, <1>3, <1>4, <1>5, <1>6

LEMMA DeliveredFrame ==
  ASSUME NEW k \in Nat, Delivered(k), UNCHANGED <<op, kind>>, expected'[k] = expected[k],
         \A t \in Ppus : Has(t)' => Has(t)
                                    /\ property'[PropertyOf(t)] = property[PropertyOf(t)]
  PROVE  Delivered(k)'
<1> SUFFICES ASSUME NEW t \in Ppus, Has(t)'
             PROVE  /\ k > 0
                    /\ Kept(op', property'[PropertyOf(t)']) = Kept(op', expected'[k])
  BY DEF Delivered
<1>1. PropertyOf(t)' = PropertyOf(t)
  BY DEF PropertyOf
<1> QED BY <1>1 DEF Delivered

(* Moves within reduce(), and standing still. *)
LEMMA MoveData ==
  ASSUME TypeOK, NEW k \in Nat, At(k), DataInv(k), Together',
         NEW t \in Ppus, NEW label \in Labels, Goto(t, label),
         Outside(t)' <=> Outside(t), Through(t)' <=> Through(t), pc[t] # "top",
         label = "top" <=> pc[t] = "top", label = "use" <=> pc[t] = "use",
         label \in {"release", "throttled"} <=> pc[t] \in {"release", "throttled"},
         UNCHANGED <<kind, op, rounds, partial, property, intermediate, localTargets,
                     inAllreduce, combined, expected>>
  PROVE  At(k)' /\ DataInv(k)'
<1>1. pc \in [Ppus -> Labels] /\ pc' = [pc EXCEPT ![t] = label]
  BY DEF TypeOK, Goto
<1>2. \A q \in Ppus : /\ (Outside(q)' <=> Outside(q)) /\ (Through(q)' <=> Through(q))
                      /\ pc'[q] = "top" <=> pc[q] = "top"
                      /\ pc'[q] = "use" <=> pc[q] = "use"
                      /\ pc'[q] \in {"release", "throttled"}
                           <=> pc[q] \in {"release", "throttled"}
  BY <1>1 DEF Outside, Through
<1>3. \A s \in Segments : /\ SegThrough(s)' <=> SegThrough(s)
                          /\ Released(s)' <=> Released(s)
                          /\ InsideSet(s)' = InsideSet(s)
  BY <1>2 DEF SegThrough, Released, InsideSet, Members
<1>4. Contributors(k)' = Contributors(k)
  BY <1>2 DEF Contributors
<1>5. At(k)'
  <2>1. SegmentOf[t] \in Segments
    BY SegmentOfType
  <2>2. Calls(t)' = Calls(t)
    BY <1>1 DEF Calls, Outside
  <2> QED BY <1>3, <2>1, <2>2, SameRound DEF At, SegThrough
<1>6. /\ RoundGathers(k)' /\ RoundsAhead(k)' /\ \A s \in Segments : SegmentGathers(s)'
      /\ AllreduceGathers' /\ OutcomeKnown(k)'
  BY <1>3, <1>4, GatherFrame
<1>7. DataTypeOK' /\ InBounds'
  BY <1>2 DEF DataInv, DataTypeOK, InBounds
<1>8. TargetsKnown'
  BY <1>3 DEF DataInv, TargetsKnown, Members
<1>9. Delivered(k)'
  <2>1. \A q \in Ppus : Has(q)' => Has(q)
    BY <1>2, <1>3, SegmentOfType DEF Has
  <2> QED BY <2>1, DeliveredFrame DEF DataInv
<1> QED BY <1>5, <1>6, <1>7, <1>8, <1>9 DEF DataInv

LEMMA PrepareData ==
  ASSUME Inv, Inv', NEW k \in Nat, At(k), DataInv(k), NEW t \in Ppus, Prepare(t)
  PROVE  At(k)' /\ DataInv(k)'
<1>0. SegmentOf[t] \in Segments /\ t \in Members(SegmentOf[t])
  BY SegmentOfType
<1>1. /\ pc \in [Ppus -> Labels] /\ pc[t] = "top" /\ pc' = [pc EXCEPT ![t] = "use"]
      /\ rounds \in [Ppus -> Nat] /\ rounds[t] < MaxRounds
      /\ UNCHANGED <<kind, op, rounds, partial, intermediate, localTargets, inAllreduce,
                     combined, expected>>
  BY DEF Inv, TypeOK, Prepare, Goto
<1>2. \A q \in Ppus : /\ (Outside(q)' <=> Outside(q)) /\ (Through(q)' <=> Through(q))
                      /\ pc'[q] \in {"top", "use"} <=> pc[q] \in {"top", "use"}
                      /\ pc'[q] = "top" <=> (pc[q] = "top" /\ q # t)
                      /\ pc'[q] \in {"release", "throttled"}
                           <=> pc[q] \in {"release", "throttled"}
  BY <1>1 DEF Outside, Through
<1>3. \A s \in Segments : /\ SegThrough(s)' <=> SegThrough(s)
                          /\ Released(s)' <=> Released(s)
                          /\ InsideSet(s)' = InsideSet(s)
  BY <1>2 DEF SegThrough, Released, InsideSet, Members
<1>4. Contributors(k)' = Contributors(k)
  BY <1>1, <1>2 DEF Contributors
<1>5. At(k)'
  <2>1. Calls(t)' = Calls(t)
    BY <1>1 DEF Calls
  <2> QED BY <1>0, <1>1, <1>3, <2>1, SameRound DEF At, SegThrough, Inv
<1>6. /\ RoundGathers(k)' /\ RoundsAhead(k)' /\ \A s \in Segments : SegmentGathers(s)'
      /\ AllreduceGathers' /\ OutcomeKnown(k)'
  BY <1>1, <1>3, <1>4, GatherFrame
<1>7. /\ property' \in [Ppus \cup Segments -> Operands(op)]
      /\ \A v \in Ppus \cup Segments : property'[v] = property[v] \/ (kind # "TaskGlobal" /\ v = t)
  <2>1. /\ property \in [Ppus \cup Segments -> Operands(op)]
        /\ intermediate[SegmentOf[t]] \in Operands(op)
    BY <1>0 DEF DataInv, DataTypeOK
  <2> QED BY <2>1 DEF Prepare
<1>8. DataTypeOK'
  BY <1>1, <1>7 DEF DataInv, DataTypeOK
<1>9. InBounds'
  BY <1>1, <1>2 DEF DataInv, InBounds
<1>10. TargetsKnown'
  BY <1>1, <1>3 DEF DataInv, TargetsKnown, Members
<1>11. Delivered(k)'
  <2>1. ASSUME NEW q \in Ppus, Has(q)'
        PROVE  Has(q) /\ property'[PropertyOf(q)] = property[PropertyOf(q)]
    <3>1. Has(q) /\ q # t
      BY <1>1, <1>2, <1>3, <2>1, SegmentOfType DEF Has, Outside
    <3>2. /\ PropertyOf(q) \in Ppus \cup Segments
          /\ kind # "TaskGlobal" => PropertyOf(q) = q
      BY SegmentOfType DEF PropertyOf
    <3> QED BY <1>7, <3>1, <3>2
  <2> QED BY <1>1, <2>1, DeliveredFrame DEF DataInv
<1> QED BY <1>5, <1>6, <1>8, <1>9, <1>10, <1>11 DEF DataInv

(* The PPU's part of the round: its partial result, and what is expected of it. *)
LEMMA ComputeData ==
  ASSUME Inv, Inv', NEW k \in Nat, At(k), DataInv(k), NEW t \in Ppus, Compute(t)
  PROVE  At(k)' /\ DataInv(k)'
<1>0. SegmentOf[t] \in Segments /\ t \in Members(SegmentOf[t])
  BY SegmentOfType
<1>1. /\ pc \in [Ppus -> Labels] /\ pc[t] = "use" /\ pc' = [pc EXCEPT ![t] = "reduce"]
      /\ rounds \in [Ppus -> Nat]
      /\ UNCHANGED <<kind, op, rounds, property, intermediate, localTargets, inAllreduce,
                     combined>>
  BY DEF Inv, TypeOK, Compute, Goto
<1>2. \A q \in Ppus : /\ (Outside(q)' <=> Outside(q)) /\ (Through(q)' <=> Through(q))
                      /\ pc'[q] \in {"top", "use"} <=> (pc[q] \in {"top", "use"} /\ q # t)
                      /\ pc'[q] = "top" <=> pc[q] = "top"
                      /\ pc'[q] \in {"release", "throttled"}
                           <=> pc[q] \in {"release", "throttled"}
  BY <1>1 DEF Outside, Through
<1>3. \A s \in Segments : /\ SegThrough(s)' <=> SegThrough(s)
                          /\ Released(s)' <=> Released(s)
                          /\ InsideSet(s)' = InsideSet(s)
  BY <1>2 DEF SegThrough, Released, InsideSet, Members
<1>4. rounds[t] = k
  <2>1. Calls(t) = rounds[t]
    BY <1>1 DEF Calls
  <2> QED BY <2>1 DEF At
<1>5. k \in Nat /\ k < MaxRounds /\ MaxRounds \in Nat /\ k + 1 \in Rounds
  BY <1>1, <1>4, ReductionAssumption DEF DataInv, InBounds, Rounds
<1>6. At(k)'
  <2>1. Calls(t)' = k
    BY <1>1, <1>4 DEF Calls
  <2> QED BY <1>1, <1>4, <2>1, SameRound DEF Inv
<1>7. /\ op \in Ops /\ partial \in [Ppus -> Operands(op)]
      /\ expected \in [Rounds -> Operands(op)]
  BY DEF DataInv, DataTypeOK
\* What t adds: its value, or nothing.
<1>8. PICK x \in Domain(op) :
        /\ partial' \in [Ppus -> Operands(op)] /\ expected' \in [Rounds -> Operands(op)]
        /\ \A q \in Ppus \ {t} : partial'[q] = partial[q]
        /\ \A j \in Rounds \ {k + 1} : expected'[j] = expected[j]
        /\ Kept(op, partial'[t]) = x
        /\ Kept(op, expected'[k + 1]) = Combine(op, Kept(op, expected[k + 1]), x)
  <2>0. Kept(op, expected[k + 1]) \in Domain(op)
    BY <1>5, <1>7, Counts
  <2>1. CASE partial' = [partial EXCEPT ![t] = ResetValue(op)] /\ UNCHANGED expected
    <3>1. Combine(op, Kept(op, expected[k + 1]), ResetValue(op)) = Kept(op, expected[k + 1])
      BY <1>7, <2>0, Algebra
    <3>2. /\ ResetValue(op) \in Operands(op) /\ ResetValue(op) \in Domain(op)
          /\ Kept(op, ResetValue(op)) = ResetValue(op)
      BY <1>7, Neutrals
    <3>3. /\ partial' \in [Ppus -> Operands(op)] /\ partial'[t] = ResetValue(op)
          /\ \A q \in Ppus \ {t} : partial'[q] = partial[q]
      BY <1>7, <2>1, <3>2
    <3> QED BY <1>7, <2>1, <3>1, <3>2, <3>3
  <2>2. CASE \E v \in Values[op] :
               /\ partial' = [partial EXCEPT ![t] = Combine(op, ResetValue(op), v)]
               /\ expected' = [expected EXCEPT ![rounds[t] + 1] = Combine(op, @, v)]
    <3>1. PICK v \in Values[op] :
               /\ partial' = [partial EXCEPT ![t] = Combine(op, ResetValue(op), v)]
               /\ expected' = [expected EXCEPT ![k + 1] = Combine(op, expected[k + 1], v)]
      BY <1>4, <2>2
    <3>2. v \in Operands(op) /\ ResetValue(op) \in Operands(op)
          /\ expected[k + 1] \in Operands(op) /\ ResetValue(op) \in Domain(op)
          /\ Kept(op, v) \in Domain(op) /\ Kept(op, ResetValue(op)) = ResetValue(op)
      BY <1>5, <1>7, ValueAssumption, Neutrals, Counts
    <3>3. /\ Combine(op, ResetValue(op), v) \in Operands(op)
          /\ Combine(op, expected[k + 1], v) \in Operands(op)
          /\ Kept(op, Combine(op, expected[k + 1], v))
               = Combine(op, Kept(op, expected[k + 1]), Kept(op, v))
          /\ Kept(op, Combine(op, ResetValue(op), v))
               = Combine(op, ResetValue(op), Kept(op, v))
      BY <1>7, <3>2, Counts
    <3>4. Combine(op, ResetValue(op), Kept(op, v)) = Kept(op, v)
      BY <1>7, <3>2, Algebra
    <3>5. /\ partial' \in [Ppus -> Operands(op)]
          /\ partial'[t] = Combine(op, ResetValue(op), v)
          /\ \A q \in Ppus \ {t} : partial'[q] = partial[q]
      BY <1>7, <3>1, <3>3
    <3>6. /\ expected' \in [Rounds -> Operands(op)]
          /\ expected'[k + 1] = Combine(op, expected[k + 1], v)
          /\ \A j \in Rounds \ {k + 1} : expected'[j] = expected[j]
      BY <1>5, <1>7, <3>1, <3>3
    <3> QED BY <3>2, <3>3, <3>4, <3>5, <3>6
  <2> QED BY <2>1, <2>2 DEF Compute
<1>9. DataTypeOK'
  BY <1>1, <1>8 DEF DataInv, DataTypeOK
<1>10. /\ KeptPartial \in [Ppus -> Domain(op)] /\ KeptPartial' \in [Ppus -> Domain(op)]
       /\ KeptPartial'[t] = x
       /\ \A q \in Ppus \ {t} : KeptPartial'[q] = KeptPartial[q]
  <2>1. KeptPartial \in [Ppus -> Domain(op)]
    BY KeptType DEF DataInv
  <2>2. \A q \in Ppus : Kept(op, partial'[q]) \in Domain(op)
    BY <1>7, <1>8, Counts
  <2> QED BY <1>1, <1>8, <2>1, <2>2 DEF KeptPartial
\* Reductions without t are not touched.
<1>11. ASSUME NEW S, NEW v, FoldsTo(op, KeptPartial, S, v), t \notin S
       PROVE  FoldsTo(op, KeptPartial', S, v)
  <2>1. S \in SUBSET Ppus
    BY <1>7, <1>10, <1>11, FoldBasics
  <2>2. \A q \in S : KeptPartial[q] = KeptPartial'[q]
    BY <1>10, <1>11, <2>1
  <2> QED BY <1>7, <1>10, <1>11, <2>2, FoldFrame
<1>12. RoundGathers(k)'
  <2>1. Contributors(k)' = Contributors(k) \cup {t} /\ t \notin Contributors(k)
    BY <1>1, <1>2, <1>4 DEF Contributors
  <2>2. FoldsTo(op, KeptPartial, Contributors(k), Kept(op, expected[k + 1]))
    BY <1>5 DEF DataInv, RoundGathers
  <2>3. FoldsTo(op, KeptPartial', Contributors(k), Kept(op, expected[k + 1]))
    BY <1>11, <2>1, <2>2
  <2>4. FoldsTo(op, KeptPartial', Contributors(k) \cup {t},
                Combine(op, Kept(op, expected[k + 1]), x))
    BY <1>7, <1>10, <2>1, <2>3, FoldBasics
  <2> QED BY <1>1, <1>8, <2>1, <2>4 DEF RoundGathers
<1>13. RoundsAhead(k)'
  BY <1>1, <1>8 DEF DataInv, RoundsAhead
<1>14. \A s \in Segments : SegmentGathers(s)'
  <2> SUFFICES ASSUME NEW s \in Segments, ~SegThrough(s)', InsideSet(s)' # {}
               PROVE  FoldsTo(op', KeptPartial', InsideSet(s)', Kept(op', intermediate'[s]))
    BY DEF SegmentGathers
  <2>1. FoldsTo(op, KeptPartial, InsideSet(s), Kept(op, intermediate[s]))
    BY <1>3 DEF DataInv, SegmentGathers
  <2>2. t \notin InsideSet(s)
    BY <1>1 DEF InsideSet, Outside
  <2> QED BY <1>1, <1>3, <1>11, <2>1, <2>2
<1>15. AllreduceGathers'
  <2>1. t \notin InAllreduceSet
    BY <1>0, <1>1 DEF Inv, InAllreduce, SegmentInv, Complete, InAllreduceSet, Outside, TypeOK
  <2>2. InAllreduceSet' = InAllreduceSet
    BY <1>1 DEF InAllreduceSet
  <2> QED BY <1>1, <1>11, <2>1, <2>2 DEF DataInv, AllreduceGathers
<1>16. k \in Rounds \/ k = 0
  BY <1>5 DEF Rounds
<1>17. k \in Rounds => expected'[k] = expected[k]
  BY <1>5, <1>8
<1>18. k = 0 => (\A s \in Segments : ~SegThrough(s)) /\ \A q \in Ppus : ~Has(q)
  <2> SUFFICES ASSUME k = 0
               PROVE  (\A s \in Segments : ~SegThrough(s)) /\ \A q \in Ppus : ~Has(q)
    OBVIOUS
  <2>1. ASSUME NEW s \in Segments, NEW r \in Members(s), Through(r) PROVE FALSE
    <3>1. Calls(r) = 0 /\ r \in Ppus
      BY <2>1 DEF At, Members
    <3> QED BY <1>1, <2>1, <3>1 DEF Calls, Through
  <2> QED BY <2>1 DEF SegThrough, DataInv, Delivered
<1>19. OutcomeKnown(k)'
  <2> SUFFICES ASSUME NEW s \in Segments, SegThrough(s)
               PROVE  Kept(op, intermediate[s]) = Kept(op, expected'[k])
    BY <1>1, <1>3 DEF OutcomeKnown
  <2>1. expected'[k] = expected[k]
    BY <1>16, <1>17, <1>18
  <2> QED BY <2>1 DEF DataInv, OutcomeKnown
<1>20. TargetsKnown'
  BY <1>1, <1>3 DEF DataInv, TargetsKnown, Members
<1>21. \A q \in Ppus : Has(q)' <=> Has(q)
  BY <1>1, <1>2, <1>3, SegmentOfType DEF Has
<1>22. Delivered(k)'
  <2>1. CASE \E q \in Ppus : Has(q)
    <3>1. expected'[k] = expected[k]
      BY <1>16, <1>17, <1>18, <2>1
    <3> QED BY <1>1, <1>21, <3>1, DeliveredFrame DEF DataInv
  <2>2. CASE ~\E q \in Ppus : Has(q)
    BY <1>21, <2>2 DEF Delivered
  <2> QED BY <2>1, <2>2
<1>23. InBounds'
  <2>1. \A q \in Ppus : pc'[q] # "top" => pc[q] # "top"
    BY <1>2
  <2> QED BY <1>1, <2>1 DEF DataInv, InBounds
<1> QED BY <1>6, <1>9, <1>12, <1>13, <1>14, <1>15, <1>19, <1>20, <1>22, <1>23 DEF DataInv

(* The next round begins with nothing expected of it yet. *)
LEMMA NextRound ==
  ASSUME Inv, NEW k \in Nat, DataInv(k), \A q \in Ppus : rounds[q] = k, rounds' = rounds,
         UNCHANGED <<op, partial, expected>>
  PROVE  RoundGathers(k + 1)' /\ RoundsAhead(k + 1)'
<1>0. op \in Ops /\ KeptPartial \in [Ppus -> Domain(op)] /\ KeptPartial' = KeptPartial
  BY KeptType DEF DataInv, DataTypeOK, KeptPartial
<1>1. Contributors(k + 1)' = {}
  BY DEF Contributors
<1>2. \A j \in Rounds : j > k + 1 => Kept(op, expected'[j]) = ResetValue(op)
  BY DEF DataInv, RoundsAhead
<1>3. RoundGathers(k + 1)'
  <2>1. FoldsTo(op, KeptPartial, {}, ResetValue(op))
    BY <1>0, FoldBasics
  <2>2. (k + 1) + 1 > k + 1
    OBVIOUS
  <2> QED BY <1>0, <1>1, <1>2, <2>1, <2>2 DEF RoundGathers
<1>4. RoundsAhead(k + 1)'
  <2>1. \A j \in Rounds : j > (k + 1) + 1 => j > k + 1
    BY DEF Rounds
  <2> QED BY <1>2, <2>1 DEF RoundsAhead
<1> QED BY <1>3, <1>4

(* When all PPUs have contributed, what has been combined is the outcome. *)
LEMMA OutcomeComplete ==
  ASSUME NEW k \in Nat, DataInv(k), NEW t \in Ppus, pc[t] # "top",
         \A q \in Ppus : rounds[q] = k /\ pc[q] \notin {"top", "use"},
         NEW v, FoldsTo(op, KeptPartial, Ppus, v)
  PROVE  k + 1 \in Rounds /\ v = Kept(op, expected[k + 1])
<1>1. k + 1 \in Rounds
  <2>1. k < MaxRounds /\ MaxRounds \in Nat
    BY ReductionAssumption DEF DataInv, InBounds
  <2> QED BY <2>1 DEF Rounds
<1>2. Contributors(k) = Ppus
  BY DEF Contributors
<1>3. FoldsTo(op, KeptPartial, Ppus, Kept(op, expected[k + 1]))
  BY <1>1, <1>2 DEF DataInv, RoundGathers
<1>4. op \in Ops /\ KeptPartial \in [Ppus -> Domain(op)]
  BY KeptType DEF DataInv, DataTypeOK
<1> QED BY <1>1, <1>3, <1>4, FoldUnique

LEMMA EnterData ==
  ASSUME Inv, Inv', NEW k \in Nat, At(k), DataInv(k), NEW t \in Ppus,
         NEW s, s = SegmentOf[t], Enter(t, s)
  PROVE  \E l \in Nat : At(l)' /\ DataInv(l)'
<1>0. s \in Segments /\ t \in Members(s) /\ Size(s) \in Nat \ {0}
  BY SegmentOfType, SegmentType
<1>1. PICK label \in {"unlock", "allreduce", "deliver"} :
        /\ pc \in [Ppus -> Labels] /\ pc[t] = "reduce" /\ pc' = [pc EXCEPT ![t] = label]
        /\ count[s] # 1 => label = "unlock"
        /\ label = "deliver" => count[s] = 1 /\ ~(Cardinality(Segments) > 1)
  BY DEF Inv, TypeOK, Enter, Goto, Last
<1>2. /\ mutex[s] > 0 /\ rounds \in [Ppus -> Nat]
      /\ intermediate' = [intermediate EXCEPT ![s] = Accumulate(t, s)]
      /\ localTargets' = [localTargets EXCEPT
                            ![s] = IF kind = "TaskGlobal" THEN @ ELSE @ \cup {t}]
      /\ UNCHANGED <<kind, op, rounds, partial, property, inAllreduce, combined, expected>>
  BY DEF Inv, TypeOK, Enter
<1>3. \A q \in Members(s) : ~Holds(q)
  BY <1>0, <1>2 DEF Inv, TypeOK, SegmentInv, MutexHeld
<1>4. count[s] = Size(s) - Cardinality(InsideSet(s))
  BY <1>0, <1>3 DEF Inv, SegmentInv, Gathering, Holds, Leads
<1>5. ~SegThrough(s) /\ ~Released(s) /\ rounds[t] = k
  BY <1>0, <1>3 DEF SegThrough, Released, Holds, Through, At
<1>6. /\ op \in Ops /\ KeptPartial \in [Ppus -> Domain(op)] /\ KeptPartial' = KeptPartial
      /\ KeptPartial[t] = Kept(op, partial[t])
      /\ partial[t] \in Operands(op) /\ intermediate[s] \in Operands(op)
      /\ Kept(op, partial[t]) \in Domain(op) /\ Kept(op, intermediate[s]) \in Domain(op)
  <2>1. /\ op \in Ops /\ partial[t] \in Operands(op) /\ intermediate[s] \in Operands(op)
    BY <1>0 DEF DataInv, DataTypeOK
  <2>2. KeptPartial' = KeptPartial
    BY <1>2 DEF KeptPartial
  <2> QED BY <2>1, <2>2, KeptType, Counts DEF DataInv
<1>7. InsideSet(s)' = InsideSet(s) \cup {t} /\ t \notin InsideSet(s)
  BY <1>0, <1>1 DEF InsideSet, Outside, Members
<1>8. /\ Accumulate(t, s) \in Operands(op)
      /\ FoldsTo(op, KeptPartial, InsideSet(s)', Kept(op, Accumulate(t, s)))
  <2>1. CASE count[s] = Size(s)
    <3>1. InsideSet(s) = {}
      <4>1. InsideSet(s) \in SUBSET Members(s)
        BY DEF InsideSet
      <4>2. Cardinality(InsideSet(s)) \in 0..Size(s)
        BY <1>0, <4>1, SubsetType
      <4>3. Cardinality(InsideSet(s)) = 0
        BY <1>0, <1>4, <2>1, <4>2
      <4> QED BY <1>0, <4>1, <4>3, SubsetType
    <3>2. FoldsTo(op, KeptPartial, {} \cup {t}, Combine(op, ResetValue(op), KeptPartial[t]))
      BY <1>6, FoldBasics
    <3>3. Combine(op, ResetValue(op), KeptPartial[t]) = KeptPartial[t]
      BY <1>6, Neutrals, Algebra
    <3>4. InsideSet(s)' = {} \cup {t}
      BY <1>7, <3>1
    <3>5. Accumulate(t, s) = partial[t]
      BY <2>1 DEF Accumulate
    <3> QED BY <1>6, <3>2, <3>3, <3>4, <3>5
  <2>2. CASE count[s] # Size(s)
    <3>1. InsideSet(s) # {}
      BY <1>0, <1>4, <2>2, FS_EmptySet
    <3>2. FoldsTo(op, KeptPartial, InsideSet(s), Kept(op, intermediate[s]))
      BY <1>0, <1>5, <3>1 DEF DataInv, SegmentGathers
    <3>3. FoldsTo(op, KeptPartial, InsideSet(s) \cup {t},
                  Combine(op, Kept(op, intermediate[s]), KeptPartial[t]))
      BY <1>6, <1>7, <3>2, FoldBasics
    <3>4. Accumulate(t, s) = Combine(op, intermediate[s], partial[t])
      BY <2>2 DEF Accumulate
    <3> QED BY <1>6, <1>7, <3>3, <3>4, Counts
  <2> QED BY <2>1, <2>2
<1>9. /\ intermediate' \in [Segments -> Operands(op)]
      /\ intermediate'[s] = Accumulate(t, s)
      /\ \A u \in Segments \ {s} : intermediate'[u] = intermediate[u]
  <2>1. intermediate \in [Segments -> Operands(op)]
    BY DEF DataInv, DataTypeOK
  <2> QED BY <1>0, <1>2, <1>8, <2>1
<1>10. /\ localTargets' \in [Segments -> SUBSET Ppus]
       /\ localTargets'[s] = IF kind = "TaskGlobal" THEN localTargets[s]
                             ELSE localTargets[s] \cup {t}
       /\ \A u \in Segments \ {s} : localTargets'[u] = localTargets[u]
  <2>1. localTargets \in [Segments -> SUBSET Ppus]
    BY DEF DataInv, DataTypeOK
  <2>2. localTargets[s] \cup {t} \in SUBSET Ppus
    BY <1>0, <2>1
  <2> QED BY <1>0, <1>2, <2>1, <2>2
<1>11. DataTypeOK'
  BY <1>2, <1>9, <1>10 DEF DataInv, DataTypeOK
<1>12. InBounds'
  <2>1. \A q \in Ppus : pc'[q] # "top" => pc[q] # "top"
    BY <1>1
  <2> QED BY <1>2, <2>1 DEF DataInv, InBounds
<1>13. \A u \in Segments \ {s} : /\ SegThrough(u)' <=> SegThrough(u)
                                 /\ Released(u)' <=> Released(u)
                                 /\ InsideSet(u)' = InsideSet(u)
  BY <1>0, <1>1 DEF SegThrough, Released, InsideSet, Members, Through, Outside
<1>14. ~Released(s)'
  BY <1>0, <1>1, <1>3 DEF Released, Holds, Members
<1>15. TargetsKnown'
  <2> SUFFICES ASSUME NEW u \in Segments
               PROVE  /\ localTargets'[u] \subseteq Members(u)
                      /\ kind # "TaskGlobal" /\ ~Released(u)'
                           => InsideSet(u)' \subseteq localTargets'[u]
    BY <1>2 DEF TargetsKnown, Members
  <2>1. CASE u = s
    BY <1>0, <1>5, <1>7, <1>10, <2>1 DEF DataInv, TargetsKnown
  <2>2. CASE u # s
    BY <1>10, <1>13, <2>2 DEF DataInv, TargetsKnown
  <2> QED BY <2>1, <2>2
<1>16. \A q \in Ppus : Has(q)' => Has(q)
  <2> SUFFICES ASSUME NEW q \in Ppus, Has(q)' PROVE Has(q)
    OBVIOUS
  <2>1. q # t
    BY <1>0, <1>1, <1>2, <1>14 DEF Has
  <2>2. pc'[q] = pc[q] /\ (Outside(q)' <=> Outside(q))
    BY <1>1, <2>1 DEF Outside
  <2>3. Released(SegmentOf[q])' => Released(SegmentOf[q])
    BY <1>13, <1>14, SegmentOfType
  <2> QED BY <1>2, <2>2, <2>3 DEF Has
<1>17. CASE label # "deliver"
  <2>1. ~SegThrough(s)'
    BY <1>0, <1>1, <1>3, <1>17 DEF SegThrough, Through, Holds, Members
  <2>2. At(k)'
    BY <1>0, <1>2, <1>5, <2>1, SameRound DEF Inv
  <2>3. Contributors(k)' = Contributors(k)
    BY <1>1, <1>2 DEF Contributors
  <2>4. RoundGathers(k)' /\ RoundsAhead(k)'
    BY <1>2, <1>6, <2>3 DEF DataInv, RoundGathers, RoundsAhead
  <2>5. \A u \in Segments : SegmentGathers(u)'
    <3> SUFFICES ASSUME NEW u \in Segments, ~SegThrough(u)', InsideSet(u)' # {}
                 PROVE  FoldsTo(op, KeptPartial, InsideSet(u)', Kept(op, intermediate'[u]))
      BY <1>2, <1>6 DEF SegmentGathers
    <3>1. CASE u = s
      BY <1>8, <1>9, <3>1
    <3>2. CASE u # s
      BY <1>9, <1>13, <3>2 DEF DataInv, SegmentGathers
    <3> QED BY <3>1, <3>2
  <2>6. AllreduceGathers'
    <3>1. InAllreduceSet' = InAllreduceSet
      BY <1>2 DEF InAllreduceSet
    <3> QED BY <1>2, <1>6, <3>1 DEF DataInv, AllreduceGathers
  <2>7. OutcomeKnown(k)'
    BY <1>2, <1>9, <1>13, <2>1 DEF DataInv, OutcomeKnown
  <2>8. Delivered(k)'
    BY <1>2, <1>16, DeliveredFrame DEF DataInv
  <2>9. DataInv(k)'
    BY <1>11, <1>12, <1>15, <2>4, <2>5, <2>6, <2>7, <2>8 DEF DataInv
  <2> QED BY <2>2, <2>9
\* The only segment: its PPUs are all there are, and have all arrived.
<1>18. CASE label = "deliver"
  <2>1. Segments = {s}
    <3>1. IsFiniteSet(Segments) /\ ~(Cardinality(Segments) > 1)
      BY <1>1, <1>18, ReductionAssumption
    <3>2. IsFiniteSet(Segments \ {s})
          /\ Cardinality(Segments \ {s}) = Cardinality(Segments) - 1
      BY <1>0, <3>1, FS_RemoveElement
    <3>3. Cardinality(Segments \ {s}) \in Nat /\ Cardinality(Segments) \in Nat
      BY <3>1, <3>2, FS_CardinalityType
    <3>4. Cardinality(Segments \ {s}) = 0
      BY <3>1, <3>2, <3>3
    <3>5. Segments \ {s} = {}
      BY <3>2, <3>4, FS_EmptySet
    <3> QED BY <1>0, <3>5
  <2>2. Members(s) = Ppus
    BY <2>1, ReductionAssumption DEF Members
  <2>3. InsideSet(s)' = Ppus
    <3>1. InsideSet(s) \in SUBSET Members(s) /\ InsideSet(s)' \in SUBSET Members(s)
      BY <1>0, <1>7 DEF InsideSet
    <3>2. /\ IsFiniteSet(InsideSet(s)) /\ Cardinality(InsideSet(s)) \in 0..Size(s)
          /\ Cardinality(InsideSet(s)) = Size(s) - 1
      <4>1. count[s] = 1
        BY <1>1, <1>18
      <4>2. IsFiniteSet(InsideSet(s)) /\ Cardinality(InsideSet(s)) \in 0..Size(s)
        BY <1>0, <3>1, SubsetType
      <4> QED BY <1>0, <1>4, <4>1, <4>2
    <3>3. Cardinality(InsideSet(s)') = Cardinality(InsideSet(s)) + 1
      BY <1>7, <3>2, FS_AddElement
    <3>4. Cardinality(InsideSet(s)') = Size(s)
      BY <1>0, <3>2, <3>3
    <3> QED BY <1>0, <2>2, <3>1, <3>4, SubsetType
  <2>4. \A q \in Ppus : ~Outside(q)' /\ rounds[q] = k /\ pc[q] \notin {"top", "use"}
    <3>1. \A q \in Ppus : ~Outside(q)'
      BY <2>3 DEF InsideSet
    <3>2. \A q \in Ppus : SegmentOf[q] = s
      BY <2>2 DEF Members
    <3> QED BY <1>1, <1>5, <3>1, <3>2 DEF At, SegThrough, Outside
  <2>5. SegThrough(s)'
    BY <1>0, <1>1, <1>18 DEF SegThrough, Through, Members
  <2>6. At(k + 1)'
    <3>1. Calls(t)' = k + 1
      BY <1>2, <1>5, <2>4 DEF Calls, Outside
    <3> QED BY <2>5, <3>1, SameRound DEF Inv
  <2>7. k + 1 \in Rounds /\ Kept(op, intermediate'[s]) = Kept(op, expected[k + 1])
    BY <1>1, <1>8, <1>9, <2>3, <2>4, OutcomeComplete, <1>0
  <2>8. RoundGathers(k + 1)' /\ RoundsAhead(k + 1)'
    BY <1>2, <2>4, NextRound
  <2>9. \A u \in Segments : SegmentGathers(u)'
    BY <2>1, <2>5 DEF SegmentGathers
  <2>10. AllreduceGathers'
    <3>1. inAllreduce = {}
      BY <1>0, <1>3, <2>1 DEF Inv, InAllreduce, TypeOK, Holds
    <3> QED BY <1>2, <3>1 DEF AllreduceGathers
  <2>11. OutcomeKnown(k + 1)'
    BY <1>2, <2>1, <2>7 DEF OutcomeKnown
  <2>12. Delivered(k + 1)'
    <3>1. \A q \in Ppus : ~Has(q)'
      BY <1>14, <2>2, <2>4 DEF Has, Outside, Members
    <3> QED BY <3>1 DEF Delivered
  <2>13. DataInv(k + 1)'
    BY <1>11, <1>12, <1>15, <2>8, <2>9, <2>10, <2>11, <2>12 DEF DataInv
  <2> QED BY <2>6, <2>13
<1> QED BY <1>17, <1>18

LEMMA AllreduceData ==
  ASSUME Inv, Inv', NEW k \in Nat, At(k), DataInv(k), NEW t \in Ppus,
         NEW s, s = SegmentOf[t], Allreduce(t, s)
  PROVE  \E l \in Nat : At(l)' /\ DataInv(l)'
<1>0. s \in Segments /\ t \in Members(s)
  BY SegmentOfType
<1>1. /\ pc[t] = "allreduce" /\ pc \in [Ppus -> Labels] /\ s \notin inAllreduce
      /\ rounds \in [Ppus -> Nat] /\ inAllreduce \in SUBSET Segments
      /\ combined' = CombinedWith(s)
      /\ UNCHANGED <<kind, op, rounds, partial, property, localTargets, expected>>
  BY DEF Inv, TypeOK, Allreduce
\* Segments in MPI_Allreduce have gathered, and none of their PPUs is on its way out.
<1>2. ASSUME NEW u \in inAllreduce \cup {s}
      PROVE  /\ \A q \in Members(u) : ~Outside(q) /\ ~Through(q)
             /\ ~SegThrough(u) /\ ~Released(u) /\ InsideSet(u) = Members(u)
  <2>1. u \in Segments
    BY <1>0, <1>1
  <2>2. PICK r \in Members(u) : pc[r] = "allreduce"
    BY <1>0, <1>1 DEF Inv, InAllreduce
  <2>3. \A q \in Members(u) : Holds(q) => q = r
    BY <2>1, <2>2 DEF Inv, SegmentInv, MutexHeld, Holds
  <2>4. \A q \in Members(u) : ~Outside(q)
    BY <2>1, <2>2 DEF Inv, SegmentInv, Complete
  <2> QED BY <2>2, <2>3, <2>4 DEF Through, Holds, SegThrough, Released, InsideSet
<1>3. /\ op \in Ops /\ KeptPartial \in [Ppus -> Domain(op)] /\ KeptPartial' = KeptPartial
      /\ intermediate \in [Segments -> Operands(op)] /\ combined \in Operands(op)
  <2>1. KeptPartial' = KeptPartial
    BY <1>1 DEF KeptPartial
  <2> QED BY <2>1, KeptType DEF DataInv, DataTypeOK
<1>4. FoldsTo(op, KeptPartial, Members(s), Kept(op, intermediate[s]))
  BY <1>0, <1>2 DEF DataInv, SegmentGathers
\* What MPI_Allreduce has after the call.
<1>5. /\ combined' \in Operands(op)
      /\ FoldsTo(op, KeptPartial, {q \in Ppus : SegmentOf[q] \in inAllreduce \cup {s}},
                 Kept(op, combined'))
  <2>1. intermediate[s] \in Operands(op)
    BY <1>0, <1>3
  <2>2. CASE inAllreduce = {}
    <3>1. {q \in Ppus : SegmentOf[q] \in inAllreduce \cup {s}} = Members(s)
      BY <2>2 DEF Members
    <3>2. combined' = intermediate[s]
      BY <1>1, <2>2 DEF CombinedWith
    <3> QED BY <1>4, <2>1, <3>1, <3>2
  <2>3. CASE inAllreduce # {}
    <3>1. FoldsTo(op, KeptPartial, InAllreduceSet, Kept(op, combined))
      BY <2>3 DEF DataInv, AllreduceGathers
    <3>2. {q \in Ppus : SegmentOf[q] \in inAllreduce \cup {s}} = InAllreduceSet \cup Members(s)
          /\ InAllreduceSet \cap Members(s) = {}
      BY <1>1 DEF InAllreduceSet, Members
    <3>3. FoldsTo(op, KeptPartial, InAllreduceSet \cup Members(s),
                  Combine(op, Kept(op, combined), Kept(op, intermediate[s])))
      BY <1>3, <1>4, <3>1, <3>2, FoldUnion
    <3>4. combined' = Combine(op, combined, intermediate[s])
      BY <1>1, <2>3 DEF CombinedWith
    <3> QED BY <1>3, <2>1, <3>2, <3>3, <3>4, Counts
  <2> QED BY <2>2, <2>3
<1>6. CASE inAllreduce \cup {s} # Segments
  <2>1. UNCHANGED <<pc, intermediate>> /\ inAllreduce' = inAllreduce \cup {s}
    BY <1>6 DEF Allreduce
  <2>2. /\ Contributors(k)' = Contributors(k)
        /\ \A u \in Segments : /\ SegThrough(u)' <=> SegThrough(u)
                               /\ Released(u)' <=> Released(u)
                               /\ InsideSet(u)' = InsideSet(u)
        /\ \A q \in Ppus : Has(q)' <=> Has(q)
        /\ Calls(t)' = Calls(t)
    BY <1>1, <2>1 DEF Contributors, SegThrough, Released, InsideSet, Members, Through, Outside,
                      Has, Calls
  <2>3. At(k)'
    BY <1>0, <1>1, <2>2, SameRound DEF At, SegThrough, Inv
  <2>4. DataTypeOK' /\ InBounds'
    BY <1>1, <1>5, <2>1 DEF DataInv, DataTypeOK, InBounds
  <2>5. RoundGathers(k)' /\ RoundsAhead(k)'
    BY <1>1, <1>3, <2>2 DEF DataInv, RoundGathers, RoundsAhead
  <2>6. \A u \in Segments : SegmentGathers(u)'
    BY <1>1, <1>3, <2>1, <2>2 DEF DataInv, SegmentGathers
  <2>7. AllreduceGathers'
    <3>1. InAllreduceSet' = {q \in Ppus : SegmentOf[q] \in inAllreduce \cup {s}}
      BY <2>1 DEF InAllreduceSet
    <3> QED BY <1>1, <1>3, <1>5, <3>1 DEF AllreduceGathers
  <2>8. OutcomeKnown(k)' /\ TargetsKnown'
    BY <1>1, <2>1, <2>2 DEF DataInv, OutcomeKnown, TargetsKnown, Members
  <2>9. Delivered(k)'
    BY <1>1, <2>2, DeliveredFrame DEF DataInv
  <2>10. DataInv(k)'
    BY <2>4, <2>5, <2>6, <2>7, <2>8, <2>9 DEF DataInv
  <2> QED BY <2>3, <2>10
<1>7. CASE inAllreduce \cup {s} = Segments
  <2>1. /\ inAllreduce' = {} /\ intermediate' = [u \in Segments |-> combined']
        /\ pc' = [u \in Ppus |-> IF \E r \in Segments : u = Releaser(r)
                                 THEN "deliver" ELSE pc[u]]
    BY <1>7 DEF Allreduce
  <2>2. \A u \in Segments : Releaser(u) \in Members(u) /\ pc[Releaser(u)] = "allreduce"
    <3>1. \A u \in Segments : \E r \in Members(u) : pc[r] = "allreduce"
      BY <1>0, <1>1, <1>7 DEF Inv, InAllreduce
    <3> QED BY <3>1 DEF Releaser
  <2>3. \A q \in Ppus : /\ ~Outside(q) /\ ~Through(q)
                        /\ pc[q] \notin {"top", "use"} /\ rounds[q] = k
    <3>1. \A q \in Ppus : ~Outside(q) /\ ~SegThrough(SegmentOf[q])
      BY <1>2, <1>7, SegmentOfType
    <3>2. \A q \in Ppus : rounds[q] = k
      BY <3>1 DEF At, SegThrough
    <3> QED BY <1>2, <1>7, <3>1, <3>2, SegmentOfType DEF Outside
  <2>4. \A q \in Ppus : /\ ~Outside(q)' /\ pc'[q] # "top"
                        /\ pc'[q] \notin {"release", "throttled"}
    BY <2>1, <2>3 DEF Outside, Through
  <2>5. \A u \in Segments : /\ SegThrough(u)' /\ ~Released(u)'
                            /\ InsideSet(u)' = InsideSet(u)
    <3>1. \A u \in Segments : SegThrough(u)'
      BY <2>1, <2>2 DEF SegThrough, Through, Members
    <3> QED BY <2>3, <2>4, <3>1 DEF Released, InsideSet, Members
  <2>6. At(k + 1)'
    <3>1. Calls(t)' = k + 1
      BY <1>0, <1>1, <2>3, <2>4 DEF Calls, Outside
    <3> QED BY <1>0, <2>5, <3>1, SameRound DEF Inv
  <2>7. k + 1 \in Rounds /\ Kept(op, combined') = Kept(op, expected[k + 1])
    <3>1. {q \in Ppus : SegmentOf[q] \in inAllreduce \cup {s}} = Ppus
      BY <1>7, SegmentOfType
    <3> QED BY <1>1, <1>5, <2>3, <3>1, OutcomeComplete
  <2>8. RoundGathers(k + 1)' /\ RoundsAhead(k + 1)'
    BY <1>1, <2>3, NextRound
  <2>9. (\A u \in Segments : SegmentGathers(u)') /\ AllreduceGathers'
    BY <2>1, <2>5 DEF SegmentGathers, AllreduceGathers
  <2>10. OutcomeKnown(k + 1)'
    BY <1>1, <2>1, <2>7 DEF OutcomeKnown
  <2>11. Delivered(k + 1)'
    BY <2>4, <2>5, SegmentOfType DEF Delivered, Has
  <2>12. TargetsKnown'
    <3> SUFFICES ASSUME NEW u \in Segments
                 PROVE  /\ localTargets[u] \subseteq Members(u)
                        /\ kind # "TaskGlobal" => InsideSet(u)' \subseteq localTargets[u]
      BY <1>1 DEF TargetsKnown, Members
    <3>1. ~Released(u)
      BY <1>2, <1>7
    <3> QED BY <2>5, <3>1 DEF DataInv, TargetsKnown
  <2>13. DataTypeOK'
    <3>1. intermediate' \in [Segments -> Operands(op)]
      BY <1>5, <2>1
    <3> QED BY <1>1, <1>5, <3>1 DEF DataInv, DataTypeOK
  <2>14. InBounds'
    BY <1>1, <2>3, <2>4 DEF DataInv, InBounds, Outside
  <2>15. DataInv(k + 1)'
    BY <2>8, <2>9, <2>10, <2>11, <2>12, <2>13, <2>14 DEF DataInv
  <2> QED BY <2>6, <2>15
<1> QED BY <1>6, <1>7

LEMMA DeliverData ==
  ASSUME Inv, Inv', NEW k \in Nat, At(k), DataInv(k), NEW t \in Ppus,
         NEW s, s = SegmentOf[t], Deliver(t, s)
  PROVE  At(k)' /\ DataInv(k)'
<1>0. s \in Segments /\ t \in Members(s)
  BY SegmentOfType
<1>1. /\ pc[t] = "deliver" /\ pc \in [Ppus -> Labels] /\ pc' = [pc EXCEPT ![t] = "release"]
      /\ rounds \in [Ppus -> Nat]
      /\ property' = [v \in DOMAIN property |-> IF v \in Targets(t, s) THEN intermediate[s]
                                                ELSE property[v]]
      /\ localTargets' = [localTargets EXCEPT ![s] = {}]
      /\ UNCHANGED <<kind, op, rounds, partial, intermediate, inAllreduce, combined, expected>>
  BY DEF Inv, TypeOK, Deliver, Goto
<1>2. /\ \A q \in Members(s) : ~Outside(q)
      /\ \A q \in Members(s) : Holds(q) => q = t
      /\ SegThrough(s) /\ ~Released(s) /\ InsideSet(s) = Members(s)
  <2>1. \A q \in Members(s) : ~Outside(q)
    BY <1>0, <1>1 DEF Inv, SegmentInv, Complete
  <2>2. \A q \in Members(s) : Holds(q) => q = t
    BY <1>0, <1>1 DEF Inv, SegmentInv, MutexHeld, Holds
  <2>3. SegThrough(s) /\ ~Released(s)
    BY <1>0, <1>1, <2>2 DEF SegThrough, Released, Through, Holds
  <2> QED BY <2>1, <2>2, <2>3 DEF InsideSet
<1>3. \A q \in Ppus : /\ (Outside(q)' <=> Outside(q)) /\ (Through(q)' <=> Through(q))
                      /\ pc'[q] \in {"top", "use"} <=> pc[q] \in {"top", "use"}
                      /\ pc'[q] = "top" <=> pc[q] = "top"
                      /\ q # t => pc'[q] = pc[q]
  BY <1>1 DEF Outside, Through
<1>4. /\ \A u \in Segments : /\ SegThrough(u)' <=> SegThrough(u)
                             /\ InsideSet(u)' = InsideSet(u)
      /\ Contributors(k)' = Contributors(k)
      /\ \A u \in Segments \ {s} : Released(u)' <=> Released(u)
      /\ Released(s)'
  BY <1>0, <1>1, <1>3 DEF SegThrough, InsideSet, Contributors, Members, Released
<1>5. Calls(t) = k /\ k > 0
  BY <1>0, <1>1, <1>2 DEF At, SegThrough, Calls
<1>6. At(k)'
  <2>1. Calls(t)' = Calls(t)
    BY <1>1, <1>3 DEF Calls, Outside
  <2> QED BY <1>0, <1>2, <1>4, <1>5, <2>1, SameRound DEF Inv
<1>7. /\ RoundGathers(k)' /\ RoundsAhead(k)' /\ \A u \in Segments : SegmentGathers(u)'
      /\ AllreduceGathers' /\ OutcomeKnown(k)'
  BY <1>1, <1>4, GatherFrame
<1>8. /\ property \in [Ppus \cup Segments -> Operands(op)]
      /\ intermediate[s] \in Operands(op) /\ localTargets \in [Segments -> SUBSET Ppus]
  BY <1>0 DEF DataInv, DataTypeOK
<1>9. /\ property' \in [Ppus \cup Segments -> Operands(op)]
      /\ \A v \in Ppus \cup Segments :
           property'[v] = IF v \in Targets(t, s) THEN intermediate[s] ELSE property[v]
  BY <1>1, <1>8
<1>10. localTargets' \in [Segments -> SUBSET Ppus]
  BY <1>1, <1>8
<1>11. DataTypeOK'
  BY <1>1, <1>9, <1>10 DEF DataInv, DataTypeOK
<1>12. InBounds'
  BY <1>1, <1>3 DEF DataInv, InBounds
<1>13. TargetsKnown'
  <2> SUFFICES ASSUME NEW u \in Segments
               PROVE  /\ localTargets'[u] \subseteq Members(u)
                      /\ kind # "TaskGlobal" /\ ~Released(u)'
                           => InsideSet(u)' \subseteq localTargets'[u]
    BY <1>1 DEF TargetsKnown, Members
  <2>1. CASE u = s
    BY <1>0, <1>1, <1>4, <1>8, <2>1
  <2>2. CASE u # s
    <3>1. localTargets'[u] = localTargets[u]
      BY <1>1, <1>8, <2>2
    <3> QED BY <1>4, <2>2, <3>1 DEF DataInv, TargetsKnown
  <2> QED BY <2>1, <2>2
<1>14. Delivered(k)'
  <2> SUFFICES ASSUME NEW q \in Ppus, Has(q)'
               PROVE  Kept(op, property'[PropertyOf(q)]) = Kept(op, expected[k])
    <3>1. \A q \in Ppus : PropertyOf(q)' = PropertyOf(q)
      BY <1>1 DEF PropertyOf
    <3> QED BY <1>1, <1>5, <3>1 DEF Delivered
  <2>0. PropertyOf(q) \in Ppus \cup Segments
    BY SegmentOfType DEF PropertyOf
  <2>1. CASE SegmentOf[q] = s
    <3>1. PropertyOf(q) \in Targets(t, s)
      <4>1. CASE kind = "TaskGlobal"
        BY <2>1, <4>1 DEF PropertyOf, Targets
      <4>2. CASE kind # "TaskGlobal"
        <5>1. q \in InsideSet(s)
          BY <1>2, <2>1 DEF Members
        <5>2. q \in localTargets[s]
          BY <1>0, <1>2, <4>2, <5>1 DEF DataInv, TargetsKnown
        <5> QED BY <4>2, <5>2 DEF PropertyOf, Targets
      <4> QED BY <4>1, <4>2
    <3>2. property'[PropertyOf(q)] = intermediate[s]
      BY <1>9, <2>0, <3>1
    <3> QED BY <1>0, <1>2, <3>2 DEF DataInv, OutcomeKnown
  <2>2. CASE SegmentOf[q] # s
    <3>1. PropertyOf(q) \notin Targets(t, s)
      <4>1. CASE kind = "TaskGlobal"
        BY <2>2, <4>1 DEF PropertyOf, Targets
      <4>2. CASE kind # "TaskGlobal"
        <5>1. localTargets[s] \subseteq Members(s)
          BY <1>0 DEF DataInv, TargetsKnown
        <5> QED BY <2>2, <4>2, <5>1 DEF PropertyOf, Targets, Members
      <4> QED BY <4>1, <4>2
    <3>2. property'[PropertyOf(q)] = property[PropertyOf(q)]
      BY <1>9, <2>0, <3>1
    <3>3. Has(q)
      BY <1>1, <1>3, <1>4, <2>2, SegmentOfType DEF Has
    <3> QED BY <3>2, <3>3 DEF DataInv, Delivered
  <2> QED BY <2>1, <2>2
<1> QED BY <1>6, <1>7, <1>11, <1>12, <1>13, <1>14 DEF DataInv

(* A PPU returns from reduce(). *)
LEMMA ReturnData ==
  ASSUME Inv, Inv', NEW k \in Nat, At(k), DataInv(k), NEW t \in Ppus,
         NEW s, s = SegmentOf[t], Return(t), Released(s), ~Outside(t),
         pc[t] = "answer" => Released(s)',
         ~Released(s)' => ~SegThrough(s)' /\ InsideSet(s)' = {},
         UNCHANGED <<kind, op, partial, property, intermediate, localTargets, inAllreduce,
                     combined, expected>>
  PROVE  At(k)' /\ DataInv(k)'
<1>0. s \in Segments /\ t \in Members(s)
  BY SegmentOfType
<1>1. /\ pc \in [Ppus -> Labels] /\ pc' = [pc EXCEPT ![t] = "top"]
      /\ rounds \in [Ppus -> Nat] /\ rounds' = [rounds EXCEPT ![t] = rounds[t] + 1]
  BY DEF Inv, TypeOK, Return, Goto
<1>2. SegThrough(s)
  BY DEF SegThrough, Released, Through
<1>3. Calls(t) = k /\ rounds[t] + 1 = k /\ k > 0
  <2>1. Calls(t) = k
    BY <1>2 DEF At, SegThrough
  <2> QED BY <1>1, <2>1 DEF Calls, Outside
<1>4. rounds'[t] = k /\ pc'[t] = "top" /\ Calls(t)' = k
  BY <1>1, <1>3 DEF Calls
<1>5. \A q \in Ppus \ {t} : pc'[q] = pc[q] /\ rounds'[q] = rounds[q]
  BY <1>1
<1>6. At(k)'
  BY <1>4, SameRound DEF Inv
<1>7. Contributors(k)' = Contributors(k)
  BY <1>1, <1>3, <1>4, <1>5 DEF Contributors
<1>8. \A u \in Segments \ {s} : /\ SegThrough(u)' <=> SegThrough(u)
                                /\ Released(u)' <=> Released(u)
                                /\ InsideSet(u)' = InsideSet(u)
  BY <1>5 DEF SegThrough, Released, InsideSet, Members, Through, Outside
<1>9. /\ RoundGathers(k)' /\ RoundsAhead(k)' /\ \A u \in Segments : SegmentGathers(u)'
      /\ AllreduceGathers' /\ OutcomeKnown(k)'
  <2>1. ~SegThrough(s)' => InsideSet(s)' = {}
    BY DEF SegThrough, Released, Through
  <2>2. \A u \in Segments : SegThrough(u)' => SegThrough(u)
    BY <1>2, <1>8
  <2>3. \A u \in Segments : ~SegThrough(u)' /\ InsideSet(u)' # {}
                               => ~SegThrough(u) /\ InsideSet(u)' = InsideSet(u)
    BY <1>8, <2>1
  <2> QED BY <1>7, <2>2, <2>3, GatherFrame
<1>10. DataTypeOK'
  BY DEF DataInv, DataTypeOK
<1>11. InBounds'
  <2> SUFFICES ASSUME NEW q \in Ppus
               PROVE  /\ rounds'[q] <= MaxRounds
                      /\ pc'[q] # "top" => rounds'[q] < MaxRounds
    BY DEF InBounds
  <2>1. CASE q = t
    <3>1. rounds[t] < MaxRounds
      BY DEF DataInv, InBounds, Outside
    <3> QED BY <1>1, <1>3, <1>4, <2>1, <3>1, ReductionAssumption
  <2>2. CASE q # t
    BY <1>5, <2>2 DEF DataInv, InBounds
  <2> QED BY <2>1, <2>2
<1>12. TargetsKnown'
  <2> SUFFICES ASSUME NEW u \in Segments
               PROVE  /\ localTargets[u] \subseteq Members(u)
                      /\ kind # "TaskGlobal" /\ ~Released(u)'
                           => InsideSet(u)' \subseteq localTargets[u]
    BY DEF TargetsKnown, Members
  <2>1. CASE u = s
    BY <1>0, <2>1 DEF DataInv, TargetsKnown
  <2>2. CASE u # s
    BY <1>8, <2>2 DEF DataInv, TargetsKnown
  <2> QED BY <2>1, <2>2
<1>13. Delivered(k)'
  <2>1. ASSUME NEW q \in Ppus, Has(q)' PROVE Has(q)
    <3>1. CASE q = t
      BY <3>1 DEF Has
    <3>2. CASE q # t
      <4>1. Released(SegmentOf[q])' => Released(SegmentOf[q])
        BY <1>8, SegmentOfType
      <4> QED BY <1>5, <2>1, <3>2, <4>1 DEF Has, Outside
    <3> QED BY <3>1, <3>2
  <2> QED BY <2>1, DeliveredFrame DEF DataInv
<1> QED BY <1>6, <1>9, <1>10, <1>11, <1>12, <1>13 DEF DataInv

LEMMA AnswerData ==
  ASSUME Inv, Inv', NEW k \in Nat, At(k), DataInv(k), NEW t \in Ppus,
         NEW s, s = SegmentOf[t], Answer(t, s)
  PROVE  At(k)' /\ DataInv(k)'
<1>0. s \in Segments /\ t \in Members(s)
  BY SegmentOfType
<1>1. /\ pc[t] = "answer" /\ Return(t) /\ pc \in [Ppus -> Labels]
      /\ UNCHANGED <<kind, op, partial, property, intermediate, localTargets, inAllreduce,
                     combined, expected>>
  BY DEF Inv, TypeOK, Answer
<1>2. PICK r \in Members(s) : pc[r] = "throttled"
  BY <1>0, <1>1, AwakeThrottled
<1>3. pc'[r] = "throttled"
  BY <1>1, <1>2 DEF Return, Goto, Members
<1>4. Released(s) /\ Released(s)' /\ ~Outside(t)
  BY <1>1, <1>2, <1>3 DEF Released, Members, Outside
<1> QED BY <1>1, <1>4, ReturnData

LEMMA ResetData ==
  ASSUME Inv, Inv', NEW k \in Nat, At(k), DataInv(k), NEW t \in Ppus,
         NEW s, s = SegmentOf[t], Reset(t, s)
  PROVE  At(k)' /\ DataInv(k)'
<1>0. s \in Segments /\ t \in Members(s) /\ Size(s) \in Nat \ {0}
  BY SegmentOfType, SegmentType
<1>1. /\ pc[t] = "release" /\ Return(t) /\ pc \in [Ppus -> Labels]
      /\ pc' = [pc EXCEPT ![t] = "top"]
      /\ count'[s] = Size(s) /\ mutex'[s] = mutex[s] + 1
      /\ UNCHANGED <<kind, op, partial, property, intermediate, localTargets, inAllreduce,
                     combined, expected>>
  BY <1>0 DEF Inv, TypeOK, Reset, Return, Goto
<1>2. Released(s) /\ ~Outside(t)
  BY <1>0, <1>1 DEF Released, Outside
\* The segment gathers again, and nobody is inside yet.
<1>3. \A q \in Members(s) : ~Holds(q)'
  <2>1. \A q \in Members(s) \ {t} : ~Holds(q)
    BY <1>0, <1>1 DEF Inv, SegmentInv, MutexHeld, Holds
  <2> QED BY <1>1, <2>1 DEF Holds, Members
<1>4. InsideSet(s)' = {}
  <2>1. /\ count'[s] = Size(s) - Cardinality(InsideSet(s)')
        /\ Size(s)' = Size(s) /\ Members(s)' = Members(s)
    BY <1>0, <1>3 DEF Inv, SegmentInv, Gathering, Leads, Holds, Size, Members
  <2>2. InsideSet(s)' \in SUBSET Members(s)
    BY <2>1 DEF InsideSet
  <2>3. Cardinality(InsideSet(s)') \in 0..Size(s)
    BY <1>0, <2>2, SubsetType
  <2>4. Cardinality(InsideSet(s)') = 0
    BY <1>0, <1>1, <2>1, <2>3
  <2> QED BY <1>0, <2>2, <2>4, SubsetType
<1>5. ~SegThrough(s)'
  BY <1>3 DEF SegThrough, Through, Holds, Members
<1> QED BY <1>1, <1>2, <1>4, <1>5, ReturnData

LEMMA InitData == Init => At(0) /\ DataInv(0)
<1> SUFFICES ASSUME Init PROVE At(0) /\ DataInv(0)
  OBVIOUS
<1>1. op \in Ops /\ ResetValue(op) \in Operands(op) /\ Neutral(op) \in Operands(op)
  BY Neutrals DEF Init
<1>2. \A t \in Ppus : /\ pc[t] = "top" /\ rounds[t] = 0
                      /\ Outside(t) /\ ~Through(t) /\ ~Has(t)
  BY DEF Init, Outside, Through, Has
<1>3. \A s \in Segments : ~SegThrough(s) /\ InsideSet(s) = {} /\ Contributors(0) = {}
  BY <1>2 DEF SegThrough, InsideSet, Contributors, Members
<1>4. At(0)
  BY <1>2, <1>3 DEF At, Members
<1>5. DataTypeOK
  BY <1>1 DEF Init, DataTypeOK
<1>6. InBounds
  BY <1>2, ReductionAssumption DEF InBounds
<1>7. \A j \in Rounds : Kept(op, expected[j]) = ResetValue(op)
  BY <1>1, Neutrals DEF Init
<1>8. RoundGathers(0) /\ RoundsAhead(0)
  <2>1. Contributors(0) = {}
    BY <1>2 DEF Contributors
  <2>2. FoldsTo(op, KeptPartial, {}, ResetValue(op))
    BY <1>1, <1>5, KeptType, FoldBasics
  <2> QED BY <1>7, <2>1, <2>2 DEF RoundGathers, RoundsAhead
<1>9. (\A s \in Segments : SegmentGathers(s)) /\ AllreduceGathers /\ OutcomeKnown(0)
  BY <1>3 DEF Init, SegmentGathers, AllreduceGathers, OutcomeKnown
<1>10. TargetsKnown
  BY <1>3 DEF Init, TargetsKnown
<1>11. Delivered(0)
  BY <1>2 DEF Delivered
<1> QED BY <1>4, <1>5, <1>6, <1>8, <1>9, <1>10, <1>11 DEF DataInv

\* FullInv adds the data to Inv: within a segment what has been accumulated, in
\* MPI_Allreduce what has been combined, and in the round what is expected are reductions
\* of the partial results of the PPUs that have got that far.
THEOREM DataInvariance == Spec => []FullInv
<1>1. Init => FullInv
  BY InitInv, InitData DEF FullInv
<1>2. FullInv /\ Inv' /\ [Next]_vars => FullInv'
  <2> SUFFICES ASSUME FullInv, Inv', [Next]_vars PROVE \E l \in Nat : At(l)' /\ DataInv(l)'
    BY DEF FullInv
  <2>0. PICK k \in Nat : At(k) /\ DataInv(k)
    BY DEF FullInv
  <2>00. Inv /\ TypeOK /\ Together'
    BY DEF FullInv, Inv
  <2>1. CASE UNCHANGED vars
    <3>1. At(k)'
      BY <2>0, <2>1 DEF At, vars, Members, Through, Calls
    <3>2. UNCHANGED <<kind, op, pc, rounds, partial, property, intermediate, localTargets,
                      inAllreduce, combined, expected>>
      BY <2>1 DEF vars
    <3>3. DataTypeOK' /\ InBounds' /\ TargetsKnown'
      BY <2>0, <3>2 DEF DataInv, DataTypeOK, InBounds, TargetsKnown, Released, InsideSet,
                        Members, Outside
    <3>4. /\ RoundGathers(k)' /\ RoundsAhead(k)' /\ \A s \in Segments : SegmentGathers(s)'
          /\ AllreduceGathers' /\ OutcomeKnown(k)'
      <4>1. /\ Contributors(k)' = Contributors(k)
            /\ \A s \in Segments : /\ SegThrough(s)' <=> SegThrough(s)
                                   /\ InsideSet(s)' = InsideSet(s)
        BY <3>2 DEF Contributors, SegThrough, InsideSet, Members, Through, Outside
      <4> QED BY <2>0, <3>2, <4>1, GatherFrame
    <3>5. Delivered(k)'
      <4>1. \A q \in Ppus : Has(q)' <=> Has(q)
        BY <3>2 DEF Has, Outside, Released, Members
      <4> QED BY <2>0, <3>2, <4>1, DeliveredFrame DEF DataInv
    <3> QED BY <3>1, <3>3, <3>4, <3>5 DEF DataInv
  <2>2. ASSUME NEW t \in Ppus, Step(t)
        PROVE  \E l \in Nat : At(l)' /\ DataInv(l)'
    <3> DEFINE s == SegmentOf[t]
    <3>0. s = SegmentOf[t] /\ pc \in [Ppus -> Labels]
      BY <2>00 DEF TypeOK
    <3> HIDE DEF s
    <3>1. CASE Prepare(t)
      BY <2>0, <2>00, <3>1, PrepareData
    <3>2. CASE Compute(t)
      BY <2>0, <2>00, <3>2, ComputeData
    <3>3. CASE Enter(t, s)
      BY <2>0, <2>00, <3>0, <3>3, EnterData
    <3>4. CASE Allreduce(t, s)
      BY <2>0, <2>00, <3>0, <3>4, AllreduceData
    <3>5. CASE Deliver(t, s)
      BY <2>0, <2>00, <3>0, <3>5, DeliverData
    <3>6. CASE Answer(t, s)
      BY <2>0, <2>00, <3>0, <3>6, AnswerData
    <3>7. CASE Reset(t, s)
      BY <2>0, <2>00, <3>0, <3>7, ResetData
    <3>8. CASE Unlock(t, s) \/ WakeUp(t, s) \/ PostWaitq(t, s) \/ AwaitAnswer(t, s)
      <4>1. /\ UNCHANGED <<kind, op, rounds, partial, property, intermediate, localTargets,
                           inAllreduce, combined, expected>>
            /\ \/ pc[t] = "unlock" /\ Goto(t, "sleep")
               \/ pc[t] = "sleep" /\ Goto(t, "answer")
               \/ pc[t] = "release" /\ Goto(t, "throttled")
               \/ pc[t] = "throttled" /\ Goto(t, "release")
        BY <3>8 DEF Unlock, WakeUp, PostWaitq, AwaitAnswer
      <4>2. PICK label \in Labels \ {"top", "use"} :
              /\ Goto(t, label) /\ pc[t] \notin {"top", "use"}
              /\ Outside(t)' <=> Outside(t)
              /\ Through(t)' <=> Through(t)
              /\ label \in {"release", "throttled"} <=> pc[t] \in {"release", "throttled"}
        BY <3>0, <4>1 DEF Goto, Labels, Outside, Through
      <4>3. At(k)' /\ DataInv(k)'
        BY <2>0, <2>00, <4>1, <4>2, MoveData
      <4> QED BY <4>3
    <3> QED BY <2>2, <3>1, <3>2, <3>3, <3>4, <3>5, <3>6, <3>7, <3>8 DEF Step, Reduce, s
  <2> QED BY <2>1, <2>2 DEF Next
<1> QED BY <1>1, <1>2, Invariance, PTL DEF Spec

\* A PPU that returns from reduce() has the reduction of just its round's values, for any
\* number of segments, PPUs and rounds, any operator and any values.
THEOREM Outcomes == Spec => []ReturnsOutcome
<1>1. FullInv => ReturnsOutcome
  <2> SUFFICES ASSUME FullInv, NEW t \in Ppus, pc[t] = "top", rounds[t] > 0
               PROVE  Kept(op, property[PropertyOf(t)]) = Kept(op, expected[rounds[t]])
    BY DEF ReturnsOutcome, Outcome
  <2>1. PICK k \in Nat : At(k) /\ DataInv(k)
    BY DEF FullInv
  <2>2. rounds[t] = k
    <3>1. Calls(t) = rounds[t]
      BY DEF FullInv, Inv, TypeOK, Calls
    <3> QED BY <2>1, <3>1 DEF At
  <2>3. Kept(op, property[PropertyOf(t)]) = Kept(op, expected[k])
    BY <2>1 DEF DataInv, Delivered, Has
  <2> QED BY <2>2, <2>3
<1> QED BY <1>1, DataInvariance, PTL
=============================================================================
