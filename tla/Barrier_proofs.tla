--------------------------- MODULE Barrier_proofs ---------------------------
(***************************************************************************)
(* The semaphore barrier is correct for any finite, nonempty set of        *)
(* threads and any number of rounds.                                       *)
(***************************************************************************)
EXTENDS Barrier, FiniteSetTheorems, TLAPS

LEMMA SizeType == Size \in Nat \ {0}
  BY BarrierAssumption, FS_CardinalityType, FS_EmptySet DEF Size

\* Every set of threads is finite and no larger than _size.
LEMMA SubsetType ==
  ASSUME NEW S \in SUBSET Threads
  PROVE  /\ IsFiniteSet(S)
         /\ Cardinality(S) \in 0..Size
         /\ Cardinality(S) = Size => S = Threads
         /\ Cardinality(S) = 0 => S = {}
  BY BarrierAssumption, SizeType, FS_Subset, FS_CardinalityType, FS_EmptySet DEF Size

LEMMA InitInv == Init => Inv
<1> SUFFICES ASSUME Init PROVE Inv
  OBVIOUS
<1>1. TypeOK
  BY SizeType, BarrierAssumption DEF Init, TypeOK, Labels
<1>2. InsideSet = {}
  BY DEF Init, InsideSet, Inside
<1>3. Gathering
  BY <1>2, SizeType, FS_EmptySet DEF Init, Gathering
<1>4. QED
  BY <1>1, <1>3, BarrierAssumption
     DEF Init, Inv, CallsBounded, MutexHeld, Releases, Throttled, NoOverPumping,
         Inside, Holds, Releasing

-----------------------------------------------------------------------------
(* One lemma per action. *)

LEMMA EnterInv ==
  ASSUME Inv, NEW t \in Threads, Enter(t)
  PROVE  Inv'
<1>. USE DEF Inside, Holds, Releasing
<1>1. /\ mutex = 1 /\ mutex' = 0 /\ \A s \in Threads : ~Holds(s)
      /\ pc[t] = "outside" /\ rounds[t] < MaxRounds
  BY DEF Inv, TypeOK, MutexHeld, Enter
<1>2. /\ count = Size - Cardinality(InsideSet) /\ count >= 1
      /\ waitq = 0 /\ throttle = 0
      /\ \A s \in Threads : pc[s] # "answer"
      /\ \A s, u \in Threads : rounds[s] = rounds[u]
  BY <1>1 DEF Inv, Gathering
<1>3. /\ pc \in [Threads -> Labels]
      /\ pc' = [pc EXCEPT ![t] = IF count = 1 THEN "release" ELSE "unlock"]
      /\ count' = count - 1 /\ woken' = 1
      /\ UNCHANGED <<throttle, waitq, rounds>>
  BY DEF Inv, TypeOK, Enter, LastOne, Goto
<1>4. TypeOK'
  BY <1>1, <1>2, <1>3, SizeType DEF Inv, TypeOK, Labels
<1>5. /\ InsideSet' = InsideSet \cup {t} /\ t \notin InsideSet
      /\ Cardinality(InsideSet') = Cardinality(InsideSet) + 1
      /\ Cardinality(InsideSet) \in Nat
  <2>1. InsideSet' = InsideSet \cup {t} /\ t \notin InsideSet
    BY <1>1, <1>3 DEF InsideSet
  <2>2. IsFiniteSet(InsideSet) /\ Cardinality(InsideSet) \in Nat
    BY SubsetType DEF InsideSet
  <2>3. QED
    BY <2>1, <2>2, FS_AddElement
<1>6. MutexHeld' /\ CallsBounded'
  BY <1>1, <1>3 DEF Inv, MutexHeld, CallsBounded
<1>7. CASE count = 1
  <2>1. Cardinality(InsideSet') = Size
    BY <1>2, <1>5, <1>7, SizeType
  <2>2. InsideSet' = Threads
    <3>1. InsideSet' \in SUBSET Threads
      BY DEF InsideSet
    <3>2. QED
      BY <2>1, <3>1, SubsetType
  <2>3. Sleepers' = Threads \ {t}
    BY <1>1, <1>2, <1>3, <1>7, <2>2 DEF Sleepers, InsideSet, Labels
  <2>4. Cardinality(Sleepers') = Size - 1
    BY <2>3, FS_RemoveElement, BarrierAssumption DEF Size
  <2>5. \A s \in Threads : pc'[s] = "release" <=> s = t
    BY <1>1, <1>3, <1>7
  <2>6. \A s \in Threads : pc'[s] # "outside"
    BY <2>2 DEF InsideSet
  <2>7. QED
    BY <1>1, <1>2, <1>3, <1>4, <1>6, <1>7, <2>4, <2>5, <2>6
       DEF Inv, Gathering, Releases, Throttled, NoOverPumping, Size
<1>8. CASE count # 1
  <2>1. \A s \in Threads : pc'[s] \notin {"release", "throttled", "answer"}
    BY <1>1, <1>2, <1>3, <1>8
  <2>2. Gathering'
    BY <1>2, <1>3, <1>5, <1>8, <2>1, SizeType DEF Gathering, Size, Inv, TypeOK
  <2>3. QED
    BY <1>4, <1>6, <2>1, <2>2 DEF Inv, Releases, Throttled, NoOverPumping
<1>9. QED
  BY <1>7, <1>8

LEMMA UnlockInv ==
  ASSUME Inv, NEW t \in Threads, Unlock(t)
  PROVE  Inv'
<1>. USE DEF Inside, Holds, Releasing
<1>1. /\ pc[t] = "unlock" /\ pc \in [Threads -> Labels]
      /\ pc' = [pc EXCEPT ![t] = "sleep"]
      /\ mutex = 0 /\ mutex' = 1
      /\ UNCHANGED <<count, throttle, waitq, woken, rounds>>
      /\ \A s \in Threads \ {t} : ~Holds(s)
  BY DEF Inv, TypeOK, MutexHeld, Unlock, Goto
<1>2. TypeOK' /\ CallsBounded' /\ MutexHeld'
  BY <1>1, SizeType DEF Inv, TypeOK, Labels, CallsBounded, MutexHeld, Size
<1>3. /\ InsideSet' = InsideSet
      /\ \A s \in Threads : pc'[s] \notin {"release", "throttled"}
      /\ \A s \in Threads : pc[s] \notin {"release", "throttled"}
  BY <1>1 DEF InsideSet
<1>4. Gathering'
  BY <1>1, <1>3 DEF Inv, Gathering, Size
<1>5. QED
  BY <1>2, <1>3, <1>4 DEF Inv, Releases, Throttled, NoOverPumping

LEMMA WakeUpInv ==
  ASSUME Inv, NEW t \in Threads, WakeUp(t)
  PROVE  Inv'
<1>. USE DEF Inside, Holds, Releasing
<1>1. /\ pc[t] = "sleep" /\ pc \in [Threads -> Labels]
      /\ pc' = [pc EXCEPT ![t] = "answer"]
      /\ waitq = 1 /\ waitq' = 0
      /\ UNCHANGED <<count, mutex, throttle, woken, rounds>>
  BY DEF Inv, TypeOK, WakeUp, Goto
<1>2. PICK r \in Threads : pc[r] = "throttled"
  BY <1>1 DEF Inv, Gathering, Releases
<1>3. TypeOK' /\ CallsBounded' /\ MutexHeld'
  BY <1>1, SizeType DEF Inv, TypeOK, Labels, CallsBounded, MutexHeld, Size
<1>4. /\ Sleepers' = Sleepers \ {t} /\ t \in Sleepers
      /\ Cardinality(Sleepers') = Cardinality(Sleepers) - 1
  <2>1. Sleepers' = Sleepers \ {t} /\ t \in Sleepers
    BY <1>1 DEF Sleepers
  <2>2. IsFiniteSet(Sleepers)
    BY SubsetType DEF Sleepers
  <2>3. QED
    BY <2>1, <2>2, FS_RemoveElement
<1>5. /\ throttle = 0 /\ woken < Size /\ count = 0
      /\ \A s \in Threads : pc[s] # "answer"
      /\ Cardinality(Sleepers) = Size - woken
  BY <1>1, <1>2 DEF Inv, Throttled
<1>6. Throttled'
  BY <1>1, <1>4, <1>5 DEF Throttled, Size
<1>7. Releases' /\ Gathering'
  BY <1>1, <1>2 DEF Releases, Gathering, Inv, MutexHeld
<1>8. NoOverPumping'
  BY <1>1 DEF Inv, NoOverPumping
<1>9. QED
  BY <1>3, <1>6, <1>7, <1>8 DEF Inv

LEMMA AnswerInv ==
  ASSUME Inv, NEW t \in Threads, Answer(t)
  PROVE  Inv'
<1>. USE DEF Inside, Holds, Releasing
<1>1. /\ pc[t] = "answer" /\ pc \in [Threads -> Labels]
      /\ pc' = [pc EXCEPT ![t] = "outside"]
      /\ rounds \in [Threads -> 0..MaxRounds]
      /\ rounds' = [rounds EXCEPT ![t] = @ + 1]
      /\ throttle' = throttle + 1
      /\ UNCHANGED <<count, mutex, waitq, woken>>
  BY DEF Inv, TypeOK, Answer, Return, Goto
<1>2. PICK r \in Threads : pc[r] = "throttled"
  BY <1>1 DEF Inv, Gathering, Releases
<1>3. /\ throttle = 0 /\ waitq = 0 /\ woken < Size /\ count = 0
      /\ \A s \in Threads : pc[s] = "answer" => s = t
      /\ Cardinality(Sleepers) = Size - woken - 1
  BY <1>1, <1>2 DEF Inv, Throttled
<1>4. TypeOK' /\ CallsBounded' /\ MutexHeld'
  BY <1>1, <1>3, SizeType, BarrierAssumption
     DEF Inv, TypeOK, Labels, CallsBounded, MutexHeld, Size
<1>5. Sleepers' = Sleepers
  BY <1>1 DEF Sleepers
<1>6. Throttled'
  <2>1. throttle' = 1 /\ \A s \in Threads : pc'[s] # "answer"
    BY <1>1, <1>3
  <2>2. Cardinality(Sleepers') = Size' - woken' - 1
    BY <1>1, <1>3, <1>5 DEF Size
  <2>3. count' = 0 /\ woken' < Size' /\ waitq' = 0
    BY <1>1, <1>3 DEF Size
  <2>4. QED
    BY <2>1, <2>2, <2>3 DEF Throttled
<1>7. Releases' /\ Gathering'
  BY <1>1, <1>2 DEF Releases, Gathering, Inv, MutexHeld
<1>8. NoOverPumping'
  BY <1>1, <1>2 DEF Inv, NoOverPumping, MutexHeld
<1>9. QED
  BY <1>4, <1>6, <1>7, <1>8 DEF Inv

LEMMA PostWaitqInv ==
  ASSUME Inv, NEW t \in Threads, PostWaitq(t)
  PROVE  Inv'
<1>. USE DEF Inside, Holds, Releasing
<1>1. /\ pc[t] = "release" /\ pc \in [Threads -> Labels]
      /\ pc' = [pc EXCEPT ![t] = "throttled"]
      /\ woken < Size
      /\ waitq = 0 /\ throttle = 0 /\ waitq' = 1 /\ count = 0
      /\ \A s \in Threads : pc[s] # "answer"
      /\ Cardinality(Sleepers) = Size - woken
      /\ UNCHANGED <<count, mutex, throttle, woken, rounds>>
  BY SizeType DEF Inv, TypeOK, Releases, PostWaitq, AllAwake, Goto
<1>2. TypeOK' /\ CallsBounded' /\ MutexHeld'
  BY <1>1, SizeType DEF Inv, TypeOK, Labels, CallsBounded, MutexHeld, Size
<1>3. Sleepers' = Sleepers
  BY <1>1 DEF Sleepers
<1>4. Throttled'
  BY <1>1, <1>3 DEF Throttled, Size
<1>5. Releases' /\ Gathering'
  BY <1>1 DEF Releases, Gathering, Inv, MutexHeld
<1>6. NoOverPumping'
  BY <1>1 DEF Inv, NoOverPumping
<1>7. QED
  BY <1>2, <1>4, <1>5, <1>6 DEF Inv

LEMMA AwaitAnswerInv ==
  ASSUME Inv, NEW t \in Threads, AwaitAnswer(t)
  PROVE  Inv'
<1>. USE DEF Inside, Holds, Releasing
<1>1. /\ pc[t] = "throttled" /\ pc \in [Threads -> Labels]
      /\ pc' = [pc EXCEPT ![t] = "release"]
      /\ throttle = 1 /\ throttle' = 0 /\ waitq = 0 /\ count = 0
      /\ woken \in 1..Size /\ woken < Size /\ woken' = woken + 1
      /\ \A s \in Threads : pc[s] # "answer"
      /\ Cardinality(Sleepers) = Size - woken - 1
      /\ UNCHANGED <<count, mutex, waitq, rounds>>
  BY DEF Inv, TypeOK, Throttled, AwaitAnswer, Goto
<1>2. TypeOK' /\ CallsBounded' /\ MutexHeld'
  BY <1>1, SizeType DEF Inv, TypeOK, Labels, CallsBounded, MutexHeld, Size
<1>3. Sleepers' = Sleepers
  BY <1>1 DEF Sleepers
<1>4. Releases'
  <2>1. Size' = Size
    BY DEF Size
  <2>2. Cardinality(Sleepers') = Size' - woken'
    BY <1>1, <1>3, <2>1, SizeType
  <2>3. QED
    BY <1>1, <2>2 DEF Releases
<1>5. Throttled' /\ Gathering'
  BY <1>1 DEF Throttled, Gathering, Inv, MutexHeld
<1>6. NoOverPumping'
  BY <1>1 DEF Inv, NoOverPumping
<1>7. QED
  BY <1>2, <1>4, <1>5, <1>6 DEF Inv

LEMMA ResetInv ==
  ASSUME Inv, NEW t \in Threads, Reset(t)
  PROVE  Inv'
<1>. USE DEF Inside, Holds, Releasing
<1>1. /\ pc[t] = "release" /\ pc \in [Threads -> Labels]
      /\ pc' = [pc EXCEPT ![t] = "outside"]
      /\ rounds \in [Threads -> 0..MaxRounds]
      /\ rounds' = [rounds EXCEPT ![t] = @ + 1]
      /\ waitq = 0 /\ throttle = 0 /\ count' = Size
      /\ woken \in 1..Size /\ woken >= Size
      /\ \A s \in Threads : pc[s] # "answer"
      /\ Cardinality(Sleepers) = Size - woken
      /\ mutex = 0 /\ mutex' = 1
      /\ UNCHANGED <<throttle, waitq, woken>>
  BY DEF Inv, TypeOK, MutexHeld, Releases, Reset, AllAwake, Return, Goto
<1>2. \A s \in Threads \ {t} : pc[s] = "outside"
  <2>1. Sleepers \in SUBSET Threads
    BY DEF Sleepers
  <2>2. Sleepers = {}
    BY <1>1, <2>1, SizeType, SubsetType
  <2>3. \A s \in Threads \ {t} : ~Holds(s)
    BY <1>1 DEF Inv, MutexHeld
  <2>4. QED
    BY <1>1, <2>2, <2>3 DEF Sleepers, Labels
<1>3. TypeOK' /\ CallsBounded' /\ MutexHeld'
  BY <1>1, <1>2, SizeType, BarrierAssumption
     DEF Inv, TypeOK, Labels, CallsBounded, MutexHeld, Size
<1>4. InsideSet' = {}
  BY <1>1, <1>2 DEF InsideSet
<1>5. \A s, u \in Threads : rounds'[s] = rounds'[u]
  BY <1>1, <1>2 DEF Inv, NoOverPumping
<1>6. Gathering'
  BY <1>1, <1>2, <1>4, <1>5, SizeType, FS_EmptySet DEF Gathering, Size
<1>7. Releases' /\ Throttled' /\ NoOverPumping'
  BY <1>1, <1>2 DEF Releases, Throttled, NoOverPumping
<1>8. QED
  BY <1>3, <1>6, <1>7 DEF Inv

-----------------------------------------------------------------------------
\* Inv is an invariant of the barrier: whatever the number of threads and of
\* rounds, the semaphores and _count agree with where the threads are.
THEOREM Invariance == Spec => []Inv
<1>1. Init => Inv
  BY InitInv
<1>2. Inv /\ [Next]_vars => Inv'
  <2> SUFFICES ASSUME Inv, [Next]_vars PROVE Inv'
    OBVIOUS
  <2>1. CASE UNCHANGED vars
    <3>1. /\ InsideSet' = InsideSet /\ Sleepers' = Sleepers /\ Size' = Size
          /\ pc' = pc /\ count' = count /\ mutex' = mutex /\ waitq' = waitq
          /\ throttle' = throttle /\ woken' = woken /\ rounds' = rounds
      BY <2>1 DEF vars, InsideSet, Inside, Sleepers, Size
    <3>2. (TypeOK /\ CallsBounded /\ MutexHeld /\ NoOverPumping)'
      BY <3>1 DEF Inv, TypeOK, CallsBounded, MutexHeld, NoOverPumping,
                  Inside, Holds, Releasing
    <3>3. (Gathering /\ Releases)'
      BY <3>1 DEF Inv, Gathering, Releases, Releasing
    <3>4. Throttled'
      BY <3>1 DEF Inv, Throttled
    <3>5. QED
      BY <3>2, <3>3, <3>4 DEF Inv
  <2>2. CASE Next
    <3>1. PICK t \in Threads : Step(t)
      BY <2>2 DEF Next
    <3>2. QED
      BY <3>1, EnterInv, UnlockInv, WakeUpInv, AnswerInv, PostWaitqInv,
         AwaitAnswerInv, ResetInv DEF Step
  <2>3. QED
    BY <2>1, <2>2
<1>3. QED
  BY <1>1, <1>2, PTL DEF Spec

\* The barrier holds every thread back until all have arrived.
LEMMA InvNoneAhead == Inv => NoneAhead
<1> SUFFICES ASSUME Inv, NEW s \in Threads, NEW t \in Threads
             PROVE  rounds[t] <= Calls(s)
  BY DEF NoneAhead
<1>1. rounds[s] \in Nat /\ rounds[t] \in Nat
  BY DEF Inv, TypeOK
<1>2. CASE \A r \in Threads : ~Releasing(r)
  BY <1>1, <1>2 DEF Inv, Gathering, Calls
<1>3. CASE \E r \in Threads : Releasing(r)
  <2>1. PICK r \in Threads : Releasing(r)
    BY <1>3
  <2>2. rounds[r] \in Nat
    BY DEF Inv, TypeOK
  <2>3. QED
    BY <1>1, <2>1, <2>2 DEF Inv, NoOverPumping, Calls
<1>4. QED
  BY <1>2, <1>3

THEOREM BarrierCorrect == Spec => [](NoneAhead /\ NoOverPumping)
<1>1. Inv => NoneAhead /\ NoOverPumping
  BY InvNoneAhead DEF Inv
<1>2. QED
  BY <1>1, Invariance, PTL

-----------------------------------------------------------------------------
\* While a round is released everybody has made the same number of calls.
LEMMA SameCalls ==
  ASSUME Inv, NEW r \in Threads, Releasing(r)
  PROVE  \A s \in Threads : Calls(s) = rounds[r] + 1
  BY DEF Inv, TypeOK, NoOverPumping, Calls

\* A return from wait() is a departure from the rendezvous.
LEMMA ReturnDeparts ==
  ASSUME Inv, NEW t \in Threads, NEW r \in Threads, Releasing(r),
         Inside(t), Return(t)
  PROVE  Abstract!Depart(t)
<1>. DEFINE arr == [s \in Threads |-> Calls(s)]
<1>1. /\ pc \in [Threads -> Labels] /\ rounds \in [Threads -> 0..MaxRounds]
      /\ pc' = [pc EXCEPT ![t] = "outside"]
      /\ rounds' = [rounds EXCEPT ![t] = @ + 1]
  BY DEF Inv, TypeOK, Return, Goto
<1>2. rounds[t] < arr[t]
  BY <1>1 DEF Calls
<1>3. \A s \in Threads : arr[t] <= arr[s]
  <2>1. rounds[r] + 1 \in Nat
    BY <1>1
  <2>2. QED
    BY <2>1, SameCalls
<1>4. \A s \in Threads : Calls(s)' = Calls(s)
  BY <1>1 DEF Calls, Inside
<1>5. arr' = arr
  BY <1>4
<1>6. QED
  BY <1>1, <1>2, <1>3, <1>5 DEF Abstract!Depart

\* A step that moves a thread inside wait() changes nothing a caller can see.
LEMMA InternalStutters ==
  ASSUME NEW t \in Threads, NEW label \in Labels \ {"outside"},
         pc \in [Threads -> Labels], Inside(t), Goto(t, label), UNCHANGED rounds
  PROVE  UNCHANGED Abstract!rvars
<1>1. \A s \in Threads : Calls(s)' = Calls(s)
  BY DEF Calls, Inside, Goto
<1>2. QED
  BY <1>1 DEF Abstract!rvars

\* The semaphore barrier implements the rendezvous.
THEOREM Refinement == Spec => ImplementsRendezvous
<1>1. Init => Abstract!Init
  BY DEF Init, Abstract!Init, Calls, Inside
<1>2. Inv /\ [Next]_vars => [Abstract!Next]_(Abstract!rvars)
  <2> SUFFICES ASSUME Inv, [Next]_vars PROVE [Abstract!Next]_(Abstract!rvars)
    OBVIOUS
  <2>1. CASE UNCHANGED vars
    <3>1. \A s \in Threads : Calls(s)' = Calls(s)
      BY <2>1 DEF vars, Calls, Inside
    <3>2. QED
      BY <2>1, <3>1 DEF vars, Abstract!rvars
  <2>2. ASSUME NEW t \in Threads, Step(t)
        PROVE  [Abstract!Next]_(Abstract!rvars)
    <3>0. pc \in [Threads -> Labels] /\ rounds \in [Threads -> 0..MaxRounds]
      BY DEF Inv, TypeOK
    <3>1. CASE Enter(t)
      <4>1. /\ pc[t] = "outside" /\ rounds' = rounds
            /\ pc' = [pc EXCEPT ![t] = IF count = 1 THEN "release" ELSE "unlock"]
        BY <3>1 DEF Enter, LastOne, Goto
      <4>2. Calls(t) = rounds[t] /\ Calls(t)' = rounds[t] + 1
        BY <3>0, <4>1 DEF Calls, Inside
      <4>3. \A s \in Threads \ {t} : Calls(s)' = Calls(s)
        BY <3>0, <4>1 DEF Calls, Inside
      <4>4. Abstract!Arrive(t)
        BY <4>1, <4>2, <4>3 DEF Abstract!Arrive
      <4>5. QED
        BY <4>4 DEF Abstract!Next
    <3>2. CASE Unlock(t) \/ WakeUp(t) \/ PostWaitq(t) \/ AwaitAnswer(t)
      <4>1. PICK label \in {"sleep", "answer", "throttled", "release"} :
              Goto(t, label) /\ Inside(t) /\ UNCHANGED rounds
        BY <3>2 DEF Unlock, WakeUp, PostWaitq, AwaitAnswer, Inside
      <4>2. QED
        BY <3>0, <4>1, InternalStutters DEF Labels
    <3>3. CASE Answer(t)
      <4>1. PICK r \in Threads : Releasing(r)
        BY <3>3 DEF Answer, Inv, Gathering
      <4>2. Abstract!Depart(t)
        BY <3>3, <4>1, ReturnDeparts DEF Answer, Inside
      <4>3. QED
        BY <4>2 DEF Abstract!Next
    <3>4. CASE Reset(t)
      <4>1. Releasing(t) /\ Inside(t) /\ Return(t)
        BY <3>4 DEF Reset, Releasing, Inside
      <4>2. Abstract!Depart(t)
        BY <4>1, ReturnDeparts
      <4>3. QED
        BY <4>2 DEF Abstract!Next
    <3>5. QED
      BY <2>2, <3>1, <3>2, <3>3, <3>4 DEF Step
  <2>3. QED
    BY <2>1, <2>2 DEF Next
<1>3. QED
  BY <1>1, <1>2, Invariance, PTL DEF Spec, ImplementsRendezvous, Abstract!Spec
=============================================================================
