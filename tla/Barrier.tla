------------------------------ MODULE Barrier -------------------------------
(***************************************************************************)
(* The semaphore barrier of runtime/common/sync.{h,cc}: class Barrier, and *)
(* class RS, whose signal() and wait() both forward to it.  The PPU        *)
(* controllers of a segment use it to order the writers and the readers of *)
(* shared data.                                                            *)
(*                                                                         *)
(* The last thread to arrive (the releaser) keeps the mutex while it wakes *)
(* the others one at a time: it posts waitq and waits on throttle for the  *)
(* awakened thread's answer, so that a thread that is back early cannot    *)
(* swallow a post meant for the round before ("no over-pumping").          *)
(*                                                                         *)
(* A step is one semaphore operation together with the accesses to _count  *)
(* the mutex protects.                                                     *)
(***************************************************************************)
EXTENDS Naturals, FiniteSets

CONSTANTS Threads,    \* the threads that call wait(); the code's _size of them
          MaxRounds   \* bound: how many times each thread calls wait()

ASSUME BarrierAssumption == /\ IsFiniteSet(Threads)
                            /\ Threads # {}
                            /\ MaxRounds \in Nat

VARIABLES pc,         \* pc[t]: where thread t stands in wait()
          count,      \* _count: arrivals still missing
          mutex,      \* the three semaphores
          throttle,
          waitq,
          woken,      \* the releaser's loop counter: threads woken, plus one
          rounds      \* rounds[t]: calls of wait() that have returned to t

vars == <<pc, count, mutex, throttle, waitq, woken, rounds>>

Size == Cardinality(Threads)

Init == /\ pc       = [t \in Threads |-> "outside"]
        /\ count    = Size
        /\ mutex    = 1
        /\ throttle = 0
        /\ waitq    = 0
        /\ woken    = 1
        /\ rounds   = [t \in Threads |-> 0]

Goto(t, label) == pc' = [pc EXCEPT ![t] = label]

\* Control returns from wait() to its caller.
Return(t) == /\ Goto(t, "outside")
             /\ rounds' = [rounds EXCEPT ![t] = @ + 1]

\* Mutant: the releaser is picked one arrival too early.
LastOne_Early == count <= 2
\* _count-- leaves nobody missing: the caller becomes the releaser.
LastOne == count = 1

\* sem_wait(&mutex); _count--; and the test that picks the releaser.
Enter(t) == /\ pc[t] = "outside"
            /\ rounds[t] < MaxRounds
            /\ mutex > 0
            /\ mutex' = mutex - 1
            /\ count' = count - 1
            /\ woken' = 1
            /\ Goto(t, IF LastOne THEN "release" ELSE "unlock")
            /\ UNCHANGED <<throttle, waitq, rounds>>

\* Not the last one: sem_post(&mutex) before going to sleep.
Unlock(t) == /\ pc[t] = "unlock"
             /\ mutex' = mutex + 1
             /\ Goto(t, "sleep")
             /\ UNCHANGED <<count, throttle, waitq, woken, rounds>>

\* sem_wait(&waitq)
WakeUp(t) == /\ pc[t] = "sleep"
             /\ waitq > 0
             /\ waitq' = waitq - 1
             /\ Goto(t, "answer")
             /\ UNCHANGED <<count, mutex, throttle, woken, rounds>>

\* sem_post(&throttle), after which wait() returns
Answer(t) == /\ pc[t] = "answer"
             /\ throttle' = throttle + 1
             /\ Return(t)
             /\ UNCHANGED <<count, mutex, waitq, woken>>

\* Mutant: the loop's bound is one short.
AllAwake_Short == woken >= Size - 1
\* The releaser's loop has run once for each of the other threads.
AllAwake == woken >= Size

\* Mutant: no throttle, all posts go out at once.
PostWaitq_Unthrottled(t) == /\ pc[t] = "release" /\ ~AllAwake
                            /\ waitq' = waitq + 1 /\ woken' = woken + 1
                            /\ UNCHANGED <<pc, count, mutex, throttle, rounds>>
\* The releaser's loop: sem_post(&waitq) ...
PostWaitq(t) == /\ pc[t] = "release"
                /\ ~AllAwake
                /\ waitq' = waitq + 1
                /\ Goto(t, "throttled")
                /\ UNCHANGED <<count, mutex, throttle, woken, rounds>>

\* ... and sem_wait(&throttle), then the next iteration.
AwaitAnswer(t) == /\ pc[t] = "throttled"
                  /\ throttle > 0
                  /\ throttle' = throttle - 1
                  /\ woken' = woken + 1
                  /\ Goto(t, "release")
                  /\ UNCHANGED <<count, mutex, waitq, rounds>>

\* The loop is over: _count = _size; sem_post(&mutex); and the releaser returns.
Reset(t) == /\ pc[t] = "release"
            /\ AllAwake
            /\ count' = Size
            /\ mutex' = mutex + 1
            /\ Return(t)
            /\ UNCHANGED <<throttle, waitq, woken>>

Step(t) == \/ Enter(t) \/ Unlock(t) \/ WakeUp(t) \/ Answer(t)
           \/ PostWaitq(t) \/ AwaitAnswer(t) \/ Reset(t)

Next == \E t \in Threads : Step(t)

Spec == Init /\ [][Next]_vars

\* Each thread runs on its own pthread: one whose next operation stays possible
\* is eventually scheduled.
FairSpec == Spec /\ \A t \in Threads : WF_vars(Step(t))

-----------------------------------------------------------------------------
Labels == {"outside", "unlock", "sleep", "answer", "release", "throttled"}

\* The variables stay within the ranges of their C declarations.
TypeOK == /\ pc \in [Threads -> Labels]
          /\ count \in 0..Size
          /\ mutex \in {0, 1}
          /\ throttle \in {0, 1}
          /\ waitq \in {0, 1}
          /\ woken \in 1..Size
          /\ rounds \in [Threads -> 0..MaxRounds]

Inside(t)    == pc[t] # "outside"
Releasing(t) == pc[t] \in {"release", "throttled"}
Calls(t)     == rounds[t] + (IF Inside(t) THEN 1 ELSE 0)

\* The barrier's purpose: a call of wait() returns only after every thread has
\* made its matching call, so no thread runs ahead of another by a round.
NoneAhead == \A s, t \in Threads : rounds[t] <= Calls(s)

\* No over-pumping (the comment in sync.h on throttle): while a round is being
\* released nobody new is inside; whoever still is belongs to that round, and
\* whoever is out has finished it.
NoOverPumping ==
  \A r \in Threads : Releasing(r) =>
    \A t \in Threads : IF Inside(t) THEN rounds[t] = rounds[r]
                                    ELSE rounds[t] = rounds[r] + 1

\* The barrier implements the rendezvous: a call counts as made when it takes
\* the mutex and as returned when wait() does.
Abstract == INSTANCE Rendezvous WITH arrived  <- [t \in Threads |-> Calls(t)],
                                     departed <- rounds
ImplementsRendezvous == Abstract!Spec

\* Nobody sleeps forever and no round is left half released: threads that keep
\* calling wait() all get through all their rounds.
AllRoundsComplete ==
  <>[](\A t \in Threads : ~Inside(t) /\ rounds[t] = MaxRounds)

-----------------------------------------------------------------------------
(* The inductive invariant, in named parts. *)

InsideSet == {t \in Threads : Inside(t)}
Sleepers  == {t \in Threads : pc[t] = "sleep"}

\* The mutex is held by the thread between sem_wait and sem_post on it.
Holds(t) == pc[t] \in {"unlock", "release", "throttled"}
MutexHeld == /\ \A s, t \in Threads : Holds(s) /\ Holds(t) => s = t
             /\ mutex = 0 <=> \E t \in Threads : Holds(t)

\* While a round gathers, _count is what the arrivals left of _size, and no
\* wake-up is under way.
Gathering ==
  (\A t \in Threads : ~Releasing(t)) =>
    /\ count = Size - Cardinality(InsideSet)
    /\ count >= 1
    /\ waitq = 0 /\ throttle = 0
    /\ \A t \in Threads : pc[t] # "answer"
    /\ \A s, t \in Threads : rounds[s] = rounds[t]

\* While a round is released, what is left to wake is what still sleeps.
Releases ==
  \A r \in Threads : pc[r] = "release" =>
    /\ count = 0
    /\ waitq = 0 /\ throttle = 0
    /\ \A t \in Threads : pc[t] # "answer"
    /\ Cardinality(Sleepers) = Size - woken

\* Between the releaser's post and the answer there is exactly one of: the post
\* not taken yet, the awakened thread that has not answered yet, its answer.
Throttled ==
  \A r \in Threads : pc[r] = "throttled" =>
    /\ count = 0
    /\ woken < Size
    /\ \A s, t \in Threads : pc[s] = "answer" /\ pc[t] = "answer" => s = t
    /\ \/ /\ waitq = 1 /\ throttle = 0
          /\ \A t \in Threads : pc[t] # "answer"
          /\ Cardinality(Sleepers) = Size - woken
       \/ /\ waitq = 0 /\ throttle = 0
          /\ \E t \in Threads : pc[t] = "answer"
          /\ Cardinality(Sleepers) = Size - woken - 1
       \/ /\ waitq = 0 /\ throttle = 1
          /\ \A t \in Threads : pc[t] # "answer"
          /\ Cardinality(Sleepers) = Size - woken - 1

\* A call under way is one of the MaxRounds calls.
CallsBounded == \A t \in Threads : Inside(t) => rounds[t] < MaxRounds

Inv == /\ TypeOK /\ CallsBounded /\ MutexHeld
       /\ Gathering /\ Releases /\ Throttled /\ NoOverPumping
=============================================================================
