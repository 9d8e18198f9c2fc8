----------------------------- MODULE Rendezvous -----------------------------
(***************************************************************************)
(* What every barrier of the runtime promises its callers, without saying  *)
(* how: a set of threads meets again and again, and the k-th call of a     *)
(* thread returns only after every thread has made its k-th call.          *)
(* The semaphore barrier (Barrier), the reduction barriers and the         *)
(* communication barriers are all checked against this specification.      *)
(***************************************************************************)
EXTENDS Naturals

CONSTANT Threads      \* the threads that share the barrier

VARIABLES arrived,    \* arrived[t]: calls thread t has made
          departed    \* departed[t]: calls of thread t that have returned

rvars == <<arrived, departed>>

Init == /\ arrived  = [t \in Threads |-> 0]
        /\ departed = [t \in Threads |-> 0]

\* A thread outside the barrier calls it.
Arrive(t) == /\ arrived[t] = departed[t]
             /\ arrived' = [arrived EXCEPT ![t] = @ + 1]
             /\ UNCHANGED departed

\* A call returns once every thread has made as many calls.
Depart(t) == /\ departed[t] < arrived[t]
             /\ \A s \in Threads : arrived[t] <= arrived[s]
             /\ departed' = [departed EXCEPT ![t] = @ + 1]
             /\ UNCHANGED arrived

Next == \E t \in Threads : Arrive(t) \/ Depart(t)

Spec == Init /\ [][Next]_rvars

=============================================================================
