--------------------------------- MODULE Mpi ----------------------------------
(***************************************************************************)
(* The message passing library under the segments, from how the code in    *)
(* communication/ uses it: blocking calls and calls that are waited for at *)
(* once, of which a process has one at a time.                             *)
(*                                                                         *)
(* A call is a list of messages to send and a list of messages to receive; *)
(* a collective operation is the messages that its members must have from  *)
(* one another.  Messages of one process to another do not overtake one    *)
(* another, those of different processes do.  A call returns when it has   *)
(* all it receives and, if the library does not buffer messages, there are *)
(* receives for all that it sent.                                          *)
(***************************************************************************)
EXTENDS Integers, Sequences, SequencesExt, FiniteSets, FiniteSetsExt

CONSTANT Processes

VARIABLES buffering,   \* the library buffers what is sent and not yet received
          channels,    \* channels[p][q]: the messages of p to q that are under way
          calls        \* calls[p]: what the call of p has to receive, as a list of one; <<>> for no call

MpiVars == <<buffering, channels, calls>>

ANY_SOURCE == -1
Busy(p) == calls[p] # <<>>

Init ==
  /\ buffering \in BOOLEAN
  /\ channels = [p \in Processes |-> [q \in Processes |-> <<>>]]
  /\ calls = [p \in Processes |-> <<>>]

\* The calls, for process p on the communicator comm with the given members.
Message(to, comm, label, data) == [to |-> to, comm |-> comm, label |-> label, data |-> data]
Receipt(from, comm, label) == [from |-> from, comm |-> comm, label |-> label]
Call(sends, receives) == [sends |-> sends, receives |-> receives]

Others(p, members) == SetToSortSeq(members \ {p}, <)
ToEach(list, comm, label, data) ==
  [i \in 1..Len(list) |-> Message(list[i], comm, label, data)]
FromEach(list, comm, label) == [i \in 1..Len(list) |-> Receipt(list[i], comm, label)]

Allgather(p, comm, members, label, data) ==
  Call(ToEach(Others(p, members), comm, label, data), FromEach(Others(p, members), comm, label))
Bcast(p, comm, members, root, data) ==
  LET label == <<"bcast", root>>
  IN IF p = root THEN Call(ToEach(Others(p, members), comm, label, data), <<>>)
     ELSE Call(<<>>, <<Receipt(root, comm, label)>>)
Gatherv(p, comm, members, root, data) ==
  LET label == <<"gatherv", root>>
  IN IF p = root THEN Call(<<>>, FromEach(Others(p, members), comm, label))
     ELSE Call(<<Message(root, comm, label, data)>>, <<>>)
Scatterv(p, comm, members, root, DataOf) ==
  LET label == <<"scatterv", root>>
      list == Others(p, members)
  IN IF p = root
     THEN Call([i \in 1..Len(list) |-> Message(list[i], comm, label, DataOf[list[i]])], <<>>)
     ELSE Call(<<>>, <<Receipt(root, comm, label)>>)

Issue(p, call) ==
  /\ ~Busy(p)
  /\ calls' = [calls EXCEPT ![p] = <<call.receives>>]
  /\ channels' = [channels EXCEPT ![p] =
       [q \in Processes |-> @[q] \o SelectSeq(call.sends, LAMBDA m : m.to = q)]]
  /\ UNCHANGED buffering

\* A message that nobody waits for, sent beside a call or without one.
Post(p, message) ==
  /\ channels' = [channels EXCEPT ![p][message.to] = Append(@, message)]
  /\ UNCHANGED <<buffering, calls>>

\* What the receives of the call of p can be given: data[i] for the i-th of them, and what is
\* then left of the channels to p.
Take(state, receipt, source) ==
  LET at == SelectInSeq(state.left[source],
              LAMBDA m : m.comm = receipt.comm /\ m.label = receipt.label)
  IN IF at = 0 THEN [state EXCEPT !.complete = FALSE]
     ELSE [state EXCEPT !.left[source] = RemoveAt(@, at),
                        !.data = Append(@, state.left[source][at].data)]
Outcomes(p) ==
  LET receives == calls[p][1]
      start == [complete |-> TRUE, data |-> <<>>, left |-> [q \in Processes |-> channels[q][p]]]
      From(i) == IF receives[i].from = ANY_SOURCE THEN Processes \ {p} ELSE {receives[i].from}
      sources == {f \in [1..Len(receives) -> Processes] :
                    \A i \in 1..Len(receives) : f[i] \in From(i)}
      outcome(f) == FoldLeft(LAMBDA state, i : IF state.complete THEN Take(state, receives[i], f[i])
                                               ELSE state,
                             start, [i \in 1..Len(receives) |-> i])
  IN {o \in {outcome(f) : f \in sources} : o.complete}

\* Process q waits for all that is under way to it from p.
Expected(p, q) ==
  LET Matches(m) == IF ~Busy(q) THEN <<>>
                    ELSE SelectSeq(calls[q][1], LAMBDA r : /\ r.from \in {p, ANY_SOURCE}
                                                           /\ r.comm = m.comm /\ r.label = m.label)
      Alike(m) == SelectSeq(channels[p][q], LAMBDA x : x.comm = m.comm /\ x.label = m.label)
  IN \A m \in ToSet(channels[p][q]) : Len(Alike(m)) <= Len(Matches(m))

Return(p, outcome) ==
  /\ Busy(p)
  /\ buffering \/ \A q \in Processes : Expected(p, q)
  /\ calls' = [calls EXCEPT ![p] = <<>>]
  /\ channels' = [q \in Processes |-> [channels[q] EXCEPT ![p] = outcome.left[q]]]
  /\ UNCHANGED buffering
===============================================================================
