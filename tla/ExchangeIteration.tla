-------------------------- MODULE ExchangeIteration --------------------------
(***************************************************************************)
(* One data exchange of communication/confinement_mgmt.cc: the region that *)
(* its sender and its receiver have in common, and the ExchangeIterator    *)
(* with which the communication buffers and the local transfers walk       *)
(* through it.  An ExchangeIterator owns one SequenceIterator (interval.cc)*)
(* at a time, which has a cursor for each dimension.                       *)
(*                                                                         *)
(* The two sides of an exchange iterate over it separately, so the order   *)
(* of the points is the layout of the message.                             *)
(***************************************************************************)
EXTENDS Intervals

CONSTANT Descriptions      \* pairs of data descriptions, of a sender and of a receiver

\* A data description is a list of multidimensional sequences.
Described(desc) == UNION {MdElements(desc[i]) : i \in 1..Len(desc)}

INVALID_INDEX == -(2147483647) - 1

VARIABLES senderData,        \* the data descriptions of the two participants
          receiverData,
          sequences,         \* the exchangeDesc: their common region
          currentSequence,   \* the sequence that the iterator is in (counted from 1)
          currentElement,    \* points delivered of all sequences,
          currentElementNo,  \* and of this one
          cursors,           \* an IntervalState for each dimension
          index,             \* the last index of each dimension
          visited            \* the points delivered so far (history)

vars == <<senderData, receiverData, sequences, currentSequence, currentElement,
          currentElementNo, cursors, index, visited>>

\* getCommonRegion: every sequence of the sender with every one of the receiver.
getCommonRegion(sender, receiver) ==
  FlattenSeq([i \in 1..Len(sender) |->
    FlattenSeq([j \in 1..Len(receiver) |-> MdIntersection(sender[i], receiver[j])])])

\* The first participant has as many sequences as the second one, and each of its own is one of the
\* other's.
isEqual(participant, other) ==
  /\ Len(participant) = Len(other)
  /\ \A i \in 1..Len(participant) : \E j \in 1..Len(other) : participant[i] = other[j]

\* Before the first sequence that md precedes, or at the end.
Inserted(ordered, md) ==
  InsertAt(ordered, Min({j \in 1..Len(ordered) : Precedes(md, ordered[j])} \union {Len(ordered) + 1}), md)

orderedSeqList(region) ==
  LET ordered[i \in 0..Len(region)] ==
        IF i = 0 THEN <<>> ELSE Inserted(ordered[i - 1], region[i])
  IN ordered[Len(region)]

\* The region of an exchange: what equal participants have, as the sender describes it, else the
\* common region, in order.
exchangeDesc(sender, receiver) ==
  IF isEqual(sender, receiver) THEN sender ELSE orderedSeqList(getCommonRegion(sender, receiver))

\* The points of the first k sequences.
ElementsUpTo(k) ==
  LET total[i \in 0..Len(sequences)] ==
        IF i = 0 THEN 0 ELSE total[i - 1] + MdNumOfElements(sequences[i])
  IN total[k]

getTotalElementsCount == ElementsUpTo(Len(sequences))

\* What the iterator takes for granted: each sequence has an interval, each interval an index,
\* and intervals do not overlap.
IntervalSeqs == {s \in [begin: Int, length: Nat \ {0}, period: Nat \ {0}, count: Nat \ {0}] :
                   s.begin > INVALID_INDEX /\ s.period >= s.length}
DataDescriptions == Seq(Seq(IntervalSeqs) \ {<<>>})

\* A region is exact if its sequences describe the points that the two participants have in
\* common, each of them once.
IsExact(region, sender, receiver) ==
  /\ region \in DataDescriptions
  /\ \A i, j \in 1..Len(region) :
       i # j => MdElements(region[i]) \cap MdElements(region[j]) = {}
  /\ Described(region) = Described(sender) \cap Described(receiver)

ASSUME DescriptionsAssumption ==
  \A pair \in Descriptions : IsExact(exchangeDesc(pair[1], pair[2]), pair[1], pair[2])

-----------------------------------------------------------------------------
IntervalState(iteration, position) == [iteration |-> iteration, position |-> position]
Reset == IntervalState(0, -1)

\* Mutant: the cursor steps over the end of an interval.
getNextIndex_Length(s, state) ==
  LET next == IF state.position < s.length
                THEN IntervalState(state.iteration, state.position + 1)
              ELSE IF state.iteration < s.count - 1
                THEN IntervalState(state.iteration + 1, 0)
              ELSE Reset
  IN [state |-> next,
      index |-> IF next = Reset THEN INVALID_INDEX
                ELSE s.begin + next.iteration * s.period + next.position]

\* getNextIndex: inside the interval, else the next interval, else the cursor is reset
\* and there is no index.
getNextIndex(s, state) ==
  LET next == IF state.position < s.length - 1
                THEN IntervalState(state.iteration, state.position + 1)
              ELSE IF state.iteration < s.count - 1
                THEN IntervalState(state.iteration + 1, 0)
              ELSE Reset
  IN [state |-> next,
      index |-> IF next = Reset THEN INVALID_INDEX
                ELSE s.begin + next.iteration * s.period + next.position]

\* initCursorsAndIndex: all dimensions stand on their first index, except the last one, that
\* stands before it.
InitialPlaces(md) ==
  [d \in 1..Len(md) |-> IF d < Len(md) THEN getNextIndex(md[d], Reset)
                        ELSE [state |-> Reset, index |-> INVALID_INDEX]]

\* Mutant: the dimensions after the one that moves stay where their cursors were reset to.
NextPlaces_NoRestart(md, places) ==
  LET moved == [d \in 1..Len(md) |-> getNextIndex(md[d], places[d].state)]
      pivot == Max({d \in 1..Len(md) : moved[d].index # INVALID_INDEX} \union {0})
  IN IF pivot = 0 THEN InitialPlaces(md)
     ELSE [d \in 1..Len(md) |-> IF d < pivot THEN places[d] ELSE moved[d]]

\* SequenceIterator::getNextElement: the last dimension that has a next index moves; those
\* after it begin again.  If there is none, so does the iterator (and it returns NULL).
NextPlaces(md, places) ==
  LET moved == [d \in 1..Len(md) |-> getNextIndex(md[d], places[d].state)]
      pivot == Max({d \in 1..Len(md) : moved[d].index # INVALID_INDEX} \union {0})
  IN IF pivot = 0 THEN InitialPlaces(md)
     ELSE [d \in 1..Len(md) |-> IF d < pivot THEN places[d]
                                ELSE IF d = pivot THEN moved[d]
                                ELSE getNextIndex(md[d], Reset)]

Places == [d \in 1..Len(index) |-> [state |-> cursors[d], index |-> index[d]]]
Cursors(places) == [d \in 1..Len(places) |-> places[d].state]
Point(places) == [d \in 1..Len(places) |-> places[d].index]

-----------------------------------------------------------------------------
\* An exchange exists if the participants have something in common.
Init ==
  \E pair \in Descriptions :
    /\ senderData = pair[1]
    /\ receiverData = pair[2]
    /\ sequences = exchangeDesc(senderData, receiverData)
    /\ sequences # <<>>
    /\ currentSequence = 1
    /\ currentElement = 0
    /\ currentElementNo = 0
    /\ LET places == InitialPlaces(sequences[1])
       IN cursors = Cursors(places) /\ index = Point(places)
    /\ visited = <<>>

hasMoreElements == currentElement < getTotalElementsCount

Deliver(md, places) ==
  LET next == NextPlaces(md, places)
  IN /\ cursors' = Cursors(next) /\ index' = Point(next)
     /\ currentElement' = currentElement + 1
     /\ visited' = Append(visited, Point(next))
     /\ UNCHANGED <<senderData, receiverData, sequences>>

\* ExchangeIterator::getNextElement, as its users call it.
NextInSequence ==
  /\ hasMoreElements
  /\ currentElementNo < MdNumOfElements(sequences[currentSequence])
  /\ currentElementNo' = currentElementNo + 1
  /\ UNCHANGED currentSequence
  /\ Deliver(sequences[currentSequence], Places)

NextSequence ==
  /\ hasMoreElements
  /\ currentElementNo = MdNumOfElements(sequences[currentSequence])
  /\ currentSequence' = currentSequence + 1
  /\ currentElementNo' = 1
  /\ LET md == sequences[currentSequence + 1] IN Deliver(md, InitialPlaces(md))

Next == NextInSequence \/ NextSequence

Spec == Init /\ [][Next]_vars /\ WF_vars(Next)

-----------------------------------------------------------------------------
(* Properties *)

\* The iterator delivers each point that the two participants have in common, once, and no
\* other, and it gets to the end of them: so the sender fills the buffer that the receiver
\* empties, whose size is the number of elements.
Region == INSTANCE Traversal WITH points <- Described(senderData) \cap Described(receiverData),
                                  delivered <- visited
DeliversCommonRegion == Region!Spec

LexicallyBefore(x, y) ==
  \E d \in DOMAIN x : x[d] < y[d] /\ \A e \in DOMAIN x : e < d => x[e] = y[e]

\* The points of a sequence come "in a fixed, incremental order" (interval.h:185-187): the
\* last dimension varies fastest.
IncrementalOrder ==
  [][currentSequence' = currentSequence /\ visited # <<>>
       => LexicallyBefore(Last(visited), Last(visited'))]_visited

-----------------------------------------------------------------------------
(* The inductive invariant. *)

States == [iteration: Int, position: Int]

\* A cursor is on an index of its sequence.
OnElement(s, state, i) ==
  /\ state \in States
  /\ state.iteration \in 0..(s.count - 1) /\ state.position \in 0..(s.length - 1)
  /\ i = s.begin + state.iteration * s.period + state.position

\* The indices that a cursor has left behind.
Offset(s, state) == state.iteration * s.length + state.position

\* The points that all cursors together have left behind, the last dimension varying fastest.
Rank(md, states) ==
  LET rank[d \in 0..Len(md)] ==
        IF d = 0 THEN 0
        ELSE rank[d - 1] * getNumOfElements(md[d]) + Offset(md[d], states[d])
  IN rank[Len(md)]

\* The cursors are on the point that has been delivered last.  Before the first one, that of the
\* last dimension is in front of it.
PlacesOK(md, places, elementNo) ==
  /\ places \in [1..Len(md) -> [state: States, index: Int]]
  /\ \A d \in 1..Len(md) : \/ OnElement(md[d], places[d].state, places[d].index)
                          \/ (elementNo = 0 /\ d = Len(md) /\ places[d].state = Reset)
  /\ elementNo = Rank(md, Cursors(places)) + 1

CountsOK ==
  /\ currentSequence \in 1..Len(sequences)
  /\ currentElementNo \in 0..MdNumOfElements(sequences[currentSequence])
  /\ currentElement = ElementsUpTo(currentSequence - 1) + currentElementNo

CursorsOK ==
  /\ cursors = Cursors(Places) /\ index = Point(Places)
  /\ PlacesOK(sequences[currentSequence], Places, currentElementNo)

\* What has been delivered belongs to a sequence that is finished, or comes before the
\* point that the iterator is on.
VisitedOK ==
  /\ visited \in Seq(Described(sequences))
  /\ currentElementNo = 0 => visited = <<>>
  /\ currentElementNo > 0 => visited # <<>> /\ Last(visited) = index
  /\ \A x \in ToSet(visited) : \E i \in 1..currentSequence :
       /\ x \in MdElements(sequences[i])
       /\ i = currentSequence => (x = index \/ LexicallyBefore(x, index))

Inv == /\ IsExact(sequences, senderData, receiverData)
       /\ CountsOK /\ CursorsOK /\ VisitedOK
=============================================================================
