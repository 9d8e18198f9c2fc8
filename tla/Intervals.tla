------------------------------ MODULE Intervals ------------------------------
(***************************************************************************)
(* Interval sequences, from common-libs/utils/interval.cc: count intervals *)
(* of length indices each, that begin period indices apart.  They describe *)
(* which indices of an array a segment holds, one sequence per dimension.  *)
(*                                                                         *)
(* A NULL list of sequences is the empty list here.                        *)
(***************************************************************************)
EXTENDS Integers, SequencesExt

IntervalSeq(begin, length, period, count) ==
  [begin |-> begin, length |-> length, period |-> period, count |-> count]

\* The indices that a sequence describes.
Elements(s) == {s.begin + s.period * i + j : i \in 0..(s.count - 1), j \in 0..(s.length - 1)}

getNumOfElements(s) == s.length * s.count

\* The last index of a sequence.
Ending(s) == s.begin + s.period * (s.count - 1) + s.length - 1

\* IntervalSeq::contains
contains(s, point) ==
  LET interval      == (point - s.begin) \div s.period
      intervalBegin == interval * s.period + s.begin
  IN /\ point >= s.begin
     /\ interval < s.count
     /\ point \in intervalBegin..(intervalBegin + s.length - 1)

\* A list of one sequence, or none.
Optional(condition, s) == IF condition THEN <<s>> ELSE <<>>

\* C++ division: towards zero.
Quotient(a, b) == IF a >= 0 THEN a \div b ELSE -((-a) \div b)

-----------------------------------------------------------------------------
(* Sub-intervals.  A lower level of a partition hierarchy sees the indices *)
(* of a strided part as 0, 1, 2 and so on; transformSubInterval finds the  *)
(* indices of the upper level for those of a lower one.                    *)

\* The index that the part described by s knows as index.
Reindexed(s, index) == s.begin + (index \div s.length) * s.period + (index % s.length)

\* One sub-interval: what is left of the interval of s that it begins in, then full
\* intervals of s, then the rest.
TransformSingle(s, sub) ==
  LET frontDrift == sub.begin % s.length
      front      == IF frontDrift > 0 THEN Min({s.length - frontDrift, sub.length}) ELSE 0
      full       == (sub.length - front) \div s.length
      rest       == (sub.length - front) - full * s.length
      head       == sub.begin + front
      tail       == head + full * s.length
  IN Optional(front > 0, IntervalSeq(Reindexed(s, sub.begin), front, front, 1))
     \o Optional(full > 0, IntervalSeq(Reindexed(s, head), s.length, s.period, full))
     \o Optional(rest > 0, IntervalSeq(Reindexed(s, tail), rest, rest, 1))

\* An interval of a sub-sequence, cut where s ends an interval.
Pieces(s, first, last) ==
  LET firstBlock == first \div s.length
      lastBlock  == last \div s.length
  IN [k \in 1..(lastBlock - firstBlock + 1) |->
        [min |-> Max({first, (firstBlock + k - 1) * s.length}),
         max |-> Min({last, (firstBlock + k) * s.length - 1})]]

\* Several sub-intervals: the pieces of those that begin at different places in the
\* intervals of s, each repeated until the last index of the sub-sequence.
TransformRepeated(s, sub) ==
  LET BeginOf(i) == sub.begin + sub.period * i
      Repeated(i) == \E j \in 0..(i - 1) : BeginOf(j) % s.length = BeginOf(i) % s.length
      unique     == Min({i \in 1..(sub.count - 1) : Repeated(i)} \union {sub.count})
      ending     == Reindexed(s, BeginOf(sub.count - 1) + sub.length - 1)
      pieces     == FlattenSeq([i \in 1..unique |->
                      Pieces(s, BeginOf(i - 1), BeginOf(i - 1) + sub.length - 1)])
      blockAdvance == BeginOf(unique) \div s.length - sub.begin \div s.length
      piecePeriod == IF unique < sub.count THEN blockAdvance * s.period ELSE ending + 1
      Repeat(piece) ==
        LET begin  == Reindexed(s, piece.min)
            length == (piece.max - piece.min) + 1
            count  == (ending - begin + piecePeriod) \div piecePeriod
        IN IntervalSeq(begin, length, IF count = 1 THEN length ELSE piecePeriod, count)
  IN [i \in 1..Len(pieces) |-> Repeat(pieces[i])]

\* IntervalSeq::transformSubInterval
transformSubInterval(s, sub) ==
  IF sub.count = 1 THEN TransformSingle(s, sub) ELSE TransformRepeated(s, sub)

-----------------------------------------------------------------------------
(* Intersection of two sequences. *)

gcd(a, b) == Max({d \in 1..Min({a, b}) : a % d = 0 /\ b % d = 0})
lcm(a, b) == (a * b) \div gcd(a, b)

\* The case of one interval: where an interval of the second sequence reaches over its
\* beginning, the intervals inside it, and where one reaches over its end.
IntersectSingle(first, second, i2) ==
  LET b1  == first.begin
      e1  == Ending(first)
      bi2 == second.begin + i2 * second.period
      overlapLength     == Min({bi2 + second.length, b1 + first.length}) - b1
      fullIntervalStart == IF bi2 >= b1 THEN i2 ELSE i2 + 1
      fullIntervalEnd   == Min({(e1 - (second.begin + second.length - 1)) \div second.period,
                                second.count - 1})
      intervalCount     == Max({(fullIntervalEnd - fullIntervalStart) + 1, 0})
      endIntervalNo     == (e1 - second.begin) \div second.period
      endIntervalBegin  == second.begin + endIntervalNo * second.period
      endingLength      == (e1 - endIntervalBegin) + 1
  IN Optional(bi2 < b1 /\ bi2 + second.length > b1,
              IntervalSeq(b1, overlapLength, overlapLength, 1))
     \o Optional(intervalCount > 0,
                 IntervalSeq(second.begin + fullIntervalStart * second.period,
                             second.length, second.period, intervalCount))
     \o Optional(/\ endIntervalNo < second.count
                 /\ endIntervalBegin \in b1..e1
                 /\ endIntervalBegin + second.length - 1 > e1,
                 IntervalSeq(endIntervalBegin, endingLength, endingLength, 1))

\* The overlaps of two sequences from their intervals i1 and i2 on, found by advancing the one
\* whose interval ends first until both have advanced by the LCM of the periods, which takes
\* c1L + c2L turns.
Overlaps(first, second, i1, i2) ==
  LET LCM == lcm(first.period, second.period)
      c1L == LCM \div first.period
      c2L == LCM \div second.period
      Turn(at) ==
        LET b1i    == first.begin + (i1 + at.ci1) * first.period
            b2i    == second.begin + (i2 + at.ci2) * second.period
            end1   == b1i + first.length
            end2   == b2i + second.length
            begin  == Max({b1i, b2i})
            end    == Min({end1, end2})
            ranges == at.ranges \o Optional(begin < end, [min |-> begin, max |-> end - 1])
        IN IF at.ci1 >= c1L /\ at.ci2 >= c2L THEN at
           ELSE IF end1 <= end2 THEN [ci1 |-> at.ci1 + 1, ci2 |-> at.ci2, ranges |-> ranges]
           ELSE [ci1 |-> at.ci1, ci2 |-> at.ci2 + 1, ranges |-> ranges]
      loop[k \in 0..(c1L + c2L)] ==
        IF k = 0 THEN [ci1 |-> 0, ci2 |-> 0, ranges |-> <<>>] ELSE Turn(loop[k - 1])
  IN loop[c1L + c2L].ranges

\* The general case: each of these overlaps, as often as it fits before the sequence that ends first ends.
IntersectRepeated(first, second, i1, i2) ==
  LET LCM           == lcm(first.period, second.period)
      earlierEnding == Min({Ending(first), Ending(second)})
      CountOf(range) == Quotient(earlierEnding - range.max, LCM) + 1
      Repeat(range) ==
        LET length == (range.max - range.min) + 1
            count  == CountOf(range)
        IN IntervalSeq(range.min, length, IF count = 1 THEN length ELSE LCM, count)
      ranges == Overlaps(first, second, i1, i2)
  IN FlattenSeq([i \in 1..Len(ranges) |-> Optional(CountOf(ranges[i]) > 0, Repeat(ranges[i]))])

\* The first interval of s to look at, if the other sequence begins at index begin: those that
\* end before it are skipped.
FirstInterval(s, begin) ==
  LET skipped == IF begin >= s.begin + s.length THEN (begin - s.begin) \div s.period ELSE 0
  IN IF begin >= s.begin + skipped * s.period + s.length THEN skipped + 1 ELSE skipped

\* IntervalSeq::computeIntersection
computeIntersection(s, other) ==
  LET swapped == other.count = 1
      first   == IF swapped THEN other ELSE s
      second  == IF swapped THEN s ELSE other
      i1      == FirstInterval(first, second.begin)
      i2      == FirstInterval(second, first.begin)
      bi1     == first.begin + i1 * first.period
      bi2     == second.begin + i2 * second.period
      drifted == \/ bi1 > bi2 /\ second.length < bi1 - bi2
                 \/ bi2 > bi1 /\ first.length < bi2 - bi1
  IN IF s = other THEN <<s>>
     ELSE IF first.begin > Ending(second) \/ second.begin > Ending(first) THEN <<>>
     ELSE IF first.period = second.period /\ drifted THEN <<>>
     ELSE IF first.count = 1 THEN IntersectSingle(first, second, i2)
     ELSE IntersectRepeated(first, second, i1, i2)

\* The condition under which an intersection is exact: one sequence has one interval, or
\* both go on for a common period after both have begun.
Comparable(s, t) ==
  \/ 1 \in {s.count, t.count}
  \/ Max({s.begin, t.begin}) + lcm(s.period, t.period) - 1 <= Min({Ending(s), Ending(t)})

-----------------------------------------------------------------------------
(* MultidimensionalIntervalSeq: one sequence for each dimension. *)

MdElements(md) == {x \in [1..Len(md) -> UNION {Elements(md[d]) : d \in 1..Len(md)}] :
                     \A d \in 1..Len(md) : x[d] \in Elements(md[d])}

MdNumOfElements(md) ==
  LET product[d \in 0..Len(md)] ==
        IF d = 0 THEN 1 ELSE product[d - 1] * getNumOfElements(md[d])
  IN product[Len(md)]

\* MultidimensionalIntervalSeq::compareTo is negative: md begins first, in the first dimension
\* in which the two do not begin alike.
Precedes(md, other) ==
  \E d \in 1..Len(md) : /\ md[d].begin < other[d].begin
                        /\ \A e \in 1..(d - 1) : md[e].begin = other[e].begin

\* generateIntervalSeqs: the cross product of the lists of the dimensions, the last one
\* varying fastest.
Extend(inProgress, list) ==
  FlattenSeq([i \in 1..Len(inProgress) |->
    [j \in 1..Len(list) |-> Append(inProgress[i], list[j])]])

generateIntervalSeqs(lists) ==
  LET inProgress[d \in 0..Len(lists)] ==
        IF d = 0 THEN <<<<>>>> ELSE Extend(inProgress[d - 1], lists[d])
  IN inProgress[Len(lists)]

\* MultidimensionalIntervalSeq::computeIntersection
MdIntersection(md, other) ==
  LET dimensional == [d \in 1..Len(md) |-> computeIntersection(md[d], other[d])]
  IN IF \E d \in 1..Len(md) : dimensional[d] = <<>> THEN <<>>
     ELSE generateIntervalSeqs(dimensional)
=============================================================================
