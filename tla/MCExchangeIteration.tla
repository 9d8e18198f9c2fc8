------------------------- MODULE MCExchangeIteration -------------------------
(* Participants that hold parts of a small array: blocks, strides and strided   *)
(* blocks with a remainder, of one or two dimensions.                           *)
EXTENDS ExchangeIteration

CONSTANT Length      \* of a dimension

\* Sequences inside the array.
Sequences == {s \in [begin: 0..2, length: 1..3, period: 1..4, count: 1..3] :
                /\ s.period >= s.length
                /\ s.count = 1 => s.period = s.length
                /\ Ending(s) < Length}

Pairs(S) == {pair \in S \X S : Comparable(pair[1], pair[2])}

\* Participants of one sequence, of one dimension.
OneDimension == {<<<<<<pair[1]>>>>, <<<<pair[2]>>>>>> : pair \in Pairs(Sequences)}

\* Participants of one sequence, of two dimensions.
Rows == {IntervalSeq(0, 2, 3, 2), IntervalSeq(1, 1, 1, 1), IntervalSeq(0, 1, 2, 3), IntervalSeq(0, 4, 4, 1)}
Columns == {IntervalSeq(0, 1, 2, 2), IntervalSeq(0, 3, 3, 1), IntervalSeq(2, 3, 3, 1)}
TwoDimensions ==
  {<<<<<<r[1], c[1]>>>>, <<<<r[2], c[2]>>>>>> : r \in Pairs(Rows), c \in Pairs(Columns)}

\* A strided block with its remainder, against one block.
Remainders ==
  {<<<<<<IntervalSeq(0, 2, 4, n)>>, <<IntervalSeq(4 * n, 1, 1, 1)>>>>, <<<<block>>>>>> :
     n \in 1..2, block \in {s \in Sequences : s.count = 1}}
Blocks ==
  {<<pair[2], pair[1]>> : pair \in Remainders}

\* Both in the strided blocks, of which one side lists the remainder first.
Unordered ==
  {<<pair[1], Reverse(pair[1])>> : pair \in Remainders} \union
  {<<Reverse(pair[1]), pair[2]>> : pair \in Remainders}

MCDescriptions == OneDimension \union TwoDimensions \union Remainders \union Blocks \union Unordered
=============================================================================
