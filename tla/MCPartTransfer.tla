--------------------------- MODULE MCPartTransfer -----------------------------
(* Segments, and arrays of six to eleven elements that go from one task to *)
(* the next.                                                               *)
EXTENDS PartTransfer

List(level, functions)   == [functions |-> functions, level |-> level]
Reads(l)                 == [do |-> "read", list |-> l]
Updates(l)               == [do |-> "update", list |-> l]
Writes(l)                == [do |-> "write", list |-> l]
\* DataTransferInstruction; StaleRefreshInstruction for the parts of the item's last version, and
\* for a stale version.
Moves(from, to)           == [do |-> "transfer", from |-> from, to |-> to, last |-> 0, afresh |-> FALSE]
MovesAfresh(from, to)     == [Moves(from, to) EXCEPT !.last = from, !.afresh = TRUE]
Refreshes(from, to, last) == [Moves(from, to) EXCEPT !.last = last]
Program(d, lists, steps) == [dimension |-> d, lists |-> lists, steps |-> steps]

\* The second task computes the array and its result is written.
Passed(d, first, second) ==
  Program(d, <<first, second>>, <<Reads(1), Moves(1, 2), Updates(2), Writes(2)>>)
\* The array is written as it has come.
Copied(d, first, second) == Program(d, <<first, second>>, <<Reads(1), Moves(1, 2), Writes(2)>>)

Blocks       == List(1, <<BlockCount(2, 0, 0)>>)
PaddedBlocks == List(1, <<BlockCount(2, 1, 1)>>)
Sized        == List(1, <<BlockSize(4, 0, 0)>>)
Strides      == List(1, <<Stride(2)>>)
ThreeStrides == List(1, <<Stride(3)>>)
BlockStrides == List(1, <<BlockStride(2, 2)>>)
ThreePadded  == List(1, <<BlockCount(3, 1, 1)>>)
Pairs        == List(1, <<BlockSize(2, 0, 0)>>)
Halves       == List(1, <<BlockCount(2, 0, 0), BlockSize(2, 0, 0)>>)
Whole_       == List(1, <<Replicate>>)
Six   == Dimension(2, 7)
Seven == Dimension(0, 6)
Eight == Dimension(2, 9)
Nine  == Dimension(0, 8)
Eleven == Dimension(0, 10)
Ten   == Dimension(0, 9)

MCPrograms ==
  <<Passed(Seven, Blocks, Strides),
    Passed(Eight, Strides, BlockStrides),
    Passed(Seven, ThreeStrides, PaddedBlocks),
    Passed(Six, Blocks, Sized),
    Copied(Nine, Sized, Whole_),
    Passed(Nine, Sized, ThreePadded),
    Passed(Ten, Pairs, ThreeStrides),
    Copied(Eleven, Strides, List(1, <<BlockSize(2, 0, 0), BlockSize(1, 0, 0)>>)),
    Copied(Six, PaddedBlocks, List(2, <<Replicate, BlockCount(2, 1, 1)>>)),
    Passed(Eight, BlockStrides, List(1, <<BlockCount(2, 0, 0), Stride(2)>>)),
    Passed(Ten, Blocks, List(2, <<BlockSize(5, 0, 0), BlockStride(1, 2)>>)),
    Passed(Eight, List(2, <<Stride(2), BlockSize(3, 1, 1)>>), Sized),
    Passed(Eight, Strides, List(1, <<BlockCount(2, 0, 0), BlockSize(2, 1, 1)>>)),
    Copied(Eight, Strides, List(1, <<BlockCount(2, 1, 1), BlockCount(2, 0, 0)>>)),
    Program(Seven, <<Blocks, Strides, BlockStrides>>,
            <<Reads(1), Moves(1, 2), Moves(1, 3), Updates(3), Refreshes(3, 2, 2), Writes(2)>>),
    Program(Six, <<Strides, Blocks, BlockStrides>>,
            <<Reads(1), MovesAfresh(1, 2), Moves(2, 3), Updates(3), Refreshes(3, 2, 2), Writes(2)>>),
    \* Two lists have one PartsList, and what is learnt of it serves both.
    Program(Seven, <<Blocks, Blocks, Strides, ThreeStrides>>,
            <<Reads(1), Moves(1, 2), Moves(2, 3), Moves(1, 4), Updates(4), Writes(4)>>),
    \* The stale parts of a task are refreshed from parts like those it has now.
    Program(Six, <<Blocks, Strides, Blocks, BlockStrides>>,
            <<Reads(1), Moves(1, 2), Updates(1), Refreshes(1, 3, 2), Moves(3, 4), Writes(4)>>)>>

\* A task that is called again with other partition arguments when its parts are stale.
MCRepartitioned ==
  <<Program(Six, <<Blocks, Strides, BlockStrides>>,
            <<Reads(1), Moves(1, 2), Updates(2), Refreshes(2, 3, 1), Writes(3)>>)>>

\* A task that is called again with other partition arguments, for which no segment needs data of
\* another, and whose parts then go to a task that partitions the array in its own way.
MCReorganized ==
  <<Program(Six, <<Blocks, Halves, Strides>>,
            <<Reads(1), MovesAfresh(1, 2), Moves(2, 3), Writes(3)>>)>>
===============================================================================
