------------------------------ MODULE Partitions ------------------------------
(***************************************************************************)
(* The partition functions, which divide one dimension of an array into    *)
(* parts: block_size, block_count, stride, block_stride, and replicate for *)
(* a dimension that is left whole.  The runtime has each of them twice: as *)
(* a DimPartitionConfig (memory-management/part_generation.{h,cc}), by     *)
(* which parts are allocated, read from files and computed on, and as a    *)
(* PartitionInstr (partition-lib/partition.{h,cc}), by which the data of   *)
(* parts is described and found when it is communicated.                   *)
(*                                                                         *)
(* stride and block_stride reorder: a part numbers its indices 0, 1, 2 and *)
(* so on.  A part of a block function keeps the indices of its parent, and *)
(* may be padded with indices of its neighbours.                           *)
(***************************************************************************)
EXTENDS Integers, Sequences

Smaller(a, b) == IF a <= b THEN a ELSE b
Larger(a, b)  == IF a >= b THEN a ELSE b

\* A range of indices with its length.
Dimension(min, max) == [min |-> min, max |-> max]
getLength(d) == IF d.min <= d.max THEN (d.max - d.min) + 1 ELSE (d.min - d.max) + 1
Indices(d) == d.min..d.max

\* A partition function with its arguments: the size or count, the PPUs of the
\* LPS, the front and the rear padding.
Replicate                     == [kind |-> "replicate", arg |-> 1, ppus |-> 1, front |-> 0, rear |-> 0]
BlockSize(size, front, rear)  == [Replicate EXCEPT !.kind = "block_size", !.arg = size,
                                                   !.front = front, !.rear = rear]
BlockCount(count, front, rear) == [Replicate EXCEPT !.kind = "block_count", !.arg = count,
                                                    !.front = front, !.rear = rear]
Stride(ppus)                  == [Replicate EXCEPT !.kind = "stride", !.ppus = ppus]
BlockStride(size, ppus)       == [Replicate EXCEPT !.kind = "block_stride", !.arg = size,
                                                   !.ppus = ppus]

isBlock(f)    == f.kind \in {"block_size", "block_count"}
hasPadding(f) == f.front > 0 \/ f.rear > 0
doesReorderIndices(f) == f.kind \in {"stride", "block_stride"}

\* How many parts f makes of dimension d.
getPartsCount(f, d) ==
  CASE f.kind = "replicate"    -> 1
    [] f.kind = "block_size"   -> (getLength(d) + f.arg - 1) \div f.arg
    [] f.kind = "block_count"  -> Larger(1, Smaller(f.arg, getLength(d)))
    [] f.kind = "stride"       -> Larger(1, Smaller(f.ppus, getLength(d)))
    [] f.kind = "block_stride" -> Larger(1, Smaller(getLength(d) \div f.arg, f.ppus))

-----------------------------------------------------------------------------
(* Block functions *)

Size(f, d) == IF f.kind = "block_size" THEN f.arg ELSE getLength(d) \div getPartsCount(f, d)

\* A part without padding; the last one ends where the dimension ends.
Core(f, d, id) ==
  Dimension(d.min + id * Size(f, d),
            IF id = getPartsCount(f, d) - 1 THEN d.max ELSE d.min + (id + 1) * Size(f, d) - 1)
\* Padding does not reach over the ends of the parent dimension.
Padded(f, d, core) == Dimension(Larger(d.min, core.min - f.front), Smaller(d.max, core.max + f.rear))

-----------------------------------------------------------------------------
(* Strides *)

\* The number of indices that part id has.
Entries(f, d, id) ==
  LET block   == IF f.kind = "stride" THEN 1 ELSE f.arg
      stride  == block * getPartsCount(f, d)
      partial == getLength(d) % stride
      blocks  == partial \div block
  IN (getLength(d) \div stride) * block
     + (IF blocks > id THEN block ELSE IF blocks = id THEN partial - id * block ELSE 0)

-----------------------------------------------------------------------------
(* DimPartitionConfig *)

\* The dimension of part id as it is allocated, padding included.
getPartDimension(f, d, id) ==
  IF f.kind = "replicate" THEN d
  ELSE IF doesReorderIndices(f) THEN Dimension(0, Entries(f, d, id) - 1)
  ELSE Padded(f, d, Core(f, d, id))

\* getOriginalIndex: the index of the parent dimension that part id has at index.
OriginalInParent(f, d, id, index) ==
  CASE f.kind = "stride"       -> d.min + id + index * getPartsCount(f, d)
    [] f.kind = "block_stride" -> d.min + ((index \div f.arg) * getPartsCount(f, d) + id) * f.arg
                                  + (index % f.arg)
    [] OTHER                   -> index

-----------------------------------------------------------------------------
(* PartitionInstr *)

\* Part id as the description of data sees it, with or without padding.
getDimension(f, d, id, includePadding) ==
  IF isBlock(f) /\ ~includePadding THEN Core(f, d, id) ELSE getPartDimension(f, d, id)

\* The part that an index of the parent dimension d belongs to, and its index there.
PartNo(f, d, index) ==
  LET offset == index - d.min
  IN CASE f.kind = "replicate"    -> 0
       [] f.kind = "block_size"   -> offset \div Size(f, d)
       [] f.kind = "block_count"  -> Smaller(offset \div Size(f, d), getPartsCount(f, d) - 1)
       [] f.kind = "stride"       -> offset % getPartsCount(f, d)
       [] f.kind = "block_stride" -> (offset % (f.arg * getPartsCount(f, d))) \div f.arg

XformedIndex(f, d, index) ==
  LET offset == index - d.min
  IN CASE f.kind = "stride"       -> offset \div getPartsCount(f, d)
       [] f.kind = "block_stride" -> (offset \div (f.arg * getPartsCount(f, d))) * f.arg
                                     + (offset % f.arg)
       [] OTHER                   -> index

\* Mutant: the neighbour in front of the part is forgotten.
Neighbour_Behind(f, d, index, partNo, core) ==
  IF core.max - index \in 0..(f.rear - 1) /\ partNo < getPartsCount(f, d) - 1 THEN <<partNo + 1>>
  ELSE <<>>
\* The neighbour, if any, that has an index of part partNo in its padding, too.
Neighbour(f, d, index, partNo, core) ==
  IF index - core.min \in 0..(f.front - 1) /\ partNo > 0 THEN <<partNo - 1>>
  ELSE IF core.max - index \in 0..(f.rear - 1) /\ partNo < getPartsCount(f, d) - 1 THEN <<partNo + 1>>
  ELSE <<>>

\* transformIndex: the parts that have an index of d; first the one the index belongs to, then
\* one that has it in its padding.
WithNeighbour(f, d, index, partNo) ==
  <<partNo>> \o (IF isBlock(f) THEN Neighbour(f, d, index, partNo, Core(f, d, partNo)) ELSE <<>>)
transformIndex(f, d, index) == WithNeighbour(f, d, index, PartNo(f, d, index))
=============================================================================
