---------------------------- MODULE PartHierarchy -----------------------------
(***************************************************************************)
(* The parts that a hierarchy of partition functions, one for each LPS,    *)
(* makes of a dimension of an array, and what the runtime computes from    *)
(* such a hierarchy:                                                       *)
(*   - the indices a part has (memory-management/part_generation.cc);      *)
(*   - where an element of the array is kept (PartIdContainer::transferData, *)
(*     memory-management/part_tracking.cc);                                *)
(*   - interval sequences that describe the parts of a segment             *)
(*     (foldContainer, part_tracking.cc; DimensionFold, communication/     *)
(*     part_folding.cc; getIntervalDescForRangeHierarchy,                  *)
(*     partition-lib/partition.cc);                                        *)
(*   - whether two hierarchies make the same parts                         *)
(*     (DataPartitionConfig::isEquivalent).                                *)
(*                                                                         *)
(* The functions of a hierarchy are a sequence, that of the root LPS first; *)
(* a part is the sequence of its ids.  The dimensions of an array are      *)
(* divided independently, so one of them is considered.                    *)
(***************************************************************************)
EXTENDS Partitions, Intervals

\* getDimensionFromParent: the dimension that level k divides, for the part ids.
ParentDimension(functions, d, ids, k) ==
  LET dimension[i \in 1..k] ==
        IF i = 1 THEN d
        ELSE getPartDimension(functions[i - 1], dimension[i - 1], ids[i - 1])
  IN dimension[k]

\* The part's own dimension; for no ids, d itself.
PartDimension(functions, d, ids) ==
  IF ids = <<>> THEN d
  ELSE LET k == Len(ids)
       IN getPartDimension(functions[k], ParentDimension(functions, d, ids, k), ids[k])

\* All parts.
PartIds(functions, d) ==
  LET ids[k \in 0..Len(functions)] ==
        IF k = 0 THEN {<<>>}
        ELSE UNION {{Append(parent, id) :
                       id \in 0..(getPartsCount(functions[k],
                                                PartDimension(functions, d, parent)) - 1)} :
                    parent \in ids[k - 1]}
  IN ids[Len(functions)]

\* getOriginalIndex: the index of the array that a part has at its own index.
getOriginalIndex(functions, d, ids, partIndex) ==
  LET original[k \in 0..Len(ids)] ==
        IF k = Len(ids) THEN partIndex
        ELSE OriginalInParent(functions[k + 1], ParentDimension(functions, d, ids, k + 1),
                              ids[k + 1], original[k + 1])
  IN original[0]

-----------------------------------------------------------------------------
(* transferData *)

Mapped(Op(_), seq) == [i \in DOMAIN seq |-> Op(seq[i])]

\* Where the parts of a segment keep the element of the array at index: a part and the
\* index in it.  The part ids are searched level by level, each neighbour after the part.
Locations(functions, d, held, index) ==
  LET found[ids \in Seq(Nat), dimension \in [min : Int, max : Int], i \in Int] ==
        LET f == functions[Len(ids) + 1]
            In(partNo) ==
              IF \E part \in held : IsPrefix(Append(ids, partNo), part)
              THEN found[Append(ids, partNo), getPartDimension(f, dimension, partNo),
                         XformedIndex(f, dimension, i)]
              ELSE <<>>
        IN IF Len(ids) = Len(functions) THEN <<[part |-> ids, index |-> i]>>
           ELSE FlattenSeq(Mapped(In, transformIndex(f, dimension, i)))
  IN found[<<>>, d, index]

-----------------------------------------------------------------------------
(* Folding.  The parts of a segment are folded into strains: one range of  *)
(* part ids for each level, all combinations of which the segment has.     *)

\* foldContainer and extractStrains: neighbours with equal descendants coalesce.
Folds(parts) ==
  LET fold[S \in SUBSET Seq(Nat)] ==
        IF S = {<<>>} THEN <<<<>>>>
        ELSE LET Ids == {Head(part) : part \in S}
                 Content(id) == fold[{Tail(part) : part \in {p \in S : Head(p) = id}}]
                 Coalesced(id) == id \in Ids /\ id + 1 \in Ids /\ Content(id) = Content(id + 1)
                 Starts == {id \in Ids : ~Coalesced(id - 1)}
                 EndOf(id) == Min({j \in Ids : j >= id /\ ~Coalesced(j)})
                 Strains(id) == [i \in 1..Len(Content(id)) |->
                                   <<Dimension(id, EndOf(id))>> \o Content(id)[i]]
             IN FlattenSeq([i \in 1..Cardinality(Starts) |->
                              Strains(SetToSortSeq(Starts, <)[i])])
  IN fold[parts]

\* The dimension that level k divides, as the instructions see it while a fold is
\* described: for the first part of each range.
FoldDimension(functions, d, fold, k) ==
  LET dimension[i \in 1..k] ==
        IF i = 1 THEN d
        ELSE getDimension(functions[i - 1], dimension[i - 1], fold[i - 1].min, TRUE)
  IN dimension[k]

Full(functions, d, fold, k) ==
  getLength(fold[k]) = getPartsCount(functions[k], FoldDimension(functions, d, fold, k))

\* DimensionFold::pruneFolding: the lowest levels go, as long as they have all parts.
pruneFolding(functions, d, fold) ==
  SubSeq(fold, 1, Min({k \in 1..Len(fold) :
                         \A j \in (k + 1)..Len(fold) : Full(functions, d, fold, j)}))

\* DimensionFold::branchOut: above the last level, parts of different lengths go into branches of
\* their own.  This is the first branch, of the parts as long as the first one at each level.
firstBranch(functions, d, fold) ==
  LET LengthOf(k, id) == getLength(getDimension(functions[k], FoldDimension(functions, d, fold, k), id, TRUE))
      Alike(k) == {id \in Indices(fold[k]) :
                     \A i \in fold[k].min..id : LengthOf(k, i) = LengthOf(k, fold[k].min)}
  IN [k \in DOMAIN fold |-> IF k = Len(fold) THEN fold[k] ELSE Dimension(fold[k].min, Max(Alike(k)))]

-----------------------------------------------------------------------------
(* Interval descriptions *)

Whole(d) == <<IntervalSeq(d.min, getLength(d), getLength(d), 1)>>

\* getPaddinglessIntervalForRange; block_count goes by its argument, however short d is.
PaddinglessInterval(f, d, range) ==
  LET size      == IF f.kind = "block_size" THEN f.arg ELSE getLength(d) \div f.arg
      begin     == d.min + range.min * size
      remaining == (d.max - begin) + 1
      length    == IF f.kind = "block_size" THEN Smaller(remaining, getLength(range) * size)
                   ELSE IF range.max < f.arg - 1 THEN getLength(range) * size ELSE remaining
  IN IntervalSeq(begin, length, length, 1)

\* Mutant: an incomplete last round of a stride is left out.
StrideRange_NoSpill(f, d, range) ==
  LET block   == IF f.kind = "stride" THEN 1 ELSE f.arg
      stride  == block * getPartsCount(f, d)
      partial == getLength(d) % stride
      extra   == partial \div block > range.max
      strides == (getLength(d) \div stride) + (IF extra THEN 1 ELSE 0)
      begin   == d.min + block * range.min
  IN IF getPartsCount(f, d) = getLength(range) THEN Whole(d)
     ELSE <<IntervalSeq(begin, block * getLength(range), stride, strides)>>
\* getIntervalDescForRange of the strides: what full rounds have of the parts, and what
\* an incomplete last one has.
StrideRange(f, d, range) ==
  LET block   == IF f.kind = "stride" THEN 1 ELSE f.arg
      stride  == block * getPartsCount(f, d)
      partial == getLength(d) % stride
      extra   == partial \div block > range.max
      strides == (getLength(d) \div stride) + (IF extra THEN 1 ELSE 0)
      spill   == IF extra THEN 0 ELSE Larger(0, partial - block * range.min)
      begin   == d.min + block * range.min
  IN IF getPartsCount(f, d) = getLength(range) THEN Whole(d)
     ELSE <<IntervalSeq(begin, block * getLength(range), stride, strides)>>
          \o Optional(spill > 0, IntervalSeq(begin + stride * strides, spill, spill, 1))

\* The lowest level: the parts of a range, in the indices of the parent dimension.
RangeIntervals(f, d, range, excludePadding) ==
  CASE f.kind = "replicate" -> Whole(d)
    [] doesReorderIndices(f) -> StrideRange(f, d, range)
    [] isBlock(f) /\ excludePadding -> <<PaddinglessInterval(f, d, range)>>
    [] isBlock(f) /\ ~excludePadding ->
         Whole(Dimension(getDimension(f, d, range.min, TRUE).min,
                         getDimension(f, d, range.max, TRUE).max))

\* getIntervalDesc of the strides: one part; a partial block counts as a whole one, of
\* which lower levels use what is there.
PartIntervals(f, d, id) ==
  LET block   == IF f.kind = "stride" THEN 1 ELSE f.arg
      stride  == block * getPartsCount(f, d)
      partial == getLength(d) % stride
      more    == partial > id * block
  IN IntervalSeq(d.min + block * id, block, stride,
                 (getLength(d) \div stride) + (IF more THEN 1 ELSE 0))

\* A block function above the lowest level: padding is cut off, and for a range of
\* parts what is described of the first one repeats in each.
RepeatInBlocks(f, d, range, desc) ==
  LET period == getLength(getDimension(f, d, range.min, FALSE))
      Each(s) == IF s.count = 1
                 THEN <<[s EXCEPT !.count = getLength(range), !.period = period]>>
                 ELSE [j \in 1..s.count |->
                         IntervalSeq(s.begin + s.period * (j - 1), s.length, period,
                                     getLength(range))]
  IN IF range.max = range.min THEN desc
     ELSE FlattenSeq([i \in 1..Len(desc) |-> Each(desc[i])])

WithoutPadding(f, d, range, desc) ==
  LET own == PaddinglessInterval(f, d, Dimension(range.min, range.min))
  IN FlattenSeq([i \in 1..Len(desc) |-> computeIntersection(own, desc[i])])

\* A level above the lowest one: desc is in the indices of its parts, the result in
\* those of the dimension d it divides.
LiftIntervals(f, d, range, excludePadding, desc) ==
  CASE f.kind = "replicate" -> desc
    [] isBlock(f) -> RepeatInBlocks(f, d, range,
                       IF hasPadding(f) /\ excludePadding THEN WithoutPadding(f, d, range, desc)
                                                          ELSE desc)
    [] doesReorderIndices(f) ->
         FlattenSeq([i \in 1..getLength(range) |->
           FlattenSeq([j \in 1..Len(desc) |->
             transformSubInterval(PartIntervals(f, d, range.min + i - 1), desc[j])])])

\* getIntervalDescForRangeHierarchy, from the lowest level up.
IntervalDesc(functions, d, fold, excludePadding) ==
  LET desc[k \in 1..Len(fold)] ==
        LET parent == FoldDimension(functions, d, fold, k)
        IN IF k = Len(fold) THEN RangeIntervals(functions[k], parent, fold[k], excludePadding)
           ELSE LiftIntervals(functions[k], parent, fold[k], excludePadding, desc[k + 1])
  IN desc[1]

\* FoldStrain::generateIntervalDesc: the first branch is described (the descriptions of
\* the others are appended where those of further dimensions belong).
StrainDesc(functions, d, strain) ==
  IntervalDesc(functions, d, firstBranch(functions, d, pruneFolding(functions, d, strain)), FALSE)

\* What a segment says it has (ListReferenceAttributes::computeSegmentFold).
SegmentFold(functions, d, held) ==
  LET strains == Folds(held)
  IN FlattenSeq([i \in 1..Len(strains) |-> StrainDesc(functions, d, strains[i])])

\* Mutant: the padding of the part's own level is excluded, not that of its parents.
ContentDescription_Included(functions, d, ids) ==
  IntervalDesc(functions, d, [k \in 1..Len(ids) |-> Dimension(ids[k], ids[k])], FALSE)
\* PartInfo::generateContentDescription (file-io/data_handler.cc): a part without padding.
ContentDescription(functions, d, ids) ==
  IntervalDesc(functions, d, [k \in 1..Len(ids) |-> Dimension(ids[k], ids[k])], TRUE)

Described(desc) == UNION {Elements(desc[i]) : i \in 1..Len(desc)}

-----------------------------------------------------------------------------
(* Equivalence.  When an array goes from one task to the next, its parts   *)
(* stay as they are if both tasks divide it in the same way.               *)

isDegenerativeCase(f) ==
  \/ f.kind = "replicate"
  \/ f.kind = "block_count" /\ f.arg = 1
  \/ doesReorderIndices(f) /\ f.ppus = 1

\* PartIntervalPattern: instances parts, each of count intervals of length indices that are
\* period apart, and overflow indices more.
Pattern(begin, count, period, length, overflow, instances) ==
  [begin |-> begin, count |-> count, period |-> period, length |-> length,
   overflow |-> overflow, instances |-> instances]
getPartLength(p) == p.count * p.length + p.overflow

\* The first part of a block function, the parts in the middle, and the last one, where they differ.
BlockPatterns(f, d) ==
  LET count == getPartsCount(f, d)
      PatternOf(id, offset, instances) ==
        LET length == getLength(getPartDimension(f, d, id))
        IN Pattern(<<"partId", Size(f, d), offset>>, 1, length, length, 0, instances)
      first  == PatternOf(0, 0, 1)
      second == PatternOf(1, f.front, count - 1)
      alike  == [first EXCEPT !.instances = second.instances] = second
      list   == IF alike THEN <<[first EXCEPT !.instances = count]>> ELSE <<first, second>>
  IN IF count > 2 /\ (getLength(d) % Size(f, d) # 0 \/ f.rear # 0)
     THEN [list EXCEPT ![Len(list)].instances = @ - 1] \o <<PatternOf(count - 1, f.front, 1)>>
     ELSE list

\* The parts with an index more; the pattern of the others is not put into the list.
StridePatterns(f, d) ==
  LET count     == getPartsCount(f, d)
      remainder == getLength(d) % count
  IN Optional(remainder > 0, Pattern(<<"partId", 1, 0>>, (getLength(d) \div count) + 1, count, 1, 0,
                                     remainder))

BlockStridePatterns(f, d) ==
  LET count    == getPartsCount(f, d)
      stride   == f.arg * count
      steps    == getLength(d) \div stride
      partial  == (getLength(d) % stride) \div f.arg
      overflow == (getLength(d) % stride) % f.arg
      most     == count - partial - (IF overflow > 0 THEN 1 ELSE 0)
      PatternOf(n, rest, instances) ==
        Pattern(<<"partid", f.arg, 0>>, n, stride, f.arg, rest, instances)
  IN Optional(partial > 0, PatternOf(steps + 1, 0, partial))
     \o Optional(overflow > 0, PatternOf(steps, overflow, 1))
     \o Optional(most > 0, PatternOf(steps, 0, most))

getPartIntervalPatterns(f, d) ==
  IF getPartsCount(f, d) = 1 THEN <<Pattern(<<"", d.min, 0>>, 1, getLength(d), getLength(d), 0, 1)>>
  ELSE CASE isBlock(f)               -> BlockPatterns(f, d)
         [] f.kind = "stride"        -> StridePatterns(f, d)
         [] f.kind = "block_stride"  -> BlockStridePatterns(f, d)

\* generateSimilarParts: the same patterns at each level, for the lengths that the parts have.
generateSimilarParts(first, second, dimension) ==
  LET similar[k \in Nat, d \in [min : Int, max : Int]] ==
        LET patterns == getPartIntervalPatterns(first[k], d)
        IN \/ k > Len(first)
           \/ /\ getPartsCount(first[k], d) = getPartsCount(second[k], d)
              /\ patterns = getPartIntervalPatterns(second[k], d)
              /\ \A i \in DOMAIN patterns :
                   similar[k + 1, Dimension(0, getPartLength(patterns[i]) - 1)]
  IN similar[1, dimension]

\* Mutant: functions that do not reorder are all alike.
isEquivalent_LevelsOnly(mine, other, d) ==
  LET Hierarchy(functions) == SelectSeq(functions, LAMBDA f : ~isDegenerativeCase(f))
      first  == Hierarchy(mine)
      second == Hierarchy(other)
  IN /\ Len(first) = Len(second)
     /\ \A k \in DOMAIN first : /\ doesReorderIndices(first[k]) = doesReorderIndices(second[k])
                               /\ getPartsCount(first[k], d) = getPartsCount(second[k], d)
\* DataPartitionConfig::isEquivalent
isEquivalent(mine, other, d) ==
  LET Hierarchy(functions) == SelectSeq(functions, LAMBDA f : ~isDegenerativeCase(f))
      first  == Hierarchy(mine)
      second == Hierarchy(other)
  IN /\ Len(first) = Len(second)
     /\ \A k \in DOMAIN first : doesReorderIndices(first[k]) = doesReorderIndices(second[k])
     /\ first = second \/ generateSimilarParts(first, second, d)
=============================================================================
