-------------------------- MODULE IndexSpaces_proofs --------------------------
(***************************************************************************)
(* Which indices the parts of an array have, and which of them two         *)
(* participants of a communication exchange, for every array.              *)
(*                                                                         *)
(* A partition function divides its dimension: every index is in exactly   *)
(* one part, the one transformIndex computes, and the two implementations  *)
(* of each function agree on where in the part it is.                      *)
(*                                                                         *)
(* The common region of two descriptions is exact, if in each dimension    *)
(* two sequences can be compared (Comparable in Intervals): its sequences  *)
(* describe the points that both have, each of them once.                  *)
(*                                                                         *)
(* Whatever two segments have in common is in one of the exchanges that    *)
(* each segment finds, and where equal contents come from equal holdings   *)
(* all segments find the same.                                             *)
(*                                                                         *)
(* An exchange whose region is exact delivers points that both have, in    *)
(* an incremental order, and none twice.  The inductive invariant (at the  *)
(* end of ExchangeIteration) says that as many points come before the one  *)
(* the cursors are on as have been delivered of its sequence; that the     *)
(* carry from one dimension to the one before it adds one to this number   *)
(* is RankOfNext.                                                          *)
(***************************************************************************)
EXTENDS Partitions, ExchangeIteration, DataExchanges, DivisionLemmas

-----------------------------------------------------------------------------
(* Partition functions *)

Functions == [kind  : {"replicate", "block_size", "block_count", "stride", "block_stride"},
              arg   : Nat \ {0}, ppus : Nat \ {0},
              front : Nat, rear : Nat]
Dimensions == {d \in [min : Int, max : Int] : d.min <= d.max}

LEMMA Length ==
  ASSUME NEW d \in Dimensions
  PROVE  /\ d.min \in Int /\ d.max \in Int
         /\ getLength(d) \in Nat \ {0}
         /\ getLength(d) = (d.max - d.min) + 1
         /\ \A x \in Indices(d) : x \in Int /\ x - d.min \in 0..(getLength(d) - 1)
  BY DEF Dimensions, getLength, Indices

LEMMA FunctionType ==
  ASSUME NEW f \in Functions
  PROVE  f.arg \in Nat \ {0} /\ f.ppus \in Nat \ {0} /\ f.front \in Nat /\ f.rear \in Nat
  BY DEF Functions

-----------------------------------------------------------------------------
(* Block functions *)

(* There is a part, every part has an index, and the last one ends the dimension. *)
LEMMA Blocks ==
  ASSUME NEW f \in Functions, NEW d \in Dimensions, isBlock(f),
         NEW n, n = getPartsCount(f, d), NEW q, q = Size(f, d)
  PROVE  /\ n \in Nat \ {0}
         /\ q \in Nat \ {0}
         /\ f.kind = "block_size" => getLength(d) <= q * n
<1> DEFINE L == getLength(d)
<1>0. L \in Nat \ {0} /\ f.arg \in Nat \ {0}
  BY Length, FunctionType
<1>1. CASE f.kind = "block_size"
  <2>1. n = (L + f.arg - 1) \div f.arg /\ q = f.arg
    BY <1>1 DEF getPartsCount, Size
  <2> HIDE DEF L
  <2>2. L + f.arg - 1 \in Nat
    BY <1>0
  <2>3. /\ n \in Nat /\ (L + q - 1) % q \in 0..(q - 1)
        /\ L + q - 1 = q * n + ((L + q - 1) % q)
    BY <1>0, <2>1, <2>2, Division
  <2>4. q * n \in Nat
    BY <1>0, <2>1, <2>3, Product
  <2>5. L <= q * n
    BY <1>0, <2>1, <2>3, <2>4
  <2>6. n # 0
    <3>1. SUFFICES ASSUME n = 0 PROVE FALSE
      OBVIOUS
    <3>2. q * n = 0
      BY <1>0, <2>1, <3>1
    <3> QED BY <1>0, <2>5, <3>2
  <2> QED BY <1>0, <2>1, <2>3, <2>5, <2>6 DEF L
<1>2. CASE f.kind = "block_count"
  <2>1. n = Larger(1, Smaller(f.arg, L)) /\ q = L \div n
    BY <1>2 DEF getPartsCount, Size
  <2> HIDE DEF L
  <2>2. n \in Nat \ {0} /\ n <= L
    BY <1>0, <2>1 DEF Larger, Smaller
  <2>3. q \in Nat /\ L % n \in 0..(n - 1) /\ L = n * q + (L % n)
    BY <1>0, <2>1, <2>2, Division
  <2>4. q # 0
    <3>1. SUFFICES ASSUME q = 0 PROVE FALSE
      OBVIOUS
    <3>2. n * q = 0
      BY <2>2, <3>1
    <3> QED BY <2>2, <2>3, <3>2
  <2> QED BY <1>2, <2>2, <2>3, <2>4
<1> QED BY <1>1, <1>2 DEF isBlock

(* The quotient by the part's size, which the last part of block_count may exceed. *)
LEMMA BlockNo ==
  ASSUME NEW f \in Functions, NEW d \in Dimensions, isBlock(f), NEW x \in Indices(d),
         NEW k, k = (x - d.min) \div Size(f, d)
  PROVE  /\ k \in Nat
         /\ PartNo(f, d, x) = Smaller(k, getPartsCount(f, d) - 1)
<1> DEFINE o == x - d.min
           n == getPartsCount(f, d)
           q == Size(f, d)
<1>1. o \in Nat /\ o < getLength(d) /\ getLength(d) \in Nat
  BY Length
<1>2. /\ n \in Nat \ {0} /\ q \in Nat \ {0}
      /\ f.kind = "block_size" => getLength(d) <= q * n
  BY Blocks
<1> HIDE DEF n, q, o
<1>3. k = o \div q
  BY DEF o, q
<1>4. k \in Nat
  BY <1>1, <1>2, <1>3, Division
<1>5. CASE f.kind = "block_size"
  <2>1. q * n \in Nat
    BY <1>2, Product
  <2>2. o < q * n
    BY <1>1, <1>2, <1>5, <2>1
  <2>3. k < n
    BY <1>1, <1>2, <1>3, <2>2, QuotientBelow
  <2>4. PartNo(f, d, x) = k
    BY <1>5 DEF PartNo
  <2> QED BY <1>2, <1>4, <2>3, <2>4 DEF Smaller, n
<1>6. CASE f.kind = "block_count"
  <2>1. PartNo(f, d, x) = Smaller(k, n - 1)
    BY <1>6 DEF PartNo, n
  <2> QED BY <1>4, <2>1 DEF n
<1> QED BY <1>5, <1>6 DEF isBlock

(* A core in terms of the distance from the beginning of the dimension. *)
LEMMA InCore ==
  ASSUME NEW f \in Functions, NEW d \in Dimensions, isBlock(f),
         NEW x \in Indices(d), NEW id \in 0..(getPartsCount(f, d) - 1)
  PROVE  x \in Indices(Core(f, d, id)) <=>
           /\ Size(f, d) * id <= x - d.min
           /\ id = getPartsCount(f, d) - 1 \/ x - d.min < Size(f, d) * id + Size(f, d)
<1> DEFINE n == getPartsCount(f, d)
           q == Size(f, d)
<1>1. n \in Nat \ {0} /\ q \in Nat \ {0}
  BY Blocks
<1>2. x \in Int /\ d.min \in Int /\ d.max \in Int /\ d.min <= x /\ x <= d.max
  BY Length DEF Indices
<1>3. Core(f, d, id) = Dimension(d.min + id * q,
                                 IF id = n - 1 THEN d.max ELSE d.min + (id + 1) * q - 1)
  BY DEF Core
<1> HIDE DEF n, q
<1>4. id \in Nat
  BY <1>1 DEF n
<1>5. id * q = q * id /\ (id + 1) * q = q * id + q /\ q * id \in Nat
  BY <1>1, <1>4, SMT
<1>6. Indices(Core(f, d, id)) =
        (d.min + q * id)..(IF id = n - 1 THEN d.max ELSE d.min + q * id + q - 1)
  BY <1>1, <1>2, <1>3, <1>5 DEF Indices, Dimension
<1>7. CASE id = n - 1
  <2>1. Indices(Core(f, d, id)) = (d.min + q * id)..d.max
    BY <1>6, <1>7
  <2>2. x \in Indices(Core(f, d, id)) <=> q * id <= x - d.min
    BY <1>2, <1>5, <2>1
  <2> QED BY <1>7, <2>2 DEF n, q
<1>8. CASE id # n - 1
  BY <1>1, <1>2, <1>5, <1>6, <1>8 DEF n, q
<1> QED BY <1>7, <1>8

\* The parts of a block function, without padding, share the indices of the
\* dimension: each index is in the part that transformIndex finds for it and in no
\* other.  (BlockSizeInstr and BlockCountInstr: getDimension against transformIndex.)
THEOREM BlocksDivide ==
  ASSUME NEW f \in Functions, NEW d \in Dimensions, isBlock(f), NEW x \in Indices(d)
  PROVE  /\ PartNo(f, d, x) \in 0..(getPartsCount(f, d) - 1)
         /\ \A id \in 0..(getPartsCount(f, d) - 1) :
              x \in Indices(Core(f, d, id)) <=> id = PartNo(f, d, x)
<1> DEFINE o == x - d.min
           n == getPartsCount(f, d)
           q == Size(f, d)
           k == o \div q
<1>1. n \in Nat \ {0} /\ q \in Nat \ {0}
  BY Blocks
<1>2. o \in Nat
  BY Length
<1> HIDE DEF n, q, o
<1>3. k \in Nat /\ o % q \in 0..(q - 1) /\ o = q * k + (o % q)
  BY <1>1, <1>2, Division
<1>4. PartNo(f, d, x) = Smaller(k, n - 1)
  BY BlockNo DEF n, q, o
<1>5. PartNo(f, d, x) \in 0..(n - 1)
  BY <1>1, <1>3, <1>4 DEF Smaller
<1> HIDE DEF k
<1>6. q * k \in Nat
  BY <1>1, <1>3, Product
<1>7. ASSUME NEW id \in 0..(n - 1)
      PROVE  x \in Indices(Core(f, d, id)) <=> id = PartNo(f, d, x)
  <2>1. id \in Nat /\ q * id \in Nat
    BY <1>1, Product
  <2>2. x \in Indices(Core(f, d, id)) <=> q * id <= o /\ (id = n - 1 \/ o < q * id + q)
    BY InCore DEF n, q, o
  <2>3. q * id <= o <=> id <= k
    <3>1. CASE k < id
      BY <1>1, <1>2, <1>3, <1>6, <2>1, <3>1, Monotonic
    <3>2. CASE id = k
      BY <1>2, <1>3, <1>6, <3>2
    <3>3. CASE id < k
      BY <1>1, <1>2, <1>3, <1>6, <2>1, <3>3, Monotonic
    <3> QED BY <1>3, <2>1, <3>1, <3>2, <3>3
  <2>4. o < q * id + q <=> k <= id
    <3>1. CASE k < id
      BY <1>1, <1>2, <1>3, <1>6, <2>1, <3>1, Monotonic
    <3>2. CASE id = k
      BY <1>1, <1>2, <1>3, <1>6, <3>2
    <3>3. CASE id < k
      BY <1>1, <1>2, <1>3, <1>6, <2>1, <3>3, Monotonic
    <3> QED BY <1>3, <2>1, <3>1, <3>2, <3>3
  <2> QED BY <1>1, <1>3, <1>4, <2>1, <2>2, <2>3, <2>4 DEF Smaller
<1> QED BY <1>5, <1>7 DEF n

-----------------------------------------------------------------------------
(* Strides.  An offset is the m-th index of the p-th block of the o-th round   *)
(* over the parts; stride is block_stride with blocks of one index.            *)

LEMMA DivideByOne ==
  ASSUME NEW x \in Nat
  PROVE  x \div 1 = x /\ x % 1 = 0
  BY SMT

LEMMA JoinOffset ==
  ASSUME NEW b \in Nat \ {0}, NEW n \in Nat \ {0},
         NEW o \in Nat, NEW p \in 0..(n - 1), NEW m \in 0..(b - 1),
         NEW x, x = (o * n + p) * b + m
  PROVE  /\ x \in Nat
         /\ b * n \in Nat \ {0} /\ b * p + m \in 0..(b * n - 1)
         /\ x = (b * n) * o + (b * p + m)
         /\ x = b * (o * n + p) + m /\ o * n + p \in Nat
<1>1. b * n \in Nat /\ b * p \in Nat /\ o * n \in Nat /\ p \in Nat
  BY Product
<1>2. b * n # 0
  <2>1. b * 0 + b <= b * n
    BY Monotonic
  <2> QED BY <1>1, <2>1
<1>3. b * p + b <= b * n
  BY <1>1, Monotonic
<1>4. b * p + m \in 0..(b * n - 1)
  BY <1>1, <1>3
<1>5. x = (b * n) * o + (b * p + m)
  <2>1. (o * n + p) * b = (o * n) * b + p * b
    BY <1>1, SMT
  <2>2. (o * n) * b = (b * n) * o /\ p * b = b * p
    BY <1>1, SMT
  <2>3. (b * n) * o \in Nat
    BY <1>1, Product
  <2> QED BY <1>1, <2>1, <2>2, <2>3
<1>6. x = b * (o * n + p) + m
  <2>1. (o * n + p) * b = b * (o * n + p)
    BY <1>1, SMT
  <2> QED BY <2>1
<1>7. o * n + p \in Nat
  BY <1>1
<1>8. x \in Nat
  <2>1. b * (o * n + p) \in Nat
    BY <1>7, Product
  <2> QED BY <1>6, <2>1
<1> QED BY <1>1, <1>2, <1>4, <1>5, <1>6, <1>7, <1>8

(* From the place in the part to the offset and back. *)
LEMMA PlaceOf ==
  ASSUME NEW b \in Nat \ {0}, NEW n \in Nat \ {0},
         NEW o \in Nat, NEW p \in 0..(n - 1), NEW m \in 0..(b - 1),
         NEW x, x = (o * n + p) * b + m
  PROVE  /\ x \div (b * n) = o
         /\ (x % (b * n)) \div b = p
         /\ x % b = m
<1>1. x \div (b * n) = o /\ x % (b * n) = b * p + m
  <2> DEFINE S == b * n
             r == b * p + m
  <2>1. S \in Nat \ {0} /\ r \in 0..(S - 1) /\ x = S * o + r
    BY JoinOffset
  <2> HIDE DEF S, r
  <2>2. x \div S = o /\ x % S = r
    BY <2>1, UniqueDivision
  <2> QED BY <2>2 DEF S, r
<1>2. x % b = m
  <2> DEFINE k == o * n + p
  <2>1. k \in Nat /\ x = b * k + m
    BY JoinOffset
  <2> HIDE DEF k
  <2> QED BY <2>1, UniqueDivision
<1>3. (b * p + m) \div b = p
  BY UniqueDivision
<1> QED BY <1>1, <1>2, <1>3

LEMMA SplitOffset ==
  ASSUME NEW b \in Nat \ {0}, NEW n \in Nat \ {0}, NEW x \in Nat
  PROVE  \E o \in Nat, p \in 0..(n - 1), m \in 0..(b - 1) : x = (o * n + p) * b + m
<1> DEFINE k == x \div b
           o == k \div n
<1>1. k \in Nat /\ x % b \in 0..(b - 1) /\ x = b * k + (x % b)
  BY Division
<1>2. o \in Nat /\ k % n \in 0..(n - 1) /\ k = n * o + (k % n)
  BY <1>1, Division
<1> HIDE DEF k, o
<1>3. n * o = o * n /\ o * n \in Nat
  BY <1>2, SMT
<1>4. b * k = k * b
  BY <1>1, SMT
<1>5. x = (o * n + (k % n)) * b + (x % b)
  BY <1>1, <1>2, <1>3, <1>4
<1> QED BY <1>1, <1>2, <1>5

(* Of L indices, part p of n has those whose place is below its number of entries. *)
EntriesOf(L, b, n, p) ==
  LET partial == L % (b * n)
      blocks  == partial \div b
  IN (L \div (b * n)) * b
     + (IF blocks > p THEN b ELSE IF blocks = p THEN partial - p * b ELSE 0)

LEMMA EntryBound ==
  ASSUME NEW b \in Nat \ {0}, NEW n \in Nat \ {0}, NEW L \in Nat,
         NEW o \in Nat, NEW p \in 0..(n - 1), NEW m \in 0..(b - 1),
         NEW x, x = (o * n + p) * b + m
  PROVE  x < L <=> o * b + m < EntriesOf(L, b, n, p)
<1> DEFINE S == b * n
           r == b * p + m
           Q == L \div S
           R == L % S
           B == R \div b
           M == R % b
           e == IF B > p THEN b ELSE IF B = p THEN R - p * b ELSE 0
<1>1. S \in Nat \ {0} /\ r \in 0..(S - 1) /\ x = S * o + r /\ p \in Nat
  BY JoinOffset
<1>2. EntriesOf(L, b, n, p) = b * Q + e
  <2>1. EntriesOf(L, b, n, p) = Q * b + e
    BY DEF EntriesOf
  <2>2. Q \in Nat
    BY <1>1, Division DEF Q
  <2>3. Q * b = b * Q
    BY <2>2, SMT
  <2> QED BY <2>1, <2>3
<1> HIDE DEF S
<1>3. Q \in Nat /\ R \in 0..(S - 1) /\ L = S * Q + R
  BY <1>1, Division
<1>4. B \in Nat /\ M \in 0..(b - 1) /\ R = b * B + M
  <2>1. R \in Nat
    BY <1>1, <1>3
  <2> HIDE DEF R
  <2> QED BY <2>1, Division
<1> HIDE DEF Q, R, B, M
<1>5. b * p \in Nat /\ b * B \in Nat /\ S * o \in Nat /\ S * Q \in Nat
      /\ b * o \in Nat /\ b * Q \in Nat
  BY <1>1, <1>3, <1>4, Product
<1>6. p * b = b * p /\ o * b = b * o
  BY <1>1, SMT
<1>7. e \in 0..b
  <2>1. CASE B > p
    BY <1>1, <1>4, <2>1
  <2>2. CASE B = p
    BY <1>1, <1>4, <1>5, <1>6, <2>2
  <2>3. CASE B < p
    BY <1>1, <1>4, <2>3
  <2> QED BY <1>1, <1>4, <2>1, <2>2, <2>3
<1>8. CASE o < Q
  <2>1. S * o + S <= S * Q /\ b * o + b <= b * Q
    BY <1>1, <1>3, <1>8, Monotonic
  <2>2. x < L
    BY <1>1, <1>3, <1>5, <2>1
  <2>3. b * o + m < b * Q + e
    <3> HIDE DEF e
    <3> QED BY <1>5, <1>7, <2>1
  <2> QED BY <1>2, <1>6, <2>2, <2>3
<1>9. CASE Q < o
  <2>1. S * Q + S <= S * o /\ b * Q + b <= b * o
    BY <1>1, <1>3, <1>9, Monotonic
  <2>2. ~(x < L)
    BY <1>1, <1>3, <1>5, <2>1
  <2>3. ~(b * o + m < b * Q + e)
    <3> HIDE DEF e
    <3> QED BY <1>5, <1>7, <2>1
  <2> QED BY <1>2, <1>6, <2>2, <2>3
<1>10. CASE Q = o
  <2>1. x < L <=> r < R
    <3> HIDE DEF r
    <3> QED BY <1>1, <1>3, <1>5, <1>10
  <2>2. o * b + m < EntriesOf(L, b, n, p) <=> m < e
    <3> HIDE DEF e
    <3> QED BY <1>2, <1>5, <1>6, <1>7, <1>10
  <2>3. r < R <=> m < e
    <3>1. CASE p < B
      <4>1. b * p + b <= b * B
        BY <1>1, <1>4, <3>1, Monotonic
      <4> QED BY <1>4, <1>5, <3>1, <4>1
    <3>2. CASE p = B
      BY <1>4, <1>5, <1>6, <3>2
    <3>3. CASE B < p
      <4>1. b * B + b <= b * p
        BY <1>1, <1>4, <3>3, Monotonic
      <4>2. e = 0
        BY <1>1, <1>4, <3>3
      <4> QED BY <1>4, <1>5, <4>1, <4>2
    <3> QED BY <1>1, <1>4, <3>1, <3>2, <3>3
  <2> QED BY <2>1, <2>2, <2>3
<1> QED BY <1>3, <1>8, <1>9, <1>10

LEMMA EntriesType ==
  ASSUME NEW b \in Nat \ {0}, NEW n \in Nat \ {0}, NEW L \in Nat, NEW p \in 0..(n - 1)
  PROVE  EntriesOf(L, b, n, p) \in Int
<1> DEFINE S == b * n
           R == L % S
<1>1. S \in Nat \ {0}
  <2>1. 0 = (0 * n + 0) * b + 0 /\ 0 \in 0..(n - 1) /\ 0 \in 0..(b - 1)
    OBVIOUS
  <2> QED BY <2>1, JoinOffset
<1> HIDE DEF S
<1>2. L \div S \in Nat /\ R \in Nat
  BY <1>1, Division
<1> HIDE DEF R
<1>3. (L \div S) * b \in Nat /\ p * b \in Nat
  BY <1>2, Product
<1>4. R \div b \in Nat
  BY <1>2, Division
<1> QED BY <1>2, <1>3, <1>4 DEF EntriesOf, S, R

BlockOf(f) == IF f.kind = "stride" THEN 1 ELSE f.arg

LEMMA StridesType ==
  ASSUME NEW f \in Functions, NEW d \in Dimensions, doesReorderIndices(f)
  PROVE  BlockOf(f) \in Nat \ {0} /\ getPartsCount(f, d) \in Nat \ {0}
<1> DEFINE L == getLength(d)
           k == L \div f.arg
<1>1. L \in Nat \ {0} /\ f.arg \in Nat \ {0} /\ f.ppus \in Nat \ {0}
  BY Length, FunctionType
<1> HIDE DEF L
<1>2. k \in Nat
  BY <1>1, Division
<1> HIDE DEF k
<1>3. CASE f.kind = "stride"
  BY <1>1, <1>3 DEF BlockOf, getPartsCount, Larger, Smaller, L
<1>4. CASE f.kind = "block_stride"
  <2>1. getPartsCount(f, d) = Larger(1, Smaller(k, f.ppus))
    BY <1>4 DEF getPartsCount, k, L
  <2> QED BY <1>1, <1>2, <1>4, <2>1 DEF BlockOf, Larger, Smaller
<1> QED BY <1>3, <1>4 DEF doesReorderIndices

(* Both kinds of strides in terms of the block. *)
LEMMA StrideTerms ==
  ASSUME NEW f \in Functions, NEW d \in Dimensions, doesReorderIndices(f),
         NEW b, b = BlockOf(f), NEW n, n = getPartsCount(f, d)
  PROVE  /\ \A x \in Indices(d) :
              /\ PartNo(f, d, x) = ((x - d.min) % (b * n)) \div b
              /\ XformedIndex(f, d, x) = ((x - d.min) \div (b * n)) * b + ((x - d.min) % b)
         /\ \A id \in 0..(n - 1) :
              /\ getPartDimension(f, d, id) = Dimension(0, EntriesOf(getLength(d), b, n, id) - 1)
              /\ \A i \in Nat :
                   OriginalInParent(f, d, id, i) =
                     d.min + (((i \div b) * n + id) * b + (i % b))
<1>1. b \in Nat \ {0} /\ n \in Nat \ {0} /\ d.min \in Int
  BY StridesType, Length
<1>2. \A id \in 0..(n - 1) :
        getPartDimension(f, d, id) = Dimension(0, EntriesOf(getLength(d), b, n, id) - 1)
  <2>1. f.kind # "replicate"
    BY DEF doesReorderIndices
  <2> QED BY <2>1 DEF getPartDimension, Entries, EntriesOf, BlockOf
<1>3. CASE f.kind = "stride"
  <2>1. b = 1 /\ 1 * n = n
    BY <1>1, <1>3 DEF BlockOf
  <2>2. ASSUME NEW x \in Indices(d)
        PROVE  /\ PartNo(f, d, x) = ((x - d.min) % n) \div 1
               /\ XformedIndex(f, d, x) = ((x - d.min) \div n) * 1 + ((x - d.min) % 1)
    <3> DEFINE o == x - d.min
    <3>1. o \in Nat
      BY Length
    <3> HIDE DEF o
    <3>2. o % n \in Nat /\ o \div n \in Nat
      <4>1. o % n \in 0..(n - 1) /\ o \div n \in Nat
        BY <1>1, <3>1, Division
      <4> QED BY <1>1, <4>1
    <3>3. (o % n) \div 1 = o % n /\ o % 1 = 0 /\ (o \div n) * 1 + 0 = o \div n
      BY <3>1, <3>2, DivideByOne
    <3> QED BY <1>3, <3>3 DEF PartNo, XformedIndex, o
  <2>3. ASSUME NEW id \in 0..(n - 1), NEW i \in Nat
        PROVE  OriginalInParent(f, d, id, i) = d.min + (((i \div 1) * n + id) * 1 + (i % 1))
    <3>1. OriginalInParent(f, d, id, i) = d.min + id + i * n
      BY <1>3 DEF OriginalInParent
    <3>2. i * n \in Nat /\ id \in Nat
      BY <1>1, Product
    <3>3. i \div 1 = i /\ i % 1 = 0
      BY DivideByOne
    <3> QED BY <1>1, <3>1, <3>2, <3>3
  <2> QED BY <1>2, <2>1, <2>2, <2>3
<1>4. CASE f.kind = "block_stride"
  <2>1. b = f.arg
    BY <1>4 DEF BlockOf
  <2>2. ASSUME NEW x \in Indices(d)
        PROVE  /\ PartNo(f, d, x) = ((x - d.min) % (b * n)) \div b
               /\ XformedIndex(f, d, x) = ((x - d.min) \div (b * n)) * b + ((x - d.min) % b)
    BY <1>4, <2>1 DEF PartNo, XformedIndex
  <2>3. ASSUME NEW id \in 0..(n - 1), NEW i \in Nat
        PROVE  OriginalInParent(f, d, id, i) = d.min + (((i \div b) * n + id) * b + (i % b))
    <3>1. OriginalInParent(f, d, id, i) = d.min + ((i \div b) * n + id) * b + (i % b)
      BY <1>4, <2>1 DEF OriginalInParent
    <3>2. i \div b \in Nat /\ i % b \in 0..(b - 1) /\ id \in Nat
      <4>1. i \div b \in Nat /\ i % b \in 0..(b - 1)
        BY <1>1, Division
      <4> QED BY <1>1, <4>1
    <3>3. (i \div b) * n \in Nat
      BY <1>1, <3>2, Product
    <3>4. ((i \div b) * n + id) * b \in Nat
      <4>1. (i \div b) * n + id \in Nat
        BY <3>2, <3>3
      <4> QED BY <1>1, <4>1, Product
    <3> QED BY <1>1, <3>1, <3>2, <3>4
  <2> QED BY <1>2, <2>2, <2>3
<1> QED BY <1>3, <1>4 DEF doesReorderIndices

\* The parts of a stride function share the indices of the dimension, and the two
\* implementations agree: what transformIndex finds for an index, part and index in
\* the part, is in the allocated part, and getOriginalIndex leads back from there.
\* (StrideInstr and BlockStrideInstr against StrideConfig and BlockStrideConfig.)
THEOREM StridesDivide ==
  ASSUME NEW f \in Functions, NEW d \in Dimensions, doesReorderIndices(f), NEW x \in Indices(d)
  PROVE  LET id == PartNo(f, d, x)
             i  == XformedIndex(f, d, x)
         IN /\ id \in 0..(getPartsCount(f, d) - 1)
            /\ i \in Indices(getPartDimension(f, d, id))
            /\ OriginalInParent(f, d, id, i) = x
<1> DEFINE b == BlockOf(f)
           n == getPartsCount(f, d)
           t == x - d.min
           L == getLength(d)
<1>1. b \in Nat \ {0} /\ n \in Nat \ {0}
  BY StridesType
<1>2. t \in Nat /\ t < L /\ L \in Nat /\ d.min \in Int /\ x \in Int /\ x = d.min + t
  BY Length
<1>3. /\ PartNo(f, d, x) = (t % (b * n)) \div b
      /\ XformedIndex(f, d, x) = (t \div (b * n)) * b + (t % b)
  BY StrideTerms
<1>4. \A id \in 0..(n - 1) :
        /\ getPartDimension(f, d, id) = Dimension(0, EntriesOf(L, b, n, id) - 1)
        /\ \A i \in Nat : OriginalInParent(f, d, id, i) = d.min + (((i \div b) * n + id) * b + (i % b))
  BY StrideTerms
<1> HIDE DEF b, n, t, L
<1>5. PICK o \in Nat, p \in 0..(n - 1), m \in 0..(b - 1) : t = (o * n + p) * b + m
  BY <1>1, <1>2, SplitOffset
<1>6. PartNo(f, d, x) = p /\ XformedIndex(f, d, x) = o * b + m
  <2>1. t \div (b * n) = o /\ (t % (b * n)) \div b = p /\ t % b = m
    BY <1>1, <1>5, PlaceOf
  <2> QED BY <1>3, <2>1
<1>7. o * b + m < EntriesOf(L, b, n, p)
  BY <1>1, <1>2, <1>5, EntryBound
<1>8. EntriesOf(L, b, n, p) \in Int
  BY <1>1, <1>2, EntriesType
<1>9. o * b + m \in Nat /\ (o * b + m) \div b = o /\ (o * b + m) % b = m
  <2>1. o * b = b * o /\ b * o \in Nat
    BY <1>1, SMT
  <2> DEFINE i == o * b + m
  <2>2. i \in Nat /\ i = b * o + m
    BY <1>1, <2>1
  <2> HIDE DEF i
  <2>3. i \div b = o /\ i % b = m
    BY <1>1, <2>2, UniqueDivision
  <2> QED BY <2>2, <2>3 DEF i
<1>10. o * b + m \in Indices(getPartDimension(f, d, p))
  <2>1. getPartDimension(f, d, p) = Dimension(0, EntriesOf(L, b, n, p) - 1)
    BY <1>4
  <2> QED BY <1>7, <1>8, <1>9, <2>1 DEF Dimension, Indices
<1>11. OriginalInParent(f, d, p, o * b + m) = x
  BY <1>2, <1>4, <1>5, <1>9
<1> QED BY <1>6, <1>10, <1>11 DEF n

\* And the other way round: every index of every allocated part stands for an index of
\* the dimension, for which transformIndex finds this part and this index.
THEOREM StridesFill ==
  ASSUME NEW f \in Functions, NEW d \in Dimensions, doesReorderIndices(f),
         NEW id \in 0..(getPartsCount(f, d) - 1), NEW i \in Indices(getPartDimension(f, d, id))
  PROVE  LET x == OriginalInParent(f, d, id, i)
         IN /\ x \in Indices(d)
            /\ PartNo(f, d, x) = id
            /\ XformedIndex(f, d, x) = i
<1> DEFINE b == BlockOf(f)
           n == getPartsCount(f, d)
           L == getLength(d)
           x == OriginalInParent(f, d, id, i)
           o == i \div b
           m == i % b
           t == (o * n + id) * b + m
<1>1. b \in Nat \ {0} /\ n \in Nat \ {0}
  BY StridesType
<1>2. L \in Nat /\ d.min \in Int /\ d.max \in Int /\ L = (d.max - d.min) + 1
  BY Length
<1>3. EntriesOf(L, b, n, id) \in Int
  BY <1>1, <1>2, EntriesType
<1>4. i \in Nat /\ i < EntriesOf(L, b, n, id)
  <2>1. getPartDimension(f, d, id) = Dimension(0, EntriesOf(L, b, n, id) - 1)
    BY StrideTerms
  <2> QED BY <1>3, <2>1 DEF Dimension, Indices
<1>5. x = d.min + t
  BY <1>4, StrideTerms
<1> HIDE DEF b, n, L
<1>6. o \in Nat /\ m \in 0..(b - 1) /\ i = b * o + m
  BY <1>1, <1>4, Division
<1> HIDE DEF o, m
<1>7. b * o = o * b /\ i = o * b + m
  <2>1. b * o = o * b
    BY <1>1, <1>6, SMT
  <2> QED BY <1>6, <2>1
<1>8. id \in 0..(n - 1)
  BY DEF n
<1>9. /\ t \in Nat
      /\ t \div (b * n) = o /\ (t % (b * n)) \div b = id /\ t % b = m
  <2>1. t = (o * n + id) * b + m /\ o \in Nat /\ m \in 0..(b - 1)
    BY <1>6
  <2> HIDE DEF t
  <2>2. t \in Nat
    BY <1>1, <1>8, <2>1, JoinOffset
  <2>3. t \div (b * n) = o /\ (t % (b * n)) \div b = id /\ t % b = m
    <3>1. PICK p \in 0..(n - 1), u \in Nat, v \in 0..(b - 1) : p = id /\ u = o /\ v = m
      BY <1>8, <2>1
    <3>2. t = (u * n + p) * b + v
      BY <2>1, <3>1
    <3>3. t \div (b * n) = u /\ (t % (b * n)) \div b = p /\ t % b = v
      BY <1>1, <3>2, PlaceOf
    <3> QED BY <3>1, <3>3
  <2> QED BY <2>2, <2>3
<1>10. t < L
  BY <1>1, <1>2, <1>4, <1>6, <1>7, <1>8, EntryBound
<1> HIDE DEF t, x
<1>11. x \in Indices(d) /\ x - d.min = t
  BY <1>2, <1>5, <1>9, <1>10 DEF Indices
<1>12. /\ PartNo(f, d, x) = (t % (b * n)) \div b
       /\ XformedIndex(f, d, x) = (t \div (b * n)) * b + (t % b)
  BY <1>11, StrideTerms DEF b, n
<1>13. PartNo(f, d, x) = id /\ XformedIndex(f, d, x) = i
  BY <1>7, <1>9, <1>12
<1> QED BY <1>11, <1>13 DEF x

-----------------------------------------------------------------------------
(* Sequences *)

Pos == Nat \ {0}

LEMMA PositiveProduct ==
  ASSUME NEW a \in Pos, NEW b \in Pos
  PROVE  a * b \in Pos
  BY DEF Pos

LEMMA InvalidIndex == INVALID_INDEX \in Int /\ INVALID_INDEX < 0
  BY SMT DEF INVALID_INDEX

\* What getNumOfElements counts, a recursion over the dimensions.
IsProduct(p, md) ==
  /\ p \in [0..Len(md) -> Pos] /\ p[0] = 1
  /\ \A d \in 1..Len(md) : p[d] = p[d - 1] * getNumOfElements(md[d])

LEMMA IntervalSeqType ==
  ASSUME NEW s \in IntervalSeqs
  PROVE  /\ s.begin \in Int /\ s.length \in Pos /\ s.period \in Pos /\ s.count \in Pos
         /\ s.begin > INVALID_INDEX /\ s.period >= s.length
         /\ getNumOfElements(s) = s.length * s.count /\ getNumOfElements(s) \in Pos
<1>1. s.begin \in Int /\ s.length \in Pos /\ s.period \in Pos /\ s.count \in Pos
      /\ s.begin > INVALID_INDEX /\ s.period >= s.length
  BY DEF IntervalSeqs, Pos
<1>2. getNumOfElements(s) = s.length * s.count
  BY DEF getNumOfElements
<1> QED BY <1>1, <1>2, PositiveProduct

LEMMA ProductIs ==
  ASSUME NEW md \in Seq(IntervalSeqs) \ {<<>>}
  PROVE  \E p : IsProduct(p, md) /\ MdNumOfElements(md) = p[Len(md)]
<1> DEFINE Eqn(t) == t = [d \in 0..Len(md) |->
                            IF d = 0 THEN 1 ELSE t[d - 1] * getNumOfElements(md[d])]
           t == CHOOSE x : Eqn(x)
           n == Len(md)
<1>1. n \in Nat /\ \A d \in 1..n : md[d] \in IntervalSeqs
  OBVIOUS
<1>2. \A d \in 1..n : getNumOfElements(md[d]) \in Pos
  BY <1>1, IntervalSeqType
<1> HIDE DEF n
<1>3. PICK G \in [1..n -> [Pos -> Pos]] :
        \A d \in 1..n, v \in Pos : G[d][v] = v * getNumOfElements(md[d])
  <2> DEFINE G == [d \in 1..n |-> [v \in Pos |-> v * getNumOfElements(md[d])]]
  <2>1. \A d \in 1..n, v \in Pos : v * getNumOfElements(md[d]) \in Pos
    BY <1>2, PositiveProduct
  <2>2. G \in [1..n -> [Pos -> Pos]]
    BY <2>1
  <2>3. \A d \in 1..n, v \in Pos : G[d][v] = v * getNumOfElements(md[d])
    OBVIOUS
  <2> HIDE DEF G
  <2> QED BY <2>2, <2>3
<1>4. PICK f \in [0..n -> Pos] : IsRecursion(f, n, 1, G)
  <2>1. 1 \in Pos
    BY DEF Pos
  <2> QED BY ONLY <1>1, <1>3, <2>1, RecursionExists
<1>5. ASSUME NEW d \in 1..n
      PROVE  f[d] = f[d - 1] * getNumOfElements(md[d])
  <2>1. d - 1 \in 0..n
    BY <1>1
  <2>2. f[d - 1] \in Pos
    BY ONLY <1>4, <2>1
  <2> QED BY ONLY <1>3, <1>4, <2>2, d \in 1..n DEF IsRecursion
<1>6. f[0] = 1
  BY <1>4 DEF IsRecursion
<1>7. Eqn(f)
  BY <1>1, <1>4, <1>5, <1>6 DEF n
<1>8. Eqn(t)
  <2> HIDE DEF Eqn
  <2> QED BY <1>7
<1>9. MdNumOfElements(md) = t[n]
  BY DEF MdNumOfElements, n
<1>10. t = [d \in 0..n |-> IF d = 0 THEN 1 ELSE t[d - 1] * getNumOfElements(md[d])]
  BY <1>8 DEF n
<1>11. t[n] = f[n]
  <2> HIDE DEF t
  <2>1. t[0] = f[0]
    BY <1>1, <1>6, <1>10
  <2>2. ASSUME NEW d \in 1..n, t[d - 1] = f[d - 1]
        PROVE  t[d] = f[d]
    <3>1. d \in 0..n /\ d # 0
      BY <1>1
    <3>2. t[d] = t[d - 1] * getNumOfElements(md[d])
      BY ONLY <3>1, <1>10
    <3> QED BY <1>5, <2>2, <3>2
  <2>3. AgreeStepwise(t, f, n)
    BY <2>1, <2>2 DEF AgreeStepwise
  <2>4. Agree(t, f, n)
    BY ONLY <1>1, <2>3, AgreeUpTo
  <2> QED BY <1>1, <2>4 DEF Agree
<1>12. IsProduct(f, md)
  BY <1>1, <1>4, <1>5, <1>6 DEF IsProduct, n
<1> HIDE DEF Eqn, t
<1> QED BY <1>9, <1>11, <1>12 DEF n

\* What Rank counts, a recursion over the dimensions as well.
IsRank(r, md, states) ==
  /\ r \in [0..Len(md) -> Int] /\ r[0] = 0
  /\ \A d \in 1..Len(md) :
       r[d] = r[d - 1] * getNumOfElements(md[d]) + Offset(md[d], states[d])

LEMMA OffsetType ==
  ASSUME NEW s \in IntervalSeqs, NEW state \in States
  PROVE  Offset(s, state) \in Int
<1>1. s.length \in Int
  BY IntervalSeqType DEF Pos
<1>2. state.iteration \in Int /\ state.position \in Int
  BY DEF States
<1> QED BY <1>1, <1>2 DEF Offset

LEMMA RankIs ==
  ASSUME NEW md \in Seq(IntervalSeqs) \ {<<>>}, NEW states \in [1..Len(md) -> States]
  PROVE  \E r : IsRank(r, md, states) /\ Rank(md, states) = r[Len(md)]
<1> DEFINE Eqn(t) == t = [d \in 0..Len(md) |->
                            IF d = 0 THEN 0
                            ELSE t[d - 1] * getNumOfElements(md[d]) + Offset(md[d], states[d])]
           t == CHOOSE x : Eqn(x)
           n == Len(md)
<1>1. n \in Nat /\ \A d \in 1..n : md[d] \in IntervalSeqs /\ states[d] \in States
  OBVIOUS
<1>2. \A d \in 1..n : getNumOfElements(md[d]) \in Int /\ Offset(md[d], states[d]) \in Int
  BY <1>1, IntervalSeqType, OffsetType DEF Pos
<1> HIDE DEF n
<1>3. PICK G \in [1..n -> [Int -> Int]] :
        \A d \in 1..n, v \in Int :
          G[d][v] = v * getNumOfElements(md[d]) + Offset(md[d], states[d])
  <2> DEFINE G == [d \in 1..n |-> [v \in Int |->
                     v * getNumOfElements(md[d]) + Offset(md[d], states[d])]]
  <2>1. \A d \in 1..n, v \in Int :
          v * getNumOfElements(md[d]) + Offset(md[d], states[d]) \in Int
    BY <1>2
  <2>2. G \in [1..n -> [Int -> Int]]
    BY <2>1
  <2>3. \A d \in 1..n, v \in Int :
          G[d][v] = v * getNumOfElements(md[d]) + Offset(md[d], states[d])
    OBVIOUS
  <2> HIDE DEF G
  <2> QED BY <2>2, <2>3
<1>4. PICK f \in [0..n -> Int] : IsRecursion(f, n, 0, G)
  <2>1. 0 \in Int
    OBVIOUS
  <2> QED BY ONLY <1>1, <1>3, <2>1, RecursionExists
<1>5. ASSUME NEW d \in 1..n
      PROVE  f[d] = f[d - 1] * getNumOfElements(md[d]) + Offset(md[d], states[d])
  <2>1. d - 1 \in 0..n
    BY <1>1
  <2>2. f[d - 1] \in Int
    BY ONLY <1>4, <2>1
  <2> QED BY ONLY <1>3, <1>4, <2>2, d \in 1..n DEF IsRecursion
<1>6. f[0] = 0
  BY <1>4 DEF IsRecursion
<1>7. Eqn(f)
  BY <1>1, <1>4, <1>5, <1>6 DEF n
<1>8. Eqn(t)
  <2> HIDE DEF Eqn
  <2> QED BY <1>7
<1>9. Rank(md, states) = t[n]
  BY DEF Rank, n
<1>10. t = [d \in 0..n |-> IF d = 0 THEN 0
              ELSE t[d - 1] * getNumOfElements(md[d]) + Offset(md[d], states[d])]
  BY <1>8 DEF n
<1>11. t[n] = f[n]
  <2> HIDE DEF t
  <2>1. t[0] = f[0]
    BY <1>1, <1>6, <1>10
  <2>2. ASSUME NEW d \in 1..n, t[d - 1] = f[d - 1]
        PROVE  t[d] = f[d]
    <3>1. d \in 0..n /\ d # 0
      BY <1>1
    <3>2. t[d] = t[d - 1] * getNumOfElements(md[d]) + Offset(md[d], states[d])
      BY ONLY <3>1, <1>10
    <3> QED BY <1>5, <2>2, <3>2
  <2>3. AgreeStepwise(t, f, n)
    BY <2>1, <2>2 DEF AgreeStepwise
  <2>4. Agree(t, f, n)
    BY ONLY <1>1, <2>3, AgreeUpTo
  <2> QED BY <1>1, <2>4 DEF Agree
<1>12. IsRank(f, md, states)
  BY <1>1, <1>4, <1>5, <1>6 DEF IsRank, n
<1> HIDE DEF Eqn, t
<1> QED BY <1>9, <1>11, <1>12 DEF n

\* And the sizes of the sequences add up.
IsTotal(total) ==
  /\ total \in [0..Len(sequences) -> Nat] /\ total[0] = 0
  /\ \A i \in 1..Len(sequences) : total[i] = total[i - 1] + MdNumOfElements(sequences[i])

LEMMA NumOfElementsPositive ==
  ASSUME NEW md \in Seq(IntervalSeqs) \ {<<>>}
  PROVE  MdNumOfElements(md) \in Pos
<1>1. PICK p : IsProduct(p, md) /\ MdNumOfElements(md) = p[Len(md)]
  BY ProductIs
<1>2. Len(md) \in 0..Len(md)
  OBVIOUS
<1> QED BY <1>1, <1>2 DEF IsProduct

LEMMA TotalIs ==
  ASSUME sequences \in DataDescriptions
  PROVE  \E total : IsTotal(total) /\ \A k \in 0..Len(sequences) : ElementsUpTo(k) = total[k]
<1> DEFINE Eqn(t) == t = [i \in 0..Len(sequences) |->
                            IF i = 0 THEN 0 ELSE t[i - 1] + MdNumOfElements(sequences[i])]
           t == CHOOSE x : Eqn(x)
           n == Len(sequences)
<1>1. n \in Nat /\ \A i \in 1..n : sequences[i] \in Seq(IntervalSeqs) \ {<<>>}
  BY DEF DataDescriptions
<1>2. \A i \in 1..n : MdNumOfElements(sequences[i]) \in Nat
  BY <1>1, NumOfElementsPositive DEF Pos
<1> HIDE DEF n
<1>3. PICK G \in [1..n -> [Nat -> Nat]] :
        \A i \in 1..n, v \in Nat : G[i][v] = v + MdNumOfElements(sequences[i])
  <2> DEFINE G == [i \in 1..n |-> [v \in Nat |-> v + MdNumOfElements(sequences[i])]]
  <2>1. \A i \in 1..n, v \in Nat : v + MdNumOfElements(sequences[i]) \in Nat
    BY <1>2
  <2>2. G \in [1..n -> [Nat -> Nat]]
    BY <2>1
  <2>3. \A i \in 1..n, v \in Nat : G[i][v] = v + MdNumOfElements(sequences[i])
    OBVIOUS
  <2> HIDE DEF G
  <2> QED BY <2>2, <2>3
<1>4. PICK f \in [0..n -> Nat] : IsRecursion(f, n, 0, G)
  <2>1. 0 \in Nat
    OBVIOUS
  <2> QED BY ONLY <1>1, <1>3, <2>1, RecursionExists
<1>5. ASSUME NEW i \in 1..n
      PROVE  f[i] = f[i - 1] + MdNumOfElements(sequences[i])
  <2>1. i - 1 \in 0..n
    BY <1>1
  <2>2. f[i - 1] \in Nat
    BY ONLY <1>4, <2>1
  <2> QED BY ONLY <1>3, <1>4, <2>2, i \in 1..n DEF IsRecursion
<1>6. f[0] = 0
  BY <1>4 DEF IsRecursion
<1>7. Eqn(f)
  BY <1>1, <1>4, <1>5, <1>6 DEF n
<1>8. Eqn(t)
  <2> HIDE DEF Eqn
  <2> QED BY <1>7
<1>9. \A k : ElementsUpTo(k) = t[k]
  BY DEF ElementsUpTo
<1>10. t = [i \in 0..n |-> IF i = 0 THEN 0 ELSE t[i - 1] + MdNumOfElements(sequences[i])]
  BY <1>8 DEF n
<1>11. \A k \in 0..n : t[k] = f[k]
  <2> HIDE DEF t
  <2>1. t[0] = f[0]
    BY <1>1, <1>6, <1>10
  <2>2. ASSUME NEW i \in 1..n, t[i - 1] = f[i - 1]
        PROVE  t[i] = f[i]
    <3>1. i \in 0..n /\ i # 0
      BY <1>1
    <3>2. t[i] = t[i - 1] + MdNumOfElements(sequences[i])
      BY ONLY <3>1, <1>10
    <3> QED BY <1>5, <2>2, <3>2
  <2>3. AgreeStepwise(t, f, n)
    BY <2>1, <2>2 DEF AgreeStepwise
  <2>4. Agree(t, f, n)
    BY ONLY <1>1, <2>3, AgreeUpTo
  <2> QED BY <2>4 DEF Agree
<1>12. IsTotal(f)
  BY <1>1, <1>4, <1>5, <1>6 DEF IsTotal, n
<1> HIDE DEF Eqn, t
<1> QED BY <1>9, <1>11, <1>12 DEF n

-----------------------------------------------------------------------------
(* Intersections *)

LEMMA OfTwo ==
  ASSUME NEW a \in Int, NEW b \in Int
  PROVE  /\ Min({a, b}) = (IF a <= b THEN a ELSE b)
         /\ Max({a, b}) = (IF a >= b THEN a ELSE b)
<1>1. Min({a, b}) = (IF a <= b THEN a ELSE b)
  BY DEF Min
<1>2. Max({a, b}) = (IF a >= b THEN a ELSE b)
  BY DEF Max
<1> QED BY <1>1, <1>2

\* The maximum of a set of numbers up to n.
LEMMA MaxOf ==
  ASSUME NEW n \in Nat, NEW S \in SUBSET (0..n), S # {}
  PROVE  Max(S) \in S /\ \A y \in S : y <= Max(S)
<1> DEFINE U == {k \in Nat : (\A y \in S : y <= k) => \E x \in S : \A y \in S : y <= x}
<1>1. 0 \in U
  <2> SUFFICES ASSUME \A y \in S : y <= 0 PROVE \E x \in S : \A y \in S : y <= x
    OBVIOUS
  <2>1. PICK x \in S : TRUE
    OBVIOUS
  <2>2. x = 0
    OBVIOUS
  <2> QED BY <2>2
<1>2. ASSUME NEW k \in Nat, k \in U
      PROVE  k + 1 \in U
  <2> SUFFICES ASSUME \A y \in S : y <= k + 1 PROVE \E x \in S : \A y \in S : y <= x
    OBVIOUS
  <2>1. CASE k + 1 \in S
    BY <2>1
  <2>2. CASE k + 1 \notin S
    BY <1>2, <2>2
  <2> QED BY <2>1, <2>2
<1>3. n \in U
  <2> HIDE DEF U
  <2> QED BY <1>1, <1>2, Induction
<1>4. \E x \in S : \A y \in S : x >= y
  BY <1>3
<1> QED BY <1>4 DEF Max

\* The least of a set of positive numbers up to n.
LEMMA MinOf ==
  ASSUME NEW n \in Nat, NEW S \in SUBSET (1..n), S # {}
  PROVE  Min(S) \in S /\ \A y \in S : Min(S) <= y
<1>1. PICK R : R = {n - y : y \in S}
  OBVIOUS
<1>2. R \in SUBSET (0..n) /\ R # {}
  <2>1. \A y \in S : n - y \in 0..n
    OBVIOUS
  <2>2. R \subseteq 0..n
    BY <1>1, <2>1
  <2>3. PICK y : y \in S
    OBVIOUS
  <2>4. n - y \in R
    BY <1>1, <2>3
  <2> QED BY <2>2, <2>4
<1>3. PICK m : m = Max(R)
  OBVIOUS
<1>4. m \in R /\ \A z \in R : z <= m
  BY <1>2, <1>3, MaxOf
<1>5. PICK x \in S : m = n - x
  BY <1>1, <1>4
<1>6. \A y \in S : n - y \in R
  BY <1>1
<1>7. \A y \in S : x <= y
  BY <1>4, <1>5, <1>6
<1>8. \E z \in S : \A y \in S : z <= y
  BY <1>7
<1> QED BY <1>8 DEF Min

LEMMA DivisionOfNegative ==
  ASSUME NEW x \in Int, NEW p \in Nat \ {0}, -p <= x, x < 0
  PROVE  x \div p = -1
  BY SMT

\* Where the intervals of a sequence begin.
IsBeginning(B, s) ==
  /\ B \in [Int -> Int]
  /\ B[0] = s.begin
  /\ \A k \in Int : B[k] = s.begin + s.period * k
  /\ \A j, k \in Int : j < k => B[j] + s.period <= B[k]

LEMMA BeginningIs ==
  ASSUME NEW s \in IntervalSeqs
  PROVE  \E B : IsBeginning(B, s)
<1>1. PICK b \in Int, p \in Nat \ {0} : b = s.begin /\ p = s.period
  BY IntervalSeqType DEF Pos
<1>2. PICK B : B = [k \in Int |-> b + p * k]
  OBVIOUS
<1>3. B \in [Int -> Int] /\ B[0] = b /\ \A k \in Int : B[k] = b + p * k
  BY <1>2
<1>4. ASSUME NEW j \in Int, NEW k \in Int, j < k
      PROVE  B[j] + p <= B[k]
  <2>1. PICK n \in Nat : k = j + 1 + n
    <3>1. k - j - 1 \in Nat /\ k = j + 1 + (k - j - 1)
      BY <1>4
    <3> QED BY <3>1
  <2>2. p * k = p * j + p + p * n
    BY <2>1, SMT
  <2>3. p * n \in Nat
    BY Product
  <2>4. PICK pj \in Int, pn \in Nat : pj = p * j /\ pn = p * n
    BY <2>3
  <2>5. B[j] = b + pj /\ B[k] = b + (pj + p + pn)
    BY <1>3, <2>2, <2>4
  <2> QED BY <2>4, <2>5
<1> QED BY <1>1, <1>3, <1>4 DEF IsBeginning

LEMMA ElementsByBeginning ==
  ASSUME NEW s \in IntervalSeqs, NEW B, IsBeginning(B, s)
  PROVE  /\ Elements(s) \subseteq Int
         /\ \A x \in Int : x \in Elements(s) <=>
              \E k \in 0..(s.count - 1) : B[k] <= x /\ x < B[k] + s.length
<1>1. s.begin \in Int /\ s.length \in Pos /\ s.period \in Pos /\ s.count \in Pos
  BY IntervalSeqType
<1>2. Elements(s) \subseteq Int
  BY <1>1 DEF Elements, Pos
<1>3. ASSUME NEW x \in Int, x \in Elements(s)
      PROVE  \E k \in 0..(s.count - 1) : B[k] <= x /\ x < B[k] + s.length
  <2>1. PICK k \in 0..(s.count - 1), j \in 0..(s.length - 1) : x = s.begin + s.period * k + j
    BY <1>3 DEF Elements
  <2>2. k \in Int /\ B[k] = s.begin + s.period * k /\ B[k] \in Int
    BY <1>1, <2>1 DEF IsBeginning, Pos
  <2> QED BY <1>1, <2>1, <2>2 DEF Pos
<1>4. ASSUME NEW x \in Int, NEW k \in 0..(s.count - 1), B[k] <= x, x < B[k] + s.length
      PROVE  x \in Elements(s)
  <2>1. k \in Int /\ B[k] = s.begin + s.period * k /\ B[k] \in Int
    BY <1>1, <1>4 DEF IsBeginning, Pos
  <2>2. x - B[k] \in 0..(s.length - 1) /\ x = B[k] + (x - B[k])
    BY <1>1, <1>4, <2>1 DEF Pos
  <2> QED BY <2>1, <2>2 DEF Elements
<1> QED BY <1>2, <1>3, <1>4

\* The first interval to look at is the first one that does not end before begin.
LEMMA FirstIntervalIs ==
  ASSUME NEW s \in IntervalSeqs, NEW B, IsBeginning(B, s), NEW begin \in Int
  PROVE  LET i == FirstInterval(s, begin)
         IN /\ i \in Nat /\ begin < B[i] + s.length
            /\ \A k \in Nat : k < i => B[k] + s.length <= begin
<1>1. s.begin \in Int /\ s.length \in Nat \ {0} /\ s.period \in Nat \ {0} /\ s.period >= s.length
  BY IntervalSeqType DEF Pos
<1>2. B \in [Int -> Int] /\ B[0] = s.begin /\ (\A k \in Int : B[k] = s.begin + s.period * k)
      /\ \A j, k \in Int : j < k => B[j] + s.period <= B[k]
  BY DEF IsBeginning
<1>3. PICK q : q = IF begin >= s.begin + s.length THEN (begin - s.begin) \div s.period ELSE 0
  OBVIOUS
<1>4. CASE ~(begin >= s.begin + s.length)
  <2>1. FirstInterval(s, begin) = IF begin >= s.begin + 0 * s.period + s.length THEN 0 + 1 ELSE 0
    BY <1>4 DEF FirstInterval
  <2>2. 0 * s.period = 0
    BY <1>1
  <2>3. FirstInterval(s, begin) = 0
    BY <1>1, <1>4, <2>1, <2>2
  <2> QED BY <1>1, <1>2, <1>4, <2>3
<1>5. CASE begin >= s.begin + s.length
  <2>1. begin - s.begin \in Nat
    BY <1>1, <1>5
  <2>2. PICK r : r = (begin - s.begin) % s.period
    OBVIOUS
  <2>3. q \in Nat /\ r \in 0..(s.period - 1) /\ begin - s.begin = s.period * q + r
    BY <1>1, <1>3, <1>5, <2>1, <2>2, Division
  <2>4. B[q] = s.begin + s.period * q /\ q * s.period = s.period * q /\ s.period * q \in Nat
    <3>1. B[q] = s.begin + s.period * q
      BY <1>2, <2>3
    <3>2. s.period * q \in Nat
      BY <1>1, <2>3, Product
    <3>3. q * s.period = s.period * q
      BY <1>1, <2>3
    <3> QED BY <3>1, <3>2, <3>3
  <2>5. B[q] <= begin /\ begin < B[q] + s.period /\ B[q] \in Int
    <3>1. PICK pq \in Nat : pq = s.period * q
      BY <2>4
    <3>2. B[q] = s.begin + pq /\ begin - s.begin = pq + r
      BY <2>3, <2>4, <3>1
    <3> QED BY <1>1, <2>3, <3>1, <3>2
  <2>6. FirstInterval(s, begin) = IF begin >= B[q] + s.length THEN q + 1 ELSE q
    BY <1>3, <2>4 DEF FirstInterval
  <2>7. ASSUME NEW k \in Nat, k < q
        PROVE  B[k] + s.length <= begin
    <3>1. B[k] + s.period <= B[q] /\ B[k] \in Int
      BY <1>2, <2>3, <2>7
    <3> QED BY <1>1, <2>5, <3>1
  <2>8. CASE begin >= B[q] + s.length
    <3>1. B[q] + s.period <= B[q + 1]
      BY <1>2, <2>3
    <3>2. \A k \in Nat : k < q + 1 => B[k] + s.length <= begin
      BY <2>3, <2>7, <2>8
    <3>3. B[q + 1] \in Int
      BY <1>2, <2>3
    <3>4. begin < B[q + 1] + s.length
      BY <1>1, <2>5, <3>1, <3>3
    <3> QED BY <2>3, <2>6, <2>8, <3>2, <3>4
  <2>9. CASE ~(begin >= B[q] + s.length)
    BY <1>1, <2>3, <2>5, <2>6, <2>7, <2>9
  <2> QED BY <2>8, <2>9
<1> QED BY <1>4, <1>5

\* The beginnings B of intervals of length L, p apart; the first of them that reaches into b1..e1,
\* the last one that begins before the end of it, and the last one that ends before that.
Beginnings(B, p, L) ==
  /\ B \in [Int -> Int] /\ p \in Nat \ {0} /\ L \in Nat \ {0} /\ L <= p
  /\ \A j, k \in Int : j < k => B[j] + p <= B[k]

Meets(B, L, C, b1, e1, first, last, full) ==
  /\ first \in Nat /\ last \in Nat /\ full \in Int
  /\ first < C /\ b1 < B[first] + L
  /\ \A k \in Nat : k < first => B[k] + L <= b1
  /\ B[last] <= e1 /\ e1 < B[last + 1]
  /\ B[full] + L - 1 <= e1 /\ e1 < B[full + 1] + L - 1

\* The three parts of the intersection: of the first interval, of whole ones, of the last one.
FrontPart(B, L, C, b1, e1, first, x) ==
  B[first] < b1 /\ b1 <= x /\ x < B[first] + L /\ x <= e1
WholePart(B, L, C, b1, first, full, x) ==
  \E k \in Int : /\ k >= IF B[first] >= b1 THEN first ELSE first + 1
                 /\ k <= full /\ k <= C - 1
                 /\ B[k] <= x /\ x < B[k] + L
RearPart(B, L, C, b1, e1, last, x) ==
  last < C /\ b1 <= B[last] /\ B[last] + L - 1 > e1 /\ B[last] <= x /\ x <= e1

LEMMA PartsCover ==
  ASSUME NEW B, NEW p, NEW L, Beginnings(B, p, L),
         NEW C \in Nat \ {0}, NEW b1 \in Int, NEW e1 \in Int, NEW first, NEW last, NEW full,
         Meets(B, L, C, b1, e1, first, last, full), NEW x \in Int
  PROVE  (/\ b1 <= x /\ x <= e1
          /\ \E k \in 0..(C - 1) : B[k] <= x /\ x < B[k] + L)
         <=> \/ FrontPart(B, L, C, b1, e1, first, x)
             \/ WholePart(B, L, C, b1, first, full, x)
             \/ RearPart(B, L, C, b1, e1, last, x)
<1> USE DEF Beginnings, Meets
<1>0. /\ p \in Int /\ L \in Int /\ L > 0 /\ L <= p /\ first \in Int /\ last \in Int /\ full \in Int
      /\ B[first] \in Int /\ B[last] \in Int /\ B[full] \in Int
      /\ b1 < B[first] + L /\ B[full] + L - 1 <= e1
  OBVIOUS
<1>1. ASSUME b1 <= x, x <= e1, NEW k \in 0..(C - 1), B[k] <= x, x < B[k] + L
      PROVE  \/ FrontPart(B, L, C, b1, e1, first, x)
             \/ WholePart(B, L, C, b1, first, full, x)
             \/ RearPart(B, L, C, b1, e1, last, x)
  <2>1. k \in Int /\ B[k] \in Int /\ B[first] \in Int /\ B[last] \in Int
    BY <1>1
  <2>2. k >= first
    BY <1>1, <2>1
  <2>3. k <= last
    <3>1. last + 1 \in Int /\ B[last + 1] \in Int
      OBVIOUS
    <3>2. k > last + 1 => B[last + 1] + p <= B[k]
      BY <2>1, <3>1
    <3>3. B[k] < B[last + 1]
      BY <1>1, <2>1, <3>1
    <3> QED BY <2>1, <3>1, <3>2, <3>3
  <2>4. CASE B[k] < b1
    <3>1. k = first
      <4>1. first < k => B[first] + p <= B[k]
        BY <2>1
      <4> QED BY <2>1, <2>2, <2>4, <4>1
    <3> QED BY <1>1, <2>1, <2>4, <3>1 DEF FrontPart
  <2>5. CASE B[k] >= b1 /\ k <= full
    <3>1. k >= IF B[first] >= b1 THEN first ELSE first + 1
      <4>1. CASE k = first
        BY <2>1, <2>5, <4>1
      <4>2. CASE k # first
        BY ONLY <1>0, <2>1, <2>2, <4>2
      <4> QED BY <4>1, <4>2
    <3> QED BY <1>1, <2>1, <2>5, <3>1 DEF WholePart
  <2>6. CASE B[k] >= b1 /\ k > full
    <3>1. B[k] + L - 1 > e1
      <4>1. full + 1 \in Int /\ B[full + 1] \in Int
        OBVIOUS
      <4>2. full + 1 < k => B[full + 1] + p <= B[k]
        BY <2>1, <4>1
      <4>3. e1 < B[full + 1] + L - 1
        OBVIOUS
      <4>4. B[full + 1] <= B[k]
        <5>1. CASE k = full + 1
          BY ONLY <2>1, <4>1, <5>1
        <5>2. CASE full + 1 < k
          BY ONLY <1>0, <2>1, <4>1, <4>2, <5>2
        <5> QED BY ONLY <1>0, <2>1, <2>6, <5>1, <5>2
      <4> QED BY ONLY <1>0, <2>1, <4>1, <4>3, <4>4, e1 \in Int
    <3>2. k = last
      <4>1. k < last => B[k] + p <= B[last]
        BY <2>1
      <4> QED BY <2>1, <2>3, <3>1, <4>1
    <3> QED BY <1>1, <2>1, <2>6, <3>1, <3>2 DEF RearPart
  <2> QED BY <2>1, <2>4, <2>5, <2>6
<1>2. ASSUME FrontPart(B, L, C, b1, e1, first, x)
      PROVE  b1 <= x /\ x <= e1 /\ \E k \in 0..(C - 1) : B[k] <= x /\ x < B[k] + L
  <2>1. first \in 0..(C - 1) /\ B[first] \in Int
    OBVIOUS
  <2> QED BY <1>2, <2>1 DEF FrontPart
<1>3. ASSUME WholePart(B, L, C, b1, first, full, x)
      PROVE  b1 <= x /\ x <= e1 /\ \E k \in 0..(C - 1) : B[k] <= x /\ x < B[k] + L
  <2>1. PICK k \in Int : /\ k >= IF B[first] >= b1 THEN first ELSE first + 1
                         /\ k <= full /\ k <= C - 1
                         /\ B[k] <= x /\ x < B[k] + L
    BY <1>3 DEF WholePart
  <2>2. B[k] \in Int /\ B[first] \in Int /\ B[full] \in Int /\ k >= first /\ k \in 0..(C - 1)
    BY <2>1
  <2>3. b1 <= B[k]
    <3>1. first < k => B[first] + p <= B[k]
      BY <2>1
    <3>2. CASE B[first] >= b1
      <4>1. B[first] <= B[k]
        BY ONLY <1>0, <2>1, <2>2, <3>1
      <4> QED BY ONLY <1>0, <2>2, <3>2, <4>1, b1 \in Int
    <3>3. CASE ~(B[first] >= b1)
      <4>1. first < k
        BY <2>1, <3>3
      <4> QED BY ONLY <1>0, <2>2, <3>1, <4>1, b1 \in Int
    <3> QED BY <3>2, <3>3
  <2>4. B[k] + L - 1 <= e1
    <3>1. k < full => B[k] + p <= B[full]
      BY <2>1
    <3>2. B[k] <= B[full]
      BY ONLY <1>0, <2>1, <2>2, <3>1
    <3> QED BY ONLY <1>0, <2>2, <3>2, e1 \in Int
  <2> QED BY <2>1, <2>2, <2>3, <2>4
<1>4. ASSUME RearPart(B, L, C, b1, e1, last, x)
      PROVE  b1 <= x /\ x <= e1 /\ \E k \in 0..(C - 1) : B[k] <= x /\ x < B[k] + L
  <2>1. last \in 0..(C - 1) /\ B[last] \in Int
    BY <1>4 DEF RearPart
  <2>2. x < B[last] + L
    BY <1>4, <2>1 DEF RearPart
  <2> QED BY <1>4, <2>1, <2>2 DEF RearPart
<1> QED BY <1>1, <1>2, <1>3, <1>4

LEMMA PartsDisjoint ==
  ASSUME NEW B, NEW p, NEW L, Beginnings(B, p, L),
         NEW C \in Nat \ {0}, NEW b1 \in Int, NEW e1 \in Int, NEW first, NEW last, NEW full,
         Meets(B, L, C, b1, e1, first, last, full), NEW x \in Int
  PROVE  /\ ~(FrontPart(B, L, C, b1, e1, first, x) /\ WholePart(B, L, C, b1, first, full, x))
         /\ ~(FrontPart(B, L, C, b1, e1, first, x) /\ RearPart(B, L, C, b1, e1, last, x))
         /\ ~(WholePart(B, L, C, b1, first, full, x) /\ RearPart(B, L, C, b1, e1, last, x))
<1> USE DEF Beginnings, Meets
<1>0. /\ p \in Int /\ L \in Int /\ L > 0 /\ L <= p /\ first \in Int /\ last \in Int /\ full \in Int
      /\ B[first] \in Int /\ B[last] \in Int /\ B[full] \in Int
      /\ b1 < B[first] + L /\ B[full] + L - 1 <= e1
  OBVIOUS
<1>1. ASSUME FrontPart(B, L, C, b1, e1, first, x), WholePart(B, L, C, b1, first, full, x)
      PROVE  FALSE
  <2>1. PICK k \in Int : k >= first + 1 /\ B[k] <= x
    BY <1>1 DEF FrontPart, WholePart
  <2>2. B[first] + p <= B[k] /\ B[first] \in Int /\ B[k] \in Int
    BY <2>1
  <2>3. x < B[first] + L
    BY <1>1 DEF FrontPart
  <2> QED BY ONLY <1>0, <2>1, <2>2, <2>3, x \in Int
<1>2. ASSUME FrontPart(B, L, C, b1, e1, first, x), RearPart(B, L, C, b1, e1, last, x)
      PROVE  FALSE
  <2>1. B[first] \in Int /\ B[last] \in Int
    OBVIOUS
  <2>2. first < last => B[first] + p <= B[last]
    OBVIOUS
  <2>3. last < first => B[last] + p <= B[first]
    OBVIOUS
  <2>4. B[first] < b1 /\ x < B[first] + L /\ b1 <= B[last] /\ B[last] <= x
    BY <1>2 DEF FrontPart, RearPart
  <2>5. first # last
    BY ONLY <2>1, <2>4, b1 \in Int
  <2>6. CASE first < last
    BY ONLY <1>0, <2>1, <2>2, <2>4, <2>6, x \in Int
  <2>7. CASE last < first
    BY ONLY <1>0, <2>1, <2>3, <2>4, <2>7, b1 \in Int
  <2> QED BY ONLY <1>0, <2>5, <2>6, <2>7
<1>3. ASSUME WholePart(B, L, C, b1, first, full, x), RearPart(B, L, C, b1, e1, last, x)
      PROVE  FALSE
  <2>1. PICK k \in Int : k <= full /\ B[k] <= x /\ x < B[k] + L
    BY <1>3 DEF WholePart
  <2>2. B[k] \in Int /\ B[full] \in Int /\ B[last] \in Int
    BY <2>1
  <2>3. B[k] + L - 1 <= e1
    <3>1. k < full => B[k] + p <= B[full]
      BY <2>1
    <3>2. B[k] <= B[full]
      BY ONLY <1>0, <2>1, <2>2, <3>1
    <3> QED BY ONLY <1>0, <2>2, <3>2, e1 \in Int
  <2>4. k < last => B[k] + p <= B[last]
    BY <2>1
  <2>5. k > last => B[last] + p <= B[k]
    BY <2>1
  <2>6. k # last
    BY <1>3, <2>2, <2>3 DEF RearPart
  <2>7. CASE k < last
    BY <1>3, <2>1, <2>2, <2>4, <2>7 DEF RearPart
  <2>8. CASE k > last
    <3>1. last + 1 \in Int /\ B[last + 1] \in Int
      OBVIOUS
    <3>2. last + 1 < k => B[last + 1] + p <= B[k]
      BY <2>1, <3>1
    <3>3. B[last + 1] <= B[k]
      BY <2>2, <2>8, <3>1, <3>2
    <3> QED BY <1>3, <2>1, <2>2, <3>1, <3>3 DEF RearPart
  <2> QED BY <2>6, <2>7, <2>8
<1> QED BY <1>1, <1>2, <1>3

\* The items of a list divide a set into what el says they describe.
Divides(list, el, E) ==
  /\ list \in Seq(DOMAIN el)
  /\ \A i, j \in 1..Len(list) : i # j => el[list[i]] \cap el[list[j]] = {}
  /\ \A x : x \in E <=> \E i \in 1..Len(list) : x \in el[list[i]]

LEMMA NothingDivides ==
  ASSUME NEW el
  PROVE  Divides(<<>>, el, {})
  BY DEF Divides

LEMMA OneDivides ==
  ASSUME NEW el, NEW s \in DOMAIN el
  PROVE  Divides(<<s>>, el, el[s])
<1>1. <<s>> \in Seq(DOMAIN el) /\ Len(<<s>>) = 1 /\ <<s>>[1] = s
  OBVIOUS
<1> QED BY <1>1 DEF Divides

LEMMA JoinedDivide ==
  ASSUME NEW el, NEW a, NEW b, NEW E, NEW F, Divides(a, el, E), Divides(b, el, F), E \cap F = {}
  PROVE  Divides(a \o b, el, E \cup F)
<1>1. PICK m \in Nat, n \in Nat : m = Len(a) /\ n = Len(b)
  BY DEF Divides
<1>2. PICK c : c = a \o b
  OBVIOUS
<1>3. a \in Seq(DOMAIN el) /\ b \in Seq(DOMAIN el)
  BY DEF Divides
<1>4. /\ c \in Seq(DOMAIN el) /\ Len(c) = m + n
      /\ \A i \in 1..m : c[i] = a[i]
      /\ \A i \in 1..n : c[m + i] = b[i]
  <2>1. c \in Seq(DOMAIN el) /\ Len(c) = m + n
    BY <1>1, <1>2, <1>3
  <2>2. \A i \in 1..m : c[i] = a[i]
    BY <1>1, <1>2, <1>3
  <2>3. \A i \in 1..n : c[m + i] = b[i]
    BY <1>1, <1>2, <1>3
  <2> QED BY <2>1, <2>2, <2>3
<1>5. ASSUME NEW i \in 1..(m + n)
      PROVE  \/ i \in 1..m /\ c[i] = a[i] /\ el[c[i]] \subseteq E
             \/ i - m \in 1..n /\ c[i] = b[i - m] /\ el[c[i]] \subseteq F
  <2>1. CASE i <= m
    <3>1. i \in 1..m /\ c[i] = a[i]
      BY <1>4, <2>1
    <3> QED BY <1>1, <3>1 DEF Divides
  <2>2. CASE i > m
    <3>1. i - m \in 1..n /\ m + (i - m) = i
      BY <2>2
    <3>2. c[i] = b[i - m]
      BY <1>4, <3>1
    <3> QED BY <1>1, <3>1, <3>2 DEF Divides
  <2> QED BY <2>1, <2>2
<1>6. ASSUME NEW i \in 1..(m + n), NEW j \in 1..(m + n), i # j
      PROVE  el[c[i]] \cap el[c[j]] = {}
  <2>1. CASE i \in 1..m /\ j \in 1..m
    BY <1>1, <1>4, <1>6, <2>1 DEF Divides
  <2>2. CASE i \notin 1..m /\ j \notin 1..m
    <3>1. i - m \in 1..n /\ j - m \in 1..n /\ c[i] = b[i - m] /\ c[j] = b[j - m]
      BY <1>5, <2>2
    <3>2. i - m # j - m
      BY <1>6
    <3> QED BY <1>1, <3>1, <3>2 DEF Divides
  <2>3. CASE (i \in 1..m /\ j \notin 1..m) \/ (i \notin 1..m /\ j \in 1..m)
    <3>1. (el[c[i]] \subseteq E /\ el[c[j]] \subseteq F) \/ (el[c[i]] \subseteq F /\ el[c[j]] \subseteq E)
      BY <1>4, <1>5, <2>3
    <3> QED BY <3>1
  <2> QED BY <2>1, <2>2, <2>3
<1>7. ASSUME NEW x
      PROVE  x \in E \cup F <=> \E i \in 1..(m + n) : x \in el[c[i]]
  <2>1. ASSUME x \in E
        PROVE  \E i \in 1..(m + n) : x \in el[c[i]]
    <3>1. PICK i \in 1..m : x \in el[a[i]]
      BY <1>1, <2>1 DEF Divides
    <3>2. i \in 1..(m + n) /\ c[i] = a[i]
      BY <1>4
    <3> QED BY <3>1, <3>2
  <2>2. ASSUME x \in F
        PROVE  \E i \in 1..(m + n) : x \in el[c[i]]
    <3>1. PICK i \in 1..n : x \in el[b[i]]
      BY <1>1, <2>2 DEF Divides
    <3>2. m + i \in 1..(m + n) /\ c[m + i] = b[i]
      BY <1>4
    <3> QED BY <3>1, <3>2
  <2>3. ASSUME NEW i \in 1..(m + n), x \in el[c[i]]
        PROVE  x \in E \cup F
    BY <1>5, <2>3
  <2> QED BY <2>1, <2>2, <2>3
<1>8. Divides(c, el, E \cup F)
  BY <1>4, <1>6, <1>7 DEF Divides
<1> QED BY <1>2, <1>8

IntervalElements == [s \in IntervalSeqs |-> Elements(s)]

LEMMA OptionalDivides ==
  ASSUME NEW condition \in BOOLEAN, NEW s, condition => s \in IntervalSeqs
  PROVE  Divides(Optional(condition, s), IntervalElements, IF condition THEN Elements(s) ELSE {})
<1>1. CASE condition
  <2>1. Optional(condition, s) = <<s>>
    BY <1>1 DEF Optional
  <2>2. s \in DOMAIN IntervalElements /\ IntervalElements[s] = Elements(s)
    BY <1>1 DEF IntervalElements
  <2>3. Divides(<<s>>, IntervalElements, IntervalElements[s])
    BY <2>2, OneDivides
  <2> QED BY <1>1, <2>1, <2>2, <2>3
<1>2. CASE ~condition
  <2>1. Optional(condition, s) = <<>>
    BY <1>2 DEF Optional
  <2> QED BY <1>2, <2>1, NothingDivides
<1> QED BY <1>1, <1>2

LEMMA EndingIs ==
  ASSUME NEW s \in IntervalSeqs, NEW B, IsBeginning(B, s)
  PROVE  Ending(s) \in Int /\ Ending(s) = B[s.count - 1] + s.length - 1
<1>1. PICK b \in Int, p \in Int, l \in Int, c \in Int :
        b = s.begin /\ p = s.period /\ l = s.length /\ c = s.count
  BY IntervalSeqType DEF Pos
<1>2. B[c - 1] = b + p * (c - 1)
  <2>1. \A k \in Int : B[k] = b + p * k
    BY <1>1 DEF IsBeginning
  <2>2. c - 1 \in Int
    OBVIOUS
  <2> QED BY ONLY <2>1, <2>2
<1>3. p * (c - 1) \in Int
  BY <1>1
<1> QED BY <1>1, <1>2, <1>3 DEF Ending

LEMMA OneInterval ==
  ASSUME NEW s \in IntervalSeqs, s.count = 1
  PROVE  /\ Ending(s) = s.begin + s.length - 1
         /\ \A x \in Int : x \in Elements(s) <=> s.begin <= x /\ x <= Ending(s)
<1>1. PICK B : IsBeginning(B, s)
  BY BeginningIs
<1>2. s.begin \in Int /\ s.length \in Int
  BY IntervalSeqType DEF Pos
<1>3. B[0] = s.begin /\ 0 \in 0..(s.count - 1) /\ \A k \in 0..(s.count - 1) : k = 0
  BY <1>1 DEF IsBeginning
<1>4. Ending(s) = s.begin + s.length - 1
  BY <1>1, <1>3, EndingIs
<1>5. ASSUME NEW x \in Int
      PROVE  x \in Elements(s) <=> s.begin <= x /\ x <= Ending(s)
  <2>1. x \in Elements(s) <=> B[0] <= x /\ x < B[0] + s.length
    BY <1>1, <1>3, ElementsByBeginning
  <2> QED BY <1>2, <1>3, <1>4, <2>1
<1> QED BY <1>4, <1>5

LEMMA BlockSeq ==
  ASSUME NEW begin \in Int, begin > INVALID_INDEX, NEW length \in Pos
  PROVE  /\ IntervalSeq(begin, length, length, 1) \in IntervalSeqs
         /\ Elements(IntervalSeq(begin, length, length, 1)) = begin..(begin + length - 1)
<1>1. PICK s : s = IntervalSeq(begin, length, length, 1)
  OBVIOUS
<1>2. s \in IntervalSeqs /\ s.count = 1 /\ s.begin = begin /\ s.length = length
  BY <1>1 DEF IntervalSeq, IntervalSeqs, Pos
<1>3. Elements(s) \subseteq Int
  BY <1>2, BeginningIs, ElementsByBeginning
<1>4. \A x \in Int : x \in Elements(s) <=> begin <= x /\ x <= begin + length - 1
  BY <1>2, OneInterval
<1>5. Elements(s) = begin..(begin + length - 1)
  <2>1. begin + length - 1 \in Int
    BY DEF Pos
  <2>2. \A x : x \in begin..(begin + length - 1) <=> x \in Int /\ begin <= x /\ x <= begin + length - 1
    BY <2>1
  <2> QED BY <1>3, <1>4, <2>2
<1> QED BY <1>1, <1>2, <1>5

\* Whole intervals of a sequence, from number first to number last.
LEMMA WholeSeq ==
  ASSUME NEW s \in IntervalSeqs, NEW B, IsBeginning(B, s), NEW first \in Nat, NEW last \in Int, first <= last
  PROVE  LET t == IntervalSeq(s.begin + first * s.period, s.length, s.period, (last - first) + 1)
         IN /\ t \in IntervalSeqs
            /\ \A x \in Int : x \in Elements(t) <=>
                 \E k \in first..last : B[k] <= x /\ x < B[k] + s.length
<1>1. PICK b \in Int, p \in Pos, l \in Pos :
        b = s.begin /\ p = s.period /\ l = s.length /\ p >= l /\ b > INVALID_INDEX
  BY IntervalSeqType
<1>2. PICK t : t = IntervalSeq(s.begin + first * s.period, s.length, s.period, (last - first) + 1)
  OBVIOUS
<1>3. PICK fp \in Nat : fp = p * first /\ fp = first * p
  <2>1. p * first \in Nat /\ p * first = first * p
    BY Product DEF Pos
  <2> QED BY <2>1
<1>4. /\ t.begin = b + fp /\ t.length = l /\ t.period = p /\ t.count = (last - first) + 1
      /\ t \in IntervalSeqs
  <2>1. t = [begin |-> b + fp, length |-> l, period |-> p, count |-> (last - first) + 1]
    BY <1>1, <1>2, <1>3 DEF IntervalSeq
  <2>2. b + fp \in Int /\ b + fp > INVALID_INDEX /\ (last - first) + 1 \in Nat \ {0}
    BY <1>1, <1>3, InvalidIndex
  <2> QED BY <1>1, <2>1, <2>2 DEF IntervalSeqs, Pos
<1>5. PICK T : IsBeginning(T, t)
  BY <1>4, BeginningIs
<1>6. \A k \in Int : T[k] = B[first + k]
  <2> TAKE k \in Int
  <2>1. T[k] = (b + fp) + p * k
    BY <1>4, <1>5 DEF IsBeginning
  <2>2. B[first + k] = b + p * (first + k)
    BY <1>1 DEF IsBeginning
  <2>3. p * (first + k) = p * first + p * k
    BY DEF Pos
  <2>4. PICK pk \in Int : pk = p * k
    BY DEF Pos
  <2> QED BY <1>3, <2>1, <2>2, <2>3, <2>4
<1>7. ASSUME NEW x \in Int
      PROVE  x \in Elements(t) <=> \E k \in first..last : B[k] <= x /\ x < B[k] + l
  <2>1. x \in Elements(t) <=> \E k \in 0..(last - first) : B[first + k] <= x /\ x < B[first + k] + l
    <3>1. x \in Elements(t) <=> \E k \in 0..(t.count - 1) : T[k] <= x /\ x < T[k] + t.length
      BY <1>4, <1>5, ElementsByBeginning
    <3>2. t.count - 1 = last - first
      BY <1>4
    <3> QED BY <1>4, <1>6, <3>1, <3>2
  <2>2. ASSUME NEW k \in 0..(last - first), B[first + k] <= x, x < B[first + k] + l
        PROVE  \E j \in first..last : B[j] <= x /\ x < B[j] + l
    <3>1. first + k \in first..last
      OBVIOUS
    <3> QED BY <2>2, <3>1
  <2>3. ASSUME NEW j \in first..last, B[j] <= x, x < B[j] + l
        PROVE  \E k \in 0..(last - first) : B[first + k] <= x /\ x < B[first + k] + l
    <3>1. j - first \in 0..(last - first) /\ first + (j - first) = j
      OBVIOUS
    <3> QED BY <2>3, <3>1
  <2> QED BY <2>1, <2>2, <2>3
<1> QED BY <1>1, <1>2, <1>4, <1>7

\* The interval numbers that IntersectSingle computes are those of Meets.
LEMMA MeetsIs ==
  ASSUME NEW first \in IntervalSeqs, first.count = 1, NEW second \in IntervalSeqs,
         NEW B, IsBeginning(B, second),
         first.begin <= Ending(second), second.begin <= Ending(first)
  PROVE  Meets(B, second.length, second.count, first.begin, Ending(first),
               FirstInterval(second, first.begin),
               (Ending(first) - second.begin) \div second.period,
               (Ending(first) - (second.begin + second.length - 1)) \div second.period)
<1>1. PICK b1 \in Int, e1 \in Int : b1 = first.begin /\ e1 = Ending(first)
  <2>1. first.begin \in Int
    BY IntervalSeqType
  <2>2. Ending(first) \in Int
    BY BeginningIs, EndingIs
  <2> QED BY <2>1, <2>2
<1>2. PICK b \in Int, p \in Nat \ {0}, L \in Nat \ {0}, C \in Nat \ {0} :
        b = second.begin /\ p = second.period /\ L = second.length /\ C = second.count /\ p >= L
  BY IntervalSeqType DEF Pos
<1>3. /\ B \in [Int -> Int] /\ B[0] = b /\ (\A k \in Int : B[k] = b + p * k)
      /\ \A j, k \in Int : j < k => B[j] + p <= B[k]
  BY <1>2 DEF IsBeginning
<1>4. b1 <= B[C - 1] + L - 1 /\ b <= e1
  BY <1>1, <1>2, EndingIs
<1>5. PICK i : i = FirstInterval(second, first.begin)
  OBVIOUS
<1>6. i \in Nat /\ b1 < B[i] + L /\ \A k \in Nat : k < i => B[k] + L <= b1
  BY <1>1, <1>2, <1>5, FirstIntervalIs
<1>7. i < C
  <2> SUFFICES ASSUME C - 1 < i PROVE FALSE
    BY <1>2, <1>6
  <2>1. C - 1 \in Nat
    BY <1>2
  <2>2. B[C - 1] + L <= b1
    BY <1>6, <2>1
  <2>3. B[C - 1] \in Int
    BY <1>3, <2>1
  <2> QED BY ONLY <1>2, <1>4, <2>2, <2>3, b1 \in Int
<1>8. \A q \in Int : B[q + 1] = B[q] + p
  <2> TAKE q \in Int
  <2>1. B[q] = b + p * q /\ B[q + 1] = b + p * (q + 1)
    BY <1>3
  <2>2. p * (q + 1) = p * q + p
    BY ONLY p \in Nat \ {0}, q \in Int
  <2>3. PICK pq \in Int : pq = p * q
    BY <1>2
  <2> QED BY <1>2, <2>1, <2>2, <2>3
<1>9. PICK m : m = (e1 - b) \div p
  OBVIOUS
<1>10. m \in Nat /\ B[m] <= e1 /\ e1 < B[m + 1]
  <2>1. e1 - b \in Nat
    BY <1>4
  <2>2. PICK r : r = (e1 - b) % p
    OBVIOUS
  <2>3. m \in Nat /\ r \in 0..(p - 1) /\ e1 - b = p * m + r
    BY <1>9, <2>1, <2>2, Division
  <2>4. PICK pm \in Int : pm = p * m
    BY <2>3
  <2>5. B[m] = b + pm /\ B[m + 1] = (b + pm) + p
    <3>1. B[m] = b + p * m /\ B[m + 1] = B[m] + p
      BY ONLY <1>3, <1>8, <2>3, Nat \subseteq Int
    <3> QED BY ONLY <2>4, <3>1
  <2> QED BY ONLY <1>2, <2>3, <2>4, <2>5, e1 \in Int
<1>11. PICK f : f = (e1 - (b + L - 1)) \div p
  OBVIOUS
<1>12. f \in Int /\ B[f] + L - 1 <= e1 /\ e1 < B[f + 1] + L - 1
  <2>1. PICK y \in Int : y = e1 - (b + L - 1)
    OBVIOUS
  <2>2. CASE y >= 0
    <3>1. y \in Nat /\ f = y \div p
      BY <1>11, <2>1, <2>2
    <3>2. PICK r : r = y % p
      OBVIOUS
    <3>3. f \in Nat /\ r \in 0..(p - 1) /\ y = p * f + r
      BY <3>1, <3>2, Division
    <3>4. PICK pf \in Int : pf = p * f
      BY <3>3
    <3>5. B[f] = b + pf /\ B[f + 1] = (b + pf) + p
      <4>1. B[f] = b + p * f /\ B[f + 1] = B[f] + p
        BY ONLY <1>3, <1>8, <3>3, Nat \subseteq Int
      <4> QED BY ONLY <3>4, <4>1
    <3> QED BY ONLY <1>2, <2>1, <3>3, <3>4, <3>5, e1 \in Int
  <2>3. CASE y < 0
    <3>1. -p <= y
      BY ONLY <1>2, <1>4, <2>1, e1 \in Int
    <3>2. f = -1
      BY <1>11, <2>1, <2>3, <3>1, DivisionOfNegative
    <3>3. B[-1] + p = b
      <4>1. B[-1 + 1] = B[-1] + p
        BY <1>8
      <4> QED BY <1>3, <4>1
    <3>4. B[-1] \in Int /\ B[-1 + 1] = b
      BY <1>3
    <3> QED BY ONLY <1>2, <2>1, <2>3, <3>1, <3>2, <3>3, <3>4, e1 \in Int
  <2> QED BY <2>2, <2>3
<1> QED BY <1>1, <1>2, <1>5, <1>6, <1>7, <1>9, <1>10, <1>11, <1>12 DEF Meets

\* The three pieces of IntersectSingle describe the three parts.
IsFront(front, l, set, B, L, b1, e1, i) ==
  /\ l = Min({B[i] + L, e1 + 1}) - b1
  /\ front = (B[i] < b1 /\ B[i] + L > b1)
  /\ set = IF front THEN Elements(IntervalSeq(b1, l, l, 1)) ELSE {}
IsWhole(count, t, set, s, B, b1, i, f) ==
  \E start, end :
    /\ start = (IF B[i] >= b1 THEN i ELSE i + 1)
    /\ end = Min({f, s.count - 1})
    /\ count = Max({(end - start) + 1, 0})
    /\ t = IntervalSeq(s.begin + start * s.period, s.length, s.period, count)
    /\ set = IF count > 0 THEN Elements(t) ELSE {}
IsRear(rear, l, set, B, L, C, b1, e1, m) ==
  /\ rear = (m < C /\ B[m] \in b1..e1 /\ B[m] + L - 1 > e1)
  /\ l = (e1 - B[m]) + 1
  /\ set = IF rear THEN Elements(IntervalSeq(B[m], l, l, 1)) ELSE {}

LEMMA FrontPiece ==
  ASSUME NEW b1 \in Int, b1 > INVALID_INDEX, NEW e1 \in Int, b1 <= e1,
         NEW C, NEW B, NEW p, NEW L, Beginnings(B, p, L), NEW i \in Nat, b1 < B[i] + L,
         NEW front, NEW l, NEW set, IsFront(front, l, set, B, L, b1, e1, i)
  PROVE  /\ IntervalSeq(b1, l, l, 1) \in IntervalSeqs
         /\ \A x : x \in set <=> x \in Int /\ FrontPart(B, L, C, b1, e1, i, x)
<1>1. B[i] \in Int /\ L \in Int /\ B[i] + L \in Int
  BY DEF Beginnings
<1>2. l = IF B[i] + L <= e1 + 1 THEN (B[i] + L) - b1 ELSE (e1 + 1) - b1
  <2>1. Min({B[i] + L, e1 + 1}) = IF B[i] + L <= e1 + 1 THEN B[i] + L ELSE e1 + 1
    BY <1>1, OfTwo
  <2> QED BY <2>1 DEF IsFront
<1>3. l \in Pos
  <2>1. l \in Int
    BY <1>1, <1>2
  <2>2. l > 0
    BY ONLY <1>1, <1>2, b1 \in Int, e1 \in Int, b1 <= e1, b1 < B[i] + L
  <2> QED BY ONLY <2>1, <2>2 DEF Pos
<1>4. IntervalSeq(b1, l, l, 1) \in IntervalSeqs /\ Elements(IntervalSeq(b1, l, l, 1)) = b1..(b1 + l - 1)
  BY <1>3, BlockSeq
<1>5. b1 + l - 1 = IF B[i] + L <= e1 + 1 THEN B[i] + L - 1 ELSE e1
  BY ONLY <1>1, <1>2, b1 \in Int, e1 \in Int
<1>6. ASSUME NEW x
      PROVE  x \in set <=> x \in Int /\ FrontPart(B, L, C, b1, e1, i, x)
  <2>1. CASE B[i] < b1
    <3>1. x \in set <=> x \in Int /\ b1 <= x /\ x <= b1 + l - 1
      <4>1. b1 + l - 1 \in Int
        BY <1>1, <1>5
      <4>2. set = b1..(b1 + l - 1)
        <5>1. B[i] < b1 /\ B[i] + L > b1
          BY <1>1, <2>1
        <5> QED BY <1>4, <5>1 DEF IsFront
      <4> QED BY ONLY <4>1, <4>2, b1 \in Int
    <3>2. FrontPart(B, L, C, b1, e1, i, x) <=> b1 <= x /\ x < B[i] + L /\ x <= e1
      BY <2>1 DEF FrontPart
    <3>3. CASE x \in Int
      BY ONLY <1>1, <1>5, <3>1, <3>2, <3>3, b1 \in Int, e1 \in Int
    <3>4. CASE x \notin Int
      BY <3>1, <3>4
    <3> QED BY <3>3, <3>4
  <2>2. CASE ~(B[i] < b1)
    BY <2>2 DEF FrontPart, IsFront
  <2> QED BY <2>1, <2>2
<1> QED BY <1>4, <1>6

LEMMA RearPiece ==
  ASSUME NEW b1 \in Int, b1 > INVALID_INDEX, NEW e1 \in Int,
         NEW B, NEW p, NEW L, Beginnings(B, p, L), NEW m \in Nat, NEW C \in Nat,
         NEW rear, NEW l, NEW set, IsRear(rear, l, set, B, L, C, b1, e1, m)
  PROVE  /\ rear => IntervalSeq(B[m], l, l, 1) \in IntervalSeqs
         /\ \A x : x \in set <=> x \in Int /\ RearPart(B, L, C, b1, e1, m, x)
<1>1. B[m] \in Int /\ L \in Int
  BY DEF Beginnings
<1>0. l = (e1 - B[m]) + 1 /\ (rear <=> m < C /\ B[m] \in b1..e1 /\ B[m] + L - 1 > e1)
  BY DEF IsRear
<1>2. CASE rear
  <2>1. B[m] > INVALID_INDEX /\ l \in Pos /\ B[m] + l - 1 = e1
    <3>1. b1 <= B[m] /\ B[m] <= e1 /\ l = (e1 - B[m]) + 1
      BY ONLY <1>0, <1>1, <1>2, b1 \in Int, e1 \in Int
    <3>2. PICK invalid \in Int : invalid = INVALID_INDEX
      BY InvalidIndex
    <3>3. B[m] > invalid
      BY ONLY <1>1, <3>1, <3>2, b1 \in Int, b1 > INVALID_INDEX
    <3>4. l \in Pos /\ B[m] + l - 1 = e1
      BY ONLY <1>1, <3>1, e1 \in Int DEF Pos
    <3> QED BY <3>2, <3>3, <3>4
  <2>2. IntervalSeq(B[m], l, l, 1) \in IntervalSeqs /\ set = B[m]..e1
    <3>1. B[m]..(B[m] + l - 1) = B[m]..e1
      BY <2>1
    <3>2. set = Elements(IntervalSeq(B[m], l, l, 1))
      BY <1>2 DEF IsRear
    <3> QED BY <1>1, <2>1, <3>1, <3>2, BlockSeq
  <2>3. \A x : x \in set <=> x \in Int /\ B[m] <= x /\ x <= e1
    BY ONLY <1>1, <2>2, e1 \in Int
  <2>4. \A x : RearPart(B, L, C, b1, e1, m, x) <=> B[m] <= x /\ x <= e1
    BY ONLY <1>0, <1>1, <1>2, b1 \in Int, e1 \in Int DEF RearPart
  <2> QED BY <2>2, <2>3, <2>4
<1>3. CASE ~rear
  <2>1. set = {}
    BY <1>3 DEF IsRear
  <2>2. ASSUME NEW x \in Int
        PROVE  ~RearPart(B, L, C, b1, e1, m, x)
    BY ONLY <1>0, <1>1, <1>3, x \in Int, b1 \in Int, e1 \in Int DEF RearPart
  <2> QED BY <1>3, <2>1, <2>2
<1> QED BY <1>2, <1>3

LEMMA WholePiece ==
  ASSUME NEW s \in IntervalSeqs, NEW B, IsBeginning(B, s), NEW b1 \in Int,
         NEW i \in Nat, NEW f \in Int,
         NEW count, NEW t, NEW set, IsWhole(count, t, set, s, B, b1, i, f)
  PROVE  /\ count > 0 => t \in IntervalSeqs
         /\ \A x : x \in set <=> x \in Int /\ WholePart(B, s.length, s.count, b1, i, f, x)
<1>1. s.length \in Int /\ s.count \in Int
  BY IntervalSeqType DEF Pos
<1>0. PICK start, end :
        /\ start = (IF B[i] >= b1 THEN i ELSE i + 1)
        /\ end = Min({f, s.count - 1})
        /\ count = Max({(end - start) + 1, 0})
        /\ t = IntervalSeq(s.begin + start * s.period, s.length, s.period, count)
        /\ set = IF count > 0 THEN Elements(t) ELSE {}
  BY DEF IsWhole
<1>2. start \in Nat /\ end \in Int /\ end = IF f <= s.count - 1 THEN f ELSE s.count - 1
  <2>1. Min({f, s.count - 1}) = IF f <= s.count - 1 THEN f ELSE s.count - 1
    BY <1>1, OfTwo
  <2> QED BY <1>0, <1>1, <2>1
<1>3. count = IF (end - start) + 1 >= 0 THEN (end - start) + 1 ELSE 0
  <2>1. PICK size : size = (end - start) + 1
    OBVIOUS
  <2>2. size \in Int
    BY <1>2, <2>1
  <2>3. Max({size, 0}) = IF size >= 0 THEN size ELSE 0
    BY <2>2, OfTwo
  <2> QED BY <1>0, <2>1, <2>3
<1>4. \A x : WholePart(B, s.length, s.count, b1, i, f, x) <=>
               \E k \in Int : k >= start /\ k <= end /\ B[k] <= x /\ x < B[k] + s.length
  <2>1. PICK c \in Int : c = s.count
    BY <1>1
  <2>2. start = (IF B[i] >= b1 THEN i ELSE i + 1) /\ end = (IF f <= c - 1 THEN f ELSE c - 1)
    BY <1>0, <1>2, <2>1
  <2>3. \A k \in Int : (k <= f /\ k <= c - 1) <=> k <= end
    BY ONLY <2>2, f \in Int, c \in Int
  <2> QED BY <2>1, <2>2, <2>3 DEF WholePart
<1>5. CASE count > 0
  <2>1. start <= end /\ count = (end - start) + 1
    BY <1>2, <1>3, <1>5
  <2>2. /\ t \in IntervalSeqs
        /\ \A x \in Int : x \in Elements(t) <=>
             \E k \in start..end : B[k] <= x /\ x < B[k] + s.length
    BY <1>0, <1>2, <2>1, WholeSeq
  <2>3. Elements(t) \subseteq Int
    BY <2>2, BeginningIs, ElementsByBeginning
  <2>4. \A x \in Int : x \in set <=> WholePart(B, s.length, s.count, b1, i, f, x)
    <3>1. set = Elements(t)
      BY <1>0, <1>5
    <3> SUFFICES ASSUME NEW x \in Int
                 PROVE  x \in Elements(t) <=> WholePart(B, s.length, s.count, b1, i, f, x)
      BY <3>1
    <3>2. \A k : k \in start..end <=> k \in Int /\ k >= start /\ k <= end
      BY <1>2
    <3> QED BY ONLY <1>4, <2>2, <3>2, x \in Int
  <2>5. set = Elements(t)
    BY <1>0, <1>5
  <2> QED BY <1>5, <2>2, <2>3, <2>4, <2>5
<1>6. CASE ~(count > 0)
  <2>1. ~(start <= end)
    BY <1>2, <1>3, <1>6
  <2>2. \A k \in Int : ~(k >= start /\ k <= end)
    BY <1>2, <2>1
  <2>3. set = {}
    BY <1>0, <1>6
  <2> QED BY <1>4, <1>6, <2>2, <2>3
<1> QED BY <1>5, <1>6

LEMMA IntersectSingleDivides ==
  ASSUME NEW first \in IntervalSeqs, first.count = 1, NEW second \in IntervalSeqs,
         first.begin <= Ending(second), second.begin <= Ending(first),
         NEW i, i = FirstInterval(second, first.begin)
  PROVE  Divides(IntersectSingle(first, second, i), IntervalElements, Elements(first) \cap Elements(second))
<1>1. PICK B : IsBeginning(B, second)
  BY BeginningIs
<1>2. PICK b1 \in Int, e1 \in Int : b1 = first.begin /\ e1 = Ending(first)
  <2>1. first.begin \in Int /\ Ending(first) \in Int
    BY IntervalSeqType, BeginningIs, EndingIs
  <2> QED BY <2>1
<1>3. PICK b \in Int, p \in Nat \ {0}, L \in Nat \ {0}, C \in Nat \ {0} :
        b = second.begin /\ p = second.period /\ L = second.length /\ C = second.count /\ p >= L
  BY IntervalSeqType DEF Pos
<1>4. PICK m : m = (e1 - b) \div p
  OBVIOUS
<1>5. PICK f : f = (e1 - (b + L - 1)) \div p
  OBVIOUS
<1>6. Meets(B, L, C, b1, e1, i, m, f)
  BY <1>1, <1>2, <1>3, <1>4, <1>5, MeetsIs
<1>7. Beginnings(B, p, L)
  BY <1>1, <1>3 DEF IsBeginning, Beginnings
<1>8. i \in Nat /\ m \in Nat /\ f \in Int /\ b1 < B[i] + L
  BY <1>6 DEF Meets
<1>9. b1 > INVALID_INDEX /\ first.length \in Pos /\ e1 = b1 + first.length - 1 /\ b1 <= e1 /\ b1 + first.length = e1 + 1
  <2>1. b1 > INVALID_INDEX /\ first.length \in Pos /\ e1 = b1 + first.length - 1
    BY <1>2, IntervalSeqType, OneInterval
  <2> QED BY <2>1 DEF Pos
<1>10. B[i] = b + i * p /\ B[m] = b + m * p
  <2>1. \A k \in Int : B[k] = b + p * k
    BY <1>1, <1>3 DEF IsBeginning
  <2>2. p * i = i * p /\ p * m = m * p
    BY <1>8
  <2> QED BY <1>8, <2>1, <2>2
\* The three pieces.
<1>11. PICK l, front, F :
         /\ l = Min({B[i] + L, e1 + 1}) - b1
         /\ front = (B[i] < b1 /\ B[i] + L > b1)
         /\ F = IF front THEN Elements(IntervalSeq(b1, l, l, 1)) ELSE {}
  OBVIOUS
<1>12. PICK start, end, count, t, W :
         /\ start = (IF B[i] >= b1 THEN i ELSE i + 1)
         /\ end = Min({f, C - 1})
         /\ count = Max({(end - start) + 1, 0})
         /\ t = IntervalSeq(b + start * p, L, p, count)
         /\ W = IF count > 0 THEN Elements(t) ELSE {}
  OBVIOUS
<1>13. PICK rest, rear, R :
         /\ rest = (e1 - B[m]) + 1
         /\ rear = (m < C /\ B[m] \in b1..e1 /\ B[m] + L - 1 > e1)
         /\ R = IF rear THEN Elements(IntervalSeq(B[m], rest, rest, 1)) ELSE {}
  OBVIOUS
<1>14. PICK list : list = IntersectSingle(first, second, i)
  OBVIOUS
<1>15. list = Optional(front, IntervalSeq(b1, l, l, 1)) \o Optional(count > 0, t)
                \o Optional(rear, IntervalSeq(B[m], rest, rest, 1))
  BY <1>2, <1>3, <1>4, <1>5, <1>9, <1>10, <1>11, <1>12, <1>13, <1>14 DEF IntersectSingle
<1>16. /\ IntervalSeq(b1, l, l, 1) \in IntervalSeqs
       /\ \A x : x \in F <=> x \in Int /\ FrontPart(B, L, C, b1, e1, i, x)
  <2>1. IsFront(front, l, F, B, L, b1, e1, i)
    BY <1>11 DEF IsFront
  <2>2. i \in Nat /\ b1 < B[i] + L /\ b1 > INVALID_INDEX /\ b1 <= e1
    BY <1>8, <1>9
  <2> QED BY ONLY <1>7, <2>1, <2>2, b1 \in Int, e1 \in Int, FrontPiece
<1>17. /\ count > 0 => t \in IntervalSeqs
       /\ \A x : x \in W <=> x \in Int /\ WholePart(B, L, C, b1, i, f, x)
  <2>1. IsWhole(count, t, W, second, B, b1, i, f)
    BY <1>3, <1>12 DEF IsWhole
  <2> QED BY <1>1, <1>3, <1>8, <2>1, WholePiece
<1>18. /\ rear => IntervalSeq(B[m], rest, rest, 1) \in IntervalSeqs
       /\ \A x : x \in R <=> x \in Int /\ RearPart(B, L, C, b1, e1, m, x)
  <2>1. IsRear(rear, rest, R, B, L, C, b1, e1, m)
    BY <1>13 DEF IsRear
  <2> QED BY <1>3, <1>7, <1>8, <1>9, <2>1, RearPiece
<1>19. \A x \in Int : /\ ~(FrontPart(B, L, C, b1, e1, i, x) /\ WholePart(B, L, C, b1, i, f, x))
                      /\ ~(FrontPart(B, L, C, b1, e1, i, x) /\ RearPart(B, L, C, b1, e1, m, x))
                      /\ ~(WholePart(B, L, C, b1, i, f, x) /\ RearPart(B, L, C, b1, e1, m, x))
  BY <1>6, <1>7, PartsDisjoint
<1>20. F \cap W = {} /\ (F \cup W) \cap R = {}
  BY ONLY <1>16, <1>17, <1>18, <1>19
<1>21. Elements(first) \cap Elements(second) = F \cup W \cup R
  <2>1. ASSUME NEW x \in Int
        PROVE  x \in Elements(first) \cap Elements(second) <=> x \in F \cup W \cup R
    <3>1. x \in Elements(first) <=> b1 <= x /\ x <= e1
      BY <1>2, OneInterval
    <3>2. x \in Elements(second) <=> \E k \in 0..(C - 1) : B[k] <= x /\ x < B[k] + L
      BY <1>1, <1>3, ElementsByBeginning
    <3>3. (/\ b1 <= x /\ x <= e1
           /\ \E k \in 0..(C - 1) : B[k] <= x /\ x < B[k] + L)
          <=> \/ FrontPart(B, L, C, b1, e1, i, x)
              \/ WholePart(B, L, C, b1, i, f, x)
              \/ RearPart(B, L, C, b1, e1, m, x)
      BY <1>6, <1>7, PartsCover
    <3> QED BY ONLY <1>16, <1>17, <1>18, <3>1, <3>2, <3>3, x \in Int
  <2>2. Elements(second) \subseteq Int
    BY <1>1, ElementsByBeginning
  <2>3. F \subseteq Int /\ W \subseteq Int /\ R \subseteq Int
    BY ONLY <1>16, <1>17, <1>18
  <2> QED BY ONLY <2>1, <2>2, <2>3
<1>22. Divides(Optional(front, IntervalSeq(b1, l, l, 1)), IntervalElements, F)
  BY <1>11, <1>16, OptionalDivides
<1>23. Divides(Optional(count > 0, t), IntervalElements, W)
  <2>1. (count > 0) \in BOOLEAN
    OBVIOUS
  <2> QED BY <1>12, <1>17, <2>1, OptionalDivides
<1>24. Divides(Optional(rear, IntervalSeq(B[m], rest, rest, 1)), IntervalElements, R)
  BY <1>13, <1>18, OptionalDivides
<1>25. Divides(list, IntervalElements, F \cup W \cup R)
  <2>1. Divides(Optional(front, IntervalSeq(b1, l, l, 1)) \o Optional(count > 0, t), IntervalElements, F \cup W)
    BY ONLY <1>20, <1>22, <1>23, JoinedDivide
  <2> QED BY ONLY <1>15, <1>20, <1>24, <2>1, JoinedDivide
<1> QED BY <1>14, <1>21, <1>25

LEMMA BetweenEnds ==
  ASSUME NEW s \in IntervalSeqs, NEW x \in Elements(s)
  PROVE  x \in Int /\ s.begin <= x /\ x <= Ending(s)
<1>1. PICK B : IsBeginning(B, s)
  BY BeginningIs
<1>2. PICK L \in Int, C \in Nat \ {0} : L = s.length /\ C = s.count
  BY IntervalSeqType DEF Pos
<1>3. x \in Int
  BY <1>1, ElementsByBeginning
<1>4. PICK k \in 0..(C - 1) : B[k] <= x /\ x < B[k] + L
  BY <1>1, <1>2, <1>3, ElementsByBeginning
<1>5. B[0] <= B[k] /\ B[k] <= B[C - 1] /\ B[k] \in Int /\ B[0] \in Int /\ B[C - 1] \in Int
  <2>1. B \in [Int -> Int] /\ (\A i, j \in Int : i < j => B[i] + s.period <= B[j]) /\ s.period \in Nat
    BY <1>1, IntervalSeqType DEF IsBeginning, Pos
  <2>2. B[k] \in Int /\ B[0] \in Int /\ B[C - 1] \in Int
    BY <2>1
  <2>3. B[0] <= B[k]
    <3>1. CASE k = 0
      BY <2>2, <3>1
    <3>2. CASE 0 < k
      BY <2>1, <2>2, <3>2
    <3> QED BY <3>1, <3>2
  <2>4. B[k] <= B[C - 1]
    <3>1. CASE k = C - 1
      BY <2>2, <3>1
    <3>2. CASE k < C - 1
      BY <2>1, <2>2, <3>2
    <3> QED BY <3>1, <3>2
  <2> QED BY <2>2, <2>3, <2>4
<1>6. B[0] = s.begin /\ Ending(s) = B[C - 1] + L - 1
  BY <1>1, <1>2, EndingIs DEF IsBeginning
<1> QED BY <1>2, <1>3, <1>4, <1>5, <1>6

\* A sequence of one interval begins in front of the other one's first interval to look at, or inside it,
\* unless they have nothing in common.
LEMMA DriftedApart ==
  ASSUME NEW first \in IntervalSeqs, first.count = 1, NEW second \in IntervalSeqs,
         NEW B, IsBeginning(B, second), NEW i, i = FirstInterval(second, first.begin),
         \/ first.begin > B[i] /\ second.length < first.begin - B[i]
         \/ B[i] > first.begin /\ first.length < B[i] - first.begin
  PROVE  Elements(first) \cap Elements(second) = {}
<1>1. PICK b1 \in Int, e1 \in Int, l1 \in Int, L \in Int, C \in Int, p \in Nat :
        /\ b1 = first.begin /\ e1 = Ending(first) /\ l1 = first.length
        /\ L = second.length /\ C = second.count /\ p = second.period
        /\ e1 = b1 + l1 - 1
  <2>1. /\ first.begin \in Int /\ first.length \in Int
        /\ second.length \in Int /\ second.count \in Int /\ second.period \in Nat
    BY IntervalSeqType DEF Pos
  <2>2. Ending(first) = first.begin + first.length - 1
    BY OneInterval
  <2>3. Ending(first) \in Int
    BY <2>1, <2>2
  <2> QED BY ONLY <2>1, <2>2, <2>3
<1>2. i \in Nat /\ b1 < B[i] + L /\ \A k \in Nat : k < i => B[k] + L <= b1
  BY <1>1, FirstIntervalIs
<1>3. B \in [Int -> Int] /\ \A j, k \in Int : j < k => B[j] + p <= B[k]
  BY <1>1 DEF IsBeginning
<1>4. B[i] \in Int /\ e1 < B[i]
  <2>1. B[i] \in Int
    BY <1>2, <1>3
  <2> QED BY <1>1, <1>2, <2>1
<1>5. ASSUME NEW x \in Elements(first), x \in Elements(second)
      PROVE  FALSE
  <2>1. x \in Int /\ b1 <= x /\ x <= e1
    BY <1>1, BetweenEnds
  <2>2. PICK k \in 0..(C - 1) : B[k] <= x /\ x < B[k] + L
    BY <1>1, <1>5, <2>1, ElementsByBeginning
  <2>3. B[k] \in Int /\ k \in Nat
    BY <1>1, <1>3, <2>2
  <2>4. CASE k < i
    <3>1. B[k] + L <= b1
      BY <1>2, <2>3, <2>4
    <3> QED BY <2>1, <2>2, <2>3, <3>1
  <2>5. CASE k = i
    BY <1>4, <2>1, <2>2, <2>5
  <2>6. CASE i < k
    <3>1. B[i] + p <= B[k]
      BY <1>2, <1>3, <2>3, <2>6
    <3> QED BY <1>4, <2>1, <2>2, <2>3, <3>1
  <2> QED BY <1>2, <2>3, <2>4, <2>5, <2>6
<1> QED BY <1>5

\* What computeIntersection does with a sequence of one interval and another one.
BySingle(first, second) ==
  LET i1  == FirstInterval(first, second.begin)
      i2  == FirstInterval(second, first.begin)
      bi1 == first.begin + i1 * first.period
      bi2 == second.begin + i2 * second.period
      drifted == \/ bi1 > bi2 /\ second.length < bi1 - bi2
                 \/ bi2 > bi1 /\ first.length < bi2 - bi1
  IN IF first.begin > Ending(second) \/ second.begin > Ending(first) THEN <<>>
     ELSE IF first.period = second.period /\ drifted THEN <<>>
     ELSE IntersectSingle(first, second, i2)

LEMMA BySingleDivides ==
  ASSUME NEW first \in IntervalSeqs, first.count = 1, NEW second \in IntervalSeqs
  PROVE  Divides(BySingle(first, second), IntervalElements, Elements(first) \cap Elements(second))
<1> DEFINE i1 == FirstInterval(first, second.begin)
           i2 == FirstInterval(second, first.begin)
           b1 == first.begin + i1 * first.period
           b2 == second.begin + i2 * second.period
           drifted == \/ b1 > b2 /\ second.length < b1 - b2
                      \/ b2 > b1 /\ first.length < b2 - b1
<1>4. BySingle(first, second) =
        IF first.begin > Ending(second) \/ second.begin > Ending(first) THEN <<>>
        ELSE IF first.period = second.period /\ drifted THEN <<>>
        ELSE IntersectSingle(first, second, i2)
  BY Zenon DEF BySingle
<1>0. /\ first.begin \in Int /\ Ending(first) \in Int /\ second.begin \in Int /\ Ending(second) \in Int
      /\ first.length \in Nat \ {0} /\ first.period \in Nat
      /\ Ending(first) = first.begin + first.length - 1
  BY IntervalSeqType, BeginningIs, EndingIs, OneInterval DEF Pos
<1>1. CASE first.begin > Ending(second) \/ second.begin > Ending(first)
  <2>1. ASSUME NEW x \in Elements(first), x \in Elements(second)
        PROVE  FALSE
    <3>1. x \in Int /\ first.begin <= x /\ x <= Ending(first) /\ second.begin <= x /\ x <= Ending(second)
      BY <2>1, BetweenEnds
    <3> QED BY <1>0, <1>1, <3>1
  <2>2. Elements(first) \cap Elements(second) = {}
    BY <2>1
  <2> QED BY <1>1, <1>4, <2>2, NothingDivides
<1>2. CASE /\ ~(first.begin > Ending(second) \/ second.begin > Ending(first))
           /\ first.period = second.period /\ drifted
  <2>1. b1 = first.begin
    <3>1. second.begin < first.begin + first.length
      BY <1>0, <1>2
    <3>2. i1 = 0
      <4>1. ~(second.begin >= first.begin + first.length)
        BY <1>0, <3>1
      <4>2. first.begin + 0 * first.period + first.length = first.begin + first.length
        BY <1>0
      <4> QED BY <4>1, <4>2 DEF FirstInterval
    <3>3. 0 * first.period = 0
      BY <1>0
    <3> QED BY <1>0, <3>2, <3>3
  <2>2. PICK B : IsBeginning(B, second)
    BY BeginningIs
  <2>3. B[i2] = b2
    <3>1. i2 \in Nat
      BY <1>0, <2>2, FirstIntervalIs
    <3>2. B[i2] = second.begin + second.period * i2
      BY <2>2, <3>1 DEF IsBeginning
    <3>3. second.period * i2 = i2 * second.period
      BY <3>1, IntervalSeqType DEF Pos
    <3> QED BY <3>2, <3>3
  <2>4. Elements(first) \cap Elements(second) = {}
    BY <1>2, <2>1, <2>2, <2>3, DriftedApart
  <2> QED BY <1>2, <1>4, <2>4, NothingDivides
<1>3. CASE /\ ~(first.begin > Ending(second) \/ second.begin > Ending(first))
           /\ ~(first.period = second.period /\ drifted)
  <2>1. first.begin <= Ending(second) /\ second.begin <= Ending(first)
    BY <1>0, <1>3
  <2>2. Divides(IntersectSingle(first, second, i2), IntervalElements, Elements(first) \cap Elements(second))
    BY <2>1, IntersectSingleDivides
  <2> QED BY <1>3, <1>4, <2>2
<1> QED BY <1>1, <1>2, <1>3

\* The intersection with a single interval is exact: its sequences describe the indices that the
\* two have in common, each of them once (IntervalSeq::computeIntersection).
LEMMA IntersectionWithInterval ==
  ASSUME NEW s \in IntervalSeqs, NEW t \in IntervalSeqs, s.count = 1 \/ t.count = 1
  PROVE  Divides(computeIntersection(s, t), IntervalElements, Elements(s) \cap Elements(t))
<1>1. CASE s = t
  <2>1. s \in DOMAIN IntervalElements /\ IntervalElements[s] = Elements(s)
    BY DEF IntervalElements
  <2>2. computeIntersection(s, t) = <<s>>
    BY <1>1 DEF computeIntersection
  <2> QED BY <1>1, <2>1, <2>2, OneDivides
<1>2. CASE s # t /\ t.count = 1
  <2>1. computeIntersection(s, t) = BySingle(t, s)
    BY <1>2 DEF computeIntersection, BySingle
  <2>2. Divides(BySingle(t, s), IntervalElements, Elements(t) \cap Elements(s))
    BY <1>2, BySingleDivides
  <2>3. Elements(t) \cap Elements(s) = Elements(s) \cap Elements(t)
    OBVIOUS
  <2> QED BY <2>1, <2>2, <2>3
<1>3. CASE s # t /\ t.count # 1
  <2>1. computeIntersection(s, t) = BySingle(s, t)
    BY <1>3 DEF computeIntersection, BySingle
  <2> QED BY <1>3, <2>1, BySingleDivides
<1> QED BY <1>1, <1>2, <1>3

-----------------------------------------------------------------------------
(* Lists that divide a set *)

\* What flattening puts one behind the other.
IsFlattening(f, n, V, lists) ==
  /\ f \in [0..n -> Seq(V)] /\ f[0] = <<>>
  /\ \A i \in 1..n : f[i] = f[i - 1] \o lists[i]

LEMMA FlattenIs ==
  ASSUME NEW V, NEW lists \in Seq(Seq(V))
  PROVE  \E f : IsFlattening(f, Len(lists), V, lists) /\ FlattenSeq(lists) = f[Len(lists)]
<1> DEFINE n == Len(lists)
           Eqn(t) == t = [i \in 1..n |-> IF i = 1 THEN lists[i] ELSE t[i - 1] \o lists[i]]
           t == CHOOSE x : Eqn(x)
<1>1. n \in Nat /\ \A i \in 1..n : lists[i] \in Seq(V)
  OBVIOUS
<1> HIDE DEF n
<1>2. PICK G \in [1..n -> [Seq(V) -> Seq(V)]] : \A i \in 1..n, v \in Seq(V) : G[i][v] = v \o lists[i]
  <2> DEFINE G == [i \in 1..n |-> [v \in Seq(V) |-> v \o lists[i]]]
  <2>1. G \in [1..n -> [Seq(V) -> Seq(V)]]
    BY <1>1
  <2>2. \A i \in 1..n, v \in Seq(V) : G[i][v] = v \o lists[i]
    OBVIOUS
  <2> HIDE DEF G
  <2> QED BY <2>1, <2>2
<1>3. PICK f \in [0..n -> Seq(V)] : IsRecursion(f, n, <<>>, G)
  <2>1. <<>> \in Seq(V)
    OBVIOUS
  <2> QED BY ONLY <1>1, <1>2, <2>1, RecursionExists
<1>4. f[0] = <<>> /\ \A i \in 1..n : i - 1 \in 0..n /\ f[i] = f[i - 1] \o lists[i]
  <2>1. ASSUME NEW i \in 1..n
        PROVE  i - 1 \in 0..n /\ f[i] = f[i - 1] \o lists[i]
    <3>1. i - 1 \in 0..n
      BY <1>1
    <3>2. f[i - 1] \in Seq(V) /\ f[i] = G[i][f[i - 1]]
      BY <1>3, <3>1 DEF IsRecursion
    <3> QED BY <1>2, <3>1, <3>2
  <2> QED BY <1>3, <2>1 DEF IsRecursion
<1>5. CASE n = 0
  <2>1. lists = <<>>
    BY <1>5 DEF n
  <2>2. FlattenSeq(lists) = lists
    BY <1>5 DEF FlattenSeq, n
  <2>3. IsFlattening(f, n, V, lists)
    BY <1>3, <1>4 DEF IsFlattening
  <2>4. FlattenSeq(lists) = f[n]
    BY <1>4, <1>5, <2>1, <2>2
  <2> QED BY <2>3, <2>4 DEF n
<1>6. CASE n # 0
  <2> DEFINE g == [i \in 1..n |-> f[i]]
  <2>1. Eqn(g)
    <3>1. ASSUME NEW i \in 1..n
          PROVE  f[i] = IF i = 1 THEN lists[i] ELSE g[i - 1] \o lists[i]
      <4>1. CASE i = 1
        <5>1. <<>> \o lists[i] = lists[i]
          BY <1>1
        <5>2. i - 1 = 0
          BY <4>1
        <5> QED BY <1>4, <4>1, <5>1, <5>2
      <4>2. CASE i # 1
        <5>1. i - 1 \in 1..n
          BY <1>1, <4>2
        <5>2. g[i - 1] = f[i - 1]
          BY <5>1
        <5> QED BY <1>4, <4>2, <5>2
      <4> QED BY <4>1, <4>2
    <3> QED BY <3>1
  <2>2. Eqn(t)
    <3> HIDE DEF Eqn, g
    <3> QED BY <2>1
  <2> HIDE DEF t
  <2>3. \A i \in 1..n : t[i] = IF i = 1 THEN lists[i] ELSE t[i - 1] \o lists[i]
    BY <2>2
  <2> HIDE DEF g
  <2>4. PICK h : h = [i \in 0..n |-> IF i = 0 THEN <<>> ELSE t[i]]
    OBVIOUS
  <2>5. AgreeStepwise(f, h, n)
    <3>1. f[0] = h[0]
      BY <1>1, <1>4, <2>4
    <3>2. ASSUME NEW i \in 1..n, f[i - 1] = h[i - 1]
          PROVE  f[i] = h[i]
      <4>1. h[i] = t[i]
        BY <1>1, <2>4
      <4>2. CASE i = 1
        <5>1. <<>> \o lists[i] = lists[i]
          BY <1>1
        <5>2. i - 1 = 0
          BY <4>2
        <5> QED BY <1>4, <2>3, <4>1, <4>2, <5>1, <5>2
      <4>3. CASE i # 1
        <5>1. i - 1 \in 0..n /\ i - 1 # 0
          BY <1>1, <4>3
        <5>2. h[i - 1] = t[i - 1]
          BY <2>4, <5>1
        <5>3. f[i] = f[i - 1] \o lists[i]
          BY <1>4
        <5>4. t[i] = t[i - 1] \o lists[i]
          BY <2>3, <4>3
        <5> QED BY ONLY <3>2, <4>1, <5>2, <5>3, <5>4
      <4> QED BY <4>2, <4>3
    <3> QED BY <3>1, <3>2 DEF AgreeStepwise
  <2>6. Agree(f, h, n)
    BY ONLY <1>1, <2>5, AgreeUpTo
  <2>7. f[n] = t[n]
    <3>1. n \in 0..n /\ h[n] = t[n]
      BY <1>1, <1>6, <2>4
    <3> QED BY <2>6, <3>1 DEF Agree
  <2>8. FlattenSeq(lists) = t[n]
    BY <1>6, Zenon DEF FlattenSeq, n, t
  <2>9. IsFlattening(f, n, V, lists)
    BY <1>3, <1>4 DEF IsFlattening
  <2> QED BY <2>7, <2>8, <2>9 DEF n
<1> QED BY <1>5, <1>6

\* Lists that divide disjoint sets divide their union, one behind the other.
DivideDisjoint(lists, n, el, E) ==
  /\ lists = [i \in 1..n |-> lists[i]]
  /\ \A i \in 1..n : Divides(lists[i], el, E[i])
  /\ \A i, j \in 1..n : i # j => E[i] \cap E[j] = {}
UnionOf(E, n) == UNION {E[i] : i \in 1..n}

LEMMA FlattenDivides ==
  ASSUME NEW el, NEW n \in Nat, NEW E, NEW lists, DivideDisjoint(lists, n, el, E)
  PROVE  Divides(FlattenSeq(lists), el, UnionOf(E, n))
<1> USE DEF DivideDisjoint
<1>1. lists \in Seq(Seq(DOMAIN el)) /\ Len(lists) = n
  <2>1. \A i \in 1..n : lists[i] \in Seq(DOMAIN el)
    BY DEF Divides
  <2> QED BY <2>1
<1>2. PICK f : IsFlattening(f, n, DOMAIN el, lists) /\ FlattenSeq(lists) = f[n]
  <2>1. PICK V : V = DOMAIN el
    OBVIOUS
  <2>2. lists \in Seq(Seq(V))
    BY <1>1, <2>1
  <2>3. \E f : IsFlattening(f, n, V, lists) /\ FlattenSeq(lists) = f[n]
    BY ONLY <1>1, <2>2, FlattenIs
  <2> QED BY <2>1, <2>3
<1> DEFINE U(k) == UNION {E[i] : i \in 1..k}
           S == {k \in Nat : k <= n => Divides(f[k], el, U(k))}
<1>3. 0 \in S
  <2>1. U(0) = {}
    OBVIOUS
  <2>2. f[0] = <<>>
    BY <1>2 DEF IsFlattening
  <2>3. Divides(<<>>, el, {})
    BY NothingDivides
  <2> HIDE DEF U
  <2> QED BY <2>1, <2>2, <2>3
<1>4. ASSUME NEW k \in Nat, k \in S
      PROVE  k + 1 \in S
  <2> SUFFICES ASSUME k + 1 <= n PROVE Divides(f[k + 1], el, U(k + 1))
    OBVIOUS
  <2>1. k + 1 \in 1..n /\ (k + 1) - 1 = k /\ k <= n
    OBVIOUS
  <2>2. f[k + 1] = f[k] \o lists[k + 1]
    BY <1>2, <2>1 DEF IsFlattening
  <2>3. Divides(f[k], el, U(k)) /\ Divides(lists[k + 1], el, E[k + 1])
    BY <1>4, <2>1
  <2>4. U(k + 1) = U(k) \cup E[k + 1]
    <3>1. 1..(k + 1) = (1..k) \cup {k + 1}
      OBVIOUS
    <3> QED BY ONLY <3>1
  <2>5. U(k) \cap E[k + 1] = {}
    <3>1. \A i \in 1..k : i \in 1..n /\ i # k + 1
      BY <2>1
    <3> QED BY <2>1, <3>1
  <2> HIDE DEF U
  <2>6. PICK a, b, X, Y : a = f[k] /\ b = lists[k + 1] /\ X = U(k) /\ Y = E[k + 1]
    OBVIOUS
  <2>7. Divides(a \o b, el, X \cup Y)
    BY <2>3, <2>5, <2>6, JoinedDivide
  <2> QED BY <2>2, <2>4, <2>6, <2>7
<1>5. n \in S
  <2> HIDE DEF S
  <2> QED BY <1>3, <1>4, Induction
<1> QED BY <1>2, <1>5 DEF UnionOf

-----------------------------------------------------------------------------
(* Common periods *)

\* The multiples of a number.
IsMultiples(M, L) ==
  /\ M \in [Nat -> Nat] /\ L \in Pos /\ M[0] = 0 /\ M[1] = L
  /\ \A t, u \in Nat : t < u => M[t] + L <= M[u]
  /\ \A t, x \in Nat : t <= x \div L <=> M[t] <= x
  /\ \A x \in Nat : \E t \in Nat : M[t] <= x /\ x < M[t] + L

LEMMA MultiplesExist ==
  ASSUME NEW L \in Pos
  PROVE  IsMultiples([t \in Nat |-> L * t], L)
<1>1. PICK M : M = [t \in Nat |-> L * t]
  OBVIOUS
<1>2. M \in [Nat -> Nat]
  BY <1>1, Product DEF Pos
<1>3. M[0] = 0 /\ M[1] = L
  BY <1>1 DEF Pos
<1>4. \A t, u \in Nat : t < u => M[t] + L <= M[u]
  <2> SUFFICES ASSUME NEW t \in Nat, NEW u \in Nat, t < u
               PROVE  M[t] + L <= M[u]
    OBVIOUS
  <2>1. L * t + L <= L * u
    BY Monotonic DEF Pos
  <2> QED BY <1>1, <2>1
<1>5. ASSUME NEW x \in Nat
      PROVE  \E q \in Nat : q = x \div L /\ M[q] <= x /\ x < M[q] + L
  <2>1. PICK q \in Nat, r \in 0..(L - 1) : q = x \div L /\ x = L * q + r
    BY Division DEF Pos
  <2>2. M[q] = L * q /\ M[q] \in Nat
    BY <1>1, <1>2
  <2>3. M[q] <= x /\ x < M[q] + L
    BY <2>1, <2>2 DEF Pos
  <2> QED BY <2>1, <2>3
<1>6. \A t, x \in Nat : t <= x \div L <=> M[t] <= x
  <2> SUFFICES ASSUME NEW t \in Nat, NEW x \in Nat
               PROVE  t <= x \div L <=> M[t] <= x
    OBVIOUS
  <2>1. PICK q \in Nat : q = x \div L /\ M[q] <= x /\ x < M[q] + L
    BY <1>5
  <2>2. M[t] \in Nat /\ M[q] \in Nat /\ L \in Nat
    BY <1>2 DEF Pos
  <2>3. CASE t < q
    <3>1. M[t] + L <= M[q]
      BY <1>4, <2>3
    <3> QED BY <2>1, <2>2, <2>3, <3>1
  <2>4. CASE t = q
    BY <2>1, <2>4
  <2>5. CASE q < t
    <3>1. M[q] + L <= M[t]
      BY <1>4, <2>5
    <3> QED BY <2>1, <2>2, <2>5, <3>1
  <2> QED BY <2>3, <2>4, <2>5
<1>7. \A x \in Nat : \E t \in Nat : M[t] <= x /\ x < M[t] + L
  BY <1>5
<1> QED BY <1>1, <1>2, <1>3, <1>4, <1>6, <1>7, Zenon DEF IsMultiples

-----------------------------------------------------------------------------
(* The loop over the overlaps of two sequences *)

\* Where intervals of length l begin, in both directions; index x is in the k-th of them.
IsComb(A, l) ==
  /\ A \in [Int -> Int] /\ l \in Pos
  /\ \A j, k \in Int : j < k => A[j] + l <= A[k]
At(A, l, k, x) == A[k] <= x /\ x < A[k] + l

LEMMA CombType ==
  ASSUME NEW A, NEW l, IsComb(A, l)
  PROVE  l \in Nat \ {0} /\ \A k \in Int : A[k] \in Int
<1>1. A \in [Int -> Int] /\ l \in Pos
  BY Zenon DEF IsComb
<1> QED BY <1>1 DEF Pos

LEMMA OneAt ==
  ASSUME NEW A, NEW l, IsComb(A, l), NEW j \in Int, NEW k \in Int, NEW x \in Int, At(A, l, j, x), At(A, l, k, x)
  PROVE  j = k
<1>1. A[j] \in Int /\ A[k] \in Int /\ l \in Nat
  BY DEF IsComb, Pos
<1>2. A[j] <= x /\ x < A[j] + l /\ A[k] <= x /\ x < A[k] + l
  BY DEF At
<1>3. (j < k => A[j] + l <= A[k]) /\ (k < j => A[k] + l <= A[j])
  BY DEF IsComb
<1> QED BY ONLY j \in Int, k \in Int, x \in Int, <1>1, <1>2, <1>3

\* Two of them, n intervals of the one taking up as much as o of the other, in step at the end.
IsPair(A, l, n, B, m, o) ==
  /\ IsComb(A, l) /\ IsComb(B, m) /\ n \in Pos /\ o \in Pos
  /\ A[n - 1] + l <= B[o] + m /\ B[o - 1] + m < A[n] + l

\* What the loop finds, and where it stands.
Ranges == [min : Int, max : Int]
LoopStates == [ci1 : Nat, ci2 : Nat, ranges : Seq(Ranges)]

\* One turn of the loop of computeIntersection.
TurnOf(A, l, n, B, m, o, at) ==
  LET end1   == A[at.ci1] + l
      end2   == B[at.ci2] + m
      begin  == Max({A[at.ci1], B[at.ci2]})
      end    == Min({end1, end2})
      ranges == at.ranges \o Optional(begin < end, [min |-> begin, max |-> end - 1])
  IN IF at.ci1 >= n /\ at.ci2 >= o THEN at
     ELSE IF end1 <= end2 THEN [ci1 |-> at.ci1 + 1, ci2 |-> at.ci2, ranges |-> ranges]
     ELSE [ci1 |-> at.ci1, ci2 |-> at.ci2 + 1, ranges |-> ranges]

\* A range is what the interval a of A and the interval b of B have in common.
InRange(range, x) == range.min <= x /\ x <= range.max
IsOverlap(range, A, l, B, m, a, b) ==
  /\ range \in Ranges /\ range.min <= range.max
  /\ \A x \in Int : InRange(range, x) <=> At(A, l, a, x) /\ At(B, m, b, x)

\* What the loop has found are overlaps, no two of the same indices, that end before where it stands; and
\* none is missing of the intervals before that.
Found(ranges, A, l, n, B, m, o) ==
  /\ ranges \in Seq(Ranges)
  /\ \A i \in 1..Len(ranges) : \E a, b \in Nat : (a < n \/ b < o) /\ IsOverlap(ranges[i], A, l, B, m, a, b)
  /\ \A i, j \in 1..Len(ranges) : i # j => \A x \in Int : ~(InRange(ranges[i], x) /\ InRange(ranges[j], x))
Behind(ranges, A, B, a, b) ==
  \A i \in 1..Len(ranges) : ranges[i].max < A[a] \/ ranges[i].max < B[b]
Covers(ranges, x) == \E i \in 1..Len(ranges) : InRange(ranges[i], x)
Covered(ranges, A, l, B, m, a, b) ==
  \A x \in Int, r, q \in Nat : At(A, l, r, x) /\ At(B, m, q, x) => Covers(ranges, x) \/ (a <= r /\ b <= q)

\* ranges has the overlap of the intervals a and b in addition, if they have one.
IsRecorded(ranges, old, A, l, B, m, a, b) ==
  /\ old \in Seq(Ranges) /\ ranges \in Seq(Ranges) /\ Len(old) <= Len(ranges)
  /\ \A i \in 1..Len(ranges) :
       \/ i \in 1..Len(old) /\ ranges[i] = old[i]
       \/ i = Len(ranges) /\ i = Len(old) + 1 /\ IsOverlap(ranges[i], A, l, B, m, a, b)
  /\ \A i \in 1..Len(old) : i \in 1..Len(ranges) /\ ranges[i] = old[i]
  /\ \A x \in Int : At(A, l, a, x) /\ At(B, m, b, x) => Covers(ranges, x)

LEMMA Recording ==
  ASSUME NEW A, NEW l, NEW B, NEW m, IsComb(A, l), IsComb(B, m), NEW a \in Nat, NEW b \in Nat,
         NEW old \in Seq(Ranges), NEW begin, NEW end, begin = Max({A[a], B[b]}), end = Min({A[a] + l, B[b] + m})
  PROVE  IsRecorded(old \o Optional(begin < end, [min |-> begin, max |-> end - 1]), old, A, l, B, m, a, b)
<1>1. A[a] \in Int /\ B[b] \in Int /\ l \in Int /\ m \in Int
  BY CombType
<1>2. /\ begin \in Int /\ end \in Int
      /\ \A x \in Int : begin <= x /\ x < end <=> A[a] <= x /\ x < A[a] + l /\ B[b] <= x /\ x < B[b] + m
  <2>1. PICK Aa \in Int, Bb \in Int : Aa = A[a] /\ Bb = B[b]
    BY <1>1
  <2>2. PICK c \in Int, d \in Int : c = Aa + l /\ d = Bb + m
    BY ONLY <1>1, <2>1
  <2>3. begin = Max({Aa, Bb}) /\ end = Min({c, d})
    BY <2>1, <2>2
  <2>4. begin = (IF Aa >= Bb THEN Aa ELSE Bb) /\ end = (IF c <= d THEN c ELSE d)
    BY ONLY <2>3, Aa \in Int, Bb \in Int, c \in Int, d \in Int, OfTwo
  <2>5. /\ begin \in Int /\ end \in Int
        /\ \A x \in Int : begin <= x /\ x < end <=> Aa <= x /\ x < c /\ Bb <= x /\ x < d
    BY ONLY <2>4, Aa \in Int, Bb \in Int, c \in Int, d \in Int
  <2> QED BY ONLY <2>1, <2>2, <2>5
<1>3. \A x \in Int : begin <= x /\ x < end <=> At(A, l, a, x) /\ At(B, m, b, x)
  BY <1>2, Zenon DEF At
<1>4. PICK N \in Nat : N = Len(old)
  OBVIOUS
<1>5. CASE ~(begin < end)
  <2>1. old \o Optional(begin < end, [min |-> begin, max |-> end - 1]) = old
    BY <1>5 DEF Optional
  <2>2. \A x \in Int : ~(At(A, l, a, x) /\ At(B, m, b, x))
    <3>1. \A x \in Int : ~(begin <= x /\ x < end)
      BY ONLY <1>2, <1>5
    <3> QED BY ONLY <1>3, <3>1
  <2>3. IsRecorded(old, old, A, l, B, m, a, b)
    <3>1. \A i \in 1..Len(old) : i \in 1..Len(old) /\ old[i] = old[i]
      OBVIOUS
    <3>2. Len(old) <= Len(old)
      BY <1>4
    <3> QED BY ONLY old \in Seq(Ranges), <2>2, <3>1, <3>2 DEF IsRecorded
  <2> QED BY <2>1, <2>3
<1>6. CASE begin < end
  <2>1. PICK range : range = [min |-> begin, max |-> end - 1]
    OBVIOUS
  <2>2. range \in Ranges /\ range.min = begin /\ range.max = end - 1
    BY ONLY <1>2, <2>1 DEF Ranges
  <2>3. PICK ranges : ranges = old \o <<range>>
    OBVIOUS
  <2>4. old \o Optional(begin < end, [min |-> begin, max |-> end - 1]) = ranges
    BY <1>6, <2>1, <2>3 DEF Optional
  <2>5. /\ ranges \in Seq(Ranges) /\ Len(ranges) = N + 1 /\ ranges[N + 1] = range
        /\ \A i \in 1..N : ranges[i] = old[i]
    BY ONLY <1>4, <2>2, <2>3, old \in Seq(Ranges)
  <2>6. \A x \in Int : InRange(range, x) <=> At(A, l, a, x) /\ At(B, m, b, x)
    <3>1. \A x \in Int : InRange(range, x) <=> begin <= x /\ x < end
      BY ONLY <1>2, <2>2 DEF InRange
    <3> QED BY ONLY <1>3, <3>1
  <2>7. IsOverlap(range, A, l, B, m, a, b)
    <3>1. range.min <= range.max
      BY ONLY <1>2, <1>6, <2>2
    <3> QED BY ONLY <2>2, <2>6, <3>1 DEF IsOverlap
  <2>8. \A x \in Int : At(A, l, a, x) /\ At(B, m, b, x) => Covers(ranges, x)
    <3> SUFFICES ASSUME NEW x \in Int, InRange(range, x) PROVE Covers(ranges, x)
      BY <2>6
    <3>1. N + 1 \in 1..Len(ranges) /\ InRange(ranges[N + 1], x)
      BY <1>4, <2>5
    <3> QED BY <3>1 DEF Covers
  <2>9. \A i \in 1..Len(ranges) :
          \/ i \in 1..Len(old) /\ ranges[i] = old[i]
          \/ i = Len(ranges) /\ i = Len(old) + 1 /\ IsOverlap(ranges[i], A, l, B, m, a, b)
    <3> SUFFICES ASSUME NEW i \in 1..(N + 1)
                 PROVE  \/ i \in 1..Len(old) /\ ranges[i] = old[i]
                        \/ i = Len(ranges) /\ i = Len(old) + 1 /\ IsOverlap(ranges[i], A, l, B, m, a, b)
      BY <2>5
    <3>1. CASE i = N + 1
      BY ONLY <1>4, <2>5, <2>7, <3>1
    <3>2. CASE i \in 1..N
      BY ONLY <1>4, <2>5, <3>2
    <3>3. i = N + 1 \/ i \in 1..N
      OBVIOUS
    <3> QED BY <3>1, <3>2, <3>3
  <2>10. \A i \in 1..Len(old) : i \in 1..Len(ranges) /\ ranges[i] = old[i]
    BY ONLY <1>4, <2>5
  <2>11. Len(old) <= Len(ranges)
    BY ONLY <1>4, <2>5
  <2>12. IsRecorded(ranges, old, A, l, B, m, a, b)
    BY ONLY old \in Seq(Ranges), <2>5, <2>8, <2>9, <2>10, <2>11, Zenon DEF IsRecorded
  <2> QED BY <2>4, <2>12
<1> QED BY <1>5, <1>6

LEMMA RecordedFound ==
  ASSUME NEW A, NEW l, NEW n \in Nat, NEW B, NEW m, NEW o \in Nat, IsComb(A, l), IsComb(B, m),
         NEW a \in Nat, NEW b \in Nat, a < n \/ b < o,
         NEW old, NEW ranges, IsRecorded(ranges, old, A, l, B, m, a, b),
         Found(old, A, l, n, B, m, o), Behind(old, A, B, a, b)
  PROVE  Found(ranges, A, l, n, B, m, o)
<1>1. ranges \in Seq(Ranges)
  BY DEF IsRecorded
<1>2. ASSUME NEW i \in 1..Len(ranges)
      PROVE  \E c, d \in Nat : (c < n \/ d < o) /\ IsOverlap(ranges[i], A, l, B, m, c, d)
  <2>1. CASE i \in 1..Len(old) /\ ranges[i] = old[i]
    BY <2>1 DEF Found
  <2>2. CASE IsOverlap(ranges[i], A, l, B, m, a, b)
    BY <2>2
  <2> QED BY <2>1, <2>2 DEF IsRecorded
<1>3. ASSUME NEW i \in 1..Len(old), NEW x \in Int, InRange(old[i], x), At(A, l, a, x), At(B, m, b, x)
      PROVE  FALSE
  <2>1. old[i].max < A[a] \/ old[i].max < B[b]
    BY DEF Behind
  <2>2. old[i].max \in Int /\ x <= old[i].max /\ A[a] \in Int /\ B[b] \in Int
    <3>1. old[i] \in Ranges
      BY DEF Found
    <3>2. old[i].max \in Int /\ x <= old[i].max
      BY ONLY <1>3, <3>1 DEF Ranges, InRange
    <3>3. A[a] \in Int /\ B[b] \in Int
      BY DEF IsComb
    <3> QED BY <3>2, <3>3
  <2>3. A[a] <= x /\ B[b] <= x
    BY <1>3 DEF At
  <2> QED BY ONLY <2>1, <2>2, <2>3, x \in Int
<1>4. ASSUME NEW i \in 1..Len(ranges), NEW j \in 1..Len(ranges), i # j, NEW x \in Int,
             InRange(ranges[i], x), InRange(ranges[j], x)
      PROVE  FALSE
  <2>1. ASSUME NEW k \in 1..Len(ranges)
        PROVE  \/ k \in 1..Len(old) /\ ranges[k] = old[k]
               \/ /\ k = Len(ranges)
                  /\ \A y \in Int : InRange(ranges[k], y) <=> At(A, l, a, y) /\ At(B, m, b, y)
    BY Zenon DEF IsRecorded, IsOverlap
  <2>2. CASE i \in 1..Len(old) /\ ranges[i] = old[i] /\ j \in 1..Len(old) /\ ranges[j] = old[j]
    BY <1>4, <2>2 DEF Found
  <2>3. CASE i \in 1..Len(old) /\ ranges[i] = old[i] /\ At(A, l, a, x) /\ At(B, m, b, x)
    BY <1>3, <1>4, <2>3
  <2>4. CASE j \in 1..Len(old) /\ ranges[j] = old[j] /\ At(A, l, a, x) /\ At(B, m, b, x)
    BY <1>3, <1>4, <2>4
  <2> QED BY <1>4, <2>1, <2>2, <2>3, <2>4
<1> QED BY <1>1, <1>2, <1>4, Zenon DEF Found

LEMMA RecordedCovers ==
  ASSUME NEW A, NEW l, NEW B, NEW m, NEW a, NEW b, NEW old, NEW ranges,
         IsRecorded(ranges, old, A, l, B, m, a, b), NEW x, Covers(old, x)
  PROVE  Covers(ranges, x)
<1>1. PICK i \in 1..Len(old) : InRange(old[i], x)
  BY DEF Covers
<1>2. i \in 1..Len(ranges) /\ ranges[i] = old[i]
  BY DEF IsRecorded
<1> QED BY <1>1, <1>2 DEF Covers

\* The interval a ends first: the loop goes on with the next one.
LEMMA Advanced ==
  ASSUME NEW A, NEW l, NEW B, NEW m, IsComb(A, l), IsComb(B, m),
         NEW a \in Nat, NEW b \in Nat, A[a] + l <= B[b] + m,
         NEW old, NEW ranges, IsRecorded(ranges, old, A, l, B, m, a, b),
         Behind(old, A, B, a, b), Covered(old, A, l, B, m, a, b)
  PROVE  Behind(ranges, A, B, a + 1, b) /\ Covered(ranges, A, l, B, m, a + 1, b)
<1>0. /\ l \in Nat \ {0} /\ m \in Nat \ {0}
      /\ A[a] \in Int /\ A[a + 1] \in Int /\ A[a] + l <= A[a + 1] /\ B[b] \in Int
  BY DEF IsComb, Pos
<1>1. ASSUME NEW i \in 1..Len(ranges)
      PROVE  ranges[i].max < A[a + 1] \/ ranges[i].max < B[b]
  <2>0. ranges[i] \in Ranges /\ ranges[i].max \in Int /\ ranges[i].min \in Int
    <3>1. ranges[i] \in Ranges
      BY DEF IsRecorded
    <3> QED BY ONLY <3>1 DEF Ranges
  <2>1. CASE i \in 1..Len(old) /\ ranges[i] = old[i]
    <3>1. ranges[i].max < A[a] \/ ranges[i].max < B[b]
      BY <2>1 DEF Behind
    <3> QED BY ONLY <1>0, <2>0, <3>1
  <2>2. CASE IsOverlap(ranges[i], A, l, B, m, a, b)
    <3>1. InRange(ranges[i], ranges[i].max)
      BY <2>0, <2>2 DEF IsOverlap, InRange
    <3>2. At(A, l, a, ranges[i].max)
      BY <2>0, <2>2, <3>1 DEF IsOverlap
    <3>3. ranges[i].max < A[a] + l
      BY <3>2 DEF At
    <3> QED BY ONLY <1>0, <2>0, <3>3
  <2> QED BY <2>1, <2>2 DEF IsRecorded
<1>2. ASSUME NEW x \in Int, NEW r \in Nat, NEW q \in Nat, At(A, l, r, x), At(B, m, q, x), ~Covers(ranges, x)
      PROVE  a + 1 <= r /\ b <= q
  <2>1. a <= r /\ b <= q
    BY <1>2, RecordedCovers DEF Covered
  <2>2. ~(r = a /\ q = b)
    BY <1>2 DEF IsRecorded
  <2>3. CASE r = a /\ b < q
    <3>1. B[b] + m <= B[q] /\ B[q] \in Int
      BY <2>3 DEF IsComb
    <3>2. x < A[a] + l /\ B[q] <= x
      BY <1>2, <2>3 DEF At
    <3> QED BY ONLY <1>0, <3>1, <3>2, A[a] + l <= B[b] + m, x \in Int
  <2> QED BY <2>1, <2>2, <2>3
<1> QED BY <1>1, <1>2 DEF Behind, Covered

LEMMA RecordedSwapped ==
  ASSUME NEW A, NEW l, NEW B, NEW m, NEW a, NEW b, NEW old, NEW ranges, IsRecorded(ranges, old, A, l, B, m, a, b)
  PROVE  IsRecorded(ranges, old, B, m, A, l, b, a)
<1>1. \A range : IsOverlap(range, A, l, B, m, a, b) => IsOverlap(range, B, m, A, l, b, a)
  BY Zenon DEF IsOverlap
<1> QED BY <1>1, Zenon DEF IsRecorded

LEMMA CoveredSwapped ==
  ASSUME NEW A, NEW l, NEW B, NEW m, NEW a, NEW b, NEW ranges, Covered(ranges, A, l, B, m, a, b)
  PROVE  Covered(ranges, B, m, A, l, b, a)
  BY Zenon DEF Covered

LEMMA BehindSwapped ==
  ASSUME NEW A, NEW B, NEW a, NEW b, NEW ranges, Behind(ranges, A, B, a, b)
  PROVE  Behind(ranges, B, A, b, a)
  BY Zenon DEF Behind

\* The state of the loop.
Walked(at, A, l, n, B, m, o) ==
  /\ at \in LoopStates /\ at.ci1 <= n /\ at.ci2 <= o
  /\ Found(at.ranges, A, l, n, B, m, o)
  /\ Behind(at.ranges, A, B, at.ci1, at.ci2)
  /\ Covered(at.ranges, A, l, B, m, at.ci1, at.ci2)

LEMMA CombMonotonic ==
  ASSUME NEW A, NEW l, IsComb(A, l), NEW j \in Int, NEW k \in Int, j <= k
  PROVE  A[j] <= A[k]
<1>1. l \in Nat \ {0} /\ A[j] \in Int /\ A[k] \in Int
  BY CombType
<1>2. j < k => A[j] + l <= A[k]
  BY DEF IsComb
<1> QED BY <1>1, <1>2

LEMMA TurnType ==
  ASSUME NEW A, NEW l, NEW n, NEW B, NEW m, NEW o, IsComb(A, l), IsComb(B, m), NEW at \in LoopStates
  PROVE  TurnOf(A, l, n, B, m, o, at) \in LoopStates
<1>1. PICK a \in Nat, b \in Nat, old \in Seq(Ranges) : a = at.ci1 /\ b = at.ci2 /\ old = at.ranges
  BY DEF LoopStates
<1>2. PICK begin, end : begin = Max({A[a], B[b]}) /\ end = Min({A[a] + l, B[b] + m})
  OBVIOUS
<1>3. PICK ranges : ranges = old \o Optional(begin < end, [min |-> begin, max |-> end - 1])
  OBVIOUS
<1>4. ranges \in Seq(Ranges)
  <2>1. IsRecorded(ranges, old, A, l, B, m, a, b)
    BY <1>2, <1>3, Recording, Zenon
  <2> QED BY <2>1 DEF IsRecorded
<1>5. TurnOf(A, l, n, B, m, o, at) = IF a >= n /\ b >= o THEN at
                                   ELSE IF A[a] + l <= B[b] + m THEN [ci1 |-> a + 1, ci2 |-> b, ranges |-> ranges]
                                   ELSE [ci1 |-> a, ci2 |-> b + 1, ranges |-> ranges]
  BY <1>1, <1>2, <1>3, Zenon DEF TurnOf
<1>6. /\ [ci1 |-> a + 1, ci2 |-> b, ranges |-> ranges] \in LoopStates
      /\ [ci1 |-> a, ci2 |-> b + 1, ranges |-> ranges] \in LoopStates
  BY <1>4 DEF LoopStates
<1> QED BY <1>5, <1>6, Zenon

LEMMA TurnWalks ==
  ASSUME NEW A, NEW l, NEW n, NEW B, NEW m, NEW o, IsPair(A, l, n, B, m, o),
         NEW at, Walked(at, A, l, n, B, m, o), at.ci1 + at.ci2 < n + o,
         NEW next, next = TurnOf(A, l, n, B, m, o, at)
  PROVE  Walked(next, A, l, n, B, m, o) /\ next.ci1 + next.ci2 = at.ci1 + at.ci2 + 1
<1>0. IsComb(A, l) /\ IsComb(B, m) /\ n \in Nat \ {0} /\ o \in Nat \ {0}
  BY DEF IsPair, Pos
<1>1. PICK a \in Nat, b \in Nat, old \in Seq(Ranges) : a = at.ci1 /\ b = at.ci2 /\ old = at.ranges
  BY DEF Walked, LoopStates
<1>2. PICK begin, end : begin = Max({A[a], B[b]}) /\ end = Min({A[a] + l, B[b] + m})
  OBVIOUS
<1>3. PICK ranges : ranges = old \o Optional(begin < end, [min |-> begin, max |-> end - 1])
  OBVIOUS
<1>4. IsRecorded(ranges, old, A, l, B, m, a, b)
  BY <1>0, <1>2, <1>3, Recording, Zenon
<1>5. next = IF a >= n /\ b >= o THEN at
             ELSE IF A[a] + l <= B[b] + m THEN [ci1 |-> a + 1, ci2 |-> b, ranges |-> ranges]
             ELSE [ci1 |-> a, ci2 |-> b + 1, ranges |-> ranges]
  BY <1>1, <1>2, <1>3, Zenon DEF TurnOf
<1>6. a <= n /\ b <= o /\ a + b < n + o
  BY <1>1 DEF Walked
<1>7. (a < n \/ b < o) /\ ~(a >= n /\ b >= o)
  BY ONLY <1>0, <1>6, a \in Nat, b \in Nat
<1>8. Found(old, A, l, n, B, m, o) /\ Behind(old, A, B, a, b) /\ Covered(old, A, l, B, m, a, b)
  BY <1>1 DEF Walked
<1>9. Found(ranges, A, l, n, B, m, o) /\ ranges \in Seq(Ranges)
  <2>1. n \in Nat /\ o \in Nat
    BY <1>0
  <2>2. Found(ranges, A, l, n, B, m, o)
    BY ONLY <1>0, <1>4, <1>7, <1>8, <2>1, a \in Nat, b \in Nat, RecordedFound
  <2> QED BY <2>2 DEF Found
<1>10. /\ A[a] \in Int /\ A[n] \in Int /\ A[n - 1] \in Int /\ l \in Nat
       /\ B[b] \in Int /\ B[o] \in Int /\ B[o - 1] \in Int /\ m \in Nat
  <2>1. n \in Int /\ n - 1 \in Int /\ o \in Int /\ o - 1 \in Int /\ a \in Int /\ b \in Int
    BY <1>0
  <2> QED BY <1>0, <2>1, CombType
<1>11. A[n - 1] + l <= B[o] + m /\ B[o - 1] + m < A[n] + l
  BY DEF IsPair
<1>12. CASE A[a] + l <= B[b] + m
  <2>1. next = [ci1 |-> a + 1, ci2 |-> b, ranges |-> ranges]
    BY <1>5, <1>7, <1>12
  <2>2. a < n
    <3> SUFFICES ASSUME a = n PROVE FALSE
      BY <1>0, <1>6
    <3>1. b <= o - 1 /\ b \in Int /\ o - 1 \in Int
      BY <1>0, <1>6
    <3>2. B[b] <= B[o - 1]
      BY ONLY <1>0, <3>1, CombMonotonic
    <3> QED BY <1>10, <1>11, <1>12, <3>2
  <2>3. Behind(ranges, A, B, a + 1, b) /\ Covered(ranges, A, l, B, m, a + 1, b)
    BY ONLY <1>0, <1>4, <1>8, <1>12, a \in Nat, b \in Nat, Advanced
  <2>4. next \in LoopStates /\ next.ci1 = a + 1 /\ next.ci2 = b /\ next.ranges = ranges
    BY ONLY <1>9, <2>1, a \in Nat, b \in Nat DEF LoopStates
  <2>5. a + 1 <= n
    BY <1>0, <2>2
  <2>6. Walked(next, A, l, n, B, m, o)
    BY ONLY <1>6, <1>9, <2>3, <2>4, <2>5, Zenon DEF Walked
  <2> QED BY ONLY <1>1, <2>4, <2>6
<1>13. CASE ~(A[a] + l <= B[b] + m)
  <2>1. next = [ci1 |-> a, ci2 |-> b + 1, ranges |-> ranges]
    BY <1>5, <1>7, <1>13
  <2>2. b < o
    <3> SUFFICES ASSUME b = o PROVE FALSE
      BY <1>0, <1>6
    <3>1. a <= n - 1 /\ a \in Int /\ n - 1 \in Int
      BY <1>0, <1>6
    <3>2. A[a] <= A[n - 1]
      BY ONLY <1>0, <3>1, CombMonotonic
    <3> QED BY <1>10, <1>11, <1>13, <3>2
  <2>3. B[b] + m <= A[a] + l
    BY <1>10, <1>13
  <2>4. IsRecorded(ranges, old, B, m, A, l, b, a) /\ Behind(old, B, A, b, a) /\ Covered(old, B, m, A, l, b, a)
    BY ONLY <1>4, <1>8, RecordedSwapped, BehindSwapped, CoveredSwapped
  <2>5. Behind(ranges, B, A, b + 1, a) /\ Covered(ranges, B, m, A, l, b + 1, a)
    BY ONLY <1>0, <2>3, <2>4, a \in Nat, b \in Nat, Advanced
  <2>6. Behind(ranges, A, B, a, b + 1) /\ Covered(ranges, A, l, B, m, a, b + 1)
    BY ONLY <2>5, BehindSwapped, CoveredSwapped
  <2>7. next \in LoopStates /\ next.ci1 = a /\ next.ci2 = b + 1 /\ next.ranges = ranges
    BY ONLY <1>9, <2>1, a \in Nat, b \in Nat DEF LoopStates
  <2>8. b + 1 <= o
    BY <1>0, <2>2
  <2>9. Walked(next, A, l, n, B, m, o)
    BY ONLY <1>6, <1>9, <2>6, <2>7, <2>8, Zenon DEF Walked
  <2> QED BY ONLY <1>1, <2>7, <2>9
<1> QED BY <1>12, <1>13

\* What the loop leaves with.
IsOverlaps(ranges, A, l, n, B, m, o) ==
  Found(ranges, A, l, n, B, m, o) /\ Covered(ranges, A, l, B, m, n, o)

Start == [ci1 |-> 0, ci2 |-> 0, ranges |-> <<>>]

LEMMA LoopWalks ==
  ASSUME NEW A, NEW l, NEW n, NEW B, NEW m, NEW o, IsPair(A, l, n, B, m, o),
         NEW f, f[0] = Start, \A k \in 1..(n + o) : f[k] = TurnOf(A, l, n, B, m, o, f[k - 1])
  PROVE  IsOverlaps(f[n + o].ranges, A, l, n, B, m, o)
<1>0. n \in Nat \ {0} /\ o \in Nat \ {0}
  BY DEF IsPair, Pos
<1> DEFINE S == {k \in Nat : k <= n + o => Walked(f[k], A, l, n, B, m, o) /\ f[k].ci1 + f[k].ci2 = k}
<1>1. 0 \in S
  <2>1. PICK at : at = f[0]
    OBVIOUS
  <2>2. at.ci1 = 0 /\ at.ci2 = 0 /\ at.ranges = <<>> /\ at \in LoopStates
    BY <2>1 DEF Start, LoopStates
  <2>3. Found(<<>>, A, l, n, B, m, o) /\ Behind(<<>>, A, B, 0, 0)
    BY DEF Found, Behind
  <2>4. Covered(<<>>, A, l, B, m, 0, 0)
    BY DEF Covered
  <2>5. Walked(at, A, l, n, B, m, o)
    BY <1>0, <2>2, <2>3, <2>4 DEF Walked
  <2>6. at.ci1 + at.ci2 = 0
    BY <2>2
  <2> QED BY <2>1, <2>5, <2>6
<1>2. ASSUME NEW k \in Nat, k \in S
      PROVE  k + 1 \in S
  <2> SUFFICES ASSUME k + 1 <= n + o
               PROVE  Walked(f[k + 1], A, l, n, B, m, o) /\ f[k + 1].ci1 + f[k + 1].ci2 = k + 1
    OBVIOUS
  <2>1. k + 1 \in 1..(n + o) /\ (k + 1) - 1 = k /\ k < n + o
    BY <1>0
  <2>2. PICK at, next : at = f[k] /\ next = f[k + 1]
    OBVIOUS
  <2>3. next = TurnOf(A, l, n, B, m, o, at)
    BY <2>1, <2>2
  <2>4. Walked(at, A, l, n, B, m, o) /\ at.ci1 + at.ci2 = k
    BY <1>0, <1>2, <2>1, <2>2
  <2>5. at.ci1 + at.ci2 < n + o
    BY <2>1, <2>4
  <2>6. Walked(next, A, l, n, B, m, o) /\ next.ci1 + next.ci2 = at.ci1 + at.ci2 + 1
    BY ONLY <2>3, <2>4, <2>5, IsPair(A, l, n, B, m, o), TurnWalks
  <2> QED BY ONLY <2>2, <2>4, <2>6
<1>3. n + o \in S
  <2>1. n + o \in Nat
    BY <1>0
  <2> HIDE DEF S
  <2> QED BY <1>1, <1>2, <2>1, Induction
<1>4. PICK at : at = f[n + o]
  OBVIOUS
<1>5. Walked(at, A, l, n, B, m, o) /\ at.ci1 + at.ci2 = n + o
  BY <1>0, <1>3, <1>4
<1>6. at.ci1 = n /\ at.ci2 = o
  <2>1. at.ci1 \in Nat /\ at.ci2 \in Nat /\ at.ci1 <= n /\ at.ci2 <= o
    BY <1>5 DEF Walked, LoopStates
  <2> QED BY ONLY <1>0, <1>5, <2>1
<1> QED BY <1>4, <1>5, <1>6, Zenon DEF Walked, IsOverlaps

\* The intervals of s, counted from the i-th one.
BeginningsFrom(s, i) == [k \in Int |-> s.begin + (i + k) * s.period]

LEMMA OverlapsAre ==
  ASSUME NEW first \in IntervalSeqs, NEW second \in IntervalSeqs, NEW i1 \in Nat, NEW i2 \in Nat,
         NEW n, n = lcm(first.period, second.period) \div first.period,
         NEW o, o = lcm(first.period, second.period) \div second.period,
         NEW A, A = BeginningsFrom(first, i1), NEW B, B = BeginningsFrom(second, i2),
         IsPair(A, first.length, n, B, second.length, o)
  PROVE  IsOverlaps(Overlaps(first, second, i1, i2), A, first.length, n, B, second.length, o)
<1> DEFINE c1L == lcm(first.period, second.period) \div first.period
           c2L == lcm(first.period, second.period) \div second.period
           Turn(at) ==
             LET b1i    == first.begin + (i1 + at.ci1) * first.period
                 b2i    == second.begin + (i2 + at.ci2) * second.period
                 end1   == b1i + first.length
                 end2   == b2i + second.length
                 begin  == Max({b1i, b2i})
                 end    == Min({end1, end2})
                 ranges == at.ranges \o Optional(begin < end, [min |-> begin, max |-> end - 1])
             IN IF at.ci1 >= c1L /\ at.ci2 >= c2L THEN at
                ELSE IF end1 <= end2 THEN [ci1 |-> at.ci1 + 1, ci2 |-> at.ci2, ranges |-> ranges]
                ELSE [ci1 |-> at.ci1, ci2 |-> at.ci2 + 1, ranges |-> ranges]
           Eqn(t) == t = [k \in 0..(n + o) |->
                            IF k = 0 THEN [ci1 |-> 0, ci2 |-> 0, ranges |-> <<>>] ELSE Turn(t[k - 1])]
           t == CHOOSE x : Eqn(x)
<1>1. PICK l, m : l = first.length /\ m = second.length
  OBVIOUS
<1>2. IsPair(A, l, n, B, m, o)
  BY <1>1
<1>3. Overlaps(first, second, i1, i2) = t[c1L + c2L].ranges
  BY Zenon DEF Overlaps
<1>17. c1L = n /\ c2L = o
  OBVIOUS
<1> HIDE DEF c1L, c2L
<1>4. \A at \in LoopStates : Turn(at) = TurnOf(A, l, n, B, m, o, at)
  <2> SUFFICES ASSUME NEW at \in LoopStates PROVE Turn(at) = TurnOf(A, l, n, B, m, o, at)
    OBVIOUS
  <2>1. at.ci1 \in Int /\ at.ci2 \in Int
    BY DEF LoopStates
  <2>2. /\ A[at.ci1] = first.begin + (i1 + at.ci1) * first.period
        /\ B[at.ci2] = second.begin + (i2 + at.ci2) * second.period
    BY <2>1, Zenon DEF BeginningsFrom
  <2> QED BY <1>1, <1>17, <2>2, Zenon DEF TurnOf
<1>5. n \in Nat /\ o \in Nat /\ n + o \in Nat /\ IsComb(A, l) /\ IsComb(B, m)
  BY <1>2 DEF IsPair, Pos
<1> HIDE DEF Turn
<1>6. PICK G \in [1..(n + o) -> [LoopStates -> LoopStates]] :
        \A k \in 1..(n + o), at \in LoopStates : G[k][at] = Turn(at)
  <2> DEFINE G == [k \in 1..(n + o) |-> [at \in LoopStates |-> Turn(at)]]
  <2>1. \A at \in LoopStates : Turn(at) \in LoopStates
    BY <1>4, <1>5, TurnType, Zenon
  <2>2. G \in [1..(n + o) -> [LoopStates -> LoopStates]]
    BY <2>1
  <2>3. \A k \in 1..(n + o), at \in LoopStates : G[k][at] = Turn(at)
    OBVIOUS
  <2> HIDE DEF G
  <2> QED BY <2>2, <2>3
<1>7. Start \in LoopStates
  BY DEF Start, LoopStates
<1>8. PICK f \in [0..(n + o) -> LoopStates] : IsRecursion(f, n + o, Start, G)
  BY ONLY <1>5, <1>6, <1>7, RecursionExists
<1>9. ASSUME NEW k \in 1..(n + o)
      PROVE  k - 1 \in 0..(n + o) /\ f[k - 1] \in LoopStates /\ f[k] = Turn(f[k - 1])
  <2>1. k - 1 \in 0..(n + o)
    BY <1>5
  <2>2. f[k - 1] \in LoopStates
    BY <1>8, <2>1
  <2>3. f[k] = G[k][f[k - 1]]
    BY <1>8 DEF IsRecursion
  <2> QED BY <1>6, <2>1, <2>2, <2>3
<1>10. f[0] = Start
  BY <1>8 DEF IsRecursion
<1>11. Eqn(f)
  <2>1. ASSUME NEW k \in 0..(n + o)
        PROVE  f[k] = IF k = 0 THEN [ci1 |-> 0, ci2 |-> 0, ranges |-> <<>>] ELSE Turn(f[k - 1])
    <3>1. k = 0 \/ k \in 1..(n + o)
      BY <1>5
    <3> QED BY <1>9, <1>10, <3>1, Zenon DEF Start
  <2> QED BY <1>8, <1>17, <2>1
<1>12. Eqn(t)
  <2> HIDE DEF Eqn
  <2> QED BY <1>11
<1> HIDE DEF t
<1>13. \A k \in 0..(n + o) : t[k] = f[k]
  <2>1. t[0] = f[0]
    <3>1. 0 \in 0..(n + o)
      BY <1>5
    <3> QED BY <1>10, <1>12, <1>17, <3>1 DEF Start
  <2>2. ASSUME NEW k \in 1..(n + o), t[k - 1] = f[k - 1]
        PROVE  t[k] = f[k]
    <3>1. k \in 0..(n + o) /\ k # 0
      BY <1>5
    <3>2. t[k] = Turn(t[k - 1])
      BY ONLY <1>12, <1>17, <3>1
    <3> QED BY <1>9, <2>2, <3>2
  <2>3. AgreeStepwise(t, f, n + o)
    BY <2>1, <2>2 DEF AgreeStepwise
  <2>4. Agree(t, f, n + o)
    BY ONLY <1>5, <2>3, AgreeUpTo
  <2> QED BY <2>4 DEF Agree
<1>14. \A k \in 1..(n + o) : f[k] = TurnOf(A, l, n, B, m, o, f[k - 1])
  BY <1>4, <1>9
<1>15. IsOverlaps(f[n + o].ranges, A, l, n, B, m, o)
  BY ONLY <1>2, <1>10, <1>14, LoopWalks
<1>16. t[n + o] = f[n + o]
  BY <1>5, <1>13
<1> QED BY <1>1, <1>3, <1>15, <1>16, <1>17

-----------------------------------------------------------------------------
(* Repetitions of the overlaps *)

\* The intervals repeat themselves: n of them make a period of L.
IsPeriodic(A, l, n, N, M, L) ==
  /\ IsComb(A, l) /\ IsMultiples(N, n) /\ IsMultiples(M, L)
  /\ \A k \in Int, u \in Nat : A[k + N[u]] = A[k] + M[u]

\* The first of them is the first one to reach beyond W.
IsWindow(A, l, W) == A[-1] + l <= W /\ W < A[0] + l

LEMMA Shifted ==
  ASSUME NEW A, NEW l, NEW n, NEW N, NEW M, NEW L, IsPeriodic(A, l, n, N, M, L),
         NEW k \in Int, NEW u \in Nat, NEW x \in Int
  PROVE  /\ N[u] \in Nat /\ M[u] \in Nat
         /\ At(A, l, k, x) <=> At(A, l, k + N[u], x + M[u])
<1>1. N[u] \in Nat /\ M[u] \in Nat /\ IsComb(A, l)
  BY DEF IsPeriodic, IsMultiples
<1>2. k + N[u] \in Int /\ A[k + N[u]] = A[k] + M[u]
  BY <1>1 DEF IsPeriodic
<1>3. A[k] \in Int /\ l \in Nat
  BY <1>1, CombType
<1>4. PICK a \in Int, c \in Int, d \in Nat : a = A[k] /\ c = A[k + N[u]] /\ d = M[u] /\ c = a + d
  BY <1>1, <1>2, <1>3
<1>5. At(A, l, k, x) <=> a <= x /\ x < a + l
  BY <1>4, Zenon DEF At
<1>6. At(A, l, k + N[u], x + d) <=> c <= x + d /\ x + d < c + l
  BY <1>4, Zenon DEF At
<1>7. (a <= x /\ x < a + l) <=> (c <= x + d /\ x + d < c + l)
  BY ONLY <1>3, <1>4, x \in Int
<1> QED BY <1>1, <1>4, <1>5, <1>6, <1>7

LEMMA PairOfPeriodic ==
  ASSUME NEW A, NEW l, NEW n, NEW N, NEW B, NEW m, NEW o, NEW O, NEW M, NEW L, NEW W \in Int,
         IsPeriodic(A, l, n, N, M, L), IsPeriodic(B, m, o, O, M, L), IsWindow(A, l, W), IsWindow(B, m, W)
  PROVE  /\ IsPair(A, l, n, B, m, o)
         /\ A[n - 1] + l <= W + L /\ B[o - 1] + m <= W + L /\ l <= L /\ m <= L
<1>1. /\ IsComb(A, l) /\ IsComb(B, m) /\ n \in Pos /\ o \in Pos /\ L \in Pos
      /\ N[1] = n /\ O[1] = o /\ M[1] = L
  BY Zenon DEF IsPeriodic, IsMultiples
<1>2. \A k \in Int : A[k + n] = A[k] + L /\ B[k + o] = B[k] + L
  BY <1>1 DEF IsPeriodic
<1>3. /\ l \in Nat /\ m \in Nat /\ L \in Nat
      /\ -1 \in Int /\ 0 \in Int /\ n \in Int /\ o \in Int
      /\ -1 + n = n - 1 /\ 0 + n = n /\ -1 + o = o - 1 /\ 0 + o = o
  BY <1>1, CombType DEF Pos
<1>4. A[n - 1] = A[-1] + L /\ A[n] = A[0] + L /\ B[o - 1] = B[-1] + L /\ B[o] = B[0] + L
  BY <1>2, <1>3
<1>5. A[-1] \in Int /\ A[0] \in Int /\ B[-1] \in Int /\ B[0] \in Int
  BY <1>1, <1>3, CombType
<1>6. A[-1] + l <= W /\ W < A[0] + l /\ B[-1] + m <= W /\ W < B[0] + m
  BY DEF IsWindow
<1>7. A[n - 1] + l <= B[o] + m /\ B[o - 1] + m < A[n] + l /\ A[n - 1] + l <= W + L /\ B[o - 1] + m <= W + L
  BY ONLY <1>3, <1>4, <1>5, <1>6, W \in Int
<1>8. A[0] + l <= A[n] /\ B[0] + m <= B[o]
  <2>1. 0 < n /\ 0 < o
    BY <1>1 DEF Pos
  <2> QED BY <1>1, <1>3, <2>1 DEF IsComb
<1>9. l <= L /\ m <= L
  BY ONLY <1>3, <1>4, <1>5, <1>8
<1> QED BY <1>1, <1>7, <1>9 DEF IsPair

\* What a sequence describes beyond W, and where it ends.
IsReach(A, l, W, E, El) ==
  /\ E \in Int
  /\ \A x \in Int : x \in El /\ W <= x => \E r \in Nat : At(A, l, r, x)
  /\ \A x \in Int, r \in Nat : At(A, l, r, x) => (x \in El <=> x <= E)
  /\ \A x \in Int, r \in Nat : At(A, l, r, x) /\ x <= E => A[r] + l - 1 <= E

\* The repetitions of a range, up to E.
InRepeat(range, M, E, x) == \E t \in Nat : M[t] <= E - range.max /\ InRange(range, x - M[t])

LEMMA RepeatsDisjoint ==
  ASSUME NEW A, NEW l, NEW n, NEW N, NEW B, NEW m, NEW o, NEW O, NEW M, NEW L,
         IsPeriodic(A, l, n, N, M, L), IsPeriodic(B, m, o, O, M, L),
         NEW a \in Nat, NEW b \in Nat, a < n \/ b < o, NEW range, IsOverlap(range, A, l, B, m, a, b),
         NEW c \in Nat, NEW d \in Nat, c < n \/ d < o, NEW other, IsOverlap(other, A, l, B, m, c, d),
         \A y \in Int : ~(InRange(range, y) /\ InRange(other, y)),
         NEW x \in Int, NEW E, InRepeat(range, M, E, x), InRepeat(other, M, E, x)
  PROVE  FALSE
<1>20. M \in [Nat -> Nat] /\ N \in [Nat -> Nat] /\ O \in [Nat -> Nat] /\ n \in Nat /\ o \in Nat
  BY Zenon DEF IsPeriodic, IsMultiples, Pos
<1>0. /\ IsComb(A, l) /\ IsComb(B, m)
      /\ \A t, u \in Nat : t < u => N[t] + n <= N[u] /\ O[t] + o <= O[u]
  BY Zenon DEF IsPeriodic, IsMultiples
<1>1. PICK t \in Nat : InRange(range, x - M[t])
  BY DEF InRepeat
<1>2. PICK u \in Nat : InRange(other, x - M[u])
  BY DEF InRepeat
<1>3. M[t] \in Nat /\ M[u] \in Nat /\ N[t] \in Nat /\ N[u] \in Nat /\ O[t] \in Nat /\ O[u] \in Nat
      /\ x - M[t] \in Int /\ x - M[u] \in Int
  BY ONLY <1>20, t \in Nat, u \in Nat, x \in Int
<1>6. At(A, l, a + N[t], x) /\ At(B, m, b + O[t], x)
  <2>1. At(A, l, a, x - M[t]) /\ At(B, m, b, x - M[t])
    BY <1>1, <1>3 DEF IsOverlap
  <2>2. a \in Int /\ b \in Int /\ (x - M[t]) + M[t] = x
    BY <1>3
  <2>3. At(A, l, a + N[t], (x - M[t]) + M[t]) /\ At(B, m, b + O[t], (x - M[t]) + M[t])
    BY <1>3, <2>1, <2>2, Shifted
  <2> QED BY <2>2, <2>3
<1>7. At(A, l, c + N[u], x) /\ At(B, m, d + O[u], x)
  <2>1. At(A, l, c, x - M[u]) /\ At(B, m, d, x - M[u])
    BY <1>2, <1>3 DEF IsOverlap
  <2>2. c \in Int /\ d \in Int /\ (x - M[u]) + M[u] = x
    BY <1>3
  <2>3. At(A, l, c + N[u], (x - M[u]) + M[u]) /\ At(B, m, d + O[u], (x - M[u]) + M[u])
    BY <1>3, <2>1, <2>2, Shifted
  <2> QED BY <2>2, <2>3
<1>8. a + N[t] = c + N[u] /\ b + O[t] = d + O[u]
  <2>1. a + N[t] \in Int /\ c + N[u] \in Int /\ b + O[t] \in Int /\ d + O[u] \in Int
    BY ONLY <1>3, a \in Nat, b \in Nat, c \in Nat, d \in Nat
  <2> QED BY <1>0, <1>6, <1>7, <2>1, OneAt
<1>9. CASE t = u
  BY <1>1, <1>2, <1>3, <1>9
<1>10. CASE t < u
  <2>1. N[t] + n <= N[u] /\ O[t] + o <= O[u]
    BY <1>0, <1>10
  <2> QED BY ONLY <1>20, <1>3, a < n \/ b < o, <1>8, <2>1, a \in Nat, b \in Nat, c \in Nat, d \in Nat
<1>11. CASE u < t
  <2>1. N[u] + n <= N[t] /\ O[u] + o <= O[t]
    BY <1>0, <1>11
  <2> QED BY ONLY <1>20, <1>3, c < n \/ d < o, <1>8, <2>1, a \in Nat, b \in Nat, c \in Nat, d \in Nat
<1> QED BY <1>9, <1>10, <1>11

LEMMA RepeatsWithin ==
  ASSUME NEW A, NEW l, NEW n, NEW N, NEW B, NEW m, NEW M, NEW L, NEW W, NEW EA, NEW SA, NEW E \in Int, E <= EA,
         IsPeriodic(A, l, n, N, M, L), IsReach(A, l, W, EA, SA),
         NEW range, NEW a \in Nat, NEW b \in Nat, IsOverlap(range, A, l, B, m, a, b),
         NEW x \in Int, InRepeat(range, M, E, x)
  PROVE  x \in SA
<1>0. M \in [Nat -> Nat] /\ N \in [Nat -> Nat] /\ EA \in Int
  BY DEF IsPeriodic, IsMultiples, IsReach
<1>1. PICK t \in Nat : M[t] <= E - range.max /\ InRange(range, x - M[t])
  BY DEF InRepeat
<1>2. M[t] \in Nat /\ N[t] \in Nat /\ x - M[t] \in Int /\ (x - M[t]) + M[t] = x /\ range.max \in Int
  <2>1. range.max \in Int
    BY DEF IsOverlap, Ranges
  <2> QED BY <1>0, <2>1
<1>3. At(A, l, a, x - M[t])
  BY <1>1, <1>2 DEF IsOverlap
<1>4. At(A, l, a + N[t], x) /\ a + N[t] \in Nat
  <2>1. a \in Int /\ a + N[t] \in Nat
    BY <1>2
  <2>2. At(A, l, a + N[t], (x - M[t]) + M[t])
    BY <1>2, <1>3, <2>1, Shifted
  <2> QED BY <1>2, <2>1, <2>2
<1>5. x <= EA
  <2>1. x - M[t] <= range.max
    BY <1>1 DEF InRange
  <2> QED BY <1>0, <1>1, <1>2, <2>1
<1> QED BY <1>4, <1>5 DEF IsReach

\* The end of a range is before the end of the sequence, so far as the index y of the range is.
LEMMA RepeatFits ==
  ASSUME NEW A, NEW l, NEW n, NEW N, NEW B, NEW m, NEW M, NEW L, NEW W, NEW EA, NEW SA,
         IsPeriodic(A, l, n, N, M, L), IsReach(A, l, W, EA, SA),
         NEW range, NEW a \in Nat, NEW b \in Nat, IsOverlap(range, A, l, B, m, a, b),
         NEW t \in Nat, NEW y \in Int, InRange(range, y), y + M[t] <= EA
  PROVE  range.max + M[t] <= EA
<1>1. M[t] \in Nat /\ N[t] \in Nat /\ EA \in Int /\ IsComb(A, l)
  BY DEF IsPeriodic, IsMultiples, IsReach
<1>2. range.max \in Int /\ InRange(range, range.max)
  <2>1. range \in Ranges /\ range.min <= range.max
    BY DEF IsOverlap
  <2>2. range.max \in Int /\ range.max <= range.max
    BY ONLY <2>1 DEF Ranges
  <2> QED BY <2>1, <2>2 DEF InRange
<1>3. At(A, l, a, y) /\ At(A, l, a, range.max)
  BY <1>2 DEF IsOverlap
<1>4. a \in Int /\ a + N[t] \in Nat /\ y + M[t] \in Int /\ range.max + M[t] \in Int
  BY <1>1, <1>2
<1>5. At(A, l, a + N[t], y + M[t]) /\ At(A, l, a + N[t], range.max + M[t])
  BY <1>2, <1>3, <1>4, Shifted
<1>6. A[a + N[t]] + l - 1 <= EA
  BY <1>4, <1>5 DEF IsReach
<1>7. range.max + M[t] < A[a + N[t]] + l
  BY <1>5 DEF At
<1>8. A[a + N[t]] \in Int /\ l \in Int
  BY <1>1, <1>4, CombType
<1> QED BY ONLY <1>1, <1>4, <1>6, <1>7, <1>8

LEMMA RepeatsCover ==
  ASSUME NEW A, NEW l, NEW n, NEW N, NEW B, NEW m, NEW o, NEW O, NEW M, NEW L,
         IsPeriodic(A, l, n, N, M, L), IsPeriodic(B, m, o, O, M, L),
         NEW W, NEW EA, NEW SA, IsReach(A, l, W, EA, SA), NEW EB, NEW SB, IsReach(B, m, W, EB, SB),
         NEW E, E = Min({EA, EB}),
         NEW ranges, IsOverlaps(ranges, A, l, n, B, m, o),
         NEW x \in Int, W <= x, x \in SA, x \in SB
  PROVE  \E i \in 1..Len(ranges) : InRepeat(ranges[i], M, E, x)
<1>20. M \in [Nat -> Nat] /\ N \in [Nat -> Nat] /\ O \in [Nat -> Nat] /\ n \in Nat /\ o \in Nat
  BY Zenon DEF IsPeriodic, IsMultiples, Pos
<1>0. /\ IsComb(A, l) /\ IsComb(B, m)
      /\ \A t, u \in Nat : t < u => N[t] + n <= N[u] /\ O[t] + o <= O[u]
  BY Zenon DEF IsPeriodic, IsMultiples
<1>1. PICK r \in Nat, q \in Nat : At(A, l, r, x) /\ At(B, m, q, x)
  BY DEF IsReach
<1>2. \E t \in Nat : N[t] <= r /\ O[t] <= q /\ (r < N[t] + n \/ q < O[t] + o)
  <2>1. PICK t \in Nat : N[t] <= r /\ r < N[t] + n
    BY DEF IsPeriodic, IsMultiples
  <2>2. PICK u \in Nat : O[u] <= q /\ q < O[u] + o
    BY DEF IsPeriodic, IsMultiples
  <2>3. N[t] \in Nat /\ N[u] \in Nat /\ O[t] \in Nat /\ O[u] \in Nat
    BY <1>20
  <2>4. CASE t < u
    <3>1. O[t] + o <= O[u]
      BY <1>0, <2>4
    <3>2. O[t] <= q
      BY ONLY <1>20, <2>2, <2>3, <3>1, q \in Nat
    <3> QED BY <2>1, <3>2
  <2>5. CASE t = u
    BY <2>1, <2>2, <2>5
  <2>6. CASE u < t
    <3>1. N[u] + n <= N[t]
      BY <1>0, <2>6
    <3>2. N[u] <= r
      BY ONLY <1>20, <2>1, <2>3, <3>1, r \in Nat
    <3> QED BY <2>2, <3>2
  <2> QED BY <2>4, <2>5, <2>6
<1>3. PICK t \in Nat : N[t] <= r /\ O[t] <= q /\ (r < N[t] + n \/ q < O[t] + o)
  BY <1>2
<1>4. PICK Mt \in Nat, Nt \in Nat, Ot \in Nat : Mt = M[t] /\ Nt = N[t] /\ Ot = O[t]
  BY <1>20
<1>5. PICK c \in Nat, d \in Nat, y \in Int :
        r = c + Nt /\ q = d + Ot /\ x = y + Mt /\ y = x - Mt /\ (c < n \/ d < o)
  <2>0. Nt <= r /\ Ot <= q /\ (r < Nt + n \/ q < Ot + o)
    BY <1>3, <1>4
  <2>1. r - Nt \in Nat /\ q - Ot \in Nat /\ x - Mt \in Int /\ (r - Nt < n \/ q - Ot < o)
    BY ONLY <1>20, <2>0, r \in Nat, q \in Nat, x \in Int, Nt \in Nat, Ot \in Nat, Mt \in Nat
  <2>2. r = (r - Nt) + Nt /\ q = (q - Ot) + Ot /\ x = (x - Mt) + Mt
    OBVIOUS
  <2> QED BY <2>1, <2>2
<1>6. At(A, l, c, y) /\ At(B, m, d, y)
  <2>1. c \in Int /\ d \in Int
    OBVIOUS
  <2>2. At(A, l, c + N[t], y + M[t]) /\ At(B, m, d + O[t], y + M[t])
    BY <1>1, <1>4, <1>5
  <2> QED BY <2>1, <2>2, Shifted
<1>7. PICK i \in 1..Len(ranges) : InRange(ranges[i], y)
  <2>1. Covers(ranges, y) \/ (n <= c /\ o <= d)
    BY <1>6 DEF IsOverlaps, Covered
  <2>2. ~(n <= c /\ o <= d)
    BY ONLY <1>20, <1>5, c \in Nat, d \in Nat
  <2> QED BY <2>1, <2>2 DEF Covers
<1>8. PICK a \in Nat, b \in Nat : IsOverlap(ranges[i], A, l, B, m, a, b)
  BY DEF IsOverlaps, Found
<1>9. EA \in Int /\ EB \in Int /\ x <= EA /\ x <= EB
  BY <1>1 DEF IsReach
<1>10. ranges[i].max + M[t] <= EA
  <2>1. y + M[t] <= EA
    BY <1>4, <1>5, <1>9
  <2> QED BY ONLY <1>7, <1>8, <2>1, IsPeriodic(A, l, n, N, M, L), IsReach(A, l, W, EA, SA), t \in Nat, y \in Int,
                  a \in Nat, b \in Nat, RepeatFits
<1>11. ranges[i].max + M[t] <= EB
  <2>1. y + M[t] <= EB
    BY <1>4, <1>5, <1>9
  <2>2. IsOverlap(ranges[i], B, m, A, l, b, a)
    BY <1>8, Zenon DEF IsOverlap
  <2> QED BY ONLY <1>7, <2>1, <2>2, IsPeriodic(B, m, o, O, M, L), IsReach(B, m, W, EB, SB), t \in Nat, y \in Int,
                  a \in Nat, b \in Nat, RepeatFits
<1>12. E = (IF EA <= EB THEN EA ELSE EB)
  BY <1>9, OfTwo
<1>13. PICK max \in Int : max = ranges[i].max
  BY <1>8 DEF IsOverlap, Ranges
<1>14. M[t] <= E - ranges[i].max /\ x - M[t] = y
  <2>1. max + Mt <= EA /\ max + Mt <= EB
    BY <1>4, <1>10, <1>11, <1>13
  <2>2. Mt <= E - max
    BY ONLY <1>9, <1>12, <2>1, max \in Int, Mt \in Nat
  <2> QED BY <1>4, <1>5, <1>13, <2>2
<1>15. InRepeat(ranges[i], M, E, x)
  BY <1>7, <1>14, Zenon DEF InRepeat
<1> QED BY <1>15

-----------------------------------------------------------------------------
(* The general intersection *)

LEMMA ExactDivision ==
  ASSUME NEW a \in Pos, NEW b \in Nat, NEW x, x = a * b
  PROVE  x \div a = b
<1>1. x = a * b + 0 /\ 0 \in 0..(a - 1) /\ a \in Nat \ {0}
  BY DEF Pos
<1> QED BY <1>1, UniqueDivision

\* The two factors that the LCM has besides the numbers.
LEMMA LcmIs ==
  ASSUME NEW a \in Pos, NEW b \in Pos
  PROVE  \E n, o \in Pos : /\ lcm(a, b) \in Pos
                           /\ lcm(a, b) = a * n /\ lcm(a, b) = b * o
                           /\ lcm(a, b) \div a = n /\ lcm(a, b) \div b = o
<1>0. a \in Nat \ {0} /\ b \in Nat \ {0}
  BY DEF Pos
<1>1. PICK least \in Nat : least = Min({a, b}) /\ least >= 1
  <2>1. Min({a, b}) = (IF a <= b THEN a ELSE b)
    BY <1>0, OfTwo
  <2> QED BY <1>0, <2>1
<1>2. PICK S : S = {d \in 1..least : a % d = 0 /\ b % d = 0}
  OBVIOUS
<1>3. gcd(a, b) = Max(S)
  BY <1>1, <1>2 DEF gcd
<1>4. S \in SUBSET (0..least) /\ S # {}
  <2>1. a % 1 = 0 /\ b % 1 = 0
    BY <1>0
  <2>2. 1 \in S
    BY <1>1, <1>2, <2>1
  <2>3. 1..least \subseteq 0..least
    OBVIOUS
  <2> QED BY <1>2, <2>2, <2>3
<1>5. PICK g : g = gcd(a, b)
  OBVIOUS
<1>6. g \in S
  BY <1>3, <1>4, <1>5, MaxOf
<1>7. g \in Pos /\ a % g = 0 /\ b % g = 0
  BY <1>2, <1>6 DEF Pos
<1>8. PICK o \in Nat : a = g * o
  <2>1. a \div g \in Nat /\ a = g * (a \div g) + (a % g)
    BY <1>0, <1>7, Division DEF Pos
  <2> QED BY <1>7, <2>1 DEF Pos
<1>9. PICK n \in Nat : b = g * n
  <2>1. b \div g \in Nat /\ b = g * (b \div g) + (b % g)
    BY <1>0, <1>7, Division DEF Pos
  <2> QED BY <1>7, <2>1 DEF Pos
<1>10. o # 0 /\ n # 0
  <2>1. g * 0 = 0
    BY <1>7 DEF Pos
  <2> QED BY <1>0, <1>8, <1>9, <2>1
<1>11. PICK L \in Nat : L = a * n
  BY <1>0, Product
<1>12. L = b * o
  <2>1. (g * o) * n = (g * n) * o
    BY <1>7 DEF Pos
  <2> QED BY <1>8, <1>9, <1>11, <2>1
<1>13. a * b = g * L
  <2>1. a * (g * n) = g * (a * n)
    BY <1>0, <1>7 DEF Pos
  <2> QED BY <1>9, <1>11, <2>1
<1>14. lcm(a, b) = L
  <2>1. (a * b) \div g = L
    BY ONLY <1>7, <1>13, L \in Nat, ExactDivision
  <2> QED BY <1>5, <2>1 DEF lcm
<1>15. L \div a = n /\ L \div b = o
  BY ONLY <1>11, <1>12, n \in Nat, o \in Nat, a \in Pos, b \in Pos, ExactDivision
<1>16. n \in Pos /\ o \in Pos
  BY <1>10 DEF Pos
<1>17. L \in Pos
  BY <1>11, <1>16, PositiveProduct
<1> QED BY <1>11, <1>12, <1>14, <1>15, <1>16, <1>17

LEMMA FromBeginning ==
  ASSUME NEW s \in IntervalSeqs, NEW F, IsBeginning(F, s), NEW i \in Nat
  PROVE  \A k \in Int : BeginningsFrom(s, i)[k] = F[i + k] /\ F[i + k] \in Int
<1> SUFFICES ASSUME NEW k \in Int
             PROVE  BeginningsFrom(s, i)[k] = F[i + k] /\ F[i + k] \in Int
  OBVIOUS
<1>1. i + k \in Int /\ s.period \in Nat
  BY IntervalSeqType DEF Pos
<1>2. F[i + k] = s.begin + s.period * (i + k) /\ F[i + k] \in Int
  BY <1>1 DEF IsBeginning
<1>3. s.period * (i + k) = (i + k) * s.period
  BY <1>1
<1>4. BeginningsFrom(s, i)[k] = s.begin + (i + k) * s.period
  BY Zenon DEF BeginningsFrom
<1> QED BY <1>2, <1>3, <1>4

LEMMA PeriodicFrom ==
  ASSUME NEW s \in IntervalSeqs, NEW i \in Nat, NEW A, A = BeginningsFrom(s, i),
         NEW n \in Pos, NEW L \in Pos, L = s.period * n
  PROVE  IsPeriodic(A, s.length, n, [t \in Nat |-> n * t], [t \in Nat |-> L * t], L)
<1>1. PICK F : IsBeginning(F, s)
  BY BeginningIs
<1>2. \A k \in Int : A[k] = F[i + k] /\ F[i + k] \in Int
  BY <1>1, FromBeginning
<1>3. PICK b \in Int, p \in Nat, l \in Nat : b = s.begin /\ p = s.period /\ l = s.length /\ l <= p /\ l \in Pos
  BY IntervalSeqType DEF Pos
<1>4. IsComb(A, l)
  <2>1. A \in [Int -> Int]
    <3>1. \A k \in Int : A[k] \in Int
      BY <1>2
    <3> QED BY <3>1 DEF BeginningsFrom
  <2>2. ASSUME NEW j \in Int, NEW k \in Int, j < k
        PROVE  A[j] + l <= A[k]
    <3>1. i + j \in Int /\ i + k \in Int /\ i + j < i + k
      BY <2>2
    <3>2. F[i + j] + p <= F[i + k]
      BY <1>1, <1>3, <3>1 DEF IsBeginning
    <3>3. A[j] = F[i + j] /\ A[k] = F[i + k] /\ A[j] \in Int /\ A[k] \in Int
      BY <1>2
    <3> QED BY ONLY <1>3, <3>2, <3>3
  <2> QED BY <1>3, <2>1, <2>2 DEF IsComb
<1>5. PICK N, M : N = [t \in Nat |-> n * t] /\ M = [t \in Nat |-> L * t]
  OBVIOUS
<1>6. IsMultiples(N, n) /\ IsMultiples(M, L)
  BY <1>5, MultiplesExist
<1>7. ASSUME NEW k \in Int, NEW u \in Nat
      PROVE  A[k + N[u]] = A[k] + M[u]
  <2>1. n \in Nat /\ L \in Nat /\ n * u \in Nat
    BY Product DEF Pos
  <2>2. PICK h \in Nat : h = n * u /\ N[u] = h
    BY <1>5, <2>1
  <2>3. k + h \in Int
    OBVIOUS
  <2>4. A[k + h] = b + (i + (k + h)) * p /\ A[k] = b + (i + k) * p
    BY <1>3, <2>3, Zenon DEF BeginningsFrom
  <2>5. (i + (k + h)) * p = (i + k) * p + h * p
    OBVIOUS
  <2>6. h * p = L * u
    <3>1. L = p * n
      BY <1>3
    <3>2. (n * u) * p = (p * n) * u
      BY <2>1
    <3> QED BY <2>2, <3>1, <3>2
  <2>7. M[u] = L * u
    BY <1>5
  <2>8. (i + k) * p \in Int /\ h * p \in Int
    OBVIOUS
  <2>9. PICK v \in Int, w \in Int : v = (i + k) * p /\ w = h * p
    BY <2>8
  <2>10. A[k + h] = b + (v + w) /\ A[k] = b + v /\ M[u] = w
    BY <2>4, <2>5, <2>6, <2>7, <2>9
  <2>11. b + (v + w) = (b + v) + w
    OBVIOUS
  <2> QED BY <2>2, <2>10, <2>11
<1> QED BY <1>3, <1>4, <1>5, <1>6, <1>7, Zenon DEF IsPeriodic

\* The first interval to look at.
LEMMA WindowFrom ==
  ASSUME NEW s \in IntervalSeqs, NEW begin \in Int, NEW i, i = FirstInterval(s, begin),
         NEW A, A = BeginningsFrom(s, i), NEW W, W = Max({s.begin, begin})
  PROVE  /\ i \in Nat /\ A[0] = s.begin + i * s.period /\ A[0] >= s.begin /\ W \in Int
         /\ IsWindow(A, s.length, W)
         /\ A[-1] + s.length <= begin \/ A[0] = s.begin
<1>1. PICK F : IsBeginning(F, s)
  BY BeginningIs
<1>2. i \in Nat /\ begin < F[i] + s.length /\ \A k \in Nat : k < i => F[k] + s.length <= begin
  BY <1>1, FirstIntervalIs
<1>3. \A k \in Int : A[k] = F[i + k] /\ F[i + k] \in Int
  BY <1>1, <1>2, FromBeginning
<1>4. PICK b \in Int, p \in Nat, l \in Nat : b = s.begin /\ p = s.period /\ l = s.length /\ l <= p /\ l > 0
  BY IntervalSeqType DEF Pos
<1>5. i + 0 = i /\ i + (-1) = i - 1 /\ i - 1 \in Int /\ 0 \in Int /\ -1 \in Int
  BY <1>2
<1>6. A[0] = F[i] /\ A[-1] = F[i - 1] /\ A[0] \in Int /\ A[-1] \in Int
  BY <1>3, <1>5
<1>7. A[0] = s.begin + i * s.period
  <2>1. A[0] = s.begin + (i + 0) * s.period
    BY <1>5, Zenon DEF BeginningsFrom
  <2> QED BY <1>5, <2>1
<1>8. F[0] = b /\ \A j, k \in Int : j < k => F[j] + p <= F[k]
  BY <1>1, <1>4 DEF IsBeginning
<1>9. A[-1] + p <= A[0]
  BY <1>2, <1>5, <1>6, <1>8
<1>10. A[0] >= b /\ (A[-1] + l <= begin \/ A[0] = b)
  <2>1. CASE i = 0
    BY <1>4, <1>6, <1>8, <2>1
  <2>2. CASE i > 0
    <3>1. i - 1 \in Nat /\ i - 1 < i
      BY <1>2, <2>2
    <3>2. F[i - 1] + l <= begin
      BY <1>2, <1>4, <3>1
    <3>3. F[0] + p <= F[i] /\ F[0] \in Int
      BY <1>2, <1>4, <1>8, <2>2
    <3> QED BY <1>4, <1>6, <1>8, <3>2, <3>3
  <2> QED BY <1>2, <2>1, <2>2
<1>11. W = (IF b >= begin THEN b ELSE begin)
  BY <1>4, OfTwo
<1>12. begin < A[0] + l
  BY <1>2, <1>4, <1>6
<1>13. A[-1] + l <= W /\ W < A[0] + l /\ W \in Int
  BY ONLY <1>4, <1>6, <1>9, <1>10, <1>11, <1>12, begin \in Int
<1> QED BY <1>2, <1>4, <1>7, <1>10, <1>13 DEF IsWindow

LEMMA ReachFrom ==
  ASSUME NEW s \in IntervalSeqs, NEW i \in Nat, NEW A, A = BeginningsFrom(s, i), NEW W \in Int,
         IsWindow(A, s.length, W), IsComb(A, s.length)
  PROVE  IsReach(A, s.length, W, Ending(s), Elements(s))
<1>1. PICK F : IsBeginning(F, s)
  BY BeginningIs
<1>2. \A k \in Int : A[k] = F[i + k] /\ F[i + k] \in Int
  BY <1>1, FromBeginning
<1>3. PICK l \in Nat, p \in Nat, c \in Nat : l = s.length /\ p = s.period /\ c = s.count /\ l <= p /\ l > 0 /\ c > 0
  BY IntervalSeqType DEF Pos
<1>4. PICK E \in Int : E = Ending(s) /\ E = F[c - 1] + l - 1 /\ F[c - 1] \in Int
  <2>1. F[c - 1] \in Int
    BY <1>1 DEF IsBeginning
  <2> QED BY <1>1, <1>3, <2>1, EndingIs
<1>5. \A x \in Int : x \in Elements(s) <=> \E k \in 0..(c - 1) : F[k] <= x /\ x < F[k] + l
  BY <1>1, <1>3, ElementsByBeginning
<1>6. IsComb(F, l)
  <2>1. F \in [Int -> Int]
    BY <1>1 DEF IsBeginning
  <2>2. ASSUME NEW j \in Int, NEW k \in Int, j < k
        PROVE  F[j] + l <= F[k]
    <3>1. F[j] + p <= F[k]
      BY <1>1, <1>3, <2>2 DEF IsBeginning
    <3>2. F[j] \in Int /\ F[k] \in Int
      BY <2>1
    <3> QED BY <1>3, <3>1, <3>2
  <2>3. l \in Pos
    BY <1>3 DEF Pos
  <2> QED BY <2>1, <2>2, <2>3 DEF IsComb
<1>7. \A x \in Int, r \in Int : At(A, l, r, x) <=> At(F, l, i + r, x)
  BY <1>2 DEF At
<1>8. ASSUME NEW x \in Int, x \in Elements(s), W <= x
      PROVE  \E r \in Nat : At(A, l, r, x)
  <2>1. PICK k \in 0..(c - 1) : F[k] <= x /\ x < F[k] + l
    BY <1>5, <1>8
  <2>2. PICK r \in Int : r = k - i /\ k = i + r
    <3>1. k - i \in Int /\ k = i + (k - i)
      OBVIOUS
    <3> QED BY <3>1
  <2>3. At(A, l, r, x)
    <3>1. At(F, l, i + r, x)
      BY <2>1, <2>2 DEF At
    <3> QED BY <1>7, <3>1
  <2>4. r \in Nat
    <3> SUFFICES ASSUME r <= -1 PROVE FALSE
      OBVIOUS
    <3>1. -1 \in Int /\ A[r] \in Int /\ A[-1] \in Int
      BY <1>2
    <3>2. A[r] <= A[-1]
      BY <1>3, <3>1, CombMonotonic
    <3>3. A[-1] + l <= W
      BY <1>3 DEF IsWindow
    <3>4. x < A[r] + l
      BY <2>3 DEF At
    <3> QED BY ONLY <1>8, <3>1, <3>2, <3>3, <3>4, x \in Int, W \in Int, l \in Nat
  <2> QED BY <2>3, <2>4
<1>9. ASSUME NEW x \in Int, NEW r \in Nat, At(A, l, r, x)
      PROVE  /\ x \in Elements(s) <=> x <= E
             /\ x <= E => A[r] + l - 1 <= E
  <2>1. PICK k \in Nat : k = i + r /\ At(F, l, k, x) /\ A[r] = F[k]
    BY <1>2, <1>7, <1>9
  <2>2. F[k] \in Int /\ F[k] <= x /\ x < F[k] + l
    <3>1. k \in Int
      OBVIOUS
    <3> QED BY <1>6, <2>1, <3>1, CombType DEF At
  <2>3. CASE k <= c - 1
    <3>1. F[k] <= F[c - 1]
      BY <1>3, <1>6, <2>3, CombMonotonic
    <3>2. A[r] + l - 1 <= E /\ x <= E
      BY ONLY <1>4, <2>1, <2>2, <3>1, x \in Int, l \in Nat
    <3>3. x \in Elements(s)
      BY <1>5, <2>2, <2>3
    <3> QED BY <3>2, <3>3
  <2>4. CASE c - 1 < k
    <3>1. F[c - 1] + l <= F[k]
      <4>1. c - 1 \in Int /\ k \in Int
        BY <1>3
      <4>2. \A j, h \in Int : j < h => F[j] + l <= F[h]
        BY <1>6, Zenon DEF IsComb
      <4> QED BY <2>4, <4>1, <4>2, Zenon
    <3>2. ~(x <= E)
      BY ONLY <1>4, <2>2, <3>1, x \in Int, l \in Nat
    <3>3. x \notin Elements(s)
      <4> SUFFICES ASSUME NEW j \in 0..(c - 1), At(F, l, j, x) PROVE FALSE
        BY <1>5 DEF At
      <4>1. j = k
        BY <1>6, <2>1, OneAt
      <4> QED BY <2>4, <4>1
    <3> QED BY <3>2, <3>3
  <2> QED BY <1>3, <2>3, <2>4
<1> QED BY <1>3, <1>4, <1>8, <1>9, Zenon DEF IsReach

\* Two sequences of one period, of which one is in the gaps of the other, have nothing in common.
LEMMA GapsApart ==
  ASSUME NEW s \in IntervalSeqs, NEW t \in IntervalSeqs, s.period = t.period,
         NEW A, A = BeginningsFrom(s, FirstInterval(s, t.begin)),
         NEW B, B = BeginningsFrom(t, FirstInterval(t, s.begin)),
         t.length < A[0] - B[0]
  PROVE  Elements(s) \cap Elements(t) = {}
<1>1. PICK p \in Nat, l \in Nat, m \in Nat, bs \in Int, bt \in Int :
        p = s.period /\ p = t.period /\ l = s.length /\ m = t.length /\ bs = s.begin /\ bt = t.begin /\ p \in Pos
  BY IntervalSeqType DEF Pos
<1>2. PICK W : W = Max({bs, bt})
  OBVIOUS
<1>3. W = Max({bt, bs})
  <2>1. {bs, bt} = {bt, bs}
    OBVIOUS
  <2> QED BY <1>2, <2>1
<1>4. /\ FirstInterval(s, bt) \in Nat /\ A[0] >= bs /\ W \in Int /\ IsWindow(A, l, W)
      /\ A[-1] + l <= bt \/ A[0] = bs
  BY <1>1, <1>2, WindowFrom
<1>5. FirstInterval(t, bs) \in Nat /\ B[0] >= bt /\ IsWindow(B, m, W)
  BY <1>1, <1>3, WindowFrom
<1>6. PICK N, M : N = [u \in Nat |-> 1 * u] /\ M = [u \in Nat |-> p * u]
  OBVIOUS
<1>7. 1 \in Pos /\ p = p * 1
  BY DEF Pos
<1>8. IsPeriodic(A, l, 1, N, M, p) /\ IsPeriodic(B, m, 1, N, M, p)
  BY <1>1, <1>4, <1>5, <1>6, <1>7, PeriodicFrom
<1>9. \A u \in Nat : M[u] \in Nat /\ A[u] = A[0] + M[u] /\ B[u] = B[0] + M[u]
  <2> SUFFICES ASSUME NEW u \in Nat PROVE M[u] \in Nat /\ A[u] = A[0] + M[u] /\ B[u] = B[0] + M[u]
    OBVIOUS
  <2>1. N[u] = u /\ 0 \in Int /\ 0 + u = u
    BY <1>6
  <2>2. A[0 + N[u]] = A[0] + M[u] /\ B[0 + N[u]] = B[0] + M[u] /\ M[u] \in Nat
    BY <1>8, <2>1 DEF IsPeriodic, IsMultiples
  <2> QED BY <2>1, <2>2
<1>10. IsComb(A, l) /\ IsComb(B, m) /\ \A u, v \in Nat : u < v => M[u] + p <= M[v]
  BY <1>8 DEF IsPeriodic, IsMultiples
<1>11. A[0] \in Int /\ B[0] \in Int /\ A[-1] \in Int
  BY <1>10, CombType
<1>12. A[0] = A[-1] + p
  <2>1. N[1] = 1 /\ M[1] = p /\ -1 \in Int /\ 1 \in Nat
    BY <1>6
  <2>2. A[-1 + N[1]] = A[-1] + M[1]
    BY <1>8, <2>1 DEF IsPeriodic
  <2>3. -1 + 1 = 0
    OBVIOUS
  <2> QED BY <2>1, <2>2, <2>3
<1>13. B[0] + m < A[0] /\ A[0] + l <= B[0] + p
  <2>1. B[0] + m < A[0]
    BY <1>1, <1>11
  <2>2. bs <= W /\ W < B[0] + m
    <3>1. W = (IF bs >= bt THEN bs ELSE bt)
      BY <1>2, OfTwo
    <3> QED BY <1>5, <3>1 DEF IsWindow
  <2>3. A[-1] + l <= bt
    BY <1>4, <1>11, <2>1, <2>2
  <2> QED BY <1>5, <1>11, <1>12, <2>1, <2>3
<1>14. ASSUME NEW x \in Elements(s), x \in Elements(t)
       PROVE  FALSE
  <2>1. x \in Int /\ W <= x
    <3>1. x \in Int /\ bs <= x /\ bt <= x
      BY <1>1, <1>14, BetweenEnds
    <3>2. W = (IF bs >= bt THEN bs ELSE bt)
      BY <1>2, OfTwo
    <3> QED BY <3>1, <3>2
  <2>2. PICK r \in Nat : At(A, l, r, x)
    <3>1. IsReach(A, l, W, Ending(s), Elements(s))
      BY <1>1, <1>4, <1>10, ReachFrom
    <3> QED BY <2>1, <3>1 DEF IsReach
  <2>3. PICK q \in Nat : At(B, m, q, x)
    <3>1. IsReach(B, m, W, Ending(t), Elements(t))
      BY <1>1, <1>4, <1>5, <1>10, ReachFrom
    <3> QED BY <1>14, <2>1, <3>1 DEF IsReach
  <2>4. PICK a \in Int, b \in Int, u \in Nat, v \in Nat : a = A[0] /\ b = B[0] /\ u = M[r] /\ v = M[q]
    BY <1>9, <1>11
  <2>5. a + u <= x /\ x < (a + u) + l /\ b + v <= x /\ x < (b + v) + m
    <3>1. A[r] = a + u /\ B[q] = b + v
      BY <1>9, <2>4
    <3> QED BY <2>2, <2>3, <3>1 DEF At
  <2>6. b + m < a /\ a + l <= b + p
    BY <1>13, <2>4
  <2>7. CASE r < q
    <3>1. u + p <= v
      BY <1>10, <2>4, <2>7
    <3> QED BY ONLY <2>1, <2>5, <2>6, <3>1, a \in Int, b \in Int, u \in Nat, v \in Nat, l \in Nat, m \in Nat, p \in Nat
  <2>8. CASE q <= r
    <3>1. v <= u
      <4>1. CASE q = r
        BY <2>4, <4>1
      <4>2. CASE q < r
        <5>1. v + p <= u
          BY <1>10, <2>4, <4>2
        <5> QED BY <5>1
      <4> QED BY <2>8, <4>1, <4>2
    <3> QED BY ONLY <2>1, <2>5, <2>6, <3>1, a \in Int, b \in Int, u \in Nat, v \in Nat, l \in Nat, m \in Nat, p \in Nat
  <2> QED BY <2>7, <2>8
<1> QED BY <1>14

\* The sequence of the repetitions of a range.
LEMMA RepeatSeq ==
  ASSUME NEW range \in Ranges, range.min <= range.max, range.min > INVALID_INDEX,
         NEW L \in Pos, (range.max - range.min) + 1 <= L, NEW E \in Int, range.max <= E,
         NEW M, M = [t \in Nat |-> L * t],
         NEW count, count = Quotient(E - range.max, L) + 1,
         NEW length, length = (range.max - range.min) + 1,
         NEW s, s = IntervalSeq(range.min, length, IF count = 1 THEN length ELSE L, count)
  PROVE  count > 0 /\ s \in IntervalSeqs /\ \A x : x \in Elements(s) <=> x \in Int /\ InRepeat(range, M, E, x)
<1>1. PICK min \in Int, max \in Int : min = range.min /\ max = range.max
  BY DEF Ranges
<1>2. E - max \in Nat /\ L \in Nat \ {0} /\ length \in Pos /\ length = (max - min) + 1 /\ length <= L
  BY <1>1 DEF Pos
<1>3. PICK c \in Nat : c = (E - max) \div L
  BY <1>2, Division
<1>4. count = c + 1
  <2>1. Quotient(E - max, L) = (E - max) \div L
    BY <1>2 DEF Quotient
  <2> QED BY <1>1, <1>3, <2>1
<1>5. PICK p \in Pos : p = (IF count = 1 THEN length ELSE L) /\ p >= length
  <2>1. (IF count = 1 THEN length ELSE L) \in Pos /\ (IF count = 1 THEN length ELSE L) >= length
    BY <1>2 DEF Pos
  <2> QED BY <2>1
<1>6. s = [begin |-> min, length |-> length, period |-> p, count |-> c + 1]
  BY <1>1, <1>4, <1>5 DEF IntervalSeq
<1>7. s \in IntervalSeqs
  <2>1. length \in Nat \ {0} /\ p \in Nat \ {0} /\ c + 1 \in Nat \ {0}
    BY <1>2 DEF Pos
  <2>2. s \in [begin: Int, length: Nat \ {0}, period: Nat \ {0}, count: Nat \ {0}]
    BY <1>6, <2>1
  <2>3. s.begin > INVALID_INDEX /\ s.period >= s.length
    BY <1>1, <1>5, <1>6
  <2> QED BY <2>2, <2>3 DEF IntervalSeqs
<1>8. IsMultiples(M, L)
  BY MultiplesExist
<1>9. \A k \in Nat : k \in 0..((c + 1) - 1) <=> M[k] <= E - max
  <2>1. \A k \in Nat : k <= c <=> M[k] <= E - max
    BY <1>2, <1>3, <1>8 DEF IsMultiples
  <2> QED BY <2>1
<1>10. \A k \in 0..((c + 1) - 1) : k \in Nat /\ p * k = M[k] /\ M[k] \in Nat
  <2> SUFFICES ASSUME NEW k \in 0..c PROVE p * k = M[k] /\ M[k] \in Nat
    OBVIOUS
  <2>0. k \in Nat
    OBVIOUS
  <2>1. M[k] = L * k /\ M[k] \in Nat
    <3>1. M[k] = L * k
      BY <2>0
    <3>2. M[k] \in Nat
      BY <1>8, <2>0, Zenon DEF IsMultiples
    <3> QED BY <3>1, <3>2
  <2>2. CASE c = 0
    <3>1. k = 0
      BY <2>2
    <3>2. p * 0 = 0 /\ L * 0 = 0
      BY <1>2 DEF Pos
    <3> QED BY <2>1, <3>1, <3>2
  <2>3. CASE c # 0
    <3>1. p = L
      BY <1>4, <1>5, <2>3
    <3> QED BY <2>1, <3>1
  <2> QED BY <2>2, <2>3
<1>11. Elements(s) = {min + p * k + j : k \in 0..((c + 1) - 1), j \in 0..(length - 1)}
  <2>1. s.begin = min /\ s.period = p /\ s.count = c + 1 /\ s.length = length
    BY <1>6
  <2>2. Elements(s) = {s.begin + s.period * i + j : i \in 0..(s.count - 1), j \in 0..(s.length - 1)}
    BY DEF Elements
  <2> QED BY ONLY <2>1, <2>2
<1>12. ASSUME NEW x \in Elements(s)
       PROVE  x \in Int /\ InRepeat(range, M, E, x)
  <2>1. PICK k \in 0..((c + 1) - 1), j \in 0..(length - 1) : x = min + p * k + j
    BY <1>11
  <2>2. PICK h \in Nat : h = M[k] /\ p * k = h
    BY <1>10
  <2>3. x = min + h + j
    BY <2>1, <2>2
  <2>4. x \in Int /\ min <= x - h /\ x - h <= max
    BY ONLY <1>2, <2>3, h \in Nat, j \in 0..(length - 1), min \in Int, max \in Int
  <2>5. k \in Nat /\ M[k] <= E - max
    BY <1>9, <1>10
  <2> QED BY <1>1, <2>2, <2>4, <2>5 DEF InRepeat, InRange
<1>13. ASSUME NEW x \in Int, InRepeat(range, M, E, x)
       PROVE  x \in Elements(s)
  <2>1. PICK k \in Nat : M[k] <= E - max /\ min <= x - M[k] /\ x - M[k] <= max
    BY <1>1, <1>13 DEF InRepeat, InRange
  <2>2. k \in 0..((c + 1) - 1)
    BY <1>9, <2>1
  <2>3. PICK h \in Nat : h = M[k] /\ p * k = h
    BY <1>10, <2>2
  <2>4. PICK j \in 0..(length - 1) : x = min + h + j
    <3>1. (x - h) - min \in 0..(length - 1) /\ x = min + h + ((x - h) - min)
      BY <1>2, <2>1, <2>3
    <3> QED BY <3>1
  <2>5. x = min + p * k + j
    BY <2>3, <2>4
  <2> QED BY <1>11, <2>2, <2>5
<1>14. count > 0
  BY <1>4
<1> QED BY <1>7, <1>12, <1>13, <1>14

LEMMA IntersectRepeatedDivides ==
  ASSUME NEW s \in IntervalSeqs, NEW t \in IntervalSeqs,
         NEW i1, i1 = FirstInterval(s, t.begin), NEW i2, i2 = FirstInterval(t, s.begin),
         Max({s.begin, t.begin}) + lcm(s.period, t.period) - 1 <= Min({Ending(s), Ending(t)})
  PROVE  Divides(IntersectRepeated(s, t, i1, i2), IntervalElements, Elements(s) \cap Elements(t))
<1>1. PICK l \in Nat, m \in Nat, bs \in Int, bt \in Int :
        l = s.length /\ m = t.length /\ bs = s.begin /\ bt = t.begin /\ bs > INVALID_INDEX
  BY IntervalSeqType DEF Pos
<1>2. PICK n \in Pos, o \in Pos, L \in Pos :
        /\ L = lcm(s.period, t.period) /\ L = s.period * n /\ L = t.period * o
        /\ n = lcm(s.period, t.period) \div s.period /\ o = lcm(s.period, t.period) \div t.period
  <2>1. s.period \in Pos /\ t.period \in Pos
    BY IntervalSeqType
  <2> QED BY <2>1, LcmIs
<1>3. PICK A, B : A = BeginningsFrom(s, i1) /\ B = BeginningsFrom(t, i2)
  OBVIOUS
<1>4. PICK W : W = Max({bs, bt})
  OBVIOUS
<1>5. W = Max({bt, bs})
  <2>1. {bs, bt} = {bt, bs}
    OBVIOUS
  <2> QED BY <1>4, <2>1
<1>6. i1 \in Nat /\ A[0] >= bs /\ W \in Int /\ IsWindow(A, l, W)
  BY <1>1, <1>3, <1>4, WindowFrom
<1>7. i2 \in Nat /\ IsWindow(B, m, W)
  BY <1>1, <1>3, <1>5, WindowFrom
<1>8. PICK N, O, M : N = [u \in Nat |-> n * u] /\ O = [u \in Nat |-> o * u] /\ M = [u \in Nat |-> L * u]
  OBVIOUS
<1>9. IsPeriodic(A, l, n, N, M, L) /\ IsPeriodic(B, m, o, O, M, L)
  BY <1>1, <1>2, <1>3, <1>6, <1>7, <1>8, PeriodicFrom
<1>10. IsComb(A, l) /\ IsComb(B, m)
  BY <1>9 DEF IsPeriodic
<1>11. /\ IsPair(A, l, n, B, m, o)
       /\ A[n - 1] + l <= W + L /\ B[o - 1] + m <= W + L /\ l <= L /\ m <= L
  BY ONLY <1>6, <1>7, <1>9, PairOfPeriodic
<1>12. PICK EA \in Int, EB \in Int : EA = Ending(s) /\ EB = Ending(t)
  <2>1. Ending(s) \in Int /\ Ending(t) \in Int
    BY BeginningIs, EndingIs
  <2> QED BY <2>1
<1>13. PICK SA, SB : SA = Elements(s) /\ SB = Elements(t)
  OBVIOUS
<1>14. IsReach(A, l, W, EA, SA) /\ IsReach(B, m, W, EB, SB)
  BY <1>1, <1>3, <1>6, <1>7, <1>10, <1>12, <1>13, ReachFrom
<1>15. PICK E \in Int : E = Min({EA, EB}) /\ E <= EA /\ E <= EB
  <2>1. Min({EA, EB}) = (IF EA <= EB THEN EA ELSE EB)
    BY OfTwo
  <2> QED BY <2>1
<1>16. W + L - 1 <= E
  BY <1>1, <1>2, <1>4, <1>12, <1>15
<1>17. PICK ranges : ranges = Overlaps(s, t, i1, i2)
  OBVIOUS
<1>18. IsOverlaps(ranges, A, l, n, B, m, o)
  BY <1>1, <1>2, <1>3, <1>6, <1>7, <1>11, <1>17, OverlapsAre
<1>19. PICK K \in Nat : K = Len(ranges) /\ \A i \in 1..K : ranges[i] \in Ranges
  BY <1>18 DEF IsOverlaps, Found
<1>20. ASSUME NEW i \in 1..K
       PROVE  \E a, b \in Nat : (a < n \/ b < o) /\ IsOverlap(ranges[i], A, l, B, m, a, b)
  BY <1>18, <1>19 DEF IsOverlaps, Found
<1> DEFINE CountOf(range) == Quotient(E - range.max, L) + 1
           LengthOf(range) == (range.max - range.min) + 1
           Repeat(range) == IntervalSeq(range.min, LengthOf(range),
                                        IF CountOf(range) = 1 THEN LengthOf(range) ELSE L, CountOf(range))
<1>21. PICK lists : lists = [i \in 1..K |-> Optional(CountOf(ranges[i]) > 0, Repeat(ranges[i]))]
  OBVIOUS
<1>22. IntersectRepeated(s, t, i1, i2) = FlattenSeq(lists)
  BY <1>2, <1>12, <1>15, <1>17, <1>19, <1>21 DEF IntersectRepeated
<1> HIDE DEF CountOf, LengthOf, Repeat
<1>23. PICK S : S = [i \in 1..K |-> Elements(Repeat(ranges[i]))]
  OBVIOUS
<1>24. ASSUME NEW i \in 1..K
       PROVE  /\ CountOf(ranges[i]) > 0 /\ Repeat(ranges[i]) \in IntervalSeqs
              /\ \A x : x \in S[i] <=> x \in Int /\ InRepeat(ranges[i], M, E, x)
  <2>1. PICK range \in Ranges : range = ranges[i]
    BY <1>19
  <2>2. PICK a \in Nat, b \in Nat : (a < n \/ b < o) /\ IsOverlap(range, A, l, B, m, a, b)
    BY <1>20, <2>1
  <2>3. PICK min \in Int, max \in Int : min = range.min /\ max = range.max /\ min <= max
    BY <2>2 DEF Ranges, IsOverlap
  <2>4. At(A, l, a, min) /\ At(A, l, a, max) /\ At(B, m, b, max)
    <3>1. InRange(range, min) /\ InRange(range, max)
      BY <2>3 DEF InRange
    <3> QED BY <2>2, <3>1 DEF IsOverlap
  <2>5. /\ A[a] \in Int /\ B[b] \in Int /\ A[0] \in Int /\ A[n - 1] \in Int /\ B[o - 1] \in Int
        /\ a \in Int /\ b \in Int /\ n - 1 \in Int /\ o - 1 \in Int /\ 0 \in Int /\ 0 <= a /\ L \in Nat
        /\ a < n => a <= n - 1
        /\ b < o => b <= o - 1
    <3>1. n \in Nat /\ o \in Nat /\ L \in Nat
      BY DEF Pos
    <3>2. a \in Int /\ b \in Int /\ n - 1 \in Int /\ o - 1 \in Int /\ 0 \in Int
      BY <3>1
    <3> QED BY <1>10, <3>1, <3>2, CombType
  <2>6. A[0] <= A[a]
    BY <1>10, <2>5, CombMonotonic
  <2>7. A[a] <= min /\ max < A[a] + l /\ max < B[b] + m
    BY <2>4 DEF At
  <2>8. max < W + L
    <3>1. CASE a < n
      <4>1. A[a] <= A[n - 1]
        BY <1>10, <2>5, <3>1, CombMonotonic
      <4> QED BY ONLY <1>1, <1>6, <1>11, <2>5, <2>7, <4>1, max \in Int
    <3>2. CASE b < o
      <4>1. B[b] <= B[o - 1]
        BY <1>10, <2>5, <3>2, CombMonotonic
      <4> QED BY ONLY <1>1, <1>6, <1>11, <2>5, <2>7, <4>1, max \in Int, m \in Nat
    <3> QED BY <2>2, <3>1, <3>2
  <2>9. max <= E
    BY ONLY <1>6, <1>16, <2>5, <2>8, max \in Int, E \in Int
  <2>10. min > INVALID_INDEX
    BY ONLY <1>1, <1>6, <2>5, <2>6, <2>7, min \in Int, InvalidIndex
  <2>11. (max - min) + 1 <= L
    BY ONLY <1>11, <2>5, <2>7, min \in Int, max \in Int, l \in Nat
  <2>12. PICK count, length, q : count = CountOf(range) /\ length = LengthOf(range) /\ q = Repeat(range)
    OBVIOUS
  <2>13. /\ count = Quotient(E - range.max, L) + 1 /\ length = (range.max - range.min) + 1
         /\ q = IntervalSeq(range.min, length, IF count = 1 THEN length ELSE L, count)
    BY <2>12, Zenon DEF CountOf, LengthOf, Repeat
  <2>14. range.min <= range.max /\ range.min > INVALID_INDEX /\ (range.max - range.min) + 1 <= L /\ range.max <= E
    BY <2>3, <2>9, <2>10, <2>11
  <2>15. count > 0 /\ q \in IntervalSeqs /\ \A x : x \in Elements(q) <=> x \in Int /\ InRepeat(range, M, E, x)
    BY ONLY <1>8, <2>13, <2>14, range \in Ranges, L \in Pos, E \in Int, RepeatSeq
  <2> QED BY <1>23, <2>1, <2>12, <2>15
<1>25. ASSUME NEW i \in 1..K
       PROVE  Divides(lists[i], IntervalElements, S[i])
  <2>1. PICK q : q = Repeat(ranges[i])
    OBVIOUS
  <2>2. lists[i] = Optional(TRUE, q) /\ S[i] = Elements(q)
    BY <1>21, <1>23, <1>24, <2>1
  <2>3. q \in IntervalSeqs
    BY <1>24, <2>1
  <2>4. Divides(Optional(TRUE, q), IntervalElements, IF TRUE THEN Elements(q) ELSE {})
    BY <2>3, OptionalDivides
  <2> QED BY <2>2, <2>4
<1>26. ASSUME NEW i \in 1..K, NEW j \in 1..K, i # j
       PROVE  S[i] \cap S[j] = {}
  <2> SUFFICES ASSUME NEW x \in S[i], x \in S[j] PROVE FALSE
    OBVIOUS
  <2>1. x \in Int /\ InRepeat(ranges[i], M, E, x) /\ InRepeat(ranges[j], M, E, x)
    BY <1>24
  <2>2. PICK p, q : p = ranges[i] /\ q = ranges[j]
    OBVIOUS
  <2>3. PICK a \in Nat, b \in Nat : (a < n \/ b < o) /\ IsOverlap(p, A, l, B, m, a, b)
    BY <1>20, <2>2
  <2>4. PICK c \in Nat, d \in Nat : (c < n \/ d < o) /\ IsOverlap(q, A, l, B, m, c, d)
    BY <1>20, <2>2
  <2>5. \A y \in Int : ~(InRange(p, y) /\ InRange(q, y))
    BY <1>18, <1>19, <1>26, <2>2 DEF IsOverlaps, Found
  <2>6. InRepeat(p, M, E, x) /\ InRepeat(q, M, E, x)
    BY <2>1, <2>2
  <2> QED BY ONLY <1>9, <2>1, <2>3, <2>4, <2>5, <2>6, a \in Nat, b \in Nat, c \in Nat, d \in Nat, RepeatsDisjoint
<1>27. UnionOf(S, K) = SA \cap SB
  <2>1. ASSUME NEW x \in SA, x \in SB
        PROVE  \E i \in 1..K : x \in S[i]
    <3>1. x \in Int /\ bs <= x /\ bt <= x
      BY <1>1, <1>13, <2>1, BetweenEnds
    <3>2. W <= x
      <4>1. W = (IF bs >= bt THEN bs ELSE bt)
        BY <1>4, OfTwo
      <4> QED BY <3>1, <4>1
    <3>3. \E i \in 1..Len(ranges) : InRepeat(ranges[i], M, E, x)
      <4>1. E = Min({EA, EB}) /\ x \in Int /\ x \in SA /\ x \in SB
        BY <1>15, <2>1, <3>1
      <4> QED BY ONLY <1>9, <1>14, <1>18, <3>2, <4>1, RepeatsCover
    <3>4. PICK i \in 1..K : InRepeat(ranges[i], M, E, x)
      BY <1>19, <3>3
    <3> QED BY <1>24, <3>1, <3>4
  <2>2. ASSUME NEW i \in 1..K, NEW x \in S[i]
        PROVE  x \in SA /\ x \in SB
    <3>1. x \in Int /\ InRepeat(ranges[i], M, E, x)
      BY <1>24
    <3>2. PICK range : range = ranges[i]
      OBVIOUS
    <3>3. PICK a \in Nat, b \in Nat : IsOverlap(range, A, l, B, m, a, b)
      BY <1>20, <3>2
    <3>4. IsOverlap(range, B, m, A, l, b, a)
      BY <3>3, Zenon DEF IsOverlap
    <3>5. InRepeat(range, M, E, x)
      BY <3>1, <3>2
    <3>6. x \in SA
      BY ONLY <1>9, <1>14, <1>15, <3>1, <3>3, <3>5, a \in Nat, b \in Nat, E \in Int, RepeatsWithin
    <3>7. x \in SB
      BY ONLY <1>9, <1>14, <1>15, <3>1, <3>4, <3>5, a \in Nat, b \in Nat, E \in Int, RepeatsWithin
    <3> QED BY <3>6, <3>7
  <2> QED BY <2>1, <2>2 DEF UnionOf
<1>28. DivideDisjoint(lists, K, IntervalElements, S)
  <2>1. lists = [i \in 1..K |-> lists[i]]
    BY <1>21
  <2> QED BY <1>25, <1>26, <2>1, Zenon DEF DivideDisjoint
<1>29. Divides(FlattenSeq(lists), IntervalElements, UnionOf(S, K))
  BY <1>28, FlattenDivides
<1> QED BY <1>13, <1>22, <1>27, <1>29

\* The intersection of two sequences is exact, if one of them has one interval or both go on for a common
\* period after both have begun: its sequences describe the indices that the two have in common, each of
\* them once (IntervalSeq::computeIntersection).
THEOREM IntersectionExact ==
  ASSUME NEW s \in IntervalSeqs, NEW t \in IntervalSeqs, Comparable(s, t)
  PROVE  Divides(computeIntersection(s, t), IntervalElements, Elements(s) \cap Elements(t))
<1>1. CASE s.count = 1 \/ t.count = 1
  BY <1>1, IntersectionWithInterval
<1>2. CASE s.count # 1 /\ t.count # 1
  <2> DEFINE i1 == FirstInterval(s, t.begin)
             i2 == FirstInterval(t, s.begin)
             bi1 == s.begin + i1 * s.period
             bi2 == t.begin + i2 * t.period
             drifted == \/ bi1 > bi2 /\ t.length < bi1 - bi2
                        \/ bi2 > bi1 /\ s.length < bi2 - bi1
  <2>1. computeIntersection(s, t) =
          IF s = t THEN <<s>>
          ELSE IF s.begin > Ending(t) \/ t.begin > Ending(s) THEN <<>>
          ELSE IF s.period = t.period /\ drifted THEN <<>>
          ELSE IntersectRepeated(s, t, i1, i2)
    BY <1>2, Zenon DEF computeIntersection
  <2>2. CASE s = t
    <3>1. s \in DOMAIN IntervalElements /\ IntervalElements[s] = Elements(s)
      BY DEF IntervalElements
    <3> QED BY <2>1, <2>2, <3>1, OneDivides
  <2>3. CASE s.begin > Ending(t) \/ t.begin > Ending(s)
    <3>1. /\ s.begin \in Int /\ Ending(s) \in Int /\ t.begin \in Int /\ Ending(t) \in Int
      BY IntervalSeqType, BeginningIs, EndingIs
    <3>2. ASSUME NEW x \in Elements(s), x \in Elements(t)
          PROVE  FALSE
      <4>1. x \in Int /\ s.begin <= x /\ x <= Ending(s) /\ t.begin <= x /\ x <= Ending(t)
        BY <3>2, BetweenEnds
      <4> QED BY <2>3, <3>1, <4>1
    <3>3. Elements(s) \cap Elements(t) = {}
      BY <3>2
    <3>4. CASE s # t
      BY <2>1, <2>3, <3>3, <3>4, NothingDivides
    <3> QED BY <2>2, <3>4
  <2>4. CASE s.period = t.period /\ drifted /\ ~(s.begin > Ending(t) \/ t.begin > Ending(s)) /\ s # t
    <3>1. PICK A, B : A = BeginningsFrom(s, i1) /\ B = BeginningsFrom(t, i2)
      OBVIOUS
    <3>2. A[0] = bi1 /\ B[0] = bi2
      <4>1. s.begin \in Int /\ t.begin \in Int
        BY IntervalSeqType
      <4> QED BY <3>1, <4>1, WindowFrom
    <3>3. Elements(s) \cap Elements(t) = {}
      <4> HIDE DEF bi1, bi2
      <4>1. CASE t.length < bi1 - bi2
        BY <2>4, <3>1, <3>2, <4>1, GapsApart
      <4>2. CASE s.length < bi2 - bi1
        BY <2>4, <3>1, <3>2, <4>2, GapsApart
      <4> QED BY <2>4, <4>1, <4>2
    <3> QED BY <2>1, <2>4, <3>3, NothingDivides
  <2>5. CASE ~(s.period = t.period /\ drifted) /\ ~(s.begin > Ending(t) \/ t.begin > Ending(s)) /\ s # t
    <3>1. Max({s.begin, t.begin}) + lcm(s.period, t.period) - 1 <= Min({Ending(s), Ending(t)})
      BY <1>2 DEF Comparable
    <3>2. Divides(IntersectRepeated(s, t, i1, i2), IntervalElements, Elements(s) \cap Elements(t))
      BY <3>1, IntersectRepeatedDivides
    <3> QED BY <2>1, <2>5, <3>2
  <2> HIDE DEF drifted
  <2> QED BY <2>2, <2>3, <2>4, <2>5
<1> QED BY <1>1, <1>2

-----------------------------------------------------------------------------
(* Regions *)

\* Multidimensional sequences of k dimensions, and what each describes.
Tuples(k) == [1..k -> IntervalSeqs]
TupleElements(k) == [md \in Tuples(k) |-> MdElements(md)]

LEMMA TupleLength ==
  ASSUME NEW k \in Nat, NEW md \in Tuples(k)
  PROVE  Len(md) = k /\ md \in Seq(IntervalSeqs) /\ \A d \in 1..k : md[d] \in IntervalSeqs
  BY DEF Tuples

LEMMA TupleElementsAre ==
  ASSUME NEW k \in Nat, NEW md \in Tuples(k)
  PROVE  MdElements(md) = {x \in [1..k -> Int] : \A d \in 1..k : x[d] \in Elements(md[d])}
<1>1. Len(md) = k /\ \A d \in 1..k : md[d] \in IntervalSeqs
  BY TupleLength
<1>2. \A d \in 1..k : Elements(md[d]) \subseteq Int
  BY <1>1, BeginningIs, ElementsByBeginning
<1>3. PICK U : U = UNION {Elements(md[d]) : d \in 1..k}
  OBVIOUS
<1>4. MdElements(md) = {x \in [1..k -> U] : \A d \in 1..k : x[d] \in Elements(md[d])}
  BY <1>1, <1>3 DEF MdElements
<1>5. \A d \in 1..k : Elements(md[d]) \subseteq U
  BY <1>3
<1>6. U \subseteq Int
  BY <1>2, <1>3
<1>7. ASSUME NEW x \in [1..k -> U]
      PROVE  x \in [1..k -> Int]
  BY <1>6
<1>8. ASSUME NEW x \in [1..k -> Int], \A d \in 1..k : x[d] \in Elements(md[d])
      PROVE  x \in [1..k -> U]
  BY <1>5, <1>8
<1> QED BY <1>4, <1>7, <1>8

\* A set of points of k dimensions, and one of indices of the next dimension.
Cross(P, F, k) == {x \in [1..(k + 1) -> Int] : [d \in 1..k |-> x[d]] \in P /\ x[k + 1] \in F}

LEMMA AppendedElements ==
  ASSUME NEW k \in Nat, NEW md \in Tuples(k), NEW s \in IntervalSeqs
  PROVE  /\ Append(md, s) \in Tuples(k + 1)
         /\ MdElements(Append(md, s)) = Cross(MdElements(md), Elements(s), k)
<1>1. PICK a : a = Append(md, s)
  OBVIOUS
<1>2. md \in Seq(IntervalSeqs) /\ Len(md) = k
  BY TupleLength
<1>3. a \in Tuples(k + 1) /\ a[k + 1] = s /\ \A d \in 1..k : a[d] = md[d]
  <2>1. a \in Seq(IntervalSeqs) /\ Len(a) = k + 1
    BY <1>1, <1>2
  <2>2. a[k + 1] = s /\ \A d \in 1..k : a[d] = md[d]
    BY <1>1, <1>2
  <2> QED BY <2>1, <2>2 DEF Tuples
<1>4. ASSUME NEW x \in [1..(k + 1) -> Int]
      PROVE  x \in MdElements(a) <=> [d \in 1..k |-> x[d]] \in MdElements(md) /\ x[k + 1] \in Elements(s)
  <2>1. x \in MdElements(a) <=> \A d \in 1..(k + 1) : x[d] \in Elements(a[d])
    <3>1. k + 1 \in Nat
      OBVIOUS
    <3> QED BY ONLY <1>3, <1>4, <3>1, TupleElementsAre
  <2>2. PICK y : y = [d \in 1..k |-> x[d]]
    OBVIOUS
  <2>3. y \in [1..k -> Int] /\ \A d \in 1..k : y[d] = x[d]
    BY <2>2
  <2>4. y \in MdElements(md) <=> \A d \in 1..k : y[d] \in Elements(md[d])
    BY ONLY <2>3, k \in Nat, md \in Tuples(k), TupleElementsAre
  <2>5. 1..(k + 1) = (1..k) \cup {k + 1}
    OBVIOUS
  <2> QED BY ONLY <1>3, <2>1, <2>2, <2>3, <2>4, <2>5
<1>5. MdElements(a) \subseteq [1..(k + 1) -> Int]
  <2>1. k + 1 \in Nat
    OBVIOUS
  <2> QED BY ONLY <1>3, <2>1, TupleElementsAre
<1> QED BY <1>1, <1>3, <1>4, <1>5 DEF Cross

LEMMA CrossDisjoint ==
  ASSUME NEW k, NEW P, NEW Q, NEW F, NEW H, P \cap Q = {} \/ F \cap H = {}
  PROVE  Cross(P, F, k) \cap Cross(Q, H, k) = {}
  BY DEF Cross

\* Extending one tuple by the sequences of a list.
LEMMA TupleExtended ==
  ASSUME NEW k \in Nat, NEW md \in Tuples(k), NEW list, NEW F, Divides(list, IntervalElements, F)
  PROVE  Divides([j \in 1..Len(list) |-> Append(md, list[j])], TupleElements(k + 1),
                 Cross(MdElements(md), F, k))
<1>1. PICK n \in Nat : n = Len(list)
  BY DEF Divides
<1>2. \A j \in 1..n : list[j] \in IntervalSeqs /\ IntervalElements[list[j]] = Elements(list[j])
  BY <1>1 DEF Divides, IntervalElements
<1>3. PICK all : all = [j \in 1..n |-> Append(md, list[j])]
  OBVIOUS
<1>4. \A j \in 1..n : /\ all[j] \in Tuples(k + 1)
                      /\ TupleElements(k + 1)[all[j]] = Cross(MdElements(md), Elements(list[j]), k)
  <2>1. ASSUME NEW j \in 1..n
        PROVE  /\ all[j] \in Tuples(k + 1)
               /\ MdElements(all[j]) = Cross(MdElements(md), Elements(list[j]), k)
    BY <1>2, <1>3, AppendedElements
  <2> QED BY <2>1 DEF TupleElements
<1>5. all \in Seq(DOMAIN TupleElements(k + 1)) /\ Len(all) = n
  <2>1. DOMAIN TupleElements(k + 1) = Tuples(k + 1)
    BY DEF TupleElements
  <2> QED BY <1>3, <1>4, <2>1
<1>6. ASSUME NEW i \in 1..n, NEW j \in 1..n, i # j
      PROVE  TupleElements(k + 1)[all[i]] \cap TupleElements(k + 1)[all[j]] = {}
  <2>1. Elements(list[i]) \cap Elements(list[j]) = {}
    BY <1>1, <1>2, <1>6 DEF Divides
  <2> QED BY <1>4, <2>1, CrossDisjoint
<1>7. ASSUME NEW x
      PROVE  x \in Cross(MdElements(md), F, k) <=> \E j \in 1..n : x \in TupleElements(k + 1)[all[j]]
  <2>1. x \in Cross(MdElements(md), F, k) <=>
          \E j \in 1..n : x \in Cross(MdElements(md), Elements(list[j]), k)
    <3>1. \A y : y \in F <=> \E j \in 1..n : y \in Elements(list[j])
      BY <1>1, <1>2 DEF Divides
    <3>2. ASSUME \E j \in 1..n : x \in Cross(MdElements(md), Elements(list[j]), k)
          PROVE  x \in Cross(MdElements(md), F, k)
      BY <3>1, <3>2 DEF Cross
    <3>3. ASSUME x \in Cross(MdElements(md), F, k)
          PROVE  \E j \in 1..n : x \in Cross(MdElements(md), Elements(list[j]), k)
      BY <3>1, <3>3 DEF Cross
    <3> QED BY <3>2, <3>3
  <2> QED BY <1>4, <2>1
<1> QED BY <1>1, <1>3, <1>5, <1>6, <1>7 DEF Divides

\* Extending each of a list of tuples.
LEMMA ListExtended ==
  ASSUME NEW k \in Nat, NEW tuples, NEW P, Divides(tuples, TupleElements(k), P),
         NEW list, NEW F, Divides(list, IntervalElements, F)
  PROVE  Divides(Extend(tuples, list), TupleElements(k + 1), Cross(P, F, k))
<1>1. PICK n \in Nat : n = Len(tuples)
  BY DEF Divides
<1>2. \A i \in 1..n : tuples[i] \in Tuples(k) /\ TupleElements(k)[tuples[i]] = MdElements(tuples[i])
  BY <1>1 DEF Divides, TupleElements
<1>3. PICK lists : lists = [i \in 1..n |-> [j \in 1..Len(list) |-> Append(tuples[i], list[j])]]
  OBVIOUS
<1>4. PICK E : E = [i \in 1..n |-> Cross(MdElements(tuples[i]), F, k)]
  OBVIOUS
<1>5. \A i \in 1..n : Divides(lists[i], TupleElements(k + 1), E[i])
  <2>1. ASSUME NEW i \in 1..n
        PROVE  Divides(lists[i], TupleElements(k + 1), E[i])
    <3>1. PICK md \in Tuples(k) : md = tuples[i]
      BY <1>2
    <3>2. lists[i] = [j \in 1..Len(list) |-> Append(md, list[j])] /\ E[i] = Cross(MdElements(md), F, k)
      BY <1>3, <1>4, <3>1
    <3> QED BY <3>2, TupleExtended
  <2> QED BY <2>1
<1>6. \A i, j \in 1..n : i # j => E[i] \cap E[j] = {}
  <2>1. ASSUME NEW i \in 1..n, NEW j \in 1..n, i # j
        PROVE  E[i] \cap E[j] = {}
    <3>1. MdElements(tuples[i]) \cap MdElements(tuples[j]) = {}
      BY <1>1, <1>2, <2>1 DEF Divides
    <3> QED BY <1>4, <3>1, CrossDisjoint
  <2> QED BY <2>1
<1>7. UnionOf(E, n) = Cross(P, F, k)
  <2>1. \A y : y \in P <=> \E i \in 1..n : y \in MdElements(tuples[i])
    BY <1>1, <1>2 DEF Divides
  <2>2. ASSUME NEW x
        PROVE  x \in Cross(P, F, k) <=> \E i \in 1..n : x \in Cross(MdElements(tuples[i]), F, k)
    BY <2>1 DEF Cross
  <2>3. \A x : x \in UnionOf(E, n) <=> \E i \in 1..n : x \in E[i]
    BY DEF UnionOf
  <2> QED BY <1>4, <2>2, <2>3
<1>8. PICK el : el = TupleElements(k + 1)
  OBVIOUS
<1>9. Divides(FlattenSeq(lists), el, UnionOf(E, n))
  <2>1. lists = [i \in 1..n |-> lists[i]]
    BY <1>3
  <2>2. \A i \in 1..n : Divides(lists[i], el, E[i])
    BY <1>5, <1>8
  <2>3. DivideDisjoint(lists, n, el, E)
    BY <1>6, <2>1, <2>2, Zenon DEF DivideDisjoint
  <2> QED BY ONLY <2>3, n \in Nat, FlattenDivides
<1>10. Extend(tuples, list) = FlattenSeq(lists)
  BY <1>1, <1>3 DEF Extend
<1> QED BY <1>7, <1>8, <1>9, <1>10

\* The cross product of the first dimensions, a recursion over the dimensions.
AreInProgress(f, n, lists) ==
  /\ f[0] = <<<<>>>>
  /\ \A d \in 1..n : f[d] = Extend(f[d - 1], lists[d])

LEMMA ExtendType ==
  ASSUME NEW V, NEW tuples \in Seq(Seq(V)), NEW list \in Seq(V)
  PROVE  Extend(tuples, list) \in Seq(Seq(V))
<1>1. PICK W : W = Seq(V)
  OBVIOUS
<1>2. PICK lists : lists = [i \in 1..Len(tuples) |-> [j \in 1..Len(list) |-> Append(tuples[i], list[j])]]
  OBVIOUS
<1>3. lists \in Seq(Seq(W))
  <2>1. ASSUME NEW i \in 1..Len(tuples), NEW j \in 1..Len(list)
        PROVE  Append(tuples[i], list[j]) \in W
    <3>1. tuples[i] \in Seq(V) /\ list[j] \in V
      OBVIOUS
    <3> QED BY <1>1, <3>1
  <2>2. \A i \in 1..Len(tuples) : [j \in 1..Len(list) |-> Append(tuples[i], list[j])] \in Seq(W)
    BY <2>1
  <2> QED BY <1>2, <2>2
<1>4. PICK f : IsFlattening(f, Len(lists), W, lists) /\ FlattenSeq(lists) = f[Len(lists)]
  BY <1>3, FlattenIs
<1>5. FlattenSeq(lists) \in Seq(W)
  <2>1. Len(lists) \in Nat
    BY <1>3
  <2> QED BY <1>4, <2>1 DEF IsFlattening
<1> QED BY <1>1, <1>2, <1>5 DEF Extend

LEMMA GeneratedIs ==
  ASSUME NEW V, NEW n \in Nat, NEW lists \in [1..n -> Seq(V)]
  PROVE  \E f : AreInProgress(f, n, lists) /\ generateIntervalSeqs(lists) = f[n]
<1> DEFINE Eqn(t) == t = [d \in 0..n |-> IF d = 0 THEN <<<<>>>> ELSE Extend(t[d - 1], lists[d])]
           t == CHOOSE x : Eqn(x)
           W == Seq(Seq(V))
<1>1. Len(lists) = n
  OBVIOUS
<1>2. PICK G \in [1..n -> [W -> W]] : \A d \in 1..n, v \in W : G[d][v] = Extend(v, lists[d])
  <2> DEFINE G == [d \in 1..n |-> [v \in W |-> Extend(v, lists[d])]]
  <2>1. \A d \in 1..n, v \in W : Extend(v, lists[d]) \in W
    <3> SUFFICES ASSUME NEW d \in 1..n, NEW v \in W PROVE Extend(v, lists[d]) \in W
      OBVIOUS
    <3>1. lists[d] \in Seq(V)
      OBVIOUS
    <3> QED BY <3>1, ExtendType
  <2> HIDE DEF W
  <2>2. G \in [1..n -> [W -> W]]
    BY <2>1
  <2>3. \A d \in 1..n, v \in W : G[d][v] = Extend(v, lists[d])
    OBVIOUS
  <2> HIDE DEF G
  <2> QED BY <2>2, <2>3
<1>3. PICK f \in [0..n -> W] : IsRecursion(f, n, <<<<>>>>, G)
  <2>1. <<<<>>>> \in W
    OBVIOUS
  <2> HIDE DEF W
  <2> QED BY ONLY n \in Nat, <1>2, <2>1, RecursionExists
<1> HIDE DEF W
<1>4. AreInProgress(f, n, lists)
  <2>1. ASSUME NEW d \in 1..n
        PROVE  f[d] = Extend(f[d - 1], lists[d])
    <3>1. d - 1 \in 0..n
      OBVIOUS
    <3>2. f[d - 1] \in W /\ f[d] = G[d][f[d - 1]]
      BY <1>3, <3>1 DEF IsRecursion
    <3> QED BY <1>2, <3>2
  <2> QED BY <1>3, <2>1 DEF IsRecursion, AreInProgress
<1>5. Eqn(f)
  <2>1. f = [d \in 0..n |-> f[d]]
    BY <1>3
  <2>2. ASSUME NEW d \in 0..n
        PROVE  f[d] = IF d = 0 THEN <<<<>>>> ELSE Extend(f[d - 1], lists[d])
    <3>1. CASE d = 0
      BY <1>4, <3>1 DEF AreInProgress
    <3>2. CASE d # 0
      <4>1. d \in 1..n
        BY <3>2
      <4>2. f[d] = Extend(f[d - 1], lists[d])
        BY <1>4, <4>1 DEF AreInProgress
      <4> QED BY <3>2, <4>2
    <3> QED BY <3>1, <3>2
  <2> QED BY <2>1, <2>2
<1>6. Eqn(t)
  <2> HIDE DEF Eqn
  <2> QED BY <1>5
<1>7. generateIntervalSeqs(lists) = t[n]
  BY <1>1 DEF generateIntervalSeqs
<1> HIDE DEF t
<1>8. AreInProgress(t, n, lists)
  <2>1. t[0] = <<<<>>>>
    BY <1>6
  <2>2. ASSUME NEW d \in 1..n
        PROVE  t[d] = Extend(t[d - 1], lists[d])
    <3>1. d \in 0..n /\ d # 0
      OBVIOUS
    <3>2. t[d] = IF d = 0 THEN <<<<>>>> ELSE Extend(t[d - 1], lists[d])
      BY <1>6, <3>1
    <3> QED BY <3>1, <3>2
  <2> QED BY <2>1, <2>2 DEF AreInProgress
<1> QED BY <1>7, <1>8

\* The points whose indices are in E.
Box(E, k) == {x \in [1..k -> Int] : \A d \in 1..k : x[d] \in E[d]}

LEMMA GenerateDivides ==
  ASSUME NEW n \in Nat, NEW lists \in [1..n -> Seq(IntervalSeqs)], NEW E,
         \A d \in 1..n : Divides(lists[d], IntervalElements, E[d])
  PROVE  Divides(generateIntervalSeqs(lists), TupleElements(n), Box(E, n))
<1>1. PICK f : AreInProgress(f, n, lists) /\ generateIntervalSeqs(lists) = f[n]
  BY GeneratedIs
<1> DEFINE S == {k \in Nat : k <= n => Divides(f[k], TupleElements(k), Box(E, k))}
<1>2. 0 \in S
  <2>1. <<>> \in Tuples(0)
    BY DEF Tuples
  <2>2. MdElements(<<>>) = Box(E, 0)
    <3>1. MdElements(<<>>) = {x \in [1..0 -> Int] : \A d \in 1..0 : x[d] \in Elements(<<>>[d])}
      BY <2>1, TupleElementsAre
    <3> QED BY <3>1 DEF Box
  <2>3. PICK el, s : el = TupleElements(0) /\ s = <<>>
    OBVIOUS
  <2>4. s \in DOMAIN el /\ el[s] = Box(E, 0)
    BY <2>1, <2>2, <2>3 DEF TupleElements
  <2>5. Divides(<<s>>, el, el[s])
    BY <2>4, OneDivides
  <2>6. f[0] = <<s>>
    BY <1>1, <2>3 DEF AreInProgress
  <2> QED BY <2>3, <2>4, <2>5, <2>6
<1>3. ASSUME NEW k \in Nat, k \in S
      PROVE  k + 1 \in S
  <2> SUFFICES ASSUME k + 1 <= n PROVE Divides(f[k + 1], TupleElements(k + 1), Box(E, k + 1))
    OBVIOUS
  <2>1. k + 1 \in 1..n /\ (k + 1) - 1 = k /\ k <= n
    OBVIOUS
  <2>2. f[k + 1] = Extend(f[k], lists[k + 1])
    BY <1>1, <2>1 DEF AreInProgress
  <2>3. Divides(f[k], TupleElements(k), Box(E, k)) /\ Divides(lists[k + 1], IntervalElements, E[k + 1])
    BY <1>3, <2>1
  <2>4. Divides(Extend(f[k], lists[k + 1]), TupleElements(k + 1), Cross(Box(E, k), E[k + 1], k))
    BY <2>3, ListExtended
  <2>5. Cross(Box(E, k), E[k + 1], k) = Box(E, k + 1)
    <3>1. ASSUME NEW x \in [1..(k + 1) -> Int]
          PROVE  ([d \in 1..k |-> x[d]] \in Box(E, k) /\ x[k + 1] \in E[k + 1])
                 <=> \A d \in 1..(k + 1) : x[d] \in E[d]
      <4>1. PICK y : y = [d \in 1..k |-> x[d]]
        OBVIOUS
      <4>2. y \in [1..k -> Int] /\ \A d \in 1..k : y[d] = x[d]
        BY <4>1
      <4>3. y \in Box(E, k) <=> \A d \in 1..k : x[d] \in E[d]
        BY <4>2 DEF Box
      <4>4. 1..(k + 1) = (1..k) \cup {k + 1}
        OBVIOUS
      <4> QED BY ONLY <4>1, <4>3, <4>4
    <3> QED BY <3>1 DEF Cross, Box
  <2> QED BY <2>2, <2>4, <2>5
<1>4. n \in S
  <2> HIDE DEF S
  <2> QED BY <1>2, <1>3, Induction
<1> QED BY <1>1, <1>4

\* In each dimension, the two can be compared.
ComparableInEach(md, other, n) == \A d \in 1..n : Comparable(md[d], other[d])

\* MultidimensionalIntervalSeq::computeIntersection
LEMMA MdIntersectionDivides ==
  ASSUME NEW n \in Nat, NEW md \in Tuples(n), NEW other \in Tuples(n), ComparableInEach(md, other, n)
  PROVE  Divides(MdIntersection(md, other), TupleElements(n), MdElements(md) \cap MdElements(other))
<1>1. Len(md) = n /\ \A d \in 1..n : md[d] \in IntervalSeqs /\ other[d] \in IntervalSeqs
  BY TupleLength
<1>2. PICK lists : lists = [d \in 1..n |-> computeIntersection(md[d], other[d])]
  OBVIOUS
<1>3. PICK E : E = [d \in 1..n |-> Elements(md[d]) \cap Elements(other[d])]
  OBVIOUS
<1>4. \A d \in 1..n : Divides(lists[d], IntervalElements, E[d])
  <2>1. ASSUME NEW d \in 1..n
        PROVE  Divides(lists[d], IntervalElements, E[d])
    <3>1. PICK s \in IntervalSeqs, t \in IntervalSeqs : s = md[d] /\ t = other[d]
      BY <1>1
    <3>2. Comparable(s, t)
      BY <3>1 DEF ComparableInEach
    <3>3. Divides(computeIntersection(s, t), IntervalElements, Elements(s) \cap Elements(t))
      BY <3>2, IntersectionExact
    <3> QED BY <1>2, <1>3, <3>1, <3>3
  <2> QED BY <2>1
<1>5. Box(E, n) = MdElements(md) \cap MdElements(other)
  <2>1. /\ MdElements(md) = {x \in [1..n -> Int] : \A d \in 1..n : x[d] \in Elements(md[d])}
        /\ MdElements(other) = {x \in [1..n -> Int] : \A d \in 1..n : x[d] \in Elements(other[d])}
    BY TupleElementsAre
  <2> QED BY <1>3, <2>1 DEF Box
<1>6. MdIntersection(md, other) = IF \E d \in 1..n : lists[d] = <<>> THEN <<>> ELSE generateIntervalSeqs(lists)
  BY <1>1, <1>2 DEF MdIntersection
<1>7. CASE \E d \in 1..n : lists[d] = <<>>
  <2>1. PICK d \in 1..n : lists[d] = <<>>
    BY <1>7
  <2>2. E[d] = {}
    BY <1>4, <2>1 DEF Divides
  <2>3. Box(E, n) = {}
    BY <2>2 DEF Box
  <2>4. Divides(<<>>, TupleElements(n), {})
    BY NothingDivides
  <2> QED BY <1>5, <1>6, <1>7, <2>3, <2>4
<1>8. CASE ~\E d \in 1..n : lists[d] = <<>>
  <2>1. lists \in [1..n -> Seq(IntervalSeqs)]
    <3>1. \A d \in 1..n : lists[d] \in Seq(IntervalSeqs)
      BY <1>4 DEF Divides, IntervalElements
    <3> QED BY <1>2, <3>1
  <2>2. Divides(generateIntervalSeqs(lists), TupleElements(n), Box(E, n))
    BY <1>4, <2>1, GenerateDivides
  <2> QED BY <1>5, <1>6, <1>8, <2>2
<1> QED BY <1>7, <1>8

\* No point is in two sequences of a data description.
Apart(desc) == \A i, j \in 1..Len(desc) : i # j => MdElements(desc[i]) \cap MdElements(desc[j]) = {}

\* One sequence of the sender with all of the receiver's.
LEMMA RowDivides ==
  ASSUME NEW n \in Nat, NEW md \in Tuples(n), NEW desc \in Seq(Tuples(n)), Apart(desc),
         \A j \in 1..Len(desc) : ComparableInEach(md, desc[j], n)
  PROVE  Divides(FlattenSeq([j \in 1..Len(desc) |-> MdIntersection(md, desc[j])]), TupleElements(n),
                 MdElements(md) \cap Described(desc))
<1>1. PICK m \in Nat : m = Len(desc)
  OBVIOUS
<1>2. PICK lists : lists = [j \in 1..m |-> MdIntersection(md, desc[j])]
  OBVIOUS
<1>3. PICK E : E = [j \in 1..m |-> MdElements(md) \cap MdElements(desc[j])]
  OBVIOUS
<1>4. PICK el : el = TupleElements(n)
  OBVIOUS
<1>5. DivideDisjoint(lists, m, el, E)
  <2>1. lists = [j \in 1..m |-> lists[j]]
    BY <1>2
  <2>2. \A j \in 1..m : Divides(lists[j], el, E[j])
    <3> SUFFICES ASSUME NEW j \in 1..m PROVE Divides(lists[j], el, E[j])
      OBVIOUS
    <3>1. PICK other \in Tuples(n) : other = desc[j]
      BY <1>1
    <3>2. ComparableInEach(md, other, n)
      BY <1>1, <3>1
    <3>3. Divides(MdIntersection(md, other), TupleElements(n), MdElements(md) \cap MdElements(other))
      BY <3>2, MdIntersectionDivides
    <3> QED BY <1>2, <1>3, <1>4, <3>1, <3>3
  <2>3. \A i, j \in 1..m : i # j => E[i] \cap E[j] = {}
    BY <1>1, <1>3 DEF Apart
  <2> QED BY <2>1, <2>2, <2>3, Zenon DEF DivideDisjoint
<1>6. Divides(FlattenSeq(lists), el, UnionOf(E, m))
  BY <1>5, FlattenDivides
<1>7. UnionOf(E, m) = MdElements(md) \cap Described(desc)
  <2>1. \A x : x \in UnionOf(E, m) <=> \E j \in 1..m : x \in E[j]
    BY DEF UnionOf
  <2>2. \A x : x \in Described(desc) <=> \E j \in 1..m : x \in MdElements(desc[j])
    BY <1>1 DEF Described
  <2> QED BY <1>3, <2>1, <2>2
<1> QED BY <1>1, <1>2, <1>4, <1>6, <1>7

\* The sequences of the common region divide it, if any two sequences of the participants can be
\* compared in each dimension (DataExchange::getCommonRegion).
LEMMA CommonRegionDivides ==
  ASSUME NEW n \in Nat \ {0}, NEW sender \in Seq(Tuples(n)), NEW receiver \in Seq(Tuples(n)),
         Apart(sender), Apart(receiver),
         \A i \in 1..Len(sender), j \in 1..Len(receiver) : ComparableInEach(sender[i], receiver[j], n)
  PROVE  Divides(getCommonRegion(sender, receiver), TupleElements(n), Described(sender) \cap Described(receiver))
<1>1. PICK m \in Nat : m = Len(sender)
  OBVIOUS
<1>2. PICK lists : lists = [i \in 1..m |->
                              FlattenSeq([j \in 1..Len(receiver) |-> MdIntersection(sender[i], receiver[j])])]
  OBVIOUS
<1>3. PICK E : E = [i \in 1..m |-> MdElements(sender[i]) \cap Described(receiver)]
  OBVIOUS
<1>4. PICK el : el = TupleElements(n)
  OBVIOUS
<1>5. DivideDisjoint(lists, m, el, E)
  <2>1. lists = [i \in 1..m |-> lists[i]]
    BY <1>2
  <2>2. \A i \in 1..m : Divides(lists[i], el, E[i])
    <3> SUFFICES ASSUME NEW i \in 1..m PROVE Divides(lists[i], el, E[i])
      OBVIOUS
    <3>1. PICK md \in Tuples(n) : md = sender[i]
      BY <1>1
    <3>2. \A j \in 1..Len(receiver) : ComparableInEach(md, receiver[j], n)
      BY <1>1, <3>1
    <3>3. Divides(FlattenSeq([j \in 1..Len(receiver) |-> MdIntersection(md, receiver[j])]), TupleElements(n),
                  MdElements(md) \cap Described(receiver))
      BY <3>2, RowDivides
    <3> QED BY <1>2, <1>3, <1>4, <3>1, <3>3
  <2>3. \A i, j \in 1..m : i # j => E[i] \cap E[j] = {}
    BY <1>1, <1>3 DEF Apart
  <2> QED BY <2>1, <2>2, <2>3, Zenon DEF DivideDisjoint
<1>6. Divides(FlattenSeq(lists), el, UnionOf(E, m))
  BY <1>5, FlattenDivides
<1>7. UnionOf(E, m) = Described(sender) \cap Described(receiver)
  <2>1. \A x : x \in UnionOf(E, m) <=> \E i \in 1..m : x \in E[i]
    BY DEF UnionOf
  <2>2. \A x : x \in Described(sender) <=> \E i \in 1..m : x \in MdElements(sender[i])
    BY <1>1 DEF Described
  <2> QED BY <1>3, <2>1, <2>2
<1> QED BY <1>1, <1>2, <1>4, <1>6, <1>7 DEF getCommonRegion

\* The items of two lists, of p and of q items, one behind the other.
AreJoined(c, a, b, p, q) ==
  /\ Len(c) = p + q
  /\ \A i \in 1..p : c[i] = a[i]
  /\ \A i \in 1..q : c[p + i] = b[i]

LEMMA JoinedItems ==
  ASSUME NEW V, NEW a \in Seq(V), NEW b \in Seq(V)
  PROVE  a \o b \in Seq(V) /\ AreJoined(a \o b, a, b, Len(a), Len(b))
<1>1. PICK p \in Nat, q \in Nat : p = Len(a) /\ q = Len(b)
  OBVIOUS
<1>2. PICK c : c = a \o b
  OBVIOUS
<1>3. /\ c \in Seq(V) /\ Len(c) = p + q
      /\ \A i \in 1..p : c[i] = a[i]
      /\ \A i \in 1..q : c[p + i] = b[i]
  BY <1>1, <1>2
<1> QED BY <1>1, <1>2, <1>3 DEF AreJoined

\* A sequence that is inserted into a list.
LEMMA InsertedDivides ==
  ASSUME NEW el, NEW s \in DOMAIN el, NEW list, NEW E, Divides(list, el, E), E \cap el[s] = {}
  PROVE  Divides(Inserted(list, s), el, E \cup el[s])
<1>0. PICK V : V = DOMAIN el
  OBVIOUS
<1>1. PICK m \in Nat : m = Len(list) /\ list \in Seq(V) /\ s \in V
  BY <1>0 DEF Divides
<1>2. PICK loc \in 1..(m + 1) :
        loc = Min({j \in 1..Len(list) : Precedes(s, list[j])} \union {Len(list) + 1})
  <2>1. PICK X : X = {j \in 1..Len(list) : Precedes(s, list[j])} \union {Len(list) + 1}
    OBVIOUS
  <2>2. X \in SUBSET (1..(m + 1)) /\ X # {} /\ m + 1 \in Nat
    BY <1>1, <2>1
  <2>3. Min(X) \in X
    BY ONLY <2>2, MinOf
  <2> QED BY <2>1, <2>2, <2>3
<1>3. PICK a, b : a = SubSeq(list, 1, loc - 1) /\ b = SubSeq(list, loc, m)
  OBVIOUS
<1>4. PICK c : c = a \o <<s>> \o b
  OBVIOUS
<1>5. Inserted(list, s) = c
  BY <1>1, <1>2, <1>3, <1>4 DEF Inserted, InsertAt
<1>6. /\ a \in Seq(V) /\ Len(a) = loc - 1 /\ \A i \in 1..(loc - 1) : a[i] = list[i]
      /\ b \in Seq(V) /\ Len(b) = m - loc + 1 /\ \A i \in 1..(m - loc + 1) : b[i] = list[loc + i - 1]
  BY <1>1, <1>3
<1>7. /\ c \in Seq(V) /\ Len(c) = m + 1 /\ c[loc] = s
      /\ \A i \in 1..(loc - 1) : c[i] = list[i]
      /\ \A i \in (loc + 1)..(m + 1) : c[i] = list[i - 1]
  <2>1. PICK d : d = a \o <<s>>
    OBVIOUS
  <2>2. /\ d \in Seq(V) /\ Len(d) = loc /\ d[loc] = s
        /\ \A i \in 1..(loc - 1) : d[i] = a[i]
    BY <1>1, <1>6, <2>1
  <2>3. c = d \o b
    BY <1>4, <2>1
  <2>4. c \in Seq(V) /\ AreJoined(c, d, b, loc, m - loc + 1)
    <3>1. d \in Seq(V) /\ b \in Seq(V) /\ Len(d) = loc /\ Len(b) = m - loc + 1
      BY <1>6, <2>2
    <3>2. d \o b \in Seq(V) /\ AreJoined(d \o b, d, b, Len(d), Len(b))
      BY ONLY <3>1, JoinedItems
    <3> QED BY ONLY <2>3, <3>1, <3>2
  <2>5. /\ Len(c) = m + 1
        /\ \A i \in 1..loc : c[i] = d[i]
        /\ \A i \in 1..(m - loc + 1) : c[loc + i] = b[i]
    <3>1. loc + (m - loc + 1) = m + 1
      OBVIOUS
    <3> QED BY ONLY <2>4, <3>1 DEF AreJoined
  <2>6. ASSUME NEW i \in (loc + 1)..(m + 1)
        PROVE  c[i] = list[i - 1]
    <3>1. i - loc \in 1..(m - loc + 1) /\ loc + (i - loc) = i /\ loc + (i - loc) - 1 = i - 1
      OBVIOUS
    <3>2. b[i - loc] = list[i - 1]
      BY <1>6, <3>1
    <3>3. c[i] = b[i - loc]
      BY <2>5, <3>1
    <3> QED BY <3>2, <3>3
  <2>7. c[loc] = s /\ \A i \in 1..(loc - 1) : c[i] = list[i]
    BY <1>6, <2>2, <2>5
  <2> QED BY <2>4, <2>5, <2>6, <2>7
<1>8. ASSUME NEW i \in 1..(m + 1)
      PROVE  \/ i = loc /\ c[i] = s
             \/ i < loc /\ i \in 1..m /\ c[i] = list[i]
             \/ i > loc /\ i - 1 \in 1..m /\ c[i] = list[i - 1]
  BY <1>7
<1>9. /\ \A i, j \in 1..m : i # j => el[list[i]] \cap el[list[j]] = {}
      /\ \A x : x \in E <=> \E i \in 1..m : x \in el[list[i]]
  BY <1>1 DEF Divides
<1>10. ASSUME NEW i \in 1..(m + 1), NEW j \in 1..(m + 1), i # j
       PROVE  el[c[i]] \cap el[c[j]] = {}
  <2>1. CASE i = loc
    <3>1. c[i] = s /\ \E k \in 1..m : c[j] = list[k]
      BY <1>8, <1>10, <2>1
    <3> QED BY <1>9, <3>1
  <2>2. CASE j = loc
    <3>1. c[j] = s /\ \E k \in 1..m : c[i] = list[k]
      BY <1>8, <1>10, <2>2
    <3> QED BY <1>9, <3>1
  <2>3. CASE i # loc /\ j # loc
    <3>1. PICK k \in 1..m, l \in 1..m : k # l /\ c[i] = list[k] /\ c[j] = list[l]
      BY <1>8, <1>10, <2>3
    <3> QED BY <1>9, <3>1
  <2> QED BY <2>1, <2>2, <2>3
<1>11. ASSUME NEW x
       PROVE  x \in E \cup el[s] <=> \E i \in 1..(m + 1) : x \in el[c[i]]
  <2>1. ASSUME x \in E
        PROVE  \E i \in 1..(m + 1) : x \in el[c[i]]
    <3>1. PICK k \in 1..m : x \in el[list[k]]
      BY <1>9, <2>1
    <3>2. CASE k < loc
      <4>1. k \in 1..(m + 1) /\ c[k] = list[k]
        BY <1>7, <3>2
      <4> QED BY <3>1, <4>1
    <3>3. CASE k >= loc
      <4>1. k + 1 \in 1..(m + 1) /\ k + 1 \in (loc + 1)..(m + 1) /\ (k + 1) - 1 = k
        BY <3>3
      <4>2. c[k + 1] = list[k]
        BY <1>7, <4>1
      <4> QED BY <3>1, <4>1, <4>2
    <3> QED BY <3>2, <3>3
  <2>2. ASSUME x \in el[s]
        PROVE  \E i \in 1..(m + 1) : x \in el[c[i]]
    BY <1>7, <2>2
  <2>3. ASSUME NEW i \in 1..(m + 1), x \in el[c[i]]
        PROVE  x \in E \cup el[s]
    BY <1>8, <1>9, <2>3
  <2> QED BY <2>1, <2>2, <2>3
<1>12. Divides(c, el, E \cup el[s])
  BY <1>0, <1>7, <1>10, <1>11 DEF Divides
<1> QED BY <1>5, <1>12

LEMMA InsertedType ==
  ASSUME NEW V, NEW list \in Seq(V), NEW s \in V
  PROVE  Inserted(list, s) \in Seq(V)
<1>1. PICK X : X = {j \in 1..Len(list) : Precedes(s, list[j])} \union {Len(list) + 1}
  OBVIOUS
<1>2. PICK m \in Nat : m = Len(list) + 1 /\ X \in SUBSET (1..m) /\ X # {}
  BY <1>1
<1>3. PICK loc \in 1..m : loc = Min(X)
  BY ONLY <1>2, MinOf
<1>4. /\ SubSeq(list, 1, loc - 1) \in Seq(V) /\ SubSeq(list, loc, Len(list)) \in Seq(V)
      /\ <<s>> \in Seq(V)
  BY <1>2, <1>3
<1>5. Inserted(list, s) = SubSeq(list, 1, loc - 1) \o <<s>> \o SubSeq(list, loc, Len(list))
  BY <1>1, <1>3 DEF Inserted, InsertAt
<1> QED BY <1>4, <1>5

\* The order is brought about by inserting the sequences one after the other.
IsOrdering(f, n, region) ==
  /\ f[0] = <<>>
  /\ \A i \in 1..n : f[i] = Inserted(f[i - 1], region[i])

LEMMA OrderedIs ==
  ASSUME NEW V, NEW region \in Seq(V)
  PROVE  \E f : IsOrdering(f, Len(region), region) /\ orderedSeqList(region) = f[Len(region)]
<1> DEFINE n == Len(region)
           Eqn(t) == t = [i \in 0..n |-> IF i = 0 THEN <<>> ELSE Inserted(t[i - 1], region[i])]
           t == CHOOSE x : Eqn(x)
           W == Seq(V)
<1>1. n \in Nat /\ \A i \in 1..n : region[i] \in V
  OBVIOUS
<1>2. orderedSeqList(region) = t[n]
  BY DEF orderedSeqList
<1> HIDE DEF n
<1>3. PICK G \in [1..n -> [W -> W]] : \A i \in 1..n, v \in W : G[i][v] = Inserted(v, region[i])
  <2> DEFINE G == [i \in 1..n |-> [v \in W |-> Inserted(v, region[i])]]
  <2>1. \A i \in 1..n, v \in W : Inserted(v, region[i]) \in W
    BY <1>1, InsertedType
  <2> HIDE DEF W
  <2>2. G \in [1..n -> [W -> W]]
    BY <2>1
  <2>3. \A i \in 1..n, v \in W : G[i][v] = Inserted(v, region[i])
    OBVIOUS
  <2> HIDE DEF G
  <2> QED BY <2>2, <2>3
<1>4. PICK f \in [0..n -> W] : IsRecursion(f, n, <<>>, G)
  <2>1. <<>> \in W
    OBVIOUS
  <2> HIDE DEF W
  <2> QED BY ONLY <1>1, <1>3, <2>1, RecursionExists
<1> HIDE DEF W
<1>5. IsOrdering(f, n, region)
  <2>1. ASSUME NEW i \in 1..n
        PROVE  f[i] = Inserted(f[i - 1], region[i])
    <3>1. i - 1 \in 0..n
      BY <1>1
    <3>2. f[i - 1] \in W /\ f[i] = G[i][f[i - 1]]
      BY <1>4, <3>1 DEF IsRecursion
    <3> QED BY <1>3, <3>2
  <2> QED BY <1>4, <2>1 DEF IsRecursion, IsOrdering
<1>6. Eqn(f)
  <2>1. f = [i \in 0..n |-> f[i]]
    BY <1>4
  <2>2. ASSUME NEW i \in 0..n
        PROVE  f[i] = IF i = 0 THEN <<>> ELSE Inserted(f[i - 1], region[i])
    <3>1. CASE i = 0
      BY <1>5, <3>1 DEF IsOrdering
    <3>2. CASE i # 0
      <4>1. i \in 1..n
        BY <1>1, <3>2
      <4>2. f[i] = Inserted(f[i - 1], region[i])
        BY <1>5, <4>1 DEF IsOrdering
      <4> QED BY <3>2, <4>2
    <3> QED BY <3>1, <3>2
  <2> QED BY <2>1, <2>2
<1>7. Eqn(t)
  <2> HIDE DEF Eqn
  <2> QED BY <1>6
<1> HIDE DEF t
<1>8. IsOrdering(t, n, region)
  <2>1. t[0] = <<>>
    BY <1>1, <1>7
  <2>2. ASSUME NEW i \in 1..n
        PROVE  t[i] = Inserted(t[i - 1], region[i])
    <3>1. i \in 0..n /\ i # 0
      BY <1>1
    <3>2. t[i] = IF i = 0 THEN <<>> ELSE Inserted(t[i - 1], region[i])
      BY <1>7, <3>1
    <3> QED BY <3>1, <3>2
  <2> QED BY <2>1, <2>2 DEF IsOrdering
<1> QED BY <1>2, <1>8 DEF n

\* Whatever the order, the sequences divide the same points (the constructor of DataExchange).
LEMMA OrderedDivides ==
  ASSUME NEW el, NEW region, NEW E, Divides(region, el, E)
  PROVE  Divides(orderedSeqList(region), el, E)
<1>0. PICK V : V = DOMAIN el
  OBVIOUS
<1>1. PICK n \in Nat : n = Len(region) /\ region \in Seq(V)
  BY <1>0 DEF Divides
<1>2. PICK f : IsOrdering(f, n, region) /\ orderedSeqList(region) = f[n]
  BY <1>1, OrderedIs
<1> DEFINE U(k) == UNION {el[region[i]] : i \in 1..k}
           S == {k \in Nat : k <= n => Divides(f[k], el, U(k))}
<1>3. 0 \in S
  <2>1. U(0) = {}
    OBVIOUS
  <2>2. f[0] = <<>>
    BY <1>2 DEF IsOrdering
  <2>3. Divides(<<>>, el, {})
    BY NothingDivides
  <2> HIDE DEF U
  <2> QED BY <2>1, <2>2, <2>3
<1>4. ASSUME NEW k \in Nat, k \in S
      PROVE  k + 1 \in S
  <2> SUFFICES ASSUME k + 1 <= n PROVE Divides(f[k + 1], el, U(k + 1))
    OBVIOUS
  <2>1. k + 1 \in 1..n /\ (k + 1) - 1 = k /\ k <= n
    OBVIOUS
  <2>2. f[k + 1] = Inserted(f[k], region[k + 1])
    BY <1>2, <2>1 DEF IsOrdering
  <2>3. Divides(f[k], el, U(k))
    BY <1>4, <2>1
  <2>4. U(k + 1) = U(k) \cup el[region[k + 1]]
    <3>1. 1..(k + 1) = (1..k) \cup {k + 1}
      OBVIOUS
    <3> QED BY ONLY <3>1
  <2>5. U(k) \cap el[region[k + 1]] = {}
    <3>1. \A i \in 1..k : i \in 1..n /\ i # k + 1
      BY <2>1
    <3>2. \A i, j \in 1..n : i # j => el[region[i]] \cap el[region[j]] = {}
      BY <1>1 DEF Divides
    <3> QED BY <2>1, <3>1, <3>2
  <2>6. region[k + 1] \in DOMAIN el
    BY <1>0, <1>1, <2>1
  <2> HIDE DEF U
  <2>7. PICK list, s, X : list = f[k] /\ s = region[k + 1] /\ X = U(k)
    OBVIOUS
  <2>8. Divides(Inserted(list, s), el, X \cup el[s])
    BY <2>3, <2>5, <2>6, <2>7, InsertedDivides
  <2> QED BY <2>2, <2>4, <2>7, <2>8
<1>5. n \in S
  <2> HIDE DEF S
  <2> QED BY <1>3, <1>4, Induction
<1>6. U(n) = E
  BY <1>1 DEF Divides
<1> HIDE DEF U
<1> QED BY <1>2, <1>5, <1>6

\* What divides the common points is exact.
LEMMA DividesExactly ==
  ASSUME NEW n \in Nat \ {0}, NEW region, NEW sender, NEW receiver,
         Divides(region, TupleElements(n), Described(sender) \cap Described(receiver))
  PROVE  IsExact(region, sender, receiver)
<1>1. PICK el : el = TupleElements(n)
  OBVIOUS
<1>2. Divides(region, el, Described(sender) \cap Described(receiver))
  BY <1>1
<1>3. region \in Seq(Tuples(n)) /\ \A md \in Tuples(n) : el[md] = MdElements(md)
  BY <1>1, <1>2 DEF Divides, TupleElements
<1>4. PICK N \in Nat : N = Len(region) /\ \A i \in 1..N : region[i] \in Tuples(n)
  BY <1>3
<1>5. \A i \in 1..N : region[i] \in Seq(IntervalSeqs) \ {<<>>}
  <2> SUFFICES ASSUME NEW i \in 1..N PROVE region[i] \in Seq(IntervalSeqs) \ {<<>>}
    OBVIOUS
  <2>1. Len(region[i]) = n /\ region[i] \in Seq(IntervalSeqs)
    BY <1>4, TupleLength
  <2>2. region[i] # <<>>
    BY <2>1
  <2> QED BY <2>1, <2>2
<1>6. region \in DataDescriptions
  BY <1>3, <1>4, <1>5 DEF DataDescriptions
<1>7. \A i, j \in 1..N : i # j => MdElements(region[i]) \cap MdElements(region[j]) = {}
  BY <1>2, <1>3, <1>4 DEF Divides
<1>8. Described(region) = Described(sender) \cap Described(receiver)
  <2>1. \A x : x \in Described(region) <=> \E i \in 1..N : x \in MdElements(region[i])
    BY <1>4 DEF Described
  <2>2. \A x : x \in Described(sender) \cap Described(receiver) <=> \E i \in 1..N : x \in MdElements(region[i])
    BY <1>2, <1>3, <1>4 DEF Divides
  <2> QED BY <2>1, <2>2
<1> QED BY <1>4, <1>6, <1>7, <1>8 DEF IsExact

\* A participant that equals the other one describes what they have in common.
LEMMA EqualDivides ==
  ASSUME NEW n \in Nat, NEW sender \in Seq(Tuples(n)), NEW receiver \in Seq(Tuples(n)),
         Apart(sender), isEqual(sender, receiver)
  PROVE  Divides(sender, TupleElements(n), Described(sender) \cap Described(receiver))
<1>0. PICK m \in Nat : m = Len(sender)
  OBVIOUS
<1>1. PICK el : el = TupleElements(n) /\ m = Len(sender)
  BY <1>0
<1>2. /\ sender \in Seq(DOMAIN el)
      /\ \A i \in 1..m : el[sender[i]] = MdElements(sender[i])
  BY <1>1 DEF TupleElements
<1>3. \A i, j \in 1..m : i # j => el[sender[i]] \cap el[sender[j]] = {}
  BY <1>1, <1>2 DEF Apart
<1>4. \A x : x \in Described(sender) <=> \E i \in 1..m : x \in MdElements(sender[i])
  BY <1>1 DEF Described
<1>5. \A i \in 1..m : MdElements(sender[i]) \subseteq Described(receiver)
  BY <1>1 DEF isEqual, Described
<1>6. \A x : x \in Described(sender) \cap Described(receiver) <=> \E i \in 1..m : x \in el[sender[i]]
  BY <1>2, <1>4, <1>5
<1> QED BY <1>1, <1>2, <1>3, <1>6 DEF Divides

\* The region of an exchange is exact, if any two sequences of its participants, in each dimension,
\* either have an interval on one side, as blocks have, or go on for a common period
\* (Confinement::generateDataExchangeList and the constructor of DataExchange).
THEOREM CommonRegionExact ==
  ASSUME NEW n \in Nat \ {0}, NEW sender \in Seq(Tuples(n)), NEW receiver \in Seq(Tuples(n)),
         Apart(sender), Apart(receiver),
         \A i \in 1..Len(sender), j \in 1..Len(receiver) : ComparableInEach(sender[i], receiver[j], n)
  PROVE  IsExact(exchangeDesc(sender, receiver), sender, receiver)
<1>1. PICK el, E : el = TupleElements(n) /\ E = Described(sender) \cap Described(receiver)
  OBVIOUS
<1>2. CASE isEqual(sender, receiver)
  <2>1. Divides(sender, TupleElements(n), Described(sender) \cap Described(receiver))
    BY <1>2, EqualDivides
  <2> QED BY <1>2, <2>1, DividesExactly DEF exchangeDesc
<1>3. CASE ~isEqual(sender, receiver)
  <2>1. PICK region : region = getCommonRegion(sender, receiver)
    OBVIOUS
  <2>2. Divides(region, el, E)
    BY <1>1, <2>1, CommonRegionDivides
  <2>3. Divides(orderedSeqList(region), el, E)
    BY <2>2, OrderedDivides
  <2> QED BY <1>1, <1>3, <2>1, <2>3, DividesExactly DEF exchangeDesc
<1> QED BY <1>2, <1>3

-----------------------------------------------------------------------------
(* Items of lists *)

\* x is one of the items of a list.
In(x, list) == \E i \in 1..Len(list) : list[i] = x

LEMMA InJoined ==
  ASSUME NEW V, NEW a \in Seq(V), NEW b \in Seq(V)
  PROVE  a \o b \in Seq(V) /\ \A x : In(x, a \o b) <=> In(x, a) \/ In(x, b)
<1>1. PICK p \in Nat, q \in Nat : p = Len(a) /\ q = Len(b)
  OBVIOUS
<1>2. PICK c : c = a \o b
  OBVIOUS
<1>3. /\ c \in Seq(V) /\ Len(c) = p + q
      /\ \A i \in 1..p : c[i] = a[i]
      /\ \A i \in 1..q : c[p + i] = b[i]
  BY <1>1, <1>2
<1>4. ASSUME NEW x, In(x, c)
      PROVE  In(x, a) \/ In(x, b)
  <2>1. PICK i \in 1..(p + q) : c[i] = x
    BY <1>3, <1>4 DEF In
  <2>2. CASE i \in 1..p
    BY <1>1, <1>3, <2>1, <2>2 DEF In
  <2>3. CASE i \notin 1..p
    <3>1. i - p \in 1..q /\ p + (i - p) = i
      BY <2>3
    <3>2. b[i - p] = x
      BY <1>3, <2>1, <3>1
    <3> QED BY <1>1, <3>1, <3>2 DEF In
  <2> QED BY <2>2, <2>3
<1>5. ASSUME NEW x, In(x, a)
      PROVE  In(x, c)
  <2>1. PICK i \in 1..p : a[i] = x
    BY <1>1, <1>5 DEF In
  <2>2. i \in 1..(p + q) /\ c[i] = x
    BY <1>3, <2>1
  <2> QED BY <1>3, <2>2 DEF In
<1>6. ASSUME NEW x, In(x, b)
      PROVE  In(x, c)
  <2>1. PICK i \in 1..q : b[i] = x
    BY <1>1, <1>6 DEF In
  <2>2. p + i \in 1..(p + q) /\ c[p + i] = x
    BY <1>3, <2>1
  <2> QED BY <1>3, <2>2 DEF In
<1> QED BY <1>2, <1>3, <1>4, <1>5, <1>6

LEMMA InFlattened ==
  ASSUME NEW V, NEW n \in Nat, NEW lists, lists \in [1..n -> Seq(V)]
  PROVE  /\ FlattenSeq(lists) \in Seq(V)
         /\ \A x : In(x, FlattenSeq(lists)) <=> \E i \in 1..n : In(x, lists[i])
<1>1. lists \in Seq(Seq(V)) /\ Len(lists) = n
  OBVIOUS
<1>2. PICK f : IsFlattening(f, n, V, lists) /\ FlattenSeq(lists) = f[n]
  BY <1>1, FlattenIs
<1> DEFINE S == {k \in Nat : k <= n => /\ f[k] \in Seq(V)
                                       /\ \A x : In(x, f[k]) <=> \E i \in 1..k : In(x, lists[i])}
<1>3. 0 \in S
  <2>1. f[0] = <<>>
    BY <1>2 DEF IsFlattening
  <2>2. <<>> \in Seq(V) /\ \A x : ~In(x, <<>>)
    BY DEF In
  <2>3. ~\E i : i \in 1..0
    OBVIOUS
  <2>4. f[0] \in Seq(V) /\ \A x : In(x, f[0]) <=> \E i \in 1..0 : In(x, lists[i])
    BY <2>1, <2>2, <2>3
  <2> QED BY <2>4
<1>4. ASSUME NEW k \in Nat, k \in S
      PROVE  k + 1 \in S
  <2> SUFFICES ASSUME k + 1 <= n
               PROVE  /\ f[k + 1] \in Seq(V)
                      /\ \A x : In(x, f[k + 1]) <=> \E i \in 1..(k + 1) : In(x, lists[i])
    OBVIOUS
  <2>1. PICK a, b : a = f[k] /\ b = lists[k + 1]
    OBVIOUS
  <2>2. k + 1 \in 1..n /\ (k + 1) - 1 = k
    OBVIOUS
  <2>3. f[k + 1] = a \o b
    BY <1>2, <2>1, <2>2 DEF IsFlattening
  <2>4. /\ a \in Seq(V) /\ b \in Seq(V)
        /\ \A x : In(x, a) <=> \E i \in 1..k : In(x, lists[i])
    BY <1>4, <2>1, <2>2
  <2>5. f[k + 1] \in Seq(V) /\ \A x : In(x, f[k + 1]) <=> In(x, a) \/ In(x, b)
    BY <2>3, <2>4, InJoined
  <2>6. \A i : i \in 1..(k + 1) <=> i \in 1..k \/ i = k + 1
    OBVIOUS
  <2> QED BY <2>1, <2>4, <2>5, <2>6
<1>5. n \in S
  <2> HIDE DEF S
  <2> QED BY <1>3, <1>4, Induction
<1> QED BY <1>2, <1>5

LEMMA InOne ==
  ASSUME NEW V, NEW y \in V
  PROVE  <<y>> \in Seq(V) /\ \A x : In(x, <<y>>) <=> x = y
BY DEF In

LEMMA InNone ==
  ASSUME NEW V
  PROVE  <<>> \in Seq(V) /\ \A x : ~In(x, <<>>)
BY DEF In

-----------------------------------------------------------------------------
(* Candidates *)

LEMMA RemoteAre ==
  ASSUME NEW holdings, NEW l
  PROVE  /\ RemoteParticipants(holdings, l) \in Seq(Segments)
         /\ \A s : In(s, RemoteParticipants(holdings, l)) <=> s \in Segments /\ s # l /\ holdings[s] # {}
<1> DEFINE lists == [i \in 1..NumSegments |->
                       IF i - 1 # l /\ holdings[i - 1] # {} THEN <<i - 1>> ELSE <<>>]
<1>1. NumSegments \in Nat
  BY NumSegmentsAssumption
<1>2. ASSUME NEW i \in 1..NumSegments
      PROVE  /\ i - 1 \in Segments
             /\ lists[i] \in Seq(Segments)
             /\ \A s : In(s, lists[i]) <=> s = i - 1 /\ i - 1 # l /\ holdings[i - 1] # {}
  <2>1. PICK q : q = i - 1
    OBVIOUS
  <2>2. q \in Segments
    BY <1>1, <2>1 DEF Segments
  <2>3. lists[i] = IF q # l /\ holdings[q] # {} THEN <<q>> ELSE <<>>
    BY <2>1
  <2> HIDE DEF lists
  <2>4. CASE q # l /\ holdings[q] # {}
    <3>1. lists[i] = <<q>>
      BY <2>3, <2>4
    <3>2. <<q>> \in Seq(Segments) /\ \A s : In(s, <<q>>) <=> s = q
      BY <2>2, InOne
    <3> QED BY <2>1, <2>2, <2>4, <3>1, <3>2
  <2>5. CASE ~(q # l /\ holdings[q] # {})
    <3>1. lists[i] = <<>>
      BY <2>3, <2>5
    <3> QED BY <2>1, <2>2, <2>5, <3>1, InNone
  <2> QED BY <2>4, <2>5
<1>3. lists \in [1..NumSegments -> Seq(Segments)]
  BY <1>2
<1>4. RemoteParticipants(holdings, l) = FlattenSeq(lists)
  BY Zenon DEF RemoteParticipants
<1> HIDE DEF lists
<1>5. /\ FlattenSeq(lists) \in Seq(Segments)
      /\ \A x : In(x, FlattenSeq(lists)) <=> \E i \in 1..NumSegments : In(x, lists[i])
  BY <1>1, <1>3, InFlattened
<1>6. \A s \in Segments : s + 1 \in 1..NumSegments /\ (s + 1) - 1 = s
  BY <1>1 DEF Segments
<1>7. ASSUME NEW s, In(s, FlattenSeq(lists))
      PROVE  s \in Segments /\ s # l /\ holdings[s] # {}
  <2>1. PICK i \in 1..NumSegments : In(s, lists[i])
    BY <1>5, <1>7
  <2> QED BY <1>2, <2>1
<1>8. ASSUME NEW s \in Segments, s # l, holdings[s] # {}
      PROVE  In(s, FlattenSeq(lists))
  <2>1. PICK i \in 1..NumSegments : i - 1 = s
    BY <1>6
  <2>2. In(s, lists[i])
    BY <1>2, <1>8, <2>1
  <2> QED BY <1>5, <2>2
<1> QED BY <1>4, <1>5, <1>7, <1>8

LEMMA LocalIs ==
  ASSUME NEW holdings, NEW l \in Segments
  PROVE  /\ LocalParticipant(holdings, l) \in Seq(Segments)
         /\ \A s : In(s, LocalParticipant(holdings, l)) <=> s = l /\ holdings[s] # {}
BY InOne, InNone DEF LocalParticipant

\* Where a sender and a receiver overlap.
Pair(dep, s, r) == [from |-> s, to |-> r, content |-> Overlap(dep, s, r)]
Pairs(dep) == {Pair(dep, p[1], p[2]) : p \in Segments \X Segments}

LEMMA PairsAre ==
  ASSUME NEW dep, NEW s \in Segments, NEW r \in Segments
  PROVE  /\ Pair(dep, s, r) \in Pairs(dep)
         /\ Pair(dep, s, r).from = s /\ Pair(dep, s, r).to = r /\ Pair(dep, s, r).content = Overlap(dep, s, r)
<1>1. <<s, r>> \in Segments \X Segments /\ <<s, r>>[1] = s /\ <<s, r>>[2] = r
  OBVIOUS
<1>2. Pair(dep, s, r) \in Pairs(dep)
  BY <1>1, Zenon DEF Pairs
<1> QED BY <1>2 DEF Pair

LEMMA PairIs ==
  ASSUME NEW dep, NEW e \in Pairs(dep)
  PROVE  /\ e.from \in Segments /\ e.to \in Segments /\ e.content = Overlap(dep, e.from, e.to)
         /\ e = Pair(dep, e.from, e.to)
<1>1. PICK p \in Segments \X Segments : e = Pair(dep, p[1], p[2])
  BY Zenon DEF Pairs
<1>2. p[1] \in Segments /\ p[2] \in Segments
  OBVIOUS
<1>3. e.from = p[1] /\ e.to = p[2]
  BY <1>1, <1>2, PairsAre
<1> QED BY <1>1, <1>2, <1>3, PairsAre

LEMMA GeneratedPairs ==
  ASSUME NEW dep, NEW senders \in Seq(Segments), NEW receivers \in Seq(Segments)
  PROVE  /\ generateDataExchangeList(dep, senders, receivers) \in Seq(Pairs(dep))
         /\ \A e : In(e, generateDataExchangeList(dep, senders, receivers)) <=>
              \E s, r \in Segments : /\ In(s, senders) /\ In(r, receivers) /\ Overlap(dep, s, r) # {}
                                     /\ e = Pair(dep, s, r)
<1> DEFINE Exchanged(s, r) == IF Overlap(dep, s, r) = {} THEN <<>>
                              ELSE <<[from |-> s, to |-> r, content |-> Overlap(dep, s, r)]>>
           row(i) == [j \in 1..Len(receivers) |-> Exchanged(senders[i], receivers[j])]
           lists == [i \in 1..Len(senders) |-> FlattenSeq(row(i))]
<1>1. PICK m \in Nat, n \in Nat : m = Len(senders) /\ n = Len(receivers)
  OBVIOUS
<1>2. /\ \A i \in 1..m : senders[i] \in Segments
      /\ \A j \in 1..n : receivers[j] \in Segments
  BY <1>1
<1>3. ASSUME NEW s \in Segments, NEW r \in Segments
      PROVE  /\ Exchanged(s, r) \in Seq(Pairs(dep))
             /\ \A e : In(e, Exchanged(s, r)) <=> Overlap(dep, s, r) # {} /\ e = Pair(dep, s, r)
  <2>1. Exchanged(s, r) = IF Overlap(dep, s, r) = {} THEN <<>> ELSE <<Pair(dep, s, r)>>
    BY Zenon DEF Pair
  <2>2. Pair(dep, s, r) \in Pairs(dep)
    BY PairsAre
  <2> HIDE DEF Exchanged
  <2>3. CASE Overlap(dep, s, r) = {}
    <3>1. Exchanged(s, r) = <<>>
      BY <2>1, <2>3
    <3> QED BY <2>3, <3>1, InNone
  <2>4. CASE Overlap(dep, s, r) # {}
    <3>1. Exchanged(s, r) = <<Pair(dep, s, r)>>
      BY <2>1, <2>4
    <3> QED BY <2>2, <2>4, <3>1, InOne
  <2> QED BY <2>3, <2>4
<1>4. generateDataExchangeList(dep, senders, receivers) = FlattenSeq(lists)
  BY Zenon DEF generateDataExchangeList
<1> HIDE DEF Exchanged
<1>5. ASSUME NEW i \in 1..m
      PROVE  /\ lists[i] \in Seq(Pairs(dep))
             /\ \A e : In(e, lists[i]) <=>
                  \E j \in 1..n : Overlap(dep, senders[i], receivers[j]) # {} /\ e = Pair(dep, senders[i], receivers[j])
  <2>1. row(i) \in [1..n -> Seq(Pairs(dep))]
    BY <1>1, <1>2, <1>3
  <2>2. \A j \in 1..n : row(i)[j] = Exchanged(senders[i], receivers[j])
    BY <1>1
  <2>3. lists[i] = FlattenSeq(row(i))
    BY <1>1
  <2> HIDE DEF row, lists
  <2>4. /\ FlattenSeq(row(i)) \in Seq(Pairs(dep))
        /\ \A e : In(e, FlattenSeq(row(i))) <=> \E j \in 1..n : In(e, row(i)[j])
    BY <1>1, <2>1, InFlattened
  <2>5. senders[i] \in Segments
    BY <1>2
  <2>6. ASSUME NEW e, NEW j \in 1..n
        PROVE  In(e, row(i)[j]) <=>
                 Overlap(dep, senders[i], receivers[j]) # {} /\ e = Pair(dep, senders[i], receivers[j])
    <3>1. receivers[j] \in Segments
      BY <1>2
    <3> QED BY <1>3, <2>2, <2>5, <3>1
  <2>7. \A e : In(e, FlattenSeq(row(i))) <=>
          \E j \in 1..n : Overlap(dep, senders[i], receivers[j]) # {} /\ e = Pair(dep, senders[i], receivers[j])
    BY ONLY <2>4, <2>6, Zenon
  <2> QED BY ONLY <2>3, <2>4, <2>7
<1>6. lists \in [1..m -> Seq(Pairs(dep))]
  BY <1>1, <1>5
<1> HIDE DEF lists
<1>7. /\ FlattenSeq(lists) \in Seq(Pairs(dep))
      /\ \A e : In(e, FlattenSeq(lists)) <=> \E i \in 1..m : In(e, lists[i])
  BY <1>1, <1>6, InFlattened
<1>8. ASSUME NEW e, In(e, FlattenSeq(lists))
      PROVE  \E s, r \in Segments : In(s, senders) /\ In(r, receivers) /\ Overlap(dep, s, r) # {} /\ e = Pair(dep, s, r)
  <2>1. PICK i \in 1..m : In(e, lists[i])
    BY <1>7, <1>8
  <2>2. PICK j \in 1..n : Overlap(dep, senders[i], receivers[j]) # {} /\ e = Pair(dep, senders[i], receivers[j])
    BY <1>5, <2>1
  <2>3. In(senders[i], senders) /\ In(receivers[j], receivers)
    BY <1>1 DEF In
  <2> QED BY <1>2, <2>2, <2>3
<1>9. ASSUME NEW s \in Segments, NEW r \in Segments, In(s, senders), In(r, receivers), Overlap(dep, s, r) # {}
      PROVE  In(Pair(dep, s, r), FlattenSeq(lists))
  <2>1. PICK i \in 1..m, j \in 1..n : senders[i] = s /\ receivers[j] = r
    BY <1>1, <1>9 DEF In
  <2>2. In(Pair(dep, s, r), lists[i])
    BY <1>5, <1>9, <2>1
  <2> QED BY <1>7, <2>2
<1> QED BY <1>4, <1>7, <1>8, <1>9

\* A segment leaves its own transfers out, where it updates and uses the same parts.
IsDue(dep, l, s, r) == Overlap(dep, s, r) # {} /\ ~(dep.intra /\ s = l /\ r = l)

\* All segments have the same candidates, but for their own transfers.
LEMMA CandidatesAre ==
  ASSUME NEW dep, dep.intra \in BOOLEAN, NEW l \in Segments
  PROVE  /\ CandidateExchanges(dep, l) \in Seq(Pairs(dep))
         /\ \A e : In(e, CandidateExchanges(dep, l)) <=>
              \E s, r \in Segments : IsDue(dep, l, s, r) /\ e = Pair(dep, s, r)
<1> DEFINE localSender     == LocalParticipant(dep.sends, l)
           localReceiver   == LocalParticipant(dep.receives, l)
           remoteSenders   == RemoteParticipants(dep.sends, l)
           remoteReceivers == RemoteParticipants(dep.receives, l)
           reachable       == IF dep.intra THEN remoteReceivers ELSE remoteReceivers \o localReceiver
           first  == generateDataExchangeList(dep, localSender, reachable)
           second == generateDataExchangeList(dep, remoteSenders, localReceiver)
           third  == generateDataExchangeList(dep, remoteSenders, remoteReceivers)
<1>1. CandidateExchanges(dep, l) = (first \o second) \o third
  BY Zenon DEF CandidateExchanges
<1>2. /\ localSender \in Seq(Segments) /\ localReceiver \in Seq(Segments)
      /\ remoteSenders \in Seq(Segments) /\ remoteReceivers \in Seq(Segments)
  BY LocalIs, RemoteAre
<1>3. /\ \A s : In(s, localSender) <=> s = l /\ dep.sends[s] # {}
      /\ \A s : In(s, localReceiver) <=> s = l /\ dep.receives[s] # {}
      /\ \A s : In(s, remoteSenders) <=> s \in Segments /\ s # l /\ dep.sends[s] # {}
      /\ \A s : In(s, remoteReceivers) <=> s \in Segments /\ s # l /\ dep.receives[s] # {}
  BY LocalIs, RemoteAre
<1> HIDE DEF localSender, localReceiver, remoteSenders, remoteReceivers
<1>4. /\ reachable \in Seq(Segments)
      /\ \A s \in Segments : In(s, reachable) <=> dep.receives[s] # {} /\ ~(dep.intra /\ s = l)
  <2>1. CASE dep.intra
    BY <1>2, <1>3, <2>1
  <2>2. CASE ~dep.intra
    <3>1. /\ remoteReceivers \o localReceiver \in Seq(Segments)
          /\ \A s : In(s, remoteReceivers \o localReceiver) <=> In(s, remoteReceivers) \/ In(s, localReceiver)
      BY <1>2, InJoined
    <3> QED BY <1>3, <2>2, <3>1
  <2> QED BY <2>1, <2>2
<1> HIDE DEF reachable
<1> DEFINE From(e, a, b) == \E s, r \in Segments : /\ In(s, a) /\ In(r, b) /\ Overlap(dep, s, r) # {}
                                                   /\ e = Pair(dep, s, r)
<1>5. /\ first \in Seq(Pairs(dep)) /\ \A e : In(e, first) <=> From(e, localSender, reachable)
      /\ second \in Seq(Pairs(dep)) /\ \A e : In(e, second) <=> From(e, remoteSenders, localReceiver)
      /\ third \in Seq(Pairs(dep)) /\ \A e : In(e, third) <=> From(e, remoteSenders, remoteReceivers)
  BY <1>2, <1>4, GeneratedPairs
<1> HIDE DEF first, second, third
<1>6. /\ first \o second \in Seq(Pairs(dep))
      /\ \A e : In(e, first \o second) <=> In(e, first) \/ In(e, second)
  BY <1>5, InJoined
<1>7. /\ (first \o second) \o third \in Seq(Pairs(dep))
      /\ \A e : In(e, (first \o second) \o third) <=> In(e, first \o second) \/ In(e, third)
  BY <1>5, <1>6, InJoined
<1>8. \A s, r \in Segments : Overlap(dep, s, r) # {} => dep.sends[s] # {} /\ dep.receives[r] # {}
  BY DEF Overlap
<1>9. ASSUME NEW s \in Segments, NEW r \in Segments, Overlap(dep, s, r) # {}
      PROVE  ~(dep.intra /\ s = l /\ r = l) <=>
                \/ In(s, localSender) /\ In(r, reachable)
                \/ In(s, remoteSenders) /\ In(r, localReceiver)
                \/ In(s, remoteSenders) /\ In(r, remoteReceivers)
  BY <1>3, <1>4, <1>8, <1>9
<1>10. \A e : (From(e, localSender, reachable) \/ From(e, remoteSenders, localReceiver)
                 \/ From(e, remoteSenders, remoteReceivers))
              <=> \E s, r \in Segments : IsDue(dep, l, s, r) /\ e = Pair(dep, s, r)
  BY <1>9 DEF IsDue
<1> HIDE DEF From
<1>11. \A e : In(e, (first \o second) \o third) <=>
         (From(e, localSender, reachable) \/ From(e, remoteSenders, localReceiver)
            \/ From(e, remoteSenders, remoteReceivers))
  BY <1>5, <1>6, <1>7
<1> QED BY <1>1, <1>7, <1>10, <1>11

-----------------------------------------------------------------------------
(* Tags *)

\* The exchange that another one is combined with is the first one of its content.
LEMMA MatchingIs ==
  ASSUME NEW list, NEW n \in Nat, n = Len(list), NEW i \in 1..n
  PROVE  /\ Matching(list, i) \in 1..n
         /\ list[Matching(list, i)].content = list[i].content
         /\ \A j \in 1..n : list[j].content = list[i].content => Matching(list, j) = Matching(list, i)
         /\ Matching(list, Matching(list, i)) = Matching(list, i)
<1> DEFINE Alike(k) == {j \in 1..n : list[j].content = list[k].content}
<1>1. \A k \in 1..n : Matching(list, k) = Min(Alike(k))
  BY Zenon DEF Matching
<1>2. Alike(i) \in SUBSET (1..n) /\ Alike(i) # {}
  OBVIOUS
<1>3. \A j \in 1..n : list[j].content = list[i].content => Alike(j) = Alike(i)
  OBVIOUS
<1>4. Min(Alike(i)) \in 1..n /\ list[Min(Alike(i))].content = list[i].content
  <2>1. PICK S : S = Alike(i)
    OBVIOUS
  <2>2. Min(S) \in S
    BY <1>2, <2>1, MinOf
  <2> QED BY <2>1, <2>2
<1> HIDE DEF Alike
<1> QED BY <1>1, <1>3, <1>4

\* The tags of the participants while the exchanges are gone through.
Taggings == [Segments -> SUBSET Segments]
Merged(tags, p, q) == [tags EXCEPT ![p] = @ \union tags[q]]
IsTagging(t, list, participant, n) ==
  /\ t \in [0..n -> Taggings]
  /\ t[0] = [s \in Segments |-> {s}]
  /\ \A i \in 1..n : t[i] = IF Matching(list, i) = i THEN t[i - 1]
                            ELSE Merged(t[i - 1], participant[Matching(list, i)], participant[i])

LEMMA TagsAre ==
  ASSUME NEW list, NEW n \in Nat, n = Len(list), NEW participant \in [1..n -> Segments]
  PROVE  \E t : IsTagging(t, list, participant, n) /\ SegmentTags(list, participant) = t[n]
<1> DEFINE Turn(i, v) == IF Matching(list, i) = i THEN v
                         ELSE [v EXCEPT ![participant[Matching(list, i)]] = @ \union v[participant[i]]]
           Eqn(t) == t = [i \in 0..n |-> IF i = 0 THEN [s \in Segments |-> {s}] ELSE Turn(i, t[i - 1])]
           t == CHOOSE x : Eqn(x)
<1>1. SegmentTags(list, participant) = t[n]
  BY Zenon DEF SegmentTags
<1>2. ASSUME NEW i \in 1..n, NEW v \in Taggings
      PROVE  /\ Turn(i, v) \in Taggings
             /\ Turn(i, v) = IF Matching(list, i) = i THEN v
                             ELSE Merged(v, participant[Matching(list, i)], participant[i])
  <2>1. Matching(list, i) \in 1..n
    BY MatchingIs
  <2>2. participant[i] \in Segments /\ participant[Matching(list, i)] \in Segments
    BY <2>1
  <2> QED BY <2>2 DEF Taggings, Merged
<1> HIDE DEF Turn
<1>3. PICK G \in [1..n -> [Taggings -> Taggings]] : \A i \in 1..n, v \in Taggings : G[i][v] = Turn(i, v)
  <2> DEFINE G == [i \in 1..n |-> [v \in Taggings |-> Turn(i, v)]]
  <2>1. G \in [1..n -> [Taggings -> Taggings]]
    BY <1>2
  <2>2. \A i \in 1..n, v \in Taggings : G[i][v] = Turn(i, v)
    OBVIOUS
  <2> HIDE DEF G
  <2> QED BY <2>1, <2>2
<1>4. PICK start \in Taggings : start = [s \in Segments |-> {s}]
  BY DEF Taggings
<1>5. PICK f \in [0..n -> Taggings] : IsRecursion(f, n, start, G)
  BY ONLY <1>3, <1>4, n \in Nat, RecursionExists
<1>6. ASSUME NEW i \in 1..n
      PROVE  i - 1 \in 0..n /\ f[i - 1] \in Taggings /\ f[i] = Turn(i, f[i - 1])
  <2>1. i - 1 \in 0..n
    OBVIOUS
  <2>2. f[i - 1] \in Taggings
    BY <2>1
  <2>3. f[i] = G[i][f[i - 1]]
    BY <1>5 DEF IsRecursion
  <2> QED BY <1>3, <2>1, <2>2, <2>3
<1>7. f[0] = start
  BY <1>5 DEF IsRecursion
<1>8. Eqn(f)
  <2>1. ASSUME NEW i \in 0..n
        PROVE  f[i] = IF i = 0 THEN [s \in Segments |-> {s}] ELSE Turn(i, f[i - 1])
    <3>1. i = 0 \/ i \in 1..n
      OBVIOUS
    <3> QED BY <1>4, <1>6, <1>7, <3>1, Zenon
  <2> QED BY <2>1
<1>9. Eqn(t)
  <2> HIDE DEF Eqn
  <2> QED BY <1>8
<1> HIDE DEF t
<1>10. t[n] = f[n]
  <2>1. t[0] = f[0]
    <3>1. 0 \in 0..n
      OBVIOUS
    <3> QED BY <1>4, <1>7, <1>9, <3>1
  <2>2. ASSUME NEW i \in 1..n, t[i - 1] = f[i - 1]
        PROVE  t[i] = f[i]
    <3>1. i \in 0..n /\ i # 0
      OBVIOUS
    <3>2. t[i] = Turn(i, t[i - 1])
      BY ONLY <1>9, <3>1
    <3> QED BY <1>6, <2>2, <3>2
  <2>3. AgreeStepwise(t, f, n)
    BY <2>1, <2>2 DEF AgreeStepwise
  <2>4. Agree(t, f, n)
    BY ONLY <2>3, n \in Nat, AgreeUpTo
  <2>5. n \in 0..n
    OBVIOUS
  <2> QED BY <2>4, <2>5 DEF Agree
<1>11. IsTagging(f, list, participant, n)
  <2>1. \A i \in 1..n : f[i] = IF Matching(list, i) = i THEN f[i - 1]
                               ELSE Merged(f[i - 1], participant[Matching(list, i)], participant[i])
    BY <1>2, <1>6
  <2> QED BY <1>4, <1>7, <2>1 DEF IsTagging
<1> QED BY <1>1, <1>10, <1>11

\* No tag is lost: every participant of an exchange is among those of the exchange it is combined with.
LEMMA TagsKept ==
  ASSUME NEW list, NEW n \in Nat, n = Len(list), NEW participant \in [1..n -> Segments]
  PROVE  /\ SegmentTags(list, participant) \in Taggings
         /\ \A s \in Segments : s \in SegmentTags(list, participant)[s]
         /\ \A i \in 1..n : participant[i] \in SegmentTags(list, participant)[participant[Matching(list, i)]]
<1>1. PICK t : IsTagging(t, list, participant, n) /\ SegmentTags(list, participant) = t[n]
  BY TagsAre
<1>2. ASSUME NEW i \in 1..n
      PROVE  participant[i] \in Segments /\ participant[Matching(list, i)] \in Segments
  BY MatchingIs
<1> DEFINE Kept(k) == /\ \A s \in Segments : s \in t[k][s]
                      /\ \A i \in 1..k : participant[i] \in t[k][participant[Matching(list, i)]]
           S == {k \in Nat : k <= n => Kept(k)}
<1>3. 0 \in S
  <2>1. \A s \in Segments : s \in t[0][s]
    BY <1>1 DEF IsTagging
  <2>2. ~\E i : i \in 1..0
    OBVIOUS
  <2>3. Kept(0)
    BY <2>1, <2>2
  <2> HIDE DEF Kept
  <2> QED BY <2>3
<1>4. ASSUME NEW k \in Nat, k \in S
      PROVE  k + 1 \in S
  <2> SUFFICES ASSUME k + 1 <= n PROVE Kept(k + 1)
    OBVIOUS
  <2>1. k + 1 \in 1..n /\ (k + 1) - 1 = k /\ k \in 0..n /\ Kept(k)
    BY <1>4
  <2>2. PICK u, v : u \in Taggings /\ u = t[k] /\ v = t[k + 1]
    BY <1>1, <2>1 DEF IsTagging
  <2>3. PICK p \in Segments, q \in Segments : p = participant[Matching(list, k + 1)] /\ q = participant[k + 1]
    BY <1>2, <2>1
  <2>4. v = IF Matching(list, k + 1) = k + 1 THEN u ELSE Merged(u, p, q)
    BY <1>1, <2>1, <2>2, <2>3 DEF IsTagging
  <2>5. /\ \A s \in Segments : s \in u[s]
        /\ \A i \in 1..k : participant[i] \in u[participant[Matching(list, i)]]
    BY <2>1, <2>2
  <2>6. \A s \in Segments : u[s] \subseteq v[s]
    BY <2>2, <2>4 DEF Taggings, Merged
  <2>7. q \in v[p]
    <3>1. CASE Matching(list, k + 1) = k + 1
      BY <2>3, <2>4, <2>5, <3>1
    <3>2. CASE Matching(list, k + 1) # k + 1
      <4>1. v[p] = u[p] \union u[q]
        BY <2>2, <2>3, <2>4, <3>2 DEF Taggings, Merged
      <4> QED BY <2>3, <2>5, <4>1
    <3> QED BY <3>1, <3>2
  <2>8. ASSUME NEW i \in 1..(k + 1)
        PROVE  participant[i] \in v[participant[Matching(list, i)]]
    <3>1. CASE i = k + 1
      BY <2>3, <2>7, <3>1
    <3>2. CASE i \in 1..k
      <4>1. participant[Matching(list, i)] \in Segments
        BY <1>2, <2>1, <3>2
      <4> QED BY <2>5, <2>6, <3>2, <4>1
    <3> QED BY <3>1, <3>2
  <2> QED BY <2>2, <2>5, <2>6, <2>8
<1>5. n \in S
  <2> HIDE DEF S
  <2> QED BY <1>3, <1>4, Induction
<1>6. Kept(n)
  BY <1>5
<1>7. t[n] \in Taggings
  BY <1>1 DEF IsTagging
<1> QED BY <1>1, <1>6, <1>7

\* Only participants with equal holdings are put together, if equal contents come from equal holdings only.
LEMMA TagsAlike ==
  ASSUME NEW list, NEW n \in Nat, n = Len(list), NEW participant \in [1..n -> Segments],
         NEW h, \A i \in 1..n : h[participant[i]] = h[participant[Matching(list, i)]]
  PROVE  \A s \in Segments : \A x \in SegmentTags(list, participant)[s] : h[x] = h[s]
<1>1. PICK t : IsTagging(t, list, participant, n) /\ SegmentTags(list, participant) = t[n]
  BY TagsAre
<1>2. ASSUME NEW i \in 1..n
      PROVE  participant[i] \in Segments /\ participant[Matching(list, i)] \in Segments
  BY MatchingIs
<1> DEFINE Alike(k) == \A s \in Segments : \A x \in t[k][s] : h[x] = h[s]
           S == {k \in Nat : k <= n => Alike(k)}
<1>3. 0 \in S
  <2>1. Alike(0)
    BY <1>1 DEF IsTagging
  <2> HIDE DEF Alike
  <2> QED BY <2>1
<1>4. ASSUME NEW k \in Nat, k \in S
      PROVE  k + 1 \in S
  <2> SUFFICES ASSUME k + 1 <= n PROVE Alike(k + 1)
    OBVIOUS
  <2>1. k + 1 \in 1..n /\ (k + 1) - 1 = k /\ k \in 0..n /\ Alike(k)
    BY <1>4
  <2>2. PICK u, v : u \in Taggings /\ u = t[k] /\ v = t[k + 1]
    BY <1>1, <2>1 DEF IsTagging
  <2>3. PICK p \in Segments, q \in Segments : p = participant[Matching(list, k + 1)] /\ q = participant[k + 1]
    BY <1>2, <2>1
  <2>4. v = IF Matching(list, k + 1) = k + 1 THEN u ELSE Merged(u, p, q)
    BY <1>1, <2>1, <2>2, <2>3 DEF IsTagging
  <2>5. \A s \in Segments : \A x \in u[s] : h[x] = h[s]
    BY <2>1, <2>2
  <2>6. h[p] = h[q]
    BY <2>1, <2>3
  <2>7. \A s \in Segments : \A x \in v[s] : h[x] = h[s]
    BY <2>2, <2>3, <2>4, <2>5, <2>6 DEF Taggings, Merged
  <2> QED BY <2>2, <2>7
<1>5. n \in S
  <2> HIDE DEF S
  <2> QED BY <1>3, <1>4, Induction
<1> QED BY <1>1, <1>5

-----------------------------------------------------------------------------
(* The combination of exchanges of equal content *)

\* No two exchanges have the same content.
OnceEach(list) == \A i, j \in 1..Len(list) : i # j => list[i].content # list[j].content

SenderTags(list, n)   == SegmentTags(list, [i \in 1..n |-> list[i].from])
ReceiverTags(list, n) == SegmentTags(list, [i \in 1..n |-> list[i].to])

CombinedExchange(list, senderTags, receiverTags, i) ==
  [senders |-> senderTags[list[i].from], receivers |-> receiverTags[list[i].to], content |-> list[i].content]

AreExchanges(list, n, V) ==
  n = Len(list) /\ \A i \in 1..n : list[i].from \in Segments /\ list[i].to \in Segments /\ list[i].content \in V

\* The first exchange of each content, with the participants that the others have added.
IsCombination(c, list, n, V, senderTags, receiverTags) ==
  /\ c \in Seq([senders : SUBSET Segments, receivers : SUBSET Segments, content : V])
  /\ OnceEach(c)
  /\ \A e : In(e, c) <=>
       \E i \in 1..n : Matching(list, i) = i /\ e = CombinedExchange(list, senderTags, receiverTags, i)

LEMMA CompactIs ==
  ASSUME NEW V, NEW list, NEW n \in Nat, AreExchanges(list, n, V),
         NEW senderTags, senderTags = SenderTags(list, n),
         NEW receiverTags, receiverTags = ReceiverTags(list, n)
  PROVE  IsCombination(Compact(list), list, n, V, senderTags, receiverTags)
<1>0. n = Len(list) /\ \A i \in 1..n : list[i].from \in Segments /\ list[i].to \in Segments /\ list[i].content \in V
  BY DEF AreExchanges
<1> DEFINE Combined(i) == CombinedExchange(list, senderTags, receiverTags, i)
           lists == [i \in 1..n |-> IF Matching(list, i) = i THEN <<Combined(i)>> ELSE <<>>]
<1>1. PICK W : W = [senders : SUBSET Segments, receivers : SUBSET Segments, content : V]
  OBVIOUS
<1>2. Compact(list) = FlattenSeq(lists)
  BY <1>0, Zenon DEF Compact, CombinedExchange, SenderTags, ReceiverTags
<1>3. ASSUME NEW i \in 1..n
      PROVE  Combined(i) \in W /\ Combined(i).content = list[i].content
  <2>1. [j \in 1..n |-> list[j].from] \in [1..n -> Segments] /\ [j \in 1..n |-> list[j].to] \in [1..n -> Segments]
    BY <1>0
  <2>2. senderTags \in Taggings /\ receiverTags \in Taggings
    BY <1>0, <2>1, TagsKept DEF SenderTags, ReceiverTags
  <2>3. senderTags[list[i].from] \in SUBSET Segments /\ receiverTags[list[i].to] \in SUBSET Segments
    BY <1>0, <2>2 DEF Taggings
  <2> QED BY <1>0, <1>1, <2>3 DEF CombinedExchange
<1> HIDE DEF Combined
<1>4. ASSUME NEW i \in 1..n
      PROVE  /\ lists[i] \in Seq(W)
             /\ \A e : In(e, lists[i]) <=> Matching(list, i) = i /\ e = Combined(i)
  <2>1. CASE Matching(list, i) = i
    <3>1. lists[i] = <<Combined(i)>>
      BY <2>1
    <3>2. <<Combined(i)>> \in Seq(W) /\ \A e : In(e, <<Combined(i)>>) <=> e = Combined(i)
      BY <1>3, InOne
    <3> QED BY <2>1, <3>1, <3>2
  <2>2. CASE Matching(list, i) # i
    <3>1. lists[i] = <<>>
      BY <2>2
    <3>2. <<>> \in Seq(W) /\ \A e : ~In(e, <<>>)
      BY InNone
    <3> QED BY <2>2, <3>1, <3>2
  <2> QED BY <2>1, <2>2
<1>5. lists \in [1..n -> Seq(W)]
  BY <1>4
<1>6. PICK el : el = [e \in W |-> {e.content}]
  OBVIOUS
<1>7. PICK E : E = [i \in 1..n |-> IF Matching(list, i) = i THEN {list[i].content} ELSE {}]
  OBVIOUS
<1>8. ASSUME NEW i \in 1..n
      PROVE  Divides(lists[i], el, E[i])
  <2>1. CASE Matching(list, i) = i
    <3>1. lists[i] = <<Combined(i)>> /\ E[i] = {list[i].content}
      BY <1>7, <2>1
    <3>2. Combined(i) \in DOMAIN el /\ el[Combined(i)] = {list[i].content}
      BY <1>3, <1>6
    <3>3. Divides(<<Combined(i)>>, el, el[Combined(i)])
      BY <3>2, OneDivides
    <3> QED BY <3>1, <3>2, <3>3
  <2>2. CASE Matching(list, i) # i
    <3>1. lists[i] = <<>> /\ E[i] = {}
      BY <1>7, <2>2
    <3> QED BY <3>1, NothingDivides
  <2> QED BY <2>1, <2>2
<1>9. ASSUME NEW i \in 1..n, NEW j \in 1..n, i # j
      PROVE  E[i] \cap E[j] = {}
  <2>1. CASE Matching(list, i) = i /\ Matching(list, j) = j
    <3>1. list[i].content # list[j].content
      BY <1>0, <1>9, <2>1, MatchingIs
    <3> QED BY <1>7, <2>1, <3>1
  <2>2. CASE ~(Matching(list, i) = i /\ Matching(list, j) = j)
    BY <1>7, <2>2
  <2> QED BY <2>1, <2>2
<1>10. DivideDisjoint(lists, n, el, E)
  <2>1. lists = [i \in 1..n |-> lists[i]]
    OBVIOUS
  <2> HIDE DEF lists
  <2> QED BY <1>8, <1>9, <2>1, Zenon DEF DivideDisjoint
<1> HIDE DEF lists
<1>11. Divides(FlattenSeq(lists), el, UnionOf(E, n))
  BY <1>10, FlattenDivides
<1>12. PICK c : c = FlattenSeq(lists)
  OBVIOUS
<1>13. /\ c \in Seq(W)
       /\ \A e : In(e, c) <=> \E i \in 1..n : In(e, lists[i])
  BY <1>5, <1>12, InFlattened
<1>14. OnceEach(c)
  <2> SUFFICES ASSUME NEW i \in 1..Len(c), NEW j \in 1..Len(c), i # j
               PROVE  c[i].content # c[j].content
    BY DEF OnceEach
  <2>1. el[c[i]] \cap el[c[j]] = {}
    BY <1>11, <1>12 DEF Divides
  <2>2. c[i] \in W /\ c[j] \in W
    BY <1>13
  <2> QED BY <1>6, <2>1, <2>2
<1>15. \A e : In(e, c) <=> \E i \in 1..n : Matching(list, i) = i /\ e = Combined(i)
  BY <1>4, <1>13
<1> QED BY <1>1, <1>2, <1>12, <1>13, <1>14, <1>15, Zenon DEF Combined, IsCombination

\* Each candidate is part of the exchange that it has been combined into.
CombinedAre(list, n, senderTags, receiverTags) ==
  \A i \in 1..n : /\ list[i].from \in senderTags[list[Matching(list, i)].from]
                  /\ list[i].to \in receiverTags[list[Matching(list, i)].to]

LEMMA CombinedKeep ==
  ASSUME NEW list, NEW n \in Nat, n = Len(list),
         \A i \in 1..n : list[i].from \in Segments /\ list[i].to \in Segments,
         NEW senderTags, senderTags = SenderTags(list, n),
         NEW receiverTags, receiverTags = ReceiverTags(list, n)
  PROVE  CombinedAre(list, n, senderTags, receiverTags)
<1>1. PICK from \in [1..n -> Segments] : from = [i \in 1..n |-> list[i].from]
  OBVIOUS
<1>2. PICK to \in [1..n -> Segments] : to = [i \in 1..n |-> list[i].to]
  OBVIOUS
<1>3. \A i \in 1..n : from[i] \in senderTags[from[Matching(list, i)]]
  BY <1>1, TagsKept DEF SenderTags
<1>4. \A i \in 1..n : to[i] \in receiverTags[to[Matching(list, i)]]
  BY <1>2, TagsKept DEF ReceiverTags
<1>5. \A i \in 1..n : Matching(list, i) \in 1..n
  BY MatchingIs
<1> QED BY <1>1, <1>2, <1>3, <1>4, <1>5 DEF CombinedAre

-----------------------------------------------------------------------------
(* The exchanges that each segment finds *)

LEMMA ListedAre ==
  ASSUME NEW V, NEW list \in Seq(V)
  PROVE  \A x : x \in ToSet(list) <=> In(x, list)
BY DEF ToSet, In

\* The candidates of a segment, gone through.
IsListing(list, n, dep, l) ==
  /\ n \in Nat /\ n = Len(list) /\ list \in Seq(Pairs(dep))
  /\ \A i \in 1..n : /\ list[i].from \in Segments /\ list[i].to \in Segments
                     /\ list[i].content = Overlap(dep, list[i].from, list[i].to)
                     /\ IsDue(dep, l, list[i].from, list[i].to)
  /\ \A s, r \in Segments : IsDue(dep, l, s, r) => \E i \in 1..n : list[i] = Pair(dep, s, r)

LEMMA ListingOf ==
  ASSUME NEW dep, dep.intra \in BOOLEAN, NEW l \in Segments
  PROVE  \E n \in Nat : IsListing(CandidateExchanges(dep, l), n, dep, l)
<1>1. PICK list : list = CandidateExchanges(dep, l)
  OBVIOUS
<1>2. /\ list \in Seq(Pairs(dep))
      /\ \A e : In(e, list) <=> \E s, r \in Segments : IsDue(dep, l, s, r) /\ e = Pair(dep, s, r)
  BY <1>1, CandidatesAre
<1>3. PICK n \in Nat : n = Len(list)
  BY <1>2
<1>4. ASSUME NEW i \in 1..n
      PROVE  /\ list[i].from \in Segments /\ list[i].to \in Segments
             /\ list[i].content = Overlap(dep, list[i].from, list[i].to)
             /\ IsDue(dep, l, list[i].from, list[i].to)
  <2>1. In(list[i], list)
    BY <1>3 DEF In
  <2>2. PICK s \in Segments, r \in Segments : IsDue(dep, l, s, r) /\ list[i] = Pair(dep, s, r)
    BY <1>2, <2>1
  <2>3. list[i].from = s /\ list[i].to = r /\ list[i].content = Overlap(dep, s, r)
    BY <2>2, PairsAre
  <2> QED BY <2>2, <2>3
<1>5. ASSUME NEW s \in Segments, NEW r \in Segments, IsDue(dep, l, s, r)
      PROVE  \E i \in 1..n : list[i] = Pair(dep, s, r)
  <2>1. In(Pair(dep, s, r), list)
    BY <1>2, <1>5
  <2> QED BY <1>3, <2>1 DEF In
<1>6. IsListing(list, n, dep, l)
  BY <1>2, <1>3, <1>4, <1>5 DEF IsListing
<1> QED BY <1>1, <1>6

\* Whatever a sender and a receiver have in common, every segment finds, in one exchange of just this
\* content with both among its participants, but for its own transfers between the same parts
\* (Confinement::getAllDataExchanges).
THEOREM NothingMissing ==
  ASSUME NEW dep, dep.intra \in BOOLEAN, NEW l \in Segments,
         NEW s \in Segments, NEW r \in Segments, IsDue(dep, l, s, r)
  PROVE  /\ OnceEach(getAllDataExchanges(dep, l))
         /\ \E e \in ToSet(getAllDataExchanges(dep, l)) :
              s \in e.senders /\ r \in e.receivers /\ e.content = Overlap(dep, s, r)
<1>1. PICK list : list = CandidateExchanges(dep, l)
  OBVIOUS
<1>2. PICK n \in Nat : IsListing(list, n, dep, l)
  BY <1>1, ListingOf
<1>3. PICK V : V = {list[i].content : i \in 1..n}
  OBVIOUS
<1>4. PICK senderTags, receiverTags : /\ senderTags = SenderTags(list, n)
                                      /\ receiverTags = ReceiverTags(list, n)
  OBVIOUS
<1>5. n = Len(list) /\ \A i \in 1..n : list[i].from \in Segments /\ list[i].to \in Segments /\ list[i].content \in V
  BY <1>2, <1>3 DEF IsListing
<1>6. IsCombination(Compact(list), list, n, V, senderTags, receiverTags)
  <2>1. AreExchanges(list, n, V)
    BY <1>5, Zenon DEF AreExchanges
  <2> QED BY ONLY <1>4, <2>1, n \in Nat, CompactIs
<1>7. CombinedAre(list, n, senderTags, receiverTags)
  BY <1>4, <1>5, CombinedKeep
<1>8. PICK i \in 1..n : list[i] = Pair(dep, s, r)
  BY <1>2 DEF IsListing
<1>9. PICK j \in 1..n : j = Matching(list, i) /\ Matching(list, j) = j /\ list[j].content = list[i].content
  BY <1>5, MatchingIs
<1>10. PICK e : e = CombinedExchange(list, senderTags, receiverTags, j)
  OBVIOUS
<1>11. e.senders = senderTags[list[j].from] /\ e.receivers = receiverTags[list[j].to] /\ e.content = list[j].content
  BY <1>10 DEF CombinedExchange
<1>12. list[i].from = s /\ list[i].to = r /\ list[i].content = Overlap(dep, s, r)
  BY ONLY <1>8 DEF Pair
<1>13. s \in e.senders /\ r \in e.receivers /\ e.content = Overlap(dep, s, r)
  BY <1>7, <1>9, <1>11, <1>12 DEF CombinedAre
<1>14. e \in ToSet(Compact(list))
  <2>1. In(e, Compact(list))
    BY <1>6, <1>9, <1>10 DEF IsCombination
  <2> QED BY <1>6, <2>1, ListedAre DEF IsCombination
<1>15. getAllDataExchanges(dep, l) = Compact(list)
  BY <1>1 DEF getAllDataExchanges
<1> QED BY <1>6, <1>13, <1>14, <1>15 DEF IsCombination

\* The condition under which exchanges may be combined by adding tags to their participants: equal
\* contents come from equal holdings.
EqualHoldings(dep) ==
  \A s, r, s2, r2 \in Segments :
    Overlap(dep, s, r) # {} /\ Overlap(dep, s, r) = Overlap(dep, s2, r2)
      => dep.sends[s] = dep.sends[s2] /\ dep.receives[r] = dep.receives[r2]

\* It holds where the segments of either side have the same parts or different ones.
AlikeOrApart(holdings) ==
  \A s, q \in Segments : holdings[s] = holdings[q] \/ holdings[s] \cap holdings[q] = {}

LEMMA EqualHoldingsOf ==
  ASSUME NEW dep, AlikeOrApart(dep.sends), AlikeOrApart(dep.receives)
  PROVE  EqualHoldings(dep)
BY DEF EqualHoldings, AlikeOrApart, Overlap

\* The exchange of all segments that hold what s sends with all that hold what r receives.
Together(dep, s, r) == [senders   |-> {q \in Segments : dep.sends[q] = dep.sends[s]},
                        receivers |-> {q \in Segments : dep.receives[q] = dep.receives[r]},
                        content   |-> Overlap(dep, s, r)]

\* Where the parts that are updated are those that are used, with their paddings, two segments have
\* all of the same parts or not.
SameParts(dep) ==
  \A s, q \in Segments : dep.sends[s] = dep.sends[q] <=> dep.receives[s] = dep.receives[q]

LEMMA CombinedIsTogether ==
  ASSUME NEW dep, dep.intra \in BOOLEAN, EqualHoldings(dep), dep.intra => SameParts(dep), NEW l \in Segments,
         NEW list, NEW n \in Nat, IsListing(list, n, dep, l),
         NEW senderTags, senderTags = SenderTags(list, n),
         NEW receiverTags, receiverTags = ReceiverTags(list, n),
         NEW i \in 1..n, Matching(list, i) = i
  PROVE  CombinedExchange(list, senderTags, receiverTags, i) = Together(dep, list[i].from, list[i].to)
<1>0. n = Len(list)
  BY DEF IsListing
<1>1. /\ n \in Nat /\ n = Len(list)
      /\ \A k \in 1..n : /\ list[k].from \in Segments /\ list[k].to \in Segments
                         /\ list[k].content = Overlap(dep, list[k].from, list[k].to)
                         /\ Overlap(dep, list[k].from, list[k].to) # {}
  BY DEF IsListing, IsDue
<1>2. PICK s \in Segments, r \in Segments : s = list[i].from /\ r = list[i].to
  BY <1>1
<1>3. IsDue(dep, l, s, r)
  BY <1>2 DEF IsListing
<1>4. \A k \in 1..n : /\ Matching(list, k) \in 1..n
                      /\ list[Matching(list, k)].content = list[k].content
                      /\ list[k].content = list[i].content => Matching(list, k) = i
  BY <1>1, MatchingIs
<1>5. PICK from \in [1..n -> Segments], to \in [1..n -> Segments] :
        from = [k \in 1..n |-> list[k].from] /\ to = [k \in 1..n |-> list[k].to]
  BY <1>1
<1>6. senderTags = SegmentTags(list, from) /\ receiverTags = SegmentTags(list, to)
  BY <1>5 DEF SenderTags, ReceiverTags
<1>7. \A k \in 1..n : /\ dep.sends[from[k]] = dep.sends[from[Matching(list, k)]]
                      /\ dep.receives[to[k]] = dep.receives[to[Matching(list, k)]]
  <2> SUFFICES ASSUME NEW k \in 1..n
               PROVE  /\ dep.sends[from[k]] = dep.sends[from[Matching(list, k)]]
                      /\ dep.receives[to[k]] = dep.receives[to[Matching(list, k)]]
    OBVIOUS
  <2>1. PICK m \in 1..n : m = Matching(list, k)
    BY <1>4
  <2>2. Overlap(dep, from[k], to[k]) # {} /\ Overlap(dep, from[k], to[k]) = Overlap(dep, from[m], to[m])
    BY <1>1, <1>4, <1>5, <2>1
  <2>3. from[k] \in Segments /\ to[k] \in Segments /\ from[m] \in Segments /\ to[m] \in Segments
    BY <1>5
  <2> QED BY <2>1, <2>2, <2>3 DEF EqualHoldings
<1>8. \A q \in senderTags[s] : q \in Segments /\ dep.sends[q] = dep.sends[s]
  <2>1. senderTags \in Taggings
    BY <1>1, <1>6, TagsKept
  <2>2. PICK h : h = dep.sends
    OBVIOUS
  <2>3. \A k \in 1..n : h[from[k]] = h[from[Matching(list, k)]]
    BY <1>7, <2>2
  <2>4. \A p \in Segments : \A x \in SegmentTags(list, from)[p] : h[x] = h[p]
    BY ONLY <2>3, <1>0, n \in Nat, from \in [1..n -> Segments], TagsAlike
  <2>5. \A p \in Segments : \A x \in senderTags[p] : dep.sends[x] = dep.sends[p]
    BY <1>6, <2>2, <2>4
  <2> QED BY <2>1, <2>5 DEF Taggings
<1>9. \A q \in receiverTags[r] : q \in Segments /\ dep.receives[q] = dep.receives[r]
  <2>1. receiverTags \in Taggings
    BY <1>1, <1>6, TagsKept
  <2>2. PICK h : h = dep.receives
    OBVIOUS
  <2>3. \A k \in 1..n : h[to[k]] = h[to[Matching(list, k)]]
    BY <1>7, <2>2
  <2>4. \A p \in Segments : \A x \in SegmentTags(list, to)[p] : h[x] = h[p]
    BY ONLY <2>3, <1>0, n \in Nat, to \in [1..n -> Segments], TagsAlike
  <2>5. \A p \in Segments : \A x \in receiverTags[p] : dep.receives[x] = dep.receives[p]
    BY <1>6, <2>2, <2>4
  <2> QED BY <2>1, <2>5 DEF Taggings
<1>10. CombinedAre(list, n, senderTags, receiverTags)
  BY <1>1, CombinedKeep
<1>11. ASSUME NEW p \in Segments, NEW q \in Segments, IsDue(dep, l, p, q), Overlap(dep, p, q) = Overlap(dep, s, r)
       PROVE  p \in senderTags[s] /\ q \in receiverTags[r]
  <2>1. PICK k \in 1..n : list[k] = Pair(dep, p, q)
    BY <1>11 DEF IsListing
  <2>2. list[k].from = p /\ list[k].to = q /\ list[k].content = Overlap(dep, p, q)
    BY ONLY <2>1 DEF Pair
  <2>3. list[i].content = Overlap(dep, s, r)
    BY <1>1, <1>2
  <2>4. Matching(list, k) = i
    BY <1>4, <1>11, <2>2, <2>3
  <2> QED BY <1>2, <1>10, <2>2, <2>4 DEF CombinedAre
<1>12. ASSUME NEW q \in Segments, dep.sends[q] = dep.sends[s]
       PROVE  q \in senderTags[s]
  <2>1. CASE ~(dep.intra /\ q = l /\ r = l)
    <3>1. Overlap(dep, q, r) = Overlap(dep, s, r)
      BY <1>12 DEF Overlap
    <3> QED BY <1>3, <1>11, <2>1, <3>1 DEF IsDue
  <2>2. CASE dep.intra /\ q = l /\ r = l
    <3>1. s # l
      BY <1>3, <2>2 DEF IsDue
    <3>2. Overlap(dep, q, s) = Overlap(dep, s, r)
      BY <1>12, <2>2 DEF Overlap, SameParts
    <3>3. IsDue(dep, l, q, s)
      BY <1>3, <3>1, <3>2 DEF IsDue
    <3> QED BY <1>11, <3>2, <3>3
  <2> QED BY <2>1, <2>2
<1>13. ASSUME NEW q \in Segments, dep.receives[q] = dep.receives[r]
       PROVE  q \in receiverTags[r]
  <2>1. CASE ~(dep.intra /\ s = l /\ q = l)
    <3>1. Overlap(dep, s, q) = Overlap(dep, s, r)
      BY <1>13 DEF Overlap
    <3> QED BY <1>3, <1>11, <2>1, <3>1 DEF IsDue
  <2>2. CASE dep.intra /\ s = l /\ q = l
    <3>1. r # l
      BY <1>3, <2>2 DEF IsDue
    <3>2. Overlap(dep, r, q) = Overlap(dep, s, r)
      BY <1>13, <2>2 DEF Overlap, SameParts
    <3>3. IsDue(dep, l, r, q)
      BY <1>3, <3>1, <3>2 DEF IsDue
    <3> QED BY <1>11, <3>2, <3>3
  <2> QED BY <2>1, <2>2
<1>14. /\ senderTags[s] = {q \in Segments : dep.sends[q] = dep.sends[s]}
       /\ receiverTags[r] = {q \in Segments : dep.receives[q] = dep.receives[r]}
  BY <1>8, <1>9, <1>12, <1>13
<1>15. list[i].content = Overlap(dep, s, r)
  BY <1>1, <1>2
<1> QED BY <1>2, <1>14, <1>15 DEF CombinedExchange, Together

\* All segments find the same exchanges, but for their own transfers between the same parts, if equal
\* contents come from equal holdings and segments that share a part share its padding: each exchange is
\* from all segments that hold the sender's indices to all that hold the receiver's
\* (Confinement::getAllDataExchanges).
THEOREM ExchangesAgree ==
  ASSUME NEW dep, dep.intra \in BOOLEAN, EqualHoldings(dep), dep.intra => SameParts(dep), NEW l \in Segments
  PROVE  \A e : e \in ToSet(getAllDataExchanges(dep, l)) <=>
                  /\ \E s, r \in Segments : Overlap(dep, s, r) # {} /\ e = Together(dep, s, r)
                  /\ ~(dep.intra /\ isIntraSegmentExchange(e, l))
<1>1. PICK list : list = CandidateExchanges(dep, l)
  OBVIOUS
<1>2. PICK n \in Nat : IsListing(list, n, dep, l)
  BY <1>1, ListingOf
<1>3. PICK V : V = {list[i].content : i \in 1..n}
  OBVIOUS
<1>4. PICK senderTags, receiverTags : /\ senderTags = SenderTags(list, n)
                                      /\ receiverTags = ReceiverTags(list, n)
  OBVIOUS
<1>5. n = Len(list) /\ \A i \in 1..n : list[i].from \in Segments /\ list[i].to \in Segments /\ list[i].content \in V
  BY <1>2, <1>3 DEF IsListing
<1>6. IsCombination(Compact(list), list, n, V, senderTags, receiverTags)
  <2>1. AreExchanges(list, n, V)
    BY <1>5, Zenon DEF AreExchanges
  <2> QED BY ONLY <1>4, <2>1, n \in Nat, CompactIs
<1>7. \A e : e \in ToSet(getAllDataExchanges(dep, l)) <=>
        \E i \in 1..n : Matching(list, i) = i /\ e = Together(dep, list[i].from, list[i].to)
  <2>1. \A i \in 1..n : Matching(list, i) = i =>
          CombinedExchange(list, senderTags, receiverTags, i) = Together(dep, list[i].from, list[i].to)
    BY <1>2, <1>4, CombinedIsTogether
  <2>2. getAllDataExchanges(dep, l) = Compact(list)
    BY <1>1 DEF getAllDataExchanges
  <2>3. \A e : e \in ToSet(Compact(list)) <=> In(e, Compact(list))
    BY <1>6, ListedAre DEF IsCombination
  <2> QED BY <1>6, <2>1, <2>2, <2>3 DEF IsCombination
<1>8. ASSUME NEW i \in 1..n
      PROVE  \E s, r \in Segments : /\ Overlap(dep, s, r) # {}
                                    /\ Together(dep, list[i].from, list[i].to) = Together(dep, s, r)
                                    /\ ~(dep.intra /\ isIntraSegmentExchange(Together(dep, s, r), l))
  <2>1. PICK s \in Segments, r \in Segments : s = list[i].from /\ r = list[i].to
    BY <1>5
  <2>2. IsDue(dep, l, s, r)
    BY <1>2, <2>1 DEF IsListing
  <2>3. s \in Together(dep, s, r).senders /\ r \in Together(dep, s, r).receivers
    BY DEF Together
  <2> QED BY <2>1, <2>2, <2>3 DEF IsDue, isIntraSegmentExchange
<1>9. ASSUME NEW s \in Segments, NEW r \in Segments, IsDue(dep, l, s, r)
      PROVE  Together(dep, s, r) \in ToSet(getAllDataExchanges(dep, l))
  <2>1. PICK k \in 1..n : list[k] = Pair(dep, s, r)
    BY <1>2, <1>9 DEF IsListing
  <2>2. list[k].from = s /\ list[k].to = r /\ list[k].content = Overlap(dep, s, r)
    BY ONLY <2>1 DEF Pair
  <2>3. PICK i \in 1..n : Matching(list, i) = i /\ list[i].content = list[k].content
    BY <1>5, MatchingIs
  <2>4. PICK p \in Segments, q \in Segments : p = list[i].from /\ q = list[i].to
    BY <1>5
  <2>5. list[i].content = Overlap(dep, p, q)
    BY <1>2, <2>4 DEF IsListing
  <2>6. Overlap(dep, s, r) # {} /\ Overlap(dep, s, r) = Overlap(dep, p, q)
    BY <1>9, <2>2, <2>3, <2>5 DEF IsDue
  <2>7. dep.sends[s] = dep.sends[p] /\ dep.receives[r] = dep.receives[q]
    BY <2>6 DEF EqualHoldings
  <2>8. Together(dep, s, r) = Together(dep, p, q)
    BY <2>6, <2>7 DEF Together
  <2> QED BY <1>7, <2>3, <2>4, <2>8
<1>10. ASSUME NEW s \in Segments, NEW r \in Segments, Overlap(dep, s, r) # {},
              ~(dep.intra /\ isIntraSegmentExchange(Together(dep, s, r), l))
       PROVE  Together(dep, s, r) \in ToSet(getAllDataExchanges(dep, l))
  <2>1. CASE IsDue(dep, l, s, r)
    BY <1>9, <2>1
  <2>2. CASE ~IsDue(dep, l, s, r)
    <3>1. dep.intra /\ s = l /\ r = l
      BY <1>10, <2>2 DEF IsDue
    <3>2. Together(dep, l, l).senders # {l} \/ Together(dep, l, l).receivers # {l}
      BY <1>10, <3>1 DEF isIntraSegmentExchange
    <3>3. PICK q \in Segments : q # l /\ (dep.sends[q] = dep.sends[l] \/ dep.receives[q] = dep.receives[l])
      BY <3>2 DEF Together
    <3>4. dep.sends[q] = dep.sends[l] /\ dep.receives[q] = dep.receives[l]
      BY <3>1, <3>3 DEF SameParts
    <3>5. Overlap(dep, l, q) = Overlap(dep, l, l) /\ Together(dep, l, q) = Together(dep, l, l)
      BY <3>4 DEF Together, Overlap
    <3>6. IsDue(dep, l, l, q)
      BY <1>10, <3>1, <3>3, <3>5 DEF IsDue
    <3> QED BY <1>9, <3>1, <3>5, <3>6
  <2> QED BY <2>1, <2>2
<1> QED BY <1>7, <1>8, <1>10

-----------------------------------------------------------------------------
(* The cursors *)

\* getNextIndex puts a cursor one index further; past the last one there is none.
Advances(s, state, next) ==
  /\ next.index # INVALID_INDEX
  /\ OnElement(s, next.state, next.index)
  /\ Offset(s, next.state) = Offset(s, state) + 1

LEMMA NextIndexFromReset ==
  ASSUME NEW s \in IntervalSeqs
  PROVE  Advances(s, Reset, getNextIndex(s, Reset)) /\ Offset(s, getNextIndex(s, Reset).state) = 0
<1>1. s.length \in Pos /\ s.count \in Pos /\ s.period \in Pos /\ s.begin \in Int /\ s.begin > INVALID_INDEX
  BY IntervalSeqType
<1>2. getNextIndex(s, Reset).state = [iteration |-> 0, position |-> 0]
  BY <1>1 DEF getNextIndex, Reset, IntervalState, Pos
<1>3. getNextIndex(s, Reset).index = s.begin
  BY <1>1 DEF getNextIndex, Reset, IntervalState, Pos
<1>4. Offset(s, Reset) = -1 /\ Offset(s, [iteration |-> 0, position |-> 0]) = 0
  BY <1>1 DEF Offset, Reset, IntervalState, Pos
<1>5. OnElement(s, [iteration |-> 0, position |-> 0], s.begin)
  BY <1>1 DEF OnElement, States, Pos
<1>6. getNextIndex(s, Reset).index # INVALID_INDEX
  BY <1>1, <1>3, InvalidIndex
<1> QED BY <1>2, <1>3, <1>4, <1>5, <1>6 DEF Advances

LEMMA NextIndex ==
  ASSUME NEW s \in IntervalSeqs, NEW state, NEW i, OnElement(s, state, i)
  PROVE  LET next == getNextIndex(s, state)
         IN \/ Advances(s, state, next) /\ i < next.index
            \/ next.index = INVALID_INDEX /\ Offset(s, state) = getNumOfElements(s) - 1
<1> DEFINE next == getNextIndex(s, state)
<1>1. /\ s.length \in Pos /\ s.count \in Pos /\ s.period \in Pos /\ s.begin \in Int
      /\ s.begin > INVALID_INDEX /\ s.period >= s.length /\ getNumOfElements(s) = s.length * s.count
  BY IntervalSeqType
<1>2. PICK it \in Nat, pos \in Nat : state = [iteration |-> it, position |-> pos]
  BY DEF OnElement, States
<1>3. it < s.count /\ pos < s.length /\ i = s.begin + it * s.period + pos
  BY <1>1, <1>2 DEF OnElement, Pos
<1>4. Offset(s, state) = it * s.length + pos
  BY <1>2 DEF Offset
<1>5. it * s.period \in Nat /\ it * s.length \in Nat
  BY <1>1, Product DEF Pos
<1>6. CASE pos < s.length - 1
  <2>1. /\ next.state = [iteration |-> it, position |-> pos + 1]
        /\ next.index = s.begin + it * s.period + (pos + 1)
    BY <1>1, <1>2, <1>6 DEF getNextIndex, Reset, IntervalState
  <2>2. OnElement(s, next.state, next.index)
    BY <1>1, <1>3, <1>5, <1>6, <2>1 DEF OnElement, States, Pos
  <2>3. Offset(s, next.state) = it * s.length + (pos + 1)
    BY <2>1 DEF Offset
  <2>4. next.index # INVALID_INDEX /\ i < next.index
    BY <1>1, <1>3, <1>5, <2>1, InvalidIndex
  <2>5. Offset(s, next.state) = Offset(s, state) + 1
    BY <1>4, <1>5, <2>3
  <2> QED BY <2>2, <2>4, <2>5 DEF Advances
<1>7. CASE ~(pos < s.length - 1) /\ it < s.count - 1
  <2>0. pos = s.length - 1
    BY <1>1, <1>3, <1>7 DEF Pos
  <2>1. /\ next.state = [iteration |-> it + 1, position |-> 0]
        /\ next.index = s.begin + (it + 1) * s.period + 0
    BY <1>1, <1>2, <1>7 DEF getNextIndex, Reset, IntervalState
  <2>2. (it + 1) * s.period = it * s.period + s.period /\ (it + 1) * s.length = it * s.length + s.length
    BY <1>1 DEF Pos
  <2>3. OnElement(s, next.state, next.index)
    BY <1>1, <1>3, <1>5, <1>7, <2>1 DEF OnElement, States, Pos
  <2>4. Offset(s, next.state) = (it + 1) * s.length
    BY <1>1, <2>1, <2>2, <1>5 DEF Offset, Pos
  <2>5. next.index # INVALID_INDEX /\ i < next.index
    BY <1>1, <1>3, <1>5, <2>0, <2>1, <2>2, InvalidIndex DEF Pos
  <2>6. Offset(s, next.state) = Offset(s, state) + 1
    BY <1>1, <1>4, <1>5, <2>0, <2>2, <2>4 DEF Pos
  <2> QED BY <2>3, <2>5, <2>6 DEF Advances
<1>8. CASE ~(pos < s.length - 1) /\ ~(it < s.count - 1)
  <2>1. pos = s.length - 1 /\ it = s.count - 1
    <3>1. pos = s.length - 1
      BY <1>1, <1>3, <1>8 DEF Pos
    <3>2. it = s.count - 1
      BY <1>1, <1>3, <1>8 DEF Pos
    <3> QED BY <3>1, <3>2
  <2>2. next.index = INVALID_INDEX
    BY <1>1, <1>2, <1>8 DEF getNextIndex, Reset, IntervalState
  <2>3. s.length * s.count = it * s.length + s.length
    <3>1. s.count = it + 1
      BY <1>1, <2>1 DEF Pos
    <3>2. s.length * (it + 1) = it * s.length + s.length
      BY <1>1 DEF Pos
    <3> QED BY <3>1, <3>2
  <2>4. Offset(s, state) = getNumOfElements(s) - 1
    BY <1>1, <1>4, <1>5, <2>1, <2>3 DEF Pos
  <2> QED BY <2>2, <2>4
<1> QED BY <1>6, <1>7, <1>8

\* If all cursors are on their last index, all points of the sequence are behind them.
LEMMA RankOfLast ==
  ASSUME NEW md \in Seq(IntervalSeqs) \ {<<>>}, NEW states, NEW r, IsRank(r, md, states),
         \A d \in 1..Len(md) : Offset(md[d], states[d]) = getNumOfElements(md[d]) - 1
  PROVE  r[Len(md)] = MdNumOfElements(md) - 1
<1>1. PICK n \in Nat : n = Len(md)
  OBVIOUS
<1>2. PICK p : IsProduct(p, md) /\ MdNumOfElements(md) = p[n]
  BY <1>1, ProductIs
<1>3. PICK g : g = [d \in 0..n |-> p[d] - 1]
  OBVIOUS
<1>4. \A d \in 1..n : getNumOfElements(md[d]) \in Pos
  BY <1>1, IntervalSeqType
<1>5. r[0] = g[0]
  BY <1>2, <1>3 DEF IsRank, IsProduct
<1>6. ASSUME NEW d \in 1..n, r[d - 1] = g[d - 1]
      PROVE  r[d] = g[d]
  <2>1. d \in 0..n /\ d - 1 \in 0..n
    BY <1>1
  <2>2. p[d - 1] \in Pos /\ p[d] \in Pos /\ g[d - 1] = p[d - 1] - 1 /\ g[d] = p[d] - 1
    BY <1>1, <1>2, <1>3, <2>1 DEF IsProduct
  <2>3. PICK N \in Nat : N = getNumOfElements(md[d])
    BY <1>4 DEF Pos
  <2>4. p[d] = p[d - 1] * N
    BY <1>1, <1>2, <2>3 DEF IsProduct
  <2>5. r[d] = r[d - 1] * N + (N - 1)
    BY <1>1, <2>3 DEF IsRank
  <2>6. PICK q \in Nat : p[d - 1] = q
    BY <2>2 DEF Pos
  <2>7. (q - 1) * N = q * N - N /\ q * N \in Nat
    BY SMT
  <2>8. r[d] = (q - 1) * N + (N - 1)
    BY <1>6, <2>2, <2>5, <2>6
  <2> QED BY <2>2, <2>4, <2>6, <2>7, <2>8
<1>7. AgreeStepwise(r, g, n)
  BY <1>5, <1>6 DEF AgreeStepwise
<1>8. Agree(r, g, n)
  BY <1>7, AgreeUpTo
<1>9. r[n] = p[n] - 1
  BY <1>3, <1>8 DEF Agree
<1> QED BY <1>1, <1>2, <1>9

\* If a cursor advances while those of the lower dimensions begin again, from their last
\* index, the rank grows by one.
Carries(md, states, pivot, next) ==
  /\ \A d \in 1..(pivot - 1) : next[d] = states[d]
  /\ Offset(md[pivot], next[pivot]) = Offset(md[pivot], states[pivot]) + 1
  /\ \A d \in (pivot + 1)..Len(md) : /\ Offset(md[d], next[d]) = 0
                                   /\ Offset(md[d], states[d]) = getNumOfElements(md[d]) - 1

LEMMA RankOfNext ==
  ASSUME NEW md \in Seq(IntervalSeqs) \ {<<>>},
         NEW states \in [1..Len(md) -> States], NEW next \in [1..Len(md) -> States],
         NEW pivot \in 1..Len(md), Carries(md, states, pivot, next)
  PROVE  Rank(md, next) = Rank(md, states) + 1
<1>1. PICK n \in Nat : n = Len(md)
  OBVIOUS
<1>2. PICK r : IsRank(r, md, states) /\ Rank(md, states) = r[n]
  BY <1>1, RankIs
<1>3. PICK r2 : IsRank(r2, md, next) /\ Rank(md, next) = r2[n]
  BY <1>1, RankIs
<1>4. PICK g : g = [d \in 0..n |-> IF d < pivot THEN r[d] ELSE r[d] + 1]
  OBVIOUS
<1>5. r2[0] = g[0]
  BY <1>1, <1>2, <1>3, <1>4 DEF IsRank
<1>6. ASSUME NEW d \in 1..n, r2[d - 1] = g[d - 1]
      PROVE  r2[d] = g[d]
  <2>1. d \in 0..n /\ d - 1 \in 0..n
    BY <1>1
  <2>2. g[d - 1] = (IF d - 1 < pivot THEN r[d - 1] ELSE r[d - 1] + 1)
    BY <1>4, <2>1
  <2>3. g[d] = (IF d < pivot THEN r[d] ELSE r[d] + 1)
    BY <1>4, <2>1
  <2>4. r2[d] = r2[d - 1] * getNumOfElements(md[d]) + Offset(md[d], next[d])
    BY <1>1, <1>3 DEF IsRank
  <2>5. r[d] = r[d - 1] * getNumOfElements(md[d]) + Offset(md[d], states[d])
    BY <1>1, <1>2 DEF IsRank
  <2>6. PICK a \in Int, N \in Int, o \in Int :
          a = r[d - 1] /\ N = getNumOfElements(md[d]) /\ o = Offset(md[d], states[d])
    <3>1. md[d] \in IntervalSeqs /\ states[d] \in States
      BY <1>1
    <3>2. getNumOfElements(md[d]) \in Int /\ Offset(md[d], states[d]) \in Int
      BY <3>1, IntervalSeqType, OffsetType DEF Pos
    <3>3. r[d - 1] \in Int
      BY <1>1, <1>2, <2>1 DEF IsRank
    <3> QED BY <3>2, <3>3
  <2>7. a * N \in Int /\ (a + 1) * N = a * N + N
    BY SMT
  <2>8. CASE d < pivot
    <3>1. r2[d - 1] = a /\ next[d] = states[d]
      BY <1>1, <1>6, <2>2, <2>6, <2>8 DEF Carries
    <3> QED BY <2>3, <2>4, <2>5, <2>8, <3>1, <2>6
  <2>9. CASE d = pivot
    <3>1. r2[d - 1] = a
      BY <1>1, <1>6, <2>2, <2>6, <2>9
    <3>2. Offset(md[d], next[d]) = o + 1
      BY <2>6, <2>9 DEF Carries
    <3> QED BY <2>3, <2>4, <2>5, <2>6, <2>7, <2>9, <3>1, <3>2
  <2>10. CASE d > pivot
    <3>1. r2[d - 1] = a + 1
      BY <1>1, <1>6, <2>2, <2>6, <2>10
    <3>2. Offset(md[d], next[d]) = 0 /\ o = N - 1
      BY <1>1, <2>6, <2>10 DEF Carries
    <3>3. r2[d] = a * N + N
      BY <2>4, <2>6, <2>7, <3>1, <3>2
    <3>4. r[d] = a * N + (N - 1)
      BY <2>5, <2>6, <3>2
    <3> QED BY <2>3, <2>6, <2>7, <2>10, <3>3, <3>4
  <2> QED BY <1>1, <2>8, <2>9, <2>10
<1>7. AgreeStepwise(r2, g, n)
  BY <1>5, <1>6 DEF AgreeStepwise
<1>8. Agree(r2, g, n)
  BY <1>7, AgreeUpTo
<1>9. r2[n] = r[n] + 1
  BY <1>1, <1>4, <1>8 DEF Agree
<1> QED BY <1>2, <1>3, <1>9

LEMMA CursorsAre ==
  ASSUME NEW n \in Nat, NEW places \in [1..n -> [state: States, index: Int]]
  PROVE  Cursors(places) = [d \in 1..n |-> places[d].state]
<1>1. Len(places) = n
  OBVIOUS
<1> QED BY <1>1 DEF Cursors

\* SequenceIterator::getNextElement, while there are points left: the cursors are on the next point.
LEMMA NextPlacesOK ==
  ASSUME NEW md \in Seq(IntervalSeqs) \ {<<>>}, NEW places, NEW elementNo \in Nat,
         PlacesOK(md, places, elementNo), elementNo < MdNumOfElements(md)
  PROVE  /\ PlacesOK(md, NextPlaces(md, places), elementNo + 1)
         /\ elementNo > 0 => LexicallyBefore(Point(places), Point(NextPlaces(md, places)))
<1>1. PICK n \in Nat \ {0} : n = Len(md)
  OBVIOUS
<1>2. \A d \in 1..n : md[d] \in IntervalSeqs
  BY <1>1
<1>3. PICK states : states = [d \in 1..n |-> places[d].state]
  OBVIOUS
<1>4. /\ places \in [1..n -> [state: States, index: Int]]
      /\ states \in [1..n -> States]
      /\ elementNo = Rank(md, states) + 1
  <2>1. places \in [1..n -> [state: States, index: Int]]
    BY <1>1 DEF PlacesOK
  <2>2. Cursors(places) = states
    BY <1>3, <2>1, CursorsAre
  <2>3. states \in [1..n -> States]
    BY <1>3, <2>1
  <2>4. elementNo = Rank(md, states) + 1
    BY <1>1, <2>2 DEF PlacesOK
  <2> QED BY <2>1, <2>3, <2>4
<1>5. \A d \in 1..n : \/ OnElement(md[d], places[d].state, places[d].index)
                      \/ elementNo = 0 /\ d = n /\ places[d].state = Reset
  BY <1>1 DEF PlacesOK
<1>6. PICK moved : moved = [d \in 1..n |-> getNextIndex(md[d], places[d].state)]
  OBVIOUS
<1>7. ASSUME NEW d \in 1..n
      PROVE  \/ /\ Advances(md[d], places[d].state, moved[d])
                /\ elementNo > 0 => places[d].index < moved[d].index
             \/ /\ moved[d].index = INVALID_INDEX
                /\ Offset(md[d], places[d].state) = getNumOfElements(md[d]) - 1
  <2>1. moved[d] = getNextIndex(md[d], places[d].state) /\ md[d] \in IntervalSeqs
    BY <1>2, <1>6
  <2>2. CASE OnElement(md[d], places[d].state, places[d].index)
    BY <2>1, <2>2, NextIndex
  <2>3. CASE elementNo = 0 /\ places[d].state = Reset
    BY <2>1, <2>3, NextIndexFromReset
  <2> QED BY <1>5, <2>2, <2>3
<1>8. PICK pivot : pivot = Max({d \in 1..n : moved[d].index # INVALID_INDEX} \union {0})
  OBVIOUS
<1>9. /\ pivot \in {d \in 1..n : moved[d].index # INVALID_INDEX} \union {0}
      /\ \A d \in 1..n : moved[d].index # INVALID_INDEX => d <= pivot
  <2> DEFINE S == {d \in 1..n : moved[d].index # INVALID_INDEX} \union {0}
  <2>1. S \in SUBSET (0..n) /\ S # {}
    OBVIOUS
  <2>2. Max(S) \in S /\ \A y \in S : y <= Max(S)
    <3> HIDE DEF S
    <3> QED BY <2>1, MaxOf
  <2> QED BY <1>8, <2>2
<1>10. pivot # 0
  <2> SUFFICES ASSUME pivot = 0 PROVE FALSE
    OBVIOUS
  <2>1. \A d \in 1..n : moved[d].index = INVALID_INDEX
    BY <1>9
  <2>2. \A d \in 1..n : Offset(md[d], states[d]) = getNumOfElements(md[d]) - 1
    BY <1>3, <1>7, <2>1 DEF Advances
  <2>3. PICK r : IsRank(r, md, states) /\ Rank(md, states) = r[n]
    BY <1>1, <1>4, RankIs
  <2>4. r[n] = MdNumOfElements(md) - 1
    BY <1>1, <2>2, <2>3, RankOfLast
  <2>5. MdNumOfElements(md) \in Pos
    BY NumOfElementsPositive
  <2> QED BY <1>4, <2>3, <2>4, <2>5 DEF Pos
<1>11. pivot \in 1..n /\ Advances(md[pivot], places[pivot].state, moved[pivot])
       /\ (elementNo > 0 => places[pivot].index < moved[pivot].index)
  BY <1>7, <1>9, <1>10
<1>12. \A d \in (pivot + 1)..n : /\ d \in 1..n
                               /\ Offset(md[d], places[d].state) = getNumOfElements(md[d]) - 1
  BY <1>7, <1>9, <1>11 DEF Advances
<1>13. PICK next : next = NextPlaces(md, places)
  OBVIOUS
<1>14. next = [d \in 1..n |-> IF d < pivot THEN places[d]
                              ELSE IF d = pivot THEN moved[d]
                              ELSE getNextIndex(md[d], Reset)]
  BY <1>1, <1>6, <1>8, <1>10, <1>13 DEF NextPlaces
<1>15. \A d \in 1..n : OnElement(md[d], next[d].state, next[d].index)
  <2> TAKE d \in 1..n
  <2>1. CASE d < pivot
    <3>1. d # n
      BY <1>11, <2>1
    <3> QED BY <1>5, <1>14, <2>1, <3>1
  <2>2. CASE d = pivot
    BY <1>11, <1>14, <2>2 DEF Advances
  <2>3. CASE d > pivot
    <3>1. next[d] = getNextIndex(md[d], Reset)
      BY <1>11, <1>14, <2>3
    <3> QED BY <1>2, <3>1, NextIndexFromReset DEF Advances
  <2> QED BY <1>11, <2>1, <2>2, <2>3
<1>16. next \in [1..n -> [state: States, index: Int]]
  <2>1. \A d \in 1..n : next[d] \in [state: States, index: Int]
    <3> TAKE d \in 1..n
    <3>1. next[d].state \in States
      BY <1>15 DEF OnElement
    <3>2. next[d].index \in Int
      <4>1. md[d].begin \in Int /\ md[d].period \in Int
        BY <1>2, IntervalSeqType DEF Pos
      <4>2. next[d].state.iteration \in Int /\ next[d].state.position \in Int
        BY <3>1 DEF States
      <4>3. next[d].index = md[d].begin + next[d].state.iteration * md[d].period + next[d].state.position
        BY <1>15 DEF OnElement
      <4> QED BY <4>1, <4>2, <4>3
    <3>3. next[d] = [state |-> next[d].state, index |-> next[d].index]
      <4>1. CASE d < pivot
        BY <1>4, <1>14, <4>1
      <4>2. CASE d = pivot
        BY <1>6, <1>14, <4>2 DEF getNextIndex
      <4>3. CASE d > pivot
        BY <1>11, <1>14, <4>3 DEF getNextIndex
      <4> QED BY <1>11, <4>1, <4>2, <4>3
    <3> QED BY <3>1, <3>2, <3>3
  <2> QED BY <1>14, <2>1
<1>17. PICK states2 : states2 = [d \in 1..n |-> next[d].state]
  OBVIOUS
<1>18. states2 \in [1..n -> States]
  BY <1>16, <1>17
<1>19. Carries(md, states, pivot, states2)
  <2>1. \A d \in 1..(pivot - 1) : states2[d] = states[d]
    BY <1>3, <1>11, <1>14, <1>17
  <2>2. Offset(md[pivot], states2[pivot]) = Offset(md[pivot], states[pivot]) + 1
    BY <1>3, <1>11, <1>14, <1>17 DEF Advances
  <2>3. ASSUME NEW d \in (pivot + 1)..Len(md)
        PROVE  /\ Offset(md[d], states2[d]) = 0
               /\ Offset(md[d], states[d]) = getNumOfElements(md[d]) - 1
    <3>1. d \in 1..n /\ d > pivot /\ Offset(md[d], places[d].state) = getNumOfElements(md[d]) - 1
      BY <1>1, <1>11, <1>12
    <3>2. states[d] = places[d].state
      BY <1>3, <3>1
    <3>3. states2[d] = getNextIndex(md[d], Reset).state
      BY <1>11, <1>14, <1>17, <3>1
    <3>4. md[d] \in IntervalSeqs
      BY <1>2, <3>1
    <3> QED BY <3>1, <3>2, <3>3, <3>4, NextIndexFromReset
  <2> QED BY <2>1, <2>2, <2>3 DEF Carries
<1>20. Rank(md, states2) = Rank(md, states) + 1
  BY <1>1, <1>4, <1>11, <1>18, <1>19, RankOfNext
<1>21. PlacesOK(md, next, elementNo + 1)
  <2>1. Cursors(next) = states2
    BY <1>16, <1>17, CursorsAre
  <2> QED BY <2>1, <1>1, <1>4, <1>15, <1>16, <1>17, <1>20 DEF PlacesOK
<1>22. ASSUME elementNo > 0
       PROVE  LexicallyBefore(Point(places), Point(next))
  <2>1. Len(places) = n /\ Len(next) = n
    BY <1>4, <1>16
  <2>2. Point(places) = [d \in 1..n |-> places[d].index] /\ Point(next) = [d \in 1..n |-> next[d].index]
    BY <2>1 DEF Point
  <2>3. Point(places)[pivot] < Point(next)[pivot]
    BY <1>11, <1>14, <1>22, <2>2
  <2>4. \A e \in 1..n : e < pivot => Point(places)[e] = Point(next)[e]
    BY <1>14, <2>2
  <2>5. DOMAIN Point(places) = 1..n
    BY <2>2
  <2> QED BY <1>11, <2>3, <2>4, <2>5 DEF LexicallyBefore
<1> QED BY <1>13, <1>21, <1>22

\* initCursorsAndIndex: the first point is the next one.
LEMMA InitialPlacesOK ==
  ASSUME NEW md \in Seq(IntervalSeqs) \ {<<>>}
  PROVE  PlacesOK(md, InitialPlaces(md), 0)
<1>1. PICK n \in Nat \ {0} : n = Len(md)
  OBVIOUS
<1>2. \A d \in 1..n : md[d] \in IntervalSeqs
  BY <1>1
<1>3. PICK places : places = InitialPlaces(md)
  OBVIOUS
<1>4. places = [d \in 1..n |-> IF d < n THEN getNextIndex(md[d], Reset)
                               ELSE [state |-> Reset, index |-> INVALID_INDEX]]
  BY <1>1, <1>3 DEF InitialPlaces
<1>5. PICK states : states = [d \in 1..n |-> places[d].state]
  OBVIOUS
<1>6. ASSUME NEW d \in 1..n, d < n
      PROVE  /\ OnElement(md[d], places[d].state, places[d].index)
             /\ Offset(md[d], places[d].state) = 0
             /\ places[d] \in [state: States, index: Int]
  <2>1. places[d] = getNextIndex(md[d], Reset)
    BY <1>4, <1>6
  <2>2. OnElement(md[d], places[d].state, places[d].index) /\ Offset(md[d], places[d].state) = 0
    BY <1>2, <2>1, NextIndexFromReset DEF Advances
  <2>3. places[d].state \in States
    BY <2>2 DEF OnElement
  <2>4. places[d].index \in Int
    <3>1. md[d].begin \in Int /\ md[d].period \in Int
      BY <1>2, IntervalSeqType DEF Pos
    <3>2. places[d].state.iteration \in Int /\ places[d].state.position \in Int
      BY <2>3 DEF States
    <3>3. places[d].index = md[d].begin + places[d].state.iteration * md[d].period + places[d].state.position
      BY <2>2 DEF OnElement
    <3> QED BY <3>1, <3>2, <3>3
  <2>5. places[d] = [state |-> places[d].state, index |-> places[d].index]
    BY <2>1 DEF getNextIndex
  <2> QED BY <2>2, <2>3, <2>4, <2>5
<1>7. places[n] = [state |-> Reset, index |-> INVALID_INDEX] /\ Reset \in States /\ INVALID_INDEX \in Int
  BY <1>4, InvalidIndex DEF Reset, IntervalState, States
<1>8. places \in [1..n -> [state: States, index: Int]]
  BY <1>4, <1>6, <1>7
<1>9. states \in [1..n -> States]
  BY <1>5, <1>8
<1>10. PICK r : IsRank(r, md, states) /\ Rank(md, states) = r[n]
  BY <1>1, <1>9, RankIs
<1>11. PICK g : g = [d \in 0..n |-> IF d = n THEN -1 ELSE 0]
  OBVIOUS
<1>12. r[0] = g[0]
  BY <1>1, <1>10, <1>11 DEF IsRank
<1>13. ASSUME NEW d \in 1..n, r[d - 1] = g[d - 1]
       PROVE  r[d] = g[d]
  <2>1. g[d - 1] = 0 /\ g[d] = IF d = n THEN -1 ELSE 0
    BY <1>1, <1>11
  <2>2. r[d] = r[d - 1] * getNumOfElements(md[d]) + Offset(md[d], states[d])
    BY <1>1, <1>10 DEF IsRank
  <2>3. getNumOfElements(md[d]) \in Int
    BY <1>2, IntervalSeqType DEF Pos
  <2>4. Offset(md[d], states[d]) = IF d = n THEN -1 ELSE 0
    <3>1. CASE d < n
      BY <1>5, <1>6, <3>1
    <3>2. CASE d = n
      <4>1. states[n] = Reset
        BY <1>5, <1>7
      <4>2. md[n].length \in Int
        BY <1>2, IntervalSeqType DEF Pos
      <4> QED BY <3>2, <4>1, <4>2 DEF Offset, Reset, IntervalState
    <3> QED BY <3>1, <3>2
  <2>5. PICK N \in Int : N = getNumOfElements(md[d])
    BY <2>3
  <2>6. 0 * N = 0
    OBVIOUS
  <2> QED BY <1>13, <2>1, <2>2, <2>4, <2>5, <2>6
<1>14. AgreeStepwise(r, g, n)
  BY <1>12, <1>13 DEF AgreeStepwise
<1>15. Agree(r, g, n)
  BY <1>14, AgreeUpTo
<1>16. r[n] = -1
  BY <1>11, <1>15 DEF Agree
<1>17. \A d \in 1..n : \/ OnElement(md[d], places[d].state, places[d].index)
                       \/ d = n /\ places[d].state = Reset
  BY <1>6, <1>7
<1>18. PlacesOK(md, places, 0)
  <2>1. Cursors(places) = states
    BY <1>5, <1>8, CursorsAre
  <2> QED BY <2>1, <1>1, <1>5, <1>8, <1>10, <1>16, <1>17 DEF PlacesOK
<1> QED BY <1>3, <1>18

\* The point that the cursors are on is one of the sequence.
LEMMA PointOfSequence ==
  ASSUME NEW md \in Seq(IntervalSeqs) \ {<<>>}, NEW places, NEW elementNo \in Nat \ {0},
         PlacesOK(md, places, elementNo)
  PROVE  Point(places) \in MdElements(md)
<1>1. PICK n \in Nat \ {0} : n = Len(md)
  OBVIOUS
<1>2. places \in [1..n -> [state: States, index: Int]]
      /\ \A d \in 1..n : OnElement(md[d], places[d].state, places[d].index)
  BY <1>1 DEF PlacesOK
<1>3. Point(places) = [d \in 1..n |-> places[d].index]
  BY <1>2 DEF Point
<1>4. ASSUME NEW d \in 1..n
      PROVE  places[d].index \in Elements(md[d])
  <2>1. PICK it, pos : it = places[d].state.iteration /\ pos = places[d].state.position
    OBVIOUS
  <2>2. it \in 0..(md[d].count - 1) /\ pos \in 0..(md[d].length - 1)
        /\ places[d].index = md[d].begin + it * md[d].period + pos
    BY <1>2, <2>1 DEF OnElement
  <2>3. md[d] \in IntervalSeqs
    BY <1>1
  <2>4. md[d].period \in Int /\ md[d].count \in Int
    BY <2>3, IntervalSeqType DEF Pos
  <2>5. it * md[d].period = md[d].period * it
    BY <2>2, <2>4
  <2> QED BY <2>2, <2>5 DEF Elements
<1>5. \A d \in 1..n : Point(places)[d] \in Elements(md[d])
  BY <1>3, <1>4
<1>6. Point(places) \in [1..n -> UNION {Elements(md[d]) : d \in 1..n}]
  BY <1>3, <1>4
<1> QED BY <1>1, <1>5, <1>6 DEF MdElements

-----------------------------------------------------------------------------
(* The invariant *)

LEMMA InvExact ==
  ASSUME Inv
  PROVE  /\ sequences \in DataDescriptions
         /\ \A i \in 1..Len(sequences) : sequences[i] \in Seq(IntervalSeqs) \ {<<>>}
         /\ IsExact(sequences, senderData, receiverData)
<1>1. IsExact(sequences, senderData, receiverData)
  BY DEF Inv
<1>2. sequences \in DataDescriptions
  BY <1>1 DEF IsExact
<1>3. \A i \in 1..Len(sequences) : sequences[i] \in Seq(IntervalSeqs) \ {<<>>}
  BY <1>2 DEF DataDescriptions
<1> QED BY <1>1, <1>2, <1>3

\* The iterator's fields hold the places as the cursors and the index.
LEMMA PlacesSet ==
  ASSUME NEW md \in Seq(IntervalSeqs) \ {<<>>}, NEW places, NEW elementNo, PlacesOK(md, places, elementNo),
         NEW states, NEW point, states = Cursors(places), point = Point(places)
  PROVE  [d \in 1..Len(point) |-> [state |-> states[d], index |-> point[d]]] = places
<1>1. PICK n \in Nat : n = Len(md)
  OBVIOUS
<1>2. places \in [1..n -> [state: States, index: Int]]
  BY <1>1 DEF PlacesOK
<1>3. Len(places) = n
  BY <1>2
<1>4. Len(point) = n
  BY <1>3 DEF Point
<1>5. \A d \in 1..n : places[d] = [state |-> places[d].state, index |-> places[d].index]
  BY <1>2
<1> QED BY <1>2, <1>3, <1>4, <1>5 DEF Point, Cursors

LEMMA InitInv == Init => Inv
<1> SUFFICES ASSUME Init PROVE Inv
  OBVIOUS
<1>1. PICK pair \in Descriptions :
        /\ senderData = pair[1] /\ receiverData = pair[2]
        /\ sequences = exchangeDesc(senderData, receiverData)
        /\ sequences # <<>>
        /\ currentSequence = 1 /\ currentElement = 0 /\ currentElementNo = 0
        /\ LET places == InitialPlaces(sequences[1])
           IN cursors = Cursors(places) /\ index = Point(places)
        /\ visited = <<>>
  BY DEF Init
<1>2. IsExact(sequences, senderData, receiverData)
  BY <1>1, DescriptionsAssumption
<1>3. /\ sequences \in DataDescriptions
      /\ 1 \in 1..Len(sequences)
      /\ sequences[1] \in Seq(IntervalSeqs) \ {<<>>}
  BY <1>1, <1>2 DEF IsExact, DataDescriptions
<1>4. PICK md \in Seq(IntervalSeqs) \ {<<>>} : md = sequences[1]
  BY <1>3
<1>5. PICK places : places = InitialPlaces(md)
  OBVIOUS
<1>6. PlacesOK(md, places, 0)
  BY <1>5, InitialPlacesOK
<1>7. CursorsOK
  <2>1. cursors = Cursors(places) /\ index = Point(places)
    BY <1>1, <1>4, <1>5
  <2>2. Places = places
    BY <1>6, <2>1, PlacesSet DEF Places
  <2> QED BY <2>1, <1>1, <1>4, <1>6, <2>2 DEF CursorsOK
<1>8. CountsOK
  <2>1. PICK total : IsTotal(total) /\ \A k \in 0..Len(sequences) : ElementsUpTo(k) = total[k]
    BY <1>3, TotalIs
  <2>2. ElementsUpTo(0) = 0
    BY <1>3, <2>1 DEF IsTotal
  <2>3. MdNumOfElements(sequences[1]) \in Pos
    BY <1>3, NumOfElementsPositive
  <2> QED BY <1>1, <1>3, <2>2, <2>3 DEF CountsOK, Pos
<1>9. VisitedOK
  <2>1. ToSet(visited) = {}
    BY <1>1 DEF ToSet
  <2>2. visited \in Seq(Described(sequences))
    BY <1>1
  <2> QED BY <1>1, <2>1, <2>2 DEF VisitedOK
<1> QED BY <1>2, <1>7, <1>8, <1>9 DEF Inv

\* The order of the points is one.
LEMMA BeforeIsOrder ==
  ASSUME NEW n \in Nat, NEW x \in [1..n -> Int], NEW y \in [1..n -> Int], NEW z \in [1..n -> Int],
         LexicallyBefore(y, z)
  PROVE  /\ y # z
         /\ LexicallyBefore(x, y) => LexicallyBefore(x, z)
<1>1. PICK d \in 1..n : y[d] < z[d] /\ \A e \in 1..n : e < d => y[e] = z[e]
  BY DEF LexicallyBefore
<1>2. y # z
  BY <1>1
<1>3. ASSUME LexicallyBefore(x, y)
      PROVE  LexicallyBefore(x, z)
  <2>1. PICK c \in 1..n : x[c] < y[c] /\ \A e \in 1..n : e < c => x[e] = y[e]
    BY <1>3 DEF LexicallyBefore
  <2>2. \E m \in 1..n : x[m] < z[m] /\ \A e \in 1..n : e < m => x[e] = z[e]
    <3>1. CASE c <= d
      <4>1. x[c] < z[c] /\ \A e \in 1..n : e < c => x[e] = z[e]
        BY <1>1, <2>1, <3>1
      <4> QED BY <4>1
    <3>2. CASE d < c
      <4>1. x[d] < z[d] /\ \A e \in 1..n : e < d => x[e] = z[e]
        BY <1>1, <2>1, <3>2
      <4> QED BY <4>1
    <3> QED BY <3>1, <3>2
  <2> QED BY <2>2 DEF LexicallyBefore
<1> QED BY <1>2, <1>3

LEMMA ElementsAreTuples ==
  ASSUME NEW md \in Seq(IntervalSeqs) \ {<<>>}, NEW x \in MdElements(md)
  PROVE  x \in [1..Len(md) -> Int]
<1>1. ASSUME NEW d \in 1..Len(md)
      PROVE  Elements(md[d]) \subseteq Int
  <2>1. md[d] \in IntervalSeqs
    OBVIOUS
  <2>2. md[d].begin \in Int /\ md[d].period \in Int /\ md[d].count \in Int /\ md[d].length \in Int
    BY <2>1, IntervalSeqType DEF Pos
  <2> QED BY <2>2 DEF Elements
<1>2. x \in [1..Len(md) -> UNION {Elements(md[d]) : d \in 1..Len(md)}]
  BY DEF MdElements
<1>3. UNION {Elements(md[d]) : d \in 1..Len(md)} \subseteq Int
  BY <1>1
<1> QED BY <1>2, <1>3

\* The point that one step of the iterator delivers is one of the current sequence, which has
\* not been delivered before.
LEMMA PointIsNew ==
  ASSUME Inv, NEW seq \in 1..Len(sequences), NEW places, NEW elementNo \in Nat,
         elementNo < MdNumOfElements(sequences[seq]),
         PlacesOK(sequences[seq], places, elementNo),
         \/ seq = currentSequence /\ places = Places /\ elementNo = currentElementNo
         \/ seq = currentSequence + 1 /\ elementNo = 0
  PROVE  LET point == Point(NextPlaces(sequences[seq], places))
         IN /\ point \in MdElements(sequences[seq])
            /\ elementNo > 0 => index = Point(places) /\ LexicallyBefore(index, point)
            /\ \A x \in ToSet(visited) : \E i \in 1..seq :
                 /\ x \in MdElements(sequences[i])
                 /\ i = seq => LexicallyBefore(x, point)
            /\ point \notin ToSet(visited)
<1>1. PICK md : md = sequences[seq]
  OBVIOUS
<1>2. md \in Seq(IntervalSeqs) \ {<<>>}
  BY <1>1, InvExact
<1>3. PICK next : next = NextPlaces(md, places)
  OBVIOUS
<1>4. /\ PlacesOK(md, next, elementNo + 1)
      /\ elementNo > 0 => LexicallyBefore(Point(places), Point(next))
  BY <1>1, <1>2, <1>3, NextPlacesOK
<1>5. PICK point : point = Point(next)
  OBVIOUS
<1>6. point \in MdElements(md)
  <2>1. elementNo + 1 \in Nat \ {0}
    OBVIOUS
  <2> QED BY <1>2, <1>4, <1>5, <2>1, PointOfSequence
<1>7. currentSequence \in 1..Len(sequences) /\ currentElementNo \in Nat
  <2>1. currentSequence \in 1..Len(sequences) /\ currentElementNo \in 0..MdNumOfElements(sequences[currentSequence])
    BY DEF Inv, CountsOK
  <2> QED BY <2>1
<1>8. ASSUME elementNo > 0
      PROVE  index = Point(places)
  BY <1>8 DEF Inv, CursorsOK
<1>9. ASSUME NEW x \in ToSet(visited)
      PROVE  \E i \in 1..seq : x \in MdElements(sequences[i]) /\ (i = seq => LexicallyBefore(x, point))
  <2>1. PICK i \in 1..currentSequence :
          /\ x \in MdElements(sequences[i])
          /\ i = currentSequence => (x = index \/ LexicallyBefore(x, index))
    BY DEF Inv, VisitedOK
  <2>2. i \in 1..seq
    BY <1>7
  <2>3. ASSUME i = seq
        PROVE  LexicallyBefore(x, point)
    <3>1. seq = currentSequence /\ places = Places /\ elementNo = currentElementNo
      BY <1>7, <2>1, <2>3
    <3>2. elementNo > 0
      <4>1. visited # <<>>
        BY DEF ToSet
      <4> QED BY <1>7, <3>1, <4>1 DEF Inv, VisitedOK
    <3>3. index = Point(places) /\ LexicallyBefore(index, point)
      BY <1>4, <1>5, <1>8, <3>2
    <3>4. index \in MdElements(md)
      BY <1>1, <1>2, <3>2, <3>3, PointOfSequence
    <3>5. x = index \/ LexicallyBefore(x, index)
      BY <2>1, <2>3, <3>1
    <3>6. /\ x \in [1..Len(md) -> Int] /\ index \in [1..Len(md) -> Int]
          /\ point \in [1..Len(md) -> Int] /\ Len(md) \in Nat
      BY <1>1, <1>2, <1>6, <2>1, <2>3, <3>4, ElementsAreTuples
    <3> QED BY <3>3, <3>5, <3>6, BeforeIsOrder
  <2> QED BY <2>1, <2>2, <2>3
<1>10. ASSUME point \in ToSet(visited)
       PROVE  FALSE
  <2>1. PICK i \in 1..seq : point \in MdElements(sequences[i]) /\ (i = seq => LexicallyBefore(point, point))
    BY <1>9, <1>10
  <2>2. CASE i = seq
    <3>1. point \in [1..Len(md) -> Int] /\ Len(md) \in Nat
      BY <1>2, <1>6, ElementsAreTuples
    <3> QED BY <2>1, <2>2, <3>1, BeforeIsOrder
  <2>3. CASE i # seq
    <3>1. MdElements(sequences[i]) \cap MdElements(md) = {}
      <4>1. \A j, k \in 1..Len(sequences) :
              j # k => MdElements(sequences[j]) \cap MdElements(sequences[k]) = {}
        BY InvExact DEF IsExact
      <4>2. i \in 1..Len(sequences) /\ seq \in 1..Len(sequences)
        OBVIOUS
      <4> QED BY <1>1, <2>3, <4>1, <4>2
    <3> QED BY <1>6, <2>1, <3>1
  <2> QED BY <2>2, <2>3
<1> QED BY <1>1, <1>3, <1>4, <1>5, <1>6, <1>8, <1>9, <1>10

\* A step of the iterator, in the sequence it is in or into the next one.
Steps(seq, places, elementNo) ==
  /\ seq \in 1..Len(sequences)
  /\ elementNo \in 0..(MdNumOfElements(sequences[seq]) - 1)
  /\ PlacesOK(sequences[seq], places, elementNo)
  /\ \/ seq = currentSequence /\ places = Places /\ elementNo = currentElementNo
     \/ seq = currentSequence + 1 /\ elementNo = 0
  /\ currentElement = ElementsUpTo(seq - 1) + elementNo
  /\ currentSequence' = seq /\ currentElementNo' = elementNo + 1
  /\ Deliver(sequences[seq], places)

LEMMA StepOfSequence ==
  ASSUME Inv, NextInSequence
  PROVE  Steps(currentSequence, Places, currentElementNo)
<1>1. currentSequence \in 1..Len(sequences)
      /\ currentElementNo \in 0..MdNumOfElements(sequences[currentSequence])
      /\ currentElement = ElementsUpTo(currentSequence - 1) + currentElementNo
  BY DEF Inv, CountsOK
<1>2. MdNumOfElements(sequences[currentSequence]) \in Nat
  BY <1>1, InvExact, NumOfElementsPositive DEF Pos
<1>3. currentElementNo \in 0..(MdNumOfElements(sequences[currentSequence]) - 1)
  BY <1>1, <1>2 DEF NextInSequence
<1>4. PlacesOK(sequences[currentSequence], Places, currentElementNo)
  BY DEF Inv, CursorsOK
<1> QED BY <1>1, <1>3, <1>4 DEF Steps, NextInSequence

LEMMA StepToSequence ==
  ASSUME Inv, NextSequence
  PROVE  Steps(currentSequence + 1, InitialPlaces(sequences[currentSequence + 1]), 0)
<1>1. currentSequence \in 1..Len(sequences)
      /\ currentElementNo = MdNumOfElements(sequences[currentSequence])
      /\ currentElement = ElementsUpTo(currentSequence - 1) + currentElementNo
      /\ currentElement < ElementsUpTo(Len(sequences))
  BY DEF Inv, CountsOK, NextSequence, hasMoreElements, getTotalElementsCount
<1>2. PICK total : IsTotal(total) /\ \A k \in 0..Len(sequences) : ElementsUpTo(k) = total[k]
  BY InvExact, TotalIs
<1>3. /\ currentSequence - 1 \in 0..Len(sequences) /\ currentSequence \in 0..Len(sequences)
      /\ Len(sequences) \in 0..Len(sequences)
  BY <1>1, InvExact DEF DataDescriptions
<1>4. currentElement = ElementsUpTo(currentSequence)
  <2>1. total[currentSequence] = total[currentSequence - 1] + MdNumOfElements(sequences[currentSequence])
    BY <1>1, <1>2 DEF IsTotal
  <2> QED BY <1>1, <1>2, <1>3, <2>1
<1>5. currentSequence # Len(sequences)
  <2>1. currentElement \in Nat
    BY <1>2, <1>3, <1>4 DEF IsTotal
  <2> QED BY <1>1, <1>4, <2>1
<1>6. currentSequence + 1 \in 1..Len(sequences) /\ (currentSequence + 1) - 1 = currentSequence
  BY <1>1, <1>3, <1>5
<1>7. PICK seq \in 1..Len(sequences) : seq = currentSequence + 1 /\ seq - 1 = currentSequence
  BY <1>6
<1>8. PICK md : md = sequences[seq]
  OBVIOUS
<1>9. md \in Seq(IntervalSeqs) \ {<<>>}
  BY <1>8, InvExact
<1>10. PlacesOK(md, InitialPlaces(md), 0) /\ MdNumOfElements(md) \in Nat \ {0}
  BY <1>9, InitialPlacesOK, NumOfElementsPositive DEF Pos
<1>11. 0 \in 0..(MdNumOfElements(md) - 1)
  BY <1>10
<1>12. ElementsUpTo(seq - 1) \in Nat
  BY <1>2, <1>3, <1>7 DEF IsTotal
<1>13. currentElement = ElementsUpTo(seq - 1) + 0
  BY <1>4, <1>7, <1>12
<1>14. /\ currentSequence' = seq /\ currentElementNo' = 0 + 1
       /\ Deliver(md, InitialPlaces(md))
  BY <1>7, <1>8 DEF NextSequence
<1> QED BY <1>7, <1>8, <1>10, <1>11, <1>13, <1>14 DEF Steps

LEMMA Appended ==
  ASSUME NEW S, NEW v \in Seq(S), NEW x \in S
  PROVE  /\ Append(v, x) \in Seq(S) /\ Append(v, x) # <<>> /\ Last(Append(v, x)) = x
         /\ ToSet(Append(v, x)) = ToSet(v) \cup {x}
<1>0. Append(v, x) \in Seq(S)
  OBVIOUS
<1>1. PICK w \in Seq(S) : w = Append(v, x)
  BY <1>0
<1>2. /\ Len(v) \in Nat /\ Len(w) = Len(v) + 1 /\ w[Len(v) + 1] = x
      /\ \A i \in 1..Len(v) : w[i] = v[i]
  BY <1>1
<1>3. DOMAIN v = 1..Len(v) /\ DOMAIN w = 1..(Len(v) + 1)
  BY <1>2
<1>4. ToSet(w) = ToSet(v) \cup {x}
  BY <1>2, <1>3 DEF ToSet
<1>5. Last(w) = x /\ w # <<>>
  BY <1>2 DEF Last
<1> QED BY <1>1, <1>4, <1>5

LEMMA StepsInv ==
  ASSUME Inv, NEW seq, NEW places, NEW elementNo, Steps(seq, places, elementNo)
  PROVE  Inv'
<1>1. /\ seq \in 1..Len(sequences) /\ elementNo \in Nat
      /\ elementNo < MdNumOfElements(sequences[seq]) /\ MdNumOfElements(sequences[seq]) \in Nat
  <2>1. MdNumOfElements(sequences[seq]) \in Nat
    BY InvExact, NumOfElementsPositive DEF Steps, Pos
  <2> QED BY <2>1 DEF Steps
<1>2. /\ PlacesOK(sequences[seq], places, elementNo)
      /\ \/ seq = currentSequence /\ places = Places /\ elementNo = currentElementNo
         \/ seq = currentSequence + 1 /\ elementNo = 0
  BY DEF Steps
<1>3. PICK md : md = sequences[seq]
  OBVIOUS
<1>4. md \in Seq(IntervalSeqs) \ {<<>>}
  BY <1>1, <1>3, InvExact
<1>5. PICK next : next = NextPlaces(md, places)
  OBVIOUS
<1>6. PICK point : point = Point(next)
  OBVIOUS
<1>7. PlacesOK(md, next, elementNo + 1)
  BY <1>1, <1>2, <1>3, <1>4, <1>5, NextPlacesOK
<1>8. /\ point \in MdElements(md)
      /\ \A x \in ToSet(visited) : \E i \in 1..seq :
           /\ x \in MdElements(sequences[i])
           /\ i = seq => LexicallyBefore(x, point)
  BY <1>1, <1>2, <1>3, <1>5, <1>6, PointIsNew
<1>9. /\ sequences' = sequences /\ senderData' = senderData /\ receiverData' = receiverData
      /\ currentSequence' = seq /\ currentElementNo' = elementNo + 1
      /\ currentElement' = currentElement + 1
      /\ cursors' = Cursors(next) /\ index' = Point(next)
      /\ visited' = Append(visited, point)
  BY <1>3, <1>5, <1>6 DEF Steps, Deliver
<1>10. IsExact(sequences, senderData, receiverData)'
  BY <1>9 DEF Inv, IsExact
<1>11. CountsOK'
  <2>1. ElementsUpTo(seq - 1)' = ElementsUpTo(seq - 1)
    BY <1>9 DEF ElementsUpTo
  <2>2. currentElement = ElementsUpTo(seq - 1) + elementNo
    BY DEF Steps
  <2>3. ElementsUpTo(seq - 1) \in Nat
    <3>1. PICK total : IsTotal(total) /\ \A k \in 0..Len(sequences) : ElementsUpTo(k) = total[k]
      BY InvExact, TotalIs
    <3>2. seq - 1 \in 0..Len(sequences)
      BY <1>1
    <3> QED BY <3>1, <3>2 DEF IsTotal
  <2>4. currentElement' = ElementsUpTo(seq - 1) + (elementNo + 1)
    BY <1>1, <1>9, <2>2, <2>3
  <2>5. elementNo + 1 \in 0..MdNumOfElements(sequences[seq])
    BY <1>1
  <2> QED BY <1>1, <1>9, <2>1, <2>4, <2>5 DEF CountsOK
<1>12. CursorsOK'
  <2>1. [d \in 1..Len(index') |-> [state |-> cursors'[d], index |-> index'[d]]] = next
    BY <1>4, <1>7, <1>9, PlacesSet
  <2>2. Places' = next
    BY <2>1 DEF Places
  <2> QED BY <1>3, <1>7, <1>9, <2>2 DEF CursorsOK
<1>13. VisitedOK'
  <2>1. visited \in Seq(Described(sequences))
    BY DEF Inv, VisitedOK
  <2>2. point \in Described(sequences)
    BY <1>1, <1>3, <1>8 DEF Described
  <2>3. visited' \in Seq(Described(sequences')) /\ visited' # <<>> /\ Last(visited') = point
        /\ ToSet(visited') = ToSet(visited) \cup {point}
    BY <1>9, <2>1, <2>2, Appended
  <2>4. \A x \in ToSet(visited') : \E i \in 1..seq :
          /\ x \in MdElements(sequences[i])
          /\ i = seq => (x = point \/ LexicallyBefore(x, point))
    <3> TAKE x \in ToSet(visited')
    <3>1. CASE x \in ToSet(visited)
      BY <1>8, <3>1
    <3>2. CASE x = point
      BY <1>1, <1>3, <1>8, <3>2
    <3> QED BY <2>3, <3>1, <3>2
  <2>5. currentElementNo' # 0
    BY <1>1, <1>9
  <2> QED BY <1>6, <1>9, <2>3, <2>4, <2>5 DEF VisitedOK
<1> QED BY <1>10, <1>11, <1>12, <1>13 DEF Inv

LEMMA NextInv == Inv /\ [Next]_vars => Inv'
<1> SUFFICES ASSUME Inv, [Next]_vars PROVE Inv'
  OBVIOUS
<1>1. CASE NextInSequence
  BY <1>1, StepOfSequence, StepsInv
<1>2. CASE NextSequence
  BY <1>2, StepToSequence, StepsInv
<1>3. CASE UNCHANGED vars
  <2>1. IsExact(sequences, senderData, receiverData)'
    BY <1>3 DEF Inv, vars, IsExact
  <2>2. CountsOK'
    BY <1>3 DEF Inv, vars, CountsOK, ElementsUpTo
  <2>3. CursorsOK'
    BY <1>3 DEF Inv, vars, CursorsOK, Places
  <2>4. VisitedOK'
    BY <1>3 DEF Inv, vars, VisitedOK
  <2> QED BY <2>1, <2>2, <2>3, <2>4 DEF Inv
<1> QED BY <1>1, <1>2, <1>3 DEF Next

\* The cursors are on the point that has been delivered last, which as many points come before
\* as have been counted; of what has been delivered, the points of this sequence come before it.
THEOREM Invariance == Spec => []Inv
  BY InitInv, NextInv, PTL DEF Spec

\* Each sequence is traversed in an incremental order, the last dimension varying fastest.
THEOREM Ordered == Spec => IncrementalOrder
<1>1. ASSUME Inv, [Next]_vars
      PROVE  [currentSequence' = currentSequence /\ visited # <<>>
                => LexicallyBefore(Last(visited), Last(visited'))]_visited
  <2> SUFFICES ASSUME currentSequence' = currentSequence, visited # <<>>, visited' # visited
               PROVE  LexicallyBefore(Last(visited), Last(visited'))
    OBVIOUS
  <2>1. NextInSequence
    <3>1. currentSequence \in Int
      BY <1>1 DEF Inv, CountsOK
    <3>2. ~NextSequence
      BY <3>1 DEF NextSequence
    <3> QED BY <1>1, <3>2 DEF Next, vars
  <2>2. Steps(currentSequence, Places, currentElementNo)
    BY <1>1, <2>1, StepOfSequence
  <2>3. currentElementNo > 0 /\ Last(visited) = index
    <3>1. currentElementNo # 0 /\ currentElementNo \in Nat
      BY <1>1, <2>2 DEF Inv, VisitedOK, Steps
    <3> QED BY <1>1, <3>1 DEF Inv, VisitedOK
  <2>4. PICK point : point = Point(NextPlaces(sequences[currentSequence], Places))
    OBVIOUS
  <2>5. LexicallyBefore(index, point)
    <3>1. MdNumOfElements(sequences[currentSequence]) \in Nat
      BY <1>1, <2>2, InvExact, NumOfElementsPositive DEF Steps, Pos
    <3>2. /\ currentSequence \in 1..Len(sequences) /\ currentElementNo \in Nat
          /\ currentElementNo < MdNumOfElements(sequences[currentSequence])
          /\ PlacesOK(sequences[currentSequence], Places, currentElementNo)
      BY <2>2, <3>1 DEF Steps
    <3> QED BY <1>1, <2>3, <2>4, <3>2, PointIsNew
  <2>6. visited' = Append(visited, point)
    BY <2>1, <2>4 DEF NextInSequence, Deliver
  <2>7. Last(visited') = point
    <3>1. visited \in Seq(Described(sequences))
      BY <1>1 DEF Inv, VisitedOK
    <3> QED BY <2>6, <3>1 DEF Last
  <2> QED BY <2>3, <2>5, <2>7
<1> QED BY <1>1, Invariance, PTL DEF Spec, IncrementalOrder

\* Every step of the iterator delivers a point that the two participants have in common and that
\* has not been delivered before.
THEOREM Delivers == Spec => Region!Init /\ [][Region!Next]_(Region!vars)
<1>1. Init => Region!Init
  BY DEF Init, Region!Init
<1>2. ASSUME Inv, NEW seq, NEW places, NEW elementNo, Steps(seq, places, elementNo)
      PROVE  Region!Next
  <2>1. PICK point : point = Point(NextPlaces(sequences[seq], places))
    OBVIOUS
  <2>2. seq \in 1..Len(sequences) /\ point \in MdElements(sequences[seq]) /\ point \notin ToSet(visited)
    <3>1. MdNumOfElements(sequences[seq]) \in Nat
      BY <1>2, InvExact, NumOfElementsPositive DEF Steps, Pos
    <3>2. /\ seq \in 1..Len(sequences) /\ elementNo \in Nat
          /\ elementNo < MdNumOfElements(sequences[seq])
          /\ PlacesOK(sequences[seq], places, elementNo)
          /\ \/ seq = currentSequence /\ places = Places /\ elementNo = currentElementNo
             \/ seq = currentSequence + 1 /\ elementNo = 0
      BY <1>2, <3>1 DEF Steps
    <3> QED BY <1>2, <2>1, <3>2, PointIsNew
  <2>3. point \in Described(senderData) \cap Described(receiverData)
    <3>1. point \in Described(sequences)
      BY <2>2 DEF Described
    <3>2. Described(sequences) = Described(senderData) \cap Described(receiverData)
      BY <1>2 DEF Inv, IsExact
    <3> QED BY <3>1, <3>2
  <2>4. visited' = Append(visited, point) /\ senderData' = senderData /\ receiverData' = receiverData
    BY <1>2, <2>1 DEF Steps, Deliver
  <2>5. (Described(senderData) \cap Described(receiverData))' = Described(senderData) \cap Described(receiverData)
    BY <2>4
  <2>6. \E x \in (Described(senderData) \cap Described(receiverData)) \ ToSet(visited) :
          /\ visited' = Append(visited, x)
          /\ UNCHANGED (Described(senderData) \cap Described(receiverData))
    BY <2>2, <2>3, <2>4, <2>5
  <2> QED BY <2>6 DEF Region!Next, Region!Deliver, Region!ToSet, ToSet
<1>3. Inv /\ [Next]_vars => [Region!Next]_(Region!vars)
  <2> SUFFICES ASSUME Inv, [Next]_vars PROVE [Region!Next]_(Region!vars)
    OBVIOUS
  <2>1. CASE NextInSequence
    BY <1>2, <2>1, StepOfSequence
  <2>2. CASE NextSequence
    BY <1>2, <2>2, StepToSequence
  <2>3. CASE UNCHANGED vars
    BY <2>3 DEF vars, Region!vars
  <2> QED BY <2>1, <2>2, <2>3 DEF Next
<1> QED BY <1>1, <1>3, Invariance, PTL DEF Spec
=============================================================================
