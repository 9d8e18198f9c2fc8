---------------------------- MODULE DivisionLemmas ----------------------------
(***************************************************************************)
(* Facts about division with remainder, on which the sharing of LPUs among *)
(* PPUs, the groups of threads and the partition functions rest; and       *)
(* induction, for definitions that recur over the dimensions or the LPSes. *)
(* It is stated for a set of numbers, which a proof can name where it      *)
(* cannot name a predicate.                                                *)
(***************************************************************************)
EXTENDS Integers, WellFoundedInduction, TLAPS

(* What integer division gives. *)
LEMMA Division ==
  ASSUME NEW total \in Nat, NEW n \in Nat \ {0}
  PROVE  /\ total \div n \in Nat
         /\ total % n \in 0..(n - 1)
         /\ total = (n * (total \div n)) + (total % n)
  BY SMT

(* Multiplication by a natural number is monotonic. *)
LEMMA Monotonic ==
  ASSUME NEW q \in Nat, NEW g \in Nat, NEW h \in Nat, g < h
  PROVE  q * g + q <= q * h
<1>1. PICK d \in Nat : h = g + 1 + d
  <2>1. h - g - 1 \in Nat
    BY SMT
  <2>2. h = g + 1 + (h - g - 1)
    BY SMT
  <2> QED BY <2>1, <2>2
<1>2. q * h = q * g + q + q * d
  BY <1>1, SMT
<1>3. q * d \in Nat /\ q * g \in Nat
  BY SMT
<1> QED BY <1>2, <1>3, SMT

LEMMA LastShare ==
  ASSUME NEW q \in Nat, NEW n \in Nat \ {0}
  PROVE  q * (n - 1) + q = n * q /\ q * (n - 1) \in Nat
<1>1. PICK m \in Nat : n = m + 1
  <2>1. n - 1 \in Nat /\ n = (n - 1) + 1
    OBVIOUS
  <2> QED BY <2>1
<1>2. n - 1 = m
  BY <1>1
<1>3. q * (m + 1) = q * m + q
  OBVIOUS
<1> QED BY <1>1, <1>2, <1>3

LEMMA Product ==
  ASSUME NEW a \in Nat, NEW b \in Nat
  PROVE  a * b \in Nat
  BY SMT

(* Quotient and remainder are the only ones there are. *)
LEMMA UniqueDivision ==
  ASSUME NEW n \in Nat \ {0}, NEW q \in Nat, NEW r \in 0..(n - 1),
         NEW x, x = n * q + r
  PROVE  x \div n = q /\ x % n = r
<1>1. n * q \in Nat /\ x \in Nat
  BY SMT
<1> DEFINE k == x \div n
           m == x % n
<1>2. k \in Nat /\ m \in 0..(n - 1) /\ x = n * k + m
  BY <1>1, Division
<1> HIDE DEF k, m
<1>3. n * k \in Nat
  BY <1>2, Product
<1>4. ~(k < q)
  BY <1>1, <1>2, <1>3, Monotonic
<1>5. ~(q < k)
  BY <1>1, <1>2, <1>3, Monotonic
<1>6. k = q
  BY <1>2, <1>4, <1>5
<1>7. m = r
  BY <1>1, <1>2, <1>6
<1> QED BY <1>6, <1>7 DEF k, m

(* Fewer than n blocks of size q have begun before the n-th one ends. *)
LEMMA QuotientBelow ==
  ASSUME NEW x \in Nat, NEW q \in Nat \ {0}, NEW n \in Nat, x < q * n
  PROVE  x \div q < n
<1> DEFINE k == x \div q
<1>1. k \in Nat /\ x % q \in 0..(q - 1) /\ x = q * k + (x % q) /\ q * k \in Nat
  <2>1. k \in Nat /\ x % q \in 0..(q - 1) /\ x = q * k + (x % q)
    BY Division
  <2>2. q * k \in Nat
    BY <2>1, Product
  <2> QED BY <2>1, <2>2
<1> HIDE DEF k
<1>2. q * n \in Nat
  BY SMT
<1>3. SUFFICES ASSUME n <= k PROVE FALSE
  BY <1>1 DEF k
<1>4. CASE n = k
  BY <1>1, <1>2, <1>4
<1>5. CASE n < k
  BY <1>1, <1>2, <1>5, Monotonic
<1> QED BY <1>1, <1>3, <1>4, <1>5

(* The quotients of two numbers are ordered as the numbers are. *)
LEMMA QuotientMonotonic ==
  ASSUME NEW q \in Nat \ {0}, NEW x \in Nat, NEW y \in Nat, x <= y
  PROVE  x \div q <= y \div q
<1> DEFINE k == y \div q
<1>1. k \in Nat /\ y % q \in 0..(q - 1) /\ y = q * k + (y % q) /\ q * k \in Nat
  <2>1. k \in Nat /\ y % q \in 0..(q - 1) /\ y = q * k + (y % q)
    BY Division
  <2>2. q * k \in Nat
    BY <2>1, Product
  <2> QED BY <2>1, <2>2
<1>2. k + 1 \in Nat /\ q * (k + 1) = q * k + q
  BY <1>1, SMT
<1> HIDE DEF k
<1>3. x < q * (k + 1)
  BY <1>1, <1>2
<1>4. x \div q < k + 1
  BY <1>2, <1>3, QuotientBelow
<1>5. x \div q \in Nat
  BY Division
<1> QED BY <1>1, <1>4, <1>5 DEF k

-----------------------------------------------------------------------------
(* Induction and recursion. *)

\* A set that has 0 and the successors of its numbers has all numbers.
LEMMA Induction ==
  ASSUME NEW S, 0 \in S, \A n \in Nat : n \in S => n + 1 \in S
  PROVE  Nat \subseteq S
<1> DEFINE T == Nat \ S
           R == {p \in Nat \X Nat : p[1] < p[2]}
<1>1. SUFFICES ASSUME T # {} PROVE FALSE
  OBVIOUS
<1>2. PICK x \in T : \A y \in T : ~ (<<y, x>> \in R)
  <2>1. IsWellFoundedOn(R, Nat)
    BY ONLY NatLessThanWellFounded DEF OpToRel
  <2>2. T \subseteq Nat
    OBVIOUS
  <2> HIDE DEF T, R
  <2> QED BY <1>1, <2>1, <2>2, WFMin
<1>3. x \in Nat /\ x # 0
  OBVIOUS
<1>4. x - 1 \in Nat /\ x - 1 < x
  BY <1>3
<1>5. x - 1 \in T
  BY <1>3, <1>4
<1>6. <<x - 1, x>> \in R
  BY <1>3, <1>4
<1> QED BY <1>2, <1>5, <1>6

\* f is defined by recursion up to n, from a by the functions of G.
IsRecursion(f, n, a, G) == /\ DOMAIN f = 0..n
                           /\ f[0] = a
                           /\ \A i \in 1..n : f[i] = G[i][f[i - 1]]

\* There is such a function.
LEMMA RecursionExists ==
  ASSUME NEW n \in Nat, NEW V, NEW a \in V, NEW G \in [1..n -> [V -> V]]
  PROVE  \E f \in [0..n -> V] : IsRecursion(f, n, a, G)
<1> DEFINE Upto(k) == \E f \in [0..k -> V] : IsRecursion(f, k, a, G)
           S == {k \in Nat : k <= n => Upto(k)}
<1>1. 0 \in S
  <2> DEFINE g == [i \in 0..0 |-> a]
  <2>1. g \in [0..0 -> V] /\ g[0] = a
    OBVIOUS
  <2>2. \A i \in 1..0 : g[i] = G[i][g[i - 1]]
    OBVIOUS
  <2> HIDE DEF g
  <2> QED BY <2>1, <2>2 DEF IsRecursion
<1>2. ASSUME NEW k \in Nat, k \in S
      PROVE  k + 1 \in S
  <2> SUFFICES ASSUME k + 1 <= n PROVE Upto(k + 1)
    OBVIOUS
  <2>1. PICK f \in [0..k -> V] : IsRecursion(f, k, a, G)
    BY <1>2
  <2> DEFINE g == [i \in 0..(k + 1) |-> IF i = k + 1 THEN G[k + 1][f[k]] ELSE f[i]]
  <2>2. G[k + 1][f[k]] \in V
    BY <2>1
  <2>3. g \in [0..(k + 1) -> V]
    BY <2>1, <2>2
  <2>4. g[0] = a
    BY <2>1 DEF IsRecursion
  <2>5. ASSUME NEW i \in 1..(k + 1)
        PROVE  g[i] = G[i][g[i - 1]]
    <3>1. i - 1 \in 0..k /\ g[i - 1] = f[i - 1]
      BY <2>1
    <3> QED BY <2>1, <3>1 DEF IsRecursion
  <2> HIDE DEF g
  <2> QED BY <2>3, <2>4, <2>5 DEF IsRecursion
<1>3. n \in S
  <2> HIDE DEF S
  <2> QED BY <1>1, <1>2, Induction
<1> QED BY <1>3


\* Two functions that agree at 0 and from each number to the next agree up to n.
AgreeStepwise(f, g, n) == /\ f[0] = g[0]
                          /\ \A i \in 1..n : f[i - 1] = g[i - 1] => f[i] = g[i]
Agree(f, g, n) == \A i \in 0..n : f[i] = g[i]
LEMMA AgreeUpTo ==
  ASSUME NEW n \in Nat, NEW f, NEW g, AgreeStepwise(f, g, n)
  PROVE  Agree(f, g, n)
<1> USE DEF AgreeStepwise, Agree
<1> DEFINE S == {i \in Nat : i <= n => f[i] = g[i]}
<1>1. 0 \in S
  OBVIOUS
<1>2. ASSUME NEW i \in Nat, i \in S
      PROVE  i + 1 \in S
  <2> SUFFICES ASSUME i + 1 <= n PROVE f[i + 1] = g[i + 1]
    OBVIOUS
  <2>1. f[(i + 1) - 1] = g[(i + 1) - 1]
    BY <1>2
  <2>2. i + 1 \in 1..n
    OBVIOUS
  <2> QED BY <2>1, <2>2
<1>3. Nat \subseteq S
  <2> HIDE DEF S
  <2> QED BY <1>1, <1>2, Induction
<1> QED BY <1>3

(* Division by a product goes by way of division by its factors.               *)
LEMMA NestedDivision ==
  ASSUME NEW x \in Nat, NEW a \in Nat \ {0}, NEW b \in Nat \ {0}
  PROVE  /\ a * b \in Nat \ {0}
         /\ (x % (a * b)) % a = x % a
         /\ (x % (a * b)) \div a \in 0..(b - 1)
         /\ x \div a = b * (x \div (a * b)) + ((x % (a * b)) \div a)
<1> DEFINE ab == a * b
           Q == x \div ab
           R == x % ab
           u == R \div a
           w == R % a
<1>1. ab \in Nat \ {0}
  <2>1. PICK c \in Nat : a = c + 1
    <3>1. a - 1 \in Nat /\ a = (a - 1) + 1
      OBVIOUS
    <3> QED BY <3>1
  <2>2. ab = c * b + b
    BY <2>1
  <2>3. c * b \in Nat
    BY <2>1, Product
  <2> QED BY <2>2, <2>3
<1>2. Q \in Nat /\ R \in 0..(ab - 1) /\ x = (ab * Q) + R
  <2> HIDE DEF ab
  <2> QED BY <1>1, Division
<1>3. R \in Nat /\ R < a * b
  BY <1>1, <1>2
<1>4. u \in Nat /\ w \in 0..(a - 1) /\ R = (a * u) + w
  <2> HIDE DEF R, ab
  <2> QED BY <1>3, Division
<1>5. u < b
  <2> HIDE DEF R, ab
  <2> QED BY <1>3, QuotientBelow
<1> HIDE DEF Q, R, u, w
<1>6. x = a * (b * Q + u) + w
  <2>1. ab * Q = a * (b * Q)
    BY <1>2
  <2>2. b * Q \in Nat
    BY <1>2, Product
  <2>3. a * (b * Q + u) = a * (b * Q) + a * u
    BY <1>4, <2>2
  <2>4. a * (b * Q) \in Nat /\ a * u \in Nat
    BY <1>4, <2>2, Product
  <2> HIDE DEF ab
  <2> QED BY <1>2, <1>4, <2>1, <2>3, <2>4
<1>7. b * Q + u \in Nat
  <2>1. b * Q \in Nat
    BY <1>2, Product
  <2> QED BY <1>4, <2>1
<1>8. x \div a = b * Q + u /\ x % a = w
  BY <1>4, <1>6, <1>7, UniqueDivision
<1> HIDE DEF ab
<1>9. u \in 0..(b - 1)
  BY <1>4, <1>5
<1> QED BY <1>1, <1>8, <1>9 DEF u, w, Q, R, ab

(* How many blocks of a size begin before a number.                             *)
IsCeiling(N, s, g) == N \in Nat \ {0} /\ \A j \in Nat : j < N <=> g * j < s
LEMMA Ceiling ==
  ASSUME NEW s \in Nat \ {0}, NEW g \in Nat \ {0},
         NEW N, N = (s + (g - 1)) \div g
  PROVE  IsCeiling(N, s, g)
<1> DEFINE x == s + (g - 1)
           r == x % g
<1>1. x \in Nat
  OBVIOUS
<1>2. N \in Nat /\ r \in 0..(g - 1) /\ x = (g * N) + r /\ g * N \in Nat
  <2> HIDE DEF x
  <2>1. N \in Nat /\ r \in 0..(g - 1) /\ x = (g * N) + r
    BY <1>1, Division DEF x
  <2> QED BY <2>1, Product
<1> HIDE DEF r
<1>3. N # 0
  <2>1. SUFFICES ASSUME N = 0 PROVE FALSE
    OBVIOUS
  <2>2. g * N = 0
    BY <2>1
  <2> QED BY <1>2, <2>2
<1>4. ASSUME NEW j \in Nat, j < N
      PROVE  g * j < s
  <2>1. g * j + g <= g * N /\ g * j \in Nat
    BY <1>2, <1>4, Monotonic, Product
  <2> QED BY <1>2, <2>1
<1>5. ASSUME NEW j \in Nat, g * j < s
      PROVE  j < N
  <2>1. g * j \in Nat
    BY Product
  <2>2. CASE N = j
    BY <1>2, <1>5, <2>1, <2>2
  <2>3. CASE N < j
    <3>1. g * N + g <= g * j
      BY <1>2, <2>3, Monotonic
    <3> QED BY <1>2, <1>5, <2>1, <3>1
  <2> QED BY <1>2, <2>2, <2>3
<1> QED BY <1>2, <1>3, <1>4, <1>5 DEF IsCeiling

(* A multiple of the block size ends with a full block.                          *)
LEMMA FullBlock ==
  ASSUME NEW total \in Nat, NEW g \in Nat \ {0}, total % g = 0,
         NEW j \in Nat, g * j < total
  PROVE  g * j + g <= total
<1> DEFINE N == total \div g
<1>1. N \in Nat /\ total = (g * N) + 0
  BY Division
<1> HIDE DEF N
<1>2. g * j \in Nat /\ g * N \in Nat
  BY <1>1, Product
<1>3. ~(N = j) 
  BY <1>1, <1>2
<1>4. ~(N < j)
  <2>1. SUFFICES ASSUME N < j PROVE FALSE
    OBVIOUS
  <2>2. g * N + g <= g * j
    BY <1>1, <2>1, Monotonic
  <2> QED BY <1>1, <1>2, <2>2
<1>5. j < N
  BY <1>1, <1>3, <1>4
<1>6. g * j + g <= g * N
  BY <1>1, <1>5, Monotonic
<1> QED BY <1>1, <1>2, <1>6

(* A number below the divisor is its own remainder.                             *)
LEMMA SmallRemainder ==
  ASSUME NEW n \in Nat \ {0}, NEW x \in 0..(n - 1)
  PROVE  x \div n = 0 /\ x % n = x
<1>1. x = n * 0 + x
  OBVIOUS
<1> QED BY <1>1, UniqueDivision

(* A remainder may be taken before an addition.                                 *)
LEMMA RemainderOfSum ==
  ASSUME NEW n \in Nat \ {0}, NEW a \in Nat, NEW b \in Nat
  PROVE  ((a % n) + b) % n = (a + b) % n
<1> DEFINE q == a \div n
           r == a % n
<1>1. q \in Nat /\ r \in 0..(n - 1) /\ a = (n * q) + r
  BY Division
<1> HIDE DEF q, r
<1>2. r + b \in Nat
  BY <1>1
<1> DEFINE k == (r + b) \div n
           m == (r + b) % n
<1>3. k \in Nat /\ m \in 0..(n - 1) /\ r + b = (n * k) + m
  BY <1>2, Division
<1> HIDE DEF k, m
<1>4. n * (q + k) = (n * q) + (n * k) /\ n * q \in Nat /\ n * k \in Nat /\ q + k \in Nat
  BY <1>1, <1>3
<1>5. a + b = (n * (q + k)) + m
  BY <1>1, <1>3, <1>4
<1>6. (a + b) % n = m
  <2>1. PICK Q \in Nat : Q = q + k
    BY <1>4
  <2>2. PICK x : x = a + b
    OBVIOUS
  <2>3. x = n * Q + m
    BY <1>5, <2>1, <2>2
  <2>4. x % n = m
    BY ONLY <1>3, <2>1, <2>3, n \in Nat \ {0}, UniqueDivision
  <2> QED BY <2>2, <2>4
<1> QED BY <1>6 DEF m, r

(* Steps round a circle of n places: n of them lead back, fewer do not.         *)
LEMMA Circle ==
  ASSUME NEW n \in Nat \ {0}, NEW h \in 0..(n - 1)
  PROVE  /\ (h + 0) % n = h /\ (h + n) % n = h
         /\ \A j \in 1..(n - 1) : (h + j) % n # h
<1>1. (h + 0) % n = h
  <2>1. h = n * 0 + h
    OBVIOUS
  <2> QED BY <2>1, SmallRemainder
<1>2. (h + n) % n = h
  <2>1. h + n = n * 1 + h
    OBVIOUS
  <2> QED BY <2>1, UniqueDivision
<1>3. ASSUME NEW j \in 1..(n - 1)
      PROVE  (h + j) % n # h
  <2>1. CASE h + j < n
    <3>1. h + j \in 0..(n - 1)
      BY <2>1
    <3>2. (h + j) % n = h + j
      BY <3>1, SmallRemainder
    <3> QED BY <3>2
  <2>2. CASE ~(h + j < n)
    <3>1. h + j = n * 1 + (h + j - n) /\ h + j - n \in 0..(n - 1)
      BY <2>2
    <3>2. PICK k \in 0..(n - 1) : k = h + j - n
      BY <3>1
    <3>3. PICK x : x = h + j
      OBVIOUS
    <3>4. x = n * 1 + k
      BY <3>1, <3>2, <3>3
    <3>5. x % n = k
      BY ONLY <3>4, 1 \in Nat, n \in Nat \ {0}, k \in 0..(n - 1), UniqueDivision
    <3> QED BY <3>2, <3>3, <3>5
  <2> QED BY <2>1, <2>2
<1> QED BY <1>1, <1>2, <1>3
=============================================================================
