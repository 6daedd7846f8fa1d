---------------------------- MODULE NumberLemmas ----------------------------
(***************************************************************************)
(* Facts about numbers that the proofs of several modules need: products and *)
(* quotients, induction, functions that are defined by recursion on an       *)
(* interval, sums, and counting.                                            *)
(***************************************************************************)
EXTENDS Integers, WellFoundedInduction, FunctionTheorems, FiniteSetTheorems, TLAPS

-----------------------------------------------------------------------------
(* Products and quotients *)

\* Quotient and remainder.
LEMMA DivMod ==
    ASSUME NEW a \in Nat, NEW n \in Nat \ {0}
    PROVE  /\ a \div n \in Nat /\ a % n \in 0 .. n - 1
           /\ a = n * (a \div n) + (a % n)
OBVIOUS

\* Every number is a multiple and a rest.
LEMMA Split ==
    ASSUME NEW a \in Nat, NEW n \in Nat \ {0}
    PROVE  \E j \in Nat, r \in 0 .. n - 1 : a = n * j + r
<1>1. a \div n \in Nat /\ a % n \in 0 .. n - 1
  BY DivMod
<1>2. a = n * (a \div n) + (a % n)
  BY DivMod
<1> QED BY <1>1, <1>2, Zenon

\* A product of natural numbers is one.
LEMMA ProductNat ==
    ASSUME NEW a \in Nat, NEW b \in Nat PROVE a * b \in Nat /\ a * b = b * a
OBVIOUS

\* Multiplication is monotonic, and strictly so by a positive factor.
LEMMA ProductMonotonic ==
    ASSUME NEW a \in Nat, NEW b \in Nat, NEW c \in Nat, a <= b
    PROVE  /\ a * c \in Nat /\ b * c \in Nat /\ a * c <= b * c
           /\ c > 0 /\ a < b => a * c < b * c
<1>1. b - a \in Nat
  OBVIOUS
<1>2. (b - a) * c \in Nat /\ a * c \in Nat /\ b * c \in Nat
  BY <1>1
<1>3. b * c = a * c + (b - a) * c
  OBVIOUS
<1>4. ASSUME c > 0, a < b PROVE (b - a) * c > 0
  BY <1>4
<1> QED BY <1>2, <1>3, <1>4

\* A dividend that holds the divisor so often has at least that quotient.
LEMMA QuotientAtLeast ==
    ASSUME NEW a \in Nat, NEW n \in Nat \ {0}, NEW k \in Nat, k * n <= a
    PROVE  k <= a \div n
<1>1. PICK q \in Nat, r \in 0 .. n - 1 : q = a \div n /\ a = n * q + r
  BY DivMod
<1>2. ASSUME q < k PROVE FALSE
  <2>1. q + 1 \in Nat /\ q + 1 <= k
    BY <1>2
  <2>2. (q + 1) * n <= k * n
    BY <2>1, ProductMonotonic
  <2>3. (q + 1) * n = n * q + n
    OBVIOUS
  <2> QED BY <1>1, <2>2, <2>3
<1> QED BY <1>1, <1>2

\* A quotient holds the divisor no more often than the dividend does.
LEMMA QuotientAtMost ==
    ASSUME NEW a \in Nat, NEW n \in Nat \ {0}, NEW k \in Nat, k <= a \div n
    PROVE  k * n <= a
<1>1. PICK q \in Nat, r \in 0 .. n - 1 : q = a \div n /\ a = n * q + r
  BY DivMod
<1>2. k * n <= q * n
  BY <1>1, ProductMonotonic
<1> QED BY <1>1, <1>2

\* Quotient and remainder of an integer.
LEMMA Division ==
    ASSUME NEW n \in Nat \ {0}, NEW v \in Int
    PROVE  /\ v \div n \in Int /\ v % n \in 0 .. n - 1
           /\ v = n * (v \div n) + (v % n)
<1>1. v \div n \in Int
  OBVIOUS
<1>2. v % n \in 0 .. n - 1
  OBVIOUS
<1>3. v = n * (v \div n) + (v % n)
  OBVIOUS
<1> QED BY <1>1, <1>2, <1>3

\* A product with a larger factor is larger by one n at least.
LEMMA LargerProduct ==
    ASSUME NEW n \in Nat \ {0}, NEW j \in Int, NEW k \in Int, j > k
    PROVE  n * j >= n * k + n
<1>1. n * j = n * k + n * (j - k)
  OBVIOUS
<1>2. PICK d \in Nat : j - k = d + 1
  <2>1. j - k - 1 \in Nat /\ j - k = (j - k - 1) + 1
    OBVIOUS
  <2> QED BY <2>1
<1>3. n * (d + 1) = n * d + n /\ n * d >= 0
  OBVIOUS
<1>4. n * (j - k) >= n
  BY <1>2, <1>3
<1> QED BY <1>1, <1>4

\* v is at place r of run q, of runs of n.
InRun(v, n, q, r) == r \in 0 .. n - 1 /\ v = n * q + r

\* No number is in two runs, or at two places.
LEMMA SameRun ==
    ASSUME NEW n \in Nat \ {0}, NEW j \in Int, NEW k \in Int,
           NEW s, NEW r, NEW v, InRun(v, n, j, s), InRun(v, n, k, r)
    PROVE  j = k /\ s = r
<1> USE DEF InRun
<1>1. n * j \in Int /\ n * k \in Int
  OBVIOUS
<1>2. ~(j > k)
  <2> SUFFICES ASSUME j > k PROVE FALSE
    OBVIOUS
  <2>1. n * j >= n * k + n
    BY LargerProduct
  <2> QED BY <1>1, <2>1
<1>3. ~(k > j)
  <2> SUFFICES ASSUME k > j PROVE FALSE
    OBVIOUS
  <2>1. n * k >= n * j + n
    BY LargerProduct
  <2> QED BY <1>1, <2>1
<1>4. j = k
  BY <1>2, <1>3
<1> QED BY <1>1, <1>4

\* The remainder is what is left over.
LEMMA Remainder ==
    ASSUME NEW n \in Nat \ {0}, NEW k \in Int, NEW r \in 0 .. n - 1
    PROVE  (n * k + r) % n = r
<1>1. n * k + r \in Int
  OBVIOUS
<1>2. PICK v \in Int : v = n * k + r
  BY <1>1
<1>3. PICK j \in Int, s \in 0 .. n - 1 : s = v % n /\ v = n * j + s
  BY Division
<1>4. InRun(v, n, j, s) /\ InRun(v, n, k, r)
  BY <1>2, <1>3 DEF InRun
<1>5. s = r
  BY <1>4, SameRun
<1> QED BY <1>2, <1>3, <1>5

-----------------------------------------------------------------------------
(* Induction and recursion *)

\* Induction: a set with 0 and with the successor of each number it has holds all of
\* them, as a number that is missing would have a least one.
LEMMA Induction ==
    ASSUME NEW S, 0 \in S, \A n \in Nat : n \in S => n + 1 \in S
    PROVE  Nat \subseteq S
<1> DEFINE T == Nat \ S
           R == OpToRel(<, Nat)
<1>1. SUFFICES ASSUME T # {} PROVE FALSE
  OBVIOUS
<1>2. IsWellFoundedOn(R, Nat)
  BY NatLessThanWellFounded
<1>3. PICK x \in T : \A y \in T : ~(<<y, x>> \in R)
  <2> HIDE DEF R, T
  <2>1. T \subseteq Nat
    BY DEF T
  <2> QED BY <1>1, <1>2, <2>1, WFMin
<1>4. x \in Nat /\ x # 0
  OBVIOUS
<1>5. x - 1 \in T
  BY <1>4
<1>6. <<x - 1, x>> \in R
  BY <1>4 DEF OpToRel
<1> QED BY <1>3, <1>5, <1>6

\* f is the function on 0 .. n with the given first value and step.
Recursive(f, n, first, next) ==
    /\ f = [t \in 0 .. n |-> f[t]]
    /\ f[0] = first
    /\ \A t \in 1 .. n : f[t] = next[t][f[t - 1]]

\* A function on 0 .. n that is defined by its first value and a step from each value
\* to the next exists.  Without it the definition, a CHOOSE, would say nothing.
LEMMA Recursion ==
    ASSUME NEW n \in Nat, NEW first, NEW next
    PROVE  \E f : Recursive(f, n, first, next)
<1> DEFINE S == {m \in Nat : \E f : Recursive(f, m, first, next)}
<1>1. 0 \in S
  <2> DEFINE g == [t \in 0 .. 0 |-> first]
  <2>1. Recursive(g, 0, first, next)
    BY DEF Recursive
  <2> HIDE DEF g
  <2> QED BY <2>1
<1>2. ASSUME NEW m \in Nat, m \in S
      PROVE  m + 1 \in S
  <2>1. PICK f : Recursive(f, m, first, next)
    BY <1>2
  <2> DEFINE g == [t \in 0 .. m + 1 |-> IF t = m + 1 THEN next[m + 1][f[m]] ELSE f[t]]
  <2>2. g = [t \in 0 .. m + 1 |-> g[t]]
    OBVIOUS
  <2>3. g[0] = first
    BY <2>1 DEF Recursive
  <2>4. ASSUME NEW t \in 1 .. m + 1 PROVE g[t] = next[t][g[t - 1]]
    <3>1. CASE t = m + 1
      <4>1. g[t] = next[m + 1][f[m]] /\ g[t - 1] = f[m]
        BY <3>1
      <4> QED BY <3>1, <4>1
    <3>2. CASE t \in 1 .. m
      <4>1. g[t] = f[t] /\ g[t - 1] = f[t - 1]
        BY <3>2
      <4> QED BY <2>1, <3>2, <4>1 DEF Recursive
    <3> QED BY <3>1, <3>2
  <2>5. Recursive(g, m + 1, first, next)
    BY <2>2, <2>3, <2>4 DEF Recursive
  <2> HIDE DEF g
  <2> QED BY <2>5
<1> HIDE DEF S
<1>3. Nat \subseteq S
  BY <1>1, <1>2, Induction
<1>4. n \in S
  BY <1>3
<1> QED BY <1>4 DEF S

-----------------------------------------------------------------------------
(* Sums *)

\* f[t] is the sum of the first t of n terms.
IsSum(f, n, term) ==
    /\ f \in [0 .. n -> Int]
    /\ f[0] = 0
    /\ \A t \in 0 .. n - 1 : f[t + 1] = f[t] + term[t]

\* A function that is defined as the modules define their sums is one.
LEMMA SumByDefinition ==
    ASSUME NEW n \in Nat, NEW term \in [0 .. n - 1 -> Int], NEW f,
           f = [t \in 0 .. n |-> IF t = 0 THEN 0 ELSE f[t - 1] + term[t - 1]]
    PROVE  IsSum(f, n, term)
<1>1. f[0] = 0
  OBVIOUS
<1>2. ASSUME NEW t \in 0 .. n - 1 PROVE f[t + 1] = f[t] + term[t]
  <2>1. t + 1 \in 0 .. n /\ t + 1 # 0 /\ (t + 1) - 1 = t
    OBVIOUS
  <2> QED BY <2>1
<1>3. \A t \in 0 .. n : f[t] \in Int
  <2> DEFINE S == {m \in Nat : m <= n => f[m] \in Int}
  <2>1. 0 \in S
    BY <1>1
  <2>2. ASSUME NEW m \in Nat, m \in S PROVE m + 1 \in S
    BY <1>2, <2>2
  <2> HIDE DEF S
  <2>3. Nat \subseteq S
    BY <2>1, <2>2, Induction
  <2>4. ASSUME NEW t \in 0 .. n PROVE f[t] \in Int
    <3>1. t \in S
      BY <2>3
    <3> QED BY <3>1 DEF S
  <2> QED BY <2>4
<1>4. f = [t \in 0 .. n |-> f[t]]
  OBVIOUS
<1> QED BY <1>1, <1>2, <1>3, <1>4 DEF IsSum

\* Any terms have sums.
LEMMA SumExists ==
    ASSUME NEW n \in Nat, NEW term \in [0 .. n - 1 -> Int]
    PROVE  \E f : f = [t \in 0 .. n |-> IF t = 0 THEN 0 ELSE f[t - 1] + term[t - 1]]
<1> DEFINE next == [t \in 1 .. n |-> [v \in Int |-> v + term[t - 1]]]
<1>1. \A t \in 1 .. n : \A v \in Int : next[t][v] = v + term[t - 1]
  OBVIOUS
<1> HIDE DEF next
<1>0. PICK f : Recursive(f, n, 0, next)
  BY Recursion
<1>2. /\ f = [t \in 0 .. n |-> f[t]]
      /\ f[0] = 0
      /\ \A t \in 1 .. n : f[t] = next[t][f[t - 1]]
  BY <1>0 DEF Recursive
<1>3. \A t \in 0 .. n : f[t] \in Int
  <2> DEFINE S == {m \in Nat : m <= n => f[m] \in Int}
  <2>1. 0 \in S
    BY <1>2
  <2>2. ASSUME NEW m \in Nat, m \in S PROVE m + 1 \in S
    <3> SUFFICES ASSUME m + 1 <= n PROVE f[m + 1] \in Int
      OBVIOUS
    <3>1. m + 1 \in 1 .. n /\ (m + 1) - 1 = m /\ f[m] \in Int
      BY <2>2
    <3>2. f[m + 1] = f[m] + term[m]
      BY <1>1, <1>2, <3>1
    <3>3. term[m] \in Int
      BY <3>1
    <3> QED BY <3>1, <3>2, <3>3
  <2> HIDE DEF S
  <2>3. Nat \subseteq S
    BY <2>1, <2>2, Induction
  <2> QED BY <2>3 DEF S
<1>4. ASSUME NEW t \in 0 .. n PROVE f[t] = IF t = 0 THEN 0 ELSE f[t - 1] + term[t - 1]
  <2>1. t # 0 => f[t - 1] \in Int /\ t \in 1 .. n
    BY <1>3
  <2> QED BY <1>1, <1>2, <2>1
<1>5. f = [t \in 0 .. n |-> IF t = 0 THEN 0 ELSE f[t - 1] + term[t - 1]]
  BY <1>2, <1>4
<1> QED BY <1>5

\* A sum of terms that are none above some bound is not above their number times it.
LEMMA SumBound ==
    ASSUME NEW n \in Nat, NEW bound \in Int, NEW term \in [0 .. n - 1 -> Int],
           \A t \in 0 .. n - 1 : term[t] <= bound,
           NEW f, IsSum(f, n, term)
    PROVE  f[n] <= n * bound
<1> DEFINE S == {m \in Nat : m <= n => f[m] <= m * bound}
<1>1. 0 \in S
  BY DEF IsSum
<1>2. ASSUME NEW m \in Nat, m \in S PROVE m + 1 \in S
  <2> SUFFICES ASSUME m + 1 <= n PROVE f[m + 1] <= (m + 1) * bound
    OBVIOUS
  <2>1. m \in 0 .. n - 1 /\ m \in 0 .. n /\ m <= n
    OBVIOUS
  <2>2. f[m + 1] = f[m] + term[m] /\ f[m] \in Int /\ f[m] <= m * bound
    BY <1>2, <2>1 DEF IsSum
  <2>3. (m + 1) * bound = m * bound + bound /\ m * bound \in Int
    OBVIOUS
  <2>4. term[m] \in Int /\ term[m] <= bound
    BY <2>1
  <2> QED BY <2>2, <2>3, <2>4
<1> HIDE DEF S
<1>3. Nat \subseteq S
  BY <1>1, <1>2, Induction
<1> QED BY <1>3 DEF S

\* The i-th of n terms is larger by d.
Raised(raised, term, n, i, d) ==
    \A t \in 0 .. n - 1 : raised[t] = IF t = i THEN term[t] + d ELSE term[t]

\* Raising one of the terms by some amount raises the sum by as much.
LEMMA SumRaised ==
    ASSUME NEW n \in Nat, NEW term \in [0 .. n - 1 -> Int], NEW i \in 0 .. n - 1,
           NEW d \in Int, NEW raised, Raised(raised, term, n, i, d),
           NEW f, IsSum(f, n, term),
           NEW g, IsSum(g, n, raised)
    PROVE  g[n] = f[n] + d
<1> DEFINE S == {m \in Nat : m <= n => g[m] = f[m] + (IF i < m THEN d ELSE 0)}
<1>1. 0 \in S
  BY DEF IsSum
<1>2. ASSUME NEW m \in Nat, m \in S PROVE m + 1 \in S
  <2> SUFFICES ASSUME m + 1 <= n
               PROVE  g[m + 1] = f[m + 1] + (IF i < m + 1 THEN d ELSE 0)
    OBVIOUS
  <2>1. m \in 0 .. n - 1 /\ m \in 0 .. n /\ m <= n
    OBVIOUS
  <2>2. /\ f[m + 1] = f[m] + term[m] /\ f[m] \in Int
        /\ g[m + 1] = g[m] + raised[m] /\ g[m] \in Int
        /\ g[m] = f[m] + (IF i < m THEN d ELSE 0)
    BY <1>2, <2>1 DEF IsSum
  <2>3. term[m] \in Int /\ raised[m] = IF m = i THEN term[m] + d ELSE term[m]
    BY <2>1 DEF Raised
  <2>4. CASE m < i
    BY <2>2, <2>3, <2>4
  <2>5. CASE m = i
    BY <2>2, <2>3, <2>5
  <2>6. CASE m > i
    BY <2>2, <2>3, <2>6
  <2> QED BY <2>4, <2>5, <2>6
<1> HIDE DEF S
<1>3. Nat \subseteq S
  BY <1>1, <1>2, Induction
<1> QED BY <1>3 DEF S

\* A sum of terms that are all 0 is 0.
LEMMA SumZero ==
    ASSUME NEW n \in Nat, NEW term \in [0 .. n - 1 -> Int],
           \A t \in 0 .. n - 1 : term[t] = 0,
           NEW f, IsSum(f, n, term)
    PROVE  f[n] = 0
<1> DEFINE S == {m \in Nat : m <= n => f[m] = 0}
<1>1. 0 \in S
  BY DEF IsSum
<1>2. ASSUME NEW m \in Nat, m \in S PROVE m + 1 \in S
  BY <1>2 DEF IsSum
<1> HIDE DEF S
<1>3. Nat \subseteq S
  BY <1>1, <1>2, Induction
<1> QED BY <1>3 DEF S

-----------------------------------------------------------------------------
(* Counting *)

\* A number that has whole runs before it is at the place that is left.
LEMMA PlaceInRun ==
    ASSUME NEW count \in Nat \ {0}, NEW round \in Nat, NEW place \in 0 .. count - 1
    PROVE  (round * count + place) % count = place
<1>1. round * count = count * round
  BY ProductNat
<1>2. (count * round + place) % count = place
  BY Remainder
<1> QED BY <1>1, <1>2

\* S has one number of each of the runs of c from lo to hi, exclusive.
InEachRun(S, c, d, lo, hi) == \A i : i \in S <=> \E k \in lo .. hi - 1 : i = k * c + d

\* There are as many numbers as runs.
LEMMA OneOfEachRun ==
    ASSUME NEW c \in Nat \ {0}, NEW d \in Nat, NEW lo \in Nat, NEW hi \in Nat, lo <= hi,
           NEW S, InEachRun(S, c, d, lo, hi)
    PROVE  IsFiniteSet(S) /\ Cardinality(S) = hi - lo
<1> DEFINE F == [k \in lo .. hi - 1 |-> k * c + d]
<1> USE DEF InEachRun
<1>1. F \in [lo .. hi - 1 -> S]
  OBVIOUS
<1>2. ASSUME NEW k \in lo .. hi - 1, NEW l \in lo .. hi - 1, F[k] = F[l]
      PROVE  k = l
  <2>1. k * c + d = l * c + d
    BY <1>2
  <2>2. InRun(c * k, c, k, 0) /\ InRun(c * k, c, l, 0)
    BY <2>1 DEF InRun
  <2> QED BY <2>2, SameRun
<1>3. ASSUME NEW i \in S
      PROVE  \E k \in lo .. hi - 1 : F[k] = i
  OBVIOUS
<1> HIDE DEF F
<1>4. F \in Bijection(lo .. hi - 1, S)
  BY <1>1, <1>2, <1>3, Fun_IsBij
<1>5. ExistsBijection(lo .. hi - 1, S)
  BY <1>4 DEF ExistsBijection
<1>6. IsFiniteSet(lo .. hi - 1) /\ Cardinality(lo .. hi - 1) = hi - lo
  <2>1. IsFiniteSet(lo .. hi - 1)
        /\ Cardinality(lo .. hi - 1) = IF lo > hi - 1 THEN 0 ELSE (hi - 1) - lo + 1
    BY FS_Interval
  <2> QED BY <2>1
<1>7. IsFiniteSet(S) /\ Cardinality(S) = hi - lo
  BY <1>5, <1>6, FS_Bijection
<1> QED BY <1>7

\* Of the numbers of n runs of c, as many as there are runs are at any one place.
LEMMA Repeats ==
    ASSUME NEW c \in Nat \ {0}, NEW n \in Nat, NEW d \in 0 .. c - 1
    PROVE  /\ IsFiniteSet({i \in 1 .. n * c : (i - 1) % c = d})
           /\ Cardinality({i \in 1 .. n * c : (i - 1) % c = d}) = n
<1> DEFINE S == {i \in 1 .. n * c : (i - 1) % c = d}
<1>1. PICK m \in Nat : m = n * c /\ m = c * n
  BY ProductNat
<1>2. ASSUME NEW k \in 0 .. n - 1
      PROVE  k * c + (d + 1) \in S
  <2>1. PICK p \in Nat : p = k * c /\ p = c * k
    BY ProductNat
  <2>2. c * n >= c * k + c
    BY LargerProduct
  <2>3. p + d + 1 \in 1 .. m
    BY <1>1, <2>1, <2>2
  <2>4. (c * k + d) % c = d
    BY Remainder
  <2>5. (p + d + 1) - 1 = p + d
    BY <2>1
  <2>6. ((p + d + 1) - 1) % c = d
    BY <2>1, <2>4, <2>5
  <2>7. p + d + 1 \in S
    BY <1>1, <2>3, <2>6
  <2>8. k * c + (d + 1) = p + d + 1
    BY <2>1
  <2> QED BY <2>7, <2>8
<1>3. ASSUME NEW i \in S
      PROVE  \E k \in 0 .. n - 1 : i = k * c + (d + 1)
  <2>1. i \in 1 .. m /\ (i - 1) % c = d
    BY <1>1
  <2>2. PICK j \in Nat : j = i - 1
    BY <2>1
  <2>3. PICK k \in Nat : j = c * k + d
    BY <2>1, <2>2, DivMod
  <2>4. ~(k >= n)
    <3> SUFFICES ASSUME k >= n PROVE FALSE
      OBVIOUS
    <3>1. n * c <= k * c /\ k * c = c * k /\ c * k \in Nat
      BY ProductMonotonic, ProductNat
    <3> QED BY <1>1, <2>1, <2>2, <2>3, <3>1
  <2>5. k \in 0 .. n - 1
    BY <2>4
  <2>6. c * k \in Nat /\ k * c = c * k
    BY ProductNat
  <2>7. i = k * c + (d + 1)
    BY <2>1, <2>2, <2>3, <2>6
  <2> QED BY <2>5, <2>7
<1>4. PICK e \in Nat : e = d + 1
  OBVIOUS
<1> HIDE DEF S
<1>5. InEachRun(S, c, e, 0, n)
  BY <1>2, <1>3, <1>4 DEF InEachRun
<1>6. 0 \in Nat /\ 0 <= n /\ n - 0 = n
  OBVIOUS
<1>7. IsFiniteSet(S) /\ Cardinality(S) = n
  BY <1>5, <1>6, OneOfEachRun
<1> QED BY <1>7 DEF S

\* Before the n runs are complete there are no more of them.
LEMMA AtMostRepeats ==
    ASSUME NEW c \in Nat \ {0}, NEW n \in Nat, NEW d \in 0 .. c - 1, NEW m \in Nat,
           m <= n * c
    PROVE  /\ IsFiniteSet({i \in 1 .. m : (i - 1) % c = d})
           /\ Cardinality({i \in 1 .. m : (i - 1) % c = d}) <= n
<1> DEFINE S == {i \in 1 .. m : (i - 1) % c = d}
           T == {i \in 1 .. n * c : (i - 1) % c = d}
<1>1. PICK l \in Nat : l = n * c
  BY ProductNat
<1>2. 1 .. m \subseteq 1 .. n * c
  BY <1>1
<1>3. S \subseteq T
  BY <1>2
<1>4. IsFiniteSet(T) /\ Cardinality(T) = n
  BY Repeats
<1> HIDE DEF S, T
<1>5. IsFiniteSet(S) /\ Cardinality(S) <= n
  BY <1>3, <1>4, FS_Subset
<1> QED BY <1>5 DEF S

\* Pairs with the same first part are as many as their second parts.
LEMMA Pairs ==
    ASSUME NEW t, NEW A, IsFiniteSet(A)
    PROVE  IsFiniteSet({t} \X A) /\ Cardinality({t} \X A) = Cardinality(A)
<1>1. IsFiniteSet({t}) /\ Cardinality({t}) = 1
  BY FS_Singleton
<1>2. IsFiniteSet({t} \X A) /\ Cardinality({t} \X A) = 1 * Cardinality(A)
  BY <1>1, FS_Product
<1>3. Cardinality(A) \in Nat
  BY FS_CardinalityType
<1> QED BY <1>2, <1>3
\* A multiple is divided without a rest.
LEMMA ExactQuotient ==
    ASSUME NEW n \in Nat \ {0}, NEW k \in Int PROVE (n * k) \div n = k
<1>1. PICK v \in Int : v = n * k
  OBVIOUS
<1>2. PICK j \in Int, s \in 0 .. n - 1 : j = v \div n /\ v = n * j + s
  BY Division
<1>3. InRun(v, n, j, s) /\ InRun(v, n, k, 0)
  BY <1>1, <1>2 DEF InRun
<1>4. j = k
  BY <1>3, SameRun
<1> QED BY <1>1, <1>2, <1>4

\* Numbers that are less than n apart have different rests.
LEMMA RestsDiffer ==
    ASSUME NEW n \in Nat \ {0}, NEW x \in Int, NEW y \in Int,
           x # y, x < y + n, y < x + n
    PROVE  x % n # y % n
<1>1. PICK j \in Int, r \in 0 .. n - 1 : r = x % n /\ x = n * j + r
  BY Division
<1>2. PICK k \in Int, s \in 0 .. n - 1 : s = y % n /\ y = n * k + s
  BY Division
<1>3. PICK a \in Int, b \in Int : a = n * j /\ b = n * k
  OBVIOUS
<1>4. j > k => a >= b + n
  BY <1>3, LargerProduct
<1>5. k > j => b >= a + n
  BY <1>3, LargerProduct
<1>6. j = k => a = b
  BY <1>3
<1>7. x = a + r /\ y = b + s
  BY <1>1, <1>2, <1>3
<1>8. r # s
  BY <1>4, <1>5, <1>6, <1>7
<1> QED BY <1>1, <1>2, <1>8

-----------------------------------------------------------------------------
(* Powers of two, and digits *)

\* P[k] is the k-th power of two, up to the n-th.
Doubles(P, n) ==
    /\ \A k \in 0 .. n : P[k] \in Nat \ {0}
    /\ P[0] = 1
    /\ \A k \in 1 .. n : P[k] = 2 * P[k - 1]

\* There is a function that is defined as the modules define their powers of two ...
LEMMA DoublesExist ==
    ASSUME NEW n \in Nat
    PROVE  \E P : P = [k \in 0 .. n |-> IF k = 0 THEN 1 ELSE 2 * P[k - 1]]
<1> DEFINE next == [k \in 1 .. n |-> [v \in Nat |-> 2 * v]]
<1>1. \A k \in 1 .. n : \A v \in Nat : next[k][v] = 2 * v
  OBVIOUS
<1> HIDE DEF next
<1>2. PICK f : Recursive(f, n, 1, next)
  BY Recursion
<1>3. /\ f = [k \in 0 .. n |-> f[k]]
      /\ f[0] = 1
      /\ \A k \in 1 .. n : f[k] = next[k][f[k - 1]]
  BY <1>2 DEF Recursive
<1> DEFINE S == {k \in Nat : k <= n => f[k] \in Nat}
<1>4. 0 \in S
  BY <1>3
<1>5. ASSUME NEW k \in Nat, k \in S PROVE k + 1 \in S
  <2> SUFFICES ASSUME k + 1 <= n PROVE f[k + 1] \in Nat
    OBVIOUS
  <2>1. k + 1 \in 1 .. n /\ (k + 1) - 1 = k /\ f[k] \in Nat
    BY <1>5
  <2>2. f[k + 1] = 2 * f[k]
    BY <1>1, <1>3, <2>1
  <2> QED BY <2>1, <2>2
<1> HIDE DEF S
<1>6. Nat \subseteq S
  BY <1>4, <1>5, Induction
<1>7. ASSUME NEW k \in 0 .. n PROVE f[k] = IF k = 0 THEN 1 ELSE 2 * f[k - 1]
  <2>1. CASE k # 0
    <3>1. k \in 1 .. n /\ k - 1 \in Nat /\ k - 1 <= n
      BY <2>1
    <3>2. k - 1 \in S
      BY <1>6, <3>1
    <3>3. f[k - 1] \in Nat
      BY <3>1, <3>2 DEF S
    <3> QED BY <1>1, <1>3, <2>1, <3>1, <3>3
  <2> QED BY <1>3, <2>1
<1>8. f = [k \in 0 .. n |-> IF k = 0 THEN 1 ELSE 2 * f[k - 1]]
  BY <1>3, <1>7
<1> QED BY <1>8

\* ... and its values are the powers.
LEMMA DoublesByDefinition ==
    ASSUME NEW n \in Nat, NEW P,
           P = [k \in 0 .. n |-> IF k = 0 THEN 1 ELSE 2 * P[k - 1]]
    PROVE  Doubles(P, n)
<1>1. P[0] = 1 /\ \A k \in 1 .. n : P[k] = 2 * P[k - 1]
  OBVIOUS
<1> DEFINE S == {k \in Nat : k <= n => P[k] \in Nat \ {0}}
<1>2. 0 \in S
  BY <1>1
<1>3. ASSUME NEW k \in Nat, k \in S PROVE k + 1 \in S
  <2> SUFFICES ASSUME k + 1 <= n PROVE P[k + 1] \in Nat \ {0}
    OBVIOUS
  <2>1. k + 1 \in 1 .. n /\ (k + 1) - 1 = k /\ P[k] \in Nat \ {0}
    BY <1>3
  <2>2. P[k + 1] = 2 * P[k]
    BY <1>1, <2>1
  <2> QED BY <2>1, <2>2
<1> HIDE DEF S
<1>4. Nat \subseteq S
  BY <1>2, <1>3, Induction
<1>5. ASSUME NEW k \in 0 .. n PROVE P[k] \in Nat \ {0}
  <2>1. k \in S
    BY <1>4
  <2> QED BY <2>1 DEF S
<1> QED BY <1>1, <1>5 DEF Doubles

\* The power of a sum is the product of the powers.
LEMMA PowerOfSum ==
    ASSUME NEW n \in Nat, NEW P, Doubles(P, n), NEW a \in Nat, NEW b \in Nat, a + b <= n
    PROVE  P[a + b] = P[a] * P[b]
<1> DEFINE S == {k \in Nat : a + k <= n => P[a + k] = P[a] * P[k]}
<1>1. P[a] \in Nat /\ P[0] = 1
  BY DEF Doubles
<1>2. 0 \in S
  BY <1>1
<1>3. ASSUME NEW k \in Nat, k \in S PROVE k + 1 \in S
  <2> SUFFICES ASSUME a + (k + 1) <= n PROVE P[a + (k + 1)] = P[a] * P[k + 1]
    OBVIOUS
  <2>1. /\ a + (k + 1) \in 1 .. n /\ (a + (k + 1)) - 1 = a + k
        /\ k + 1 \in 1 .. n /\ (k + 1) - 1 = k /\ k \in 0 .. n
    OBVIOUS
  <2>2. /\ P[a + (k + 1)] = 2 * P[a + k] /\ P[k + 1] = 2 * P[k]
        /\ P[k] \in Nat
    BY <2>1 DEF Doubles
  <2>3. P[a + k] = P[a] * P[k]
    BY <1>3, <2>1
  <2> HIDE DEF S
  <2>4. PICK x \in Nat, y \in Nat : x = P[a] /\ y = P[k]
    BY <1>1, <2>2
  <2>5. 2 * (x * y) = x * (2 * y)
    OBVIOUS
  <2> QED BY <2>2, <2>3, <2>4, <2>5
<1> HIDE DEF S
<1>4. Nat \subseteq S
  BY <1>2, <1>3, Induction
<1>5. b \in S
  BY <1>4
<1> QED BY <1>5 DEF S

\* The rest of a division by a product: the next digit, and the rest before it.
LEMMA NextDigit ==
    ASSUME NEW x \in Int, NEW p \in Nat \ {0}, NEW c \in Nat \ {0}
    PROVE  x % (p * c) = p * ((x \div p) % c) + (x % p)
<1>1. PICK q \in Int, r \in 0 .. p - 1 : q = x \div p /\ r = x % p /\ x = p * q + r
  BY Division
<1>2. PICK k \in Int, d \in 0 .. c - 1 : d = q % c /\ q = c * k + d
  BY Division
<1>3. PICK m \in Nat : m = p * c
  BY ProductNat
<1>4. m \in Nat \ {0}
  <2>1. 0 * c < p * c /\ 0 * c = 0
    BY ProductMonotonic
  <2> QED BY <1>3, <2>1
<1>5. p * d \in Nat /\ p * d + r <= m - 1
  <2>1. p * c >= p * d + p
    BY LargerProduct
  <2>2. p * d \in Nat
    BY ProductNat
  <2> QED BY <1>3, <2>1, <2>2
<1>6. x = m * k + (p * d + r)
  <2>1. p * (c * k + d) = (p * c) * k + p * d
    OBVIOUS
  <2>2. p * q = m * k + p * d
    BY <1>2, <1>3, <2>1
  <2>3. m * k \in Int
    BY <1>3
  <2> QED BY <1>1, <1>5, <2>2, <2>3
<1>7. p * d + r \in 0 .. m - 1
  BY <1>5
<1>8. (m * k + (p * d + r)) % m = p * d + r
  BY <1>4, <1>7, Remainder
<1> QED BY <1>1, <1>2, <1>3, <1>6, <1>8

\* The weights of m digits to the base c, and numbers with the same digits.
IsScale(P, m, c) ==
    /\ P[0] = 1
    /\ \A j \in 0 .. m : P[j] \in Nat \ {0}
    /\ \A j \in 0 .. m - 1 : P[j + 1] = P[j] * c

SameDigits(P, m, c, x, y) ==
    \A j \in 0 .. m - 1 : (x \div P[j]) % c = (y \div P[j]) % c

\* Numbers with the same first digits have the same rest.
LEMMA DigitsEqual ==
    ASSUME NEW m \in Nat, NEW c \in Nat \ {0}, NEW P, IsScale(P, m, c),
           NEW x \in Int, NEW y \in Int, SameDigits(P, m, c, x, y)
    PROVE  x % P[m] = y % P[m]
<1>0. /\ P[0] = 1
      /\ \A j \in 0 .. m : P[j] \in Nat \ {0}
      /\ \A j \in 0 .. m - 1 : P[j + 1] = P[j] * c
      /\ \A j \in 0 .. m - 1 : (x \div P[j]) % c = (y \div P[j]) % c
  BY DEF IsScale, SameDigits
<1> DEFINE S == {j \in Nat : j <= m => x % P[j] = y % P[j]}
<1>1. 0 \in S
  BY <1>0
<1>2. ASSUME NEW j \in Nat, j \in S PROVE j + 1 \in S
  <2> SUFFICES ASSUME j + 1 <= m PROVE x % P[j + 1] = y % P[j + 1]
    OBVIOUS
  <2>1. j \in 0 .. m /\ j \in 0 .. m - 1
    OBVIOUS
  <2>2. x % P[j] = y % P[j]
    BY <1>2, <2>1
  <2> HIDE DEF S
  <2>3. PICK p \in Nat \ {0} : p = P[j]
    BY <1>0, <2>1
  <2>4. P[j + 1] = p * c
    BY <1>0, <2>1, <2>3
  <2>5. (x \div p) % c = (y \div p) % c
    BY <1>0, <2>1, <2>3
  <2>6. /\ x % (p * c) = p * ((x \div p) % c) + (x % p)
        /\ y % (p * c) = p * ((y \div p) % c) + (y % p)
    BY NextDigit
  <2> QED BY <2>2, <2>3, <2>4, <2>5, <2>6
<1> HIDE DEF S
<1>3. Nat \subseteq S
  BY <1>1, <1>2, Induction
<1>4. m \in S
  BY <1>3
<1> QED BY <1>4 DEF S

\* If terms that are not negative sum to 0, each of them is 0.
LEMMA SumOfNothing ==
    ASSUME NEW n \in Nat, NEW term \in [0 .. n - 1 -> Nat],
           NEW f, IsSum(f, n, term), f[n] = 0
    PROVE  \A t \in 0 .. n - 1 : term[t] = 0
<1> DEFINE S == {m \in Nat : m <= n => f[n - m] = 0}
<1>1. 0 \in S
  OBVIOUS
<1>0. \A t \in 0 .. n : f[t] \in Nat
  <2> DEFINE R == {m \in Nat : m <= n => f[m] \in Nat}
  <2>1. 0 \in R
    BY DEF IsSum
  <2>2. ASSUME NEW m \in Nat, m \in R PROVE m + 1 \in R
    <3> SUFFICES ASSUME m + 1 <= n PROVE f[m + 1] \in Nat
      OBVIOUS
    <3>1. m \in 0 .. n - 1 /\ f[m] \in Nat
      BY <2>2
    <3>2. f[m + 1] = f[m] + term[m] /\ term[m] \in Nat
      BY <3>1 DEF IsSum
    <3> QED BY <3>1, <3>2
  <2> HIDE DEF R
  <2>3. Nat \subseteq R
    BY <2>1, <2>2, Induction
  <2>4. ASSUME NEW t \in 0 .. n PROVE f[t] \in Nat
    <3>1. t \in R
      BY <2>3
    <3> QED BY <3>1 DEF R
  <2> QED BY <2>4
<1>2. ASSUME NEW m \in Nat, m \in S PROVE m + 1 \in S
  <2> SUFFICES ASSUME m + 1 <= n PROVE f[n - (m + 1)] = 0
    OBVIOUS
  <2>1. PICK t \in 0 .. n - 1 : t = n - (m + 1) /\ t + 1 = n - m
    OBVIOUS
  <2>2. f[t + 1] = f[t] + term[t] /\ term[t] \in Nat
    BY DEF IsSum
  <2>3. f[t] \in Nat
    BY <1>0
  <2>4. f[t + 1] = 0
    BY <1>2, <2>1
  <2> QED BY <2>1, <2>2, <2>3, <2>4
<1> HIDE DEF S
<1>3. Nat \subseteq S
  BY <1>1, <1>2, Induction
<1>4. ASSUME NEW t \in 0 .. n - 1 PROVE term[t] = 0
  <2>1. f[t + 1] = f[t] + term[t] /\ term[t] \in Nat
    BY DEF IsSum
  <2>2. f[t] \in Nat
    BY <1>0
  <2>3. n - (t + 1) \in S /\ n - (n - (t + 1)) = t + 1 /\ n - (t + 1) <= n
    BY <1>3
  <2>4. f[t + 1] = 0
    BY <2>3 DEF S
  <2> QED BY <2>1, <2>2, <2>4
<1> QED BY <1>4

\* A sum of powers of two, each taken once at most, is below the next one.
LEMMA SumOfPowers ==
    ASSUME NEW n \in Nat, NEW P, Doubles(P, n), NEW term \in [0 .. n - 1 -> Nat],
           \A t \in 0 .. n - 1 : term[t] <= P[t],
           NEW f, IsSum(f, n, term)
    PROVE  f[n] \in 0 .. P[n] - 1
<1> DEFINE S == {m \in Nat : m <= n => f[m] \in 0 .. P[m] - 1}
<1>1. 0 \in S
  BY DEF IsSum, Doubles
<1>2. ASSUME NEW m \in Nat, m \in S PROVE m + 1 \in S
  <2> SUFFICES ASSUME m + 1 <= n PROVE f[m + 1] \in 0 .. P[m + 1] - 1
    OBVIOUS
  <2>1. m \in 0 .. n - 1 /\ m + 1 \in 1 .. n /\ (m + 1) - 1 = m /\ m \in 0 .. n
    OBVIOUS
  <2>2. f[m + 1] = f[m] + term[m] /\ term[m] \in Nat /\ term[m] <= P[m]
    BY <2>1 DEF IsSum
  <2>3. P[m + 1] = 2 * P[m] /\ P[m] \in Nat
    BY <2>1 DEF Doubles
  <2>4. f[m] \in 0 .. P[m] - 1
    BY <1>2, <2>1
  <2>5. PICK u \in Nat : u = P[m]
    BY <2>3
  <2>6. PICK v \in 0 .. u - 1 : v = f[m]
    BY <2>4, <2>5
  <2>7. PICK w \in 0 .. u : w = term[m]
    BY <2>2, <2>5
  <2>8. v + w \in 0 .. 2 * u - 1
    OBVIOUS
  <2> HIDE DEF S
  <2> QED BY <2>2, <2>3, <2>5, <2>6, <2>7, <2>8
<1> HIDE DEF S
<1>3. Nat \subseteq S
  BY <1>1, <1>2, Induction
<1>4. n \in S
  BY <1>3
<1> QED BY <1>4 DEF S
=============================================================================
