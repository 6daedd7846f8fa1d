-------------------------- MODULE TokenRangesProofs --------------------------
(***************************************************************************)
(* Proofs about the scan workload, for integers of any width, any number of *)
(* ranges and any concurrency: the ranges adjoin from the first token to    *)
(* the last in spite of the wrapping arithmetic, and no two goroutines read *)
(* the same token.                                                          *)
(***************************************************************************)
EXTENDS TokenRanges, NumberLemmas, SequenceTheorems, TLAPS

-----------------------------------------------------------------------------
(* Arithmetic *)

\* The remainder of a number below the divisor, and of one a divisor further on.
LEMMA SmallMod ==
    ASSUME NEW n \in Nat \ {0}, NEW r \in 0 .. n - 1
    PROVE  r % n = r /\ (r + n) % n = r /\ (r - n) % n = r
OBVIOUS

\* A token is what it is as an int64.
LEMMA Int64Exact ==
    ASSUME NEW x \in Tokens PROVE Int64(x) = x
<1>1. HalfTokens \in Nat /\ HalfTokens > 1
  BY TokenAssumption
<1>2. x + HalfTokens \in 0 .. TokenCount - 1 /\ TokenCount \in Nat \ {0}
  BY <1>1 DEF Tokens, minToken, maxToken, TokenCount
<1>3. (x + HalfTokens) % TokenCount = x + HalfTokens
  BY <1>2, SmallMod
<1> QED BY <1>1, <1>3 DEF Int64, Tokens, minToken, maxToken

\* A sum with minToken is right although its other term may have wrapped.
LEMMA Int64Wraps ==
    ASSUME NEW k \in 0 .. TokenCount - 1
    PROVE  Int64(minToken + Int64(k)) = minToken + k
<1>1. HalfTokens \in Nat /\ HalfTokens > 1
  BY TokenAssumption
<1>2. k \in Nat /\ TokenCount \in Nat \ {0} /\ k < TokenCount
      /\ TokenCount = 2 * HalfTokens
  BY <1>1 DEF TokenCount
<1>3. CASE k < HalfTokens
  <2>1. k \in Tokens /\ minToken + k \in Tokens
    BY <1>1, <1>2, <1>3 DEF Tokens, minToken, maxToken
  <2> QED BY <2>1, Int64Exact
<1>4. CASE k >= HalfTokens
  <2>1. k - HalfTokens \in 0 .. TokenCount - 1
    BY <1>1, <1>2, <1>4
  <2>2. (k - HalfTokens + TokenCount) % TokenCount = k - HalfTokens
    BY <1>2, <2>1, SmallMod
  <2>3. k - HalfTokens + TokenCount = k + HalfTokens
    BY <1>1, <1>2
  <2>4. Int64(k) = k - TokenCount
    BY <1>1, <1>2, <2>2, <2>3 DEF Int64
  <2>5. (k - TokenCount) % TokenCount = k
    BY <1>2, SmallMod
  <2>6. minToken + Int64(k) + HalfTokens = k - TokenCount
    BY <1>1, <1>2, <2>4 DEF minToken
  <2>7. (minToken + Int64(k) + HalfTokens) % TokenCount = k
    BY <2>5, <2>6
  <2> QED BY <1>1, <1>2, <2>7 DEF Int64, minToken
<1> QED BY <1>1, <1>2, <1>3, <1>4

-----------------------------------------------------------------------------
(* The ranges *)

\* With two ranges or more their size fits into an int64, and so many of them do
\* not exceed the tokens.
LEMMA SizeFits ==
    ASSUME NEW n \in 2 .. HalfTokens - 1
    PROVE  /\ TokensPerRange(n) \in Nat \ {0}
           /\ n * TokensPerRange(n) <= TokenCount - 1
<1> DEFINE q == (TokenCount - 1) \div n
<1>1. HalfTokens \in Nat /\ HalfTokens > 1 /\ n \in Nat \ {0} /\ n >= 2
      /\ n < HalfTokens
  BY TokenAssumption
<1>2. TokenCount - 1 \in Nat /\ TokenCount = 2 * HalfTokens
  BY <1>1 DEF TokenCount
<1>3. /\ q \in Nat /\ (TokenCount - 1) % n \in 0 .. n - 1
      /\ TokenCount - 1 = n * q + ((TokenCount - 1) % n)
  BY <1>1, <1>2, DivMod
<1> HIDE DEF q
<1>4. PICK r \in 0 .. n - 1 : TokenCount - 1 = n * q + r
  BY <1>3
<1>5. n * q \in Nat /\ 2 * q <= n * q
  BY <1>1, <1>3, ProductMonotonic
<1>6. n * q <= TokenCount - 1
  BY <1>1, <1>2, <1>4, <1>5
<1>7. q <= HalfTokens - 1
  BY <1>1, <1>2, <1>3, <1>5, <1>6
<1>8. q # 0
  <2>1. ASSUME q = 0 PROVE FALSE
    <3>1. n * q = 0
      BY <1>1, <2>1
    <3> QED BY <1>1, <1>2, <1>4, <3>1
  <2> QED BY <2>1
<1>9. q \in Tokens
  BY <1>1, <1>3, <1>7 DEF Tokens, minToken, maxToken
<1>10. TokensPerRange(n) = q
  BY <1>9, Int64Exact DEF TokensPerRange, q
<1> QED BY <1>3, <1>6, <1>8, <1>10

\* The first token, without a wrap.
LEMMA FirstTokenExact ==
    ASSUME NEW n \in 2 .. HalfTokens - 1, NEW k \in 0 .. n
    PROVE  /\ k * TokensPerRange(n) \in 0 .. TokenCount - 1
           /\ FirstToken(k, n) = minToken + k * TokensPerRange(n)
           /\ FirstToken(k, n) \in Tokens
<1>1. HalfTokens \in Nat /\ n \in Nat /\ k \in Nat /\ k <= n
  BY TokenAssumption
<1>2. TokensPerRange(n) \in Nat /\ n * TokensPerRange(n) <= TokenCount - 1
  BY SizeFits
<1>3. k * TokensPerRange(n) \in 0 .. TokenCount - 1
  <2>1. /\ k * TokensPerRange(n) \in Nat /\ n * TokensPerRange(n) \in Nat
        /\ k * TokensPerRange(n) <= n * TokensPerRange(n)
    BY <1>1, <1>2, ProductMonotonic
  <2> QED BY <1>1, <1>2, <2>1 DEF TokenCount
<1>4. FirstToken(k, n) = minToken + k * TokensPerRange(n)
  BY <1>3, Int64Wraps DEF FirstToken
<1> QED BY <1>1, <1>3, <1>4 DEF Tokens, minToken, maxToken, TokenCount

\* The last token of every range but the last, without a wrap.
LEMMA LastTokenExact ==
    ASSUME NEW n \in 2 .. HalfTokens - 1, NEW k \in 0 .. n - 1, k + 1 # n
    PROVE  /\ LastToken(k, n) = FirstToken(k + 1, n) - 1
           /\ LastToken(k, n) \in Tokens
           /\ FirstToken(k, n) <= LastToken(k, n)
<1> DEFINE q == TokensPerRange(n)
<1>1. HalfTokens \in Nat /\ n \in Nat /\ k \in 0 .. n /\ k + 1 \in 0 .. n /\ k \in Nat
  BY TokenAssumption
<1>2. q \in Nat \ {0}
  BY SizeFits
<1>3. /\ FirstToken(k, n) = minToken + k * q /\ FirstToken(k, n) \in Tokens
      /\ FirstToken(k + 1, n) = minToken + (k + 1) * q /\ FirstToken(k + 1, n) \in Tokens
  BY <1>1, FirstTokenExact
<1> HIDE DEF q
<1>4. (k + 1) * q = k * q + q /\ k * q \in Nat
  BY <1>1, <1>2
<1>5. FirstToken(k + 1, n) = FirstToken(k, n) + q
  BY <1>1, <1>2, <1>3, <1>4 DEF minToken
<1>6. FirstToken(k, n) + q - 1 \in Tokens
  BY <1>1, <1>2, <1>3, <1>5 DEF Tokens, minToken, maxToken
<1>7. LastToken(k, n) = FirstToken(k, n) + q - 1
  BY <1>6, Int64Exact DEF LastToken, q
<1>8. FirstToken(k, n) \in Int
  BY <1>1, <1>3 DEF Tokens, minToken, maxToken
<1> QED BY <1>2, <1>5, <1>6, <1>7, <1>8

\* A range consists of tokens and is not turned round.
LEMMA RangeForward ==
    ASSUME NEW n \in 1 .. HalfTokens - 1, NEW k \in 0 .. n - 1
    PROVE  /\ TokenRange(k, n) \in [Start : Tokens, End : Tokens]
           /\ TokenRange(k, n).Start <= TokenRange(k, n).End
<1>1. HalfTokens \in Nat /\ HalfTokens > 1
  BY TokenAssumption
<1>2. minToken \in Tokens /\ maxToken \in Tokens /\ minToken <= maxToken
  BY <1>1 DEF Tokens, minToken, maxToken
<1>3. CASE n = 1
  BY <1>2, <1>3 DEF TokenRange
<1>4. CASE n # 1
  <2>1. n \in 2 .. HalfTokens - 1 /\ k \in 0 .. n
    BY <1>1, <1>4
  <2>2. FirstToken(k, n) \in Tokens
    BY <2>1, FirstTokenExact
  <2>3. LastToken(k, n) \in Tokens /\ FirstToken(k, n) <= LastToken(k, n)
    <3>1. CASE k + 1 = n
      <4>1. LastToken(k, n) = maxToken
        BY <3>1 DEF LastToken
      <4>2. FirstToken(k, n) <= maxToken
        BY <1>1, <2>2 DEF Tokens, minToken, maxToken
      <4> QED BY <1>2, <4>1, <4>2
    <3>2. CASE k + 1 # n
      BY <2>1, <3>2, LastTokenExact
    <3> QED BY <3>1, <3>2
  <2> QED BY <1>4, <2>2, <2>3 DEF TokenRange
<1> QED BY <1>3, <1>4

\* The ranges of a scan begin with the first token, end with the last and adjoin: no
\* token is left out and none is read twice (workloads.go:322-351).
THEOREM RangesAdjoin ==
    ASSUME NEW n \in 1 .. HalfTokens - 1
    PROVE  /\ TokenRange(0, n).Start = minToken
           /\ TokenRange(n - 1, n).End = maxToken
           /\ \A k \in 0 .. n - 2 : TokenRange(k + 1, n).Start = TokenRange(k, n).End + 1
<1>1. HalfTokens \in Nat /\ HalfTokens > 1 /\ n \in Nat
  BY TokenAssumption
<1>2. CASE n = 1
  BY <1>2 DEF TokenRange
<1>3. CASE n # 1
  <2>1. n \in 2 .. HalfTokens - 1 /\ 0 \in 0 .. n
    BY <1>1, <1>3
  <2>2. TokenRange(0, n).Start = minToken
    <3>1. FirstToken(0, n) = minToken + 0 * TokensPerRange(n) /\ TokensPerRange(n) \in Nat
      BY <2>1, FirstTokenExact, SizeFits
    <3>2. FirstToken(0, n) = minToken
      BY <1>1, <3>1 DEF minToken
    <3> QED BY <1>3, <3>2 DEF TokenRange
  <2>3. TokenRange(n - 1, n).End = maxToken
    BY <1>1, <1>3 DEF TokenRange, LastToken
  <2>4. ASSUME NEW k \in 0 .. n - 2
        PROVE  TokenRange(k + 1, n).Start = TokenRange(k, n).End + 1
    <3>1. k \in 0 .. n - 1 /\ k + 1 # n /\ k + 1 \in 0 .. n
      BY <1>1
    <3>2. LastToken(k, n) = FirstToken(k + 1, n) - 1 /\ FirstToken(k + 1, n) \in Tokens
      BY <2>1, <3>1, LastTokenExact, FirstTokenExact
    <3>3. FirstToken(k + 1, n) \in Int
      BY <1>1, <3>2 DEF Tokens, minToken, maxToken
    <3> QED BY <1>3, <3>2, <3>3 DEF TokenRange
  <2> QED BY <2>2, <2>3, <2>4
<1> QED BY <1>2, <1>3

\* An earlier range lies before a later one.
LEMMA RangesOrdered ==
    ASSUME NEW n \in 1 .. HalfTokens - 1, NEW j \in 0 .. n - 1, NEW k \in 0 .. n - 1,
           j < k
    PROVE  TokenRange(j, n).End < TokenRange(k, n).Start
<1>1. HalfTokens \in Nat /\ HalfTokens > 1 /\ j \in Nat /\ k \in Nat /\ n \in Nat
  BY TokenAssumption
<1>2. /\ n # 1 /\ n \in 2 .. HalfTokens - 1 /\ k \in 0 .. n /\ j + 1 \in 0 .. n
      /\ j + 1 # n /\ j + 1 <= k /\ j + 1 \in Nat
  BY <1>1
<1>3. LastToken(j, n) = FirstToken(j + 1, n) - 1
  BY <1>2, LastTokenExact
<1> DEFINE q == TokensPerRange(n)
<1>4. /\ FirstToken(k, n) = minToken + k * q
      /\ FirstToken(j + 1, n) = minToken + (j + 1) * q
  BY <1>2, FirstTokenExact
<1>5. q \in Nat
  BY <1>2, SizeFits
<1> HIDE DEF q
<1>6. (j + 1) * q \in Nat /\ k * q \in Nat /\ (j + 1) * q <= k * q
  BY <1>1, <1>2, <1>5, ProductMonotonic
<1>7. LastToken(j, n) < FirstToken(k, n)
  BY <1>1, <1>3, <1>4, <1>6 DEF minToken
<1> QED BY <1>2, <1>7 DEF TokenRange

\* Every token is in a range and in no other.
LEMMA TokenHasRange ==
    ASSUME NEW n \in 1 .. HalfTokens - 1, NEW token \in Tokens
    PROVE  \E k \in 0 .. n - 1 :
              /\ TokenRange(k, n).Start <= token /\ token <= TokenRange(k, n).End
              /\ \A j \in 0 .. n - 1 :
                    j # k => ~(TokenRange(j, n).Start <= token
                               /\ token <= TokenRange(j, n).End)
<1>1. /\ HalfTokens \in Nat /\ HalfTokens > 1 /\ n \in Nat \ {0} /\ token \in Int
      /\ minToken \in Int /\ maxToken \in Int /\ minToken <= token /\ token <= maxToken
      /\ Tokens \subseteq Int
  BY TokenAssumption DEF Tokens, minToken, maxToken
<1>2. PICK k \in 0 .. n - 1 :
         TokenRange(k, n).Start <= token /\ token <= TokenRange(k, n).End
  <2>1. CASE n = 1
    BY <1>1, <2>1 DEF TokenRange
  <2>2. CASE n # 1
    <3>1. n \in 2 .. HalfTokens - 1
      BY <1>1, <2>2
    <3>2. PICK q \in Nat \ {0} : q = TokensPerRange(n)
      BY <3>1, SizeFits
    <3>3. PICK x \in Nat : token = minToken + x
      <4>1. token - minToken \in Nat /\ token = minToken + (token - minToken)
        BY <1>1
      <4> QED BY <4>1
    <3>4. PICK j \in Nat, r \in 0 .. q - 1 : x = q * j + r
      BY Split
    <3>5. PICK m \in Nat : m = q * j /\ m = j * q
      BY <3>2, ProductNat
    <3>6. CASE j < n - 1
      <4>1. j \in 0 .. n - 1 /\ j \in 0 .. n /\ j + 1 \in 0 .. n /\ j + 1 # n
        BY <1>1, <3>6
      <4>2. FirstToken(j, n) = minToken + m
        BY <3>1, <3>2, <3>5, <4>1, FirstTokenExact
      <4>3. (j + 1) * q = m + q
        BY <3>2, <3>5
      <4>4. FirstToken(j + 1, n) = minToken + (m + q)
        BY <3>1, <3>2, <4>1, <4>3, FirstTokenExact
      <4>5. LastToken(j, n) = minToken + (m + q) - 1
        BY <1>1, <3>1, <4>1, <4>4, LastTokenExact
      <4>6. x = m + r
        BY <3>4, <3>5
      <4>7. FirstToken(j, n) <= token /\ token <= LastToken(j, n)
        BY <1>1, <3>2, <3>3, <4>2, <4>5, <4>6
      <4> QED BY <2>2, <4>1, <4>7 DEF TokenRange
    <3>7. CASE ~(j < n - 1)
      <4>1. n - 1 \in 0 .. n - 1 /\ n - 1 \in 0 .. n /\ n - 1 \in Nat /\ n - 1 <= j
            /\ (n - 1) + 1 = n
        BY <1>1, <3>7
      <4>2. PICK l \in Nat : l = (n - 1) * q /\ l <= m
        BY <3>2, <3>5, <4>1, ProductMonotonic
      <4>3. FirstToken(n - 1, n) = minToken + l
        BY <3>1, <3>2, <4>1, <4>2, FirstTokenExact
      <4>4. LastToken(n - 1, n) = maxToken
        BY <4>1 DEF LastToken
      <4>5. x = m + r
        BY <3>4, <3>5
      <4>6. FirstToken(n - 1, n) <= token /\ token <= LastToken(n - 1, n)
        BY <1>1, <3>2, <3>3, <4>2, <4>3, <4>4, <4>5
      <4> QED BY <2>2, <4>1, <4>6 DEF TokenRange
    <3> QED BY <3>6, <3>7
  <2> QED BY <2>1, <2>2
<1>3. ASSUME NEW j \in 0 .. n - 1, j # k,
             TokenRange(j, n).Start <= token, token <= TokenRange(j, n).End
      PROVE  FALSE
  <2>1. /\ TokenRange(j, n).Start \in Int /\ TokenRange(j, n).End \in Int
        /\ TokenRange(k, n).Start \in Int /\ TokenRange(k, n).End \in Int
    BY <1>1, RangeForward
  <2>2. CASE j < k
    <3>1. TokenRange(j, n).End < TokenRange(k, n).Start
      BY <2>2, RangesOrdered
    <3> QED BY <1>1, <1>2, <1>3, <2>1, <3>1
  <2>3. CASE k < j
    <3>1. TokenRange(k, n).End < TokenRange(j, n).Start
      BY <2>3, RangesOrdered
    <3> QED BY <1>1, <1>2, <1>3, <2>1, <3>1
  <2> QED BY <1>1, <1>3, <2>2, <2>3
<1> QED BY <1>2, <1>3

-----------------------------------------------------------------------------
(* The goroutines *)

\* What main and Init choose.
FlagsOK ==
    /\ rangeCount \in 1 .. HalfTokens - 1
    /\ concurrency \in 1 .. rangeCount
    /\ iterations \in Nat \ {0}

\* Where the ranges of a goroutine begin and end.
LEMMA PartsAre ==
    ASSUME FlagsOK, NEW t \in Threads
    PROVE  /\ RangesPerThread \in Nat \ {0}
           /\ concurrency * RangesPerThread <= rangeCount
           /\ RangeOffset(t) = t * RangesPerThread
           /\ RangeEnd(t) = IF t + 1 = concurrency THEN rangeCount
                                                  ELSE (t + 1) * RangesPerThread
<1> DEFINE q == rangeCount \div concurrency
<1>1. /\ HalfTokens \in Nat /\ rangeCount \in Nat /\ concurrency \in Nat \ {0}
      /\ concurrency <= rangeCount /\ t \in Nat /\ t < concurrency
  BY TokenAssumption DEF FlagsOK, Threads
<1>2. /\ q \in Nat /\ rangeCount % concurrency \in 0 .. concurrency - 1
      /\ rangeCount = concurrency * q + (rangeCount % concurrency)
  BY <1>1, DivMod
<1>3. RangesPerThread = q
  BY DEF RangesPerThread
<1> HIDE DEF q
<1>4. q # 0
  <2>1. ASSUME q = 0 PROVE FALSE
    <3>1. concurrency * q = 0
      BY <1>1, <2>1
    <3> QED BY <1>1, <1>2, <3>1
  <2> QED BY <2>1
<1>5. t * q \in Nat /\ concurrency * q \in Nat /\ (t + 1) * q = t * q + q
  BY <1>1, <1>2, ProductNat
<1>6. concurrency * q <= rangeCount
  BY <1>1, <1>2, <1>5
<1>7. RangeOffset(t) = t * q
  BY <1>1, <1>2, <1>3 DEF RangeOffset
<1>8. RangeEnd(t) = IF t + 1 = concurrency THEN rangeCount ELSE (t + 1) * q
  BY <1>1, <1>2, <1>3, <1>5, <1>7 DEF RangeEnd, ThisCount
<1> QED BY <1>2, <1>3, <1>4, <1>6, <1>7, <1>8

\* The ranges of a goroutine, and one of them at least; they lie behind those of
\* the goroutines before it.
LEMMA OwnRanges ==
    ASSUME FlagsOK, NEW t \in Threads
    PROVE  /\ RangeOffset(t) \in Nat /\ RangeEnd(t) \in Nat
           /\ RangeOffset(t) < RangeEnd(t) /\ RangeEnd(t) <= rangeCount
           /\ \A u \in Threads : t < u => RangeEnd(t) <= RangeOffset(u)
<1>1. /\ rangeCount \in Nat /\ concurrency \in Nat \ {0}
      /\ t \in Nat /\ t < concurrency
  BY TokenAssumption DEF FlagsOK, Threads
<1>2. PICK q \in Nat \ {0} : q = RangesPerThread /\ concurrency * q <= rangeCount
  BY PartsAre
<1>3. RangeOffset(t) = t * q
  BY <1>2, PartsAre
<1>4. RangeEnd(t) = IF t + 1 = concurrency THEN rangeCount ELSE (t + 1) * q
  BY <1>2, PartsAre
<1>5. /\ t * q \in Nat /\ (t + 1) * q \in Nat /\ concurrency * q \in Nat
      /\ (t + 1) * q <= concurrency * q
  BY <1>1, <1>2, ProductMonotonic
<1>6. (t + 1) * q = t * q + q
  BY <1>1, <1>2
<1>7. ASSUME NEW u \in Threads, t < u PROVE RangeEnd(t) <= RangeOffset(u)
  <2>1. u \in Nat /\ t + 1 <= u /\ t + 1 # concurrency
    BY <1>1, <1>7 DEF Threads
  <2>2. RangeOffset(u) = u * q
    BY <1>2, PartsAre
  <2>3. (t + 1) * q <= u * q
    BY <1>1, <1>2, <2>1, ProductMonotonic
  <2> QED BY <1>4, <2>1, <2>2, <2>3
<1>8. RangeEnd(t) \in Nat /\ RangeEnd(t) <= rangeCount /\ RangeOffset(t) < RangeEnd(t)
  BY <1>1, <1>2, <1>3, <1>4, <1>5, <1>6
<1> QED BY <1>3, <1>5, <1>7, <1>8

\* Every range is one of a goroutine's.
LEMMA RangeHasOwner ==
    ASSUME FlagsOK, NEW k \in 0 .. rangeCount - 1
    PROVE  \E t \in Threads : k \in RangeOffset(t) .. RangeEnd(t) - 1
<1>1. /\ rangeCount \in Nat /\ concurrency \in Nat \ {0} /\ k \in Nat
      /\ concurrency - 1 \in Threads
  BY TokenAssumption DEF FlagsOK, Threads
<1>2. PICK q \in Nat \ {0} : q = RangesPerThread
  BY <1>1, PartsAre
<1>3. PICK j \in Nat, r \in 0 .. q - 1 : k = q * j + r
  BY <1>1, Split
<1>4. PICK m \in Nat : m = q * j /\ m = j * q
  BY <1>2, ProductNat
<1>5. CASE j < concurrency - 1
  <2>1. j \in Threads /\ j + 1 # concurrency
    BY <1>1, <1>5 DEF Threads
  <2>2. RangeOffset(j) = m /\ RangeEnd(j) = (j + 1) * q
    BY <1>2, <1>4, <2>1, PartsAre
  <2>3. (j + 1) * q = m + q
    BY <1>2, <1>4
  <2>4. k \in m .. (m + q) - 1
    BY <1>1, <1>2, <1>3, <1>4
  <2> QED BY <2>1, <2>2, <2>3, <2>4
<1>6. CASE ~(j < concurrency - 1)
  <2> DEFINE t == concurrency - 1
  <2>1. t \in Threads /\ t \in Nat /\ t <= j /\ t + 1 = concurrency
    BY <1>1, <1>6
  <2> HIDE DEF t
  <2>2. RangeOffset(t) = t * q /\ RangeEnd(t) = rangeCount
    BY <1>2, <2>1, PartsAre
  <2>3. PICK l \in Nat : l = t * q /\ l <= m
    BY <1>2, <1>4, <2>1, ProductMonotonic
  <2>4. k \in l .. rangeCount - 1
    BY <1>1, <1>2, <1>3, <1>4, <2>3
  <2> QED BY <2>1, <2>2, <2>3, <2>4
<1> QED BY <1>5, <1>6

\* What a goroutine has taken are ranges of its own.
TakenOwn ==
    \A t \in Threads : \A i \in 1 .. Len(taken[t]) :
        \E k \in RangeOffset(t) .. RangeEnd(t) - 1 :
            taken[t][i] = TokenRange(k, rangeCount)

IInv == FlagsOK /\ TypeOK /\ TakenOwn

\* Unchanged flags change none of what is computed from them.
LEMMA FlagsStay ==
    UNCHANGED flags =>
        /\ concurrency' = concurrency /\ rangeCount' = rangeCount
        /\ Threads' = Threads /\ (FlagsOK' <=> FlagsOK)
        /\ \A t \in Threads : RangeOffset(t)' = RangeOffset(t)
                              /\ RangeEnd(t)' = RangeEnd(t)
BY DEF flags, Threads, FlagsOK, RangeOffset, RangeEnd, ThisCount, RangesPerThread

\* The goroutines begin with their first range.
LEMMA Begins == Init => IInv
<1> SUFFICES ASSUME Init PROVE IInv
  OBVIOUS
<1>1. FlagsOK
  <2>1. rangeCount \in 1 .. HalfTokens - 1 /\ iterations \in Nat \ {0}
    BY TokenAssumption DEF Init
  <2>2. PICK c \in ConcurrencyFlags :
           concurrency = IF c > rangeCount THEN rangeCount ELSE c
    BY DEF Init
  <2>3. c \in Nat \ {0} /\ HalfTokens \in Nat
    BY TokenAssumption
  <2> QED BY <2>1, <2>2, <2>3 DEF FlagsOK
<1>2. TypeOK
  BY <1>1, OwnRanges DEF Init, TypeOK
<1>3. TakenOwn
  BY DEF Init, TakenOwn
<1> QED BY <1>1, <1>2, <1>3 DEF IInv

\* The range an operation takes is one of the goroutine's own, and the ranges
\* taken before stay.
LEMMA OperateTakes ==
    ASSUME IInv, NEW t \in Threads, Operate(t)
    PROVE  \E k \in RangeOffset(t) .. RangeEnd(t) - 1 :
              /\ nextRange' = [nextRange EXCEPT ![t] = k + 1]
              /\ taken' = [taken EXCEPT ![t] = Append(taken[t], TokenRange(k, rangeCount))]
<1>1. /\ RangeOffset(t) \in Nat /\ RangeEnd(t) \in Nat /\ RangeOffset(t) < RangeEnd(t)
  BY OwnRanges DEF IInv
<1>2. nextRange[t] \in RangeOffset(t) .. RangeEnd(t)
  BY DEF IInv, TypeOK
<1>3. CASE WorkloadDone(t)
  <2>1. RangeOffset(t) \in RangeOffset(t) .. RangeEnd(t) - 1
    BY <1>1
  <2> QED BY <1>3, <2>1 DEF Operate
<1>4. CASE ~WorkloadDone(t)
  <2>1. nextRange[t] \in RangeOffset(t) .. RangeEnd(t) - 1
    BY <1>1, <1>2, <1>4 DEF WorkloadDone
  <2> QED BY <1>4, <2>1 DEF Operate
<1> QED BY <1>3, <1>4

\* Every step keeps the goroutines among their own ranges.
LEMMA Step == IInv /\ [Next]_vars => IInv'
<1> SUFFICES ASSUME IInv, [Next]_vars PROVE IInv'
  OBVIOUS
<1>1. ASSUME NEW t \in Threads, Finish(t) PROVE IInv'
  <2>1. UNCHANGED flags /\ nextRange' = nextRange /\ iteration' = iteration
        /\ taken' = taken /\ done' = [done EXCEPT ![t] = TRUE]
    BY <1>1 DEF Finish
  <2>2. TypeOK'
    BY <2>1, FlagsStay DEF IInv, TypeOK
  <2>3. TakenOwn'
    BY <2>1, FlagsStay DEF IInv, TakenOwn
  <2> QED BY <2>1, <2>2, <2>3, FlagsStay DEF IInv
<1>2. ASSUME NEW t \in Threads, Operate(t) PROVE IInv'
  <2>1. PICK k \in RangeOffset(t) .. RangeEnd(t) - 1 :
           /\ nextRange' = [nextRange EXCEPT ![t] = k + 1]
           /\ taken' = [taken EXCEPT ![t] = Append(taken[t], TokenRange(k, rangeCount))]
    BY <1>2, OperateTakes
  <2>2. UNCHANGED flags /\ done' = done
        /\ iteration' = [iteration EXCEPT ![t] = IF WorkloadDone(t) THEN @ + 1 ELSE @]
    BY <1>2 DEF Operate
  <2>3. /\ RangeOffset(t) \in Nat /\ RangeEnd(t) \in Nat /\ RangeEnd(t) <= rangeCount
        /\ rangeCount \in 1 .. HalfTokens - 1 /\ HalfTokens \in Nat
    BY OwnRanges, TokenAssumption DEF IInv, FlagsOK
  <2>4. k \in Nat /\ k \in 0 .. rangeCount - 1
        /\ k + 1 \in RangeOffset(t) .. RangeEnd(t)
    BY <2>3
  <2>5. TokenRange(k, rangeCount) \in [Start : Tokens, End : Tokens]
    BY <2>3, <2>4, RangeForward
  <2>6. TypeOK'
    <3>1. nextRange' \in [Threads -> Nat]
      BY <2>1, <2>4 DEF IInv, TypeOK
    <3>2. \A u \in Threads : nextRange'[u] \in RangeOffset(u) .. RangeEnd(u)
      BY <2>1, <2>4 DEF IInv, TypeOK
    <3>3. iteration' \in [Threads -> Nat]
      BY <2>2 DEF IInv, TypeOK
    <3>4. Append(taken[t], TokenRange(k, rangeCount))
             \in Seq([Start : Tokens, End : Tokens])
      BY <2>5, AppendProperties DEF IInv, TypeOK
    <3>5. taken' \in [Threads -> Seq([Start : Tokens, End : Tokens])]
      BY <2>1, <3>4 DEF IInv, TypeOK
    <3>6. done' \in [Threads -> BOOLEAN]
      BY <2>2 DEF IInv, TypeOK
    <3> QED BY <2>2, <3>1, <3>2, <3>3, <3>5, <3>6, FlagsStay DEF TypeOK
  <2>7. ASSUME NEW u \in Threads, NEW i \in 1 .. Len(taken'[u])
        PROVE  \E j \in RangeOffset(u) .. RangeEnd(u) - 1 :
                  taken'[u][i] = TokenRange(j, rangeCount)
    <3>1. CASE u # t
      <4>1. taken'[u] = taken[u]
        BY <2>1, <3>1 DEF IInv, TypeOK
      <4> QED BY <2>7, <4>1 DEF IInv, TakenOwn
    <3>2. CASE u = t
      <4>1. taken'[t] = Append(taken[t], TokenRange(k, rangeCount))
        BY <2>1 DEF IInv, TypeOK
      <4>2. taken[t] \in Seq([Start : Tokens, End : Tokens])
        BY DEF IInv, TypeOK
      <4>3. /\ Len(taken'[t]) = Len(taken[t]) + 1 /\ Len(taken[t]) \in Nat
            /\ \A l \in 1 .. Len(taken[t]) : taken'[t][l] = taken[t][l]
            /\ taken'[t][Len(taken[t]) + 1] = TokenRange(k, rangeCount)
        BY <2>5, <4>1, <4>2, AppendProperties, LenProperties
      <4>4. CASE i \in 1 .. Len(taken[t])
        BY <3>2, <4>3, <4>4 DEF IInv, TakenOwn
      <4>5. CASE i = Len(taken[t]) + 1
        BY <2>1, <3>2, <4>3, <4>5
      <4> QED BY <2>7, <3>2, <4>3, <4>4, <4>5
    <3> QED BY <3>1, <3>2
  <2>8. TakenOwn'
    BY <2>2, <2>7, FlagsStay DEF TakenOwn
  <2> QED BY <2>2, <2>6, <2>8, FlagsStay DEF IInv
<1>3. CASE UNCHANGED vars
  <2>1. UNCHANGED flags /\ nextRange' = nextRange /\ iteration' = iteration
        /\ taken' = taken /\ done' = done
    BY <1>3 DEF vars
  <2>2. TypeOK'
    BY <2>1, FlagsStay DEF IInv, TypeOK
  <2>3. TakenOwn'
    BY <2>1, FlagsStay DEF IInv, TakenOwn
  <2> QED BY <2>1, <2>2, <2>3, FlagsStay DEF IInv
<1> QED BY <1>1, <1>2, <1>3 DEF Next

\* The goroutines take ranges of their own only.
LEMMA IInvHolds == Spec => []IInv
BY Begins, Step, PTL DEF Spec

\* What a goroutine has taken runs forward.
LEMMA ForwardFromIInv == IInv => RangesForward
<1> SUFFICES ASSUME IInv, NEW t \in Threads, NEW i \in 1 .. Len(taken[t])
             PROVE  taken[t][i].Start <= taken[t][i].End
  BY DEF RangesForward
<1>1. PICK k \in RangeOffset(t) .. RangeEnd(t) - 1 :
         taken[t][i] = TokenRange(k, rangeCount)
  BY DEF IInv, TakenOwn
<1>2. /\ RangeOffset(t) \in Nat /\ RangeEnd(t) \in Nat /\ RangeEnd(t) <= rangeCount
      /\ rangeCount \in 1 .. HalfTokens - 1 /\ HalfTokens \in Nat
  BY OwnRanges, TokenAssumption DEF IInv, FlagsOK
<1>3. k \in 0 .. rangeCount - 1
  BY <1>2
<1> QED BY <1>1, <1>2, <1>3, RangeForward

\* What two goroutines have taken is disjoint.
LEMMA DisjointFromIInv == IInv => GoroutinesDisjoint
<1> SUFFICES ASSUME IInv, NEW t \in Threads, NEW u \in Threads, t # u,
                    NEW i \in 1 .. Len(taken[t]), NEW j \in 1 .. Len(taken[u])
             PROVE  Disjoint(taken[t][i], taken[u][j])
  BY DEF GoroutinesDisjoint
<1>1. PICK k \in RangeOffset(t) .. RangeEnd(t) - 1 :
         taken[t][i] = TokenRange(k, rangeCount)
  BY DEF IInv, TakenOwn
<1>2. PICK l \in RangeOffset(u) .. RangeEnd(u) - 1 :
         taken[u][j] = TokenRange(l, rangeCount)
  BY DEF IInv, TakenOwn
<1>3. /\ RangeOffset(t) \in Nat /\ RangeEnd(t) \in Nat /\ RangeEnd(t) <= rangeCount
      /\ RangeOffset(u) \in Nat /\ RangeEnd(u) \in Nat /\ RangeEnd(u) <= rangeCount
      /\ (t < u => RangeEnd(t) <= RangeOffset(u))
      /\ (u < t => RangeEnd(u) <= RangeOffset(t))
      /\ rangeCount \in 1 .. HalfTokens - 1 /\ HalfTokens \in Nat
      /\ concurrency \in Nat
  BY OwnRanges, TokenAssumption DEF IInv, FlagsOK
<1>4. k \in 0 .. rangeCount - 1 /\ l \in 0 .. rangeCount - 1
  BY <1>3
<1>5. t < u \/ u < t
  BY <1>3 DEF Threads
<1>6. CASE t < u
  <2>1. k < l
    BY <1>3, <1>6
  <2> QED BY <1>1, <1>2, <1>3, <1>4, <2>1, RangesOrdered DEF Disjoint
<1>7. CASE u < t
  <2>1. l < k
    BY <1>3, <1>7
  <2> QED BY <1>1, <1>2, <1>3, <1>4, <2>1, RangesOrdered DEF Disjoint
<1> QED BY <1>5, <1>6, <1>7

-----------------------------------------------------------------------------
(* How often each token is read *)

\* The number of a goroutine's ranges.
Size(t) == RangeEnd(t) - RangeOffset(t)

\* A goroutine has taken as many ranges as its iterations and its place say, each at
\* its place among its own, and is in its last iteration at most.
Ordered ==
    \A t \in Threads :
        /\ Len(taken[t]) = iteration[t] * Size(t) + (nextRange[t] - RangeOffset(t))
        /\ iteration[t] + 1 <= iterations
        /\ \A i \in 1 .. Len(taken[t]) :
              taken[t][i] = TokenRange(RangeOffset(t) + ((i - 1) % Size(t)), rangeCount)

\* A goroutine is done only when its last iteration is.
Finished ==
    \A t \in Threads :
        done[t] => WorkloadDone(t) /\ iteration[t] + 1 = iterations

\* The parts of the goroutines in numbers.
LEMMA SizeTypes ==
    ASSUME IInv, NEW t \in Threads
    PROVE  /\ RangeOffset(t) \in Nat /\ RangeEnd(t) \in Nat /\ Size(t) \in Nat \ {0}
           /\ RangeEnd(t) = RangeOffset(t) + Size(t)
           /\ nextRange[t] - RangeOffset(t) \in 0 .. Size(t)
           /\ nextRange[t] \in Nat /\ iteration[t] \in Nat /\ iterations \in Nat \ {0}
<1>1. /\ RangeOffset(t) \in Nat /\ RangeEnd(t) \in Nat /\ RangeOffset(t) < RangeEnd(t)
  BY OwnRanges DEF IInv
<1>2. /\ nextRange[t] \in RangeOffset(t) .. RangeEnd(t)
      /\ nextRange[t] \in Nat /\ iteration[t] \in Nat /\ iterations \in Nat \ {0}
  BY DEF IInv, TypeOK, FlagsOK
<1> QED BY <1>1, <1>2 DEF Size

\* An operation takes the range at the goroutine's place, which is the first one if
\* an iteration was over, and at no other time is an iteration begun.
LEMMA OperatePlace ==
    ASSUME IInv, Ordered, NEW t \in Threads, Operate(t)
    PROVE  \E place \in 0 .. Size(t) - 1, round \in Nat :
              /\ round + 1 <= iterations
              /\ Len(taken[t]) = round * Size(t) + place
              /\ nextRange' = [nextRange EXCEPT ![t] = RangeOffset(t) + place + 1]
              /\ taken' = [taken EXCEPT ![t] =
                              Append(taken[t], TokenRange(RangeOffset(t) + place, rangeCount))]
              /\ iteration' = [iteration EXCEPT ![t] = round]
<1>1. /\ RangeOffset(t) \in Nat /\ Size(t) \in Nat \ {0}
      /\ RangeEnd(t) = RangeOffset(t) + Size(t)
      /\ nextRange[t] - RangeOffset(t) \in 0 .. Size(t)
      /\ nextRange[t] \in Nat /\ iteration[t] \in Nat /\ iterations \in Nat \ {0}
  BY SizeTypes
<1>2. PICK m \in Nat : m = iteration[t] * Size(t)
  BY <1>1, ProductNat
<1>3. /\ Len(taken[t]) = m + (nextRange[t] - RangeOffset(t))
      /\ iteration[t] + 1 <= iterations
  BY <1>2 DEF Ordered
<1>4. CASE WorkloadDone(t)
  <2>1. nextRange[t] - RangeOffset(t) = Size(t)
    BY <1>1, <1>4 DEF WorkloadDone
  <2>2. iteration[t] + 1 # iterations
    BY <1>4 DEF Operate
  <2>3. (iteration[t] + 1) * Size(t) = m + Size(t)
    BY <1>1, <1>2
  <2>4. Len(taken[t]) = (iteration[t] + 1) * Size(t) + 0
    BY <1>1, <1>2, <1>3, <2>1, <2>3
  <2>5. /\ 0 \in 0 .. Size(t) - 1 /\ iteration[t] + 1 \in Nat
        /\ (iteration[t] + 1) + 1 <= iterations /\ RangeOffset(t) + 0 = RangeOffset(t)
    <3>1. PICK j \in Nat, n \in Nat : j = iteration[t] /\ n = iterations
      BY <1>1
    <3>2. (j + 1) + 1 <= n
      BY <1>3, <2>2, <3>1
    <3>3. 0 \in 0 .. Size(t) - 1 /\ RangeOffset(t) + 0 = RangeOffset(t)
      BY <1>1
    <3> QED BY <3>1, <3>2, <3>3
  <2>6. /\ nextRange' = [nextRange EXCEPT ![t] = RangeOffset(t) + 1]
        /\ taken' = [taken EXCEPT ![t] =
                        Append(taken[t], TokenRange(RangeOffset(t), rangeCount))]
        /\ iteration' = [iteration EXCEPT ![t] = iteration[t] + 1]
    BY <1>4 DEF Operate
  <2> QED BY <2>4, <2>5, <2>6
<1>5. CASE ~WorkloadDone(t)
  <2> DEFINE place == nextRange[t] - RangeOffset(t)
  <2>1. place \in 0 .. Size(t) - 1 /\ RangeOffset(t) + place = nextRange[t]
    BY <1>1, <1>5 DEF WorkloadDone
  <2>2. Len(taken[t]) = iteration[t] * Size(t) + place
    BY <1>2, <1>3
  <2>3. /\ nextRange' = [nextRange EXCEPT ![t] = nextRange[t] + 1]
        /\ taken' = [taken EXCEPT ![t] =
                        Append(taken[t], TokenRange(nextRange[t], rangeCount))]
        /\ iteration' = [iteration EXCEPT ![t] = iteration[t]]
    BY <1>5 DEF Operate
  <2> HIDE DEF place
  <2> QED BY <1>1, <1>3, <2>1, <2>2, <2>3
<1> QED BY <1>4, <1>5

\* Unchanged flags change neither the sizes nor the number of iterations.
LEMMA SizesStay ==
    UNCHANGED flags =>
        /\ iterations' = iterations /\ rangeCount' = rangeCount /\ Threads' = Threads
        /\ \A t \in Threads : Size(t)' = Size(t) /\ RangeOffset(t)' = RangeOffset(t)
                              /\ RangeEnd(t)' = RangeEnd(t)
BY FlagsStay DEF Size, flags

\* Every step keeps the order.
LEMMA OrderStep == IInv /\ Ordered /\ [Next]_vars => Ordered'
<1> SUFFICES ASSUME IInv, Ordered, [Next]_vars PROVE Ordered'
  OBVIOUS
<1>1. ASSUME UNCHANGED <<flags, nextRange, iteration, taken>> PROVE Ordered'
  BY <1>1, SizesStay DEF Ordered
<1>2. ASSUME NEW t \in Threads, Operate(t) PROVE Ordered'
  <2>1. UNCHANGED flags
    BY <1>2 DEF Operate
  <2> SUFFICES ASSUME NEW u \in Threads
               PROVE  /\ Len(taken'[u])
                           = iteration'[u] * Size(u) + (nextRange'[u] - RangeOffset(u))
                      /\ iteration'[u] + 1 <= iterations
                      /\ \A i \in 1 .. Len(taken'[u]) :
                            taken'[u][i]
                              = TokenRange(RangeOffset(u) + ((i - 1) % Size(u)), rangeCount)
    BY <2>1, SizesStay DEF Ordered
  <2>2. PICK place \in 0 .. Size(t) - 1, round \in Nat :
           /\ round + 1 <= iterations
           /\ Len(taken[t]) = round * Size(t) + place
           /\ nextRange' = [nextRange EXCEPT ![t] = RangeOffset(t) + place + 1]
           /\ taken' = [taken EXCEPT ![t] =
                           Append(taken[t], TokenRange(RangeOffset(t) + place, rangeCount))]
           /\ iteration' = [iteration EXCEPT ![t] = round]
    BY <1>2, OperatePlace
  <2>3. CASE u # t
    <3>1. taken'[u] = taken[u] /\ nextRange'[u] = nextRange[u] /\ iteration'[u] = iteration[u]
      BY <2>2, <2>3 DEF IInv, TypeOK
    <3> QED BY <3>1 DEF Ordered
  <2>4. CASE u = t
    <3> DEFINE next == TokenRange(RangeOffset(t) + place, rangeCount)
    <3>1. /\ taken'[t] = Append(taken[t], next) /\ iteration'[t] = round
          /\ nextRange'[t] = RangeOffset(t) + place + 1
      BY <2>2 DEF IInv, TypeOK
    <3>2. /\ taken[t] \in Seq([Start : Tokens, End : Tokens])
          /\ next \in [Start : Tokens, End : Tokens]
      <4>1. /\ RangeOffset(t) \in Nat /\ RangeEnd(t) = RangeOffset(t) + Size(t)
            /\ RangeEnd(t) <= rangeCount /\ Size(t) \in Nat
            /\ rangeCount \in 1 .. HalfTokens - 1 /\ HalfTokens \in Nat
        BY SizeTypes, OwnRanges, TokenAssumption DEF IInv, FlagsOK
      <4>2. RangeOffset(t) + place \in 0 .. rangeCount - 1
        BY <4>1
      <4>3. next \in [Start : Tokens, End : Tokens]
        BY <4>1, <4>2, RangeForward
      <4> QED BY <4>3 DEF IInv, TypeOK
    <3> HIDE DEF next
    <3>3. /\ Len(taken'[t]) = Len(taken[t]) + 1 /\ Len(taken[t]) \in Nat
          /\ \A i \in 1 .. Len(taken[t]) : taken'[t][i] = taken[t][i]
          /\ taken'[t][Len(taken[t]) + 1] = next
      BY <3>1, <3>2, AppendProperties, LenProperties
    <3>4. Size(t) \in Nat \ {0} /\ RangeOffset(t) \in Nat
      BY SizeTypes
    <3>5. PICK m \in Nat : m = round * Size(t)
      BY <3>4, ProductNat
    <3>6. Len(taken'[t]) = m + (nextRange'[t] - RangeOffset(t))
      <4>1. Len(taken[t]) = m + place
        BY <2>2, <3>5
      <4>2. place \in Int
        BY <3>4
      <4> QED BY <3>1, <3>3, <3>4, <4>1, <4>2
    <3>7. ASSUME NEW i \in 1 .. Len(taken'[t])
          PROVE  taken'[t][i]
                   = TokenRange(RangeOffset(t) + ((i - 1) % Size(t)), rangeCount)
      <4>1. CASE i \in 1 .. Len(taken[t])
        BY <3>3, <4>1 DEF Ordered
      <4>2. CASE i = Len(taken[t]) + 1
        <5>1. i - 1 = round * Size(t) + place
          BY <2>2, <3>3, <4>2
        <5>2. (i - 1) % Size(t) = place
          BY <3>4, <5>1, PlaceInRun
        <5> QED BY <3>3, <4>2, <5>2 DEF next
      <4> QED BY <3>3, <4>1, <4>2
    <3> QED BY <2>2, <2>4, <3>1, <3>5, <3>6, <3>7
  <2> QED BY <2>3, <2>4
<1>3. ASSUME NEW t \in Threads, Finish(t) PROVE Ordered'
  BY <1>1, <1>3 DEF Finish
<1> QED BY <1>1, <1>2, <1>3 DEF Next, vars

\* Every step keeps what is said of the goroutines that are done.
LEMMA FinishedStep == IInv /\ Finished /\ [Next]_vars => Finished'
<1> SUFFICES ASSUME IInv, Finished, [Next]_vars PROVE Finished'
  OBVIOUS
<1>1. UNCHANGED flags
  BY DEF Next, Finish, Operate, vars
<1>2. ASSUME NEW t \in Threads, Finish(t) PROVE Finished'
  <2>1. /\ nextRange' = nextRange /\ iteration' = iteration
        /\ done' = [done EXCEPT ![t] = TRUE]
        /\ WorkloadDone(t) /\ iteration[t] + 1 = iterations
    BY <1>2 DEF Finish
  <2>2. \A u \in Threads : done'[u] => WorkloadDone(u) /\ iteration[u] + 1 = iterations
    BY <2>1 DEF Finished, IInv, TypeOK
  <2> QED BY <1>1, <2>1, <2>2, SizesStay DEF Finished, WorkloadDone
<1>3. ASSUME NEW t \in Threads, Operate(t) PROVE Finished'
  <2>1. /\ ~done[t] /\ done' = done
        /\ iteration' = [iteration EXCEPT ![t] = IF WorkloadDone(t) THEN @ + 1 ELSE @]
        /\ \E k : nextRange' = [nextRange EXCEPT ![t] = k]
    BY <1>3 DEF Operate
  <2>2. \A u \in Threads : u # t =>
            iteration'[u] = iteration[u] /\ nextRange'[u] = nextRange[u]
    BY <2>1 DEF IInv, TypeOK
  <2> QED BY <1>1, <2>1, <2>2, SizesStay DEF Finished, WorkloadDone
<1>4. CASE UNCHANGED vars
  BY <1>1, <1>4, SizesStay DEF Finished, WorkloadDone, vars
<1> QED BY <1>2, <1>3, <1>4 DEF Next

\* Nobody has taken anything when the goroutines begin.
LEMMA OrderBegins == Init => Ordered /\ Finished
<1> SUFFICES ASSUME Init PROVE Ordered /\ Finished
  OBVIOUS
<1>1. IInv
  BY Begins
<1>2. ASSUME NEW t \in Threads
      PROVE  /\ taken[t] = << >> /\ iteration[t] = 0 /\ ~done[t]
             /\ nextRange[t] = RangeOffset(t)
  BY DEF Init
<1>3. ASSUME NEW t \in Threads
      PROVE  /\ 0 = 0 * Size(t) + (RangeOffset(t) - RangeOffset(t))
             /\ 0 + 1 <= iterations
  BY <1>1, SizeTypes
<1> QED BY <1>2, <1>3 DEF Ordered, Finished

\* Every token is in a range of one goroutine, which has taken it as often as there
\* are iterations if it is done, and not more often before.
LEMMA EveryTokenFromOrder == IInv /\ Ordered /\ Finished => EveryTokenOncePerIteration
<1> SUFFICES ASSUME IInv, Ordered, Finished, NEW token \in Tokens
             PROVE  /\ TimesTaken(token) <= iterations
                    /\ AllDone => TimesTaken(token) = iterations
  BY DEF EveryTokenOncePerIteration
<1> DEFINE In(r) == r.Start <= token /\ token <= r.End
           V(u) == {i \in 1 .. Len(taken[u]) : In(taken[u][i])}
<1>1. rangeCount \in 1 .. HalfTokens - 1 /\ rangeCount \in Nat
  BY TokenAssumption DEF IInv, FlagsOK
<1>2. PICK k \in 0 .. rangeCount - 1 :
         /\ In(TokenRange(k, rangeCount))
         /\ \A j \in 0 .. rangeCount - 1 : j # k => ~In(TokenRange(j, rangeCount))
  BY <1>1, TokenHasRange
<1>3. PICK t \in Threads : k \in RangeOffset(t) .. RangeEnd(t) - 1
  BY RangeHasOwner DEF IInv
<1>4. TimesTaken(token) = Cardinality(UNION {{u} \X V(u) : u \in Threads})
  BY DEF TimesTaken
<1> HIDE DEF In
<1>5. ASSUME NEW u \in Threads, u # t
      PROVE  V(u) = {}
  <2>1. /\ RangeOffset(t) \in Nat /\ RangeEnd(t) \in Nat /\ RangeEnd(t) <= rangeCount
        /\ RangeOffset(u) \in Nat /\ RangeEnd(u) \in Nat /\ RangeEnd(u) <= rangeCount
        /\ (t < u => RangeEnd(t) <= RangeOffset(u))
        /\ (u < t => RangeEnd(u) <= RangeOffset(t))
    BY OwnRanges DEF IInv
  <2>2. t < u \/ u < t
    BY <1>5, TokenAssumption DEF Threads, IInv, FlagsOK
  <2>3. ASSUME NEW i \in 1 .. Len(taken[u])
        PROVE  ~In(taken[u][i])
    <3>1. PICK l \in RangeOffset(u) .. RangeEnd(u) - 1 :
             taken[u][i] = TokenRange(l, rangeCount)
      BY DEF IInv, TakenOwn
    <3>2. l # k /\ l \in 0 .. rangeCount - 1
      BY <1>1, <1>3, <2>1, <2>2
    <3> QED BY <1>2, <3>1, <3>2
  <2> QED BY <2>3
<1>6. PICK place \in 0 .. Size(t) - 1 : k = RangeOffset(t) + place
  <2>1. /\ RangeOffset(t) \in Nat /\ Size(t) \in Nat \ {0}
        /\ RangeEnd(t) = RangeOffset(t) + Size(t)
    BY SizeTypes
  <2>2. k - RangeOffset(t) \in 0 .. Size(t) - 1 /\ k = RangeOffset(t) + (k - RangeOffset(t))
    BY <1>1, <1>3, <2>1
  <2> QED BY <2>2
<1>7. /\ RangeOffset(t) \in Nat /\ RangeEnd(t) \in Nat /\ Size(t) \in Nat \ {0}
      /\ RangeEnd(t) = RangeOffset(t) + Size(t) /\ RangeEnd(t) <= rangeCount
      /\ nextRange[t] - RangeOffset(t) \in 0 .. Size(t)
      /\ iteration[t] \in Nat /\ iterations \in Nat \ {0}
  BY SizeTypes, OwnRanges DEF IInv
<1>8. V(t) = {i \in 1 .. Len(taken[t]) : (i - 1) % Size(t) = place}
  <2>1. ASSUME NEW i \in 1 .. Len(taken[t])
        PROVE  In(taken[t][i]) <=> (i - 1) % Size(t) = place
    <3>1. taken[t][i] = TokenRange(RangeOffset(t) + ((i - 1) % Size(t)), rangeCount)
      BY DEF Ordered
    <3>2. i - 1 \in Int
      OBVIOUS
    <3>3. PICK e \in 0 .. Size(t) - 1 : e = (i - 1) % Size(t)
      BY <1>7, <3>2, Division
    <3>4. RangeOffset(t) + e \in 0 .. rangeCount - 1
      BY <1>1, <1>7
    <3>5. RangeOffset(t) + e = k <=> e = place
      BY <1>6, <1>7
    <3>6. In(TokenRange(RangeOffset(t) + e, rangeCount)) <=> e = place
      BY <1>2, <3>4, <3>5
    <3> QED BY <3>1, <3>3, <3>6
  <2> QED BY <2>1
<1> HIDE DEF V
<1>9. UNION {{u} \X V(u) : u \in Threads} = {t} \X V(t)
  <2>1. \A u \in Threads : u # t => {u} \X V(u) = {}
    BY <1>5
  <2> QED BY <2>1
<1>10. PICK m \in Nat : m = iteration[t] * Size(t)
  BY <1>7, ProductNat
<1>11. (iteration[t] + 1) * Size(t) = m + Size(t) /\ iteration[t] + 1 \in Nat
  BY <1>7, <1>10
<1>12. Len(taken[t]) = m + (nextRange[t] - RangeOffset(t)) /\ iteration[t] + 1 <= iterations
  BY <1>10 DEF Ordered
<1>13. IsFiniteSet(V(t)) /\ Cardinality(V(t)) <= iterations
  <2>1. Len(taken[t]) \in Nat /\ Len(taken[t]) <= (iteration[t] + 1) * Size(t)
    <3>1. PICK l \in Nat, s \in Nat :
             l = nextRange[t] - RangeOffset(t) /\ s = Size(t) /\ l <= s
      BY <1>7
    <3>2. Len(taken[t]) = m + l /\ (iteration[t] + 1) * Size(t) = m + s
      BY <1>11, <1>12, <3>1
    <3>3. m + l \in Nat /\ m + l <= m + s
      BY <3>1
    <3> QED BY <3>2, <3>3
  <2>2. IsFiniteSet(V(t)) /\ Cardinality(V(t)) <= iteration[t] + 1
    <3>1. PICK c \in Nat \ {0}, n \in Nat, len \in Nat :
             c = Size(t) /\ n = iteration[t] + 1 /\ len = Len(taken[t])
      BY <1>7, <1>11, <2>1
    <3>2. place \in 0 .. c - 1 /\ len <= n * c
      BY <2>1, <3>1
    <3>3. /\ IsFiniteSet({i \in 1 .. len : (i - 1) % c = place})
          /\ Cardinality({i \in 1 .. len : (i - 1) % c = place}) <= n
      BY <3>2, AtMostRepeats
    <3> QED BY <1>8, <3>1, <3>3
  <2>3. Cardinality(V(t)) \in Nat
    BY <2>2, FS_CardinalityType
  <2> QED BY <1>7, <1>12, <2>2, <2>3
<1>14. ASSUME AllDone
       PROVE  Cardinality(V(t)) = iterations
  <2>1. WorkloadDone(t) /\ iteration[t] + 1 = iterations
    BY <1>14 DEF AllDone, Finished
  <2>2. nextRange[t] - RangeOffset(t) = Size(t)
    <3>1. nextRange[t] \in Nat /\ nextRange[t] >= RangeEnd(t)
      BY <2>1, SizeTypes DEF WorkloadDone
    <3> QED BY <1>7, <3>1
  <2>3. Len(taken[t]) = iterations * Size(t)
    BY <1>11, <1>12, <2>1, <2>2
  <2>4. V(t) = {i \in 1 .. iterations * Size(t) : (i - 1) % Size(t) = place}
    BY <1>8, <2>3
  <2>5. iterations \in Nat
    BY <1>7
  <2>6. PICK c \in Nat \ {0}, n \in Nat : c = Size(t) /\ n = iterations
    BY <1>7, <2>5
  <2>7. place \in 0 .. c - 1
    BY <1>7, <2>6
  <2>8. Cardinality({i \in 1 .. n * c : (i - 1) % c = place}) = n
    BY <2>6, <2>7, Repeats
  <2>9. V(t) = {i \in 1 .. n * c : (i - 1) % c = place}
    BY <2>4, <2>6
  <2> QED BY <2>6, <2>8, <2>9
<1>15. TimesTaken(token) = Cardinality(V(t))
  BY <1>4, <1>9, <1>13, Pairs
<1> QED BY <1>13, <1>14, <1>15

-----------------------------------------------------------------------------
(* What holds throughout *)

\* The types hold: every goroutine stays among its own ranges.
THEOREM TypeCorrect == Spec => []TypeOK
<1>1. IInv => TypeOK
  BY DEF IInv
<1> QED BY <1>1, IInvHolds, PTL

\* No range a goroutine reads is turned round by the arithmetic.
THEOREM RangesForwardCorrect == Spec => []RangesForward
BY IInvHolds, ForwardFromIInv, PTL

\* No two goroutines read the same token.
THEOREM GoroutinesDisjointCorrect == Spec => []GoroutinesDisjoint
BY IInvHolds, DisjointFromIInv, PTL

\* Every token is read once in each iteration when all goroutines are done, and no
\* more often before, for every width of the integers and any number of ranges and
\* goroutines (README.md:217).
THEOREM EveryTokenOncePerIterationCorrect == Spec => []EveryTokenOncePerIteration
<1>1. Spec => []Ordered
  BY OrderBegins, IInvHolds, OrderStep, PTL DEF Spec
<1>2. Spec => []Finished
  BY OrderBegins, IInvHolds, FinishedStep, PTL DEF Spec
<1> QED BY <1>1, <1>2, IInvHolds, EveryTokenFromOrder, PTL
=============================================================================
