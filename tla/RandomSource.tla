---------------------------- MODULE RandomSource ----------------------------
(***************************************************************************)
(* The draws of a worker (random/random.go): Source.Int64N rejects the lowest *)
(* words of its generator, as many as would make some remainders more frequent *)
(* than others, and a distribution of row sizes turns what it draws into a     *)
(* size.  The generator gives any word, at a parametric width.               *)
(***************************************************************************)
EXTENDS Integers, FiniteSets

CONSTANT WordCount  \* the number of words: 2^64

ASSUME WordAssumption == WordCount \in Nat \ {0}

RandomWords == 0 .. (WordCount - 1)

\* (-un) % un in unsigned arithmetic.
Threshold(n) == ((-n) % WordCount) % n

\* Mutant of Accepted: the comparison is strict.
AcceptedStrictly(v, n) == v > Threshold(n)

\* The loop of Int64N(n) ends with word v.
Accepted(v, n) == v >= Threshold(n)

\* The words with which Int64N(n) returns r.
WordsFor(n, r) == {v \in RandomWords : Accepted(v, n) /\ v % n = r}

-----------------------------------------------------------------------------
(* Distributions: of "fixed" min is max *)

\* What ParseDistribution accepts, with limits from a set.
Distributions(limits) == {d \in [min : limits, max : limits] : d.min <= d.max}

\* What GenerateUsing may return: of several sizes, the largest never.
Generated(d) ==
    LET n == d.max - d.min
    IN  IF n = 0 THEN {d.min}
        ELSE {d.min + (v % n) : v \in {u \in RandomWords : Accepted(u, n)}}

\* All sizes of an interval, its end excluded (README.md:352), are drawn, each with
\* as many of the generator's words as any other (random.go:333-338, 418-430).
EvenlyDrawn(d) ==
    LET n == d.max - d.min
        Share(r) == Cardinality(WordsFor(n, r))
    IN  n > 0 => Share(0) > 0 /\ \A r \in 1 .. n - 1 : Share(r) = Share(0)
=============================================================================
