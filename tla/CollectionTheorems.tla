-------------------------- MODULE CollectionTheorems --------------------------
(***************************************************************************)
(* What the proofs need to know of the folds, sums and sequences of the      *)
(* community modules.  A fold is a recursive function on the subsets of a     *)
(* finite set; the strict subset order of the finite subsets is well founded, *)
(* and its minimal elements take the place of an induction.                   *)
(***************************************************************************)
EXTENDS Integers, FiniteSetsExt, SequencesExt, TokenProgram,
        FiniteSetTheorems, SequenceTheorems, WellFoundedInduction, TLAPS

\* Of the subsets of a finite set that are bad, one has only good strict subsets.
LEMMA SmallestSubset ==
    ASSUME NEW D, IsFiniteSet(D), NEW B \in SUBSET (SUBSET D), B # {}
    PROVE  \E s \in B : \A t \in SUBSET s : t # s => t \notin B
<1>1. IsWellFoundedOn(StrictSubsetOrdering(D), SUBSET D)
    BY FS_StrictSubsetOrderingWellFounded, FS_FiniteSubsetsOfFinite
<1>2. PICK s \in B : \A t \in B : <<t, s>> \notin StrictSubsetOrdering(D)
    BY <1>1, WFMin
<1>3. ASSUME NEW t \in SUBSET s, t # s PROVE t \notin B
    BY <1>2, <1>3 DEF StrictSubsetOrdering
<1> QED BY <1>3

\* Of the natural numbers in a set, one is the least.
LEMMA LeastNumber ==
    ASSUME NEW B \in SUBSET Nat, B # {}
    PROVE  \E n \in B : \A m \in 0 .. n - 1 : m \notin B
<1>1. PICK k \in B : TRUE
    OBVIOUS
<1> DEFINE D == 0 .. k
           C == {0 .. n : n \in {m \in B : m <= k}}
<1>2. IsFiniteSet(D)
    BY FS_Interval
<1>3. C \in SUBSET (SUBSET D)
    <2>1. ASSUME NEW n \in B, n <= k PROVE 0 .. n \in SUBSET D
        BY <2>1
    <2> QED BY <2>1
<1>4. D \in C
    BY <1>1
<1>5. PICK s \in C : \A t \in SUBSET s : t # s => t \notin C
    <2> HIDE DEF C, D
    <2> QED BY <1>2, <1>3, <1>4, SmallestSubset
<1>6. PICK n \in B : n <= k /\ s = 0 .. n
    BY <1>5
<1>7. ASSUME NEW m \in 0 .. n - 1, m \in B PROVE FALSE
    <2>1. 0 .. m \in SUBSET s /\ 0 .. m # s
        <3>1. n \in s /\ n \notin 0 .. m
            BY <1>6, <1>7
        <3>2. 0 .. m \in SUBSET s
            BY <1>6, <1>7
        <3> QED BY <3>1, <3>2
    <2>2. 0 .. m \in C
        BY <1>6, <1>7
    <2> QED BY <1>5, <2>1, <2>2
<1> QED BY <1>7

\* c chooses an element of every subset, and h is the fold that takes it first.
Chooses(c, D) == \A s \in SUBSET D : s # {} => c[s] \in s
IsFold(h, D, base, c, step) ==
    \A s \in SUBSET D : h[s] = IF s = {} THEN base ELSE step[<<c[s], h[s \ {c[s]}]>>]

\* Whatever the step is, there is such a fold.
LEMMA FoldExists ==
    ASSUME NEW D, IsFiniteSet(D), NEW S, NEW base \in S, NEW c, Chooses(c, D),
           NEW step \in [D \X S -> S]
    PROVE  \E h \in [SUBSET D -> S] : IsFold(h, D, base, c, step)
<1> USE DEF Chooses
<1> DEFINE Next(h, s) == IF s = {} THEN base ELSE step[<<c[s], h[s \ {c[s]}]>>]
           Good(n) == \E h \in [SUBSET D -> S] :
                          \A s \in SUBSET D : Cardinality(s) <= n => h[s] = Next(h, s)
           B == {n \in Nat : ~ Good(n)}
<1>0. \A s \in SUBSET D : IsFiniteSet(s) /\ Cardinality(s) \in Nat
    BY FS_Subset, FS_CardinalityType
<1>1. \A h \in [SUBSET D -> S], s \in SUBSET D : Next(h, s) \in S
    OBVIOUS
<1>2. Good(0)
    <2> DEFINE h == [s \in SUBSET D |-> base]
    <2>1. \A s \in SUBSET D : Cardinality(s) <= 0 => s = {}
        BY <1>0, FS_EmptySet
    <2>2. h \in [SUBSET D -> S] /\ \A s \in SUBSET D : Cardinality(s) <= 0 => h[s] = Next(h, s)
        BY <2>1
    <2> QED BY <2>2
<1>3. ASSUME NEW n \in Nat, Good(n) PROVE Good(n + 1)
    <2>1. PICK h \in [SUBSET D -> S] :
              \A s \in SUBSET D : Cardinality(s) <= n => h[s] = Next(h, s)
        BY <1>3
    <2> DEFINE g == [s \in SUBSET D |-> IF Cardinality(s) <= n THEN h[s] ELSE Next(h, s)]
    <2>2. g \in [SUBSET D -> S]
        BY <1>1
    <2>3. ASSUME NEW s \in SUBSET D, Cardinality(s) <= n + 1 PROVE g[s] = Next(g, s)
        <3>1. g[s] = Next(h, s)
            BY <2>1
        <3>2. CASE s = {}
            BY <3>1, <3>2
        <3>3. CASE s # {}
            <4> DEFINE t == s \ {c[s]}
            <4>1. c[s] \in s /\ t \in SUBSET D
                BY <3>3
            <4>2. Cardinality(t) = Cardinality(s) - 1
                BY <1>0, <4>1, FS_RemoveElement
            <4>3. Cardinality(t) <= n
                BY <1>0, <2>3, <4>2
            <4>4. g[t] = h[t]
                BY <4>1, <4>3
            <4> QED BY <3>1, <4>4
        <3> QED BY <3>2, <3>3
    <2> HIDE DEF g
    <2> QED BY <2>2, <2>3
<1>4. B = {}
    <2> SUFFICES ASSUME B # {} PROVE FALSE
        OBVIOUS
    <2> HIDE DEF Good
    <2>1. PICK n \in B : \A m \in 0 .. n - 1 : m \notin B
        BY LeastNumber
    <2>2. n # 0
        BY <1>2, <2>1
    <2>3. Good(n - 1)
        BY <2>1, <2>2
    <2>4. Good(n - 1 + 1)
        BY <1>3, <2>1, <2>2, <2>3
    <2> QED BY <2>1, <2>4
<1>5. Good(Cardinality(D))
    <2> HIDE DEF Good
    <2> QED BY <1>0, <1>4
<1>6. PICK h \in [SUBSET D -> S] :
          \A s \in SUBSET D : Cardinality(s) <= Cardinality(D) => h[s] = Next(h, s)
    BY <1>5
<1>7. \A s \in SUBSET D : Cardinality(s) <= Cardinality(D)
    BY FS_Subset
<1> QED BY <1>6, <1>7 DEF IsFold

\* Such a function stays in a set that its step does not leave.
LEMMA FoldStays ==
    ASSUME NEW D, IsFiniteSet(D), NEW S, NEW c, NEW h, Chooses(c, D),
           h[{}] \in S,
           \A s \in SUBSET D : s # {} /\ h[s \ {c[s]}] \in S => h[s] \in S
    PROVE  \A s \in SUBSET D : h[s] \in S
<1> DEFINE B == {s \in SUBSET D : h[s] \notin S}
<1> SUFFICES ASSUME B # {} PROVE FALSE
    OBVIOUS
<1>1. PICK s \in B : \A t \in SUBSET s : t # s => t \notin B
    <2> HIDE DEF B
    <2>1. B \in SUBSET (SUBSET D)
        BY DEF B
    <2> QED BY <2>1, SmallestSubset
<1>2. s # {} /\ c[s] \in s
    BY <1>1 DEF Chooses
<1>3. h[s \ {c[s]}] \in S
    BY <1>1, <1>2
<1> QED BY <1>1, <1>2, <1>3

-----------------------------------------------------------------------------
(* Folds over sequences: the elements are taken in their order. *)

\* What holds of 0 and passes from each number to the next holds up to n.
LEMMA UpTo ==
    ASSUME NEW n \in Nat, NEW G \in SUBSET (0 .. n), 0 \in G,
           \A i \in 1 .. n : i - 1 \in G => i \in G
    PROVE  \A i \in 0 .. n : i \in G
<1> DEFINE B == (0 .. n) \ G
<1> SUFFICES ASSUME B # {} PROVE FALSE
    OBVIOUS
<1>1. PICK k \in B : \A m \in 0 .. k - 1 : m \notin B
    <2>1. B \in SUBSET Nat
        OBVIOUS
    <2> HIDE DEF B
    <2> QED BY <2>1, LeastNumber
<1>2. k \in 1 .. n /\ k - 1 \in 0 .. k - 1 /\ k - 1 \in 0 .. n
    BY <1>1
<1> QED BY <1>1, <1>2

\* The largest of some positions.
LEMMA LargestPosition ==
    ASSUME NEW n \in Nat
    PROVE  \A s \in SUBSET (1 .. n) : s # {} => Max(s) \in s /\ \A y \in s : Max(s) >= y
<1>1. ASSUME NEW s \in SUBSET (1 .. n), s # {} PROVE \E x \in s : \A y \in s : x >= y
    <2> DEFINE B == {n - x : x \in s}
    <2>1. B \in SUBSET Nat /\ B # {}
        <3>1. \A x \in s : n - x \in Nat
            BY <1>1
        <3> QED BY <1>1, <3>1
    <2>2. PICK k \in B : \A m \in 0 .. k - 1 : m \notin B
        <3> HIDE DEF B
        <3> QED BY <2>1, LeastNumber
    <2>3. PICK x \in s : k = n - x
        BY <2>2
    <2>4. ASSUME NEW y \in s, ~ (x >= y) PROVE FALSE
        <3>1. n - y \in B /\ n - y \in 0 .. k - 1
            BY <2>3, <2>4
        <3> QED BY <2>2, <3>1
    <2> QED BY <2>4
<1> QED BY <1>1 DEF Max

\* The largest of some positions, and of the first ones.
LEMMA LastPosition ==
    ASSUME NEW n \in Nat
    PROVE  /\ \A s \in SUBSET (1 .. n) : s # {} => Max(s) \in s
           /\ \A i \in 1 .. n : /\ 1 .. i \in SUBSET (1 .. n) /\ 1 .. i # {}
                               /\ Max(1 .. i) = i /\ (1 .. i) \ {i} = 1 .. i - 1
           /\ 1 .. 0 = {}
<1>2. \A s \in SUBSET (1 .. n) : s # {} => Max(s) \in s /\ \A y \in s : Max(s) >= y
    BY LargestPosition
<1>3. ASSUME NEW i \in 1 .. n PROVE Max(1 .. i) = i
    <2>1. 1 .. i \in SUBSET (1 .. n) /\ i \in 1 .. i
        BY <1>3
    <2>2. Max(1 .. i) \in 1 .. i /\ Max(1 .. i) >= i
        BY <1>2, <2>1
    <2> QED BY <2>2
<1>4. \A i \in 1 .. n : /\ 1 .. i \in SUBSET (1 .. n) /\ 1 .. i # {}
                        /\ (1 .. i) \ {i} = 1 .. i - 1
    OBVIOUS
<1> QED BY <1>2, <1>3, <1>4

\* h is the fold that takes the positions in order.
InOrder(h, n, base, step) ==
    \A s \in SUBSET (1 .. n) :
       h[s] = IF s = {} THEN base ELSE step[<<Max(s), h[s \ {Max(s)}]>>]

\* Whatever the step is, there is such a fold.
LEMMA InOrderExists ==
    ASSUME NEW n \in Nat, NEW S, NEW base \in S, NEW step \in [(1 .. n) \X S -> S]
    PROVE  \E h \in [SUBSET (1 .. n) -> S] : InOrder(h, n, base, step)
<1> DEFINE c == [s \in SUBSET (1 .. n) |-> Max(s)]
<1>1. Chooses(c, 1 .. n)
    BY LastPosition DEF Chooses
<1>2. IsFiniteSet(1 .. n)
    BY FS_Interval
<1>3. PICK h \in [SUBSET (1 .. n) -> S] : IsFold(h, 1 .. n, base, c, step)
    <2> HIDE DEF c
    <2> QED BY <1>1, <1>2, FoldExists
<1>4. InOrder(h, n, base, step)
    BY <1>3 DEF IsFold, InOrder
<1> QED BY <1>4

\* What is in a set before and after each step stays in it.
LEMMA StaysIn ==
    ASSUME NEW n \in Nat, NEW T, NEW g, g[0] \in T,
           \A i \in 1 .. n : g[i - 1] \in T => g[i] \in T
    PROVE  \A i \in 0 .. n : g[i] \in T
<1> DEFINE G == {i \in 0 .. n : g[i] \in T}
<1>1. 0 \in G /\ G \in SUBSET (0 .. n)
    OBVIOUS
<1>2. ASSUME NEW i \in 1 .. n, i - 1 \in G PROVE i \in G
    BY <1>2
<1>3. \A i \in 0 .. n : i \in G
    <2> HIDE DEF G
    <2> QED BY <1>1, <1>2, UpTo
<1> QED BY <1>3

\* Such a fold stays in a set that its step does not leave.
LEMMA InOrderStays ==
    ASSUME NEW n \in Nat, NEW T, NEW h, h[{}] \in T,
           \A s \in SUBSET (1 .. n) : s # {} /\ h[s \ {Max(s)}] \in T => h[s] \in T
    PROVE  h[1 .. n] \in T
<1> DEFINE D == 1 .. n
           c == [s \in SUBSET D |-> Max(s)]
<1>1. IsFiniteSet(D) /\ Chooses(c, D)
    <2>1. IsFiniteSet(D)
        BY FS_Interval
    <2> QED BY <2>1, LastPosition DEF Chooses
<1>2. \A s \in SUBSET D : s # {} /\ h[s \ {c[s]}] \in T => h[s] \in T
    OBVIOUS
<1> HIDE DEF c, D
<1>3. \A s \in SUBSET D : h[s] \in T
    BY <1>1, <1>2, FoldStays
<1> QED BY <1>3 DEF D

\* h is such a fold as long as the results are in T.
InOrderWithin(h, n, T, base, step) ==
    /\ h[{}] = base
    /\ \A s \in SUBSET (1 .. n) :
          s # {} /\ h[s \ {Max(s)}] \in T => h[s] = step[<<Max(s), h[s \ {Max(s)}]>>]

\* g has the results of taking one position after the other, up to the last.
Steps(g, n, base, step, last) ==
    /\ g[0] = base
    /\ \A i \in 1 .. n : g[i] = step[<<i, g[i - 1]>>]
    /\ g[n] = last

\* A fold over the positions is the last of the results of taking one after the other.
LEMMA InOrderSteps ==
    ASSUME NEW n \in Nat, NEW T, NEW base \in T, NEW step \in [(1 .. n) \X T -> T],
           NEW h, InOrderWithin(h, n, T, base, step)
    PROVE  \E g \in [0 .. n -> T] : Steps(g, n, base, step, h[1 .. n])
<1> USE DEF InOrderWithin
<1> DEFINE g == [i \in 0 .. n |-> h[1 .. i]]
<1>1. g[0] = base
    <2>1. 1 .. 0 = {} /\ 0 \in 0 .. n
        OBVIOUS
    <2>2. g[0] = h[1 .. 0]
        BY <2>1
    <2> QED BY <2>1, <2>2
<1>2. ASSUME NEW i \in 1 .. n, g[i - 1] \in T PROVE g[i] = step[<<i, g[i - 1]>>]
    <2>1. /\ 1 .. i \in SUBSET (1 .. n) /\ 1 .. i # {}
          /\ Max(1 .. i) = i /\ (1 .. i) \ {i} = 1 .. i - 1
        BY LastPosition
    <2>2. i \in 0 .. n /\ i - 1 \in 0 .. n
        OBVIOUS
    <2>3. g[i] = h[1 .. i] /\ g[i - 1] = h[1 .. i - 1]
        BY <2>2
    <2>4. h[(1 .. i) \ {Max(1 .. i)}] = g[i - 1]
        BY <2>1, <2>3
    <2> HIDE DEF g
    <2>5. h[1 .. i] = step[<<Max(1 .. i), h[(1 .. i) \ {Max(1 .. i)}]>>]
        BY <1>2, <2>1, <2>4
    <2> QED BY <2>1, <2>3, <2>4, <2>5
<1>3. g[n] = h[1 .. n] /\ DOMAIN g = 0 .. n /\ g = [i \in 0 .. n |-> g[i]]
    OBVIOUS
<1> HIDE DEF g
<1>4. ASSUME NEW i \in 1 .. n, g[i - 1] \in T PROVE g[i] \in T
    BY <1>2, <1>4
<1>5. \A i \in 0 .. n : g[i] \in T
    BY <1>1, <1>4, StaysIn
<1>6. \A i \in 1 .. n : g[i] = step[<<i, g[i - 1]>>]
    BY <1>2, <1>5
<1>7. g \in [0 .. n -> T]
    BY <1>3, <1>5
<1> QED BY <1>1, <1>3, <1>6, <1>7 DEF Steps

-----------------------------------------------------------------------------
(* Sums. *)

\* The sum of f over D, as the modules write it: the lambda applies a function.
SumOver(f, D) == MapThenSumSet(LAMBDA x : f[x], D)

\* h is the sum of f over the subsets of D, in whatever order the elements are taken.
Adds(h, f, D) ==
    /\ h[{}] = 0
    /\ \A s \in SUBSET D : s # {} => \E x \in s : h[s] = f[x] + h[s \ {x}]

AddsAny(h, f, D) ==
    /\ h \in [SUBSET D -> Int]
    /\ h[{}] = 0
    /\ \A s \in SUBSET D : \A x \in s : h[s] = f[x] + h[s \ {x}]

\* The sum of the community modules adds the elements of D, in any order.
LEMMA SumAdds ==
    ASSUME NEW D, IsFiniteSet(D), NEW f, \A x \in D : f[x] \in Int
    PROVE  \E h : AddsAny(h, f, D) /\ SumOver(f, D) = h[D]
<1> DEFINE c == [s \in SUBSET D |-> CHOOSE x \in s : TRUE]
           step == [p \in D \X Int |-> f[p[1]] + p[2]]
           Sums(h) == h = [s \in SUBSET D |->
                             IF s = {} THEN 0
                             ELSE LET x == CHOOSE y \in s : TRUE IN f[x] + h[s \ {x}]]
           iter == CHOOSE h : Sums(h)
<1>1. Chooses(c, D)
    BY DEF Chooses
<1>2. \E h \in [SUBSET D -> Int] : IsFold(h, D, 0, c, step)
    <2>1. step \in [D \X Int -> Int]
        OBVIOUS
    <2>2. 0 \in Int
        OBVIOUS
    <2> HIDE DEF c, step, Sums, iter
    <2> QED BY <1>1, <2>1, <2>2, FoldExists
<1>3. PICK h0 \in [SUBSET D -> Int] :
          \A s \in SUBSET D : h0[s] = IF s = {} THEN 0 ELSE step[<<c[s], h0[s \ {c[s]}]>>]
    BY <1>2 DEF IsFold
<1>4. Sums(h0)
    <2>1. ASSUME NEW s \in SUBSET D, s # {} PROVE h0[s] = f[CHOOSE y \in s : TRUE] + h0[s \ {CHOOSE y \in s : TRUE}]
        <3>1. c[s] \in s /\ c[s] = (CHOOSE y \in s : TRUE)
            BY <2>1
        <3>2. h0[s \ {c[s]}] \in Int /\ c[s] \in D
            BY <3>1
        <3>3. h0[s] = step[<<c[s], h0[s \ {c[s]}]>>]
            BY <1>3, <2>1
        <3> HIDE DEF c
        <3>4. h0[s] = f[c[s]] + h0[s \ {c[s]}]
            BY <3>2, <3>3
        <3> QED BY <3>1, <3>4
    <2> QED BY <1>3, <2>1
<1>5. Sums(iter)
    <2> HIDE DEF Sums
    <2> QED BY <1>4
<1>6. SumOver(f, D) = iter[D]
    BY DEF SumOver, MapThenSumSet, MapThenFoldSet
<1> HIDE DEF iter
<1>7. \A s \in SUBSET D : iter[s] = IF s = {} THEN 0 ELSE f[c[s]] + iter[s \ {c[s]}]
    BY <1>5
<1>8. DOMAIN iter = SUBSET D /\ iter = [s \in SUBSET D |-> iter[s]]
    BY <1>5
<1> HIDE DEF c, step, Sums
<1>9. \A s \in SUBSET D : iter[s] \in Int
    <2>1. iter[{}] \in Int
        <3>1. iter[{}] = 0
            BY <1>7
        <3> QED BY <3>1
    <2>2. \A s \in SUBSET D : s # {} /\ iter[s \ {c[s]}] \in Int => iter[s] \in Int
        <3> SUFFICES ASSUME NEW s \in SUBSET D, s # {}, iter[s \ {c[s]}] \in Int
                     PROVE  iter[s] \in Int
            OBVIOUS
        <3>1. c[s] \in D
            BY <1>1 DEF Chooses
        <3> QED BY <1>7, <3>1
    <2> QED BY <1>1, <2>1, <2>2, FoldStays
<1>10. \A s \in SUBSET D : \A x \in s : iter[s] = f[x] + iter[s \ {x}]
    <2> DEFINE B == {s \in SUBSET D : \E x \in s : iter[s] # f[x] + iter[s \ {x}]}
    <2> SUFFICES ASSUME B # {} PROVE FALSE
        OBVIOUS
    <2>1. PICK s \in B : \A t \in SUBSET s : t # s => t \notin B
        <3>1. B \in SUBSET (SUBSET D)
            OBVIOUS
        <3> HIDE DEF B
        <3> QED BY <3>1, SmallestSubset
    <2>2. PICK x \in s : iter[s] # f[x] + iter[s \ {x}]
        BY <2>1
    <2>3. c[s] \in s /\ iter[s] = f[c[s]] + iter[s \ {c[s]}]
        BY <1>1, <1>7, <2>1, <2>2 DEF Chooses
    <2>4. x # c[s]
        BY <2>2, <2>3
    <2> DEFINE r == (s \ {x}) \ {c[s]}
    <2>5. r = (s \ {c[s]}) \ {x} /\ r \in SUBSET D
        BY <2>1
    <2>6. iter[s \ {c[s]}] = f[x] + iter[r]
        <3>1. s \ {c[s]} \in SUBSET s /\ s \ {c[s]} # s /\ s \ {c[s]} \in SUBSET D /\ x \in s \ {c[s]}
            BY <2>1, <2>2, <2>3, <2>4
        <3>2. s \ {c[s]} \notin B
            BY <2>1, <3>1
        <3> QED BY <2>5, <3>1, <3>2
    <2>7. iter[s \ {x}] = f[c[s]] + iter[r]
        <3>1. s \ {x} \in SUBSET s /\ s \ {x} # s /\ s \ {x} \in SUBSET D /\ c[s] \in s \ {x}
            BY <2>1, <2>2, <2>3, <2>4
        <3>2. s \ {x} \notin B
            BY <2>1, <3>1
        <3> QED BY <3>1, <3>2
    <2>8. iter[r] \in Int /\ f[x] \in Int /\ f[c[s]] \in Int
        BY <1>9, <2>1, <2>2, <2>3, <2>5
    <2> HIDE DEF r, B
    <2> QED BY <2>2, <2>3, <2>6, <2>7, <2>8
<1> QED BY <1>6, <1>7, <1>8, <1>9, <1>10 DEF AddsAny

\* There is one such function.
LEMMA AddsOnce ==
    ASSUME NEW D, IsFiniteSet(D), NEW f, NEW h, NEW g, AddsAny(h, f, D), Adds(g, f, D)
    PROVE  \A s \in SUBSET D : g[s] = h[s]
<1> DEFINE B == {s \in SUBSET D : g[s] # h[s]}
<1> SUFFICES ASSUME B # {} PROVE FALSE
    OBVIOUS
<1>1. PICK s \in B : \A t \in SUBSET s : t # s => t \notin B
    <2>1. B \in SUBSET (SUBSET D)
        OBVIOUS
    <2> HIDE DEF B
    <2> QED BY <2>1, SmallestSubset
<1>2. s # {}
    BY <1>1 DEF Adds, AddsAny
<1>3. PICK x \in s : g[s] = f[x] + g[s \ {x}]
    BY <1>1, <1>2 DEF Adds
<1>4. g[s \ {x}] = h[s \ {x}]
    BY <1>1
<1>5. h[s] = f[x] + h[s \ {x}]
    BY <1>1 DEF AddsAny
<1> QED BY <1>1, <1>3, <1>4, <1>5

\* A function that agrees with f on D has the same sum.
LEMMA SumAgrees ==
    ASSUME NEW D, IsFiniteSet(D), NEW f, NEW g,
           \A x \in D : f[x] \in Int /\ g[x] = f[x]
    PROVE  SumOver(g, D) = SumOver(f, D)
<1>1. PICK h : AddsAny(h, f, D) /\ SumOver(f, D) = h[D]
    BY SumAdds
<1>2. PICK k : AddsAny(k, g, D) /\ SumOver(g, D) = k[D]
    BY SumAdds
<1>3. Adds(h, g, D)
    BY <1>1 DEF Adds, AddsAny
<1> QED BY <1>1, <1>2, <1>3, AddsOnce

\* The sum of nothing is zero.
LEMMA SumEmpty ==
    ASSUME NEW f
    PROVE  SumOver(f, {}) = 0
BY SumAdds, FS_EmptySet DEF AddsAny

\* The sum over one element more.
LEMMA SumAddElement ==
    ASSUME NEW D, IsFiniteSet(D), NEW f, NEW x, x \notin D, \A y \in D \union {x} : f[y] \in Int
    PROVE  SumOver(f, D \union {x}) = f[x] + SumOver(f, D)
<1>1. IsFiniteSet(D \union {x})
    BY FS_AddElement
<1>2. PICK h : AddsAny(h, f, D \union {x}) /\ SumOver(f, D \union {x}) = h[D \union {x}]
    BY <1>1, SumAdds
<1>3. PICK k : AddsAny(k, f, D) /\ SumOver(f, D) = k[D]
    BY SumAdds
<1>4. Adds(h, f, D)
    BY <1>2 DEF Adds, AddsAny
<1>5. h[D] = k[D]
    BY <1>3, <1>4, AddsOnce
<1>6. (D \union {x}) \ {x} = D
    OBVIOUS
<1>7. h[D \union {x}] = f[x] + h[(D \union {x}) \ {x}]
    BY <1>2 DEF AddsAny
<1> QED BY <1>2, <1>3, <1>5, <1>6, <1>7

\* A sum of integers is one.
LEMMA SumIsInteger ==
    ASSUME NEW D, IsFiniteSet(D), NEW f, \A x \in D : f[x] \in Int
    PROVE  SumOver(f, D) \in Int
<1>1. PICK h : AddsAny(h, f, D) /\ SumOver(f, D) = h[D]
    BY SumAdds
<1> QED BY <1>1 DEF AddsAny

\* Changing f at one element changes the sum by the difference.
LEMMA SumChange ==
    ASSUME NEW D, IsFiniteSet(D), NEW x \in D, NEW f, NEW g,
           \A y \in D : f[y] \in Int,
           g[x] \in Int, \A y \in D \ {x} : g[y] = f[y]
    PROVE  SumOver(g, D) = SumOver(f, D) - f[x] + g[x]
<1> DEFINE E == D \ {x}
<1>1. IsFiniteSet(E) /\ x \notin E /\ E \union {x} = D
    BY FS_RemoveElement
<1>2. SumOver(f, E \union {x}) = f[x] + SumOver(f, E)
    BY <1>1, SumAddElement
<1>3. SumOver(g, E \union {x}) = g[x] + SumOver(g, E)
    BY <1>1, SumAddElement
<1>4. SumOver(g, E) = SumOver(f, E) /\ SumOver(f, E) \in Int
    BY <1>1, SumAgrees, SumIsInteger
<1>5. f[x] \in Int /\ g[x] \in Int
    OBVIOUS
<1>6. SumOver(f, D) = f[x] + SumOver(f, E) /\ SumOver(g, D) = g[x] + SumOver(f, E)
    BY <1>1, <1>2, <1>3, <1>4
<1> HIDE DEF E
<1> QED BY <1>4, <1>5, <1>6

\* Two functions whose sums differ by what they differ at one element.
SumsDiffer(f, g, x, D) ==
    /\ SumOver(f, D) \in Int
    /\ SumOver(g, D) \in Int
    /\ SumOver(g, D) - SumOver(f, D) = g[x] - f[x]

\* The same for a quantity that one step changes for one holder.
LEMMA SumMoves ==
    ASSUME NEW D, IsFiniteSet(D), NEW f \in [D -> Nat], NEW g \in [D -> Nat], NEW x \in D,
           \A y \in D \ {x} : g[y] = f[y]
    PROVE  SumsDiffer(f, g, x, D)
<1>1. \A y \in D : f[y] \in Int
    OBVIOUS
<1>2. \A y \in D : g[y] \in Int
    OBVIOUS
<1>3. g[x] \in Int /\ f[x] \in Int
    OBVIOUS
<1>4. SumOver(g, D) = SumOver(f, D) - f[x] + g[x]
    BY <1>1, <1>3, SumChange
<1>5. SumOver(f, D) \in Int /\ SumOver(g, D) \in Int
    BY <1>1, <1>2, SumIsInteger
<1> QED BY <1>3, <1>4, <1>5 DEF SumsDiffer

\* What is at most g everywhere adds up to at most the sum of g.
LEMMA SumBounded ==
    ASSUME NEW D, IsFiniteSet(D), NEW f, NEW g,
           \A x \in D : f[x] \in Int /\ g[x] \in Int /\ f[x] <= g[x]
    PROVE  SumOver(f, D) <= SumOver(g, D)
<1>1. PICK h : AddsAny(h, f, D) /\ SumOver(f, D) = h[D]
    BY SumAdds
<1>2. PICK k : AddsAny(k, g, D) /\ SumOver(g, D) = k[D]
    BY SumAdds
<1> DEFINE B == {s \in SUBSET D : ~ (h[s] <= k[s])}
<1> SUFFICES ASSUME B # {} PROVE FALSE
    BY <1>1, <1>2
<1>3. PICK s \in B : \A t \in SUBSET s : t # s => t \notin B
    <2>1. B \in SUBSET (SUBSET D)
        OBVIOUS
    <2> HIDE DEF B
    <2> QED BY <2>1, SmallestSubset
<1>4. s # {}
    <2>1. h[{}] = 0 /\ k[{}] = 0
        BY <1>1, <1>2 DEF AddsAny
    <2>2. ~ (h[s] <= k[s])
        BY <1>3
    <2> HIDE DEF B
    <2> QED BY <2>1, <2>2
<1> PICK x \in s : TRUE
    BY <1>4
<1>5. h[s \ {x}] <= k[s \ {x}] /\ h[s \ {x}] \in Int /\ k[s \ {x}] \in Int
    BY <1>1, <1>2, <1>3 DEF AddsAny
<1>6. h[s] = f[x] + h[s \ {x}] /\ k[s] = g[x] + k[s \ {x}]
    BY <1>1, <1>2, <1>3 DEF AddsAny
<1>7. x \in D
    BY <1>3
<1> QED BY <1>3, <1>5, <1>6, <1>7

\* Zeros add up to zero.
LEMMA SumOfZeros ==
    ASSUME NEW D, IsFiniteSet(D), NEW f, \A x \in D : f[x] = 0
    PROVE  SumOver(f, D) = 0
<1>1. PICK h : AddsAny(h, f, D) /\ SumOver(f, D) = h[D]
    BY SumAdds
<1>2. \A s \in SUBSET D : [t \in SUBSET D |-> 0][s] = h[s]
    <2>1. Adds([t \in SUBSET D |-> 0], f, D)
        BY DEF Adds
    <2> QED BY <1>1, <2>1, AddsOnce
<1> QED BY <1>1, <1>2

\* No element of natural numbers is more than their sum.
LEMMA SumOfNaturals ==
    ASSUME NEW D, IsFiniteSet(D), NEW f, \A x \in D : f[x] \in Nat
    PROVE  SumOver(f, D) \in Nat /\ \A x \in D : f[x] <= SumOver(f, D)
<1>1. SumOver(f, D) \in Int /\ SumOver(f, D) >= 0
    <2> DEFINE z == [x \in D |-> 0]
    <2>1. SumOver(z, D) = 0
        BY SumOfZeros
    <2>2. \A x \in D : z[x] \in Int /\ f[x] \in Int /\ z[x] <= f[x]
        OBVIOUS
    <2> HIDE DEF z
    <2> QED BY <2>1, <2>2, SumBounded, SumIsInteger
<1>2. ASSUME NEW x \in D PROVE f[x] <= SumOver(f, D)
    <2> DEFINE z == [y \in D |-> IF y = x THEN f[x] ELSE 0]
               o == [y \in D |-> 0]
    <2>1. SumOver(o, D) = 0
        BY SumOfZeros
    <2>2. SumOver(z, D) = SumOver(o, D) - o[x] + z[x]
        <3>1. /\ \A y \in D : o[y] \in Int
              /\ z[x] \in Int /\ \A y \in D \ {x} : z[y] = o[y]
            OBVIOUS
        <3> HIDE DEF z, o
        <3> QED BY <3>1, SumChange
    <2>3. \A y \in D : z[y] \in Int /\ f[y] \in Int /\ z[y] <= f[y]
        OBVIOUS
    <2>4. SumOver(z, D) <= SumOver(f, D)
        <3> HIDE DEF z
        <3> QED BY <2>3, SumBounded
    <2> QED BY <1>1, <2>1, <2>2, <2>4
<1> QED BY <1>1, <1>2

\* The sum over one position more.
LEMMA SumExtends ==
    ASSUME NEW n \in Nat, NEW f, NEW g,
           \A i \in 1 .. n : f[i] \in Int /\ g[i] = f[i], g[n + 1] \in Int
    PROVE  SumOver(g, 1 .. n + 1) = SumOver(f, 1 .. n) + g[n + 1]
<1>1. IsFiniteSet(1 .. n) /\ n + 1 \notin 1 .. n /\ 1 .. n + 1 = (1 .. n) \union {n + 1}
    <2>1. IsFiniteSet(1 .. n)
        BY FS_Interval
    <2> QED BY <2>1
<1>2. SumOver(g, 1 .. n) = SumOver(f, 1 .. n)
    BY <1>1, SumAgrees
<1>3. \A i \in (1 .. n) \union {n + 1} : g[i] \in Int
    OBVIOUS
<1>4. SumOver(g, (1 .. n) \union {n + 1}) = g[n + 1] + SumOver(g, 1 .. n)
    BY <1>1, <1>3, SumAddElement
<1>5. SumOver(f, 1 .. n) \in Int
    BY <1>1, SumIsInteger
<1> DEFINE a == SumOver(g, 1 .. n + 1)
           b == SumOver(f, 1 .. n)
           c == g[n + 1]
<1>6. a = c + b /\ b \in Int /\ c \in Int
    BY <1>1, <1>2, <1>4, <1>5
<1> HIDE DEF a, b, c
<1>7. a = b + c
    BY <1>6
<1> QED BY <1>7 DEF a, b, c

\* The sum over two sets that share nothing.
LEMMA SumUnion ==
    ASSUME NEW A, IsFiniteSet(A), NEW D, IsFiniteSet(D), A \intersect D = {},
           NEW f, \A x \in A \union D : f[x] \in Int
    PROVE  SumOver(f, A \union D) = SumOver(f, A) + SumOver(f, D)
<1> DEFINE B == {s \in SUBSET D : SumOver(f, A \union s) # SumOver(f, A) + SumOver(f, s)}
<1>1. SUFFICES ASSUME B # {} PROVE FALSE
    OBVIOUS
<1>2. PICK s \in B : \A t \in SUBSET s : t # s => t \notin B
    <2> HIDE DEF B
    <2>1. B \in SUBSET (SUBSET D)
        BY DEF B
    <2> QED BY <1>1, <2>1, SmallestSubset
<1>3. s \in SUBSET D /\ SumOver(f, A \union s) # SumOver(f, A) + SumOver(f, s)
    OBVIOUS
<1>4. SumOver(f, A) \in Int
    BY SumIsInteger
<1>5. s # {}
    <2> SUFFICES ASSUME s = {} PROVE FALSE
        OBVIOUS
    <2>1. SumOver(f, s) = 0 /\ A \union s = A
        BY SumEmpty
    <2>2. SumOver(f, A) # SumOver(f, A) + 0
        BY <1>3, <2>1
    <2> QED BY <1>4, <2>2
<1>6. PICK x \in s : TRUE
    BY <1>5
<1> DEFINE t == s \ {x}
<1>7. t \in SUBSET s /\ t # s /\ t \in SUBSET D /\ x \notin t /\ s = t \union {x}
    BY <1>3
<1>8. SumOver(f, A \union t) = SumOver(f, A) + SumOver(f, t)
    BY <1>2, <1>7
<1> HIDE DEF t
<1>9. IsFiniteSet(t) /\ IsFiniteSet(A \union t)
    BY <1>7, FS_Subset, FS_Union
<1>10. /\ x \in D /\ x \notin A \union t /\ A \union s = (A \union t) \union {x}
       /\ \A y \in (A \union t) \union {x} : f[y] \in Int
       /\ \A y \in t \union {x} : f[y] \in Int
    BY <1>3, <1>7
<1>11. SumOver(f, (A \union t) \union {x}) = f[x] + SumOver(f, A \union t)
    BY <1>9, <1>10, SumAddElement
<1>12. SumOver(f, t \union {x}) = f[x] + SumOver(f, t)
    BY <1>7, <1>9, <1>10, SumAddElement
<1>13. SumOver(f, t) \in Int /\ f[x] \in Int
    <2>1. \A y \in t : f[y] \in Int
        BY <1>10
    <2> QED BY <1>9, <1>10, <2>1, SumIsInteger
<1> DEFINE p == SumOver(f, A \union s)
           q == SumOver(f, s)
           a == SumOver(f, A)
           b == SumOver(f, t)
           c == f[x]
<1>14. p = c + (a + b) /\ q = c + b /\ a \in Int /\ b \in Int /\ c \in Int /\ p # a + q
    BY <1>3, <1>4, <1>7, <1>8, <1>10, <1>11, <1>12, <1>13
<1> HIDE DEF p, q, a, b, c
<1> QED BY <1>14

\* A sum of sums.
LEMMA SumPlus ==
    ASSUME NEW D, IsFiniteSet(D), NEW f, NEW g, NEW e,
           \A x \in D : f[x] \in Int /\ g[x] \in Int /\ e[x] = f[x] + g[x]
    PROVE  SumOver(e, D) = SumOver(f, D) + SumOver(g, D)
<1>1. PICK h : AddsAny(h, f, D) /\ SumOver(f, D) = h[D]
    BY SumAdds
<1>2. PICK k : AddsAny(k, g, D) /\ SumOver(g, D) = k[D]
    BY SumAdds
<1>3. PICK m : AddsAny(m, e, D) /\ SumOver(e, D) = m[D]
    BY SumAdds
<1> DEFINE B == {s \in SUBSET D : m[s] # h[s] + k[s]}
<1>4. SUFFICES ASSUME B # {} PROVE FALSE
    BY <1>1, <1>2, <1>3
<1>5. PICK s \in B : \A t \in SUBSET s : t # s => t \notin B
    <2>1. B \in SUBSET (SUBSET D)
        OBVIOUS
    <2> HIDE DEF B
    <2> QED BY <1>4, <2>1, SmallestSubset
<1>6. ASSUME s = {} PROVE FALSE
    <2>1. m[{}] = 0 /\ h[{}] = 0 /\ k[{}] = 0
        BY <1>1, <1>2, <1>3 DEF AddsAny
    <2>2. m[{}] # h[{}] + k[{}]
        BY <1>6
    <2> QED BY <2>1, <2>2
<1>7. PICK x \in s : TRUE
    BY <1>6
<1>8. s \in SUBSET D /\ s \ {x} \in SUBSET s /\ s \ {x} # s /\ s \ {x} \in SUBSET D /\ x \in D
    BY <1>7
<1>9. m[s \ {x}] = h[s \ {x}] + k[s \ {x}]
    BY <1>5, <1>8
<1>10. m[s] = e[x] + m[s \ {x}] /\ h[s] = f[x] + h[s \ {x}] /\ k[s] = g[x] + k[s \ {x}]
    BY <1>1, <1>2, <1>3, <1>7, <1>8 DEF AddsAny
<1>11. h[s \ {x}] \in Int /\ k[s \ {x}] \in Int /\ f[x] \in Int /\ g[x] \in Int
    BY <1>1, <1>2, <1>8 DEF AddsAny
<1> QED BY <1>5, <1>8, <1>9, <1>10, <1>11

\* The sum over what an injection maps to.
LEMMA SumRenamed ==
    ASSUME NEW D, IsFiniteSet(D), NEW p, \A x, y \in D : p[x] = p[y] => x = y,
           NEW f, NEW g, \A x \in D : f[p[x]] \in Int /\ g[x] = f[p[x]]
    PROVE  SumOver(g, D) = SumOver(f, {p[x] : x \in D})
<1> DEFINE I(s) == {p[x] : x \in s}
           B == {s \in SUBSET D : SumOver(g, s) # SumOver(f, I(s))}
<1>1. SUFFICES ASSUME B # {} PROVE FALSE
    OBVIOUS
<1>2. PICK s \in B : \A t \in SUBSET s : t # s => t \notin B
    <2> HIDE DEF B
    <2>1. B \in SUBSET (SUBSET D)
        BY DEF B
    <2> QED BY <1>1, <2>1, SmallestSubset
<1>3. s \in SUBSET D /\ SumOver(g, s) # SumOver(f, I(s))
    OBVIOUS
<1>4. s # {}
    <2>1. SumOver(f, {}) = 0 /\ SumOver(g, {}) = 0 /\ I({}) = {}
        BY SumEmpty
    <2> QED BY <1>3, <2>1
<1>5. PICK x \in s : TRUE
    BY <1>4
<1> DEFINE t == s \ {x}
<1>6. t \in SUBSET s /\ t # s /\ t \in SUBSET D /\ x \notin t /\ s = t \union {x} /\ x \in D
    BY <1>3
<1>7. SumOver(g, t) = SumOver(f, I(t))
    BY <1>2, <1>6
<1> HIDE DEF t
<1>8. I(s) = I(t) \union {p[x]} /\ p[x] \notin I(t)
    BY <1>6
<1>9. IsFiniteSet(t) /\ IsFiniteSet(I(t))
    <2>1. IsFiniteSet(t)
        BY <1>6, FS_Subset
    <2> DEFINE q == [y \in t |-> p[y]]
               J == {q[y] : y \in t}
    <2>2. q \in [t -> I(t)] /\ J = I(t)
        OBVIOUS
    <2>3. q \in Surjection(t, I(t))
        BY <2>2 DEF Surjection
    <2> HIDE DEF q, J, I
    <2>4. IsFiniteSet(I(t))
        BY <2>1, <2>3, FS_Surjection
    <2> QED BY <2>1, <2>4
<1>10. SumOver(g, t \union {x}) = g[x] + SumOver(g, t)
    <2>1. \A y \in t \union {x} : g[y] \in Int
        BY <1>6
    <2> QED BY <1>6, <1>9, <2>1, SumAddElement
<1>11. SumOver(f, I(t) \union {p[x]}) = f[p[x]] + SumOver(f, I(t))
    <2>1. \A y \in I(t) \union {p[x]} : f[y] \in Int
        BY <1>6
    <2> HIDE DEF I
    <2> QED BY <1>8, <1>9, <2>1, SumAddElement
<1>12. g[x] = f[p[x]]
    BY <1>6
<1> HIDE DEF I
<1> QED BY <1>3, <1>6, <1>7, <1>8, <1>10, <1>11, <1>12

\* What a set is mapped onto, one to one, has as many elements.
LEMMA ImageSize ==
    ASSUME NEW D, IsFiniteSet(D), NEW S, NEW p, \A x \in D : p[x] \in S,
           \A x, y \in D : p[x] = p[y] => x = y, \A y \in S : \E x \in D : p[x] = y
    PROVE  IsFiniteSet(S) /\ Cardinality(S) = Cardinality(D)
<1> DEFINE q == [x \in D |-> p[x]]
<1>1. q \in [D -> S] /\ DOMAIN q = D /\ \A x \in D : q[x] = p[x]
    OBVIOUS
<1> HIDE DEF q
<1>2. IsInjective(q)
    BY <1>1 DEF IsInjective
<1>3. q \in Surjection(D, S)
    BY <1>1 DEF Surjection
<1>4. ExistsBijection(D, S)
    BY <1>1, <1>2, <1>3 DEF ExistsBijection, Bijection, Injection
<1> QED BY <1>4, FS_Bijection

\* What a finite set is mapped onto is finite, and no larger.
LEMMA OntoSize ==
    ASSUME NEW D, IsFiniteSet(D), NEW S, NEW p, \A y \in S : \E x \in D : p[x] = y
    PROVE  IsFiniteSet(S) /\ Cardinality(S) \in Nat /\ Cardinality(S) <= Cardinality(D)
<1> DEFINE E == {x \in D : p[x] \in S}
           q == [x \in E |-> p[x]]
<1>1. IsFiniteSet(E) /\ Cardinality(E) <= Cardinality(D)
    <2>1. E \in SUBSET D
        OBVIOUS
    <2> HIDE DEF E
    <2> QED BY <2>1, FS_Subset
<1>2. q \in Surjection(E, S)
    BY DEF Surjection
<1> HIDE DEF E, q
<1>3. IsFiniteSet(S) /\ Cardinality(S) <= Cardinality(E)
    BY <1>1, <1>2, FS_Surjection
<1>4. Cardinality(S) \in Nat /\ Cardinality(E) \in Nat /\ Cardinality(D) \in Nat
    BY <1>1, <1>3, FS_CardinalityType
<1> QED BY <1>1, <1>3, <1>4

-----------------------------------------------------------------------------
(* Sequences: the elements they have, and that none of them comes twice. *)

\* The elements of a sequence behind another one.
LEMMA ConcatParts ==
    ASSUME NEW S, NEW u \in Seq(S), NEW v \in Seq(S)
    PROVE  /\ u \o v \in Seq(S)
           /\ Len(u \o v) = Len(u) + Len(v)
           /\ \A k \in 1 .. Len(u) : (u \o v)[k] = u[k]
           /\ \A k \in 1 .. Len(v) : (u \o v)[Len(u) + k] = v[k]
<1>1. Len(u) \in Nat /\ Len(v) \in Nat
    OBVIOUS
<1>2. u \o v \in Seq(S) /\ Len(u \o v) = Len(u) + Len(v)
      /\ \A i \in 1 .. Len(u) + Len(v) :
            (u \o v)[i] = IF i <= Len(u) THEN u[i] ELSE v[i - Len(u)]
    BY ConcatProperties
<1>3. ASSUME NEW k \in 1 .. Len(u) PROVE (u \o v)[k] = u[k]
    BY <1>1, <1>2
<1>4. ASSUME NEW k \in 1 .. Len(v) PROVE (u \o v)[Len(u) + k] = v[k]
    <2>1. Len(u) + k \in 1 .. Len(u) + Len(v) /\ ~ Len(u) + k <= Len(u) /\ (Len(u) + k) - Len(u) = k
        BY <1>1
    <2>2. (u \o v)[Len(u) + k] =
              IF Len(u) + k <= Len(u) THEN u[Len(u) + k] ELSE v[(Len(u) + k) - Len(u)]
        BY ONLY <1>2, <2>1
    <2> QED BY <2>1, <2>2
<1> QED BY <1>2, <1>3, <1>4

\* Element by element, what InsertAt makes.
LEMMA InsertAtElements ==
    ASSUME NEW S, NEW q \in Seq(S), NEW x \in S, NEW k \in 1 .. Len(q) + 1
    PROVE  /\ InsertAt(q, k, x) \in Seq(S)
           /\ Len(InsertAt(q, k, x)) = Len(q) + 1
           /\ \A i \in 1 .. Len(q) + 1 :
                 InsertAt(q, k, x)[i] = IF i < k THEN q[i] ELSE IF i = k THEN x ELSE q[i - 1]
<1> DEFINE a == SubSeq(q, 1, k - 1)
           b == SubSeq(q, k, Len(q))
<1>1. /\ a \in Seq(S) /\ Len(a) = k - 1 /\ \A i \in 1 .. k - 1 : a[i] = q[i]
      /\ b \in Seq(S) /\ Len(b) = Len(q) - k + 1
      /\ \A i \in 1 .. Len(q) - k + 1 : b[i] = q[k + i - 1]
    BY SubSeqProperties
<1>2. <<x>> \in Seq(S) /\ Len(<<x>>) = 1 /\ <<x>>[1] = x
    OBVIOUS
<1> HIDE DEF a, b
<1> DEFINE c == a \o <<x>>
<1>3. c \in Seq(S) /\ Len(c) = k /\ \A i \in 1 .. k : c[i] = IF i < k THEN q[i] ELSE x
    BY <1>1, <1>2, ConcatProperties
<1> HIDE DEF c
<1>4. /\ c \o b \in Seq(S) /\ Len(c \o b) = Len(q) + 1
      /\ \A i \in 1 .. Len(q) + 1 :
            (c \o b)[i] = IF i <= k THEN c[i] ELSE b[i - k]
    <2>1. /\ c \o b \in Seq(S) /\ Len(c \o b) = Len(c) + Len(b)
          /\ \A i \in 1 .. Len(c) + Len(b) :
                (c \o b)[i] = IF i <= Len(c) THEN c[i] ELSE b[i - Len(c)]
        BY ONLY <1>1, <1>3, ConcatProperties
    <2>2. Len(c) = k /\ Len(c) + Len(b) = Len(q) + 1
        BY <1>1, <1>3
    <2> QED BY <2>1, <2>2
<1>5. \A i \in 1 .. Len(q) + 1 :
         (c \o b)[i] = IF i < k THEN q[i] ELSE IF i = k THEN x ELSE q[i - 1]
    BY <1>1, <1>3, <1>4
<1> QED BY <1>4, <1>5 DEF InsertAt, a, b, c

\* Element by element, what RemoveFirst leaves.
LEMMA RemoveElements ==
    ASSUME NEW S, NEW q \in Seq(S), NEW x
    PROVE  /\ RemoveFirst(q, x) \in Seq(S)
           /\ IF x \notin ToSet(q) THEN RemoveFirst(q, x) = q
              ELSE \E k \in 1 .. Len(q) :
                      /\ q[k] = x
                      /\ Len(RemoveFirst(q, x)) = Len(q) - 1
                      /\ \A i \in 1 .. Len(q) - 1 :
                            RemoveFirst(q, x)[i] = IF i < k THEN q[i] ELSE q[i + 1]
<1>1. CASE x \notin ToSet(q)
    BY <1>1 DEF RemoveFirst, ToSet
<1>2. CASE x \in ToSet(q)
    <2> DEFINE I == {i \in 1 .. Len(q) : q[i] = x}
               k == Min(I)
    <2>1. I \in SUBSET Nat /\ I # {}
        BY <1>2 DEF ToSet
    <2>2. k \in I
        <3>1. PICK m \in I : \A j \in 0 .. m - 1 : j \notin I
            <4> HIDE DEF I
            <4> QED BY <2>1, LeastNumber
        <3>2. \A j \in I : m <= j
            BY <3>1
        <3> QED BY <3>1, <3>2 DEF Min
    <2>3. RemoveFirst(q, x) = RemoveAt(q, k)
        BY <2>2 DEF RemoveFirst, SelectInSeq
    <2>4. k \in 1 .. Len(q) /\ q[k] = x
        BY <2>2
    <2> HIDE DEF k
    <2> DEFINE a == SubSeq(q, 1, k - 1)
               b == SubSeq(q, k + 1, Len(q))
    <2>5. /\ a \in Seq(S) /\ Len(a) = k - 1 /\ \A i \in 1 .. k - 1 : a[i] = q[i]
          /\ b \in Seq(S) /\ Len(b) = Len(q) - k
          /\ \A i \in 1 .. Len(q) - k : b[i] = q[k + i]
        BY <2>4, SubSeqProperties
    <2> HIDE DEF a, b
    <2>6. /\ a \o b \in Seq(S) /\ Len(a \o b) = Len(q) - 1
          /\ \A i \in 1 .. Len(q) - 1 : (a \o b)[i] = IF i < k THEN q[i] ELSE q[i + 1]
        <3>1. /\ a \o b \in Seq(S) /\ Len(a \o b) = Len(q) - 1
              /\ \A i \in 1 .. Len(q) - 1 :
                    (a \o b)[i] = IF i <= k - 1 THEN a[i] ELSE b[i - (k - 1)]
            <4>1. /\ a \o b \in Seq(S) /\ Len(a \o b) = Len(a) + Len(b)
                  /\ \A i \in 1 .. Len(a) + Len(b) :
                        (a \o b)[i] = IF i <= Len(a) THEN a[i] ELSE b[i - Len(a)]
                BY ONLY <2>5, ConcatProperties
            <4>2. Len(a) = k - 1 /\ Len(a) + Len(b) = Len(q) - 1
                BY <2>4, <2>5
            <4> QED BY <4>1, <4>2
        <3> QED BY <2>4, <2>5, <3>1
    <2>7. RemoveFirst(q, x) = a \o b
        BY <2>3 DEF RemoveAt, a, b
    <2> QED BY <1>2, <2>4, <2>6, <2>7
<1> QED BY <1>1, <1>2

\* What a sequence without duplicates and one element more contain.
LEMMA AppendKeeps ==
    ASSUME NEW S, NEW q \in Seq(S), NEW x \in S, IsInjective(q), x \notin ToSet(q)
    PROVE  IsInjective(Append(q, x)) /\ ToSet(Append(q, x)) = ToSet(q) \union {x}
<1> DEFINE a == Append(q, x)
           n == Len(q)
<1>1. /\ n \in Nat /\ DOMAIN q = 1 .. n /\ a \in Seq(S) /\ Len(a) = n + 1 /\ DOMAIN a = 1 .. n + 1
      /\ \A i \in 1 .. n : a[i] = q[i]
      /\ a[n + 1] = x
    BY AppendProperties
<1> HIDE DEF a, n
<1>2. \A i \in 1 .. n : q[i] # x
    BY <1>1 DEF ToSet
<1>3. ASSUME NEW i \in 1 .. n + 1, NEW j \in 1 .. n + 1, a[i] = a[j] PROVE i = j
    <2>1. CASE i \in 1 .. n /\ j \in 1 .. n
        BY <1>1, <1>3, <2>1 DEF IsInjective
    <2>2. CASE i = n + 1 \/ j = n + 1
        BY <1>1, <1>2, <1>3, <2>2
    <2> QED BY <1>1, <2>1, <2>2
<1>4. ToSet(a) = ToSet(q) \union {x}
    <2>1. \A i \in 1 .. n + 1 : a[i] \in ToSet(q) \union {x}
        BY <1>1 DEF ToSet
    <2>2. \A i \in 1 .. n : q[i] \in ToSet(a)
        BY <1>1 DEF ToSet
    <2>3. x \in ToSet(a)
        BY <1>1 DEF ToSet
    <2> QED BY <1>1, <2>1, <2>2, <2>3 DEF ToSet
<1> QED BY <1>1, <1>3, <1>4 DEF IsInjective, a

\* What two sequences that share nothing contain together.
LEMMA ConcatKeeps ==
    ASSUME NEW S, NEW q \in Seq(S), NEW r \in Seq(S), IsInjective(q), IsInjective(r),
           ToSet(q) \intersect ToSet(r) = {}
    PROVE  IsInjective(q \o r) /\ ToSet(q \o r) = ToSet(q) \union ToSet(r)
<1> DEFINE a == q \o r
           n == Len(q)
           m == Len(r)
<1>1. /\ n \in Nat /\ m \in Nat /\ DOMAIN q = 1 .. n /\ DOMAIN r = 1 .. m
      /\ a \in Seq(S) /\ Len(a) = n + m /\ DOMAIN a = 1 .. n + m
      /\ \A i \in 1 .. n + m : a[i] = IF i <= n THEN q[i] ELSE r[i - n]
    BY ConcatProperties
<1> HIDE DEF a, n, m
<1>2. \A i \in 1 .. n, j \in 1 .. m : q[i] # r[j]
    BY <1>1 DEF ToSet
<1>3. ASSUME NEW i \in 1 .. n + m, NEW j \in 1 .. n + m, a[i] = a[j] PROVE i = j
    <2>1. CASE i <= n /\ j <= n
        BY <1>1, <1>3, <2>1 DEF IsInjective
    <2>2. CASE i > n /\ j > n
        <3>1. i - n \in 1 .. m /\ j - n \in 1 .. m /\ r[i - n] = r[j - n]
            BY <1>1, <1>3, <2>2
        <3>2. i - n = j - n
            BY <1>1, <3>1 DEF IsInjective
        <3> QED BY <1>1, <3>2
    <2>3. CASE i <= n /\ j > n
        BY <1>1, <1>2, <1>3, <2>3
    <2>4. CASE i > n /\ j <= n
        BY <1>1, <1>2, <1>3, <2>4
    <2> QED BY <1>1, <2>1, <2>2, <2>3, <2>4
<1>4. ToSet(a) = ToSet(q) \union ToSet(r)
    <2>1. \A i \in 1 .. n + m : a[i] \in ToSet(q) \union ToSet(r)
        BY <1>1 DEF ToSet
    <2>2. ASSUME NEW i \in 1 .. n PROVE q[i] \in ToSet(a)
        <3>1. i \in 1 .. n + m /\ i <= n
            BY <1>1
        <3>2. a[i] = q[i]
            BY <1>1, <3>1
        <3> QED BY <1>1, <3>1, <3>2 DEF ToSet
    <2>3. \A j \in 1 .. m : r[j] \in ToSet(a)
        <3>1. ASSUME NEW j \in 1 .. m PROVE n + j \in 1 .. n + m /\ r[j] = a[n + j]
            <4>1. n + j \in 1 .. n + m /\ ~ (n + j <= n) /\ (n + j) - n = j
                BY <1>1
            <4> QED BY <1>1, <4>1
        <3> QED BY <1>1, <3>1 DEF ToSet
    <2> QED BY <1>1, <2>1, <2>2, <2>3 DEF ToSet
<1> QED BY <1>1, <1>3, <1>4 DEF IsInjective, a

\* What is left of a sequence without duplicates.
LEMMA RemoveKeeps ==
    ASSUME NEW S, NEW q \in Seq(S), NEW x, IsInjective(q)
    PROVE  /\ IsInjective(RemoveFirst(q, x))
           /\ ToSet(RemoveFirst(q, x)) = ToSet(q) \ {x}
<1> DEFINE a == RemoveFirst(q, x)
           n == Len(q)
<1>0. n \in Nat /\ DOMAIN q = 1 .. n /\ a \in Seq(S) /\ DOMAIN a = 1 .. Len(a)
    BY RemoveElements
<1>1. CASE x \notin ToSet(q)
    <2>1. a = q
        BY <1>1, RemoveElements
    <2> QED BY <1>1, <2>1
<1>2. CASE x \in ToSet(q)
    <2>1. PICK k \in 1 .. n :
              /\ q[k] = x /\ Len(a) = n - 1
              /\ \A i \in 1 .. n - 1 : a[i] = IF i < k THEN q[i] ELSE q[i + 1]
        BY <1>2, RemoveElements
    <2> HIDE DEF a, n
    <2> DEFINE p(i) == IF i < k THEN i ELSE i + 1
    <2>2. \A i \in 1 .. n - 1 : p(i) \in 1 .. n /\ p(i) # k /\ a[i] = q[p(i)]
        BY <1>0, <2>1
    <2>3. \A i, j \in 1 .. n - 1 : p(i) = p(j) => i = j
        BY <1>0
    <2>4. \A j \in 1 .. n : j # k => \E i \in 1 .. n - 1 : p(i) = j
        <3> SUFFICES ASSUME NEW j \in 1 .. n, j # k PROVE \E i \in 1 .. n - 1 : p(i) = j
            OBVIOUS
        <3>1. CASE j < k
            <4>1. j \in 1 .. n - 1 /\ p(j) = j
                BY <1>0, <3>1
            <4> QED BY <4>1
        <3>2. CASE j > k
            <4>1. j - 1 \in 1 .. n - 1 /\ p(j - 1) = j
                BY <1>0, <3>2
            <4> QED BY <4>1
        <3> QED BY <1>0, <3>1, <3>2
    <2> HIDE DEF p
    <2>5. IsInjective(a)
        BY <1>0, <2>1, <2>2, <2>3 DEF IsInjective
    <2>6. \A i \in 1 .. n - 1 : a[i] \in ToSet(q) \ {x}
        <3>1. \A i \in 1 .. n : q[i] = x => i = k
            BY <1>0, <2>1 DEF IsInjective
        <3> QED BY <1>0, <2>2, <3>1 DEF ToSet
    <2>7. ASSUME NEW j \in 1 .. n, q[j] # x PROVE q[j] \in ToSet(a)
        <3>1. PICK i \in 1 .. n - 1 : p(i) = j
            BY <2>1, <2>4, <2>7
        <3>2. a[i] = q[j]
            BY <2>2, <3>1
        <3> QED BY <1>0, <2>1, <3>2 DEF ToSet
    <2>8. ToSet(a) = ToSet(q) \ {x}
        BY <1>0, <2>1, <2>6, <2>7 DEF ToSet
    <2> QED BY <2>5, <2>8 DEF a
<1> QED BY <1>1, <1>2

-----------------------------------------------------------------------------
(* The order in a queue. *)

InFrontOf(q, x, y) == \E i, j \in DOMAIN q : i < j /\ q[i] = x /\ q[j] = y

\* Who comes last is behind all the others, and changes nothing among them.
LEMMA AppendOrder ==
    ASSUME NEW S, NEW q \in Seq(S), NEW x \in S
    PROVE  /\ \A a, b : InFrontOf(q, a, b) => InFrontOf(Append(q, x), a, b)
           /\ \A a \in ToSet(q) : InFrontOf(Append(q, x), a, x)
           /\ \A a, b : b # x /\ InFrontOf(Append(q, x), a, b) => InFrontOf(q, a, b)
<1> DEFINE r == Append(q, x)
           n == Len(q)
<1>1. /\ n \in Nat /\ DOMAIN q = 1 .. n /\ DOMAIN r = 1 .. n + 1
      /\ \A i \in 1 .. n : r[i] = q[i]
      /\ r[n + 1] = x
    BY AppendProperties
<1> HIDE DEF r, n
<1>2. /\ \A i \in 1 .. n : i \in 1 .. n + 1 /\ i < n + 1
      /\ n + 1 \in 1 .. n + 1
      /\ \A i \in 1 .. n + 1 : i # n + 1 => i \in 1 .. n
      /\ \A i, j \in 1 .. n + 1 : i < j => i \in 1 .. n
    BY <1>1
<1>3. ASSUME NEW a, NEW b, InFrontOf(q, a, b) PROVE InFrontOf(r, a, b)
    BY <1>1, <1>2, <1>3 DEF InFrontOf
<1>4. ASSUME NEW a \in ToSet(q) PROVE InFrontOf(r, a, x)
    BY <1>1, <1>2, <1>4 DEF InFrontOf, ToSet
<1>5. ASSUME NEW a, NEW b, b # x, InFrontOf(r, a, b) PROVE InFrontOf(q, a, b)
    <2>1. PICK i \in 1 .. n + 1, j \in 1 .. n + 1 : i < j /\ r[i] = a /\ r[j] = b
        BY <1>1, <1>5 DEF InFrontOf
    <2>2. i \in 1 .. n /\ j \in 1 .. n
        BY <1>1, <1>2, <1>5, <2>1
    <2> QED BY <1>1, <2>1, <2>2 DEF InFrontOf
<1> QED BY <1>3, <1>4, <1>5 DEF r

\* Who leaves changes nothing among the others.
LEMMA RemoveOrder ==
    ASSUME NEW S, NEW q \in Seq(S), NEW x, IsInjective(q)
    PROVE  \A a, b : InFrontOf(RemoveFirst(q, x), a, b) <=> InFrontOf(q, a, b) /\ a # x /\ b # x
<1> DEFINE r == RemoveFirst(q, x)
           n == Len(q)
<1>1. n \in Nat /\ DOMAIN q = 1 .. n /\ r \in Seq(S) /\ DOMAIN r = 1 .. Len(r)
    BY RemoveElements
<1>2. CASE x \notin ToSet(q)
    <2>1. r = q
        BY <1>2, RemoveElements
    <2>2. \A a, b : InFrontOf(q, a, b) => a # x /\ b # x
        BY <1>2 DEF InFrontOf, ToSet
    <2> QED BY <2>1, <2>2
<1>3. CASE x \in ToSet(q)
    <2>1. PICK k \in 1 .. n :
              /\ q[k] = x /\ Len(r) = n - 1
              /\ \A i \in 1 .. n - 1 : r[i] = IF i < k THEN q[i] ELSE q[i + 1]
        BY <1>3, RemoveElements
    <2> HIDE DEF r, n
    <2> DEFINE to(i) == IF i < k THEN i ELSE i + 1
               from(i) == IF i < k THEN i ELSE i - 1
    <2>2. \A i \in 1 .. n - 1 : to(i) \in 1 .. n /\ to(i) # k /\ r[i] = q[to(i)]
        BY <1>1, <2>1
    <2>3. \A i, j \in 1 .. n - 1 : i < j => to(i) < to(j)
        BY <1>1
    <2>4. \A i \in 1 .. n : i # k => from(i) \in 1 .. n - 1 /\ to(from(i)) = i
        BY <1>1
    <2>5. \A i, j \in 1 .. n : i # k /\ j # k /\ i < j => from(i) < from(j)
        BY <1>1
    <2> HIDE DEF to, from
    <2>6. \A i \in 1 .. n : q[i] = x => i = k
        BY <1>1, <2>1 DEF IsInjective
    <2>7. ASSUME NEW a, NEW b, InFrontOf(r, a, b) PROVE InFrontOf(q, a, b) /\ a # x /\ b # x
        <3>1. PICK i \in 1 .. n - 1, j \in 1 .. n - 1 : i < j /\ r[i] = a /\ r[j] = b
            BY <1>1, <2>1, <2>7 DEF InFrontOf
        <3>2. /\ to(i) \in DOMAIN q /\ to(j) \in DOMAIN q /\ to(i) < to(j)
              /\ q[to(i)] = a /\ q[to(j)] = b
            BY <1>1, <2>2, <2>3, <3>1
        <3>3. a # x /\ b # x
            BY <2>2, <2>6, <3>1, <3>2
        <3> QED BY <3>2, <3>3 DEF InFrontOf
    <2>8. ASSUME NEW a, NEW b, InFrontOf(q, a, b), a # x, b # x PROVE InFrontOf(r, a, b)
        <3>1. PICK i \in 1 .. n, j \in 1 .. n : i < j /\ q[i] = a /\ q[j] = b
            BY <1>1, <2>8 DEF InFrontOf
        <3>2. i # k /\ j # k
            BY <2>1, <2>8, <3>1
        <3>3. from(i) \in DOMAIN r /\ from(j) \in DOMAIN r /\ from(i) < from(j)
            BY <1>1, <2>1, <2>4, <2>5, <3>1, <3>2
        <3>4. r[from(i)] = a /\ r[from(j)] = b
            BY <2>2, <2>4, <3>1, <3>2
        <3> QED BY <3>3, <3>4 DEF InFrontOf
    <2> QED BY <2>7, <2>8 DEF r
<1> QED BY <1>2, <1>3

-----------------------------------------------------------------------------
(* Transfers between token accounts. *)

\* What a transfer does to each account of a set D of them: only the one it is drawn
\* from can fall, and by no more than the amount.
LEMMA TransferMoves ==
    ASSUME NEW D, NEW t \in [D -> Nat], NEW a \in D, NEW b \in D, NEW x \in Nat, t[a] >= x
    PROVE  /\ Transfer(t, a, b, x) \in [D -> Nat]
           /\ Transfer(t, a, b, x)[a] >= t[a] - x
           /\ \A c \in D \ {a} : Transfer(t, a, b, x)[c] >= t[c]
           /\ \A c \in D \ {a, b} : Transfer(t, a, b, x)[c] = t[c]
           /\ a # b => /\ Transfer(t, a, b, x)[a] = t[a] - x
                       /\ Transfer(t, a, b, x)[b] = t[b] + x
           /\ a = b => Transfer(t, a, b, x) = t
<1> DEFINE m == [t EXCEPT ![a] = t[a] - x]
<1>1. CASE a = b
    <2>1. Transfer(t, a, b, x) = [m EXCEPT ![b] = m[b] + x]
        BY DEF Transfer
    <2>2. m \in [D -> Int] /\ m[a] = t[a] - x /\ \A c \in D \ {a} : m[c] = t[c]
        OBVIOUS
    <2> HIDE DEF m
    <2>3. /\ Transfer(t, a, b, x) \in [D -> Int]
          /\ \A c \in D : Transfer(t, a, b, x)[c] = IF c = b THEN m[c] + x ELSE m[c]
        BY <2>1, <2>2
    <2>4. \A c \in D : Transfer(t, a, b, x)[c] = t[c]
        BY <1>1, <2>2, <2>3
    <2>5. Transfer(t, a, b, x) \in [D -> Nat]
        BY <2>3, <2>4
    <2> QED BY <1>1, <2>4, <2>5
<1>2. CASE a # b
    <2>1. Transfer(t, a, b, x) = [m EXCEPT ![b] = m[b] + x]
        BY DEF Transfer
    <2>2. m \in [D -> Nat] /\ m[a] = t[a] - x /\ \A c \in D \ {a} : m[c] = t[c]
        OBVIOUS
    <2> HIDE DEF m
    <2>3. /\ Transfer(t, a, b, x) \in [D -> Nat]
          /\ \A c \in D : Transfer(t, a, b, x)[c] = IF c = b THEN m[c] + x ELSE m[c]
        BY <2>1, <2>2
    <2> QED BY <1>2, <2>2, <2>3
<1> QED BY <1>1, <1>2

\* A transfer whose two accounts are both in S, or both out of it, changes nothing about
\* what is in S together.
LEMMA TransferKeepsSum ==
    ASSUME NEW D, IsFiniteSet(D), NEW S \in SUBSET D, NEW t \in [D -> Nat],
           NEW a \in D, NEW b \in D, NEW x \in Nat, t[a] >= x, a \in S <=> b \in S
    PROVE  SumOver(Transfer(t, a, b, x), S) = SumOver(t, S)
<1> DEFINE g == Transfer(t, a, b, x)
           m == [t EXCEPT ![a] = t[a] - x]
<1>1. IsFiniteSet(S) /\ \A y \in S : t[y] \in Int
    BY FS_Subset
<1>2. CASE a = b
    <2>1. g = t
        BY <1>2, TransferMoves
    <2> QED BY <2>1
<1>3. CASE a # b /\ a \notin S
    <2>1. \A y \in S : g[y] = t[y]
        BY <1>3, TransferMoves
    <2> HIDE DEF g
    <2>2. SumOver(g, S) = SumOver(t, S)
        BY <1>1, <2>1, SumAgrees
    <2> QED BY <2>2 DEF g
<1>4. CASE a # b /\ a \in S
    <2>1. /\ a \in S /\ b \in S /\ m[a] = t[a] - x /\ m[a] \in Int /\ m[b] = t[b]
          /\ \A y \in S \ {a} : m[y] = t[y]
        BY <1>4
    <2>2. /\ g[b] = t[b] + x /\ g[b] \in Int /\ \A y \in S \ {b} : g[y] = m[y]
        <3>1. g[a] = t[a] - x /\ g[b] = t[b] + x /\ \A y \in S \ {a, b} : g[y] = t[y]
            BY <1>4, TransferMoves
        <3> HIDE DEF g
        <3> QED BY <1>4, <2>1, <3>1
    <2>3. \A y \in S : m[y] \in Int
        BY <1>1, <2>1
    <2> HIDE DEF g, m
    <2>4. SumOver(m, S) = SumOver(t, S) - t[a] + m[a]
        BY <1>1, <2>1, SumChange
    <2>5. SumOver(g, S) = SumOver(m, S) - m[b] + g[b]
        BY <1>1, <2>1, <2>2, <2>3, SumChange
    <2>6. SumOver(t, S) \in Int /\ SumOver(m, S) \in Int /\ t[a] \in Int /\ t[b] \in Int
        BY <1>1, <2>1, <2>3, SumIsInteger
    <2>7. SumOver(g, S) = SumOver(t, S)
        BY <2>1, <2>2, <2>4, <2>5, <2>6
    <2> QED BY <2>7 DEF g
<1> QED BY <1>2, <1>3, <1>4
=============================================================================
