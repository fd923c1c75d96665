----------------------------- MODULE ServingProofs -----------------------------
(***************************************************************************)
(* Theorems about the components that serve a model: the continuous batching *)
(* scheduler, the slices of a model, the generation of text, speculative     *)
(* decoding, the proofs of inference, the windows of the request batcher and  *)
(* the runs of the pipeline of shards.                                        *)
(***************************************************************************)
EXTENDS ContinuousBatcher, Speculation, Generation, Attestation, CollectionTheorems, SequenceTheorems, TLAPS

-----------------------------------------------------------------------------
(* The operators on sequences that the scheduler uses. *)

\* sorted puts an element into the sequence, between others of it.
LEMMA InsertType ==
    ASSUME NEW S, NEW q \in Seq(S), NEW x \in S, NEW before
    PROVE  \E k \in 1 .. Len(q) + 1 : Insert(q, x, before) = InsertAt(q, k, x)
<1> DEFINE I == {i \in DOMAIN q : <<x, q[i]>> \notin before}
<1>1. IsFiniteSet(1 .. Len(q)) /\ Cardinality(1 .. Len(q)) = Len(q)
    <2>1. Len(q) \in Nat
        OBVIOUS
    <2> QED BY <2>1, FS_Interval
<1>2. I \in SUBSET (1 .. Len(q))
    OBVIOUS
<1>3. Cardinality(I) \in Nat /\ Cardinality(I) <= Len(q)
    <2> HIDE DEF I
    <2> QED BY <1>1, <1>2, FS_Subset, FS_CardinalityType
<1> DEFINE k == 1 + Cardinality(I)
<1>4. k \in 1 .. Len(q) + 1
    BY <1>3
<1>5. Insert(q, x, before) = InsertAt(q, k, x)
    BY DEF Insert
<1> QED BY <1>4, <1>5

-----------------------------------------------------------------------------
(* The loops.  What holds before a loop and is kept by each of its iterations holds   *)
(* after it; the provers cannot instantiate one lemma for all of them, because their  *)
(* bodies are operators, so each loop has its own, with the same proof.               *)

SortedFrom(base, q, before) == FoldLeft(LAMBDA a, s : Insert(a, s, before), base, q)
PreemptFrom(base, q, target) == FoldLeft(LAMBDA a, s : PreemptOne(target, a, s), base, q)

\* g has the results of the iterations over q, from base to last.
Insertions(g, q, base, before, last) ==
    /\ g[0] = base
    /\ \A i \in 1 .. Len(q) : g[i] = Insert(g[i - 1], q[i], before)
    /\ g[Len(q)] = last

Admissions(g, q, base, last) ==
    /\ g[0] = base
    /\ \A i \in 1 .. Len(q) : g[i] = Admit(g[i - 1], q[i])
    /\ g[Len(q)] = last

Registrations(g, q, base, last) ==
    /\ g[0] = base
    /\ \A i \in 1 .. Len(q) : g[i] = Register(g[i - 1], q[i])
    /\ g[Len(q)] = last

\* The results of sorted, one element after the other.
LEMMA SortedSteps ==
    ASSUME NEW T, NEW base \in T, NEW S, NEW q \in Seq(S),
           NEW before,
           \A a \in T, x \in S : Insert(a, x, before) \in T
    PROVE  \E g \in [0 .. Len(q) -> T] : Insertions(g, q, base, before, SortedFrom(base, q, before))
<1> DEFINE n == Len(q)
           Follows(h) == h = [s \in SUBSET (1 .. n) |->
                                 IF s = {} THEN base
                                 ELSE LET i == Max(s) IN Insert(h[s \ {i}], q[i], before)]
           iter == CHOOSE h : Follows(h)
           step == [p \in (1 .. n) \X T |-> Insert(p[2], q[p[1]], before)]
<1>1. n \in Nat /\ DOMAIN q = 1 .. n /\ \A i \in 1 .. n : q[i] \in S
    OBVIOUS
<1>2. SortedFrom(base, q, before) = iter[1 .. n]
    BY <1>1 DEF SortedFrom, FoldLeft, MapThenFoldSet
<1> HIDE DEF n, iter
<1>3. /\ step \in [(1 .. n) \X T -> T]
      /\ \A i \in 1 .. n, a \in T : step[<<i, a>>] = Insert(a, q[i], before)
    BY <1>1
<1> HIDE DEF step
<1>4. \E h \in [SUBSET (1 .. n) -> T] : InOrder(h, n, base, step)
    BY <1>1, <1>3, InOrderExists
<1>5. PICK h0 \in [SUBSET (1 .. n) -> T] :
          \A s \in SUBSET (1 .. n) :
             h0[s] = IF s = {} THEN base ELSE step[<<Max(s), h0[s \ {Max(s)}]>>]
    BY <1>4 DEF InOrder
<1>6. Follows(h0)
    <2>1. ASSUME NEW s \in SUBSET (1 .. n), s # {}
          PROVE  h0[s] = Insert(h0[s \ {Max(s)}], q[Max(s)], before)
        <3>1. Max(s) \in 1 .. n /\ h0[s \ {Max(s)}] \in T
            BY <1>1, <2>1, LastPosition
        <3> QED BY <1>3, <1>5, <2>1, <3>1
    <2> QED BY <1>5, <2>1
<1>7. Follows(iter)
    <2> HIDE DEF Follows
    <2> QED BY <1>6 DEF iter
<1>8. ASSUME NEW s \in SUBSET (1 .. n), s # {}
      PROVE  iter[s] = Insert(iter[s \ {Max(s)}], q[Max(s)], before) /\ Max(s) \in 1 .. n
    BY <1>1, <1>7, <1>8, LastPosition
<1>9. iter[{}] \in T
    BY <1>7
<1> HIDE DEF Follows
<1>10. iter[{}] = base
    BY <1>7 DEF Follows
<1>11. \A s \in SUBSET (1 .. n) :
          s # {} /\ iter[s \ {Max(s)}] \in T
             => iter[s] = step[<<Max(s), iter[s \ {Max(s)}]>>]
    BY <1>3, <1>8
<1>12. InOrderWithin(iter, n, T, base, step)
    BY <1>10, <1>11 DEF InOrderWithin
<1>13. \E g \in [0 .. n -> T] : Steps(g, n, base, step, iter[1 .. n])
    BY <1>1, <1>3, <1>12, InOrderSteps
<1>14. PICK g \in [0 .. n -> T] : Steps(g, n, base, step, iter[1 .. n])
    BY <1>13
<1>15. ASSUME NEW i \in 1 .. n PROVE g[i] = Insert(g[i - 1], q[i], before)
    <2>1. i - 1 \in 0 .. n /\ g[i - 1] \in T
        BY <1>1
    <2> QED BY <1>3, <1>14, <2>1 DEF Steps
<1>16. g[0] = base /\ g[n] = iter[1 .. n]
    BY <1>14 DEF Steps
<1> QED BY <1>2, <1>15, <1>16 DEF n, Insertions

\* _preempt_to_free stays in what a preemption does not leave.
LEMMA PreemptStays ==
    ASSUME NEW T, NEW base \in T, NEW S, NEW q \in Seq(S),
           NEW target,
           \A a \in T, x \in S : PreemptOne(target, a, x) \in T
    PROVE  PreemptFrom(base, q, target) \in T
<1> DEFINE n == Len(q)
           Follows(h) == h = [s \in SUBSET (1 .. n) |->
                                 IF s = {} THEN base
                                 ELSE LET i == Max(s) IN PreemptOne(target, h[s \ {i}], q[i])]
           iter == CHOOSE h : Follows(h)
           step == [p \in (1 .. n) \X T |-> PreemptOne(target, p[2], q[p[1]])]
<1>1. n \in Nat /\ DOMAIN q = 1 .. n /\ \A i \in 1 .. n : q[i] \in S
    OBVIOUS
<1>2. PreemptFrom(base, q, target) = iter[1 .. n]
    BY <1>1 DEF PreemptFrom, FoldLeft, MapThenFoldSet
<1> HIDE DEF n, iter
<1>3. /\ step \in [(1 .. n) \X T -> T]
      /\ \A i \in 1 .. n, a \in T : step[<<i, a>>] = PreemptOne(target, a, q[i])
    BY <1>1
<1> HIDE DEF step
<1>4. \E h \in [SUBSET (1 .. n) -> T] : InOrder(h, n, base, step)
    BY <1>1, <1>3, InOrderExists
<1>5. PICK h0 \in [SUBSET (1 .. n) -> T] :
          \A s \in SUBSET (1 .. n) :
             h0[s] = IF s = {} THEN base ELSE step[<<Max(s), h0[s \ {Max(s)}]>>]
    BY <1>4 DEF InOrder
<1>6. Follows(h0)
    <2>1. ASSUME NEW s \in SUBSET (1 .. n), s # {}
          PROVE  h0[s] = PreemptOne(target, h0[s \ {Max(s)}], q[Max(s)])
        <3>1. Max(s) \in 1 .. n /\ h0[s \ {Max(s)}] \in T
            BY <1>1, <2>1, LastPosition
        <3> QED BY <1>3, <1>5, <2>1, <3>1
    <2> QED BY <1>5, <2>1
<1>7. Follows(iter)
    <2> HIDE DEF Follows
    <2> QED BY <1>6 DEF iter
<1>8. ASSUME NEW s \in SUBSET (1 .. n), s # {}
      PROVE  iter[s] = PreemptOne(target, iter[s \ {Max(s)}], q[Max(s)]) /\ Max(s) \in 1 .. n
    BY <1>1, <1>7, <1>8, LastPosition
<1>9. iter[{}] \in T
    BY <1>7
<1> HIDE DEF Follows
<1>10. ASSUME NEW s \in SUBSET (1 .. n), s # {}, iter[s \ {Max(s)}] \in T
       PROVE  iter[s] \in T
    <2>1. iter[s] = PreemptOne(target, iter[s \ {Max(s)}], q[Max(s)]) /\ q[Max(s)] \in S
        BY <1>1, <1>8, <1>10
    <2> QED BY <1>10, <2>1
<1>11. iter[1 .. n] \in T
    BY <1>1, <1>9, <1>10, InOrderStays
<1> QED BY <1>2, <1>11

\* The results of schedule's first loop, one after the other.
LEMMA AdmitSteps ==
    ASSUME NEW T, NEW base \in T, NEW S, NEW q \in Seq(S),
           \A a \in T, x \in S : Admit(a, x) \in T
    PROVE  \E g \in [0 .. Len(q) -> T] : Admissions(g, q, base, FoldLeft(Admit, base, q))
<1> DEFINE n == Len(q)
           Follows(h) == h = [s \in SUBSET (1 .. n) |->
                                 IF s = {} THEN base
                                 ELSE LET i == Max(s) IN Admit(h[s \ {i}], q[i])]
           iter == CHOOSE h : Follows(h)
           step == [p \in (1 .. n) \X T |-> Admit(p[2], q[p[1]])]
<1>1. n \in Nat /\ DOMAIN q = 1 .. n /\ \A i \in 1 .. n : q[i] \in S
    OBVIOUS
<1>2. FoldLeft(Admit, base, q) = iter[1 .. n]
    BY <1>1 DEF FoldLeft, MapThenFoldSet
<1> HIDE DEF n, iter
<1>3. /\ step \in [(1 .. n) \X T -> T]
      /\ \A i \in 1 .. n, a \in T : step[<<i, a>>] = Admit(a, q[i])
    BY <1>1
<1> HIDE DEF step
<1>4. \E h \in [SUBSET (1 .. n) -> T] : InOrder(h, n, base, step)
    BY <1>1, <1>3, InOrderExists
<1>5. PICK h0 \in [SUBSET (1 .. n) -> T] :
          \A s \in SUBSET (1 .. n) :
             h0[s] = IF s = {} THEN base ELSE step[<<Max(s), h0[s \ {Max(s)}]>>]
    BY <1>4 DEF InOrder
<1>6. Follows(h0)
    <2>1. ASSUME NEW s \in SUBSET (1 .. n), s # {}
          PROVE  h0[s] = Admit(h0[s \ {Max(s)}], q[Max(s)])
        <3>1. Max(s) \in 1 .. n /\ h0[s \ {Max(s)}] \in T
            BY <1>1, <2>1, LastPosition
        <3> QED BY <1>3, <1>5, <2>1, <3>1
    <2> QED BY <1>5, <2>1
<1>7. Follows(iter)
    <2> HIDE DEF Follows
    <2> QED BY <1>6 DEF iter
<1>8. ASSUME NEW s \in SUBSET (1 .. n), s # {}
      PROVE  iter[s] = Admit(iter[s \ {Max(s)}], q[Max(s)]) /\ Max(s) \in 1 .. n
    BY <1>1, <1>7, <1>8, LastPosition
<1>9. iter[{}] \in T
    BY <1>7
<1> HIDE DEF Follows
<1>10. iter[{}] = base
    BY <1>7 DEF Follows
<1>11. \A s \in SUBSET (1 .. n) :
          s # {} /\ iter[s \ {Max(s)}] \in T
             => iter[s] = step[<<Max(s), iter[s \ {Max(s)}]>>]
    BY <1>3, <1>8
<1>12. InOrderWithin(iter, n, T, base, step)
    BY <1>10, <1>11 DEF InOrderWithin
<1>13. \E g \in [0 .. n -> T] : Steps(g, n, base, step, iter[1 .. n])
    BY <1>1, <1>3, <1>12, InOrderSteps
<1>14. PICK g \in [0 .. n -> T] : Steps(g, n, base, step, iter[1 .. n])
    BY <1>13
<1>15. ASSUME NEW i \in 1 .. n PROVE g[i] = Admit(g[i - 1], q[i])
    <2>1. i - 1 \in 0 .. n /\ g[i - 1] \in T
        BY <1>1
    <2> QED BY <1>3, <1>14, <2>1 DEF Steps
<1>16. g[0] = base /\ g[n] = iter[1 .. n]
    BY <1>14 DEF Steps
<1> QED BY <1>2, <1>15, <1>16 DEF n, Admissions

\* schedule's second loop stays in what an extension does not leave.
LEMMA ExtendStays ==
    ASSUME NEW T, NEW base \in T, NEW S, NEW q \in Seq(S),
           \A a \in T, x \in S : Extend(a, x) \in T
    PROVE  FoldLeft(Extend, base, q) \in T
<1> DEFINE n == Len(q)
           Follows(h) == h = [s \in SUBSET (1 .. n) |->
                                 IF s = {} THEN base
                                 ELSE LET i == Max(s) IN Extend(h[s \ {i}], q[i])]
           iter == CHOOSE h : Follows(h)
           step == [p \in (1 .. n) \X T |-> Extend(p[2], q[p[1]])]
<1>1. n \in Nat /\ DOMAIN q = 1 .. n /\ \A i \in 1 .. n : q[i] \in S
    OBVIOUS
<1>2. FoldLeft(Extend, base, q) = iter[1 .. n]
    BY <1>1 DEF FoldLeft, MapThenFoldSet
<1> HIDE DEF n, iter
<1>3. /\ step \in [(1 .. n) \X T -> T]
      /\ \A i \in 1 .. n, a \in T : step[<<i, a>>] = Extend(a, q[i])
    BY <1>1
<1> HIDE DEF step
<1>4. \E h \in [SUBSET (1 .. n) -> T] : InOrder(h, n, base, step)
    BY <1>1, <1>3, InOrderExists
<1>5. PICK h0 \in [SUBSET (1 .. n) -> T] :
          \A s \in SUBSET (1 .. n) :
             h0[s] = IF s = {} THEN base ELSE step[<<Max(s), h0[s \ {Max(s)}]>>]
    BY <1>4 DEF InOrder
<1>6. Follows(h0)
    <2>1. ASSUME NEW s \in SUBSET (1 .. n), s # {}
          PROVE  h0[s] = Extend(h0[s \ {Max(s)}], q[Max(s)])
        <3>1. Max(s) \in 1 .. n /\ h0[s \ {Max(s)}] \in T
            BY <1>1, <2>1, LastPosition
        <3> QED BY <1>3, <1>5, <2>1, <3>1
    <2> QED BY <1>5, <2>1
<1>7. Follows(iter)
    <2> HIDE DEF Follows
    <2> QED BY <1>6 DEF iter
<1>8. ASSUME NEW s \in SUBSET (1 .. n), s # {}
      PROVE  iter[s] = Extend(iter[s \ {Max(s)}], q[Max(s)]) /\ Max(s) \in 1 .. n
    BY <1>1, <1>7, <1>8, LastPosition
<1>9. iter[{}] \in T
    BY <1>7
<1> HIDE DEF Follows
<1>10. ASSUME NEW s \in SUBSET (1 .. n), s # {}, iter[s \ {Max(s)}] \in T
       PROVE  iter[s] \in T
    <2>1. iter[s] = Extend(iter[s \ {Max(s)}], q[Max(s)]) /\ q[Max(s)] \in S
        BY <1>1, <1>8, <1>10
    <2> QED BY <1>10, <2>1
<1>11. iter[1 .. n] \in T
    BY <1>1, <1>9, <1>10, InOrderStays
<1> QED BY <1>2, <1>11

\* The results of moving the admitted into the running table, one after the other.
LEMMA RegisterSteps ==
    ASSUME NEW T, NEW base \in T, NEW S, NEW q \in Seq(S),
           \A a \in T, x \in S : Register(a, x) \in T
    PROVE  \E g \in [0 .. Len(q) -> T] : Registrations(g, q, base, FoldLeft(Register, base, q))
<1> DEFINE n == Len(q)
           Follows(h) == h = [s \in SUBSET (1 .. n) |->
                                 IF s = {} THEN base
                                 ELSE LET i == Max(s) IN Register(h[s \ {i}], q[i])]
           iter == CHOOSE h : Follows(h)
           step == [p \in (1 .. n) \X T |-> Register(p[2], q[p[1]])]
<1>1. n \in Nat /\ DOMAIN q = 1 .. n /\ \A i \in 1 .. n : q[i] \in S
    OBVIOUS
<1>2. FoldLeft(Register, base, q) = iter[1 .. n]
    BY <1>1 DEF FoldLeft, MapThenFoldSet
<1> HIDE DEF n, iter
<1>3. /\ step \in [(1 .. n) \X T -> T]
      /\ \A i \in 1 .. n, a \in T : step[<<i, a>>] = Register(a, q[i])
    BY <1>1
<1> HIDE DEF step
<1>4. \E h \in [SUBSET (1 .. n) -> T] : InOrder(h, n, base, step)
    BY <1>1, <1>3, InOrderExists
<1>5. PICK h0 \in [SUBSET (1 .. n) -> T] :
          \A s \in SUBSET (1 .. n) :
             h0[s] = IF s = {} THEN base ELSE step[<<Max(s), h0[s \ {Max(s)}]>>]
    BY <1>4 DEF InOrder
<1>6. Follows(h0)
    <2>1. ASSUME NEW s \in SUBSET (1 .. n), s # {}
          PROVE  h0[s] = Register(h0[s \ {Max(s)}], q[Max(s)])
        <3>1. Max(s) \in 1 .. n /\ h0[s \ {Max(s)}] \in T
            BY <1>1, <2>1, LastPosition
        <3> QED BY <1>3, <1>5, <2>1, <3>1
    <2> QED BY <1>5, <2>1
<1>7. Follows(iter)
    <2> HIDE DEF Follows
    <2> QED BY <1>6 DEF iter
<1>8. ASSUME NEW s \in SUBSET (1 .. n), s # {}
      PROVE  iter[s] = Register(iter[s \ {Max(s)}], q[Max(s)]) /\ Max(s) \in 1 .. n
    BY <1>1, <1>7, <1>8, LastPosition
<1>9. iter[{}] \in T
    BY <1>7
<1> HIDE DEF Follows
<1>10. iter[{}] = base
    BY <1>7 DEF Follows
<1>11. \A s \in SUBSET (1 .. n) :
          s # {} /\ iter[s \ {Max(s)}] \in T
             => iter[s] = step[<<Max(s), iter[s \ {Max(s)}]>>]
    BY <1>3, <1>8
<1>12. InOrderWithin(iter, n, T, base, step)
    BY <1>10, <1>11 DEF InOrderWithin
<1>13. \E g \in [0 .. n -> T] : Steps(g, n, base, step, iter[1 .. n])
    BY <1>1, <1>3, <1>12, InOrderSteps
<1>14. PICK g \in [0 .. n -> T] : Steps(g, n, base, step, iter[1 .. n])
    BY <1>13
<1>15. ASSUME NEW i \in 1 .. n PROVE g[i] = Register(g[i - 1], q[i])
    <2>1. i - 1 \in 0 .. n /\ g[i - 1] \in T
        BY <1>1
    <2> QED BY <1>3, <1>14, <2>1 DEF Steps
<1>16. g[0] = base /\ g[n] = iter[1 .. n]
    BY <1>14 DEF Steps
<1> QED BY <1>2, <1>15, <1>16 DEF n, Registrations

\* So does the loop of step.
LEMMA GenerateStays ==
    ASSUME NEW T, NEW base \in T, NEW S, NEW q \in Seq(S),
           \A a \in T, x \in S : Generate(a, x) \in T
    PROVE  FoldLeft(Generate, base, q) \in T
<1> DEFINE n == Len(q)
           Follows(h) == h = [s \in SUBSET (1 .. n) |->
                                 IF s = {} THEN base
                                 ELSE LET i == Max(s) IN Generate(h[s \ {i}], q[i])]
           iter == CHOOSE h : Follows(h)
           step == [p \in (1 .. n) \X T |-> Generate(p[2], q[p[1]])]
<1>1. n \in Nat /\ DOMAIN q = 1 .. n /\ \A i \in 1 .. n : q[i] \in S
    OBVIOUS
<1>2. FoldLeft(Generate, base, q) = iter[1 .. n]
    BY <1>1 DEF FoldLeft, MapThenFoldSet
<1> HIDE DEF n, iter
<1>3. /\ step \in [(1 .. n) \X T -> T]
      /\ \A i \in 1 .. n, a \in T : step[<<i, a>>] = Generate(a, q[i])
    BY <1>1
<1> HIDE DEF step
<1>4. \E h \in [SUBSET (1 .. n) -> T] : InOrder(h, n, base, step)
    BY <1>1, <1>3, InOrderExists
<1>5. PICK h0 \in [SUBSET (1 .. n) -> T] :
          \A s \in SUBSET (1 .. n) :
             h0[s] = IF s = {} THEN base ELSE step[<<Max(s), h0[s \ {Max(s)}]>>]
    BY <1>4 DEF InOrder
<1>6. Follows(h0)
    <2>1. ASSUME NEW s \in SUBSET (1 .. n), s # {}
          PROVE  h0[s] = Generate(h0[s \ {Max(s)}], q[Max(s)])
        <3>1. Max(s) \in 1 .. n /\ h0[s \ {Max(s)}] \in T
            BY <1>1, <2>1, LastPosition
        <3> QED BY <1>3, <1>5, <2>1, <3>1
    <2> QED BY <1>5, <2>1
<1>7. Follows(iter)
    <2> HIDE DEF Follows
    <2> QED BY <1>6 DEF iter
<1>8. ASSUME NEW s \in SUBSET (1 .. n), s # {}
      PROVE  iter[s] = Generate(iter[s \ {Max(s)}], q[Max(s)]) /\ Max(s) \in 1 .. n
    BY <1>1, <1>7, <1>8, LastPosition
<1>9. iter[{}] \in T
    BY <1>7
<1> HIDE DEF Follows
<1>10. ASSUME NEW s \in SUBSET (1 .. n), s # {}, iter[s \ {Max(s)}] \in T
       PROVE  iter[s] \in T
    <2>1. iter[s] = Generate(iter[s \ {Max(s)}], q[Max(s)]) /\ q[Max(s)] \in S
        BY <1>1, <1>8, <1>10
    <2> QED BY <1>10, <2>1
<1>11. iter[1 .. n] \in T
    BY <1>1, <1>9, <1>10, InOrderStays
<1> QED BY <1>2, <1>11

-----------------------------------------------------------------------------
(* The pool. *)

State == {"new", "WAITING", "RUNNING", "FINISHED"}
Tables ==
    [waiting : Seq(Request), running : Seq(Request), blocks : [Request -> Nat],
     state : [Request -> State]]
Held(t) == SumOver(t.blocks, Request)

\* The blocks that are free, as the sum of those that are held.
LEMMA FreeIsRest ==
    ASSUME NEW t
    PROVE  FreeBlocks(t) = engine.numBlocks - Held(t)
BY DEF FreeBlocks, Held, SumOver

\* Block counts of numbers of tokens are natural numbers.
LEMMA NeedsType ==
    ASSUME NEW n \in Nat
    PROVE  BlocksNeeded(n) \in Nat
BY BatcherAssumption DEF BlocksNeeded

\* The larger of two numbers.
LEMMA MaxOfTwo ==
    ASSUME NEW x \in Int, NEW y \in Int
    PROVE  Max({x, y}) = IF y <= x THEN x ELSE y
BY DEF Max

\* Only the blocks of s change when its table grows, by what it lacks.
LEMMA GrowHolds ==
    ASSUME NEW t \in Tables, NEW s \in Request, NEW total \in Nat
    PROVE  /\ Grow(t, s, total) = [t EXCEPT !.blocks = [t.blocks EXCEPT ![s] = Max({t.blocks[s], total})]]
           /\ Max({t.blocks[s], total}) = IF total <= t.blocks[s] THEN t.blocks[s] ELSE total
           /\ Grow(t, s, total) \in Tables
           /\ Held(Grow(t, s, total)) = Held(t) - t.blocks[s] + Max({t.blocks[s], total})
<1> DEFINE m == Max({t.blocks[s], total})
           b == [t.blocks EXCEPT ![s] = m]
<1>1. t.blocks \in [Request -> Nat]
    BY DEF Tables
<1>2. m = IF total <= t.blocks[s] THEN t.blocks[s] ELSE total
    <2>1. t.blocks[s] \in Nat
        BY <1>1
    <2> QED BY <2>1, MaxOfTwo
<1>3. Grow(t, s, total) = [t EXCEPT !.blocks = b]
    BY DEF Grow
<1>4. b \in [Request -> Nat] /\ b[s] = m /\ \A r \in Request \ {s} : b[r] = t.blocks[r]
    BY <1>1, <1>2
<1>5. [t EXCEPT !.blocks = b] \in Tables /\ [t EXCEPT !.blocks = b].blocks = b
    BY <1>4 DEF Tables
<1>6. SumOver(b, Request) = SumOver(t.blocks, Request) - t.blocks[s] + b[s]
    <2> HIDE DEF b, m
    <2> QED BY <1>1, <1>4, BatcherAssumption, SumChange
<1> QED BY <1>2, <1>3, <1>4, <1>5, <1>6 DEF Held

\* A preempted sequence gives up what it held and nothing else.
LEMMA PreemptHolds ==
    ASSUME NEW t \in Tables, NEW s \in Request
    PROVE  /\ Preempt(t, s) \in Tables
           /\ Preempt(t, s).blocks = [t.blocks EXCEPT ![s] = 0]
           /\ Held(Preempt(t, s)) = Held(t) - t.blocks[s]
<1> DEFINE b == [t.blocks EXCEPT ![s] = 0]
           r == RemoveFirst(t.running, s)
           w == <<s>> \o t.waiting
           u == [t.state EXCEPT ![s] = "WAITING"]
<1>1. /\ t.blocks \in [Request -> Nat] /\ t.running \in Seq(Request)
      /\ t.waiting \in Seq(Request) /\ t.state \in [Request -> State]
    BY DEF Tables
<1>2. Preempt(t, s) = [waiting |-> w, running |-> r, blocks |-> b, state |-> u]
    <2>1. t = [waiting |-> t.waiting, running |-> t.running, blocks |-> t.blocks, state |-> t.state]
        BY DEF Tables
    <2>2. Preempt(t, s) = [t EXCEPT !.blocks = b, !.running = r, !.waiting = w, !.state = u]
        BY DEF Preempt
    <2> HIDE DEF b, r, w, u
    <2> QED BY <2>1, <2>2
<1>0. b[s] = 0
    BY <1>1
<1>3. b \in [Request -> Nat] /\ b[s] \in Nat /\ \A x \in Request \ {s} : b[x] = t.blocks[x]
    BY <1>1
<1>4. u \in [Request -> State] /\ w \in Seq(Request) /\ r \in Seq(Request)
    <2>1. r \in Seq(Request)
        BY <1>1, RemoveElements
    <2>2. w \in Seq(Request)
        BY <1>1
    <2> QED BY <1>1, <2>1, <2>2 DEF State
<1>5. SumOver(b, Request) = SumOver(t.blocks, Request) - t.blocks[s] + b[s]
    <2>1. /\ IsFiniteSet(Request)
          /\ \A x \in Request : t.blocks[x] \in Int
          /\ b[s] \in Int
          /\ \A x \in Request \ {s} : b[x] = t.blocks[x]
        BY <1>1, <1>3, BatcherAssumption
    <2> HIDE DEF b
    <2> QED BY <2>1, SumChange
<1>6. SumOver(t.blocks, Request) \in Int /\ t.blocks[s] \in Nat
    BY <1>1, BatcherAssumption, SumIsInteger
<1> HIDE DEF b, r, w, u
<1>7. [waiting |-> w, running |-> r, blocks |-> b, state |-> u] \in Tables
    BY <1>3, <1>4 DEF Tables
<1>8. Preempt(t, s).blocks = b
    BY <1>2
<1> QED BY <1>0, <1>2, <1>3, <1>5, <1>6, <1>7, <1>8 DEF Held, b

\* sorted keeps the elements in their set.
LEMMA SortedType ==
    ASSUME NEW S, NEW q \in Seq(S), NEW before
    PROVE  Sorted(q, before) \in Seq(S)
<1> DEFINE T == Seq(S)
           base == <<>>
<1>1. \A a \in T, x \in S : Insert(a, x, before) \in T
    BY InsertType, InsertAtElements
<1>2. base \in T
    OBVIOUS
<1> HIDE DEF T
<1>3. SortedFrom(base, q, before) \in T
    <2> HIDE DEF base
    <2>1. PICK g \in [0 .. Len(q) -> T] :
              Insertions(g, q, base, before, SortedFrom(base, q, before))
        BY <1>1, <1>2, SortedSteps
    <2>2. Len(q) \in 0 .. Len(q)
        OBVIOUS
    <2> QED BY <2>1, <2>2 DEF Insertions
<1> QED BY <1>3 DEF Sorted, SortedFrom, T

\* The victims are running sequences that are not kept.
LEMMA VictimsType ==
    ASSUME NEW t \in Tables, NEW keep
    PROVE  Victims(t, keep) \in Seq(Request \ keep)
<1> DEFINE V == ToSet(t.running) \ keep
<1>1. V \in SUBSET (Request \ keep)
    BY DEF Tables, ToSet
<1>2. IsFiniteSet(V)
    BY <1>1, BatcherAssumption, FS_Subset
<1> HIDE DEF V
<1>3. SetToSeq(V) \in [1 .. Cardinality(V) -> V]
    BY <1>2, FS_CardinalityType DEF SetToSeq, ExistsBijection, Bijection, Injection
<1>4. SetToSeq(V) \in Seq(Request \ keep)
    <2>1. Cardinality(V) \in Nat
        BY <1>2, FS_CardinalityType
    <2> QED BY <1>1, <1>3, <2>1
<1> QED BY <1>4, SortedType DEF Victims, V

Within(t) == t \in Tables /\ Held(t) <= engine.numBlocks

\* What is held adds up to a natural number.
LEMMA HeldType ==
    ASSUME NEW t \in Tables
    PROVE  Held(t) \in Nat
<1>1. \A s \in Request : t.blocks[s] \in Nat
    BY DEF Tables
<1> QED BY <1>1, BatcherAssumption, SumOfNaturals DEF Held

\* _preempt_to_free gives back as many blocks as it counts, and none of the kept ones.
LEMMA PreemptToFreeHolds ==
    ASSUME NEW t \in Tables, NEW target \in Int, NEW keep
    PROVE  /\ PreemptToFree(t, target, keep).tables \in Tables
           /\ PreemptToFree(t, target, keep).freed \in Nat
           /\ Held(PreemptToFree(t, target, keep).tables)
                 = Held(t) - PreemptToFree(t, target, keep).freed
           /\ \A s \in Request \intersect keep :
                 PreemptToFree(t, target, keep).tables.blocks[s] = t.blocks[s]
<1> DEFINE S == Request \ keep
           q == Victims(t, keep)
           base == [tables |-> t, freed |-> 0]
           Counts(a) == /\ Held(a.tables) = Held(t) - a.freed
                        /\ \A s \in Request \intersect keep : a.tables.blocks[s] = t.blocks[s]
           T == {a \in [tables : Tables, freed : Nat] : Counts(a)}
<1>1. q \in Seq(S)
    BY VictimsType
<1>2. base \in T
    BY HeldType
<1>3. ASSUME NEW a \in T, NEW s \in S PROVE PreemptOne(target, a, s) \in T
    <2> DEFINE p == Preempt(a.tables, s)
               b == a.tables.blocks[s]
               r == [tables |-> p, freed |-> a.freed + b]
    <2>1. a.tables \in Tables /\ a.freed \in Nat /\ b \in Nat /\ s \in Request /\ s \notin keep
        BY DEF Tables
    <2>2. /\ p \in Tables /\ p.blocks = [a.tables.blocks EXCEPT ![s] = 0]
          /\ Held(p) = Held(a.tables) - b
        BY <2>1, PreemptHolds
    <2>3. \A k \in Request \intersect keep : p.blocks[k] = a.tables.blocks[k]
        BY <2>1, <2>2 DEF Tables
    <2>4. Held(p) = Held(t) - (a.freed + b)
        BY <2>1, <2>2, HeldType
    <2> HIDE DEF p, b
    <2>5. r \in T
        <3>1. \A k \in Request \intersect keep : a.tables.blocks[k] = t.blocks[k]
            OBVIOUS
        <3>2. r \in [tables : Tables, freed : Nat] /\ r.tables = p /\ r.freed = a.freed + b
            BY <2>1, <2>2
        <3> HIDE DEF r
        <3> QED BY <2>3, <2>4, <3>1, <3>2
    <2> HIDE DEF T
    <2> QED BY <2>5 DEF PreemptOne, p, b
<1> HIDE DEF S, q, base, T
<1>4. PreemptFrom(base, q, target) \in T
    <2>1. \A a \in T, x \in S : PreemptOne(target, a, x) \in T
        BY <1>3
    <2> QED BY <1>1, <1>2, <2>1, PreemptStays
<1>5. PreemptToFree(t, target, keep) = PreemptFrom(base, q, target)
    BY DEF PreemptToFree, PreemptFrom, base, q
<1> QED BY <1>4, <1>5 DEF T

\* A table grows within what is free.
LEMMA GrowWithin ==
    ASSUME NEW t, Within(t), engine \in Engines, NEW s \in Request, NEW total \in Nat,
           total - t.blocks[s] <= FreeBlocks(t)
    PROVE  Within(Grow(t, s, total))
<1> DEFINE m == Max({t.blocks[s], total})
<1>1. /\ t \in Tables /\ t.blocks[s] \in Nat /\ Held(t) \in Nat
      /\ engine.numBlocks \in Nat /\ Held(t) <= engine.numBlocks
    BY HeldType, BatcherAssumption DEF Within, Tables
<1>2. /\ m = IF total <= t.blocks[s] THEN t.blocks[s] ELSE total
      /\ Grow(t, s, total) \in Tables
      /\ Held(Grow(t, s, total)) = Held(t) - t.blocks[s] + m
    BY <1>1, GrowHolds
<1>3. total - t.blocks[s] <= engine.numBlocks - Held(t)
    BY FreeIsRest
<1> HIDE DEF m
<1>4. Held(Grow(t, s, total)) <= engine.numBlocks
    BY <1>1, <1>2, <1>3
<1> QED BY <1>2, <1>4 DEF Within

\* Preemptions only give back.
LEMMA PreemptWithin ==
    ASSUME NEW t, Within(t), engine \in Engines, NEW target \in Int, NEW keep
    PROVE  Within(PreemptToFree(t, target, keep).tables)
<1> DEFINE r == PreemptToFree(t, target, keep)
<1>1. /\ t \in Tables /\ Held(t) \in Nat /\ engine.numBlocks \in Nat
      /\ Held(t) <= engine.numBlocks
    BY HeldType, BatcherAssumption DEF Within
<1>2. r.tables \in Tables /\ r.freed \in Nat /\ Held(r.tables) = Held(t) - r.freed
    BY <1>1, PreemptToFreeHolds
<1> HIDE DEF r
<1>3. Held(r.tables) <= engine.numBlocks
    BY <1>1, <1>2
<1> QED BY <1>2, <1>3 DEF Within, r

Progress == generated \in [Request -> Nat]

\* The blocks for a sequence and its next token are a number.
LEMMA NextNeedsType ==
    ASSUME Progress, NEW s \in Request
    PROVE  NextNeeds(s) \in Nat
<1>1. Prompt[s] + generated[s] + 1 \in Nat
    BY BatcherAssumption DEF Progress
<1> QED BY <1>1, NeedsType DEF NextNeeds, TotalTokens

Admission ==
    [tables : Tables, admitted : Seq(Request), left : Seq(Request), raised : BOOLEAN]

\* Admitting a sequence, or failing to, stays within the pool.
LEMMA AdmitWithin ==
    ASSUME engine \in Engines, Progress, NEW a \in Admission, Within(a.tables), NEW s \in Request
    PROVE  Admit(a, s) \in Admission /\ Within(Admit(a, s).tables)
<1> DEFINE need == NextNeeds(s)
           extra == Max({0, need - a.tables.blocks[s]})
           freeing == IF extra > FreeBlocks(a.tables)
                      THEN PreemptToFree(a.tables, extra, {})
                      ELSE [tables |-> a.tables, freed |-> extra]
           t == freeing.tables
           missing == need - t.blocks[s]
           u == Grow(t, s, need)
           v == [u EXCEPT !.state[s] = "RUNNING"]
<1>1. need \in Nat /\ a.tables.blocks[s] \in Nat
    BY NextNeedsType DEF Within, Tables
<1>2. extra \in Nat
    <2>1. need - a.tables.blocks[s] \in Int
        BY <1>1
    <2> HIDE DEF need
    <2> QED BY <2>1, MaxOfTwo
<1>3. Within(t)
    <2>1. extra \in Int
        BY <1>2
    <2>2. Within(PreemptToFree(a.tables, extra, {}).tables)
        BY <2>1, PreemptWithin
    <2> QED BY <2>2
<1>4. missing <= FreeBlocks(t) => Within(u)
    BY <1>1, <1>3, GrowWithin
<1>5. Within(u) => Within(v)
    <2>1. u \in Tables => v \in Tables /\ v.blocks = u.blocks
        BY DEF Tables, State
    <2> QED BY <2>1 DEF Within, Held
<1> HIDE DEF need, extra, freeing, t, missing, u, v
<1>6. \/ Admit(a, s) = a
      \/ Admit(a, s) = [a EXCEPT !.left = Append(@, s)]
      \/ Admit(a, s) = [a EXCEPT !.tables = t, !.left = Append(@, s)]
      \/ Admit(a, s) = [a EXCEPT !.tables = t, !.raised = TRUE]
      \/ /\ missing <= FreeBlocks(t)
         /\ Admit(a, s) = [a EXCEPT !.tables = v, !.admitted = Append(@, s)]
    <2> DEFINE full == Len(a.tables.running) + Len(a.admitted) >= engine.maxBatchSize
    <2>1. Admit(a, s) =
             CASE a.raised -> a
               [] ~a.raised /\ full -> [a EXCEPT !.left = Append(@, s)]
               [] ~a.raised /\ ~full ->
                    IF freeing.freed < extra THEN [a EXCEPT !.tables = t, !.left = Append(@, s)]
                    ELSE IF missing > FreeBlocks(t) THEN [a EXCEPT !.tables = t, !.raised = TRUE]
                    ELSE [a EXCEPT !.tables = v, !.admitted = Append(@, s)]
        BY DEF Admit, need, extra, freeing, t, missing, u, v
    <2>2. a.raised \in BOOLEAN /\ missing \in Int /\ FreeBlocks(t) \in Int
        <3>1. t \in Tables /\ Held(t) \in Nat /\ t.blocks[s] \in Nat
            BY <1>3, HeldType DEF Within, Tables
        <3>2. FreeBlocks(t) \in Int
            BY <3>1, FreeIsRest, BatcherAssumption
        <3>3. missing \in Int
            BY <1>1, <3>1 DEF missing
        <3> QED BY <3>2, <3>3 DEF Admission
    <2> HIDE DEF full
    <2> QED BY <2>1, <2>2
<1>7. Append(a.left, s) \in Seq(Request) /\ Append(a.admitted, s) \in Seq(Request)
    BY AppendProperties DEF Admission
<1> QED BY <1>3, <1>4, <1>5, <1>6, <1>7 DEF Admission, Within

\* So does making room for the next token of a running sequence.
LEMMA ExtendWithin ==
    ASSUME engine \in Engines, Progress, NEW t, Within(t), NEW s \in Request
    PROVE  Within(Extend(t, s))
<1> DEFINE need == NextNeeds(s)
           extra == need - t.blocks[s]
           freeing == PreemptToFree(t, extra, {s})
           u == freeing.tables
<1>1. /\ t \in Tables /\ need \in Nat /\ t.blocks[s] \in Nat /\ extra \in Int
      /\ Held(t) \in Nat /\ engine.numBlocks \in Nat /\ Held(t) <= engine.numBlocks
    <2>1. t \in Tables /\ Held(t) <= engine.numBlocks
        BY DEF Within
    <2>2. t.blocks[s] \in Nat
        BY <2>1 DEF Tables
    <2>3. need \in Nat /\ Held(t) \in Nat /\ engine.numBlocks \in Nat
        BY <2>1, NextNeedsType, HeldType, BatcherAssumption
    <2> HIDE DEF need
    <2> QED BY <2>1, <2>2, <2>3
<1>2. /\ Within(u) /\ u \in Tables /\ freeing.freed \in Nat
      /\ Held(u) = Held(t) - freeing.freed /\ u.blocks[s] = t.blocks[s]
    <2> HIDE DEF extra
    <2>1. Within(u)
        BY <1>1, PreemptWithin
    <2>2. /\ u \in Tables /\ freeing.freed \in Nat /\ Held(u) = Held(t) - freeing.freed
          /\ \A k \in Request \intersect {s} : u.blocks[k] = t.blocks[k]
        BY <1>1, PreemptToFreeHolds
    <2> QED BY <2>1, <2>2
<1>3. extra <= FreeBlocks(t) => Within(Grow(t, s, need))
    BY <1>1, GrowWithin
<1>4. ~(freeing.freed < extra) => Within(Grow(u, s, need))
    <2> SUFFICES ASSUME ~(freeing.freed < extra) PROVE Within(Grow(u, s, need))
        OBVIOUS
    <2>1. FreeBlocks(u) = engine.numBlocks - Held(u)
        BY FreeIsRest
    <2> HIDE DEF need, freeing, u
    <2>2. need - u.blocks[s] <= FreeBlocks(u)
        BY <1>1, <1>2, <2>1
    <2> QED BY <1>1, <1>2, <2>2, GrowWithin
<1>5. Within(Preempt(u, s))
    <2>1. u.blocks[s] \in Nat /\ Held(u) \in Nat /\ Held(u) <= engine.numBlocks
        BY <1>1, <1>2, HeldType DEF Within
    <2>2. Preempt(u, s) \in Tables /\ Held(Preempt(u, s)) = Held(u) - u.blocks[s]
        BY <1>2, PreemptHolds
    <2> HIDE DEF u
    <2> QED BY <1>1, <2>1, <2>2 DEF Within
<1> HIDE DEF need, extra, freeing, u
<1>6. \/ Extend(t, s) = t
      \/ extra <= FreeBlocks(t) /\ Extend(t, s) = Grow(t, s, need)
      \/ Extend(t, s) = Preempt(u, s)
      \/ ~(freeing.freed < extra) /\ Extend(t, s) = Grow(u, s, need)
    BY DEF Extend, need, extra, freeing, u
<1> QED BY <1>3, <1>4, <1>5, <1>6

\* So does a token with, if there is one, its block.
Generating ==
    [tables : Tables, generated : [Request -> Nat], finished : Seq(Request)]

\* A token more, or the end of a sequence, stays within the pool.
LEMMA GenerateWithin ==
    ASSUME engine \in Engines, NEW a \in Generating, Within(a.tables), NEW s \in Request
    PROVE  Generate(a, s) \in Generating /\ Within(Generate(a, s).tables)
<1> DEFINE gen == [a.generated EXCEPT ![s] = @ + 1]
           need == BlocksNeeded(Prompt[s] + gen[s])
           t == a.tables
           grown == IF need - t.blocks[s] <= FreeBlocks(t) THEN Grow(t, s, need) ELSE t
           u == [t EXCEPT !.state[s] = "FINISHED", !.blocks[s] = 0,
                          !.running = RemoveFirst(@, s)]
<1>1. /\ t \in Tables /\ a.generated \in [Request -> Nat] /\ a.finished \in Seq(Request)
      /\ a = [tables |-> t, generated |-> a.generated, finished |-> a.finished]
    BY DEF Generating
<1>2. gen \in [Request -> Nat] /\ gen[s] \in Nat
    BY <1>1
<1>3. need \in Nat
    <2>1. Prompt[s] + gen[s] \in Nat
        BY <1>2, BatcherAssumption
    <2> HIDE DEF gen
    <2> QED BY <2>1, NeedsType
<1>4. Within(grown)
    <2> HIDE DEF need
    <2> QED BY <1>3, GrowWithin
<1>5. Within(u)
    <2> DEFINE p == Preempt(t, s)
    <2>1. u \in Tables /\ u.blocks = [t.blocks EXCEPT ![s] = 0]
        <3>1. RemoveFirst(t.running, s) \in Seq(Request)
            BY <1>1, RemoveElements DEF Tables
        <3>2. [t.blocks EXCEPT ![s] = 0] \in [Request -> Nat]
            BY <1>1 DEF Tables
        <3>3. [t.state EXCEPT ![s] = "FINISHED"] \in [Request -> State]
            BY <1>1 DEF Tables, State
        <3> QED BY <1>1, <3>1, <3>2, <3>3 DEF Tables
    <2>2. p.blocks = [t.blocks EXCEPT ![s] = 0] /\ Held(p) = Held(t) - t.blocks[s]
        BY <1>1, PreemptHolds
    <2>3. Held(u) = Held(t) - t.blocks[s]
        BY <2>1, <2>2 DEF Held
    <2>4. /\ Held(t) \in Nat /\ t.blocks[s] \in Nat /\ engine.numBlocks \in Nat
          /\ Held(t) <= engine.numBlocks
        BY <1>1, HeldType, BatcherAssumption DEF Within, Tables
    <2> HIDE DEF u, t
    <2> QED BY <2>1, <2>3, <2>4 DEF Within
<1>6. Append(a.finished, s) \in Seq(Request)
    BY <1>1, AppendProperties
<1> HIDE DEF gen, need, grown, u
<1>7. \/ Generate(a, s) = a
      \/ Generate(a, s) = [a EXCEPT !.generated = gen, !.tables = grown]
      \/ Generate(a, s) = [a EXCEPT !.generated = gen, !.tables = u, !.finished = Append(@, s)]
    BY DEF Generate, gen, need, grown, u
<1> QED BY <1>1, <1>2, <1>4, <1>5, <1>6, <1>7 DEF Generating, Within

-----------------------------------------------------------------------------
(* The pool is never oversubscribed. *)

Now == [waiting |-> waiting, running |-> running, blocks |-> blocks, state |-> state]

\* The steps of the scheduler keep this: tables about requests, and blocks that
\* are in the pool.
PoolInv ==
    /\ engine \in Engines
    /\ Within(Now)
    /\ Progress
    /\ batch \in Seq(Request)
    /\ finished \in Seq(Request)

\* At first nothing is held.
LEMMA PoolInit == Init => PoolInv
<1> SUFFICES ASSUME Init PROVE PoolInv
    OBVIOUS
<1>1. Now \in Tables /\ \A s \in Request : Now.blocks[s] = 0
    BY DEF Init, Now, Tables, State
<1>2. Held(Now) = 0
    BY <1>1, BatcherAssumption, SumOfZeros DEF Held
<1>3. engine \in Engines /\ engine.numBlocks \in Nat
    BY BatcherAssumption DEF Init
<1> QED BY <1>1, <1>2, <1>3 DEF Init, PoolInv, Within, Progress

\* Tables that are set to some within the pool are within it.
LEMMA SetWithin ==
    ASSUME NEW t, Within(t), SetTables(t), engine' = engine
    PROVE  Within(Now)'
<1>1. /\ t \in Tables
      /\ t = [waiting |-> t.waiting, running |-> t.running, blocks |-> t.blocks, state |-> t.state]
    BY DEF Within, Tables
<1>2. Now' = t
    BY <1>1 DEF Now, SetTables
<1>3. Held(Now)' = Held(t)
    BY <1>2 DEF Held
<1> QED BY <1>1, <1>2, <1>3 DEF Within

\* schedule stays within the pool, whether or not it raises.
LEMMA SchedulePool == PoolInv /\ Schedule => PoolInv'
<1> SUFFICES ASSUME PoolInv, Schedule PROVE PoolInv'
    OBVIOUS
<1> DEFINE base == [tables |-> Now, admitted |-> <<>>, left |-> <<>>, raised |-> FALSE]
           T == {a \in Admission : Within(a.tables)}
           q == Sorted(waiting, Earlier)
           a == AdmitAll(Now)
<1>1. engine \in Engines /\ Progress /\ Within(Now) /\ Now \in Tables /\ engine' = engine
    BY DEF PoolInv, Within, Schedule
<1>2. a \in T
    <2>1. q \in Seq(Request)
        BY <1>1, SortedType DEF Tables, Now
    <2>2. base \in T
        BY <1>1 DEF Admission
    <2>3. \A b \in T, x \in Request : Admit(b, x) \in T
        BY <1>1, AdmitWithin
    <2>4. a = FoldLeft(Admit, base, q)
        BY DEF AdmitAll, Now
    <2> HIDE DEF base, T, q, a
    <2>5. PICK g \in [0 .. Len(q) -> T] : Admissions(g, q, base, a)
        BY <2>1, <2>2, <2>3, <2>4, AdmitSteps
    <2>6. Len(q) \in 0 .. Len(q)
        BY <2>1
    <2> QED BY <2>5, <2>6 DEF Admissions
<1>3. /\ a \in Admission /\ Within(a.tables) /\ a.tables \in Tables
      /\ a.left \in Seq(Request) /\ a.admitted \in Seq(Request)
    BY <1>2 DEF Within, Admission
<1> DEFINE r == FoldLeft(Register, a.tables.running, a.admitted)
           t == [a.tables EXCEPT !.waiting = a.left, !.running = r]
           e == ExtendAll(t)
<1> HIDE DEF a
<1>4. r \in Seq(Request)
    <2> DEFINE R == Seq(Request)
    <2>1. \A b \in R, x \in Request : Register(b, x) \in R
        BY AppendProperties DEF Register
    <2>2. a.tables.running \in R
        BY <1>3 DEF Tables
    <2> HIDE DEF R, r
    <2>3. PICK g \in [0 .. Len(a.admitted) -> R] :
              Registrations(g, a.admitted, a.tables.running, r)
        BY <1>3, <2>1, <2>2, RegisterSteps DEF r
    <2>4. Len(a.admitted) \in 0 .. Len(a.admitted)
        BY <1>3
    <2> QED BY <2>3, <2>4 DEF R, Registrations
<1>5. Within(t)
    <2> HIDE DEF r
    <2>1. t \in Tables /\ t.blocks = a.tables.blocks
        BY <1>3, <1>4 DEF Tables
    <2> HIDE DEF t
    <2> QED BY <1>3, <2>1 DEF Within, Held
<1>6. t.running \in Seq(Request)
    BY <1>5 DEF Within, Tables
<1> HIDE DEF r, t
<1>7. Within(e)
    <2> DEFINE W == {u \in Tables : Held(u) <= engine.numBlocks}
    <2>1. \A u \in W, x \in Request : Extend(u, x) \in W
        BY <1>1, ExtendWithin DEF Within
    <2>2. t \in W
        BY <1>5 DEF Within
    <2>3. e = FoldLeft(Extend, t, t.running)
        BY DEF ExtendAll
    <2> HIDE DEF W, e
    <2>4. e \in W
        BY <1>6, <2>1, <2>2, <2>3, ExtendStays
    <2> QED BY <2>4 DEF W, Within
<1> HIDE DEF e
<1>8. Batch(e) \in Seq(Request)
    <2> DEFINE s == Sorted(e.running, Earlier)
               m == Min({Len(s), engine.maxTokensPerStep})
    <2>1. s \in Seq(Request) /\ Len(s) \in Nat /\ engine.maxTokensPerStep \in Nat
        BY <1>1, <1>7, SortedType, BatcherAssumption DEF Within, Tables
    <2>2. m \in Nat /\ m <= Len(s)
        BY <2>1 DEF Min
    <2> HIDE DEF s, m
    <2>3. SubSeq(s, 1, m) \in Seq(Request)
        BY <2>1, <2>2, SubSeqProperties
    <2> QED BY <2>3 DEF Batch, s, m
<1>9. \/ SetTables(a.tables) /\ UNCHANGED <<batch, pc>>
      \/ SetTables(e) /\ batch' = Batch(e)
    BY DEF Schedule, a, Now, e, t, r
<1>10. Within(Now)'
    BY <1>1, <1>3, <1>7, <1>9, SetWithin
<1>11. batch' \in Seq(Request)
    BY <1>8, <1>9 DEF PoolInv
<1>12. UNCHANGED <<engine, generated, finished>>
    BY DEF Schedule
<1> QED BY <1>1, <1>10, <1>11, <1>12 DEF PoolInv, Progress

\* step stays within the pool.
LEMMA StepPool == PoolInv /\ Step => PoolInv'
<1> SUFFICES ASSUME PoolInv, Step PROVE PoolInv'
    OBVIOUS
<1> DEFINE base == [tables |-> Now, generated |-> generated, finished |-> finished]
           T == {a \in Generating : Within(a.tables)}
           a == FoldLeft(Generate, base, batch)
<1>1. /\ engine \in Engines /\ Within(Now) /\ Now \in Tables /\ engine' = engine
      /\ batch \in Seq(Request)
    BY DEF PoolInv, Within, Step
<1>2. a \in T
    <2>1. base \in T
        BY <1>1 DEF Generating, PoolInv, Progress
    <2>2. \A b \in T, x \in Request : Generate(b, x) \in T
        BY <1>1, GenerateWithin
    <2> HIDE DEF base, T
    <2> QED BY <1>1, <2>1, <2>2, GenerateStays
<1>3. SetTables(a.tables) /\ generated' = a.generated /\ finished' = a.finished /\ batch' = <<>>
    BY DEF Step, Now
<1> HIDE DEF a
<1>4. Within(a.tables) /\ a.generated \in [Request -> Nat] /\ a.finished \in Seq(Request)
    BY <1>2 DEF Generating
<1>5. Within(Now)'
    BY <1>1, <1>3, <1>4, SetWithin
<1>6. batch' \in Seq(Request)
    BY <1>3
<1> QED BY <1>1, <1>3, <1>4, <1>5, <1>6 DEF PoolInv, Progress

\* Every step stays within the pool.
LEMMA PoolNext == PoolInv /\ [Next]_vars => PoolInv'
<1> SUFFICES ASSUME PoolInv, [Next]_vars PROVE PoolInv'
    OBVIOUS
<1>1. ASSUME NEW s \in Request, AddRequest(s) PROVE PoolInv'
    <2> DEFINE t == [Now EXCEPT !.waiting = Append(waiting, s),
                                !.state = [state EXCEPT ![s] = "WAITING"]]
    <2>1. waiting \in Seq(Request) /\ state \in [Request -> State] /\ Now \in Tables
        BY DEF PoolInv, Within, Tables, Now
    <2>2. t \in Tables /\ t.blocks = blocks
        <3>1. Append(waiting, s) \in Seq(Request)
            BY <2>1, AppendProperties
        <3> QED BY <2>1, <3>1 DEF Tables, State, Now
    <2>3. Within(t)
        BY <2>2 DEF PoolInv, Within, Held, Now
    <2>4. SetTables(t) /\ engine' = engine
        BY <1>1 DEF AddRequest, SetTables, Now
    <2>5. Within(Now)'
        <3> HIDE DEF t
        <3> QED BY <2>3, <2>4, SetWithin
    <2> QED BY <1>1, <2>5 DEF AddRequest, PoolInv, Progress
<1>2. ASSUME GetFinished PROVE PoolInv'
    <2>1. SetTables(Now) /\ engine' = engine
        BY <1>2 DEF GetFinished, SetTables, Now
    <2>2. Within(Now)'
        BY <2>1, SetWithin DEF PoolInv
    <2> QED BY <1>2, <2>2 DEF GetFinished, PoolInv, Progress
<1>3. ASSUME UNCHANGED vars PROVE PoolInv'
    <2>1. SetTables(Now) /\ engine' = engine
        BY <1>3 DEF vars, SetTables, Now
    <2>2. Within(Now)'
        BY <2>1, SetWithin DEF PoolInv
    <2> QED BY <1>3, <2>2 DEF vars, PoolInv, Progress
<1> QED BY <1>1, <1>2, <1>3, SchedulePool, StepPool DEF Next

\* The inductive invariant holds.
THEOREM PoolInvariance == Spec => []PoolInv
<1> QED BY PoolInit, PoolNext, PTL DEF Spec

\* No order of admissions, extensions and preemptions, and no MemoryError that
\* cuts schedule short, hands out more blocks than the pool has, however small it is.
THEOREM NeverOversubscribed == Spec => []PoolNotOversubscribed
<1>1. PoolInv => PoolNotOversubscribed
    BY DEF PoolInv, Within, Held, Now, PoolNotOversubscribed, SumOver
<1> QED BY <1>1, PoolInvariance, PTL

-----------------------------------------------------------------------------
(* Sequences without duplicates. *)

\* What a sorted sequence contains after one element more.
LEMMA InsertKeeps ==
    ASSUME NEW S, NEW q \in Seq(S), NEW x \in S, NEW before, IsInjective(q), x \notin ToSet(q)
    PROVE  /\ IsInjective(Insert(q, x, before))
           /\ ToSet(Insert(q, x, before)) = ToSet(q) \union {x}
<1> DEFINE a == Insert(q, x, before)
           n == Len(q)
<1>1. PICK k \in 1 .. n + 1 : a = InsertAt(q, k, x)
    BY InsertType
<1>2. /\ n \in Nat /\ DOMAIN q = 1 .. n /\ a \in Seq(S) /\ Len(a) = n + 1 /\ DOMAIN a = 1 .. n + 1
      /\ \A i \in 1 .. n + 1 : a[i] = IF i < k THEN q[i] ELSE IF i = k THEN x ELSE q[i - 1]
    <2>1. n \in Nat /\ DOMAIN q = 1 .. n /\ k \in 1 .. n + 1
        BY <1>1
    <2> DEFINE b == InsertAt(q, k, x)
    <2>2. /\ b \in Seq(S) /\ Len(b) = n + 1
          /\ \A i \in 1 .. n + 1 : b[i] = IF i < k THEN q[i] ELSE IF i = k THEN x ELSE q[i - 1]
        BY <2>1, InsertAtElements
    <2> HIDE DEF a, b, n
    <2>3. a = b
        BY <1>1 DEF b
    <2> QED BY <2>1, <2>2, <2>3
<1> HIDE DEF a, n
<1>3. \A i \in 1 .. n : q[i] # x
    BY <1>2 DEF ToSet
<1> DEFINE p(i) == IF i < k THEN i ELSE i - 1
<1>4. \A i \in 1 .. n + 1 : i # k => p(i) \in 1 .. n /\ a[i] = q[p(i)]
    BY <1>2
<1>5. a[k] = x
    BY <1>2
<1>6. \A i, j \in 1 .. n + 1 : i # k /\ j # k /\ p(i) = p(j) => i = j
    BY <1>2
<1>7. \A j \in 1 .. n : \E i \in 1 .. n + 1 : i # k /\ p(i) = j
    <2> SUFFICES ASSUME NEW j \in 1 .. n PROVE \E i \in 1 .. n + 1 : i # k /\ p(i) = j
        OBVIOUS
    <2>1. CASE j < k
        <3>1. j \in 1 .. n + 1 /\ j # k /\ p(j) = j
            BY <1>2, <2>1
        <3> QED BY <3>1
    <2>2. CASE j >= k
        <3>1. j + 1 \in 1 .. n + 1 /\ j + 1 # k /\ p(j + 1) = j
            BY <1>2, <2>2
        <3> QED BY <3>1
    <2> QED BY <1>2, <2>1, <2>2
<1> HIDE DEF p
<1>8. ASSUME NEW i \in 1 .. n + 1, NEW j \in 1 .. n + 1, a[i] = a[j] PROVE i = j
    <2>1. CASE i # k /\ j # k
        <3>1. p(i) = p(j)
            BY <1>2, <1>4, <1>8, <2>1 DEF IsInjective
        <3> QED BY <1>6, <2>1, <3>1
    <2>2. CASE i = k \/ j = k
        BY <1>3, <1>4, <1>5, <1>8, <2>2
    <2> QED BY <2>1, <2>2
<1>9. ToSet(a) = ToSet(q) \union {x}
    <2>1. \A i \in 1 .. n + 1 : a[i] \in ToSet(q) \union {x}
        BY <1>2, <1>4, <1>5 DEF ToSet
    <2>2. ASSUME NEW j \in 1 .. n PROVE q[j] \in ToSet(a)
        <3>1. PICK i \in 1 .. n + 1 : i # k /\ p(i) = j
            BY <1>7
        <3>2. a[i] = q[j]
            BY <1>4, <3>1
        <3> QED BY <1>2, <3>2 DEF ToSet
    <2>3. x \in ToSet(a)
        BY <1>2, <1>5 DEF ToSet
    <2> QED BY <1>2, <2>1, <2>2, <2>3 DEF ToSet
<1> QED BY <1>2, <1>8, <1>9 DEF IsInjective, a

\* sorted takes every element over, each once.
LEMMA SortedKeeps ==
    ASSUME NEW S, NEW q \in Seq(S), NEW before, IsInjective(q)
    PROVE  IsInjective(Sorted(q, before)) /\ ToSet(Sorted(q, before)) = ToSet(q)
<1> DEFINE T == Seq(S)
           base == <<>>
           n == Len(q)
<1>1. \A a \in T, x \in S : Insert(a, x, before) \in T
    BY InsertType, InsertAtElements
<1>2. base \in T /\ IsInjective(base) /\ ToSet(base) = {}
    BY DEF IsInjective, ToSet
<1>3. n \in Nat /\ DOMAIN q = 1 .. n /\ \A i \in 1 .. n : q[i] \in S
    OBVIOUS
<1> HIDE DEF T, base
<1>4. PICK g \in [0 .. Len(q) -> T] :
          Insertions(g, q, base, before, SortedFrom(base, q, before))
    BY <1>1, <1>2, SortedSteps
<1> DEFINE G == {i \in 0 .. n : /\ IsInjective(g[i])
                                /\ ToSet(g[i]) = {q[j] : j \in 1 .. i}}
<1>5. 0 \in G
    BY <1>2, <1>3, <1>4 DEF Insertions
<1>6. ASSUME NEW i \in 1 .. n, i - 1 \in G PROVE i \in G
    <2>1. g[i] = Insert(g[i - 1], q[i], before) /\ g[i - 1] \in T /\ q[i] \in S
        BY <1>3, <1>4 DEF Insertions
    <2>2. q[i] \notin {q[j] : j \in 1 .. i - 1}
        BY <1>3 DEF IsInjective
    <2>3. IsInjective(g[i]) /\ ToSet(g[i]) = ToSet(g[i - 1]) \union {q[i]}
        BY <1>6, <2>1, <2>2, InsertKeeps DEF T
    <2>4. {q[j] : j \in 1 .. i} = {q[j] : j \in 1 .. i - 1} \union {q[i]}
        BY <1>3
    <2> QED BY <1>3, <1>6, <2>3, <2>4
<1>7. n \in G
    <2>1. G \in SUBSET (0 .. n)
        OBVIOUS
    <2> HIDE DEF G, n
    <2>2. \A i \in 0 .. n : i \in G
        BY <1>3, <1>5, <1>6, <2>1, UpTo
    <2> QED BY <1>3, <2>2
<1>8. Sorted(q, before) = g[n]
    BY <1>4 DEF Insertions, Sorted, SortedFrom, base
<1>9. ToSet(q) = {q[j] : j \in 1 .. n}
    BY <1>3 DEF ToSet
<1> QED BY <1>7, <1>8, <1>9

-----------------------------------------------------------------------------
(* A pool that suffices: nothing is preempted, and every sequence has a place. *)

Placed(t, fin, out) ==
    /\ IsInjective(t.waiting) /\ IsInjective(t.running) /\ IsInjective(fin) /\ IsInjective(out)
    /\ ToSet(fin) \intersect ToSet(out) = {}
    /\ \A s \in Request :
          /\ t.state[s] = "WAITING" <=> s \in ToSet(t.waiting)
          /\ t.state[s] = "RUNNING" <=> s \in ToSet(t.running)
          /\ t.state[s] = "FINISHED" <=> s \in ToSet(fin) \union ToSet(out)

Capped(t) == \A s \in Request : t.blocks[s] <= Shares[s]

Counted(t, gen) ==
    \A s \in Request :
        IF t.state[s] = "FINISHED" THEN gen[s] = MaxTokens[s] ELSE gen[s] < MaxTokens[s]

PlaceInv ==
    /\ PoolInv
    /\ drained \in Seq(Request)
    /\ PoolSuffices => Placed(Now, finished, drained) /\ Capped(Now) /\ Counted(Now, generated)

\* More tokens need no fewer blocks.
LEMMA NeedsMonotone ==
    ASSUME NEW m \in Nat, NEW n \in Nat, m <= n
    PROVE  BlocksNeeded(m) <= BlocksNeeded(n)
<1>1. BlockSize \in Nat \ {0}
    BY BatcherAssumption
<1> DEFINE x == m + BlockSize - 1
           y == n + BlockSize - 1
           a == x \div BlockSize
           b == y \div BlockSize
<1>2. x \in Nat /\ y \in Nat /\ x <= y
    BY <1>1
<1> HIDE DEF x, y
<1>3. a \in Nat /\ BlockSize * a <= x /\ x < BlockSize * a + BlockSize
    BY <1>1, <1>2
<1>4. b \in Nat /\ BlockSize * b <= y /\ y < BlockSize * b + BlockSize
    BY <1>1, <1>2
<1> HIDE DEF a, b
<1>5. a <= b
    <2> SUFFICES ASSUME ~ (a <= b) PROVE FALSE
        OBVIOUS
    <2>1. a - b - 1 \in Nat
        BY <1>3, <1>4
    <2>2. BlockSize * (a - b - 1) \in Nat
        BY <1>1, <2>1
    <2>3. BlockSize * a = BlockSize * b + BlockSize + BlockSize * (a - b - 1)
        BY <1>1, <1>3, <1>4
    <2> DEFINE u == BlockSize * a
               v == BlockSize * b
               w == BlockSize * (a - b - 1)
    <2>4. u \in Int /\ v \in Int /\ w \in Nat
        BY <1>1, <1>3, <1>4, <2>2
    <2>5. u = v + BlockSize + w /\ u <= x /\ y < v + BlockSize
        BY <1>3, <1>4, <2>3
    <2> HIDE DEF u, v, w
    <2> QED BY <1>1, <1>2, <2>4, <2>5
<1> QED BY <1>5 DEF a, b, x, y, BlocksNeeded

\* A sequence that is not at its end needs no more than its share of the pool.
LEMMA NeedsCapped ==
    ASSUME NEW s \in Request, NEW n \in Nat, n <= MaxTokens[s]
    PROVE  BlocksNeeded(Prompt[s] + n) \in Nat /\ BlocksNeeded(Prompt[s] + n) <= Shares[s]
<1>1. Prompt[s] \in Nat /\ MaxTokens[s] \in Nat
    BY BatcherAssumption
<1>2. /\ Prompt[s] + n \in Nat /\ Prompt[s] + MaxTokens[s] \in Nat
      /\ Prompt[s] + n <= Prompt[s] + MaxTokens[s]
    BY <1>1
<1> QED BY <1>2, NeedsMonotone, NeedsType DEF Shares

\* A share of the pool that a sequence does not hold is free.
LEMMA ShareIsFree ==
    ASSUME PoolSuffices, engine \in Engines, NEW t \in Tables, Capped(t),
           NEW s \in Request, NEW need \in Nat, need <= Shares[s]
    PROVE  /\ need - t.blocks[s] <= FreeBlocks(t)
           /\ FreeBlocks(t) \in Nat
<1> DEFINE m == Max({t.blocks[s], need})
           b == [t.blocks EXCEPT ![s] = m]
<1>1. \A r \in Request : t.blocks[r] \in Nat /\ Shares[r] \in Nat
    <2>1. \A r \in Request : Prompt[r] + MaxTokens[r] \in Nat
        BY BatcherAssumption
    <2>2. \A r \in Request : Shares[r] \in Nat
        BY <2>1, NeedsType DEF Shares
    <2> QED BY <2>2 DEF Tables
<1>2. m \in Nat /\ m <= Shares[s] /\ need <= m /\ t.blocks[s] <= m
    <2>1. m = IF need <= t.blocks[s] THEN t.blocks[s] ELSE need
        BY <1>1, MaxOfTwo
    <2> HIDE DEF m
    <2>2. t.blocks[s] <= Shares[s]
        BY DEF Capped
    <2> QED BY <1>1, <2>1, <2>2
<1>3. b[s] = m /\ \A r \in Request \ {s} : b[r] = t.blocks[r]
    BY DEF Tables
<1>4. \A r \in Request : b[r] \in Int /\ Shares[r] \in Int /\ b[r] <= Shares[r]
    <2> HIDE DEF m, b
    <2> QED BY <1>1, <1>2, <1>3 DEF Capped
<1> HIDE DEF m, b
<1>5. SumOver(b, Request) <= SumOver(Shares, Request)
    BY <1>4, BatcherAssumption, SumBounded
<1>6. SumOver(b, Request) = SumOver(t.blocks, Request) - t.blocks[s] + b[s]
    <2>1. /\ IsFiniteSet(Request)
          /\ \A r \in Request : t.blocks[r] \in Int
          /\ b[s] \in Int
          /\ \A r \in Request \ {s} : b[r] = t.blocks[r]
        BY <1>1, <1>2, <1>3, BatcherAssumption
    <2> QED BY <2>1, SumChange
<1>7. SumOver(Shares, Request) <= engine.numBlocks
    BY DEF PoolSuffices, SumOver
<1>8. Held(t) \in Nat /\ SumOver(Shares, Request) \in Int /\ engine.numBlocks \in Nat
    <2>1. SumOver(Shares, Request) \in Int
        BY <1>4, BatcherAssumption, SumIsInteger
    <2> QED BY <2>1, HeldType, BatcherAssumption
<1>9. Held(t) - t.blocks[s] + m <= engine.numBlocks
    BY <1>1, <1>2, <1>3, <1>5, <1>6, <1>7, <1>8 DEF Held
<1> QED BY <1>1, <1>2, <1>8, <1>9, FreeIsRest

\* A sequence that is not at its end finds the blocks for its next token.
LEMMA NextIsFree ==
    ASSUME PoolSuffices, engine \in Engines, Progress, NEW t \in Tables, Capped(t),
           NEW s \in Request, generated[s] < MaxTokens[s]
    PROVE  /\ NextNeeds(s) \in Nat /\ NextNeeds(s) <= Shares[s]
           /\ NextNeeds(s) - t.blocks[s] <= FreeBlocks(t)
           /\ FreeBlocks(t) \in Nat /\ t.blocks[s] \in Nat
<1>1. generated[s] \in Nat /\ MaxTokens[s] \in Nat /\ Prompt[s] \in Nat /\ t.blocks[s] \in Nat
    BY BatcherAssumption DEF Progress, Tables
<1>2. generated[s] + 1 \in Nat /\ generated[s] + 1 <= MaxTokens[s]
    BY <1>1
<1>3. Prompt[s] + (generated[s] + 1) = Prompt[s] + generated[s] + 1
    BY <1>1
<1>4. NextNeeds(s) \in Nat /\ NextNeeds(s) <= Shares[s]
    BY <1>2, <1>3, NeedsCapped DEF NextNeeds, TotalTokens
<1> QED BY <1>1, <1>4, ShareIsFree

\* Growing to at most its share, a sequence stays within it.
LEMMA GrowCapped ==
    ASSUME NEW t \in Tables, Capped(t), NEW s \in Request, NEW need \in Nat, need <= Shares[s]
    PROVE  /\ Grow(t, s, need) \in Tables /\ Capped(Grow(t, s, need))
           /\ Grow(t, s, need).waiting = t.waiting /\ Grow(t, s, need).running = t.running
           /\ Grow(t, s, need).state = t.state
<1> DEFINE m == Max({t.blocks[s], need})
           b == [t.blocks EXCEPT ![s] = m]
           u == Grow(t, s, need)
<1>1. /\ u = [t EXCEPT !.blocks = b] /\ u \in Tables
      /\ m = IF need <= t.blocks[s] THEN t.blocks[s] ELSE need
    BY GrowHolds
<1> HIDE DEF u, m
<1>2. m <= Shares[s]
    BY <1>1 DEF Capped
<1>3. /\ t = [waiting |-> t.waiting, running |-> t.running, blocks |-> t.blocks, state |-> t.state]
      /\ t.blocks \in [Request -> Nat]
    BY DEF Tables
<1>4. \A r \in Request : b[r] <= Shares[r]
    BY <1>2, <1>3 DEF Capped
<1> HIDE DEF b
<1>5. u.blocks = b /\ u.waiting = t.waiting /\ u.running = t.running /\ u.state = t.state
    BY <1>1, <1>3
<1> QED BY <1>1, <1>4, <1>5 DEF Capped, u

\* A queued sequence waits when the batch is full, and else it runs.
Admitted(b, a, s) ==
    IF Len(a.tables.running) + Len(a.admitted) >= engine.maxBatchSize
    THEN b = [a EXCEPT !.left = Append(a.left, s)]
    ELSE b = [a EXCEPT !.tables = [Grow(a.tables, s, NextNeeds(s)) EXCEPT !.state[s] = "RUNNING"],
                       !.admitted = Append(a.admitted, s)]

\* Nothing is preempted to admit a sequence and nothing fails.
LEMMA AdmitEasily ==
    ASSUME PoolSuffices, engine \in Engines, Progress,
           NEW a \in Admission, ~ a.raised, Capped(a.tables),
           NEW s \in Request, generated[s] < MaxTokens[s]
    PROVE  Admitted(Admit(a, s), a, s)
<1> DEFINE need == NextNeeds(s)
           owned == a.tables.blocks[s]
           free == FreeBlocks(a.tables)
           extra == Max({0, need - owned})
           freeing == IF extra > free
                      THEN PreemptToFree(a.tables, extra, {})
                      ELSE [tables |-> a.tables, freed |-> extra]
           t == freeing.tables
           v == [Grow(t, s, need) EXCEPT !.state[s] = "RUNNING"]
           full == Len(a.tables.running) + Len(a.admitted) >= engine.maxBatchSize
<1>1. need \in Nat /\ owned \in Nat /\ free \in Nat /\ need - owned <= free
    <2>1. a.tables \in Tables
        BY DEF Admission
    <2> QED BY <2>1, NextIsFree
<1>2. Admit(a, s) =
         CASE a.raised -> a
           [] ~a.raised /\ full -> [a EXCEPT !.left = Append(@, s)]
           [] ~a.raised /\ ~full ->
                IF freeing.freed < extra THEN [a EXCEPT !.tables = t, !.left = Append(@, s)]
                ELSE IF need - t.blocks[s] > FreeBlocks(t)
                THEN [a EXCEPT !.tables = t, !.raised = TRUE]
                ELSE [a EXCEPT !.tables = v, !.admitted = Append(@, s)]
    <2> DEFINE size == Len(a.tables.running) + Len(a.admitted)
    <2>0. size \in Int /\ engine.maxBatchSize \in Int
        BY BatcherAssumption DEF Admission, Tables
    <2>1. size < engine.maxBatchSize <=> ~ (size >= engine.maxBatchSize)
        <3> HIDE DEF size
        <3> QED BY ONLY <2>0
    <2>2. size < engine.maxBatchSize <=> ~full
        BY ONLY <2>1
    <2> HIDE DEF full
    <2> QED BY <2>2 DEF Admit, full
<1> HIDE DEF need, owned, free
<1>3. extra \in Nat /\ ~ (extra > free)
    <2>1. need - owned \in Int
        BY <1>1
    <2>2. extra = IF need - owned <= 0 THEN 0 ELSE need - owned
        BY <2>1, MaxOfTwo
    <2> HIDE DEF extra
    <2> QED BY <1>1, <2>2
<1> HIDE DEF extra
<1>4. freeing = [tables |-> a.tables, freed |-> extra]
    BY <1>3
<1>5. t = a.tables /\ freeing.freed = extra
    BY <1>4
<1> HIDE DEF freeing, t
<1>6. ~ (freeing.freed < extra) /\ ~ (need - t.blocks[s] > FreeBlocks(t))
    BY <1>1, <1>3, <1>5 DEF owned, free
<1> HIDE DEF v, full
<1>7. Admit(a, s) = IF full THEN [a EXCEPT !.left = Append(@, s)]
                    ELSE [a EXCEPT !.tables = v, !.admitted = Append(@, s)]
    BY <1>2, <1>6
<1> QED BY <1>5, <1>7 DEF Admitted, v, full, need

\* Where the first loop stands when it has looked at the sequences in seen.
Standing(a, seen) ==
    /\ a \in Admission /\ ~ a.raised
    /\ a.tables.waiting = waiting /\ a.tables.running = running
    /\ Capped(a.tables)
    /\ IsInjective(a.admitted) /\ IsInjective(a.left)
    /\ ToSet(a.admitted) \intersect ToSet(a.left) = {}
    /\ ToSet(a.admitted) \union ToSet(a.left) = seen
    /\ a.tables.state = [s \in Request |-> IF s \in ToSet(a.admitted) THEN "RUNNING" ELSE state[s]]
    /\ seen # {} => running # <<>> \/ a.admitted # <<>>

\* One sequence more, and the loop stands as it should.
LEMMA AdmitStands ==
    ASSUME PoolSuffices, engine \in Engines, Progress, state \in [Request -> State],
           NEW seen, NEW a, Standing(a, seen),
           NEW s \in Request, s \notin seen, generated[s] < MaxTokens[s]
    PROVE  Standing(Admit(a, s), seen \union {s})
<1> DEFINE need == NextNeeds(s)
           t == a.tables
           g == Grow(t, s, need)
           u == [t.state EXCEPT ![s] = "RUNNING"]
           v == [g EXCEPT !.state = u]
           full == Len(t.running) + Len(a.admitted) >= engine.maxBatchSize
<1>1. /\ a \in Admission /\ ~ a.raised /\ t \in Tables /\ Capped(t)
      /\ a.admitted \in Seq(Request) /\ a.left \in Seq(Request)
      /\ a = [tables |-> t, admitted |-> a.admitted, left |-> a.left, raised |-> a.raised]
    BY DEF Standing, Admission
<1>2. /\ t.waiting = waiting /\ t.running = running
      /\ t.state = [r \in Request |-> IF r \in ToSet(a.admitted) THEN "RUNNING" ELSE state[r]]
      /\ IsInjective(a.admitted) /\ IsInjective(a.left)
      /\ ToSet(a.admitted) \intersect ToSet(a.left) = {}
      /\ ToSet(a.admitted) \union ToSet(a.left) = seen
      /\ s \notin ToSet(a.admitted) /\ s \notin ToSet(a.left)
    BY DEF Standing
<1>3. Admitted(Admit(a, s), a, s)
    BY <1>1, AdmitEasily
<1>4. CASE full
    <2> DEFINE l == Append(a.left, s)
               b == [a EXCEPT !.left = l]
    <2>1. Admit(a, s) = b
        BY <1>3, <1>4 DEF Admitted
    <2>2. IsInjective(l) /\ ToSet(l) = ToSet(a.left) \union {s} /\ l \in Seq(Request)
        BY <1>1, <1>2, AppendKeeps
    <2>3. running # <<>> \/ a.admitted # <<>>
        <3>1. Len(t.running) \in Nat /\ Len(a.admitted) \in Nat /\ engine.maxBatchSize \in Nat \ {0}
            BY <1>1, BatcherAssumption DEF Tables
        <3> DEFINE i == Len(t.running)
                   j == Len(a.admitted)
                   m == engine.maxBatchSize
        <3>2. i \in Nat /\ j \in Nat /\ m \in Nat \ {0} /\ i + j >= m
            BY <1>4, <3>1
        <3>3. i # 0 \/ j # 0
            <4> HIDE DEF i, j, m
            <4> QED BY ONLY <3>2
        <3> QED BY <1>2, <3>3
    <2> HIDE DEF l
    <2>4. /\ b.tables = t /\ b.admitted = a.admitted /\ b.left = l /\ b.raised = a.raised
          /\ b \in Admission
        BY <1>1, <2>2 DEF Admission
    <2> HIDE DEF b, t
    <2>5. Standing(b, seen \union {s})
        BY <1>1, <1>2, <2>2, <2>3, <2>4 DEF Standing
    <2> QED BY <2>1, <2>5
<1>5. CASE ~ full
    <2> DEFINE d == Append(a.admitted, s)
               b == [a EXCEPT !.tables = v, !.admitted = d]
    <2>1. Admit(a, s) = b
        <3>1. [g EXCEPT !.state[s] = "RUNNING"] = v
            <4>1. g.state = t.state
                BY <1>1, NextIsFree, GrowCapped
            <4> QED BY <4>1
        <3> QED BY <1>3, <1>5, <3>1 DEF Admitted
    <2>2. IsInjective(d) /\ ToSet(d) = ToSet(a.admitted) \union {s} /\ d \in Seq(Request)
        BY <1>1, <1>2, AppendKeeps
    <2>3. d # <<>>
        BY <1>1
    <2>4. /\ g \in Tables /\ Capped(g) /\ g.waiting = t.waiting /\ g.running = t.running
          /\ g.state = t.state
        BY <1>1, NextIsFree, GrowCapped
    <2>5. /\ u \in [Request -> State]
          /\ u = [r \in Request |-> IF r \in ToSet(a.admitted) \union {s} THEN "RUNNING" ELSE state[r]]
        <3> HIDE DEF t
        <3> QED BY <1>2 DEF State
    <2> HIDE DEF d, g, u
    <2>6. /\ v \in Tables /\ v.blocks = g.blocks /\ v.waiting = t.waiting /\ v.running = t.running
          /\ v.state = u
        BY <2>4, <2>5 DEF Tables
    <2> HIDE DEF v
    <2>7. Capped(v)
        BY <2>4, <2>6 DEF Capped
    <2>8. /\ b.tables = v /\ b.admitted = d /\ b.left = a.left /\ b.raised = a.raised
          /\ b \in Admission
        BY <1>1, <2>2, <2>6 DEF Admission
    <2> HIDE DEF b, t
    <2>9. Standing(b, seen \union {s})
        <3>1. ToSet(d) \intersect ToSet(a.left) = {} /\ ToSet(d) \union ToSet(a.left) = seen \union {s}
            BY <1>2, <2>2
        <3>2. b.tables.state = [r \in Request |-> IF r \in ToSet(d) THEN "RUNNING" ELSE state[r]]
            BY <2>2, <2>5, <2>6, <2>8
        <3> QED BY <1>1, <1>2, <2>2, <2>3, <2>6, <2>7, <2>8, <3>1, <3>2 DEF Standing
    <2> QED BY <2>1, <2>9
<1> QED BY <1>4, <1>5

\* The first loop looks at the whole queue and fails nowhere.
LEMMA AllAdmitted ==
    ASSUME PlaceInv, PoolSuffices
    PROVE  Standing(AdmitAll(Now), ToSet(waiting))
<1> DEFINE base == [tables |-> Now, admitted |-> <<>>, left |-> <<>>, raised |-> FALSE]
           q == Sorted(waiting, Earlier)
           n == Len(q)
           T == Admission
           seen(i) == {q[j] : j \in 1 .. i}
<1>1. /\ engine \in Engines /\ Progress /\ Now \in Tables /\ state \in [Request -> State]
      /\ waiting \in Seq(Request) /\ Within(Now)
      /\ Placed(Now, finished, drained) /\ Capped(Now) /\ Counted(Now, generated)
    <2>1. Now \in Tables
        BY DEF PlaceInv, PoolInv, Within
    <2>2. state \in [Request -> State] /\ waiting \in Seq(Request)
        BY <2>1 DEF Tables, Now
    <2> QED BY <2>1, <2>2 DEF PlaceInv, PoolInv, Within
<1>2. IsInjective(waiting) /\ \A s \in ToSet(waiting) : s \in Request /\ generated[s] < MaxTokens[s]
    <2>1. IsInjective(waiting) /\ \A s \in Request : s \in ToSet(waiting) => state[s] = "WAITING"
        BY <1>1 DEF Placed, Now
    <2>2. ToSet(waiting) \in SUBSET Request
        BY <1>1 DEF ToSet
    <2>3. \A s \in Request : state[s] = "WAITING" => generated[s] < MaxTokens[s]
        BY <1>1 DEF Counted, Now
    <2> QED BY <2>1, <2>2, <2>3
<1>3. q \in Seq(Request) /\ IsInjective(q) /\ ToSet(q) = ToSet(waiting)
    BY <1>1, <1>2, SortedKeeps, SortedType
<1> HIDE DEF q
<1>4. n \in Nat /\ DOMAIN q = 1 .. n /\ \A i \in 1 .. n : q[i] \in Request /\ q[i] \in ToSet(waiting)
    BY <1>3 DEF ToSet
<1>5. base \in T /\ Standing(base, seen(0))
    <2>1. base \in T
        BY <1>1 DEF Admission
    <2>2. IsInjective(<<>>) /\ ToSet(<<>>) = {} /\ seen(0) = {}
        BY DEF IsInjective, ToSet
    <2>3. Now.state = state /\ Now.waiting = waiting /\ Now.running = running
        BY DEF Now
    <2>4. state = [s \in Request |-> IF s \in {} THEN "RUNNING" ELSE state[s]]
        BY <1>1
    <2> QED BY <1>1, <2>1, <2>2, <2>3, <2>4 DEF Standing
<1>6. \A a \in {a \in T : Within(a.tables)}, x \in Request : Admit(a, x) \in {b \in T : Within(b.tables)}
    BY <1>1, AdmitWithin
<1> DEFINE W == {a \in T : Within(a.tables)}
           last == AdmitAll(Now)
<1>7. base \in W /\ last = FoldLeft(Admit, base, q)
    BY <1>1, <1>5 DEF AdmitAll, Now, q
<1> HIDE DEF base, T, last
<1>8. PICK g \in [0 .. Len(q) -> W] : Admissions(g, q, base, last)
    <2> HIDE DEF W
    <2>1. \A a \in W, x \in Request : Admit(a, x) \in W
        BY <1>6 DEF W
    <2> QED BY <1>3, <1>7, <2>1, AdmitSteps
<1> DEFINE G == {i \in 0 .. n : Standing(g[i], seen(i))}
<1>9. 0 \in G
    BY <1>4, <1>5, <1>8 DEF Admissions
<1>10. ASSUME NEW i \in 1 .. n, i - 1 \in G PROVE i \in G
    <2>1. g[i] = Admit(g[i - 1], q[i]) /\ Standing(g[i - 1], seen(i - 1)) /\ q[i] \in Request
        BY <1>4, <1>8, <1>10 DEF Admissions
    <2>2. q[i] \notin seen(i - 1)
        BY <1>3, <1>4 DEF IsInjective
    <2>3. seen(i) = seen(i - 1) \union {q[i]}
        BY <1>4
    <2>4. generated[q[i]] < MaxTokens[q[i]]
        BY <1>2, <1>4
    <2> HIDE DEF seen
    <2>5. Standing(g[i], seen(i))
        BY <1>1, <2>1, <2>2, <2>3, <2>4, AdmitStands
    <2> QED BY <2>5
<1>11. n \in G
    <2>1. G \in SUBSET (0 .. n)
        OBVIOUS
    <2> HIDE DEF G, n
    <2>2. \A i \in 0 .. n : i \in G
        BY <1>4, <1>9, <1>10, <2>1, UpTo
    <2> QED BY <1>4, <2>2
<1>12. ToSet(q) = seen(n)
    BY <1>4 DEF ToSet
<1>13. g[n] = last
    BY <1>8 DEF Admissions
<1> QED BY <1>3, <1>11, <1>12, <1>13 DEF last

\* The table of running sequences after the first loop.
LEMMA RegisterAll ==
    ASSUME NEW run \in Seq(Request), NEW new \in Seq(Request), IsInjective(run)
    PROVE  LET r == FoldLeft(Register, run, new)
           IN /\ r \in Seq(Request) /\ IsInjective(r)
              /\ ToSet(r) = ToSet(run) \union ToSet(new)
              /\ run # <<>> \/ new # <<>> => r # <<>>
<1> DEFINE r == FoldLeft(Register, run, new)
           n == Len(new)
           T == {x \in Seq(Request) : IsInjective(x)}
           seen(i) == {new[j] : j \in 1 .. i}
<1>1. n \in Nat /\ DOMAIN new = 1 .. n /\ \A i \in 1 .. n : new[i] \in Request
    OBVIOUS
<1>2. ASSUME NEW x \in T, NEW s \in Request
      PROVE  Register(x, s) \in T /\ ToSet(Register(x, s)) = ToSet(x) \union {s}
    <2>1. Contains(x, s) <=> s \in ToSet(x)
        BY DEF Contains, ToSet
    <2>2. CASE s \in ToSet(x)
        BY <2>1, <2>2 DEF Register
    <2>3. CASE s \notin ToSet(x)
        <3>1. Register(x, s) = Append(x, s)
            BY <2>1, <2>3 DEF Register
        <3>2. Append(x, s) \in Seq(Request)
            BY AppendProperties
        <3>3. IsInjective(Append(x, s)) /\ ToSet(Append(x, s)) = ToSet(x) \union {s}
            BY <2>3, AppendKeeps
        <3> QED BY <3>1, <3>2, <3>3
    <2> QED BY <2>2, <2>3
<1>3. run \in T
    OBVIOUS
<1> HIDE DEF r
<1>4. PICK g \in [0 .. Len(new) -> T] : Registrations(g, new, run, r)
    <2> HIDE DEF T
    <2>1. \A x \in T, s \in Request : Register(x, s) \in T
        BY <1>2
    <2> QED BY <1>3, <2>1, RegisterSteps DEF r
<1> DEFINE G == {i \in 0 .. n : ToSet(g[i]) = ToSet(run) \union seen(i)}
<1>5. 0 \in G
    <2>1. seen(0) = {}
        OBVIOUS
    <2> QED BY <1>1, <1>4, <2>1 DEF Registrations
<1>6. ASSUME NEW i \in 1 .. n, i - 1 \in G PROVE i \in G
    <2>2. seen(i) = seen(i - 1) \union {new[i]}
        BY <1>1
    <2> HIDE DEF seen, T
    <2>1. g[i] = Register(g[i - 1], new[i]) /\ g[i - 1] \in T /\ new[i] \in Request
        <3>1. i - 1 \in 0 .. Len(new)
            BY <1>1
        <3>2. g[i] = Register(g[i - 1], new[i])
            BY <1>4 DEF Registrations
        <3> QED BY <1>1, <3>1, <3>2
    <2>3. ToSet(g[i]) = ToSet(g[i - 1]) \union {new[i]}
        BY <1>2, <2>1
    <2> QED BY <1>6, <2>2, <2>3
<1>7. n \in G
    <2>1. G \in SUBSET (0 .. n)
        OBVIOUS
    <2> HIDE DEF G, n
    <2>2. \A i \in 0 .. n : i \in G
        BY <1>1, <1>5, <1>6, <2>1, UpTo
    <2> QED BY <1>1, <2>2
<1>8. ToSet(new) = seen(n)
    BY <1>1 DEF ToSet
<1>9. g[n] = r /\ g[n] \in T
    BY <1>1, <1>4 DEF Registrations
<1>10. ToSet(r) = ToSet(run) \union ToSet(new)
    <2> HIDE DEF seen
    <2> QED BY <1>7, <1>8, <1>9
<1>11. run # <<>> \/ new # <<>> => r # <<>>
    <2>1. \A x \in Seq(Request) : x # <<>> => ToSet(x) # {}
        <3> SUFFICES ASSUME NEW x \in Seq(Request), x # <<>> PROVE x[1] \in ToSet(x)
            OBVIOUS
        <3> QED BY DEF ToSet
    <2>2. ToSet(<<>>) = {}
        BY DEF ToSet
    <2> QED BY <1>10, <2>1, <2>2
<1> QED BY <1>9, <1>10, <1>11 DEF r

\* In a pool that suffices the second loop only lets tables grow.
LEMMA ExtendEasily ==
    ASSUME PoolSuffices, engine \in Engines, Progress, NEW t \in Tables, Capped(t),
           NEW s \in Request, generated[s] < MaxTokens[s]
    PROVE  /\ Extend(t, s) \in Tables /\ Capped(Extend(t, s))
           /\ Extend(t, s).waiting = t.waiting /\ Extend(t, s).running = t.running
           /\ Extend(t, s).state = t.state
<1> DEFINE need == NextNeeds(s)
           extra == need - t.blocks[s]
           freeing == PreemptToFree(t, extra, {s})
           g == Grow(t, s, need)
<1>1. need \in Nat /\ need <= Shares[s] /\ extra <= FreeBlocks(t)
    BY NextIsFree
<1>2. /\ g \in Tables /\ Capped(g)
      /\ g.waiting = t.waiting /\ g.running = t.running /\ g.state = t.state
    BY <1>1, GrowCapped
<1>3. Extend(t, s) =
         IF extra <= 0 THEN t
         ELSE IF extra <= FreeBlocks(t) THEN g
         ELSE IF freeing.freed < extra THEN Preempt(freeing.tables, s)
         ELSE Grow(freeing.tables, s, need)
    BY DEF Extend
<1> HIDE DEF need, extra, freeing, g
<1>4. Extend(t, s) = IF extra <= 0 THEN t ELSE g
    BY <1>1, <1>3
<1> QED BY <1>2, <1>4

\* Where the second loop leaves the tables.
LEMMA AllExtended ==
    ASSUME PoolSuffices, engine \in Engines, Progress, NEW t \in Tables, Capped(t),
           \A s \in ToSet(t.running) : generated[s] < MaxTokens[s]
    PROVE  /\ ExtendAll(t) \in Tables /\ Capped(ExtendAll(t))
           /\ ExtendAll(t).waiting = t.waiting /\ ExtendAll(t).running = t.running
           /\ ExtendAll(t).state = t.state
<1> DEFINE S == ToSet(t.running)
           T == {u \in Tables : /\ Capped(u) /\ u.waiting = t.waiting
                                /\ u.running = t.running /\ u.state = t.state}
           q == t.running
           e == ExtendAll(t)
<1>1. q \in Seq(Request)
    BY DEF Tables
<1>2. S \in SUBSET Request /\ q \in Seq(S)
    <2>1. \A i \in DOMAIN q : q[i] \in S /\ q[i] \in Request
        BY <1>1 DEF ToSet
    <2>2. q \in [1 .. Len(q) -> S] /\ Len(q) \in Nat
        BY <1>1, <2>1
    <2> QED BY <2>1, <2>2 DEF ToSet
<1>3. ASSUME NEW u \in T, NEW x \in S PROVE Extend(u, x) \in T
    <2>1. x \in Request /\ generated[x] < MaxTokens[x] /\ u \in Tables /\ Capped(u)
        BY <1>2, <1>3
    <2>2. /\ Extend(u, x) \in Tables /\ Capped(Extend(u, x))
          /\ Extend(u, x).waiting = u.waiting /\ Extend(u, x).running = u.running
          /\ Extend(u, x).state = u.state
        BY <2>1, ExtendEasily
    <2> QED BY <1>3, <2>2
<1>4. t \in T
    OBVIOUS
<1>5. e = FoldLeft(Extend, t, q)
    BY DEF ExtendAll
<1> HIDE DEF S, T, q, e
<1>6. e \in T
    BY <1>2, <1>3, <1>4, <1>5, ExtendStays
<1> QED BY <1>6 DEF T, e

\* What schedule does in a pool that suffices.
LEMMA SchedulePlaces ==
    ASSUME PlaceInv, PoolSuffices, Schedule
    PROVE  \E e \in Tables :
              /\ SetTables(e) /\ batch' = Batch(e) /\ pc' = "step"
              /\ Placed(e, finished, drained) /\ Capped(e) /\ Counted(e, generated)
              /\ waiting # <<>> \/ running # <<>> => e.running # <<>>
<1> DEFINE a == AdmitAll(Now)
           r == FoldLeft(Register, a.tables.running, a.admitted)
           t == [a.tables EXCEPT !.waiting = a.left, !.running = r]
           e == ExtendAll(t)
<1>1. /\ engine \in Engines /\ Progress /\ Now \in Tables
      /\ waiting \in Seq(Request) /\ running \in Seq(Request) /\ state \in [Request -> State]
      /\ Placed(Now, finished, drained) /\ Capped(Now) /\ Counted(Now, generated)
    <2>1. Now \in Tables
        BY DEF PlaceInv, PoolInv, Within
    <2>2. waiting \in Seq(Request) /\ running \in Seq(Request) /\ state \in [Request -> State]
        BY <2>1 DEF Tables, Now
    <2> QED BY <2>1, <2>2 DEF PlaceInv, PoolInv
<1>2. Standing(a, ToSet(waiting))
    BY AllAdmitted
<1>3. ~ a.raised => SetTables(e) /\ batch' = Batch(e) /\ pc' = "step"
    BY DEF Schedule, Now
<1> HIDE DEF a
<1>4. /\ ~ a.raised /\ a \in Admission /\ a.tables \in Tables /\ a.tables.running = running
      /\ a.admitted \in Seq(Request) /\ a.left \in Seq(Request) /\ Capped(a.tables)
      /\ IsInjective(a.left)
      /\ ToSet(a.admitted) \intersect ToSet(a.left) = {}
      /\ ToSet(a.admitted) \union ToSet(a.left) = ToSet(waiting)
      /\ a.tables.state = [s \in Request |-> IF s \in ToSet(a.admitted) THEN "RUNNING" ELSE state[s]]
      /\ ToSet(waiting) # {} => running # <<>> \/ a.admitted # <<>>
    BY <1>2 DEF Standing, Admission
<1>5. /\ IsInjective(waiting) /\ IsInjective(running) /\ IsInjective(finished) /\ IsInjective(drained)
      /\ ToSet(finished) \intersect ToSet(drained) = {}
      /\ \A s \in Request :
            /\ state[s] = "WAITING" <=> s \in ToSet(waiting)
            /\ state[s] = "RUNNING" <=> s \in ToSet(running)
            /\ state[s] = "FINISHED" <=> s \in ToSet(finished) \union ToSet(drained)
    BY <1>1 DEF Placed, Now
<1>6. /\ r \in Seq(Request) /\ IsInjective(r)
      /\ ToSet(r) = ToSet(running) \union ToSet(a.admitted)
      /\ running # <<>> \/ a.admitted # <<>> => r # <<>>
    BY <1>1, <1>4, <1>5, RegisterAll
<1> HIDE DEF r
<1>7. /\ t \in Tables /\ t.waiting = a.left /\ t.running = r /\ t.blocks = a.tables.blocks
      /\ t.state = a.tables.state
    BY <1>4, <1>6 DEF Tables
<1> HIDE DEF t
<1>8. Capped(t)
    BY <1>4, <1>7 DEF Capped
<1>9. ToSet(waiting) \in SUBSET Request /\ ToSet(running) \in SUBSET Request
    BY <1>1 DEF ToSet
<1>10. \A s \in Request : t.state[s] = IF s \in ToSet(a.admitted) THEN "RUNNING" ELSE state[s]
    BY <1>4, <1>7
<1>11. Placed(t, finished, drained)
    <2>1. \A s \in Request :
            /\ t.state[s] = "WAITING" <=> s \in ToSet(t.waiting)
            /\ t.state[s] = "RUNNING" <=> s \in ToSet(t.running)
            /\ t.state[s] = "FINISHED" <=> s \in ToSet(finished) \union ToSet(drained)
        <3> SUFFICES ASSUME NEW s \in Request
                     PROVE  /\ t.state[s] = "WAITING" <=> s \in ToSet(t.waiting)
                            /\ t.state[s] = "RUNNING" <=> s \in ToSet(t.running)
                            /\ t.state[s] = "FINISHED" <=> s \in ToSet(finished) \union ToSet(drained)
            OBVIOUS
        <3>1. CASE s \in ToSet(a.admitted)
            <4>1. s \in ToSet(waiting) /\ s \notin ToSet(a.left) /\ state[s] = "WAITING"
                BY <1>4, <1>5, <3>1
            <4>2. t.state[s] = "RUNNING"
                BY <1>10, <3>1
            <4>3. s \notin ToSet(finished) \union ToSet(drained)
                BY <1>5, <4>1
            <4> QED BY <1>6, <1>7, <3>1, <4>1, <4>2, <4>3
        <3>2. CASE s \notin ToSet(a.admitted)
            <4>1. t.state[s] = state[s]
                BY <1>10, <3>2
            <4>2. s \in ToSet(a.left) <=> s \in ToSet(waiting)
                BY <1>4, <3>2
            <4>3. s \in ToSet(r) <=> s \in ToSet(running)
                BY <1>6, <3>2
            <4> QED BY <1>5, <1>7, <4>1, <4>2, <4>3
        <3> QED BY <3>1, <3>2
    <2> QED BY <1>4, <1>5, <1>6, <1>7, <2>1 DEF Placed
<1>12. Counted(t, generated)
    <2> SUFFICES ASSUME NEW s \in Request
                 PROVE  IF t.state[s] = "FINISHED" THEN generated[s] = MaxTokens[s]
                                                   ELSE generated[s] < MaxTokens[s]
        BY DEF Counted
    <2>1. t.state[s] = "FINISHED" <=> state[s] = "FINISHED"
        BY <1>5, <1>11 DEF Placed
    <2>2. IF state[s] = "FINISHED" THEN generated[s] = MaxTokens[s] ELSE generated[s] < MaxTokens[s]
        BY <1>1 DEF Counted, Now
    <2> QED BY <2>1, <2>2
<1>13. \A s \in ToSet(t.running) : generated[s] < MaxTokens[s]
    <2>1. ToSet(t.running) \in SUBSET Request
        BY <1>7 DEF Tables, ToSet
    <2>2. \A s \in ToSet(t.running) : t.state[s] = "RUNNING"
        BY <1>11, <2>1 DEF Placed
    <2> QED BY <1>12, <2>1, <2>2 DEF Counted
<1>14. /\ e \in Tables /\ Capped(e) /\ e.waiting = t.waiting /\ e.running = t.running
       /\ e.state = t.state
    BY <1>1, <1>7, <1>8, <1>13, AllExtended
<1> HIDE DEF e
<1>15. Placed(e, finished, drained)
    BY <1>11, <1>14 DEF Placed
<1>16. Counted(e, generated)
    BY <1>12, <1>14 DEF Counted
<1>17. waiting # <<>> \/ running # <<>> => e.running # <<>>
    <2>1. waiting # <<>> => ToSet(waiting) # {}
        <3> SUFFICES ASSUME waiting # <<>> PROVE waiting[1] \in ToSet(waiting)
            OBVIOUS
        <3> QED BY <1>1 DEF ToSet
    <2> QED BY <1>4, <1>6, <1>7, <1>14, <2>1
<1> QED BY <1>3, <1>4, <1>14, <1>15, <1>16, <1>17

\* What step keeps, sequence after sequence.
Sound(a) ==
    /\ a \in Generating
    /\ Placed(a.tables, a.finished, drained) /\ Capped(a.tables) /\ Counted(a.tables, a.generated)

\* One token for a sequence keeps all in place.
LEMMA GenerateSound ==
    ASSUME PoolSuffices, engine \in Engines, drained \in Seq(Request),
           NEW a, Sound(a), Within(a.tables), NEW s \in Request
    PROVE  Sound(Generate(a, s))
<1> DEFINE t == a.tables
           gen == [a.generated EXCEPT ![s] = a.generated[s] + 1]
           need == BlocksNeeded(Prompt[s] + gen[s])
           grown == IF need - t.blocks[s] <= FreeBlocks(t) THEN Grow(t, s, need) ELSE t
           st == [t.state EXCEPT ![s] = "FINISHED"]
           bl == [t.blocks EXCEPT ![s] = 0]
           ru == RemoveFirst(t.running, s)
           closed == [waiting |-> t.waiting, running |-> ru, blocks |-> bl, state |-> st]
           fin == Append(a.finished, s)
<1>1. /\ t \in Tables /\ a.generated \in [Request -> Nat] /\ a.finished \in Seq(Request)
      /\ t = [waiting |-> t.waiting, running |-> t.running, blocks |-> t.blocks, state |-> t.state]
      /\ a = [tables |-> t, generated |-> a.generated, finished |-> a.finished]
      /\ t.running \in Seq(Request) /\ t.waiting \in Seq(Request)
      /\ t.blocks \in [Request -> Nat] /\ t.state \in [Request -> State]
    BY DEF Sound, Generating, Tables
<1>2. Placed(t, a.finished, drained) /\ Capped(t) /\ Counted(t, a.generated)
    BY DEF Sound
<1>3. CASE t.state[s] # "RUNNING"
    <2>1. Generate(a, s) = a
        BY <1>3 DEF Generate
    <2> QED BY <2>1
<1>4. CASE t.state[s] = "RUNNING"
    <2>1. Generate(a, s) = IF gen[s] < MaxTokens[s]
                           THEN [a EXCEPT !.generated = gen, !.tables = grown]
                           ELSE [a EXCEPT !.generated = gen, !.tables = closed, !.finished = fin]
        <3> DEFINE u == [t EXCEPT !.state[s] = "FINISHED", !.blocks[s] = 0,
                                  !.running = RemoveFirst(@, s)]
        <3>1. u = closed
            <4>1. u = [t EXCEPT !.state = st, !.blocks = bl, !.running = ru]
                OBVIOUS
            <4>2. t = [waiting |-> t.waiting, running |-> t.running, blocks |-> t.blocks,
                       state |-> t.state]
                BY <1>1
            <4> HIDE DEF u, st, bl, ru, t
            <4> QED BY ONLY <4>1, <4>2
        <3>2. Generate(a, s) = IF gen[s] < MaxTokens[s]
                               THEN [a EXCEPT !.generated = gen, !.tables = grown]
                               ELSE [a EXCEPT !.generated = gen, !.tables = u, !.finished = fin]
            <4> HIDE DEF gen, need, grown, u, fin
            <4> QED BY <1>4 DEF Generate, gen, need, grown, u, fin
        <3> HIDE DEF u, closed, gen, grown, fin
        <3> QED BY <3>1, <3>2
    <2>2. /\ gen \in [Request -> Nat] /\ gen[s] = a.generated[s] + 1
          /\ \A r \in Request \ {s} : gen[r] = a.generated[r]
          /\ a.generated[s] \in Nat
        BY <1>1
    <2>3. a.generated[s] < MaxTokens[s] /\ MaxTokens[s] \in Nat /\ gen[s] \in Nat /\ gen[s] <= MaxTokens[s]
        <3>1. a.generated[s] < MaxTokens[s] /\ MaxTokens[s] \in Nat
            BY <1>2, <1>4, BatcherAssumption DEF Counted
        <3> HIDE DEF gen
        <3> QED BY <2>2, <3>1
    <2>4. CASE gen[s] < MaxTokens[s]
        <3> DEFINE b == [a EXCEPT !.generated = gen, !.tables = grown]
        <3>1. Generate(a, s) = b
            BY <2>1, <2>4
        <3>2. /\ grown \in Tables /\ Capped(grown) /\ grown.waiting = t.waiting
              /\ grown.running = t.running /\ grown.state = t.state
            <4>1. need \in Nat /\ need <= Shares[s]
                <5> HIDE DEF gen
                <5> QED BY <2>3, NeedsCapped
            <4> HIDE DEF need, t
            <4> QED BY <1>1, <1>2, <4>1, GrowCapped
        <3> HIDE DEF gen, grown
        <3>3. b.tables = grown /\ b.generated = gen /\ b.finished = a.finished /\ b \in Generating
            BY <1>1, <2>2, <3>2 DEF Generating
        <3> HIDE DEF b, t
        <3>4. Placed(grown, a.finished, drained)
            BY <1>2, <3>2 DEF Placed
        <3>5. Counted(grown, gen)
            <4> SUFFICES ASSUME NEW r \in Request
                         PROVE  IF grown.state[r] = "FINISHED" THEN gen[r] = MaxTokens[r]
                                                               ELSE gen[r] < MaxTokens[r]
                BY DEF Counted
            <4>1. CASE r = s
                BY <1>4, <2>4, <3>2, <4>1
            <4>2. CASE r # s
                BY <1>2, <2>2, <3>2, <4>2 DEF Counted
            <4> QED BY <4>1, <4>2
        <3> QED BY <3>1, <3>2, <3>3, <3>4, <3>5 DEF Sound
    <2>5. CASE ~ (gen[s] < MaxTokens[s])
        <3> DEFINE b == [a EXCEPT !.generated = gen, !.tables = closed, !.finished = fin]
        <3>1. Generate(a, s) = b
            BY <2>1, <2>5
        <3>2. gen[s] = MaxTokens[s]
            <4> HIDE DEF gen
            <4> QED BY <2>3, <2>5
        <3>3. /\ IsInjective(t.waiting) /\ IsInjective(t.running) /\ IsInjective(a.finished)
              /\ IsInjective(drained)
              /\ ToSet(a.finished) \intersect ToSet(drained) = {}
              /\ s \in ToSet(t.running) /\ s \notin ToSet(t.waiting)
              /\ s \notin ToSet(a.finished) /\ s \notin ToSet(drained)
            BY <1>2, <1>4 DEF Placed
        <3>4. ru \in Seq(Request) /\ IsInjective(ru) /\ ToSet(ru) = ToSet(t.running) \ {s}
            <4>1. ru \in Seq(Request)
                BY <1>1, RemoveElements
            <4>2. IsInjective(ru) /\ ToSet(ru) = ToSet(t.running) \ {s}
                <5> HIDE DEF t
                <5> QED BY <1>1, <3>3, RemoveKeeps
            <4> QED BY <4>1, <4>2
        <3>5. fin \in Seq(Request) /\ IsInjective(fin) /\ ToSet(fin) = ToSet(a.finished) \union {s}
            BY <1>1, <3>3, AppendKeeps
        <3>6. /\ st \in [Request -> State] /\ st[s] = "FINISHED"
              /\ \A r \in Request \ {s} : st[r] = t.state[r]
            BY <1>1 DEF State
        <3>7. bl \in [Request -> Nat] /\ bl[s] = 0 /\ \A r \in Request \ {s} : bl[r] = t.blocks[r]
            BY <1>1
        <3> HIDE DEF gen, ru, fin, st, bl
        <3>8. /\ closed \in Tables /\ closed.waiting = t.waiting /\ closed.running = ru
              /\ closed.blocks = bl /\ closed.state = st
            BY <1>1, <3>4, <3>6, <3>7 DEF Tables
        <3> HIDE DEF closed
        <3>9. b.tables = closed /\ b.generated = gen /\ b.finished = fin /\ b \in Generating
            BY <1>1, <2>2, <3>5, <3>8 DEF Generating
        <3> HIDE DEF b, t
        <3>10. Placed(closed, fin, drained)
            <4>1. ASSUME NEW r \in Request
                  PROVE  /\ closed.state[r] = "WAITING" <=> r \in ToSet(closed.waiting)
                         /\ closed.state[r] = "RUNNING" <=> r \in ToSet(closed.running)
                         /\ closed.state[r] = "FINISHED" <=> r \in ToSet(fin) \union ToSet(drained)
                <5>1. CASE r = s
                    BY <3>3, <3>4, <3>5, <3>6, <3>8, <5>1
                <5>2. CASE r # s
                    BY <1>2, <3>4, <3>5, <3>6, <3>8, <5>2 DEF Placed
                <5> QED BY <5>1, <5>2
            <4> QED BY <3>3, <3>4, <3>5, <3>8, <4>1 DEF Placed
        <3>11. Capped(closed)
            <4>1. Shares[s] >= 0
                <5>1. Prompt[s] + MaxTokens[s] \in Nat
                    BY BatcherAssumption
                <5> QED BY <5>1, NeedsType DEF Shares
            <4> QED BY <1>2, <3>7, <3>8, <4>1 DEF Capped
        <3>12. Counted(closed, gen)
            <4> SUFFICES ASSUME NEW r \in Request
                         PROVE  IF closed.state[r] = "FINISHED" THEN gen[r] = MaxTokens[r]
                                                               ELSE gen[r] < MaxTokens[r]
                BY DEF Counted
            <4>1. CASE r = s
                BY <3>2, <3>6, <3>8, <4>1
            <4>2. CASE r # s
                BY <1>2, <2>2, <3>6, <3>8, <4>2 DEF Counted
            <4> QED BY <4>1, <4>2
        <3> QED BY <3>1, <3>9, <3>10, <3>11, <3>12 DEF Sound
    <2> QED BY <2>4, <2>5
<1> QED BY <1>3, <1>4

-----------------------------------------------------------------------------
(* Where every sequence is. *)

\* At first all is new and nothing is held.
LEMMA PlaceInit == Init => PlaceInv
<1> SUFFICES ASSUME Init PROVE PlaceInv
    OBVIOUS
<1>1. PoolInv /\ drained \in Seq(Request)
    BY PoolInit DEF Init
<1>2. Placed(Now, finished, drained)
    <2>1. IsInjective(<<>>) /\ ToSet(<<>>) = {}
        BY DEF IsInjective, ToSet
    <2> QED BY <2>1 DEF Init, Now, Placed
<1>3. Capped(Now)
    <2>1. \A s \in Request : Shares[s] \in Nat
        <3>1. \A s \in Request : Prompt[s] + MaxTokens[s] \in Nat
            BY BatcherAssumption
        <3> QED BY <3>1, NeedsType DEF Shares
    <2> QED BY <2>1 DEF Init, Now, Capped
<1>4. Counted(Now, generated)
    BY BatcherAssumption DEF Init, Now, Counted
<1> QED BY <1>1, <1>2, <1>3, <1>4 DEF PlaceInv

\* Tables that are set become the tables.
LEMMA SetNow ==
    ASSUME NEW t \in Tables, SetTables(t)
    PROVE  Now' = t
<1>1. t = [waiting |-> t.waiting, running |-> t.running, blocks |-> t.blocks, state |-> t.state]
    BY DEF Tables
<1> QED BY <1>1 DEF Now, SetTables

TotalShares == SumOver(Shares, Request)

\* Whether the pool suffices is settled when the batcher is made.
LEMMA SufficesStays == engine' = engine => (PoolSuffices' <=> PoolSuffices)
<1>1. PoolSuffices <=> TotalShares <= engine.numBlocks
    BY DEF PoolSuffices, TotalShares, SumOver
<1>2. (PoolSuffices <=> TotalShares <= engine.numBlocks)'
    BY <1>1, PTL
<1> QED BY <1>1, <1>2

\* A step that keeps the tables in place keeps the invariant.
LEMMA PlaceKept ==
    ASSUME PoolInv', drained' \in Seq(Request), engine' = engine, NEW t \in Tables, SetTables(t),
           PoolSuffices => Placed(t, finished', drained') /\ Capped(t) /\ Counted(t, generated')
    PROVE  PlaceInv'
<1>1. Now' = t
    BY SetNow
<1>2. PoolSuffices' => PoolSuffices
    BY SufficesStays
<1>3. PoolSuffices' => Placed(Now', finished', drained') /\ Capped(Now') /\ Counted(Now', generated')
    BY <1>1, <1>2
<1> QED BY <1>3 DEF PlaceInv, Placed, Capped, Counted

\* A new request waits.
LEMMA AddRequestPlaces ==
    ASSUME PlaceInv, PoolInv', NEW s \in Request, AddRequest(s)
    PROVE  PlaceInv'
<1> DEFINE w == Append(waiting, s)
           st == [state EXCEPT ![s] = "WAITING"]
           t == [waiting |-> w, running |-> running, blocks |-> blocks, state |-> st]
<1>1. /\ waiting \in Seq(Request) /\ running \in Seq(Request) /\ state \in [Request -> State]
      /\ blocks \in [Request -> Nat]
    BY DEF PlaceInv, PoolInv, Within, Tables, Now
<1>2. SetTables(t) /\ UNCHANGED <<engine, finished, drained, generated>> /\ state[s] = "new"
    BY DEF AddRequest, SetTables
<1>3. w \in Seq(Request) /\ st \in [Request -> State]
    BY <1>1, AppendProperties DEF State
<1>4. t \in Tables
    BY <1>1, <1>3 DEF Tables
<1>5. ASSUME PoolSuffices
      PROVE  Placed(t, finished, drained) /\ Capped(t) /\ Counted(t, generated)
    <2>1. Placed(Now, finished, drained) /\ Capped(Now) /\ Counted(Now, generated)
        BY <1>5 DEF PlaceInv
    <2>2. IsInjective(waiting) /\ s \notin ToSet(waiting)
        BY <1>2, <2>1 DEF Placed, Now
    <2>3. IsInjective(w) /\ ToSet(w) = ToSet(waiting) \union {s}
        BY <1>1, <2>2, AppendKeeps
    <2>4. st[s] = "WAITING" /\ \A r \in Request \ {s} : st[r] = state[r]
        BY <1>1
    <2> HIDE DEF w, st
    <2>5. Placed(t, finished, drained)
        <3>1. ASSUME NEW r \in Request
              PROVE  /\ t.state[r] = "WAITING" <=> r \in ToSet(t.waiting)
                     /\ t.state[r] = "RUNNING" <=> r \in ToSet(t.running)
                     /\ t.state[r] = "FINISHED" <=> r \in ToSet(finished) \union ToSet(drained)
            <4>1. CASE r = s
                BY <1>2, <2>1, <2>3, <2>4, <4>1 DEF Placed, Now
            <4>2. CASE r # s
                BY <2>1, <2>3, <2>4, <4>2 DEF Placed, Now
            <4> QED BY <4>1, <4>2
        <3> QED BY <2>1, <2>3, <3>1 DEF Placed, Now
    <2>6. Capped(t)
        BY <2>1 DEF Capped, Now
    <2>7. Counted(t, generated)
        <3>1. \A r \in Request : st[r] = "FINISHED" <=> state[r] = "FINISHED"
            BY <1>2, <2>4
        <3> QED BY <2>1, <3>1 DEF Counted, Now
    <2> QED BY <2>5, <2>6, <2>7
<1> HIDE DEF t
<1>6. PoolSuffices => Placed(t, finished', drained') /\ Capped(t) /\ Counted(t, generated')
    BY <1>2, <1>5
<1>7. drained' \in Seq(Request) /\ engine' = engine
    BY <1>2 DEF PlaceInv
<1> QED BY <1>2, <1>4, <1>6, <1>7, PlaceKept

\* schedule keeps every sequence in its place.
LEMMA SchedulePlaced ==
    ASSUME PlaceInv, PoolInv', Schedule
    PROVE  PlaceInv'
<1>1. UNCHANGED <<engine, generated, finished, drained>>
    BY DEF Schedule
<1>2. CASE PoolSuffices
    <2>1. PICK e \in Tables :
              SetTables(e) /\ Placed(e, finished, drained) /\ Capped(e) /\ Counted(e, generated)
        BY <1>2, SchedulePlaces
    <2>2. PoolSuffices => Placed(e, finished', drained') /\ Capped(e) /\ Counted(e, generated')
        BY <1>1, <2>1
    <2>3. drained' \in Seq(Request) /\ engine' = engine
        BY <1>1 DEF PlaceInv
    <2> QED BY <2>1, <2>2, <2>3, PlaceKept
<1>3. CASE ~ PoolSuffices
    <2>1. ~ PoolSuffices'
        BY <1>1, <1>3, SufficesStays
    <2> QED BY <1>1, <2>1 DEF PlaceInv
<1> QED BY <1>2, <1>3

\* step keeps every sequence in its place.
LEMMA StepPlaced ==
    ASSUME PlaceInv, PoolInv', Step
    PROVE  PlaceInv'
<1> DEFINE base == [tables |-> Now, generated |-> generated, finished |-> finished]
           a == FoldLeft(Generate, base, batch)
           T == {b \in Generating : Sound(b) /\ Within(b.tables)}
<1>1. /\ engine \in Engines /\ Within(Now) /\ Now \in Tables /\ batch \in Seq(Request)
      /\ generated \in [Request -> Nat] /\ finished \in Seq(Request) /\ drained \in Seq(Request)
    BY DEF PlaceInv, PoolInv, Within, Progress
<1>2. /\ SetTables(a.tables) /\ generated' = a.generated /\ finished' = a.finished
      /\ UNCHANGED <<engine, drained>>
    BY DEF Step, Now
<1>3. CASE PoolSuffices
    <2>1. base \in T
        <3>1. base \in Generating
            BY <1>1 DEF Generating
        <3> QED BY <1>1, <1>3, <3>1 DEF Sound, PlaceInv
    <2>2. \A b \in T, x \in Request : Generate(b, x) \in T
        <3> SUFFICES ASSUME NEW b \in T, NEW x \in Request PROVE Generate(b, x) \in T
            OBVIOUS
        <3>1. Sound(Generate(b, x))
            BY <1>1, <1>3, GenerateSound
        <3>2. Generate(b, x) \in Generating /\ Within(Generate(b, x).tables)
            BY <1>1, GenerateWithin
        <3> QED BY <3>1, <3>2
    <2> HIDE DEF base, T
    <2>3. a \in T
        BY <1>1, <2>1, <2>2, GenerateStays
    <2> HIDE DEF a
    <2>4. Sound(a) /\ a.tables \in Tables
        BY <2>3 DEF T, Within
    <2>5. PoolSuffices => /\ Placed(a.tables, finished', drained') /\ Capped(a.tables)
                          /\ Counted(a.tables, generated')
        BY <1>2, <2>4 DEF Sound
    <2>6. drained' \in Seq(Request) /\ engine' = engine
        BY <1>1, <1>2
    <2> QED BY <1>2, <2>4, <2>5, <2>6, PlaceKept
<1>4. CASE ~ PoolSuffices
    <2> HIDE DEF a
    <2>1. ~ PoolSuffices'
        BY <1>2, <1>4, SufficesStays
    <2> QED BY <1>1, <1>2, <2>1 DEF PlaceInv
<1> QED BY <1>3, <1>4

\* What is handed out is out for good.
LEMMA GetFinishedPlaced ==
    ASSUME PlaceInv, PoolInv', GetFinished
    PROVE  PlaceInv'
<1>1. /\ drained' = drained \o finished /\ finished' = <<>>
      /\ UNCHANGED <<engine, waiting, running, blocks, state, generated>>
    BY DEF GetFinished
<1>2. finished \in Seq(Request) /\ drained \in Seq(Request) /\ Now \in Tables
    BY DEF PlaceInv, PoolInv, Within
<1>3. SetTables(Now)
    BY <1>1 DEF SetTables, Now
<1>4. drained' \in Seq(Request) /\ engine' = engine
    BY <1>1, <1>2
<1>5. ASSUME PoolSuffices
      PROVE  Placed(Now, finished', drained') /\ Capped(Now) /\ Counted(Now, generated')
    <2>1. Placed(Now, finished, drained) /\ Capped(Now) /\ Counted(Now, generated)
        BY <1>5 DEF PlaceInv
    <2>2. IsInjective(drained \o finished) /\ ToSet(drained \o finished) = ToSet(drained) \union ToSet(finished)
        <3>1. IsInjective(finished) /\ IsInjective(drained) /\ ToSet(drained) \intersect ToSet(finished) = {}
            BY <2>1 DEF Placed
        <3> QED BY <1>2, <3>1, ConcatKeeps
    <2>3. IsInjective(<<>>) /\ ToSet(<<>>) = {}
        BY DEF IsInjective, ToSet
    <2>4. Placed(Now, finished', drained')
        BY <1>1, <2>1, <2>2, <2>3 DEF Placed
    <2> QED BY <1>1, <2>1, <2>4
<1> QED BY <1>2, <1>3, <1>4, <1>5, PlaceKept

\* Every step keeps every sequence in its place.
LEMMA PlaceNext == PlaceInv /\ [Next]_vars => PlaceInv'
<1> SUFFICES ASSUME PlaceInv, [Next]_vars PROVE PlaceInv'
    OBVIOUS
<1>1. PoolInv'
    BY PoolNext DEF PlaceInv
<1>2. CASE UNCHANGED vars
    <2>1. UNCHANGED <<engine, waiting, running, blocks, state, generated, finished, drained>>
        BY <1>2 DEF vars
    <2>2. Now \in Tables /\ SetTables(Now)
        BY <2>1 DEF PlaceInv, PoolInv, Within, SetTables, Now
    <2>3. drained' \in Seq(Request) /\ engine' = engine
        BY <2>1 DEF PlaceInv
    <2>4. PoolSuffices => Placed(Now, finished', drained') /\ Capped(Now) /\ Counted(Now, generated')
        BY <2>1 DEF PlaceInv
    <2> QED BY <1>1, <2>2, <2>3, <2>4, PlaceKept
<1> QED BY <1>1, <1>2, AddRequestPlaces, SchedulePlaced, StepPlaced, GetFinishedPlaced DEF Next

\* The inductive invariant holds.
THEOREM PlaceInvariance == Spec => []PlaceInv
<1> QED BY PlaceInit, PlaceNext, PTL DEF Spec

\* In a pool that suffices, no order of arrivals, rounds and drains queues a
\* sequence twice, loses it, or leaves it in two tables at once.
THEOREM AlwaysInOnePlace == Spec => []InOnePlace
<1>1. PlaceInv => InOnePlace
    <2> SUFFICES ASSUME PlaceInv, PoolSuffices
                 PROVE  /\ IsInjective(waiting \o running \o finished \o drained)
                        /\ \A s \in Request :
                              /\ state[s] = "WAITING" <=> Contains(waiting, s)
                              /\ state[s] = "RUNNING" <=> Contains(running, s)
                              /\ state[s] = "FINISHED" <=> Contains(finished \o drained, s)
        BY DEF InOnePlace
    <2>1. /\ waiting \in Seq(Request) /\ running \in Seq(Request) /\ finished \in Seq(Request)
          /\ drained \in Seq(Request)
        BY DEF PlaceInv, PoolInv, Within, Tables, Now
    <2>2. /\ IsInjective(waiting) /\ IsInjective(running) /\ IsInjective(finished)
          /\ IsInjective(drained)
          /\ ToSet(finished) \intersect ToSet(drained) = {}
          /\ \A s \in Request :
                /\ state[s] = "WAITING" <=> s \in ToSet(waiting)
                /\ state[s] = "RUNNING" <=> s \in ToSet(running)
                /\ state[s] = "FINISHED" <=> s \in ToSet(finished) \union ToSet(drained)
        BY DEF PlaceInv, Placed, Now
    <2>3. /\ ToSet(waiting) \in SUBSET Request /\ ToSet(running) \in SUBSET Request
          /\ ToSet(finished) \in SUBSET Request /\ ToSet(drained) \in SUBSET Request
        BY <2>1 DEF ToSet
    <2>4. /\ ToSet(waiting) \intersect ToSet(running) = {}
          /\ (ToSet(waiting) \union ToSet(running)) \intersect ToSet(finished) = {}
          /\ (ToSet(waiting) \union ToSet(running)) \intersect ToSet(drained) = {}
        BY <2>2, <2>3
    <2> DEFINE a == waiting \o running
               b == a \o finished
    <2>5. a \in Seq(Request) /\ IsInjective(a) /\ ToSet(a) = ToSet(waiting) \union ToSet(running)
        BY <2>1, <2>2, <2>4, ConcatKeeps
    <2> HIDE DEF a
    <2>6. /\ b \in Seq(Request) /\ IsInjective(b)
          /\ ToSet(b) = ToSet(a) \union ToSet(finished)
        <3>1. ToSet(a) \intersect ToSet(finished) = {}
            BY <2>4, <2>5
        <3> QED BY <2>1, <2>2, <2>5, <3>1, ConcatKeeps
    <2> HIDE DEF b
    <2>7. IsInjective(b \o drained)
        <3>1. ToSet(b) \intersect ToSet(drained) = {}
            BY <2>2, <2>4, <2>5, <2>6
        <3> QED BY <2>1, <2>2, <2>6, <3>1, ConcatKeeps
    <2>8. finished \o drained \in Seq(Request) /\ ToSet(finished \o drained) = ToSet(finished) \union ToSet(drained)
        BY <2>1, <2>2, ConcatKeeps
    <2>9. \A q \in Seq(Request), s \in Request : Contains(q, s) <=> s \in ToSet(q)
        BY DEF Contains, ToSet
    <2>10. \A s \in Request :
              /\ state[s] = "WAITING" <=> Contains(waiting, s)
              /\ state[s] = "RUNNING" <=> Contains(running, s)
              /\ state[s] = "FINISHED" <=> Contains(finished \o drained, s)
        BY <2>1, <2>2, <2>8, <2>9
    <2> QED BY <2>7, <2>10 DEF a, b
<1> QED BY <1>1, PlaceInvariance, PTL

\* In a pool that suffices, every sequence that ends has exactly the tokens it
\* asked for, and none that has not ended has them.
THEOREM AlwaysFinishesExactly == Spec => []FinishesExactly
<1>1. PlaceInv => FinishesExactly
    BY DEF PlaceInv, Counted, Now, FinishesExactly
<1> QED BY <1>1, PlaceInvariance, PTL

-----------------------------------------------------------------------------
(* The oldest sequence is never starved. *)

LeastFirst(q) == \A i \in 1 .. Len(q) : Arrival[q[1]] <= Arrival[q[i]]

\* The earliest stays in front when a sequence is inserted.
LEMMA InsertLeast ==
    ASSUME NEW q \in Seq(Request), NEW s \in Request, LeastFirst(q)
    PROVE  LeastFirst(Insert(q, s, Earlier))
<1> DEFINE n == Len(q)
           behind == {i \in DOMAIN q : <<s, q[i]>> \notin Earlier}
           k == 1 + Cardinality(behind)
           a == Insert(q, s, Earlier)
<1>1. n \in Nat /\ DOMAIN q = 1 .. n /\ \A i \in 1 .. n : q[i] \in Request
    OBVIOUS
<1>2. Arrival \in [Request -> Nat]
    BY BatcherAssumption
<1>3. IsFiniteSet(behind) /\ behind \in SUBSET (1 .. n)
    <2>1. behind \in SUBSET (1 .. n)
        BY <1>1
    <2>2. IsFiniteSet(1 .. n)
        BY <1>1, FS_Interval
    <2> HIDE DEF behind
    <2> QED BY <2>1, <2>2, FS_Subset
<1>4. a = InsertAt(q, k, s)
    BY DEF Insert
<1>5. k \in 1 .. n + 1
    <2>1. Cardinality(behind) <= Cardinality(1 .. n) /\ Cardinality(1 .. n) = n
        <3>1. IsFiniteSet(1 .. n) /\ Cardinality(1 .. n) = n
            <4> HIDE DEF n
            <4>1. 1 \in Int /\ n \in Int
                BY <1>1
            <4>2. IsFiniteSet(1 .. n) /\ Cardinality(1 .. n) = IF 1 > n THEN 0 ELSE n - 1 + 1
                BY <4>1, FS_Interval
            <4> QED BY <1>1, <4>2
        <3> HIDE DEF behind
        <3> QED BY <1>3, <3>1, FS_Subset
    <2>2. Cardinality(behind) \in Nat
        BY <1>3, FS_CardinalityType
    <2> HIDE DEF behind
    <2> QED BY <1>1, <2>1, <2>2
<1>6. \A i \in 1 .. n : i \notin behind => Arrival[s] < Arrival[q[i]]
    BY <1>1 DEF Earlier
<1>7. \A i \in 1 .. n : i \in behind => Arrival[q[i]] <= Arrival[s]
    BY <1>1, <1>2 DEF Earlier
<1>8. k = 1 => behind = {}
    <2> HIDE DEF behind
    <2> QED BY <1>3, FS_CardinalityType, FS_EmptySet
<1>9. k # 1 => behind # {}
    <2> HIDE DEF behind
    <2> QED BY <1>3, FS_CardinalityType, FS_EmptySet
<1>10. /\ Len(a) = n + 1
       /\ \A i \in 1 .. n + 1 : a[i] = IF i < k THEN q[i] ELSE IF i = k THEN s ELSE q[i - 1]
    <2> HIDE DEF k, a
    <2> QED BY <1>4, <1>5, InsertAtElements
<1> HIDE DEF k, a, behind, n
<1>11. CASE k = 1
    <2>1. a[1] = s /\ \A i \in 2 .. n + 1 : a[i] = q[i - 1] /\ i - 1 \in 1 .. n
        BY <1>1, <1>10, <1>11
    <2>2. \A i \in 1 .. n : Arrival[s] < Arrival[q[i]]
        BY <1>6, <1>8, <1>11
    <2>3. ASSUME NEW i \in 1 .. n + 1 PROVE Arrival[a[1]] <= Arrival[a[i]]
        <3>1. CASE i = 1
            BY <1>2, <2>1, <3>1
        <3>2. CASE i # 1
            <4>1. a[i] = q[i - 1] /\ i - 1 \in 1 .. n
                BY <1>1, <2>1, <3>2
            <4>2. Arrival[s] < Arrival[q[i - 1]] /\ q[i - 1] \in Request
                BY <1>1, <2>2, <4>1
            <4> QED BY <1>2, <2>1, <4>1, <4>2
        <3> QED BY <3>1, <3>2
    <2> QED BY <1>10, <2>3 DEF LeastFirst, a
<1>12. CASE k # 1
    <2>1. a[1] = q[1] /\ 1 \in 1 .. n
        BY <1>1, <1>3, <1>5, <1>9, <1>10, <1>12
    <2>2. \A i \in 1 .. n : Arrival[q[1]] <= Arrival[q[i]]
        BY DEF LeastFirst, n
    <2>3. Arrival[q[1]] <= Arrival[s]
        <3>1. PICK i \in 1 .. n : i \in behind
            BY <1>3, <1>9, <1>12
        <3>2. Arrival[q[i]] <= Arrival[s] /\ Arrival[q[1]] <= Arrival[q[i]]
            BY <1>7, <2>2, <3>1
        <3>3. Arrival[q[i]] \in Nat /\ Arrival[q[1]] \in Nat /\ Arrival[s] \in Nat
            BY <1>1, <1>2, <2>1
        <3> QED BY <3>2, <3>3
    <2>4. ASSUME NEW i \in 1 .. n + 1 PROVE Arrival[a[1]] <= Arrival[a[i]]
        <3>1. CASE i < k
            <4>1. i \in 1 .. n /\ a[i] = q[i]
                BY <1>1, <1>5, <1>10, <3>1
            <4> QED BY <2>1, <2>2, <4>1
        <3>2. CASE i = k
            BY <1>10, <2>1, <2>3, <3>2
        <3>3. CASE i > k
            <4>1. i - 1 \in 1 .. n /\ a[i] = q[i - 1]
                BY <1>1, <1>5, <1>10, <3>3
            <4> QED BY <2>1, <2>2, <4>1
        <3> QED BY <1>5, <3>1, <3>2, <3>3
    <2> QED BY <1>10, <2>4 DEF LeastFirst, a
<1> QED BY <1>11, <1>12 DEF a

\* The first of a sorted sequence is the earliest in it.
LEMMA SortedLeast ==
    ASSUME NEW q \in Seq(Request)
    PROVE  LeastFirst(Sorted(q, Earlier))
<1> DEFINE T == {x \in Seq(Request) : LeastFirst(x)}
           base == <<>>
<1>1. \A a \in T, x \in Request : Insert(a, x, Earlier) \in T
    <2> SUFFICES ASSUME NEW a \in T, NEW x \in Request PROVE Insert(a, x, Earlier) \in T
        OBVIOUS
    <2>1. Insert(a, x, Earlier) \in Seq(Request)
        BY InsertType, InsertAtElements
    <2>2. LeastFirst(Insert(a, x, Earlier))
        BY InsertLeast
    <2> QED BY <2>1, <2>2
<1>2. base \in T
    BY DEF LeastFirst
<1> HIDE DEF T, base
<1>3. PICK g \in [0 .. Len(q) -> T] :
          Insertions(g, q, base, Earlier, SortedFrom(base, q, Earlier))
    BY <1>1, <1>2, SortedSteps
<1>4. Len(q) \in 0 .. Len(q)
    OBVIOUS
<1>5. SortedFrom(base, q, Earlier) \in T
    BY <1>3, <1>4 DEF Insertions
<1> QED BY <1>5 DEF Sorted, SortedFrom, T, base

\* Each batch of the rounds in a pool that suffices has the oldest sequence
\* that runs, and one runs whenever there is any that may.
THEOREM OldestAlwaysProgresses == Spec => OldestProgresses
<1> DEFINE Fair ==
        PoolSuffices /\ pc = "schedule" /\ pc' = "step" =>
          /\ waiting \o running # <<>> => running' # <<>>
          /\ \A s \in ToSet(running') :
                (\A r \in ToSet(running') : Arrival[s] <= Arrival[r]) => s \in ToSet(batch')
<1>1. PlaceInv /\ [Next]_vars => [Fair]_vars
    <2> SUFFICES ASSUME PlaceInv, Next, PoolSuffices, pc = "schedule", pc' = "step"
                 PROVE  Fair
        BY DEF Fair
    <2>1. Schedule
        BY DEF Next, AddRequest, Step, GetFinished
    <2>2. PICK e \in Tables :
              /\ SetTables(e) /\ batch' = Batch(e) /\ Placed(e, finished, drained)
              /\ waiting # <<>> \/ running # <<>> => e.running # <<>>
        BY <2>1, SchedulePlaces
    <2>3. /\ running' = e.running /\ e.running \in Seq(Request) /\ IsInjective(e.running)
          /\ waiting \in Seq(Request) /\ running \in Seq(Request)
          /\ engine.maxTokensPerStep \in Nat \ {0}
        BY <2>2, BatcherAssumption DEF SetTables, Placed, Tables, PlaceInv, PoolInv, Within, Now
    <2>4. waiting \o running # <<>> => running' # <<>>
        <3>1. waiting = <<>> /\ running = <<>> => waiting \o running = <<>>
            OBVIOUS
        <3> QED BY <2>2, <2>3, <3>1
    <2>5. ASSUME NEW s \in ToSet(running'), \A r \in ToSet(running') : Arrival[s] <= Arrival[r]
          PROVE  s \in ToSet(batch')
        <3> DEFINE q == Sorted(e.running, Earlier)
                   n == Len(q)
                   m == Min({Len(q), engine.maxTokensPerStep})
                   b == SubSeq(q, 1, m)
        <3>1. q \in Seq(Request) /\ ToSet(q) = ToSet(e.running) /\ LeastFirst(q)
            BY <2>3, SortedType, SortedKeeps, SortedLeast
        <3> HIDE DEF q
        <3>2. n \in Nat /\ DOMAIN q = 1 .. n /\ \A i \in 1 .. n : q[i] \in Request
            BY <3>1
        <3>3. PICK i \in 1 .. n : q[i] = s
            BY <2>3, <2>5, <3>1, <3>2 DEF ToSet
        <3>4. n \in Nat \ {0} /\ 1 \in 1 .. n /\ q[1] \in ToSet(q)
            BY <3>2, <3>3 DEF ToSet
        <3>5. Arrival[q[1]] <= Arrival[s] /\ Arrival[s] <= Arrival[q[1]]
            BY <2>3, <2>5, <3>1, <3>3, <3>4 DEF LeastFirst
        <3>6. s \in Request /\ q[1] \in Request /\ Arrival[s] \in Nat /\ Arrival[q[1]] \in Nat
            BY <3>2, <3>3, <3>4, BatcherAssumption
        <3>7. q[1] = s
            <4>1. Arrival[s] = Arrival[q[1]]
                BY <3>5, <3>6
            <4> QED BY <3>6, <4>1, BatcherAssumption
        <3>8. m \in 1 .. n
            <4> HIDE DEF n
            <4>1. n \in Nat \ {0} /\ engine.maxTokensPerStep \in Nat \ {0}
                BY <2>3, <3>4
            <4> QED BY <4>1 DEF Min, n
        <3> HIDE DEF m
        <3>9. Len(b) = m /\ \A j \in 1 .. m : b[j] = q[j]
            BY <3>1, <3>2, <3>8, SubSeqProperties
        <3>10. b \in Seq(Request)
            BY <3>1, <3>2, <3>8, SubSeqProperties
        <3> HIDE DEF b, n
        <3>11. DOMAIN b = 1 .. m /\ 1 \in 1 .. m /\ b[1] = s
            BY <3>2, <3>7, <3>8, <3>9, <3>10
        <3>12. s \in ToSet(b)
            BY <3>11 DEF ToSet
        <3> QED BY <2>2, <3>12 DEF Batch, b, m, q
    <2> QED BY <2>4, <2>5 DEF Fair
<1> HIDE DEF Fair
<1>2. Spec => [][Fair]_vars
    BY <1>1, PlaceInvariance, PTL DEF Spec
<1> QED BY <1>2 DEF OldestProgresses, Fair
-----------------------------------------------------------------------------
(* The layers of a model and the shards. *)

\* A slice has the even share of the layers, or one more.
Even(layers, n, s) ==
    LET size == SliceEnd(layers, n, s) - SliceStart(layers, n, s)
    IN size = layers \div n \/ size = layers \div n + 1

\* The slices of the shards follow each other from the first layer to the last.
LEMMA SlicesFollow ==
    ASSUME NEW L \in Nat, NEW n \in Nat \ {0}
    PROVE  /\ \A s \in Nat : SliceStart(L, n, s) \in Nat /\ SliceEnd(L, n, s) = SliceStart(L, n, s + 1)
           /\ SliceStart(L, n, 0) = 0 /\ SliceStart(L, n, n) = L
           /\ \A s, t \in Nat : s <= t => SliceStart(L, n, s) <= SliceStart(L, n, t)
           /\ \A s \in Nat : Even(L, n, s)
           /\ L \div n \in Nat
<1> DEFINE b == L \div n
           r == L % n
           Less(s) == IF s < r THEN s ELSE r
           St(s) == SliceStart(L, n, s)
           En(s) == SliceEnd(L, n, s)
<1>1. b \in Nat /\ r \in 0 .. n - 1 /\ L = n * b + r
    OBVIOUS
<1>2. \A s \in Nat : /\ St(s) = s * b + Less(s)
                     /\ En(s) = St(s) + b + (IF s < r THEN 1 ELSE 0)
    BY DEF SliceStart, SliceEnd
<1> HIDE DEF b, r, St, En
<1>3. \A s \in Nat : s * b \in Nat /\ (s + 1) * b = s * b + b /\ Less(s) \in Nat
    BY <1>1
<1>4. \A s \in Nat : Less(s + 1) = Less(s) + (IF s < r THEN 1 ELSE 0)
    BY <1>1
<1>5. \A s \in Nat : St(s) \in Nat /\ En(s) = St(s + 1)
    <2> SUFFICES ASSUME NEW s \in Nat PROVE St(s) \in Nat /\ En(s) = St(s + 1)
        OBVIOUS
    <2> DEFINE x == s * b
               l == Less(s)
    <2>1. x \in Nat /\ l \in Nat /\ St(s) = x + l /\ s + 1 \in Nat
        BY <1>2, <1>3
    <2>2. St(s + 1) = x + b + (l + (IF s < r THEN 1 ELSE 0))
        BY <1>2, <1>3, <1>4
    <2>3. En(s) = St(s) + b + (IF s < r THEN 1 ELSE 0)
        BY <1>2
    <2> HIDE DEF x, l
    <2> QED BY <1>1, <2>1, <2>2, <2>3
<1>6. St(0) = 0 /\ St(n) = L
    <2>1. 0 * b = 0 /\ Less(0) = 0 /\ Less(n) = r
        BY <1>1
    <2> QED BY <1>1, <1>2, <2>1
<1>7. \A s, t \in Nat : s <= t => St(s) <= St(t)
    <2> SUFFICES ASSUME NEW s \in Nat, NEW t \in Nat, s <= t PROVE St(s) <= St(t)
        OBVIOUS
    <2>1. t - s \in Nat /\ (t - s) * b \in Nat /\ t * b = s * b + (t - s) * b
        BY <1>1
    <2>2. Less(s) <= Less(t)
        BY <1>1
    <2> DEFINE x == s * b
               y == (t - s) * b
               l == Less(s)
               m == Less(t)
    <2>3. /\ x \in Nat /\ y \in Nat /\ l \in Nat /\ m \in Nat /\ l <= m
          /\ St(s) = x + l /\ St(t) = x + y + m
        BY <1>2, <1>3, <2>1, <2>2
    <2> HIDE DEF x, y, l, m
    <2> QED BY <2>3
<1>8. ASSUME NEW s \in Nat PROVE En(s) - St(s) = b \/ En(s) - St(s) = b + 1
    <2> DEFINE x == St(s)
    <2>1. x \in Nat
        BY <1>5
    <2>2. En(s) = x + b + (IF s < r THEN 1 ELSE 0)
        BY <1>2
    <2> HIDE DEF x
    <2>3. En(s) - x = b \/ En(s) - x = b + 1
        BY <1>1, <2>1, <2>2
    <2> QED BY <2>3 DEF x
<1>9. \A s \in Nat : Even(L, n, s)
    BY <1>8 DEF Even, St, En, b
<1> QED BY <1>1, <1>5, <1>6, <1>7, <1>9 DEF St, En, b

Slice(s) ==
    SliceStart(model.configured, shards, s) + 1 .. SliceEnd(model.configured, shards, s)

\* Every shard that is loaded has its slice of the layers.
LayersInv ==
    /\ model \in Models /\ shards \in ShardCounts
    /\ DOMAIN held \in SUBSET (0 .. shards - 1)
    /\ \A s \in DOMAIN held : held[s] = Slice(s)

\* A load takes a slice.
LEMMA LoadSlices ==
    ASSUME LayersFound, LayersInv, NEW s \in 0 .. shards - 1, Load(s)
    PROVE  LayersInv'
<1> DEFINE L == model.configured
           found == FindLayers(model)
           start == SliceStart(L, shards, s)
           end == SliceEnd(L, shards, s)
           slice == {found[i] : i \in {j \in DOMAIN found : start < j /\ j <= end}}
<1>1. L \in Nat /\ shards \in Nat \ {0} /\ s \in Nat /\ s + 1 \in Nat /\ s + 1 <= shards
    BY GenerationAssumption DEF LayersInv
<1>2. found = [i \in 1 .. L |-> i]
    BY DEF LayersFound, LayersInv
<1>3. start \in Nat /\ end \in Nat /\ end <= L
    <2>1. start \in Nat /\ end = SliceStart(L, shards, s + 1) /\ SliceStart(L, shards, s + 1) \in Nat
        BY <1>1, SlicesFollow
    <2>2. SliceStart(L, shards, s + 1) <= SliceStart(L, shards, shards) /\ SliceStart(L, shards, shards) = L
        BY <1>1, SlicesFollow
    <2> QED BY <2>1, <2>2
<1>4. /\ held' = [k \in DOMAIN held \union {s} |-> IF k = s THEN slice ELSE held[k]]
      /\ UNCHANGED <<model, shards>>
    BY DEF Load
<1> HIDE DEF L, found, start, end
<1>5. slice = start + 1 .. end
    BY <1>1, <1>2, <1>3
<1> HIDE DEF slice
<1>6. \A k \in DOMAIN held' : held'[k] = Slice(k)
    <2>1. Slice(s) = slice
        BY <1>5 DEF Slice, L, start, end
    <2> QED BY <1>4, <2>1 DEF LayersInv
<1> QED BY <1>4, <1>6 DEF LayersInv, Slice

\* The inductive invariant of the layers.
LEMMA LayersNext ==
    ASSUME LayersFound
    PROVE  LayersInv /\ [GenerationNext]_generationVars => LayersInv'
<1> SUFFICES ASSUME LayersInv, [GenerationNext]_generationVars PROVE LayersInv'
    OBVIOUS
<1>1. CASE \E s \in 0 .. shards - 1 : Load(s)
    BY <1>1, LoadSlices
<1>2. CASE UNCHANGED <<model, shards, held>>
    BY <1>2 DEF LayersInv, Slice
<1> QED BY <1>1, <1>2 DEF GenerationNext, GenerateOne, GenerateBatch, StartBatch, Sample, Return, generationVars

\* Whatever the number of layers and shards, and in whatever order they load, no
\* layer is left out, none is in two shards, and the shares are even.
THEOREM LayersAlwaysHeldOnce ==
    ASSUME LayersFound
    PROVE  GenerationSpec => []LayersHeldOnce
<1>1. GenerationInit => LayersInv
    BY GenerationAssumption DEF GenerationInit, LayersInv
<1>2. LayersInv => LayersHeldOnce
    <2> SUFFICES ASSUME LayersInv, DOMAIN held = 0 .. shards - 1
                 PROVE  /\ UNION {held[s] : s \in DOMAIN held} = 1 .. model.configured
                        /\ \A s, t \in DOMAIN held :
                              /\ s < t => \A x \in held[s], y \in held[t] : x < y
                              /\ Cardinality(held[s]) <= Cardinality(held[t]) + 1
        BY DEF LayersHeldOnce
    <2> DEFINE L == model.configured
               n == shards
               St(s) == SliceStart(L, n, s)
    <2>1. L \in Nat /\ n \in Nat \ {0}
        BY GenerationAssumption DEF LayersInv
    <2>2. /\ \A s \in Nat : St(s) \in Nat /\ SliceEnd(L, n, s) = St(s + 1)
          /\ St(0) = 0 /\ St(n) = L
          /\ \A s, t \in Nat : s <= t => St(s) <= St(t)
        BY <2>1, SlicesFollow
    <2>3. ASSUME NEW s \in 0 .. n - 1 PROVE held[s] = St(s) + 1 .. St(s + 1)
        <3>1. s \in Nat /\ s \in DOMAIN held
            BY <2>1
        <3>2. held[s] = Slice(s)
            BY <3>1 DEF LayersInv
        <3>3. SliceEnd(L, n, s) = St(s + 1)
            BY <2>2, <3>1
        <3> QED BY <3>2, <3>3 DEF Slice
    <2>4. \A s \in Nat : St(s + 1) - St(s) = L \div n \/ St(s + 1) - St(s) = L \div n + 1
        <3>1. \A s \in Nat : Even(L, n, s)
            <4> HIDE DEF L, n
            <4> QED BY <2>1, SlicesFollow
        <3> HIDE DEF L, n
        <3> QED BY <2>2, <3>1 DEF Even
    <2> HIDE DEF L, n, St
    <2>5. ASSUME NEW x \in 1 .. L PROVE \E s \in 0 .. n - 1 : x \in held[s]
        <3> DEFINE B == {t \in Nat : x <= St(t)}
        <3>1. n \in B
            BY <2>1, <2>2
        <3>2. PICK t \in B : \A m \in 0 .. t - 1 : m \notin B
            <4>1. B \in SUBSET Nat /\ B # {}
                BY <3>1
            <4> HIDE DEF B
            <4> QED BY <4>1, LeastNumber
        <3>3. t # 0 /\ t \in Nat /\ x <= St(t)
            BY <2>2, <3>2
        <3>4. t - 1 \in Nat /\ t - 1 \in 0 .. t - 1 /\ (t - 1) + 1 = t
            BY <3>3
        <3>5. ~ (x <= St(t - 1))
            BY <3>2, <3>4
        <3>6. t - 1 \in 0 .. n - 1
            <4>1. ~ (n < t)
                BY <2>1, <3>1, <3>2, <3>3
            <4> QED BY <2>1, <3>3, <4>1
        <3>7. x \in St(t - 1) + 1 .. St(t)
            BY <2>2, <3>3, <3>4, <3>5
        <3>8. held[t - 1] = St(t - 1) + 1 .. St(t)
            BY <2>3, <3>4, <3>6
        <3> QED BY <3>6, <3>7, <3>8
    <2>6. ASSUME NEW s \in 0 .. n - 1, NEW x \in held[s] PROVE x \in 1 .. L
        <3>1. s \in Nat /\ s + 1 \in Nat /\ s + 1 <= n /\ n \in Nat
            BY <2>1
        <3>2. St(s) \in Nat /\ St(s + 1) \in Nat /\ St(s + 1) <= L
            BY <2>2, <3>1
        <3> QED BY <2>1, <2>3, <2>6, <3>2
    <2>7. UNION {held[s] : s \in 0 .. n - 1} = 1 .. L
        BY <2>5, <2>6
    <2>8. ASSUME NEW s \in 0 .. n - 1, NEW t \in 0 .. n - 1, s < t, NEW x \in held[s], NEW y \in held[t]
          PROVE  x < y
        <3>1. s \in Nat /\ t \in Nat /\ s + 1 \in Nat /\ t + 1 \in Nat /\ s + 1 <= t
            BY <2>1, <2>8
        <3>2. St(s) \in Nat /\ St(s + 1) \in Nat /\ St(t) \in Nat /\ St(t + 1) \in Nat /\ St(s + 1) <= St(t)
            BY <2>2, <3>1
        <3>3. x \in St(s) + 1 .. St(s + 1) /\ y \in St(t) + 1 .. St(t + 1)
            BY <2>3, <2>8
        <3> QED BY <3>2, <3>3
    <2>9. ASSUME NEW s \in 0 .. n - 1
          PROVE  Cardinality(held[s]) = St(s + 1) - St(s)
        <3> DEFINE a == St(s) + 1
                   z == St(s + 1)
        <3>1. s \in Nat /\ s + 1 \in Nat /\ s <= s + 1
            BY <2>1
        <3>2. St(s) \in Nat /\ z \in Nat /\ St(s) <= z
            BY <2>2, <3>1
        <3>3. a \in Int /\ z \in Int
            BY <3>2
        <3>4. held[s] = a .. z
            BY <2>3
        <3> HIDE DEF a, z
        <3>5. Cardinality(a .. z) = IF a > z THEN 0 ELSE z - a + 1
            BY <3>3, FS_Interval
        <3>6. Cardinality(a .. z) = z - St(s)
            BY <3>2, <3>5 DEF a
        <3> QED BY <3>4, <3>6 DEF z
    <2>10. ASSUME NEW s \in 0 .. n - 1, NEW t \in 0 .. n - 1
           PROVE  Cardinality(held[s]) <= Cardinality(held[t]) + 1
        <3>1. s \in Nat /\ t \in Nat /\ L \div n \in Int
            BY <2>1
        <3> DEFINE c == L \div n
                   x == Cardinality(held[s])
                   y == Cardinality(held[t])
        <3>2. (x = c \/ x = c + 1) /\ (y = c \/ y = c + 1) /\ c \in Int
            BY <2>4, <2>9, <3>1
        <3> HIDE DEF c, x, y
        <3>3. x <= y + 1
            BY <3>2
        <3> QED BY <3>3 DEF x, y
    <2> QED BY <2>7, <2>8, <2>10 DEF L, n
<1>3. GenerationSpec => []LayersInv
    BY <1>1, LayersNext, PTL DEF GenerationSpec
<1> QED BY <1>2, <1>3, PTL

-----------------------------------------------------------------------------
(* The rows of a batch. *)

\* What is sampled for a row, token by token; only its last token may be the end.
IsRun(prompt, row) ==
    \A k \in 1 .. Len(row) :
        /\ row[k] \in Sampled(prompt, SubSeq(row, 1, k - 1))
        /\ k < Len(row) => row[k] # EOS

\* A row that has ended stopped at its end, and the others have none.
EndsWhere(row, stopped) ==
    IF stopped THEN Len(row) > 0 /\ row[Len(row)] = EOS
    ELSE \A k \in 1 .. Len(row) : row[k] # EOS

\* The rows that go on have sampled as many tokens as there were iterations.
InStep(n) ==
    /\ n \in 0 .. MaxNewTokens
    /\ \A i \in DOMAIN rows : /\ Len(rows[i]) <= n
                              /\ i \notin ended => Len(rows[i]) = n

RowsInv ==
    /\ DOMAIN rows = DOMAIN prompts
    /\ ended \in SUBSET DOMAIN rows
    /\ \A i \in DOMAIN rows : /\ rows[i] \in Seq(Token)
                              /\ IsRun(prompts[i], rows[i])
                              /\ EndsWhere(rows[i], i \in ended)
    /\ \E n \in Nat : InStep(n)

\* A token that is sampled for a row without an end makes a longer run of it.
LEMMA AppendRuns ==
    ASSUME NEW prompt, NEW row \in Seq(Token), NEW x \in Token,
           IsRun(prompt, row), EndsWhere(row, FALSE), x \in Sampled(prompt, row)
    PROVE  /\ Append(row, x) \in Seq(Token)
           /\ IsRun(prompt, Append(row, x))
           /\ EndsWhere(Append(row, x), x = EOS)
           /\ Len(Append(row, x)) = Len(row) + 1
<1> DEFINE longer == Append(row, x)
           n == Len(row)
<1>1. /\ n \in Nat /\ longer \in Seq(Token) /\ Len(longer) = n + 1
      /\ \A k \in 1 .. n : longer[k] = row[k]
      /\ longer[n + 1] = x
    OBVIOUS
<1>2. \A k \in 1 .. n + 1 : SubSeq(longer, 1, k - 1) = SubSeq(row, 1, k - 1)
    <2> SUFFICES ASSUME NEW k \in 1 .. n + 1
                 PROVE  SubSeq(longer, 1, k - 1) = SubSeq(row, 1, k - 1)
        OBVIOUS
    <2>1. \A j \in 1 .. k - 1 : longer[j] = row[j]
        BY <1>1
    <2>2. SubSeq(longer, 1, k - 1) = [j \in 1 .. k - 1 |-> longer[j]]
        BY <1>1
    <2>3. SubSeq(row, 1, k - 1) = [j \in 1 .. k - 1 |-> row[j]]
        BY <1>1
    <2> QED BY <2>1, <2>2, <2>3
<1>3. SubSeq(row, 1, n) = row
    BY <1>1
<1> HIDE DEF longer, n
<1>4. ASSUME NEW k \in 1 .. Len(longer)
      PROVE  /\ longer[k] \in Sampled(prompt, SubSeq(longer, 1, k - 1))
             /\ k < Len(longer) => longer[k] # EOS
    <2>1. CASE k = n + 1
        <3>1. SubSeq(longer, 1, k - 1) = row
            <4>1. k - 1 = n /\ k \in 1 .. n + 1
                BY <1>1, <2>1
            <4> QED BY <1>2, <1>3, <4>1
        <3>2. longer[k] = x /\ ~ (k < Len(longer))
            BY <1>1, <2>1
        <3> QED BY <3>1, <3>2
    <2>2. CASE k # n + 1
        <3>1. k \in 1 .. n /\ k \in 1 .. n + 1
            BY <1>1, <2>2
        <3>2. row[k] \in Sampled(prompt, SubSeq(row, 1, k - 1)) /\ row[k] # EOS
            BY <3>1 DEF IsRun, EndsWhere, n
        <3> QED BY <1>1, <1>2, <3>1, <3>2
    <2> QED BY <2>1, <2>2
<1>5. IsRun(prompt, longer)
    BY <1>4 DEF IsRun
<1>6. EndsWhere(longer, x = EOS)
    <2>1. CASE x = EOS
        BY <1>1, <2>1 DEF EndsWhere
    <2>2. CASE x # EOS
        <3>1. ASSUME NEW k \in 1 .. Len(longer) PROVE longer[k] # EOS
            BY <1>1, <1>4, <2>2, <3>1
        <3> QED BY <2>2, <3>1 DEF EndsWhere
    <2> QED BY <2>1, <2>2
<1> QED BY <1>1, <1>5, <1>6 DEF longer, n

\* A batch begins with empty rows, and there are none when it has been returned.
LEMMA StartRuns ==
    ASSUME DOMAIN rows' = DOMAIN prompts', ended' = {}, \A i \in DOMAIN rows' : rows'[i] = <<>>
    PROVE  RowsInv'
<1>1. <<>> \in Seq(Token) /\ Len(<<>>) = 0
    OBVIOUS
<1>2. \A k \in 1 .. Len(<<>>) : FALSE
    BY <1>1
<1>3. \A p : IsRun(p, <<>>)
    BY <1>2 DEF IsRun
<1>4. EndsWhere(<<>>, FALSE)
    BY <1>2 DEF EndsWhere
<1>5. InStep(0)'
    BY <1>1, GenerationAssumption DEF InStep
<1>6. \A i \in DOMAIN rows' : /\ rows'[i] \in Seq(Token)
                              /\ IsRun(prompts'[i], rows'[i])
                              /\ EndsWhere(rows'[i], i \in ended')
    <2> SUFFICES ASSUME NEW i \in DOMAIN rows'
                 PROVE  /\ rows'[i] \in Seq(Token)
                        /\ IsRun(prompts'[i], rows'[i])
                        /\ EndsWhere(rows'[i], i \in ended')
        OBVIOUS
    <2>1. (i \in ended') = FALSE /\ rows'[i] = <<>>
        OBVIOUS
    <2> QED BY <1>1, <1>3, <1>4, <2>1
<1>7. (\A i \in DOMAIN rows : /\ rows[i] \in Seq(Token)
                              /\ IsRun(prompts[i], rows[i])
                              /\ EndsWhere(rows[i], i \in ended))'
    BY <1>6 DEF IsRun, EndsWhere, Sampled
<1> QED BY <1>5, <1>7 DEF RowsInv

\* An iteration makes the rows that go on one token longer.
LEMMA SampleRuns ==
    ASSUME RowsInv, Sample
    PROVE  RowsInv'
<1>1. PICK next \in [DOMAIN rows -> Token] :
          /\ \A i \in DOMAIN rows : next[i] \in Sampled(prompts[i], rows[i])
          /\ rows' = [i \in DOMAIN rows |-> IF i \in ended THEN rows[i] ELSE Append(rows[i], next[i])]
          /\ ended' = ended \union {i \in DOMAIN rows : next[i] = EOS}
    BY DEF Sample
<1>2. /\ prompts' = prompts /\ ended # DOMAIN rows
      /\ \A i \in DOMAIN rows : Len(rows[i]) < MaxNewTokens
    BY DEF Sample
<1>3. PICK n \in Nat : InStep(n)
    BY DEF RowsInv
<1>4. DOMAIN rows' = DOMAIN rows
    BY <1>1
<1>5. ASSUME NEW i \in DOMAIN rows
      PROVE  /\ rows'[i] \in Seq(Token)
             /\ IsRun(prompts[i], rows'[i])
             /\ EndsWhere(rows'[i], i \in ended')
             /\ Len(rows'[i]) <= n + 1
             /\ i \notin ended' => Len(rows'[i]) = n + 1
    <2>1. /\ rows[i] \in Seq(Token) /\ IsRun(prompts[i], rows[i])
          /\ EndsWhere(rows[i], i \in ended)
          /\ Len(rows[i]) \in Nat /\ Len(rows[i]) <= n /\ (i \notin ended => Len(rows[i]) = n)
        BY <1>3 DEF RowsInv, InStep
    <2>2. CASE i \in ended
        <3>1. rows'[i] = rows[i] /\ i \in ended'
            BY <1>1, <2>2
        <3>2. EndsWhere(rows[i], TRUE)
            BY <2>1, <2>2 DEF EndsWhere
        <3>3. EndsWhere(rows'[i], i \in ended')
            BY <3>1, <3>2 DEF EndsWhere
        <3>4. Len(rows'[i]) <= n + 1
            BY <2>1, <3>1
        <3> QED BY <2>1, <3>1, <3>3, <3>4
    <2>3. CASE i \notin ended
        <3>1. rows'[i] = Append(rows[i], next[i]) /\ (i \in ended' <=> next[i] = EOS)
            BY <1>1, <2>3
        <3>2. EndsWhere(rows[i], FALSE)
            BY <2>1, <2>3 DEF EndsWhere
        <3>3. next[i] \in Token /\ next[i] \in Sampled(prompts[i], rows[i])
            BY <1>1
        <3>4. /\ Append(rows[i], next[i]) \in Seq(Token)
              /\ IsRun(prompts[i], Append(rows[i], next[i]))
              /\ EndsWhere(Append(rows[i], next[i]), next[i] = EOS)
              /\ Len(Append(rows[i], next[i])) = Len(rows[i]) + 1
            BY <2>1, <3>2, <3>3, AppendRuns
        <3>5. EndsWhere(rows'[i], i \in ended')
            BY <3>1, <3>4 DEF EndsWhere
        <3>6. Len(rows'[i]) = n + 1
            BY <2>1, <2>3, <3>1, <3>4
        <3> QED BY <3>1, <3>4, <3>5, <3>6
    <2> QED BY <2>2, <2>3
<1>6. n + 1 \in 0 .. MaxNewTokens
    <2>1. PICK i \in DOMAIN rows : i \notin ended
        BY <1>2 DEF RowsInv
    <2> QED BY <1>2, <1>3, <2>1, GenerationAssumption DEF InStep
<1>7. InStep(n + 1)'
    BY <1>4, <1>5, <1>6 DEF InStep
<1>8. (\A i \in DOMAIN rows : /\ rows[i] \in Seq(Token)
                              /\ IsRun(prompts[i], rows[i])
                              /\ EndsWhere(rows[i], i \in ended))'
    BY <1>2, <1>4, <1>5 DEF IsRun, EndsWhere, Sampled
<1>9. (DOMAIN rows = DOMAIN prompts)' /\ ended' \in SUBSET DOMAIN rows'
    BY <1>1, <1>2, <1>4 DEF RowsInv
<1> QED BY <1>3, <1>7, <1>8, <1>9 DEF RowsInv

\* The inductive invariant of the rows.
LEMMA RowsNext == RowsInv /\ [GenerationNext]_generationVars => RowsInv'
<1> SUFFICES ASSUME RowsInv, [GenerationNext]_generationVars PROVE RowsInv'
    OBVIOUS
<1>1. ASSUME NEW asked, StartBatch(asked) PROVE RowsInv'
    <2>1. /\ DOMAIN rows' = DOMAIN asked /\ DOMAIN prompts' = DOMAIN asked /\ ended' = {}
          /\ \A i \in DOMAIN rows' : rows'[i] = <<>>
        BY <1>1 DEF StartBatch
    <2> QED BY <2>1, StartRuns
<1>2. CASE Sample
    BY <1>2, SampleRuns
<1>3. CASE Return
    <2>1. /\ DOMAIN rows' = DOMAIN prompts' /\ ended' = {}
          /\ \A i \in DOMAIN rows' : rows'[i] = <<>>
        BY <1>3 DEF Return
    <2> QED BY <2>1, StartRuns
<1>4. CASE UNCHANGED <<prompts, rows, ended>>
    BY <1>4 DEF RowsInv, InStep, IsRun, EndsWhere, Sampled
<1> QED BY <1>1, <1>2, <1>3, <1>4 DEF GenerationNext, GenerateOne, GenerateBatch, Load, generationVars

\* For every model, batch and prompts, a row of a batch is a run of its prompt alone,
\* and the batch returns no row that neither ended nor has all the tokens asked for.
THEOREM RowsAlwaysRuns == GenerationSpec => []RowsAreRuns
<1>1. GenerationInit => RowsInv
    <2> SUFFICES ASSUME GenerationInit PROVE RowsInv
        OBVIOUS
    <2>1. rows = <<>> /\ prompts = <<>> /\ ended = {} /\ DOMAIN rows = {} /\ DOMAIN prompts = {}
        BY DEF GenerationInit
    <2>2. InStep(0)
        BY <2>1, GenerationAssumption DEF InStep
    <2> QED BY <2>1, <2>2 DEF RowsInv
<1>2. RowsInv => RowsAreRuns
    <2> SUFFICES ASSUME RowsInv, NEW i \in DOMAIN rows
                 PROVE  /\ \A k \in 1 .. Len(rows[i]) :
                              /\ rows[i][k] \in Sampled(prompts[i], SubSeq(rows[i], 1, k - 1))
                              /\ k < Len(rows[i]) => rows[i][k] # EOS
                        /\ Ended => rows[i][Len(rows[i])] = EOS \/ Len(rows[i]) = MaxNewTokens
        BY DEF RowsAreRuns
    <2>1. IsRun(prompts[i], rows[i]) /\ EndsWhere(rows[i], i \in ended)
        BY DEF RowsInv
    <2>2. ASSUME Ended, i \notin ended PROVE Len(rows[i]) = MaxNewTokens
        <3>1. PICK n \in Nat : InStep(n)
            BY DEF RowsInv
        <3>2. PICK k \in DOMAIN rows : Len(rows[k]) = MaxNewTokens
            BY <2>2 DEF Ended
        <3>3. Len(rows[k]) <= n /\ Len(rows[i]) = n /\ n <= MaxNewTokens
            BY <2>2, <3>1, <3>2, GenerationAssumption DEF InStep
        <3> QED BY <3>2, <3>3, GenerationAssumption
    <2>3. i \in ended => rows[i][Len(rows[i])] = EOS
        BY <2>1 DEF EndsWhere
    <2> QED BY <2>1, <2>2, <2>3 DEF IsRun
<1>3. GenerationSpec => []RowsInv
    BY <1>1, RowsNext, PTL DEF GenerationSpec
<1> QED BY <1>2, <1>3, PTL

-----------------------------------------------------------------------------
(* Speculative decoding.  What the draft model proposes too often is what is rejected  *)
(* of it, and it weighs as much as what it proposes too seldom, which is what the      *)
(* corrections are drawn from; so the two make up for each other exactly.              *)

\* The lighter of two weights.
Overlap(p, q) == [x \in Word |-> IF p[x] < q[x] THEN p[x] ELSE q[x]]
Excess(p, q) == [x \in Word |-> IF p[x] > q[x] THEN p[x] - q[x] ELSE 0]

\* What a distribution has beyond another one weighs as much as what it lacks.
LEMMA ExcessIsMutual ==
    ASSUME NEW p \in [Word -> Nat], NEW q \in [Word -> Nat],
           Weight(p, Word) = Total, Weight(q, Word) = Total
    PROVE  /\ Weight(Excess(p, q), Word) = Weight(Excess(q, p), Word)
           /\ Weight(Excess(q, p), Word) \in Nat
           /\ \A x \in Word : Excess(q, p)[x] <= Weight(Excess(q, p), Word)
<1> USE SpeculationAssumption
<1> DEFINE o == Overlap(p, q)
           a == Excess(p, q)
           b == Excess(q, p)
<1>1. \A x \in Word : /\ o[x] \in Nat /\ a[x] \in Nat /\ b[x] \in Nat
                      /\ p[x] = o[x] + a[x] /\ q[x] = o[x] + b[x]
    BY DEF Overlap, Excess
<1> HIDE DEF o, a, b
<1>2. SumOver(p, Word) = SumOver(o, Word) + SumOver(a, Word)
    BY <1>1, SumPlus
<1>3. SumOver(q, Word) = SumOver(o, Word) + SumOver(b, Word)
    BY <1>1, SumPlus
<1>4. /\ SumOver(o, Word) \in Nat /\ SumOver(a, Word) \in Nat /\ SumOver(b, Word) \in Nat
      /\ \A x \in Word : b[x] <= SumOver(b, Word)
    BY <1>1, SumOfNaturals
<1>5. SumOver(p, Word) = SumOver(q, Word)
    BY DEF Weight, SumOver
<1>6. SumOver(a, Word) = SumOver(b, Word)
    <2> DEFINE m == SumOver(o, Word)
               k == SumOver(a, Word)
               l == SumOver(b, Word)
    <2>1. m \in Nat /\ k \in Nat /\ l \in Nat /\ m + k = m + l
        BY <1>2, <1>3, <1>4, <1>5
    <2> HIDE DEF m, k, l
    <2>2. k = l
        BY <2>1
    <2> QED BY <2>2 DEF k, l
<1> QED BY <1>4, <1>6 DEF Weight, SumOver, a, b

\* Without top_k the draft model draws from all of its distribution.
LEMMA TopIsAll ==
    ASSUME TopK = 0, NEW p \in [Word -> Nat]
    PROVE  Weight(p, Top(p)) = Weight(p, Word)
<1> USE SpeculationAssumption
<1>1. Top(p) = {x \in Word : p[x] > 0}
    BY DEF Top
<1> DEFINE A == {x \in Word : p[x] > 0}
           D == {x \in Word : p[x] = 0}
<1>2. A \union D = Word /\ A \intersect D = {} /\ A \in SUBSET Word /\ D \in SUBSET Word
      /\ \A x \in D : p[x] = 0
    OBVIOUS
<1> HIDE DEF A, D
<1>3. IsFiniteSet(A) /\ IsFiniteSet(D)
    BY <1>2, FS_Subset
<1>4. SumOver(p, A \union D) = SumOver(p, A) + SumOver(p, D)
    BY <1>2, <1>3, SumUnion
<1>5. SumOver(p, D) = 0
    BY <1>2, <1>3, SumOfZeros
<1>6. SumOver(p, A) \in Int
    BY <1>2, <1>3, SumIsInteger
<1>7. SumOver(p, Word) = SumOver(p, A)
    <2>1. SumOver(p, A) + 0 = SumOver(p, A)
        BY <1>6
    <2> QED BY <1>2, <1>4, <1>5, <2>1
<1> QED BY <1>1, <1>7 DEF Weight, SumOver, A

\* Numbers of an exchange: what is accepted (o) and what is rejected and drawn anew.
LEMMA Exchange ==
    ASSUME NEW t \in Nat, NEW o \in Nat, NEW e \in Nat, NEW w \in Nat
    PROVE  /\ t * (o * w + w * e) = (o + e) * t * w
           /\ t * (o * t + 0 * o) = o * t * t
OBVIOUS

\* The weight of a token behind a draft, r being what corrections are drawn from and
\* a what is rejected, is the verifier's.
DrawnFairly(p, q, r, a, x) ==
    Total * (Accepted(p, q, x) * Weight(r, Word) + Weight(a, Word) * r[x])
        = q[x] * Weight(p, Top(p)) * Weight(r, Word)

\* A drawn token that is accepted, or else the correction, has the verifier's distribution.
LEMMA DrawnAsTarget ==
    ASSUME TopK = 0, NEW p \in [Word -> Nat], NEW q \in [Word -> Nat],
           Weight(p, Word) = Total, Weight(q, Word) = Total, NEW x \in Word, NEW r, NEW a,
           r = Residual(p, q), a = [y \in Word |-> Rejected(p, q, y)]
    PROVE  DrawnFairly(p, q, r, a, x)
<1> USE SpeculationAssumption DEF DrawnFairly
<1> DEFINE e == Excess(q, p)
           w == Weight(e, Word)
           o == IF p[x] < q[x] THEN p[x] ELSE q[x]
<1>1. Weight(p, Top(p)) = Total
    BY TopIsAll
<1>2. a = Excess(p, q)
    BY DEF Rejected, Excess, Top, Lesser
<1>3. Weight(a, Word) = w /\ w \in Nat /\ \A y \in Word : e[y] <= w
    BY <1>2, ExcessIsMutual
<1>4. Accepted(p, q, x) = o /\ o \in Nat
    BY DEF Accepted, Top, Lesser
<1>5. e[x] \in Nat /\ q[x] = o + e[x] /\ e = [y \in Word |-> IF q[y] > p[y] THEN q[y] - p[y] ELSE 0]
    <2>1. e = [y \in Word |-> IF q[y] > p[y] THEN q[y] - p[y] ELSE 0]
        BY DEF Excess
    <2>2. p[x] \in Nat /\ q[x] \in Nat /\ e[x] = IF q[x] > p[x] THEN q[x] - p[x] ELSE 0
        BY <2>1
    <2> HIDE DEF e
    <2>3. e[x] \in Nat
        BY <2>2
    <2>4. q[x] = o + e[x]
        BY <2>2
    <2> QED BY <2>1, <2>3, <2>4
<1>6. r = IF \A y \in Word : e[y] = 0 THEN q ELSE e
    BY <1>5 DEF Residual
<1>7. CASE \A y \in Word : e[y] = 0
    <2>1. r = q /\ o = q[x]
        BY <1>4, <1>5, <1>6, <1>7
    <2>2. w = 0
        <3> HIDE DEF e
        <3>1. SumOver(e, Word) = 0
            BY <1>7, SumOfZeros
        <3> QED BY <3>1 DEF Weight, SumOver
    <2>3. Weight(r, Word) = Total /\ Weight(a, Word) = 0 /\ r[x] = o
        BY <1>3, <2>1, <2>2
    <2> HIDE DEF e, w, o
    <2>4. Total * (o * Total + 0 * o) = o * Total * Total
        BY <1>4, Exchange
    <2> QED BY <1>1, <1>4, <2>1, <2>3, <2>4
<1>8. CASE ~ \A y \in Word : e[y] = 0
    <2>1. r = e
        BY <1>6, <1>8
    <2>2. Weight(r, Word) = w /\ Weight(a, Word) = w /\ r[x] = e[x]
        BY <1>3, <2>1
    <2> DEFINE f == e[x]
    <2> HIDE DEF e, w, o, f
    <2>3. f \in Nat /\ q[x] = o + f /\ r[x] = f
        BY <1>5, <2>2 DEF f
    <2>4. Total * (o * w + w * f) = (o + f) * Total * w
        BY <1>3, <1>4, <2>3, Exchange
    <2> QED BY <1>1, <1>4, <2>2, <2>3, <2>4
<1> QED BY <1>7, <1>8

\* Behind every prefix, a token that the verifier produces there.
Produced(q) ==
    \A i \in 1 .. Len(q) : Target[IF i = 1 THEN Start ELSE q[i - 1]][q[i]] > 0

\* The token before a position.
LEMMA LastOfPrefix ==
    ASSUME NEW q \in Seq(Word), NEW i \in 1 .. Len(q) + 1
    PROVE  LastWord(SubSeq(q, 1, i - 1)) = IF i = 1 THEN Start ELSE q[i - 1]
<1>1. Len(q) \in Nat /\ i - 1 \in 0 .. Len(q)
    OBVIOUS
<1>2. SubSeq(q, 1, i - 1) \in Seq(Word) /\ Len(SubSeq(q, 1, i - 1)) = i - 1
      /\ \A k \in 1 .. i - 1 : SubSeq(q, 1, i - 1)[k] = q[k]
    BY <1>1
<1>3. CASE i = 1
    <2>1. SubSeq(q, 1, i - 1) = <<>>
        BY <1>2, <1>3
    <2> QED BY <1>3, <2>1 DEF LastWord
<1>4. CASE i # 1
    <2>1. SubSeq(q, 1, i - 1) # <<>> /\ i - 1 \in 1 .. i - 1
        BY <1>1, <1>2, <1>4
    <2> QED BY <1>2, <1>4, <2>1 DEF LastWord
<1> QED BY <1>3, <1>4

\* The token before a position behind another sequence.
LEMMA LastOfBoth ==
    ASSUME NEW q \in Seq(Word), NEW d \in Seq(Word), NEW i \in 1 .. Len(d) + 1
    PROVE  LastWord(q \o SubSeq(d, 1, i - 1)) =
               IF i # 1 THEN d[i - 1] ELSE IF q = <<>> THEN Start ELSE q[Len(q)]
<1> DEFINE s == SubSeq(d, 1, i - 1)
<1>1. Len(d) \in Nat /\ i - 1 \in 0 .. Len(d) /\ Len(q) \in Nat
    OBVIOUS
<1>2. s \in Seq(Word) /\ Len(s) = i - 1 /\ \A k \in 1 .. i - 1 : s[k] = d[k]
    BY <1>1
<1> HIDE DEF s
<1>3. /\ q \o s \in Seq(Word) /\ Len(q \o s) = Len(q) + (i - 1)
      /\ \A k \in 1 .. Len(q) : (q \o s)[k] = q[k]
      /\ \A k \in 1 .. i - 1 : (q \o s)[Len(q) + k] = s[k]
    <2>1. s \in Seq(Word)
        BY <1>2
    <2>2. /\ q \o s \in Seq(Word) /\ Len(q \o s) = Len(q) + Len(s)
          /\ \A k \in 1 .. Len(q) : (q \o s)[k] = q[k]
          /\ \A k \in 1 .. Len(s) : (q \o s)[Len(q) + k] = s[k]
        BY <2>1, ConcatParts
    <2> QED BY <1>2, <2>2
<1>4. CASE i # 1
    <2>1. q \o s # <<>> /\ i - 1 \in 1 .. i - 1
        BY <1>1, <1>3, <1>4
    <2>2. LastWord(q \o s) = (q \o s)[Len(q) + (i - 1)]
        BY <1>3, <2>1 DEF LastWord
    <2> QED BY <1>2, <1>3, <1>4, <2>1, <2>2 DEF s
<1>5. CASE i = 1 /\ q = <<>>
    <2>1. q \o s = <<>>
        BY <1>1, <1>3, <1>5
    <2> QED BY <1>5, <2>1 DEF LastWord, s
<1>6. CASE i = 1 /\ q # <<>>
    <2>1. Len(q \o s) = Len(q) /\ Len(q) \in 1 .. Len(q)
        BY <1>1, <1>3, <1>6
    <2>2. q \o s # <<>>
        BY <2>1
    <2>3. LastWord(q \o s) = q[Len(q)]
        BY <1>3, <2>1, <2>2 DEF LastWord
    <2> QED BY <1>6, <2>3 DEF s
<1> QED BY <1>4, <1>5, <1>6

\* What is produced behind something produced.
LEMMA ProducedBehind ==
    ASSUME NEW q \in Seq(Word), Produced(q), NEW w \in Seq(Word),
           \A i \in 1 .. Len(w) :
               Target[IF i # 1 THEN w[i - 1] ELSE IF q = <<>> THEN Start ELSE q[Len(q)]][w[i]] > 0
    PROVE  Produced(q \o w)
<1>1. Len(q) \in Nat /\ Len(w) \in Nat
    OBVIOUS
<1> DEFINE t == q \o w
<1>2. /\ t \in Seq(Word) /\ Len(t) = Len(q) + Len(w)
      /\ \A k \in 1 .. Len(q) : t[k] = q[k]
      /\ \A k \in 1 .. Len(w) : t[Len(q) + k] = w[k]
    BY ConcatParts
<1> HIDE DEF t
<1>3. ASSUME NEW i \in 1 .. Len(t) PROVE Target[IF i = 1 THEN Start ELSE t[i - 1]][t[i]] > 0
    <2>1. CASE i \in 1 .. Len(q)
        <3>1. t[i] = q[i] /\ (i # 1 => t[i - 1] = q[i - 1])
            BY <1>1, <1>2, <2>1
        <3> QED BY <2>1, <3>1 DEF Produced
    <2>2. CASE i \notin 1 .. Len(q)
        <3> DEFINE k == i - Len(q)
        <3>1. k \in 1 .. Len(w) /\ i = Len(q) + k
            BY <1>1, <1>2, <2>2
        <3> HIDE DEF k
        <3>2. t[i] = w[k]
            <4>1. t[Len(q) + k] = w[k]
                BY <1>2, <3>1
            <4> QED BY <3>1, <4>1
        <3>3. Target[IF k # 1 THEN w[k - 1] ELSE IF q = <<>> THEN Start ELSE q[Len(q)]][w[k]] > 0
            BY <3>1
        <3>4. CASE k # 1
            <4>1. k - 1 \in 1 .. Len(w) /\ i - 1 = Len(q) + (k - 1) /\ i # 1
                BY <1>1, <3>1, <3>4
            <4>2. t[i - 1] = w[k - 1]
                <5>1. t[Len(q) + (k - 1)] = w[k - 1]
                    BY <1>2, <4>1
                <5> QED BY <4>1, <5>1
            <4> QED BY <3>2, <3>3, <3>4, <4>1, <4>2
        <3>5. CASE k = 1 /\ q = <<>>
            <4>1. i = 1
                BY <3>1, <3>5
            <4> QED BY <3>2, <3>3, <3>5, <4>1
        <3>6. CASE k = 1 /\ q # <<>>
            <4>1. Len(q) \in 1 .. Len(q) /\ i - 1 = Len(q) /\ i # 1
                BY <1>1, <3>1, <3>6
            <4>2. t[i - 1] = q[Len(q)]
                BY <1>2, <4>1
            <4> QED BY <3>2, <3>3, <3>6, <4>1, <4>2
        <3> QED BY <3>4, <3>5, <3>6
    <2> QED BY <2>1, <2>2
<1>4. Produced(t)
    BY <1>3 DEF Produced
<1> QED BY <1>4 DEF t

\* An outcome is a draft up to some token, and a token of the verifier's behind it.
LEMMA OutcomesAreProduced ==
    ASSUME decoded \in Seq(Word), NEW k \in Nat, NEW d \in [1 .. k -> Word], NEW w \in Outcomes(d)
    PROVE  /\ w \in Seq(Word)
           /\ \A i \in 1 .. Len(w) :
                 Target[IF i # 1 THEN w[i - 1]
                        ELSE IF decoded = <<>> THEN Start ELSE decoded[Len(decoded)]][w[i]] > 0
<1> USE SpeculationAssumption
<1> DEFINE before(i) == LastWord(decoded \o SubSeq(d, 1, i - 1))
           Good(n) == \A i \in 1 .. n : Accepted(Draft[before(i)], Target[before(i)], d[i]) > 0
           here(n) == LastWord(decoded \o SubSeq(d, 1, n))
           next(n) == IF n = Len(d) THEN {x \in Word : Target[here(n)][x] > 0}
                      ELSE IF Rejected(Draft[here(n)], Target[here(n)], d[n + 1]) > 0
                      THEN {x \in Word : Residual(Draft[here(n)], Target[here(n)])[x] > 0}
                      ELSE {}
<1>0. d \in Seq(Word) /\ Len(d) = k
    OBVIOUS
<1>1. PICK n \in 0 .. Len(d) : Good(n) /\ w \in {SubSeq(d, 1, n) \o <<x>> : x \in next(n)}
    BY DEF Outcomes
<1>2. PICK x \in next(n) : w = SubSeq(d, 1, n) \o <<x>>
    BY <1>1
<1>3. x \in Word
    BY <1>2
<1>4. n + 1 \in 1 .. Len(d) + 1 /\ (n + 1) - 1 = n
    BY <1>0
<1> DEFINE last == IF decoded = <<>> THEN Start ELSE decoded[Len(decoded)]
<1>5. last \in Word \union {Start}
    <2>1. decoded # <<>> => Len(decoded) \in 1 .. Len(decoded)
        OBVIOUS
    <2> QED BY <2>1
<1>6. \A i \in 1 .. n + 1 : before(i) = IF i # 1 THEN d[i - 1] ELSE last
    <2>1. \A i \in 1 .. n + 1 : i \in 1 .. Len(d) + 1
        BY <1>0, <1>4
    <2> QED BY <1>0, <2>1, LastOfBoth
<1>7. here(n) = before(n + 1)
    BY <1>4
<1> HIDE DEF last
<1>8. \A i \in 1 .. n + 1 : before(i) \in Word \union {Start}
    <2>1. \A i \in 1 .. n + 1 : i # 1 => d[i - 1] \in Word
        BY <1>0, <1>4
    <2> QED BY <1>5, <1>6, <2>1
<1> HIDE DEF before
<1>9. \A i \in 1 .. n + 1 : Target[before(i)] \in [Word -> Nat] /\ Draft[before(i)] \in [Word -> Nat]
    BY <1>8
<1>10. \A i \in 1 .. n : d[i] \in Word /\ Target[before(i)][d[i]] > 0
    <2>1. ASSUME NEW i \in 1 .. n PROVE d[i] \in Word /\ Target[before(i)][d[i]] > 0
        <3>1. i \in 1 .. n + 1 /\ d[i] \in Word
            BY <1>0, <1>4
        <3>2. Accepted(Draft[before(i)], Target[before(i)], d[i]) > 0
            BY <1>1
        <3>3. Target[before(i)][d[i]] \in Nat /\ Draft[before(i)][d[i]] \in Nat
            BY <1>9, <3>1
        <3> QED BY <3>1, <3>2, <3>3 DEF Accepted, Lesser
    <2> QED BY <2>1
<1>11. Target[before(n + 1)][x] > 0
    <2>1. n + 1 \in 1 .. n + 1
        BY <1>4
    <2>2. Target[before(n + 1)][x] \in Nat /\ Draft[before(n + 1)][x] \in Nat
        BY <1>3, <1>9, <2>1
    <2>3. Target[before(n + 1)][x] > 0 \/ Residual(Draft[before(n + 1)], Target[before(n + 1)])[x] > 0
        BY <1>2, <1>7
    <2>4. Residual(Draft[before(n + 1)], Target[before(n + 1)])[x] > 0 => Target[before(n + 1)][x] > 0
        BY <1>3, <2>2 DEF Residual
    <2> QED BY <2>3, <2>4
<1> HIDE DEF next, here, Good
<1> DEFINE s == SubSeq(d, 1, n)
<1>12. s \in Seq(Word) /\ Len(s) = n /\ \A i \in 1 .. n : s[i] = d[i]
    BY <1>0, <1>1
<1> HIDE DEF s
<1>13. w \in Seq(Word) /\ Len(w) = n + 1 /\ w[n + 1] = x /\ \A i \in 1 .. n : w[i] = d[i]
    <2>1. w = s \o <<x>> /\ n \in Nat /\ <<x>> \in Seq(Word) /\ Len(<<x>>) = 1 /\ <<x>>[1] = x
        BY <1>2, <1>3, <1>4 DEF s
    <2> DEFINE one == <<x>>
    <2> HIDE DEF one
    <2>4. /\ s \o one \in Seq(Word) /\ Len(s \o one) = Len(s) + Len(one)
          /\ \A i \in 1 .. Len(s) : (s \o one)[i] = s[i]
          /\ \A i \in 1 .. Len(one) : (s \o one)[Len(s) + i] = one[i]
        <3>1. one \in Seq(Word)
            BY <2>1 DEF one
        <3>2. s \in Seq(Word)
            BY <1>12
        <3> QED BY <3>1, <3>2, ConcatParts
    <2>5. w = s \o one /\ Len(one) = 1 /\ one[1] = x
        BY <2>1 DEF one
    <2>2. w \in Seq(Word) /\ Len(w) = n + 1 /\ w[n + 1] = x
        BY <1>12, <2>1, <2>4, <2>5
    <2>3. \A i \in 1 .. n : w[i] = s[i]
        BY <1>12, <2>4, <2>5
    <2> QED BY <1>12, <2>2, <2>3
<1>14. ASSUME NEW i \in 1 .. n + 1
       PROVE  Target[IF i # 1 THEN w[i - 1] ELSE last][w[i]] > 0
    <2>1. before(i) = IF i # 1 THEN w[i - 1] ELSE last
        <3>1. i # 1 => i - 1 \in 1 .. n
            BY <1>4
        <3> QED BY <1>6, <1>13, <3>1
    <2>2. Target[before(i)][w[i]] > 0
        <3>1. CASE i \in 1 .. n
            BY <1>10, <1>13, <3>1
        <3>2. CASE i = n + 1
            BY <1>11, <1>13, <3>2
        <3> QED BY <1>4, <3>1, <3>2
    <2> QED BY <2>1, <2>2
<1> QED BY <1>13, <1>14 DEF last

\* A speculative run produces no more than the budget, and only what the verifier could.
LEMMA SpeculationProduces ==
    ASSUME decoded \in Seq(Word), Produced(decoded), Len(decoded) <= Budget, [SpeculationNext]_speculationVars
    PROVE  decoded' \in Seq(Word) /\ Produced(decoded') /\ Len(decoded') <= Budget
<1> USE SpeculationAssumption
<1>0. Len(decoded) \in Nat /\ Budget \in Nat /\ DraftSteps \in Nat
    OBVIOUS
<1> DEFINE last == IF decoded = <<>> THEN Start ELSE decoded[Len(decoded)]
<1>1. ASSUME Speculate PROVE decoded' \in Seq(Word) /\ Produced(decoded') /\ Len(decoded') <= Budget
    <2> DEFINE left == Budget - Len(decoded)
               k == Lesser(DraftSteps, left)
    <2>1. left \in Nat /\ k \in Nat
        BY <1>0, <1>1 DEF Speculate, Lesser
    <2>2. PICK d \in Drafts(k) : \E w \in Outcomes(d) :
              decoded' = decoded \o SubSeq(w, 1, Lesser(Len(w), left))
        BY <1>1 DEF Speculate
    <2>3. PICK w \in Outcomes(d) : decoded' = decoded \o SubSeq(w, 1, Lesser(Len(w), left))
        BY <2>2
    <2>4. d \in [1 .. k -> Word]
        BY DEF Drafts
    <2> HIDE DEF k
    <2>5. w \in Seq(Word) /\ \A i \in 1 .. Len(w) : Target[IF i # 1 THEN w[i - 1] ELSE last][w[i]] > 0
        BY <2>1, <2>4, OutcomesAreProduced
    <2> HIDE DEF last
    <2> DEFINE m == Lesser(Len(w), left)
               s == SubSeq(w, 1, m)
    <2>6. m \in 0 .. Len(w) /\ m <= left
        BY <2>1, <2>5 DEF Lesser
    <2> HIDE DEF m
    <2>7. s \in Seq(Word) /\ Len(s) = m /\ \A i \in 1 .. m : s[i] = w[i]
        BY <2>5, <2>6
    <2> HIDE DEF s
    <2>8. \A i \in 1 .. Len(s) : Target[IF i # 1 THEN s[i - 1] ELSE last][s[i]] > 0
        <3>1. ASSUME NEW i \in 1 .. m PROVE Target[IF i # 1 THEN s[i - 1] ELSE last][s[i]] > 0
            <4>1. i \in 1 .. Len(w) /\ s[i] = w[i] /\ (i # 1 => s[i - 1] = w[i - 1])
                BY <2>5, <2>6, <2>7
            <4> QED BY <2>5, <4>1
        <3> QED BY <2>7, <3>1
    <2>9. Produced(decoded \o s)
        BY <2>7, <2>8, ProducedBehind DEF last
    <2>10. decoded \o s \in Seq(Word) /\ Len(decoded \o s) = Len(decoded) + m
        BY <2>7, ConcatParts
    <2>11. decoded' = decoded \o s
        BY <2>3 DEF s, m
    <2>12. Len(decoded) + m <= Budget
        BY <1>0, <2>6
    <2> QED BY <2>9, <2>10, <2>11, <2>12
<1>2. ASSUME Decode PROVE decoded' \in Seq(Word) /\ Produced(decoded') /\ Len(decoded') <= Budget
    <2>1. PICK x \in Word : Target[LastWord(decoded)][x] > 0 /\ decoded' = Append(decoded, x)
        BY <1>2 DEF Decode
    <2>2. <<x>> \in Seq(Word) /\ Len(<<x>>) = 1 /\ <<x>>[1] = x /\ decoded' = decoded \o <<x>>
        BY <2>1
    <2>3. LastWord(decoded) = last
        BY DEF LastWord
    <2>4. \A i \in 1 .. Len(<<x>>) : Target[IF i # 1 THEN <<x>>[i - 1] ELSE last][<<x>>[i]] > 0
        BY <2>1, <2>2, <2>3
    <2>5. Produced(decoded \o <<x>>)
        BY <2>2, <2>4, ProducedBehind
    <2>6. Len(decoded) < Budget
        BY <1>2 DEF Decode
    <2>7. decoded \o <<x>> \in Seq(Word) /\ Len(decoded \o <<x>>) = Len(decoded) + 1
        BY <2>2, ConcatParts
    <2> QED BY <1>0, <2>2, <2>5, <2>6, <2>7
<1>3. ASSUME Restart PROVE decoded' \in Seq(Word) /\ Produced(decoded') /\ Len(decoded') <= Budget
    BY <1>0, <1>3 DEF Restart, Produced
<1>4. CASE UNCHANGED speculationVars
    BY <1>4 DEF speculationVars
<1> QED BY <1>1, <1>2, <1>3, <1>4 DEF SpeculationNext

\* Speculative decoding is lossless for any verifier and any draft model, as long as
\* the draft model samples from the distribution it reports (no top_k): behind every
\* prefix the next token has exactly the verifier's distribution, the verifier could
\* have produced every token, and the budget is kept.
THEOREM AlwaysLossless == TopK = 0 /\ SpeculationSpec => []Lossless
<1> USE SpeculationAssumption
<1> SUFFICES ASSUME TopK = 0 PROVE SpeculationSpec => []Lossless
    OBVIOUS
<1> DEFINE Inv == decoded \in Seq(Word) /\ Produced(decoded) /\ Len(decoded) <= Budget
<1>1. SpeculationInit => Inv
    BY DEF SpeculationInit, Produced
<1>2. Inv /\ [SpeculationNext]_speculationVars => Inv'
    BY SpeculationProduces DEF Produced
<1>3. Inv => Lossless
    <2> SUFFICES ASSUME Inv PROVE Lossless
        OBVIOUS
    <2> DEFINE q == Target[LastWord(decoded)]
               p == Draft[LastWord(decoded)]
               r == Residual(p, q)
               rejections == [y \in Word |-> Rejected(p, q, y)]
    <2>1. LastWord(decoded) \in Word \union {Start}
        <3>1. decoded # <<>> => Len(decoded) \in 1 .. Len(decoded)
            OBVIOUS
        <3> QED BY <3>1 DEF LastWord
    <2>2. q \in [Word -> Nat] /\ p \in [Word -> Nat] /\ Weight(q, Word) = Total /\ Weight(p, Word) = Total
        BY <2>1
    <2>3. \A x \in Word :
             Total * (Accepted(p, q, x) * Weight(r, Word) + Weight(rejections, Word) * r[x])
                 = q[x] * Weight(p, Top(p)) * Weight(r, Word)
        <3>1. TopK = 0 /\ r = Residual(p, q) /\ rejections = [y \in Word |-> Rejected(p, q, y)]
            OBVIOUS
        <3> HIDE DEF q, p, r, rejections
        <3>2. \A x \in Word : DrawnFairly(p, q, r, rejections, x)
            BY <2>2, <3>1, DrawnAsTarget
        <3> QED BY <3>2 DEF DrawnFairly
    <2>4. \A i \in 1 .. Len(decoded) : Target[LastWord(SubSeq(decoded, 1, i - 1))][decoded[i]] > 0
        <3>1. \A i \in 1 .. Len(decoded) : i \in 1 .. Len(decoded) + 1
            OBVIOUS
        <3> QED BY <3>1, LastOfPrefix DEF Produced
    <2> QED BY <2>3, <2>4 DEF Lossless
<1> QED BY <1>1, <1>2, <1>3, PTL DEF SpeculationSpec

-----------------------------------------------------------------------------
(* Proofs of inference.  The recursive functions exist: what is defined up to a number *)
(* is defined up to the next one.                                                      *)

\* g is what Doubled should be, up to n.
DoublesTo(g, n) == \A d \in 0 .. n : g[d] = IF d = 0 THEN 1 ELSE 2 * g[d - 1]

\* There are such functions for every n.
LEMMA DoublesExist == \A n \in Nat : \E g \in [Nat -> Nat] : DoublesTo(g, n)
<1> DEFINE B == {n \in Nat : ~ \E g \in [Nat -> Nat] : DoublesTo(g, n)}
<1> SUFFICES ASSUME B # {} PROVE FALSE
    OBVIOUS
<1>1. PICK n \in B : \A m \in 0 .. n - 1 : m \notin B
    <2>1. B \in SUBSET Nat
        OBVIOUS
    <2> HIDE DEF B
    <2> QED BY <2>1, LeastNumber
<1>2. CASE n = 0
    <2> DEFINE h == [d \in Nat |-> 1]
    <2>1. h \in [Nat -> Nat] /\ DoublesTo(h, n)
        BY <1>2 DEF DoublesTo
    <2> HIDE DEF h
    <2> QED BY <1>1, <2>1
<1>3. CASE n # 0
    <2>1. n \in Nat /\ n - 1 \in Nat /\ n - 1 \in 0 .. n - 1
        BY <1>3
    <2>2. PICK g \in [Nat -> Nat] : DoublesTo(g, n - 1)
        BY <1>1, <2>1
    <2> DEFINE h == [d \in Nat |-> IF d = n THEN 2 * g[n - 1] ELSE g[d]]
    <2>3. h \in [Nat -> Nat] /\ \A d \in Nat : h[d] = IF d = n THEN 2 * g[n - 1] ELSE g[d]
        BY <2>1
    <2> HIDE DEF h
    <2>4. ASSUME NEW d \in 0 .. n PROVE h[d] = IF d = 0 THEN 1 ELSE 2 * h[d - 1]
        <3>1. CASE d = n
            BY <1>3, <2>1, <2>3, <3>1
        <3>2. CASE d # n
            <4>1. d \in 0 .. n - 1 /\ h[d] = g[d] /\ (d # 0 => h[d - 1] = g[d - 1])
                BY <2>1, <2>3, <3>2
            <4> QED BY <2>2, <4>1 DEF DoublesTo
        <3> QED BY <3>1, <3>2
    <2>5. DoublesTo(h, n)
        BY <2>4 DEF DoublesTo
    <2> QED BY <1>1, <2>3, <2>5
<1> QED BY <1>2, <1>3

\* The powers of two.
LEMMA Doubling ==
    /\ Doubled[0] = 1
    /\ \A d \in Nat : Doubled[d + 1] = 2 * Doubled[d] /\ Doubled[d] \in Nat /\ Doubled[d] > d
<1> DEFINE t(n) == CHOOSE g : g \in [Nat -> Nat] /\ DoublesTo(g, n)
           P(g) == g = [d \in Nat |-> IF d = 0 THEN 1 ELSE 2 * g[d - 1]]
           f == [n \in Nat |-> t(n)[n]]
<1>1. \A n \in Nat : t(n) \in [Nat -> Nat] /\ DoublesTo(t(n), n)
    BY DoublesExist
<1> HIDE DEF t
<1>2. ASSUME NEW n \in Nat PROVE t(n)[n] = t(n + 1)[n]
    <2> DEFINE G == {d \in 0 .. n : t(n)[d] = t(n + 1)[d]}
    <2>1. \A d \in 0 .. n : /\ t(n)[d] = IF d = 0 THEN 1 ELSE 2 * t(n)[d - 1]
                            /\ t(n + 1)[d] = IF d = 0 THEN 1 ELSE 2 * t(n + 1)[d - 1]
        BY <1>1 DEF DoublesTo
    <2>2. 0 \in G
        BY <2>1
    <2>3. \A i \in 1 .. n : i - 1 \in G => i \in G
        BY <2>1
    <2>4. \A i \in 0 .. n : i \in G
        <3> HIDE DEF G
        <3>1. G \in SUBSET (0 .. n)
            BY DEF G
        <3> QED BY <2>2, <2>3, <3>1, UpTo
    <2> QED BY <2>4
<1>3. \A n \in Nat : f[n] = IF n = 0 THEN 1 ELSE 2 * f[n - 1]
    <2>1. ASSUME NEW n \in Nat, n # 0 PROVE t(n)[n] = 2 * t(n - 1)[n - 1]
        <3>1. n - 1 \in Nat /\ (n - 1) + 1 = n /\ n \in 0 .. n
            BY <2>1
        <3>2. t(n)[n] = 2 * t(n)[n - 1]
            BY <1>1, <2>1, <3>1 DEF DoublesTo
        <3>3. t(n - 1)[n - 1] = t(n)[n - 1]
            BY <1>2, <3>1
        <3> QED BY <3>2, <3>3
    <2>2. t(0)[0] = 1
        <3>1. DoublesTo(t(0), 0) /\ 0 \in 0 .. 0
            BY <1>1
        <3> QED BY <3>1 DEF DoublesTo
    <2>3. \A n \in Nat : f[n] = t(n)[n]
        OBVIOUS
    <2> HIDE DEF f
    <2> QED BY <2>1, <2>2, <2>3
<1>4. P(f)
    <2>1. f = [n \in Nat |-> f[n]]
        OBVIOUS
    <2> HIDE DEF f
    <2> QED BY <1>3, <2>1
<1>5. P(Doubled)
    <2>1. Doubled = CHOOSE g : P(g)
        BY DEF Doubled
    <2> HIDE DEF P, f
    <2> QED BY <1>4, <2>1
<1> HIDE DEF f
<1>6. \A n \in Nat : Doubled[n] = IF n = 0 THEN 1 ELSE 2 * Doubled[n - 1]
    BY <1>5
<1>7. \A n \in Nat : Doubled[n] \in Nat /\ Doubled[n] > n
    <2> DEFINE B == {n \in Nat : ~ (Doubled[n] \in Nat /\ Doubled[n] > n)}
    <2> SUFFICES ASSUME B # {} PROVE FALSE
        OBVIOUS
    <2>1. PICK n \in B : \A m \in 0 .. n - 1 : m \notin B
        <3>1. B \in SUBSET Nat
            OBVIOUS
        <3> HIDE DEF B
        <3> QED BY <3>1, LeastNumber
    <2>2. n # 0
        BY <1>6, <2>1
    <2>3. n - 1 \in Nat /\ Doubled[n - 1] \in Nat /\ Doubled[n - 1] > n - 1
        BY <2>1, <2>2
    <2> QED BY <1>6, <2>1, <2>2, <2>3
<1> QED BY <1>6, <1>7

\* Different powers of two are different numbers.
LEMMA DoublingTells ==
    ASSUME NEW d \in Nat, NEW e \in Nat, Doubled[d] = Doubled[e]
    PROVE  d = e
<1> DEFINE B == {n \in Nat : \E k \in Nat : k # n /\ Doubled[k] = Doubled[n]}
<1>1. SUFFICES ASSUME B # {} PROVE FALSE
    OBVIOUS
<1>2. PICK n \in B : \A m \in 0 .. n - 1 : m \notin B
    <2>1. B \in SUBSET Nat
        OBVIOUS
    <2> HIDE DEF B
    <2> QED BY <1>1, <2>1, LeastNumber
<1>3. PICK k \in Nat : k # n /\ Doubled[k] = Doubled[n]
    BY <1>2
<1>4. n \in Nat /\ k \notin 0 .. n - 1
    BY <1>2, <1>3
<1>5. k > n
    BY <1>3, <1>4
<1>6. Doubled[k] = 2 * Doubled[k - 1] /\ Doubled[k] > k /\ k - 1 \in Nat /\ (k - 1) + 1 = k
    <2>1. k - 1 \in Nat /\ (k - 1) + 1 = k
        BY <1>4, <1>5
    <2>2. Doubled[(k - 1) + 1] = 2 * Doubled[k - 1]
        BY <2>1, Doubling
    <2> QED BY <1>3, <2>1, <2>2, Doubling
<1>7. CASE n = 0
    <2>1. Doubled[k] = 1
        BY <1>3, <1>7, Doubling
    <2> QED BY <1>5, <1>6, <1>7, <2>1
<1>8. CASE n # 0
    <2>1. n - 1 \in Nat /\ (n - 1) + 1 = n /\ n - 1 # k - 1 /\ n - 1 \in 0 .. n - 1
        BY <1>4, <1>5, <1>8
    <2>2. Doubled[n] = 2 * Doubled[n - 1]
        <3>1. Doubled[(n - 1) + 1] = 2 * Doubled[n - 1]
            BY <2>1, Doubling
        <3> QED BY <2>1, <3>1
    <2>3. Doubled[n - 1] \in Nat /\ Doubled[k - 1] \in Nat
        BY <1>6, <2>1, Doubling
    <2>4. Doubled[n - 1] = Doubled[k - 1]
        <3>1. 2 * Doubled[n - 1] = 2 * Doubled[k - 1]
            BY <1>3, <1>6, <2>2
        <3> QED BY <2>3, <3>1
    <2>5. n - 1 \in B
        BY <1>6, <2>1, <2>4
    <2> QED BY <1>2, <2>1, <2>5
<1> QED BY <1>7, <1>8

\* There is room for the leaves.
LEMMA DepthType ==
    ASSUME NEW S, NEW leaves \in Seq(S), leaves # <<>>
    PROVE  Depth(leaves) \in Nat /\ Doubled[Depth(leaves)] >= Len(leaves)
<1>1. Len(leaves) \in Nat
    OBVIOUS
<1> DEFINE B == {d \in 0 .. Len(leaves) : Doubled[d] >= Len(leaves)}
<1>2. Len(leaves) \in B
    BY <1>1, Doubling
<1>3. PICK d \in B : \A m \in 0 .. d - 1 : m \notin B
    <2>1. B \in SUBSET Nat /\ B # {}
        BY <1>2
    <2> HIDE DEF B
    <2> QED BY <2>1, LeastNumber
<1>4. \A e \in 0 .. d - 1 : Doubled[e] < Len(leaves)
    <2>1. ASSUME NEW e \in 0 .. d - 1 PROVE Doubled[e] < Len(leaves)
        <3>2. e \in 0 .. Len(leaves) /\ e \in Nat
            BY <1>1, <1>3
        <3>3. Doubled[e] \in Nat
            BY <3>2, Doubling
        <3>1. e \in 0 .. Len(leaves) /\ e \notin B /\ Doubled[e] \in Nat
            BY <1>3, <3>2, <3>3
        <3> QED BY <1>1, <3>1
    <2> QED BY <2>1
<1>5. \E e \in 0 .. Len(leaves) :
          Doubled[e] >= Len(leaves) /\ \A m \in 0 .. e - 1 : Doubled[m] < Len(leaves)
    BY <1>3, <1>4
<1>6. Depth(leaves) \in 0 .. Len(leaves) /\ Doubled[Depth(leaves)] >= Len(leaves)
    BY <1>5 DEF Depth
<1> QED BY <1>6

\* t is a tree of levels over the leaves p, of d halvings: every level is as long as it
\* should be and combines the one below.
Levels(t, d, p) ==
    /\ Len(t) = d + 1
    /\ \A k \in 1 .. d + 1 : DOMAIN t[k] = 1 .. Doubled[d + 1 - k]
    /\ \A i \in 1 .. Doubled[d] : t[1][i] = Hash(p[i])
    /\ \A k \in 2 .. d + 1 : \A i \in 1 .. Doubled[d + 1 - k] :
          t[k][i] = Combine(t[k - 1][2 * i - 1], t[k - 1][2 * i])

\* Two trees with the same root have the same leaves.
LEMMA RootsTell ==
    ASSUME NEW d \in Nat, NEW e \in Nat, NEW p, NEW q, NEW s, NEW t,
           Levels(s, d, p), Levels(t, e, q), s[d + 1][1] = t[e + 1][1]
    PROVE  d = e /\ \A i \in 1 .. Doubled[d] : p[i] = q[i]
<1> DEFINE m == IF d < e THEN d ELSE e
           Same(j) == \A i \in 1 .. Doubled[j] : s[d + 1 - j][i] = t[e + 1 - j][i]
           G == {j \in 0 .. m : Same(j)}
<1>1. m \in Nat /\ m <= d /\ m <= e /\ (d = e => m = d)
    OBVIOUS
<1>2. 0 \in G
    <2>1. Same(0)
        BY Doubling
    <2> QED BY <1>1, <2>1
<1>3. ASSUME NEW j \in 1 .. m, Same(j - 1) PROVE Same(j)
    <2>0. j - 1 \in Nat /\ (j - 1) + 1 = j
        BY <1>1
    <2>1. Doubled[j] = 2 * Doubled[j - 1] /\ Doubled[j - 1] \in Nat
        BY <2>0, Doubling
    <2> DEFINE k == d + 2 - j
               l == e + 2 - j
    <2>2. k \in 2 .. d + 1 /\ l \in 2 .. e + 1 /\ d + 1 - k = j - 1 /\ e + 1 - l = j - 1
          /\ k - 1 = d + 1 - j /\ l - 1 = e + 1 - j /\ k = d + 1 - (j - 1) /\ l = e + 1 - (j - 1)
        BY <1>1
    <2> HIDE DEF k, l
    <2>3. ASSUME NEW h \in 1 .. Doubled[j - 1]
          PROVE  s[k - 1][2 * h - 1] = t[l - 1][2 * h - 1] /\ s[k - 1][2 * h] = t[l - 1][2 * h]
        <3>1. s[k][h] = Combine(s[k - 1][2 * h - 1], s[k - 1][2 * h])
            BY <2>2, <2>3 DEF Levels
        <3>2. t[l][h] = Combine(t[l - 1][2 * h - 1], t[l - 1][2 * h])
            BY <2>2, <2>3 DEF Levels
        <3>3. s[k][h] = t[l][h]
            BY <1>3, <2>2, <2>3
        <3> QED BY <3>1, <3>2, <3>3 DEF Combine
    <2>4. ASSUME NEW i \in 1 .. Doubled[j] PROVE s[k - 1][i] = t[l - 1][i]
        <3>1. \E h \in 1 .. Doubled[j - 1] : i = 2 * h - 1 \/ i = 2 * h
            <4> DEFINE h == (i + 1) \div 2
            <4>1. h \in 1 .. Doubled[j - 1] /\ (i = 2 * h - 1 \/ i = 2 * h)
                BY <2>1
            <4> QED BY <4>1
        <3> QED BY <2>3, <3>1
    <2> QED BY <2>2, <2>4
<1>4. Same(m)
    <2>1. \A j \in 1 .. m : j - 1 \in G => j \in G
        BY <1>1, <1>3
    <2>2. \A j \in 0 .. m : j \in G
        <3> HIDE DEF G, m
        <3>1. G \in SUBSET (0 .. m)
            BY DEF G
        <3> QED BY <1>1, <1>2, <2>1, <3>1, UpTo
    <2> HIDE DEF m, Same
    <2> QED BY <1>1, <2>2
<1>5. 1 \in 1 .. Doubled[m]
    BY <1>1, Doubling
<1>6. ~ (d < e)
    <2> SUFFICES ASSUME d < e PROVE FALSE
        OBVIOUS
    <2>1. s[1][1] = t[e + 1 - d][1] /\ 1 \in 1 .. Doubled[d]
        BY <1>4, <1>5
    <2> DEFINE l == e + 1 - d
    <2>2. l \in 2 .. e + 1 /\ e + 1 - l = d
        OBVIOUS
    <2> HIDE DEF l
    <2>3. t[l][1] = Combine(t[l - 1][2 * 1 - 1], t[l - 1][2 * 1])
        BY <2>1, <2>2 DEF Levels
    <2>4. s[1][1] = Hash(p[1])
        BY <2>1 DEF Levels
    <2> QED BY <2>1, <2>3, <2>4 DEF Hash, Combine, l
<1>7. ~ (e < d)
    <2> SUFFICES ASSUME e < d PROVE FALSE
        OBVIOUS
    <2>1. t[1][1] = s[d + 1 - e][1] /\ 1 \in 1 .. Doubled[e]
        BY <1>4, <1>5
    <2> DEFINE l == d + 1 - e
    <2>2. l \in 2 .. d + 1 /\ d + 1 - l = e
        OBVIOUS
    <2> HIDE DEF l
    <2>3. s[l][1] = Combine(s[l - 1][2 * 1 - 1], s[l - 1][2 * 1])
        BY <2>1, <2>2 DEF Levels
    <2>4. t[1][1] = Hash(q[1])
        BY <2>1 DEF Levels
    <2> QED BY <2>1, <2>3, <2>4 DEF Hash, Combine, l
<1>8. d = e /\ m = d
    BY <1>6, <1>7
<1>9. ASSUME NEW i \in 1 .. Doubled[d] PROVE p[i] = q[i]
    <2>1. s[1][i] = t[1][i]
        BY <1>4, <1>8
    <2>2. s[1][i] = Hash(p[i]) /\ t[1][i] = Hash(q[i])
        BY <1>8 DEF Levels
    <2>3. Hash(p[i]) = Hash(q[i])
        BY <2>1, <2>2
    <2>4. Hash(p[i])[2] = p[i] /\ Hash(q[i])[2] = q[i]
        BY DEF Hash
    <2> QED BY <2>3, <2>4
<1> QED BY <1>8, <1>9

\* _build makes such a tree over the padded leaves.
LEMMA TreeLevels ==
    ASSUME NEW S, NEW leaves \in Seq(S), leaves # <<>>
    PROVE  Levels(Tree(leaves), Depth(leaves), Padded(leaves))
<1> DEFINE d == Depth(leaves)
           p == Padded(leaves)
           first == [i \in DOMAIN p |-> Hash(p[i])]
           above(below) == [i \in 1 .. Len(below) \div 2 |-> Combine(below[2 * i - 1], below[2 * i])]
           Grows(t, n) == t = [k \in 1 .. n |-> IF k = 1 THEN first ELSE above(t[k - 1])]
           B == {n \in Nat : ~ \E t : Grows(t, n)}
<1>1. d \in Nat
    BY DepthType
<1>2. DOMAIN p = 1 .. Doubled[d]
    BY DEF Padded
<1> HIDE DEF first, above, p, d
<1>3. B = {}
    <2> SUFFICES ASSUME B # {} PROVE FALSE
        OBVIOUS
    <2>1. PICK n \in B : \A m \in 0 .. n - 1 : m \notin B
        <3>1. B \in SUBSET Nat
            OBVIOUS
        <3> HIDE DEF B
        <3> QED BY <3>1, LeastNumber
    <2>2. CASE n = 0
        <3> DEFINE t == [k \in 1 .. 0 |-> 0]
        <3>1. Grows(t, 0)
            OBVIOUS
        <3> HIDE DEF Grows
        <3> QED BY <2>1, <2>2, <3>1
    <2>3. CASE n # 0
        <3>1. n - 1 \in Nat /\ n - 1 \in 0 .. n - 1 /\ n \in Nat
            BY <2>1, <2>3
        <3>2. PICK t : Grows(t, n - 1)
            BY <2>1, <3>1
        <3> DEFINE u == [k \in 1 .. n |-> IF k = 1 THEN first ELSE above(t[k - 1])]
        <3>3. \A k \in 1 .. n : u[k] = IF k = 1 THEN first ELSE above(t[k - 1])
            OBVIOUS
        <3>4. \A k \in 1 .. n - 1 : t[k] = IF k = 1 THEN first ELSE above(t[k - 1])
            BY <3>2
        <3> HIDE DEF u
        <3>5. \A k \in 1 .. n - 1 : u[k] = t[k]
            BY <3>1, <3>3, <3>4
        <3>6. \A k \in 1 .. n : u[k] = IF k = 1 THEN first ELSE above(u[k - 1])
            <4>1. ASSUME NEW k \in 1 .. n, k # 1 PROVE u[k - 1] = t[k - 1]
                <5>1. k - 1 \in 1 .. n - 1
                    BY <3>1, <4>1
                <5> QED BY <3>5, <5>1
            <4> QED BY <3>3, <4>1
        <3>7. Grows(u, n)
            BY <3>6 DEF u
        <3> HIDE DEF Grows
        <3> QED BY <2>1, <3>7
    <2> QED BY <2>2, <2>3
<1> DEFINE t == Tree(leaves)
<1>4. Grows(t, d + 1)
    <2>1. t = CHOOSE u : Grows(u, d + 1)
        BY DEF Tree, first, above, p, d
    <2> HIDE DEF Grows, t
    <2>2. \E u : Grows(u, d + 1)
        <3>1. d + 1 \in Nat
            BY <1>1
        <3> QED BY <1>3, <3>1
    <2> QED BY <2>1, <2>2
<1> HIDE DEF t
<1>5. Len(t) = d + 1 /\ \A k \in 1 .. d + 1 : t[k] = IF k = 1 THEN first ELSE above(t[k - 1])
    <2>1. t = [k \in 1 .. d + 1 |-> t[k]]
        BY <1>4
    <2>2. Len([k \in 1 .. d + 1 |-> t[k]]) = d + 1
        BY <1>1
    <2> QED BY <1>1, <1>4, <2>1, <2>2
<1> HIDE DEF Grows
<1>6. t[1] = first /\ DOMAIN first = 1 .. Doubled[d] /\ \A i \in 1 .. Doubled[d] : first[i] = Hash(p[i])
    <2>1. 1 \in 1 .. d + 1
        BY <1>1
    <2>2. t[1] = first
        BY <1>5, <2>1
    <2>3. DOMAIN first = 1 .. Doubled[d] /\ \A i \in 1 .. Doubled[d] : first[i] = Hash(p[i])
        BY <1>2 DEF first
    <2> QED BY <2>2, <2>3
<1> DEFINE Sized(k) == DOMAIN t[k] = 1 .. Doubled[d + 1 - k]
<1>7. ASSUME NEW k \in 2 .. d + 1, Sized(k - 1)
      PROVE  /\ Sized(k)
             /\ \A i \in 1 .. Doubled[d + 1 - k] : t[k][i] = Combine(t[k - 1][2 * i - 1], t[k - 1][2 * i])
    <2> DEFINE n == Doubled[d + 1 - k]
               b == t[k - 1]
    <2>1. n \in Nat /\ DOMAIN b = 1 .. 2 * n
        <3>1. d + 1 - k \in Nat /\ d + 1 - (k - 1) = (d + 1 - k) + 1
            BY <1>1
        <3>2. Doubled[(d + 1 - k) + 1] = 2 * Doubled[d + 1 - k] /\ Doubled[d + 1 - k] \in Nat
            BY <3>1, Doubling
        <3> QED BY <1>7, <3>1, <3>2
    <2>2. k \in 1 .. d + 1 /\ k # 1
        BY <1>1
    <2>3. t[k] = above(b)
        BY <1>5, <2>2
    <2> HIDE DEF n, b
    <2>4. Len(b) = 2 * n
        BY <2>1
    <2>5. Len(b) \div 2 = n
        BY <2>1, <2>4
    <2>6. t[k] = [i \in 1 .. n |-> Combine(b[2 * i - 1], b[2 * i])]
        BY <2>3, <2>5 DEF above
    <2> QED BY <2>6 DEF n, b
<1>8. \A k \in 1 .. d + 1 : Sized(k)
    <2> DEFINE G == {j \in 0 .. d : Sized(j + 1)}
    <2>1. 0 \in G
        BY <1>1, <1>6
    <2>2. \A j \in 1 .. d : j - 1 \in G => j \in G
        <3>1. ASSUME NEW j \in 1 .. d, j - 1 \in G PROVE j \in G
            <4>1. j + 1 \in 2 .. d + 1 /\ (j + 1) - 1 = (j - 1) + 1
                BY <1>1
            <4>2. Sized((j + 1) - 1)
                BY <3>1, <4>1
            <4> HIDE DEF Sized
            <4>3. Sized(j + 1)
                BY <1>7, <4>1, <4>2
            <4> QED BY <1>1, <4>3
        <3> QED BY <3>1
    <2>3. \A j \in 0 .. d : j \in G
        <3> HIDE DEF G
        <3>1. G \in SUBSET (0 .. d)
            BY DEF G
        <3> QED BY <1>1, <2>1, <2>2, <3>1, UpTo
    <2> HIDE DEF Sized
    <2>4. ASSUME NEW k \in 1 .. d + 1 PROVE Sized(k)
        <3>1. k - 1 \in 0 .. d /\ (k - 1) + 1 = k
            BY <1>1
        <3>2. k - 1 \in G
            BY <2>3, <3>1
        <3>3. Sized((k - 1) + 1)
            BY <3>2
        <3> QED BY <3>1, <3>3
    <2> QED BY <2>4
<1>9. \A k \in 2 .. d + 1 : \A i \in 1 .. Doubled[d + 1 - k] :
          t[k][i] = Combine(t[k - 1][2 * i - 1], t[k - 1][2 * i])
    <2>1. \A k \in 2 .. d + 1 : k - 1 \in 1 .. d + 1
        BY <1>1
    <2> HIDE DEF Sized
    <2> QED BY <1>7, <1>8, <2>1
<1> QED BY <1>5, <1>6, <1>8, <1>9 DEF Levels, t, d, p

\* The path from a leaf to the root: each place is over the one before.
LEMMA PathClimbs ==
    ASSUME NEW tree, NEW n \in Nat, Len(tree) = n, NEW index
    PROVE  \A k \in 1 .. n :
               Path(tree, index)[k] = IF k = 1 THEN index ELSE Path(tree, index)[k - 1] \div 2
<1> DEFINE Halves(t, m) == t = [k \in 1 .. m |-> IF k = 1 THEN index ELSE t[k - 1] \div 2]
           B == {m \in Nat : ~ \E t : Halves(t, m)}
<1>1. B = {}
    <2> SUFFICES ASSUME B # {} PROVE FALSE
        OBVIOUS
    <2>1. PICK m \in B : \A l \in 0 .. m - 1 : l \notin B
        <3>1. B \in SUBSET Nat
            OBVIOUS
        <3> HIDE DEF B
        <3> QED BY <3>1, LeastNumber
    <2>2. CASE m = 0
        <3> DEFINE t == [k \in 1 .. 0 |-> 0]
        <3>1. Halves(t, 0)
            OBVIOUS
        <3> HIDE DEF Halves
        <3> QED BY <2>1, <2>2, <3>1
    <2>3. CASE m # 0
        <3>1. m - 1 \in Nat /\ m - 1 \in 0 .. m - 1 /\ m \in Nat
            BY <2>1, <2>3
        <3>2. PICK t : Halves(t, m - 1)
            BY <2>1, <3>1
        <3> DEFINE u == [k \in 1 .. m |-> IF k = 1 THEN index ELSE t[k - 1] \div 2]
        <3>3. \A k \in 1 .. m : u[k] = IF k = 1 THEN index ELSE t[k - 1] \div 2
            OBVIOUS
        <3>4. \A k \in 1 .. m - 1 : t[k] = IF k = 1 THEN index ELSE t[k - 1] \div 2
            BY <3>2
        <3> HIDE DEF u
        <3>5. \A k \in 1 .. m - 1 : u[k] = t[k]
            BY <3>1, <3>3, <3>4
        <3>6. \A k \in 1 .. m : u[k] = IF k = 1 THEN index ELSE u[k - 1] \div 2
            <4>1. ASSUME NEW k \in 1 .. m, k # 1 PROVE u[k - 1] = t[k - 1]
                <5>1. k - 1 \in 1 .. m - 1
                    BY <3>1, <4>1
                <5> QED BY <3>5, <5>1
            <4> QED BY <3>3, <4>1
        <3>7. Halves(u, m)
            BY <3>6 DEF u
        <3> HIDE DEF Halves
        <3> QED BY <2>1, <3>7
    <2> QED BY <2>2, <2>3
<1> DEFINE t == Path(tree, index)
<1>2. Halves(t, n)
    <2>1. t = CHOOSE u : Halves(u, n)
        BY DEF Path
    <2> HIDE DEF Halves, t
    <2>2. \E u : Halves(u, n)
        BY <1>1
    <2> QED BY <2>1, <2>2
<1> HIDE DEF t
<1>3. \A k \in 1 .. n : t[k] = IF k = 1 THEN index ELSE t[k - 1] \div 2
    BY <1>2
<1> QED BY <1>3 DEF t

\* h is what verify has folded into the hash of the leaf after each sibling.
ClimbsBy(h, leaf, siblings, n) ==
    /\ h[0] = leaf /\ Climb(leaf, siblings) = h[n]
    /\ \A k \in 1 .. n : h[k] = IF siblings[k].side = "left"
                                THEN Combine(siblings[k].hash, h[k - 1])
                                ELSE Combine(h[k - 1], siblings[k].hash)

\* verify: what is beside a path is folded into the hash of the leaf, one by one.
LEMMA ClimbSteps ==
    ASSUME NEW n \in Nat, NEW siblings, Len(siblings) = n, NEW leaf
    PROVE  \E h : ClimbsBy(h, leaf, siblings, n)
<1> DEFINE next(k, x) == IF siblings[k].side = "left" THEN Combine(siblings[k].hash, x)
                         ELSE Combine(x, siblings[k].hash)
           Folds(h, m) == h = [k \in 0 .. m |-> IF k = 0 THEN leaf ELSE next(k, h[k - 1])]
           B == {m \in Nat : ~ \E h : Folds(h, m)}
<1> HIDE DEF next
<1>1. B = {}
    <2> SUFFICES ASSUME B # {} PROVE FALSE
        OBVIOUS
    <2>1. PICK m \in B : \A l \in 0 .. m - 1 : l \notin B
        <3>1. B \in SUBSET Nat
            OBVIOUS
        <3> HIDE DEF B
        <3> QED BY <3>1, LeastNumber
    <2>2. CASE m = 0
        <3> DEFINE t == [k \in 0 .. 0 |-> leaf]
        <3>1. Folds(t, 0)
            OBVIOUS
        <3> HIDE DEF Folds
        <3> QED BY <2>1, <2>2, <3>1
    <2>3. CASE m # 0
        <3>1. m - 1 \in Nat /\ m - 1 \in 0 .. m - 1 /\ m \in Nat
            BY <2>1, <2>3
        <3>2. PICK t : Folds(t, m - 1)
            BY <2>1, <3>1
        <3> DEFINE u == [k \in 0 .. m |-> IF k = 0 THEN leaf ELSE next(k, t[k - 1])]
        <3>3. \A k \in 0 .. m : u[k] = IF k = 0 THEN leaf ELSE next(k, t[k - 1])
            OBVIOUS
        <3>4. \A k \in 0 .. m - 1 : t[k] = IF k = 0 THEN leaf ELSE next(k, t[k - 1])
            BY <3>2
        <3> HIDE DEF u
        <3>5. \A k \in 0 .. m - 1 : u[k] = t[k]
            BY <3>1, <3>3, <3>4
        <3>6. \A k \in 0 .. m : u[k] = IF k = 0 THEN leaf ELSE next(k, u[k - 1])
            <4>1. ASSUME NEW k \in 0 .. m, k # 0 PROVE u[k - 1] = t[k - 1]
                <5>1. k - 1 \in 0 .. m - 1
                    BY <3>1, <4>1
                <5> QED BY <3>5, <5>1
            <4> QED BY <3>3, <4>1
        <3>7. Folds(u, m)
            BY <3>6 DEF u
        <3> HIDE DEF Folds
        <3> QED BY <2>1, <3>7
    <2> QED BY <2>2, <2>3
<1> DEFINE hash == CHOOSE h : Folds(h, n)
<1>2. Folds(hash, n)
    <2> HIDE DEF Folds
    <2>1. \E h : Folds(h, n)
        BY <1>1
    <2> QED BY <2>1
<1>3. Climb(leaf, siblings) = hash[n]
    BY DEF Climb, next
<1> HIDE DEF hash
<1>4. \A k \in 0 .. n : hash[k] = IF k = 0 THEN leaf ELSE next(k, hash[k - 1])
    BY <1>2
<1>5. hash[0] = leaf /\ \A k \in 1 .. n : hash[k] = next(k, hash[k - 1])
    BY <1>4
<1> QED BY <1>3, <1>5 DEF next, ClimbsBy

\* A leaf, folded with what is beside its path, is the root.
LEMMA ClimbsToRoot ==
    ASSUME NEW d \in Nat, NEW p, NEW t, Levels(t, d, p), NEW index \in 0 .. Doubled[d] - 1
    PROVE  Climb(Hash(p[index + 1]), Siblings(t, index)) = t[d + 1][1]
<1> DEFINE at == Path(t, index)
           siblings == Siblings(t, index)
           leaf == Hash(p[index + 1])
<1>0. Doubled[d] \in Nat
    BY Doubling
<1>1. Len(t) = d + 1 /\ d + 1 \in Nat
    BY DEF Levels
<1>2. \A k \in 1 .. d + 1 : at[k] = IF k = 1 THEN index ELSE at[k - 1] \div 2
    BY <1>1, PathClimbs
<1>3. siblings = [k \in 1 .. d |-> IF at[k] % 2 = 0 THEN [hash |-> t[k][at[k] + 2], side |-> "right"]
                                    ELSE [hash |-> t[k][at[k]], side |-> "left"]]
    <2>1. Len(t) - 1 = d
        BY <1>1
    <2> QED BY <2>1 DEF Siblings
<1> HIDE DEF siblings, at
<1>4. Len(siblings) = d
    BY <1>3
<1>5. PICK h : ClimbsBy(h, leaf, siblings, d)
    <2> HIDE DEF leaf
    <2> QED BY <1>4, ClimbSteps
<1> DEFINE Right(k) == at[k + 1] \in 0 .. Doubled[d - k] - 1 /\ h[k] = t[k + 1][at[k + 1] + 1]
           G == {k \in 0 .. d : Right(k)}
<1>6. 0 \in G
    <2>1. at[1] = index /\ index + 1 \in 1 .. Doubled[d]
        BY <1>0, <1>1, <1>2
    <2>2. t[1][index + 1] = Hash(p[index + 1])
        BY <2>1 DEF Levels
    <2>3. Right(0)
        BY <1>5, <2>1, <2>2 DEF ClimbsBy
    <2> QED BY <2>3
<1>7. ASSUME NEW k \in 1 .. d, Right(k - 1) PROVE Right(k)
    <2> DEFINE n == Doubled[d - k]
               a == at[k]
               b == at[k + 1]
    <2>1. d - k \in Nat /\ d - (k - 1) = (d - k) + 1 /\ (k - 1) + 1 = k
        BY <1>7
    <2>2. n \in Nat /\ Doubled[d - (k - 1)] = 2 * n
        BY <2>1, Doubling
    <2>3. a \in 0 .. 2 * n - 1 /\ h[k - 1] = t[k][a + 1]
        BY <1>7, <2>1, <2>2
    <2>4. k + 1 \in 2 .. d + 1 /\ k + 1 \in 1 .. d + 1 /\ (k + 1) - 1 = k /\ k + 1 # 1 /\ d + 1 - (k + 1) = d - k
        BY <1>7
    <2>5. b = a \div 2
        BY <1>2, <2>4
    <2>6. \A i \in 1 .. n : t[k + 1][i] = Combine(t[k][2 * i - 1], t[k][2 * i])
        BY <2>4 DEF Levels
    <2>7. siblings[k] = IF a % 2 = 0 THEN [hash |-> t[k][a + 2], side |-> "right"]
                        ELSE [hash |-> t[k][a], side |-> "left"]
        BY <1>3
    <2>8. h[k] = IF siblings[k].side = "left" THEN Combine(siblings[k].hash, h[k - 1])
                 ELSE Combine(h[k - 1], siblings[k].hash)
        BY <1>5 DEF ClimbsBy
    <2> HIDE DEF n, a, b, Right
    <2>9. CASE a % 2 = 0
        <3>1. b \in 0 .. n - 1 /\ 2 * (b + 1) - 1 = a + 1 /\ 2 * (b + 1) = a + 2 /\ b + 1 \in 1 .. n
            BY <2>2, <2>3, <2>5, <2>9
        <3>2. t[k + 1][b + 1] = Combine(t[k][a + 1], t[k][a + 2])
            BY <2>6, <3>1
        <3>3. h[k] = Combine(t[k][a + 1], t[k][a + 2])
            BY <2>3, <2>7, <2>8, <2>9
        <3> QED BY <3>1, <3>2, <3>3 DEF Right, b, n
    <2>10. CASE a % 2 # 0
        <3>1. b \in 0 .. n - 1 /\ 2 * (b + 1) - 1 = a /\ 2 * (b + 1) = a + 1 /\ b + 1 \in 1 .. n
            BY <2>2, <2>3, <2>5, <2>10
        <3>2. t[k + 1][b + 1] = Combine(t[k][a], t[k][a + 1])
            BY <2>6, <3>1
        <3>3. h[k] = Combine(t[k][a], t[k][a + 1])
            BY <2>3, <2>7, <2>8, <2>10
        <3> QED BY <3>1, <3>2, <3>3 DEF Right, b, n
    <2> QED BY <2>9, <2>10
<1>8. Right(d)
    <2>1. \A k \in 1 .. d : k - 1 \in G => k \in G
        BY <1>7
    <2>2. \A k \in 0 .. d : k \in G
        <3> HIDE DEF G
        <3>1. G \in SUBSET (0 .. d)
            BY DEF G
        <3> QED BY <1>6, <2>1, <3>1, UpTo
    <2> HIDE DEF Right
    <2> QED BY <2>2
<1>9. at[d + 1] = 0
    <2>1. Doubled[d - d] = 1
        BY Doubling
    <2> QED BY <1>8, <2>1
<1> QED BY <1>5, <1>8, <1>9 DEF siblings, leaf, ClimbsBy

\* Equal roots are equal leaves, the repetitions of the last one included.
LEMMA RootsOfOutputs ==
    ASSUME NEW a \in Output, NEW b \in Output
    PROVE  Root(Tree(a)) = Root(Tree(b)) <=> Padded(a) = Padded(b)
<1>1. a \in Seq(Tokens) /\ a # <<>> /\ b \in Seq(Tokens) /\ b # <<>>
    BY AttestationAssumption
<1>2. /\ Levels(Tree(a), Depth(a), Padded(a)) /\ Depth(a) \in Nat
      /\ Levels(Tree(b), Depth(b), Padded(b)) /\ Depth(b) \in Nat
    BY <1>1, TreeLevels, DepthType
<1>3. Root(Tree(a)) = Tree(a)[Depth(a) + 1][1] /\ Root(Tree(b)) = Tree(b)[Depth(b) + 1][1]
    BY <1>2 DEF Root, Levels
<1>4. ASSUME Root(Tree(a)) = Root(Tree(b)) PROVE Padded(a) = Padded(b)
    <2>1. Tree(a)[Depth(a) + 1][1] = Tree(b)[Depth(b) + 1][1]
        BY <1>3, <1>4
    <2>2. Depth(a) = Depth(b) /\ \A i \in 1 .. Doubled[Depth(a)] : Padded(a)[i] = Padded(b)[i]
        BY <1>2, <2>1, RootsTell
    <2>3. Padded(a) = [i \in 1 .. Doubled[Depth(a)] |-> Padded(a)[i]]
          /\ Padded(b) = [i \in 1 .. Doubled[Depth(b)] |-> Padded(b)[i]]
        BY DEF Padded
    <2> QED BY <2>2, <2>3
<1>5. ASSUME Padded(a) = Padded(b) PROVE Root(Tree(a)) = Root(Tree(b))
    <2>1. Doubled[Depth(a)] = Doubled[Depth(b)]
        <3>1. DOMAIN Padded(a) = 1 .. Doubled[Depth(a)] /\ DOMAIN Padded(b) = 1 .. Doubled[Depth(b)]
            BY DEF Padded
        <3>2. Doubled[Depth(a)] \in Nat /\ Doubled[Depth(b)] \in Nat
            BY <1>2, Doubling
        <3> QED BY <1>5, <3>1, <3>2
    <2>2. Depth(a) = Depth(b)
        BY <1>2, <2>1, DoublingTells
    <2>3. Tree(a) = Tree(b)
        BY <1>5, <2>2 DEF Tree
    <2> QED BY <2>3
<1> QED BY <1>4, <1>5

\* A proof as prover n builds it.
BuiltBy(p, n) ==
    \E j \in Inquiry, o \in Output, s \in Activations :
       p = [job |-> j, commitment |-> Commitment(n, j, o, s), root |-> Root(Tree(o))]

\* A prover has at most one proof, which it built.
AttestInv ==
    /\ proofs = [n \in Prover |-> proofs[n]]
    /\ \A n \in Prover : \A p, q \in proofs[n] : BuiltBy(p, n) /\ p = q

\* What there is to vote on: finitely many proofs, a commitment for each.
Proven == UNION {proofs[n] : n \in Prover}

\* The proofs, and what their outputs and roots have to do with each other.
LEMMA ProofsCommit ==
    ASSUME AttestInv
    PROVE  /\ IsFiniteSet(Proven)
           /\ Commitments = {p.commitment : p \in Proven}
           /\ \A p, q \in Proven : p.commitment.output = q.commitment.output => p.root = q.root
<1>1. IsFiniteSet(Proven)
    <2> DEFINE first == [n \in Prover |-> CHOOSE p : p \in proofs[n]]
    <2>1. \A p \in Proven : \E n \in Prover : first[n] = p
        BY DEF AttestInv, Proven
    <2> HIDE DEF first
    <2> QED BY <2>1, AttestationAssumption, OntoSize
<1>2. Commitments = {p.commitment : p \in Proven}
    BY DEF Commitments, Proven
<1>3. ASSUME NEW p \in Proven, NEW q \in Proven, p.commitment.output = q.commitment.output
      PROVE  p.root = q.root
    <2>1. PICK m \in Prover, n \in Prover : BuiltBy(p, m) /\ BuiltBy(q, n)
        BY DEF AttestInv, Proven
    <2>2. PICK o \in Output : p.root = Root(Tree(o)) /\ p.commitment.output = Hash(o)
        BY <2>1 DEF BuiltBy, Commitment
    <2>3. PICK u \in Output : q.root = Root(Tree(u)) /\ q.commitment.output = Hash(u)
        BY <2>1 DEF BuiltBy, Commitment
    <2>4. Hash(o)[2] = o /\ Hash(u)[2] = u
        BY DEF Hash
    <2> QED BY <1>3, <2>2, <2>3, <2>4
<1> QED BY <1>1, <1>2, <1>3

\* An honest consensus has one majority, on which both counts agree.
LEMMA ConsensusHolds ==
    ASSUME AttestInv, IsHonest
    PROVE  /\ \A c, d \in Commitments :
                 Votes(c.output) = Majority /\ Votes(d.output) = Majority => c.output = d.output
           /\ \A c \in Commitments :
                 Votes(c.output) = Majority => 3 * Cardinality(Outliers(c.output)) <= Cardinality(Commitments)
           /\ PeerMajority >= Majority
<1> DEFINE N == Cardinality(Commitments)
           For(h) == {c \in Commitments : c.output = h}
<1>1. IsFiniteSet(Proven) /\ Commitments = {p.commitment : p \in Proven}
      /\ \A p, q \in Proven : p.commitment.output = q.commitment.output => p.root = q.root
    BY ProofsCommit
<1>2. IsFiniteSet(Commitments) /\ N \in Nat
    <2> DEFINE com == [p \in Proven |-> p.commitment]
    <2>1. \A c \in Commitments : \E p \in Proven : com[p] = c
        BY <1>1
    <2> HIDE DEF com
    <2>2. IsFiniteSet(Proven)
        BY <1>1
    <2>3. IsFiniteSet(Commitments) /\ Cardinality(Commitments) \in Nat
        BY <2>1, <2>2, OntoSize
    <2> QED BY <2>3
<1>3. \A h : For(h) \in SUBSET Commitments /\ IsFiniteSet(For(h)) /\ Votes(h) = Cardinality(For(h))
             /\ Votes(h) \in Nat /\ Votes(h) <= N
    <2>1. ASSUME NEW h PROVE IsFiniteSet(For(h)) /\ Cardinality(For(h)) \in Nat /\ Cardinality(For(h)) <= N
        <3>1. For(h) \in SUBSET Commitments
            OBVIOUS
        <3> HIDE DEF For
        <3> QED BY <1>2, <3>1, FS_Subset, FS_CardinalityType
    <2> QED BY <2>1 DEF Votes
<1>4. \A c \in Commitments : Votes(c.output) \in 1 .. N
    <2>1. ASSUME NEW c \in Commitments PROVE Votes(c.output) \in 1 .. N
        <3>1. c \in For(c.output)
            OBVIOUS
        <3> HIDE DEF For, N
        <3>2. Votes(c.output) # 0
            BY <1>3, <3>1, FS_EmptySet
        <3>3. Votes(c.output) \in Nat /\ Votes(c.output) <= N
            BY <1>3
        <3> QED BY <1>2, <3>2, <3>3
    <2> QED BY <2>1
<1>5. Majority \in 1 .. N /\ \E c \in Commitments : Majority = Votes(c.output)
    <2> DEFINE V == {Votes(c.output) : c \in Commitments}
    <2>1. V \in SUBSET (1 .. N) /\ V # {}
        BY <1>4 DEF IsHonest
    <2>2. Max(V) \in V
        <3> HIDE DEF V, N
        <3> QED BY <1>2, <2>1, LargestPosition
    <2>3. Majority = Max(V)
        BY DEF Majority
    <2> HIDE DEF N
    <2> QED BY <2>1, <2>2, <2>3
<1>6. 3 * Majority >= 2 * N
    BY DEF IsHonest
<1> HIDE DEF N, For
<1>7. ASSUME NEW c \in Commitments, NEW d \in Commitments,
             Votes(c.output) = Majority, Votes(d.output) = Majority, c.output # d.output
      PROVE  FALSE
    <2> DEFINE X == For(c.output)
               Y == For(d.output)
    <2>1. IsFiniteSet(X) /\ IsFiniteSet(Y) /\ Cardinality(X) = Majority /\ Cardinality(Y) = Majority
        BY <1>3, <1>7
    <2>2. X \intersect Y = {} /\ X \union Y \in SUBSET Commitments
        BY <1>7 DEF For
    <2> HIDE DEF X, Y
    <2>3. Cardinality(X \union Y) = Cardinality(X) + Cardinality(Y) - Cardinality({})
        BY <2>1, <2>2, FS_Union
    <2>4. Cardinality(X \union Y) <= N
        BY <1>2, <2>2, FS_Subset DEF N
    <2>5. Cardinality({}) = 0
        BY FS_EmptySet
    <2> QED BY <1>2, <1>5, <1>6, <2>1, <2>3, <2>4, <2>5
<1>8. ASSUME NEW c \in Commitments, Votes(c.output) = Majority
      PROVE  3 * Cardinality(Outliers(c.output)) <= N
    <2> DEFINE X == For(c.output)
               Y == Commitments \ X
               node == [d \in Y |-> d.node]
    <2>1. IsFiniteSet(X) /\ Cardinality(X) = Majority /\ X \in SUBSET Commitments
        BY <1>3, <1>8
    <2>2. \A n \in Outliers(c.output) : \E d \in Y : node[d] = n
        BY DEF Outliers, For
    <2> HIDE DEF X, node
    <2>3. IsFiniteSet(Y) /\ Cardinality(Y) = N - Majority
        <3>1. Commitments \intersect X = X
            BY <2>1
        <3> QED BY <1>2, <2>1, <3>1, FS_Difference DEF N
    <2> HIDE DEF Y
    <2>4. Cardinality(Outliers(c.output)) \in Nat /\ Cardinality(Outliers(c.output)) <= Cardinality(Y)
        BY <2>2, <2>3, OntoSize
    <2> QED BY <1>2, <1>5, <1>6, <2>3, <2>4
<1>9. PeerMajority >= Majority
    <2> DEFINE With(r) == {p \in Proven : p.root = r}
               W == {Cardinality(With(q.root)) : q \in Proven}
               K == Cardinality(Proven)
    <2>1. K \in Nat
        BY <1>1, FS_CardinalityType
    <2>2. \A q \in Proven : IsFiniteSet(With(q.root)) /\ Cardinality(With(q.root)) \in 1 .. K
        <3>1. ASSUME NEW q \in Proven
              PROVE  IsFiniteSet(With(q.root)) /\ Cardinality(With(q.root)) \in 1 .. K
            <4>1. With(q.root) \in SUBSET Proven /\ q \in With(q.root)
                OBVIOUS
            <4> HIDE DEF With
            <4>2. IsFiniteSet(With(q.root)) /\ Cardinality(With(q.root)) <= K
                  /\ Cardinality(With(q.root)) \in Nat /\ Cardinality(With(q.root)) # 0
                BY <1>1, <4>1, FS_Subset, FS_CardinalityType, FS_EmptySet
            <4> QED BY <2>1, <4>2
        <3> QED BY <3>1
    <2>3. PICK c \in Commitments : Majority = Votes(c.output)
        BY <1>5
    <2>4. PICK q \in Proven : c = q.commitment
        BY <1>1
    <2> DEFINE com == [p \in With(q.root) |-> p.commitment]
    <2>5. \A x \in For(c.output) : \E p \in With(q.root) : com[p] = x
        <3>1. ASSUME NEW x \in For(c.output) PROVE \E p \in With(q.root) : com[p] = x
            <4>1. x \in Commitments /\ x.output = c.output
                BY DEF For
            <4>2. PICK p \in Proven : x = p.commitment
                BY <1>1, <4>1
            <4>3. p.root = q.root
                BY <1>1, <2>4, <4>1, <4>2
            <4> QED BY <4>2, <4>3
        <3> QED BY <3>1
    <2> HIDE DEF com
    <2>6. Majority <= Cardinality(With(q.root))
        <3> HIDE DEF With, K
        <3>1. IsFiniteSet(With(q.root))
            BY <2>2
        <3>2. Cardinality(For(c.output)) <= Cardinality(With(q.root))
            BY <2>5, <3>1, OntoSize
        <3> QED BY <1>3, <2>3, <3>2
    <2>7. PeerMajority = Max(W)
        BY DEF PeerMajority, Proven
    <2>8. W \in SUBSET (1 .. K) /\ W # {} /\ Cardinality(With(q.root)) \in W
        BY <2>2
    <2>9. Max(W) \in 1 .. K /\ Max(W) >= Cardinality(With(q.root))
        <3> HIDE DEF W, With, K
        <3> QED BY <2>1, <2>8, LargestPosition
    <2>10. Cardinality(With(q.root)) \in Nat
        BY <2>2
    <2> HIDE DEF W, With, K
    <2> QED BY <1>5, <2>1, <2>6, <2>7, <2>9, <2>10
<1> QED BY <1>7, <1>8, <1>9 DEF N

\* An output that agrees with the proof shows each of its tokens, and no other.
LEMMA TokensShow ==
    ASSUME NEW p, NEW o \in Output, Root(Tree(o)) = p.root, NEW t, NEW i \in 0 .. Len(o)
    PROVE  VerifyToken(p, t, i, o) <=> i < Len(o) /\ o[i + 1] = t
<1>1. o \in Seq(Tokens) /\ o # <<>> /\ Len(o) \in Nat
    BY AttestationAssumption
<1>2. Levels(Tree(o), Depth(o), Padded(o)) /\ Depth(o) \in Nat /\ Doubled[Depth(o)] >= Len(o)
      /\ Doubled[Depth(o)] \in Nat
    BY <1>1, TreeLevels, DepthType, Doubling
<1>3. ASSUME i < Len(o), o[i + 1] = t
      PROVE  Climb(Hash(t), Siblings(Tree(o), i)) = Root(Tree(o))
    <2>1. i \in 0 .. Doubled[Depth(o)] - 1 /\ i + 1 \in 1 .. Doubled[Depth(o)] /\ i + 1 <= Len(o)
        BY <1>1, <1>2, <1>3
    <2>2. Padded(o)[i + 1] = t
        BY <1>3, <2>1 DEF Padded
    <2>3. Climb(Hash(Padded(o)[i + 1]), Siblings(Tree(o), i)) = Tree(o)[Depth(o) + 1][1]
        BY <1>2, <2>1, ClimbsToRoot
    <2>4. Root(Tree(o)) = Tree(o)[Depth(o) + 1][1]
        BY <1>2 DEF Levels, Root
    <2> QED BY <2>2, <2>3, <2>4
<1> QED BY <1>1, <1>3 DEF VerifyToken

\* A commitment that is handed in carries the signature of n over itself exactly if n
\* signed it, in a proof that is there.
LEMMA SignatureTells ==
    ASSUME AttestInv, NEW n \in Prover, NEW c \in Commitments, NEW d \in Changed(c)
    PROVE  d.signature = <<n, Payload(d)>> <=> \E q \in proofs[n] : d = q.commitment
<1>0. PICK m \in Prover : \E q \in proofs[m] : c = q.commitment
    BY DEF Commitments
<1>1. PICK q \in proofs[m] : c = q.commitment
    BY <1>0
<1>2. PICK j \in Inquiry, o \in Output, s \in Activations : q.commitment = Commitment(m, j, o, s)
    BY <1>1 DEF AttestInv, BuiltBy
<1>3. /\ c = [job |-> c.job, input |-> c.input, output |-> c.output, sketch |-> c.sketch,
              node |-> c.node, signature |-> c.signature]
      /\ c.signature = <<m, Payload(c)>>
    BY <1>1, <1>2 DEF Commitment, Payload
<1>4. d = [job |-> d.job, input |-> d.input, output |-> d.output, sketch |-> d.sketch,
           node |-> d.node, signature |-> c.signature]
    <2>1. PICK k \in Prover, i \in Inquiry, w \in Output, a \in Activations :
              d = [Commitment(k, i, w, a) EXCEPT !.signature = c.signature]
        BY DEF Changed
    <2>2. Commitment(k, i, w, a) =
              [job |-> i, input |-> Hash(Asked[i]), output |-> Hash(w), sketch |-> a, node |-> k,
               signature |-> Commitment(k, i, w, a).signature]
        BY DEF Commitment
    <2> QED BY <2>1, <2>2
<1>5. ASSUME d.signature = <<n, Payload(d)>> PROVE \E r \in proofs[n] : d = r.commitment
    <2>1. <<m, Payload(c)>> = <<n, Payload(d)>>
        BY <1>3, <1>4, <1>5
    <2>2. m = n /\ Payload(c) = Payload(d)
        BY <2>1
    <2>3. c.job = d.job /\ c.input = d.input /\ c.output = d.output /\ c.sketch = d.sketch /\ c.node = d.node
        BY <2>2 DEF Payload
    <2>4. c = d
        BY <1>3, <1>4, <2>3
    <2> QED BY <1>1, <2>2, <2>4
<1>6. ASSUME NEW r \in proofs[n], d = r.commitment PROVE d.signature = <<n, Payload(d)>>
    BY <1>6 DEF AttestInv, BuiltBy, Commitment, Payload
<1> QED BY <1>5, <1>6

\* What it takes that a proof is settled as verified.
Vouched(p, j, n, output, sample) ==
    /\ p.job = j
    /\ \E q \in proofs[n] : p.commitment = q.commitment
    /\ p.commitment.input = Hash(Asked[j])
    /\ \A o \in output, w \in Output : p.root = Root(Tree(w)) => Padded(w) = Padded(o)
    /\ \A s \in sample : VerifySpotCheck(p.commitment, s)

\* What a proof that is handed in is answered.
LEMMA AnswersTell ==
    ASSUME AttestInv, NEW p \in Handed, NEW j, NEW n \in Prover, NEW output \in Maybe(Output), NEW sample
    PROVE  /\ ShouldSettle(p, j, n, output, sample) = "verified" <=> Vouched(p, j, n, output, sample)
           /\ ShouldSettle(p, j, n, output, sample) = "verified" =>
                 \A o \in output : o \in Output /\ Root(Tree(o)) = p.root
<1>1. PICK c \in Commitments : p.commitment \in Changed(c)
    BY DEF Handed
<1>2. PICK u \in Output : p.root = Root(Tree(u))
    BY DEF Handed
<1>3. \A o \in output : o \in Output /\ Len(o) > 0
    <2>1. \A o \in output : o \in Output
        BY DEF Maybe
    <2>2. \A o \in Output : Len(o) > 0
        BY AttestationAssumption
    <2> QED BY <2>1, <2>2
<1>4. ASSUME NEW o \in output
      PROVE  Root(Tree(o)) = p.root <=> \A w \in Output : p.root = Root(Tree(w)) => Padded(w) = Padded(o)
    <2>1. o \in Output
        BY <1>3
    <2>2. \A w \in Output : Root(Tree(w)) = Root(Tree(o)) <=> Padded(w) = Padded(o)
        BY <2>1, RootsOfOutputs
    <2> QED BY <1>2, <2>2
<1>5. VerifyCommitment(p.commitment, Hash(Asked[j]), n) <=>
          /\ p.commitment.input = Hash(Asked[j])
          /\ \E q \in proofs[n] : p.commitment = q.commitment
    BY <1>1, SignatureTells DEF VerifyCommitment
<1>6. VerifyProof(p, Hash(Asked[j]), n, output) <=>
          /\ VerifyCommitment(p.commitment, Hash(Asked[j]), n)
          /\ \A o \in output : Root(Tree(o)) = p.root
    BY <1>3 DEF VerifyProof
<1>7. ShouldSettle(p, j, n, output, sample) = "verified" <=>
          /\ p.job = j /\ VerifyProof(p, Hash(Asked[j]), n, output)
          /\ \A s \in sample : VerifySpotCheck(p.commitment, s)
    BY DEF ShouldSettle
<1> QED BY <1>3, <1>4, <1>5, <1>6, <1>7 DEF Vouched

\* The root of a proof as it was built binds the output that its commitment names.
LEMMA RootsBind ==
    ASSUME AttestInv, NEW n \in Prover, NEW p \in proofs[n], NEW o \in Output
    PROVE  p.root = Root(Tree(o)) <=> SameTokens(p.commitment.output, o)
<1>1. PICK u \in Output : p.root = Root(Tree(u)) /\ p.commitment.output = Hash(u)
    <2>1. PICK j \in Inquiry, u \in Output, s \in Activations :
              p = [job |-> j, commitment |-> Commitment(n, j, u, s), root |-> Root(Tree(u))]
        BY DEF AttestInv, BuiltBy
    <2>2. p.root = Root(Tree(u)) /\ p.commitment.output = Hash(u)
        BY <2>1 DEF Commitment
    <2> QED BY <2>2
<1>2. Root(Tree(u)) = Root(Tree(o)) <=> Padded(u) = Padded(o)
    BY RootsOfOutputs
<1>3. p.commitment.output[2] = u
    BY <1>1 DEF Hash
<1> QED BY <1>1, <1>2, <1>3 DEF SameTokens

\* Building a proof replaces the one before.
LEMMA AttestNext == AttestInv /\ [AttestationNext]_attestationVars => AttestInv'
<1> SUFFICES ASSUME AttestInv, [AttestationNext]_attestationVars PROVE AttestInv'
    OBVIOUS
<1>1. ASSUME NEW n \in Prover, NEW j \in Inquiry, NEW o \in Output, NEW s \in Activations,
             BuildProof(n, j, o, s)
      PROVE  AttestInv'
    <2> DEFINE p == [job |-> j, commitment |-> Commitment(n, j, o, s), root |-> Root(Tree(o))]
    <2>1. proofs' = [proofs EXCEPT ![n] = {p}]
        BY <1>1 DEF BuildProof
    <2>2. BuiltBy(p, n)
        BY DEF BuiltBy
    <2> HIDE DEF p
    <2>3. proofs' = [m \in Prover |-> IF m = n THEN {p} ELSE proofs[m]]
        BY <2>1 DEF AttestInv
    <2>4. \A m \in Prover : proofs'[m] = IF m = n THEN {p} ELSE proofs[m]
        BY <2>3
    <2>5. proofs' = [m \in Prover |-> proofs'[m]]
        BY <2>3
    <2>6. \A m \in Prover : \A q, r \in proofs'[m] : BuiltBy(q, m) /\ q = r
        BY <2>2, <2>4 DEF AttestInv
    <2> QED BY <2>5, <2>6 DEF AttestInv, BuiltBy
<1>2. CASE UNCHANGED attestationVars
    BY <1>2 DEF attestationVars, AttestInv, BuiltBy
<1> QED BY <1>1, <1>2 DEF AttestationNext

\* For any provers, jobs, outputs of any length and samples, and whatever proofs are
\* handed in: a result is settled as verified exactly if the commitment is one the node
\* signed, for the job's prompt, and the tokens and activations supplied are those that
\* the root and the sketch bind; each token and no other can then be shown at its place,
\* and an honest consensus has one majority (verification_pipeline.py, should_settle).
THEOREM AlwaysSettledAsComputed == AttestationSpec => []SettledAsComputed
<1>1. AttestationInit => AttestInv
    BY DEF AttestationInit, AttestInv
<1>2. AttestInv => SettledAsComputed
    <2> SUFFICES ASSUME AttestInv PROVE SettledAsComputed
        OBVIOUS
    <2>1. ASSUME NEW p \in Handed, NEW j \in Inquiry, NEW n \in Prover,
                 NEW output \in Maybe(Output), NEW sample \in Maybe(Fresh)
          PROVE  LET verified == ShouldSettle(p, j, n, output, sample) = "verified"
                 IN /\ verified <=> Vouched(p, j, n, output, sample)
                    /\ verified =>
                          \A o \in output, t \in Tokens : \A i \in 0 .. Len(o) :
                             VerifyToken(p, t, i, o) <=> i < Len(o) /\ o[i + 1] = t
        <3>1. ShouldSettle(p, j, n, output, sample) = "verified" <=> Vouched(p, j, n, output, sample)
            BY AnswersTell
        <3>2. ShouldSettle(p, j, n, output, sample) = "verified" =>
                  \A o \in output : o \in Output /\ Root(Tree(o)) = p.root
            BY AnswersTell
        <3>3. ShouldSettle(p, j, n, output, sample) = "verified" =>
                  \A o \in output, t \in Tokens : \A i \in 0 .. Len(o) :
                     VerifyToken(p, t, i, o) <=> i < Len(o) /\ o[i + 1] = t
            BY <3>2, TokensShow
        <3> QED BY <3>1, <3>3
    <2>2. \A p \in UNION {proofs[n] : n \in Prover}, o \in Output :
              p.root = Root(Tree(o)) <=> SameTokens(p.commitment.output, o)
        BY RootsBind
    <2> QED BY <2>1, <2>2, ConsensusHolds DEF SettledAsComputed, Vouched
<1> QED BY <1>1, <1>2, AttestNext, PTL DEF AttestationSpec

-----------------------------------------------------------------------------
(* The windows of the request batcher.  A drain splits the buffer at one place, and    *)
(* what is behind it begins the next window; a consumer goes to sleep only with time     *)
(* left, and for no longer than that.                                                *)

CONSTANTS Ticket, Consumer, MaxBatch, MaxWait, Patience
VARIABLES window, asking, batches

Windows == INSTANCE DynamicBatcher WITH Request <- Ticket

WindowType(w) ==
    /\ w \in [open : BOOLEAN, jobs : Seq(Ticket), age : 0 .. MaxWait]
    /\ IsInjective(w.jobs)
    /\ w.open \/ w.jobs = <<>>

Parted(bs, jobs) ==
    /\ bs \in Seq(Seq(Ticket))
    /\ \A i \in DOMAIN bs :
          /\ Len(bs[i]) \in 1 .. MaxBatch
          /\ ToSet(bs[i]) \intersect ToSet(jobs) = {}
          /\ \A k \in DOMAIN bs \ {i} : ToSet(bs[i]) \intersect ToSet(bs[k]) = {}

Asking ==
    [phase : {"away", "looking", "waiting"}, left : Nat, wait : Nat, current : BOOLEAN]

WakesInTime(a) ==
    /\ a \in [Consumer -> Asking]
    /\ \A c \in Consumer : a[c].phase = "waiting" => a[c].wait \in 1 .. a[c].left

WindowsInv == WindowType(window) /\ Parted(batches, window.jobs) /\ WakesInTime(asking)

All(jobs, bs) == ToSet(jobs) \union UNION {ToSet(bs[i]) : i \in DOMAIN bs}

WindowsPremises == {MaxBatch, MaxWait, Patience} \subseteq Nat /\ MaxBatch >= 1

\* The two parts of a sequence without duplicates.
LEMMA SplitKeeps ==
    ASSUME NEW S, NEW q \in Seq(S), IsInjective(q), NEW n \in 0 .. Len(q)
    PROVE  LET a == SubSeq(q, 1, n)
               b == SubSeq(q, n + 1, Len(q))
           IN /\ a \in Seq(S) /\ Len(a) = n /\ b \in Seq(S) /\ IsInjective(b)
              /\ ToSet(a) \intersect ToSet(b) = {}
              /\ ToSet(a) \union ToSet(b) = ToSet(q)
<1> DEFINE a == SubSeq(q, 1, n)
           b == SubSeq(q, n + 1, Len(q))
           l == Len(q)
<1>1. l \in Nat /\ DOMAIN q = 1 .. l /\ n \in Nat /\ n <= l
    OBVIOUS
<1>2. a \in Seq(S) /\ Len(a) = n /\ DOMAIN a = 1 .. n /\ \A i \in 1 .. n : a[i] = q[i]
    OBVIOUS
<1>3. b \in Seq(S) /\ Len(b) = l - n /\ DOMAIN b = 1 .. l - n /\ \A i \in 1 .. l - n : b[i] = q[n + i]
    <2>1. n + 1 \in Int /\ l \in Int /\ \A i \in n + 1 .. l : q[i] \in S
        BY <1>1
    <2>2. /\ b \in Seq(S) /\ Len(b) = IF n + 1 <= l THEN l - (n + 1) + 1 ELSE 0
          /\ \A i \in 1 .. l - (n + 1) + 1 : b[i] = q[n + 1 + i - 1]
        <3> DEFINE m == n + 1
        <3>1. m \in Int /\ l \in Int /\ \A i \in m .. l : q[i] \in S
            BY <2>1
        <3> HIDE DEF m, l
        <3>2. /\ SubSeq(q, m, l) \in Seq(S)
              /\ Len(SubSeq(q, m, l)) = IF m <= l THEN l - m + 1 ELSE 0
              /\ \A i \in 1 .. l - m + 1 : SubSeq(q, m, l)[i] = q[m + i - 1]
            BY <3>1, SubSeqProperties
        <3>3. b = SubSeq(q, m, l)
            BY DEF m, l
        <3> QED BY <3>2, <3>3 DEF m
    <2>3. DOMAIN b = 1 .. Len(b)
        BY <2>2
    <2> HIDE DEF b, l
    <2>4. Len(b) = l - n
        BY <1>1, <2>2
    <2>5. ASSUME NEW i \in 1 .. l - n PROVE b[i] = q[n + i]
        <3>1. i \in 1 .. l - (n + 1) + 1 /\ n + 1 + i - 1 = n + i
            BY <1>1
        <3> QED BY <2>2, <3>1
    <2> QED BY <2>2, <2>3, <2>4, <2>5
<1> HIDE DEF a, b, l
<1>4. \A i, j \in 1 .. l : q[i] = q[j] => i = j
    BY <1>1 DEF IsInjective
<1>5. IsInjective(b)
    <2>1. ASSUME NEW i \in 1 .. l - n, NEW j \in 1 .. l - n, b[i] = b[j] PROVE i = j
        <3>1. n + i \in 1 .. l /\ n + j \in 1 .. l /\ q[n + i] = q[n + j]
            BY <1>1, <1>3, <2>1
        <3>2. n + i = n + j
            BY <1>4, <3>1
        <3> QED BY <1>1, <3>2
    <2> QED BY <1>3, <2>1 DEF IsInjective
<1>6. ToSet(a) \intersect ToSet(b) = {}
    <2> SUFFICES ASSUME NEW i \in 1 .. n, NEW j \in 1 .. l - n, a[i] = b[j] PROVE FALSE
        BY <1>2, <1>3 DEF ToSet
    <2>1. i \in 1 .. l /\ n + j \in 1 .. l /\ q[i] = q[n + j] /\ i # n + j
        BY <1>1, <1>2, <1>3
    <2> QED BY <1>4, <2>1
<1>7. ToSet(a) \union ToSet(b) = ToSet(q)
    <2>1. \A i \in 1 .. n : a[i] \in ToSet(q)
        BY <1>1, <1>2 DEF ToSet
    <2>2. ASSUME NEW i \in 1 .. l - n PROVE b[i] \in ToSet(q)
        <3>1. n + i \in 1 .. l
            BY <1>1
        <3> QED BY <1>1, <1>3, <3>1 DEF ToSet
    <2>3. ASSUME NEW k \in 1 .. l PROVE q[k] \in ToSet(a) \union ToSet(b)
        <3>1. CASE k <= n
            BY <1>1, <1>2, <3>1 DEF ToSet
        <3>2. CASE k > n
            <4>1. k - n \in 1 .. l - n /\ n + (k - n) = k
                BY <1>1, <3>2
            <4>2. b[k - n] = q[k]
                BY <1>3, <4>1
            <4> QED BY <1>3, <4>1, <4>2 DEF ToSet
        <3> QED BY <1>1, <3>1, <3>2
    <2>4. ToSet(a) \subseteq ToSet(q)
        BY <1>2, <2>1 DEF ToSet
    <2>5. ToSet(b) \subseteq ToSet(q)
        BY <1>3, <2>2 DEF ToSet
    <2>6. ToSet(q) \subseteq ToSet(a) \union ToSet(b)
        BY <1>1, <2>3 DEF ToSet
    <2> QED BY <2>4, <2>5, <2>6
<1> QED BY <1>2, <1>3, <1>5, <1>6, <1>7 DEF a, b, l

\* _drain takes a batch of what is there and leaves the rest, for whomever it wakes.
LEMMA DrainParts ==
    ASSUME WindowsPremises, WindowsInv, window.jobs # <<>>, NEW c \in Consumer, Windows!Drain(c)
    PROVE  WindowsInv' /\ All(window'.jobs, batches') = All(window.jobs, batches)
<1> DEFINE l == Len(window.jobs)
           n == IF l < MaxBatch THEN l ELSE MaxBatch
           taken == SubSeq(window.jobs, 1, n)
           rest == SubSeq(window.jobs, n + 1, l)
<1>1. window.jobs \in Seq(Ticket) /\ IsInjective(window.jobs) /\ l \in Nat /\ l >= 1
    BY DEF WindowsInv, WindowType
<1>2. n \in 0 .. Len(window.jobs) /\ n \in 1 .. MaxBatch
    BY <1>1 DEF WindowsPremises
<1>3. /\ batches' = Append(batches, taken)
      /\ window' = IF rest = <<>> THEN Windows!NoWindow ELSE [open |-> TRUE, jobs |-> rest, age |-> 0]
      /\ asking' = [o \in Consumer |->
                      IF o = c THEN Windows!Away
                      ELSE IF rest = <<>> THEN [asking[o] EXCEPT !.current = FALSE] ELSE asking[o]]
    BY DEF Windows!Drain
<1> HIDE DEF n
<1>4. /\ taken \in Seq(Ticket) /\ Len(taken) = n /\ rest \in Seq(Ticket) /\ IsInjective(rest)
      /\ ToSet(taken) \intersect ToSet(rest) = {}
      /\ ToSet(taken) \union ToSet(rest) = ToSet(window.jobs)
    BY <1>1, <1>2, SplitKeeps
<1> HIDE DEF taken, rest, l
<1>5. window'.jobs = rest /\ WindowType(window')
    BY <1>3, <1>4 DEF Windows!NoWindow, WindowType, WindowsPremises
<1>6. /\ batches \in Seq(Seq(Ticket)) /\ batches' \in Seq(Seq(Ticket)) /\ Len(batches) \in Nat
      /\ DOMAIN batches = 1 .. Len(batches) /\ DOMAIN batches' = 1 .. Len(batches) + 1
      /\ \A i \in 1 .. Len(batches) : batches'[i] = batches[i]
      /\ batches'[Len(batches) + 1] = taken
    BY <1>3, <1>4 DEF WindowsInv, Parted
<1>7. \A i \in DOMAIN batches' :
          IF i = Len(batches) + 1 THEN batches'[i] = taken
          ELSE i \in DOMAIN batches /\ batches'[i] = batches[i]
    BY <1>6
<1>8. Parted(batches', rest)
    <2>1. \A i \in DOMAIN batches :
              /\ Len(batches[i]) \in 1 .. MaxBatch
              /\ ToSet(batches[i]) \intersect ToSet(window.jobs) = {}
              /\ \A k \in DOMAIN batches \ {i} : ToSet(batches[i]) \intersect ToSet(batches[k]) = {}
        BY DEF WindowsInv, Parted
    <2>2. ASSUME NEW i \in DOMAIN batches' PROVE Len(batches'[i]) \in 1 .. MaxBatch
        BY <1>2, <1>4, <1>7, <2>1
    <2>3. ASSUME NEW i \in DOMAIN batches' PROVE ToSet(batches'[i]) \intersect ToSet(rest) = {}
        BY <1>4, <1>7, <2>1
    <2>4. ASSUME NEW i \in DOMAIN batches', NEW k \in DOMAIN batches' \ {i}
          PROVE  ToSet(batches'[i]) \intersect ToSet(batches'[k]) = {}
        <3>1. CASE i # Len(batches) + 1 /\ k # Len(batches) + 1
            BY <1>7, <2>1, <3>1
        <3>2. CASE i = Len(batches) + 1
            <4>1. batches'[i] = taken /\ k \in DOMAIN batches /\ batches'[k] = batches[k]
                BY <1>7, <3>2
            <4> QED BY <1>4, <2>1, <4>1
        <3>3. CASE k = Len(batches) + 1
            <4>1. batches'[k] = taken /\ i \in DOMAIN batches /\ batches'[i] = batches[i]
                BY <1>7, <3>3
            <4> QED BY <1>4, <2>1, <4>1
        <3> QED BY <3>1, <3>2, <3>3
    <2> QED BY <1>6, <2>2, <2>3, <2>4 DEF Parted
<1>9. WakesInTime(asking')
    BY <1>3 DEF WindowsInv, WakesInTime, Asking, Windows!Away
<1>10. All(window'.jobs, batches') = All(window.jobs, batches)
    <2>1. (UNION {ToSet(batches'[i]) : i \in DOMAIN batches'})
              = (UNION {ToSet(batches[i]) : i \in DOMAIN batches}) \union ToSet(taken)
        <3>1. ASSUME NEW i \in DOMAIN batches'
              PROVE  ToSet(batches'[i]) \subseteq
                        (UNION {ToSet(batches[k]) : k \in DOMAIN batches}) \union ToSet(taken)
            BY <1>7
        <3>2. ASSUME NEW i \in DOMAIN batches
              PROVE  i \in DOMAIN batches' /\ ToSet(batches[i]) = ToSet(batches'[i])
            BY <1>6
        <3>3. Len(batches) + 1 \in DOMAIN batches' /\ ToSet(taken) = ToSet(batches'[Len(batches) + 1])
            BY <1>6
        <3>4. (UNION {ToSet(batches'[i]) : i \in DOMAIN batches'}) \subseteq
                  (UNION {ToSet(batches[k]) : k \in DOMAIN batches}) \union ToSet(taken)
            BY <3>1
        <3>5. (UNION {ToSet(batches[k]) : k \in DOMAIN batches}) \subseteq
                  (UNION {ToSet(batches'[i]) : i \in DOMAIN batches'})
            BY <3>2
        <3>6. ToSet(taken) \subseteq (UNION {ToSet(batches'[i]) : i \in DOMAIN batches'})
            BY <3>3
        <3> QED BY <3>4, <3>5, <3>6
    <2>2. ToSet(window'.jobs) = ToSet(rest)
        BY <1>5
    <2> QED BY <1>4, <2>1, <2>2 DEF All
<1> QED BY <1>5, <1>8, <1>9, <1>10 DEF WindowsInv

\* A window that is opened has the jobs it had.
LEMMA OpenedKeeps ==
    ASSUME WindowsPremises, WindowType(window)
    PROVE  /\ Windows!Opened.open = TRUE /\ Windows!Opened.jobs = window.jobs
           /\ Windows!Opened \in [open : BOOLEAN, jobs : Seq(Ticket), age : 0 .. MaxWait]
<1>1. CASE window.open
    BY <1>1 DEF Windows!Opened, WindowType
<1>2. CASE ~ window.open
    <2>1. Windows!Opened = [open |-> TRUE, jobs |-> <<>>, age |-> 0]
        BY <1>2 DEF Windows!Opened, Windows!NoWindow
    <2> QED BY <1>2, <2>1 DEF WindowType, WindowsPremises
<1> QED BY <1>1, <1>2

\* A job that is added was nowhere before.
LEMMA AddKeeps ==
    ASSUME WindowsPremises, WindowsInv, NEW r \in Ticket, Windows!AddJob(r)
    PROVE  WindowsInv' /\ All(window.jobs, batches) \subseteq All(window'.jobs, batches')
<1>1. /\ r \notin ToSet(window.jobs) \union UNION {ToSet(batches[i]) : i \in DOMAIN batches}
      /\ window' = [Windows!Opened EXCEPT !.jobs = Append(@, r)]
      /\ batches' = batches
      /\ asking' = [c \in Consumer |-> IF asking[c].phase = "waiting" /\ asking[c].current
                                       THEN Windows!Looking(asking[c].left) ELSE asking[c]]
    BY DEF Windows!AddJob, Windows!ToSet, ToSet
<1>2. /\ window.jobs \in Seq(Ticket) /\ IsInjective(window.jobs) /\ WindowType(window)
    BY DEF WindowsInv, WindowType
<1>3. /\ window'.jobs = Append(window.jobs, r) /\ window'.open = TRUE
      /\ window' \in [open : BOOLEAN, jobs : Seq(Ticket), age : 0 .. MaxWait]
    <2> DEFINE o == Windows!Opened
    <2>1. o.open = TRUE /\ o.jobs = window.jobs /\ o \in [open : BOOLEAN, jobs : Seq(Ticket), age : 0 .. MaxWait]
        BY <1>2, OpenedKeeps
    <2>2. window' = [o EXCEPT !.jobs = Append(@, r)]
        BY <1>1
    <2>3. Append(window.jobs, r) \in Seq(Ticket)
        BY <1>2
    <2> HIDE DEF o
    <2>4. window' = [o EXCEPT !.jobs = Append(window.jobs, r)]
        BY <2>1, <2>2
    <2>5. window' = [open |-> o.open, jobs |-> Append(window.jobs, r), age |-> o.age]
        BY <2>1, <2>4
    <2>6. o.age \in 0 .. MaxWait
        BY <2>1
    <2> QED BY <2>1, <2>3, <2>5, <2>6
<1>4. IsInjective(window'.jobs) /\ ToSet(window'.jobs) = ToSet(window.jobs) \union {r}
    <2>1. r \notin ToSet(window.jobs)
        BY <1>1
    <2> QED BY <1>2, <1>3, <2>1, AppendKeeps
<1>5. WindowType(window')
    BY <1>3, <1>4 DEF WindowType
<1>6. Parted(batches', window'.jobs)
    BY <1>1, <1>4 DEF WindowsInv, Parted
<1>7. WakesInTime(asking')
    BY <1>1 DEF WindowsInv, WakesInTime, Asking, Windows!Looking, Windows!Away
<1> QED BY <1>1, <1>4, <1>5, <1>6, <1>7 DEF WindowsInv, All

\* A consumer that is not at its deadline sleeps no longer than until then.
LEMMA WaitKeeps ==
    ASSUME WindowsPremises, WindowsInv, NEW c \in Consumer, Windows!WaitForJob(c)
    PROVE  WindowsInv' /\ window'.jobs = window.jobs /\ batches' = batches
<1> DEFINE left == asking[c].left
           w == IF window.jobs # <<>> /\ MaxWait - window.age < left THEN MaxWait - window.age ELSE left
<1>1. /\ left > 0 /\ ~ Windows!Ready /\ window' = Windows!Opened /\ batches' = batches
      /\ asking' = [asking EXCEPT ![c].phase = "waiting", ![c].current = TRUE, ![c].wait = w]
    BY DEF Windows!WaitForJob
<1>2. asking \in [Consumer -> Asking] /\ left \in Nat /\ window.age \in 0 .. MaxWait /\ MaxWait \in Nat
    BY DEF WindowsInv, WakesInTime, Asking, WindowType, WindowsPremises
<1>3. window.jobs # <<>> => window.age < MaxWait
    BY <1>1, <1>2 DEF Windows!Ready
<1>4. w \in 1 .. left
    BY <1>1, <1>2, <1>3
<1> HIDE DEF w
<1>5. asking' = [asking EXCEPT ![c] = [asking[c] EXCEPT !.phase = "waiting", !.current = TRUE, !.wait = w]]
    BY <1>1, <1>2
<1>6. WakesInTime(asking')
    <2>1. [asking[c] EXCEPT !.phase = "waiting", !.current = TRUE, !.wait = w] \in Asking
        <3>1. w \in Nat /\ asking[c] \in Asking
            BY <1>2, <1>4
        <3> QED BY <3>1 DEF Asking
    <2>2. \A d \in Consumer : d # c => asking'[d] = asking[d]
        BY <1>2, <1>5
    <2>3. asking'[c].wait = w /\ asking'[c].left = left
        BY <1>2, <1>5 DEF Asking
    <2>4. asking' \in [Consumer -> Asking]
        BY <1>2, <1>5, <2>1
    <2>5. \A d \in Consumer : d # c /\ asking[d].phase = "waiting" => asking[d].wait \in 1 .. asking[d].left
        BY DEF WindowsInv, WakesInTime
    <2> QED BY <1>4, <2>2, <2>3, <2>4, <2>5 DEF WakesInTime
<1>7. WindowType(window') /\ window'.jobs = window.jobs
    <2>1. WindowType(window)
        BY DEF WindowsInv
    <2>2. /\ window'.open = TRUE /\ window'.jobs = window.jobs
          /\ window' \in [open : BOOLEAN, jobs : Seq(Ticket), age : 0 .. MaxWait]
        BY <1>1, <2>1, OpenedKeeps
    <2> QED BY <2>1, <2>2 DEF WindowType
<1> QED BY <1>1, <1>6, <1>7 DEF WindowsInv

\* A tick makes whoever sleeps wake up, or have as much less time.
LEMMA BatcherTickKeeps ==
    ASSUME WindowsPremises, WindowsInv, Windows!BatcherTick
    PROVE  WindowsInv' /\ window'.jobs = window.jobs /\ batches' = batches
<1>1. /\ window' = IF window.open /\ window.age < MaxWait THEN [window EXCEPT !.age = @ + 1] ELSE window
      /\ batches' = batches
    BY DEF Windows!BatcherTick
<1>2. WindowType(window') /\ window'.jobs = window.jobs
    BY <1>1 DEF WindowsInv, WindowType, WindowsPremises
<1> DEFINE a(c) == [asking[c] EXCEPT !.left = IF @ = 0 THEN 0 ELSE @ - 1]
<1>3. asking' = [c \in Consumer |->
                   IF a(c).phase # "waiting" THEN a(c)
                   ELSE IF a(c).wait = 1 THEN Windows!Looking(a(c).left) ELSE [a(c) EXCEPT !.wait = @ - 1]]
    BY DEF Windows!BatcherTick
<1>4. ASSUME NEW c \in Consumer
      PROVE  asking'[c] \in Asking /\ (asking'[c].phase = "waiting" => asking'[c].wait \in 1 .. asking'[c].left)
    <2>1. asking[c] \in Asking /\ (asking[c].phase = "waiting" => asking[c].wait \in 1 .. asking[c].left)
        BY DEF WindowsInv, WakesInTime
    <2>2. /\ a(c) \in Asking /\ a(c).phase = asking[c].phase /\ a(c).wait = asking[c].wait
          /\ a(c).left = IF asking[c].left = 0 THEN 0 ELSE asking[c].left - 1
        BY <2>1 DEF Asking
    <2>3. asking'[c] = IF a(c).phase # "waiting" THEN a(c)
                       ELSE IF a(c).wait = 1 THEN Windows!Looking(a(c).left) ELSE [a(c) EXCEPT !.wait = @ - 1]
        BY <1>3
    <2> HIDE DEF a
    <2>4. CASE a(c).phase # "waiting"
        BY <2>2, <2>3, <2>4
    <2>5. CASE a(c).phase = "waiting" /\ a(c).wait = 1
        <3>1. asking'[c] = [phase |-> "looking", left |-> a(c).left, wait |-> 0, current |-> FALSE]
            BY <2>3, <2>5 DEF Windows!Looking, Windows!Away
        <3> QED BY <2>2, <3>1 DEF Asking
    <2>6. CASE a(c).phase = "waiting" /\ a(c).wait # 1
        <3>1. asking'[c] = [a(c) EXCEPT !.wait = @ - 1]
            BY <2>3, <2>6
        <3>2. asking[c].wait \in Nat /\ asking[c].left \in Nat /\ asking[c].wait \in 1 .. asking[c].left /\ asking[c].wait # 1
            BY <2>1, <2>2, <2>6 DEF Asking
        <3>3. a(c).wait - 1 \in 1 .. a(c).left /\ a(c).wait - 1 \in Nat
            BY <2>2, <3>2
        <3>4. asking'[c] \in Asking /\ asking'[c].wait = a(c).wait - 1 /\ asking'[c].left = a(c).left
            BY <2>2, <3>1, <3>3 DEF Asking
        <3> QED BY <3>3, <3>4
    <2> QED BY <2>4, <2>5, <2>6
<1>5. WakesInTime(asking')
    <2>1. asking' = [c \in Consumer |-> asking'[c]]
        <3> HIDE DEF a
        <3> QED BY <1>3, Zenon
    <2>2. asking' \in [Consumer -> Asking]
        BY <1>4, <2>1
    <2> QED BY <1>4, <2>2 DEF WakesInTime
<1> QED BY <1>1, <1>2, <1>5 DEF WindowsInv

\* A consumer that looks does not sleep.
LEMMA LookingType ==
    ASSUME NEW l \in Nat
    PROVE  Windows!Looking(l) \in Asking /\ Windows!Looking(l).phase # "waiting"
BY DEF Windows!Looking, Windows!Away, Asking

\* Any step.
LEMMA WindowsStep ==
    ASSUME WindowsPremises, WindowsInv, Windows!BatcherNext
    PROVE  WindowsInv' /\ All(window.jobs, batches) \subseteq All(window'.jobs, batches')
<1>1. ASSUME NEW c \in Consumer, Windows!NextBatch(c) \/ Windows!LeaveEmpty(c)
      PROVE  WindowsInv' /\ window' = window /\ batches' = batches
    <2>1. /\ window' = window /\ batches' = batches
          /\ \E e \in {Windows!Looking(Patience), Windows!Away} : asking' = [asking EXCEPT ![c] = e]
        BY <1>1 DEF Windows!NextBatch, Windows!LeaveEmpty
    <2>2. PICK e \in {Windows!Looking(Patience), Windows!Away} : asking' = [asking EXCEPT ![c] = e]
        BY <2>1
    <2>3. e \in Asking /\ e.phase # "waiting"
        <3>2. Windows!Away = [phase |-> "away", left |-> 0, wait |-> 0, current |-> FALSE]
            BY DEF Windows!Away
        <3>3. e \in {Windows!Looking(Patience), Windows!Away}
            OBVIOUS
        <3>4. Patience \in Nat
            BY DEF WindowsPremises
        <3>5. CASE e = Windows!Looking(Patience)
            BY <3>4, <3>5, LookingType
        <3>6. CASE e = Windows!Away
            <4>1. e = [phase |-> "away", left |-> 0, wait |-> 0, current |-> FALSE]
                BY <3>2, <3>6
            <4> QED BY <4>1 DEF Asking
        <3> QED BY <3>3, <3>5, <3>6
    <2>4. WakesInTime(asking')
        BY <2>2, <2>3 DEF WindowsInv, WakesInTime
    <2> QED BY <2>1, <2>4 DEF WindowsInv
<1>2. ASSUME NEW c \in Consumer, Windows!TakeBatch(c)
      PROVE  WindowsInv' /\ All(window'.jobs, batches') = All(window.jobs, batches)
    <2>1. window.jobs # <<>> /\ Windows!Drain(c)
        BY <1>2 DEF Windows!TakeBatch
    <2> QED BY <2>1, DrainParts
<1>3. ASSUME NEW c \in Consumer, Windows!WaitForJob(c)
      PROVE  WindowsInv' /\ window'.jobs = window.jobs /\ batches' = batches
    BY <1>3, WaitKeeps
<1> QED BY <1>1, <1>2, <1>3, AddKeeps, BatcherTickKeeps DEF Windows!BatcherNext, All

\* What is added is handed out at most once and never dropped, and nobody sleeps past
\* its deadline (batcher.py), for any number of jobs and consumers.
THEOREM BatchesHandedOut ==
    ASSUME WindowsPremises
    PROVE  Windows!BatcherInit /\ [][Windows!BatcherNext]_(Windows!batchVars)
              => []Windows!HandedOutOnce /\ Windows!JobsStay
<1>1. Windows!BatcherInit => WindowsInv
    BY EmptySeq DEF Windows!BatcherInit, Windows!NoWindow, Windows!Away, WindowsInv, WindowType,
       Parted, WakesInTime, Asking, WindowsPremises, IsInjective, ToSet
<1>2. WindowsInv /\ [Windows!BatcherNext]_(Windows!batchVars) => WindowsInv'
    <2>1. WindowsInv /\ UNCHANGED Windows!batchVars => WindowsInv'
        BY DEF Windows!batchVars, WindowsInv
    <2> QED BY <2>1, WindowsStep
<1>3. WindowsInv => Windows!HandedOutOnce
    BY DEF WindowsInv, Parted, WakesInTime, Windows!HandedOutOnce, Windows!ToSet, ToSet
<1>4. /\ Windows!Known = All(window.jobs, batches)
      /\ Windows!Known' = All(window'.jobs, batches')
    BY DEF Windows!Known, All, Windows!ToSet, ToSet
<1>5. WindowsInv /\ [Windows!BatcherNext]_(Windows!batchVars)
         => [Windows!Known \subseteq Windows!Known']_(Windows!batchVars)
    BY <1>4, WindowsStep
<1> QED BY <1>1, <1>2, <1>3, <1>5, PTL DEF Windows!JobsStay

-----------------------------------------------------------------------------
(* The pipeline of shards.  What is left of a run of a job is a number that every step of *)
(* the run lowers: an attempt to push counts three times, for itself, the close it may     *)
(* hang in and the pause behind it, and a deadline counts its ticks.                      *)

CONSTANTS LastShard, PushRetries, ReceiveWait, ResultWait, ResultLife, MaxFrames
VARIABLES serving, stage, frames, result

Relay == INSTANCE Pipeline

Passing == {"gone", "embedding", "forwarding", "resolving", "publishing"}
StageOK(s) ==
    /\ s \in [phase : Passing \union {"receiving", "awaiting", "sending", "closing", "pausing"},
              left : Nat]
    /\ s.phase = "receiving" => s.left <= ReceiveWait
    /\ s.phase = "awaiting" => s.left <= ResultWait
    /\ s.phase \in {"sending", "closing"} => 0 < s.left /\ s.left <= PushRetries
    /\ s.phase = "pausing" => s.left < PushRetries

StagesOK == DOMAIN stage = Relay!Shard /\ \A i \in Relay!Shard : StageOK(stage[i])

Waits == ReceiveWait \in Nat /\ ResultWait \in Nat /\ PushRetries \in Nat \ {0}

Remaining(s) ==
    CASE s.phase = "gone" -> 0
      [] s.phase = "publishing" -> 1
      [] s.phase = "awaiting" -> 1 + s.left
      [] s.phase = "sending" -> ResultWait + 2 + 3 * s.left
      [] s.phase = "closing" -> ResultWait + 1 + 3 * s.left
      [] s.phase = "pausing" -> ResultWait + 3 + 3 * s.left
      [] s.phase = "resolving" -> ResultWait + 3 + 3 * PushRetries
      [] s.phase = "forwarding" -> ResultWait + 4 + 3 * PushRetries
      [] s.phase = "embedding" -> ResultWait + 5 + 3 * PushRetries
      [] s.phase = "receiving" -> ResultWait + 5 + 3 * PushRetries + s.left

\* The longest run: a deadline to receive, the attempts, a deadline for the result.
Longest == ResultWait + 5 + 3 * PushRetries + ReceiveWait

\* What is left is bounded, and nothing is left of a run that is gone.
LEMMA RemainingBounded ==
    ASSUME Waits, NEW s, StageOK(s)
    PROVE  /\ Remaining(s) \in 0 .. Longest
           /\ Remaining(s) = 0 <=> s.phase = "gone"
<1>1. s.left \in Nat /\ s.phase \in Passing \union {"receiving", "awaiting", "sending", "closing", "pausing"}
    BY DEF StageOK
<1>2. PushRetries \in Nat /\ ResultWait \in Nat /\ ReceiveWait \in Nat
    BY DEF Waits
<1>3. /\ s.phase = "gone" => Remaining(s) = 0
      /\ s.phase # "gone" => 0 < Remaining(s)
    <2>1. CASE s.phase \in {"gone", "publishing", "awaiting"}
        BY <1>1, <1>2, <2>1 DEF Remaining
    <2>2. CASE s.phase \in {"sending", "closing", "pausing"}
        BY <1>1, <1>2, <2>2 DEF Remaining
    <2>3. CASE s.phase \in {"resolving", "forwarding"}
        BY <1>1, <1>2, <2>3 DEF Remaining
    <2>4. CASE s.phase \in {"embedding", "receiving"}
        BY <1>1, <1>2, <2>4 DEF Remaining
    <2> QED BY <1>1, <2>1, <2>2, <2>3, <2>4 DEF Passing
<1>4. Remaining(s) \in Nat /\ Remaining(s) <= Longest
    <2>1. CASE s.phase \in {"gone", "publishing"}
        BY <1>1, <1>2, <2>1 DEF Remaining, Longest
    <2>2. CASE s.phase \in {"awaiting", "receiving"}
        BY <1>1, <1>2, <2>2 DEF StageOK, Remaining, Longest
    <2>3. CASE s.phase = "sending"
        <3>1. Remaining(s) = ResultWait + 2 + 3 * s.left
            BY <2>3 DEF Remaining
        <3> QED BY <1>1, <1>2, <2>3, <3>1 DEF StageOK, Longest
    <2>4. CASE s.phase = "pausing"
        <3>1. Remaining(s) = ResultWait + 3 + 3 * s.left
            BY <2>4 DEF Remaining
        <3> QED BY <1>1, <1>2, <2>4, <3>1 DEF StageOK, Longest
    <2>5. CASE s.phase = "closing"
        <3>1. Remaining(s) = ResultWait + 1 + 3 * s.left
            BY <2>5 DEF Remaining
        <3> QED BY <1>1, <1>2, <2>5, <3>1 DEF StageOK, Longest
    <2>6. CASE s.phase \in {"resolving", "forwarding", "embedding"}
        BY <1>1, <1>2, <2>6 DEF Remaining, Longest
    <2> QED BY <1>1, <2>1, <2>2, <2>3, <2>4, <2>5, <2>6 DEF Passing
<1>5. Longest \in Nat
    BY <1>2 DEF Longest
<1> QED BY <1>3, <1>4, <1>5

\* What a run may do: begin, stay as it is, or take a step that lowers what is left of it.
Advances(s, u) == s.phase = "gone" \/ u = s \/ Remaining(u) < Remaining(s)

\* A step of a run from one stage to another.
LEMMA PassesOn ==
    ASSUME Waits, NEW s, StageOK(s), NEW u,
           \/ u = Relay!Gone
           \/ u = Relay!At("forwarding", 0) /\ s.phase \in {"embedding", "receiving"}
           \/ u \in {Relay!At("publishing", 0), Relay!At("resolving", 0)} /\ s.phase = "forwarding"
           \/ u = Relay!At("sending", PushRetries) /\ s.phase = "resolving"
           \/ u = Relay!At("awaiting", ResultWait) /\ s.phase = "sending"
           \/ u = Relay!At("closing", s.left) /\ s.phase = "sending"
           \/ u = Relay!At("pausing", s.left - 1) /\ s.phase \in {"sending", "closing"}
           \/ u = Relay!At("sending", s.left) /\ s.phase = "pausing" /\ s.left > 0
    PROVE  StageOK(u) /\ Advances(s, u)
<1> USE DEF Waits, StageOK, Passing, Remaining, Advances, Relay!At, Relay!Gone
<1>1. CASE u = Relay!Gone
    BY <1>1
<1>2. CASE u = Relay!At("forwarding", 0) /\ s.phase \in {"embedding", "receiving"}
    BY <1>2
<1>3. CASE u \in {Relay!At("publishing", 0), Relay!At("resolving", 0)} /\ s.phase = "forwarding"
    BY <1>3
<1>4. CASE u = Relay!At("sending", PushRetries) /\ s.phase = "resolving"
    BY <1>4
<1>5. CASE u = Relay!At("awaiting", ResultWait) /\ s.phase = "sending"
    BY <1>5
<1>6. CASE u = Relay!At("pausing", s.left - 1) /\ s.phase \in {"sending", "closing"}
    BY <1>6
<1>8. CASE u = Relay!At("closing", s.left) /\ s.phase = "sending"
    BY <1>8
<1>7. CASE u = Relay!At("sending", s.left) /\ s.phase = "pausing" /\ s.left > 0
    BY <1>7
<1> QED BY <1>1, <1>2, <1>3, <1>4, <1>5, <1>6, <1>7, <1>8

\* A step of one shard's run.
Moves(i, u) == stage' = [stage EXCEPT ![i] = u]

\* If one run advances, it and the others, which stay, are as they should be.
LEMMA OneMoves ==
    ASSUME StagesOK, NEW i \in Relay!Shard, NEW u, Moves(i, u), StageOK(u), Advances(stage[i], u),
           NEW j \in Relay!Shard
    PROVE  DOMAIN stage' = Relay!Shard /\ StageOK(stage'[j]) /\ Advances(stage[j], stage'[j])
BY DEF StagesOK, Moves, Advances

Nearer == \A i \in Relay!Shard : Advances(stage[i], stage'[i])

\* Every action takes each shard's run nearer to its end, or leaves it where it is.
LEMMA PipelineStep ==
    ASSUME Waits, StagesOK, Relay!PipelineNext
    PROVE  StagesOK' /\ Nearer
<1>1. ASSUME NEW i \in Relay!Shard, NEW u, Moves(i, u), StageOK(u), Advances(stage[i], u)
      PROVE  StagesOK' /\ Nearer
    BY <1>1, OneMoves DEF StagesOK, Nearer
<1>2. ASSUME UNCHANGED stage PROVE StagesOK' /\ Nearer
    BY <1>2 DEF StagesOK, Nearer, Advances
<1>3. ASSUME NEW i \in Relay!Shard PROVE StageOK(stage[i])
    BY <1>3 DEF StagesOK
<1>4. ASSUME NEW i \in Relay!Shard, Relay!RunInference(i) PROVE StagesOK' /\ Nearer
    <2> DEFINE u == IF i = 0 THEN Relay!At("embedding", 0) ELSE Relay!At("receiving", ReceiveWait)
    <2>1. Moves(i, u) /\ stage[i].phase = "gone"
        BY <1>4 DEF Relay!RunInference, Relay!Go, Moves
    <2>2. StageOK(u)
        BY DEF Waits, StageOK, Passing, Relay!At
    <2>3. Advances(stage[i], u)
        BY <2>1 DEF Advances
    <2> HIDE DEF u
    <2> QED BY <1>1, <2>1, <2>2, <2>3
<1>5. ASSUME NEW i \in Relay!Shard, Relay!Carry(i) PROVE StagesOK' /\ Nearer
    <2> DEFINE s == stage[i]
               MayBecome(u) ==
                   \/ u = Relay!Gone
                   \/ u = Relay!At("forwarding", 0) /\ s.phase \in {"embedding", "receiving"}
                   \/ u \in {Relay!At("publishing", 0), Relay!At("resolving", 0)} /\ s.phase = "forwarding"
                   \/ u = Relay!At("sending", PushRetries) /\ s.phase = "resolving"
                   \/ u = Relay!At("awaiting", ResultWait) /\ s.phase = "sending"
                   \/ u = Relay!At("closing", s.left) /\ s.phase = "sending"
                   \/ u = Relay!At("pausing", s.left - 1) /\ s.phase \in {"sending", "closing"}
                   \/ u = Relay!At("sending", s.left) /\ s.phase = "pausing" /\ s.left > 0
    <2> SUFFICES \E u : Moves(i, u) /\ MayBecome(u)
        <3>1. ASSUME NEW u, Moves(i, u), MayBecome(u) PROVE StagesOK' /\ Nearer
            <4>1. StageOK(s)
                BY <1>3
            <4>2. StageOK(u) /\ Advances(s, u)
                <5> HIDE DEF s
                <5> QED BY <3>1, <4>1, PassesOn
            <4> QED BY <1>1, <3>1, <4>2
        <3> QED BY <3>1
    <2> USE DEF Relay!Go, Moves
    <2>1. CASE Relay!Embed(i)
        BY <2>1 DEF Relay!Embed
    <2>2. CASE Relay!ReceiveTimesOut(i) \/ Relay!Publish(i) \/ Relay!Collect(i) \/ Relay!AwaitTimesOut(i)
        BY <2>2 DEF Relay!ReceiveTimesOut, Relay!Publish, Relay!Collect, Relay!AwaitTimesOut
    <2>3. CASE Relay!Forward(i)
        BY <2>3 DEF Relay!Forward
    <2>4. CASE Relay!ResolvePeer(i)
        BY <2>4 DEF Relay!ResolvePeer
    <2>5. CASE Relay!Push(i)
        BY <2>5 DEF Relay!Push
    <2>6. CASE Relay!PushFails(i) \/ Relay!PushHangs(i)
        BY <2>6 DEF Relay!PushFails, Relay!PushHangs
    <2>7. CASE Relay!PushAgain(i)
        BY <2>7 DEF Relay!PushAgain
    <2> QED BY <1>5, <2>1, <2>2, <2>3, <2>4, <2>5, <2>6, <2>7 DEF Relay!Carry
<1>6. ASSUME NEW i \in Relay!Shard, Relay!ReadFrame(i) PROVE StagesOK' /\ Nearer
    <2>1. CASE stage[i].phase = "receiving"
        <3>1. Moves(i, Relay!At("forwarding", 0))
            BY <1>6, <2>1 DEF Relay!ReadFrame, Relay!Go, Moves
        <3>2. StageOK(Relay!At("forwarding", 0)) /\ Advances(stage[i], Relay!At("forwarding", 0))
            BY <1>3, <2>1, PassesOn
        <3> QED BY <1>1, <3>1, <3>2
    <2>2. CASE stage[i].phase # "receiving"
        BY <1>2, <1>6, <2>2 DEF Relay!ReadFrame
    <2> QED BY <2>1, <2>2
<1>7. ASSUME NEW i \in Relay!Shard, Relay!StopNode(i) PROVE StagesOK' /\ Nearer
    <2>1. Moves(i, Relay!Gone)
        BY <1>7 DEF Relay!StopNode, Moves
    <2>2. StageOK(Relay!Gone) /\ Advances(stage[i], Relay!Gone)
        BY <1>3, PassesOn
    <2> QED BY <1>1, <2>1, <2>2
<1>10. ASSUME NEW i \in Relay!Shard, Relay!PeerReleases(i) PROVE StagesOK' /\ Nearer
    <2> DEFINE u == Relay!At("pausing", stage[i].left - 1)
    <2>1. Moves(i, u) /\ stage[i].phase = "closing"
        BY <1>10 DEF Relay!PeerReleases, Relay!Go, Moves
    <2>2. StageOK(u) /\ Advances(stage[i], u)
        BY <1>3, <2>1, PassesOn
    <2> HIDE DEF u
    <2> QED BY <1>1, <2>1, <2>2
<1>8. ASSUME NEW i \in Relay!Shard, Relay!LoseFrame(i) \/ Relay!StartNode(i) PROVE StagesOK' /\ Nearer
    BY <1>2, <1>8 DEF Relay!LoseFrame, Relay!StartNode
<1>9. ASSUME Relay!PipelineTick PROVE StagesOK' /\ Nearer
    <2> DEFINE Ticked(s) == IF s.phase \in {"receiving", "awaiting"} /\ s.left > 0
                            THEN [s EXCEPT !.left = @ - 1] ELSE s
    <2>1. stage' = [i \in Relay!Shard |-> Ticked(stage[i])]
        BY <1>9 DEF Relay!PipelineTick
    <2>2. ASSUME NEW s, StageOK(s) PROVE StageOK(Ticked(s)) /\ Advances(s, Ticked(s))
        BY <2>2 DEF Waits, StageOK, Passing, Remaining, Advances
    <2> HIDE DEF Ticked
    <2>3. DOMAIN stage' = Relay!Shard
        BY <2>1
    <2>4. \A i \in Relay!Shard : stage'[i] = Ticked(stage[i])
        BY <2>1
    <2> QED BY <1>3, <2>2, <2>3, <2>4 DEF StagesOK, Nearer
<1> QED BY <1>4, <1>5, <1>6, <1>7, <1>8, <1>9, <1>10 DEF Relay!PipelineNext

\* On no shard does a run of a job go in circles (server.py, _run_inference): whatever
\* frames are lost, doubled or late and whoever stops, the steps left to it are bounded
\* by the deadlines and the attempts, and every step it takes, one out of a push that
\* hung among them, makes them fewer.  That a step comes is not said: a push may hang.
THEOREM RunsTakeBoundedSteps ==
    ASSUME ReceiveWait \in Nat, ResultWait \in Nat, PushRetries \in Nat \ {0}
    PROVE  Relay!PipelineInit /\ [][Relay!PipelineNext]_(Relay!pipelineVars)
              => /\ [](\A i \in Relay!Shard : Remaining(stage[i]) \in 0 .. Longest)
                 /\ [][Nearer]_(Relay!pipelineVars)
<1> DEFINE InBounds == \A i \in Relay!Shard : Remaining(stage[i]) \in 0 .. Longest
<1>0. Waits
    BY DEF Waits
<1>1. Relay!PipelineInit => StagesOK
    BY DEF Relay!PipelineInit, StagesOK, StageOK, Passing, Relay!Gone
<1>2. StagesOK /\ [Relay!PipelineNext]_(Relay!pipelineVars) => StagesOK'
    <2>1. ASSUME StagesOK, UNCHANGED Relay!pipelineVars PROVE StagesOK'
        BY <2>1 DEF Relay!pipelineVars, StagesOK
    <2> QED BY <1>0, <2>1, PipelineStep
<1>3. StagesOK /\ [Relay!PipelineNext]_(Relay!pipelineVars) => [Nearer]_(Relay!pipelineVars)
    BY <1>0, PipelineStep
<1>4. StagesOK => InBounds
    BY <1>0, RemainingBounded DEF StagesOK
<1> QED BY <1>1, <1>2, <1>3, <1>4, PTL
=============================================================================
