-------------------------- MODULE PagedKVCacheProofs --------------------------
(***************************************************************************)
(* The counts of the paged KV cache are right, and sharing cannot be seen:   *)
(* the cache implements private pages, for every number of sequences,       *)
(* blocks and layers.                                                      *)
(***************************************************************************)
EXTENDS PagedKVCache, FiniteSetTheorems, SequenceTheorems, TLAPS

\* A sequence that is not allocated has no blocks.
DeadIsEmpty == \A s \in Sequence : s \notin live => table[s] = <<>>

CacheInv == TypeOK /\ DeadIsEmpty /\ BlocksAccounted

-----------------------------------------------------------------------------
(* Arithmetic of positions and blocks. *)

\* A position is in some block, at an offset within it.
LEMMA Position ==
    ASSUME NEW p \in Nat
    PROVE  /\ LogicalBlock(p) \in Nat \ {0}
           /\ p % BlockSize \in 0 .. BlockSize - 1
  <1>1. p \div BlockSize \in Nat
    BY CacheAssumption
  <1>2. p % BlockSize \in 0 .. BlockSize - 1
    BY CacheAssumption
  <1> QED
    BY <1>1, <1>2 DEF LogicalBlock

\* Some tokens need a number of blocks, and these hold them.
LEMMA Blocks ==
    ASSUME NEW n \in Nat
    PROVE  /\ BlocksFor(n) \in Nat
           /\ n <= BlocksFor(n) * BlockSize
  <1>1. BlocksFor(n) \in Nat
    BY CacheAssumption DEF BlocksFor
  <1>2. n <= BlocksFor(n) * BlockSize
    BY CacheAssumption DEF BlocksFor
  <1> QED
    BY <1>1, <1>2

-----------------------------------------------------------------------------
(* Who has a block. *)

\* The users of a block can be counted; none has a block that nobody counts, and
\* who has a block that is counted once is alone.
LEMMA UserCount ==
    ASSUME NEW b \in Block
    PROVE  /\ IsFiniteSet(Users(b))
           /\ Cardinality(Users(b)) \in Nat
           /\ Cardinality(Users(b)) = 0 <=> Users(b) = {}
           /\ Cardinality(Users(b)) = 1 => \E s \in Sequence : Users(b) = {s}
  <1>1. Users(b) \in SUBSET Sequence
    BY DEF Users
  <1>2. IsFiniteSet(Users(b))
    BY <1>1, CacheAssumption, FS_Subset
  <1>3. Cardinality(Users(b)) \in Nat
    BY <1>2, FS_CardinalityType
  <1>4. Cardinality(Users(b)) = 0 <=> Users(b) = {}
    BY <1>2, FS_EmptySet
  <1>5. Cardinality(Users(b)) = 1 => \E s \in Sequence : Users(b) = {s}
    <2>1. HAVE Cardinality(Users(b)) = 1
    <2>2. PICK s : Users(b) = {s}
      BY <1>2, <2>1, FS_Singleton
    <2> QED
      BY <1>1, <2>2
  <1> QED
    BY <1>2, <1>3, <1>4, <1>5

\* A new table for one sequence changes the number of users of a block by one,
\* or not at all.
LEMMA Recount ==
    ASSUME TypeOK, NEW s \in Sequence, NEW t \in Seq(Block),
           table' = [table EXCEPT ![s] = t], NEW b \in Block
    PROVE  /\ b \in Range(t) /\ b \notin Range(table[s]) =>
                 Cardinality(Users(b)') = Cardinality(Users(b)) + 1
           /\ b \notin Range(t) /\ b \in Range(table[s]) =>
                 Cardinality(Users(b)') = Cardinality(Users(b)) - 1
           /\ (b \in Range(t) <=> b \in Range(table[s])) =>
                 Cardinality(Users(b)') = Cardinality(Users(b))
  <1>1. \A r \in Sequence : table'[r] = IF r = s THEN t ELSE table[r]
    BY DEF TypeOK
  <1>2. IsFiniteSet(Users(b))
    BY UserCount
  <1>3. ASSUME b \in Range(t), b \notin Range(table[s])
        PROVE  Cardinality(Users(b)') = Cardinality(Users(b)) + 1
    <2>1. Users(b)' = Users(b) \union {s}
      BY <1>1, <1>3 DEF Users
    <2>2. s \notin Users(b)
      BY <1>3 DEF Users
    <2> QED
      BY <1>2, <2>1, <2>2, FS_AddElement
  <1>4. ASSUME b \notin Range(t), b \in Range(table[s])
        PROVE  Cardinality(Users(b)') = Cardinality(Users(b)) - 1
    <2>1. Users(b)' = Users(b) \ {s}
      BY <1>1, <1>4 DEF Users
    <2>2. s \in Users(b)
      BY <1>4 DEF Users
    <2> QED
      BY <1>2, <2>1, <2>2, FS_RemoveElement
  <1>5. ASSUME b \in Range(t) <=> b \in Range(table[s])
        PROVE  Cardinality(Users(b)') = Cardinality(Users(b))
    <2>1. Users(b)' = Users(b)
      BY <1>1, <1>5 DEF Users
    <2> QED
      BY <2>1
  <1> QED
    BY <1>3, <1>4, <1>5

\* A block of a table is counted, so it is not free; and its sequence is alone
\* with it when it is counted once.
LEMMA Held ==
    ASSUME TypeOK, BlocksAccounted, NEW s \in Sequence, NEW b \in Range(table[s])
    PROVE  /\ b \in Block
           /\ refcount[b] \in Nat \ {0}
           /\ b \notin free
           /\ refcount[b] = 1 => \A r \in Sequence : b \in Range(table[r]) => r = s
  <1>1. b \in Block
    <2>1. table[s] \in Seq(Block)
      BY DEF TypeOK
    <2> QED
      BY <2>1 DEF Range
  <1>2. s \in Users(b)
    BY DEF Users
  <1>3. refcount[b] = Cardinality(Users(b))
    BY <1>1 DEF BlocksAccounted
  <1>4. refcount[b] \in Nat \ {0}
    BY <1>1, <1>2, <1>3, UserCount
  <1>5. b \notin free
    BY <1>4 DEF BlocksAccounted
  <1>6. refcount[b] = 1 => \A r \in Sequence : b \in Range(table[r]) => r = s
    <2>1. HAVE refcount[b] = 1
    <2>2. PICK q \in Sequence : Users(b) = {q}
      BY <1>1, <1>3, <2>1, UserCount
    <2>3. \A r \in Sequence : b \in Range(table[r]) => r \in Users(b)
      BY DEF Users
    <2> QED
      BY <1>2, <2>2, <2>3
  <1> QED
    BY <1>1, <1>4, <1>5, <1>6

\* The counts are right after a new table for one sequence if each block's count
\* follows it.
LEMMA Retable ==
    ASSUME CacheInv, NEW s \in Sequence, NEW t \in Seq(Block), IsInjective(t),
           table' = [table EXCEPT ![s] = t],
           \A b \in Block :
              /\ b \in Range(t) /\ b \notin Range(table[s]) => refcount'[b] = refcount[b] + 1
              /\ b \notin Range(t) /\ b \in Range(table[s]) => refcount'[b] = refcount[b] - 1
              /\ (b \in Range(t) <=> b \in Range(table[s])) => refcount'[b] = refcount[b],
           free' = {b \in Block : refcount'[b] = 0}
    PROVE  BlocksAccounted'
  <1>1. \A r \in Sequence : IsInjective(table'[r])
    BY DEF CacheInv, TypeOK, BlocksAccounted
  <1>2. ASSUME NEW b \in Block PROVE refcount'[b] = Cardinality(Users(b)')
    BY <1>2, Recount DEF CacheInv, BlocksAccounted
  <1> QED
    BY <1>1, <1>2 DEF BlocksAccounted, Users

-----------------------------------------------------------------------------
(* The invariant. *)

LEMMA InitInv == Init => CacheInv
  <1> SUFFICES ASSUME Init PROVE CacheInv
    OBVIOUS
  <1> USE DEF Init
  <1>1. TypeOK
    BY CacheAssumption DEF TypeOK, Content
  <1>2. DeadIsEmpty
    BY DEF DeadIsEmpty
  <1>3. BlocksAccounted
    <2>1. \A s \in Sequence : table[s] = <<>> /\ Range(table[s]) = {}
      BY DEF Range
    <2>2. \A s \in Sequence : IsInjective(table[s])
      BY <2>1 DEF IsInjective
    <2>3. ASSUME NEW b \in Block PROVE refcount[b] = Cardinality(Users(b))
      <3>1. Users(b) = {}
        BY <2>1 DEF Users
      <3> QED
        BY <3>1, FS_EmptySet
    <2> QED
      BY <2>2, <2>3 DEF BlocksAccounted
  <1> QED
    BY <1>1, <1>2, <1>3 DEF CacheInv

LEMMA AllocateInv ==
    ASSUME CacheInv, NEW s \in Sequence, NEW n \in Nat, Allocate(s, n)
    PROVE  CacheInv'
  <1> USE DEF CacheInv
  <1>1. PICK t \in [1 .. BlocksFor(n) -> free] :
           /\ IsInjective(t)
           /\ table' = [table EXCEPT ![s] = t]
           /\ free' = free \ Range(t)
           /\ Count(Range(t), 1)
    BY DEF Allocate
  <1>2. t \in Seq(Block)
    <2>1. BlocksFor(n) \in Nat
      BY Blocks
    <2>2. t \in [1 .. BlocksFor(n) -> Block]
      BY DEF TypeOK
    <2> QED
      BY <2>1, <2>2, SeqDef
  <1>3. Range(t) \subseteq free
    BY DEF Range
  <1>4. Range(table[s]) = {}
    <2>1. table[s] = <<>>
      BY DEF Allocate, DeadIsEmpty
    <2> QED
      BY <2>1 DEF Range
  <1>5. refcount' \in [Block -> Nat]
    BY <1>1 DEF Count, TypeOK
  <1>6. TypeOK'
    BY <1>1, <1>2, <1>5 DEF Allocate, TypeOK
  <1>7. DeadIsEmpty'
    BY <1>1, <1>2 DEF Allocate, TypeOK, DeadIsEmpty
  <1>8. BlocksAccounted'
    <2>1. \A b \in Block : refcount'[b] = IF b \in Range(t) THEN refcount[b] + 1 ELSE refcount[b]
      BY <1>1 DEF Count
    <2>2. free' = {b \in Block : refcount'[b] = 0}
      BY <1>1, <1>3, <2>1 DEF BlocksAccounted, TypeOK
    <2> QED
      BY <1>1, <1>2, <1>4, <2>1, <2>2, Retable
  <1> QED
    BY <1>6, <1>7, <1>8

LEMMA FreeInv ==
    ASSUME CacheInv, NEW s \in Sequence, Free(s)
    PROVE  CacheInv'
  <1> USE DEF CacheInv
  <1>1. \A b \in Block :
           refcount'[b] = IF b \in Range(table[s]) THEN refcount[b] - 1 ELSE refcount[b]
    BY DEF Free, Count
  <1>2. refcount' \in [Block -> Nat]
    <2>1. ASSUME NEW b \in Block PROVE refcount'[b] \in Nat
      BY <1>1, Held DEF TypeOK
    <2> QED
      BY <2>1 DEF Free, Count
  <1>3. TypeOK'
    BY <1>2, Held DEF Free, Unreferenced, TypeOK
  <1>4. DeadIsEmpty'
    BY DEF Free, TypeOK, DeadIsEmpty
  <1>5. BlocksAccounted'
    <2>1. /\ <<>> \in Seq(Block)
          /\ IsInjective(<<>>)
          /\ Range(<<>>) = {}
      BY DEF IsInjective, Range
    <2>2. free' = free \union {b \in Range(table[s]) : refcount[b] = 1}
      BY DEF Free, Unreferenced
    <2>3. ASSUME NEW b \in Block PROVE b \in free' <=> refcount'[b] = 0
      <3>1. CASE b \in Range(table[s])
        <4>1. refcount[b] \in Nat \ {0} /\ b \notin free
          BY <3>1, Held
        <4>2. refcount'[b] = refcount[b] - 1
          BY <1>1, <3>1
        <4>3. refcount'[b] = 0 <=> refcount[b] = 1
          BY <4>1, <4>2
        <4> QED
          BY <2>2, <3>1, <4>1, <4>3
      <3>2. CASE b \notin Range(table[s])
        BY <1>1, <2>2, <3>2 DEF BlocksAccounted
      <3> QED
        BY <3>1, <3>2
    <2>4. free' = {b \in Block : refcount'[b] = 0}
      BY <1>3, <2>3 DEF TypeOK
    <2> QED
      BY <1>1, <2>1, <2>4, Retable DEF Free
  <1> QED
    BY <1>3, <1>4, <1>5

LEMMA SharePrefixInv ==
    ASSUME CacheInv, NEW s \in Sequence, NEW r \in Sequence, NEW n \in Nat, SharePrefix(s, r, n)
    PROVE  CacheInv'
  <1> USE DEF CacheInv
  <1> DEFINE t == SubSeq(table[s], 1, BlocksFor(n))
  <1>1. table[s] \in Seq(Block) /\ BlocksFor(n) \in Nat /\ BlocksFor(n) <= Len(table[s])
    BY Blocks DEF TypeOK, SharePrefix
  <1>2. /\ t \in Seq(Block)
        /\ DOMAIN t = 1 .. BlocksFor(n)
        /\ \A i \in 1 .. BlocksFor(n) : t[i] = table[s][i] /\ i \in DOMAIN table[s]
    BY <1>1
  <1> HIDE DEF t
  <1>3. Range(t) \subseteq Range(table[s])
    BY <1>2 DEF Range
  <1>4. IsInjective(t)
    BY <1>2 DEF BlocksAccounted, IsInjective
  <1>5. Range(table[r]) = {}
    <2>1. table[r] = <<>>
      BY DEF SharePrefix, DeadIsEmpty
    <2> QED
      BY <2>1 DEF Range
  <1>6. \A b \in Block : refcount'[b] = IF b \in Range(t) THEN refcount[b] + 1 ELSE refcount[b]
    BY DEF SharePrefix, Count, t
  <1>7. refcount' \in [Block -> Nat]
    BY DEF SharePrefix, Count, TypeOK
  <1>8. table' = [table EXCEPT ![r] = t]
    BY DEF SharePrefix, t
  <1>9. TypeOK'
    BY <1>2, <1>7, <1>8 DEF SharePrefix, TypeOK
  <1>10. DeadIsEmpty'
    BY <1>8 DEF SharePrefix, TypeOK, DeadIsEmpty
  <1>11. BlocksAccounted'
    <2>1. ASSUME NEW b \in Block PROVE b \in free <=> refcount'[b] = 0
      <3>1. CASE b \in Range(t)
        <4>1. refcount[b] \in Nat \ {0} /\ b \notin free
          BY <1>3, <3>1, Held
        <4> QED
          BY <1>6, <3>1, <4>1
      <3>2. CASE b \notin Range(t)
        BY <1>6, <3>2 DEF BlocksAccounted
      <3> QED
        BY <3>1, <3>2
    <2>2. free' = {b \in Block : refcount'[b] = 0}
      BY <2>1 DEF TypeOK, SharePrefix
    <2> QED
      BY <1>2, <1>4, <1>5, <1>6, <1>8, <2>2, Retable
  <1> QED
    BY <1>9, <1>10, <1>11

LEMMA WriteInv ==
    ASSUME CacheInv, NEW s \in Sequence, NEW l \in Layer, NEW p \in Nat, NEW v \in Value,
           Write(s, l, p, v)
    PROVE  CacheInv'
  <1> USE DEF CacheInv
  <1> DEFINE b == table[s][LogicalBlock(p)]
  <1>1. b \in Block
    <2>1. table[s] \in Seq(Block)
      BY DEF TypeOK
    <2>2. LogicalBlock(p) \in 1 .. Len(table[s])
      BY <2>1, Position DEF Write
    <2> QED
      BY <2>1, <2>2, ElementOfSeq
  <1>2. store' \in [Block -> Content]
    <2>1. store[b] \in Content
      BY <1>1 DEF TypeOK
    <2>2. Put(store[b], l, p, v) \in Content
      BY <2>1, Position DEF Put, Content
    <2>3. store' = [store EXCEPT ![b] = Put(store[b], l, p, v)]
      BY DEF Write
    <2> QED
      BY <2>2, <2>3 DEF TypeOK
  <1>3. fill' \in [Sequence -> Nat]
    BY DEF Write, Advance, TypeOK
  <1>4. TypeOK'
    BY <1>2, <1>3 DEF Write, TypeOK
  <1>5. DeadIsEmpty' /\ BlocksAccounted'
    BY DEF Write, DeadIsEmpty, BlocksAccounted, Users
  <1> QED
    BY <1>4, <1>5

\* What a clone changes: one block of one table.
LEMMA Cloned ==
    ASSUME CacheInv, NEW s \in Sequence, NEW i \in 1 .. Len(table[s]), NEW new \in free
    PROVE  LET t == [table[s] EXCEPT ![i] = new]
           IN /\ t \in Seq(Block)
              /\ Len(t) = Len(table[s])
              /\ IsInjective(t)
              /\ new \notin Range(table[s])
              /\ Range(t) = (Range(table[s]) \ {table[s][i]}) \union {new}
  <1> USE DEF CacheInv
  <1> DEFINE t == [table[s] EXCEPT ![i] = new]
  <1>1. table[s] \in Seq(Block) /\ new \in Block
    BY DEF TypeOK
  <1>2. new \notin Range(table[s])
    BY Held
  <1>3. t \in Seq(Block) /\ Len(t) = Len(table[s])
    BY <1>1
  <1>4. /\ DOMAIN t = 1 .. Len(table[s])
        /\ DOMAIN table[s] = 1 .. Len(table[s])
        /\ \A j \in 1 .. Len(table[s]) : t[j] = IF j = i THEN new ELSE table[s][j]
    BY <1>1
  <1>5. \A j, k \in 1 .. Len(table[s]) : table[s][j] = table[s][k] => j = k
    BY <1>4 DEF BlocksAccounted, IsInjective
  <1>6. \A j \in 1 .. Len(table[s]) : table[s][j] # new
    BY <1>2, <1>4 DEF Range
  <1> HIDE DEF t
  <1>7. IsInjective(t)
    BY <1>4, <1>5, <1>6 DEF IsInjective
  <1>8. Range(t) = (Range(table[s]) \ {table[s][i]}) \union {new}
    BY <1>4, <1>5 DEF Range
  <1> QED
    BY <1>2, <1>3, <1>7, <1>8 DEF t

LEMMA WriteCloneInv ==
    ASSUME CacheInv, NEW s \in Sequence, NEW l \in Layer, NEW p \in Nat, NEW v \in Value,
           WriteClone(s, l, p, v)
    PROVE  CacheInv'
  <1> USE DEF CacheInv
  <1> DEFINE i == LogicalBlock(p)
             b == table[s][i]
  <1>1. i \in 1 .. Len(table[s])
    BY Position DEF TypeOK, WriteClone
  <1>2. b \in Range(table[s]) /\ b \in Block
    <2>1. table[s] \in Seq(Block)
      BY DEF TypeOK
    <2> QED
      BY <1>1, <2>1 DEF Range
  <1>3. PICK new \in free :
           /\ free' = free \ {new}
           /\ refcount' = [refcount EXCEPT ![b] = refcount[b] - 1, ![new] = refcount[new] + 1]
           /\ table' = [table EXCEPT ![s] = [table[s] EXCEPT ![i] = new]]
           /\ store' = [store EXCEPT ![new] = Put(store[b], l, p, v)]
    BY DEF WriteClone
  <1> DEFINE t == [table[s] EXCEPT ![i] = new]
  <1>4. /\ t \in Seq(Block)
        /\ IsInjective(t)
        /\ new \notin Range(table[s])
        /\ Range(t) = (Range(table[s]) \ {b}) \union {new}
    BY <1>1, Cloned
  <1>5. refcount[b] \in Nat /\ refcount[b] > 1
    BY <1>2 DEF WriteClone, TypeOK
  <1>6. new \in Block /\ refcount[new] = 0 /\ new # b
    BY <1>2, <1>4 DEF BlocksAccounted
  <1> HIDE DEF i, b, t
  <1>7. /\ table' = [table EXCEPT ![s] = t]
        /\ refcount'[b] = refcount[b] - 1
        /\ refcount'[new] = 1
        /\ \A c \in Block : c # b /\ c # new => refcount'[c] = refcount[c]
        /\ refcount' \in [Block -> Nat]
    BY SMTT(30), <1>2, <1>3, <1>5, <1>6 DEF TypeOK, t
  <1>8. store' \in [Block -> Content]
    <2>1. store[b] \in Content
      BY <1>2 DEF TypeOK
    <2>2. Put(store[b], l, p, v) \in Content
      BY <2>1, Position DEF Put, Content
    <2> QED
      BY <1>3, <2>2 DEF TypeOK
  <1>9. fill' \in [Sequence -> Nat]
    BY DEF WriteClone, Advance, TypeOK
  <1>10. TypeOK'
    <2>1. free' \subseteq Block /\ live' \subseteq Sequence
      BY <1>3 DEF WriteClone, TypeOK
    <2>2. table' \in [Sequence -> Seq(Block)]
      BY <1>4, <1>7 DEF TypeOK
    <2> QED
      BY <1>7, <1>8, <1>9, <2>1, <2>2 DEF TypeOK
  <1>11. DeadIsEmpty'
    BY <1>7 DEF WriteClone, TypeOK, DeadIsEmpty
  <1>12. BlocksAccounted'
    <2>1. ASSUME NEW c \in Block PROVE c \in free' <=> refcount'[c] = 0
      <3>1. CASE c = b
        <4>1. b \notin free
          BY <1>2, <1>5 DEF BlocksAccounted
        <4> QED
          BY <1>3, <1>5, <1>7, <3>1, <4>1
      <3>2. CASE c = new
        BY <1>3, <1>7, <3>2
      <3>3. CASE c # b /\ c # new
        BY <1>3, <1>7, <3>3 DEF BlocksAccounted
      <3> QED
        BY <3>1, <3>2, <3>3
    <2>2. free' = {c \in Block : refcount'[c] = 0}
      BY <1>3, <2>1 DEF TypeOK
    <2>3. \A c \in Block :
             /\ c \in Range(t) /\ c \notin Range(table[s]) => refcount'[c] = refcount[c] + 1
             /\ c \notin Range(t) /\ c \in Range(table[s]) => refcount'[c] = refcount[c] - 1
             /\ (c \in Range(t) <=> c \in Range(table[s])) => refcount'[c] = refcount[c]
      BY <1>2, <1>4, <1>6, <1>7
    <2> QED
      BY <1>4, <1>7, <2>2, <2>3, Retable
  <1> QED
    BY <1>10, <1>11, <1>12

LEMMA StepInv == CacheInv /\ [Next]_vars => CacheInv'
  <1> SUFFICES ASSUME CacheInv, [Next]_vars PROVE CacheInv'
    OBVIOUS
  <1>1. ASSUME NEW s \in Sequence, NEW n \in 0 .. MaxTokens, Allocate(s, n) PROVE CacheInv'
    BY <1>1, AllocateInv
  <1>2. ASSUME NEW s \in Sequence, Free(s) PROVE CacheInv'
    BY <1>2, FreeInv
  <1>3. ASSUME NEW s \in Sequence, NEW l \in Layer, NEW p \in 0 .. MaxTokens - 1, NEW v \in Value,
               Write(s, l, p, v)
        PROVE  CacheInv'
    BY <1>3, WriteInv
  <1>4. ASSUME NEW s \in Sequence, NEW l \in Layer, NEW p \in 0 .. MaxTokens - 1, NEW v \in Value,
               WriteClone(s, l, p, v)
        PROVE  CacheInv'
    BY <1>4, WriteCloneInv
  <1>5. ASSUME NEW s \in Sequence, NEW r \in Sequence, NEW n \in 0 .. MaxTokens, SharePrefix(s, r, n)
        PROVE  CacheInv'
    BY <1>5, SharePrefixInv
  <1>6. CASE UNCHANGED vars
    BY <1>6 DEF vars, CacheInv, TypeOK, DeadIsEmpty, BlocksAccounted, Users
  <1> QED
    BY <1>1, <1>2, <1>3, <1>4, <1>5, <1>6 DEF Next

\* TypeOK, the counts and the emptiness of freed sequences hold together.
THEOREM Invariance == Spec => []CacheInv
  <1> QED
    BY InitInv, StepInv, PTL DEF Spec

\* The count of every block is the number of its users, in every reachable state
\* of a cache of any size (node/kv_cache.py's reference counting).
THEOREM BlocksAlwaysAccounted == Spec => []BlocksAccounted
  <1>1. CacheInv => BlocksAccounted
    BY DEF CacheInv
  <1> QED
    BY <1>1, Invariance, PTL

-----------------------------------------------------------------------------
(* What read counts on. *)

\* A position within a number of blocks is a position within their tokens.
LEMMA Within ==
    ASSUME NEW p \in Nat, NEW len \in Nat, LogicalBlock(p) <= len
    PROVE  p + 1 <= len * BlockSize
  <1>1. p \div BlockSize \in Nat /\ p < (p \div BlockSize + 1) * BlockSize
    BY CacheAssumption
  <1>2. (p \div BlockSize + 1) * BlockSize <= len * BlockSize
    BY <1>1, CacheAssumption DEF LogicalBlock
  <1>3. len * BlockSize \in Nat /\ (p \div BlockSize + 1) * BlockSize \in Nat
    BY <1>1, CacheAssumption
  <1> QED
    BY <1>1, <1>2, <1>3

\* A write leaves the fill level within the table when the table keeps its length.
LEMMA FillAfterWrite ==
    ASSUME TypeOK, FillIsHeld, NEW s \in Sequence, NEW p \in Nat,
           LogicalBlock(p) <= Len(table[s]), Advance(s, p),
           \A r \in Sequence : Len(table'[r]) = Len(table[r])
    PROVE  FillIsHeld'
  <1>1. p + 1 <= Len(table[s]) * BlockSize
    BY Within DEF TypeOK
  <1>2. \A r \in Sequence :
           fill'[r] = IF r = s /\ p + 1 > fill[s] THEN p + 1 ELSE fill[r]
    BY DEF Advance, TypeOK
  <1>3. ASSUME NEW r \in Sequence PROVE fill'[r] <= Len(table'[r]) * BlockSize
    <2>1. fill[r] <= Len(table[r]) * BlockSize
      BY DEF FillIsHeld
    <2>2. CASE r = s /\ p + 1 > fill[s]
      BY <1>1, <1>2, <2>2
    <2>3. CASE ~ (r = s /\ p + 1 > fill[s])
      BY <1>2, <2>1, <2>3
    <2> QED
      BY <2>2, <2>3
  <1> QED
    BY <1>3 DEF FillIsHeld

LEMMA FillInit == Init => FillIsHeld
  BY CacheAssumption DEF Init, FillIsHeld

LEMMA FillStep == CacheInv /\ FillIsHeld /\ [Next]_vars => FillIsHeld'
  <1> SUFFICES ASSUME CacheInv, FillIsHeld, [Next]_vars PROVE FillIsHeld'
    OBVIOUS
  <1> USE DEF CacheInv
  <1>0. CacheInv'
    BY StepInv
  <1>a. \A r \in Sequence : Len(table'[r]) \in Nat
    BY <1>0 DEF TypeOK
  <1>1. ASSUME NEW s \in Sequence, NEW n \in 0 .. MaxTokens, Allocate(s, n) PROVE FillIsHeld'
    <2>1. \A r \in Sequence : r # s => fill'[r] = fill[r] /\ table'[r] = table[r]
      BY <1>1 DEF Allocate, TypeOK
    <2>2. fill'[s] = 0
      BY <1>1 DEF Allocate, TypeOK
    <2>3. 0 <= Len(table'[s]) * BlockSize
      BY <1>a, CacheAssumption
    <2> QED
      BY <2>1, <2>2, <2>3 DEF FillIsHeld
  <1>2. ASSUME NEW s \in Sequence, Free(s) PROVE FillIsHeld'
    <2>1. \A r \in Sequence : r # s => fill'[r] = fill[r] /\ table'[r] = table[r]
      BY <1>2 DEF Free, TypeOK
    <2>2. fill'[s] = 0
      BY <1>2 DEF Free, TypeOK
    <2>3. 0 <= Len(table'[s]) * BlockSize
      BY <1>a, CacheAssumption
    <2> QED
      BY <2>1, <2>2, <2>3 DEF FillIsHeld
  <1>3. ASSUME NEW s \in Sequence, NEW l \in Layer, NEW p \in 0 .. MaxTokens - 1, NEW v \in Value,
               Write(s, l, p, v)
        PROVE  FillIsHeld'
    BY <1>3, FillAfterWrite DEF Write
  <1>4. ASSUME NEW s \in Sequence, NEW l \in Layer, NEW p \in 0 .. MaxTokens - 1, NEW v \in Value,
               WriteClone(s, l, p, v)
        PROVE  FillIsHeld'
    <2>1. ASSUME NEW r \in Sequence PROVE Len(table'[r]) = Len(table[r])
      <3>1. PICK new \in free :
               table' = [table EXCEPT ![s] = [table[s] EXCEPT ![LogicalBlock(p)] = new]]
        BY <1>4 DEF WriteClone
      <3>2. table[s] \in Seq(Block) /\ new \in Block
        BY DEF TypeOK
      <3>3. Len([table[s] EXCEPT ![LogicalBlock(p)] = new]) = Len(table[s])
        BY <3>2
      <3> QED
        BY <3>1, <3>3 DEF TypeOK
    <2> QED
      BY <1>4, <2>1, FillAfterWrite DEF WriteClone
  <1>5. ASSUME NEW s \in Sequence, NEW r \in Sequence, NEW n \in 0 .. MaxTokens, SharePrefix(s, r, n)
        PROVE  FillIsHeld'
    <2>1. \A q \in Sequence : q # r => fill'[q] = fill[q] /\ table'[q] = table[q]
      BY <1>5 DEF SharePrefix, TypeOK
    <2>2. fill'[r] = n /\ table'[r] = SubSeq(table[s], 1, BlocksFor(n))
      BY <1>5 DEF SharePrefix, TypeOK
    <2>3. Len(table'[r]) = BlocksFor(n)
      <3>1. table[s] \in Seq(Block) /\ BlocksFor(n) \in Nat
        BY Blocks DEF TypeOK
      <3>2. BlocksFor(n) <= Len(table[s])
        BY <1>5 DEF SharePrefix
      <3>3. Len(SubSeq(table[s], 1, BlocksFor(n))) = BlocksFor(n)
        BY <3>1, <3>2
      <3> QED
        BY <2>2, <3>3
    <2>4. n <= Len(table'[r]) * BlockSize
      BY <2>3, Blocks
    <2> QED
      BY <2>1, <2>2, <2>4 DEF FillIsHeld
  <1>6. CASE UNCHANGED vars
    BY <1>6 DEF vars, FillIsHeld
  <1> QED
    BY <1>1, <1>2, <1>3, <1>4, <1>5, <1>6 DEF Next

\* Every token that read counts, written or inherited, lies in a block of its
\* sequence, for every block size.
THEOREM FillAlwaysHeld == Spec => []FillIsHeld
  <1>1. Init => FillIsHeld
    BY FillInit
  <1>2. CacheInv /\ FillIsHeld /\ [Next]_vars => FillIsHeld'
    BY FillStep
  <1> QED
    BY <1>1, <1>2, Invariance, PTL DEF Spec

-----------------------------------------------------------------------------
(* The cache implements private pages. *)

\* The blocks of a table are pages, as many as the table has.
LEMMA PagesType ==
    ASSUME NEW t \in Seq(Block), NEW st \in [Block -> Content]
    PROVE  /\ [i \in 1 .. Len(t) |-> st[t[i]]] \in Seq(Content)
           /\ Len([i \in 1 .. Len(t) |-> st[t[i]]]) = Len(t)
  <1> DEFINE pages == [i \in 1 .. Len(t) |-> st[t[i]]]
  <1>1. \A i \in 1 .. Len(t) : t[i] \in Block
    BY ElementOfSeq
  <1>2. Len(t) \in Nat /\ pages \in [1 .. Len(t) -> Content]
    BY <1>1
  <1>3. pages \in Seq(Content)
    BY <1>2, SeqDef
  <1>4. Len(pages) = Len(t)
    BY <1>2, <1>3, LenProperties
  <1> QED
    BY <1>3, <1>4

\* The pages of a sequence are the blocks of its table.
LEMMA PagesOf ==
    ASSUME TypeOK, NEW s \in Sequence
    PROVE  /\ OwnPages[s] = [i \in 1 .. Len(table[s]) |-> store[table[s][i]]]
           /\ OwnPages[s] \in Seq(Content)
           /\ Len(OwnPages[s]) = Len(table[s])
  <1>1. table[s] \in Seq(Block) /\ store \in [Block -> Content]
    BY DEF TypeOK
  <1>2. OwnPages[s] = [i \in 1 .. Len(table[s]) |-> store[table[s][i]]]
    BY DEF OwnPages
  <1> HIDE DEF OwnPages
  <1> QED
    BY <1>1, <1>2, PagesType

\* A sequence whose table and blocks are as before has the pages it had.
LEMMA SamePages ==
    ASSUME TypeOK, TypeOK', NEW s \in Sequence, table'[s] = table[s],
           \A b \in Range(table[s]) : store'[b] = store[b]
    PROVE  OwnPages'[s] = OwnPages[s]
  <1>1. table[s] \in Seq(Block)
    BY DEF TypeOK
  <1>2. \A i \in 1 .. Len(table[s]) : table[s][i] \in Range(table[s])
    BY <1>1 DEF Range
  <1> QED
    BY <1>2 DEF OwnPages

\* Pages change at one sequence when all others have the pages they had.
LEMMA PagesExcept ==
    ASSUME NEW s \in Sequence, \A r \in Sequence : r # s => OwnPages'[r] = OwnPages[r]
    PROVE  OwnPages' = [OwnPages EXCEPT ![s] = OwnPages'[s]]
  <1>1. DOMAIN OwnPages = Sequence /\ OwnPages = [r \in Sequence |-> OwnPages[r]]
    BY DEF OwnPages
  <1>2. OwnPages' = [r \in Sequence |-> OwnPages'[r]]
    BY DEF OwnPages
  <1> HIDE DEF OwnPages
  <1> QED
    BY <1>1, <1>2

\* The pages after a write: entry c of page i of s.
LEMMA WrittenPage ==
    ASSUME CacheInv, CacheInv', NEW s \in Sequence, NEW i \in 1 .. Len(table[s]),
           NEW c \in Cell, NEW v \in Value,
           \A r \in Sequence : r # s => OwnPages'[r] = OwnPages[r],
           OwnPages'[s] = [OwnPages[s] EXCEPT ![i] = [OwnPages[s][i] EXCEPT ![c] = v]],
           s \in live, UNCHANGED live
    PROVE  Private!Put(s)
  <1>1. i \in 1 .. Len(OwnPages[s])
    BY PagesOf DEF CacheInv
  <1>2. OwnPages' = [OwnPages EXCEPT ![s] = OwnPages'[s]]
    BY PagesExcept
  <1> HIDE DEF OwnPages
  <1> QED
    BY <1>1, <1>2 DEF Private!Put

LEMMA InitPages == Init => Private!PagesInit
  BY DEF Init, Private!PagesInit, OwnPages

LEMMA AllocatePages ==
    ASSUME CacheInv, CacheInv', NEW s \in Sequence, NEW n \in Nat, Allocate(s, n)
    PROVE  Private!Open(s)
  <1>1. ASSUME NEW r \in Sequence, r # s PROVE OwnPages'[r] = OwnPages[r]
    <2>1. table'[r] = table[r] /\ store' = store
      BY <1>1 DEF Allocate, CacheInv, TypeOK
    <2> QED
      BY <2>1, SamePages DEF CacheInv
  <1>2. OwnPages' = [OwnPages EXCEPT ![s] = OwnPages'[s]]
    BY <1>1, PagesExcept
  <1>3. OwnPages'[s] \in Seq(Content)
    <2>1. table'[s] \in Seq(Block) /\ store' \in [Block -> Content]
      BY DEF CacheInv, TypeOK
    <2>2. OwnPages'[s] = [i \in 1 .. Len(table'[s]) |-> store'[table'[s][i]]]
      BY DEF OwnPages
    <2> HIDE DEF OwnPages
    <2> QED
      BY <2>1, <2>2, PagesType
  <1>4. s \notin live /\ live' = live \union {s}
    BY DEF Allocate
  <1> HIDE DEF OwnPages
  <1> QED
    BY <1>2, <1>3, <1>4 DEF Private!Open

LEMMA FreePages ==
    ASSUME CacheInv, CacheInv', NEW s \in Sequence, Free(s)
    PROVE  Private!Close(s)
  <1>1. ASSUME NEW r \in Sequence, r # s PROVE OwnPages'[r] = OwnPages[r]
    <2>1. table'[r] = table[r] /\ store' = store
      BY <1>1 DEF Free, CacheInv, TypeOK
    <2> QED
      BY <2>1, SamePages DEF CacheInv
  <1>2. OwnPages' = [OwnPages EXCEPT ![s] = OwnPages'[s]]
    BY <1>1, PagesExcept
  <1>3. OwnPages'[s] = <<>>
    <2>1. table'[s] = <<>>
      BY DEF Free, CacheInv, TypeOK
    <2> QED
      BY <2>1 DEF OwnPages
  <1>4. s \in live /\ live' = live \ {s}
    BY DEF Free
  <1> HIDE DEF OwnPages
  <1> QED
    BY <1>2, <1>3, <1>4 DEF Private!Close

LEMMA SharePrefixPages ==
    ASSUME CacheInv, CacheInv', NEW s \in Sequence, NEW r \in Sequence, NEW n \in Nat,
           SharePrefix(s, r, n)
    PROVE  Private!Inherit(s, r)
  <1> DEFINE k == BlocksFor(n)
  <1>1. ASSUME NEW q \in Sequence, q # r PROVE OwnPages'[q] = OwnPages[q]
    <2>1. table'[q] = table[q] /\ store' = store
      BY <1>1 DEF SharePrefix, CacheInv, TypeOK
    <2> QED
      BY <2>1, SamePages DEF CacheInv
  <1>2. OwnPages' = [OwnPages EXCEPT ![r] = OwnPages'[r]]
    BY <1>1, PagesExcept
  <1>3. /\ table[s] \in Seq(Block)
        /\ k \in 0 .. Len(table[s])
        /\ table'[r] = SubSeq(table[s], 1, k)
        /\ store' = store
    <2>1. table[s] \in Seq(Block) /\ Len(table[s]) \in Nat
      BY DEF CacheInv, TypeOK
    <2>2. k \in Nat
      BY Blocks
    <2>3. k <= Len(table[s]) /\ table' = [table EXCEPT ![r] = SubSeq(table[s], 1, k)] /\ store' = store
      BY DEF SharePrefix
    <2>4. table'[r] = SubSeq(table[s], 1, k)
      BY <2>3 DEF CacheInv, TypeOK
    <2> HIDE DEF k
    <2> QED
      BY <2>1, <2>2, <2>3, <2>4
  <1>4. OwnPages'[r] = SubSeq(OwnPages[s], 1, k)
    <2>1. /\ Len(table'[r]) = k
          /\ \A i \in 1 .. k : table'[r][i] = table[s][i] /\ i \in 1 .. Len(table[s])
      BY <1>3
    <2>2. OwnPages'[r] = [i \in 1 .. k |-> store[table[s][i]]]
      BY <1>3, <2>1 DEF OwnPages
    <2>3. /\ OwnPages[s] \in Seq(Content)
          /\ Len(OwnPages[s]) = Len(table[s])
          /\ OwnPages[s] = [i \in 1 .. Len(table[s]) |-> store[table[s][i]]]
      BY PagesOf DEF CacheInv
    <2>4. SubSeq(OwnPages[s], 1, k) = [i \in 1 .. k |-> OwnPages[s][i]]
      BY <1>3, <2>3
    <2>5. \A i \in 1 .. k : OwnPages[s][i] = store[table[s][i]]
      BY <2>1, <2>3
    <2> QED
      BY <2>2, <2>4, <2>5
  <1>5. s \in live /\ r \notin live /\ live' = live \union {r}
    BY DEF SharePrefix
  <1>6. k \in 0 .. Len(OwnPages[s])
    BY <1>3, PagesOf DEF CacheInv
  <1> HIDE DEF OwnPages, k
  <1> QED
    BY <1>2, <1>4, <1>5, <1>6 DEF Private!Inherit

LEMMA WritePages ==
    ASSUME CacheInv, CacheInv', NEW s \in Sequence, NEW l \in Layer, NEW p \in Nat, NEW v \in Value,
           Write(s, l, p, v)
    PROVE  Private!Put(s)
  <1> DEFINE i == LogicalBlock(p)
             b == table[s][i]
             c == <<l, p % BlockSize>>
  <1>1. table[s] \in Seq(Block) /\ i \in 1 .. Len(table[s]) /\ c \in Cell
    BY Position DEF Write, CacheInv, TypeOK, Cell
  <1>2. b \in Range(table[s])
    BY <1>1 DEF Range
  <1>3. b \in Block /\ refcount[b] = 1 /\ \A r \in Sequence : b \in Range(table[r]) => r = s
    <2>1. b \in Block /\ refcount[b] \in Nat \ {0}
      BY <1>2, Held DEF CacheInv
    <2>2. refcount[b] <= 1
      BY DEF Write
    <2>3. refcount[b] = 1
      BY <2>1, <2>2
    <2> QED
      BY <1>2, <2>1, <2>3, Held DEF CacheInv
  <1>4. table' = table /\ store' = [store EXCEPT ![b] = Put(store[b], l, p, v)]
    BY DEF Write
  <1>5. ASSUME NEW r \in Sequence, r # s PROVE OwnPages'[r] = OwnPages[r]
    <2>1. \A d \in Range(table[r]) : store'[d] = store[d]
      <3>1. b \notin Range(table[r])
        BY <1>3, <1>5
      <3>2. Range(table[r]) \subseteq Block
        BY Held DEF CacheInv
      <3> QED
        BY <1>4, <3>1, <3>2 DEF CacheInv, TypeOK
    <2> QED
      BY <1>4, <2>1, SamePages DEF CacheInv
  <1>6. OwnPages'[s] = [OwnPages[s] EXCEPT ![i] = [OwnPages[s][i] EXCEPT ![c] = v]]
    <2>1. \A j \in 1 .. Len(table[s]) : table[s][j] \in Block /\ (table[s][j] = b <=> j = i)
      BY <1>1, ElementOfSeq DEF CacheInv, BlocksAccounted, IsInjective
    <2>2. OwnPages[s] = [j \in 1 .. Len(table[s]) |-> store[table[s][j]]]
      BY PagesOf DEF CacheInv
    <2>3. OwnPages'[s] = [j \in 1 .. Len(table[s]) |-> store'[table[s][j]]]
      BY <1>4 DEF OwnPages
    <2>4. \A j \in 1 .. Len(table[s]) :
             store'[table[s][j]] = IF j = i THEN [store[b] EXCEPT ![c] = v] ELSE store[table[s][j]]
      BY <1>3, <1>4, <2>1 DEF CacheInv, TypeOK, Put
    <2>5. OwnPages[s][i] = store[b]
      BY <1>1, <2>2
    <2> HIDE DEF i, b, c, OwnPages
    <2> QED
      BY ZenonT(40), <1>1, <2>2, <2>3, <2>4, <2>5
  <1>7. s \in live /\ UNCHANGED live
    BY DEF Write
  <1> HIDE DEF i, b, c, OwnPages
  <1> QED
    BY <1>1, <1>5, <1>6, <1>7, WrittenPage

LEMMA WriteClonePages ==
    ASSUME CacheInv, CacheInv', NEW s \in Sequence, NEW l \in Layer, NEW p \in Nat, NEW v \in Value,
           WriteClone(s, l, p, v)
    PROVE  Private!Put(s)
  <1> DEFINE i == LogicalBlock(p)
             b == table[s][i]
             c == <<l, p % BlockSize>>
  <1>1. table[s] \in Seq(Block) /\ i \in 1 .. Len(table[s]) /\ c \in Cell
    BY Position DEF WriteClone, CacheInv, TypeOK, Cell
  <1>2. PICK new \in free :
           /\ table' = [table EXCEPT ![s] = [table[s] EXCEPT ![i] = new]]
           /\ store' = [store EXCEPT ![new] = Put(store[b], l, p, v)]
    BY DEF WriteClone
  <1>3. new \in Block /\ \A r \in Sequence : new \notin Range(table[r])
    BY Held DEF CacheInv, TypeOK
  <1>4. ASSUME NEW r \in Sequence PROVE \A d \in Range(table[r]) : store'[d] = store[d]
    <2>1. Range(table[r]) \subseteq Block
      BY Held DEF CacheInv
    <2> QED
      BY <1>2, <1>3, <2>1 DEF CacheInv, TypeOK
  <1>5. ASSUME NEW r \in Sequence, r # s PROVE OwnPages'[r] = OwnPages[r]
    <2>1. table'[r] = table[r]
      BY <1>2, <1>5 DEF CacheInv, TypeOK
    <2> QED
      BY <1>4, <2>1, SamePages DEF CacheInv
  <1>6. OwnPages'[s] = [OwnPages[s] EXCEPT ![i] = [OwnPages[s][i] EXCEPT ![c] = v]]
    <2>1. OwnPages[s] = [j \in 1 .. Len(table[s]) |-> store[table[s][j]]]
      BY PagesOf DEF CacheInv
    <2>2. /\ table'[s] \in Seq(Block)
          /\ Len(table'[s]) = Len(table[s])
          /\ \A j \in 1 .. Len(table[s]) : table'[s][j] = IF j = i THEN new ELSE table[s][j]
      <3>1. table'[s] = [table[s] EXCEPT ![i] = new]
        BY <1>2 DEF CacheInv, TypeOK
      <3> HIDE DEF i, b, c
      <3> QED
        BY <1>1, <1>3, <3>1, ExceptSeq
    <2>3. OwnPages'[s] = [j \in 1 .. Len(table[s]) |-> store'[table'[s][j]]]
      BY <2>2 DEF OwnPages
    <2>4. store'[new] = [store[b] EXCEPT ![c] = v]
      BY <1>2, <1>3 DEF CacheInv, TypeOK, Put
    <2>5. \A j \in 1 .. Len(table[s]) : store'[table[s][j]] = store[table[s][j]]
      BY <1>1, <1>4 DEF Range
    <2>6. OwnPages[s][i] = store[b]
      BY <1>1, <2>1
    <2> HIDE DEF i, b, c, OwnPages
    <2>7. \A j \in 1 .. Len(table[s]) :
             store'[table'[s][j]] = IF j = i THEN [store[b] EXCEPT ![c] = v] ELSE store[table[s][j]]
      BY <2>2, <2>4, <2>5
    <2>8. OwnPages'[s] = [j \in 1 .. Len(table[s]) |-> store'[table'[s][j]]]
      BY <2>2, <2>3
    <2> QED
      BY ZenonT(40), <1>1, <2>1, <2>6, <2>7, <2>8
  <1>7. s \in live /\ UNCHANGED live
    BY DEF WriteClone
  <1> HIDE DEF i, b, c, OwnPages
  <1> QED
    BY <1>1, <1>5, <1>6, <1>7, WrittenPage

LEMMA StepPages == CacheInv /\ CacheInv' /\ [Next]_vars => [Private!PagesNext]_Private!pvars
  <1> SUFFICES ASSUME CacheInv, CacheInv', [Next]_vars PROVE [Private!PagesNext]_Private!pvars
    OBVIOUS
  <1> HIDE DEF OwnPages
  <1>1. ASSUME NEW s \in Sequence, NEW n \in 0 .. MaxTokens, Allocate(s, n) PROVE Private!PagesNext
    BY <1>1, AllocatePages DEF Private!PagesNext
  <1>2. ASSUME NEW s \in Sequence, Free(s) PROVE Private!PagesNext
    BY <1>2, FreePages DEF Private!PagesNext
  <1>3. ASSUME NEW s \in Sequence, NEW l \in Layer, NEW p \in 0 .. MaxTokens - 1, NEW v \in Value,
               Write(s, l, p, v) \/ WriteClone(s, l, p, v)
        PROVE  Private!PagesNext
    BY <1>3, WritePages, WriteClonePages DEF Private!PagesNext
  <1>4. ASSUME NEW s \in Sequence, NEW r \in Sequence, NEW n \in 0 .. MaxTokens, SharePrefix(s, r, n)
        PROVE  Private!PagesNext
    BY <1>4, SharePrefixPages DEF Private!PagesNext
  <1>5. CASE UNCHANGED vars
    BY <1>5 DEF vars, Private!pvars, OwnPages
  <1> QED
    BY <1>1, <1>2, <1>3, <1>4, <1>5 DEF Next

\* Sharing cannot be seen: with copy-on-write, every sequence behaves as if its
\* pages were its own, in a cache of any size.
THEOREM CacheImplementsPrivatePages == Spec => ImplementsPrivatePages
  <1>1. Init => Private!PagesInit
    BY InitPages
  <1>2. CacheInv /\ CacheInv' /\ [Next]_vars => [Private!PagesNext]_Private!pvars
    BY StepPages
  <1> QED
    BY <1>1, <1>2, Invariance, PTL DEF Spec, ImplementsPrivatePages, Private!PagesSpec
=============================================================================
