----------------------------- MODULE PagedKVCache -----------------------------
(***************************************************************************)
(* The paged KV cache (node/kv_cache.py).                                  *)
(*                                                                         *)
(* Sequences own tables of physical blocks; a prefix of one table may be    *)
(* shared with a new sequence, and a write to a shared block clones it      *)
(* first.  A call that raises (an unknown or a known sequence, a position    *)
(* beyond the table, no free block) changes nothing.                       *)
(***************************************************************************)
EXTENDS Integers, FiniteSets, Sequences, Functions

CONSTANTS
    Sequence,   \* the seq_ids
    Block,      \* the physical blocks, max_blocks many
    BlockSize,  \* block_size
    Layer,      \* the layers of the model
    Value,      \* pairs of a key and a value
    Zero,       \* the pair the store is made of
    MaxTokens   \* bound: tokens asked for in one call

ASSUME CacheAssumption ==
    /\ IsFiniteSet(Sequence)
    /\ BlockSize \in Nat \ {0}
    /\ Zero \in Value
    /\ MaxTokens \in Nat

VARIABLES
    free,      \* _free_blocks
    live,      \* the keys of _block_tables
    table,     \* _block_tables
    refcount,  \* _block_refcounts
    fill,      \* _seq_fill
    store      \* _store

vars == <<free, live, table, refcount, fill, store>>

Cell == Layer \X (0 .. BlockSize - 1)
Content == [Cell -> Value]

-----------------------------------------------------------------------------
\* The names that end in _Bad are defective variants of the definition that
\* follows them; no specification uses them.  Each breaks one property below,
\* which shows that the property says something about the code.

Init ==
    /\ free = Block
    /\ live = {}
    /\ table = [s \in Sequence |-> <<>>]
    /\ refcount = [b \in Block |-> 0]
    /\ fill = [s \in Sequence |-> 0]
    /\ store = [b \in Block |-> [c \in Cell |-> Zero]]

\* math.ceil(num_tokens / block_size)
BlocksFor(tokens) == (tokens + BlockSize - 1) \div BlockSize

\* The references to some blocks change by d; a block that loses its last one is free.
Count(blocks, d) ==
    refcount' = [b \in Block |-> IF b \in blocks THEN refcount[b] + d ELSE refcount[b]]
Unreferenced(blocks) == {b \in blocks : refcount[b] = 1}

\* allocate: a table of fresh blocks, whose content is what the last owner left.
Allocate(s, n) ==
    /\ s \notin live
    /\ BlocksFor(n) <= Cardinality(free)
    /\ \E t \in [1 .. BlocksFor(n) -> free] :
          /\ IsInjective(t)
          /\ table' = [table EXCEPT ![s] = t]
          /\ free' = free \ Range(t)
          /\ Count(Range(t), 1)
    /\ live' = live \union {s}
    /\ fill' = [fill EXCEPT ![s] = 0]
    /\ UNCHANGED store

FreeAll_Bad(s) ==
    /\ s \in live
    /\ Count(Range(table[s]), -1)
    /\ free' = free \union Range(table[s])
    /\ table' = [table EXCEPT ![s] = <<>>]
    /\ live' = live \ {s}
    /\ fill' = [fill EXCEPT ![s] = 0]
    /\ UNCHANGED store

\* free: an unknown sequence is ignored.
Free(s) ==
    /\ s \in live
    /\ Count(Range(table[s]), -1)
    /\ free' = free \union Unreferenced(Range(table[s]))
    /\ table' = [table EXCEPT ![s] = <<>>]
    /\ live' = live \ {s}
    /\ fill' = [fill EXCEPT ![s] = 0]
    /\ UNCHANGED store

\* The pair v goes to layer l of position p, which is in the i-th block of s.
LogicalBlock(p) == (p \div BlockSize) + 1
Advance(s, p) == fill' = [fill EXCEPT ![s] = IF p + 1 > fill[s] THEN p + 1 ELSE fill[s]]
Put(content, l, p, v) == [content EXCEPT ![<<l, p % BlockSize>>] = v]

WriteShared_Bad(s, l, p, v) ==
    LET b == table[s][LogicalBlock(p)]
    IN /\ s \in live
       /\ LogicalBlock(p) <= Len(table[s])
       /\ store' = [store EXCEPT ![b] = Put(store[b], l, p, v)]
       /\ Advance(s, p)
       /\ UNCHANGED <<free, live, table, refcount>>

\* write, to a block that no other sequence has.
Write(s, l, p, v) ==
    LET b == table[s][LogicalBlock(p)]
    IN /\ s \in live
       /\ LogicalBlock(p) <= Len(table[s])
       /\ refcount[b] <= 1
       /\ store' = [store EXCEPT ![b] = Put(store[b], l, p, v)]
       /\ Advance(s, p)
       /\ UNCHANGED <<free, live, table, refcount>>

\* write, to a shared block: _cow_clone puts a copy in its place.
WriteClone(s, l, p, v) ==
    LET b == table[s][LogicalBlock(p)]
    IN /\ s \in live
       /\ LogicalBlock(p) <= Len(table[s])
       /\ refcount[b] > 1
       /\ \E new \in free :
             /\ free' = free \ {new}
             /\ refcount' = [refcount EXCEPT ![b] = refcount[b] - 1, ![new] = refcount[new] + 1]
             /\ table' = [table EXCEPT ![s] = [table[s] EXCEPT ![LogicalBlock(p)] = new]]
             /\ store' = [store EXCEPT ![new] = Put(store[b], l, p, v)]
       /\ Advance(s, p)
       /\ UNCHANGED live

\* share_prefix: r gets the blocks of the first n tokens of s, written or not.
SharePrefix(s, r, n) ==
    LET shared == SubSeq(table[s], 1, BlocksFor(n))
    IN /\ s \in live
       /\ r \notin live
       /\ BlocksFor(n) <= Len(table[s])
       /\ Count(Range(shared), 1)
       /\ table' = [table EXCEPT ![r] = shared]
       /\ live' = live \union {r}
       /\ fill' = [fill EXCEPT ![r] = n]
       /\ UNCHANGED <<free, store>>

Next ==
    \/ \E s \in Sequence, n \in 0 .. MaxTokens : Allocate(s, n)
    \/ \E s \in Sequence : Free(s)
    \/ \E s \in Sequence, l \in Layer, p \in 0 .. MaxTokens - 1, v \in Value :
          Write(s, l, p, v) \/ WriteClone(s, l, p, v)
    \/ \E s, r \in Sequence, n \in 0 .. MaxTokens : SharePrefix(s, r, n)

Spec == Init /\ [][Next]_vars

-----------------------------------------------------------------------------
(* Properties. *)

TypeOK ==
    /\ free \subseteq Block
    /\ live \subseteq Sequence
    /\ table \in [Sequence -> Seq(Block)]
    /\ refcount \in [Block -> Nat]
    /\ fill \in [Sequence -> Nat]
    /\ store \in [Block -> Content]

Users(b) == {s \in Sequence : b \in Range(table[s])}

\* Whatever is allocated, shared, cloned and freed in whatever order, the count
\* of a block is the number of sequences that have it, each of them once, and a
\* block is free exactly when nobody has it: none leaks, none is freed twice,
\* none is handed out while in use.
BlocksAccounted ==
    /\ \A s \in Sequence : IsInjective(table[s])
    /\ \A b \in Block : refcount[b] = Cardinality(Users(b))
    /\ free = {b \in Block : refcount[b] = 0}

\* read finds every token it counts: no fill level, written or inherited, is
\* beyond the blocks of its sequence.
FillIsHeld ==
    \A s \in Sequence : fill[s] <= Len(table[s]) * BlockSize

\* The refinement mapping: the pages of a sequence are the blocks of its table.
OwnPages == [s \in Sequence |-> [i \in 1 .. Len(table[s]) |-> store[table[s][i]]]]

Private == INSTANCE PrivatePages WITH
    Owner <- Sequence, Page <- Content, open <- live, pages <- OwnPages

\* The cache implements private pages: sharing cannot be seen.  A write is seen
\* by its own sequence only, and an inheritor keeps what it inherited whatever
\* its ancestor, or a new owner of freed blocks, does afterwards.
ImplementsPrivatePages == Private!PagesSpec
=============================================================================
