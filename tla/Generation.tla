------------------------------- MODULE Generation -------------------------------
(***************************************************************************)
(* The shards of a model and the generation of text (node/shard_manager.py).  *)
(* Shards load one by one; a shard is a slice of the list of layers that the   *)
(* discovery finds in the full model.  When one shard holds them all, it        *)
(* generates for one prompt or for a batch; a first shard that is not the last   *)
(* returns nothing, and so do the others.  Probabilities are integer weights.   *)
(***************************************************************************)
EXTENDS Integers, Sequences, FiniteSets, SequencesExt, FiniteSetsExt

CONSTANTS
    Models,       \* full models: lists of layers, and the other parts that are found
    ShardCounts,  \* num_shards
    Token,
    EOS,
    Pad,          \* pad_token_id
    Prompts,      \* token sequences
    First,        \* [padded prompt -> [token -> weight]]
    Later,        \* [last token -> [token -> weight]]
    TopP,         \* top_p as a weight
    MaxNewTokens,
    BatchSize

ASSUME GenerationAssumption ==
    /\ \A m \in Models : m.configured \in Nat
    /\ ShardCounts \subseteq Nat \ {0}
    /\ MaxNewTokens \in Nat

VARIABLES
    model,        \* the full model
    shards,       \* num_shards
    held,         \* [shard -> the layers it has loaded], for the loaded shards
    prompts,      \* the padded prompts of the batch; none when idle
    rows,         \* generated_ids
    ended         \* the rows that have ended

generationVars == <<model, shards, held, prompts, rows, ended>>

\* _find_layers: the list the class name maps to; else the first list of more than
\* two modules with attention; else the largest list.
FindLayers(m) ==
    LET blocks == {i \in DOMAIN m.lists : Len(m.lists[i].layers) > 2 /\ m.lists[i].attention}
        longest == {i \in DOMAIN m.lists :
                       /\ \A k \in DOMAIN m.lists : Len(m.lists[k].layers) <= Len(m.lists[i].layers)
                       /\ \A k \in 1 .. i - 1 : Len(m.lists[k].layers) < Len(m.lists[i].layers)}
    IN IF m.mapped # 0 THEN m.lists[m.mapped].layers
       ELSE m.lists[IF blocks # {} THEN Min(blocks) ELSE CHOOSE i \in longest : TRUE].layers

\* A premise of the theorem about the slices: the discovery finds the layers of every
\* model, in their order.
LayersFound == \A m \in Models : FindLayers(m) = [i \in 1 .. m.configured |-> i]

SliceStart(layers, n, s) == s * (layers \div n) + (IF s < layers % n THEN s ELSE layers % n)

\* A defective variant of the next definition, which no specification uses.
SliceEndRounded_Bad(layers, n, s) == SliceStart(layers, n, s) + (layers \div n) + 1

\* _compute_slice: the first layers % n shards have one layer more.
SliceEnd(layers, n, s) ==
    SliceStart(layers, n, s) + (layers \div n) + (IF s < layers % n THEN 1 ELSE 0)

GenerationInit ==
    /\ model \in Models
    /\ shards \in ShardCounts
    /\ held = [s \in {} |-> {}]
    /\ prompts = <<>> /\ rows = <<>> /\ ended = {}

\* The first shard needs the embedding, the last one the final norm and the head; a
\* load that does not find them raises.
Wrappable(m, s) ==
    /\ s = 0 => "embedding" \in m.parts
    /\ s = shards - 1 => {"norm", "head"} \subseteq m.parts

\* load: the slice is computed from the configuration, and cut out of the list found.
Load(s) ==
    /\ s \notin DOMAIN held /\ Wrappable(model, s)
    /\ LET found == FindLayers(model)
           start == SliceStart(model.configured, shards, s)
           end == SliceEnd(model.configured, shards, s)
       IN held' = [k \in DOMAIN held \union {s} |->
                     IF k = s THEN {found[i] : i \in {j \in DOMAIN found : start < j /\ j <= end}}
                     ELSE held[k]]
    /\ UNCHANGED <<model, shards, prompts, rows, ended>>

\* The tokens of the nucleus: the heaviest, and those before which, in the order of
\* decreasing weight, less than TopP has been added up.
Nucleus(w) ==
    LET heavier(x) == MapThenSumSet(LAMBDA y : w[y], {y \in Token : w[y] > w[x]})
    IN {x \in Token : w[x] > 0 /\ (heavier(x) = 0 \/ heavier(x) < TopP)}

\* What is sampled from: the whole prompt for the first token of a row; after that
\* the last token, which goes through the layers alone.
Sampled(prompt, row) == Nucleus(IF row = <<>> THEN First[prompt] ELSE Later[row[Len(row)]])

LeftPadded(p, size) == [i \in 1 .. size - Len(p) |-> Pad] \o p

StartBatch(asked) ==
    /\ shards = 1 /\ 0 \in DOMAIN held
    /\ prompts = <<>>
    /\ LET size == Max({Len(asked[i]) : i \in DOMAIN asked})
       IN prompts' = [i \in DOMAIN asked |-> LeftPadded(asked[i], size)]
    /\ rows' = [i \in DOMAIN asked |-> <<>>]
    /\ ended' = {}
    /\ UNCHANGED <<model, shards, held>>

GenerateOne(prompt) == StartBatch(<<prompt>>)
GenerateBatch(asked) == StartBatch(asked)

\* A defective variant of the next definition, which no specification uses.
SampleIgnoresEnd_Bad ==
    /\ prompts # <<>> /\ ended # DOMAIN rows
    /\ \A i \in DOMAIN rows : Len(rows[i]) < MaxNewTokens
    /\ \E next \in [DOMAIN rows -> Token] :
          /\ \A i \in DOMAIN rows : next[i] \in Sampled(prompts[i], rows[i])
          /\ rows' = [i \in DOMAIN rows |-> Append(rows[i], next[i])]
          /\ ended' = ended \union {i \in DOMAIN rows : next[i] = EOS}
    /\ UNCHANGED <<model, shards, held, prompts>>

\* An iteration samples a token for every row and appends it to the rows that have
\* not ended; what an ended row goes on with nobody records.
Sample ==
    /\ prompts # <<>> /\ ended # DOMAIN rows
    /\ \A i \in DOMAIN rows : Len(rows[i]) < MaxNewTokens
    /\ \E next \in [DOMAIN rows -> Token] :
          /\ \A i \in DOMAIN rows : next[i] \in Sampled(prompts[i], rows[i])
          /\ rows' = [i \in DOMAIN rows |-> IF i \in ended THEN rows[i] ELSE Append(rows[i], next[i])]
          /\ ended' = ended \union {i \in DOMAIN rows : next[i] = EOS}
    /\ UNCHANGED <<model, shards, held, prompts>>

Ended == prompts # <<>> /\ (ended = DOMAIN rows \/ \E i \in DOMAIN rows : Len(rows[i]) = MaxNewTokens)

Return ==
    /\ Ended
    /\ prompts' = <<>> /\ rows' = <<>> /\ ended' = {}
    /\ UNCHANGED <<model, shards, held>>

GenerationNext ==
    \/ \E s \in 0 .. shards - 1 : Load(s)
    \/ \E p \in Prompts : GenerateOne(p)
    \/ \E asked \in [1 .. BatchSize -> Prompts] : GenerateBatch(asked)
    \/ Sample \/ Return

GenerationSpec == GenerationInit /\ [][GenerationNext]_generationVars
-----------------------------------------------------------------------------
(* Properties. *)

\* When all shards are loaded each layer of the model is in exactly one of them, in
\* the order of the shards, and no shard has more than one layer more than another.
LayersHeldOnce ==
    DOMAIN held = 0 .. shards - 1 =>
        /\ UNION {held[s] : s \in DOMAIN held} = 1 .. model.configured
        /\ \A s, t \in DOMAIN held :
              /\ s < t => \A x \in held[s], y \in held[t] : x < y
              /\ Cardinality(held[s]) <= Cardinality(held[t]) + 1

\* A row of a batch is what generating for its padded prompt alone could have given:
\* no row is cut short, prolonged or steered by another that ends before it.
RowsAreRuns ==
    \A i \in DOMAIN rows :
        /\ \A k \in 1 .. Len(rows[i]) :
              /\ rows[i][k] \in Sampled(prompts[i], SubSeq(rows[i], 1, k - 1))
              /\ k < Len(rows[i]) => rows[i][k] # EOS
        /\ Ended => rows[i][Len(rows[i])] = EOS \/ Len(rows[i]) = MaxNewTokens
=============================================================================
