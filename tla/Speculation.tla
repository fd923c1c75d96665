------------------------------- MODULE Speculation -------------------------------
(***************************************************************************)
(* Speculative decoding (node/speculative_decoder.py): a draft model proposes  *)
(* up to DraftSteps tokens, the verifier accepts a prefix of them, puts one     *)
(* token of its own behind, and so on.  Distributions are integer weights that  *)
(* add up to Total and depend on the last token; a batch has one sequence.      *)
(* An iteration of the decode loop runs without interruption and is one step.   *)
(***************************************************************************)
EXTENDS Naturals, Sequences, FiniteSets, SequencesExt, FiniteSetsExt

CONSTANTS
    Word,          \* the tokens
    Start,         \* the last token of the prompt
    EndWord,           \* eos_token_id
    Total,         \* the weight of a distribution
    Target,        \* [last token -> [token -> weight]] of the verifier
    Draft,         \* the same of the draft model
    TopK,          \* top_k of the draft model, 0 for none
    DraftSteps,    \* draft_steps
    Budget      \* max_tokens

\* The weight of the tokens in s.
Weight(f, s) == MapThenSumSet(LAMBDA x : f[x], s)

ASSUME SpeculationAssumption ==
    /\ IsFiniteSet(Word)
    /\ {Total, TopK, DraftSteps, Budget} \subseteq Nat
    /\ \A w \in Word \union {Start} : \A f \in {Target[w], Draft[w]} :
          f \in [Word -> Nat] /\ Weight(f, Word) = Total

VARIABLES
    speculative,   \* draft_model is not None
    decoded,     \* all_new_tokens, which is what context has beyond the prompt
    decodingEnded

speculationVars == <<speculative, decoded, decodingEnded>>

LastWord(q) == IF q = <<>> THEN Start ELSE q[Len(q)]
Lesser(a, b) == IF a < b THEN a ELSE b

\* What sample leaves of a distribution: the TopK heaviest tokens and those that
\* weigh as much.  get_probs reports the distribution as it was.
Top(p) ==
    IF TopK = 0 THEN {x \in Word : p[x] > 0}
    ELSE {x \in Word : p[x] > 0 /\ Cardinality({y \in Word : p[y] > p[x]}) < TopK}

\* Weight of drawing x from the draft model and accepting it: alpha = min(1, q / p).
Accepted(p, q, x) == IF x \in Top(p) THEN Lesser(p[x], q[x]) ELSE 0
Rejected(p, q, x) == IF x \in Top(p) THEN p[x] - Lesser(p[x], q[x]) ELSE 0

\* A defective variant of the next definition, which no specification uses.
ResidualIsTarget_Bad(p, q) == q

\* The distribution of the correction: max(0, q - p), or q where that is zero.
Residual(p, q) ==
    LET r == [x \in Word |-> IF q[x] > p[x] THEN q[x] - p[x] ELSE 0]
    IN IF \A x \in Word : r[x] = 0 THEN q ELSE r

\* generate_draft: the sequences of k tokens that the draft model can propose.
Drafts(k) ==
    {d \in [1 .. k -> Word] :
        \A i \in 1 .. k : d[i] \in Top(Draft[LastWord(decoded \o SubSeq(d, 1, i - 1))])}

\* verify_and_accept: the first n tokens of the draft, then a correction if one was
\* rejected, or a bonus token of the verifier.
Outcomes(d) ==
    UNION {LET here == LastWord(decoded \o SubSeq(d, 1, n))
               p == Draft[here]
               q == Target[here]
               next == IF n = Len(d) THEN {x \in Word : q[x] > 0}
                       ELSE IF Rejected(p, q, d[n + 1]) > 0 THEN {x \in Word : Residual(p, q)[x] > 0}
                       ELSE {}
           IN {SubSeq(d, 1, n) \o <<x>> : x \in next}
           : n \in {m \in 0 .. Len(d) :
                       \A i \in 1 .. m :
                          LET before == LastWord(decoded \o SubSeq(d, 1, i - 1))
                          IN Accepted(Draft[before], Target[before], d[i]) > 0}}

SpeculationInit == speculative \in BOOLEAN /\ decoded = <<>> /\ decodingEnded = FALSE

\* An iteration clips what it adds to the budget, and looks for the end of the
\* sequence anywhere in it, not only at its end.
Speculate ==
    /\ speculative /\ ~decodingEnded /\ Len(decoded) < Budget
    /\ LET left == Budget - Len(decoded)
       IN \E d \in Drafts(Lesser(DraftSteps, left)) : \E tokens \in Outcomes(d) :
             LET kept == SubSeq(tokens, 1, Lesser(Len(tokens), left))
             IN /\ decoded' = decoded \o kept
                /\ decodingEnded' = (EndWord \in ToSet(kept) \/ Len(decoded') = Budget)
    /\ UNCHANGED speculative

\* The fallback without a draft model.
Decode ==
    /\ ~speculative /\ ~decodingEnded /\ Len(decoded) < Budget
    /\ \E x \in Word :
          /\ Target[LastWord(decoded)][x] > 0
          /\ decoded' = Append(decoded, x)
          /\ decodingEnded' = (x = EndWord \/ Len(decoded') = Budget)
    /\ UNCHANGED speculative

\* Another prompt, decoded with or without a draft model.
Restart ==
    /\ decodingEnded
    /\ speculative' \in BOOLEAN /\ decoded' = <<>> /\ decodingEnded' = FALSE

SpeculationNext == Speculate \/ Decode \/ Restart

SpeculationSpec == SpeculationInit /\ [][SpeculationNext]_speculationVars

-----------------------------------------------------------------------------
(* Properties. *)

\* The algorithm is lossless: behind every prefix the next token has exactly the
\* verifier's distribution, whatever the draft model proposes; and no token comes
\* out that the verifier would never produce there, or beyond the budget.
Lossless ==
    LET q == Target[LastWord(decoded)]
        p == Draft[LastWord(decoded)]
        r == Residual(p, q)
        rejections == [x \in Word |-> Rejected(p, q, x)]
    IN /\ \A x \in Word :
             Total * (Accepted(p, q, x) * Weight(r, Word) + Weight(rejections, Word) * r[x])
                 = q[x] * Weight(p, Top(p)) * Weight(r, Word)
       /\ \A i \in 1 .. Len(decoded) : Target[LastWord(SubSeq(decoded, 1, i - 1))][decoded[i]] > 0
       /\ Len(decoded) <= Budget
=============================================================================
