------------------------------- MODULE Attestation -------------------------------
(***************************************************************************)
(* Proofs of inference: a node commits to what it computed                    *)
(* (node/zk_verifier.py), binds the tokens with a Merkle tree (node/merkle.py) *)
(* and a settlement layer decides on the result (node/verification_pipeline.py). *)
(* A hash is a tuple that holds what was hashed, a signature names its key, and *)
(* the sketches of two samples are consistent when the samples are Close.  The   *)
(* fields of a proof that nothing reads, token_count, node_id and its time, are   *)
(* left out.                                                                  *)
(***************************************************************************)
EXTENDS Integers, Sequences, FiniteSets, FiniteSetsExt

CONSTANTS
    Prover,     \* the nodes that prove what they computed
    Inquiry,    \* the jobs
    Asked,      \* [job -> the token ids of its prompt]
    Output,     \* the token sequences nodes produce and clients supply
    Activations,\* the activation samples nodes commit to
    Fresh,      \* the samples an auditor may get later
    Close       \* the pairs of different samples whose sketches are similar enough

\* The tokens that occur.
Tokens == UNION {{o[i] : i \in DOMAIN o} : o \in Output}

ASSUME AttestationAssumption ==
    /\ IsFiniteSet(Prover)
    /\ \A o \in Output : o \in Seq(Tokens) /\ o # <<>>

VARIABLE
    proofs      \* the last proof that each node built, as a set of at most one

attestationVars == proofs

\* An optional argument, as a set of at most one.
Maybe(values) == {{}} \union {{x} : x \in values}

Hash(x) == <<"hash", x>>
Combine(left, right) == <<"hash", left, right>>

\* The sizes a tree may have, by the number of its levels above the leaves.
Doubled[d \in Nat] == IF d = 0 THEN 1 ELSE 2 * Doubled[d - 1]

\* n <<= 1 until there is room for the leaves.
Depth(leaves) ==
    CHOOSE d \in 0 .. Len(leaves) :
        Doubled[d] >= Len(leaves) /\ \A e \in 0 .. d - 1 : Doubled[e] < Len(leaves)

\* The leaves up to the next power of two: the last one is repeated.
Padded(leaves) ==
    [i \in 1 .. Doubled[Depth(leaves)] |-> leaves[IF i <= Len(leaves) THEN i ELSE Len(leaves)]]

\* _build: the levels, from the hashes of the leaves to the one with the root.
Tree(leaves) ==
    LET p == Padded(leaves)
        tree[k \in 1 .. Depth(leaves) + 1] ==
          IF k = 1 THEN [i \in DOMAIN p |-> Hash(p[i])]
          ELSE LET below == tree[k - 1]
               IN [i \in 1 .. Len(below) \div 2 |-> Combine(below[2 * i - 1], below[2 * i])]
    IN tree
Root(tree) == tree[Len(tree)][1]

\* The places, from 0, on the path from a leaf to the root: idx //= 2.
Path(tree, index) ==
    LET at[k \in 1 .. Len(tree)] == IF k = 1 THEN index ELSE at[k - 1] \div 2
    IN at

\* A defective variant of the next definition, which no specification uses.
SiblingsSwapped_Bad(tree, index) ==
    LET path == Path(tree, index)
    IN [k \in 1 .. Len(tree) - 1 |->
        LET at == path[k]
        IN IF at % 2 = 0 THEN [hash |-> tree[k][at + 2], side |-> "left"]
                         ELSE [hash |-> tree[k][at], side |-> "right"]]

\* get_proof: what is beside the path from a leaf (from 0) to the root.
Siblings(tree, index) ==
    LET path == Path(tree, index)
    IN [k \in 1 .. Len(tree) - 1 |->
        LET at == path[k]
        IN IF at % 2 = 0 THEN [hash |-> tree[k][at + 2], side |-> "right"]
                         ELSE [hash |-> tree[k][at], side |-> "left"]]

\* verify folds the siblings into the hash of the leaf.
Climb(leaf, siblings) ==
    LET hash[k \in 0 .. Len(siblings)] ==
          IF k = 0 THEN leaf
          ELSE IF siblings[k].side = "left" THEN Combine(siblings[k].hash, hash[k - 1])
          ELSE Combine(hash[k - 1], siblings[k].hash)
    IN hash[Len(siblings)]

\* create_commitment; what _build_payload joins is what the signature is over.
Payload(c) == <<c.job, c.input, c.output, c.sketch, c.node>>
Commitment(n, j, output, sample) ==
    LET c == [job |-> j, input |-> Hash(Asked[j]), output |-> Hash(output), sketch |-> sample, node |-> n]
    IN [job |-> c.job, input |-> c.input, output |-> c.output, sketch |-> c.sketch, node |-> n,
        signature |-> <<n, Payload(c)>>]

VerifyCommitment(c, input, key) == c.input = input /\ c.signature = <<key, Payload(c)>>

VerifySpotCheck(c, sample) == c.sketch = sample \/ {c.sketch, sample} \in Close

BuildProof(n, j, output, sample) ==
    proofs' = [proofs EXCEPT ![n] = {[job |-> j, commitment |-> Commitment(n, j, output, sample),
                                      root |-> Root(Tree(output))]}]

VerifyProof(p, input, key, output) ==
    /\ VerifyCommitment(p.commitment, input, key)
    /\ \A o \in output : Len(o) > 0 /\ Root(Tree(o)) = p.root

\* verify_token_at_index, of a position from 0.
VerifyToken(p, token, index, output) ==
    /\ index \in 0 .. Len(output) - 1
    /\ output[index + 1] = token
    /\ Climb(Hash(token), Siblings(Tree(output), index)) = Root(Tree(output))
    /\ Root(Tree(output)) = p.root

\* should_settle of job j, for a proof p that is there and the key of node n; without a
\* proof the job is settled.
ShouldSettle(p, j, n, output, sample) ==
    IF p.job # j THEN "job_id_mismatch"
    ELSE IF ~VerifyProof(p, Hash(Asked[j]), n, output) THEN "invalid_commitment"
    ELSE IF \E s \in sample : ~VerifySpotCheck(p.commitment, s) THEN "spot_check_failed"
    ELSE "verified"

\* The commitments of the proofs, with the votes of an output hash, and the share
\* of the majority; aggregate_verifications calls it honest from two thirds on.
Commitments == {p.commitment : p \in UNION {proofs[n] : n \in Prover}}
Votes(h) == Cardinality({c \in Commitments : c.output = h})
Majority == Max({Votes(c.output) : c \in Commitments})
IsHonest == Commitments # {} /\ 3 * Majority >= 2 * Cardinality(Commitments)
Outliers(h) == {c.node : c \in {d \in Commitments : d.output # h}}

\* aggregate_peer_proofs counts roots in place of hashes.
PeerMajority ==
    LET all == UNION {proofs[n] : n \in Prover}
    IN Max({Cardinality({p \in all : p.root = q.root}) : q \in all})

\* An InferenceProof is data: whatever is handed in holds a signature that some node
\* made, but the commitment around it may be another, and so may the job and the root,
\* which no signature covers.
Changed(c) ==
    {[Commitment(n, j, o, s) EXCEPT !.signature = c.signature] :
        n \in Prover, j \in Inquiry, o \in Output, s \in Activations}
Handed ==
    [job : Inquiry, commitment : UNION {Changed(c) : c \in Commitments},
     root : {Root(Tree(o)) : o \in Output}]

AttestationInit == proofs = [n \in Prover |-> {}]

AttestationNext ==
    \E n \in Prover, j \in Inquiry, o \in Output, s \in Activations : BuildProof(n, j, o, s)

AttestationSpec == AttestationInit /\ [][AttestationNext]_attestationVars

-----------------------------------------------------------------------------
(* Properties. *)

\* Equal up to repetitions of the last token, which the padding hides: nothing
\* that is checked tells such outputs apart.
SameTokens(hash, output) == Padded(hash[2]) = Padded(output)

\* Whatever proof is handed in, a result is settled as verified exactly if the proof is
\* for the job, its commitment is, field by field, one that the node asked about signed,
\* for the job's prompt, and tokens and activations, where supplied, are those that the
\* root and the sketch bind; then each of the tokens, and no other, can be shown at its
\* place.  The root of a proof handed in as it was built binds the output committed to.
\* An honest consensus has one majority, which both counts agree on.
SettledAsComputed ==
    /\ \A p \in Handed, j \in Inquiry, n \in Prover, output \in Maybe(Output), sample \in Maybe(Fresh) :
          LET verified == ShouldSettle(p, j, n, output, sample) = "verified"
          IN /\ verified <=>
                   /\ p.job = j
                   /\ \E q \in proofs[n] : p.commitment = q.commitment
                   /\ p.commitment.input = Hash(Asked[j])
                   /\ \A o \in output, w \in Output : p.root = Root(Tree(w)) => Padded(w) = Padded(o)
                   /\ \A s \in sample : VerifySpotCheck(p.commitment, s)
             /\ verified =>
                   \A o \in output, t \in Tokens : \A i \in 0 .. Len(o) :
                      VerifyToken(p, t, i, o) <=> i < Len(o) /\ o[i + 1] = t
    /\ \A p \in UNION {proofs[n] : n \in Prover}, o \in Output :
          p.root = Root(Tree(o)) <=> SameTokens(p.commitment.output, o)
    /\ IsHonest =>
          /\ \A c, d \in Commitments :
                Votes(c.output) = Majority /\ Votes(d.output) = Majority => c.output = d.output
          /\ \A c \in Commitments :
                Votes(c.output) = Majority => 3 * Cardinality(Outliers(c.output)) <= Cardinality(Commitments)
          /\ PeerMajority >= Majority
=============================================================================
