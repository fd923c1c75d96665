-------------------------------- MODULE Topology --------------------------------
(***************************************************************************)
(* Placing the shards of a model on nodes (node/topology_optimizer.py): a     *)
(* simulated annealing over assignments, whose result replaces the deployed   *)
(* assignment if should_rebalance finds it enough better.  The acceptance      *)
(* probability is a choice; scores are scaled by the number of shards to be    *)
(* integers, and the spread of the loads of a set of nodes is a parameter.     *)
(***************************************************************************)
EXTENDS Integers, FiniteSets, FiniteSetsExt

CONSTANTS
    Node,
    Shards,        \* num_shards
    Matrices,      \* the latency matrices there may be: [node, node -> ms]
    Imbalance,     \* [set of nodes -> standard deviation of their loads]
    Alpha, Beta, Gamma,
    Threshold,     \* threshold of should_rebalance, in percent
    MaxIterations  \* max_iterations

VARIABLES
    matrix,        \* the latency matrix
    candidates,    \* candidate_nodes
    deployed,      \* the current assignment: [shard -> node]
    left,          \* history: assignments replaced since the inputs last changed
    search         \* the state of optimize: iteration, current and best; iteration 0 when idle

topologyVars == <<matrix, candidates, deployed, left, search>>

Shard == 0 .. Shards - 1
Idle(a) == [iteration |-> 0, current |-> a, best |-> a]

PathLatency(m, a) ==
    LET hop == [i \in 0 .. Shards - 2 |-> IF a[i] = a[i + 1] THEN 0 ELSE m[<<a[i], a[i + 1]>>]]
    IN MapThenSumSet(LAMBDA i : hop[i], 0 .. Shards - 2)

\* _score_with_churn against the deployed assignment: latency and imbalance, and the moves.
Base(m, a) == Alpha * Shards * PathLatency(m, a) + Beta * Shards * Imbalance[{a[i] : i \in Shard}]
Moved(a) == {i \in Shard : a[i] # deployed[i]}
Score(a) == Base(matrix, a) + Gamma * Cardinality(Moved(a))

TopologyInit ==
    /\ matrix \in Matrices
    /\ candidates = Node
    /\ deployed \in [Shard -> Node]
    /\ left = {}
    /\ search = Idle(deployed)

\* Between two searches a latency is measured, or nodes come and go.
InputsChange ==
    /\ search.iteration = 0
    /\ matrix' \in Matrices
    /\ candidates' \in (SUBSET Node) \ {{}}
    /\ left' = {}
    /\ UNCHANGED <<deployed, search>>

\* _greedy_initial: round robin over the candidates, in some order.
Greedy(a) ==
    \E order \in [0 .. Cardinality(candidates) - 1 -> candidates] :
        /\ candidates = {order[i] : i \in DOMAIN order}
        /\ a = [i \in Shard |-> order[i % Cardinality(candidates)]]

\* optimize starts from the deployed assignment if all of its nodes are candidates.
Optimize ==
    /\ search.iteration = 0
    /\ \E a \in [Shard -> candidates] :
          /\ IF \A i \in Shard : deployed[i] \in candidates THEN a = deployed ELSE Greedy(a)
          /\ search' = [iteration |-> 1, current |-> a, best |-> a]
    /\ UNCHANGED <<matrix, candidates, deployed, left>>

\* Two shards swap their nodes, and now and then one gets any candidate.
Neighbours ==
    {n \in [Shard -> Node] :
        \E i, j \in Shard :
            LET swapped == [search.current EXCEPT ![i] = search.current[j], ![j] = search.current[i]]
            IN /\ i # j \/ Shards = 1
               /\ \/ n = swapped
                  \/ \E k \in Shard, c \in candidates : n = [swapped EXCEPT ![k] = c]}

\* A defective variant of the next definition, which no specification uses.
AnnealKeepsAccepted_Bad ==
    /\ search.iteration \in 1 .. MaxIterations
    /\ \E n \in Neighbours, accepted \in BOOLEAN :
          /\ Score(n) <= Score(search.current) => accepted
          /\ search' = IF accepted
                       THEN [iteration |-> search.iteration + 1, current |-> n, best |-> n]
                       ELSE [search EXCEPT !.iteration = @ + 1]
    /\ UNCHANGED <<matrix, candidates, deployed, left>>

\* One iteration: a neighbour that is no worse is accepted, another one by chance.
Anneal ==
    /\ search.iteration \in 1 .. MaxIterations
    /\ \E n \in Neighbours, accepted \in BOOLEAN :
          /\ Score(n) <= Score(search.current) => accepted
          /\ search' = IF accepted
                       THEN [iteration |-> search.iteration + 1, current |-> n,
                             best |-> IF Score(n) < Score(search.best) THEN n ELSE search.best]
                       ELSE [search EXCEPT !.iteration = @ + 1]
    /\ UNCHANGED <<matrix, candidates, deployed, left>>

\* should_rebalance, of the scores of the deployed and the proposed assignment.
ShouldRebalance ==
    LET now == Score(deployed)
        new == Score(search.best)
    IN IF now <= 0 THEN new < now ELSE 100 * (now - new) > Threshold * now

\* The search ends, and its result is deployed if that is worth the moves.
Conclude ==
    /\ search.iteration = MaxIterations + 1
    /\ IF ShouldRebalance
       THEN deployed' = search.best /\ left' = left \union {deployed}
       ELSE UNCHANGED <<deployed, left>>
    /\ search' = Idle(deployed')
    /\ UNCHANGED <<matrix, candidates>>

TopologyNext == InputsChange \/ Optimize \/ Anneal \/ Conclude

TopologySpec == TopologyInit /\ [][TopologyNext]_topologyVars
-----------------------------------------------------------------------------
(* Properties. *)

\* A search never ends worse than it began, or on a node that has gone; and while
\* the inputs stay the same no assignment that was given up is deployed again.
NoThrashing ==
    /\ search.iteration > 0 =>
          /\ \A i \in Shard : search.best[i] \in candidates
          /\ (\A i \in Shard : deployed[i] \in candidates) => Score(search.best) <= Score(deployed)
    /\ deployed \notin left
=============================================================================
