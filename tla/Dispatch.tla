------------------------------- MODULE Dispatch -------------------------------
(***************************************************************************)
(* Who gets a job: the reputation engine (node/reputation_engine.py), the   *)
(* router (node/router.py) and the shard balancer (node/shard_balancer.py). *)
(*                                                                         *)
(* Scores are counted in twentieths, of which every boost and penalty is a  *)
(* multiple; a decay is rounded towards the neutral score.  The router asks *)
(* the engine, the balancer the copy of the score in the node object.       *)
(***************************************************************************)
EXTENDS Integers, FiniteSets

CONSTANTS
    Server,        \* the nodes, which all serve the model in question
    Order,         \* the requests
    Nobody,        \* stands for no server
    MaxLoad,       \* max_load of every node
    Cost,          \* cost_per_token of each node, not zero
    Latency,       \* avg_latency_ms of each node, in thousandths of MAX_LATENCY_MS
    MinReputation, \* min_reputation of the router, in twentieths
    MinScore,      \* min_score and max_score of the engine, in twentieths
    MaxScore,
    DecayPercent,  \* decay_factor
    Claimed,       \* bound: the loads that a new node object may come with
    MaxMissed,     \* bound: the updates of the load that are ignored for a node
    Fate           \* bound: the outcomes considered for each node

ASSUME DispatchAssumption == Claimed \subseteq Nat

VARIABLES
    rating,   \* the engine's record of each node, if it has one
    copied,   \* reputation of the node objects
    load,     \* current_load of the node objects
    listed,   \* the nodes of the balancer
    chosen,   \* the node chosen for each request that is not begun
    servedBy, \* the node that works on each request
    missed    \* history: the starts and ends of work that each node object has not counted

dispatchVars == <<rating, copied, load, listed, chosen, servedBy, missed>>

Neutral == 10
Unrated == [known |-> FALSE, score |-> Neutral, stale |-> FALSE]
Change == [success |-> 1, timeout |-> -1, wrong_result |-> -4, crash |-> -2, dispute |-> -6]

DispatchInit ==
    /\ rating = [n \in Server |-> Unrated]
    /\ copied = [n \in Server |-> Neutral]
    /\ load = [n \in Server |-> 0]
    /\ listed = Server
    /\ chosen = [r \in Order |-> Nobody]
    /\ servedBy = [r \in Order |-> Nobody]
    /\ missed = [n \in Server |-> [starts |-> 0, ends |-> 0]]

Clamp(v) == IF v < MinScore THEN MinScore ELSE IF v > MaxScore THEN MaxScore ELSE v

\* record_success, record_failure and record_dispute.
Rated(n, outcome) ==
    [rating EXCEPT ![n] = [known |-> TRUE, score |-> Clamp(@.score + Change[outcome]), stale |-> FALSE]]

Decayed(rec) ==
    LET deviation == rec.score - Neutral
        size == ((IF deviation < 0 THEN -deviation ELSE deviation) * DecayPercent) \div 100
    IN [rec EXCEPT !.score = Neutral + (IF deviation < 0 THEN -size ELSE size)]

-----------------------------------------------------------------------------
(* Choosing a node. *)

Reputation(n) == IF rating[n].known THEN rating[n].score ELSE copied[n]

Eligible(n) == n \in listed /\ load[n] < MaxLoad /\ Reputation(n) >= MinReputation

Best(worth) == {n \in DOMAIN worth : \A o \in DOMAIN worth : worth[n] >= worth[o]}

\* _score of the router, multiplied by 200 * MaxLoad * the highest cost.
RouterChoices ==
    LET eligible == {n \in Server : Eligible(n)}
        top == CHOOSE c \in {Cost[n] : n \in eligible} : \A n \in eligible : c >= Cost[n]
    IN Best([n \in eligible |-> 4 * Reputation(n) * MaxLoad * top
                               + 60 * (MaxLoad - load[n]) * top + 60 * (top - Cost[n]) * MaxLoad])

\* _score of the balancer, multiplied by 10000 * MaxLoad.
BalancerChoices ==
    Best([n \in {m \in listed : load[m] < MaxLoad} |->
              200 * copied[n] * MaxLoad + 4000 * (MaxLoad - load[n])
              + 2 * (1000 - Latency[n]) * MaxLoad])

\* A choice is not counted: other requests are given nodes before this one begins.
Choose(r, n) ==
    /\ servedBy[r] = Nobody
    /\ chosen' = [chosen EXCEPT ![r] = n]
    /\ UNCHANGED <<rating, copied, load, listed, servedBy, missed>>

Route(r) == \E n \in RouterChoices : Choose(r, n)
Select(r) == \E n \in BalancerChoices : Choose(r, n)

-----------------------------------------------------------------------------
(* The work and its outcomes. *)

Work(n) == {r \in Order : servedBy[r] = n}

\* update_load stops at zero and ignores a node that is not registered.
LoadAfter(n, delta) ==
    IF n \in listed
    THEN [load EXCEPT ![n] = IF @ + delta < 0 THEN 0 ELSE @ + delta]
    ELSE load

\* A request begins, with update_load(+1).
BeginOrder(r) ==
    LET n == chosen[r]
    IN /\ n # Nobody
       /\ n \notin listed => missed[n].starts < MaxMissed
       /\ chosen' = [chosen EXCEPT ![r] = Nobody]
       /\ servedBy' = [servedBy EXCEPT ![r] = n]
       /\ load' = LoadAfter(n, 1)
       /\ missed' = IF n \in listed THEN missed ELSE [missed EXCEPT ![n].starts = @ + 1]
       /\ UNCHANGED <<rating, copied, listed>>

\* A defective variant of the next definition, which no specification uses.
FinishKeepsLoad_Bad(r, outcome) ==
    LET n == servedBy[r]
    IN /\ n # Nobody /\ outcome \in Fate[n]
       /\ n \notin listed => missed[n].ends < MaxMissed
       /\ servedBy' = [servedBy EXCEPT ![r] = Nobody]
       /\ rating' = Rated(n, outcome)
       /\ load' = IF outcome = "success" THEN LoadAfter(n, -1) ELSE load
       /\ missed' = IF n \in listed THEN missed ELSE [missed EXCEPT ![n].ends = @ + 1]
       /\ UNCHANGED <<copied, listed, chosen>>

\* A request ends, with update_load(-1) and a record of its outcome.
FinishOrder(r, outcome) ==
    LET n == servedBy[r]
    IN /\ n # Nobody /\ outcome \in Fate[n]
       /\ n \notin listed => missed[n].ends < MaxMissed
       /\ servedBy' = [servedBy EXCEPT ![r] = Nobody]
       /\ rating' = Rated(n, outcome)
       /\ load' = LoadAfter(n, -1)
       /\ missed' = IF n \in listed THEN missed ELSE [missed EXCEPT ![n].ends = @ + 1]
       /\ UNCHANGED <<copied, listed, chosen>>

-----------------------------------------------------------------------------
(* What happens to the nodes. *)

\* update_from_settlement: a record of a confirmed or of a failed batch.
FeedBack(n, outcome) ==
    /\ outcome \in Fate[n] \intersect {"success", "crash"}
    /\ rating' = Rated(n, outcome)
    /\ UNCHANGED <<copied, load, listed, chosen, servedBy, missed>>

\* register, of the object the node left with or has: its load is what it was.
ListNode(n) ==
    /\ listed' = listed \union {n}
    /\ UNCHANGED <<rating, copied, load, chosen, servedBy, missed>>

\* register, of a new object: it comes with the load its maker says, which stands for
\* ends that are not counted, and has counted no start of the work in progress.
ListNewNode(n) ==
    /\ listed' = listed \union {n}
    /\ copied' = [copied EXCEPT ![n] = Neutral]
    /\ \E l \in Claimed :
          /\ load' = [load EXCEPT ![n] = l]
          /\ missed' = [missed EXCEPT ![n] = [starts |-> Cardinality(Work(n)), ends |-> l]]
    /\ UNCHANGED <<rating, chosen, servedBy>>

\* deregister: the object keeps its load.
DelistNode(n) ==
    /\ listed' = listed \ {n}
    /\ UNCHANGED <<rating, copied, load, chosen, servedBy, missed>>

\* refresh_scores; set_reputation of the scheduler holds the same copy.
RefreshScores ==
    /\ copied' = [n \in Server |-> IF n \in listed THEN rating[n].score ELSE copied[n]]
    /\ UNCHANGED <<rating, load, listed, chosen, servedBy, missed>>

ApplyDecay(n) ==
    /\ rating[n].known
    /\ rating' = [rating EXCEPT ![n] = Decayed(@)]
    /\ UNCHANGED <<copied, load, listed, chosen, servedBy, missed>>

\* bulk_decay: the nodes not seen for an hour.
BulkDecay ==
    /\ rating' = [n \in Server |-> IF rating[n].stale THEN Decayed(rating[n]) ELSE rating[n]]
    /\ UNCHANGED <<copied, load, listed, chosen, servedBy, missed>>

HourPasses ==
    /\ rating' = [n \in Server |-> [rating[n] EXCEPT !.stale = rating[n].known]]
    /\ UNCHANGED <<copied, load, listed, chosen, servedBy, missed>>

DispatchNext ==
    \/ \E r \in Order : Route(r) \/ Select(r) \/ BeginOrder(r)
    \/ \E r \in Order, outcome \in DOMAIN Change : FinishOrder(r, outcome)
    \/ \E n \in Server, outcome \in DOMAIN Change : FeedBack(n, outcome)
    \/ \E n \in Server : ListNode(n) \/ ListNewNode(n) \/ DelistNode(n) \/ ApplyDecay(n)
    \/ RefreshScores \/ BulkDecay \/ HourPasses

DispatchSpec == DispatchInit /\ [][DispatchNext]_dispatchVars

-----------------------------------------------------------------------------
(* Properties. *)

\* current_load is the work in progress up to the updates that update_load ignored:
\* nothing else, neither a failure nor a node that leaves, comes back or is replaced,
\* leaves load on a node that does no work, or hides work from the choosers.
LoadFitsWork ==
    \A n \in Server :
        /\ load[n] <= Cardinality(Work(n)) + missed[n].ends
        /\ Cardinality(Work(n)) <= load[n] + missed[n].starts
=============================================================================
