-------------------------------- MODULE Gossip --------------------------------
(***************************************************************************)
(* Gossip between nodes (node/gossip.py).  A node that receives a message   *)
(* calls receive of the peers it forwards it to, one after the other, and   *)
(* each of them does the same before it returns: a flood is a depth-first   *)
(* walk, in which a node may first be reached by a long way round, and the  *)
(* copy with more hops left that comes later is a duplicate.                *)
(*                                                                         *)
(* Floods do not overlap and ids are fresh, so only the last message counts. *)
(***************************************************************************)
EXTENDS Integers, SequencesExt, FiniteSetsExt

CONSTANTS
    Gossiper, \* the nodes
    Fanout,   \* fanout
    Hops      \* the ttl values of broadcasts

ASSUME GossipAssumption ==
    IsFiniteSet(Gossiper) /\ Gossiper # {} /\ Fanout \in Nat /\ Hops \in SUBSET Nat

VARIABLES
    peers,    \* _peers of each node
    origin,   \* who sent the last message; none before the first
    hops,     \* its ttl
    seen,     \* the nodes that remember its id
    inbox,    \* how often each node accepted it
    forwards     \* the calls of receive that are still to be made: to, from and ttl

gossipVars == <<peers, origin, hops, seen, inbox, forwards>>

GossipInit ==
    /\ peers = [n \in Gossiper |-> {}]
    /\ origin = {} /\ hops = 0
    /\ seen = {} /\ inbox = [n \in Gossiper |-> 0] /\ forwards = <<>>

Delivery(to, from, ttl) == [to |-> to, from |-> from, ttl |-> ttl]

AddPeer(n, p) ==
    /\ forwards = <<>> /\ p # n
    /\ peers' = [peers EXCEPT ![n] = @ \union {p}]
    /\ origin' = {} /\ UNCHANGED <<hops, seen, inbox, forwards>>

RemovePeer(n, p) ==
    /\ forwards = <<>>
    /\ peers' = [peers EXCEPT ![n] = @ \ {p}]
    /\ origin' = {} /\ UNCHANGED <<hops, seen, inbox, forwards>>

\* broadcast makes a message with a new id and receives it itself.
Broadcast(n, ttl) ==
    /\ forwards = <<>>
    /\ origin' = {n} /\ hops' = ttl
    /\ seen' = {} /\ inbox' = [m \in Gossiper |-> 0]
    /\ forwards' = <<Delivery(n, n, ttl)>>
    /\ UNCHANGED peers

\* random.sample of the peers but the forwarder, in any order.
Samples(n, from) ==
    LET candidates == peers[n] \ {from}
        size == IF Cardinality(candidates) < Fanout THEN Cardinality(candidates) ELSE Fanout
    IN {q \in UNION {SetToSeqs(s) : s \in SUBSET candidates} : Len(q) = size}

\* A defective variant of the next definition, which no specification uses: it looks
\* at the hops only after it has remembered the message.
IgnoreRemembers_Bad ==
    /\ forwards # <<>>
    /\ Head(forwards).to \in seen \/ Head(forwards).ttl = 0
    /\ forwards' = Tail(forwards)
    /\ seen' = seen \union {Head(forwards).to}
    /\ UNCHANGED <<peers, origin, hops, inbox>>

\* receive of a duplicate, or of a message that has no hops left.
Ignore ==
    /\ forwards # <<>>
    /\ Head(forwards).to \in seen \/ Head(forwards).ttl = 0
    /\ forwards' = Tail(forwards)
    /\ UNCHANGED <<peers, origin, hops, seen, inbox>>

\* receive of a new message: remembered, put into the inbox, and forwarded before
\* the caller goes on with its own list.
Accept ==
    LET c == Head(forwards)
    IN /\ forwards # <<>> /\ c.to \notin seen /\ c.ttl > 0
       /\ seen' = seen \union {c.to}
       /\ inbox' = [inbox EXCEPT ![c.to] = @ + 1]
       /\ \E q \in Samples(c.to, c.from) :
             forwards' = [i \in DOMAIN q |-> Delivery(q[i], c.to, c.ttl - 1)] \o Tail(forwards)
       /\ UNCHANGED <<peers, origin, hops>>

\* Five minutes later nobody remembers the id.
PruneSeen ==
    /\ forwards = <<>> /\ seen # {}
    /\ seen' = {} /\ origin' = {}
    /\ UNCHANGED <<peers, hops, inbox, forwards>>

GossipNext ==
    \/ \E n, p \in Gossiper : AddPeer(n, p) \/ RemovePeer(n, p)
    \/ \E n \in Gossiper, ttl \in Hops : Broadcast(n, ttl)
    \/ Ignore \/ Accept \/ PruneSeen

GossipSpec == GossipInit /\ [][GossipNext]_gossipVars

-----------------------------------------------------------------------------
(* Properties. *)

\* The nodes that a path of at most d hops leads to from those in s.
Leads(q, k) == \A i \in 1 .. k : q[i] \in peers[q[i - 1]]
Within(s, d) ==
    {n \in Gossiper : \E k \in 0 .. d : \E q \in [0 .. k -> Gossiper] :
                          q[0] \in s /\ q[k] = n /\ Leads(q, k)}

\* A flood with as many hops as there are nodes reaches every node that can be
\* reached, and each just once, if no node has more peers than the fanout; with
\* fewer hops it reaches nobody farther away, and always the nearest ones.
FloodReachesAll ==
    forwards = <<>> /\ origin # {} =>
        /\ \A n \in Gossiper : inbox[n] = IF n \in seen THEN 1 ELSE 0
        /\ seen \subseteq Within(origin, hops - 1)
        /\ (\A n \in Gossiper : Cardinality(peers[n]) <= Fanout) =>
              /\ hops >= Cardinality(Gossiper) => seen = Within(origin, Cardinality(Gossiper))
              /\ hops >= 2 => Within(origin, 1) \subseteq seen
=============================================================================
