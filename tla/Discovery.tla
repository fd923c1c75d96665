------------------------------- MODULE Discovery -------------------------------
(***************************************************************************)
(* The DHT side of node/p2p.py: a node announces its shard once, when it     *)
(* starts, under a key that all nodes of the shard share, for 600 seconds;   *)
(* others look the key up, once or on several paths at the same time, while   *)
(* announcements are replaced and expire.  Stopping withdraws nothing.        *)
(***************************************************************************)
EXTENDS Integers, SequencesExt

CONSTANTS
    Announcer,    \* the nodes
    ShardOf,      \* of each node, config.shard_index
    Life,         \* expiration_time - get_dht_time(), 600 seconds
    Path,         \* the path indexes of lookup_with_redundancy
    MaxStarts     \* bound: announcements

ASSUME DiscoveryAssumption == Life \in Nat \ {0}

VARIABLES
    running,      \* nodes whose P2P layer is started
    stored,       \* the value under each shard's key
    life,         \* how long it lives on
    starts,       \* announcements so far; tells the timestamps of values apart
    lookup        \* the lookup that runs or ran last

discoveryVars == <<running, stored, life, starts, lookup>>

ShardKey == {ShardOf[n] : n \in Announcer}

\* sure: there was a value all the time; asked: the paths of the lookup; failed: those
\* whose get raised.
NoLookup == [key |-> ShardOf[CHOOSE n \in Announcer : TRUE], paths |-> {}, merged |-> <<>>, failed |-> {}, asked |-> {}, sure |-> FALSE]

DiscoveryInit ==
    /\ running = {}
    /\ stored = [s \in ShardKey |-> [node |-> "", at |-> 0]]
    /\ life = [s \in ShardKey |-> 0]
    /\ starts = 0
    /\ lookup = NoLookup

\* _announce, which nothing repeats; the heartbeat only tells the chain.
Announce(n) ==
    /\ stored' = [stored EXCEPT ![ShardOf[n]] = [node |-> n, at |-> starts]]
    /\ life' = [life EXCEPT ![ShardOf[n]] = Life]

Start(n) ==
    /\ n \notin running /\ starts < MaxStarts
    /\ running' = running \union {n}
    /\ starts' = starts + 1
    /\ Announce(n)
    /\ UNCHANGED <<lookup>>

Stop(n) ==
    /\ n \in running
    /\ running' = running \ {n}
    /\ UNCHANGED <<stored, life, starts, lookup>>

DiscoveryTick ==
    /\ life' = [s \in ShardKey |-> IF life[s] = 0 THEN 0 ELSE life[s] - 1]
    /\ lookup' = [lookup EXCEPT !.sure = @ /\ life[lookup.key] > 1]
    /\ UNCHANGED <<running, stored, starts>>

-----------------------------------------------------------------------------
\* dht.get(key) finds a value until it expires.
Found(s) == life[s] > 0

\* lookup_with_redundancy takes all paths, get_next_shard_peer a single one.
BeginLookup(s, paths) ==
    /\ lookup.paths = {}
    /\ lookup' = [key |-> s, paths |-> paths, merged |-> <<>>, failed |-> {}, asked |-> paths,
                  sure |-> life[s] > 0]
    /\ UNCHANGED <<running, stored, life, starts>>

\* A defective variant of the next definition, which no specification uses.
MergeAll_Bad(merged, v) == Append(merged, v)

\* A value joins the result unless it is there; nothing is stored under a path's own key.
Merge(merged, v) == IF Contains(merged, v) THEN merged ELSE Append(merged, v)

\* The results are merged when all paths have theirs, which their order does not change.
GetPath(p) ==
    /\ p \in lookup.paths
    /\ lookup' = [lookup EXCEPT
                    !.paths = @ \ {p},
                    !.merged = IF Found(lookup.key) THEN Merge(@, stored[lookup.key]) ELSE @]
    /\ UNCHANGED <<running, stored, life, starts>>

PathFails(p) ==
    /\ p \in lookup.paths
    /\ lookup' = [lookup EXCEPT !.paths = @ \ {p}, !.failed = @ \union {p}]
    /\ UNCHANGED <<running, stored, life, starts>>

DiscoveryNext ==
    \/ \E n \in Announcer : Start(n) \/ Stop(n)
    \/ DiscoveryTick
    \/ \E s \in ShardKey, paths \in {{p} : p \in Path} \union {Path} : BeginLookup(s, paths)
    \/ \E p \in Path : GetPath(p) \/ PathFails(p)

DiscoverySpec == DiscoveryInit /\ [][DiscoveryNext]_discoveryVars

-----------------------------------------------------------------------------
\* A lookup whose paths do not all fail finds a node of the shard if one was
\* announced all the time, and reports no announcement twice, however many were made
\* while it ran (p2p.py:245).
LookupsFind ==
    LET found == lookup.merged IN
      /\ \A i, j \in DOMAIN found : i # j => found[i] # found[j]
      /\ \A i \in DOMAIN found : ShardOf[found[i].node] = lookup.key
      /\ lookup.sure /\ lookup.paths = {} /\ lookup.failed # lookup.asked => found # <<>>
=============================================================================
