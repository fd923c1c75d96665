------------------------------ MODULE ResultCache ------------------------------
(***************************************************************************)
(* The cache of results (node/result_cache.py), least recently used first.    *)
(* Only its tests call it, so every order of calls is allowed.                *)
(***************************************************************************)
EXTENDS Integers, SequencesExt

CONSTANTS
    Key,        \* (model, prompt) pairs
    MaxSize,    \* max_size
    TTL         \* ttl_seconds

ASSUME CacheAssumption == MaxSize \in Nat \ {0} /\ TTL \in Nat

VARIABLES
    results,    \* _cache: key and age of the entries
    used,       \* history: the keys in the order of their last put or hit
    gone        \* history: those that expired or were invalidated since

cacheVars == <<results, used, gone>>

CacheInit == results = <<>> /\ used = <<>> /\ gone = {}

Cached(k) == \E i \in DOMAIN results : results[i].key = k
Entry(k) == CHOOSE e \in ToSet(results) : e.key = k
Others(k) == RemoveFirst(results, Entry(k))

Touch(k) ==
    /\ used' = Append(RemoveFirst(used, k), k)
    /\ gone' = gone \ {k}

Drop(k) ==
    /\ results' = Others(k)
    /\ gone' = gone \union {k}
    /\ UNCHANGED used

\* A defective variant of the next definition, which no specification uses.
HitInPlace_Bad(k) ==
    /\ Cached(k)
    /\ IF Entry(k).age > TTL THEN Drop(k) ELSE UNCHANGED results /\ Touch(k)

\* get: an expired entry is deleted, another one becomes the most recently used.
Get(k) ==
    /\ Cached(k)
    /\ IF Entry(k).age > TTL THEN Drop(k) ELSE results' = Append(Others(k), Entry(k)) /\ Touch(k)

\* put renews an entry; a new one takes the place of the least recently used one.
Put(k) ==
    /\ LET room == IF Len(results) >= MaxSize THEN Tail(results) ELSE results
           kept == IF Cached(k) THEN Others(k) ELSE room
       IN results' = Append(kept, [key |-> k, age |-> 0])
    /\ Touch(k)

Invalidate(k) ==
    /\ Cached(k)
    /\ Drop(k)

CacheTick ==
    /\ results' = [i \in DOMAIN results |-> [results[i] EXCEPT !.age = IF @ > TTL THEN @ ELSE @ + 1]]
    /\ UNCHANGED <<used, gone>>

CacheNext ==
    \/ \E k \in Key : Get(k) \/ Put(k) \/ Invalidate(k)
    \/ CacheTick

CacheSpec == CacheInit /\ [][CacheNext]_cacheVars
-----------------------------------------------------------------------------
(* Properties. *)

\* The cache forgets the right keys: one of the MaxSize last used, unless it was
\* removed, is still there, and never are there more entries than that.
RecentStaysCached ==
    /\ Len(results) <= MaxSize
    /\ \A i \in DOMAIN used : used[i] \notin gone /\ Len(used) - i < MaxSize => Cached(used[i])
=============================================================================
