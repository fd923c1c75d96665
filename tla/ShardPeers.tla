------------------------------ MODULE ShardPeers ------------------------------
(***************************************************************************)
(* How a node reaches the next shard (node/p2p.py): a discovery cache, a    *)
(* client with a circuit breaker per peer, and the peers and stakes that    *)
(* the PeerManager knows (node/peer_manager.py).  Its counts of missed      *)
(* heartbeats, which nothing in the repository reads, are left out.         *)
(*                                                                         *)
(* A task looks up the peers, or takes the cached client, and tries one     *)
(* peer after the other; it gives way to other tasks only at the DHT and    *)
(* at the remote call.  A client that was replaced in the cache lives on    *)
(* in the tasks that hold it, with breakers of its own.                    *)
(***************************************************************************)
EXTENDS Integers, Sequences, FiniteSets, SequencesExt

CONSTANTS
    Peer,       \* the endpoints
    Reliable,   \* the peers that answer and are listed once the network is stable
    Managed,    \* the peers the PeerManager is told of; none if there is no manager
    Stake,      \* the stake of each peer, by which the known ones are tried
    Task,       \* the tasks that send activations
    Client,     \* MultiPeerShardClient objects, as many as tasks and one
    NoClient,   \* stands for none of them
    Rest,       \* timeout_seconds of the breakers, in ticks
    CacheTTL    \* _PEER_CACHE_TTL, in ticks

ASSUME PeersAssumption ==
    /\ IsFiniteSet(Peer) /\ IsFiniteSet(Task) /\ IsFiniteSet(Client)
    /\ Cardinality(Task) < Cardinality(Client)
    /\ Rest \in Nat

VARIABLES
    stable,   \* whether the reliable peers have recovered for good
    cache,    \* the cached client, and the ticks since its lookup began
    breaker,  \* _circuit_breakers of each client, one per peer it was made for
    task,     \* what each task does
    known     \* the peers of the PeerManager

peerVars == <<stable, cache, breaker, task, known>>

Breaker == INSTANCE CircuitBreaker WITH
    Caller <- Task, Cancellable <- {}, FailureThreshold <- 1, SuccessThreshold <- 2,
    Timeout <- Rest, MaxFailures <- 1, circuit <- breaker, calls <- task

NoEntry == [client |-> NoClient, age |-> 0]
Inactive(ok) == [phase |-> "idle", client |-> NoClient, todo |-> <<>>, age |-> 0, ok |-> ok]
Finding == [phase |-> "finding", client |-> NoClient, todo |-> <<>>, age |-> 0, ok |-> FALSE]
Calling(c, todo) == [phase |-> "calling", client |-> c, todo |-> todo, age |-> 0, ok |-> FALSE]

-----------------------------------------------------------------------------
\* The names that end in _Bad are defective variants of the definition that
\* follows them; no specification uses them.

PeersInit ==
    /\ stable = FALSE
    /\ cache = NoEntry
    /\ breaker = [c \in Client |-> <<>>]
    /\ task = [t \in Task |-> Inactive(FALSE)]
    /\ known = Managed

\* A client that neither the cache nor a task holds is garbage.
Keep(bs) ==
    breaker' = [c \in Client |->
                  IF cache'.client = c \/ \E t \in Task : task'[t].client = c THEN bs[c] ELSE <<>>]

\* A report, without what no later step looks at: the time and the successes of
\* a closed circuit, and failures beyond the threshold of one.
Tidy(cb) ==
    IF cb.state = "CLOSED" THEN Breaker!Fresh
    ELSE [cb EXCEPT !.failures = 1, !.successes = IF cb.state = "OPEN" THEN 0 ELSE cb.successes]

\* _priority_ordered_peers: by stake, unknown peers last, ties as the DHT lists them.
Priority(p) == IF p \in known THEN Stake[p] ELSE 0
Orders(ps) == {q \in SetToSeqs(ps) : \A i, j \in DOMAIN q : i < j => Priority(q[i]) >= Priority(q[j])}

UsableAlways_Bad(cb) == TRUE

Usable(cb) == Breaker!Read(cb).state # "OPEN"

\* MultiPeerShardClient.forward up to its next await, with the breakers bs: the
\* peers that are open are skipped, the first other one is called; t has failed
\* when none is left.
Advance(t, c, todo, bs) ==
    LET usable == {i \in DOMAIN todo : Usable(bs[c][todo[i]])}
        i == CHOOSE k \in usable : \A j \in usable : k <= j
    IN IF usable = {}
       THEN task' = [task EXCEPT ![t] = Inactive(FALSE)] /\ Keep(bs)
       ELSE /\ task' = [task EXCEPT ![t] = Calling(c, SubSeq(todo, i, Len(todo)))]
            /\ Keep([bs EXCEPT ![c][todo[i]] = Breaker!Read(bs[c][todo[i]])])

\* discover_next_shard_peers finds a client in the cache that has not expired.
UseCached(t) ==
    LET c == cache.client
    IN /\ task[t].phase = "idle"
       /\ cache # NoEntry
       /\ UNCHANGED <<stable, cache, known>>
       /\ \E q \in Orders(DOMAIN breaker[c]) : Advance(t, c, q, breaker)

\* It finds none, and asks the DHT.
LookUp(t) ==
    /\ task[t].phase = "idle"
    /\ cache = NoEntry
    /\ task' = [task EXCEPT ![t] = Finding]
    /\ UNCHANGED <<stable, cache, breaker, known>>

\* The lookup fails, or the DHT lists nobody.
FindNobody(t) ==
    /\ task[t].phase = "finding"
    /\ stable => Reliable = {}
    /\ task' = [task EXCEPT ![t] = Inactive(FALSE)]
    /\ UNCHANGED <<stable, cache, breaker, known>>

\* The DHT's answer makes a new client, with closed breakers, whatever other
\* lookups made in the meantime; it is cached from the time the lookup began.
FindPeers(t, listed) ==
    LET c == CHOOSE k \in Client : \A o \in Task \ {t} : task[o].client # k
    IN /\ task[t].phase = "finding"
       /\ listed # {}
       /\ stable => Reliable \subseteq listed
       /\ cache' = IF task[t].age < CacheTTL THEN [client |-> c, age |-> task[t].age] ELSE NoEntry
       /\ UNCHANGED <<stable, known>>
       /\ \E q \in Orders(listed) :
             Advance(t, c, q, [breaker EXCEPT ![c] = [p \in listed |-> Breaker!Fresh]])

\* The called peer answers.
PeerAnswers(t) ==
    LET c == task[t].client
        p == Head(task[t].todo)
    IN /\ task[t].phase = "calling"
       /\ task' = [task EXCEPT ![t] = Inactive(TRUE)]
       /\ UNCHANGED <<stable, cache, known>>
       /\ Keep([breaker EXCEPT ![c][p] = Tidy(Breaker!OnSuccess(breaker[c][p]))])

RaiseGivesUp_Bad(t) ==
    LET c == task[t].client
        p == Head(task[t].todo)
    IN /\ task[t].phase = "calling"
       /\ stable => p \notin Reliable
       /\ UNCHANGED <<stable, cache, known>>
       /\ Advance(t, c, <<>>, [breaker EXCEPT ![c][p] = Tidy(Breaker!OnFailures(breaker[c][p], 1))])

\* The called peer raises or the call times out: its circuit opens and the next
\* peer is tried.
PeerRaises(t) ==
    LET c == task[t].client
        p == Head(task[t].todo)
    IN /\ task[t].phase = "calling"
       /\ stable => p \notin Reliable
       /\ UNCHANGED <<stable, cache, known>>
       /\ Advance(t, c, Tail(task[t].todo),
                  [breaker EXCEPT ![c][p] = Tidy(Breaker!OnFailures(breaker[c][p], 1))])

-----------------------------------------------------------------------------
(* The PeerManager. *)

\* heartbeat of a known peer, or add_peer.
HeardOf(p) ==
    /\ p \in Managed
    /\ known' = known \union {p}
    /\ UNCHANGED <<stable, cache, breaker, task>>

ForgetPeer(p) ==
    /\ p \in known
    /\ known' = known \ {p}
    /\ UNCHANGED <<stable, cache, breaker, task>>

-----------------------------------------------------------------------------
(* The world. *)

OneMore(age, limit) == IF age < limit THEN age + 1 ELSE age

\* Circuits, lookups and the cached entry, until it expires, grow older.
PassTime ==
    /\ cache' = IF cache = NoEntry \/ cache.age + 1 >= CacheTTL
                THEN NoEntry ELSE [cache EXCEPT !.age = cache.age + 1]
    /\ task' = [t \in Task |->
                  IF task[t].phase = "finding"
                  THEN [task[t] EXCEPT !.age = OneMore(task[t].age, CacheTTL)] ELSE task[t]]
    /\ UNCHANGED <<stable, known>>
    /\ Keep([c \in Client |-> [p \in DOMAIN breaker[c] |->
                 [breaker[c][p] EXCEPT !.elapsed = OneMore(breaker[c][p].elapsed, Rest)]]])

Settle ==
    /\ ~ stable
    /\ stable' = TRUE
    /\ UNCHANGED <<cache, breaker, task, known>>

PeersNext ==
    \/ \E t \in Task : UseCached(t) \/ LookUp(t) \/ FindNobody(t) \/ PeerAnswers(t) \/ PeerRaises(t)
    \/ \E t \in Task, listed \in SUBSET Peer : FindPeers(t, listed)
    \/ \E p \in Peer : HeardOf(p) \/ ForgetPeer(p)
    \/ PassTime \/ Settle

PeersSpec == PeersInit /\ [][PeersNext]_peerVars

\* What a task does next.
TaskStep(t) ==
    \/ UseCached(t) \/ LookUp(t) \/ PeerAnswers(t) \/ PeerRaises(t)
    \/ \E listed \in SUBSET Peer : FindPeers(t, listed)

-----------------------------------------------------------------------------
(* Properties. *)

\* A client never calls a peer within Rest of a failed call to it, whatever
\* overlapping calls of other tasks report late.
Calls(t, c, p) ==
    /\ task'[t].phase = "calling" /\ task'[t].client = c /\ Head(task'[t].todo) = p
    /\ task'[t] # task[t]
FailedPeerRests ==
    [][\A t \in Task, c \in Client : \A p \in DOMAIN breaker'[c] :
          Calls(t, c, p) /\ breaker'[c][p].failures > 0 => breaker'[c][p].elapsed >= Rest]_peerVars

\* While one peer answers and is listed, activations get through again and again,
\* whatever the other peers do, and though its own circuit was open.
OnePeerSuffices == stable ~> \E t \in Task : task[t].ok
=============================================================================
