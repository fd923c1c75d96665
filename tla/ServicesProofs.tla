----------------------------- MODULE ServicesProofs -----------------------------
(***************************************************************************)
(* Theorems about the services of a node, which share no state: the circuit *)
(* breaker, the choice of nodes (Dispatch), the pool of RPC clients          *)
(* (RpcPool), the placement of shards (Topology), the registry of models, the *)
(* gateway's rate limit, the adapters, the money (Settlement), the cache of  *)
(* results, lookups in the DHT (Discovery), gossip, the peers of the next     *)
(* shard (ShardPeers), the slots of tasks (TaskSlots) and the life of a node  *)
(* server (Lifecycle).                                                       *)
(***************************************************************************)
EXTENDS CircuitBreaker, RpcPool, Dispatch, Topology, ModelRegistry,
        Gateway, Adapters, Settlement, ResultCache, Discovery, Gossip, ShardPeers,
        CollectionTheorems, FiniteSetTheorems, SequenceTheorems, TLAPS

-----------------------------------------------------------------------------
(* The circuit breaker: BreakerInv is inductive, for any number of callers and any *)
(* configuration.  A report of success either closes the circuit and clears the    *)
(* count, or leaves both alone while the circuit is not closed.  HalfOpenIsQuiet    *)
(* needs TripIsCounted: a failure resets the clock, and it is because a half-open   *)
(* circuit still has its old count that the same failure also opens it.            *)

BreakerInv == TypeOK /\ TripIsCounted /\ HalfOpenIsQuiet

(* What the transitions of one circuit preserve. *)

Sound(cb) ==
    /\ cb \in Circuit
    /\ cb.state = "CLOSED" <=> cb.failures < FailureThreshold
    /\ cb.state = "HALF_OPEN" => cb.elapsed >= Timeout

\* Looking at a circuit leaves it sound, and open only while the timeout runs.
LEMMA ReadSound ==
    ASSUME NEW cb, Sound(cb)
    PROVE  /\ Sound(Read(cb))
           /\ Read(cb).failures = cb.failures
BY BreakerAssumption DEF Sound, Read, Expired, Circuit, CircuitState

\* A report of success keeps a circuit sound and an open circuit open.
LEMMA SuccessSound ==
    ASSUME NEW cb, Sound(cb)
    PROVE  /\ Sound(OnSuccess(cb))
           /\ cb.state = "OPEN" => OnSuccess(cb).state = "OPEN"
<1>1. CASE cb.state = "HALF_OPEN"
  BY <1>1, BreakerAssumption DEF Sound, OnSuccess, Closed, Circuit, CircuitState
<1>2. CASE cb.state = "CLOSED"
  BY <1>2, BreakerAssumption DEF Sound, OnSuccess, Closed, Circuit, CircuitState
<1>3. CASE cb.state = "OPEN"
  BY <1>3 DEF Sound, OnSuccess, Circuit, CircuitState
<1> QED BY <1>1, <1>2, <1>3 DEF Sound, Circuit, CircuitState

\* Failures keep a circuit sound, and open one that is not closed.
LEMMA FailuresSound ==
    ASSUME NEW cb, NEW n \in Nat \ {0}, Sound(cb)
    PROVE  /\ Sound(OnFailures(cb, n))
           /\ cb.state # "CLOSED" => OnFailures(cb, n).state = "OPEN"
BY BreakerAssumption DEF Sound, OnFailures, Circuit, CircuitState

\* Every step keeps the circuit sound and the table of calls well typed.
LEMMA BreakerInvStep == BreakerInv /\ [Next]_vars => BreakerInv'
<1> SUFFICES ASSUME BreakerInv, [Next]_vars PROVE BreakerInv'
  OBVIOUS
<1>1. Sound(circuit) /\ calls \in [Caller -> {"idle", "running"}]
  BY DEF BreakerInv, TypeOK, TripIsCounted, HalfOpenIsQuiet, Sound
<1>2. Sound(circuit') /\ calls' \in [Caller -> {"idle", "running"}] => BreakerInv'
  BY DEF BreakerInv, TypeOK, TripIsCounted, HalfOpenIsQuiet, Sound
<1>3. ASSUME NEW c \in Caller, Call(c) PROVE BreakerInv'
  BY <1>1, <1>2, <1>3, ReadSound DEF Call
<1>4. ASSUME NEW c \in Caller, Succeed(c) PROVE BreakerInv'
  BY <1>1, <1>2, <1>4, SuccessSound DEF Succeed, Finish
<1>5. ASSUME NEW c \in Caller, Fail(c) PROVE BreakerInv'
  BY <1>1, <1>2, <1>5, FailuresSound DEF Fail, Finish
<1>6. ASSUME NEW c \in Caller, Abandon(c) PROVE BreakerInv'
  BY <1>1, <1>2, <1>6 DEF Abandon, Finish
<1>7. CASE Look
  BY <1>1, <1>2, <1>7, ReadSound DEF Look
<1>8. CASE Trip
  <2>1. Sound(Read(circuit))
    BY <1>1, ReadSound
  <2>2. Sound(OnFailures(Read(circuit), FailureThreshold))
    BY <2>1, FailuresSound, BreakerAssumption
  <2> QED BY <1>1, <1>2, <1>8, <2>2 DEF Trip
<1>9. CASE Reset
  <2>1. Sound(circuit')
    BY <1>1, <1>9, BreakerAssumption DEF Reset, Closed, Sound, Circuit, CircuitState
  <2> QED BY <1>1, <1>2, <1>9, <2>1 DEF Reset
<1>10. CASE Tick
  <2>1. Sound(circuit')
    BY <1>1, <1>10, BreakerAssumption DEF Tick, Sound, Circuit, CircuitState
  <2> QED BY <1>1, <1>2, <1>10, <2>1 DEF Tick
<1>11. CASE UNCHANGED vars
  BY <1>1, <1>2, <1>11 DEF vars
<1> QED BY <1>3, <1>4, <1>5, <1>6, <1>7, <1>8, <1>9, <1>10, <1>11 DEF Next

\* In every reachable state the circuit is sound, the inductive invariant.
THEOREM BreakerInvariance == Spec => []BreakerInv
<1>1. Init => BreakerInv
  BY BreakerAssumption
     DEF Init, Fresh, BreakerInv, TypeOK, TripIsCounted, HalfOpenIsQuiet, Circuit, CircuitState
<1> QED BY <1>1, BreakerInvStep, PTL DEF Spec

\* The fields of the circuit and the table of calls keep their types.
THEOREM BreakerTyped == Spec => []TypeOK
BY BreakerInvariance, PTL DEF BreakerInv

\* A circuit is closed exactly while it counts fewer failures than its threshold.
THEOREM TripAlwaysCounted == Spec => []TripIsCounted
BY BreakerInvariance, PTL DEF BreakerInv

\* A half-open circuit has seen no failure for the whole timeout.
THEOREM HalfOpenAlwaysQuiet == Spec => []HalfOpenIsQuiet
BY BreakerInvariance, PTL DEF BreakerInv

\* No late report of a call takes an open circuit out of that state.
THEOREM LateAnswersNeverClose == Spec => LateAnswersKeepOpen
<1> DEFINE Reported == \E c \in Caller : calls[c] = "running" /\ calls'[c] = "idle"
<1>1. BreakerInv /\ [Next]_vars
        => [Reported /\ circuit.state = "OPEN" => circuit'.state = "OPEN"]_vars
  <2> SUFFICES ASSUME BreakerInv, Next, Reported, circuit.state = "OPEN"
               PROVE  circuit'.state = "OPEN"
    BY DEF vars
  <2>1. Sound(circuit) /\ calls \in [Caller -> {"idle", "running"}]
    BY DEF BreakerInv, TypeOK, TripIsCounted, HalfOpenIsQuiet, Sound
  <2>2. PICK c \in Caller : calls[c] = "running" /\ calls'[c] = "idle"
    OBVIOUS
  <2>3. calls' # calls
    BY <2>2
  <2>4. ASSUME NEW d \in Caller, Call(d) PROVE FALSE
    BY <2>1, <2>2, <2>4 DEF Call
  <2>5. ASSUME NEW d \in Caller, Succeed(d) PROVE circuit'.state = "OPEN"
    BY <2>1, <2>5, SuccessSound DEF Succeed
  <2>6. ASSUME NEW d \in Caller, Fail(d) PROVE circuit'.state = "OPEN"
    BY <2>1, <2>6, FailuresSound DEF Fail
  <2>7. ASSUME NEW d \in Caller, Abandon(d) PROVE circuit'.state = "OPEN"
    BY <2>7 DEF Abandon
  <2>8. ~Look /\ ~Trip /\ ~Reset /\ ~Tick
    BY <2>3 DEF Look, Trip, Reset, Tick
  <2> QED BY <2>4, <2>5, <2>6, <2>7, <2>8 DEF Next
<1> QED BY <1>1, BreakerInvariance, PTL DEF Spec, LateAnswersKeepOpen

(* How far a circuit is from closing: the ticks of the timeout that an open one still    *)
(* waits, the look that makes it half-open, the successes that a half-open one lacks.    *)

ToClose(cb) ==
    CASE cb.state = "CLOSED" -> 0
      [] cb.state = "HALF_OPEN" -> SuccessThreshold - cb.successes
      [] cb.state = "OPEN" -> SuccessThreshold + 1
                              + (IF cb.elapsed < Timeout THEN Timeout - cb.elapsed ELSE 0)

\* A half-open circuit still lacks a success.
Lacking(cb) == Sound(cb) /\ (cb.state = "HALF_OPEN" => cb.successes < SuccessThreshold)

\* From cb to d, unless a failure is reported.
ComesNearer(cb, d) ==
    d.failures <= cb.failures =>
        /\ ToClose(d) <= ToClose(cb)
        /\ cb.state # "CLOSED" /\ (d.state # cb.state \/ d.successes # cb.successes)
              => ToClose(d) < ToClose(cb)
        /\ cb.state = "OPEN" /\ cb.elapsed < d.elapsed /\ cb.elapsed < Timeout
              => ToClose(d) < ToClose(cb)

\* How far each state is from closing.
LEMMA FarFromClosing ==
    ASSUME NEW cb, Lacking(cb)
    PROVE  /\ ToClose(cb) \in Nat
           /\ cb.state = "CLOSED" => ToClose(cb) = 0
           /\ cb.state = "HALF_OPEN" => /\ ToClose(cb) = SuccessThreshold - cb.successes
                                        /\ ToClose(cb) \in 1 .. SuccessThreshold
           /\ cb.state = "OPEN" =>
                 /\ ToClose(cb) > SuccessThreshold
                 /\ cb.elapsed < Timeout => ToClose(cb) = SuccessThreshold + 1 + (Timeout - cb.elapsed)
                 /\ cb.elapsed >= Timeout => ToClose(cb) = SuccessThreshold + 1
<1>1. /\ cb.state \in CircuitState /\ cb.successes \in Nat /\ cb.elapsed \in 0 .. Timeout + 1
      /\ SuccessThreshold \in Nat \ {0} /\ Timeout \in Nat
    BY BreakerAssumption DEF Lacking, Sound, Circuit
<1>2. CASE cb.state = "CLOSED"
    BY <1>2 DEF ToClose
<1>3. CASE cb.state = "HALF_OPEN"
    BY <1>1, <1>3 DEF ToClose, Lacking
<1>4. CASE cb.state = "OPEN"
    BY <1>1, <1>4 DEF ToClose
<1> QED BY <1>1, <1>2, <1>3, <1>4 DEF CircuitState

\* Looking at a circuit, which is all that makes it half-open.
LEMMA ReadNears ==
    ASSUME NEW cb, Lacking(cb)
    PROVE  Lacking(Read(cb)) /\ ComesNearer(cb, Read(cb))
<1>1. CASE Expired(cb)
    <2>1. /\ cb.state = "OPEN" /\ cb.elapsed >= Timeout
          /\ Read(cb).state = "HALF_OPEN" /\ Read(cb).successes = 0
        BY <1>1 DEF Read, Expired, Lacking, Sound, Circuit
    <2>2. Lacking(Read(cb))
        BY <2>1, ReadSound, BreakerAssumption DEF Lacking
    <2>3. ToClose(Read(cb)) < ToClose(cb)
        BY <2>1, <2>2, FarFromClosing, BreakerAssumption
    <2>4. ToClose(Read(cb)) \in Nat /\ ToClose(cb) \in Nat
        BY <2>2, FarFromClosing
    <2> QED BY <2>2, <2>3, <2>4 DEF ComesNearer
<1>2. CASE ~ Expired(cb)
    <2>1. Read(cb) = cb
        BY <1>2 DEF Read
    <2>2. ToClose(cb) \in Nat /\ cb.elapsed \in Nat
        BY FarFromClosing DEF Lacking, Sound, Circuit
    <2> QED BY <2>1, <2>2 DEF ComesNearer
<1> QED BY <1>1, <1>2

\* A report of success counts in a half-open circuit and nowhere else.
LEMMA SuccessNears ==
    ASSUME NEW cb, Lacking(cb)
    PROVE  Lacking(OnSuccess(cb)) /\ ComesNearer(cb, OnSuccess(cb))
<1> DEFINE d == OnSuccess(cb)
<1>1. cb.successes \in Nat /\ cb.elapsed \in 0 .. Timeout + 1 /\ SuccessThreshold \in Nat \ {0}
    BY BreakerAssumption DEF Lacking, Sound, Circuit
<1>2. CASE cb.state = "HALF_OPEN"
    <2>1. \/ d.state = "HALF_OPEN" /\ d.successes = cb.successes + 1 /\ d.successes < SuccessThreshold
          \/ d.state = "CLOSED"
        BY <1>1, <1>2 DEF OnSuccess, Closed
    <2>2. Lacking(d)
        BY <2>1, SuccessSound DEF Lacking
    <2>3. ToClose(d) < ToClose(cb)
        BY <1>1, <1>2, <2>1, <2>2, FarFromClosing
    <2>4. ToClose(d) \in Nat /\ ToClose(cb) \in Nat
        BY <2>2, FarFromClosing
    <2> QED BY <2>2, <2>3, <2>4 DEF ComesNearer
<1>3. CASE cb.state = "CLOSED"
    <2>1. d.state = "CLOSED"
        BY <1>3 DEF OnSuccess, Closed
    <2>2. Lacking(d)
        BY <2>1, SuccessSound DEF Lacking
    <2>3. ToClose(d) = 0 /\ ToClose(cb) = 0
        BY <1>3, <2>1, <2>2, FarFromClosing
    <2> QED BY <1>3, <2>2, <2>3 DEF ComesNearer
<1>4. CASE cb.state = "OPEN"
    <2>1. d = cb
        BY <1>4 DEF OnSuccess
    <2>2. ToClose(cb) \in Nat
        BY FarFromClosing
    <2> QED BY <1>1, <2>1, <2>2, BreakerAssumption DEF ComesNearer
<1> QED BY <1>2, <1>3, <1>4 DEF Lacking, Sound, Circuit, CircuitState

\* Every step either reports a failure or brings the circuit no further from closing.
LEMMA BreakerNears ==
    ASSUME Lacking(circuit), Sound(circuit'), [Next]_vars
    PROVE  Lacking(circuit') /\ ComesNearer(circuit, circuit')
<1>0. /\ circuit.failures \in Nat /\ circuit.successes \in Nat
      /\ circuit.elapsed \in 0 .. Timeout + 1 /\ Timeout \in Nat /\ ToClose(circuit) \in Nat
    BY FarFromClosing, BreakerAssumption DEF Lacking, Sound, Circuit
<1>1. ASSUME circuit' = circuit PROVE Lacking(circuit') /\ ComesNearer(circuit, circuit')
    BY <1>0, <1>1 DEF ComesNearer, Lacking
<1>2. ASSUME NEW c \in Caller, Call(c) PROVE Lacking(circuit') /\ ComesNearer(circuit, circuit')
    BY <1>2, ReadNears DEF Call
<1>3. ASSUME NEW c \in Caller, Succeed(c) PROVE Lacking(circuit') /\ ComesNearer(circuit, circuit')
    BY <1>3, SuccessNears DEF Succeed
<1>4. ASSUME NEW n \in Nat \ {0}, NEW cb, cb.failures = circuit.failures, Sound(cb),
             Lacking(cb), circuit' = OnFailures(cb, n)
      PROVE  Lacking(circuit') /\ ComesNearer(circuit, circuit')
    <2>1. circuit'.failures = circuit.failures + n /\ circuit'.successes = cb.successes
        BY <1>4 DEF OnFailures
    <2>2. ~ (circuit'.failures <= circuit.failures)
        BY <1>0, <1>4, <2>1
    <2>3. circuit'.state # "HALF_OPEN"
        <3>1. CASE cb.state = "CLOSED"
            BY <1>4, <3>1 DEF OnFailures
        <3>2. CASE cb.state # "CLOSED"
            BY <1>4, <3>2, FailuresSound
        <3> QED BY <3>1, <3>2
    <2> QED BY <2>2, <2>3 DEF ComesNearer, Lacking
<1>5. ASSUME NEW c \in Caller, Fail(c) PROVE Lacking(circuit') /\ ComesNearer(circuit, circuit')
    <2>1. circuit' = OnFailures(circuit, 1) /\ Sound(circuit)
        BY <1>5 DEF Fail, Lacking
    <2> QED BY <1>4, <2>1
<1>6. ASSUME Trip PROVE Lacking(circuit') /\ ComesNearer(circuit, circuit')
    <2>1. circuit' = OnFailures(Read(circuit), FailureThreshold)
        BY <1>6 DEF Trip
    <2>2. Lacking(Read(circuit)) /\ Sound(Read(circuit)) /\ Read(circuit).failures = circuit.failures
        BY ReadNears, ReadSound DEF Lacking
    <2>3. FailureThreshold \in Nat \ {0}
        BY BreakerAssumption
    <2> QED BY <1>4, <2>1, <2>2, <2>3
<1>7. ASSUME Look PROVE Lacking(circuit') /\ ComesNearer(circuit, circuit')
    BY <1>7, ReadNears DEF Look
<1>8. ASSUME Reset PROVE Lacking(circuit') /\ ComesNearer(circuit, circuit')
    <2>1. circuit'.state = "CLOSED"
        BY <1>8 DEF Reset, Closed
    <2>2. Lacking(circuit')
        BY <2>1 DEF Lacking
    <2>3. ToClose(circuit') = 0
        BY <2>1, <2>2, FarFromClosing
    <2>4. circuit.state # "CLOSED" => ToClose(circuit) > 0
        BY FarFromClosing, BreakerAssumption DEF Lacking, Sound, Circuit, CircuitState
    <2> QED BY <1>0, <2>2, <2>3, <2>4 DEF ComesNearer
<1>9. ASSUME Tick PROVE Lacking(circuit') /\ ComesNearer(circuit, circuit')
    <2>1. /\ circuit'.state = circuit.state /\ circuit'.successes = circuit.successes
          /\ circuit'.elapsed = circuit.elapsed + 1
        BY <1>9 DEF Tick, Lacking, Sound, Circuit
    <2>2. Lacking(circuit')
        BY <2>1 DEF Lacking
    <2>3. CASE circuit.state = "OPEN"
        <3>1. CASE circuit.elapsed < Timeout
            <4>1. ToClose(circuit) = SuccessThreshold + 1 + (Timeout - circuit.elapsed)
                BY <2>3, <3>1, FarFromClosing
            <4>2. CASE circuit'.elapsed < Timeout
                <5>1. ToClose(circuit') = SuccessThreshold + 1 + (Timeout - (circuit.elapsed + 1))
                    BY <2>1, <2>2, <2>3, <4>2, FarFromClosing
                <5> QED BY <1>0, <2>1, <2>2, <4>1, <5>1, BreakerAssumption DEF ComesNearer
            <4>3. CASE ~ (circuit'.elapsed < Timeout)
                <5>1. ToClose(circuit') = SuccessThreshold + 1
                    BY <1>0, <2>1, <2>2, <2>3, <4>3, FarFromClosing
                <5> QED BY <1>0, <2>1, <2>2, <3>1, <4>1, <5>1, BreakerAssumption DEF ComesNearer
            <4> QED BY <4>2, <4>3
        <3>2. CASE ~ (circuit.elapsed < Timeout)
            <4>1. ToClose(circuit') = SuccessThreshold + 1 /\ ToClose(circuit) = SuccessThreshold + 1
                BY <1>0, <2>1, <2>2, <2>3, <3>2, FarFromClosing
            <4> QED BY <2>1, <2>2, <3>2, <4>1, BreakerAssumption DEF ComesNearer
        <3> QED BY <3>1, <3>2
    <2>4. CASE circuit.state # "OPEN"
        <3>1. ToClose(circuit') = ToClose(circuit)
            BY <2>1, <2>2, <2>4, FarFromClosing DEF Lacking, Sound, Circuit, CircuitState
        <3> QED BY <1>0, <2>1, <2>2, <2>4, <3>1 DEF ComesNearer
    <2> QED BY <2>3, <2>4
<1>10. ASSUME UNCHANGED vars PROVE circuit' = circuit
    BY <1>10 DEF vars
<1>11. ASSUME NEW c \in Caller, Abandon(c) PROVE circuit' = circuit
    BY <1>11 DEF Abandon
<1> QED BY <1>1, <1>2, <1>3, <1>5, <1>6, <1>7, <1>8, <1>9, <1>10, <1>11 DEF Next

\* Only a failure takes a circuit further from closing: the answers of calls, however late,
\* the readers of its state, resets and the clock never undo what it has waited and
\* counted, and each that changes the state or the count of a circuit that is not closed
\* brings it nearer (circuit_breaker.py, state, _on_success and reset).
THEOREM CircuitNearsClosing == Spec => [][ComesNearer(circuit, circuit')]_vars
<1>1. Init => Lacking(circuit)
    BY BreakerAssumption DEF Init, Fresh, Lacking, Sound, Circuit, CircuitState
<1>2. BreakerInv' => Sound(circuit')
    BY DEF BreakerInv, TypeOK, TripIsCounted, HalfOpenIsQuiet, Sound
<1>3. Lacking(circuit) /\ BreakerInv' /\ [Next]_vars => Lacking(circuit)'
    BY <1>2, BreakerNears
<1>4. Lacking(circuit) /\ BreakerInv' /\ [Next]_vars => [ComesNearer(circuit, circuit')]_vars
    BY <1>2, BreakerNears
<1> QED BY <1>1, <1>3, <1>4, BreakerInvariance, PTL DEF Spec

-----------------------------------------------------------------------------
(* The load of the nodes. *)

DispatchTypes ==
    /\ load \in [Server -> Nat]
    /\ chosen \in [Order -> Server \union {Nobody}]
    /\ servedBy \in [Order -> Server \union {Nobody}]
    /\ missed \in [Server -> [starts : Nat, ends : Nat]]
    /\ listed \subseteq Server

\* LoadFitsWork of one node, with load l, work w and the updates m it missed.
Fits(l, w, m) == l <= w + m.ends /\ w <= l + m.starts

FitsAt(n) == Fits(load[n], Cardinality(Work(n)), missed[n])

DispatchInv == DispatchTypes /\ \A n \in Server : FitsAt(n)

\* The work of a node is a finite set of requests.
LEMMA WorkIsFinite ==
    ASSUME IsFiniteSet(Order), NEW n
    PROVE  IsFiniteSet(Work(n)) /\ Cardinality(Work(n)) \in Nat
BY FS_Subset, FS_CardinalityType DEF Work

\* A node that a step does not touch fits as before.
LEMMA UntouchedFits ==
    ASSUME DispatchInv, NEW n \in Server,
           load'[n] = load[n], Work(n)' = Work(n), missed'[n] = missed[n]
    PROVE  FitsAt(n)'
BY DEF DispatchInv, FitsAt, Fits

\* Both choosers name nodes that exist.
LEMMA ChoicesAreServers ==
    ASSUME DispatchTypes
    PROVE  RouterChoices \subseteq Server /\ BalancerChoices \subseteq Server
<1>1. RouterChoices \subseteq Server
    BY DEF RouterChoices, Best
<1>2. BalancerChoices \subseteq Server
    BY DEF BalancerChoices, Best, DispatchTypes
<1> QED BY <1>1, <1>2

\* A choice changes no load, no work and no record of them.
LEMMA ChooseKeepsInv ==
    ASSUME DispatchInv, NEW r \in Order, NEW n \in Server, Choose(r, n)
    PROVE  DispatchInv'
<1>1. DispatchTypes'
    BY DEF DispatchInv, DispatchTypes, Choose
<1>2. ASSUME NEW m \in Server PROVE FitsAt(m)'
    BY <1>2, UntouchedFits DEF Choose, Work
<1> QED BY <1>1, <1>2 DEF DispatchInv

\* What an update of the load leaves: the load is a number again, for a node that is
\* registered the sum where that is not negative, and for any other what it was.
LEMMA LoadAfterValue ==
    ASSUME load \in [Server -> Nat], NEW n \in Server, NEW delta \in {-1, 1}
    PROVE  /\ LoadAfter(n, delta) \in [Server -> Nat]
           /\ \A m \in Server \ {n} : LoadAfter(n, delta)[m] = load[m]
           /\ n \notin listed => LoadAfter(n, delta)[n] = load[n]
           /\ n \in listed => LoadAfter(n, delta)[n] = IF load[n] + delta < 0 THEN 0 ELSE load[n] + delta
BY DEF LoadAfter

\* A request that begins adds one to the work of its node, and to its load if that is
\* counted, else to the starts missed.
LEMMA BeginCounts ==
    ASSUME IsFiniteSet(Order), Nobody \notin Server, DispatchInv,
           NEW r \in Order, BeginOrder(r), servedBy[r] = Nobody
    PROVE  DispatchInv'
<1>0. PICK n \in Server : n = chosen[r]
    BY DEF BeginOrder, DispatchInv, DispatchTypes
<1>1. load' = LoadAfter(n, 1)
    BY <1>0 DEF BeginOrder
<1>2. DispatchTypes'
    <2>1. load' \in [Server -> Nat]
        BY <1>0, <1>1, LoadAfterValue DEF DispatchInv, DispatchTypes
    <2>2. missed' \in [Server -> [starts : Nat, ends : Nat]]
        BY <1>0 DEF BeginOrder, DispatchInv, DispatchTypes
    <2> QED BY <1>0, <2>1, <2>2 DEF BeginOrder, DispatchInv, DispatchTypes
<1>3. ASSUME NEW m \in Server \ {n} PROVE FitsAt(m)'
    <2>1. Work(m)' = Work(m)
        BY <1>0 DEF BeginOrder, Work, DispatchInv, DispatchTypes
    <2>2. load'[m] = load[m]
        BY <1>0, <1>1, LoadAfterValue DEF DispatchInv, DispatchTypes
    <2>3. missed'[m] = missed[m]
        BY <1>0 DEF BeginOrder, DispatchInv, DispatchTypes
    <2> QED BY <2>1, <2>2, <2>3, UntouchedFits
<1>4. FitsAt(n)'
    <2>1. Work(n)' = Work(n) \union {r} /\ r \notin Work(n)
        BY <1>0 DEF Work, BeginOrder, DispatchInv, DispatchTypes
    <2>2. Cardinality(Work(n)') = Cardinality(Work(n)) + 1 /\ Cardinality(Work(n)) \in Nat
        BY <2>1, WorkIsFinite, FS_AddElement
    <2>3. /\ load[n] \in Nat /\ missed[n].starts \in Nat /\ missed[n].ends \in Nat
          /\ load[n] <= Cardinality(Work(n)) + missed[n].ends
          /\ Cardinality(Work(n)) <= load[n] + missed[n].starts
        BY <1>0 DEF DispatchInv, DispatchTypes, FitsAt, Fits
    <2>4. CASE n \in listed
        <3>1. load'[n] = load[n] + 1
            BY <1>0, <1>1, <2>3, <2>4, LoadAfterValue DEF DispatchInv, DispatchTypes
        <3>2. missed'[n] = missed[n]
            BY <1>0, <2>4 DEF BeginOrder
        <3> QED BY <2>2, <2>3, <3>1, <3>2 DEF FitsAt, Fits
    <2>5. CASE n \notin listed
        <3>1. load'[n] = load[n]
            BY <1>0, <1>1, <2>5, LoadAfterValue DEF DispatchInv, DispatchTypes
        <3>2. missed'[n].starts = missed[n].starts + 1 /\ missed'[n].ends = missed[n].ends
            BY <1>0, <2>5 DEF BeginOrder, DispatchInv, DispatchTypes
        <3> QED BY <2>2, <2>3, <3>1, <3>2 DEF FitsAt, Fits
    <2> QED BY <2>4, <2>5
<1> QED BY <1>2, <1>3, <1>4 DEF DispatchInv

\* A request that ends takes one from the work of its node, and at most one from its
\* load if that is counted, else adds one to the ends missed.
LEMMA FinishCounts ==
    ASSUME IsFiniteSet(Order), Nobody \notin Server, DispatchInv,
           NEW r \in Order, NEW outcome, FinishOrder(r, outcome)
    PROVE  DispatchInv'
<1>0. PICK n \in Server : n = servedBy[r] /\ n # Nobody
    BY DEF FinishOrder, DispatchInv, DispatchTypes
<1>1. load' = LoadAfter(n, -1)
    BY <1>0 DEF FinishOrder
<1>2. DispatchTypes'
    <2>1. load' \in [Server -> Nat]
        BY <1>0, <1>1, LoadAfterValue DEF DispatchInv, DispatchTypes
    <2>2. missed' \in [Server -> [starts : Nat, ends : Nat]]
        BY <1>0 DEF FinishOrder, DispatchInv, DispatchTypes
    <2> QED BY <2>1, <2>2 DEF FinishOrder, DispatchInv, DispatchTypes
<1>3. ASSUME NEW m \in Server \ {n} PROVE FitsAt(m)'
    <2>1. Work(m)' = Work(m)
        BY <1>0 DEF FinishOrder, Work, DispatchInv, DispatchTypes
    <2>2. load'[m] = load[m]
        BY <1>0, <1>1, LoadAfterValue DEF DispatchInv, DispatchTypes
    <2>3. missed'[m] = missed[m]
        BY <1>0 DEF FinishOrder, DispatchInv, DispatchTypes
    <2> QED BY <2>1, <2>2, <2>3, UntouchedFits
<1>4. FitsAt(n)'
    <2>1. Work(n)' = Work(n) \ {r} /\ r \in Work(n)
        BY <1>0 DEF Work, FinishOrder, DispatchInv, DispatchTypes
    <2>2. /\ Cardinality(Work(n)') = Cardinality(Work(n)) - 1
          /\ Cardinality(Work(n)) \in Nat /\ Cardinality(Work(n)') \in Nat
        BY <2>1, WorkIsFinite, FS_RemoveElement, FS_Subset, FS_CardinalityType
    <2>3. /\ load[n] \in Nat /\ missed[n].starts \in Nat /\ missed[n].ends \in Nat
          /\ load[n] <= Cardinality(Work(n)) + missed[n].ends
          /\ Cardinality(Work(n)) <= load[n] + missed[n].starts
        BY <1>0 DEF DispatchInv, DispatchTypes, FitsAt, Fits
    <2>4. CASE n \in listed
        <3>1. load'[n] = IF load[n] + (-1) < 0 THEN 0 ELSE load[n] + (-1)
            BY <1>0, <1>1, <2>3, <2>4, LoadAfterValue DEF DispatchInv, DispatchTypes
        <3>2. missed'[n] = missed[n]
            BY <1>0, <2>4 DEF FinishOrder
        <3> QED BY <2>2, <2>3, <3>1, <3>2 DEF FitsAt, Fits
    <2>5. CASE n \notin listed
        <3>1. load'[n] = load[n]
            BY <1>0, <1>1, <2>5, LoadAfterValue DEF DispatchInv, DispatchTypes
        <3>2. missed'[n].starts = missed[n].starts /\ missed'[n].ends = missed[n].ends + 1
            BY <1>0, <2>5 DEF FinishOrder, DispatchInv, DispatchTypes
        <3> QED BY <2>2, <2>3, <3>1, <3>2 DEF FitsAt, Fits
    <2> QED BY <2>4, <2>5
<1> QED BY <1>2, <1>3, <1>4 DEF DispatchInv

\* A node object that comes back, or leaves, keeps its load, and a new one has missed
\* the starts of the work in progress and the ends that it counts too much.
LEMMA ListingKeepsInv ==
    ASSUME IsFiniteSet(Order), DispatchInv, NEW n \in Server,
           ListNode(n) \/ ListNewNode(n) \/ DelistNode(n)
    PROVE  DispatchInv'
<1>1. CASE ListNode(n) \/ DelistNode(n)
    <2>1. DispatchTypes'
        BY <1>1 DEF DispatchInv, DispatchTypes, ListNode, DelistNode
    <2>2. ASSUME NEW m \in Server PROVE FitsAt(m)'
        BY <1>1, <2>2, UntouchedFits DEF ListNode, DelistNode, Work
    <2> QED BY <2>1, <2>2 DEF DispatchInv
<1>2. CASE ListNewNode(n)
    <2>1. PICK l \in Claimed :
              /\ load' = [load EXCEPT ![n] = l]
              /\ missed' = [missed EXCEPT ![n] = [starts |-> Cardinality(Work(n)), ends |-> l]]
        BY <1>2 DEF ListNewNode
    <2>2. l \in Nat /\ Cardinality(Work(n)) \in Nat
        BY DispatchAssumption, WorkIsFinite
    <2>3. DispatchTypes'
        BY <1>2, <2>1, <2>2 DEF DispatchInv, DispatchTypes, ListNewNode
    <2>4. \A m \in Server : Work(m)' = Work(m)
        BY <1>2 DEF ListNewNode, Work
    <2>5. ASSUME NEW m \in Server \ {n} PROVE FitsAt(m)'
        BY <2>1, <2>4, UntouchedFits DEF DispatchInv, DispatchTypes
    <2>6. FitsAt(n)'
        <3>1. load'[n] = l /\ missed'[n] = [starts |-> Cardinality(Work(n)), ends |-> l]
            BY <2>1 DEF DispatchInv, DispatchTypes
        <3> QED BY <2>2, <2>4, <3>1 DEF FitsAt, Fits
    <2> QED BY <2>3, <2>5, <2>6 DEF DispatchInv
<1> QED BY <1>1, <1>2

\* A request is chosen a node for only while none works on it.
OneAtATime == \A r \in Order : chosen[r] # Nobody => servedBy[r] = Nobody

\* The load that the balancer of the source counts is the work in progress up to the
\* updates it ignored (shard_balancer.py, register, deregister, update_load): true for
\* every number of nodes and requests, and whatever loads new node objects come with.
THEOREM LoadAlwaysFitsWork ==
    ASSUME IsFiniteSet(Order), Nobody \notin Server
    PROVE  DispatchSpec => []LoadFitsWork
<1>1. DispatchInit => DispatchInv /\ OneAtATime
    <2> SUFFICES ASSUME DispatchInit PROVE DispatchInv /\ OneAtATime
        OBVIOUS
    <2>1. DispatchTypes /\ OneAtATime
        BY DEF DispatchInit, DispatchTypes, OneAtATime
    <2>2. ASSUME NEW n \in Server PROVE FitsAt(n)
        <3>1. Work(n) = {}
            BY DEF DispatchInit, Work
        <3> QED BY <3>1, FS_EmptySet DEF DispatchInit, FitsAt, Fits
    <2> QED BY <2>1, <2>2 DEF DispatchInv
<1>2. DispatchInv /\ OneAtATime /\ [DispatchNext]_dispatchVars => DispatchInv' /\ OneAtATime'
    <2> SUFFICES ASSUME DispatchInv, OneAtATime, [DispatchNext]_dispatchVars
                 PROVE  DispatchInv' /\ OneAtATime'
        OBVIOUS
    <2>1. ASSUME NEW r \in Order, Route(r) \/ Select(r) PROVE DispatchInv' /\ OneAtATime'
        <3>1. PICK n \in Server : Choose(r, n)
            BY <2>1, ChoicesAreServers DEF Route, Select, DispatchInv
        <3>2. OneAtATime'
            BY <3>1 DEF Choose, OneAtATime, DispatchInv, DispatchTypes
        <3> QED BY <3>1, <3>2, ChooseKeepsInv
    <2>2. ASSUME NEW r \in Order, BeginOrder(r) PROVE DispatchInv' /\ OneAtATime'
        <3>1. servedBy[r] = Nobody
            BY <2>2 DEF BeginOrder, OneAtATime
        <3>2. OneAtATime'
            BY <2>2 DEF BeginOrder, OneAtATime, DispatchInv, DispatchTypes
        <3> QED BY <2>2, <3>1, <3>2, BeginCounts
    <2>3. ASSUME NEW r \in Order, NEW outcome \in DOMAIN Change, FinishOrder(r, outcome)
          PROVE DispatchInv' /\ OneAtATime'
        <3>1. OneAtATime'
            BY <2>3 DEF FinishOrder, OneAtATime, DispatchInv, DispatchTypes
        <3> QED BY <2>3, <3>1, FinishCounts
    <2>4. ASSUME NEW n \in Server, ListNode(n) \/ ListNewNode(n) \/ DelistNode(n)
          PROVE DispatchInv' /\ OneAtATime'
        <3>1. OneAtATime'
            BY <2>4 DEF ListNode, ListNewNode, DelistNode, OneAtATime
        <3> QED BY <2>4, <3>1, ListingKeepsInv
    <2>5. ASSUME UNCHANGED <<load, listed, chosen, servedBy, missed>>
          PROVE DispatchInv' /\ OneAtATime'
        BY <2>5 DEF DispatchInv, DispatchTypes, FitsAt, Work, OneAtATime
    <2>6. CASE UNCHANGED dispatchVars
        BY <2>5, <2>6 DEF dispatchVars
    <2>7. CASE DispatchNext
        <3>1. ASSUME NEW n \in Server, NEW outcome \in DOMAIN Change, FeedBack(n, outcome)
              PROVE DispatchInv' /\ OneAtATime'
            BY <2>5, <3>1 DEF FeedBack
        <3>2. ASSUME NEW n \in Server, ApplyDecay(n) PROVE DispatchInv' /\ OneAtATime'
            BY <2>5, <3>2 DEF ApplyDecay
        <3>3. CASE RefreshScores \/ BulkDecay \/ HourPasses
            BY <2>5, <3>3 DEF RefreshScores, BulkDecay, HourPasses
        <3> QED BY <2>1, <2>2, <2>3, <2>4, <2>7, <3>1, <3>2, <3>3 DEF DispatchNext
    <2> QED BY <2>6, <2>7
<1>3. DispatchInv => LoadFitsWork
    BY DEF DispatchInv, LoadFitsWork, FitsAt, Fits
<1> QED BY <1>1, <1>2, <1>3, PTL DEF DispatchSpec

-----------------------------------------------------------------------------
(* The clients of the pool. *)

Holds(b, c) == borrower[b].client = c

PoolTypes ==
    /\ made \in Nat /\ closing \in Nat
    /\ clients \in Seq(1 .. made)
    /\ idle \in Seq(1 .. made)
    /\ borrower \in [Borrower -> [phase : {"out", "waiting", "using"}, client : 0 .. made]]
    /\ \A b \in Borrower : borrower[b].phase # "using" => borrower[b].client = 0
    /\ \A b \in Borrower : borrower[b].phase = "using" => borrower[b].client # 0

\* A client is in one place of the queue, or with one caller, and never in both.
OnePlace ==
    /\ \A i, j \in DOMAIN idle : idle[i] = idle[j] => i = j
    /\ \A b, d \in Borrower : b # d /\ Holds(b, borrower[d].client) => borrower[b].client = 0
    /\ \A i \in DOMAIN idle, b \in Borrower : ~ Holds(b, idle[i])

SomePlace ==
    \A k \in DOMAIN clients :
        \/ \E i \in DOMAIN idle : idle[i] = clients[k]
        \/ \E b \in Borrower : Holds(b, clients[k])

PoolInv == PoolTypes /\ OnePlace /\ SomePlace

\* The invariant says what the property says: of two places of a client, both are
\* the same place.
LEMMA PlacesAreOne ==
    ASSUME PoolInv
    PROVE  ClientsAccounted
<1>1. ASSUME NEW c \in 1 .. made PROVE Cardinality(Places(c)) <= 1
    <2>1. \A x, y \in Places(c) : x = y
        BY DEF Places, PoolInv, OnePlace, Holds
    <2>2. CASE Places(c) = {}
        BY <2>2, FS_EmptySet
    <2>3. CASE Places(c) # {}
        <3>1. PICK x : Places(c) = {x}
            BY <2>1, <2>3
        <3> QED BY <3>1, FS_Singleton
    <2> QED BY <2>2, <2>3
<1>2. \A k \in DOMAIN clients : Places(clients[k]) # {}
    BY DEF Places, PoolInv, SomePlace, Holds
<1> QED BY <1>1, <1>2 DEF ClientsAccounted

\* New clients have numbers that no place holds yet.
LEMMA StartKeepsPool ==
    ASSUME PoolInv, PoolSize \in Nat, MaxMade \in Nat, StartPool
    PROVE  PoolInv'
<1> USE DEF PoolInv
<1>1. /\ made \in Nat /\ made' = made + PoolSize /\ made' \in Nat
      /\ idle \in Seq(1 .. made) /\ idle \in Seq(1 .. made')
      /\ clients' = [i \in 1 .. PoolSize |-> made + i]
      /\ clients' \in Seq(1 .. made') /\ Len(clients') = PoolSize
      /\ UNCHANGED borrower /\ closing' = closing
    BY DEF PoolTypes, StartPool
<1>2. /\ idle' \in Seq(1 .. made')
      /\ Len(idle') = Len(idle) + PoolSize
      /\ \A i \in 1 .. Len(idle') :
            idle'[i] = IF i <= Len(idle) THEN idle[i] ELSE made + (i - Len(idle))
    BY SMTT(30), <1>1, ConcatProperties DEF StartPool
<1>3. DOMAIN idle = 1 .. Len(idle) /\ DOMAIN idle' = 1 .. Len(idle') /\ Len(idle) \in Nat
    BY <1>1, <1>2
<1>4. \A i \in DOMAIN idle : idle[i] \in 1 .. made
    BY <1>1
<1>5. PoolTypes'
    BY <1>1, <1>2 DEF PoolTypes
<1>6. \A b \in Borrower : borrower[b].client \in 0 .. made
    BY DEF PoolTypes
<1>a. \A i \in DOMAIN idle' :
          \/ i \in DOMAIN idle /\ idle'[i] = idle[i] /\ idle'[i] <= made
          \/ i > Len(idle) /\ idle'[i] = made + (i - Len(idle)) /\ idle'[i] > made
    BY <1>1, <1>2, <1>3, <1>4
<1>7. OnePlace'
    <2>1. ASSUME NEW i \in DOMAIN idle', NEW j \in DOMAIN idle', idle'[i] = idle'[j] PROVE i = j
        BY <1>1, <1>3, <1>4, <1>a, <2>1 DEF OnePlace
    <2>2. ASSUME NEW i \in DOMAIN idle', NEW b \in Borrower PROVE borrower'[b].client # idle'[i]
        <3>1. CASE i \in DOMAIN idle /\ idle'[i] = idle[i]
            BY <1>1, <3>1 DEF OnePlace, Holds
        <3>2. CASE idle'[i] > made
            BY <1>1, <1>6, <3>2
        <3> QED BY <1>a, <3>1, <3>2
    <2>3. ASSUME NEW b \in Borrower, NEW d \in Borrower, b # d,
                 borrower'[b].client = borrower'[d].client
          PROVE  borrower'[b].client = 0
        BY <1>1, <2>3 DEF OnePlace, Holds
    <2> QED BY <2>1, <2>2, <2>3 DEF OnePlace, Holds
<1>8. SomePlace'
    <2>1. ASSUME NEW k \in DOMAIN clients'
          PROVE  Len(idle) + k \in DOMAIN idle' /\ idle'[Len(idle) + k] = clients'[k]
        <3>1. k \in 1 .. PoolSize /\ clients'[k] = made + k
            BY <1>1
        <3>2. Len(idle) + k \in 1 .. Len(idle') /\ ~ (Len(idle) + k <= Len(idle))
            BY <1>2, <1>3, <3>1
        <3>3. idle'[Len(idle) + k] = made + ((Len(idle) + k) - Len(idle))
            BY <1>2, <3>2
        <3> QED BY <1>1, <1>3, <3>1, <3>2, <3>3
    <2> QED BY <2>1 DEF SomePlace
<1> QED BY <1>5, <1>7, <1>8

\* A waiting caller gets the first client of the queue, which leaves it.
LEMMA ObtainKeepsPool ==
    ASSUME PoolInv, NEW b \in Borrower, Obtain(b)
    PROVE  PoolInv'
<1> USE DEF PoolInv
<1>1. /\ idle \in Seq(1 .. made) /\ idle # <<>> /\ made \in Nat
      /\ idle' = Tail(idle) /\ UNCHANGED <<clients, closing, made>>
      /\ borrower' = [borrower EXCEPT ![b] = At("using", Head(idle))]
    BY DEF PoolTypes, Obtain
<1>2. /\ idle' \in Seq(1 .. made) /\ Len(idle') = Len(idle) - 1
      /\ \A i \in 1 .. Len(idle') : idle'[i] = idle[i + 1]
      /\ Head(idle) = idle[1] /\ 1 \in DOMAIN idle /\ Len(idle) \in Nat
      /\ DOMAIN idle = 1 .. Len(idle) /\ DOMAIN idle' = 1 .. Len(idle')
    BY <1>1, HeadTailProperties
<1>3. \A d \in Borrower : borrower'[d].client = IF d = b THEN idle[1] ELSE borrower[d].client
    BY <1>1, <1>2 DEF PoolTypes, At
<1>4. idle[1] \in 1 .. made
    BY <1>1, <1>2
<1>5. PoolTypes'
    <2>1. borrower' \in [Borrower -> [phase : {"out", "waiting", "using"}, client : 0 .. made']]
        BY <1>1, <1>2, <1>4 DEF PoolTypes, At
    <2>2. \A d \in Borrower : /\ borrower'[d].phase # "using" => borrower'[d].client = 0
                              /\ borrower'[d].phase = "using" => borrower'[d].client # 0
        BY <1>1, <1>2, <1>4 DEF PoolTypes, At
    <2> QED BY <1>1, <1>2, <2>1, <2>2 DEF PoolTypes
<1>6. \A i \in DOMAIN idle' : i + 1 \in DOMAIN idle /\ i + 1 # 1 /\ idle'[i] = idle[i + 1]
    BY <1>2
<1>7. OnePlace'
    <2>1. ASSUME NEW i \in DOMAIN idle', NEW j \in DOMAIN idle', idle'[i] = idle'[j] PROVE i = j
        <3>1. i + 1 = j + 1
            BY <1>6, <2>1 DEF OnePlace
        <3> QED BY <3>1, <1>2
    <2>2. ASSUME NEW i \in DOMAIN idle', NEW d \in Borrower PROVE borrower'[d].client # idle'[i]
        BY <1>2, <1>3, <1>6 DEF OnePlace, Holds
    <2>3. ASSUME NEW d \in Borrower, NEW e \in Borrower, d # e,
                 borrower'[d].client = borrower'[e].client
          PROVE  borrower'[d].client = 0
        BY <1>2, <1>3, <2>3 DEF OnePlace, Holds
    <2> QED BY <2>1, <2>2, <2>3 DEF OnePlace, Holds
<1>8. SomePlace'
    <2>1. ASSUME NEW k \in DOMAIN clients
          PROVE  \/ \E i \in DOMAIN idle' : idle'[i] = clients[k]
                 \/ \E d \in Borrower : borrower'[d].client = clients[k]
        <3>1. CASE \E d \in Borrower : borrower[d].client = clients[k]
            <4>1. PICK d \in Borrower : borrower[d].client = clients[k]
                BY <3>1
            <4>2. clients[k] # 0 /\ borrower[b].client = 0
                BY DEF PoolTypes, Obtain
            <4> QED BY <1>3, <4>1, <4>2
        <3>2. CASE \E i \in DOMAIN idle : idle[i] = clients[k]
            <4>1. PICK i \in DOMAIN idle : idle[i] = clients[k]
                BY <3>2
            <4>2. CASE i = 1
                BY <1>3, <4>1, <4>2
            <4>3. CASE i # 1
                <5>1. i - 1 \in DOMAIN idle' /\ idle'[i - 1] = idle[(i - 1) + 1] /\ (i - 1) + 1 = i
                    BY <1>2, <4>3
                <5> QED BY <4>1, <5>1
            <4> QED BY <4>2, <4>3
        <3> QED BY <3>1, <3>2 DEF SomePlace, Holds
    <2> QED BY <1>1, <2>1 DEF SomePlace, Holds
<1> QED BY <1>5, <1>7, <1>8

\* A client that comes back was in no other place.
LEMMA GiveBackKeepsPool ==
    ASSUME PoolInv, NEW b \in Borrower, GiveBack(b)
    PROVE  PoolInv'
<1> USE DEF PoolInv
<1> DEFINE c == borrower[b].client
<1>1. /\ idle \in Seq(1 .. made) /\ made \in Nat /\ c \in 1 .. made
      /\ idle' = Append(idle, c) /\ UNCHANGED <<clients, closing, made>>
      /\ borrower' = [borrower EXCEPT ![b] = At("out", 0)]
    BY DEF PoolTypes, GiveBack
<1>2. \A d \in Borrower : borrower'[d].client = IF d = b THEN 0 ELSE borrower[d].client
    BY <1>1 DEF PoolTypes, At
<1>3. \A d \in Borrower : d # b => borrower[d].client # c
    BY <1>1 DEF OnePlace, Holds
<1>4. \A i \in DOMAIN idle : idle[i] # c
    BY DEF OnePlace, Holds
<1>5. PoolTypes'
    <2>1. borrower' \in [Borrower -> [phase : {"out", "waiting", "using"}, client : 0 .. made']]
        BY <1>1 DEF PoolTypes, At
    <2>2. \A d \in Borrower : /\ borrower'[d].phase # "using" => borrower'[d].client = 0
                              /\ borrower'[d].phase = "using" => borrower'[d].client # 0
        BY <1>1 DEF PoolTypes, At
    <2>3. idle' \in Seq(1 .. made')
        BY <1>1
    <2> QED BY <1>1, <2>1, <2>2, <2>3 DEF PoolTypes
<1> HIDE DEF c
<1>6. /\ Len(idle') = Len(idle) + 1 /\ idle'[Len(idle) + 1] = c
      /\ \A i \in 1 .. Len(idle) : idle'[i] = idle[i]
      /\ DOMAIN idle = 1 .. Len(idle) /\ DOMAIN idle' = 1 .. Len(idle') /\ Len(idle) \in Nat
    BY <1>1, AppendProperties
<1>7. \A i \in DOMAIN idle' :
          \/ i \in DOMAIN idle /\ idle'[i] = idle[i]
          \/ i = Len(idle) + 1 /\ idle'[i] = c
    BY <1>6
<1>8. OnePlace'
    <2>1. ASSUME NEW i \in DOMAIN idle', NEW j \in DOMAIN idle', idle'[i] = idle'[j] PROVE i = j
        BY <1>4, <1>7, <2>1 DEF OnePlace
    <2>2. ASSUME NEW i \in DOMAIN idle', NEW d \in Borrower PROVE borrower'[d].client # idle'[i]
        <3>1. idle'[i] # 0
            BY <1>1, <1>7
        <3> QED BY <1>2, <1>3, <1>7, <3>1 DEF OnePlace, Holds
    <2>3. ASSUME NEW d \in Borrower, NEW e \in Borrower, d # e,
                 borrower'[d].client = borrower'[e].client
          PROVE  borrower'[d].client = 0
        BY <1>2, <2>3 DEF OnePlace, Holds
    <2> QED BY <2>1, <2>2, <2>3 DEF OnePlace, Holds
<1>9. SomePlace'
    <2>1. ASSUME NEW k \in DOMAIN clients
          PROVE  \/ \E i \in DOMAIN idle' : idle'[i] = clients[k]
                 \/ \E d \in Borrower : borrower'[d].client = clients[k]
        <3>1. CASE clients[k] = c
            BY <1>6, <3>1
        <3>2. CASE clients[k] # c
            BY <1>2, <1>6, <3>2 DEF SomePlace, Holds, c
        <3> QED BY <3>1, <3>2
    <2> QED BY <1>1, <2>1 DEF SomePlace, Holds
<1> QED BY <1>5, <1>8, <1>9

\* Waiting and giving up move no client.
LEMMA WaitingKeepsPool ==
    ASSUME PoolInv, NEW b \in Borrower, Acquire(b) \/ GiveUp(b)
    PROVE  PoolInv'
<1>1. /\ UNCHANGED <<clients, idle, closing, made>>
      /\ \A d \in Borrower : borrower'[d].client = borrower[d].client
    BY DEF PoolInv, PoolTypes, Acquire, GiveUp, At
<1>2. borrower[b].phase # "using" /\ borrower[b].client = 0
    BY DEF PoolInv, PoolTypes, Acquire, GiveUp
<1>3. PICK p \in {"out", "waiting"} : borrower' = [borrower EXCEPT ![b] = At(p, 0)]
    BY DEF Acquire, GiveUp
<1>4. /\ borrower' \in [Borrower -> [phase : {"out", "waiting", "using"}, client : 0 .. made]]
      /\ borrower'[b] = At(p, 0)
      /\ \A d \in Borrower : d # b => borrower'[d] = borrower[d]
    BY <1>3 DEF PoolInv, PoolTypes, At
<1>5. \A d \in Borrower : /\ borrower'[d].phase # "using" => borrower'[d].client = 0
                          /\ borrower'[d].phase = "using" => borrower'[d].client # 0
    BY <1>3, <1>4 DEF PoolInv, PoolTypes, At
<1>6. PoolTypes'
    BY <1>1, <1>4, <1>5 DEF PoolInv, PoolTypes
<1> QED BY <1>1, <1>6 DEF PoolInv, OnePlace, SomePlace, Holds

\* rpc_pool.py: a caller has its client to itself, and no client is lost, with
\* any number of tasks and clients, and through every close and restart.
THEOREM ClientsAlwaysAccounted ==
    ASSUME PoolSize \in Nat, MaxMade \in Nat
    PROVE  PoolSpec => []ClientsAccounted
<1>1. PoolInit => PoolInv
    BY EmptySeq DEF PoolInit, PoolInv, PoolTypes, OnePlace, SomePlace, Holds, At
<1>2. PoolInv /\ [PoolNext]_poolVars => PoolInv'
    <2> SUFFICES ASSUME PoolInv, [PoolNext]_poolVars PROVE PoolInv'
        OBVIOUS
    <2>1. ASSUME UNCHANGED <<clients, idle, made, borrower>>, closing' \in Nat PROVE PoolInv'
        BY <2>1 DEF PoolInv, PoolTypes, OnePlace, SomePlace, Holds
    <2>2. CASE UNCHANGED poolVars
        BY <2>1, <2>2 DEF poolVars, PoolInv, PoolTypes
    <2>3. CASE StartPool
        BY <2>3, StartKeepsPool
    <2>4. CASE CloseClient
        BY <2>1, <2>4 DEF CloseClient, PoolInv, PoolTypes
    <2>5. CASE CloseEnds
        BY <2>5, EmptySeq DEF CloseEnds, PoolInv, PoolTypes, OnePlace, SomePlace, Holds
    <2>6. ASSUME NEW b \in Borrower, Acquire(b) \/ Obtain(b) \/ GiveUp(b) \/ GiveBack(b)
          PROVE PoolInv'
        BY <2>6, ObtainKeepsPool, GiveBackKeepsPool, WaitingKeepsPool
    <2>7. ASSUME NEW b \in Borrower, NEW ok \in BOOLEAN, Mark(b, ok) PROVE PoolInv'
        BY <2>1, <2>7 DEF Mark, PoolInv, PoolTypes
    <2> QED BY <2>2, <2>3, <2>4, <2>5, <2>6, <2>7 DEF PoolNext
<1> QED BY <1>1, <1>2, PlacesAreOne, PTL DEF PoolSpec

-----------------------------------------------------------------------------
(* The placement of shards: for any number of nodes and shards, any latencies and *)
(* loads, and any length of a search.                                             *)

Placement == [Shard -> Node]

\* Weights are not negative; latencies and spreads, whatever they are, are numbers.
Premises ==
    /\ Shards \in Nat /\ Alpha \in Nat /\ Beta \in Nat /\ Gamma \in Nat /\ Threshold \in Nat
    /\ Imbalance \in [SUBSET Node -> Int]
    /\ Matrices \subseteq [Node \X Node -> Int]

TopologyTypes ==
    /\ matrix \in Matrices
    /\ candidates \subseteq Node
    /\ deployed \in Placement
    /\ left \subseteq Placement
    /\ search \in [iteration : Nat, current : Placement, best : Placement]

\* What a search holds on to: placements on candidates, the best of them at least as
\* good as the deployed one, from which the search began if it could.
SearchSound ==
    search.iteration > 0 =>
        /\ \A i \in Shard : search.current[i] \in candidates /\ search.best[i] \in candidates
        /\ (\A i \in Shard : deployed[i] \in candidates) => Score(search.best) <= Score(deployed)

\* The score of what was given up, without the moves, which depend on the time.
LeftIsWorse == \A a \in left : Base(matrix, a) > Base(matrix, deployed)

TopologyInv == TopologyTypes /\ SearchSound /\ LeftIsWorse

-----------------------------------------------------------------------------
(* Scores. *)

\* The latency of a path is the sum of its hops, however many there are.
LEMMA PathIsInteger ==
    ASSUME Premises, NEW m \in Matrices, NEW a \in Placement
    PROVE  PathLatency(m, a) \in Int
<1> DEFINE D == 0 .. Shards - 2
           hop == [i \in D |-> IF a[i] = a[i + 1] THEN 0 ELSE m[<<a[i], a[i + 1]>>]]
<1>1. IsFiniteSet(D)
    BY FS_Interval DEF Premises
<1>2. \A i \in D : hop[i] \in Int
    <2> SUFFICES ASSUME NEW i \in D PROVE hop[i] \in Int
        OBVIOUS
    <2>1. i \in Shard /\ i + 1 \in Shard
        BY DEF Shard, Premises
    <2>2. \A x, y \in Node : m[<<x, y>>] \in Int
        <3>1. m \in [Node \X Node -> Int]
            BY DEF Premises
        <3> QED BY <3>1
    <2>3. m[<<a[i], a[i + 1]>>] \in Int
        BY <2>1, <2>2 DEF Placement
    <2>4. (IF a[i] = a[i + 1] THEN 0 ELSE m[<<a[i], a[i + 1]>>]) \in Int
        BY <2>3
    <2> QED BY <2>4
<1>3. PathLatency(m, a) = SumOver(hop, D)
    BY DEF PathLatency, SumOver
<1> HIDE DEF hop, D
<1> QED BY <1>1, <1>2, <1>3, SumIsInteger

\* So is the score of a placement.
LEMMA BaseIsInteger ==
    ASSUME Premises, NEW m \in Matrices, NEW a \in Placement
    PROVE  Base(m, a) \in Int
<1> DEFINE hosts == {a[i] : i \in Shard}
           p == PathLatency(m, a)
           s == Imbalance[hosts]
<1>1. hosts \in SUBSET Node
    BY DEF Placement
<1>2. s \in Int
    BY <1>1 DEF Premises
<1>3. p \in Int
    BY PathIsInteger
<1>4. Base(m, a) = Alpha * Shards * p + Beta * Shards * s
    BY DEF Base
<1> HIDE DEF p, s, hosts
<1> QED BY <1>2, <1>3, <1>4 DEF Premises

\* The moves are counted; the deployed assignment has none.
LEMMA MovesAreCounted ==
    ASSUME Premises, TopologyTypes, NEW a \in Placement
    PROVE  /\ Gamma * Cardinality(Moved(a)) \in Nat
           /\ Gamma * Cardinality(Moved(deployed)) = 0
<1>1. IsFiniteSet(Shard)
    BY FS_Interval DEF Shard, Premises
<1>2. Cardinality(Moved(a)) \in Nat
    BY <1>1, FS_Subset, FS_CardinalityType DEF Moved
<1>3. Moved(deployed) = {}
    BY DEF Moved
<1>4. Cardinality(Moved(deployed)) = 0
    BY <1>3, FS_EmptySet
<1>5. \A c \in Nat : Gamma * c \in Nat
    BY DEF Premises
<1>6. Gamma * 0 = 0
    BY DEF Premises
<1> QED BY <1>2, <1>4, <1>5, <1>6

\* A score is an integer, at least the base score, and for the deployed placement just that.
LEMMA ScoreSplit ==
    ASSUME Premises, TopologyTypes, NEW a \in Placement
    PROVE  /\ Score(a) \in Int
           /\ Score(deployed) = Base(matrix, deployed)
           /\ Score(a) >= Base(matrix, a)
<1>1. Base(matrix, a) \in Int /\ Base(matrix, deployed) \in Int
    BY BaseIsInteger DEF TopologyTypes
<1>2. /\ Gamma * Cardinality(Moved(a)) \in Nat
      /\ Gamma * Cardinality(Moved(deployed)) = 0
    BY MovesAreCounted
<1> DEFINE g == Gamma * Cardinality(Moved(a))
           h == Gamma * Cardinality(Moved(deployed))
<1>3. Score(a) = Base(matrix, a) + g /\ Score(deployed) = Base(matrix, deployed) + h
    BY DEF Score
<1>4. g \in Nat /\ h = 0
    BY <1>2
<1> HIDE DEF g, h
<1> QED BY <1>1, <1>3, <1>4

\* should_rebalance says yes only to a lower score, whatever the sign of the scores.
LEMMA RebalanceImproves ==
    ASSUME Premises, TopologyTypes, ShouldRebalance
    PROVE  Score(search.best) < Score(deployed)
<1> DEFINE now == Score(deployed)
           new == Score(search.best)
<1>1. now \in Int /\ new \in Int
    BY ScoreSplit DEF TopologyTypes
<1>2. IF now <= 0 THEN new < now ELSE 100 * (now - new) > Threshold * now
    BY DEF ShouldRebalance
<1>3. \A v \in Nat : Threshold * v >= 0
    BY DEF Premises
<1>4. Threshold * now \in Int
    BY <1>1 DEF Premises
<1> HIDE DEF now, new
<1>5. CASE now <= 0
    BY <1>1, <1>2, <1>5 DEF now, new
<1>6. CASE ~ (now <= 0)
    <2>1. Threshold * now >= 0
        BY <1>1, <1>3, <1>6
    <2>2. 100 * (now - new) > 0
        BY <1>1, <1>2, <1>4, <1>6, <2>1
    <2>3. new < now
        BY <1>1, <2>2
    <2> QED BY <2>3 DEF now, new
<1> QED BY <1>5, <1>6

-----------------------------------------------------------------------------
(* The steps. *)

LEMMA OptimizeKeepsInv ==
    ASSUME Premises, TopologyInv, Optimize
    PROVE  TopologyInv'
<1>1. PICK a \in [Shard -> candidates] :
          /\ (\A i \in Shard : deployed[i] \in candidates) => a = deployed
          /\ search' = [iteration |-> 1, current |-> a, best |-> a]
    BY DEF Optimize
<1>2. a \in Placement /\ UNCHANGED <<matrix, candidates, deployed, left>>
    BY DEF Optimize, TopologyInv, TopologyTypes, Placement
<1>3. TopologyTypes'
    BY <1>1, <1>2 DEF TopologyInv, TopologyTypes
<1>4. LeftIsWorse'
    BY <1>2 DEF TopologyInv, LeftIsWorse, Base
<1>5. Score(a)' = Score(a) /\ Score(deployed)' = Score(deployed)
    BY <1>2 DEF Score, Moved
<1>6. SearchSound'
    <2>1. Score(deployed) \in Int
        BY ScoreSplit DEF TopologyInv, TopologyTypes
    <2>2. (\A i \in Shard : deployed'[i] \in candidates') => Score(search'.best) <= Score(deployed)
        BY <1>1, <1>2, <2>1
    <2> QED BY <1>1, <1>2, <2>2 DEF SearchSound, Score, Moved
<1> QED BY <1>3, <1>4, <1>6 DEF TopologyInv

\* A neighbour of a placement on candidates is one.
LEMMA NeighboursStay ==
    ASSUME TopologyInv, search.iteration > 0, NEW n \in Neighbours
    PROVE  n \in Placement /\ \A i \in Shard : n[i] \in candidates
BY DEF TopologyInv, TopologyTypes, SearchSound, Neighbours, Placement

LEMMA AnnealKeepsInv ==
    ASSUME Premises, TopologyInv, MaxIterations \in Nat, Anneal
    PROVE  TopologyInv'
<1>1. UNCHANGED <<matrix, candidates, deployed, left>> /\ search.iteration \in Nat \ {0}
    BY DEF Anneal
<1>2. PICK n \in Neighbours, accepted \in BOOLEAN :
          search' = IF accepted
                    THEN [iteration |-> search.iteration + 1, current |-> n,
                          best |-> IF Score(n) < Score(search.best) THEN n ELSE search.best]
                    ELSE [search EXCEPT !.iteration = @ + 1]
    BY DEF Anneal
<1>3. n \in Placement /\ \A i \in Shard : n[i] \in candidates
    BY <1>1, NeighboursStay
<1>4. /\ search \in [iteration : Nat, current : Placement, best : Placement]
      /\ \A i \in Shard : search.current[i] \in candidates /\ search.best[i] \in candidates
    BY <1>1 DEF TopologyInv, TopologyTypes, SearchSound
<1>5. /\ search'.best \in {n, search.best}
      /\ search'.best = n => Score(n) < Score(search.best) \/ n = search.best
      /\ search'.current \in {n, search.current}
      /\ search'.iteration = search.iteration + 1
      /\ search' \in [iteration : Nat, current : Placement, best : Placement]
    <2>1. CASE accepted
        BY <1>1, <1>2, <1>3, <1>4, <2>1
    <2>2. CASE ~ accepted
        BY <1>1, <1>2, <1>3, <1>4, <2>2
    <2> QED BY <2>1, <2>2
<1>6. TopologyTypes'
    BY <1>1, <1>5 DEF TopologyInv, TopologyTypes
<1>7. LeftIsWorse'
    BY <1>1 DEF TopologyInv, LeftIsWorse, Base
<1>8. SearchSound'
    <2>1. \A i \in Shard : search'.current[i] \in candidates /\ search'.best[i] \in candidates
        BY <1>3, <1>4, <1>5
    <2>2. Score(n) \in Int /\ Score(search.best) \in Int /\ Score(deployed) \in Int
        BY <1>3, <1>4, ScoreSplit DEF TopologyInv, TopologyTypes
    <2>3. (\A i \in Shard : deployed[i] \in candidates) => Score(search'.best) <= Score(deployed)
        <3>1. SUFFICES ASSUME \A i \in Shard : deployed[i] \in candidates
                       PROVE  Score(search'.best) <= Score(deployed)
            OBVIOUS
        <3>2. Score(search.best) <= Score(deployed)
            BY <1>1, <3>1 DEF TopologyInv, SearchSound
        <3> QED BY <1>5, <2>2, <3>2
    <2>4. \A a : Score(a)' = Base(matrix, a)' + Gamma * Cardinality(Moved(a)')
        BY DEF Score
    <2> QED BY <1>1, <2>1, <2>3 DEF SearchSound, Score, Moved
<1> QED BY <1>6, <1>7, <1>8 DEF TopologyInv

LEMMA ConcludeKeepsInv ==
    ASSUME Premises, TopologyInv, MaxIterations \in Nat, Conclude
    PROVE  TopologyInv'
<1>0. /\ UNCHANGED <<matrix, candidates>> /\ search' = Idle(deployed')
      /\ search.best \in Placement /\ deployed \in Placement /\ TopologyTypes
      /\ matrix \in Matrices
    BY DEF Conclude, TopologyInv, TopologyTypes
<1>1. CASE ShouldRebalance
    <2>1. deployed' = search.best /\ left' = left \union {deployed}
        BY <1>1 DEF Conclude
    <2>2. Base(matrix, search.best) < Base(matrix, deployed)
        <3>1. Score(search.best) < Score(deployed)
            BY <1>0, <1>1, RebalanceImproves
        <3>2. /\ Score(search.best) \in Int /\ Score(search.best) >= Base(matrix, search.best)
              /\ Score(deployed) = Base(matrix, deployed)
            BY <1>0, ScoreSplit
        <3>3. Base(matrix, search.best) \in Int /\ Base(matrix, deployed) \in Int
            BY <1>0, BaseIsInteger
        <3> QED BY <3>1, <3>2, <3>3
    <2>3. TopologyTypes'
        BY <1>0, <2>1 DEF TopologyTypes, Idle
    <2>4. SearchSound'
        BY <1>0 DEF SearchSound, Idle
    <2>5. LeftIsWorse'
        <3>1. ASSUME NEW a \in left'
              PROVE  Base(matrix, a) > Base(matrix, search.best)
            <4>1. CASE a = deployed
                BY <2>2, <4>1, <1>0, BaseIsInteger
            <4>2. CASE a \in left
                <5>1. Base(matrix, a) > Base(matrix, deployed)
                    BY <4>2 DEF TopologyInv, LeftIsWorse
                <5>2. a \in Placement
                    BY <4>2 DEF TopologyInv, TopologyTypes
                <5>3. /\ Base(matrix, a) \in Int /\ Base(matrix, deployed) \in Int
                      /\ Base(matrix, search.best) \in Int
                    BY <1>0, <5>2, BaseIsInteger
                <5> QED BY <2>2, <5>1, <5>3
            <4> QED BY <2>1, <3>1, <4>1, <4>2
        <3> QED BY <1>0, <2>1, <3>1 DEF LeftIsWorse
    <2> QED BY <2>3, <2>4, <2>5 DEF TopologyInv
<1>2. CASE ~ ShouldRebalance
    <2>1. UNCHANGED <<deployed, left>>
        BY <1>2 DEF Conclude
    <2>2. TopologyTypes'
        BY <1>0, <2>1 DEF TopologyTypes, Idle
    <2>3. SearchSound'
        BY <1>0 DEF SearchSound, Idle
    <2>4. LeftIsWorse'
        BY <1>0, <2>1 DEF TopologyInv, LeftIsWorse
    <2> QED BY <2>2, <2>3, <2>4 DEF TopologyInv
<1> QED BY <1>1, <1>2

\* topology_optimizer.py, optimize and should_rebalance: a search ends on nodes that
\* are there and never worse than it began, and no placement comes back while the
\* inputs stay the same.
THEOREM PlacementsNeverThrash ==
    ASSUME Premises, MaxIterations \in Nat
    PROVE  TopologySpec => []NoThrashing
<1>1. TopologyInit => TopologyInv
    BY DEF TopologyInit, TopologyInv, TopologyTypes, SearchSound, LeftIsWorse, Idle, Placement
<1>2. TopologyInv /\ [TopologyNext]_topologyVars => TopologyInv'
    <2> SUFFICES ASSUME TopologyInv, [TopologyNext]_topologyVars PROVE TopologyInv'
        OBVIOUS
    <2>1. CASE InputsChange
        BY <2>1 DEF InputsChange, TopologyInv, TopologyTypes, SearchSound, LeftIsWorse
    <2>2. CASE UNCHANGED topologyVars
        BY <2>2 DEF topologyVars, TopologyInv, TopologyTypes, SearchSound, LeftIsWorse, Score, Moved
    <2> QED BY <2>1, <2>2, OptimizeKeepsInv, AnnealKeepsInv, ConcludeKeepsInv DEF TopologyNext
<1>3. TopologyInv => NoThrashing
    <2>1. ASSUME TopologyInv, deployed \in left PROVE FALSE
        <3>1. Base(matrix, deployed) > Base(matrix, deployed)
            BY <2>1 DEF TopologyInv, LeftIsWorse
        <3>2. Base(matrix, deployed) \in Int
            BY <2>1, BaseIsInteger DEF TopologyInv, TopologyTypes
        <3> QED BY <3>1, <3>2
    <2> QED BY <2>1 DEF TopologyInv, SearchSound, NoThrashing
<1> QED BY <1>1, <1>2, <1>3, PTL DEF TopologySpec

-----------------------------------------------------------------------------
(* The registry of models: a job is answered by a manager of its model, for any    *)
(* models, list of supported models and number of workers.                        *)

\* Every worker has an entry, and what the registry files is of the model it is filed under.
RegistryInv ==
    /\ serving = [w \in Worker |-> serving[w]]
    /\ FiledByModel
    /\ ServedByItsModel

\* The fallback is of the primary model, and jobs for it are all that is polled for.
LEMMA ManagerForPolled ==
    ASSUME NEW m, FiledByModel, Polled(m)
    PROVE  ManagerFor(m).model = m
<1>1. CASE m \in names /\ m \in DOMAIN registry
  BY <1>1 DEF ManagerFor, FiledByModel
<1>2. CASE ~(m \in names /\ m \in DOMAIN registry)
  BY <1>2 DEF ManagerFor, Legacy, Polled
<1> QED BY <1>1, <1>2

\* The registry starts that way,
LEMMA RegistryInvInit == RegistryInit => RegistryInv
<1> SUFFICES ASSUME RegistryInit PROVE RegistryInv
  OBVIOUS
<1>1. FiledByModel
  BY DEF RegistryInit, FiledByModel
<1>2. serving = [w \in Worker |-> serving[w]]
  BY DEF RegistryInit
<1>3. ServedByItsModel
  BY DEF RegistryInit, ServedByItsModel, Waiting
<1> QED BY <1>1, <1>2, <1>3 DEF RegistryInv

\* and every step keeps it so.
LEMMA RegistryInvStep == RegistryInv /\ [RegistryNext]_registryVars => RegistryInv'
<1> SUFFICES ASSUME RegistryInv, [RegistryNext]_registryVars PROVE RegistryInv'
  OBVIOUS
<1> USE DEF RegistryInv
<1>1. ASSUME NEW m \in Model, Load(m) PROVE RegistryInv'
  BY <1>1 DEF Load, FiledByModel, ServedByItsModel
<1>2. ASSUME NEW m \in Model, Unload(m) PROVE RegistryInv'
  <2>1. FiledByModel'
    BY <1>2 DEF Unload, FiledByModel
  <2>2. serving' = serving
    BY <1>2 DEF Unload
  <2> QED BY <2>1, <2>2 DEF ServedByItsModel
<1>3. ASSUME NEW s \in loading, LoadEnds(s) PROVE RegistryInv'
  <2>1. FiledByModel'
    BY <1>3 DEF LoadEnds, Enter, FiledByModel
  <2>2. serving' = serving
    BY <1>3 DEF LoadEnds
  <2> QED BY <2>1, <2>2 DEF ServedByItsModel
<1>4. ASSUME NEW s \in loading, LoadFails(s) PROVE RegistryInv'
  BY <1>4 DEF LoadFails, FiledByModel, ServedByItsModel
<1>5. ASSUME NEW w \in Worker, AnswerJob(w) PROVE RegistryInv'
  <2>1. FiledByModel'
    BY <1>5 DEF AnswerJob, FiledByModel
  <2>2. serving' = [v \in Worker |-> serving'[v]]
    BY <1>5 DEF AnswerJob
  <2>3. ServedByItsModel'
    BY <1>5 DEF AnswerJob, ServedByItsModel, Waiting
  <2> QED BY <2>1, <2>2, <2>3
<1>6. ASSUME NEW w \in Worker, NEW m \in Model, Take(w, m) PROVE RegistryInv'
  <2>1. FiledByModel'
    BY <1>6 DEF Take, FiledByModel
  <2>2. serving' = [v \in Worker |-> serving'[v]]
    BY <1>6 DEF Take
  <2>3. ManagerFor(m).model = m
    BY <1>6, ManagerForPolled DEF Take
  <2>4. ServedByItsModel'
    BY <1>6, <2>3 DEF Take, ServedByItsModel
  <2> QED BY <2>1, <2>2, <2>4
<1>7. CASE UNCHANGED registryVars
  BY <1>7 DEF registryVars, FiledByModel, ServedByItsModel
<1> QED BY <1>1, <1>2, <1>3, <1>4, <1>5, <1>6, <1>7 DEF RegistryNext

\* However loads and unloads overlap with each other and with jobs, a job is answered
\* by a manager of its model (server.py:218).
THEOREM ServedByItsModelHolds == RegistrySpec => []ServedByItsModel
<1>1. RegistryInv => ServedByItsModel
  BY DEF RegistryInv
<1> QED BY RegistryInvInit, RegistryInvStep, <1>1, PTL DEF RegistrySpec

-----------------------------------------------------------------------------
(* The rate limit of the gateway.  The requests of a window's length are those      *)
(* the bucket has counted, and those admitted before the bucket's window began: the *)
(* bucket's window is replaced as a whole, so what it counted at that time is all     *)
(* there is from before, and of either kind there are no more than the limit.        *)

CountedNow == {i \in DOMAIN admitted : admitted[i] <= Window /\ admitted[i] <= bucket.age}
CountedBefore == {i \in DOMAIN admitted : admitted[i] <= Window /\ admitted[i] > bucket.age}

RateTypes ==
    /\ bucket \in [count : Nat, age : 0 .. Window + 1]
    /\ admitted \in Seq(0 .. Window + 1)

RateInv ==
    /\ RateTypes
    /\ Cardinality(CountedNow) <= Limit /\ Cardinality(CountedNow) <= bucket.count
    /\ Cardinality(CountedBefore) <= Limit
    /\ bucket.age > Window => \A i \in DOMAIN admitted : admitted[i] > 0

\* The sets of requests are finite.
LEMMA RequestsFinite ==
    ASSUME RateTypes, NEW X, X \in SUBSET DOMAIN admitted
    PROVE  IsFiniteSet(X) /\ Cardinality(X) \in Nat
<1>1. Len(admitted) \in Nat /\ DOMAIN admitted = 1 .. Len(admitted)
    BY DEF RateTypes
<1>2. IsFiniteSet(1 .. Len(admitted))
    BY <1>1, FS_Interval
<1>3. IsFiniteSet(X)
    BY <1>1, <1>2, FS_Subset
<1> QED BY <1>3, FS_CardinalityType

\* A request that is admitted or refused: the bucket that is checked is a new one, of
\* which all others are from before, or it counts one request more.
LEMMA AskKeepsRate ==
    ASSUME RateInv, Ask
    PROVE  RateInv'
<1> DEFINE n == Len(admitted)
           limited == CheckedRate.count > Limit
<1>1. /\ bucket \in [count : Nat, age : 0 .. Window + 1]
      /\ admitted \in Seq(0 .. Window + 1)
      /\ n \in Nat /\ DOMAIN admitted = 1 .. n
      /\ \A i \in 1 .. n : admitted[i] \in 0 .. Window + 1
      /\ Limit \in Nat /\ Window \in Nat
      /\ bucket.count \in Nat /\ bucket.age \in 0 .. Window + 1
    BY GatewayAssumption DEF RateInv, RateTypes
<1>2. /\ bucket' = CheckedRate
      /\ admitted' = IF limited THEN admitted ELSE Append(admitted, 0)
    BY DEF Ask
<1>3. /\ bucket' \in [count : Nat, age : 0 .. Window + 1]
      /\ bucket'.count = IF bucket.age > Window THEN 1 ELSE bucket.count + 1
      /\ bucket'.age = IF bucket.age > Window THEN 0 ELSE bucket.age
    <2>1. 0 \in 0 .. Window + 1 /\ bucket.count + 1 \in Nat
        BY <1>1
    <2>2. CASE bucket.age > Window
        <3>1. bucket' = [count |-> 1, age |-> 0]
            BY <1>2, <2>2 DEF CheckedRate
        <3> QED BY <2>1, <2>2, <3>1
    <2>3. CASE ~(bucket.age > Window)
        <3>1. bucket' = [bucket EXCEPT !.count = @ + 1]
            BY <1>2, <2>3 DEF CheckedRate
        <3> QED BY <1>1, <2>1, <2>3, <3>1
    <2> QED BY <2>2, <2>3
<1>4. limited <=> bucket'.count > Limit
    BY <1>2
<1> HIDE DEF limited
<1>5. /\ admitted' \in Seq(0 .. Window + 1)
      /\ DOMAIN admitted' = IF limited THEN 1 .. n ELSE 1 .. n + 1
      /\ \A i \in 1 .. n : admitted'[i] = admitted[i]
      /\ ~limited => admitted'[n + 1] = 0
    <2>1. 0 \in 0 .. Window + 1
        BY <1>1
    <2>2. CASE limited
        BY <1>1, <1>2, <2>2
    <2>3. CASE ~limited
        BY <1>1, <1>2, <2>1, <2>3
    <2> QED BY <2>2, <2>3
<1> HIDE DEF n
<1>6. RateTypes'
    BY <1>3, <1>5 DEF RateTypes
<1>7. ~(bucket'.age > Window)
    BY <1>1, <1>3
<1>8. /\ IsFiniteSet(CountedNow) /\ Cardinality(CountedNow) \in Nat
      /\ Cardinality(CountedNow) <= Limit /\ Cardinality(CountedNow) <= bucket.count
      /\ Cardinality(CountedBefore) <= Limit
    <2>1. CountedNow \in SUBSET DOMAIN admitted
        BY DEF CountedNow
    <2> QED BY <2>1, RequestsFinite DEF RateInv
<1>9. CASE bucket.age > Window
    <2>1. CountedBefore' = CountedNow
        <3>1. \A i \in 1 .. n : admitted[i] > 0
            BY <1>1, <1>9 DEF RateInv
        <3>2. ASSUME NEW i \in 1 .. n
              PROVE  (admitted'[i] <= Window /\ admitted'[i] > bucket'.age)
                     <=> (admitted[i] <= Window /\ admitted[i] <= bucket.age)
            BY <1>1, <1>3, <1>5, <1>9, <3>1
        <3>3. ~limited => ~(admitted'[n + 1] > bucket'.age)
            BY <1>3, <1>5, <1>9
        <3>4. \A i \in DOMAIN admitted' : i \in 1 .. n \/ (i = n + 1 /\ ~limited)
            BY <1>1, <1>5
        <3>5. \A i \in 1 .. n : i \in DOMAIN admitted'
            BY <1>1, <1>5
        <3> QED BY <1>1, <3>2, <3>3, <3>4, <3>5 DEF CountedBefore, CountedNow
    <2>2. CountedNow' = IF limited THEN {} ELSE {n + 1}
        <3>1. \A i \in 1 .. n : admitted[i] > 0
            BY <1>1, <1>9 DEF RateInv
        <3>2. \A i \in 1 .. n : ~(admitted'[i] <= bucket'.age)
            BY <1>1, <1>3, <1>5, <1>9, <3>1
        <3>3. ~limited => n + 1 \in DOMAIN admitted' /\ admitted'[n + 1] <= Window
                          /\ admitted'[n + 1] <= bucket'.age
            BY <1>1, <1>3, <1>5, <1>9
        <3>4. \A i \in DOMAIN admitted' : i \in 1 .. n \/ (i = n + 1 /\ ~limited)
            BY <1>1, <1>5
        <3> QED BY <3>2, <3>3, <3>4 DEF CountedNow
    <2>3. /\ Cardinality(CountedNow') = IF limited THEN 0 ELSE 1
          /\ Cardinality(CountedNow') <= Limit /\ Cardinality(CountedNow') <= bucket'.count
        <3>1. Cardinality(CountedNow') = IF limited THEN 0 ELSE 1
            BY <2>2, FS_EmptySet, FS_Singleton
        <3>2. bucket'.count = 1
            BY <1>3, <1>9
        <3> QED BY <1>1, <1>4, <3>1, <3>2
    <2> QED BY <1>6, <1>7, <1>8, <2>1, <2>3 DEF RateInv
<1>10. CASE ~(bucket.age > Window)
    <2>1. bucket'.age = bucket.age /\ bucket'.count = bucket.count + 1 /\ 0 <= bucket.age
        BY <1>1, <1>3, <1>10
    <2>2. \A i \in DOMAIN admitted' : i \in 1 .. n \/ (i = n + 1 /\ ~limited)
        BY <1>1, <1>5
    <2>3. \A i \in 1 .. n : i \in DOMAIN admitted'
        BY <1>1, <1>5
    <2>4. CountedBefore' = CountedBefore
        <3>1. ~limited => ~(admitted'[n + 1] > bucket'.age)
            BY <1>1, <1>5, <2>1
        <3> QED BY <1>1, <1>5, <2>1, <2>2, <2>3, <3>1 DEF CountedBefore
    <2>5. CountedNow' = IF limited THEN CountedNow ELSE CountedNow \union {n + 1}
        <3>1. ~limited => n + 1 \in DOMAIN admitted' /\ admitted'[n + 1] <= Window
                          /\ admitted'[n + 1] <= bucket'.age
            BY <1>1, <1>5, <2>1
        <3> QED BY <1>1, <1>5, <2>1, <2>2, <2>3, <3>1 DEF CountedNow
    <2>6. n + 1 \notin CountedNow
        BY <1>1 DEF CountedNow
    <2>7. Cardinality(CountedNow') = IF limited THEN Cardinality(CountedNow) ELSE Cardinality(CountedNow) + 1
        BY <1>8, <2>5, <2>6, FS_AddElement
    <2>8. Cardinality(CountedNow') <= Limit /\ Cardinality(CountedNow') <= bucket'.count
        BY <1>1, <1>4, <1>8, <2>1, <2>7
    <2> QED BY <1>6, <1>7, <1>8, <2>4, <2>8 DEF RateInv
<1> QED BY <1>9, <1>10

\* Time only takes requests out of the window.
LEMMA TickKeepsRate ==
    ASSUME RateInv, GatewayTick
    PROVE  RateInv'
<1>1. /\ bucket \in [count : Nat, age : 0 .. Window + 1]
      /\ admitted \in Seq(0 .. Window + 1)
      /\ Limit \in Nat /\ Window \in Nat
      /\ bucket.count \in Nat /\ bucket.age \in 0 .. Window + 1
      /\ \A i \in DOMAIN admitted : admitted[i] \in 0 .. Window + 1
    BY GatewayAssumption DEF RateInv, RateTypes
<1>2. /\ bucket' \in [count : Nat, age : 0 .. Window + 1]
      /\ bucket'.count = bucket.count /\ bucket'.age = Older(bucket.age)
    <2>1. Older(bucket.age) \in 0 .. Window + 1
        BY <1>1 DEF Older
    <2>2. bucket' = [bucket EXCEPT !.age = Older(@)]
        BY DEF GatewayTick
    <2> QED BY <1>1, <2>1, <2>2
<1>3. /\ DOMAIN admitted' = DOMAIN admitted
      /\ \A i \in DOMAIN admitted : admitted'[i] = Older(admitted[i])
    <2>1. admitted' = [i \in DOMAIN admitted |-> Older(admitted[i])]
        BY DEF GatewayTick
    <2> QED BY <2>1
<1>4. \A age \in 0 .. Window + 1 : Older(age) \in 1 .. Window + 1
    BY <1>1 DEF Older
<1>5. admitted' \in Seq(0 .. Window + 1)
    <2>1. Len(admitted) \in Nat /\ DOMAIN admitted = 1 .. Len(admitted)
        BY <1>1
    <2>2. \A i \in 1 .. Len(admitted) : Older(admitted[i]) \in 0 .. Window + 1
        BY <1>1, <1>4, <2>1
    <2>3. admitted' = [i \in 1 .. Len(admitted) |-> Older(admitted[i])]
        BY <2>1 DEF GatewayTick
    <2> QED BY <2>1, <2>2, <2>3
<1>6. RateTypes'
    BY <1>2, <1>5 DEF RateTypes
<1>7. \A i \in DOMAIN admitted' : admitted'[i] > 0
    BY <1>1, <1>3, <1>4
<1>8. CountedNow' \in SUBSET CountedNow /\ CountedBefore' \in SUBSET CountedBefore
    <2>1. ASSUME NEW a \in 0 .. Window + 1, NEW b \in 0 .. Window + 1, Older(a) <= Window
          PROVE  a <= Window /\ (Older(a) <= Older(b) => a <= b) /\ (Older(a) > Older(b) => a > b)
        BY <1>1, <2>1 DEF Older
    <2> QED BY <1>1, <1>2, <1>3, <2>1 DEF CountedNow, CountedBefore
<1>9. /\ Cardinality(CountedNow') <= Cardinality(CountedNow)
      /\ Cardinality(CountedBefore') <= Cardinality(CountedBefore)
      /\ Cardinality(CountedNow') \in Nat /\ Cardinality(CountedNow) \in Nat
      /\ Cardinality(CountedBefore') \in Nat /\ Cardinality(CountedBefore) \in Nat
    <2>1. CountedNow \in SUBSET DOMAIN admitted /\ CountedBefore \in SUBSET DOMAIN admitted
        BY DEF CountedNow, CountedBefore
    <2>2. IsFiniteSet(CountedNow) /\ IsFiniteSet(CountedBefore)
        BY <2>1, RequestsFinite DEF RateInv
    <2>3. IsFiniteSet(CountedNow') /\ IsFiniteSet(CountedBefore')
        BY <1>8, <2>2, FS_Subset
    <2> QED BY <1>8, <2>2, <2>3, FS_Subset, FS_CardinalityType
<1>10. /\ Cardinality(CountedNow') <= Limit /\ Cardinality(CountedNow') <= bucket'.count
       /\ Cardinality(CountedBefore') <= Limit
    BY <1>1, <1>2, <1>9 DEF RateInv
<1> QED BY <1>6, <1>7, <1>10 DEF RateInv

\* The inductive invariant of the rate limit.
LEMMA RateNext == RateInv /\ [GatewayNext]_gatewayVars => RateInv'
<1> SUFFICES ASSUME RateInv, [GatewayNext]_gatewayVars PROVE RateInv'
    OBVIOUS
<1>1. CASE Ask
    BY <1>1, AskKeepsRate
<1>2. CASE GatewayTick
    BY <1>2, TickKeepsRate
<1>3. CASE UNCHANGED <<bucket, admitted>>
    BY <1>3 DEF RateInv, RateTypes, CountedNow, CountedBefore
<1> QED BY <1>1, <1>2, <1>3 DEF GatewayNext, CreateCompletion, CreateChatCompletion, Answer,
                               PayshWebhook, MintTokens, gatewayVars, requestVars

\* Whatever the limit, the window and the requests, no stretch of a window's length
\* has more than twice the limit of them.
THEOREM RateAlwaysBounded == GatewaySpec => []RateIsBounded
<1>1. GatewayInit => RateInv
    <2> SUFFICES ASSUME GatewayInit PROVE RateInv
        OBVIOUS
    <2>1. /\ bucket = [count |-> 0, age |-> Window + 1] /\ admitted = <<>>
          /\ Limit \in Nat /\ Window \in Nat /\ DOMAIN admitted = {}
        BY GatewayAssumption DEF GatewayInit
    <2>2. CountedNow = {} /\ CountedBefore = {}
        BY <2>1 DEF CountedNow, CountedBefore
    <2>3. bucket.count = 0 /\ RateTypes
        BY <2>1 DEF RateTypes
    <2> QED BY <2>1, <2>2, <2>3, FS_EmptySet DEF RateInv
<1>2. RateInv => RateIsBounded
    <2> SUFFICES ASSUME RateInv PROVE RateIsBounded
        OBVIOUS
    <2> DEFINE live == {i \in DOMAIN admitted : admitted[i] <= Window}
    <2>1. live = CountedNow \union CountedBefore /\ CountedNow \intersect CountedBefore = {}
        <3>1. \A i \in DOMAIN admitted : /\ admitted[i] <= bucket.age \/ admitted[i] > bucket.age
                                         /\ ~(admitted[i] <= bucket.age /\ admitted[i] > bucket.age)
            BY GatewayAssumption DEF RateInv, RateTypes
        <3> QED BY <3>1 DEF CountedNow, CountedBefore
    <2>2. CountedNow \in SUBSET DOMAIN admitted /\ CountedBefore \in SUBSET DOMAIN admitted
        BY DEF CountedNow, CountedBefore
    <2>3. /\ IsFiniteSet(CountedNow) /\ IsFiniteSet(CountedBefore)
          /\ Cardinality(CountedNow) \in Nat /\ Cardinality(CountedBefore) \in Nat
        BY <2>2, RequestsFinite DEF RateInv
    <2> HIDE DEF live
    <2>4. Cardinality(live) = Cardinality(CountedNow) + Cardinality(CountedBefore)
        BY <2>1, <2>3, FS_Union, FS_EmptySet
    <2>5. Cardinality(live) <= 2 * Limit
        BY <2>3, <2>4, GatewayAssumption DEF RateInv
    <2> QED BY <2>5 DEF RateIsBounded, live
<1>3. GatewaySpec => []RateInv
    BY <1>1, RateNext, PTL DEF GatewaySpec
<1> QED BY <1>2, <1>3, PTL

-----------------------------------------------------------------------------
(* The adapters: whatever a method is handed in order, it hands on in order, also  *)
(* when it goes on to another method or fails half way through.                     *)

Tracked(m) ==
    /\ m = [slots |-> m.slots, active |-> m.active, handles |-> m.handles, attached |-> m.attached]
    /\ m.slots \in Seq(Adapter) /\ IsInjective(m.slots) /\ Len(m.slots) <= MaxLoaded
    /\ m.handles \subseteq m.attached
    /\ \A h, g \in m.handles : h[1] = g[1]
    /\ m.active # NoAdapter => m.active \in ToSet(m.slots)

\* An adapter that is used moves to the end.
LEMMA UsedMoves ==
    ASSUME NEW q \in Seq(Adapter), IsInjective(q), NEW a \in ToSet(q)
    PROVE  /\ Used(q, a) \in Seq(Adapter) /\ IsInjective(Used(q, a))
           /\ ToSet(Used(q, a)) = ToSet(q) /\ Len(Used(q, a)) = Len(q)
<1> DEFINE r == RemoveFirst(q, a)
<1>1. r \in Seq(Adapter) /\ Len(r) = Len(q) - 1
    BY RemoveElements
<1>2. IsInjective(r) /\ ToSet(r) = ToSet(q) \ {a}
    BY RemoveKeeps
<1>3. a \in Adapter
    BY DEF ToSet
<1> HIDE DEF r
<1>4. IsInjective(Append(r, a)) /\ ToSet(Append(r, a)) = ToSet(r) \union {a}
    <2>1. a \notin ToSet(r)
        BY <1>2
    <2> QED BY <1>1, <1>2, <1>3, <2>1, AppendKeeps
<1>5. Append(r, a) \in Seq(Adapter) /\ Len(Append(r, a)) = Len(q)
    <2>1. Len(q) \in Nat
        OBVIOUS
    <2> QED BY <1>1, <1>3, <2>1
<1>6. Used(q, a) = Append(r, a)
    BY DEF Used, r
<1> QED BY <1>2, <1>4, <1>5, <1>6

\* unload takes one out, and is done with its hooks if it was active.
LEMMA UnloadedTracked ==
    ASSUME NEW m, Tracked(m), NEW a \in ToSet(m.slots)
    PROVE  /\ Tracked(Unloaded(m, a))
           /\ Len(Unloaded(m, a).slots) = Len(m.slots) - 1
           /\ ToSet(Unloaded(m, a).slots) \subseteq ToSet(m.slots)
<1> DEFINE u == Unloaded(m, a)
           r == RemoveFirst(m.slots, a)
           kept == IF m.active = a THEN {} ELSE m.handles
           current == IF m.active = a THEN NoAdapter ELSE m.active
<1>1. r \in Seq(Adapter) /\ Len(r) = Len(m.slots) - 1
    BY RemoveElements DEF Tracked
<1>2. IsInjective(r) /\ ToSet(r) = ToSet(m.slots) \ {a}
    BY RemoveKeeps DEF Tracked
<1>3. u = [m EXCEPT !.slots = r, !.handles = kept, !.active = current]
    BY DEF Unloaded
<1>4. u = [slots |-> r, active |-> current, handles |-> kept, attached |-> m.attached]
    BY <1>3 DEF Tracked
<1>5. current # NoAdapter => current \in ToSet(r)
    BY <1>2 DEF Tracked
<1>6. Len(r) <= MaxLoaded
    <2>1. Len(m.slots) \in Nat
        BY DEF Tracked
    <2> QED BY <1>1, <2>1, AdaptersAssumption DEF Tracked
<1>7. kept \subseteq m.attached /\ \A h, g \in kept : h[1] = g[1]
    BY DEF Tracked
<1> HIDE DEF u, r, kept, current
<1>8. Tracked(u)
    BY <1>1, <1>2, <1>4, <1>5, <1>6, <1>7 DEF Tracked
<1>9. u.slots = r
    BY <1>4
<1> QED BY <1>1, <1>2, <1>8, <1>9 DEF u

\* After an eviction there is room for one more.
LEMMA MadeRoomTracked ==
    ASSUME NEW m, Tracked(m)
    PROVE  /\ Tracked(MadeRoom(m))
           /\ Len(MadeRoom(m).slots) < MaxLoaded
           /\ ToSet(MadeRoom(m).slots) \subseteq ToSet(m.slots)
<1>1. m.slots \in Seq(Adapter) /\ Len(m.slots) \in Nat /\ DOMAIN m.slots = 1 .. Len(m.slots)
    BY DEF Tracked
<1>2. CASE Len(m.slots) >= MaxLoaded
    <2> DEFINE others == {i \in DOMAIN m.slots : m.slots[i] # m.active}
               k == IF others # {} THEN Min(others) ELSE 1
    <2>1. k \in DOMAIN m.slots
        <3>1. CASE others = {}
            <4>1. k = 1
                BY <3>1
            <4> QED BY <1>1, <1>2, <4>1, AdaptersAssumption
        <3>2. CASE others # {}
            <4>1. others \in SUBSET Nat
                BY <1>1
            <4>2. PICK i \in others : \A j \in 0 .. i - 1 : j \notin others
                <5> HIDE DEF others
                <5> QED BY <3>2, <4>1, LeastNumber
            <4>3. \A j \in others : i <= j
                BY <4>1, <4>2
            <4>4. Min(others) \in others
                <5> HIDE DEF others
                <5> QED BY <4>2, <4>3 DEF Min
            <4> QED BY <3>2, <4>4
        <3> QED BY <3>1, <3>2
    <2>2. MadeRoom(m) = Unloaded(m, m.slots[k])
        BY <1>2 DEF MadeRoom, EvictLRU
    <2> HIDE DEF k
    <2>3. m.slots[k] \in ToSet(m.slots)
        BY <2>1 DEF ToSet
    <2>4. /\ Tracked(MadeRoom(m)) /\ Len(MadeRoom(m).slots) = Len(m.slots) - 1
          /\ ToSet(MadeRoom(m).slots) \subseteq ToSet(m.slots)
        BY <2>2, <2>3, UnloadedTracked
    <2>5. Len(m.slots) <= MaxLoaded
        BY DEF Tracked
    <2> QED BY <1>1, <2>4, <2>5, AdaptersAssumption
<1>3. CASE ~(Len(m.slots) >= MaxLoaded)
    <2>1. MadeRoom(m) = m
        BY <1>3 DEF MadeRoom
    <2> QED BY <1>1, <1>3, <2>1, AdaptersAssumption
<1> QED BY <1>2, <1>3

\* load makes room first, and may fail after that.
LEMMA LoadedTracked ==
    ASSUME NEW m, Tracked(m), NEW a \in Adapter
    PROVE  Tracked(Loaded(m, a))
<1>1. CASE a \in ToSet(m.slots)
    <2> DEFINE q == Used(m.slots, a)
    <2>1. Loaded(m, a) = [m EXCEPT !.slots = q]
        BY <1>1 DEF Loaded
    <2>2. Loaded(m, a) = [slots |-> q, active |-> m.active, handles |-> m.handles, attached |-> m.attached]
        BY <2>1 DEF Tracked
    <2>3. /\ q \in Seq(Adapter) /\ IsInjective(q) /\ ToSet(q) = ToSet(m.slots)
          /\ Len(q) = Len(m.slots)
        BY <1>1, UsedMoves DEF Tracked
    <2> HIDE DEF q
    <2> QED BY <2>2, <2>3 DEF Tracked
<1>2. CASE a \notin ToSet(m.slots) /\ ~Readable(a)
    <2>1. Loaded(m, a) = MadeRoom(m)
        BY <1>2 DEF Loaded
    <2> QED BY <2>1, MadeRoomTracked
<1>3. CASE a \notin ToSet(m.slots) /\ Readable(a)
    <2> DEFINE room == MadeRoom(m)
               q == Append(room.slots, a)
    <2>1. Tracked(room) /\ Len(room.slots) < MaxLoaded /\ ToSet(room.slots) \subseteq ToSet(m.slots)
        BY MadeRoomTracked
    <2>2. Loaded(m, a) = [room EXCEPT !.slots = q]
        BY <1>3 DEF Loaded
    <2> HIDE DEF room
    <2>3. Loaded(m, a) = [slots |-> q, active |-> room.active, handles |-> room.handles, attached |-> room.attached]
        BY <2>1, <2>2 DEF Tracked
    <2>4. room.slots \in Seq(Adapter) /\ IsInjective(room.slots) /\ Len(room.slots) \in Nat
        BY <2>1 DEF Tracked
    <2>5. IsInjective(q) /\ ToSet(q) = ToSet(room.slots) \union {a}
        BY <1>3, <2>1, <2>4, AppendKeeps
    <2>6. q \in Seq(Adapter) /\ Len(q) <= MaxLoaded
        BY <2>1, <2>4, AdaptersAssumption
    <2> HIDE DEF q
    <2> QED BY <2>1, <2>3, <2>5, <2>6 DEF Tracked
<1> QED BY <1>1, <1>2, <1>3

\* The hooks that are known are taken out.
LEMMA UnhookedTracked ==
    ASSUME NEW m, Tracked(m)
    PROVE  /\ Tracked(Unhooked(m)) /\ Unhooked(m).slots = m.slots /\ Unhooked(m).handles = {}
           /\ Tracked(Deactivated(m)) /\ Deactivated(m).slots = m.slots
<1> DEFINE u == Unhooked(m)
           d == Deactivated(m)
<1>1. u = [slots |-> m.slots, active |-> m.active, handles |-> {}, attached |-> m.attached \ m.handles]
    <2> DEFINE rest == m.attached \ m.handles
    <2>1. u = [m EXCEPT !.attached = rest, !.handles = {}]
        BY DEF Unhooked
    <2> HIDE DEF rest, u
    <2>2. u = [slots |-> m.slots, active |-> m.active, handles |-> {}, attached |-> rest]
        BY <2>1 DEF Tracked
    <2> QED BY <2>2 DEF rest
<1>2. d = [slots |-> m.slots, active |-> NoAdapter, handles |-> {}, attached |-> m.attached \ m.handles]
    <2>1. d = [u EXCEPT !.active = NoAdapter]
        BY DEF Deactivated
    <2> HIDE DEF u, d
    <2> QED BY <1>1, <2>1
<1> HIDE DEF u, d
<1>3. Tracked(u) /\ u.slots = m.slots /\ u.handles = {}
    BY <1>1 DEF Tracked
<1>4. Tracked(d) /\ d.slots = m.slots
    BY <1>2 DEF Tracked
<1> QED BY <1>3, <1>4 DEF u, d

\* activate remembers every hook that it adds, also when it fails before the last one.
LEMMA ActivatedTracked ==
    ASSUME NEW m, Tracked(m), NEW a \in ToSet(m.slots)
    PROVE  Tracked(Activated(m, a))
<1> DEFINE bare == Unhooked(m)
           Free(x) == CHOOSE n \in 1 .. MaxHooks + 1 :
                          /\ <<a, x, n>> \notin bare.attached
                          /\ \A k \in 1 .. n - 1 : <<a, x, k>> \in bare.attached
           hooks == {<<a, x, Free(x)>> : x \in Hookable(a)}
           hooked == [bare EXCEPT !.handles = hooks, !.attached = @ \union hooks]
           raises == Broken[a] \intersect ToSet(Modules) # {}
           q == Used(m.slots, a)
<1>1. Tracked(bare) /\ bare.slots = m.slots
    BY UnhookedTracked
<1>2. Activated(m, a) = IF raises THEN hooked ELSE [hooked EXCEPT !.active = a, !.slots = Used(@, a)]
    BY DEF Activated
<1> HIDE DEF bare, Free
<1>3. \A h \in hooks : h[1] = a
    OBVIOUS
<1> HIDE DEF hooks
<1>4. hooked = [slots |-> m.slots, active |-> bare.active, handles |-> hooks,
                attached |-> bare.attached \union hooks]
    <2> DEFINE more == bare.attached \union hooks
    <2>1. hooked = [bare EXCEPT !.handles = hooks, !.attached = more]
        OBVIOUS
    <2> HIDE DEF more, hooked
    <2>2. hooked = [slots |-> bare.slots, active |-> bare.active, handles |-> hooks, attached |-> more]
        BY <1>1, <2>1 DEF Tracked
    <2> QED BY <1>1, <2>2 DEF more
<1>5. /\ q \in Seq(Adapter) /\ IsInjective(q) /\ ToSet(q) = ToSet(m.slots)
      /\ Len(q) = Len(m.slots)
    BY UsedMoves DEF Tracked
<1> HIDE DEF hooked, raises
<1>6. CASE raises
    <2>1. Activated(m, a) = hooked
        BY <1>2, <1>6
    <2> QED BY <1>1, <1>3, <1>4, <2>1 DEF Tracked
<1>7. CASE ~raises
    <2>1. Activated(m, a) = [hooked EXCEPT !.active = a, !.slots = q]
        BY <1>2, <1>4, <1>7
    <2> HIDE DEF q
    <2>2. Activated(m, a) = [slots |-> q, active |-> a, handles |-> hooks,
                             attached |-> bare.attached \union hooks]
        BY <1>4, <2>1
    <2> QED BY <1>3, <1>5, <2>2 DEF Tracked
<1> QED BY <1>6, <1>7

\* What the manager becomes.
LEMMA BecomeTracked ==
    ASSUME NEW m, Tracked(m), Become(m)
    PROVE  Tracked(Now)'
<1>1. /\ slots' = m.slots /\ active' = m.active /\ handles' = m.handles /\ attached' = m.attached
    BY DEF Become
<1>2. Now' = m
    BY <1>1 DEF Now, Tracked
<1> QED BY <1>1, <1>2 DEF Tracked

\* The inductive invariant of the adapters.
LEMMA AdaptersNextTracked == Tracked(Now) /\ [AdaptersNext]_adapterVars => Tracked(Now)'
<1> SUFFICES ASSUME Tracked(Now), [AdaptersNext]_adapterVars PROVE Tracked(Now)'
    OBVIOUS
<1>0. Now.slots = slots /\ Now.active = active /\ Now.handles = handles /\ Now.attached = attached
    BY DEF Now
<1>1. ASSUME NEW a \in Adapter, LoadAdapter(a) PROVE Tracked(Now)'
    <2>1. Become(Loaded(Now, a)) /\ Tracked(Loaded(Now, a))
        BY <1>1, LoadedTracked DEF LoadAdapter
    <2> QED BY <2>1, BecomeTracked
<1>2. ASSUME NEW a \in Adapter, UnloadAdapter(a) PROVE Tracked(Now)'
    <2>1. a \in ToSet(Now.slots) /\ Become(Unloaded(Now, a))
        BY <1>0, <1>2 DEF UnloadAdapter
    <2>2. Tracked(Unloaded(Now, a))
        BY <2>1, UnloadedTracked
    <2> QED BY <2>1, <2>2, BecomeTracked
<1>3. ASSUME NEW a \in Adapter, Activate(a) PROVE Tracked(Now)'
    <2>1. a \in ToSet(Now.slots) /\ Become(Activated(Now, a))
        BY <1>0, <1>3 DEF Activate
    <2>2. Tracked(Activated(Now, a))
        BY <2>1, ActivatedTracked
    <2> QED BY <2>1, <2>2, BecomeTracked
<1>4. CASE Deactivate
    <2>1. Become(Deactivated(Now)) /\ Tracked(Deactivated(Now))
        BY <1>4, UnhookedTracked DEF Deactivate
    <2> QED BY <2>1, BecomeTracked
<1>5. ASSUME NEW a \in Adapter, Swap(a) PROVE Tracked(Now)'
    <2> DEFINE clean == IF active # NoAdapter THEN Deactivated(Now) ELSE Now
               loaded == IF a \in ToSet(clean.slots) THEN clean ELSE Loaded(clean, a)
               new == IF a \in ToSet(loaded.slots) THEN Activated(loaded, a) ELSE loaded
    <2>1. Become(new)
        BY <1>5 DEF Swap
    <2>2. Tracked(clean)
        BY UnhookedTracked
    <2> HIDE DEF clean
    <2>3. Tracked(loaded)
        BY <2>2, LoadedTracked
    <2> HIDE DEF loaded
    <2>4. Tracked(new)
        BY <2>3, ActivatedTracked
    <2> HIDE DEF new
    <2> QED BY <2>1, <2>4, BecomeTracked
<1>6. CASE Infer
    <2>1. PICK h \in attached :
              /\ slots' = IF h[1] \in ToSet(slots) THEN Used(slots, h[1]) ELSE slots
              /\ UNCHANGED <<registered, active, handles, attached>>
        BY <1>6 DEF Infer
    <2>2. slots \in Seq(Adapter) /\ IsInjective(slots) /\ Len(slots) <= MaxLoaded
        BY <1>0 DEF Tracked
    <2>3. /\ slots' \in Seq(Adapter) /\ IsInjective(slots') /\ ToSet(slots') = ToSet(slots)
          /\ Len(slots') = Len(slots)
        <3>1. CASE h[1] \in ToSet(slots)
            BY <2>1, <2>2, <3>1, UsedMoves
        <3>2. CASE h[1] \notin ToSet(slots)
            BY <2>1, <2>2, <3>2
        <3> QED BY <3>1, <3>2
    <2>4. Now' = [slots |-> slots', active |-> active, handles |-> handles, attached |-> attached]
        BY <2>1 DEF Now
    <2>5. Tracked([slots |-> slots', active |-> active, handles |-> handles, attached |-> attached])
        BY <1>0, <2>2, <2>3 DEF Tracked
    <2> QED BY <2>4, <2>5 DEF Tracked
<1>7. CASE UNCHANGED <<slots, active, handles, attached>>
    BY <1>7 DEF Now, Tracked
<1> QED BY <1>1, <1>2, <1>3, <1>4, <1>5, <1>6, <1>7 DEF AdaptersNext, Register, adapterVars

\* Whatever adapters there are, broken, unreadable or more of them than slots, the
\* manager can take out the hooks of the active one, which is loaded.
THEOREM HooksAlwaysTracked == AdaptersSpec => []HooksAreTracked
<1>1. AdaptersInit => Tracked(Now)
    <2> SUFFICES ASSUME AdaptersInit PROVE Tracked(Now)
        OBVIOUS
    <2>1. Now = [slots |-> <<>>, active |-> NoAdapter, handles |-> {}, attached |-> {}]
        BY DEF AdaptersInit, Now
    <2>2. <<>> \in Seq(Adapter) /\ IsInjective(<<>>) /\ Len(<<>>) = 0
        BY DEF IsInjective
    <2> QED BY <2>1, <2>2, AdaptersAssumption DEF Tracked
<1>2. Tracked(Now) => HooksAreTracked
    BY DEF Tracked, Now, HooksAreTracked
<1>3. AdaptersSpec => []Tracked(Now)
    BY <1>1, AdaptersNextTracked, PTL DEF AdaptersSpec
<1> QED BY <1>2, <1>3, PTL

-----------------------------------------------------------------------------
(* The money.  Payments: what was recorded is pending or in some batch, whatever   *)
(* states the batches go through.  Earnings: the records are in the order of their   *)
(* ages, since they are appended and age together, and that is why it is enough to    *)
(* prune until the first young one.                                                *)

Batch == [records : Seq(Job), status : {"pending", "confirmed", "failed"}]

WorthOf(bs) == [i \in DOMAIN bs |-> Amount(bs[i].records)]
Batched(bs) == SumOver(WorthOf(bs), DOMAIN bs)

Tracker(p, bs, d) ==
    /\ p \in Seq(Job) /\ bs \in Seq(Batch)
    /\ d \in SUBSET Job /\ IsFiniteSet(d)
    /\ Total(d) = Amount(p) + Batched(bs)
    /\ ToSet(p) \subseteq d
    /\ \A i \in DOMAIN bs :
          /\ ToSet(bs[i].records) \subseteq d
          /\ ToSet(bs[i].records) \intersect ToSet(p) = {}
    /\ \A i, k \in DOMAIN bs :
          i # k => ToSet(bs[i].records) \intersect ToSet(bs[k].records) = {}

TrackerInv == Tracker(pending, batches, paid)

\* The lamports of a list.
LEMMA AmountIsSum ==
    ASSUME NEW q \in Seq(Job)
    PROVE  /\ Amount(q) = SumOver([i \in DOMAIN q |-> Lamports[q[i]]], DOMAIN q)
           /\ Amount(q) \in Int
           /\ q = <<>> => Amount(q) = 0
<1> DEFINE share == [i \in DOMAIN q |-> Lamports[q[i]]]
           D == DOMAIN q
<1>1. Amount(q) = SumOver(share, D)
    BY DEF Amount, SumOver
<1>2. IsFiniteSet(D)
    <2>1. Len(q) \in Nat /\ D = 1 .. Len(q)
        OBVIOUS
    <2> HIDE DEF D
    <2> QED BY <2>1, FS_Interval
<1>3. \A i \in D : share[i] \in Int
    BY SettlementAssumption
<1>4. q = <<>> => D = {}
    OBVIOUS
<1> HIDE DEF share, D
<1>5. SumOver(share, D) \in Int
    BY <1>2, <1>3, SumIsInteger
<1>6. D = {} => SumOver(share, D) = 0
    BY SumEmpty
<1> QED BY <1>1, <1>4, <1>5, <1>6 DEF share, D

\* One more job adds its lamports.
LEMMA AmountAppends ==
    ASSUME NEW q \in Seq(Job), NEW j \in Job
    PROVE  Amount(Append(q, j)) = Amount(q) + Lamports[j]
<1> DEFINE r == Append(q, j)
           n == Len(q)
           f == [i \in DOMAIN q |-> Lamports[q[i]]]
           g == [i \in DOMAIN r |-> Lamports[r[i]]]
<1>1. /\ n \in Nat /\ DOMAIN q = 1 .. n /\ DOMAIN r = 1 .. n + 1 /\ r \in Seq(Job)
      /\ \A i \in 1 .. n : r[i] = q[i]
      /\ r[n + 1] = j
    OBVIOUS
<1>2. Amount(q) = SumOver(f, 1 .. n) /\ Amount(r) = SumOver(g, 1 .. n + 1)
    <2> HIDE DEF r
    <2> QED BY <1>1, AmountIsSum
<1>3. \A i \in 1 .. n : f[i] \in Int /\ g[i] = f[i]
    <2> HIDE DEF r, n
    <2> QED BY <1>1, SettlementAssumption
<1>4. g[n + 1] = Lamports[j] /\ g[n + 1] \in Int
    <2> HIDE DEF r, n
    <2> QED BY <1>1, SettlementAssumption
<1> HIDE DEF r, n, f, g
<1>5. SumOver(g, 1 .. n + 1) = SumOver(f, 1 .. n) + g[n + 1]
    <2>1. n \in Nat
        BY <1>1
    <2> QED BY <2>1, <1>3, <1>4, SumExtends
<1> QED BY <1>2, <1>4, <1>5 DEF r

\* The lamports of a set of jobs.
LEMMA TotalIsSum ==
    ASSUME NEW S \in SUBSET Job, IsFiniteSet(S)
    PROVE  /\ Total(S) \in Int
           /\ S = {} => Total(S) = 0
           /\ \A j \in Job \ S : Total(S \union {j}) = Total(S) + Lamports[j]
<1>1. \A X : Total(X) = SumOver(Lamports, X)
    BY DEF Total, SumOver
<1>2. \A j \in Job : Lamports[j] \in Int
    BY SettlementAssumption
<1>3. SumOver(Lamports, S) \in Int
    BY <1>2, SumIsInteger
<1>4. SumOver(Lamports, {}) = 0
    BY SumEmpty
<1>5. ASSUME NEW j \in Job \ S
      PROVE  Total(S \union {j}) = Total(S) + Lamports[j]
    <2>1. \A k \in S \union {j} : Lamports[k] \in Int
        BY <1>2
    <2>2. SumOver(Lamports, S \union {j}) = Lamports[j] + SumOver(Lamports, S)
        BY <2>1, SumAddElement
    <2> QED BY <1>1, <1>2, <1>3, <2>2
<1> QED BY <1>1, <1>3, <1>4, <1>5

\* The lamports of the batches: one more batch adds its own.
LEMMA BatchesAdd ==
    ASSUME NEW bs \in Seq(Batch)
    PROVE  /\ Batched(bs) \in Int
           /\ bs = <<>> => Batched(bs) = 0
           /\ \A b \in Batch : /\ Append(bs, b) \in Seq(Batch)
                               /\ Batched(Append(bs, b)) = Batched(bs) + Amount(b.records)
<1> DEFINE n == Len(bs)
           f == WorthOf(bs)
<1>1. n \in Nat /\ DOMAIN bs = 1 .. n
    OBVIOUS
<1>2. \A i \in 1 .. n : f[i] = Amount(bs[i].records) /\ f[i] \in Int
    <2> SUFFICES ASSUME NEW i \in 1 .. n
                 PROVE  f[i] = Amount(bs[i].records) /\ f[i] \in Int
        OBVIOUS
    <2>1. bs[i].records \in Seq(Job)
        <3>1. bs[i] \in Batch
            BY <1>1
        <3> QED BY <3>1 DEF Batch
    <2>2. f[i] = Amount(bs[i].records)
        BY <1>1 DEF WorthOf
    <2> QED BY <2>1, <2>2, AmountIsSum
<1>3. Batched(bs) \in Int
    <2>1. IsFiniteSet(1 .. n)
        BY <1>1, FS_Interval
    <2> HIDE DEF f, n
    <2>2. SumOver(f, 1 .. n) \in Int
        BY <1>2, <2>1, SumIsInteger
    <2> QED BY <1>1, <2>2 DEF Batched, f
<1>4. bs = <<>> => Batched(bs) = 0
    <2>1. bs = <<>> => DOMAIN bs = {}
        OBVIOUS
    <2>2. SumOver(f, {}) = 0
        BY SumEmpty
    <2> QED BY <2>1, <2>2 DEF Batched
<1>5. ASSUME NEW b \in Batch
      PROVE  /\ Append(bs, b) \in Seq(Batch)
             /\ Batched(Append(bs, b)) = Batched(bs) + Amount(b.records)
    <2> DEFINE c == Append(bs, b)
               g == WorthOf(c)
    <2>1. /\ c \in Seq(Batch) /\ DOMAIN c = 1 .. n + 1
          /\ \A i \in 1 .. n : c[i] = bs[i]
          /\ c[n + 1] = b
        OBVIOUS
    <2>2. b.records \in Seq(Job)
        BY DEF Batch
    <2> HIDE DEF c, n
    <2>3. \A i \in 1 .. n + 1 : g[i] = Amount(c[i].records)
        BY <2>1 DEF WorthOf
    <2>4. g[n + 1] = Amount(b.records) /\ g[n + 1] \in Int
        <3>1. n + 1 \in 1 .. n + 1
            BY <1>1
        <3>2. g[n + 1] = Amount(b.records)
            <4> HIDE DEF g
            <4> QED BY <2>1, <2>3, <3>1
        <3> QED BY <2>2, <3>2, AmountIsSum
    <2>5. \A i \in 1 .. n : f[i] \in Int /\ g[i] = f[i]
        <3>1. \A i \in 1 .. n : i \in 1 .. n + 1
            BY <1>1
        <3> QED BY <3>1, <1>2, <2>1, <2>3
    <2> HIDE DEF f, g
    <2>6. SumOver(g, 1 .. n + 1) = SumOver(f, 1 .. n) + g[n + 1]
        BY <1>1, <2>4, <2>5, SumExtends
    <2>7. Batched(c) = SumOver(g, 1 .. n + 1) /\ Batched(bs) = SumOver(f, 1 .. n)
        BY <1>1, <2>1 DEF Batched, f, g
    <2>8. Batched(c) = Batched(bs) + Amount(b.records)
        BY <2>4, <2>6, <2>7
    <2> QED BY <2>1, <2>8 DEF c
<1> QED BY <1>3, <1>4, <1>5

\* The status of a batch is no part of its worth.
LEMMA StatusKeepsWorth ==
    ASSUME NEW bs \in Seq(Batch), NEW k \in DOMAIN bs,
           NEW s \in {"pending", "confirmed", "failed"},
           NEW c, c = [bs EXCEPT ![k].status = s]
    PROVE  /\ c \in Seq(Batch) /\ DOMAIN c = DOMAIN bs
           /\ \A i \in DOMAIN bs : c[i].records = bs[i].records
           /\ Batched(c) = Batched(bs)
<1>1. DOMAIN c = DOMAIN bs
    OBVIOUS
<1>2. \A i \in DOMAIN bs : bs[i] \in Batch
    OBVIOUS
<1>3. \A i \in DOMAIN bs : c[i] \in Batch /\ c[i].records = bs[i].records
    <2>1. \A i \in DOMAIN bs : c[i] = IF i = k THEN [bs[i] EXCEPT !.status = s] ELSE bs[i]
        OBVIOUS
    <2>2. \A b \in Batch : /\ [b EXCEPT !.status = s] \in Batch
                          /\ [b EXCEPT !.status = s].records = b.records
        BY DEF Batch
    <2> QED BY <1>2, <2>1, <2>2
<1>4. c \in Seq(Batch)
    <2>1. Len(bs) \in Nat /\ DOMAIN bs = 1 .. Len(bs)
        OBVIOUS
    <2>2. c = [i \in 1 .. Len(bs) |-> c[i]]
        BY <2>1
    <2>3. \A i \in 1 .. Len(bs) : c[i] \in Batch
        BY <1>3, <2>1
    <2> HIDE DEF Batch
    <2>4. [i \in 1 .. Len(bs) |-> c[i]] \in Seq(Batch)
        BY <2>1, <2>3
    <2> QED BY <2>2, <2>4
<1>5. WorthOf(c) = WorthOf(bs)
    BY <1>1, <1>3 DEF WorthOf
<1> QED BY <1>1, <1>3, <1>4, <1>5 DEF Batched

\* What was settled, and what was not, adds up to the batches.
LEMMA StatesAdd ==
    ASSUME batches \in Seq(Batch)
    PROVE  /\ Batched(batches) = Settled("pending") + Settled("confirmed") + Settled("failed")
           /\ Settled("pending") \in Int /\ Settled("confirmed") \in Int /\ Settled("failed") \in Int
<1> DEFINE f == WorthOf(batches)
           D == DOMAIN batches
           Of(s) == {i \in D : batches[i].status = s}
           P == Of("pending")
           C == Of("confirmed")
           F == Of("failed")
<1>1. \A s : Settled(s) = SumOver(f, Of(s))
    BY DEF Settled, Worth, WorthOf, SumOver
<1>2. IsFiniteSet(D)
    <2>1. Len(batches) \in Nat /\ D = 1 .. Len(batches)
        OBVIOUS
    <2> HIDE DEF D
    <2> QED BY <2>1, FS_Interval
<1>3. \A i \in D : f[i] \in Int
    <2> SUFFICES ASSUME NEW i \in D PROVE f[i] \in Int
        OBVIOUS
    <2>1. batches[i].records \in Seq(Job)
        <3>1. batches[i] \in Batch
            OBVIOUS
        <3> QED BY <3>1 DEF Batch
    <2>2. f[i] = Amount(batches[i].records)
        BY DEF WorthOf
    <2> QED BY <2>1, <2>2, AmountIsSum
<1>4. D = (P \union C) \union F
    <2>1. \A i \in D : batches[i] \in Batch
        OBVIOUS
    <2>2. \A i \in D : batches[i].status \in {"pending", "confirmed", "failed"}
        BY <2>1 DEF Batch
    <2> QED BY <2>2
<1>5. P \intersect C = {} /\ (P \union C) \intersect F = {}
    OBVIOUS
<1>6. P \subseteq D /\ C \subseteq D /\ F \subseteq D
    OBVIOUS
<1>7. Batched(batches) = SumOver(f, D)
    BY DEF Batched
<1>8. Settled("pending") = SumOver(f, P) /\ Settled("confirmed") = SumOver(f, C)
      /\ Settled("failed") = SumOver(f, F)
    BY <1>1
<1> HIDE DEF f, D, P, C, F
<1>9. IsFiniteSet(P) /\ IsFiniteSet(C) /\ IsFiniteSet(F) /\ IsFiniteSet(P \union C)
    BY <1>2, <1>6, FS_Subset, FS_Union
<1>10. \A i \in P \union C : f[i] \in Int
    BY <1>3, <1>6
<1>11. \A i \in (P \union C) \union F : f[i] \in Int
    BY <1>3, <1>6
<1>12. SumOver(f, P \union C) = SumOver(f, P) + SumOver(f, C)
    BY <1>5, <1>9, <1>10, SumUnion
<1>13. SumOver(f, (P \union C) \union F) = SumOver(f, P \union C) + SumOver(f, F)
    BY <1>5, <1>9, <1>11, SumUnion
<1>14. SumOver(f, P) \in Int /\ SumOver(f, C) \in Int /\ SumOver(f, F) \in Int
    <2>1. (\A i \in P : f[i] \in Int) /\ (\A i \in C : f[i] \in Int) /\ (\A i \in F : f[i] \in Int)
        BY <1>11
    <2> QED BY <1>9, <2>1, SumIsInteger
<1> QED BY <1>4, <1>7, <1>8, <1>12, <1>13, <1>14

\* record: a job that was not paid before.
LEMMA PaymentTracked ==
    ASSUME NEW p, NEW bs, NEW d, Tracker(p, bs, d), NEW j \in Job, j \notin d
    PROVE  Tracker(Append(p, j), bs, d \union {j})
<1>1. p \in Seq(Job) /\ bs \in Seq(Batch) /\ d \in SUBSET Job /\ IsFiniteSet(d)
    BY DEF Tracker
<1>2. Append(p, j) \in Seq(Job) /\ ToSet(Append(p, j)) = ToSet(p) \union {j}
    <2>1. \A i \in 1 .. Len(p) : Append(p, j)[i] = p[i]
        BY <1>1
    <2>2. Append(p, j)[Len(p) + 1] = j /\ Len(p) \in Nat
          /\ DOMAIN Append(p, j) = 1 .. Len(p) + 1 /\ DOMAIN p = 1 .. Len(p)
        BY <1>1
    <2>3. \A i \in 1 .. Len(p) + 1 : i \in 1 .. Len(p) \/ i = Len(p) + 1
        BY <2>2
    <2>4. \A i \in 1 .. Len(p) : i \in 1 .. Len(p) + 1
        BY <2>2
    <2>5. Len(p) + 1 \in 1 .. Len(p) + 1
        BY <2>2
    <2> QED BY <1>1, <2>1, <2>2, <2>3, <2>4, <2>5 DEF ToSet
<1>3. d \union {j} \in SUBSET Job /\ IsFiniteSet(d \union {j})
    BY <1>1, FS_AddElement
<1>4. Total(d \union {j}) = Total(d) + Lamports[j]
    BY <1>1, TotalIsSum
<1>5. Amount(Append(p, j)) = Amount(p) + Lamports[j]
    BY <1>1, AmountAppends
<1>6. Amount(p) \in Int /\ Batched(bs) \in Int /\ Lamports[j] \in Int
    <2>1. Amount(p) \in Int
        BY <1>1, AmountIsSum
    <2>2. Batched(bs) \in Int
        BY <1>1, BatchesAdd
    <2> QED BY <2>1, <2>2, SettlementAssumption
<1>7. Total(d) = Amount(p) + Batched(bs)
    BY DEF Tracker
<1>8. Total(d \union {j}) = Amount(Append(p, j)) + Batched(bs)
    BY <1>4, <1>5, <1>6, <1>7
<1>9. /\ ToSet(p) \subseteq d
      /\ \A i \in DOMAIN bs : /\ ToSet(bs[i].records) \subseteq d
                              /\ ToSet(bs[i].records) \intersect ToSet(p) = {}
      /\ \A i, k \in DOMAIN bs :
            i # k => ToSet(bs[i].records) \intersect ToSet(bs[k].records) = {}
    BY DEF Tracker
<1> QED BY <1>1, <1>2, <1>3, <1>8, <1>9 DEF Tracker

\* flush: the new batch takes over what was pending.
LEMMA FlushTracked ==
    ASSUME NEW p, NEW bs, NEW d, Tracker(p, bs, d)
    PROVE  Tracker(<<>>, Append(bs, [records |-> p, status |-> "pending"]), d)
<1> DEFINE b == [records |-> p, status |-> "pending"]
           c == Append(bs, b)
           n == Len(bs)
<1>1. p \in Seq(Job) /\ bs \in Seq(Batch) /\ d \in SUBSET Job /\ IsFiniteSet(d)
    BY DEF Tracker
<1>2. b \in Batch /\ b.records = p
    BY <1>1 DEF Batch
<1>3. n \in Nat /\ DOMAIN bs = 1 .. n
    BY <1>1
<1>4. /\ DOMAIN c = 1 .. n + 1
      /\ \A i \in 1 .. n : c[i] = bs[i]
      /\ c[n + 1] = b
    BY <1>1
<1>5. /\ ToSet(p) \subseteq d
      /\ Total(d) = Amount(p) + Batched(bs)
      /\ \A i \in DOMAIN bs : /\ ToSet(bs[i].records) \subseteq d
                              /\ ToSet(bs[i].records) \intersect ToSet(p) = {}
      /\ \A i, k \in DOMAIN bs :
            i # k => ToSet(bs[i].records) \intersect ToSet(bs[k].records) = {}
    BY DEF Tracker
<1> HIDE DEF b, n
<1>6. c \in Seq(Batch) /\ Batched(c) = Batched(bs) + Amount(p)
    BY <1>1, <1>2, BatchesAdd
<1>7. <<>> \in Seq(Job) /\ ToSet(<<>>) = {} /\ Amount(<<>>) = 0
    <2>1. <<>> \in Seq(Job)
        OBVIOUS
    <2>2. ToSet(<<>>) = {}
        BY DEF ToSet
    <2> QED BY <2>1, <2>2, AmountIsSum
<1> HIDE DEF c
<1>8. Total(d) = Amount(<<>>) + Batched(c)
    <2>1. Amount(p) \in Int /\ Batched(bs) \in Int
        BY <1>1, AmountIsSum, BatchesAdd
    <2> QED BY <1>5, <1>6, <1>7, <2>1
<1>9. \A i \in 1 .. n + 1 : i \in 1 .. n \/ i = n + 1
    BY <1>3
<1>10. \A i \in DOMAIN c : /\ ToSet(c[i].records) \subseteq d
                           /\ ToSet(c[i].records) \intersect ToSet(<<>>) = {}
    BY <1>2, <1>3, <1>4, <1>5, <1>7, <1>9
<1>11. \A i, k \in DOMAIN c :
           i # k => ToSet(c[i].records) \intersect ToSet(c[k].records) = {}
    BY <1>2, <1>3, <1>4, <1>5, <1>9
<1> QED BY <1>1, <1>6, <1>7, <1>8, <1>10, <1>11 DEF Tracker, c, b

\* confirm and fail.
LEMMA AnswerTracked ==
    ASSUME NEW p, NEW bs, NEW d, Tracker(p, bs, d), NEW k \in DOMAIN bs,
           NEW s \in {"pending", "confirmed", "failed"}
    PROVE  Tracker(p, [bs EXCEPT ![k].status = s], d)
<1> DEFINE c == [bs EXCEPT ![k].status = s]
<1>1. bs \in Seq(Batch)
    BY DEF Tracker
<1>2. /\ c \in Seq(Batch) /\ DOMAIN c = DOMAIN bs
      /\ \A i \in DOMAIN bs : c[i].records = bs[i].records
      /\ Batched(c) = Batched(bs)
    BY <1>1, StatusKeepsWorth
<1> HIDE DEF c
<1>3. Tracker(p, c, d)
    BY <1>2 DEF Tracker
<1> QED BY <1>3 DEF c

\* Every step of the two trackers keeps it.
LEMMA TrackerNext ==
    ASSUME TrackerInv, [SettlementNext]_settlementVars
    PROVE  TrackerInv'
<1>1. ASSUME NEW j \in Job, RecordPayment(j) PROVE TrackerInv'
    BY <1>1, PaymentTracked DEF RecordPayment, TrackerInv
<1>2. CASE Flush
    BY <1>2, FlushTracked DEF Flush, TrackerInv
<1>3. ASSUME NEW i \in DOMAIN batches, NEW s \in {"confirmed", "failed"}, Answered(i, s)
      PROVE  TrackerInv'
    <2>1. Tracker(pending, [batches EXCEPT ![i].status = s], paid)
        BY AnswerTracked DEF TrackerInv
    <2> QED BY <1>3, <2>1 DEF Answered, TrackerInv
<1>4. CASE UNCHANGED trackerVars
    BY <1>4 DEF trackerVars, TrackerInv
<1>5. \/ \E j \in Job : RecordPayment(j)
      \/ Flush
      \/ \E i \in DOMAIN batches, s \in {"confirmed", "failed"} : Answered(i, s)
      \/ UNCHANGED trackerVars
    BY DEF SettlementNext, ConfirmBatch, FailBatch, RecordEarning, ReadWindow, EarningsTick,
           settlementVars, trackerVars
<1> QED BY <1>1, <1>2, <1>3, <1>4, <1>5

\* The records of the earnings.
Record == [job : Job, age : 0 .. EarningsWindow + 1]

Kept(q, e) ==
    /\ q \in Seq(Record)
    /\ e \in [DOMAIN e -> 0 .. EarningsWindow + 1]
    /\ \A i \in DOMAIN q : q[i].job \in DOMAIN e /\ e[q[i].job] = q[i].age
    /\ \A i, k \in DOMAIN q : q[i].job = q[k].job => i = k
    /\ \A i, k \in DOMAIN q : i <= k => q[k].age <= q[i].age
    /\ \A j \in DOMAIN e : e[j] <= EarningsWindow => \E i \in DOMAIN q : q[i].job = j

EarningsInv ==
    /\ Kept(records, earned)
    /\ DOMAIN earned \in SUBSET Job /\ IsFiniteSet(DOMAIN earned)
    /\ lifetime = [jobs |-> Cardinality(DOMAIN earned), lamports |-> Total(DOMAIN earned)]

\* _prune keeps a tail of the records, and the young ones are in it.
LEMMA PrunedKeeps ==
    ASSUME NEW q, NEW e, Kept(q, e)
    PROVE  /\ Kept(Pruned(q), e)
           /\ \A i \in DOMAIN Pruned(q) : Pruned(q)[i].age <= EarningsWindow
<1> DEFINE young == {i \in DOMAIN q : q[i].age <= EarningsWindow}
           n == Len(q)
           m == Min(young)
           r == Pruned(q)
<1>1. /\ q \in Seq(Record) /\ n \in Nat /\ DOMAIN q = 1 .. n
      /\ e \in [DOMAIN e -> 0 .. EarningsWindow + 1]
      /\ \A i \in DOMAIN q : q[i].job \in DOMAIN e /\ e[q[i].job] = q[i].age
      /\ \A i, k \in DOMAIN q : q[i].job = q[k].job => i = k
      /\ \A i, k \in DOMAIN q : i <= k => q[k].age <= q[i].age
      /\ \A j \in DOMAIN e : e[j] <= EarningsWindow => \E i \in DOMAIN q : q[i].job = j
    BY DEF Kept
<1>2. CASE young = {}
    <2>1. r = <<>>
        BY <1>2 DEF Pruned
    <2>2. \A j \in DOMAIN e : ~ (e[j] <= EarningsWindow)
        BY <1>1, <1>2
    <2>3. r \in Seq(Record) /\ DOMAIN r = {}
        BY <2>1
    <2> HIDE DEF r
    <2> QED BY <1>1, <2>2, <2>3 DEF Kept, r
<1>3. CASE young # {}
    <2>1. m \in 1 .. n /\ m \in young /\ \A i \in young : m <= i
        <3>1. young \in SUBSET Nat
            BY <1>1
        <3> HIDE DEF young
        <3>2. PICK least \in young : \A k \in 0 .. least - 1 : k \notin young
            BY <1>3, <3>1, LeastNumber
        <3>3. \A k \in young : least <= k
            BY <3>1, <3>2
        <3>4. m \in young /\ \A i \in young : m <= i
            BY <3>3 DEF Min
        <3> QED BY <1>1, <3>4 DEF young
    <2>2. r = SubSeq(q, m, n)
        BY <1>3 DEF Pruned
    <2>3. /\ r \in Seq(Record) /\ DOMAIN r = 1 .. n - m + 1
          /\ \A i \in 1 .. n - m + 1 : r[i] = q[i + m - 1]
        <3> HIDE DEF m, r, n
        <3>1. SubSeq(q, m, Len(q)) \in Seq(Record)
            BY <1>1, <2>1 DEF n
        <3>2. Len(r) = n - m + 1 /\ \A i \in 1 .. n - m + 1 : r[i] = q[m + i - 1]
            BY <1>1, <2>1, <2>2 DEF n
        <3>3. DOMAIN r = 1 .. Len(r)
            BY <3>1, <2>2 DEF n
        <3>4. \A i \in 1 .. n - m + 1 : m + i - 1 = i + m - 1
            BY <1>1, <2>1
        <3> QED BY <2>2, <3>1, <3>2, <3>3, <3>4 DEF n
    <2>4. m \in Nat /\ EarningsWindow \in Nat
        BY <1>1, <2>1, SettlementAssumption
    <2>5. \A i \in DOMAIN q : q[i].age \in Nat
        BY <1>1 DEF Record
    <2>6. q[m].age <= EarningsWindow
        BY <2>1
    <2>7. \A i \in DOMAIN q : i \notin young => ~ (q[i].age <= EarningsWindow)
        OBVIOUS
    <2> HIDE DEF young, m, r, n
    <2>8. \A i \in 1 .. n - m + 1 : i + m - 1 \in DOMAIN q /\ m <= i + m - 1
        BY <1>1, <2>1, <2>4
    <2>9. \A i \in 1 .. n - m + 1, k \in 1 .. n - m + 1 :
              /\ i + m - 1 = k + m - 1 => i = k
              /\ i <= k => i + m - 1 <= k + m - 1
        BY <1>1, <2>4
    <2>10. \A i \in DOMAIN r : r[i].age <= EarningsWindow
        <3> SUFFICES ASSUME NEW i \in 1 .. n - m + 1 PROVE r[i].age <= EarningsWindow
            BY <2>3
        <3>1. i + m - 1 \in DOMAIN q /\ m \in DOMAIN q /\ m <= i + m - 1
            BY <1>1, <2>1, <2>8
        <3>2. q[i + m - 1].age <= q[m].age
            BY <1>1, <3>1
        <3>3. q[i + m - 1].age <= EarningsWindow
            BY <2>4, <2>5, <2>6, <3>1, <3>2
        <3> QED BY <2>3, <3>3
    <2>11. \A i \in DOMAIN r : r[i].job \in DOMAIN e /\ e[r[i].job] = r[i].age
        BY <1>1, <2>3, <2>8
    <2>12. \A i, k \in DOMAIN r : r[i].job = r[k].job => i = k
        BY <1>1, <2>3, <2>8, <2>9
    <2>13. \A i, k \in DOMAIN r : i <= k => r[k].age <= r[i].age
        BY <1>1, <2>3, <2>8, <2>9
    <2>14. ASSUME NEW j \in DOMAIN e, e[j] <= EarningsWindow
           PROVE  \E i \in DOMAIN r : r[i].job = j
        <3>1. PICK i \in DOMAIN q : q[i].job = j
            BY <1>1, <2>14
        <3>2. i \in young
            BY <1>1, <2>7, <2>14, <3>1
        <3>3. i - m + 1 \in 1 .. n - m + 1 /\ i - m + 1 + m - 1 = i
            BY <1>1, <2>1, <2>4, <3>1, <3>2
        <3> QED BY <2>3, <3>1, <3>3
    <2> QED BY <1>1, <2>3, <2>10, <2>11, <2>12, <2>13, <2>14 DEF Kept, r
<1> QED BY <1>2, <1>3

\* The summary of a window of young records is that of the young jobs.
LEMMA WindowAdds ==
    ASSUME NEW q, NEW e, Kept(q, e), DOMAIN e \in SUBSET Job,
           \A i \in DOMAIN q : q[i].age <= EarningsWindow,
           NEW young, young = {j \in DOMAIN e : e[j] <= EarningsWindow}
    PROVE  WindowSummary(q) = [jobs |-> Cardinality(young), lamports |-> Total(young)]
<1> DEFINE n == Len(q)
           D == 1 .. n
           p == [i \in DOMAIN q |-> q[i].job]
           g == [i \in DOMAIN p |-> Lamports[p[i]]]
<1>1. /\ q \in Seq(Record) /\ n \in Nat /\ DOMAIN q = D
      /\ \A i \in D : q[i].job \in DOMAIN e /\ e[q[i].job] = q[i].age
      /\ \A i, k \in D : q[i].job = q[k].job => i = k
      /\ \A j \in DOMAIN e : e[j] <= EarningsWindow => \E i \in D : q[i].job = j
    BY DEF Kept
<1>2. /\ DOMAIN p = D
      /\ \A i \in D : p[i] = q[i].job /\ p[i] \in young /\ p[i] \in Job
      /\ \A i, k \in D : p[i] = p[k] => i = k
      /\ \A j \in young : \E i \in D : p[i] = j
    BY <1>1
<1>3. p \in Seq(Job)
    <2>1. p = [i \in 1 .. n |-> p[i]]
        BY <1>2
    <2>2. \A i \in 1 .. n : p[i] \in Job
        BY <1>2
    <2> HIDE DEF p, n
    <2>3. [i \in 1 .. n |-> p[i]] \in Seq(Job)
        BY <1>1, <2>2
    <2> QED BY <2>1, <2>3
<1>4. WindowSummary(q) = [jobs |-> n, lamports |-> Amount(p)]
    BY DEF WindowSummary
<1>5. IsFiniteSet(D) /\ Cardinality(D) = n
    <2> HIDE DEF n
    <2>1. n \in Nat /\ 1 \in Int /\ n \in Int
        BY <1>1
    <2>2. IsFiniteSet(1 .. n) /\ Cardinality(1 .. n) = IF 1 > n THEN 0 ELSE n - 1 + 1
        BY <2>1, FS_Interval
    <2>3. Cardinality(1 .. n) = n
        BY <2>1, <2>2
    <2> QED BY <2>2, <2>3
<1>6. Amount(p) = SumOver(g, D)
    <2> HIDE DEF p
    <2> QED BY <1>2, <1>3, AmountIsSum
<1>7. \A i \in D : Lamports[p[i]] \in Int /\ g[i] = Lamports[p[i]]
    BY <1>2, SettlementAssumption
<1> HIDE DEF g, p, D, n
<1>8. Cardinality(young) = n
    <2>1. Cardinality(young) = Cardinality(D)
        BY <1>2, <1>5, ImageSize
    <2> QED BY <1>5, <2>1
<1>9. SumOver(g, D) = SumOver(Lamports, {p[i] : i \in D})
    BY <1>2, <1>5, <1>7, SumRenamed
<1>10. {p[i] : i \in D} = young
    BY <1>2
<1>11. Total(young) = SumOver(Lamports, young)
    BY DEF Total, SumOver
<1> QED BY <1>4, <1>6, <1>8, <1>9, <1>10, <1>11

\* record: the youngest comes last.
LEMMA EarningKept ==
    ASSUME NEW q, NEW e, Kept(q, e), NEW j \in Job, j \notin DOMAIN e,
           NEW f, f = [k \in DOMAIN e \union {j} |-> IF k = j THEN 0 ELSE e[k]]
    PROVE  Kept(Append(q, [job |-> j, age |-> 0]), f)
<1> DEFINE n == Len(q)
           b == [job |-> j, age |-> 0]
           r == Append(q, b)
<1>1. /\ q \in Seq(Record) /\ n \in Nat /\ DOMAIN q = 1 .. n
      /\ e \in [DOMAIN e -> 0 .. EarningsWindow + 1]
      /\ \A i \in DOMAIN q : q[i].job \in DOMAIN e /\ e[q[i].job] = q[i].age
      /\ \A i, k \in DOMAIN q : q[i].job = q[k].job => i = k
      /\ \A i, k \in DOMAIN q : i <= k => q[k].age <= q[i].age
      /\ \A k \in DOMAIN e : e[k] <= EarningsWindow => \E i \in DOMAIN q : q[i].job = k
    BY DEF Kept
<1>2. EarningsWindow \in Nat /\ 0 \in 0 .. EarningsWindow + 1
    BY SettlementAssumption
<1>3. b \in Record /\ b.job = j /\ b.age = 0
    BY <1>2 DEF Record
<1>4. /\ r \in Seq(Record) /\ DOMAIN r = 1 .. n + 1
      /\ \A i \in 1 .. n : r[i] = q[i]
      /\ r[n + 1] = b
    BY <1>1, <1>3
<1>5. /\ DOMAIN f = DOMAIN e \union {j} /\ f[j] = 0
      /\ \A k \in DOMAIN e : f[k] = e[k]
    OBVIOUS
<1>6. f \in [DOMAIN f -> 0 .. EarningsWindow + 1]
    <2>1. f = [k \in DOMAIN f |-> f[k]]
        OBVIOUS
    <2>2. \A k \in DOMAIN f : f[k] \in 0 .. EarningsWindow + 1
        BY <1>1, <1>2, <1>5
    <2> QED BY <2>1, <2>2
<1>7. \A i \in 1 .. n + 1 : i \in 1 .. n \/ i = n + 1
    BY <1>1
<1>8. /\ \A i \in 1 .. n : i \in 1 .. n + 1
      /\ n + 1 \in 1 .. n + 1
      /\ \A i \in 1 .. n : ~ (n + 1 <= i)
    BY <1>1
<1>9. \A i \in 1 .. n : q[i].age \in Nat
    <2>1. \A i \in 1 .. n : q[i] \in Record
        BY <1>1
    <2> QED BY <2>1 DEF Record
<1> HIDE DEF r, b, n
<1>10. \A i \in DOMAIN r : r[i].job \in DOMAIN f /\ f[r[i].job] = r[i].age
    BY <1>1, <1>3, <1>4, <1>5, <1>7
<1>11. \A i, k \in DOMAIN r : r[i].job = r[k].job => i = k
    BY <1>1, <1>3, <1>4, <1>5, <1>7
<1>12. \A i, k \in DOMAIN r : i <= k => r[k].age <= r[i].age
    <2> SUFFICES ASSUME NEW i \in 1 .. n + 1, NEW k \in 1 .. n + 1, i <= k
                 PROVE  r[k].age <= r[i].age
        BY <1>4
    <2>1. CASE i \in 1 .. n /\ k \in 1 .. n
        BY <1>1, <1>4, <2>1
    <2>2. CASE i \in 1 .. n /\ k = n + 1
        <3>1. r[k].age = 0 /\ r[i].age \in Nat
            BY <1>3, <1>4, <1>9, <2>2
        <3> QED BY <3>1
    <2>3. CASE i = n + 1 /\ k = n + 1
        BY <1>3, <1>4, <2>3
    <2>4. ~ (i = n + 1 /\ k \in 1 .. n)
        BY <1>8
    <2> QED BY <1>7, <2>1, <2>2, <2>3, <2>4
<1>13. \A k \in DOMAIN f : f[k] <= EarningsWindow => \E i \in DOMAIN r : r[i].job = k
    <2> SUFFICES ASSUME NEW k \in DOMAIN f, f[k] <= EarningsWindow
                 PROVE  \E i \in DOMAIN r : r[i].job = k
        OBVIOUS
    <2>1. CASE k = j
        BY <1>3, <1>4, <1>8, <2>1
    <2>2. CASE k \in DOMAIN e
        BY <1>1, <1>4, <1>5, <1>8, <2>2
    <2> QED BY <1>5, <2>1, <2>2
<1> QED BY <1>4, <1>6, <1>10, <1>11, <1>12, <1>13 DEF Kept, r, b

\* The records and the jobs grow older together.
LEMMA AgedKept ==
    ASSUME NEW q, NEW e, Kept(q, e),
           NEW r, r = [i \in DOMAIN q |-> [q[i] EXCEPT !.age = Aged(@)]],
           NEW f, f = [j \in DOMAIN e |-> Aged(e[j])]
    PROVE  Kept(r, f)
<1> DEFINE Age == 0 .. EarningsWindow + 1
<1>1. /\ q \in Seq(Record) /\ Len(q) \in Nat /\ DOMAIN q = 1 .. Len(q)
      /\ e \in [DOMAIN e -> Age]
      /\ \A i \in DOMAIN q : q[i].job \in DOMAIN e /\ e[q[i].job] = q[i].age
      /\ \A i, k \in DOMAIN q : q[i].job = q[k].job => i = k
      /\ \A i, k \in DOMAIN q : i <= k => q[k].age <= q[i].age
      /\ \A k \in DOMAIN e : e[k] <= EarningsWindow => \E i \in DOMAIN q : q[i].job = k
    BY DEF Kept
<1>2. /\ \A a \in Age : Aged(a) \in Age /\ (Aged(a) <= EarningsWindow => a <= EarningsWindow)
      /\ \A a, c \in Age : a <= c => Aged(a) <= Aged(c)
    BY SettlementAssumption DEF Aged
<1>3. \A i \in DOMAIN q : q[i] \in Record
    BY <1>1
<1>4. \A i \in DOMAIN q : /\ r[i] \in Record /\ q[i].age \in Age
                          /\ r[i].job = q[i].job /\ r[i].age = Aged(q[i].age)
    <2> SUFFICES ASSUME NEW i \in DOMAIN q
                 PROVE  /\ r[i] \in Record /\ q[i].age \in Age
                        /\ r[i].job = q[i].job /\ r[i].age = Aged(q[i].age)
        OBVIOUS
    <2>1. q[i] = [job |-> q[i].job, age |-> q[i].age] /\ q[i].job \in Job /\ q[i].age \in Age
        BY <1>3 DEF Record
    <2>2. Aged(q[i].age) \in Age
        BY <1>2, <2>1
    <2>3. r[i] = [q[i] EXCEPT !.age = Aged(q[i].age)]
        OBVIOUS
    <2>4. r[i] = [job |-> q[i].job, age |-> Aged(q[i].age)]
        BY <2>1, <2>3
    <2> QED BY <2>1, <2>2, <2>4 DEF Record
<1>5. DOMAIN r = DOMAIN q /\ r \in Seq(Record)
    <2>1. DOMAIN r = DOMAIN q /\ r = [i \in DOMAIN q |-> r[i]]
        OBVIOUS
    <2>2. [i \in 1 .. Len(q) |-> r[i]] \in Seq(Record)
        <3>1. \A i \in 1 .. Len(q) : r[i] \in Record
            BY <1>1, <1>4
        <3> HIDE DEF Record
        <3> QED BY <1>1, <3>1
    <2> QED BY <1>1, <2>1, <2>2
<1>6. DOMAIN f = DOMAIN e /\ f \in [DOMAIN f -> Age] /\ \A j \in DOMAIN e : f[j] = Aged(e[j])
    BY <1>1, <1>2
<1> HIDE DEF Age
<1>7. \A i \in DOMAIN r : r[i].job \in DOMAIN f /\ f[r[i].job] = r[i].age
    BY <1>1, <1>4, <1>5, <1>6
<1>8. \A i, k \in DOMAIN r : r[i].job = r[k].job => i = k
    <2> SUFFICES ASSUME NEW i \in DOMAIN q, NEW k \in DOMAIN q, r[i].job = r[k].job
                 PROVE  i = k
        BY <1>5
    <2>1. q[i].job = q[k].job
        BY <1>4
    <2> QED BY <1>1, <2>1
<1>9. \A i, k \in DOMAIN r : i <= k => r[k].age <= r[i].age
    <2> SUFFICES ASSUME NEW i \in DOMAIN q, NEW k \in DOMAIN q, i <= k
                 PROVE  r[k].age <= r[i].age
        BY <1>5
    <2>1. q[k].age <= q[i].age
        BY <1>1
    <2>2. Aged(q[k].age) <= Aged(q[i].age)
        BY <1>2, <1>4, <2>1
    <2> QED BY <1>4, <2>2
<1>10. \A j \in DOMAIN f : f[j] <= EarningsWindow => \E i \in DOMAIN r : r[i].job = j
    <2> SUFFICES ASSUME NEW j \in DOMAIN e, f[j] <= EarningsWindow
                 PROVE  \E i \in DOMAIN r : r[i].job = j
        BY <1>6
    <2>1. e[j] \in Age
        BY <1>1
    <2>2. Aged(e[j]) <= EarningsWindow
        BY <1>6
    <2>3. e[j] <= EarningsWindow
        BY <1>2, <2>1, <2>2
    <2>4. PICK i \in DOMAIN q : q[i].job = j
        BY <1>1, <2>3
    <2>5. i \in DOMAIN r /\ r[i].job = j
        BY <1>4, <1>5, <2>4
    <2> QED BY <2>5
<1> QED BY <1>5, <1>6, <1>7, <1>8, <1>9, <1>10 DEF Kept, Age

\* Every step of the two trackers keeps the records and the totals.
LEMMA EarningsNext ==
    ASSUME EarningsInv, [SettlementNext]_settlementVars
    PROVE  EarningsInv'
<1>1. ASSUME NEW j \in Job, RecordEarning(j) PROVE EarningsInv'
    <2>1. Kept(records, earned) /\ DOMAIN earned \in SUBSET Job /\ IsFiniteSet(DOMAIN earned)
        BY DEF EarningsInv
    <2>2. j \notin DOMAIN earned /\ DOMAIN earned' = DOMAIN earned \union {j}
        BY <1>1 DEF RecordEarning
    <2>3. Kept(records', earned')
        BY <1>1, <2>1, EarningKept DEF RecordEarning
    <2>4. DOMAIN earned' \in SUBSET Job /\ IsFiniteSet(DOMAIN earned')
          /\ Cardinality(DOMAIN earned') = Cardinality(DOMAIN earned) + 1
        BY <2>1, <2>2, FS_AddElement
    <2>5. Total(DOMAIN earned') = Total(DOMAIN earned) + Lamports[j]
        BY <2>1, <2>2, TotalIsSum
    <2>6. lifetime.jobs = Cardinality(DOMAIN earned) /\ lifetime.lamports = Total(DOMAIN earned)
        BY DEF EarningsInv
    <2>7. lifetime' = [jobs |-> Cardinality(DOMAIN earned'), lamports |-> Total(DOMAIN earned')]
        BY <1>1, <2>4, <2>5, <2>6 DEF RecordEarning
    <2> QED BY <2>3, <2>4, <2>7 DEF EarningsInv
<1>2. CASE ReadWindow
    BY <1>2, PrunedKeeps DEF ReadWindow, EarningsInv
<1>3. CASE EarningsTick
    <2>1. Kept(records', earned')
        BY <1>3, AgedKept DEF EarningsTick, EarningsInv
    <2>2. DOMAIN earned' = DOMAIN earned /\ lifetime' = lifetime
        BY <1>3 DEF EarningsTick
    <2> QED BY <2>1, <2>2 DEF EarningsInv
<1>4. CASE UNCHANGED earningsVars
    BY <1>4 DEF earningsVars, EarningsInv
<1>5. \/ \E j \in Job : RecordEarning(j)
      \/ ReadWindow \/ EarningsTick
      \/ UNCHANGED earningsVars
    BY DEF SettlementNext, ConfirmBatch, FailBatch, Answered, RecordPayment, Flush,
           settlementVars, earningsVars
<1> QED BY <1>1, <1>2, <1>3, <1>4, <1>5

\* No lamport is lost and none is counted twice: payments are pending or in a batch of
\* some status, the summary of a window holds exactly its jobs, the lifetime totals all.
THEOREM MoneyAlwaysAccounted == SettlementSpec => []MoneyIsAccounted
<1>1. SettlementInit => TrackerInv /\ EarningsInv
    <2> SUFFICES ASSUME SettlementInit PROVE TrackerInv /\ EarningsInv
        OBVIOUS
    <2>1. /\ pending = <<>> /\ batches = <<>> /\ paid = {} /\ records = <<>>
          /\ lifetime = [lamports |-> 0, jobs |-> 0] /\ earned = [j \in {} |-> 0]
        BY DEF SettlementInit
    <2>2. pending \in Seq(Job) /\ batches \in Seq(Batch) /\ records \in Seq(Record)
          /\ DOMAIN batches = {} /\ DOMAIN records = {} /\ DOMAIN earned = {}
        BY <2>1
    <2>3. ToSet(pending) = {}
        BY <2>1 DEF ToSet
    <2>4. IsFiniteSet({}) /\ Cardinality({}) = 0
        BY FS_EmptySet
    <2>5. Total({}) = 0
        BY <2>4, TotalIsSum
    <2>6. Amount(pending) = 0 /\ Batched(batches) = 0
        BY <2>1, <2>2, AmountIsSum, BatchesAdd
    <2>7. TrackerInv
        BY <2>1, <2>2, <2>3, <2>4, <2>5, <2>6 DEF TrackerInv, Tracker
    <2>8. earned \in [DOMAIN earned -> 0 .. EarningsWindow + 1]
        BY <2>1
    <2>9. EarningsInv
        BY <2>1, <2>2, <2>4, <2>5, <2>8 DEF EarningsInv, Kept
    <2> QED BY <2>7, <2>9
<1>2. TrackerInv /\ EarningsInv /\ [SettlementNext]_settlementVars => (TrackerInv /\ EarningsInv)'
    BY TrackerNext, EarningsNext
<1>3. TrackerInv /\ EarningsInv => MoneyIsAccounted
    <2> SUFFICES ASSUME TrackerInv, EarningsInv PROVE MoneyIsAccounted
        OBVIOUS
    <2> DEFINE young == {j \in DOMAIN earned : earned[j] <= EarningsWindow}
    <2>1. Total(paid) = Amount(pending) + Settled("pending") + Settled("confirmed") + Settled("failed")
        <3>1. /\ pending \in Seq(Job) /\ batches \in Seq(Batch)
              /\ Total(paid) = Amount(pending) + Batched(batches)
            BY DEF TrackerInv, Tracker
        <3>2. Batched(batches) = Settled("pending") + Settled("confirmed") + Settled("failed")
            BY <3>1, StatesAdd
        <3>3. Amount(pending) \in Int
            BY <3>1, AmountIsSum
        <3>4. Settled("pending") \in Int /\ Settled("confirmed") \in Int /\ Settled("failed") \in Int
            BY <3>1, StatesAdd
        <3> QED BY <3>1, <3>2, <3>3, <3>4
    <2>2. \A i, k \in DOMAIN batches :
             i # k => ToSet(batches[i].records) \intersect ToSet(batches[k].records) = {}
        BY DEF TrackerInv, Tracker
    <2>3. WindowSummary(Pruned(records)) = [jobs |-> Cardinality(young), lamports |-> Total(young)]
        BY PrunedKeeps, WindowAdds DEF EarningsInv
    <2>4. lifetime = [jobs |-> Cardinality(DOMAIN earned), lamports |-> Total(DOMAIN earned)]
        BY DEF EarningsInv
    <2> QED BY <2>1, <2>2, <2>3, <2>4 DEF MoneyIsAccounted
<1> QED BY <1>1, <1>2, <1>3, PTL DEF SettlementSpec

-----------------------------------------------------------------------------
(* The result cache.  Its entries are in the order in which their keys were last  *)
(* used, which is why the first one is the right one to evict: the others, and the   *)
(* new key, were all used after it.                                                  *)

Held == [key : Key, age : Nat]

Ordered(r, q) ==
    /\ r \in Seq(Held) /\ q \in Seq(Key) /\ IsInjective(q)
    /\ \A i \in DOMAIN r : r[i].key \in ToSet(q)
    /\ \A i, j \in DOMAIN r : i < j => InFrontOf(q, r[i].key, r[j].key)

Keeps(r, k) == \E i \in DOMAIN r : r[i].key = k

Forgotten(r, q, g) ==
    \A i \in DOMAIN q : q[i] \in g \/ Keeps(r, q[i]) \/ Len(q) - i >= MaxSize

CacheInv ==
    /\ Ordered(results, used)
    /\ Len(results) <= MaxSize
    /\ Forgotten(results, used, gone)

MovedLast(q, k, u) ==
    /\ u \in Seq(Key) /\ IsInjective(u) /\ ToSet(u) = ToSet(q) \union {k}
    /\ \A x, y : x # k /\ y # k /\ InFrontOf(q, x, y) => InFrontOf(u, x, y)
    /\ \A x \in ToSet(q) : x # k => InFrontOf(u, x, k)
    /\ \A i \in DOMAIN u : u[i] # k =>
          \E j \in DOMAIN q : q[j] = u[i] /\ Len(u) - i >= Len(q) - j

\* A key that is used comes last, and none of the others loses its successors.
LEMMA LastUsed ==
    ASSUME NEW q \in Seq(Key), IsInjective(q), NEW k \in Key,
           NEW u, u = Append(RemoveFirst(q, k), k)
    PROVE  MovedLast(q, k, u)
<1> DEFINE p == RemoveFirst(q, k)
           n == Len(q)
           l == Len(p)
<1>1. n \in Nat /\ DOMAIN q = 1 .. n
    OBVIOUS
<1>2. IsInjective(p) /\ ToSet(p) = ToSet(q) \ {k}
    BY RemoveKeeps
<1>3. p \in Seq(Key)
    BY RemoveElements
<1>4. l \in Nat /\ DOMAIN p = 1 .. l
    BY <1>3
<1>5. \A i, j \in 1 .. n : q[i] = q[j] => i = j
    BY <1>1 DEF IsInjective
<1>6. u \in Seq(Key) /\ Len(u) = l + 1 /\ DOMAIN u = 1 .. l + 1
      /\ (\A i \in 1 .. l : u[i] = p[i]) /\ u[l + 1] = k
    BY <1>3
<1>7. IsInjective(u) /\ ToSet(u) = ToSet(q) \union {k}
    <2>1. k \notin ToSet(p)
        BY <1>2
    <2> HIDE DEF p
    <2>2. IsInjective(Append(p, k)) /\ ToSet(Append(p, k)) = ToSet(p) \union {k}
        BY <1>2, <1>3, <2>1, AppendKeeps
    <2> QED BY <1>2, <2>2 DEF p
\* Where an element of q is in u.
<1>8. \E f : /\ \A i \in 1 .. n : q[i] # k =>
                    f[i] \in 1 .. l /\ u[f[i]] = q[i] /\ l + 1 - f[i] >= n - i
             /\ \A i, j \in 1 .. n : i < j /\ q[i] # k /\ q[j] # k => f[i] < f[j]
    <2>1. CASE k \notin ToSet(q)
        <3>1. p = q
            BY <2>1, RemoveElements
        <3> DEFINE f == [i \in 1 .. n |-> i]
        <3>2. l = n
            BY <3>1
        <3> HIDE DEF p, n, l
        <3>3. \A i \in 1 .. n : f[i] \in 1 .. l /\ u[f[i]] = q[i] /\ l + 1 - f[i] >= n - i
            BY <1>1, <1>6, <3>1, <3>2
        <3>4. \A i, j \in 1 .. n : i < j => f[i] < f[j]
            OBVIOUS
        <3> HIDE DEF f
        <3> QED BY <3>3, <3>4
    <2>2. CASE k \in ToSet(q)
        <3>1. PICK m \in 1 .. n : /\ q[m] = k /\ l = n - 1
                                  /\ \A i \in 1 .. n - 1 : p[i] = IF i < m THEN q[i] ELSE q[i + 1]
            BY <2>2, RemoveElements
        <3> DEFINE f == [i \in 1 .. n |-> IF i < m THEN i ELSE i - 1]
        <3> HIDE DEF p, n, l
        <3>2. ASSUME NEW i \in 1 .. n, q[i] # k
              PROVE  f[i] \in 1 .. l /\ u[f[i]] = q[i] /\ l + 1 - f[i] >= n - i
            <4>1. i # m
                BY <3>1, <3>2
            <4>2. CASE i < m
                <5>1. f[i] = i /\ i \in 1 .. l /\ i \in 1 .. n - 1
                    BY <1>1, <3>1, <4>2
                <5>2. u[i] = q[i]
                    BY <1>6, <3>1, <4>2, <5>1
                <5>3. l + 1 - i >= n - i
                    BY <1>1, <3>1
                <5> QED BY <5>1, <5>2, <5>3
            <4>3. CASE i > m
                <5>1. f[i] = i - 1 /\ i - 1 \in 1 .. l /\ i - 1 \in 1 .. n - 1 /\ ~ (i - 1 < m)
                      /\ (i - 1) + 1 = i
                    BY <1>1, <3>1, <4>3
                <5>2. u[i - 1] = q[i]
                    BY <1>6, <3>1, <5>1
                <5>3. l + 1 - (i - 1) >= n - i
                    BY <1>1, <3>1
                <5> QED BY <5>1, <5>2, <5>3
            <4>4. i < m \/ i > m
                BY <1>1, <4>1
            <4> QED BY <4>2, <4>3, <4>4
        <3>3. ASSUME NEW i \in 1 .. n, NEW j \in 1 .. n, i < j, q[i] # k, q[j] # k
              PROVE  f[i] < f[j]
            <4>1. i # m /\ j # m
                BY <3>1, <3>3
            <4> QED BY <1>1, <3>1, <3>3, <4>1
        <3> HIDE DEF f
        <3> QED BY <3>2, <3>3
    <2> QED BY <2>1, <2>2
<1>9. PICK f : /\ \A i \in 1 .. n : q[i] # k =>
                      f[i] \in 1 .. l /\ u[f[i]] = q[i] /\ l + 1 - f[i] >= n - i
               /\ \A i, j \in 1 .. n : i < j /\ q[i] # k /\ q[j] # k => f[i] < f[j]
    BY <1>8
<1> HIDE DEF p, n, l
<1>10. \A i \in 1 .. l : i \in 1 .. l + 1 /\ i < l + 1 /\ l + 1 \in 1 .. l + 1
    BY <1>4
<1>11. ASSUME NEW x, NEW y, x # k, y # k, InFrontOf(q, x, y)
       PROVE  InFrontOf(u, x, y)
    <2>1. PICK i \in 1 .. n, j \in 1 .. n : i < j /\ q[i] = x /\ q[j] = y
        BY <1>1, <1>11 DEF InFrontOf
    <2>2. f[i] \in DOMAIN u /\ f[j] \in DOMAIN u /\ f[i] < f[j] /\ u[f[i]] = x /\ u[f[j]] = y
        BY <1>6, <1>9, <1>10, <1>11, <2>1
    <2> QED BY <2>2 DEF InFrontOf
<1>12. ASSUME NEW x \in ToSet(q), x # k
       PROVE  InFrontOf(u, x, k)
    <2>1. PICK i \in 1 .. n : q[i] = x
        BY <1>1 DEF ToSet
    <2>2. f[i] \in DOMAIN u /\ l + 1 \in DOMAIN u /\ f[i] < l + 1 /\ u[f[i]] = x /\ u[l + 1] = k
        BY <1>6, <1>9, <1>10, <1>12, <2>1
    <2> QED BY <2>2 DEF InFrontOf
<1>13. ASSUME NEW i \in DOMAIN u, u[i] # k
       PROVE  \E j \in DOMAIN q : q[j] = u[i] /\ Len(u) - i >= Len(q) - j
    <2>1. u[i] \in ToSet(q)
        BY <1>7, <1>13 DEF ToSet
    <2>2. PICK j \in 1 .. n : q[j] = u[i]
        BY <1>1, <2>1 DEF ToSet
    <2>3. f[j] \in 1 .. l /\ u[f[j]] = u[i] /\ l + 1 - f[j] >= n - j
        BY <1>9, <1>13, <2>2
    <2>4. f[j] = i
        BY <1>6, <1>7, <1>10, <2>3 DEF IsInjective
    <2>5. Len(u) = l + 1 /\ Len(q) = n /\ j \in DOMAIN q
        BY <1>1, <1>6, <2>2 DEF n
    <2>6. Len(u) - i >= Len(q) - j
        BY <1>1, <1>4, <2>2, <2>3, <2>4, <2>5
    <2> QED BY <2>2, <2>5, <2>6
<1> QED BY <1>6, <1>7, <1>11, <1>12, <1>13 DEF MovedLast

\* The entries have different keys.
LEMMA KeysDiffer ==
    ASSUME NEW r, NEW q, Ordered(r, q)
    PROVE  \A i, j \in DOMAIN r : r[i].key = r[j].key => i = j
<1>1. \A x : ~ InFrontOf(q, x, x)
    BY DEF InFrontOf, Ordered, IsInjective
<1>2. DOMAIN r \in SUBSET Int
    BY DEF Ordered
<1> QED BY <1>1, <1>2 DEF Ordered

\* An entry is taken out.
LEMMA RemovedOrdered ==
    ASSUME NEW r, NEW q, Ordered(r, q), NEW e \in ToSet(r), NEW s, s = RemoveFirst(r, e)
    PROVE  /\ Ordered(s, q) /\ Len(s) = Len(r) - 1
           /\ ~ Keeps(s, e.key)
           /\ \A k : Keeps(r, k) /\ k # e.key => Keeps(s, k)
<1> DEFINE n == Len(r)
<1>1. r \in Seq(Held) /\ n \in Nat /\ DOMAIN r = 1 .. n
    BY DEF Ordered
<1>2. s \in Seq(Held)
    BY <1>1, RemoveElements
<1>3. PICK m \in 1 .. n : /\ r[m] = e /\ Len(s) = n - 1
                          /\ \A i \in 1 .. n - 1 : s[i] = IF i < m THEN r[i] ELSE r[i + 1]
    <2> DEFINE p == RemoveFirst(r, e)
    <2>1. e \in ToSet(r) /\ s = p
        OBVIOUS
    <2>2. \E m \in 1 .. n : /\ r[m] = e /\ Len(p) = n - 1
                            /\ \A i \in 1 .. n - 1 : p[i] = IF i < m THEN r[i] ELSE r[i + 1]
        <3>1. r \in Seq(Held)
            BY <1>1
        <3> HIDE DEF Ordered, Keeps, Held
        <3>2. IF e \notin ToSet(r) THEN RemoveFirst(r, e) = r
              ELSE \E m \in 1 .. Len(r) :
                      /\ r[m] = e
                      /\ Len(RemoveFirst(r, e)) = Len(r) - 1
                      /\ \A i \in 1 .. Len(r) - 1 :
                            RemoveFirst(r, e)[i] = IF i < m THEN r[i] ELSE r[i + 1]
            BY ONLY <3>1, RemoveElements
        <3> QED BY <2>1, <3>2
    <2> HIDE DEF p, n
    <2> QED BY <2>1, <2>2
<1> DEFINE f == [i \in 1 .. n - 1 |-> IF i < m THEN i ELSE i + 1]
<1> HIDE DEF n
<1>4. DOMAIN s = 1 .. n - 1
    BY <1>2, <1>3
<1>5. \A i \in 1 .. n - 1 : f[i] \in 1 .. n /\ f[i] # m /\ s[i] = r[f[i]]
    BY <1>1, <1>3
<1>6. \A i, j \in 1 .. n - 1 : i < j => f[i] < f[j]
    BY <1>1, <1>3
<1>7. \A i \in 1 .. n : i # m => \E j \in 1 .. n - 1 : f[j] = i
    <2> SUFFICES ASSUME NEW i \in 1 .. n, i # m
                 PROVE  \E j \in 1 .. n - 1 : f[j] = i
        OBVIOUS
    <2>1. CASE i < m
        <3>1. i \in 1 .. n - 1 /\ f[i] = i
            BY <1>1, <1>3, <2>1
        <3> QED BY <3>1
    <2>2. CASE i > m
        <3>1. i - 1 \in 1 .. n - 1 /\ f[i - 1] = i
            BY <1>1, <1>3, <2>2
        <3> QED BY <3>1
    <2> QED BY <1>1, <1>3, <2>1, <2>2
<1> HIDE DEF f
<1>8. \A i, j \in 1 .. n : r[i].key = r[j].key => i = j
    BY <1>1, KeysDiffer
<1>9. Ordered(s, q)
    <2>1. /\ q \in Seq(Key) /\ IsInjective(q)
          /\ \A i \in 1 .. n : r[i].key \in ToSet(q)
          /\ \A i, j \in 1 .. n : i < j => InFrontOf(q, r[i].key, r[j].key)
        BY <1>1 DEF Ordered
    <2>2. \A i \in DOMAIN s : s[i].key \in ToSet(q)
        BY <1>4, <1>5, <2>1
    <2>3. \A i, j \in DOMAIN s : i < j => InFrontOf(q, s[i].key, s[j].key)
        BY <1>4, <1>5, <1>6, <2>1
    <2> QED BY <1>2, <2>1, <2>2, <2>3 DEF Ordered
<1>10. ~ Keeps(s, e.key)
    BY <1>3, <1>4, <1>5, <1>8 DEF Keeps
<1>11. ASSUME NEW k, Keeps(r, k), k # e.key
       PROVE  Keeps(s, k)
    <2>1. PICK i \in 1 .. n : r[i].key = k
        BY <1>1, <1>11 DEF Keeps
    <2>2. i # m
        BY <1>3, <1>11, <2>1
    <2>3. PICK j \in 1 .. n - 1 : f[j] = i
        BY <1>7, <2>2
    <2>4. j \in DOMAIN s /\ s[j].key = k
        BY <1>4, <1>5, <2>1, <2>3
    <2> QED BY <2>4 DEF Keeps
<1> QED BY <1>3, <1>9, <1>10, <1>11 DEF n

\* The first entry is evicted.
LEMMA TailOrdered ==
    ASSUME NEW r, NEW q, Ordered(r, q), r # <<>>
    PROVE  /\ Ordered(Tail(r), q) /\ Len(Tail(r)) = Len(r) - 1
           /\ \A k : Keeps(r, k) => k = r[1].key \/ Keeps(Tail(r), k)
           /\ \A k : Keeps(Tail(r), k) => Keeps(r, k)
<1> DEFINE n == Len(r)
           s == Tail(r)
<1>1. r \in Seq(Held) /\ n \in Nat \ {0} /\ DOMAIN r = 1 .. n
    BY DEF Ordered
<1>2. s \in Seq(Held) /\ Len(s) = n - 1 /\ DOMAIN s = 1 .. n - 1
      /\ \A i \in 1 .. n - 1 : s[i] = r[i + 1]
    BY <1>1
<1> HIDE DEF n, s
<1>3. \A i, j \in 1 .. n - 1 : i + 1 \in 1 .. n /\ (i < j => i + 1 < j + 1)
    BY <1>1
<1>4. \A i \in 1 .. n : i = 1 \/ (i - 1 \in 1 .. n - 1 /\ (i - 1) + 1 = i)
    BY <1>1
<1>5. Ordered(s, q)
    BY <1>1, <1>2, <1>3 DEF Ordered
<1>6. \A k : Keeps(s, k) => Keeps(r, k)
    BY <1>1, <1>2, <1>3 DEF Keeps
<1>7. ASSUME NEW k, Keeps(r, k)
      PROVE  k = r[1].key \/ Keeps(s, k)
    <2>1. PICK i \in 1 .. n : r[i].key = k
        BY <1>1, <1>7 DEF Keeps
    <2>2. CASE i = 1
        BY <2>1, <2>2
    <2>3. CASE i - 1 \in 1 .. n - 1 /\ (i - 1) + 1 = i
        BY <1>2, <2>1, <2>3 DEF Keeps
    <2> QED BY <1>4, <2>2, <2>3
<1> QED BY <1>2, <1>5, <1>6, <1>7 DEF s, n

\* An entry is put at the end.
LEMMA AppendOrdered ==
    ASSUME NEW r, NEW q, Ordered(r, q), NEW e \in Held, NEW k, k = e.key, ~ Keeps(r, k),
           NEW u, u = Append(RemoveFirst(q, k), k)
    PROVE  /\ Ordered(Append(r, e), u)
           /\ Len(Append(r, e)) = Len(r) + 1
           /\ Keeps(Append(r, e), k)
           /\ \A x : Keeps(r, x) => Keeps(Append(r, e), x)
<1> DEFINE n == Len(r)
           s == Append(r, e)
<1>1. r \in Seq(Held) /\ n \in Nat /\ DOMAIN r = 1 .. n /\ q \in Seq(Key) /\ IsInjective(q)
    BY DEF Ordered
<1>2. s \in Seq(Held) /\ Len(s) = n + 1 /\ DOMAIN s = 1 .. n + 1
      /\ (\A i \in 1 .. n : s[i] = r[i]) /\ s[n + 1] = e
    BY <1>1
<1>3. k \in Key
    BY DEF Held
<1>4. /\ u \in Seq(Key) /\ IsInjective(u) /\ ToSet(u) = ToSet(q) \union {k}
      /\ \A x, y : x # k /\ y # k /\ InFrontOf(q, x, y) => InFrontOf(u, x, y)
      /\ \A x \in ToSet(q) : x # k => InFrontOf(u, x, k)
    <2>1. MovedLast(q, k, u)
        BY <1>1, <1>3, LastUsed
    <2> QED BY <2>1 DEF MovedLast
<1> HIDE DEF n, s
<1>5. /\ \A i \in 1 .. n + 1 : i \in 1 .. n \/ i = n + 1
      /\ \A i \in 1 .. n : i \in 1 .. n + 1
      /\ n + 1 \in 1 .. n + 1
      /\ \A i, j \in 1 .. n + 1 : i < j => i \in 1 .. n
    BY <1>1
<1>6. \A i \in 1 .. n : r[i].key # k /\ r[i].key \in ToSet(q)
    BY <1>1 DEF Keeps, Ordered
<1>7. \A i \in DOMAIN s : s[i].key \in ToSet(u)
    BY <1>2, <1>4, <1>5, <1>6
<1>8. ASSUME NEW i \in DOMAIN s, NEW j \in DOMAIN s, i < j
      PROVE  InFrontOf(u, s[i].key, s[j].key)
    <2>1. i \in 1 .. n /\ s[i] = r[i]
        BY <1>2, <1>5, <1>8
    <2>2. CASE j = n + 1
        BY <1>2, <1>4, <1>6, <2>1, <2>2
    <2>3. CASE j \in 1 .. n
        <3>1. InFrontOf(q, r[i].key, r[j].key)
            BY <1>1, <1>8, <2>1, <2>3 DEF Ordered
        <3> QED BY <1>2, <1>4, <1>6, <2>1, <2>3, <3>1
    <2> QED BY <1>2, <1>5, <2>2, <2>3
<1>9. Ordered(s, u)
    BY <1>2, <1>4, <1>7, <1>8 DEF Ordered
<1>10. Keeps(s, k)
    BY <1>2, <1>5 DEF Keeps
<1>11. \A x : Keeps(r, x) => Keeps(s, x)
    BY <1>1, <1>2, <1>5 DEF Keeps
<1> QED BY <1>2, <1>9, <1>10, <1>11 DEF s, n

\* The key of the first entry was used before those of all others.
LEMMA EnoughAfter ==
    ASSUME NEW s, NEW u, Ordered(s, u), s # <<>>, NEW a \in DOMAIN u, u[a] = s[1].key
    PROVE  Len(u) - a >= Len(s) - 1
<1> DEFINE n == Len(s)
           l == Len(u)
           G == {i \in 0 .. n - 1 : \E b \in DOMAIN u : u[b] = s[i + 1].key /\ b >= a + i}
<1>1. s \in Seq(Held) /\ n \in Nat \ {0} /\ DOMAIN s = 1 .. n
    BY DEF Ordered
<1>2. u \in Seq(Key) /\ l \in Nat /\ DOMAIN u = 1 .. l /\ IsInjective(u)
    BY DEF Ordered
<1> HIDE DEF n, l
<1>3. 0 \in G
    <2>1. 0 \in 0 .. n - 1 /\ 0 + 1 = 1 /\ a >= a + 0
        BY <1>1, <1>2
    <2> QED BY <2>1
<1>4. ASSUME NEW i \in 1 .. n - 1, i - 1 \in G
      PROVE  i \in G
    <2>1. i \in 0 .. n - 1 /\ (i - 1) + 1 = i /\ i \in 1 .. n /\ i + 1 \in 1 .. n /\ i < i + 1
        BY <1>1
    <2>2. PICK b \in 1 .. l : u[b] = s[i].key /\ b >= a + (i - 1)
        BY <1>2, <1>4, <2>1
    <2>3. InFrontOf(u, s[i].key, s[i + 1].key)
        BY <1>1, <2>1 DEF Ordered
    <2>4. PICK c \in 1 .. l, d \in 1 .. l : c < d /\ u[c] = s[i].key /\ u[d] = s[i + 1].key
        BY <1>2, <2>3 DEF InFrontOf
    <2>5. c = b
        BY <1>2, <2>2, <2>4 DEF IsInjective
    <2>6. d >= a + i
        BY <1>1, <1>2, <2>2, <2>4, <2>5
    <2> QED BY <1>2, <2>1, <2>4, <2>6
<1>5. n - 1 \in G
    <2>1. n - 1 \in Nat /\ n - 1 \in 0 .. n - 1
        BY <1>1
    <2>2. G \in SUBSET (0 .. n - 1)
        OBVIOUS
    <2> HIDE DEF G
    <2>3. \A i \in 0 .. n - 1 : i \in G
        BY <1>3, <1>4, <2>1, <2>2, UpTo
    <2> QED BY <2>1, <2>3
<1>6. PICK b \in 1 .. l : b >= a + (n - 1)
    BY <1>2, <1>5
<1> QED BY <1>1, <1>2, <1>6 DEF n, l

\* Using a key keeps what is known of the others, those evicted by it included.
LEMMA ForgottenKept ==
    ASSUME NEW r, NEW q, NEW g, Ordered(r, q), Forgotten(r, q, g), NEW k \in Key,
           NEW u, u = Append(RemoveFirst(q, k), k),
           NEW s, Keeps(s, k),
           \A x : Keeps(r, x) => \/ Keeps(s, x)
                                 \/ \A i \in DOMAIN u : u[i] = x => Len(u) - i >= MaxSize
    PROVE  Forgotten(s, u, g \ {k})
<1>1. q \in Seq(Key) /\ IsInjective(q)
    BY DEF Ordered
<1>2. /\ u \in Seq(Key)
      /\ \A i \in DOMAIN u : u[i] # k =>
             \E j \in DOMAIN q : q[j] = u[i] /\ Len(u) - i >= Len(q) - j
    <2>1. MovedLast(q, k, u)
        BY <1>1, LastUsed
    <2> QED BY <2>1 DEF MovedLast
<1> SUFFICES ASSUME NEW i \in DOMAIN u, u[i] \notin g \ {k}, ~ Keeps(s, u[i])
             PROVE  Len(u) - i >= MaxSize
    BY DEF Forgotten
<1>3. u[i] # k
    OBVIOUS
<1>4. PICK j \in DOMAIN q : q[j] = u[i] /\ Len(u) - i >= Len(q) - j
    BY <1>2, <1>3
<1>5. u[i] \notin g
    BY <1>3
<1>6. CASE Keeps(r, u[i])
    BY <1>6
<1>7. CASE Len(q) - j >= MaxSize
    <2>1. Len(q) \in Int /\ Len(u) \in Int /\ i \in Int /\ j \in Int /\ MaxSize \in Int
        BY <1>1, <1>2, CacheAssumption
    <2> QED BY <1>4, <1>7, <2>1
<1> QED BY <1>4, <1>5, <1>6, <1>7 DEF Forgotten

\* The entry of a key that is cached.
LEMMA EntryFound ==
    ASSUME Ordered(results, used), NEW k, Cached(k)
    PROVE  Entry(k) \in ToSet(results) /\ Entry(k) \in Held /\ Entry(k).key = k
<1>1. PICK i \in DOMAIN results : results[i].key = k
    BY DEF Cached
<1>2. results[i] \in ToSet(results)
    BY DEF ToSet
<1>3. Entry(k) \in ToSet(results) /\ Entry(k).key = k
    BY <1>1, <1>2 DEF Entry
<1>4. \A e \in ToSet(results) : e \in Held
    BY DEF Ordered, ToSet
<1> QED BY <1>3, <1>4

\* An entry of a key that is cached moves to the end, with whatever age.
LEMMA RenewedKept ==
    ASSUME CacheInv, NEW k \in Key, Cached(k), NEW e \in Held, e.key = k,
           results' = Append(Others(k), e), Touch(k)
    PROVE  CacheInv'
<1> DEFINE s == Others(k)
           t == Append(s, e)
           u == Append(RemoveFirst(used, k), k)
<1>1. Ordered(results, used) /\ Len(results) <= MaxSize /\ Forgotten(results, used, gone)
    BY DEF CacheInv
<1>2. Entry(k) \in ToSet(results) /\ Entry(k).key = k
    BY <1>1, EntryFound
<1>3. /\ Ordered(s, used) /\ Len(s) = Len(results) - 1
      /\ ~ Keeps(s, k)
      /\ \A x : Keeps(results, x) /\ x # k => Keeps(s, x)
    BY <1>1, <1>2, RemovedOrdered DEF Others
<1> HIDE DEF s
<1>4. /\ Ordered(t, u) /\ Len(t) = Len(s) + 1
      /\ Keeps(t, k)
      /\ \A x : Keeps(s, x) => Keeps(t, x)
    BY <1>3, AppendOrdered
<1>5. \A x : Keeps(results, x) => Keeps(t, x)
    BY <1>3, <1>4
<1> HIDE DEF t, u
<1>6. Forgotten(t, u, gone \ {k})
    BY <1>1, <1>4, <1>5, ForgottenKept DEF u
<1>7. Len(t) <= MaxSize
    <2>1. Len(results) \in Nat
        BY <1>1 DEF Ordered
    <2> QED BY <1>1, <1>3, <1>4, <2>1
<1>8. results' = t /\ used' = u /\ gone' = gone \ {k}
    BY DEF Touch, t, u, s
<1> QED BY <1>4, <1>6, <1>7, <1>8 DEF CacheInv

\* put of a key that is not cached, which may evict the first entry.
LEMMA NewKept ==
    ASSUME CacheInv, NEW k \in Key, ~ Cached(k), Put(k)
    PROVE  CacheInv'
<1> DEFINE e == [key |-> k, age |-> 0]
           s == IF Len(results) >= MaxSize THEN Tail(results) ELSE results
           t == Append(s, e)
           u == Append(RemoveFirst(used, k), k)
<1>1. Ordered(results, used) /\ Len(results) <= MaxSize /\ Forgotten(results, used, gone)
      /\ Len(results) \in Nat /\ MaxSize \in Nat \ {0}
    BY CacheAssumption DEF CacheInv, Ordered
<1>2. e \in Held /\ e.key = k
    BY DEF Held
<1>3. ~ Keeps(results, k)
    BY DEF Keeps, Cached
<1>4. results' = t /\ used' = u /\ gone' = gone \ {k}
    BY DEF Put, Touch
<1> HIDE DEF e, u
<1>5. CASE Len(results) >= MaxSize
    <2> DEFINE a == Append(results, e)
    <2>1. s = Tail(results) /\ results # <<>> /\ Len(results) = MaxSize
        BY <1>1, <1>5
    <2>2. /\ Ordered(s, used) /\ Len(s) = Len(results) - 1
          /\ \A x : Keeps(results, x) => x = results[1].key \/ Keeps(s, x)
          /\ \A x : Keeps(s, x) => Keeps(results, x)
        BY <1>1, <2>1, TailOrdered
    <2> HIDE DEF s
    <2>3. /\ Ordered(t, u) /\ Len(t) = Len(s) + 1
          /\ Keeps(t, k)
          /\ \A x : Keeps(s, x) => Keeps(t, x)
        BY <1>2, <1>3, <2>2, AppendOrdered DEF u
    <2>4. Ordered(a, u) /\ Len(a) = Len(results) + 1
        BY <1>1, <1>2, <1>3, AppendOrdered DEF u
    <2>5. a # <<>> /\ a[1] = results[1]
        <3>1. results \in Seq(Held)
            BY <1>1 DEF Ordered
        <3> QED BY <1>1, <1>2, <2>1, <3>1
    <2> HIDE DEF t, a
    <2>6. ASSUME NEW i \in DOMAIN u, u[i] = results[1].key PROVE Len(u) - i >= MaxSize
        <3>1. Len(u) - i >= Len(a) - 1
            BY <2>4, <2>5, <2>6, EnoughAfter
        <3>2. Len(u) \in Nat /\ i \in Int
            BY <2>4 DEF Ordered
        <3> QED BY <1>1, <2>1, <2>4, <3>1, <3>2
    <2>7. \A x : Keeps(results, x) => \/ Keeps(t, x)
                                      \/ \A i \in DOMAIN u : u[i] = x => Len(u) - i >= MaxSize
        BY <2>2, <2>3, <2>6
    <2>8. Forgotten(t, u, gone \ {k})
        BY <1>1, <2>3, <2>7, ForgottenKept DEF u
    <2>9. Len(t) <= MaxSize
        BY <1>1, <2>1, <2>2, <2>3
    <2> QED BY <1>4, <2>3, <2>8, <2>9 DEF CacheInv, t
<1>6. CASE ~ (Len(results) >= MaxSize)
    <2>1. s = results
        BY <1>6
    <2> HIDE DEF s
    <2>2. /\ Ordered(t, u) /\ Len(t) = Len(results) + 1
          /\ Keeps(t, k)
          /\ \A x : Keeps(results, x) => Keeps(t, x)
        BY <1>1, <1>2, <1>3, <2>1, AppendOrdered DEF u
    <2> HIDE DEF t
    <2>3. Forgotten(t, u, gone \ {k})
        BY <1>1, <2>2, ForgottenKept DEF u
    <2>4. Len(t) <= MaxSize
        BY <1>1, <1>6, <2>2
    <2> QED BY <1>4, <2>2, <2>3, <2>4 DEF CacheInv, t
<1> QED BY <1>5, <1>6

\* An entry that is removed counts as gone.
LEMMA DropKept ==
    ASSUME CacheInv, NEW k, Cached(k), Drop(k)
    PROVE  CacheInv'
<1> DEFINE s == Others(k)
<1>1. Ordered(results, used) /\ Len(results) <= MaxSize /\ Forgotten(results, used, gone)
    BY DEF CacheInv
<1>2. Entry(k) \in ToSet(results) /\ Entry(k).key = k
    BY <1>1, EntryFound
<1>3. /\ Ordered(s, used) /\ Len(s) = Len(results) - 1
      /\ \A x : Keeps(results, x) /\ x # k => Keeps(s, x)
    BY <1>1, <1>2, RemovedOrdered DEF Others
<1> HIDE DEF s
<1>4. Forgotten(s, used, gone \union {k})
    BY <1>1, <1>3 DEF Forgotten
<1>5. Len(s) <= MaxSize
    <2>1. Len(results) \in Nat /\ MaxSize \in Nat
        BY <1>1, CacheAssumption DEF Ordered
    <2> QED BY <1>1, <1>3, <2>1
<1>6. results' = s /\ used' = used /\ gone' = gone \union {k}
    BY DEF Drop, s
<1> QED BY <1>3, <1>4, <1>5, <1>6 DEF CacheInv

\* Time touches the ages only.
LEMMA CacheTickKept ==
    ASSUME CacheInv, CacheTick
    PROVE  CacheInv'
<1> DEFINE n == Len(results)
           s == results'
<1>1. Ordered(results, used) /\ n <= MaxSize /\ Forgotten(results, used, gone)
    BY DEF CacheInv
<1>2. results \in Seq(Held) /\ n \in Nat /\ DOMAIN results = 1 .. n
    BY <1>1 DEF Ordered
<1>3. s = [i \in 1 .. n |-> s[i]] /\ DOMAIN s = 1 .. n
    BY <1>2 DEF CacheTick
<1>4. \A i \in 1 .. n : s[i] \in Held /\ s[i].key = results[i].key
    <2> SUFFICES ASSUME NEW i \in 1 .. n PROVE s[i] \in Held /\ s[i].key = results[i].key
        OBVIOUS
    <2> DEFINE age == IF results[i].age > TTL THEN results[i].age ELSE results[i].age + 1
    <2>1. results[i] \in Held
        BY <1>2
    <2>2. /\ results[i] = [key |-> results[i].key, age |-> results[i].age]
          /\ results[i].key \in Key /\ results[i].age \in Nat
        BY <2>1 DEF Held
    <2>3. s[i] = [results[i] EXCEPT !.age = age]
        BY <1>2 DEF CacheTick
    <2>4. age \in Nat
        BY <2>2
    <2> HIDE DEF age, s
    <2>5. s[i] = [key |-> results[i].key, age |-> age]
        BY <2>2, <2>3
    <2> QED BY <2>2, <2>4, <2>5 DEF Held
<1>5. s \in Seq(Held) /\ Len(s) = n
    <2> HIDE DEF s, n, Held
    <2>1. \A i \in 1 .. n : s[i] \in Held
        BY <1>4
    <2>2. [i \in 1 .. n |-> s[i]] \in Seq(Held)
        BY <1>2, <2>1
    <2>3. s \in Seq(Held)
        BY <1>3, <2>2
    <2> QED BY <1>2, <1>3, <2>3
<1> HIDE DEF s, n
<1>6. Ordered(s, used)
    BY <1>1, <1>2, <1>3, <1>4, <1>5 DEF Ordered
<1>7. \A x : Keeps(results, x) => Keeps(s, x)
    BY <1>2, <1>3, <1>4 DEF Keeps
<1>8. Forgotten(s, used, gone)
    BY <1>1, <1>7 DEF Forgotten
<1>9. results' = s /\ used' = used /\ gone' = gone /\ Len(s) <= MaxSize
    BY <1>1, <1>5 DEF CacheTick, s
<1> QED BY <1>6, <1>8, <1>9 DEF CacheInv

\* The cache forgets the right keys: one of the MaxSize last used, unless it was removed,
\* is still there, however gets, puts, expiries and invalidations alternate.
THEOREM RecentAlwaysCached == CacheSpec => []RecentStaysCached
<1>1. CacheInit => CacheInv
    <2> SUFFICES ASSUME CacheInit PROVE CacheInv
        OBVIOUS
    <2>1. results = <<>> /\ used = <<>> /\ gone = {}
        BY DEF CacheInit
    <2>2. results \in Seq(Held) /\ used \in Seq(Key) /\ DOMAIN results = {} /\ DOMAIN used = {}
          /\ Len(results) = 0
        BY <2>1
    <2>3. Len(results) <= MaxSize
        BY <2>2, CacheAssumption
    <2> QED BY <2>2, <2>3 DEF CacheInv, Ordered, Forgotten, IsInjective
<1>2. CacheInv /\ [CacheNext]_cacheVars => CacheInv'
    <2> SUFFICES ASSUME CacheInv, [CacheNext]_cacheVars PROVE CacheInv'
        OBVIOUS
    <2>1. ASSUME NEW k \in Key, Get(k) PROVE CacheInv'
        <3>1. Cached(k)
            BY <2>1 DEF Get
        <3>2. CASE Entry(k).age > TTL
            BY <2>1, <3>1, <3>2, DropKept DEF Get
        <3>3. CASE ~ (Entry(k).age > TTL)
            <4>1. results' = Append(Others(k), Entry(k)) /\ Touch(k)
                BY <2>1, <3>3 DEF Get
            <4>2. Entry(k) \in Held /\ Entry(k).key = k
                BY <3>1, EntryFound DEF CacheInv
            <4> QED BY <3>1, <4>1, <4>2, RenewedKept
        <3> QED BY <3>2, <3>3
    <2>2. ASSUME NEW k \in Key, Put(k) PROVE CacheInv'
        <3>1. CASE Cached(k)
            <4> DEFINE e == [key |-> k, age |-> 0]
            <4>1. results' = Append(Others(k), e) /\ Touch(k)
                BY <2>2, <3>1 DEF Put
            <4>2. e \in Held /\ e.key = k
                BY DEF Held
            <4> QED BY <3>1, <4>1, <4>2, RenewedKept
        <3> QED BY <2>2, <3>1, NewKept
    <2>3. ASSUME NEW k \in Key, Invalidate(k) PROVE CacheInv'
        BY <2>3, DropKept DEF Invalidate
    <2>4. CASE CacheTick
        BY <2>4, CacheTickKept
    <2>5. CASE UNCHANGED cacheVars
        BY <2>5 DEF cacheVars, CacheInv
    <2> QED BY <2>1, <2>2, <2>3, <2>4, <2>5 DEF CacheNext
<1>3. CacheInv => RecentStaysCached
    <2> SUFFICES ASSUME CacheInv, NEW i \in DOMAIN used, used[i] \notin gone, Len(used) - i < MaxSize
                 PROVE  Cached(used[i])
        BY DEF RecentStaysCached, CacheInv
    <2>1. Len(used) \in Int /\ i \in Int /\ MaxSize \in Int
        BY CacheAssumption DEF CacheInv, Ordered
    <2>2. ~ (Len(used) - i >= MaxSize)
        BY <2>1
    <2> QED BY <2>2 DEF CacheInv, Forgotten, Keeps, Cached
<1> QED BY <1>1, <1>2, <1>3, PTL DEF CacheSpec

-----------------------------------------------------------------------------
(* Lookups in the DHT.  What lives under a key is of its shard; while a lookup is    *)
(* sure that something lived all the time, every path that has returned without an    *)
(* error has left a value in the result.                                             *)

Announced == [node : Announcer, at : Nat]

Living ==
    /\ starts \in Nat
    /\ stored = [s \in ShardKey |-> stored[s]]
    /\ life \in [ShardKey -> Nat]
    /\ \A s \in ShardKey : life[s] > 0 => stored[s] \in Announced /\ ShardOf[stored[s].node] = s

LookingUp ==
    /\ lookup = [key |-> lookup.key, paths |-> lookup.paths, merged |-> lookup.merged,
                 failed |-> lookup.failed, asked |-> lookup.asked, sure |-> lookup.sure]
    /\ lookup.merged \in Seq(Announced) /\ IsInjective(lookup.merged)
    /\ \A i \in DOMAIN lookup.merged : ShardOf[lookup.merged[i].node] = lookup.key
    /\ lookup.paths \subseteq lookup.asked /\ lookup.failed \subseteq lookup.asked
    /\ lookup.paths # {} \/ lookup.sure => lookup.key \in ShardKey
    /\ lookup.sure => life[lookup.key] > 0
    /\ lookup.sure /\ lookup.merged = <<>> => lookup.asked \subseteq lookup.paths \union lookup.failed

\* A node that starts puts its announcement under its shard's key.
LEMMA StartLives ==
    ASSUME Living, LookingUp, NEW n \in Announcer, Start(n)
    PROVE  Living' /\ LookingUp'
<1> DEFINE k == ShardOf[n]
           v == [node |-> n, at |-> starts]
<1>1. k \in ShardKey
    BY DEF ShardKey
<1>2. v \in Announced /\ ShardOf[v.node] = k
    BY DEF Living, Announced
<1>3. stored' = [stored EXCEPT ![k] = v] /\ life' = [life EXCEPT ![k] = Life]
      /\ starts' = starts + 1 /\ lookup' = lookup
    BY DEF Start, Announce
<1>4. Life \in Nat /\ Life > 0
    BY DiscoveryAssumption
<1> HIDE DEF k, v
<1>5. \A s \in ShardKey : /\ stored'[s] = IF s = k THEN v ELSE stored[s]
                          /\ life'[s] = IF s = k THEN Life ELSE life[s]
    BY <1>3 DEF Living
<1>6. stored' = [s \in ShardKey |-> stored'[s]] /\ life' \in [ShardKey -> Nat]
    BY <1>3, <1>4 DEF Living
<1>7. Living'
    BY <1>1, <1>2, <1>3, <1>4, <1>5, <1>6 DEF Living
<1>8. LookingUp'
    BY <1>3, <1>4, <1>5 DEF LookingUp
<1> QED BY <1>7, <1>8

\* Values expire, and a lookup that saw one expire is no longer sure.
LEMMA TickLives ==
    ASSUME Living, LookingUp, DiscoveryTick
    PROVE  Living' /\ LookingUp'
<1>1. /\ life' = [s \in ShardKey |-> IF life[s] = 0 THEN 0 ELSE life[s] - 1]
      /\ stored' = stored /\ starts' = starts
    BY DEF DiscoveryTick
<1>2. \A s \in ShardKey : /\ life[s] \in Nat /\ life'[s] \in Nat
                          /\ life'[s] > 0 => life[s] > 0
                          /\ life[s] > 1 => life'[s] > 0
    BY <1>1 DEF Living
<1>3. life' \in [ShardKey -> Nat]
    BY <1>1, <1>2
<1>4. Living'
    BY <1>1, <1>2, <1>3 DEF Living
<1> DEFINE still == lookup.sure /\ life[lookup.key] > 1
<1>5. lookup' = [lookup EXCEPT !.sure = still]
    BY DEF DiscoveryTick
<1>6. still => lookup.sure /\ lookup.key \in ShardKey /\ life'[lookup.key] > 0
    BY <1>2 DEF LookingUp
<1> HIDE DEF still
<1>7. lookup' = [key |-> lookup.key, paths |-> lookup.paths, merged |-> lookup.merged,
                 failed |-> lookup.failed, asked |-> lookup.asked, sure |-> still]
    BY <1>5 DEF LookingUp
<1>8. LookingUp'
    BY <1>6, <1>7 DEF LookingUp
<1> QED BY <1>4, <1>8

\* A path returns what lives under the key.
LEMMA PathLives ==
    ASSUME Living, LookingUp, NEW p, GetPath(p)
    PROVE  LookingUp'
<1> DEFINE k == lookup.key
           m == lookup.merged
           v == stored[k]
           n == IF Found(k) THEN Merge(m, v) ELSE m
           q == lookup.paths \ {p}
<1>1. p \in lookup.paths /\ k \in ShardKey /\ life' = life
    BY DEF GetPath, LookingUp
<1>2. m \in Seq(Announced) /\ IsInjective(m)
      /\ \A i \in DOMAIN m : ShardOf[m[i].node] = k
    BY DEF LookingUp
<1>3. lookup' = [lookup EXCEPT !.paths = q, !.merged = n]
    BY DEF GetPath
<1> DEFINE Good == /\ n \in Seq(Announced) /\ IsInjective(n)
                   /\ \A i \in DOMAIN n : ShardOf[n[i].node] = k
                   /\ lookup.sure => n # <<>>
<1>4. ASSUME Found(k) PROVE Good
    <2>1. v \in Announced /\ ShardOf[v.node] = k
        BY <1>1, <1>4 DEF Found, Living
    <2>2. n = Merge(m, v)
        BY <1>4
    <2> HIDE DEF n, m, v
    <2>3. CASE v \in ToSet(m)
        <3>1. Contains(m, v)
            BY <1>2, <2>3 DEF Contains, ToSet
        <3>2. n = m /\ m # <<>>
            BY <2>2, <2>3, <3>1 DEF Merge, ToSet
        <3> QED BY <1>2, <3>2
    <2>4. CASE v \notin ToSet(m)
        <3>1. ~ Contains(m, v)
            BY <1>2, <2>4 DEF Contains, ToSet
        <3>2. n = Append(m, v)
            BY <2>2, <3>1 DEF Merge
        <3>3. IsInjective(n)
            BY <1>2, <2>1, <2>4, <3>2, AppendKeeps
        <3>4. /\ n \in Seq(Announced) /\ n # <<>> /\ Len(m) \in Nat
              /\ DOMAIN n = 1 .. Len(m) + 1 /\ DOMAIN m = 1 .. Len(m)
              /\ \A i \in 1 .. Len(m) : n[i] = m[i]
              /\ n[Len(m) + 1] = v
            BY <1>2, <2>1, <3>2
        <3>5. \A i \in 1 .. Len(m) + 1 : i \in 1 .. Len(m) \/ i = Len(m) + 1
            BY <3>4
        <3>6. \A i \in DOMAIN n : ShardOf[n[i].node] = k
            BY <1>2, <2>1, <3>4, <3>5
        <3> QED BY <3>3, <3>4, <3>6
    <2> QED BY <2>3, <2>4
<1>5. ASSUME ~ Found(k) PROVE Good
    <2>1. n = m /\ ~ lookup.sure
        BY <1>5 DEF Found, LookingUp
    <2> QED BY <1>2, <2>1
<1>6. /\ n \in Seq(Announced) /\ IsInjective(n)
      /\ \A i \in DOMAIN n : ShardOf[n[i].node] = k
      /\ lookup.sure => n # <<>>
    <2> HIDE DEF n
    <2> QED BY <1>4, <1>5
<1> HIDE DEF n, q, m, Good
<1>7. lookup' = [key |-> lookup.key, paths |-> q, merged |-> n,
                 failed |-> lookup.failed, asked |-> lookup.asked, sure |-> lookup.sure]
    BY <1>3 DEF LookingUp
<1>8. q \subseteq lookup.asked
    BY DEF q, LookingUp
<1> QED BY <1>1, <1>6, <1>7, <1>8 DEF LookingUp

\* Lookups find who is announced, and no announcement twice, however many nodes start
\* and stop while their paths return one after the other.
THEOREM LookupsAlwaysFind == DiscoverySpec => []LookupsFind
<1>1. DiscoveryInit => Living /\ LookingUp
    <2> SUFFICES ASSUME DiscoveryInit PROVE Living /\ LookingUp
        OBVIOUS
    <2>1. Living
        <3>1. stored = [s \in ShardKey |-> [node |-> "", at |-> 0]] /\ starts = 0
              /\ life = [s \in ShardKey |-> 0]
            BY DEF DiscoveryInit
        <3>2. \A s \in ShardKey : ~ (life[s] > 0)
            <4>1. \A s \in ShardKey : life[s] = 0
                BY <3>1
            <4> QED BY <4>1
        <3>3. stored = [s \in ShardKey |-> stored[s]] /\ life \in [ShardKey -> Nat] /\ starts \in Nat
            BY <3>1
        <3> QED BY <3>2, <3>3 DEF Living
    <2>2. lookup.merged = <<>> /\ lookup.paths = {} /\ lookup.failed = {} /\ lookup.asked = {}
          /\ lookup.sure = FALSE /\ lookup = [key |-> lookup.key, paths |-> {}, merged |-> <<>>,
                                             failed |-> {}, asked |-> {}, sure |-> FALSE]
        BY DEF DiscoveryInit, NoLookup
    <2>3. <<>> \in Seq(Announced) /\ DOMAIN <<>> = {}
        OBVIOUS
    <2> QED BY <2>1, <2>2, <2>3 DEF LookingUp, IsInjective
<1>2. Living /\ LookingUp /\ [DiscoveryNext]_discoveryVars => (Living /\ LookingUp)'
    <2> SUFFICES ASSUME Living, LookingUp, [DiscoveryNext]_discoveryVars
                 PROVE  Living' /\ LookingUp'
        OBVIOUS
    <2>1. ASSUME NEW n \in Announcer, Start(n) PROVE Living' /\ LookingUp'
        BY <2>1, StartLives
    <2>2. ASSUME NEW n \in Announcer, Stop(n) PROVE Living' /\ LookingUp'
        BY <2>2 DEF Stop, Living, LookingUp
    <2>3. CASE DiscoveryTick
        BY <2>3, TickLives
    <2>4. ASSUME NEW s \in ShardKey, NEW paths, BeginLookup(s, paths)
          PROVE  Living' /\ LookingUp'
        <3>1. stored' = stored /\ life' = life /\ starts' = starts
            BY <2>4 DEF BeginLookup
        <3>2. Living'
            BY <3>1 DEF Living
        <3>3. lookup' = [key |-> s, paths |-> paths, merged |-> <<>>, failed |-> {},
                         asked |-> paths, sure |-> life[s] > 0]
            BY <2>4 DEF BeginLookup
        <3>4. <<>> \in Seq(Announced) /\ DOMAIN <<>> = {}
            OBVIOUS
        <3>5. LookingUp'
            BY <3>1, <3>3, <3>4 DEF LookingUp, IsInjective
        <3> QED BY <3>2, <3>5
    <2>5. ASSUME NEW p, GetPath(p) PROVE Living' /\ LookingUp'
        <3>1. LookingUp'
            BY <2>5, PathLives
        <3>2. Living'
            BY <2>5 DEF GetPath, Living
        <3> QED BY <3>1, <3>2
    <2>6. ASSUME NEW p, PathFails(p) PROVE Living' /\ LookingUp'
        <3>1. stored' = stored /\ life' = life /\ starts' = starts
            BY <2>6 DEF PathFails
        <3>2. Living'
            BY <3>1 DEF Living
        <3> DEFINE q == lookup.paths \ {p}
                   f == lookup.failed \union {p}
        <3>3. lookup' = [lookup EXCEPT !.paths = q, !.failed = f] /\ p \in lookup.paths
            BY <2>6 DEF PathFails
        <3>4. q \subseteq lookup.asked /\ f \subseteq lookup.asked /\ q \union f = lookup.paths \union lookup.failed
              /\ lookup.paths # {}
            BY <3>3 DEF LookingUp
        <3> HIDE DEF q, f
        <3>5. lookup' = [key |-> lookup.key, paths |-> q, merged |-> lookup.merged,
                         failed |-> f, asked |-> lookup.asked, sure |-> lookup.sure]
            BY <3>3 DEF LookingUp
        <3>6. LookingUp'
            BY <3>1, <3>4, <3>5 DEF LookingUp
        <3> QED BY <3>2, <3>6
    <2>7. CASE UNCHANGED discoveryVars
        BY <2>7 DEF discoveryVars, Living, LookingUp
    <2> QED BY <2>1, <2>2, <2>3, <2>4, <2>5, <2>6, <2>7 DEF DiscoveryNext
<1>3. LookingUp => LookupsFind
    BY DEF LookingUp, LookupsFind, IsInjective
<1> QED BY <1>1, <1>2, <1>3, PTL DEF DiscoverySpec

-----------------------------------------------------------------------------
(* Floods of gossip.  The calls that are still to be made carry the hops that the    *)
(* way they came has left them, and that way is no longer than the number of nodes   *)
(* that have accepted; so when there are as many hops as nodes, a peer of a node that *)
(* has accepted has accepted too or is still to be called with a hop left.           *)

Deliveries == [to : Gossiper, from : Gossiper, ttl : Nat]

\* Within, of the peers p.
Near(p, s, d) ==
    {n \in Gossiper : \E k \in 0 .. d : \E q \in [0 .. k -> Gossiper] :
                          q[0] \in s /\ q[k] = n /\ \A i \in 1 .. k : q[i] \in p[q[i - 1]]}

Full(p) == \A n \in Gossiper : Cardinality(p[n]) <= Fanout

\* Who has accepted (a), or is still to be called (f) with a hop left.
Covered(x, a, f) == x \in a \/ \E c \in f : c.to = x /\ c.ttl >= 1

Underway(p, o, h, a, f) ==
    \A c \in f :
        /\ c \in Deliveries /\ c.ttl <= h
        /\ c.to \in Near(p, {o}, h - c.ttl)
        /\ h - c.ttl <= Cardinality(a)
        /\ c.from = c.to \/ c.from \in a

Reached(p, o, h, a) ==
    a \subseteq Near(p, {o}, h - 1) /\ a \subseteq Near(p, {o}, Cardinality(Gossiper))

Starting(o, h, a, f) == o \notin a => a = {} /\ \A c \in f : c.to = o /\ c.ttl = h

Promised(p, o, h, a, f) ==
    /\ h >= 1 => Covered(o, a, f)
    /\ h >= Cardinality(Gossiper) => \A n \in a : \A x \in p[n] : Covered(x, a, f)
    /\ h >= 2 /\ o \in a => \A x \in p[o] : Covered(x, a, f)

Flood(p, o, h, a, f) ==
    /\ a \in SUBSET Gossiper
    /\ Underway(p, o, h, a, f) /\ Reached(p, o, h, a) /\ Starting(o, h, a, f)
    /\ Full(p) => Promised(p, o, h, a, f)

\* A node is at no distance from itself, whatever the bound.
LEMMA NearStart ==
    ASSUME NEW p, NEW o \in Gossiper, NEW d \in Nat
    PROVE  o \in Near(p, {o}, d)
<1> DEFINE q == [i \in 0 .. 0 |-> o]
<1>1. 0 \in 0 .. d /\ q \in [0 .. 0 -> Gossiper] /\ q[0] \in {o} /\ q[0] = o
      /\ \A i \in 1 .. 0 : q[i] \in p[q[i - 1]]
    OBVIOUS
<1> QED BY <1>1 DEF Near

\* A peer is one hop farther.
LEMMA NearStep ==
    ASSUME NEW p, NEW S, NEW d \in Nat, NEW n \in Near(p, S, d), NEW x \in p[n], x \in Gossiper
    PROVE  x \in Near(p, S, d + 1)
<1>1. PICK k \in 0 .. d : \E q \in [0 .. k -> Gossiper] :
                q[0] \in S /\ q[k] = n /\ \A i \in 1 .. k : q[i] \in p[q[i - 1]]
    BY DEF Near
<1>2. PICK q \in [0 .. k -> Gossiper] :
                q[0] \in S /\ q[k] = n /\ \A i \in 1 .. k : q[i] \in p[q[i - 1]]
    BY <1>1
<1> DEFINE w == [i \in 0 .. k + 1 |-> IF i = k + 1 THEN x ELSE q[i]]
<1>3. k + 1 \in 0 .. d + 1 /\ w \in [0 .. k + 1 -> Gossiper]
    OBVIOUS
<1>4. w[0] \in S /\ w[k + 1] = x
    BY <1>2
<1>5. ASSUME NEW i \in 1 .. k + 1 PROVE w[i] \in p[w[i - 1]]
    <2>1. w[i - 1] = q[i - 1]
        OBVIOUS
    <2>2. CASE i = k + 1
        BY <1>2, <2>1, <2>2
    <2>3. CASE i # k + 1
        <3>1. i \in 1 .. k /\ w[i] = q[i]
            BY <2>3
        <3> QED BY <1>2, <2>1, <3>1
    <2> QED BY <2>2, <2>3
<1> HIDE DEF w
<1> QED BY <1>3, <1>4, <1>5 DEF Near

\* What is near stays near when the bound is higher.
LEMMA NearGrows ==
    ASSUME NEW p, NEW S, NEW d \in Int, NEW e \in Int, d <= e
    PROVE  Near(p, S, d) \subseteq Near(p, S, e)
<1>1. 0 .. d \subseteq 0 .. e
    OBVIOUS
<1> QED BY <1>1 DEF Near

\* No path leads out of a set that has the peers of its members.
LEMMA NearClosed ==
    ASSUME NEW p, NEW o, NEW d \in Int, NEW T, o \in T, \A n \in T : p[n] \subseteq T
    PROVE  Near(p, {o}, d) \subseteq T
<1> SUFFICES ASSUME NEW n \in Near(p, {o}, d) PROVE n \in T
    OBVIOUS
<1>1. PICK k \in 0 .. d : \E q \in [0 .. k -> Gossiper] :
                q[0] \in {o} /\ q[k] = n /\ \A i \in 1 .. k : q[i] \in p[q[i - 1]]
    BY DEF Near
<1>2. PICK q \in [0 .. k -> Gossiper] :
                q[0] \in {o} /\ q[k] = n /\ \A i \in 1 .. k : q[i] \in p[q[i - 1]]
    BY <1>1
<1> DEFINE G == {i \in 0 .. k : q[i] \in T}
<1>3. k \in Nat /\ G \in SUBSET (0 .. k) /\ 0 \in G
    BY <1>2
<1>4. ASSUME NEW i \in 1 .. k, i - 1 \in G PROVE i \in G
    BY <1>2, <1>4
<1>5. \A i \in 0 .. k : i \in G
    <2> HIDE DEF G
    <2> QED BY <1>3, <1>4, UpTo
<1> QED BY <1>2, <1>3, <1>5

\* One hop leads to the peers.
LEMMA NearOne ==
    ASSUME NEW p, NEW o
    PROVE  Near(p, {o}, 1) \subseteq {o} \union p[o]
<1> SUFFICES ASSUME NEW n \in Near(p, {o}, 1) PROVE n \in {o} \union p[o]
    OBVIOUS
<1>1. PICK k \in 0 .. 1 : \E q \in [0 .. k -> Gossiper] :
                q[0] \in {o} /\ q[k] = n /\ \A i \in 1 .. k : q[i] \in p[q[i - 1]]
    BY DEF Near
<1>2. PICK q \in [0 .. k -> Gossiper] :
                q[0] \in {o} /\ q[k] = n /\ \A i \in 1 .. k : q[i] \in p[q[i - 1]]
    BY <1>1
<1>3. CASE k = 0
    BY <1>2, <1>3
<1>4. CASE k = 1
    <2>1. q[1] \in p[q[1 - 1]] /\ 1 - 1 = 0
        BY <1>2, <1>4
    <2> QED BY <1>2, <1>4, <2>1
<1> QED BY <1>3, <1>4

\* A call that is ignored is not one that anybody waits for.
LEMMA IgnoreFloods ==
    ASSUME NEW p, NEW o, NEW h, NEW a, NEW r, NEW c,
           Flood(p, o, h, a, {c} \union r), c.to \in a \/ c.ttl = 0
    PROVE  Flood(p, o, h, a, r)
<1>1. ASSUME NEW x, Covered(x, a, {c} \union r) PROVE Covered(x, a, r)
    BY <1>1 DEF Covered
<1>2. Full(p) => Promised(p, o, h, a, r)
    BY <1>1 DEF Flood, Promised
<1>3. Underway(p, o, h, a, r) /\ Starting(o, h, a, r)
    BY DEF Flood, Underway, Starting
<1> QED BY <1>2, <1>3 DEF Flood

\* A node that accepts calls peers of its own, all but the one it heard from when
\* they are no more than the fanout.
LEMMA AcceptFloods ==
    ASSUME NEW p \in [Gossiper -> SUBSET Gossiper], NEW o \in Gossiper, NEW h \in Nat,
           NEW a, NEW r, NEW c, NEW X, NEW b, NEW f,
           Flood(p, o, h, a, {c} \union r), c.to \notin a, c.ttl > 0,
           X \subseteq p[c.to], Full(p) => X = p[c.to] \ {c.from},
           b = a \union {c.to},
           f = {Delivery(x, c.to, c.ttl - 1) : x \in X} \union r
    PROVE  Flood(p, o, h, b, f)
<1> USE GossipAssumption
<1>1. a \in SUBSET Gossiper /\ c \in Deliveries /\ c.ttl <= h /\ c.to \in Near(p, {o}, h - c.ttl)
      /\ h - c.ttl <= Cardinality(a) /\ (c.from = c.to \/ c.from \in a)
    BY DEF Flood, Underway
<1>2. c.to \in Gossiper /\ c.from \in Gossiper /\ c.ttl \in Nat
    BY <1>1 DEF Deliveries
<1>3. /\ b \in SUBSET Gossiper /\ Cardinality(a) \in Nat /\ Cardinality(b) = Cardinality(a) + 1
      /\ Cardinality(b) <= Cardinality(Gossiper) /\ Cardinality(Gossiper) \in Nat
      /\ Cardinality(b) = Cardinality(Gossiper) => b = Gossiper
    <2>1. b \in SUBSET Gossiper
        BY <1>1, <1>2
    <2>2. IsFiniteSet(a)
        BY <1>1, FS_Subset
    <2>3. Cardinality(b) = Cardinality(a) + 1
        BY <2>2, FS_AddElement
    <2>4. Cardinality(b) <= Cardinality(Gossiper) /\ (Cardinality(b) = Cardinality(Gossiper) => b = Gossiper)
        BY <2>1, FS_Subset
    <2> QED BY <2>1, <2>2, <2>3, <2>4, FS_CardinalityType
<1> DEFINE new == {Delivery(x, c.to, c.ttl - 1) : x \in X}
<1>4. ASSUME NEW d \in new
      PROVE  /\ d \in Deliveries /\ d.ttl = c.ttl - 1 /\ d.from = c.to /\ d.to \in p[c.to]
    BY <1>2 DEF Delivery, Deliveries
<1>5. ASSUME NEW x \in X, c.ttl - 1 >= 1 PROVE Covered(x, b, f)
    <2>1. Delivery(x, c.to, c.ttl - 1) \in f
        OBVIOUS
    <2>2. Delivery(x, c.to, c.ttl - 1).to = x /\ Delivery(x, c.to, c.ttl - 1).ttl >= 1
        BY <1>5 DEF Delivery
    <2> QED BY <2>1, <2>2 DEF Covered
<1>6. f = new \union r
    OBVIOUS
<1> HIDE DEF new
<1>7. Underway(p, o, h, b, f)
    <2>1. ASSUME NEW d \in new
          PROVE  /\ d \in Deliveries /\ d.ttl <= h
                 /\ d.to \in Near(p, {o}, h - d.ttl)
                 /\ h - d.ttl <= Cardinality(b)
                 /\ d.from = d.to \/ d.from \in b
        <3>1. h - d.ttl = (h - c.ttl) + 1 /\ h - c.ttl \in Nat
            BY <1>1, <1>2, <1>4
        <3>2. d.to \in Near(p, {o}, (h - c.ttl) + 1)
            BY <1>1, <1>2, <1>4, <3>1, NearStep
        <3> QED BY <1>1, <1>2, <1>3, <1>4, <3>1, <3>2
    <2>2. ASSUME NEW d \in r
          PROVE  /\ d \in Deliveries /\ d.ttl <= h
                 /\ d.to \in Near(p, {o}, h - d.ttl)
                 /\ h - d.ttl <= Cardinality(b)
                 /\ d.from = d.to \/ d.from \in b
        <3>1. /\ d \in Deliveries /\ d.ttl <= h
              /\ d.to \in Near(p, {o}, h - d.ttl)
              /\ h - d.ttl <= Cardinality(a)
              /\ d.from = d.to \/ d.from \in a
            BY DEF Flood, Underway
        <3>2. d.ttl \in Nat
            BY <3>1 DEF Deliveries
        <3> QED BY <1>3, <3>1, <3>2
    <2> QED BY <1>6, <2>1, <2>2 DEF Underway
<1>8. Reached(p, o, h, b)
    <2>1. Near(p, {o}, h - c.ttl) \subseteq Near(p, {o}, h - 1)
        BY <1>1, <1>2, NearGrows
    <2>2. Near(p, {o}, h - c.ttl) \subseteq Near(p, {o}, Cardinality(Gossiper))
        BY <1>1, <1>2, <1>3, NearGrows
    <2>3. Reached(p, o, h, a)
        BY DEF Flood
    <2> QED BY <1>1, <2>1, <2>2, <2>3 DEF Reached
<1>9. /\ o \in b /\ Starting(o, h, b, f)
      /\ c.to # o => o \in a
      /\ c.to = o => c.ttl = h
    <2>1. Starting(o, h, a, {c} \union r)
        BY DEF Flood
    <2> QED BY <2>1 DEF Starting
<1>10. ASSUME NEW x, Covered(x, a, {c} \union r) PROVE Covered(x, b, f)
    BY <1>6, <1>10 DEF Covered
<1>11. ASSUME Full(p) PROVE Promised(p, o, h, b, f)
    <2>1. Promised(p, o, h, a, {c} \union r) /\ X = p[c.to] \ {c.from}
        BY <1>11 DEF Flood
    <2>2. Covered(o, b, f)
        BY <1>9 DEF Covered
    <2>3. ASSUME NEW x \in p[c.to], x \notin X PROVE Covered(x, b, f)
        BY <1>1, <2>1, <2>3 DEF Covered
    <2>4. ASSUME h >= Cardinality(Gossiper), NEW n \in b, NEW x \in p[n] PROVE Covered(x, b, f)
        <3>1. CASE n \in a
            BY <1>10, <2>1, <2>4, <3>1 DEF Promised
        <3>2. CASE n = c.to /\ b = Gossiper
            BY <1>2, <3>2 DEF Covered
        <3>3. CASE n = c.to /\ b # Gossiper
            <4>1. c.ttl - 1 >= 1
                BY <1>1, <1>2, <1>3, <2>4, <3>3
            <4> QED BY <1>5, <2>3, <3>3, <4>1
        <3> QED BY <3>1, <3>2, <3>3
    <2>5. ASSUME h >= 2, NEW x \in p[o] PROVE Covered(x, b, f)
        <3>1. CASE c.to # o
            BY <1>9, <1>10, <2>1, <2>5, <3>1 DEF Promised
        <3>2. CASE c.to = o
            <4>1. c.ttl - 1 >= 1
                BY <1>9, <2>5, <3>2
            <4> QED BY <1>5, <2>3, <3>2, <4>1
        <3> QED BY <3>1, <3>2
    <2> QED BY <2>2, <2>4, <2>5 DEF Promised
<1> QED BY <1>3, <1>7, <1>8, <1>9, <1>11 DEF Flood

\* A node with no more peers than the fanout forwards to all but the one it heard
\* from; no node forwards to others than its peers.
LEMMA SamplesAll ==
    ASSUME peers \in [Gossiper -> SUBSET Gossiper], NEW n \in Gossiper, NEW m, NEW q \in Samples(n, m)
    PROVE  /\ q \in Seq(Gossiper) /\ ToSet(q) \subseteq peers[n]
           /\ Full(peers) => ToSet(q) = peers[n] \ {m}
<1> USE GossipAssumption
<1> DEFINE S == peers[n] \ {m}
           size == IF Cardinality(S) < Fanout THEN Cardinality(S) ELSE Fanout
<1>1. IsFiniteSet(peers[n]) /\ IsFiniteSet(S) /\ Cardinality(S) <= Cardinality(peers[n])
      /\ Cardinality(S) \in Nat /\ Cardinality(peers[n]) \in Nat
    <2>1. peers[n] \in SUBSET Gossiper /\ S \in SUBSET peers[n]
        OBVIOUS
    <2>2. IsFiniteSet(peers[n])
        BY <2>1, FS_Subset
    <2> HIDE DEF S
    <2> QED BY <2>1, <2>2, FS_Subset, FS_CardinalityType
<1>2. PICK s \in SUBSET S : q \in SetToSeqs(s) /\ Len(q) = size
    BY DEF Samples
<1>3. q \in [1 .. Cardinality(s) -> s] /\ \A i, j \in 1 .. Cardinality(s) : i # j => q[i] # q[j]
    BY <1>2 DEF SetToSeqs
<1>4. IsFiniteSet(s) /\ Cardinality(s) \in Nat /\ (Cardinality(s) = Cardinality(S) => s = S)
    <2> HIDE DEF S
    <2> QED BY <1>1, FS_Subset, FS_CardinalityType
<1>5. q \in Seq(s) /\ Len(q) = Cardinality(s) /\ DOMAIN q = 1 .. Cardinality(s)
    BY <1>3, <1>4
<1>6. q \in Seq(Gossiper) /\ ToSet(q) \subseteq s
    BY <1>3, <1>5 DEF ToSet
<1>7. s \subseteq ToSet(q)
    <2> DEFINE D == 1 .. Cardinality(s)
    <2>1. IsFiniteSet(D) /\ Cardinality(D) = Cardinality(s)
        <3>1. IsFiniteSet(1 .. Cardinality(s))
              /\ Cardinality(1 .. Cardinality(s)) = IF 1 > Cardinality(s) THEN 0 ELSE Cardinality(s) - 1 + 1
            BY <1>4, FS_Interval
        <3> QED BY <1>4, <3>1
    <2>2. q \in Injection(D, s)
        BY <1>3 DEF Injection, IsInjective
    <2>3. q \in Surjection(D, s)
        <3> HIDE DEF D
        <3> QED BY <1>4, <2>1, <2>2, FS_Injection
    <2> QED BY <1>5, <2>3 DEF Surjection, ToSet
<1>8. ASSUME Full(peers) PROVE s = S
    <2>1. Cardinality(peers[n]) <= Fanout
        BY <1>8 DEF Full
    <2>2. size = Cardinality(S)
        BY <1>1, <2>1
    <2> QED BY <1>2, <1>4, <1>5, <2>2
<1> QED BY <1>2, <1>6, <1>7, <1>8

Gossiping ==
    /\ peers \in [Gossiper -> SUBSET Gossiper] /\ hops \in Nat
    /\ inbox \in [Gossiper -> Nat] /\ forwards \in Seq(Deliveries)
    /\ forwards # <<>> => origin # {}
    /\ origin # {} =>
          /\ \E o \in Gossiper : origin = {o} /\ Flood(peers, o, hops, seen, ToSet(forwards))
          /\ \A n \in Gossiper : inbox[n] = IF n \in seen THEN 1 ELSE 0

\* The first call is put at the head of the list, and the others follow.
LEMMA HeadAndTail ==
    ASSUME NEW S, NEW w \in Seq(S), w # <<>>
    PROVE  /\ ToSet(w) = {Head(w)} \union ToSet(Tail(w))
           /\ Head(w) \in S /\ Tail(w) \in Seq(S)
<1>1. Len(w) \in Nat /\ Len(w) >= 1 /\ DOMAIN w = 1 .. Len(w) /\ Head(w) = w[1]
    OBVIOUS
<1>2. Tail(w) \in Seq(S) /\ DOMAIN Tail(w) = 1 .. Len(w) - 1
      /\ \A i \in 1 .. Len(w) - 1 : Tail(w)[i] = w[i + 1]
    BY <1>1
<1>3. ToSet(w) \subseteq {Head(w)} \union ToSet(Tail(w))
    <2>1. ASSUME NEW i \in 1 .. Len(w), i # 1 PROVE w[i] \in ToSet(Tail(w))
        <3>1. i - 1 \in 1 .. Len(w) - 1 /\ (i - 1) + 1 = i
            BY <1>1, <2>1
        <3>2. Tail(w)[i - 1] = w[i]
            BY <1>2, <3>1
        <3> QED BY <1>2, <3>1, <3>2 DEF ToSet
    <2> QED BY <1>1, <2>1 DEF ToSet
<1>4. {Head(w)} \union ToSet(Tail(w)) \subseteq ToSet(w)
    <2>1. ASSUME NEW i \in 1 .. Len(w) - 1 PROVE Tail(w)[i] \in ToSet(w)
        <3>1. i + 1 \in 1 .. Len(w)
            BY <1>1
        <3> QED BY <1>1, <1>2, <3>1 DEF ToSet
    <2>2. Head(w) \in ToSet(w)
        BY <1>1 DEF ToSet
    <2> QED BY <1>2, <2>1, <2>2 DEF ToSet
<1>5. Head(w) \in S
    BY <1>1
<1> QED BY <1>2, <1>3, <1>4, <1>5

\* What is in two sequences is in the longer one.
LEMMA JoinedElements ==
    ASSUME NEW S, NEW u \in Seq(S), NEW v \in Seq(S)
    PROVE  u \o v \in Seq(S) /\ ToSet(u \o v) = ToSet(u) \union ToSet(v)
<1>1. Range(u \o v) = Range(u) \union Range(v)
    BY RangeConcatenation
<1>2. u \o v \in Seq(S)
    OBVIOUS
<1> QED BY <1>1, <1>2 DEF ToSet, Range

\* receive of a node that accepts.
LEMMA AcceptGossips ==
    ASSUME Gossiping, Accept
    PROVE  Gossiping'
<1> DEFINE c == Head(forwards)
<1>1. /\ forwards # <<>> /\ c.to \notin seen /\ c.ttl > 0
      /\ seen' = seen \union {c.to} /\ inbox' = [inbox EXCEPT ![c.to] = @ + 1]
      /\ peers' = peers /\ origin' = origin /\ hops' = hops
    BY DEF Accept
<1>2. PICK q \in Samples(c.to, c.from) :
          forwards' = [i \in DOMAIN q |-> Delivery(q[i], c.to, c.ttl - 1)] \o Tail(forwards)
    BY DEF Accept
<1>3. ToSet(forwards) = {c} \union ToSet(Tail(forwards)) /\ c \in Deliveries /\ Tail(forwards) \in Seq(Deliveries)
    BY <1>1, HeadAndTail DEF Gossiping
<1>4. PICK o \in Gossiper : origin = {o} /\ Flood(peers, o, hops, seen, ToSet(forwards))
    BY <1>1 DEF Gossiping
<1>5. c.to \in Gossiper /\ c.from \in Gossiper /\ c.ttl \in Nat
    BY <1>3 DEF Deliveries
<1> HIDE DEF c
<1>6. q \in Seq(Gossiper) /\ ToSet(q) \subseteq peers[c.to]
      /\ (Full(peers) => ToSet(q) = peers[c.to] \ {c.from})
    BY <1>5, SamplesAll DEF Gossiping
<1> DEFINE w == [i \in DOMAIN q |-> Delivery(q[i], c.to, c.ttl - 1)]
<1>7. w \in Seq(Deliveries) /\ ToSet(w) = {Delivery(x, c.to, c.ttl - 1) : x \in ToSet(q)}
    <2>1. DOMAIN q = 1 .. Len(q) /\ Len(q) \in Nat /\ \A i \in DOMAIN q : q[i] \in Gossiper
        BY <1>6
    <2>2. \A i \in DOMAIN q : Delivery(q[i], c.to, c.ttl - 1) \in Deliveries
        BY <1>1, <1>5, <2>1 DEF Delivery, Deliveries
    <2> QED BY <2>1, <2>2 DEF ToSet
<1> HIDE DEF w
<1>8. w \o Tail(forwards) \in Seq(Deliveries) /\ ToSet(w \o Tail(forwards)) = ToSet(w) \union ToSet(Tail(forwards))
    <2>1. \A u, v \in Seq(Deliveries) : u \o v \in Seq(Deliveries) /\ ToSet(u \o v) = ToSet(u) \union ToSet(v)
        BY JoinedElements
    <2> QED BY <1>3, <1>7, <2>1
<1>9. forwards' = w \o Tail(forwards)
    BY <1>2 DEF w
<1>10. Flood(peers, o, hops, seen \union {c.to}, ToSet(w) \union ToSet(Tail(forwards)))
    <2>1. Flood(peers, o, hops, seen, {c} \union ToSet(Tail(forwards)))
        BY <1>3, <1>4
    <2>2. peers \in [Gossiper -> SUBSET Gossiper] /\ hops \in Nat
        BY DEF Gossiping
    <2> DEFINE X == ToSet(q)
               r == ToSet(Tail(forwards))
               b == seen \union {c.to}
               f == {Delivery(x, c.to, c.ttl - 1) : x \in X} \union r
    <2>3. X \subseteq peers[c.to] /\ (Full(peers) => X = peers[c.to] \ {c.from})
          /\ c.to \notin seen /\ c.ttl > 0 /\ Flood(peers, o, hops, seen, {c} \union r)
        BY <1>1, <1>6, <2>1
    <2>4. \A y, z : y = seen \union {c.to} /\ z = {Delivery(x, c.to, c.ttl - 1) : x \in X} \union r
                        => Flood(peers, o, hops, y, z)
        <3> HIDE DEF X, r
        <3> QED BY <2>2, <2>3, AcceptFloods
    <2>5. Flood(peers, o, hops, b, f)
        BY <2>4
    <2> QED BY <1>7, <2>5
<1>11. \E z \in Gossiper : origin' = {z} /\ Flood(peers', z, hops', seen', ToSet(forwards'))
    BY <1>1, <1>4, <1>8, <1>9, <1>10
<1>12. inbox' \in [Gossiper -> Nat] /\ \A n \in Gossiper : inbox'[n] = IF n \in seen' THEN 1 ELSE 0
    <2>1. inbox \in [Gossiper -> Nat] /\ \A n \in Gossiper : inbox[n] = IF n \in seen THEN 1 ELSE 0
        BY <1>4 DEF Gossiping
    <2> QED BY <1>1, <1>5, <2>1
<1>13. peers' \in [Gossiper -> SUBSET Gossiper] /\ hops' \in Nat /\ forwards' \in Seq(Deliveries) /\ origin' # {}
    BY <1>1, <1>4, <1>8, <1>9 DEF Gossiping
<1> QED BY <1>11, <1>12, <1>13 DEF Gossiping

\* A flood that has ended has reached what it promises.
LEMMA FloodEnds ==
    ASSUME Gossiping, forwards = <<>>, origin # {}
    PROVE  FloodReachesAll
<1> USE GossipAssumption
<1>1. PICK o \in Gossiper : origin = {o} /\ Flood(peers, o, hops, seen, ToSet(forwards))
    BY DEF Gossiping
<1>2. ToSet(forwards) = {}
    BY DEF ToSet
<1>3. \A d : Within(origin, d) = Near(peers, {o}, d)
    BY <1>1 DEF Within, Near, Leads
<1>4. Reached(peers, o, hops, seen) /\ (Full(peers) => Promised(peers, o, hops, seen, {}))
      /\ seen \in SUBSET Gossiper
    BY <1>1, <1>2 DEF Flood
<1>5. Cardinality(Gossiper) \in Nat /\ Cardinality(Gossiper) >= 1 /\ hops \in Nat
    <2>1. Cardinality(Gossiper) # 0
        BY FS_EmptySet
    <2> QED BY <2>1, FS_CardinalityType DEF Gossiping
<1>6. ASSUME Full(peers), hops >= 1 PROVE o \in seen
    BY <1>4, <1>6 DEF Promised, Covered
<1>7. ASSUME Full(peers), hops >= Cardinality(Gossiper) PROVE seen = Within(origin, Cardinality(Gossiper))
    <2>1. o \in seen
        BY <1>5, <1>6, <1>7
    <2>2. \A n \in seen : peers[n] \subseteq seen
        BY <1>4, <1>7 DEF Promised, Covered
    <2>3. Near(peers, {o}, Cardinality(Gossiper)) \subseteq seen
        BY <1>5, <2>1, <2>2, NearClosed
    <2> QED BY <1>3, <1>4, <2>3 DEF Reached
<1>8. ASSUME Full(peers), hops >= 2 PROVE Within(origin, 1) \subseteq seen
    <2>1. o \in seen
        BY <1>5, <1>6, <1>8
    <2>2. peers[o] \subseteq seen
        BY <1>4, <1>8, <2>1 DEF Promised, Covered
    <2> QED BY <1>3, <2>1, <2>2, NearOne
<1>9. seen \subseteq Within(origin, hops - 1)
    BY <1>3, <1>4 DEF Reached
<1>10. \A n \in Gossiper : inbox[n] = IF n \in seen THEN 1 ELSE 0
    BY DEF Gossiping
<1> QED BY <1>7, <1>8, <1>9, <1>10 DEF FloodReachesAll, Full

\* A flood of gossip ends as it promises, on any network and with any fanout: each
\* node that it reaches accepts the message just once, none is farther away than the
\* hops, and with no more peers than the fanout every node is reached when there are
\* as many hops as nodes, although a copy that came the long way round, with few hops
\* left, may make its node ignore the better one.
THEOREM FloodsAlwaysReach == GossipSpec => []FloodReachesAll
<1> USE GossipAssumption
<1>1. GossipInit => Gossiping
    BY DEF GossipInit, Gossiping
<1>2. Gossiping /\ [GossipNext]_gossipVars => Gossiping'
    <2> SUFFICES ASSUME Gossiping, [GossipNext]_gossipVars PROVE Gossiping'
        OBVIOUS
    <2>1. ASSUME NEW n \in Gossiper, NEW p \in Gossiper, AddPeer(n, p) \/ RemovePeer(n, p)
          PROVE Gossiping'
        <3>1. peers' \in [Gossiper -> SUBSET Gossiper]
            <4>1. peers \in [Gossiper -> SUBSET Gossiper]
                BY DEF Gossiping
            <4>2. CASE AddPeer(n, p)
                BY <4>1, <4>2 DEF AddPeer
            <4>3. CASE RemovePeer(n, p)
                BY <4>1, <4>3 DEF RemovePeer
            <4> QED BY <2>1, <4>2, <4>3
        <3>2. origin' = {} /\ hops' = hops /\ seen' = seen /\ inbox' = inbox /\ forwards' = forwards
              /\ forwards = <<>>
            BY <2>1 DEF AddPeer, RemovePeer
        <3> QED BY <3>1, <3>2 DEF Gossiping
    <2>2. ASSUME NEW n \in Gossiper, NEW ttl \in Hops, Broadcast(n, ttl) PROVE Gossiping'
        <3> DEFINE c == Delivery(n, n, ttl)
        <3>1. /\ origin' = {n} /\ hops' = ttl /\ seen' = {} /\ inbox' = [m \in Gossiper |-> 0]
              /\ forwards' = <<c>> /\ peers' = peers
            BY <2>2 DEF Broadcast
        <3>2. c \in Deliveries /\ c.to = n /\ c.from = n /\ c.ttl = ttl /\ ttl \in Nat
            BY DEF Delivery, Deliveries
        <3> HIDE DEF c
        <3>3. <<c>> \in Seq(Deliveries) /\ ToSet(<<c>>) = {c}
            BY <3>2 DEF ToSet
        <3>4. n \in Near(peers, {n}, 0)
            BY NearStart
        <3>5. Cardinality({}) = 0
            BY FS_EmptySet
        <3>6. Underway(peers, n, ttl, {}, {c})
            BY <3>2, <3>4, <3>5 DEF Underway
        <3>7. Reached(peers, n, ttl, {}) /\ Starting(n, ttl, {}, {c})
            BY <3>2 DEF Reached, Starting
        <3>8. Promised(peers, n, ttl, {}, {c})
            BY <3>2 DEF Promised, Covered
        <3>9. Flood(peers, n, ttl, {}, {c})
            BY <3>6, <3>7, <3>8 DEF Flood
        <3>10. peers' \in [Gossiper -> SUBSET Gossiper] /\ hops' \in Nat /\ inbox' \in [Gossiper -> Nat]
               /\ forwards' \in Seq(Deliveries) /\ origin' # {}
            BY <3>1, <3>2, <3>3 DEF Gossiping
        <3>11. \E z \in Gossiper : origin' = {z} /\ Flood(peers', z, hops', seen', ToSet(forwards'))
            BY <3>1, <3>3, <3>9
        <3>12. \A m \in Gossiper : inbox'[m] = IF m \in seen' THEN 1 ELSE 0
            BY <3>1
        <3> QED BY <3>10, <3>11, <3>12 DEF Gossiping
    <2>3. CASE Ignore
        <3> DEFINE c == Head(forwards)
        <3>1. /\ forwards # <<>> /\ (c.to \in seen \/ c.ttl = 0) /\ forwards' = Tail(forwards)
              /\ peers' = peers /\ origin' = origin /\ hops' = hops /\ seen' = seen /\ inbox' = inbox
            BY <2>3 DEF Ignore
        <3>2. ToSet(forwards) = {c} \union ToSet(Tail(forwards)) /\ Tail(forwards) \in Seq(Deliveries)
            BY <3>1, HeadAndTail DEF Gossiping
        <3>3. PICK o \in Gossiper : origin = {o} /\ Flood(peers, o, hops, seen, ToSet(forwards))
            BY <3>1 DEF Gossiping
        <3>4. Flood(peers, o, hops, seen, {c} \union ToSet(Tail(forwards)))
            BY <3>2, <3>3
        <3> HIDE DEF c
        <3>5. Flood(peers, o, hops, seen, ToSet(Tail(forwards)))
            BY <3>1, <3>4, IgnoreFloods
        <3>6. \E z \in Gossiper : origin' = {z} /\ Flood(peers', z, hops', seen', ToSet(forwards'))
            BY <3>1, <3>3, <3>5
        <3> QED BY <3>1, <3>2, <3>3, <3>6 DEF Gossiping
    <2>4. CASE Accept
        BY <2>4, AcceptGossips
    <2>5. CASE PruneSeen
        BY <2>5 DEF PruneSeen, Gossiping
    <2>6. CASE UNCHANGED gossipVars
        BY <2>6 DEF gossipVars, Gossiping
    <2> QED BY <2>1, <2>2, <2>3, <2>4, <2>5, <2>6 DEF GossipNext
<1>3. Gossiping => FloodReachesAll
    <2> SUFFICES ASSUME Gossiping, ~ (forwards # <<>> \/ origin = {}) PROVE FloodReachesAll
        BY DEF FloodReachesAll
    <2> QED BY FloodEnds
<1> QED BY <1>1, <1>2, <1>3, PTL DEF GossipSpec


-----------------------------------------------------------------------------
(* The peers of the next shard.  A closed circuit has no failure on record and a      *)
(* half-open one has rested, in every client, the replaced ones that tasks still hold *)
(* included; so a call that follows a failure follows a rest.                         *)

Quiet(cb) ==
    /\ cb \in [state : {"CLOSED", "OPEN", "HALF_OPEN"}, failures : Nat, successes : Nat, elapsed : Nat]
    /\ cb.state = "CLOSED" => cb.failures = 0
    /\ cb.state = "HALF_OPEN" => cb.elapsed >= Rest

\* Breakers of clients, for some of the peers each.
Quietly(bs) ==
    /\ bs = [c \in Client |-> bs[c]]
    /\ \A c \in Client :
          /\ DOMAIN bs[c] \subseteq Peer
          /\ bs[c] = [p \in DOMAIN bs[c] |-> bs[c][p]]
          /\ \A p \in DOMAIN bs[c] : Quiet(bs[c][p])

Inquiries ==
    [phase : {"idle", "finding", "calling"}, client : Client \union {NoClient}, todo : Seq(Peer),
     age : Nat, ok : BOOLEAN]

Entries == {NoEntry} \union [client : Client, age : Nat]

PeersInv ==
    /\ task \in [Task -> Inquiries] /\ Quietly(breaker)
    /\ \A t \in Task : task[t].phase = "calling" => task[t].todo # <<>>
    /\ cache \in Entries

\* Every reading and report keeps a circuit quiet.
LEMMA ReportsAreQuiet ==
    ASSUME NEW cb, Quiet(cb)
    PROVE  /\ Quiet(Breaker!Read(cb)) /\ Quiet(Tidy(Breaker!OnSuccess(cb)))
           /\ Quiet(Tidy(Breaker!OnFailures(cb, 1)))
           /\ Quiet([cb EXCEPT !.elapsed = OneMore(cb.elapsed, Rest)])
           /\ Usable(cb) /\ Breaker!Read(cb).failures > 0 => Breaker!Read(cb).elapsed >= Rest
<1> USE PeersAssumption
<1>1. cb = [state |-> cb.state, failures |-> cb.failures, successes |-> cb.successes, elapsed |-> cb.elapsed]
      /\ cb.state \in {"CLOSED", "OPEN", "HALF_OPEN"} /\ cb.failures \in Nat /\ cb.successes \in Nat /\ cb.elapsed \in Nat
    BY DEF Quiet
<1>2. Quiet(Breaker!Read(cb))
    BY <1>1 DEF Quiet, Breaker!Read, Breaker!Expired
<1>3. Quiet(Breaker!Fresh)
    BY DEF Quiet, Breaker!Fresh
<1>4. Quiet(Tidy(Breaker!OnSuccess(cb)))
    <2> DEFINE r == Breaker!OnSuccess(cb)
               more == [state |-> cb.state, failures |-> cb.failures,
                        successes |-> cb.successes + 1, elapsed |-> cb.elapsed]
    <2>1. CASE cb.state = "CLOSED"
        <3>1. r.state = "CLOSED"
            BY <2>1 DEF Breaker!OnSuccess, Breaker!Closed
        <3> HIDE DEF r
        <3>2. Tidy(r) = Breaker!Fresh
            BY <3>1 DEF Tidy
        <3> QED BY <1>3, <3>2 DEF r
    <2>2. CASE cb.state = "OPEN"
        <3>1. r = cb
            BY <2>2 DEF Breaker!OnSuccess
        <3> HIDE DEF r
        <3>2. Quiet(Tidy(r))
            BY <1>1, <2>2, <3>1 DEF Quiet, Tidy
        <3> QED BY <3>2 DEF r
    <2>3. CASE cb.state = "HALF_OPEN"
        <3>1. r.state = "CLOSED" \/ r = more
            BY <1>1, <2>3 DEF Breaker!OnSuccess, Breaker!Closed
        <3> HIDE DEF r
        <3>2. CASE r.state = "CLOSED"
            <4>1. Tidy(r) = Breaker!Fresh
                BY <3>2 DEF Tidy
            <4> QED BY <1>3, <4>1 DEF r
        <3>3. CASE r = more
            <4>1. Quiet(Tidy(r))
                <5>1. r.state = "HALF_OPEN" /\ r.elapsed = cb.elapsed /\ r.successes = cb.successes + 1
                    BY <2>3, <3>3
                <5>2. Tidy(r) = [r EXCEPT !.failures = 1, !.successes = cb.successes + 1]
                    BY <5>1 DEF Tidy
                <5>3. Tidy(r) = [state |-> "HALF_OPEN", failures |-> 1, successes |-> cb.successes + 1,
                                 elapsed |-> cb.elapsed]
                    BY <2>3, <3>3, <5>2
                <5>4. cb.elapsed >= Rest
                    BY <2>3 DEF Quiet
                <5> QED BY <1>1, <5>3, <5>4 DEF Quiet
            <4> QED BY <4>1 DEF r
        <3> QED BY <3>1, <3>2, <3>3
    <2> QED BY <1>1, <2>1, <2>2, <2>3
<1>5. Quiet(Tidy(Breaker!OnFailures(cb, 1)))
    <2>1. Breaker!OnFailures(cb, 1).state = "OPEN"
        BY <1>1 DEF Breaker!OnFailures
    <2> QED BY <1>1, <2>1 DEF Quiet, Tidy, Breaker!OnFailures
<1>6. Quiet([cb EXCEPT !.elapsed = OneMore(cb.elapsed, Rest)])
    BY <1>1 DEF Quiet, OneMore
<1>7. Usable(cb) /\ Breaker!Read(cb).failures > 0 => Breaker!Read(cb).elapsed >= Rest
    BY <1>1, <1>2 DEF Usable, Quiet
<1> QED BY <1>2, <1>4, <1>5, <1>6, <1>7

\* So does a change of one circuit.
LEMMA ChangeIsQuiet ==
    ASSUME NEW bs, Quietly(bs), NEW c, NEW p, NEW cb,
           c \in Client /\ p \in DOMAIN bs[c] => Quiet(cb)
    PROVE  Quietly([bs EXCEPT ![c][p] = cb])
<1> DEFINE w == [bs EXCEPT ![c][p] = cb]
<1>1. w = [d \in Client |-> IF d = c THEN [bs[d] EXCEPT ![p] = cb] ELSE bs[d]]
    BY DEF Quietly
<1>2. \A d \in Client : w[d] = IF d = c THEN [bs[d] EXCEPT ![p] = cb] ELSE bs[d]
    BY <1>1
<1>3. \A d \in Client : DOMAIN w[d] = DOMAIN bs[d]
    BY <1>2
<1>4. ASSUME NEW d \in Client, NEW x \in DOMAIN bs[d] PROVE Quiet(w[d][x])
    <2>1. Quiet(bs[d][x]) /\ bs[d] = [y \in DOMAIN bs[d] |-> bs[d][y]]
        BY DEF Quietly
    <2>2. CASE d = c /\ x = p
        BY <1>2, <2>1, <2>2
    <2>3. CASE ~ (d = c /\ x = p)
        BY <1>2, <2>1, <2>3
    <2> QED BY <2>2, <2>3
<1>5. \A d \in Client : w[d] = [x \in DOMAIN w[d] |-> w[d][x]]
    BY <1>2 DEF Quietly
<1>6. w = [d \in Client |-> w[d]]
    BY <1>1
<1> HIDE DEF w
<1>7. Quietly(w)
    BY <1>3, <1>4, <1>5, <1>6 DEF Quietly
<1> QED BY <1>7 DEF w

\* Clients that are thrown away leave the others quiet.
LEMMA KeepIsQuiet ==
    ASSUME NEW bs, Quietly(bs), Keep(bs)
    PROVE  /\ Quietly(breaker')
           /\ \A t \in Task : task'[t].client \in Client => breaker'[task'[t].client] = bs[task'[t].client]
<1>1. breaker' = [c \in Client |->
          IF cache'.client = c \/ \E t \in Task : task'[t].client = c THEN bs[c] ELSE <<>>]
    BY DEF Keep
<1>2. \A c \in Client : breaker'[c] = bs[c] \/ breaker'[c] = <<>>
    BY <1>1
<1>3. DOMAIN <<>> = {} /\ <<>> = [p \in {} |-> <<>>[p]]
    OBVIOUS
<1>4. \A c \in Client : /\ DOMAIN breaker'[c] \subseteq Peer
                        /\ breaker'[c] = [p \in DOMAIN breaker'[c] |-> breaker'[c][p]]
                        /\ \A p \in DOMAIN breaker'[c] : Quiet(breaker'[c][p])
    BY <1>2, <1>3 DEF Quietly
<1>5. breaker' = [c \in Client |-> breaker'[c]]
    BY <1>1
<1>6. Quietly(breaker')
    BY <1>4, <1>5 DEF Quietly
<1> QED BY <1>1, <1>6

\* The peers a client tries are those it was made for.
LEMMA OrdersArePeers ==
    ASSUME NEW s \in SUBSET Peer, NEW q \in Orders(s)
    PROVE  q \in Seq(Peer)
<1>1. IsFiniteSet(s)
    BY PeersAssumption, FS_Subset
<1>2. Cardinality(s) \in Nat
    BY <1>1, FS_CardinalityType
<1>3. q \in [1 .. Cardinality(s) -> s]
    BY DEF Orders, SetToSeqs
<1> QED BY <1>2, <1>3

\* What FailedPeerRests says of a step.
Rests ==
    \A t \in Task, c \in Client : \A p \in DOMAIN breaker'[c] :
        Calls(t, c, p) /\ breaker'[c][p].failures > 0 => breaker'[c][p].elapsed >= Rest

\* A task that goes on calls a peer whose circuit lets it.
LEMMA AdvanceRests ==
    ASSUME PeersInv, NEW t \in Task, NEW c, NEW todo \in Seq(Peer), NEW bs, Quietly(bs),
           Advance(t, c, todo, bs), c \in Client \union {NoClient},
           cache' \in Entries
    PROVE  PeersInv' /\ Rests
<1> DEFINE usable == {i \in DOMAIN todo : Usable(bs[c][todo[i]])}
           i == CHOOSE k \in usable : \A j \in usable : k <= j
           none == [phase |-> "idle", client |-> NoClient, todo |-> <<>>, age |-> 0, ok |-> FALSE]
           called == [phase |-> "calling", client |-> c, todo |-> SubSeq(todo, i, Len(todo)), age |-> 0, ok |-> FALSE]
<1>1. none \in Inquiries
    <2>1. <<>> \in Seq(Peer)
        OBVIOUS
    <2> QED BY <2>1 DEF Inquiries
<1>2. task \in [Task -> Inquiries]
    BY DEF PeersInv
<1>3. CASE usable = {}
    <2>1. task' = [task EXCEPT ![t] = none] /\ Keep(bs)
        BY <1>3 DEF Advance, Inactive
    <2>2. task' \in [Task -> Inquiries]
        BY <1>1, <1>2, <2>1
    <2>3. Quietly(breaker')
        BY <2>1, KeepIsQuiet
    <2>4. \A s \in Task : task'[s] # task[s] => task'[s].phase = "idle"
        BY <1>2, <2>1
    <2>5. Rests
        BY <2>4 DEF Rests, Calls
    <2>6. \A s \in Task : task'[s].phase = "calling" => task'[s].todo # <<>>
        BY <1>2, <2>1 DEF PeersInv
    <2> QED BY <2>2, <2>3, <2>5, <2>6 DEF PeersInv
<1>4. CASE usable # {}
    <2>1. DOMAIN todo = 1 .. Len(todo) /\ Len(todo) \in Nat
        OBVIOUS
    <2>2. i \in usable
        <3>1. usable \in SUBSET Nat
            BY <2>1
        <3> HIDE DEF usable
        <3>2. PICK k \in usable : \A m \in 0 .. k - 1 : m \notin usable
            BY <1>4, <3>1, LeastNumber
        <3>3. \A j \in usable : k <= j
            BY <3>1, <3>2
        <3> QED BY <3>3
    <2>3. /\ task' = [task EXCEPT ![t] = Calling(c, SubSeq(todo, i, Len(todo)))]
          /\ Keep([bs EXCEPT ![c][todo[i]] = Breaker!Read(bs[c][todo[i]])])
        BY <1>4 DEF Advance
    <2>4. i \in 1 .. Len(todo) /\ Usable(bs[c][todo[i]])
        BY <2>1, <2>2
    <2> HIDE DEF usable, i
    <2>5. SubSeq(todo, i, Len(todo)) \in Seq(Peer) /\ Head(SubSeq(todo, i, Len(todo))) = todo[i]
          /\ SubSeq(todo, i, Len(todo)) # <<>>
        <3>1. SubSeq(todo, i, Len(todo)) \in Seq(Peer) /\ Len(SubSeq(todo, i, Len(todo))) = Len(todo) - i + 1
              /\ SubSeq(todo, i, Len(todo))[1] = todo[i]
            BY <2>1, <2>4
        <3>2. Len(todo) - i + 1 # 0 /\ Len(<<>>) = 0
            BY <2>1, <2>4
        <3>3. SubSeq(todo, i, Len(todo)) # <<>>
            BY <3>1, <3>2
        <3> QED BY <3>1, <3>3
    <2>6. called \in Inquiries
        BY <2>5 DEF Inquiries
    <2>7. task' = [task EXCEPT ![t] = called]
        BY <2>3 DEF Calling
    <2>8. task' \in [Task -> Inquiries]
        BY <1>2, <2>6, <2>7
    <2> DEFINE w == [bs EXCEPT ![c][todo[i]] = Breaker!Read(bs[c][todo[i]])]
    <2>9. Quietly(w)
        <3>1. c \in Client /\ todo[i] \in DOMAIN bs[c] => Quiet(Breaker!Read(bs[c][todo[i]]))
            BY ReportsAreQuiet DEF Quietly
        <3> QED BY <3>1, ChangeIsQuiet
    <2>10. Keep(w)
        BY <2>3
    <2>11. c \in Client /\ todo[i] \in DOMAIN bs[c] =>
              /\ DOMAIN w[c] = DOMAIN bs[c]
              /\ w[c][todo[i]] = Breaker!Read(bs[c][todo[i]])
        BY DEF Quietly
    <2> HIDE DEF w
    <2>12. Quietly(breaker') /\ (c \in Client => breaker'[c] = w[c])
        <3>1. task'[t].client = c
            BY <1>2, <2>7
        <3> QED BY <2>9, <2>10, <3>1, KeepIsQuiet
    <2>13. ASSUME NEW s \in Task, NEW d \in Client, NEW p \in DOMAIN breaker'[d],
                  Calls(s, d, p), breaker'[d][p].failures > 0
           PROVE  breaker'[d][p].elapsed >= Rest
        <3>1. s = t
            BY <1>2, <2>7, <2>13 DEF Calls
        <3>2. d = c /\ p = todo[i]
            BY <1>2, <2>5, <2>7, <2>13, <3>1 DEF Calls
        <3>3. p \in DOMAIN bs[c] /\ breaker'[d][p] = Breaker!Read(bs[c][todo[i]])
            <4>1. DOMAIN w[c] = DOMAIN bs[c]
                BY <3>2 DEF w, Quietly
            <4> QED BY <2>11, <2>12, <3>2, <4>1
        <3>4. Quiet(bs[c][todo[i]])
            BY <3>2, <3>3 DEF Quietly
        <3> QED BY <2>4, <2>13, <3>3, <3>4, ReportsAreQuiet
    <2>14. Rests
        BY <2>13 DEF Rests
    <2>15. \A s \in Task : task'[s].phase = "calling" => task'[s].todo # <<>>
        BY <1>2, <2>5, <2>7 DEF PeersInv
    <2> QED BY <2>8, <2>12, <2>14, <2>15 DEF PeersInv
<1> QED BY <1>3, <1>4

\* There are clients enough for one more.
LEMMA ClientIsFree ==
    ASSUME task \in [Task -> Inquiries], NEW t \in Task
    PROVE  \E k \in Client : \A o \in Task \ {t} : task[o].client # k
<1> SUFFICES ASSUME \A k \in Client : \E o \in Task : task[o].client = k PROVE FALSE
    OBVIOUS
<1> DEFINE g == [k \in Client |-> CHOOSE o \in Task : task[o].client = k]
<1>1. \A k \in Client : g[k] \in Task /\ task[g[k]].client = k
    OBVIOUS
<1>2. g \in Injection(Client, Task)
    BY <1>1 DEF Injection, IsInjective
<1>3. Cardinality(Client) <= Cardinality(Task)
    <2> HIDE DEF g
    <2> QED BY <1>2, FS_Injection, PeersAssumption
<1> QED BY <1>3, FS_CardinalityType, PeersAssumption

\* From the start, and in every step.
LEMMA PeersMove ==
    /\ PeersInit => PeersInv
    /\ PeersInv /\ [PeersNext]_peerVars => PeersInv' /\ (Rests \/ UNCHANGED peerVars)
<1> USE PeersAssumption
<1>1. PeersInit => PeersInv
    <2> SUFFICES ASSUME PeersInit PROVE PeersInv
        OBVIOUS
    <2>1. <<>> \in Seq(Peer) /\ DOMAIN <<>> = {} /\ <<>> = [p \in {} |-> <<>>[p]]
        OBVIOUS
    <2>2. task \in [Task -> Inquiries]
        BY <2>1 DEF PeersInit, Inactive, Inquiries
    <2>3. Quietly(breaker)
        BY <2>1 DEF PeersInit, Quietly
    <2>4. cache \in Entries
        BY DEF PeersInit, Entries
    <2>5. \A t \in Task : task[t].phase = "calling" => task[t].todo # <<>>
        BY DEF PeersInit, Inactive
    <2> QED BY <2>2, <2>3, <2>4, <2>5 DEF PeersInv
<1>2. PeersInv /\ [PeersNext]_peerVars => PeersInv' /\ (Rests \/ UNCHANGED peerVars)
    <2> SUFFICES ASSUME PeersInv, [PeersNext]_peerVars
                 PROVE  PeersInv' /\ (Rests \/ UNCHANGED peerVars)
        OBVIOUS
    <2>0. /\ task \in [Task -> Inquiries] /\ Quietly(breaker)
          /\ \A t \in Task : task[t].phase = "calling" => task[t].todo # <<>>
          /\ cache \in Entries
          /\ breaker = [c \in Client |-> breaker[c]]
          /\ \A c \in Client : \A p \in DOMAIN breaker[c] : Quiet(breaker[c][p])
          /\ \A c \in Client : DOMAIN breaker[c] \subseteq Peer
        BY DEF PeersInv, Quietly
    <2>1. ASSUME NEW t \in Task, UseCached(t) PROVE PeersInv' /\ Rests
        <3>1. PICK q \in Orders(DOMAIN breaker[cache.client]) : Advance(t, cache.client, q, breaker)
            BY <2>1 DEF UseCached
        <3>2. cache.client \in Client /\ cache' = cache
            BY <2>0, <2>1 DEF UseCached, Entries
        <3>3. q \in Seq(Peer)
            BY <2>0, <3>2, OrdersArePeers
        <3> QED BY <2>0, <3>1, <3>2, <3>3, AdvanceRests
    <2>2. ASSUME NEW t \in Task, LookUp(t) \/ FindNobody(t) PROVE PeersInv' /\ Rests
        <3>1. Finding \in Inquiries /\ Inactive(FALSE) \in Inquiries
            BY DEF Finding, Inactive, Inquiries
        <3>2. /\ breaker' = breaker /\ cache' = cache
              /\ task' = [task EXCEPT ![t] = Finding] \/ task' = [task EXCEPT ![t] = Inactive(FALSE)]
            BY <2>2 DEF LookUp, FindNobody
        <3>3. task' \in [Task -> Inquiries]
            BY <2>0, <3>1, <3>2
        <3>4. \A s \in Task : /\ task'[s] # task[s] => task'[s].phase # "calling"
                              /\ task'[s].phase = "calling" => task'[s].todo # <<>>
            BY <2>0, <3>2 DEF Finding, Inactive
        <3>5. Rests
            BY <3>4 DEF Rests, Calls
        <3> QED BY <2>0, <3>2, <3>3, <3>4, <3>5 DEF PeersInv
    <2>3. ASSUME NEW t \in Task, NEW peersFound \in SUBSET Peer, FindPeers(t, peersFound) PROVE PeersInv' /\ Rests
        <3> DEFINE c == CHOOSE k \in Client : \A o \in Task \ {t} : task[o].client # k
                   fresh == [p \in peersFound |-> Breaker!Fresh]
                   w == [breaker EXCEPT ![c] = fresh]
        <3>1. c \in Client
            BY <2>0, ClientIsFree
        <3>2. PICK q \in Orders(peersFound) : Advance(t, c, q, w)
            BY <2>3 DEF FindPeers
        <3>3. cache' = IF task[t].age < CacheTTL THEN [client |-> c, age |-> task[t].age] ELSE NoEntry
            BY <2>3 DEF FindPeers
        <3> HIDE DEF c
        <3>4. cache' \in Entries
            BY <2>0, <3>1, <3>3 DEF Entries, Inquiries
        <3>5. q \in Seq(Peer)
            BY OrdersArePeers
        <3>6. Quietly(w)
            <4>1. Quiet(Breaker!Fresh)
                BY DEF Quiet, Breaker!Fresh
            <4>2. w = [d \in Client |-> IF d = c THEN fresh ELSE breaker[d]]
                BY <2>0
            <4>3. DOMAIN fresh = peersFound /\ fresh = [p \in peersFound |-> fresh[p]] /\ \A p \in peersFound : Quiet(fresh[p])
                BY <4>1
            <4>4. \A d \in Client : w[d] = IF d = c THEN fresh ELSE breaker[d]
                BY <4>2
            <4>5. w = [d \in Client |-> w[d]]
                BY <4>2
            <4> HIDE DEF w, fresh
            <4> QED BY <2>0, <4>3, <4>4, <4>5 DEF Quietly
        <3> HIDE DEF w
        <3> QED BY <3>1, <3>2, <3>4, <3>5, <3>6, AdvanceRests
    <2>4. ASSUME NEW t \in Task, PeerAnswers(t) PROVE PeersInv' /\ Rests
        <3> DEFINE c == task[t].client
                   p == Head(task[t].todo)
                   w == [breaker EXCEPT ![c][p] = Tidy(Breaker!OnSuccess(breaker[c][p]))]
        <3>1. task' = [task EXCEPT ![t] = Inactive(TRUE)] /\ cache' = cache /\ Keep(w)
            BY <2>4 DEF PeerAnswers
        <3>2. Quietly(w)
            <4>1. c \in Client /\ p \in DOMAIN breaker[c] => Quiet(Tidy(Breaker!OnSuccess(breaker[c][p])))
                BY <2>0, ReportsAreQuiet
            <4> HIDE DEF c, p
            <4> QED BY <2>0, <4>1, ChangeIsQuiet
        <3> HIDE DEF w
        <3>3. Quietly(breaker')
            BY <3>1, <3>2, KeepIsQuiet
        <3>4. Inactive(TRUE) \in Inquiries /\ Inactive(TRUE).phase = "idle"
            BY DEF Inactive, Inquiries
        <3>5. task' \in [Task -> Inquiries]
            BY <2>0, <3>1, <3>4
        <3>7. \A s \in Task : task'[s] # task[s] => task'[s].phase = "idle"
            BY <2>0, <3>1, <3>4
        <3>8. \A s \in Task : task'[s].phase = "calling" => task'[s].todo # <<>>
            <4>1. \A s \in Task : task'[s] = task[s] \/ task'[s].phase = "idle"
                BY <3>7
            <4>2. "idle" # "calling"
                OBVIOUS
            <4> QED BY <2>0, <4>1, <4>2
        <3>6. Rests
            BY <3>7 DEF Rests, Calls
        <3> QED BY <2>0, <3>1, <3>3, <3>5, <3>6, <3>8 DEF PeersInv
    <2>5. ASSUME NEW t \in Task, PeerRaises(t) PROVE PeersInv' /\ Rests
        <3> DEFINE c == task[t].client
                   p == Head(task[t].todo)
                   w == [breaker EXCEPT ![c][p] = Tidy(Breaker!OnFailures(breaker[c][p], 1))]
                   rest == Tail(task[t].todo)
        <3>1. Advance(t, c, rest, w) /\ cache' = cache
            BY <2>5 DEF PeerRaises
        <3>2. Quietly(w)
            <4>1. c \in Client /\ p \in DOMAIN breaker[c] => Quiet(Tidy(Breaker!OnFailures(breaker[c][p], 1)))
                BY <2>0, ReportsAreQuiet
            <4> HIDE DEF c, p
            <4> QED BY <2>0, <4>1, ChangeIsQuiet
        <3>3. c \in Client \union {NoClient} /\ task[t].todo \in Seq(Peer) /\ task[t].todo # <<>>
            BY <2>0, <2>5 DEF Inquiries, PeerRaises
        <3>4. rest \in Seq(Peer)
            BY <3>3
        <3> HIDE DEF c, w, rest
        <3> QED BY <2>0, <3>1, <3>2, <3>3, <3>4, AdvanceRests
    <2>6. ASSUME NEW p, HeardOf(p) \/ ForgetPeer(p) \/ Settle PROVE PeersInv' /\ Rests
        <3>1. task' = task /\ breaker' = breaker /\ cache' = cache
            BY <2>6 DEF HeardOf, ForgetPeer, Settle
        <3> QED BY <2>0, <3>1 DEF PeersInv, Rests, Calls
    <2>7. ASSUME PassTime PROVE PeersInv' /\ Rests
        <3> DEFINE w == [c \in Client |-> [p \in DOMAIN breaker[c] |->
                          [breaker[c][p] EXCEPT !.elapsed = OneMore(breaker[c][p].elapsed, Rest)]]]
        <3>1. /\ cache' = IF cache = NoEntry \/ cache.age + 1 >= CacheTTL
                          THEN NoEntry ELSE [cache EXCEPT !.age = cache.age + 1]
              /\ task' = [t \in Task |->
                            IF task[t].phase = "finding"
                            THEN [task[t] EXCEPT !.age = OneMore(task[t].age, CacheTTL)] ELSE task[t]]
              /\ Keep(w)
            BY <2>7 DEF PassTime
        <3>2. Quietly(w)
            <4>1. \A c \in Client : DOMAIN w[c] = DOMAIN breaker[c]
                OBVIOUS
            <4>2. \A c \in Client : \A p \in DOMAIN w[c] : Quiet(w[c][p])
                BY <2>0, ReportsAreQuiet
            <4>3. \A c \in Client : w[c] = [p \in DOMAIN w[c] |-> w[c][p]]
                OBVIOUS
            <4>4. w = [c \in Client |-> w[c]]
                OBVIOUS
            <4> HIDE DEF w
            <4> QED BY <2>0, <4>1, <4>2, <4>3, <4>4 DEF Quietly
        <3> HIDE DEF w
        <3>3. Quietly(breaker')
            BY <3>1, <3>2, KeepIsQuiet
        <3>4. cache' \in Entries
            BY <2>0, <3>1 DEF Entries
        <3>5. ASSUME NEW t \in Task
              PROVE  /\ task'[t] \in Inquiries /\ (task'[t] # task[t] => task'[t].phase # "calling")
                     /\ task'[t].phase = "calling" => task'[t].todo # <<>>
            <4>1. task[t] \in Inquiries
                BY <2>0
            <4>2. OneMore(task[t].age, CacheTTL) \in Nat
                BY <4>1 DEF OneMore, Inquiries
            <4>3. CASE task[t].phase = "finding"
                <5>1. task'[t] = [task[t] EXCEPT !.age = OneMore(task[t].age, CacheTTL)]
                    BY <3>1, <4>3
                <5> QED BY <4>1, <4>2, <4>3, <5>1 DEF Inquiries
            <4>4. CASE task[t].phase # "finding"
                BY <2>0, <3>1, <4>1, <4>4
            <4> QED BY <4>3, <4>4
        <3>6. task' \in [Task -> Inquiries]
            <4>1. task' = [t \in Task |-> task'[t]]
                BY <3>1
            <4> QED BY <3>5, <4>1
        <3>7. Rests
            BY <3>5 DEF Rests, Calls
        <3> QED BY <3>3, <3>4, <3>5, <3>6, <3>7 DEF PeersInv
    <2>8. CASE UNCHANGED peerVars
        BY <2>0, <2>8 DEF peerVars, PeersInv
    <2> QED BY <2>1, <2>2, <2>3, <2>4, <2>5, <2>6, <2>7, <2>8 DEF PeersNext
<1> QED BY <1>1, <1>2

\* No client of the next shard calls a peer before its circuit has rested after a
\* failure, however many tasks, clients and peers there are and whatever clients are
\* replaced while calls of theirs are under way.
THEOREM FailedPeersRest == PeersSpec => FailedPeerRests
<1>1. PeersInit => PeersInv
    BY PeersMove
<1>2. PeersInv /\ [PeersNext]_peerVars => PeersInv' /\ (Rests \/ UNCHANGED peerVars)
    BY PeersMove
<1>3. PeersInv /\ PeersInv' /\ (Rests \/ UNCHANGED peerVars) => [Rests]_peerVars
    OBVIOUS
<1>4. PeersSpec => [][Rests]_peerVars
    BY <1>1, <1>2, <1>3, PTL DEF PeersSpec
<1> QED BY <1>4 DEF FailedPeerRests, Rests

\* What a task still wants to try are peers of the client it holds.
Listed(t) ==
    task[t].phase = "calling" =>
        /\ task[t].client \in Client
        /\ \A k \in DOMAIN task[t].todo : task[t].todo[k] \in DOMAIN breaker[task[t].client]

AllListed == \A t \in Task : Listed(t)

\* Once the reliable peers have recovered, a task cannot fail that looks them up, or has
\* one in front of it whose circuit lets it: it is assured of an answer.
Meets(t) ==
    \E k \in DOMAIN task[t].todo :
        task[t].todo[k] \in Reliable /\ Usable(breaker[task[t].client][task[t].todo[k]])

Assured(t) ==
    /\ stable
    /\ \/ task[t].phase = "finding" /\ Reliable # {}
       \/ task[t].phase = "calling" /\ Meets(t)

AssuranceHolds == \A t \in Task : Assured(t) => Assured(t)' \/ task'[t].ok

\* From the table bs to ws, circuits that let a call through go on doing so.
Opens(bs, ws) ==
    /\ DOMAIN ws = DOMAIN bs
    /\ \A p \in DOMAIN bs : Usable(bs[p]) => Usable(ws[p])

\* The step of another task, which may at most close circuits of this one's client, or
\* open those of peers that are not reliable.
Unhindered(t) ==
    /\ task[t].phase = "calling" =>
          /\ task'[t] = task[t]
          /\ DOMAIN breaker'[task[t].client] = DOMAIN breaker[task[t].client]
          /\ \A p \in DOMAIN breaker[task[t].client] :
                stable /\ p \in Reliable /\ Usable(breaker[task[t].client][p])
                    => Usable(breaker'[task[t].client][p])
    /\ task[t].phase # "calling" => task'[t].phase = task[t].phase
    /\ stable => stable'

LEMMA UnhinderedStays ==
    ASSUME NEW t \in Task, Listed(t), Unhindered(t)
    PROVE  Listed(t)' /\ (Assured(t) => Assured(t)')
<1>1. CASE task[t].phase = "calling"
    <2>1. Listed(t)'
        BY <1>1 DEF Listed, Unhindered
    <2>2. ASSUME Assured(t) PROVE Assured(t)'
        <3>1. PICK k \in DOMAIN task[t].todo :
                  task[t].todo[k] \in Reliable /\ Usable(breaker[task[t].client][task[t].todo[k]])
            BY <1>1, <2>2 DEF Assured, Meets
        <3>2. task[t].todo[k] \in DOMAIN breaker[task[t].client]
            BY <1>1 DEF Listed
        <3>3. stable /\ task'[t] = task[t]
            BY <1>1, <2>2 DEF Assured, Unhindered
        <3>4. Usable(breaker'[task[t].client][task[t].todo[k]])
            BY <1>1, <3>1, <3>2, <3>3 DEF Unhindered
        <3>5. Meets(t)'
            BY <3>1, <3>3, <3>4 DEF Meets
        <3> QED BY <1>1, <3>3, <3>5 DEF Assured, Unhindered
    <2> QED BY <2>1, <2>2
<1>2. CASE task[t].phase # "calling"
    BY <1>2 DEF Listed, Assured, Unhindered
<1> QED BY <1>1, <1>2

\* Looking at a circuit, an answer and time let through who was let through before.
LEMMA StaysUsable ==
    ASSUME NEW cb, Quiet(cb), Usable(cb)
    PROVE  /\ Usable(Breaker!Read(cb)) /\ Usable(Tidy(Breaker!OnSuccess(cb)))
           /\ Usable([cb EXCEPT !.elapsed = OneMore(cb.elapsed, Rest)])
<1> USE PeersAssumption
<1>1. cb = [state |-> cb.state, failures |-> cb.failures, successes |-> cb.successes, elapsed |-> cb.elapsed]
      /\ cb.state \in {"CLOSED", "OPEN", "HALF_OPEN"} /\ cb.failures \in Nat /\ cb.successes \in Nat /\ cb.elapsed \in Nat
    BY DEF Quiet
<1>2. cb.state = "OPEN" => cb.elapsed >= Rest
    BY <1>1 DEF Usable, Breaker!Read, Breaker!Expired
<1>3. ASSUME NEW b, b.state # "OPEN" PROVE Usable(b)
    BY <1>3 DEF Usable, Breaker!Read, Breaker!Expired
<1>4. ASSUME NEW f \in Nat, NEW s \in Nat, NEW e \in Nat, e >= Rest
      PROVE  Usable([state |-> "OPEN", failures |-> f, successes |-> s, elapsed |-> e])
    BY <1>4 DEF Usable, Breaker!Read, Breaker!Expired
<1>5. Usable(Breaker!Read(cb))
    <2>1. Breaker!Read(cb).state # "OPEN"
        BY DEF Usable
    <2> QED BY <1>3, <2>1
<1>6. Usable(Tidy(Breaker!OnSuccess(cb)))
    <2> DEFINE r == Breaker!OnSuccess(cb)
    <2>1. CASE cb.state = "OPEN"
        <3>1. r = cb
            BY <2>1 DEF Breaker!OnSuccess
        <3> HIDE DEF r
        <3>2. Tidy(r) = [state |-> "OPEN", failures |-> 1, successes |-> 0, elapsed |-> cb.elapsed]
            BY <1>1, <2>1, <3>1 DEF Tidy
        <3>3. Usable(Tidy(r))
            BY <1>1, <1>2, <1>4, <2>1, <3>2
        <3> QED BY <3>3 DEF r
    <2>2. CASE cb.state # "OPEN"
        <3>1. r.state # "OPEN"
            BY <1>1, <2>2 DEF Breaker!OnSuccess, Breaker!Closed
        <3>2. r = [state |-> r.state, failures |-> r.failures, successes |-> r.successes, elapsed |-> r.elapsed]
            BY <1>1, <2>2 DEF Breaker!OnSuccess, Breaker!Closed
        <3> HIDE DEF r
        <3>3. Breaker!Fresh.state # "OPEN"
            BY DEF Breaker!Fresh
        <3>4. Tidy(r).state # "OPEN"
            BY <3>1, <3>2, <3>3 DEF Tidy
        <3>5. Usable(Tidy(r))
            BY <1>3, <3>4
        <3> QED BY <3>5 DEF r
    <2> QED BY <2>1, <2>2
<1>7. Usable([cb EXCEPT !.elapsed = OneMore(cb.elapsed, Rest)])
    <2> DEFINE n == OneMore(cb.elapsed, Rest)
    <2>1. n \in Nat /\ (cb.elapsed >= Rest => n >= Rest)
        BY <1>1 DEF OneMore
    <2> HIDE DEF n
    <2>2. CASE cb.state = "OPEN"
        <3>1. [cb EXCEPT !.elapsed = n] =
                 [state |-> "OPEN", failures |-> cb.failures, successes |-> cb.successes, elapsed |-> n]
            BY <1>1, <2>2
        <3> QED BY <1>1, <1>2, <1>4, <2>1, <2>2, <3>1 DEF n
    <2>3. CASE cb.state # "OPEN"
        <3>1. [cb EXCEPT !.elapsed = n].state # "OPEN"
            BY <1>1, <2>3
        <3> QED BY <1>3, <3>1 DEF n
    <2> QED BY <2>2, <2>3
<1> QED BY <1>5, <1>6, <1>7

\* So does a change of one circuit that keeps it usable.
LEMMA ChangeOpens ==
    ASSUME NEW bs, Quietly(bs), NEW c \in Client, NEW p \in DOMAIN bs[c], NEW cb,
           Usable(bs[c][p]) => Usable(cb)
    PROVE  \A d \in Client : Opens(bs[d], [bs EXCEPT ![c][p] = cb][d])
<1> DEFINE w == [bs EXCEPT ![c][p] = cb]
<1>1. w = [d \in Client |-> IF d = c THEN [bs[d] EXCEPT ![p] = cb] ELSE bs[d]]
    BY DEF Quietly
<1>2. \A d \in Client : w[d] = IF d = c THEN [bs[d] EXCEPT ![p] = cb] ELSE bs[d]
    BY <1>1
<1> HIDE DEF w
<1>3. ASSUME NEW d \in Client PROVE Opens(bs[d], w[d])
    <2>1. CASE d = c
        <3>1. w[d] = [bs[c] EXCEPT ![p] = cb]
            BY <1>2, <2>1
        <3>2. DOMAIN w[d] = DOMAIN bs[c]
            BY <3>1
        <3>3. \A x \in DOMAIN bs[c] : w[d][x] = IF x = p THEN cb ELSE bs[c][x]
            BY <3>1
        <3> QED BY <2>1, <3>2, <3>3 DEF Opens
    <2>2. CASE d # c
        BY <1>2, <2>2 DEF Opens
    <2> QED BY <2>1, <2>2
<1> QED BY <1>3 DEF w

\* A task that goes on calls a peer that is reliable and usable, or keeps it in front of it.
LEMMA AdvanceServes ==
    ASSUME PeersInv, NEW t \in Task, NEW c \in Client, NEW todo \in Seq(Peer), NEW bs, Quietly(bs),
           Advance(t, c, todo, bs), \A k \in DOMAIN todo : todo[k] \in DOMAIN bs[c]
    PROVE  /\ \A s \in Task : s # t => task'[s] = task[s]
           /\ \A s \in Task : s # t /\ task[s].client \in Client =>
                 Opens(bs[task[s].client], breaker'[task[s].client])
           /\ Listed(t)'
           /\ (\E k \in DOMAIN todo : todo[k] \in Reliable /\ Usable(bs[c][todo[k]]))
                 => task'[t].phase = "calling" /\ Meets(t)'
<1> DEFINE usable == {i \in DOMAIN todo : Usable(bs[c][todo[i]])}
           i == CHOOSE k \in usable : \A j \in usable : k <= j
<1>1. DOMAIN task = Task /\ task = [s \in Task |-> task[s]]
    BY DEF PeersInv
<1>2. CASE usable = {}
    <2>1. task' = [task EXCEPT ![t] = Inactive(FALSE)] /\ Keep(bs)
        BY <1>2 DEF Advance
    <2>2. task'[t].phase = "idle" /\ \A s \in Task : s # t => task'[s] = task[s]
        BY <1>1, <2>1 DEF Inactive
    <2>3. \A s \in Task : task'[s].client \in Client => breaker'[task'[s].client] = bs[task'[s].client]
        BY <2>1, KeepIsQuiet
    <2>4. ASSUME NEW s \in Task, s # t, task[s].client \in Client
          PROVE  Opens(bs[task[s].client], breaker'[task[s].client])
        <3>1. breaker'[task[s].client] = bs[task[s].client]
            BY <2>2, <2>3, <2>4
        <3> QED BY <3>1 DEF Opens
    <2>5. Listed(t)'
        BY <2>2 DEF Listed
    <2>6. ~ \E k \in DOMAIN todo : Usable(bs[c][todo[k]])
        BY <1>2
    <2> QED BY <2>2, <2>4, <2>5, <2>6
<1>3. CASE usable # {}
    <2>1. DOMAIN todo = 1 .. Len(todo) /\ Len(todo) \in Nat
        OBVIOUS
    <2>2. i \in usable /\ \A j \in usable : i <= j
        <3>1. usable \in SUBSET Nat
            BY <2>1
        <3> HIDE DEF usable
        <3>2. PICK k \in usable : \A m \in 0 .. k - 1 : m \notin usable
            BY <1>3, <3>1, LeastNumber
        <3>3. \A j \in usable : k <= j
            BY <3>1, <3>2
        <3> QED BY <3>3
    <2> DEFINE rest == SubSeq(todo, i, Len(todo))
               w == [bs EXCEPT ![c][todo[i]] = Breaker!Read(bs[c][todo[i]])]
    <2>3. task' = [task EXCEPT ![t] = Calling(c, rest)] /\ Keep(w)
        BY <1>3 DEF Advance
    <2>4. i \in 1 .. Len(todo) /\ \A k \in DOMAIN todo : Usable(bs[c][todo[k]]) => i <= k
        BY <2>1, <2>2
    <2> HIDE DEF usable, i
    <2>5. DOMAIN rest = 1 .. Len(todo) - i + 1 /\ \A j \in 1 .. Len(todo) - i + 1 : rest[j] = todo[i + j - 1]
        BY <2>1, <2>4
    <2>6. todo[i] \in DOMAIN bs[c]
        BY <2>1, <2>4
    <2>7. \A d \in Client : Opens(bs[d], w[d])
        <3>1. Quiet(bs[c][todo[i]])
            BY <2>6 DEF Quietly
        <3>2. Usable(bs[c][todo[i]]) => Usable(Breaker!Read(bs[c][todo[i]]))
            BY <3>1, StaysUsable
        <3> HIDE DEF w
        <3>3. ASSUME NEW x, x = todo[i] PROVE \A d \in Client : Opens(bs[d], [bs EXCEPT ![c][x] = Breaker!Read(bs[c][x])][d])
            <4>1. x \in DOMAIN bs[c] /\ (Usable(bs[c][x]) => Usable(Breaker!Read(bs[c][x])))
                BY <2>6, <3>2, <3>3
            <4> QED BY <4>1, ChangeOpens
        <3> QED BY <3>3 DEF w
    <2>8. Quietly(w)
        <3>1. c \in Client /\ todo[i] \in DOMAIN bs[c] => Quiet(Breaker!Read(bs[c][todo[i]]))
            BY ReportsAreQuiet DEF Quietly
        <3> QED BY <3>1, ChangeIsQuiet
    <2>9. task'[t] = Calling(c, rest) /\ \A s \in Task : s # t => task'[s] = task[s]
        BY <1>1, <2>3
    <2> HIDE DEF w, rest
    <2>10. task'[t].phase = "calling" /\ task'[t].client = c /\ task'[t].todo = rest
        BY <2>9 DEF Calling
    <2>11. \A s \in Task : task'[s].client \in Client => breaker'[task'[s].client] = w[task'[s].client]
        BY <2>3, <2>8, KeepIsQuiet
    <2>12. Opens(bs[c], breaker'[c])
        <3>1. breaker'[c] = w[c]
            BY <2>10, <2>11
        <3> QED BY <2>7, <3>1
    <2>13. ASSUME NEW s \in Task, s # t, task[s].client \in Client
           PROVE  Opens(bs[task[s].client], breaker'[task[s].client])
        <3>1. breaker'[task[s].client] = w[task[s].client]
            BY <2>9, <2>11, <2>13
        <3> QED BY <2>7, <2>13, <3>1
    <2>14. Listed(t)'
        <3>1. ASSUME NEW j \in DOMAIN rest PROVE rest[j] \in DOMAIN breaker'[c]
            <4>1. rest[j] = todo[i + j - 1] /\ i + j - 1 \in DOMAIN todo
                BY <2>1, <2>4, <2>5, <3>1
            <4> QED BY <2>12, <4>1 DEF Opens
        <3> QED BY <2>10, <3>1 DEF Listed
    <2>15. ASSUME NEW k \in DOMAIN todo, todo[k] \in Reliable, Usable(bs[c][todo[k]])
           PROVE  Meets(t)'
        <3>1. i <= k
            BY <2>4, <2>15
        <3>2. k - i + 1 \in DOMAIN rest /\ rest[k - i + 1] = todo[k]
            <4>1. k - i + 1 \in 1 .. Len(todo) - i + 1 /\ i + (k - i + 1) - 1 = k
                BY <2>1, <2>4, <3>1
            <4> QED BY <2>5, <4>1
        <3>3. Usable(breaker'[c][todo[k]])
            BY <2>12, <2>15 DEF Opens
        <3> QED BY <2>10, <2>15, <3>2, <3>3 DEF Meets
    <2> QED BY <2>9, <2>10, <2>13, <2>14, <2>15
<1> QED BY <1>2, <1>3

\* A client tries all the peers it was made for.
LEMMA OrdersCover ==
    ASSUME NEW s \in SUBSET Peer, NEW q \in Orders(s)
    PROVE  /\ q \in Seq(Peer) /\ \A k \in DOMAIN q : q[k] \in s
           /\ \A p \in s : \E k \in DOMAIN q : q[k] = p
<1>1. IsFiniteSet(s)
    BY PeersAssumption, FS_Subset
<1>2. Cardinality(s) \in Nat
    BY <1>1, FS_CardinalityType
<1> DEFINE n == Cardinality(s)
<1>3. q \in [1 .. n -> s] /\ \A i, j \in 1 .. n : i # j => q[i] # q[j]
    BY DEF Orders, SetToSeqs
<1> HIDE DEF n
<1>4. q \in Injection(1 .. n, s)
    BY <1>3 DEF Injection, IsInjective
<1>5. IsFiniteSet(1 .. n) /\ Cardinality(1 .. n) = n
    <2>1. n \in Int /\ 1 \in Int
        BY <1>2 DEF n
    <2>2. Cardinality(1 .. n) = IF 1 > n THEN 0 ELSE n - 1 + 1
        BY <2>1, FS_Interval
    <2> QED BY <1>2, <2>1, <2>2, FS_Interval DEF n
<1>6. Cardinality(1 .. n) = Cardinality(s) <=> q \in Surjection(1 .. n, s)
    BY <1>1, <1>4, FS_Injection
<1>7. q \in Surjection(1 .. n, s)
    BY <1>5, <1>6 DEF n
<1> QED BY <1>3, <1>7, OrdersArePeers DEF Surjection

\* What is claimed of a task and a step.
Fares(t) == Listed(t)' /\ (Assured(t) => Assured(t)' \/ task'[t].ok)

\* The others, when one task goes on with circuits bs that hinder none of them.
LEMMA OthersFare ==
    ASSUME PeersInv, AllListed, NEW t \in Task, NEW c \in Client, NEW todo \in Seq(Peer), NEW bs,
           Quietly(bs), Advance(t, c, todo, bs), \A k \in DOMAIN todo : todo[k] \in DOMAIN bs[c],
           stable' = stable, NEW s \in Task, s # t,
           task[s].phase = "calling" =>
               /\ DOMAIN bs[task[s].client] = DOMAIN breaker[task[s].client]
               /\ \A p \in DOMAIN breaker[task[s].client] :
                     stable /\ p \in Reliable /\ Usable(breaker[task[s].client][p])
                         => Usable(bs[task[s].client][p])
    PROVE  Fares(s)
<1>1. task'[s] = task[s]
    BY AdvanceServes
<1>2. Listed(s)
    BY DEF AllListed
<1>3. task[s].phase = "calling" => Opens(bs[task[s].client], breaker'[task[s].client])
    <2>1. task[s].phase = "calling" => task[s].client \in Client
        BY <1>2 DEF Listed
    <2> QED BY <2>1, AdvanceServes
<1>4. Unhindered(s)
    BY <1>1, <1>3 DEF Unhindered, Opens
<1> QED BY <1>2, <1>4, UnhinderedStays DEF Fares

\* Every step.
LEMMA AssuranceStep ==
    ASSUME PeersInv, AllListed, PeersNext
    PROVE  AllListed' /\ AssuranceHolds
<1> SUFFICES \A s \in Task : Fares(s)
    BY DEF Fares, AllListed, AssuranceHolds
<1>0. /\ task \in [Task -> Inquiries] /\ Quietly(breaker)
      /\ \A t \in Task : task[t].phase = "calling" => task[t].todo # <<>>
      /\ cache \in Entries
      /\ \A c \in Client : DOMAIN breaker[c] \subseteq Peer
      /\ \A c \in Client : \A p \in DOMAIN breaker[c] : Quiet(breaker[c][p])
      /\ \A t \in Task : Listed(t)
    BY DEF PeersInv, Quietly, AllListed
<1>1. ASSUME NEW t \in Task, UseCached(t), NEW s \in Task PROVE Fares(s)
    <2>1. PICK q \in Orders(DOMAIN breaker[cache.client]) : Advance(t, cache.client, q, breaker)
        BY <1>1 DEF UseCached
    <2>2. cache.client \in Client /\ stable' = stable /\ task[t].phase = "idle"
        BY <1>0, <1>1 DEF UseCached, Entries
    <2>3. q \in Seq(Peer) /\ \A k \in DOMAIN q : q[k] \in DOMAIN breaker[cache.client]
        BY <1>0, <2>2, OrdersCover
    <2>4. CASE s = t
        <3>1. Listed(t)'
            BY <1>0, <2>1, <2>2, <2>3, AdvanceServes
        <3>2. ~ Assured(t)
            BY <2>2 DEF Assured
        <3> QED BY <2>4, <3>1, <3>2 DEF Fares
    <2>5. CASE s # t
        BY <1>0, <2>1, <2>2, <2>3, <2>5, OthersFare
    <2> QED BY <2>4, <2>5
<1>2. ASSUME NEW t \in Task, LookUp(t) \/ FindNobody(t), NEW s \in Task PROVE Fares(s)
    <2>1. /\ breaker' = breaker /\ stable' = stable
          /\ \A u \in Task : u # t => task'[u] = task[u]
          /\ task'[t].phase # "calling"
        BY <1>0, <1>2 DEF LookUp, FindNobody, Finding, Inactive
    <2>2. CASE s = t
        <3>1. ~ Assured(t)
            BY <1>2 DEF LookUp, FindNobody, Assured
        <3> QED BY <2>1, <2>2, <3>1 DEF Fares, Listed
    <2>3. CASE s # t
        <3>1. Unhindered(s)
            BY <2>1, <2>3 DEF Unhindered
        <3> QED BY <1>0, <3>1, UnhinderedStays DEF Fares
    <2> QED BY <2>2, <2>3
<1>3. ASSUME NEW t \in Task, NEW peersFound \in SUBSET Peer, FindPeers(t, peersFound), NEW s \in Task
      PROVE  Fares(s)
    <2> DEFINE c == CHOOSE k \in Client : \A o \in Task \ {t} : task[o].client # k
               fresh == [p \in peersFound |-> Breaker!Fresh]
               w == [breaker EXCEPT ![c] = fresh]
    <2>1. c \in Client /\ \A o \in Task \ {t} : task[o].client # c
        BY <1>0, ClientIsFree
    <2>2. PICK q \in Orders(peersFound) : Advance(t, c, q, w)
        BY <1>3 DEF FindPeers
    <2>3. /\ stable' = stable /\ task[t].phase = "finding"
          /\ stable => Reliable \subseteq peersFound
        BY <1>3 DEF FindPeers
    <2> HIDE DEF c
    <2>4. /\ q \in Seq(Peer) /\ \A k \in DOMAIN q : q[k] \in peersFound
          /\ \A p \in peersFound : \E k \in DOMAIN q : q[k] = p
        BY OrdersCover
    <2>5. w = [d \in Client |-> IF d = c THEN fresh ELSE breaker[d]]
        BY <1>0 DEF Quietly
    <2>6. /\ Quiet(Breaker!Fresh) /\ Usable(Breaker!Fresh)
          /\ DOMAIN fresh = peersFound /\ fresh = [p \in peersFound |-> fresh[p]]
          /\ \A p \in peersFound : fresh[p] = Breaker!Fresh
        BY PeersAssumption DEF Quiet, Breaker!Fresh, Usable, Breaker!Read, Breaker!Expired
    <2>7. \A d \in Client : w[d] = IF d = c THEN fresh ELSE breaker[d]
        BY <2>5
    <2>8. w = [d \in Client |-> w[d]]
        BY <2>5
    <2> HIDE DEF w, fresh
    <2>9. Quietly(w)
        BY <1>0, <2>6, <2>7, <2>8 DEF Quietly
    <2>10. \A k \in DOMAIN q : q[k] \in DOMAIN w[c]
        BY <2>1, <2>4, <2>6, <2>7
    <2>11. CASE s = t
        <3>1. Listed(t)'
            BY <2>1, <2>2, <2>4, <2>9, <2>10, AdvanceServes
        <3>2. ASSUME Assured(t) PROVE Assured(t)'
            <4>1. PICK p \in Reliable : p \in peersFound
                BY <2>3, <3>2 DEF Assured
            <4>2. PICK k \in DOMAIN q : q[k] = p
                BY <2>4, <4>1
            <4>3. q[k] \in Reliable /\ Usable(w[c][q[k]])
                BY <2>1, <2>6, <2>7, <4>1, <4>2
            <4>4. task'[t].phase = "calling" /\ Meets(t)'
                BY <2>1, <2>2, <2>4, <2>9, <2>10, <4>3, AdvanceServes
            <4> QED BY <2>3, <3>2, <4>4 DEF Assured
        <3> QED BY <2>11, <3>1, <3>2 DEF Fares
    <2>12. CASE s # t
        <3>1. task[s].phase = "calling" => w[task[s].client] = breaker[task[s].client]
            <4>1. task[s].phase = "calling" => task[s].client \in Client /\ task[s].client # c
                BY <1>0, <2>1, <2>12 DEF Listed
            <4> QED BY <2>7, <4>1
        <3>2. task[s].phase = "calling" =>
                 /\ DOMAIN w[task[s].client] = DOMAIN breaker[task[s].client]
                 /\ \A p \in DOMAIN breaker[task[s].client] :
                       stable /\ p \in Reliable /\ Usable(breaker[task[s].client][p])
                           => Usable(w[task[s].client][p])
            BY <3>1
        <3> QED BY <2>1, <2>2, <2>3, <2>4, <2>9, <2>10, <2>12, <3>2, OthersFare
    <2> QED BY <2>11, <2>12
<1>4. ASSUME NEW t \in Task, PeerAnswers(t), NEW s \in Task PROVE Fares(s)
    <2> DEFINE c == task[t].client
               p == Head(task[t].todo)
               cb == Tidy(Breaker!OnSuccess(breaker[c][p]))
               w == [breaker EXCEPT ![c][p] = cb]
    <2>1. /\ task' = [task EXCEPT ![t] = Inactive(TRUE)] /\ Keep(w) /\ stable' = stable
          /\ task[t].phase = "calling"
        BY <1>4 DEF PeerAnswers
    <2>2. task'[t].ok = TRUE /\ task'[t].phase = "idle" /\ \A u \in Task : u # t => task'[u] = task[u]
        BY <1>0, <2>1 DEF Inactive
    <2>3. c \in Client /\ p \in DOMAIN breaker[c]
        <3>1. task[t].todo \in Seq(Peer) /\ task[t].todo # <<>>
            BY <1>0, <2>1 DEF Inquiries
        <3>2. 1 \in DOMAIN task[t].todo /\ p = task[t].todo[1]
            BY <3>1
        <3> QED BY <1>0, <2>1, <3>2 DEF Listed
    <2>4. Quiet(breaker[c][p])
        BY <1>0, <2>3
    <2>5. Quiet(cb) /\ (Usable(breaker[c][p]) => Usable(cb))
        BY <2>4, ReportsAreQuiet, StaysUsable
    <2> HIDE DEF cb, c, p
    <2>6. Quietly(w) /\ \A d \in Client : Opens(breaker[d], w[d])
        <3>1. Quietly(w)
            BY <1>0, <2>5, ChangeIsQuiet
        <3>2. \A d \in Client : Opens(breaker[d], w[d])
            BY <1>0, <2>3, <2>5, ChangeOpens
        <3> QED BY <3>1, <3>2
    <2> HIDE DEF w
    <2>7. CASE s = t
        BY <2>2, <2>7 DEF Fares, Listed
    <2>8. CASE s # t
        <3>1. task'[s] = task[s]
            BY <2>2, <2>8
        <3>2. task[s].phase = "calling" => Opens(breaker[task[s].client], breaker'[task[s].client])
            <4>1. \A u \in Task : task'[u].client \in Client => breaker'[task'[u].client] = w[task'[u].client]
                BY <2>1, <2>6, KeepIsQuiet
            <4>2. task[s].phase = "calling" => task[s].client \in Client
                BY <1>0 DEF Listed
            <4> QED BY <2>6, <3>1, <4>1, <4>2
        <3>3. Unhindered(s)
            BY <2>1, <3>1, <3>2 DEF Unhindered, Opens
        <3> QED BY <1>0, <3>3, UnhinderedStays DEF Fares
    <2> QED BY <2>7, <2>8
<1>5. ASSUME NEW t \in Task, PeerRaises(t), NEW s \in Task PROVE Fares(s)
    <2> DEFINE c == task[t].client
               p == Head(task[t].todo)
               cb == Tidy(Breaker!OnFailures(breaker[c][p], 1))
               w == [breaker EXCEPT ![c][p] = cb]
               rest == Tail(task[t].todo)
    <2>1. /\ Advance(t, c, rest, w) /\ stable' = stable /\ task[t].phase = "calling"
          /\ stable => p \notin Reliable
        BY <1>5 DEF PeerRaises
    <2>2. task[t].todo \in Seq(Peer) /\ task[t].todo # <<>>
        BY <1>0, <2>1 DEF Inquiries
    <2>3. /\ 1 \in DOMAIN task[t].todo /\ p = task[t].todo[1] /\ rest \in Seq(Peer)
          /\ DOMAIN task[t].todo = 1 .. Len(task[t].todo) /\ Len(task[t].todo) \in Nat
          /\ DOMAIN rest = 1 .. Len(task[t].todo) - 1
          /\ \A k \in 1 .. Len(task[t].todo) - 1 : rest[k] = task[t].todo[k + 1]
        BY <2>2
    <2>4. c \in Client /\ \A k \in DOMAIN task[t].todo : task[t].todo[k] \in DOMAIN breaker[c]
        BY <1>0, <2>1 DEF Listed
    <2>5. p \in DOMAIN breaker[c]
        BY <2>3, <2>4
    <2>6. Quiet(breaker[c][p])
        BY <1>0, <2>4, <2>5
    <2>7. Quiet(cb)
        BY <2>6, ReportsAreQuiet
    <2> HIDE DEF cb, c, p, rest
    <2>8. Quietly(w)
        BY <1>0, <2>7, ChangeIsQuiet
    <2>9. w = [d \in Client |-> IF d = c THEN [breaker[d] EXCEPT ![p] = cb] ELSE breaker[d]]
        BY <1>0 DEF Quietly
    <2>10. \A d \in Client : w[d] = IF d = c THEN [breaker[d] EXCEPT ![p] = cb] ELSE breaker[d]
        BY <2>9
    <2> HIDE DEF w
    <2>11. ASSUME NEW d \in Client
           PROVE  /\ DOMAIN w[d] = DOMAIN breaker[d]
                  /\ \A x \in DOMAIN breaker[d] :
                        stable /\ x \in Reliable /\ Usable(breaker[d][x]) => Usable(w[d][x])
        <3>1. CASE d = c
            <4>1. w[d] = [breaker[c] EXCEPT ![p] = cb]
                BY <2>10, <3>1
            <4>2. /\ DOMAIN w[d] = DOMAIN breaker[c]
                  /\ \A x \in DOMAIN breaker[c] : x # p => w[d][x] = breaker[c][x]
                BY <4>1
            <4> QED BY <2>1, <3>1, <4>2
        <3>2. CASE d # c
            BY <2>10, <3>2
        <3> QED BY <3>1, <3>2
    <2>12. \A k \in DOMAIN rest : rest[k] \in DOMAIN w[c]
        <3>1. ASSUME NEW k \in DOMAIN rest PROVE k + 1 \in DOMAIN task[t].todo /\ rest[k] = task[t].todo[k + 1]
            BY <2>3, <3>1
        <3> QED BY <2>4, <2>11, <3>1
    <2>13. CASE s = t
        <3>1. Listed(t)'
            BY <2>1, <2>3, <2>4, <2>8, <2>12, AdvanceServes
        <3>2. ASSUME Assured(t) PROVE Assured(t)'
            <4>1. PICK k \in DOMAIN task[t].todo :
                      task[t].todo[k] \in Reliable /\ Usable(breaker[c][task[t].todo[k]])
                BY <2>1, <3>2 DEF Assured, Meets, c
            <4>2. stable
                BY <3>2 DEF Assured
            <4>3. k # 1
                BY <2>1, <2>3, <4>1, <4>2
            <4>4. k - 1 \in DOMAIN rest /\ rest[k - 1] = task[t].todo[k]
                <5>1. k - 1 \in 1 .. Len(task[t].todo) - 1 /\ (k - 1) + 1 = k
                    BY <2>3, <4>3
                <5> QED BY <2>3, <5>1
            <4>5. rest[k - 1] \in Reliable /\ Usable(w[c][rest[k - 1]])
                BY <2>4, <2>11, <4>1, <4>2, <4>4
            <4>6. task'[t].phase = "calling" /\ Meets(t)'
                BY <2>1, <2>3, <2>4, <2>8, <2>12, <4>4, <4>5, AdvanceServes
            <4> QED BY <2>1, <4>2, <4>6 DEF Assured
        <3> QED BY <2>13, <3>1, <3>2 DEF Fares
    <2>14. CASE s # t
        <3>1. task[s].phase = "calling" => task[s].client \in Client
            BY <1>0 DEF Listed
        <3>2. task[s].phase = "calling" =>
                 /\ DOMAIN w[task[s].client] = DOMAIN breaker[task[s].client]
                 /\ \A x \in DOMAIN breaker[task[s].client] :
                       stable /\ x \in Reliable /\ Usable(breaker[task[s].client][x])
                           => Usable(w[task[s].client][x])
            BY <2>11, <3>1
        <3> QED BY <2>1, <2>3, <2>4, <2>8, <2>12, <2>14, <3>2, OthersFare
    <2> QED BY <2>13, <2>14
<1>6. ASSUME NEW p, HeardOf(p) \/ ForgetPeer(p) \/ Settle, NEW s \in Task PROVE Fares(s)
    <2>1. task' = task /\ breaker' = breaker /\ (stable => stable')
        BY <1>6 DEF HeardOf, ForgetPeer, Settle
    <2>2. Unhindered(s)
        BY <2>1 DEF Unhindered
    <2> QED BY <1>0, <2>2, UnhinderedStays DEF Fares
<1>7. ASSUME PassTime, NEW s \in Task PROVE Fares(s)
    <2> DEFINE w == [c \in Client |-> [p \in DOMAIN breaker[c] |->
                       [breaker[c][p] EXCEPT !.elapsed = OneMore(breaker[c][p].elapsed, Rest)]]]
    <2>1. /\ task' = [t \in Task |->
                        IF task[t].phase = "finding"
                        THEN [task[t] EXCEPT !.age = OneMore(task[t].age, CacheTTL)] ELSE task[t]]
          /\ Keep(w) /\ stable' = stable
        BY <1>7 DEF PassTime
    <2>2. \A d \in Client : DOMAIN w[d] = DOMAIN breaker[d]
        OBVIOUS
    <2>3. \A d \in Client : \A p \in DOMAIN breaker[d] :
             Quiet(w[d][p]) /\ (Usable(breaker[d][p]) => Usable(w[d][p]))
        BY <1>0, ReportsAreQuiet, StaysUsable
    <2>4. Quietly(w)
        <3>1. \A d \in Client : w[d] = [p \in DOMAIN w[d] |-> w[d][p]]
            OBVIOUS
        <3>2. w = [d \in Client |-> w[d]]
            OBVIOUS
        <3> HIDE DEF w
        <3> QED BY <1>0, <2>2, <2>3, <3>1, <3>2 DEF Quietly
    <2> HIDE DEF w
    <2>5. \A d \in Client : Opens(breaker[d], w[d])
        BY <2>2, <2>3 DEF Opens
    <2>6. /\ task[s].phase # "finding" => task'[s] = task[s]
          /\ task[s].phase = "finding" => task'[s].phase = task[s].phase
        <3>1. task[s] \in Inquiries
            BY <1>0
        <3> QED BY <2>1, <3>1 DEF Inquiries
    <2>7. task[s].phase = "calling" => Opens(breaker[task[s].client], breaker'[task[s].client])
        <3>1. \A u \in Task : task'[u].client \in Client => breaker'[task'[u].client] = w[task'[u].client]
            BY <2>1, <2>4, KeepIsQuiet
        <3>2. task[s].phase = "calling" => task[s].client \in Client /\ task'[s] = task[s]
            BY <1>0, <2>6 DEF Listed
        <3> QED BY <2>5, <3>1, <3>2
    <2>8. Unhindered(s)
        BY <2>1, <2>6, <2>7 DEF Unhindered, Opens
    <2> QED BY <1>0, <2>8, UnhinderedStays DEF Fares
<1> QED BY <1>1, <1>2, <1>3, <1>4, <1>5, <1>6, <1>7 DEF PeersNext

\* Once the reliable peers have recovered for good, every task that looks them up is
\* answered or still has one of them in front of it whose circuit lets it, whatever the
\* other peers do, other tasks report, and clients are replaced (node/p2p.py): no forward
\* gives up while there is a good peer.  This is the part of OnePeerSuffices that needs no
\* fairness.
THEOREM GoodPeersServe == PeersSpec => [][AssuranceHolds]_peerVars
<1>1. PeersInit => PeersInv /\ AllListed
    <2>1. PeersInit => AllListed
        BY DEF PeersInit, Inactive, AllListed, Listed
    <2> QED BY <2>1, PeersMove
<1>2. PeersInv /\ AllListed /\ [PeersNext]_peerVars
          => PeersInv' /\ AllListed' /\ [AssuranceHolds]_peerVars
    <2>1. ASSUME PeersInv, AllListed, UNCHANGED peerVars PROVE AllListed'
        BY <2>1 DEF peerVars, AllListed, Listed
    <2> QED BY <2>1, PeersMove, AssuranceStep
<1> QED BY <1>1, <1>2, PTL DEF PeersSpec

-----------------------------------------------------------------------------
(* The slots of tasks.  Those who are at work and those who were woken have the       *)
(* slots that are not free, and a slot becomes free only when all who wait in the      *)
(* queue were woken; the others came after that, and a task that was woken looks once   *)
(* more before it goes to work.                                                      *)

CONSTANTS Runnable, Stoppable, Slots, MaxAttempts
VARIABLES backoff, free, waiters, place, attempts

Runner == INSTANCE TaskSlots WITH
    Task <- Runnable, Cancellable <- Stoppable, phase <- place

Queueing(p) == {t \in Runnable : p[t] \in {"queued", "woken"}}
Busy(p) == {t \in Runnable : p[t] \in {"using", "woken"}}
WakesAnother(f, p) ==
    f > 0 /\ (\E t \in Runnable : p[t] = "queued") => \E t \in Runnable : p[t] = "woken"

Given(f, p) ==
    /\ p \in [Runnable -> {"out", "asleep", "queued", "woken", "using"}]
    /\ f \in Nat /\ f + Cardinality(Busy(p)) = Slots
    /\ WakesAnother(f, p)

InQueue(q, p) == q \in Seq(Runnable) /\ IsInjective(q) /\ ToSet(q) = Queueing(p)

SlotsInv == Given(free, place) /\ InQueue(waiters, place)

\* How many have a slot when one more has, or one fewer.
LEMMA BusyCounts ==
    ASSUME IsFiniteSet(Runnable), NEW p, NEW t \in Runnable
    PROVE  /\ Cardinality(Busy(p)) \in Nat
           /\ Cardinality(Busy(p) \union {t}) =
                 IF t \in Busy(p) THEN Cardinality(Busy(p)) ELSE Cardinality(Busy(p)) + 1
           /\ Cardinality(Busy(p) \ {t}) =
                 IF t \in Busy(p) THEN Cardinality(Busy(p)) - 1 ELSE Cardinality(Busy(p))
<1>1. IsFiniteSet(Busy(p))
    <2>1. Busy(p) \in SUBSET Runnable
        BY DEF Busy
    <2> QED BY <2>1, FS_Subset
<1> QED BY <1>1, FS_CardinalityType, FS_AddElement, FS_RemoveElement

\* A task without a slot that stays without one, and does not begin to wait while it
\* could go to work, changes nothing for the others.
LEMMA WithoutSlot ==
    ASSUME SlotsInv, NEW t \in Runnable, t \notin Busy(place),
           NEW s \in {"out", "asleep", "queued"}, place' = [place EXCEPT ![t] = s],
           free' = free, s = "queued" => free = 0 \/ \E u \in Runnable : place[u] = "woken"
    PROVE  Given(free', place')
<1>1. Busy(place') = Busy(place)
    BY DEF Busy, SlotsInv, Given
<1>2. WakesAnother(free', place')
    BY DEF WakesAnother, SlotsInv, Given, Busy
<1> QED BY <1>1, <1>2 DEF SlotsInv, Given

\* acquire.
LEMMA AcquireKeepsSlots ==
    ASSUME IsFiniteSet(Runnable), SlotsInv, NEW t \in Runnable, place[t] \in {"out", "asleep"},
           Runner!Acquire(t)
    PROVE  SlotsInv'
<1>1. t \notin ToSet(waiters) /\ t \notin Busy(place)
    BY DEF SlotsInv, InQueue, Queueing, Busy
<1>2. /\ waiters \in Seq(Runnable) /\ free \in Nat /\ IsInjective(waiters)
      /\ place \in [Runnable -> {"out", "asleep", "queued", "woken", "using"}]
      /\ ToSet(waiters) = Queueing(place)
    BY DEF SlotsInv, Given, InQueue
<1>3. CASE free = 0 \/ waiters # <<>>
    <2>1. /\ place' = [place EXCEPT ![t] = "queued"] /\ free' = free
          /\ waiters' = Append(waiters, t)
        BY <1>3 DEF Runner!Acquire
    <2>2. free = 0 \/ \E u \in Runnable : place[u] = "woken"
        <3> SUFFICES ASSUME free # 0 PROVE \E u \in Runnable : place[u] = "woken"
            OBVIOUS
        <3>1. waiters[1] \in ToSet(waiters)
            <4>1. 1 \in DOMAIN waiters
                BY <1>2, <1>3
            <4> QED BY <4>1 DEF ToSet
        <3>2. waiters[1] \in Runnable /\ place[waiters[1]] \in {"queued", "woken"}
            BY <1>2, <3>1 DEF Queueing
        <3> QED BY <1>2, <3>2 DEF SlotsInv, Given, WakesAnother
    <2>3. Given(free', place')
        <3>1. "queued" \in {"out", "asleep", "queued"}
            OBVIOUS
        <3> QED BY <1>1, <2>1, <2>2, <3>1, WithoutSlot
    <2>4. IsInjective(waiters') /\ ToSet(waiters') = ToSet(waiters) \union {t}
        BY <1>1, <1>2, <2>1, AppendKeeps
    <2>5. waiters' \in Seq(Runnable)
        BY <1>2, <2>1
    <2>6. Queueing(place') = Queueing(place) \union {t}
        BY <1>2, <2>1 DEF Queueing
    <2> QED BY <1>2, <2>3, <2>4, <2>5, <2>6 DEF SlotsInv, InQueue
<1>4. CASE ~ (free = 0 \/ waiters # <<>>)
    <2>1. /\ place' = [place EXCEPT ![t] = "using"] /\ free' = free - 1
          /\ waiters' = waiters
        BY <1>4 DEF Runner!Acquire
    <2>2. Busy(place') = Busy(place) \union {t} /\ Queueing(place') = Queueing(place)
        BY <1>2, <2>1 DEF Busy, Queueing
    <2>3. Cardinality(Busy(place')) = Cardinality(Busy(place)) + 1 /\ Cardinality(Busy(place)) \in Nat
        BY <1>1, <2>2, BusyCounts
    <2>4. Queueing(place') = {}
        BY <1>2, <1>4, <2>2 DEF ToSet
    <2>5. WakesAnother(free', place')
        BY <2>4 DEF WakesAnother, Queueing
    <2>6. free' \in Nat /\ free' + Cardinality(Busy(place')) = Slots
        BY <1>2, <1>4, <2>1, <2>3 DEF SlotsInv, Given
    <2>7. place' \in [Runnable -> {"out", "asleep", "queued", "woken", "using"}]
        BY <1>2, <2>1
    <2> QED BY <1>2, <2>1, <2>2, <2>5, <2>6, <2>7 DEF SlotsInv, Given, InQueue
<1> QED BY <1>3, <1>4

\* A task leaves its slot, or begins to use the one it was woken for, and somebody is
\* woken if a slot is free then.
LEMMA WakesNext ==
    ASSUME IsFiniteSet(Runnable), SlotsInv, NEW t \in Busy(place), NEW s \in {"out", "using"},
           Runner!WakeNext(t, s, IF s = "out" THEN free + 1 ELSE free)
    PROVE  /\ Given(free', place')
           /\ Queueing(place') = Queueing(place) \ {t}
<1> DEFINE v == IF s = "out" THEN free + 1 ELSE free
           asleep == {i \in DOMAIN waiters : waiters[i] # t /\ place[waiters[i]] = "queued"}
<1>1. /\ waiters \in Seq(Runnable) /\ free \in Nat /\ t \in Runnable
      /\ place \in [Runnable -> {"out", "asleep", "queued", "woken", "using"}]
      /\ place[t] \in {"using", "woken"}
      /\ ToSet(waiters) = Queueing(place)
    BY DEF SlotsInv, Given, InQueue, Busy
<1>2. v \in Nat
    BY <1>1
<1>3. v + Cardinality(Busy(place)) = (IF s = "out" THEN Slots + 1 ELSE Slots) /\ Slots \in Nat
    <2>1. free + Cardinality(Busy(place)) = Slots /\ Cardinality(Busy(place)) \in Nat
        BY <1>1, BusyCounts DEF SlotsInv, Given
    <2> QED BY <1>1, <2>1
<1> DEFINE after == [place EXCEPT ![t] = s]
<1>4. v + Cardinality(Busy(after)) = Slots /\ Cardinality(Busy(after)) \in Nat
    <2>1. CASE s = "out"
        <3>1. Busy(after) = Busy(place) \ {t}
            BY <1>1, <2>1 DEF Busy
        <3>2. Cardinality(Busy(after)) = Cardinality(Busy(place)) - 1 /\ Cardinality(Busy(place)) \in Nat
            BY <1>1, <3>1, BusyCounts
        <3>3. Cardinality(Busy(after)) \in Nat
            BY <1>1, BusyCounts
        <3>4. v + Cardinality(Busy(place)) = Slots + 1
            BY <1>3, <2>1
        <3>5. Slots \in Nat
            BY <1>3
        <3> HIDE DEF v, after
        <3> QED BY <1>2, <3>2, <3>3, <3>4, <3>5
    <2>2. CASE s = "using"
        <3>1. Busy(after) = Busy(place)
            BY <1>1, <2>2 DEF Busy
        <3>2. Cardinality(Busy(place)) \in Nat
            BY <1>1, BusyCounts
        <3> HIDE DEF v, after
        <3> QED BY <1>3, <2>2, <3>1, <3>2
    <2> QED BY <2>1, <2>2
<1>5. after \in [Runnable -> {"out", "asleep", "queued", "woken", "using"}]
    BY <1>1
<1>6. Runner!WakeNext(t, s, v)
    OBVIOUS
<1>7. CASE v = 0 \/ asleep = {}
    <2>1. place' = after /\ free' = v
        BY <1>6, <1>7 DEF Runner!WakeNext
    <2>2. Queueing(place') = Queueing(place) \ {t}
        BY <1>1, <2>1 DEF Queueing
    <2>3. WakesAnother(free', place')
        <3> SUFFICES ASSUME v # 0, NEW u \in Runnable, after[u] = "queued" PROVE FALSE
            BY <1>2, <2>1 DEF WakesAnother
        <3>1. u # t /\ place[u] = "queued"
            BY <1>1
        <3>2. u \in ToSet(waiters)
            BY <1>1, <3>1 DEF Queueing
        <3>3. PICK i \in DOMAIN waiters : waiters[i] = u
            BY <3>2 DEF ToSet
        <3>4. i \in asleep
            BY <3>1, <3>3
        <3> QED BY <1>7, <3>4
    <2> HIDE DEF v, after
    <2> QED BY <1>2, <1>4, <1>5, <2>1, <2>2, <2>3 DEF Given
<1>8. CASE ~ (v = 0 \/ asleep = {})
    <2> DEFINE i == Runner!Min(asleep)
               u == waiters[i]
    <2>1. i \in asleep
        <3>1. asleep \in SUBSET Nat /\ asleep # {}
            BY <1>1, <1>8
        <3> HIDE DEF asleep
        <3>2. PICK m \in asleep : \A j \in 0 .. m - 1 : j \notin asleep
            BY <3>1, LeastNumber
        <3>3. \A j \in asleep : m <= j
            BY <3>1, <3>2
        <3> QED BY <3>2, <3>3 DEF Runner!Min
    <2>2. u # t /\ place[u] = "queued" /\ u \in Runnable
        BY <1>1, <2>1
    <2>3. place' = [place EXCEPT ![t] = s, ![u] = "woken"] /\ free' = v - 1
        BY <1>6, <1>8 DEF Runner!WakeNext
    <2> HIDE DEF u, i
    <2>4. place' = [after EXCEPT ![u] = "woken"] /\ after[u] = "queued"
        BY <1>1, <2>2, <2>3
    <2>5. Queueing(place') = Queueing(place) \ {t}
        BY <1>1, <2>2, <2>3 DEF Queueing
    <2> HIDE DEF after, v
    <2>6. Busy(place') = Busy(after) \union {u} /\ u \notin Busy(after)
        BY <1>5, <2>2, <2>4 DEF Busy
    <2>7. Cardinality(Busy(place')) = Cardinality(Busy(after)) + 1
        BY <2>2, <2>6, BusyCounts
    <2>8. free' \in Nat /\ free' + Cardinality(Busy(place')) = Slots
        BY <1>2, <1>4, <1>8, <2>3, <2>7
    <2>9. WakesAnother(free', place')
        BY <1>5, <2>2, <2>4 DEF WakesAnother
    <2>10. place' \in [Runnable -> {"out", "asleep", "queued", "woken", "using"}]
        BY <1>5, <2>2, <2>4
    <2> QED BY <2>5, <2>8, <2>9, <2>10 DEF Given
<1> QED BY <1>7, <1>8

\* Any step.
LEMMA SlotsStep ==
    ASSUME IsFiniteSet(Runnable), Stoppable \subseteq Runnable, SlotsInv, Runner!SlotsNext
    PROVE  SlotsInv'
<1> USE DEF SlotsInv
<1>1. ASSUME NEW t \in Runnable, place[t] \in {"out", "asleep"}, Runner!Attempt(t) PROVE SlotsInv'
    <2>1. CASE backoff /\ attempts[t] < MaxAttempts /\ free = 0
        <3>1. place' = [place EXCEPT ![t] = "asleep"] /\ free' = free /\ waiters' = waiters
            BY <1>1, <2>1 DEF Runner!Attempt
        <3>2. t \notin Busy(place)
            BY <1>1 DEF Busy
        <3>3. Given(free', place')
            <4>1. "asleep" \in {"out", "asleep", "queued"} /\ "asleep" # "queued"
                OBVIOUS
            <4> QED BY <1>1, <3>1, <3>2, <4>1, WithoutSlot
        <3>4. Queueing(place') = Queueing(place)
            BY <1>1, <3>1 DEF Given, Queueing
        <3> QED BY <3>1, <3>3, <3>4 DEF InQueue
    <2>2. CASE ~ (backoff /\ attempts[t] < MaxAttempts /\ free = 0)
        <3>1. Runner!Acquire(t)
            BY <1>1, <2>2 DEF Runner!Attempt
        <3> QED BY <1>1, <3>1, AcquireKeepsSlots
    <2> QED BY <2>1, <2>2
<1>2. ASSUME NEW t \in Runnable, Runner!Submit(t) \/ Runner!WakeUp(t) PROVE SlotsInv'
    BY <1>1, <1>2 DEF Runner!Submit, Runner!WakeUp
<1>3. \A t \in Runnable : /\ RemoveFirst(waiters, t) \in Seq(Runnable)
                          /\ IsInjective(RemoveFirst(waiters, t))
                          /\ ToSet(RemoveFirst(waiters, t)) = Queueing(place) \ {t}
    BY RemoveElements, RemoveKeeps DEF InQueue
<1>4. \A t \in Runnable : Runner!RemoveFirst(waiters, t) = RemoveFirst(waiters, t)
    BY DEF RemoveFirst, SelectInSeq, RemoveAt, Min, Runner!RemoveFirst, Runner!SelectInSeq,
           Runner!RemoveAt, Runner!Min
<1>5. ASSUME NEW t \in Runnable, place[t] \in {"using", "woken"}, NEW s \in {"out", "using"},
             Runner!WakeNext(t, s, IF s = "out" THEN free + 1 ELSE free),
             waiters' = IF place[t] = "woken" THEN RemoveFirst(waiters, t) ELSE waiters
      PROVE  SlotsInv'
    <2>1. t \in Busy(place)
        BY <1>5 DEF Busy
    <2>2. Given(free', place') /\ Queueing(place') = Queueing(place) \ {t}
        BY <1>5, <2>1, WakesNext
    <2>3. CASE place[t] = "woken"
        BY <1>3, <1>5, <2>2, <2>3 DEF InQueue
    <2>4. CASE place[t] = "using"
        <3>1. t \notin Queueing(place)
            BY <2>4 DEF Queueing
        <3> QED BY <1>5, <2>2, <2>4, <3>1 DEF InQueue
    <2> QED BY <1>5, <2>3, <2>4
<1>6. ASSUME NEW t \in Runnable, Runner!Resume(t) PROVE SlotsInv'
    <2>1. /\ place[t] = "woken" /\ Runner!WakeNext(t, "using", free)
          /\ waiters' = RemoveFirst(waiters, t)
        BY <1>4, <1>6 DEF Runner!Resume
    <2>2. Runner!WakeNext(t, "using", IF "using" = "out" THEN free + 1 ELSE free)
        BY <2>1
    <2>3. "using" \in {"out", "using"}
        OBVIOUS
    <2> QED BY <1>5, <2>1, <2>2, <2>3
<1>7. ASSUME NEW t \in Runnable, Runner!Finish(t) PROVE SlotsInv'
    <2>1. place[t] = "using" /\ Runner!WakeNext(t, "out", free + 1) /\ waiters' = waiters
        BY <1>7 DEF Runner!Finish
    <2>2. "out" \in {"out", "using"} /\ Runner!WakeNext(t, "out", IF "out" = "out" THEN free + 1 ELSE free)
        BY <2>1
    <2> QED BY <1>5, <2>1, <2>2
<1>8. ASSUME NEW t \in Runnable, Runner!Cancel(t) PROVE SlotsInv'
    <2>1. waiters' = RemoveFirst(waiters, t)
        BY <1>4, <1>8 DEF Runner!Cancel
    <2>2. CASE place[t] = "woken" /\ Runner!WakeNext(t, "out", free + 1)
        <3>1. "out" \in {"out", "using"} /\ Runner!WakeNext(t, "out", IF "out" = "out" THEN free + 1 ELSE free)
            BY <2>2
        <3> QED BY <1>5, <2>1, <2>2, <3>1
    <2>3. CASE /\ place[t] \in {"asleep", "queued"}
               /\ place' = [place EXCEPT ![t] = "out"] /\ free' = free
        <3>1. t \notin Busy(place)
            BY <2>3 DEF Busy
        <3>2. Given(free', place')
            <4>1. "out" \in {"out", "asleep", "queued"} /\ "out" # "queued"
                OBVIOUS
            <4> QED BY <2>3, <3>1, <4>1, WithoutSlot
        <3>3. Queueing(place') = Queueing(place) \ {t}
            BY <2>3 DEF Given, Queueing
        <3> QED BY <1>3, <2>1, <3>2, <3>3 DEF InQueue
    <2> QED BY <1>8, <2>2, <2>3 DEF Runner!Cancel
<1> QED BY <1>2, <1>6, <1>7, <1>8 DEF Runner!SlotsNext, Runner!Proceed

\* From the start, and after any step.
LEMMA SlotsKept ==
    ASSUME IsFiniteSet(Runnable), Stoppable \subseteq Runnable, Slots \in Nat
    PROVE  Runner!SlotsSpec => []SlotsInv
<1>1. Runner!SlotsInit => SlotsInv
    <2> SUFFICES ASSUME Runner!SlotsInit PROVE SlotsInv
        OBVIOUS
    <2>1. free = Slots /\ waiters = <<>> /\ place = [t \in Runnable |-> "out"]
        BY DEF Runner!SlotsInit
    <2>2. Busy(place) = {} /\ Queueing(place) = {}
        BY <2>1 DEF Busy, Queueing
    <2>3. Cardinality(Busy(place)) = 0
        BY <2>2, FS_EmptySet
    <2>4. Given(free, place)
        BY <2>1, <2>3 DEF Given, WakesAnother
    <2>5. InQueue(waiters, place)
        BY <2>1, <2>2, EmptySeq DEF InQueue, IsInjective, ToSet
    <2> QED BY <2>4, <2>5 DEF SlotsInv
<1>2. SlotsInv /\ [Runner!SlotsNext]_(Runner!slotsVars) => SlotsInv'
    <2>1. CASE UNCHANGED Runner!slotsVars
        BY <2>1 DEF Runner!slotsVars, SlotsInv
    <2> QED BY <2>1, SlotsStep
<1> QED BY <1>1, <1>2, PTL DEF Runner!SlotsSpec

\* Whatever tasks come, wait, are woken or cancelled, there are never more at work than
\* slots (task_runner.py, resource_manager.py), and no wake-up is lost.
THEOREM SlotsAlwaysShared ==
    ASSUME IsFiniteSet(Runnable), Stoppable \subseteq Runnable, Slots \in Nat
    PROVE  Runner!SlotsSpec => []Runner!SlotsAreShared
<1>1. Runner!SlotsSpec => []SlotsInv
    BY SlotsKept
<1>2. SlotsInv => Runner!SlotsAreShared
    <2> SUFFICES ASSUME SlotsInv PROVE Runner!SlotsAreShared
        OBVIOUS
    <2> DEFINE using == {t \in Runnable : place[t] = "using"}
    <2>1. Cardinality(using) <= Cardinality(Busy(place)) /\ Cardinality(using) \in Nat
        <3>1. using \in SUBSET Busy(place) /\ Busy(place) \in SUBSET Runnable
            BY DEF Busy
        <3> HIDE DEF using
        <3>2. IsFiniteSet(Busy(place))
            BY <3>1, FS_Subset
        <3> QED BY <3>1, <3>2, FS_Subset, FS_CardinalityType
    <2>2. Cardinality(using) <= Slots
        <3>1. free \in Nat /\ free + Cardinality(Busy(place)) = Slots
            BY DEF SlotsInv, Given
        <3>2. Cardinality(Busy(place)) \in Nat
            BY FS_CardinalityType, FS_Subset DEF Busy
        <3> HIDE DEF using
        <3> QED BY <2>1, <3>1, <3>2
    <2>3. Runner!Cardinality(using) = Cardinality(using)
        BY DEF Cardinality, Runner!Cardinality
    <2>4. WakesAnother(free, place)
        BY DEF SlotsInv, Given
    <2> QED BY <2>2, <2>3, <2>4 DEF WakesAnother, Runner!SlotsAreShared
<1> QED BY <1>1, <1>2, PTL

\* Those who were woken are in front of those who were not.
TurnInv == \A x, y : InFrontOf(waiters, x, y) /\ place[y] = "woken" => place[x] = "woken"

\* y is behind x: it does not wait for a slot yet, or waits behind x.
Behind(x, y) ==
    \/ place[y] \in {"out", "asleep"}
    \/ place[y] = "queued" /\ InFrontOf(waiters, x, y)

\* Who is behind a task that waits is behind it until that task is woken or cancelled.
NobodyOvertakes ==
    \A x, y \in Runnable :
        place[x] = "queued" /\ place'[x] # "out" /\ Behind(x, y) => Behind(x, y)'

\* What a step does to the queue: task t sleeps, or begins to wait or to work ...
Arrives(t, s) ==
    /\ t \notin ToSet(waiters)
    /\ place' = [place EXCEPT ![t] = s]
    /\ \/ s = "queued" /\ waiters' = Append(waiters, t)
       \/ s = "asleep" /\ waiters' = waiters
       \/ s = "using" /\ waiters' = waiters /\ waiters = <<>>

\* ... or leaves the queue, or its slot ...
Leaves(t, s) ==
    /\ s \in {"out", "using"} /\ (place[t] = "queued" => s = "out")
    /\ s = "using" => place[t] = "woken"
    /\ waiters' = RemoveFirst(waiters, t)

\* ... and the first who still waits is woken.
Wakes(t, s, u) ==
    /\ place[t] \in {"using", "woken"} /\ u # t /\ place[u] = "queued"
    /\ place' = [place EXCEPT ![t] = s, ![u] = "woken"]
    /\ \A x : InFrontOf(waiters, x, u) => x = t \/ place[x] # "queued"

Moves(t, s) ==
    \/ Arrives(t, s)
    \/ Leaves(t, s) /\ place' = [place EXCEPT ![t] = s]
    \/ Leaves(t, s) /\ \E u \in Runnable : Wakes(t, s, u)

\* Whom WakeNext wakes.
LEMMA WakesFirst ==
    ASSUME SlotsInv, NEW t \in Runnable, place[t] \in {"using", "woken"},
           NEW s, NEW v \in Nat, Runner!WakeNext(t, s, v)
    PROVE  \/ place' = [place EXCEPT ![t] = s]
           \/ \E u \in Runnable : Wakes(t, s, u)
<1> DEFINE asleep == {i \in DOMAIN waiters : waiters[i] # t /\ place[waiters[i]] = "queued"}
<1>1. /\ waiters \in Seq(Runnable) /\ DOMAIN waiters \in SUBSET Nat /\ IsInjective(waiters)
      /\ \A i \in DOMAIN waiters : waiters[i] \in Runnable
    BY DEF SlotsInv, InQueue
<1>2. CASE v = 0 \/ asleep = {}
    BY <1>2 DEF Runner!WakeNext
<1>3. CASE ~ (v = 0 \/ asleep = {})
    <2> DEFINE i == Runner!Min(asleep)
               u == waiters[i]
    <2>1. i \in asleep /\ \A j \in asleep : i <= j
        <3>1. asleep \in SUBSET Nat /\ asleep # {}
            BY <1>1, <1>3
        <3> HIDE DEF asleep
        <3>2. PICK m \in asleep : \A j \in 0 .. m - 1 : j \notin asleep
            BY <3>1, LeastNumber
        <3>3. \A j \in asleep : m <= j
            BY <3>1, <3>2
        <3> QED BY <3>1, <3>2, <3>3 DEF Runner!Min
    <2>2. place' = [place EXCEPT ![t] = s, ![u] = "woken"]
        BY <1>3 DEF Runner!WakeNext
    <2>3. u \in Runnable /\ u # t /\ place[u] = "queued"
        BY <1>1, <2>1
    <2>4. ASSUME NEW x, InFrontOf(waiters, x, u), x # t, place[x] = "queued" PROVE FALSE
        <3>1. PICK k \in DOMAIN waiters, l \in DOMAIN waiters :
                  k < l /\ waiters[k] = x /\ waiters[l] = u
            BY <2>4 DEF InFrontOf
        <3>2. l = i
            BY <1>1, <2>1, <3>1 DEF IsInjective
        <3>3. k \in asleep
            BY <2>4, <3>1
        <3> HIDE DEF asleep, u, i
        <3>4. i <= k /\ k < i /\ i \in Nat /\ k \in Nat
            BY <1>1, <2>1, <3>1, <3>2, <3>3
        <3> QED BY <3>4
    <2> HIDE DEF u, i, asleep
    <2> QED BY <2>2, <2>3, <2>4 DEF Wakes
<1> QED BY <1>2, <1>3

\* Every step is one of these.
LEMMA QueueStep ==
    ASSUME Stoppable \subseteq Runnable, SlotsInv, Runner!SlotsNext
    PROVE  \E t \in Runnable, s \in {"out", "asleep", "queued", "using"} : Moves(t, s)
<1> DEFINE Phases == {"out", "asleep", "queued", "using"}
<1>0. /\ waiters \in Seq(Runnable) /\ free \in Nat
      /\ \A t \in Runnable : t \in ToSet(waiters) <=> place[t] \in {"queued", "woken"}
      /\ \A t \in Runnable : Runner!RemoveFirst(waiters, t) = RemoveFirst(waiters, t)
    BY DEF SlotsInv, Given, InQueue, Queueing, RemoveFirst, SelectInSeq, RemoveAt, Min,
           Runner!RemoveFirst, Runner!SelectInSeq, Runner!RemoveAt, Runner!Min
<1>1. ASSUME NEW t \in Runnable, place[t] \in {"out", "asleep"}, Runner!Attempt(t)
      PROVE  \E s \in Phases : Arrives(t, s)
    <2>1. t \notin ToSet(waiters)
        BY <1>0, <1>1
    <2>2. CASE backoff /\ attempts[t] < MaxAttempts /\ free = 0
        <3>1. Arrives(t, "asleep")
            BY <1>1, <2>1, <2>2 DEF Runner!Attempt, Arrives
        <3> QED BY <3>1
    <2>3. CASE ~ (backoff /\ attempts[t] < MaxAttempts /\ free = 0)
        <3>1. Runner!Acquire(t)
            BY <1>1, <2>3 DEF Runner!Attempt
        <3>2. Arrives(t, "queued") \/ Arrives(t, "using")
            BY <2>1, <3>1 DEF Runner!Acquire, Arrives
        <3> QED BY <3>2
    <2> QED BY <2>2, <2>3
<1>2. ASSUME NEW t \in Runnable, Runner!Submit(t) \/ Runner!WakeUp(t)
      PROVE  \E s \in Phases : Arrives(t, s)
    BY <1>1, <1>2 DEF Runner!Submit, Runner!WakeUp
<1>3. ASSUME NEW t \in Runnable, Runner!Resume(t)
      PROVE  Moves(t, "using")
    <2>1. Leaves(t, "using")
        BY <1>0, <1>3 DEF Runner!Resume, Leaves
    <2>2. place[t] \in {"using", "woken"} /\ free \in Nat /\ Runner!WakeNext(t, "using", free)
        BY <1>0, <1>3 DEF Runner!Resume
    <2>3. \/ place' = [place EXCEPT ![t] = "using"]
          \/ \E u \in Runnable : Wakes(t, "using", u)
        BY <2>2, WakesFirst
    <2> QED BY <2>1, <2>3 DEF Moves
<1>4. ASSUME NEW t \in Runnable, place[t] \in {"using", "woken"},
             Runner!WakeNext(t, "out", free + 1), waiters' = RemoveFirst(waiters, t)
      PROVE  Moves(t, "out")
    <2>1. Leaves(t, "out")
        BY <1>4 DEF Leaves
    <2>2. free + 1 \in Nat
        BY <1>0
    <2>3. \/ place' = [place EXCEPT ![t] = "out"]
          \/ \E u \in Runnable : Wakes(t, "out", u)
        BY <1>4, <2>2, WakesFirst
    <2> QED BY <2>1, <2>3 DEF Moves
<1>5. ASSUME NEW t \in Runnable, Runner!Finish(t)
      PROVE  Moves(t, "out")
    <2>1. place[t] = "using" /\ Runner!WakeNext(t, "out", free + 1) /\ waiters' = waiters
        BY <1>5 DEF Runner!Finish
    <2>2. t \notin ToSet(waiters)
        BY <1>0, <2>1
    <2>3. waiters' = RemoveFirst(waiters, t)
        BY <1>0, <2>1, <2>2, RemoveElements
    <2> QED BY <1>4, <2>1, <2>3
<1>6. ASSUME NEW t \in Runnable, Runner!Cancel(t)
      PROVE  Moves(t, "out")
    <2>1. waiters' = RemoveFirst(waiters, t)
        BY <1>0, <1>6 DEF Runner!Cancel
    <2>2. CASE place[t] = "woken" /\ Runner!WakeNext(t, "out", free + 1)
        BY <1>4, <2>1, <2>2
    <2>3. CASE place' = [place EXCEPT ![t] = "out"]
        BY <2>1, <2>3 DEF Leaves, Moves
    <2> QED BY <1>6, <2>2, <2>3 DEF Runner!Cancel
<1> QED BY <1>2, <1>3, <1>5, <1>6 DEF Runner!SlotsNext, Runner!Proceed, Moves

\* Which keeps the order in which slots are given.
LEMMA TurnStep ==
    ASSUME SlotsInv, TurnInv, NEW t \in Runnable, NEW s \in {"out", "asleep", "queued", "using"},
           Moves(t, s)
    PROVE  TurnInv' /\ NobodyOvertakes
<1>1. /\ waiters \in Seq(Runnable) /\ IsInjective(waiters)
      /\ place \in [Runnable -> {"out", "asleep", "queued", "woken", "using"}]
      /\ \A u \in Runnable : u \in ToSet(waiters) <=> place[u] \in {"queued", "woken"}
      /\ \A x \in ToSet(waiters) : x \in Runnable
    BY DEF SlotsInv, Given, InQueue, Queueing, ToSet
<1>2. \A x, y : InFrontOf(waiters, x, y) => x \in ToSet(waiters) /\ y \in ToSet(waiters)
    BY DEF InFrontOf, ToSet
<1>3. CASE Arrives(t, s)
    <2>1. CASE waiters' = waiters
        <3>1. \A u \in Runnable : u # t => place'[u] = place[u]
            BY <1>1, <1>3 DEF Arrives
        <3>2. place'[t] = s /\ s # "woken" /\ t \notin ToSet(waiters)
            BY <1>1, <1>3 DEF Arrives
        <3>3. TurnInv'
            BY <1>1, <1>2, <2>1, <3>1, <3>2 DEF TurnInv, InFrontOf
        <3>4. ASSUME NEW x \in Runnable, NEW y \in Runnable, place[x] = "queued", Behind(x, y)
              PROVE  Behind(x, y)'
            <4>1. x \in ToSet(waiters)
                BY <1>1, <3>4
            <4>2. waiters # <<>>
                BY <4>1 DEF ToSet
            <4>3. s \in {"asleep", "queued"}
                BY <1>3, <4>2 DEF Arrives
            <4>4. CASE y = t /\ s = "asleep"
                BY <3>2, <4>4 DEF Behind
            <4>5. CASE y = t /\ s = "queued"
                <5>1. waiters' = Append(waiters, t)
                    BY <1>3, <4>5 DEF Arrives
                <5>2. Len(waiters') = Len(waiters) + 1 /\ Len(waiters) \in Nat
                    BY <1>1, <5>1
                <5> QED BY <2>1, <5>2
            <4>6. CASE y # t
                BY <2>1, <3>1, <3>4, <4>6 DEF Behind, InFrontOf
            <4> QED BY <4>3, <4>4, <4>5, <4>6
        <3> QED BY <3>3, <3>4 DEF NobodyOvertakes
    <2>2. CASE s = "queued" /\ waiters' = Append(waiters, t)
        <3>1. /\ t \notin ToSet(waiters) /\ place'[t] = "queued"
              /\ \A u \in Runnable : u # t => place'[u] = place[u]
            BY <1>1, <1>3, <2>2 DEF Arrives
        <3>2. /\ \A x, y : InFrontOf(waiters, x, y) => InFrontOf(waiters', x, y)
              /\ \A x \in ToSet(waiters) : InFrontOf(waiters', x, t)
              /\ \A x, y : y # t /\ InFrontOf(waiters', x, y) => InFrontOf(waiters, x, y)
            BY <1>1, <2>2, AppendOrder
        <3>3. ASSUME NEW x, NEW y, InFrontOf(waiters', x, y), place'[y] = "woken"
              PROVE  place'[x] = "woken"
            <4>1. y # t
                BY <3>1, <3>3
            <4>2. InFrontOf(waiters, x, y)
                BY <3>2, <3>3, <4>1
            <4>3. x \in Runnable /\ y \in Runnable /\ x # t
                BY <1>1, <1>2, <3>1, <4>2
            <4> QED BY <3>1, <3>3, <4>1, <4>2, <4>3 DEF TurnInv
        <3>4. ASSUME NEW x \in Runnable, NEW y \in Runnable, place[x] = "queued", Behind(x, y)
              PROVE  Behind(x, y)'
            <4>1. x \in ToSet(waiters)
                BY <1>1, <3>4
            <4>2. CASE y = t
                BY <3>1, <3>2, <4>1, <4>2 DEF Behind
            <4>3. CASE y # t
                BY <3>1, <3>2, <3>4, <4>3 DEF Behind
            <4> QED BY <4>2, <4>3
        <3>5. TurnInv'
            BY <3>3 DEF TurnInv
        <3> QED BY <3>4, <3>5 DEF NobodyOvertakes
    <2> QED BY <1>3, <2>1, <2>2 DEF Arrives
<1>4. ASSUME Leaves(t, s)
      PROVE  /\ \A x, y : InFrontOf(waiters', x, y) <=> InFrontOf(waiters, x, y) /\ x # t /\ y # t
             /\ s \in {"out", "using"}
             /\ place[t] = "queued" => s = "out"
             /\ s = "using" => place[t] = "woken"
    <2>1. waiters' = RemoveFirst(waiters, t)
        BY <1>4 DEF Leaves
    <2> QED BY <1>1, <1>4, <2>1, RemoveOrder DEF Leaves
<1>5. CASE Leaves(t, s) /\ place' = [place EXCEPT ![t] = s]
    <2>1. place'[t] = s /\ \A u \in Runnable : u # t => place'[u] = place[u]
        BY <1>1, <1>5
    <2>2. TurnInv'
        BY <1>1, <1>2, <1>4, <1>5, <2>1 DEF TurnInv
    <2>3. ASSUME NEW x \in Runnable, NEW y \in Runnable, place[x] = "queued", place'[x] # "out",
                 Behind(x, y)
          PROVE  Behind(x, y)'
        <3>1. x # t
            BY <1>4, <1>5, <2>1, <2>3
        <3>2. CASE y = t
            <4>1. s = "out"
                BY <1>4, <1>5, <2>3, <3>2 DEF Behind
            <4> QED BY <2>1, <3>2, <4>1 DEF Behind
        <3>3. CASE y # t
            BY <1>4, <1>5, <2>1, <2>3, <3>1, <3>3 DEF Behind
        <3> QED BY <3>2, <3>3
    <2> QED BY <2>2, <2>3 DEF NobodyOvertakes
<1>6. ASSUME Leaves(t, s), NEW u \in Runnable, Wakes(t, s, u)
      PROVE  TurnInv' /\ NobodyOvertakes
    <2>1. /\ place'[t] = s /\ place'[u] = "woken" /\ u # t
          /\ place[t] \in {"using", "woken"} /\ place[u] = "queued"
          /\ \A x \in Runnable : x # t /\ x # u => place'[x] = place[x]
        BY <1>1, <1>6 DEF Wakes
    <2>2. \A x : InFrontOf(waiters, x, u) => x = t \/ place[x] # "queued"
        BY <1>6 DEF Wakes
    <2>3. ASSUME NEW x, NEW y, InFrontOf(waiters', x, y), place'[y] = "woken"
          PROVE  place'[x] = "woken"
        <3>1. InFrontOf(waiters, x, y) /\ x # t /\ y # t
            BY <1>4, <1>6, <2>3
        <3>2. x \in Runnable /\ y \in Runnable /\ place[x] \in {"queued", "woken"}
            BY <1>1, <1>2, <3>1
        <3>3. CASE x = u
            BY <2>1, <3>3
        <3>4. CASE x # u /\ y = u
            BY <2>1, <2>2, <3>1, <3>2, <3>4
        <3>5. CASE x # u /\ y # u
            <4>1. place[y] = "woken"
                BY <2>1, <2>3, <3>1, <3>2, <3>5
            <4>2. place[x] = "woken"
                BY <3>1, <4>1 DEF TurnInv
            <4> QED BY <2>1, <3>1, <3>2, <3>5, <4>2
        <3> QED BY <3>3, <3>4, <3>5
    <2>4. ASSUME NEW x \in Runnable, NEW y \in Runnable, place[x] = "queued", Behind(x, y)
          PROVE  Behind(x, y)'
        <3>1. x # t /\ y # t
            BY <2>1, <2>4 DEF Behind
        <3>2. y # u
            BY <2>1, <2>2, <2>4, <3>1 DEF Behind
        <3>3. place'[y] = place[y]
            BY <2>1, <3>1, <3>2
        <3> QED BY <1>4, <1>6, <2>4, <3>1, <3>3 DEF Behind
    <2>5. TurnInv'
        BY <2>3 DEF TurnInv
    <2> QED BY <2>4, <2>5 DEF NobodyOvertakes
<1> QED BY <1>3, <1>5, <1>6 DEF Moves

\* Slots are given in the order in which tasks began to wait (node/task_runner.py,
\* node/resource_manager.py): a task that comes, sleeps or waits behind another that waits
\* has no slot until that one was woken or gave up.  This is the part of WaitersGetSlots
\* that needs no fairness.
THEOREM SlotsServedInTurn ==
    ASSUME IsFiniteSet(Runnable), Stoppable \subseteq Runnable, Slots \in Nat
    PROVE  Runner!SlotsSpec => [][NobodyOvertakes]_(Runner!slotsVars)
<1>1. Runner!SlotsInit => TurnInv
    BY DEF Runner!SlotsInit, TurnInv, InFrontOf
<1>2. SlotsInv /\ TurnInv /\ [Runner!SlotsNext]_(Runner!slotsVars)
          => TurnInv' /\ [NobodyOvertakes]_(Runner!slotsVars)
    <2> SUFFICES ASSUME SlotsInv, TurnInv, [Runner!SlotsNext]_(Runner!slotsVars)
                 PROVE  TurnInv' /\ [NobodyOvertakes]_(Runner!slotsVars)
        OBVIOUS
    <2>1. CASE UNCHANGED Runner!slotsVars
        BY <2>1 DEF Runner!slotsVars, TurnInv, InFrontOf
    <2>2. CASE Runner!SlotsNext
        BY <2>2, QueueStep, TurnStep
    <2> QED BY <2>1, <2>2
<1>3. Runner!SlotsSpec => []SlotsInv
    BY SlotsKept
<1> QED BY <1>1, <1>2, <1>3, PTL DEF Runner!SlotsSpec

-----------------------------------------------------------------------------
(* The life of a node server.  Nothing that a node needs in order to serve is closed      *)
(* but by a stop, and a stop that begins while it serves ends it.                          *)

CONSTANT Term
VARIABLES step, onDuty, chain, dht, receiver, listening, stops

Process == INSTANCE Lifecycle WITH Signal <- Term, running <- onDuty

\* No stop has begun in this process.
Undisturbed == \A s \in Term : stops[s] \in {"unsent", "asked"}

RunsServing == onDuty => step = "serving"

\* A node that serves and that nobody stopped has all that it opened.
ServesWhole ==
    step = "serving" /\ Undisturbed
        => onDuty /\ chain = "open" /\ dht = "up" /\ receiver /\ listening

\* What start has opened by the time it waits for something.
OpensInTurn ==
    Undisturbed =>
        /\ step \in {"connecting", "registering", "joining", "opening"} => chain = "open"
        /\ step \in {"joining", "opening"} => dht = "up"
        /\ step = "opening" => receiver

ProcessInv ==
    /\ DOMAIN stops = Term
    /\ RunsServing /\ OpensInTurn /\ ServesWhole

\* A node that serves and no longer runs is on its way out, and a stop that begins
\* puts it there.
StopsForGood ==
    /\ step = "serving" /\ ~ onDuty => step' \in {"serving", "ended"} /\ ~ onDuty'
    /\ \A s \in Term : step = "serving" /\ stops[s] = "asked" /\ stops'[s] # "asked"
                          => ~ onDuty' \/ step' = "ended"

\* Every action of the life keeps the invariant and the property of its steps.
LEMMA ProcessStep ==
    ASSUME ProcessInv, Process!LifecycleNext
    PROVE  ProcessInv' /\ StopsForGood
<1> USE DEF ProcessInv, RunsServing, OpensInTurn, ServesWhole, Undisturbed, StopsForGood, Process!Go
<1>1. ASSUME Process!Connect PROVE ProcessInv' /\ StopsForGood
    BY <1>1 DEF Process!Connect
<1>2. ASSUME Process!Register PROVE ProcessInv' /\ StopsForGood
    BY <1>2 DEF Process!Register
<1>3. ASSUME Process!Join PROVE ProcessInv' /\ StopsForGood
    BY <1>3 DEF Process!Join
<1>4. ASSUME Process!Listen PROVE ProcessInv' /\ StopsForGood
    BY <1>4 DEF Process!Listen
<1>5. ASSUME Process!Serve PROVE ProcessInv' /\ StopsForGood
    BY <1>5 DEF Process!Serve
<1>6. ASSUME Process!StartFails PROVE ProcessInv' /\ StopsForGood
    BY <1>6 DEF Process!StartFails
<1>7. ASSUME Process!JobLoop PROVE ProcessInv' /\ StopsForGood
    BY <1>7 DEF Process!JobLoop, Process!lifecycleVars
<1>8. ASSUME Process!JobLoopEnds PROVE ProcessInv' /\ StopsForGood
    BY <1>8 DEF Process!JobLoopEnds
<1>9. ASSUME Process!Restart PROVE ProcessInv' /\ StopsForGood
    BY <1>9 DEF Process!Restart
<1>10. ASSUME NEW s \in Term, Process!Handle(s) PROVE ProcessInv' /\ StopsForGood
    BY <1>10 DEF Process!Handle
<1>11. ASSUME NEW s \in Term, Process!Stop(s) PROVE ProcessInv' /\ StopsForGood
    BY <1>11 DEF Process!Stop
<1>12. ASSUME NEW s \in Term, Process!StopNetwork(s) PROVE ProcessInv' /\ StopsForGood
    BY <1>12 DEF Process!StopNetwork
<1>13. ASSUME NEW s \in Term, Process!StopReturns(s) PROVE ProcessInv' /\ StopsForGood
    BY <1>13 DEF Process!StopReturns
<1> HIDE DEF ProcessInv, StopsForGood
<1> QED BY <1>1, <1>2, <1>3, <1>4, <1>5, <1>6, <1>7, <1>8, <1>9, <1>10, <1>11, <1>12, <1>13
        DEF Process!LifecycleNext

\* A node that serves keeps what it opened until a stop begins, whenever signals came
\* during its start, and a stop that begins while it serves leaves it not running, which
\* stays so until the process has ended (server.py, start and stop).
THEOREM StopsEndServing ==
    Process!LifecycleInit /\ [][Process!LifecycleNext]_(Process!lifecycleVars)
        => [](RunsServing /\ ServesWhole) /\ [][StopsForGood]_(Process!lifecycleVars)
<1>1. Process!LifecycleInit => ProcessInv
    BY DEF Process!LifecycleInit, ProcessInv, RunsServing, OpensInTurn, ServesWhole
<1>2. ProcessInv /\ [Process!LifecycleNext]_(Process!lifecycleVars) => ProcessInv'
    <2>1. ASSUME ProcessInv, UNCHANGED Process!lifecycleVars PROVE ProcessInv'
        BY <2>1 DEF Process!lifecycleVars, ProcessInv, RunsServing, OpensInTurn, ServesWhole, Undisturbed
    <2> QED BY <2>1, ProcessStep
<1>3. ProcessInv /\ [Process!LifecycleNext]_(Process!lifecycleVars)
          => [StopsForGood]_(Process!lifecycleVars)
    BY ProcessStep
<1>4. ProcessInv => RunsServing /\ ServesWhole
    BY DEF ProcessInv
<1> QED BY <1>1, <1>2, <1>3, <1>4, PTL
=============================================================================
