------------------------------ MODULE MCServices ------------------------------
(***************************************************************************)
(* Small instances of the components around a node that share no state: a    *)
(* behaviour is one of the component it begins with, the others rest.  The    *)
(* modules that theorems are about are extended, the others are instances.   *)
(***************************************************************************)
EXTENDS CircuitBreaker, RpcPool, Dispatch, Topology, ModelRegistry, Gateway, Adapters,
        Settlement, ResultCache, Discovery, Gossip, ShardPeers, TLC

VARIABLES
    part,                                                               \* whose behaviour it is
    backoff, free, waiters, phase, attempts,                            \* TaskSlots
    step, going, chain, dht, receiver, listening, stops               \* Lifecycle

\* Two peers, of which one is managed and the other reliable.
Stakes == ("p1" :> 2) @@ ("p2" :> 1)

\* Of the two nodes for one request at a time one succeeds, the other loses disputes.
Costs == ("n1" :> 1) @@ ("n2" :> 2)
Latencies == ("n1" :> 100) @@ ("n2" :> 50)
Fates == ("n1" :> {"success"}) @@ ("n2" :> {"dispute"})

\* Two slots for three good adapters and one that is broken in its second module.
MCModules == <<"m1", "m2">>
MCBroken == [a \in Adapter |-> IF a = "a2" THEN {"m2"} ELSE {}]

\* Two jobs of different amounts.
Amounts == ("j1" :> 1) @@ ("j2" :> 2)

\* Two shards on three nodes: latencies of two kinds, and loads that differ.
Nodes == {"n1", "n2", "n3"}
Symmetric(x, y, z) ==
    [p \in Nodes \X Nodes |-> CASE {p[1], p[2]} = {"n1", "n2"} -> x
                                [] {p[1], p[2]} = {"n2", "n3"} -> y
                                [] {p[1], p[2]} = {"n1", "n3"} -> z
                                [] OTHER -> 0]
LatencyMatrices == {Symmetric(1, 5, 9), Symmetric(5, 2, 2)}
Spread == [s \in SUBSET Nodes |-> IF "n3" \in s /\ s # {"n3"} THEN 2 ELSE 0]

\* The second of the two models is supported twice, the first only by the server.
SupportedModels == <<"m2", "m2">>

\* Two nodes of one shard and one of another.
Sharding == ("n1" :> 0) @@ ("n2" :> 1) @@ ("n3" :> 1)

\* Three tasks, of which two may be cancelled, for two slots.
Runner == INSTANCE TaskSlots WITH
    Task <- {"t1", "t2", "t3"}, Cancellable <- {"t2", "t3"}, Slots <- 2, MaxAttempts <- 2

\* Two signals.
Process == INSTANCE Lifecycle WITH Signal <- {"term", "int"}, running <- going

-----------------------------------------------------------------------------
\* The variables of every part but x stay as they are.
Only(x) ==
    /\ part = x /\ UNCHANGED part
    /\ x # "breaker" => UNCHANGED vars
    /\ x # "peers" => UNCHANGED peerVars
    /\ x # "pool" => UNCHANGED poolVars
    /\ x # "dispatch" => UNCHANGED dispatchVars
    /\ x # "gossip" => UNCHANGED gossipVars
    /\ x # "gateway" => UNCHANGED gatewayVars
    /\ x # "adapters" => UNCHANGED adapterVars
    /\ x # "settlement" => UNCHANGED settlementVars
    /\ x # "topology" => UNCHANGED topologyVars
    /\ x # "results" => UNCHANGED cacheVars
    /\ x # "models" => UNCHANGED registryVars
    /\ x # "discovery" => UNCHANGED discoveryVars
    /\ x # "slots" => UNCHANGED <<backoff, free, waiters, phase, attempts>>
    /\ x # "process" => UNCHANGED <<step, going, chain, dht, receiver, listening, stops>>

servicesVars ==
    <<part, vars, poolVars, dispatchVars, topologyVars, registryVars, gatewayVars, adapterVars,
      settlementVars, cacheVars, discoveryVars, gossipVars, peerVars,
      backoff, free, waiters, phase, attempts,
      step, going, chain, dht, receiver, listening, stops>>

ServicesInit ==
    /\ part \in {"breaker", "peers", "pool", "dispatch", "gossip", "gateway", "adapters",
                 "settlement", "topology", "results", "models", "discovery", "slots",
                 "process"}
    /\ Init /\ PeersInit /\ PoolInit /\ DispatchInit
    /\ GossipInit /\ GatewayInit /\ AdaptersInit /\ SettlementInit
    /\ TopologyInit /\ CacheInit /\ RegistryInit /\ DiscoveryInit
    /\ Runner!SlotsInit /\ Process!LifecycleInit
    /\ part # "gateway" => connected
    /\ part # "slots" => backoff
    /\ part # "topology" => matrix = Symmetric(5, 2, 2) /\ deployed = [i \in 0 .. 1 |-> "n1"]

ServicesNext ==
    \/ part = "breaker" /\ Next /\ Only("breaker")
    \/ part = "peers" /\ PeersNext /\ Only("peers")
    \/ part = "pool" /\ PoolNext /\ Only("pool")
    \/ part = "dispatch" /\ DispatchNext /\ Only("dispatch")
    \/ part = "gossip" /\ GossipNext /\ Only("gossip")
    \/ part = "gateway" /\ GatewayNext /\ Only("gateway")
    \/ part = "adapters" /\ AdaptersNext /\ Only("adapters")
    \/ part = "settlement" /\ SettlementNext /\ Only("settlement")
    \/ part = "topology" /\ TopologyNext /\ Only("topology")
    \/ part = "results" /\ CacheNext /\ Only("results")
    \/ part = "models" /\ RegistryNext /\ Only("models")
    \/ part = "discovery" /\ DiscoveryNext /\ Only("discovery")
    \/ part = "slots" /\ Runner!SlotsNext /\ Only("slots")
    \/ part = "process" /\ Process!LifecycleNext /\ Only("process")

\* Callers of the breaker that are not cancelled go on and time advances, as in
\* FairSpec of CircuitBreaker; so do the tasks that look for a peer and their clock,
\* the tasks that have or were given a slot, and the polls and stops of a process.
ServicesSpec ==
    /\ ServicesInit /\ [][ServicesNext]_servicesVars
    /\ WF_servicesVars(part = "breaker" /\ Tick /\ Only("breaker"))
    /\ \A c \in Caller \ Cancellable :
          /\ WF_servicesVars(part = "breaker" /\ Call(c) /\ Only("breaker"))
          /\ WF_servicesVars(part = "breaker" /\ (Succeed(c) \/ Fail(c)) /\ Only("breaker"))
    /\ WF_servicesVars(part = "peers" /\ PassTime /\ Only("peers"))
    /\ \A t \in {"t1", "t2"} : WF_servicesVars(part = "peers" /\ TaskStep(t) /\ Only("peers"))
    /\ \A t \in {"t1", "t2", "t3"} : WF_servicesVars(part = "slots" /\ Runner!Proceed(t) /\ Only("slots"))
    /\ WF_servicesVars(part = "process" /\ Process!JobLoopEnds /\ Only("process"))
    /\ \A s \in {"term", "int"} : WF_servicesVars(part = "process" /\ Process!Stop(s) /\ Only("process"))

-----------------------------------------------------------------------------
(* The properties of the parts, under their own names. *)

\* A task that waits for a slot gets one.
WaitersGetSlots == Runner!WaitersGetSlots

\* A signal ends a node that serves.
SignalEndsServing == Process!SignalEndsServing
=============================================================================
