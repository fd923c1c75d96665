------------------------------- MODULE Lifecycle -------------------------------
(***************************************************************************)
(* How a node server comes up and goes down (start, stop and main of          *)
(* node/server.py, with the chain client, the P2P layer and the receiver of    *)
(* activations they open and close).  Every signal starts a task that runs      *)
(* stop, also one that arrives while start still waits for something; nothing    *)
(* tells start, which goes on and then declares the node running.                *)
(***************************************************************************)
EXTENDS Naturals

CONSTANT Signal  \* the SIGTERMs and SIGINTs that are sent

VARIABLES
    step,       \* what start waits for
    running,    \* _running
    chain,      \* the RPC client of the chain
    dht,        \* the P2P layer
    receiver,   \* whether _activation_receiver is set
    listening,  \* whether its port is open
    stops       \* what the stop task of each signal waits for

lifecycleVars == <<step, running, chain, dht, receiver, listening, stops>>

LifecycleInit ==
    /\ step = "loading" /\ running = FALSE
    /\ chain = "none" /\ dht = "none" /\ receiver = FALSE /\ listening = FALSE
    /\ stops = [s \in Signal |-> "unsent"]

Go(from, to) == step = from /\ step' = to

-----------------------------------------------------------------------------
(* start. *)

\* The models are loaded; connect has its client before it waits for the programs.
Connect ==
    /\ Go("loading", "connecting")
    /\ chain' = "open"
    /\ UNCHANGED <<running, dht, receiver, listening, stops>>

\* _ensure_registered: the answer of the registry makes no difference.
Register == Go("connecting", "registering") /\ UNCHANGED <<running, chain, dht, receiver, listening, stops>>

\* The P2P layer starts its DHT at once, then waits for its server and the announcement.
Join ==
    /\ Go("registering", "joining")
    /\ dht' = "up"
    /\ UNCHANGED <<running, chain, receiver, listening, stops>>

Listen ==
    /\ Go("joining", "opening")
    /\ receiver' = TRUE
    /\ UNCHANGED <<running, chain, dht, listening, stops>>

\* The port is open, and the node runs, whoever asked it to stop before.
Serve ==
    /\ Go("opening", "serving")
    /\ listening' = TRUE
    /\ running' = TRUE
    /\ UNCHANGED <<chain, dht, receiver, stops>>

\* Something that start calls raises, and the process ends.
StartFails ==
    /\ step \notin {"serving", "ended"}
    /\ step' = "ended"
    /\ UNCHANGED <<running, chain, dht, receiver, listening, stops>>

\* A turn of _job_loop; without a chain client it finds no jobs, and goes on.
JobLoop == running /\ step = "serving" /\ UNCHANGED lifecycleVars

\* _job_loop looks at _running between two polls; when it returns, start cancels the
\* other tasks and the event loop is closed, whatever they and stop still wait for.
JobLoopEnds ==
    /\ ~running
    /\ Go("serving", "ended")
    /\ UNCHANGED <<running, chain, dht, receiver, listening, stops>>

\* The container is started again: a new process.
Restart ==
    /\ Go("ended", "loading") /\ running' = FALSE
    /\ chain' = "none" /\ dht' = "none" /\ receiver' = FALSE /\ listening' = FALSE
    /\ stops' = [s \in Signal |-> "unsent"]

-----------------------------------------------------------------------------
(* main and stop. *)

\* The handler of a signal makes a task of stop.
Handle(s) ==
    /\ step # "ended"
    /\ stops[s] = "unsent"
    /\ stops' = [stops EXCEPT ![s] = "asked"]
    /\ UNCHANGED <<step, running, chain, dht, receiver, listening>>

\* A stop that believes another one is at work, or that nothing is there to stop.
StopOnce_Bad(s) ==
    /\ step # "ended" /\ stops[s] = "asked"
    /\ IF receiver
       THEN /\ running' = FALSE /\ listening' = FALSE
            /\ stops' = [stops EXCEPT ![s] = "closing port"]
       ELSE stops' = [stops EXCEPT ![s] = "done"] /\ UNCHANGED <<running, listening>>
    /\ UNCHANGED <<step, chain, dht, receiver>>

\* A receiver that has not opened its port yet has nothing to close, and opens it later.
Stop(s) ==
    /\ step # "ended" /\ stops[s] = "asked"
    /\ running' = FALSE
    /\ stops' = [stops EXCEPT ![s] = "closing port"]
    /\ IF receiver THEN listening' = FALSE ELSE UNCHANGED listening
    /\ UNCHANGED <<step, chain, dht, receiver>>

\* The receiver is dropped, the DHT shut down, and close waits for the chain client.
StopNetwork(s) ==
    /\ step # "ended" /\ stops[s] = "closing port"
    /\ receiver' = FALSE
    /\ dht' = IF dht = "up" THEN "down" ELSE dht
    /\ chain' = IF chain = "open" THEN "closed" ELSE chain
    /\ stops' = [stops EXCEPT ![s] = "closing client"]
    /\ UNCHANGED <<step, running, listening>>

\* The client is closed, or something on the way raised.
StopReturns(s) ==
    /\ step # "ended" /\ stops[s] \in {"closing port", "closing client"}
    /\ stops' = [stops EXCEPT ![s] = "done"]
    /\ UNCHANGED <<step, running, chain, dht, receiver, listening>>

LifecycleNext ==
    \/ Connect \/ Register \/ Join \/ Listen \/ Serve \/ StartFails \/ JobLoop \/ JobLoopEnds
    \/ Restart
    \/ \E s \in Signal : Handle(s) \/ Stop(s) \/ StopNetwork(s) \/ StopReturns(s)

\* Tasks that have been created begin, and polls end.
LifecycleSpec ==
    /\ LifecycleInit /\ [][LifecycleNext]_lifecycleVars
    /\ WF_lifecycleVars(JobLoopEnds)
    /\ \A s \in Signal : WF_lifecycleVars(Stop(s))

-----------------------------------------------------------------------------
\* A signal that is handled while the node serves ends it, also when an earlier one
\* came during the start and left it serving without a chain, a DHT or a receiver
\* that anything could close (server.py:136).
SignalEndsServing ==
    (step = "serving" /\ \E s \in Signal : stops[s] = "asked") ~> step = "ended"
=============================================================================
