-------------------------------- MODULE Pipeline --------------------------------
(***************************************************************************)
(* A job in the pipeline of shards (node/server.py, _run_inference) and the *)
(* TCP stream of activations between them (node/activation_stream.py).      *)
(*                                                                         *)
(* Every shard runs the job for itself and only meets the others through    *)
(* the stream and the DHT.  A frame that finds no waiter is dropped, and    *)
(* the sender, which wrote it, never learns of it.  Jobs share no state, so *)
(* one is enough; what is computed is left out, when it may be used is not. *)
(***************************************************************************)
EXTENDS Naturals

CONSTANTS
    LastShard,    \* num_shards - 1
    PushRetries,  \* _ACTIVATION_PUSH_MAX_RETRIES
    ReceiveWait,  \* timeout_s of _receive_activations, in ticks
    ResultWait,   \* timeout of _await_result, in ticks
    ResultLife,   \* how long the DHT keeps a result, in ticks
    MaxFrames     \* bound: frames on the way to one shard

VARIABLES
    serving,   \* whether each shard's node runs, its ActivationServer started
    stage,     \* what the job's _inner does on each shard
    frames,    \* frames on the way to each shard
    result     \* ticks the DHT still keeps the result of the job

pipelineVars == <<serving, stage, frames, result>>

Shard == 0 .. LastShard
Gone == [phase |-> "gone", left |-> 0]
At(phase, left) == [phase |-> phase, left |-> left]

PipelineInit ==
    /\ serving = [i \in Shard |-> TRUE]
    /\ stage = [i \in Shard |-> Gone]
    /\ frames = [i \in Shard |-> 0]
    /\ result = 0

\* A step of shard i that leads from phase to the stage next.
Go(i, phase, next) ==
    /\ stage[i].phase = phase
    /\ stage' = [stage EXCEPT ![i] = next]

-----------------------------------------------------------------------------
\* _run_inference: shard 0 begins with the prompt, the others register a future.
RunInference(i) ==
    /\ serving[i]
    /\ Go(i, "gone", IF i = 0 THEN At("embedding", 0) ELSE At("receiving", ReceiveWait))
    /\ UNCHANGED <<serving, frames, result>>

\* The first shard has its hidden states, or raises: no storage, no prompt.
Embed(i) ==
    /\ Go(i, "embedding", At("forwarding", 0)) \/ Go(i, "embedding", Gone)
    /\ UNCHANGED <<serving, frames, result>>

\* receive: no frame came in time; the future is removed.
ReceiveTimesOut(i) ==
    /\ stage[i].left = 0
    /\ Go(i, "receiving", Gone)
    /\ UNCHANGED <<serving, frames, result>>

\* _handle_connection: a frame that is whole resolves the future of its job, if
\* there is one, and is dropped otherwise.
ReadFrame(i) ==
    /\ frames[i] > 0
    /\ frames' = [frames EXCEPT ![i] = @ - 1]
    /\ IF stage[i].phase = "receiving" THEN Go(i, "receiving", At("forwarding", 0))
                                       ELSE UNCHANGED stage
    /\ UNCHANGED <<serving, result>>

\* The connection breaks, or the frame is not one: it raises and is logged.
LoseFrame(i) ==
    /\ frames[i] > 0
    /\ frames' = [frames EXCEPT ![i] = @ - 1]
    /\ UNCHANGED <<serving, stage, result>>

\* forward, which may raise; the last shard also generates the text.
Forward(i) ==
    /\ \/ Go(i, "forwarding", IF i = LastShard THEN At("publishing", 0) ELSE At("resolving", 0))
       \/ Go(i, "forwarding", Gone)
    /\ UNCHANGED <<serving, frames, result>>

\* _resolve_next_peer_endpoint: the peer of the DHT or, if it names none, a guess.
ResolvePeer(i) ==
    /\ Go(i, "resolving", At("sending", PushRetries))
    /\ UNCHANGED <<serving, frames, result>>

-----------------------------------------------------------------------------
(* _push_activations: attempts, and pauses between them. *)

\* The frame is on its way, or is not although it was written.
MaySend(i) ==
    \/ frames' = frames
    \/ serving[i + 1] /\ frames[i + 1] < MaxFrames /\ frames' = [frames EXCEPT ![i + 1] = @ + 1]

Push(i) ==
    /\ Go(i, "sending", At("awaiting", ResultWait))
    /\ MaySend(i)
    /\ UNCHANGED <<serving, result>>

\* send raises, or its time is over and it ends at once; the frame may have got
\* through all the same.
PushFails(i) ==
    /\ Go(i, "sending", At("pausing", stage[i].left - 1))
    /\ MaySend(i)
    /\ UNCHANGED <<serving, result>>

\* The time of wait_for is over while the peer does not read: the cancelled send closes
\* the connection and waits, without a bound, for the peer to take the frame.
PushHangs(i) ==
    /\ Go(i, "sending", At("closing", stage[i].left))
    /\ UNCHANGED <<serving, frames, result>>

\* The peer reads after all, or its end of the connection is gone; nothing makes it.
PeerReleases(i) ==
    /\ Go(i, "closing", At("pausing", stage[i].left - 1))
    /\ MaySend(i)
    /\ UNCHANGED <<serving, result>>

\* After the pause: the next attempt, or ActivationTransportError.
PushAgain(i) ==
    /\ Go(i, "pausing", IF stage[i].left > 0 THEN At("sending", stage[i].left) ELSE Gone)
    /\ UNCHANGED <<serving, frames, result>>

-----------------------------------------------------------------------------
(* The result, by way of the DHT. *)

Publish(i) ==
    /\ Go(i, "publishing", Gone)
    /\ result' = ResultLife
    /\ UNCHANGED <<serving, frames>>

\* A poll of the DHT finds a result, of this run or of an earlier one.
Collect(i) ==
    /\ result > 0
    /\ Go(i, "awaiting", Gone)
    /\ UNCHANGED <<serving, frames, result>>

\* A defective variant of the next definition, which no specification uses.
AwaitForever_Bad(i) ==
    /\ stage[i].left = 0 /\ result > 0
    /\ Go(i, "awaiting", Gone)
    /\ UNCHANGED <<serving, frames, result>>

AwaitTimesOut(i) ==
    /\ stage[i].left = 0
    /\ Go(i, "awaiting", Gone)
    /\ UNCHANGED <<serving, frames, result>>

-----------------------------------------------------------------------------
\* stop of the node: the server is closed, the futures are cancelled.
StopNode(i) ==
    /\ serving[i]
    /\ serving' = [serving EXCEPT ![i] = FALSE]
    /\ stage' = [stage EXCEPT ![i] = Gone]
    /\ frames' = [frames EXCEPT ![i] = 0]
    /\ UNCHANGED result

StartNode(i) ==
    /\ ~ serving[i]
    /\ serving' = [serving EXCEPT ![i] = TRUE]
    /\ UNCHANGED <<stage, frames, result>>

\* A tick of the deadlines and of the DHT's expiry.
PipelineTick ==
    /\ stage' = [i \in Shard |-> IF stage[i].phase \in {"receiving", "awaiting"} /\ stage[i].left > 0
                                 THEN [stage[i] EXCEPT !.left = @ - 1] ELSE stage[i]]
    /\ result' = IF result > 0 THEN result - 1 ELSE 0
    /\ UNCHANGED <<serving, frames>>

\* What the node of shard i does next for a job it has begun.
Carry(i) ==
    \/ Embed(i) \/ ReceiveTimesOut(i) \/ Forward(i) \/ ResolvePeer(i)
    \/ Push(i) \/ PushFails(i) \/ PushHangs(i) \/ PushAgain(i)
    \/ Publish(i) \/ Collect(i) \/ AwaitTimesOut(i)

PipelineNext ==
    \/ \E i \in Shard : RunInference(i) \/ Carry(i) \/ PeerReleases(i) \/ ReadFrame(i) \/ LoseFrame(i)
    \/ \E i \in Shard : StopNode(i) \/ StartNode(i)
    \/ PipelineTick

-----------------------------------------------------------------------------
(* Properties. *)

\* Shards never wait for one another for ever: every run of the job ends, with a
\* result or an error, whichever frames are lost, doubled, early or late and
\* whichever nodes stop in between, unless its push hangs at a peer that never reads.
InferenceEnds ==
    \A i \in Shard : []<>(stage[i].phase = "gone") \/ <>[](stage[i].phase = "closing")
=============================================================================
