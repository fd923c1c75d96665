------------------------------- MODULE MCServing -------------------------------
(***************************************************************************)
(* Small instances of the components that serve a model and share no state:   *)
(* a behaviour is one of the component it begins with, the others rest.       *)
(***************************************************************************)
EXTENDS MCContinuousBatcher, Generation, Speculation, Attestation

VARIABLES
    part,                                        \* whose behaviour it is
    window, asking, batches,                     \* DynamicBatcher
    serving, stage, frames, result               \* Pipeline

\* Three jobs for two consumers that take two of them at a time.
Windows == INSTANCE DynamicBatcher WITH
    Request <- {"r1", "r2", "r3"}, Consumer <- {"c1", "c2"}, MaxBatch <- 2, MaxWait <- 1,
    Patience <- 3

\* Three shards, two attempts to push, and room for two frames before each shard.
Relay == INSTANCE Pipeline WITH
    LastShard <- 2, PushRetries <- 2, ReceiveWait <- 1, ResultWait <- 2, ResultLife <- 1,
    MaxFrames <- 2

\* Two tokens and an end; draft and verifier agree behind b, and nowhere else.
Weights(a, b, e) == ("a" :> a) @@ ("b" :> b) @@ ("e" :> e)
MCTarget == ("s" :> Weights(2, 1, 1)) @@ ("a" :> Weights(0, 3, 1))
              @@ ("b" :> Weights(1, 3, 0)) @@ ("e" :> Weights(2, 2, 0))
MCDraft == ("s" :> Weights(1, 3, 0)) @@ ("a" :> Weights(2, 1, 1))
             @@ ("b" :> Weights(1, 3, 0)) @@ ("e" :> Weights(1, 1, 2))

\* Models of a class that is mapped, of one whose layers have attention behind a
\* longer list without, of one with nothing but a longest list, and of one whose final
\* norm is where nobody looks.
List(layers, attention) == [layers |-> layers, attention |-> attention]
Model(configured, mapped, lists, parts) ==
    [configured |-> configured, mapped |-> mapped, lists |-> lists, parts |-> parts]
All == {"embedding", "norm", "head"}
MCModels ==
    {Model(5, 1, <<List(<<1, 2, 3, 4, 5>>, TRUE)>>, All),
     Model(4, 0, <<List(<<9, 9, 9, 9, 9>>, FALSE), List(<<1, 2, 3, 4>>, TRUE)>>, All),
     Model(2, 0, <<List(<<9>>, TRUE), List(<<1, 2>>, FALSE)>>, All),
     Model(3, 1, <<List(<<1, 2, 3>>, TRUE)>>, All \ {"norm"})}
MCToken == {"a", "b", "e"}
MCPrompts == {<<"a">>, <<"b", "a">>}
MCFirst == [p \in {<<"a">>, <<"b", "a">>, <<"e", "a">>} |->
              IF p[1] = "b" THEN Weights(1, 2, 2) ELSE Weights(3, 1, 1)]
MCLater == ("a" :> Weights(0, 3, 2)) @@ ("b" :> Weights(4, 1, 0)) @@ ("e" :> Weights(2, 3, 0))

\* The premise under which LayersHeldOnce is proved.
ASSUME MCLayersFound == LayersFound

\* Three jobs, two of them with one prompt, outputs of which two differ only in a
\* repeated end, and an auditor whose sample is the one committed to, a close one or another.
MCAsked == ("j1" :> <<1>>) @@ ("j2" :> <<2>>) @@ ("j3" :> <<1>>)
MCOutput == {<<1, 2, 2>>, <<1, 2, 2, 2>>, <<2, 1, 2>>}
MCClose == {{1, 2}}

-----------------------------------------------------------------------------
\* The variables of every part but x stay as they are.
Only(x) ==
    /\ part = x /\ UNCHANGED part
    /\ x # "batcher" => UNCHANGED vars
    /\ x # "windows" => UNCHANGED <<window, asking, batches>>
    /\ x # "pipeline" => UNCHANGED <<serving, stage, frames, result>>
    /\ x # "speculation" => UNCHANGED speculationVars
    /\ x # "generation" => UNCHANGED <<model, shards, held, prompts, rows, ended>>
    /\ x # "attestation" => UNCHANGED attestationVars

servingVars ==
    <<part, vars, window, asking, batches, serving, stage, frames, result,
      speculationVars, model, shards, held, prompts, rows, ended,
      attestationVars>>

ServingInit ==
    /\ part \in {"batcher", "windows", "pipeline", "speculation", "generation", "attestation"}
    /\ Init /\ Windows!BatcherInit /\ Relay!PipelineInit /\ SpeculationInit
    /\ GenerationInit /\ AttestationInit
    /\ part # "batcher" => engine = RoomyEngine
    /\ part # "speculation" => speculative
    /\ part # "generation" => shards = 1 /\ model.configured = 5

ServingNext ==
    \/ part = "batcher" /\ Next /\ Only("batcher")
    \/ part = "windows" /\ Windows!BatcherNext /\ Only("windows")
    \/ part = "pipeline" /\ Relay!PipelineNext /\ Only("pipeline")
    \/ part = "speculation" /\ SpeculationNext /\ Only("speculation")
    \/ part = "generation" /\ GenerationNext /\ Only("generation")
    \/ part = "attestation" /\ AttestationNext /\ Only("attestation")

\* The loops of next_batch go on, and the nodes of the shards take their next step
\* for a job they have begun; the clocks of both advance.
ServingSpec ==
    /\ ServingInit /\ [][ServingNext]_servingVars
    /\ WF_servingVars(part = "windows" /\ Windows!BatcherTick /\ Only("windows"))
    /\ \A c \in {"c1", "c2"} : WF_servingVars(part = "windows" /\ Windows!Turn(c) /\ Only("windows"))
    /\ WF_servingVars(part = "pipeline" /\ Relay!PipelineTick /\ Only("pipeline"))
    /\ \A i \in 0 .. 2 : WF_servingVars(part = "pipeline" /\ Relay!Carry(i) /\ Only("pipeline"))

-----------------------------------------------------------------------------
(* The properties of the parts, under their own names. *)

\* Every job that was added to a window is handed out in a batch.
EveryJobIsBatched == Windows!EveryJobIsBatched

\* Every run of a job in the pipeline of shards ends, or hangs in a push.
InferenceEnds == Relay!InferenceEnds
=============================================================================
