------------------------- MODULE MCContinuousBatcher -------------------------
(***************************************************************************)
(* Small instances of the batcher.  Four sequences; in a pool that holds a  *)
(* third of their tokens, with priorities that make schedule preempt,       *)
(* requeue a sequence twice and raise MemoryError; and in a pool that holds *)
(* everything, where only the batch size and the budget bind.               *)
(***************************************************************************)
EXTENDS ContinuousBatcher

CONSTANTS s1, s2, s3, s4

Values(a, b, c, d) ==
    (s1 :> a) @@ (s2 :> b) @@ (s3 :> c) @@ (s4 :> d)

TightRequest == {s1, s2, s3, s4}
TightPrompt == Values(2, 1, 2, 1)
TightMaxTokens == Values(1, 8, 4, 4)
TightPriority == Values(2, 1, 0, 1)
TightArrival == Values(0, 1, 3, 2)

Engine(n, b, t) == [numBlocks |-> n, maxBatchSize |-> b, maxTokensPerStep |-> t]
TightEngine == Engine(7, 4, 4)
RoomyEngine == Engine(23, 2, 1)
MCEngines == {TightEngine, RoomyEngine}

\* The shortest counterexample to NothingLost.
SmallRequest == {s1, s2, s3}
SmallPrompt == Restrict(Values(1, 1, 3, 0), SmallRequest)
SmallMaxTokens == Restrict(Values(3, 2, 2, 0), SmallRequest)
SmallPriority == Restrict(Values(1, 0, 2, 0), SmallRequest)
SmallArrival == Restrict(Values(1, 2, 3, 0), SmallRequest)
SmallEngines == {Engine(3, 3, 2)}
=============================================================================
