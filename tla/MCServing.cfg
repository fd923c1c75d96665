\* The components that serve a model, one at a time; a batcher, an unloaded model
\* and their callers may stop.
SPECIFICATION ServingSpec
CONSTANTS
    s1 = s1
    s2 = s2
    s3 = s3
    s4 = s4
    Request <- TightRequest
    Prompt <- TightPrompt
    MaxTokens <- TightMaxTokens
    Priority <- TightPriority
    Arrival <- TightArrival
    BlockSize = 1
    Engines <- MCEngines
    Models <- MCModels
    ShardCounts = {1, 2, 3}
    Token <- MCToken
    EOS = "e"
    Pad = "e"
    Prompts <- MCPrompts
    First <- MCFirst
    Later <- MCLater
    TopP = 4
    MaxNewTokens = 3
    BatchSize = 2
    Word <- MCToken
    Start = "s"
    EndWord = "e"
    Total = 4
    Target <- MCTarget
    Draft <- MCDraft
    TopK = 0
    DraftSteps = 2
    Budget = 5
    Prover = {"n1", "n2", "n3"}
    Inquiry = {"j1", "j2", "j3"}
    Asked <- MCAsked
    Output <- MCOutput
    Activations = {1}
    Fresh = {1, 2, 3}
    Close <- MCClose
CHECK_DEADLOCK FALSE
INVARIANTS PoolNotOversubscribed InOnePlace FinishesExactly Lossless LayersHeldOnce RowsAreRuns
    
PROPERTIES OldestProgresses EveryJobIsBatched InferenceEnds
