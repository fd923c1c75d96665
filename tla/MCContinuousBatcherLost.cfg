\* A victim of an admission that fails or succeeds.
SPECIFICATION Spec
CONSTANTS
    s1 = s1
    s2 = s2
    s3 = s3
    s4 = s4
    Request <- SmallRequest
    Prompt <- SmallPrompt
    MaxTokens <- SmallMaxTokens
    Priority <- SmallPriority
    Arrival <- SmallArrival
    BlockSize = 2
    Engines <- SmallEngines
CHECK_DEADLOCK FALSE
INVARIANT NothingLost
