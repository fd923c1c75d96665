\* A bond in an account the proposal does not own.
SPECIFICATION Spec
CONSTANTS
    k1 = k1
    k2 = k2
    of1 = of1
    of2 = of2
    of0 = of0
    token = token
    Voter <- MCVoter
    Account <- MCAccount
    Owner <- MCOwner
    Mint <- MCMint
    InitialTokens <- MCTokens
    Amounts = {1}
    TotalSupply = 60
    Bond = 1
    VotingPeriod = 1
    ExecutionDelay = 1
    U64Max = 24000
    MaxProposals = 1
    MaxTime = 5
CHECK_DEADLOCK FALSE
INVARIANT ExecutableAfterTimelock
