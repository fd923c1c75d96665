\* Two keys and two proposals that share their tokens.
SPECIFICATION Spec
CONSTANTS
    k1 = k1
    k2 = k2
    of1 = of1
    of2 = of2
    of0 = of0
    token = token
    Voter <- MCVoter
    Account <- MCAccount
    Owner <- MCOwner
    Mint <- MCMint
    InitialTokens <- MCTokens
    Amounts = {1}
    TotalSupply = 60
    Bond = 1
    VotingPeriod = 1
    ExecutionDelay = 1
    U64Max = 24000
    MaxProposals = 2
    MaxTime = 3
CHECK_DEADLOCK FALSE
INVARIANTS TalliesMatchBallots OutcomeFitsTally
PROPERTY BondLeavesOnce
