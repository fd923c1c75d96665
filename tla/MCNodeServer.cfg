\* Two jobs, with the same payment or not.
SPECIFICATION KeptSpec
CONSTANTS
    alice = alice
    bob = bob
    ofAlice = ofAlice
    mint = mint
    w1 = w1
    w2 = w2
    Wallet <- MCWallet
    DefaultKey = DefaultKey
    Account = {ofAlice}
    Owner <- MCOwner
    Mint <- MCMint
    TokenMint = mint
    InitialTokens <- MCInitialTokens
    Payments = {1, 2}
    Deadlines = {2}
    ChallengeWindow = 1
    U64Max = 20000
    MaxJobs = 2
    MaxTime = 3
    Server = {bob}
    Worker = {w1, w2}
    Visible <- MCJobs
    MaxRetries = 1
    MaxUploads = 2
    MaxHalts = 1
CHECK_DEADLOCK FALSE
INVARIANTS HandledOnce
PROPERTIES AbandonedForGood PendingResolves
