\* One job, and no one who settles but the server's own heartbeat.
SPECIFICATION UnkeptSpec
CONSTANTS
    alice = alice
    bob = bob
    ofAlice = ofAlice
    mint = mint
    w1 = w1
    w2 = w2
    Wallet <- MCWallet
    DefaultKey = DefaultKey
    Account = {ofAlice}
    Owner <- MCOwner
    Mint <- MCMint
    TokenMint = mint
    InitialTokens <- MCInitialTokens
    Payments = {1}
    Deadlines = {2}
    ChallengeWindow = 1
    U64Max = 20000
    MaxJobs = 1
    MaxTime = 3
    Server = {bob}
    Worker = {w1}
    Visible = {0}
    MaxRetries = 0
    MaxUploads = 1
    MaxHalts = 0
CHECK_DEADLOCK FALSE
PROPERTY PendingResolves
