\* Safety, callers naming any token accounts.
SPECIFICATION Spec
CONSTANTS
    alice = alice
    bob = bob
    ofAlice = ofAlice
    ofBob = ofBob
    second = second
    foreign = foreign
    mint = mint
    other = other
    Wallet <- MCWallet
    DefaultKey = DefaultKey
    Account <- MCAccount
    Owner <- MCOwner
    Mint <- MCMint
    TokenMint = mint
    InitialTokens <- MCInitialTokens
    Payments <- MCPayments
    Deadlines <- MCDeadlines
    ChallengeWindow = 1
    U64Max = 20000
    MaxJobs = 2
    MaxTime = 4
CHECK_DEADLOCK FALSE
INVARIANTS EscrowCovered ExactlyOneWayOn
PROPERTY ImplementsContract
