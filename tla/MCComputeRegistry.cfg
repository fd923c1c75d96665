\* Two operators, one of which is slashed, callers naming any token accounts.
SPECIFICATION Spec
CONSTANTS
    op1 = op1
    op2 = op2
    of1 = of1
    of2 = of2
    foreign = foreign
    token = token
    other = other
    Operator = {op1, op2}
    Account <- MCAccount
    Owner <- MCOwner
    Mint <- MCMint
    TokenMint = token
    InitialTokens <- MCTokens
    Amounts <- MCAmounts
    MinStake = 10
    Cooldown = 1
    U64Max = 12000
    MaxTime = 2
    MaxCompletions <- MCMaxCompletions
    MaxSlashes <- MCMaxSlashes
    MaxStake <- MCMaxStake
CHECK_DEADLOCK FALSE
INVARIANTS OverclaimOnlyAfterSlash ActiveKeepsMinStake
PROPERTY VaultFallsWithRecord
