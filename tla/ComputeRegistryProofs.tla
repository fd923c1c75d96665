----------------------- MODULE ComputeRegistryProofs -----------------------
(***************************************************************************)
(* Proofs about the compute registry, for any operators, accounts, amounts, *)
(* minimum stake and cooldown.  ActiveKeepsMinStake is not inductive alone:  *)
(* a withdrawal keeps the minimum only because begin_unstake left it beside  *)
(* the request it recorded (RequestLeavesMinimum), and register_node writes  *)
(* a stake over whatever the record held (UnregisteredIsEmpty).             *)
(***************************************************************************)
EXTENDS ComputeRegistry, CollectionTheorems, TLAPS

\* What is not registered has staked and requests nothing.
UnregisteredIsEmpty ==
    \A o \in Operator : ~Registered(o) => staked[o] = 0 /\ unstake[o] = 0

\* The pending request of an active node that was not slashed leaves it the minimum.
RequestLeavesMinimum ==
    \A o \in Operator :
        status[o] = "active" /\ disputed[o] = 0 => staked[o] - unstake[o] >= MinStake

\* The inductive invariant.
RegistryInv ==
    /\ TypeOK
    /\ UnregisteredIsEmpty
    /\ RequestLeavesMinimum
    /\ ActiveIsReputable
    /\ OverclaimOnlyAfterSlash

\* No stake account but o's falls, and o's by no more than amount.
DrawnFrom(o, amount) ==
    /\ tokens' \in [TokenAccount -> Nat]
    /\ tokens[o] - tokens'[o] <= amount
    /\ \A p \in Operator \ {o} : tokens'[p] >= tokens[p]

\* No stake account falls.
NoneDrawn ==
    /\ tokens' \in [TokenAccount -> Nat]
    /\ \A p \in Operator : tokens'[p] >= tokens[p]

-----------------------------------------------------------------------------
\* A slash takes a whole number of tokens, at most the stake.
LEMMA SlashWithinStake ==
    ASSUME NEW stake \in Nat
    PROVE  /\ SlashAmount(stake) \in Nat
           /\ SlashAmount(stake) <= stake
           /\ stake - SlashAmount(stake) \in Nat
  BY DEF SlashAmount, SLASH_BPS

\* The penalty keeps the reputation in its range.
LEMMA PenaltyInRange ==
    ASSUME NEW r \in 0 .. MaxReputation
    PROVE  Penalised(r) \in 0 .. MaxReputation
  BY DEF Penalised, MaxReputation, SlashPenalty

\* Existing accounts are token accounts, and a stake account belongs to its own node alone.
LEMMA AccountFacts ==
    /\ \A a \in Existing : a \in TokenAccount
    /\ \A o \in Operator : o \in TokenAccount /\ ownerOf[o] = NodeAccount(o)
    /\ \A o, p \in Operator : NodeAccount(o) = NodeAccount(p) => o = p
    /\ \A o, p \in Operator : ownerOf[p] # o
  BY RegistryAssumption DEF Existing, TokenAccount, ownerOf, NodeAccount

\* What a payment out of the accounts of o's node does to the stake accounts.
LEMMA TakeStep ==
    ASSUME TypeOK, NEW o \in Operator, NEW amount \in Nat, TakeFromNode(o, amount)
    PROVE  DrawnFrom(o, amount)
  <1>1. tokens \in [TokenAccount -> Nat]
    BY DEF TypeOK
  <1>2. PICK from \in Existing, to \in Existing :
            /\ ownerOf[from] = NodeAccount(o) /\ tokens[from] >= amount
            /\ tokens' = Transfer(tokens, from, to, amount)
    BY DEF TakeFromNode, CanTransfer
  <1>3. from \in TokenAccount /\ to \in TokenAccount /\ \A p \in Operator : p \in TokenAccount
    BY AccountFacts
  <1>4. /\ tokens' \in [TokenAccount -> Nat] /\ tokens'[from] >= tokens[from] - amount
        /\ \A a \in TokenAccount \ {from} : tokens'[a] >= tokens[a]
    BY <1>1, <1>2, <1>3, TransferMoves
  <1>5. \A p \in Operator \ {o} : from # p
    BY <1>2, AccountFacts
  <1>6. tokens[o] - tokens'[o] <= amount
    <2>1. tokens[o] \in Nat /\ tokens'[o] \in Nat
      BY <1>1, <1>3, <1>4
    <2>2. CASE from = o
      BY <1>4, <2>1, <2>2
    <2>3. CASE from # o
      BY <1>3, <1>4, <2>1, <2>3
    <2> QED
      BY <2>2, <2>3
  <1> QED
    BY <1>3, <1>4, <1>5, <1>6 DEF DrawnFrom

\* What a deposit does to the stake accounts and the record.
LEMMA DepositStep ==
    ASSUME TypeOK, NEW o \in Operator, NEW to \in TokenAccount, NEW amount \in Nat,
           Deposit(o, amount, to)
    PROVE  /\ staked' \in [Operator -> Nat]
           /\ staked'[o] = staked[o] + amount
           /\ \A p \in Operator \ {o} : staked'[p] = staked[p]
           /\ NoneDrawn
  <1>1. tokens \in [TokenAccount -> Nat] /\ staked \in [Operator -> Nat]
    BY DEF TypeOK
  <1>2. PICK from \in Existing : /\ ownerOf[from] = o /\ tokens[from] >= amount
                                 /\ tokens' = Transfer(tokens, from, to, amount)
    BY DEF Deposit, CanTransfer
  <1>3. /\ from \in TokenAccount
        /\ \A p \in Operator : p \in TokenAccount /\ from # p
    BY <1>2, AccountFacts
  <1>4. /\ tokens' \in [TokenAccount -> Nat]
        /\ \A a \in TokenAccount \ {from} : tokens'[a] >= tokens[a]
    BY <1>1, <1>2, <1>3, TransferMoves
  <1>5. NoneDrawn
    BY <1>3, <1>4 DEF NoneDrawn
  <1> QED
    BY <1>1, <1>5 DEF Deposit

\* No instruction has run.
LEMMA InitInv == Init => RegistryInv
  BY RegistryAssumption
     DEF Init, RegistryInv, TypeOK, UnregisteredIsEmpty, RequestLeavesMinimum, ActiveIsReputable,
         OverclaimOnlyAfterSlash, Status, Registered, MaxReputation, TokenAccount

\* Every instruction keeps the invariant.
LEMMA StepInv == RegistryInv /\ [Next]_vars => RegistryInv'
  <1> SUFFICES ASSUME RegistryInv, [Next]_vars PROVE RegistryInv'
    OBVIOUS
  <1> USE RegistryAssumption DEF RegistryInv
  <1>0. TypeOK /\ \A p \in Operator : p \in TokenAccount
    BY AccountFacts
  <1>1. ASSUME NEW o \in Operator, NEW amount \in Amounts, RegisterNode(o, amount)
        PROVE  RegistryInv'
    <2>1. amount \in Nat /\ amount >= MinStake /\ Deposit(o, amount, o) /\ ~Registered(o)
      BY <1>1 DEF RegisterNode
    <2>2. /\ status' = [status EXCEPT ![o] = "active"]
          /\ reputation' = [reputation EXCEPT ![o] = MaxReputation]
          /\ UNCHANGED <<now, unstake, unstakeAt, completed, disputed>>
      BY <1>1 DEF RegisterNode, request, Deposit
    <2>3. /\ staked' \in [Operator -> Nat] /\ staked'[o] = staked[o] + amount
          /\ \A p \in Operator \ {o} : staked'[p] = staked[p]
          /\ NoneDrawn
      <3> HIDE DEF RegistryInv
      <3> QED
        BY <1>0, <2>1, DepositStep
    <2>4. TypeOK'
      <3>1. tokens' \in [TokenAccount -> Nat]
        BY <2>3 DEF NoneDrawn
      <3>2. status' \in [Operator -> Status] /\ reputation' \in [Operator -> 0 .. MaxReputation]
        BY <2>2 DEF TypeOK, Status, MaxReputation
      <3> QED
        BY <2>2, <2>3, <3>1, <3>2 DEF TypeOK
    <2>5. UnregisteredIsEmpty'
      BY <2>1, <2>2, <2>3 DEF UnregisteredIsEmpty, Registered, TypeOK
    <2>6. ActiveIsReputable'
      BY <2>2 DEF ActiveIsReputable, TypeOK, MaxReputation, ActiveThreshold
    <2>7. RequestLeavesMinimum'
      BY <2>1, <2>2, <2>3 DEF RequestLeavesMinimum, UnregisteredIsEmpty, TypeOK
    <2>8. OverclaimOnlyAfterSlash'
      BY <2>1, <2>2, <2>3 DEF OverclaimOnlyAfterSlash, TypeOK
    <2> QED
      BY <2>4, <2>5, <2>6, <2>7, <2>8
  <1>2. ASSUME NEW o \in Operator, NEW amount \in Amounts, AddStake(o, amount)
        PROVE  RegistryInv'
    <2>1. PICK to \in Existing : Deposit(o, amount, to) /\ amount \in Nat /\ Registered(o)
      BY <1>2 DEF AddStake
    <2>2. UNCHANGED <<now, status, unstake, unstakeAt, completed, disputed, reputation>>
      BY <1>2 DEF AddStake, request, record, Deposit
    <2>3. /\ staked' \in [Operator -> Nat] /\ staked'[o] = staked[o] + amount
          /\ \A p \in Operator \ {o} : staked'[p] = staked[p]
          /\ NoneDrawn
      <3>1. to \in TokenAccount
        BY AccountFacts
      <3> HIDE DEF RegistryInv
      <3> QED
        BY <1>0, <2>1, <3>1, DepositStep
    <2>4. TypeOK'
      BY <2>2, <2>3 DEF TypeOK, NoneDrawn
    <2>5. UnregisteredIsEmpty'
      BY <2>1, <2>2, <2>3 DEF UnregisteredIsEmpty, Registered
    <2>6. ActiveIsReputable'
      BY <2>2 DEF ActiveIsReputable
    <2>7. RequestLeavesMinimum'
      BY <2>1, <2>2, <2>3 DEF RequestLeavesMinimum, TypeOK
    <2>8. OverclaimOnlyAfterSlash'
      BY <2>1, <2>2, <2>3 DEF OverclaimOnlyAfterSlash, TypeOK
    <2> QED
      BY <2>4, <2>5, <2>6, <2>7, <2>8
  <1>3. ASSUME NEW o \in Operator, NEW amount \in Amounts, BeginUnstake(o, amount)
        PROVE  RegistryInv'
    <2>1. /\ amount \in Nat /\ Registered(o) /\ amount <= staked[o]
          /\ staked[o] - amount >= MinStake \/ staked[o] = amount
          /\ now + Cooldown \in Nat
      BY <1>3 DEF BeginUnstake, TypeOK
    <2>2. /\ unstake' = [unstake EXCEPT ![o] = amount]
          /\ unstakeAt' = [unstakeAt EXCEPT ![o] = now + Cooldown]
          /\ status' = [status EXCEPT ![o] = IF staked[o] = amount THEN "inactive" ELSE @]
          /\ UNCHANGED <<now, staked, completed, disputed, reputation, tokens>>
      BY <1>3 DEF BeginUnstake, record
    <2>3. TypeOK'
      BY <2>1, <2>2 DEF TypeOK, Status
    <2>4. UnregisteredIsEmpty'
      BY <2>1, <2>2 DEF UnregisteredIsEmpty, Registered, TypeOK
    <2>5. RequestLeavesMinimum'
      BY <2>1, <2>2 DEF RequestLeavesMinimum, TypeOK
    <2>6. ActiveIsReputable'
      BY <2>2 DEF ActiveIsReputable, TypeOK
    <2>7. OverclaimOnlyAfterSlash'
      BY <2>1, <2>2 DEF OverclaimOnlyAfterSlash, TypeOK
    <2> QED
      BY <2>3, <2>4, <2>5, <2>6, <2>7
  <1>4. ASSUME NEW o \in Operator, WithdrawStake(o)
        PROVE  RegistryInv'
    <2>1. /\ unstake[o] \in Nat /\ unstake[o] > 0 /\ staked[o] - unstake[o] \in Nat
          /\ TakeFromNode(o, unstake[o])
      BY <1>4 DEF WithdrawStake, TypeOK
    <2>2. /\ staked' = [staked EXCEPT ![o] = staked[o] - unstake[o]]
          /\ unstake' = [unstake EXCEPT ![o] = 0]
          /\ unstakeAt' = [unstakeAt EXCEPT ![o] = 0]
          /\ UNCHANGED <<now, status, completed, disputed, reputation>>
      BY <1>4 DEF WithdrawStake, record
    <2>3. tokens' \in [TokenAccount -> Nat]
      <3> HIDE DEF RegistryInv
      <3> QED
        BY <1>0, <2>1, TakeStep DEF DrawnFrom
    <2>4. TypeOK'
      BY <2>1, <2>2, <2>3 DEF TypeOK
    <2>5. UnregisteredIsEmpty'
      BY <2>1, <2>2 DEF UnregisteredIsEmpty, Registered, TypeOK
    <2>6. RequestLeavesMinimum'
      BY <2>1, <2>2 DEF RequestLeavesMinimum, TypeOK
    <2>7. ActiveIsReputable'
      BY <2>2 DEF ActiveIsReputable
    <2>8. OverclaimOnlyAfterSlash'
      BY <2>1, <2>2 DEF OverclaimOnlyAfterSlash, TypeOK
    <2> QED
      BY <2>4, <2>5, <2>6, <2>7, <2>8
  <1>5. ASSUME NEW o \in Operator, RecordCompletion(o)
        PROVE  RegistryInv'
    <2>1. /\ completed' = [completed EXCEPT ![o] = completed[o] + 1]
          /\ reputation' = [reputation EXCEPT ![o] =
                               IF reputation[o] < MaxReputation THEN reputation[o] + 1
                                                                ELSE reputation[o]]
          /\ UNCHANGED <<now, status, staked, unstake, unstakeAt, disputed, tokens>>
      BY <1>5 DEF RecordCompletion, request
    <2>2. TypeOK'
      BY <2>1 DEF TypeOK, MaxReputation
    <2>3. ActiveIsReputable'
      BY <2>1 DEF ActiveIsReputable, TypeOK, ActiveThreshold
    <2> QED
      BY <2>1, <2>2, <2>3
         DEF UnregisteredIsEmpty, Registered, RequestLeavesMinimum, OverclaimOnlyAfterSlash
  <1>6. ASSUME NEW o \in Operator, Slash(o)
        PROVE  RegistryInv'
    <2> DEFINE cut == SlashAmount(staked[o])
               points == Penalised(reputation[o])
    <2>1. cut \in Nat /\ staked[o] - cut \in Nat
      BY SlashWithinStake DEF TypeOK
    <2>2. points \in 0 .. MaxReputation
      BY PenaltyInRange DEF TypeOK
    <2>3. /\ TakeFromNode(o, cut)
          /\ staked' = [staked EXCEPT ![o] = staked[o] - cut]
          /\ disputed' = [disputed EXCEPT ![o] = disputed[o] + 1]
          /\ reputation' = [reputation EXCEPT ![o] = points]
          /\ status' = [status EXCEPT ![o] =
                           IF points < ActiveThreshold THEN "inactive" ELSE @]
          /\ UNCHANGED <<now, unstake, unstakeAt, completed>>
          /\ Registered(o)
      BY <1>6 DEF Slash, request
    <2> HIDE DEF cut, points
    <2>4. tokens' \in [TokenAccount -> Nat]
      <3> HIDE DEF RegistryInv
      <3> QED
        BY <1>0, <2>1, <2>3, TakeStep DEF DrawnFrom
    <2>5. TypeOK'
      BY <2>1, <2>2, <2>3, <2>4 DEF TypeOK, Status
    <2>6. UnregisteredIsEmpty'
      BY <2>3 DEF UnregisteredIsEmpty, Registered, TypeOK
    <2>7. ActiveIsReputable'
      BY <2>2, <2>3 DEF ActiveIsReputable, TypeOK, ActiveThreshold
    <2>8. OverclaimOnlyAfterSlash'
      BY <2>3 DEF OverclaimOnlyAfterSlash, TypeOK
    <2>9. RequestLeavesMinimum'
      <3> SUFFICES ASSUME NEW p \in Operator, status'[p] = "active", disputed'[p] = 0
                   PROVE  staked'[p] - unstake'[p] >= MinStake
        BY DEF RequestLeavesMinimum
      <3>1. p # o
        BY <2>3 DEF TypeOK
      <3> QED
        BY <2>3, <3>1 DEF RequestLeavesMinimum, TypeOK
    <2> QED
      BY <2>5, <2>6, <2>7, <2>8, <2>9
  <1>7. CASE Tick
    BY <1>7 DEF Tick, TypeOK, UnregisteredIsEmpty, Registered, RequestLeavesMinimum,
                ActiveIsReputable, OverclaimOnlyAfterSlash, request, record
  <1>8. CASE UNCHANGED vars
    BY <1>8 DEF vars, TypeOK, UnregisteredIsEmpty, Registered, RequestLeavesMinimum,
                ActiveIsReputable, OverclaimOnlyAfterSlash, request, record
  <1> QED
    BY <1>1, <1>2, <1>3, <1>4, <1>5, <1>6, <1>7, <1>8 DEF Next

\* The inductive invariant holds in every state of every behaviour.
THEOREM Invariance == Spec => []RegistryInv
  <1>1. Init => RegistryInv
    BY InitInv
  <1>2. RegistryInv /\ [Next]_vars => RegistryInv'
    BY StepInv
  <1> QED
    BY <1>1, <1>2, PTL DEF Spec

\* No stake or token account is ever negative and no reputation out of range.
THEOREM TypeCorrect == Spec => []TypeOK
  <1>1. RegistryInv => TypeOK
    BY DEF RegistryInv
  <1> QED
    BY <1>1, Invariance, PTL

\* An active node that was not slashed has the minimum stake on record.
THEOREM ActiveAlwaysKeepsMinStake == Spec => []ActiveKeepsMinStake
  <1>1. RegistryInv => ActiveKeepsMinStake
    BY RegistryAssumption DEF RegistryInv, TypeOK, RequestLeavesMinimum, ActiveKeepsMinStake
  <1> QED
    BY <1>1, Invariance, PTL

\* Tokens leave a node's stake account only in its own withdrawals and slashes, and no
\* more of them than its record falls by, whatever accounts callers name.
THEOREM VaultsFallWithRecords == Spec => VaultFallsWithRecord
  <1> DEFINE Falls(o) ==
          tokens'[o] < tokens[o] =>
              /\ tokens[o] - tokens'[o] <= staked[o] - staked'[o]
              /\ disputed'[o] > disputed[o] \/ (unstake[o] > 0 /\ now >= unstakeAt[o])
  <1>1. RegistryInv /\ [Next]_vars => [\A o \in Operator : Falls(o)]_vars
    <2> SUFFICES ASSUME RegistryInv, Next, NEW o \in Operator PROVE Falls(o)
      BY DEF vars
    <2>0. /\ TypeOK /\ tokens \in [TokenAccount -> Nat] /\ staked \in [Operator -> Nat]
          /\ unstake \in [Operator -> Nat] /\ disputed \in [Operator -> Nat]
          /\ \A p \in Operator : p \in TokenAccount /\ tokens[p] \in Nat
      BY AccountFacts DEF RegistryInv, TypeOK
    <2>1. ASSUME NoneDrawn PROVE Falls(o)
      BY <2>0, <2>1 DEF NoneDrawn
    <2>2. ASSUME NEW p \in Operator, NEW amount \in Nat, DrawnFrom(p, amount),
                 staked' = [staked EXCEPT ![p] = @ - amount],
                 disputed'[p] > disputed[p] \/ (unstake[p] > 0 /\ now >= unstakeAt[p])
          PROVE  Falls(o)
      <3>1. tokens'[o] \in Nat /\ tokens'[p] \in Nat
        BY <2>0, <2>2 DEF DrawnFrom
      <3>2. CASE o = p
        BY <2>0, <2>2, <3>1, <3>2 DEF DrawnFrom
      <3>3. CASE o # p
        BY <2>0, <2>2, <3>1, <3>3 DEF DrawnFrom
      <3> QED
        BY <3>2, <3>3
    <2>3. ASSUME NEW p \in Operator, NEW amount \in Amounts,
                 RegisterNode(p, amount) \/ AddStake(p, amount)
          PROVE  Falls(o)
      <3>1. PICK to \in TokenAccount : Deposit(p, amount, to) /\ amount \in Nat
        BY <2>0, <2>3, AccountFacts, RegistryAssumption DEF RegisterNode, AddStake
      <3>2. NoneDrawn
        BY <2>0, <3>1, DepositStep
      <3> QED
        BY <2>1, <3>2
    <2>4. ASSUME NEW p \in Operator, WithdrawStake(p) PROVE Falls(o)
      <3>1. TakeFromNode(p, unstake[p]) /\ unstake[p] \in Nat
        BY <2>0, <2>4 DEF WithdrawStake
      <3>2. DrawnFrom(p, unstake[p])
        BY <2>0, <3>1, TakeStep
      <3> QED
        BY <2>2, <2>4, <3>1, <3>2 DEF WithdrawStake
    <2>5. ASSUME NEW p \in Operator, Slash(p) PROVE Falls(o)
      <3> DEFINE cut == SlashAmount(staked[p])
      <3>1. /\ TakeFromNode(p, cut) /\ staked' = [staked EXCEPT ![p] = @ - cut]
            /\ disputed' = [disputed EXCEPT ![p] = @ + 1]
        BY <2>5 DEF Slash
      <3>2. cut \in Nat
        BY <2>0, SlashWithinStake
      <3> HIDE DEF cut
      <3>3. disputed'[p] > disputed[p]
        BY <2>0, <3>1
      <3>4. DrawnFrom(p, cut)
        BY <2>0, <3>1, <3>2, TakeStep
      <3> QED
        BY <2>2, <3>1, <3>2, <3>3, <3>4
    <2>6. ASSUME NEW p \in Operator, NEW amount \in Amounts, BeginUnstake(p, amount)
          PROVE  UNCHANGED tokens
      BY <2>6 DEF BeginUnstake
    <2>7. ASSUME NEW p \in Operator, RecordCompletion(p) PROVE UNCHANGED tokens
      BY <2>7 DEF RecordCompletion
    <2>8. ASSUME Tick PROVE UNCHANGED tokens
      BY <2>8 DEF Tick
    <2>9. ASSUME UNCHANGED tokens PROVE Falls(o)
      BY <2>0, <2>9
    <2> QED
      BY <2>3, <2>4, <2>5, <2>6, <2>7, <2>8, <2>9 DEF Next
  <1> QED
    BY <1>1, Invariance, PTL DEF Spec, VaultFallsWithRecord

\* An active node's reputation is at least the deactivation threshold.
THEOREM ActiveAlwaysReputable == Spec => []ActiveIsReputable
  <1>1. RegistryInv => ActiveIsReputable
    BY DEF RegistryInv
  <1> QED
    BY <1>1, Invariance, PTL

\* A request can exceed the stake, and its withdrawal fail, only after a slash.
THEOREM OverclaimNeedsSlash == Spec => []OverclaimOnlyAfterSlash
  <1>1. RegistryInv => OverclaimOnlyAfterSlash
    BY DEF RegistryInv
  <1> QED
    BY <1>1, Invariance, PTL

\* Nothing activates a node a second time.
THEOREM DeactivationStays == Spec => DeactivationIsFinal
  <1> DEFINE Stays == \A o \in Operator : status[o] = "inactive" => status'[o] = "inactive"
  <1>1. RegistryInv /\ [Next]_vars => [Stays]_vars
    <2> SUFFICES ASSUME RegistryInv, Next, NEW o \in Operator, status[o] = "inactive"
                 PROVE  status'[o] = "inactive"
      BY DEF vars
    <2>1. status \in [Operator -> Status]
      BY DEF RegistryInv, TypeOK
    <2>2. ASSUME NEW p \in Operator, NEW amount \in Amounts,
                 RegisterNode(p, amount) \/ AddStake(p, amount) \/ BeginUnstake(p, amount)
          PROVE  status'[o] = "inactive"
      BY <2>1, <2>2 DEF RegisterNode, Registered, AddStake, BeginUnstake
    <2>3. ASSUME NEW p \in Operator, WithdrawStake(p) \/ RecordCompletion(p) \/ Slash(p)
          PROVE  status'[o] = "inactive"
      BY <2>1, <2>3 DEF WithdrawStake, RecordCompletion, Slash
    <2>4. CASE Tick
      BY <2>4 DEF Tick
    <2> QED
      BY <2>2, <2>3, <2>4 DEF Next
  <1> QED
    BY <1>1, Invariance, PTL DEF Spec, DeactivationIsFinal

-----------------------------------------------------------------------------
(* The tokens. *)

\* What is in the accounts of one mint, stake accounts and others, wherever it is.
OfMint(m) == {a \in TokenAccount : mintOf[a] = m}
TokensOf(m, t) == SumOver(t, OfMint(m))

\* A transfer the token program admits leaves what there is of each mint.
LEMMA AdmittedKeepsTokens ==
    ASSUME IsFiniteSet(Account), IsFiniteSet(Operator), TypeOK, NEW m,
           NEW from \in TokenAccount, NEW to \in TokenAccount, NEW amount \in Nat,
           CanTransfer(tokens, mintOf, from, to, amount),
           tokens' = Transfer(tokens, from, to, amount)
    PROVE  TokensOf(m, tokens') = TokensOf(m, tokens)
  <1>1. IsFiniteSet(TokenAccount)
    BY FS_Union DEF TokenAccount
  <1>2. tokens[from] >= amount /\ (from \in OfMint(m) <=> to \in OfMint(m))
    BY DEF CanTransfer, OfMint
  <1>3. OfMint(m) \in SUBSET TokenAccount /\ tokens \in [TokenAccount -> Nat]
    BY DEF OfMint, TypeOK
  <1>4. SumOver(Transfer(tokens, from, to, amount), OfMint(m)) = SumOver(tokens, OfMint(m))
    BY <1>1, <1>2, <1>3, TransferKeepsSum
  <1> QED
    BY <1>4 DEF TokensOf

\* Every step moves tokens and makes or destroys none.
LEMMA StepConserves ==
    ASSUME IsFiniteSet(Account), IsFiniteSet(Operator), RegistryInv, [Next]_vars, NEW m
    PROVE  TokensOf(m, tokens') = TokensOf(m, tokens)
  <1>0. TypeOK /\ \A o \in Operator : staked[o] \in Nat /\ unstake[o] \in Nat
    BY DEF RegistryInv, TypeOK
  <1>1. ASSUME NEW o \in Operator, NEW amount \in Amounts, RegisterNode(o, amount) \/ AddStake(o, amount)
        PROVE  TokensOf(m, tokens') = TokensOf(m, tokens)
    <2>1. PICK to \in TokenAccount : Deposit(o, amount, to) /\ amount \in Nat
      BY <1>1, AccountFacts, RegistryAssumption DEF RegisterNode, AddStake
    <2>2. PICK from \in TokenAccount : /\ CanTransfer(tokens, mintOf, from, to, amount)
                                       /\ tokens' = Transfer(tokens, from, to, amount)
      BY <2>1, AccountFacts DEF Deposit
    <2> QED
      BY <1>0, <2>1, <2>2, AdmittedKeepsTokens
  <1>2. ASSUME NEW o \in Operator, NEW amount \in Nat, TakeFromNode(o, amount)
        PROVE  TokensOf(m, tokens') = TokensOf(m, tokens)
    <2>1. PICK from \in TokenAccount, to \in TokenAccount :
              /\ CanTransfer(tokens, mintOf, from, to, amount)
              /\ tokens' = Transfer(tokens, from, to, amount)
      BY <1>2, AccountFacts DEF TakeFromNode
    <2> QED
      BY <1>0, <2>1, AdmittedKeepsTokens
  <1>3. ASSUME NEW o \in Operator, WithdrawStake(o) \/ Slash(o)
        PROVE  TokensOf(m, tokens') = TokensOf(m, tokens)
    <2>1. SlashAmount(staked[o]) \in Nat
      BY <1>0, SlashWithinStake
    <2> QED
      BY <1>0, <1>2, <1>3, <2>1 DEF WithdrawStake, Slash
  <1>4. ASSUME NEW o \in Operator, NEW amount \in Amounts, BeginUnstake(o, amount)
        PROVE  UNCHANGED tokens
    BY <1>4 DEF BeginUnstake
  <1>5. ASSUME NEW o \in Operator, RecordCompletion(o) PROVE UNCHANGED tokens
    BY <1>5 DEF RecordCompletion
  <1>6. ASSUME Tick \/ UNCHANGED vars PROVE UNCHANGED tokens
    BY <1>6 DEF Tick, vars
  <1> QED
    BY <1>1, <1>3, <1>4, <1>5, <1>6 DEF Next

\* Staking, withdrawing and slashing in any order, between whatever accounts callers
\* name (lib.rs), move tokens and change the total of no mint: nothing is withdrawn twice.
THEOREM StakesAlwaysConserved ==
    ASSUME IsFiniteSet(Account), IsFiniteSet(Operator), NEW m
    PROVE  Spec => [](TokensOf(m, tokens) = SumOver(InitialTokens, OfMint(m) \intersect Account))
  <1> DEFINE Conserved == TokensOf(m, tokens) = SumOver(InitialTokens, OfMint(m) \intersect Account)
  <1>1. Init => Conserved
    <2> SUFFICES ASSUME Init PROVE Conserved
      OBVIOUS
    <2> DEFINE S == OfMint(m) \intersect Account
               E == OfMint(m) \intersect Operator
    <2>1. /\ \A a \in E : tokens[a] = 0 /\ tokens[a] \in Int
          /\ \A a \in S : tokens[a] = InitialTokens[a] /\ tokens[a] \in Int /\ InitialTokens[a] \in Int
      BY RegistryAssumption DEF Init, TokenAccount
    <2>2. IsFiniteSet(S) /\ IsFiniteSet(E)
      BY FS_Intersection
    <2>3. S \intersect E = {} /\ OfMint(m) = S \union E
      BY RegistryAssumption DEF OfMint, TokenAccount
    <2> HIDE DEF S, E
    <2>4. SumOver(tokens, E) = 0
      BY <2>1, <2>2, SumOfZeros
    <2>5. SumOver(tokens, S) = SumOver(InitialTokens, S) /\ SumOver(tokens, S) \in Int
      BY <2>1, <2>2, SumAgrees, SumIsInteger
    <2>6. \A a \in S \union E : tokens[a] \in Int
      BY <2>1
    <2>7. SumOver(tokens, S \union E) = SumOver(tokens, S) + SumOver(tokens, E)
      BY <2>2, <2>3, <2>6, SumUnion
    <2>8. SumOver(tokens, OfMint(m)) = SumOver(InitialTokens, S)
      BY <2>3, <2>4, <2>5, <2>7
    <2> QED
      BY <2>8 DEF TokensOf, S
  <1>2. RegistryInv /\ Conserved /\ [Next]_vars => Conserved'
    BY StepConserves
  <1> QED
    BY <1>1, <1>2, Invariance, PTL DEF Spec
=============================================================================
